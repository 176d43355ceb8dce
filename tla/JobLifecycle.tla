---------------------------- MODULE JobLifecycle ----------------------------
(***************************************************************************)
(* The life of jobs inside one AsyncJobManager (src/src/                   *)
(* async-job-manager.ts): startHttpJob and startJobWithDedup, launch and   *)
(* launchProcessJob, cancelJob, the queue-wait and idle timers, the close  *)
(* event, finalizeHttpJob, evictCompletedJobs, and the terminal path       *)
(* persistComplete -> fireOnComplete.  Every `await' of a store call is a  *)
(* point where other handlers run; the code between two awaits is a step.  *)
(*                                                                         *)
(* The limiter is what JobLimiter says of it: a permit given back is       *)
(* handed on, in the same synchronous step, to a waiter that can use it.   *)
(* `pumping' disables everything else until that is done.  Jobs of other   *)
(* instances, the lease sweep and Kit jobs are not part of this module.    *)
(***************************************************************************)
EXTENDS Naturals, FiniteSets

CONSTANTS
    ProcessJobs,   \* jobs run by a child process
    HttpJobs,      \* jobs run by an outbound request
    DeferredJobs,  \* those started with deferLaunch
    MaxRunning,    \* the running limit
    Pooled         \* the store is a connection pool (PostgreSQL)

Jobs == ProcessJobs \cup HttpJobs

ASSUME JobsAssumption ==
    /\ ProcessJobs \cap HttpJobs = {}
    /\ DeferredJobs \subseteq Jobs
    /\ IsFiniteSet(Jobs)
    /\ MaxRunning \in Nat \ {0}
    /\ Pooled \in BOOLEAN

VARIABLES
    status,      \* job.status; "none" before the job exists
    slot,        \* its permit: "none", "waiting", "held", "back"
    pumping,     \* a permit was given back and pump() has not ended
    start,       \* the start call: "none", "recording", "done", "refused"
    queuedFirst, \* acquire() said "queued": acq.state when recordStart returns
    wired,       \* job.limiterPermit is set
    cancelable,  \* job.queueCancel is set
    released,    \* launchReleased
    launch,      \* launch(): "none", "starting", "marking", "over"
    child,       \* child or request: "none", "alive", "exited", "closed"
    outcome,     \* how a child ended
    killing,     \* job.terminationRequested
    closeSeen,   \* job.closeObserved
    pending,     \* terminal pipelines waiting for the job's write chain
    retry,       \* the terminal retry timer is armed
    persisted,   \* job.terminalPersisted
    row          \* status of the durable row

memVars   == <<status, start, queuedFirst, cancelable, released, closeSeen>>
limitVars == <<slot, pumping, wired>>
runVars   == <<launch, child, outcome, killing>>
endVars   == <<pending, retry, persisted, row>>
vars == <<memVars, limitVars, runVars, endVars>>

Results == {"completed", "failed", "canceled"}
Ended(j) == status[j] \in Results

Init ==
    /\ status = [j \in Jobs |-> "none"]
    /\ slot = [j \in Jobs |-> "none"]
    /\ pumping = FALSE
    /\ start = [j \in Jobs |-> "none"]
    /\ queuedFirst = [j \in Jobs |-> FALSE]
    /\ wired = [j \in Jobs |-> FALSE]
    /\ cancelable = [j \in Jobs |-> FALSE]
    /\ released = [j \in Jobs |-> j \notin DeferredJobs]
    /\ launch = [j \in Jobs |-> "none"]
    /\ child = [j \in Jobs |-> "none"]
    /\ outcome = [j \in Jobs |-> "none"]
    /\ killing = [j \in Jobs |-> FALSE]
    /\ closeSeen = [j \in Jobs |-> FALSE]
    /\ pending = [j \in Jobs |-> 0]
    /\ retry = [j \in Jobs |-> FALSE]
    /\ persisted = [j \in Jobs |-> FALSE]
    /\ row = [j \in Jobs |-> "none"]

-----------------------------------------------------------------------------
(* What the handlers share.                                                 *)

Holders == {j \in Jobs : slot[j] = "held"}
Room == Cardinality(Holders) < MaxRunning

\* A store call of some job is in flight.
StoreBusy ==
    \E j \in Jobs : start[j] = "recording" \/ launch[j] \in {"starting", "marking"} \/ pending[j] > 0

\* SQLite answers within the microtasks that follow the call, before the next
\* timer, child or network event; a pool does not.
EventDelivered == ~pumping /\ (Pooled \/ ~StoreBusy)

\* A terminal handler starts persistComplete().
BeginEnd(j, result) ==
    /\ status' = [status EXCEPT ![j] = result]
    /\ pending' = [pending EXCEPT ![j] = @ + 1]

\* releaseJobPermit(): once, and only if the permit has been wired.
ReleasePermit(j) ==
    IF wired[j]
    THEN /\ wired' = [wired EXCEPT ![j] = FALSE]
         /\ slot' = [slot EXCEPT ![j] = "back"]
         /\ pumping' = TRUE
    ELSE UNCHANGED limitVars

\* The synchronous part of launch(permit): the job runs, or it already ended
\* and the permit goes straight back.
Launch(j) ==
    \/ /\ status[j] = "queued"
       /\ status' = [status EXCEPT ![j] = "running"]
       /\ launch' = [launch EXCEPT ![j] = "starting"]
       /\ wired' = [wired EXCEPT ![j] = TRUE]
       /\ slot' = [slot EXCEPT ![j] = "held"]
       /\ UNCHANGED pumping
    \/ /\ status[j] # "queued"
       /\ wired' = [wired EXCEPT ![j] = FALSE]
       /\ slot' = [slot EXCEPT ![j] = "back"]
       /\ pumping' = TRUE
       /\ UNCHANGED <<status, launch>>

-----------------------------------------------------------------------------
(* Starting a job.                                                          *)

\* acquire(), then the recordStart call is on its way.
Start(j) ==
    /\ ~pumping
    /\ status[j] = "none"
    /\ status' = [status EXCEPT ![j] = "queued"]
    /\ start' = [start EXCEPT ![j] = "recording"]
    /\ slot' = [slot EXCEPT ![j] = IF Room THEN "held" ELSE "waiting"]
    /\ queuedFirst' = [queuedFirst EXCEPT ![j] = ~Room]
    /\ UNCHANGED <<pumping, wired, cancelable, released, closeSeen, runVars, endVars>>

\* recordStart returned: a granted job is launched or, deferred, keeps its permit
\* for later; a queued one can now be cancelled out of the queue.
RecordStartSucceeds(j) ==
    /\ ~pumping
    /\ start[j] = "recording"
    /\ start' = [start EXCEPT ![j] = "done"]
    /\ row' = [row EXCEPT ![j] = "queued"]
    /\ \/ /\ queuedFirst[j]
          /\ cancelable' = [cancelable EXCEPT ![j] = TRUE]
          /\ UNCHANGED <<status, launch, limitVars>>
       \/ /\ ~queuedFirst[j] /\ released[j]
          /\ Launch(j)
          /\ UNCHANGED cancelable
       \/ /\ ~queuedFirst[j] /\ ~released[j]
          /\ wired' = [wired EXCEPT ![j] = TRUE]
          /\ UNCHANGED <<status, cancelable, launch, slot, pumping>>
    /\ UNCHANGED <<queuedFirst, released, closeSeen, child, outcome, killing,
                   pending, retry, persisted>>

\* recordStartOrFailClosed: a granted permit is given back; cancel() removes a
\* waiter, and does nothing for one that was granted meanwhile.
RecordStartFails(j) ==
    /\ ~pumping
    /\ start[j] = "recording"
    /\ start' = [start EXCEPT ![j] = "refused"]
    /\ IF queuedFirst[j]
       THEN slot' = [slot EXCEPT ![j] = IF @ = "waiting" THEN "none" ELSE @]
            /\ UNCHANGED pumping
       ELSE slot' = [slot EXCEPT ![j] = "back"] /\ pumping' = TRUE
    /\ UNCHANGED <<status, queuedFirst, cancelable, released, closeSeen, wired,
                   runVars, endVars>>

\* deferredLaunch.release().
ReleaseLaunch(j) ==
    /\ ~pumping
    /\ start[j] = "done" /\ ~released[j]
    /\ released' = [released EXCEPT ![j] = TRUE]
    /\ \/ /\ status[j] = "queued" /\ wired[j]
          /\ Launch(j)
       \/ /\ status[j] # "queued" \/ ~wired[j]
          /\ UNCHANGED <<status, launch, limitVars>>
    /\ UNCHANGED <<start, queuedFirst, cancelable, closeSeen, child, outcome, killing, endVars>>

\* pump() calls grantOrHold.
Grant(j) ==
    /\ pumping
    /\ slot[j] = "waiting"
    /\ Room
    /\ cancelable' = [cancelable EXCEPT ![j] = FALSE]
    /\ \/ /\ released[j]
          /\ Launch(j)
       \/ /\ ~released[j]
          /\ slot' = [slot EXCEPT ![j] = "held"]
          /\ wired' = [wired EXCEPT ![j] = TRUE]
          /\ UNCHANGED <<status, launch, pumping>>
    /\ UNCHANGED <<start, queuedFirst, released, closeSeen, child, outcome, killing, endVars>>

PumpEnds ==
    /\ pumping
    /\ ~Room \/ \A j \in Jobs : slot[j] # "waiting"
    /\ pumping' = FALSE
    /\ UNCHANGED <<memVars, slot, wired, runVars, endVars>>

-----------------------------------------------------------------------------
(* launch() after its first await.                                          *)

\* The child is spawned; or a request job asks for its durable transition.
LaunchContinues(j) ==
    /\ ~pumping
    /\ launch[j] = "starting"
    /\ launch' = [launch EXCEPT ![j] = "marking"]
    /\ child' = IF j \in ProcessJobs THEN [child EXCEPT ![j] = "alive"] ELSE child
    /\ UNCHANGED <<memVars, limitVars, outcome, killing, endVars>>

\* spawn() threw: the catch of launch().
SpawnFails(j) ==
    /\ ~pumping
    /\ launch[j] = "starting" /\ j \in ProcessJobs
    /\ launch' = [launch EXCEPT ![j] = "over"]
    /\ BeginEnd(j, "failed")
    /\ closeSeen' = [closeSeen EXCEPT ![j] = TRUE]
    /\ UNCHANGED <<start, queuedFirst, cancelable, released, limitVars,
                   child, outcome, killing, retry, persisted, row>>

\* A call of the serial store commits after the calls made before it.
MayMark(j) == Pooled \/ start[j] # "recording"

\* markRunning returned: the child's handlers are attached, or the request sent.
\* A child is killed unless a queued row became running.
MarkReturns(j) ==
    /\ ~pumping
    /\ launch[j] = "marking"
    /\ MayMark(j)
    /\ launch' = [launch EXCEPT ![j] = "over"]
    /\ child' = IF j \in HttpJobs THEN [child EXCEPT ![j] = "alive"] ELSE child
    /\ \/ /\ row[j] = "queued"
          /\ row' = [row EXCEPT ![j] = "running"]
          /\ UNCHANGED killing
       \/ /\ killing' = [killing EXCEPT ![j] = @ \/ j \in ProcessJobs]
          /\ UNCHANGED row
    /\ UNCHANGED <<memVars, limitVars, outcome, pending, retry, persisted>>

-----------------------------------------------------------------------------
(* Ends.                                                                    *)

\* A child ends, by itself or killed.
ChildExits(j) ==
    /\ EventDelivered
    /\ j \in ProcessJobs /\ child[j] = "alive"
    /\ child' = [child EXCEPT ![j] = "exited"]
    /\ \E r \in {"completed", "failed"} :
         /\ killing[j] => r = "failed"
         /\ outcome' = [outcome EXCEPT ![j] = r]
    /\ UNCHANGED <<memVars, limitVars, launch, killing, endVars>>

\* Defect: a close handler that decides the result of a job already ended.
ChildCloses_Decides(j) ==
    /\ EventDelivered
    /\ child[j] = "exited"
    /\ child' = [child EXCEPT ![j] = "closed"]
    /\ \/ /\ launch[j] = "marking"
          /\ UNCHANGED <<status, closeSeen, pending>>
       \/ /\ launch[j] = "over"
          /\ closeSeen' = [closeSeen EXCEPT ![j] = TRUE]
          /\ BeginEnd(j, IF killing[j] THEN "failed" ELSE outcome[j])
    /\ UNCHANGED <<start, queuedFirst, cancelable, released, limitVars, launch,
                   outcome, killing, retry, persisted, row>>

\* `close' is emitted.  The handlers are attached after markRunning returned; an
\* earlier `close' has no listener.
ChildCloses(j) ==
    /\ EventDelivered
    /\ child[j] = "exited"
    /\ child' = [child EXCEPT ![j] = "closed"]
    /\ \/ /\ launch[j] = "marking"
          /\ UNCHANGED <<status, closeSeen, pending>>
       \/ /\ launch[j] = "over"
          /\ closeSeen' = [closeSeen EXCEPT ![j] = TRUE]
          /\ \/ status[j] # "running" /\ BeginEnd(j, status[j])
             \/ status[j] = "running" /\ BeginEnd(j, IF killing[j] THEN "failed" ELSE outcome[j])
    /\ UNCHANGED <<start, queuedFirst, cancelable, released, limitVars, launch,
                   outcome, killing, retry, persisted, row>>

\* finalizeHttpJob, when the request settles or its abort is seen.
RequestSettles(j) ==
    /\ EventDelivered
    /\ j \in HttpJobs /\ child[j] = "alive"
    /\ child' = [child EXCEPT ![j] = "closed"]
    /\ closeSeen' = [closeSeen EXCEPT ![j] = TRUE]
    /\ \/ status[j] = "canceled" /\ BeginEnd(j, "canceled")
       \/ status[j] = "running" /\ \E r \in {"completed", "failed"} : BeginEnd(j, r)
    /\ UNCHANGED <<start, queuedFirst, cancelable, released, limitVars, launch,
                   outcome, killing, retry, persisted, row>>

\* The idle timer, armed with the handlers (an output overflow does the same).
IdleTimeout(j) ==
    /\ EventDelivered
    /\ j \in ProcessJobs /\ launch[j] = "over"
    /\ status[j] = "running" /\ ~killing[j]
    /\ killing' = [killing EXCEPT ![j] = TRUE]
    /\ BeginEnd(j, "failed")
    /\ UNCHANGED <<start, queuedFirst, cancelable, released, closeSeen, limitVars,
                   launch, child, outcome, retry, persisted, row>>

\* failQueuedJob, from the timer of the queue wait.
QueueTimeout(j) ==
    /\ EventDelivered
    /\ slot[j] = "waiting"
    /\ slot' = [slot EXCEPT ![j] = "none"]
    /\ \/ /\ status[j] = "queued"
          /\ BeginEnd(j, "failed")
          /\ cancelable' = [cancelable EXCEPT ![j] = FALSE]
          /\ closeSeen' = [closeSeen EXCEPT ![j] = TRUE]
       \/ /\ status[j] # "queued"
          /\ UNCHANGED <<status, pending, cancelable, closeSeen>>
    /\ UNCHANGED <<pumping, wired, start, queuedFirst, released, runVars,
                   retry, persisted, row>>

\* cancelJob on a queued job.  A caller knows a job by the answer to its start
\* call, or from the list of running jobs.
CancelQueued(j) ==
    /\ ~pumping
    /\ start[j] = "done" /\ status[j] = "queued"
    /\ BeginEnd(j, "canceled")
    /\ closeSeen' = [closeSeen EXCEPT ![j] = TRUE]
    /\ cancelable' = [cancelable EXCEPT ![j] = FALSE]
    /\ released' = [released EXCEPT ![j] = TRUE]
    /\ \/ /\ slot[j] = "waiting" /\ cancelable[j]
          /\ slot' = [slot EXCEPT ![j] = "none"]
          /\ UNCHANGED <<pumping, wired>>
       \/ /\ slot[j] # "waiting"
          /\ ReleasePermit(j)
    /\ UNCHANGED <<start, queuedFirst, runVars, retry, persisted, row>>

\* cancelJob on a running job; refused for a process job not yet spawned.
CancelRunning(j) ==
    /\ ~pumping
    /\ status[j] = "running"
    /\ start[j] # "refused"
    /\ j \in ProcessJobs => child[j] # "none"
    /\ killing' = [killing EXCEPT ![j] = @ \/ j \in ProcessJobs]
    /\ BeginEnd(j, "canceled")
    /\ UNCHANGED <<start, queuedFirst, cancelable, released, closeSeen, limitVars,
                   launch, child, outcome, retry, persisted, row>>

\* Defect: an eviction that looks only at children whose close was handled.
DeadProcessFound_AfterClose(j) ==
    /\ EventDelivered
    /\ start[j] # "refused"
    /\ status[j] = "running" /\ closeSeen[j] /\ j \in ProcessJobs
    /\ BeginEnd(j, "failed")
    /\ UNCHANGED <<start, queuedFirst, cancelable, released, closeSeen, limitVars,
                   runVars, retry, persisted, row>>

\* evictCompletedJobs: a running job whose process does not exist has failed.
DeadProcessFound(j) ==
    /\ EventDelivered
    /\ start[j] # "refused"
    /\ status[j] = "running" /\ child[j] \in {"exited", "closed"} /\ j \in ProcessJobs
    /\ BeginEnd(j, "failed")
    /\ UNCHANGED <<start, queuedFirst, cancelable, released, closeSeen, limitVars,
                   runVars, retry, persisted, row>>

-----------------------------------------------------------------------------
(* The terminal path, one pipeline of a job at a time.                      *)

MayPersist(j) ==
    /\ ~pumping
    /\ pending[j] > 0
    /\ Pooled \/ (start[j] # "recording" /\ launch[j] # "marking")

\* Defect: recordComplete for running rows only.
RecordComplete_RunningOnly(j) ==
    row' = IF row[j] = "running" THEN [row EXCEPT ![j] = status[j]] ELSE row

\* recordComplete: an open row takes the result; a row that does not exist, or
\* is closed, matches nothing, and the write is settled all the same.
RecordComplete(j) ==
    row' = IF row[j] \in {"queued", "running"} THEN [row EXCEPT ![j] = status[j]] ELSE row

\* persistComplete, then fireOnComplete.  (finalizeHttpJob of a cancelled job ends with
\* the write; the cancel's own pipeline, ahead of it, has released the permit.)
Persist(j) ==
    /\ MayPersist(j)
    /\ IF persisted[j] THEN UNCHANGED row ELSE RecordComplete(j)
    /\ persisted' = [persisted EXCEPT ![j] = TRUE]
    /\ pending' = [pending EXCEPT ![j] = @ - 1]
    /\ ReleasePermit(j)
    /\ UNCHANGED <<memVars, runVars, retry>>

\* Defect: a failed terminal write returns before fireOnComplete.
PersistFails_Returns(j) ==
    /\ MayPersist(j)
    /\ ~persisted[j]
    /\ pending' = [pending EXCEPT ![j] = @ - 1]
    /\ UNCHANGED <<memVars, limitVars, runVars, retry, persisted, row>>

\* recordComplete throws: it is retried if the end of the child is proved, and
\* fireOnComplete runs all the same.
PersistFails(j) ==
    /\ MayPersist(j)
    /\ ~persisted[j]
    /\ pending' = [pending EXCEPT ![j] = @ - 1]
    /\ retry' = [retry EXCEPT ![j] = @ \/ closeSeen[j]]
    /\ ReleasePermit(j)
    /\ UNCHANGED <<memVars, runVars, persisted, row>>

RetryTimer(j) ==
    /\ EventDelivered
    /\ retry[j]
    /\ retry' = [retry EXCEPT ![j] = FALSE]
    /\ pending' = [pending EXCEPT ![j] = @ + 1]
    /\ UNCHANGED <<memVars, limitVars, runVars, persisted, row>>

-----------------------------------------------------------------------------
Next ==
    \/ PumpEnds
    \/ \E j \in Jobs :
         \/ Start(j) \/ RecordStartSucceeds(j) \/ RecordStartFails(j)
         \/ ReleaseLaunch(j) \/ Grant(j)
         \/ LaunchContinues(j) \/ SpawnFails(j) \/ MarkReturns(j)
         \/ ChildExits(j) \/ ChildCloses(j) \/ RequestSettles(j)
         \/ IdleTimeout(j) \/ QueueTimeout(j)
         \/ CancelQueued(j) \/ CancelRunning(j) \/ DeadProcessFound(j)
         \/ Persist(j) \/ PersistFails(j) \/ RetryTimer(j)

\* A store call that is asked again succeeds in the end, handlers that are due run,
\* children and requests end (they are bounded by their own timers), and the
\* caller of a deferred start releases or cancels it.
Fairness ==
    /\ WF_vars(PumpEnds)
    /\ \A j \in Jobs :
         /\ WF_vars(Grant(j))
         /\ WF_vars(RecordStartSucceeds(j) \/ RecordStartFails(j))
         /\ WF_vars(ReleaseLaunch(j))
         /\ WF_vars(LaunchContinues(j) \/ SpawnFails(j))
         /\ WF_vars(MarkReturns(j))
         /\ WF_vars(ChildExits(j))
         /\ WF_vars(ChildCloses(j))
         /\ WF_vars(RequestSettles(j))
         /\ WF_vars(QueueTimeout(j))
         /\ WF_vars(DeadProcessFound(j))
         /\ SF_vars(Persist(j))
         /\ WF_vars(RetryTimer(j))

SafetySpec == Init /\ [][Next]_vars
Spec == SafetySpec /\ Fairness

-----------------------------------------------------------------------------
(* Properties.                                                              *)

StageTypes ==
    /\ status \in [Jobs -> Results \cup {"none", "queued", "running"}]
    /\ slot \in [Jobs -> {"none", "waiting", "held", "back"}]
    /\ start \in [Jobs -> {"none", "recording", "done", "refused"}]
    /\ launch \in [Jobs -> {"none", "starting", "marking", "over"}]
    /\ child \in [Jobs -> {"none", "alive", "exited", "closed"}]
    /\ outcome \in [Jobs -> {"none", "completed", "failed"}]
    /\ pending \in [Jobs -> Nat]
    /\ row \in [Jobs -> Results \cup {"none", "queued", "running"}]

FlagTypes ==
    /\ queuedFirst \in [Jobs -> BOOLEAN] /\ wired \in [Jobs -> BOOLEAN]
    /\ cancelable \in [Jobs -> BOOLEAN] /\ released \in [Jobs -> BOOLEAN]
    /\ killing \in [Jobs -> BOOLEAN] /\ closeSeen \in [Jobs -> BOOLEAN]
    /\ retry \in [Jobs -> BOOLEAN] /\ persisted \in [Jobs -> BOOLEAN]

TypeOK == pumping \in BOOLEAN /\ StageTypes /\ FlagTypes

\* Nothing of the job is in progress or waiting for a timer.
Quiet(j) ==
    /\ start[j] \in {"done", "refused"}
    /\ launch[j] \in {"none", "over"}
    /\ child[j] \in {"none", "closed"}
    /\ pending[j] = 0 /\ ~retry[j]

PermitsWithinLimit == Cardinality(Holders) <= MaxRunning

\* Every running job holds one of the permits, and there are no more of them than
\* the limit, whatever grants, cancels and timeouts race a start call.
RunningWithinLimit ==
    /\ PermitsWithinLimit
    /\ \A j \in Jobs : status[j] = "running" => slot[j] = "held"

\* The permit of a job that ended is given back, "exactly once regardless of which
\* callback fires first" (async-job-manager.ts:3264-3268): also when the job ended
\* before its permit was wired, or its write failed.
PermitReturned ==
    \A j \in Jobs : Quiet(j) /\ Ended(j) => slot[j] \in {"none", "back"}

\* A result is final: no racing handler (cancel, close, idle timer, dead-process
\* sweep, a settling request) replaces it, so the row, the hooks and the snapshots
\* agree.
ResultFinalStep == \A j \in Jobs : Ended(j) => status'[j] = status[j]
ResultFinal == [][ResultFinalStep]_vars

\* Once a job is over and its writes have drained its row shows its result.
RowSettled ==
    \A j \in Jobs : Quiet(j) /\ Ended(j) /\ start[j] = "done" => row[j] = status[j]

\* "Close is the positive death proof for every process termination path"
\* (async-job-manager.ts:5086-5088): its handler sees every close.
CloseSeen ==
    \A j \in ProcessJobs : child[j] = "closed" => closeSeen[j]

\* Every admitted job ends, even one whose close nobody was listening for.
JobsEnd == \A j \in Jobs : status[j] # "none" ~> Ended(j) \/ start[j] = "refused"
=============================================================================
