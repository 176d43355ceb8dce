------------------------------ MODULE Shutdown ------------------------------
(***************************************************************************)
(* AsyncJobManager.dispose() (src/src/async-job-manager.ts) against what   *)
(* may be in flight when the gateway is told to stop: the registration of  *)
(* the instance at startup, a heartbeat tick, its repair of a collected    *)
(* instance row, its recovery of admission, start calls waiting for the    *)
(* store, and process jobs at every point of their launch and end.         *)
(*                                                                         *)
(* Of a job this module keeps what dispose() looks at; JobLifecycle has    *)
(* the rest, and JobLeases the lease.  The sweep that follows a recovery,  *)
(* jobs run by a request and Kit jobs are left out.                        *)
(***************************************************************************)
EXTENDS Naturals

CONSTANTS
    Jobs,    \* process jobs
    Pooled   \* the store is a connection pool (PostgreSQL)

ASSUME PooledAssumption == Pooled \in BOOLEAN

VARIABLES
    phase,     \* how far dispose() is; `disposed' is phase # "up"
    expired,   \* its deadline has passed
    awaited,   \* jobs whose terminal writes it is waiting for
    dereg,     \* deregisterInstance: "none", "sent", "applied", "failed"
    admission, \* durableAdmission
    inst,      \* this instance's row of gateway_instances exists
    thread,    \* where the startup and heartbeat coroutines wait
    start,     \* a start call: "none", "calling", "recording", "done", "refused"
    launch,    \* launch(): "none", "starting", "marking", "over"
    status,    \* job.status, all results as one
    child,     \* the child: "none", "alive", "closed"
    killing,   \* it was sent a signal
    closeSeen, \* job.closeObserved
    pending,   \* terminal writes on their way
    retry,     \* the terminal retry timer is armed
    settled,   \* job.terminalPersisted
    captured,  \* job.capturePersisted
    row        \* the durable row: "none", "open", "closed"

disposeVars == <<phase, expired, awaited, dereg>>
leaseVars   == <<admission, inst, thread>>
runVars     == <<start, launch, child, killing>>
memVars     == <<status, closeSeen>>
writeVars   == <<pending, retry>>
doneVars    == <<settled, captured, row>>
jobVars     == <<runVars, memVars, writeVars, doneVars>>
vars == <<disposeVars, leaseVars, jobVars>>

Threads == {"startup", "tick"}
Disposed == phase # "up"
Ended(j) == status[j] = "ended"

\* A refused start removes its job from the manager's map, and with it from
\* everything dispose() looks at.
Tracked(j) == start[j] # "refused"

\* The constructor has sent the registration and armed the heartbeat timer.
Init ==
    /\ phase = "up"
    /\ expired = FALSE
    /\ awaited = {}
    /\ dereg = "none"
    /\ admission = FALSE
    /\ inst = FALSE
    /\ thread = [t \in Threads |-> IF t = "startup" THEN "registering" ELSE "idle"]
    /\ start = [j \in Jobs |-> "none"]
    /\ launch = [j \in Jobs |-> "none"]
    /\ status = [j \in Jobs |-> "none"]
    /\ child = [j \in Jobs |-> "none"]
    /\ killing = [j \in Jobs |-> FALSE]
    /\ closeSeen = [j \in Jobs |-> FALSE]
    /\ pending = [j \in Jobs |-> 0]
    /\ retry = [j \in Jobs |-> FALSE]
    /\ settled = [j \in Jobs |-> FALSE]
    /\ captured = [j \in Jobs |-> FALSE]
    /\ row = [j \in Jobs |-> "none"]

\* A store call is in flight.
StoreBusy ==
    \/ \E t \in Threads : thread[t] # "idle"
    \/ dereg = "sent"
    \/ \E j \in Jobs :
         \/ start[j] \in {"calling", "recording"}
         \/ launch[j] \in {"starting", "marking"}
         \/ pending[j] > 0

\* SQLite answers within the microtasks that follow the call, before the next
\* timer, signal, child or network event; a pool does not.
EventDelivered == Pooled \/ ~StoreBusy

-----------------------------------------------------------------------------
(* The instance row and admission.                                          *)

\* Defect: a dispose() that leaves the heartbeat timer armed.
TickBegins_TimerKept ==
    /\ EventDelivered
    /\ thread["tick"] = "idle"
    /\ thread' = [thread EXCEPT !["tick"] = "beating"]
    /\ UNCHANGED <<disposeVars, admission, inst, jobVars>>

TickBegins ==
    /\ EventDelivered
    /\ ~Disposed
    /\ thread["tick"] = "idle"
    /\ thread' = [thread EXCEPT !["tick"] = "beating"]
    /\ UNCHANGED <<disposeVars, admission, inst, jobVars>>

\* A good beat, at the end of those needed, begins to restore a lost admission.
AfterBeat ==
    \/ thread' = [thread EXCEPT !["tick"] = "idle"]
    \/ /\ ~admission /\ ~Disposed
       /\ thread' = [thread EXCEPT !["tick"] = "registering"]

\* heartbeat() returned.  A missing row is written again.
BeatReturns ==
    /\ thread["tick"] = "beating"
    /\ \/ inst /\ AfterBeat
       \/ ~inst /\ thread' = [thread EXCEPT !["tick"] = "repairing"]
    /\ UNCHANGED <<disposeVars, admission, inst, jobVars>>

RepairReturns ==
    /\ thread["tick"] = "repairing"
    /\ inst' = TRUE
    /\ AfterBeat
    /\ UNCHANGED <<disposeVars, admission, jobVars>>

\* The catch of the tick; the last failure allowed closes admission.
TickFails ==
    /\ thread["tick"] \in {"beating", "repairing"}
    /\ thread' = [thread EXCEPT !["tick"] = "idle"]
    /\ admission' \in {admission, FALSE}
    /\ UNCHANGED <<disposeVars, inst, jobVars>>

\* restoreDurableAdmission: registerInstance, then a heartbeat.
RegisterReturns(t) ==
    /\ thread[t] = "registering"
    /\ inst' = TRUE
    /\ thread' = [thread EXCEPT ![t] = "confirming"]
    /\ UNCHANGED <<disposeVars, admission, jobVars>>

ConfirmReturns(t) ==
    /\ thread[t] = "confirming"
    /\ thread' = [thread EXCEPT ![t] = "idle"]
    /\ admission' = IF Disposed THEN admission ELSE TRUE
    /\ UNCHANGED <<disposeVars, inst, jobVars>>

RestoreFails(t) ==
    /\ thread[t] \in {"registering", "confirming"}
    /\ thread' = [thread EXCEPT ![t] = "idle"]
    /\ admission' = FALSE
    /\ UNCHANGED <<disposeVars, inst, jobVars>>

\* Another instance collects a row that has not been refreshed for long.
OthersCollect ==
    /\ inst
    /\ inst' = FALSE
    /\ UNCHANGED <<disposeVars, admission, thread, jobVars>>

-----------------------------------------------------------------------------
(* Jobs start.                                                              *)

\* assertDurableAdmission passed; the lookup of the new id is on its way.
StartCall(j) ==
    /\ start[j] = "none"
    /\ admission /\ ~Disposed
    /\ start' = [start EXCEPT ![j] = "calling"]
    /\ UNCHANGED <<disposeVars, leaseVars, launch, child, killing, memVars, writeVars, doneVars>>

\* The job enters the map and asks for a permit and for its row.
LookupReturns(j) ==
    /\ start[j] = "calling"
    /\ start' = [start EXCEPT ![j] = "recording"]
    /\ status' = [status EXCEPT ![j] = "queued"]
    /\ UNCHANGED <<disposeVars, leaseVars, launch, child, killing, closeSeen, writeVars, doneVars>>

RecordReturns(j) ==
    /\ start[j] = "recording"
    /\ start' = [start EXCEPT ![j] = "done"]
    /\ row' = [row EXCEPT ![j] = "open"]
    /\ UNCHANGED <<disposeVars, leaseVars, launch, child, killing, memVars, writeVars,
                   settled, captured>>

\* The lookup or the insert failed, or the limiter has no place.
StartRefused(j) ==
    /\ start[j] \in {"calling", "recording"}
    /\ start' = [start EXCEPT ![j] = "refused"]
    /\ UNCHANGED <<disposeVars, leaseVars, launch, child, killing, memVars, writeVars, doneVars>>

\* A job ends with nothing left that could still write to it.
EndClosed(j) ==
    /\ status' = [status EXCEPT ![j] = "ended"]
    /\ closeSeen' = [closeSeen EXCEPT ![j] = TRUE]
    /\ pending' = [pending EXCEPT ![j] = @ + 1]

\* launch(permit), at once or when the limiter grants a waiter, which may be before
\* its row is written; a job is not launched any more once disposed.
Launch(j) ==
    /\ start[j] \in {"recording", "done"}
    /\ launch[j] = "none" /\ status[j] = "queued"
    /\ \/ /\ Disposed
          /\ EndClosed(j)
          /\ UNCHANGED launch
       \/ /\ ~Disposed
          /\ status' = [status EXCEPT ![j] = "running"]
          /\ launch' = [launch EXCEPT ![j] = "starting"]
          /\ UNCHANGED <<closeSeen, pending>>
    /\ UNCHANGED <<disposeVars, leaseVars, start, child, killing, retry, doneVars>>

Spawn(j) ==
    /\ child' = [child EXCEPT ![j] = "alive"]
    /\ launch' = [launch EXCEPT ![j] = "marking"]
    /\ UNCHANGED memVars /\ UNCHANGED pending

\* Defect: no fence before the spawn.
LaunchContinues_NoFence(j) ==
    /\ launch[j] = "starting"
    /\ Spawn(j)
    /\ UNCHANGED <<disposeVars, leaseVars, start, killing, retry, doneVars>>

\* launchProcessJob: the fence, then the spawn, which may fail.
LaunchContinues(j) ==
    /\ launch[j] = "starting"
    /\ \/ ~Disposed /\ status[j] = "running" /\ Spawn(j)
       \/ /\ launch' = [launch EXCEPT ![j] = "over"]
          /\ EndClosed(j)
          /\ UNCHANGED child
    /\ UNCHANGED <<disposeVars, leaseVars, start, killing, retry, doneVars>>

\* markRunning returned, and the child's handlers are attached.  A child whose row
\* is not open is killed, and so is one when the call failed.
MarkReturns(j) ==
    /\ launch[j] = "marking"
    /\ Pooled \/ start[j] # "recording"
    /\ launch' = [launch EXCEPT ![j] = "over"]
    /\ \E ok \in {row[j] = "open", FALSE} : killing' = [killing EXCEPT ![j] = @ \/ ~ok]
    /\ UNCHANGED <<disposeVars, leaseVars, start, child, memVars, writeVars, doneVars>>

-----------------------------------------------------------------------------
(* Jobs end.                                                                *)

\* cancelJob, or the timer of the queue wait.
StopQueued(j) ==
    /\ EventDelivered
    /\ start[j] \in {"recording", "done"} /\ status[j] = "queued"
    /\ EndClosed(j)
    /\ UNCHANGED <<disposeVars, leaseVars, runVars, retry, doneVars>>

\* cancelJob, or the idle timer: the child is signalled and the job has ended.
StopRunning(j) ==
    /\ EventDelivered
    /\ Tracked(j)
    /\ status[j] = "running" /\ child[j] # "none"
    /\ status' = [status EXCEPT ![j] = "ended"]
    /\ killing' = [killing EXCEPT ![j] = TRUE]
    /\ pending' = [pending EXCEPT ![j] = @ + 1]
    /\ UNCHANGED <<disposeVars, leaseVars, start, launch, child, closeSeen, retry, doneVars>>

\* A child dies.  `close' has no listener until markRunning has returned.
ChildCloses(j) ==
    /\ EventDelivered
    /\ child[j] = "alive"
    /\ child' = [child EXCEPT ![j] = "closed"]
    /\ IF launch[j] = "over" THEN EndClosed(j) ELSE UNCHANGED <<memVars, pending>>
    /\ UNCHANGED <<disposeVars, leaseVars, start, launch, killing, retry, doneVars>>

\* The eviction timer finds a running job whose process does not exist; a scan that
\* waits for the pool when dispose() clears the timer goes on afterwards.
DeadProcessFound(j) ==
    /\ EventDelivered
    /\ Pooled \/ ~Disposed
    /\ Tracked(j)
    /\ status[j] = "running" /\ child[j] = "closed"
    /\ status' = [status EXCEPT ![j] = "ended"]
    /\ pending' = [pending EXCEPT ![j] = @ + 1]
    /\ UNCHANGED <<disposeVars, leaseVars, runVars, closeSeen, retry, doneVars>>

MayPersist(j) ==
    /\ pending[j] > 0
    /\ Pooled \/ (start[j] # "recording" /\ launch[j] # "marking")

\* persistComplete.  The first write closes an open row, and brings the capture if
\* the close was seen; a later one brings the capture, and is repeated until it did.
Persist(j) ==
    /\ MayPersist(j)
    /\ pending' = [pending EXCEPT ![j] = @ - 1]
    /\ settled' = [settled EXCEPT ![j] = TRUE]
    /\ \/ /\ ~settled[j]
          /\ row' = [row EXCEPT ![j] = IF @ = "open" THEN "closed" ELSE @]
          /\ captured' = [captured EXCEPT ![j] = closeSeen[j] /\ row[j] = "open"]
          /\ UNCHANGED retry
       \/ /\ settled[j]
          /\ captured' = [captured EXCEPT ![j] = @ \/ (closeSeen[j] /\ row[j] = "closed")]
          /\ retry' = [retry EXCEPT ![j] = @ \/ (closeSeen[j] /\ ~captured'[j])]
          /\ UNCHANGED row
    /\ UNCHANGED <<disposeVars, leaseVars, runVars, memVars>>

PersistFails(j) ==
    /\ MayPersist(j)
    /\ ~captured[j]
    /\ pending' = [pending EXCEPT ![j] = @ - 1]
    /\ retry' = [retry EXCEPT ![j] = @ \/ closeSeen[j]]
    /\ UNCHANGED <<disposeVars, leaseVars, runVars, memVars, doneVars>>

RetryTimer(j) ==
    /\ EventDelivered
    /\ retry[j]
    /\ retry' = [retry EXCEPT ![j] = FALSE]
    /\ pending' = [pending EXCEPT ![j] = @ + 1]
    /\ UNCHANGED <<disposeVars, leaseVars, runVars, memVars, doneVars>>

-----------------------------------------------------------------------------
(* dispose().                                                               *)

\* A terminal row whose capture is still missing.
CapturePending(j) == Ended(j) /\ closeSeen[j] /\ ~captured[j]

\* One terminal write more for each of these jobs.
WriteAgain(J) == pending' = [j \in Jobs |-> IF j \in J THEN pending[j] + 1 ELSE pending[j]]

\* Admission is closed, the timers are cleared and queued work ends.
DisposeBegins ==
    /\ EventDelivered
    /\ phase = "up"
    /\ phase' = "ending"
    /\ admission' = FALSE
    /\ awaited' = {j \in Jobs : Tracked(j) /\ status[j] = "queued"}
    /\ status' = [j \in Jobs |-> IF j \in awaited' THEN "ended" ELSE status[j]]
    /\ closeSeen' = [j \in Jobs |-> closeSeen[j] \/ j \in awaited']
    /\ WriteAgain(awaited')
    /\ UNCHANGED <<expired, dereg, inst, thread, runVars, retry, doneVars>>

\* Defect: an await without the deadline.
AwaitOver_NoDeadline == \A j \in awaited : pending[j] = 0

AwaitOver == expired \/ \A j \in awaited : pending[j] = 0

\* Terminal rows that wait for their retry timer are written at once.
QueuedWorkEnds ==
    /\ phase = "ending"
    /\ AwaitOver
    /\ phase' = "retrying"
    /\ awaited' = {j \in Jobs : Tracked(j) /\ CapturePending(j) /\ pending[j] = 0}
    /\ retry' = [j \in Jobs |-> retry[j] /\ j \notin awaited']
    /\ WriteAgain(awaited')
    /\ UNCHANGED <<expired, dereg, leaseVars, runVars, memVars, doneVars>>

\* Running work is signalled.
SignalRunning ==
    /\ phase = "retrying"
    /\ AwaitOver
    /\ phase' = "draining"
    /\ awaited' = {}
    /\ killing' = [j \in Jobs |->
                     killing[j] \/ (Tracked(j) /\ status[j] = "running" /\ child[j] # "none")]
    /\ UNCHANGED <<expired, dereg, leaseVars, start, launch, child, memVars, writeVars, doneVars>>

\* Defect: a drain that waits for the processes and not for the writes.
Idle_OnlyProcesses ==
    \A j \in Jobs : Tracked(j) =>
        /\ status[j] \notin {"queued", "running"}
        /\ child[j] # "none" => closeSeen[j]

\* Defect: a drain that takes a signal for the death of a child.
Idle_SignalIsDeath ==
    /\ \A j \in Jobs : Tracked(j) => status[j] \notin {"queued", "running"} /\ ~CapturePending(j)
    /\ \A j \in Jobs : pending[j] = 0

\* What dispose() waits for.
Idle ==
    /\ \A j \in Jobs : Tracked(j) =>
         /\ status[j] \notin {"queued", "running"}
         /\ child[j] # "none" => closeSeen[j]
         /\ ~CapturePending(j)
    /\ \A j \in Jobs : pending[j] = 0

DrainEnds ==
    /\ EventDelivered
    /\ phase = "draining"
    /\ Idle /\ ~expired
    /\ phase' = "deregistering"
    /\ dereg' = "sent"
    /\ UNCHANGED <<expired, awaited, leaseVars, jobVars>>

GiveUp ==
    /\ phase = "draining"
    /\ expired
    /\ phase' = "returned"
    /\ UNCHANGED <<expired, awaited, dereg, leaseVars, jobVars>>

DeregisterReturns ==
    /\ dereg = "sent"
    /\ \/ dereg' = "applied" /\ inst' = FALSE
       \/ dereg' = "failed" /\ UNCHANGED inst
    /\ UNCHANGED <<phase, expired, awaited, admission, thread, jobVars>>

DisposeReturns ==
    /\ phase = "deregistering"
    /\ dereg # "sent" \/ expired
    /\ phase' = "returned"
    /\ UNCHANGED <<expired, awaited, dereg, leaseVars, jobVars>>

DeadlinePasses ==
    /\ phase \notin {"up", "returned"}
    /\ ~expired
    /\ expired' = TRUE
    /\ UNCHANGED <<phase, awaited, dereg, leaseVars, jobVars>>

-----------------------------------------------------------------------------
Lease ==
    \/ TickBegins \/ BeatReturns \/ RepairReturns \/ TickFails \/ OthersCollect
    \/ \E t \in Threads : RegisterReturns(t) \/ ConfirmReturns(t) \/ RestoreFails(t)

Job(j) ==
    \/ StartCall(j) \/ LookupReturns(j) \/ RecordReturns(j) \/ StartRefused(j)
    \/ Launch(j) \/ LaunchContinues(j) \/ MarkReturns(j)
    \/ StopQueued(j) \/ StopRunning(j) \/ ChildCloses(j) \/ DeadProcessFound(j)
    \/ Persist(j) \/ PersistFails(j) \/ RetryTimer(j)

Dispose ==
    \/ DisposeBegins \/ QueuedWorkEnds \/ SignalRunning \/ DrainEnds \/ GiveUp
    \/ DeregisterReturns \/ DisposeReturns \/ DeadlinePasses

Next == Lease \/ Dispose \/ \E j \in Jobs : Job(j)

\* dispose() goes on when what it awaits is over, and the timer of its deadline
\* fires.  Nothing is asked of the store, of children or of other instances.
Fairness ==
    /\ WF_vars(DeadlinePasses)
    /\ WF_vars(QueuedWorkEnds)
    /\ WF_vars(SignalRunning)
    /\ WF_vars(DrainEnds \/ GiveUp)
    /\ WF_vars(DisposeReturns)

SafetySpec == Init /\ [][Next]_vars
Spec == SafetySpec /\ Fairness

-----------------------------------------------------------------------------
TypeOK ==
    /\ phase \in {"up", "ending", "retrying", "draining", "deregistering", "returned"}
    /\ expired \in BOOLEAN
    /\ awaited \subseteq Jobs
    /\ dereg \in {"none", "sent", "applied", "failed"}
    /\ admission \in BOOLEAN
    /\ inst \in BOOLEAN
    /\ thread \in [Threads -> {"idle", "beating", "repairing", "registering", "confirming"}]
    /\ start \in [Jobs -> {"none", "calling", "recording", "done", "refused"}]
    /\ launch \in [Jobs -> {"none", "starting", "marking", "over"}]
    /\ status \in [Jobs -> {"none", "queued", "running", "ended"}]
    /\ child \in [Jobs -> {"none", "alive", "closed"}]
    /\ killing \in [Jobs -> BOOLEAN]
    /\ closeSeen \in [Jobs -> BOOLEAN]
    /\ pending \in [Jobs -> Nat]
    /\ retry \in [Jobs -> BOOLEAN]
    /\ settled \in [Jobs -> BOOLEAN]
    /\ captured \in [Jobs -> BOOLEAN]
    /\ row \in [Jobs -> {"none", "open", "closed"}]

\* Once dispose() closed admission no coroutine that was waiting for the store
\* opens it again (restoreDurableAdmission looks at `disposed' after its awaits).
AdmissionStaysClosed == Disposed => ~admission

\* From the pass that signals running work on, every child that lives has been
\* signalled: none was spawned behind the pass (the fence of launchProcessJob).
\* A job whose start was refused is out of the map and out of reach.
ChildrenSignalled ==
    phase \in {"draining", "deregistering", "returned"} =>
        \A j \in Jobs : Tracked(j) /\ child[j] = "alive" => killing[j]

\* An instance that asks to be deregistered has no living child, then or later:
\* dispose() takes the close event, never a signal, for the end of a child.
NoChildAfterDeregistration ==
    dereg # "none" => \A j \in Jobs : Tracked(j) => child[j] # "alive"

\* dispose() deregisters only when nothing is being finalised: an instance that is
\* deregistered leaves no open row for another instance to orphan, and no new job
\* slips in (src/src/async-job-manager.ts:1700, 3767-3776).
NoOpenRowAfterDeregistration ==
    dereg = "applied" => \A j \in Jobs : row[j] # "open"

\* The row of an instance that has deregistered stays away
\* (src/src/async-job-manager.ts:2018-2024).
DeregistrationIsFinal == dereg = "applied" => ~inst

\* dispose() returns, whatever the store and the children do.
ShutdownEnds == Disposed ~> phase = "returned"
=============================================================================
