----------------------------- MODULE JobLimiter -----------------------------
(***************************************************************************)
(* The running limit and FIFO queue of the job manager: class JobLimiter   *)
(* of src/src/async-job-manager.ts.  Process jobs, HTTP jobs and the       *)
(* direct-sync fallback all take a permit here before anything runs.       *)
(*                                                                         *)
(* A ticket stands for one call of acquire(): the outcome it got and, when *)
(* it got one, its permit or its queue entry.  `stage[t]' is what the      *)
(* owner of the ticket could observe; the counters and the queue are the   *)
(* private fields of the class.                                            *)
(*                                                                         *)
(* pump() is a synchronous loop: nothing else of the process runs until it *)
(* has found no further runnable waiter.  It is unfolded into one action   *)
(* per iteration, and `pumping' disables every other action until the      *)
(* loop has ended, so that each iteration is a step invariants are checked *)
(* at and proofs can be about.  A callback that returns its permit at once *)
(* (it threw, its job had already left "queued", or the manager is         *)
(* disposed) runs a nested pump() inside the outer one; the nested loop    *)
(* and the rest of the outer one are the same iterations.                  *)
(***************************************************************************)
EXTENDS Integers, Sequences, SequencesExt, FiniteSets

CONSTANTS Tickets,         \* the acquire() calls
          Providers,       \* the provider keys
          MaxRunning,      \* cfg.maxRunningJobs
          MaxPerProvider,  \* cfg.maxRunningJobsPerProvider
          MaxQueued        \* cfg.maxQueuedJobs

\* config.ts accepts positive integers only.
ASSUME LimitsAssumption ==
    /\ MaxRunning \in Nat \ {0}
    /\ MaxPerProvider \in Nat \ {0}
    /\ MaxQueued \in Nat \ {0}

\* A process makes finitely many acquire() calls that are alive at a time.
ASSUME TicketsAssumption == IsFiniteSet(Tickets)

VARIABLES
    runningGlobal,      \* permits outstanding, as the class counts them
    runningByProvider,  \* the same per provider; a missing map key is 0
    queue,              \* the waiting tickets, oldest first
    pumping,            \* pump() is on the stack
    provider,           \* the provider a ticket asked for
    stage,              \* what became of a ticket
    moot                \* queued tickets whose onGrant will return the permit at once

vars == <<runningGlobal, runningByProvider, queue, pumping, provider, stage, moot>>

Stages == {"idle", "held", "released", "queued", "rejected", "timedOut", "cancelled"}

Init ==
    /\ runningGlobal = 0
    /\ runningByProvider = [p \in Providers |-> 0]
    /\ queue = << >>
    /\ pumping = FALSE
    /\ provider \in [Tickets -> Providers]
    /\ stage = [t \in Tickets |-> "idle"]
    /\ moot = {}

-----------------------------------------------------------------------------
(* What the methods are built from.                                         *)

CanRunNow(p) ==
    /\ runningGlobal < MaxRunning
    /\ runningByProvider[p] < MaxPerProvider

\* grant(): the counters go up.
Grant(p) ==
    /\ runningGlobal' = runningGlobal + 1
    /\ runningByProvider' = [runningByProvider EXCEPT ![p] = @ + 1]

\* release(), before its pump(): both counters go down, never below zero.
GiveBack(p) ==
    /\ runningGlobal' = IF runningGlobal > 0 THEN runningGlobal - 1 ELSE 0
    /\ runningByProvider' =
         [runningByProvider EXCEPT ![p] = IF @ > 0 THEN @ - 1 ELSE 0]

\* Defect: pump() that scans from the newest waiter.
FirstRunnable_Newest(i) ==
    /\ i \in 1 .. Len(queue)
    /\ CanRunNow(provider[queue[i]])
    /\ \A k \in i + 1 .. Len(queue) : ~CanRunNow(provider[queue[k]])

\* Defect: pump() that takes any waiter with room.
FirstRunnable_AnyOrder(i) ==
    /\ i \in 1 .. Len(queue)
    /\ CanRunNow(provider[queue[i]])

\* The position pump() takes next: the first waiter whose caps leave room.
FirstRunnable(i) ==
    /\ i \in 1 .. Len(queue)
    /\ CanRunNow(provider[queue[i]])
    /\ \A k \in 1 .. i - 1 : ~CanRunNow(provider[queue[k]])

-----------------------------------------------------------------------------
(* acquire() has three outcomes.                                            *)

AcquireGranted(t) ==
    /\ ~pumping
    /\ stage[t] = "idle"
    /\ CanRunNow(provider[t])
    /\ Grant(provider[t])
    /\ stage' = [stage EXCEPT ![t] = "held"]
    /\ UNCHANGED <<queue, pumping, provider, moot>>

AcquireQueued(t) ==
    /\ ~pumping
    /\ stage[t] = "idle"
    /\ ~CanRunNow(provider[t])
    /\ Len(queue) < MaxQueued
    /\ queue' = Append(queue, t)
    /\ stage' = [stage EXCEPT ![t] = "queued"]
    /\ UNCHANGED <<runningGlobal, runningByProvider, pumping, provider, moot>>

AcquireRejected(t) ==
    /\ ~pumping
    /\ stage[t] = "idle"
    /\ ~CanRunNow(provider[t])
    /\ Len(queue) >= MaxQueued
    /\ stage' = [stage EXCEPT ![t] = "rejected"]
    /\ UNCHANGED <<runningGlobal, runningByProvider, queue, pumping, provider, moot>>

\* Defect: release() without its `released' flag.
Release_NotIdempotent(t) ==
    /\ ~pumping
    /\ stage[t] \in {"held", "released"}
    /\ GiveBack(provider[t])
    /\ stage' = [stage EXCEPT ![t] = "released"]
    /\ pumping' = TRUE
    /\ UNCHANGED <<queue, provider, moot>>

\* permit.release(): the first call frees the slot and pumps, any later call
\* does nothing.  The lifecycle code may call it more than once per permit.
Release(t) ==
    /\ ~pumping
    /\ stage[t] \in {"held", "released"}
    /\ IF stage[t] = "released"
       THEN UNCHANGED vars
       ELSE /\ GiveBack(provider[t])
            /\ stage' = [stage EXCEPT ![t] = "released"]
            /\ pumping' = TRUE
            /\ UNCHANGED <<queue, provider, moot>>

\* The queue wait's timer, and the cancel() handle: each is removeEntry(),
\* which finds nothing once the entry has been granted or removed.
LeaveQueue(t, how) ==
    /\ ~pumping
    /\ \E i \in 1 .. Len(queue) :
         /\ queue[i] = t
         /\ queue' = RemoveAt(queue, i)
    /\ stage' = [stage EXCEPT ![t] = how]
    /\ moot' = moot \ {t}
    /\ UNCHANGED <<runningGlobal, runningByProvider, pumping, provider>>

QueueTimeout(t) == LeaveQueue(t, "timedOut")
Cancel(t)       == LeaveQueue(t, "cancelled")

\* The waiting job left "queued" without its entry being cancelled (the
\* manager was disposed, or the job was failed before queueCancel was wired):
\* its onGrant will only give the permit back.
BecomeMoot(t) ==
    /\ ~pumping
    /\ stage[t] = "queued"
    /\ moot' = moot \cup {t}
    /\ UNCHANGED <<runningGlobal, runningByProvider, queue, pumping, provider, stage>>

\* An acquire() call is over and its owner gone; the ticket stands for a new
\* call, of any provider.
Reuse(t, p) ==
    /\ ~pumping
    /\ stage[t] \in {"released", "rejected", "timedOut", "cancelled"}
    /\ stage' = [stage EXCEPT ![t] = "idle"]
    /\ provider' = [provider EXCEPT ![t] = p]
    /\ UNCHANGED <<runningGlobal, runningByProvider, queue, pumping, moot>>

-----------------------------------------------------------------------------
(* pump(), one iteration at a time.                                         *)

\* The callback keeps the permit: its job now runs.
PumpGrant(i) ==
    /\ pumping
    /\ FirstRunnable(i)
    /\ queue[i] \notin moot
    /\ Grant(provider[queue[i]])
    /\ queue' = RemoveAt(queue, i)
    /\ stage' = [stage EXCEPT ![queue[i]] = "held"]
    /\ UNCHANGED <<pumping, provider, moot>>

\* Defect: pump() without the restart after a bounced grant.
PumpBounce_NoRestart(i) ==
    /\ pumping
    /\ FirstRunnable(i)
    /\ queue[i] \in moot
    /\ queue' = RemoveAt(queue, i)
    /\ stage' = [stage EXCEPT ![queue[i]] = "released"]
    /\ moot' = moot \ {queue[i]}
    /\ pumping' = FALSE
    /\ UNCHANGED <<runningGlobal, runningByProvider, provider>>

\* The callback returns the permit before it ends: the counters are back where
\* they were when the scan restarts.
PumpBounce(i) ==
    /\ pumping
    /\ FirstRunnable(i)
    /\ queue[i] \in moot
    /\ queue' = RemoveAt(queue, i)
    /\ stage' = [stage EXCEPT ![queue[i]] = "released"]
    /\ moot' = moot \ {queue[i]}
    /\ UNCHANGED <<runningGlobal, runningByProvider, pumping, provider>>

PumpEnd ==
    /\ pumping
    /\ \A i \in 1 .. Len(queue) : ~CanRunNow(provider[queue[i]])
    /\ pumping' = FALSE
    /\ UNCHANGED <<runningGlobal, runningByProvider, queue, provider, stage, moot>>

PumpStep == PumpEnd \/ \E i \in 1 .. Len(queue) : PumpGrant(i) \/ PumpBounce(i)

Next ==
    \/ PumpStep
    \/ \E t \in Tickets :
         \/ AcquireGranted(t)
         \/ AcquireQueued(t)
         \/ AcquireRejected(t)
         \/ Release(t)
         \/ QueueTimeout(t)
         \/ Cancel(t)
         \/ BecomeMoot(t)
         \/ \E p \in Providers : Reuse(t, p)

\* The event loop always finishes a synchronous loop, and a permit is given
\* back in the end: a job that runs is bounded by its own timers.  That is
\* strong fairness here only because a pump() in progress, an instant of the
\* real program, disables the release.  Nothing is assumed of the queue-wait
\* timer, of cancellation or of new arrivals.
Fairness ==
    /\ WF_vars(PumpStep)
    /\ \A t \in Tickets : SF_vars(Release(t) /\ stage[t] = "held")

Spec == Init /\ [][Next]_vars /\ Fairness

-----------------------------------------------------------------------------
(* Properties.                                                              *)

TypeOK ==
    /\ runningGlobal \in Nat
    /\ runningByProvider \in [Providers -> Nat]
    /\ queue \in Seq(Tickets)
    /\ pumping \in BOOLEAN
    /\ provider \in [Tickets -> Providers]
    /\ stage \in [Tickets -> Stages]
    /\ moot \in SUBSET Tickets

Holders(p) == {t \in Tickets : stage[t] = "held" /\ provider[t] = p}
AllHolders == {t \in Tickets : stage[t] = "held"}

\* However grants, idempotent releases, bounces and timeouts interleave, the
\* permits really in their owners' hands stay within the global cap and within
\* every provider's cap, and the class's counters are exactly their numbers
\* (grant/release, async-job-manager.ts:467-484).
PermitsWithinCaps ==
    /\ Cardinality(AllHolders) = runningGlobal
    /\ runningGlobal <= MaxRunning
    /\ \A p \in Providers :
         /\ Cardinality(Holders(p)) = runningByProvider[p]
         /\ runningByProvider[p] <= MaxPerProvider

\* The queue is exactly the waiting tickets, each once, and within its limit: a
\* granted, timed-out or cancelled waiter leaves nothing behind that a later
\* pump could grant a second time (removeEntry, async-job-manager.ts:527-536).
QueueIsTheWaiters ==
    /\ Len(queue) <= MaxQueued
    /\ \A i, k \in 1 .. Len(queue) : queue[i] = queue[k] => i = k
    /\ \A t \in Tickets : (stage[t] = "queued") <=> Contains(queue, t)

\* No lost wakeup and no head-of-line blocking: outside pump(), no waiter that
\* could run is left waiting, whatever its place and its provider
\* (pump, async-job-manager.ts:538-557).
NoRunnableWaiter ==
    ~pumping => \A i \in 1 .. Len(queue) : ~CanRunNow(provider[queue[i]])

FifoStep ==
    \A t \in Tickets :
      (stage[t] # "held" /\ stage'[t] = "held")
        => \A k \in 1 .. Len(queue) :
             (provider[queue[k]] = provider[t] /\ stage'[queue[k]] = "queued")
               => \E i \in 1 .. k : queue[i] = t

\* Same-provider waiters start in arrival order, and a new arrival never
\* overtakes a waiter of its own provider through acquire()'s fast path, which
\* looks at the caps and not at the queue (async-job-manager.ts:501-503).
ProviderFifo == [][FifoStep]_vars

\* A waiter is not starved: as long as running jobs finish, it leaves the queue
\* even if its own timer never fires and newcomers keep arriving for every
\* provider (the fairness claim of async-job-manager.ts:436-439).
WaiterServed == \A t \in Tickets : stage[t] = "queued" ~> stage[t] # "queued"

=============================================================================
