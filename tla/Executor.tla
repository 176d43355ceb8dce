------------------------------ MODULE Executor ------------------------------
(***************************************************************************)
(* executeCli of src/src/executor.ts: the tries of a call are processes,   *)
(* each the leader of a process group of its own, whose ends are what      *)
(* withRetry (CircuitBreaker) reacts to; the termination fence of a group, *)
(* its timers, the delivery of its stdin, and killAllProcessGroups when    *)
(* the gateway leaves.                                                     *)
(*                                                                         *)
(* A group is named by its call and the number of the try.  An event       *)
(* handler runs to its end before another does, and what withRetry does    *)
(* about a try that ended follows in the same turn, so both are one step.  *)
(* SIGTERM is a request which any member may ignore: it has no effect of   *)
(* its own here, since a member may end at any time.  SIGKILL has.         *)
(***************************************************************************)
EXTENDS CircuitBreaker

VARIABLES
    leader,      \* "none", "unborn" (spawn failed), "alive", or its exit code,
                 \* "0", "124" or "other"; a signal gives none, and `code ?? 0'
                 \* takes that for 0
    kin,         \* a descendant in the leader's group lives
    closed,      \* the close event (or the error of an unborn one) was handled
    registered,  \* the group is in activeProcessGroups
    pending,     \* terminationPending, while the escalation timer is armed
    cause,       \* why it was stopped: "none", "timeout" (timedOut), "idle" (idledOut),
                 \* "overflow" (settled before its close)
    stdin,       \* the delivery: "pending", "succeeded" or not needed, "failed"
    leaving,     \* the shutdown: "no", "asking", "killed" or "gone"
    late,        \* the group was born after the shutdown's SIGKILL (history)
    healthy      \* from now on every process succeeds (environment)

procVars == <<leader, kin, closed, registered, pending, cause, stdin, late>>
vars == <<breakerVars, procVars, leaving, healthy>>

Tries  == 1..Threshold
Groups == Calls \X Tries
Codes  == {"0", "124", "other"}

Living(g) == leader[g] = "alive" \/ kin[g]

Init ==
    /\ BreakerInit
    /\ leader = [g \in Groups |-> "none"]
    /\ kin = [g \in Groups |-> FALSE]
    /\ closed = [g \in Groups |-> TRUE]
    /\ registered = [g \in Groups |-> FALSE]
    /\ pending = [g \in Groups |-> FALSE]
    /\ cause = [g \in Groups |-> "none"]
    /\ stdin = [g \in Groups |-> "succeeded"]
    /\ leaving = "no"
    /\ late = [g \in Groups |-> FALSE]
    /\ healthy = FALSE

Running == leaving # "gone"

-----------------------------------------------------------------------------
(* Calls.                                                                   *)

\* runOnce: spawnCliProcess, the listeners, the timers and the write of stdin.
Spawn(g) ==
    /\ \E born \in {"alive", "unborn"} :
         /\ healthy => born = "alive"
         /\ leader' = [leader EXCEPT ![g] = born]
         /\ registered' = [registered EXCEPT ![g] = born = "alive"]
    /\ \E s \in {"succeeded", "pending"} : stdin' = [stdin EXCEPT ![g] = s]
    /\ kin' = [kin EXCEPT ![g] = FALSE]
    /\ closed' = [closed EXCEPT ![g] = FALSE]
    /\ pending' = [pending EXCEPT ![g] = FALSE]
    /\ cause' = [cause EXCEPT ![g] = "none"]
    /\ late' = [late EXCEPT ![g] = leaving = "killed"]

\* The caller calls again once the groups of its last call are off its books.
Call(c) ==
    /\ Running
    /\ call[c] \in Over
    /\ \A t \in Tries : closed[<<c, t>>] /\ ~pending[<<c, t>>]
    /\ CallBegins(c)
    /\ Spawn(<<c, 1>>)
    /\ UNCHANGED <<leaving, healthy>>

Wake(c) ==
    /\ Running
    /\ call[c] = "sleeping"
    /\ RetryBegins(c)
    /\ Spawn(<<c, attempt'[c]>>)
    /\ UNCHANGED <<leaving, healthy>>

-----------------------------------------------------------------------------
(* The termination fence of a group.                                        *)

\* Defect: no escalation timer.
Request_OnlyAsks(g) == UNCHANGED pending

\* SIGTERM now, the escalation timer for later.
Request(g) == pending' = [pending EXCEPT ![g] = TRUE]

\* Defect: the group is given up as soon as its leader is gone.
LeaderGone_Always(g) == registered' = [registered EXCEPT ![g] = FALSE]

\* cleanupAfterLeaderExit
LeaderGone(g) ==
    registered' = [registered EXCEPT ![g] = @ /\ pending[g]]

\* SIGKILL to a set of groups: nobody survives it.
KillAll(gs) ==
    /\ leader' = [g \in Groups |->
                    IF g \in gs /\ leader[g] = "alive" THEN "0" ELSE leader[g]]
    /\ kin' = [g \in Groups |-> kin[g] /\ g \notin gs]
    /\ registered' = [g \in Groups |-> registered[g] /\ g \notin gs]

\* A try that is over, with its group, leaves nothing behind but memories.
Forget(g, over) ==
    /\ cause' = [cause EXCEPT ![g] = IF over THEN "none" ELSE @]
    /\ stdin' = [stdin EXCEPT ![g] = IF over THEN "succeeded" ELSE @]

\* forceKillAndCleanup, when the grace is over.
FenceKills(g) ==
    /\ Running
    /\ pending[g]
    /\ KillAll({g})
    /\ pending' = [pending EXCEPT ![g] = FALSE]
    /\ Forget(g, closed[g])
    /\ UNCHANGED <<closed, late, leaving, healthy>>
    /\ UNCHANGED breakerVars

-----------------------------------------------------------------------------
(* What happens to a process.                                               *)

\* Its close event is still to come.
Open(g) == ~closed[g] /\ leader[g] # "unborn"

\* Its promise is still to settle, so its timers and listeners are active.
Watched(g) == Open(g) /\ cause[g] # "overflow"

LeaderEnds(g) ==
    /\ leader[g] = "alive"
    /\ \E code \in Codes :
         /\ healthy => code = "0" /\ stdin[g] # "pending"
         /\ leader' = [leader EXCEPT ![g] = code]
    /\ UNCHANGED <<kin, closed, registered, pending, cause, stdin, late, leaving, healthy>>
    /\ UNCHANGED breakerVars

Forks(g) ==
    /\ leader[g] = "alive"
    /\ kin' = [kin EXCEPT ![g] = TRUE]
    /\ UNCHANGED <<leader, closed, registered, pending, cause, stdin, late, leaving, healthy>>
    /\ UNCHANGED breakerVars

KinEnds(g) ==
    /\ kin[g]
    /\ kin' = [kin EXCEPT ![g] = FALSE]
    /\ UNCHANGED <<leader, closed, registered, pending, cause, stdin, late, leaving, healthy>>
    /\ UNCHANGED breakerVars

\* The write callback, or an error of the stream.  A closed pipe stops nothing and
\* leaves the delivery as incomplete as a callback that does not come: "pending".
StdinEnds(g) ==
    /\ Running /\ Watched(g)
    /\ stdin[g] = "pending"
    /\ \/ /\ stdin' = [stdin EXCEPT ![g] = "succeeded"]
          /\ UNCHANGED pending
       \/ /\ ~healthy
          /\ stdin' = [stdin EXCEPT ![g] = "failed"]
          /\ Request(g)
    /\ UNCHANGED <<leader, kin, closed, registered, cause, late, leaving, healthy>>
    /\ UNCHANGED breakerVars

\* The idle timer clears the timer of the whole run, not the other way round; output
\* arms it again.
TimerFires(g) ==
    /\ Running /\ Watched(g) /\ ~healthy
    /\ \/ cause[g] = "none" /\ cause' = [cause EXCEPT ![g] = "timeout"]
       \/ cause[g] = "none" /\ cause' = [cause EXCEPT ![g] = "idle"]
       \/ Living(g) /\ cause[g] # "none" /\ UNCHANGED cause
    /\ Request(g)
    /\ UNCHANGED <<leader, kin, closed, registered, stdin, late, leaving, healthy>>
    /\ UNCHANGED breakerVars

\* More than 50 MB: the call is rejected at once, its group still has to go.
OutputOverflows(g) ==
    /\ Running /\ Watched(g) /\ ~healthy
    /\ Living(g)
    /\ Request(g)
    /\ cause' = [cause EXCEPT ![g] = "overflow"]
    /\ OperationEnds(g[1], "permanent")
    /\ UNCHANGED <<leader, kin, closed, registered, stdin, late, leaving, healthy>>

\* The error event of a process that was never born.
SpawnFails(g) ==
    /\ Running
    /\ leader[g] = "unborn"
    /\ leader' = [leader EXCEPT ![g] = "none"]
    /\ closed' = [closed EXCEPT ![g] = TRUE]
    /\ OperationEnds(g[1], "permanent")
    /\ UNCHANGED <<kin, registered, pending, cause, stdin, late, leaving, healthy>>

\* Defect: exit code 0 is enough.
Outcome_AnyDelivery(g) ==
    CASE cause[g] = "timeout" \/ (cause[g] = "none" /\ leader[g] = "124") -> "transient"
      [] cause[g] = "none" /\ leader[g] = "0" -> "success"
      [] OTHER -> "permanent"

\* What the close handler makes of the try: a timeout is 124, like the exit code that
\* says the same, and may be retried; an idle stop is 125 and is not.
Outcome(g) ==
    CASE cause[g] = "timeout" \/ (cause[g] = "none" /\ leader[g] = "124") -> "transient"
      [] cause[g] = "none" /\ leader[g] = "0" /\ stdin[g] = "succeeded" -> "success"
      [] OTHER -> "permanent"

\* The close event comes after the exit, when nobody holds the pipes any more; a
\* descendant may have closed its copies.  A group that ended unasked is let go,
\* with what it left behind.
Close(g) ==
    /\ Running /\ Open(g)
    /\ leader[g] \in Codes
    /\ closed' = [closed EXCEPT ![g] = TRUE]
    /\ leader' = [leader EXCEPT ![g] = "none"]
    /\ kin' = [kin EXCEPT ![g] = @ /\ pending[g]]
    /\ LeaderGone(g)
    /\ Forget(g, ~pending[g])
    /\ IF cause[g] = "overflow" THEN UNCHANGED breakerVars
                                ELSE OperationEnds(g[1], Outcome(g))
    /\ UNCHANGED <<pending, late, leaving, healthy>>

-----------------------------------------------------------------------------
(* The gateway leaves.                                                      *)

\* killAllProcessGroups: SIGTERM to every group, or nothing to wait for.
ShutdownBegins ==
    /\ leaving = "no"
    /\ leaving' = IF \E g \in Groups : registered[g] THEN "asking" ELSE "killed"
    /\ UNCHANGED <<procVars, healthy>>
    /\ UNCHANGED breakerVars

\* Defect: the timer only clears the books.
ShutdownKills_Clears ==
    /\ leaving = "asking"
    /\ leaving' = "killed"
    /\ registered' = [g \in Groups |-> FALSE]
    /\ UNCHANGED <<leader, kin, closed, pending, cause, stdin, late, healthy>>
    /\ UNCHANGED breakerVars

\* Its timer: SIGKILL to the groups that are registered by now.
ShutdownKills ==
    /\ leaving = "asking"
    /\ leaving' = "killed"
    /\ KillAll({g \in Groups : registered[g]})
    /\ UNCHANGED <<closed, pending, cause, stdin, late, healthy>>
    /\ UNCHANGED breakerVars

\* process.exit, after the transports and stores are closed.
Exits ==
    /\ leaving = "killed"
    /\ leaving' = "gone"
    /\ UNCHANGED <<procVars, healthy>>
    /\ UNCHANGED breakerVars

-----------------------------------------------------------------------------

Tick ==
    /\ Running
    /\ TimePasses
    /\ UNCHANGED <<procVars, leaving, healthy>>

ProviderRecovers ==
    /\ ~healthy
    /\ healthy' = TRUE
    /\ UNCHANGED <<breakerVars, procVars, leaving>>

Next ==
    \/ Tick \/ ProviderRecovers
    \/ ShutdownBegins \/ ShutdownKills \/ Exits
    \/ \E c \in Calls : Call(c) \/ Wake(c)
    \/ \E g \in Groups :
         \/ FenceKills(g) \/ LeaderEnds(g) \/ Forks(g) \/ KinEnds(g) \/ StdinEnds(g)
         \/ TimerFires(g) \/ OutputOverflows(g) \/ SpawnFails(g) \/ Close(g)

\* Callers keep calling, timers fire (a call has a time limit), a healthy process
\* ends.  A process that is not healthy need not end: its group is killed.
Fairness ==
    /\ WF_vars(Tick)
    /\ \A c \in Calls : WF_vars(Call(c) \/ Wake(c))
    /\ \A g \in Groups :
         /\ WF_vars(FenceKills(g)) /\ WF_vars(TimerFires(g))
         /\ WF_vars(SpawnFails(g) \/ Close(g))
         /\ WF_vars(healthy /\ (StdinEnds(g) \/ LeaderEnds(g)))

SafetySpec == Init /\ [][Next]_vars
Spec == SafetySpec /\ Fairness

-----------------------------------------------------------------------------

\* The types, and what withRetry's checks make of its counters: an open breaker has
\* failures enough and a time to count from, so that it is not taken for long past
\* (`lastFailureTime ?? 0'); a closed one has fewer, whatever stragglers and retries
\* of other calls end meanwhile.
TypeOK ==
    /\ state \in {"CLOSED", "OPEN", "HALF_OPEN"}
    /\ failures \in 0..Threshold
    /\ age \in -1..(ResetTimeout + 1)
    /\ call \in [Calls -> {"running", "sleeping"} \cup Over]
    /\ attempt \in [Calls -> Tries]
    /\ leader \in [Groups -> {"none", "unborn", "alive"} \cup Codes]
    /\ kin \in [Groups -> BOOLEAN]
    /\ closed \in [Groups -> BOOLEAN]
    /\ registered \in [Groups -> BOOLEAN]
    /\ pending \in [Groups -> BOOLEAN]
    /\ cause \in [Groups -> {"none", "timeout", "idle", "overflow"}]
    /\ stdin \in [Groups -> {"pending", "succeeded", "failed"}]
    /\ leaving \in {"no", "asking", "killed", "gone"}
    /\ late \in [Groups -> BOOLEAN]
    /\ healthy \in BOOLEAN
    /\ IF state = "CLOSED" THEN failures < Threshold ELSE failures = Threshold /\ age >= 0

\* "The fence retains ownership through its unconditional SIGKILL" (executor.ts:792):
\* a group whose termination was asked for is not let go while a member lives.
Condemned(g) == cause[g] # "none" \/ stdin[g] = "failed"
CondemnedGroupsDie ==
    \A g \in Groups : Condemned(g) /\ ~registered[g] => ~Living(g)

\* After the SIGKILL of the shutdown only a process born since can be alive: a call
\* that slept then, or that came then, spawns another (the log says "All process
\* groups terminated").
ShutdownKillsAll ==
    leaving \in {"killed", "gone"} =>
        \A g \in Groups : leader[g] = "alive" => late[g]

\* "an exit 0 cannot be reported as success when the complete request was never
\* delivered" (executor.ts:894), nor a process that was stopped by a timer or by the
\* fence.
SuccessIsWhole ==
    [][\A c \in Calls : call[c] = "running" /\ call'[c] = "returned" =>
          LET g == <<c, attempt[c]>> IN
          stdin[g] = "succeeded" /\ leader[g] = "0" /\ ~Condemned(g)]_vars

\* A call with a time limit returns, whatever its processes do.
CallsReturn ==
    \A c \in Calls : call[c] = "running" ~> (call[c] \in Over \/ leaving # "no")

\* The breaker of a provider that recovered closes, stragglers and failed trials
\* notwithstanding.
RecoveryClosesBreaker == healthy ~> (state = "CLOSED" \/ leaving # "no")
=============================================================================
