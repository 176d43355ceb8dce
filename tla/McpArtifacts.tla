---------------------------- MODULE McpArtifacts ----------------------------
(***************************************************************************)
(* The configuration file a Claude job reads while it runs, its removal,   *)
(* and the durable pin that keeps the job's row until the removal is on    *)
(* record (src/src/async-job-manager.ts, claude-mcp-config.ts,             *)
(* job-store.ts, mcp-artifact-recovery.ts).                                *)
(*                                                                         *)
(* The request writes the file and hands it to the manager of one gateway. *)
(* The owner removes it when its child's close proves that nobody reads it *)
(* any more; when the owner is gone, the sweep that recovers the row, or a *)
(* gateway of the same machine at its start, removes it in its stead; an   *)
(* operator may do it by hand.  The unlink and the acknowledgement in the  *)
(* store are two steps, and every other process runs in between.           *)
(*                                                                         *)
(* A row's `queued' and `running' are "open", its `completed', `failed'    *)
(* and `canceled' are "ended".  Leases are abstracted: a row without an    *)
(* owner may be swept at any time, and one whose owner lives MaxLapses     *)
(* times (JobLeases has the reasons).                                      *)
(***************************************************************************)
EXTENDS Naturals

CONSTANTS
    Gateways,     \* gateway processes (a restarted one is the same element)
    Jobs,         \* Claude jobs launched with a request-scoped config
    Operator,     \* the local recovery command
    NoGateway, NoJob,
    HostOf,       \* the machine of each gateway
    MaxRefusals,  \* unlinks that report unsafe, scope_changed or failed
    MaxLosses,    \* store calls that report an error
    MaxLapses,    \* leases that lapse although the owner lives
    MaxCrashes

ASSUME McpArtifactsAssumption ==
    /\ Operator \notin Gateways /\ NoGateway \notin Gateways /\ NoJob \notin Jobs
    /\ DOMAIN HostOf = Gateways
    /\ {MaxRefusals, MaxLosses, MaxLapses, MaxCrashes} \subseteq Nat

VARIABLES
    row,      \* the row's status
    pinned,   \* mcp_artifact_cleanup_pending
    file,     \* the config on disk
    child,    \* the provider process
    owner,    \* the gateway that took the request
    held,     \* the job in its owner's memory
    calls,    \* the owner's terminal callbacks, each with its own awaits
    up,       \* the gateways that run
    cleaner,  \* reconcileLocalOrphanedClaudeMcpArtifacts, a sweep's cleanup, the command
    faults    \* refusals, losses, lapses and crashes so far

vars == <<row, pinned, file, child, owner, held, calls, up, cleaner, faults>>

Calls    == {"end", "close", "retry"}
Cleaners == Gateways \cup {Operator}
Settled  == {"ended", "orphaned"}
Limits   == [refusals |-> MaxRefusals, losses |-> MaxLosses,
             lapses |-> MaxLapses, crashes |-> MaxCrashes]

Fault(kind) == /\ faults[kind] < Limits[kind]
               /\ faults' = [faults EXCEPT ![kind] = @ + 1]

Absent   == [stage |-> "none", closed |-> FALSE, written |-> FALSE,
             path |-> FALSE, cleaned |-> FALSE]
NoCalls  == [c \in Calls |-> "none"]
AtRest   == [step |-> "idle", todo |-> {}, job |-> NoJob]

Init ==
    /\ row = [j \in Jobs |-> "none"]
    /\ pinned = [j \in Jobs |-> FALSE]
    /\ file = [j \in Jobs |-> "unwritten"]
    /\ child = [j \in Jobs |-> "none"]
    /\ owner = [j \in Jobs |-> NoGateway]
    /\ held = [j \in Jobs |-> Absent]
    /\ calls = [j \in Jobs |-> NoCalls]
    /\ up = Gateways
    /\ cleaner = [c \in Cleaners |-> AtRest]
    /\ faults = [kind \in DOMAIN Limits |-> 0]

-----------------------------------------------------------------------------
(* The file and the row. *)

\* removeClaudeMcpArtifact: only an unlink that was proved inside the captured
\* directory is "removed".  A refusal may come after the unlink (the pathname
\* fallback looks at the directory once more).
Unlink(j, outcome) ==
    \/ /\ outcome = "removed" /\ file[j] = "present"
       /\ file' = [file EXCEPT ![j] = "gone"]
       /\ UNCHANGED faults
    \/ /\ outcome = "absent" /\ file[j] # "present"
       /\ UNCHANGED <<file, faults>>
    \/ /\ outcome = "refused" /\ Fault("refusals")
       /\ file' \in {file, [file EXCEPT ![j] = "gone"]}
Outcomes == {"removed", "absent", "refused"}

\* The compare-and-set of SQL_ACKNOWLEDGE_MCP_ARTIFACT_CLEANUP.
Acknowledgeable(j) == row[j] \in Settled /\ pinned[j]
Acknowledge(j)     == pinned' = [pinned EXCEPT ![j] = @ /\ ~Acknowledgeable(j)]

\* A store call whose caller sees an error may have been applied or not.
Call(outcome, Effect, NoEffect) ==
    \/ outcome = "ok" /\ Effect /\ UNCHANGED faults
    \/ outcome = "error" /\ Fault("losses") /\ (Effect \/ NoEffect)

\* recordStart's INSERT, with the pin.
Insert(j) == /\ row' = [row EXCEPT ![j] = "open"]
             /\ pinned' = [pinned EXCEPT ![j] = TRUE]

\* recordComplete: an open or orphaned row takes the owner's result.
Complete(j) == row' = [row EXCEPT ![j] = IF @ \in {"open", "orphaned"} THEN "ended" ELSE @]

-----------------------------------------------------------------------------
(* The owner. *)

\* buildClaudeMcpConfig writes the config; the manager resolves its scope.
Request(j, g) ==
    /\ held[j].stage = "none" /\ g \in up
    /\ file' = [file EXCEPT ![j] = "present"]
    /\ owner' = [owner EXCEPT ![j] = g]
    /\ held' = [held EXCEPT ![j].stage = "admitting", ![j].path = TRUE]
    /\ UNCHANGED <<row, pinned, child, calls, up, cleaner, faults>>

\* The job is durably admitted: recordStartOrFailClosed.
Admit(j) ==
    /\ held[j].stage = "admitting"
    /\ Insert(j)
    /\ held' = [held EXCEPT ![j].stage = "queued"]
    /\ UNCHANGED <<file, child, owner, calls, up, cleaner, faults>>

\* It is not: the request reused another job, met the limiter's bound, or the
\* insert failed, perhaps after it was applied.
NotAdmitted(j) ==
    /\ held[j].stage = "admitting"
    /\ \/ UNCHANGED <<row, pinned, faults>>
       \/ Fault("losses") /\ (Insert(j) \/ UNCHANGED <<row, pinned>>)
    /\ held' = [held EXCEPT ![j].stage = "declined"]
    /\ UNCHANGED <<file, child, owner, calls, up, cleaner>>

\* ... and the request's own cleanup runs (tryReuseDedupedJob, consumeOnComplete).
CallerCleans(j) ==
    /\ held[j].stage = "declined"
    /\ \E o \in Outcomes : Unlink(j, o)
    /\ held' = [held EXCEPT ![j].stage = "forgotten"]
    /\ UNCHANGED <<row, pinned, child, owner, calls, up, cleaner>>

\* launchProcessJob spawns the child.
Spawn(j) ==
    /\ held[j].stage = "queued"
    /\ child' = [child EXCEPT ![j] = "alive"]
    /\ held' = [held EXCEPT ![j].stage = "running"]
    /\ UNCHANGED <<row, pinned, file, owner, calls, up, cleaner, faults>>

ChildExits(j) ==
    /\ child[j] = "alive"
    /\ child' = [child EXCEPT ![j] = "dead"]
    /\ UNCHANGED <<row, pinned, file, owner, held, calls, up, cleaner, faults>>

\* A job that never had a child ends: failQueuedJob, cancelJob, a failed launch.
EndsUnlaunched(j) ==
    /\ held[j].stage = "queued"
    /\ held' = [held EXCEPT ![j].stage = "ended", ![j].closed = TRUE]
    /\ calls' = [calls EXCEPT ![j]["end"] = "write"]
    /\ UNCHANGED <<row, pinned, file, child, owner, up, cleaner, faults>>

\* The job ends before its close: cancel, idle timeout, overflow, shutdown, or the
\* pass that finds a dead process.  The child may still run.
EndsEarly(j) ==
    /\ held[j].stage = "running"
    /\ held' = [held EXCEPT ![j].stage = "ended"]
    /\ calls' = [calls EXCEPT ![j]["end"] = "write"]
    /\ UNCHANGED <<row, pinned, file, child, owner, up, cleaner, faults>>

\* The close handler.
Closes(j) ==
    /\ child[j] = "dead" /\ held[j].stage \in {"running", "ended"} /\ ~held[j].closed
    /\ held' = [held EXCEPT ![j].stage = "ended", ![j].closed = TRUE]
    /\ LET c == IF held[j].stage = "running" THEN "end" ELSE "close"
       IN  calls' = [calls EXCEPT ![j][c] = "write"]
    /\ UNCHANGED <<row, pinned, file, child, owner, up, cleaner, faults>>

\* The timer of a failed terminal write.
Retries(j) ==
    /\ held[j].stage = "ended" /\ ~held[j].written
    /\ \A c \in Calls : calls[j][c] # "write"
    /\ calls[j]["retry"] = "none"
    /\ calls' = [calls EXCEPT ![j]["retry"] = "write"]
    /\ UNCHANGED <<row, pinned, file, child, owner, held, up, cleaner, faults>>

\* Defect: the request to terminate is taken for the end of the child.
MayStillRead_UntilEnded(j) == child[j] # "none" /\ held[j].stage = "running"

\* liveProcessMayStillReadArtifacts: a child was spawned and its close not seen.
MayStillRead(j) == child[j] # "none" /\ ~held[j].closed

\* persistComplete, then fireOnComplete up to its first unlink.
Writes(j, c) ==
    /\ calls[j][c] = "write"
    /\ \E outcome \in {"ok", "error"} :
        /\ Call(outcome, Complete(j), UNCHANGED row)
        /\ held' = [held EXCEPT ![j].written = @ \/ outcome = "ok"]
        /\ calls' = [calls EXCEPT ![j][c] =
                        IF MayStillRead(j) \/ (c = "retry" /\ outcome = "error") THEN "none"
                        ELSE IF held[j].path THEN "unlink" ELSE "hook"]
    /\ UNCHANGED <<pinned, file, child, owner, up, cleaner>>

\* finalizeMcpArtifactCleanup: only "removed" goes on to the acknowledgement.
Finalizes(j, c) ==
    /\ calls[j][c] = "unlink"
    /\ \E o \in Outcomes :
        /\ Unlink(j, o)
        /\ calls' = [calls EXCEPT ![j][c] = IF o = "removed" THEN "ack" ELSE "hook"]
    /\ UNCHANGED <<row, pinned, child, owner, held, up, cleaner>>

Acknowledges(j, c) ==
    /\ calls[j][c] = "ack"
    /\ \E outcome \in {"ok", "error"} :
        /\ Call(outcome, Acknowledge(j), UNCHANGED pinned)
        /\ held' = [held EXCEPT ![j].path = @ /\ ~(outcome = "ok" /\ Acknowledgeable(j))]
    /\ calls' = [calls EXCEPT ![j][c] = "hook"]
    /\ UNCHANGED <<row, file, child, owner, up, cleaner>>

\* The request's cleanup closure, called once.
Hook(j, c) ==
    /\ calls[j][c] = "hook"
    /\ IF held[j].cleaned THEN UNCHANGED <<file, faults>> ELSE \E o \in Outcomes : Unlink(j, o)
    /\ held' = [held EXCEPT ![j].cleaned = TRUE]
    /\ calls' = [calls EXCEPT ![j][c] = "none"]
    /\ UNCHANGED <<row, pinned, child, owner, up, cleaner>>

-----------------------------------------------------------------------------
(* The other removers. *)

\* A cleaner takes the jobs of a list one by one.
Visit(c, S) ==
    cleaner' = [cleaner EXCEPT ![c] =
        IF S = {} THEN AtRest ELSE [step |-> "read", todo |-> S, job |-> NoJob]]
Done(c, j) == Visit(c, cleaner[c].todo \ {j})

Local(g, j) == owner[j] \in Gateways /\ HostOf[owner[j]] = HostOf[g]

\* Defect: only orphaned rows are reconciled, as before the pin was introduced.
Reclaimable_Orphans(c, j) == row[j] = "orphaned" /\ (pinned[j] \/ c # Operator)

\* The rows a cleaner may act on, as the selectors and the second look at the row
\* have it: an orphaned row, or a settled one that is pinned.  The command
\* insists on the pin.
Reclaimable(c, j) ==
    /\ row[j] \in Settled
    /\ pinned[j] \/ (c # Operator /\ row[j] = "orphaned")

\* runOrphanSweep: stale rows become orphaned, those of this machine are cleaned.
Sweep(g, S) ==
    /\ g \in up /\ cleaner[g] = AtRest
    /\ S # {} /\ \A j \in S : row[j] = "open"
    /\ row' = [j \in Jobs |-> IF j \in S THEN "orphaned" ELSE row[j]]
    /\ Visit(g, {j \in S : Local(g, j)})
    /\ UNCHANGED <<pinned, file, child, owner, held, calls, up>>

Ownerless(j) == held[j].stage = "gone"

SweepOwnerless(g) ==
    \E S \in SUBSET Jobs : (\A j \in S : Ownerless(j)) /\ Sweep(g, S) /\ UNCHANGED faults
SweepLapsed(g) ==
    \E S \in SUBSET Jobs : (\E j \in S : ~Ownerless(j)) /\ Sweep(g, S) /\ Fault("lapses")

\* restoreDurableAdmission runs again after an outage of the heartbeat.
HeartbeatRecovers(g) ==
    /\ g \in up /\ cleaner[g] = AtRest
    /\ cleaner' = [cleaner EXCEPT ![g].step = "select"]
    /\ UNCHANGED <<row, pinned, file, child, owner, held, calls, up, faults>>

\* The selectors of reconcileLocalOrphanedClaudeMcpArtifacts.
Selects(g) ==
    /\ cleaner[g].step = "select"
    /\ \/ UNCHANGED faults /\ Visit(g, {j \in Jobs : Local(g, j) /\ Reclaimable(g, j)})
       \/ Fault("losses") /\ Visit(g, {})
    /\ UNCHANGED <<row, pinned, file, child, owner, held, calls, up>>

\* recoverMcpArtifactCleanupPin, typed in on the machine of the job.
OperatorRecovers(j) ==
    /\ cleaner[Operator] = AtRest /\ Reclaimable(Operator, j)
    /\ cleaner' = [cleaner EXCEPT ![Operator] = [step |-> "check", todo |-> {j}, job |-> j]]
    /\ UNCHANGED <<row, pinned, file, child, owner, held, calls, up, faults>>

\* getById, and the second look at the row.
ReadsRow(c, j) ==
    /\ cleaner[c].step = "read" /\ j \in cleaner[c].todo
    /\ \/ /\ Reclaimable(c, j) /\ UNCHANGED faults
          /\ cleaner' = [cleaner EXCEPT ![c].step = "check", ![c].job = j]
       \/ ~Reclaimable(c, j) /\ UNCHANGED faults /\ Done(c, j)
       \/ Fault("losses") /\ Done(c, j)
    /\ UNCHANGED <<row, pinned, file, child, owner, held, calls, up>>

\* Defect: the acknowledgement follows the unlink however it went.
Suffices_Any(c, outcome) == TRUE

\* The unlink.  Only the command takes a file that is not there for a removed one.
Suffices(c, outcome) == outcome = "removed" \/ (c = Operator /\ outcome = "absent")

Unlinks(c) ==
    /\ cleaner[c].step = "check"
    /\ \E o \in Outcomes :
        /\ Unlink(cleaner[c].job, o)
        /\ IF Suffices(c, o) THEN cleaner' = [cleaner EXCEPT ![c].step = "ack"]
                             ELSE Done(c, cleaner[c].job)
    /\ UNCHANGED <<row, pinned, child, owner, held, calls, up>>

\* acknowledgeMcpArtifactCleanup.
CleanerAcknowledges(c) ==
    /\ cleaner[c].step = "ack"
    /\ \E outcome \in {"ok", "error"} :
           Call(outcome, Acknowledge(cleaner[c].job), UNCHANGED pinned)
    /\ Done(c, cleaner[c].job)
    /\ UNCHANGED <<row, file, child, owner, held, calls, up>>

\* SQL_DELETE_EXPIRED: retention passes over pinned rows.
Deletable(j) == row[j] \in Settled /\ ~pinned[j]

DeleteExpired(j) ==
    /\ Deletable(j)
    /\ row' = [row EXCEPT ![j] = "deleted"]
    /\ UNCHANGED <<pinned, file, child, owner, held, calls, up, cleaner, faults>>

-----------------------------------------------------------------------------
(* Gateways come and go; what they held in memory goes with them. *)

Owned(g) == {j \in Jobs : owner[j] = g /\ held[j].stage # "none"}

GoesDown(g) ==
    /\ g \in up
    /\ up' = up \ {g}
    /\ held' = [j \in Jobs |-> IF j \in Owned(g) THEN [Absent EXCEPT !.stage = "gone"] ELSE held[j]]
    /\ calls' = [j \in Jobs |-> IF j \in Owned(g) THEN NoCalls ELSE calls[j]]
    /\ cleaner' = [cleaner EXCEPT ![g] = AtRest]
    /\ UNCHANGED <<row, pinned, file, child, owner>>

Crash(g) == Fault("crashes") /\ GoesDown(g)

\* dispose() has returned: nothing is in flight, or its time is over.
Stop(g) ==
    /\ cleaner[g] = AtRest
    /\ \A j \in Owned(g) : held[j].stage \notin {"admitting", "declined"} /\ calls[j] = NoCalls
    /\ GoesDown(g)
    /\ UNCHANGED faults

\* The start ends with the reconciliation.
Start(g) ==
    /\ g \notin up
    /\ up' = up \cup {g}
    /\ cleaner' = [cleaner EXCEPT ![g].step = "select"]
    /\ UNCHANGED <<row, pinned, file, child, owner, held, calls, faults>>

-----------------------------------------------------------------------------
\* What the owner goes on to do by itself ...
OwnerSteps(j) ==
    \/ Admit(j) \/ NotAdmitted(j) \/ CallerCleans(j)
    \/ Spawn(j) \/ EndsUnlaunched(j) \/ EndsEarly(j)
    \/ \E c \in Calls : Writes(j, c) \/ Finalizes(j, c) \/ Acknowledges(j, c) \/ Hook(j, c)

\* ... and a cleaner.
CleanerSteps(c) ==
    \/ c \in Gateways /\ Selects(c)
    \/ \E j \in Jobs : ReadsRow(c, j)
    \/ Unlinks(c)
    \/ CleanerAcknowledges(c)

JobSteps(j) ==
    \/ \E g \in Gateways : Request(j, g)
    \/ OwnerSteps(j) \/ ChildExits(j) \/ Closes(j) \/ Retries(j)
    \/ OperatorRecovers(j) \/ DeleteExpired(j)

GatewaySteps(g) ==
    \/ SweepOwnerless(g) \/ SweepLapsed(g) \/ HeartbeatRecovers(g)
    \/ Crash(g) \/ Stop(g) \/ Start(g)

Next == \/ \E j \in Jobs : JobSteps(j)
        \/ \E g \in Gateways : GatewaySteps(g)
        \/ \E c \in Cleaners : CleanerSteps(c)

\* The calls of a gateway return and its jobs end.  A gateway whose machine has
\* leftovers is restarted now and then (the reconciliation runs at a start and
\* after an outage, at no other time); it sweeps whenever it is idle.
OwnerFairness(j) == WF_vars(OwnerSteps(j))
Restarted(g)     == WF_vars(Start(g) \/ CleanerSteps(g)) /\ SF_vars(Stop(g))
Fairness ==
    /\ \A j \in Jobs : OwnerFairness(j)
    /\ \A g \in Gateways : Restarted(g) /\ SF_vars(SweepOwnerless(g))

Spec     == Init /\ [][Next]_vars
LiveSpec == Spec /\ Fairness

-----------------------------------------------------------------------------
Memory ==
    [stage : {"none", "admitting", "declined", "queued", "running", "ended", "forgotten", "gone"},
     closed : BOOLEAN, written : BOOLEAN, path : BOOLEAN, cleaned : BOOLEAN]
CallSteps == {"none", "write", "unlink", "ack", "hook"}
Tasks ==
    [step : {"idle", "select", "read", "check", "ack"}, todo : SUBSET Jobs, job : Jobs \cup {NoJob}]

TypeOK ==
    /\ row \in [Jobs -> {"none", "open", "deleted"} \cup Settled]
    /\ pinned \in [Jobs -> BOOLEAN]
    /\ file \in [Jobs -> {"unwritten", "present", "gone"}]
    /\ child \in [Jobs -> {"none", "alive", "dead"}]
    /\ owner \in [Jobs -> Gateways \cup {NoGateway}]
    /\ held \in [Jobs -> Memory]
    /\ calls \in [Jobs -> [Calls -> CallSteps]]
    /\ up \subseteq Gateways
    /\ cleaner \in [Cleaners -> Tasks]
    /\ faults \in [DOMAIN Limits -> Nat]

\* The config of a living child is removed only after its job is over for the
\* store, and never by the owner, whose child it is: the owner waits for the
\* close, whatever ended the job and however its terminal write went
\* (fireOnCompleteBody, cleanupConfirmedOrphanClaudeMcpArtifact).
ConfigKept ==
    [][\A j \in Jobs : child[j] = "alive" /\ file[j] = "present" /\ file'[j] # "present" =>
          /\ row[j] \in Settled
          /\ \E c \in Cleaners : cleaner[c].job = j /\ cleaner[c].step = "check"
                                 /\ cleaner'[c] # cleaner[c]]_vars

\* As long as the config of an admitted job is on disk its row is there, pinned:
\* neither a retention pass nor an acknowledgement in another order loses the
\* only record of the file (SQL_DELETE_EXPIRED, acknowledgeMcpArtifactCleanup).
PinGuardsFile ==
    \A j \in Jobs : row[j] # "none" /\ file[j] = "present" => row[j] # "deleted" /\ pinned[j]

\* The config of every admitted job is removed in the end, although unlinks are
\* refused, answers lost, owners lost and rows swept by other machines.
ConfigsRemoved ==
    \A j \in Jobs : (row[j] # "none" /\ file[j] = "present") ~> file[j] = "gone"
=============================================================================
