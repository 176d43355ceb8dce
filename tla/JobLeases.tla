------------------------------ MODULE JobLeases ------------------------------
(***************************************************************************)
(* Several gateway instances over one durable job store: admission, the    *)
(* instance heartbeat that renews per-job leases, the orphan sweep with    *)
(* its same-host process probe, the durable queued -> running transition,  *)
(* the fenced terminal write, crashes, blocked event loops and failing     *)
(* store calls.  The statements are those of src/src/job-store.ts, the     *)
(* callers those of src/src/async-job-manager.ts.                          *)
(*                                                                         *)
(* The unit of time is the heartbeat interval.  lease[j] is the number of  *)
(* whole intervals left before lease_deadline.  A lease renewed some time  *)
(* into an interval ends as far into a later one, so that at 0 it runs out *)
(* at any moment of the interval; -1 stands for a deadline that has passed *)
(* and for NULL, which every statement treats alike.  Every store call is  *)
(* one transaction.  A call that fails may or may not have committed: the  *)
(* caller of a lost commit sees an error.                                  *)
(***************************************************************************)
EXTENDS Integers, FiniteSets

CONSTANTS
    Instances,     \* the gateway processes; a restart is a fresh instance id
    ProcessJobs,   \* jobs run by a child process
    HttpJobs,      \* jobs run by an outbound request: no pid
    HostOf,        \* HostOf[i]: the machine instance i runs on
    LeaseTTL,      \* instanceLeaseTtlMs, in heartbeat intervals
    HttpGrace,     \* httpJobGraceMs, in heartbeat intervals
    MaxFailures,   \* MAX_CONSECUTIVE_HEARTBEAT_FAILURES
    MinSuccesses   \* MIN_CONSECUTIVE_HEARTBEAT_SUCCESSES_TO_RECOVER

Jobs == ProcessJobs \cup HttpJobs

NoOwner == "no owner"

\* config.ts refuses a lease shorter than two heartbeats and an http grace
\* shorter than the lease.
ASSUME LeaseAssumption ==
    /\ LeaseTTL \in Nat /\ LeaseTTL >= 2
    /\ HttpGrace \in Nat /\ HttpGrace >= LeaseTTL
    /\ MaxFailures \in Nat \ {0}
    /\ MinSuccesses \in Nat \ {0}

ASSUME JobsAssumption ==
    /\ ProcessJobs \cap HttpJobs = {}
    /\ NoOwner \notin Instances

VARIABLES
    \* an instance
    proc,       \* "off", "up" or "crashed"
    due,        \* the heartbeat to run: "none", "due", or "late" by an interval
    missed,     \* intervals since a heartbeat last committed (history, capped)
    admission,  \* durableAdmission
    failures,   \* consecutiveHeartbeatFailures
    successes,  \* consecutiveHeartbeatSuccesses
    skipSweep,  \* skipSweepThisCycle
    sweeping,   \* a sweep is between its candidate read and its write
    confirmed,  \* the candidates its process probe found alive
    \* a row of `jobs'
    status, owner, lease, pid, age,
    \* the owner's record of a job, and its child
    mem, marking, result, child,
    recorded    \* a queued row of this job was durably marked running (history)

instVars  == <<proc, due, missed, admission, failures, successes, skipSweep>>
sweepVars == <<sweeping, confirmed>>
rowVars   == <<status, owner, lease, pid, age, recorded>>
jobVars   == <<mem, marking, result, child>>
vars == <<instVars, sweepVars, rowVars, jobVars>>

Results == {"completed", "failed", "canceled"}
Open    == {"queued", "running"}

IsOpen(j) == status[j] \in Open
Lapsed(j) == lease[j] < 0
Runs(i)   == proc[i] = "up"
OwnedBy(i) == {j \in Jobs : owner[j] = i}
Capped(n, bound) == IF n > bound THEN bound ELSE n

Init ==
    /\ proc = [i \in Instances |-> "off"]
    /\ due = [i \in Instances |-> "none"]
    /\ missed = [i \in Instances |-> 0]
    /\ admission = [i \in Instances |-> FALSE]
    /\ failures = [i \in Instances |-> 0]
    /\ successes = [i \in Instances |-> 0]
    /\ skipSweep = [i \in Instances |-> FALSE]
    /\ sweeping = [i \in Instances |-> FALSE]
    /\ confirmed = [i \in Instances |-> {}]
    /\ status = [j \in Jobs |-> "none"]
    /\ owner = [j \in Jobs |-> NoOwner]
    /\ lease = [j \in Jobs |-> -1]
    /\ pid = [j \in Jobs |-> FALSE]
    /\ age = [j \in Jobs |-> 0]
    /\ recorded = [j \in Jobs |-> FALSE]
    /\ mem = [j \in Jobs |-> "none"]
    /\ marking = [j \in Jobs |-> FALSE]
    /\ result = [j \in Jobs |-> "none"]
    /\ child = [j \in Jobs |-> "none"]

-----------------------------------------------------------------------------
(* Time and instances.                                                      *)

\* One heartbeat interval passes.  A running instance whose beat of the last
\* interval has not run by then has a blocked event loop; the beat is late.
Tick ==
    /\ due' = [i \in Instances |->
                 CASE proc[i] # "up" -> "none"
                   [] due[i] = "none" -> "due"
                   [] OTHER -> "late"]
    /\ missed' = [i \in Instances |->
                    IF due[i] # "none" THEN Capped(missed[i] + 1, LeaseTTL) ELSE missed[i]]
    /\ lease' = [j \in Jobs |-> IF Lapsed(j) THEN -1 ELSE lease[j] - 1]
    /\ age' = [j \in Jobs |->
                 IF j \in HttpJobs /\ IsOpen(j) THEN Capped(age[j] + 1, HttpGrace + 1)
                                                ELSE age[j]]
    /\ UNCHANGED <<proc, admission, failures, successes, skipSweep, sweepVars,
                   status, owner, pid, recorded, jobVars>>

\* A deadline inside the interval that has begun, whatever beat is due in it; and
\* a request's grace, which also began some time into an interval.
RunsOut(j) ==
    /\ IsOpen(j)
    /\ \/ lease[j] = 0 /\ lease' = [lease EXCEPT ![j] = -1] /\ UNCHANGED age
       \/ /\ j \in HttpJobs /\ age[j] = HttpGrace
          /\ age' = [age EXCEPT ![j] = HttpGrace + 1] /\ UNCHANGED lease
    /\ UNCHANGED <<instVars, sweepVars, status, owner, pid, recorded, jobVars>>

\* The constructor registers the instance and beats once before it may admit;
\* a failure of either leaves admission closed.
StartUp(i) ==
    /\ proc[i] = "off"
    /\ proc' = [proc EXCEPT ![i] = "up"]
    /\ \E registered \in BOOLEAN : admission' = [admission EXCEPT ![i] = registered]
    /\ UNCHANGED <<due, missed, failures, successes, skipSweep, sweepVars,
                   rowVars, jobVars>>

\* The process dies: its memory and its calls in flight are gone, its children
\* are not.
Crash(i) ==
    /\ proc[i] = "up"
    /\ proc' = [proc EXCEPT ![i] = "crashed"]
    /\ due' = [due EXCEPT ![i] = "none"]
    /\ missed' = [missed EXCEPT ![i] = 0]
    /\ admission' = [admission EXCEPT ![i] = FALSE]
    /\ failures' = [failures EXCEPT ![i] = 0]
    /\ successes' = [successes EXCEPT ![i] = 0]
    /\ skipSweep' = [skipSweep EXCEPT ![i] = FALSE]
    /\ sweeping' = [sweeping EXCEPT ![i] = FALSE]
    /\ confirmed' = [confirmed EXCEPT ![i] = {}]
    /\ mem' = [j \in Jobs |-> IF j \in OwnedBy(i) THEN "lost" ELSE mem[j]]
    /\ marking' = [j \in Jobs |-> IF j \in OwnedBy(i) THEN FALSE ELSE marking[j]]
    /\ UNCHANGED <<rowVars, result, child>>

-----------------------------------------------------------------------------
(* The heartbeat: one transaction over the instance row and the leases.     *)

\* SQL_HEARTBEAT_JOBS: every open row of the instance gets a whole lease.
HeartbeatStatement(i) ==
    lease' = [j \in Jobs |-> IF owner[j] = i /\ IsOpen(j) THEN LeaseTTL ELSE lease[j]]

\* The tick runs; a late one makes the next sweep skip its turn.
BeatRuns(i) ==
    /\ Runs(i)
    /\ due[i] # "none"
    /\ due' = [due EXCEPT ![i] = "none"]
    /\ skipSweep' = [skipSweep EXCEPT ![i] = @ \/ due[i] = "late"]
    /\ UNCHANGED <<proc, sweepVars, status, owner, pid, age, recorded, jobVars>>

BeatSucceeds(i) ==
    /\ BeatRuns(i)
    /\ HeartbeatStatement(i)
    /\ missed' = [missed EXCEPT ![i] = 0]
    /\ failures' = [failures EXCEPT ![i] = 0]
    /\ \/ /\ admission[i]
          /\ UNCHANGED <<admission, successes>>
       \/ /\ ~admission[i]
          /\ successes[i] + 1 < MinSuccesses
          /\ successes' = [successes EXCEPT ![i] = @ + 1]
          /\ UNCHANGED admission

\* Enough successes in a row: register and beat again, and admit if both work.
\* The sweep this starts is a sweep like the timer's.
BeatRestores(i) ==
    /\ BeatRuns(i)
    /\ ~admission[i]
    /\ successes[i] + 1 >= MinSuccesses
    /\ HeartbeatStatement(i)
    /\ missed' = [missed EXCEPT ![i] = 0]
    /\ failures' = [failures EXCEPT ![i] = 0]
    /\ successes' = [successes EXCEPT ![i] = 0]
    /\ \E registered \in BOOLEAN : admission' = [admission EXCEPT ![i] = registered]

\* The beat throws.  It may have committed (a lost acknowledgement, or the
\* re-registration after it failed); the failure counts all the same.
BeatFails(i) ==
    /\ BeatRuns(i)
    /\ \E committed \in BOOLEAN :
         IF committed
         THEN HeartbeatStatement(i) /\ missed' = [missed EXCEPT ![i] = 0]
         ELSE missed' = [missed EXCEPT ![i] = Capped(@ + 1, LeaseTTL)] /\ UNCHANGED lease
    /\ failures' = [failures EXCEPT ![i] = Capped(@ + 1, MaxFailures)]
    /\ successes' = [successes EXCEPT ![i] = 0]
    /\ admission' = [admission EXCEPT ![i] = @ /\ failures[i] + 1 < MaxFailures]

-----------------------------------------------------------------------------
(* The orphan sweep.                                                        *)

\* After a late heartbeat one sweep is skipped.
SweepSkips(i) ==
    /\ Runs(i) /\ admission[i] /\ ~sweeping[i]
    /\ skipSweep[i]
    /\ skipSweep' = [skipSweep EXCEPT ![i] = FALSE]
    /\ UNCHANGED <<proc, due, missed, admission, failures, successes,
                   sweepVars, rowVars, jobVars>>

\* SQL_SELECT_STALE_CANDIDATES, then kill(pid, 0) on those of this machine.
\* The pid of a child that is gone may belong to another process by now.
Stale == {j \in ProcessJobs : IsOpen(j) /\ Lapsed(j)}

SweepReads(i) ==
    /\ Runs(i) /\ admission[i] /\ ~sweeping[i]
    /\ ~skipSweep[i]
    /\ LET probed == {j \in Stale : pid[j] /\ HostOf[owner[j]] = HostOf[i]}
       IN  \E reused \in SUBSET {j \in probed : child[j] # "alive"} :
             confirmed' = [confirmed EXCEPT ![i] =
                             {j \in probed : child[j] = "alive"} \cup reused]
    /\ sweeping' = [sweeping EXCEPT ![i] = TRUE]
    /\ UNCHANGED <<instVars, rowVars, jobVars>>

\* Defect: the flip looks at the lease only, which a closed row has lost too.
Orphaned_AnyStatus(i) == {j \in Jobs \ confirmed[i] : status[j] # "none" /\ Lapsed(j)}

\* Defect: the flip trusts the candidate read instead of the row's lease.
Orphaned_Blindly(i) == {j \in Jobs \ confirmed[i] : IsOpen(j)}

\* The rows recoverStaleJobs flips, by the lease as it is in its transaction.
Orphaned(i) ==
    {j \in Jobs \ confirmed[i] :
       /\ IsOpen(j)
       /\ Lapsed(j)
       /\ j \in HttpJobs => age[j] > HttpGrace}

\* Defect: the grace keeps the pid, so that it can be granted again.
GraceGiven_KeepsPid(S) ==
    /\ lease' = [j \in Jobs |-> IF j \in S THEN LeaseTTL ELSE lease[j]]
    /\ UNCHANGED pid

\* SQL_ADVANCE_LEASE: one lease more for the rows confirmed alive, and no pid
\* to confirm a second time.
GraceGiven(S) ==
    /\ lease' = [j \in Jobs |-> IF j \in S THEN LeaseTTL ELSE lease[j]]
    /\ pid' = [j \in Jobs |-> pid[j] /\ j \notin S]

\* recoverStaleJobs: the advance and the flip are one transaction.
SweepWrites(i) ==
    /\ Runs(i) /\ sweeping[i]
    /\ GraceGiven({j \in confirmed[i] : IsOpen(j)})
    /\ status' = [j \in Jobs |-> IF j \in Orphaned(i) THEN "orphaned" ELSE status[j]]
    /\ sweeping' = [sweeping EXCEPT ![i] = FALSE]
    /\ confirmed' = [confirmed EXCEPT ![i] = {}]
    /\ UNCHANGED <<instVars, owner, age, recorded, jobVars>>

\* The read or the write throws, without having committed.
SweepFails(i) ==
    /\ Runs(i) /\ sweeping[i]
    /\ sweeping' = [sweeping EXCEPT ![i] = FALSE]
    /\ confirmed' = [confirmed EXCEPT ![i] = {}]
    /\ UNCHANGED <<instVars, rowVars, jobVars>>

\* SQL_DELETE_EXPIRED: the retention of a closed row is over.
Evict(i, j) ==
    /\ Runs(i) /\ admission[i]
    /\ status[j] \in Results \cup {"orphaned"}
    /\ status' = [status EXCEPT ![j] = "deleted"]
    /\ UNCHANGED <<instVars, sweepVars, owner, lease, pid, age, recorded, jobVars>>

-----------------------------------------------------------------------------
(* One job at its owner.                                                    *)

\* recordStart committed: an open row under this instance's lease.
Admit(i, j) ==
    /\ Runs(i) /\ admission[i]
    /\ status[j] = "none"
    /\ status' = [status EXCEPT ![j] = "queued"]
    /\ owner' = [owner EXCEPT ![j] = i]
    /\ lease' = [lease EXCEPT ![j] = LeaseTTL]
    /\ mem' = [mem EXCEPT ![j] = "queued"]
    /\ UNCHANGED <<instVars, sweepVars, pid, age, recorded, marking, result, child>>

\* A permit: the child is spawned (or the request is about to be sent), and the
\* durable transition is on its way.
Launch(i, j) ==
    /\ Runs(i) /\ owner[j] = i
    /\ mem[j] = "queued"
    /\ mem' = [mem EXCEPT ![j] = "running"]
    /\ marking' = [marking EXCEPT ![j] = TRUE]
    /\ child' = IF j \in ProcessJobs THEN [child EXCEPT ![j] = "alive"] ELSE child
    /\ UNCHANGED <<instVars, sweepVars, rowVars, result>>

\* What launch() does when markRunning did not report a transition: a child is
\* killed, a request goes on.
MarkingLost(j) ==
    mem' = IF j \in ProcessJobs /\ mem[j] = "running"
           THEN [mem EXCEPT ![j] = "killing"] ELSE mem

\* SQL_MARK_RUNNING on a row that is still queued.
MarkRunning(j) ==
    /\ status' = [status EXCEPT ![j] = "running"]
    /\ lease' = [lease EXCEPT ![j] = LeaseTTL]
    /\ pid' = [pid EXCEPT ![j] = j \in ProcessJobs]
    /\ recorded' = [recorded EXCEPT ![j] = TRUE]

MarkingApplied(i, j) ==
    /\ Runs(i) /\ owner[j] = i
    /\ marking[j] /\ status[j] = "queued"
    /\ MarkRunning(j)
    /\ marking' = [marking EXCEPT ![j] = FALSE]
    /\ UNCHANGED <<instVars, sweepVars, owner, age, mem, result, child>>

\* Defect: no matching row is taken for success.
MarkingRefused_Ignored(i, j) ==
    /\ Runs(i) /\ owner[j] = i
    /\ marking[j] /\ status[j] # "queued"
    /\ marking' = [marking EXCEPT ![j] = FALSE]
    /\ UNCHANGED <<instVars, sweepVars, rowVars, mem, result, child>>

\* No queued row matched: another instance has recovered it.
MarkingRefused(i, j) ==
    /\ Runs(i) /\ owner[j] = i
    /\ marking[j] /\ status[j] # "queued"
    /\ MarkingLost(j)
    /\ marking' = [marking EXCEPT ![j] = FALSE]
    /\ UNCHANGED <<instVars, sweepVars, rowVars, result, child>>

MarkingThrows(i, j) ==
    /\ Runs(i) /\ owner[j] = i
    /\ marking[j]
    /\ \/ UNCHANGED rowVars
       \/ status[j] = "queued" /\ MarkRunning(j) /\ UNCHANGED <<owner, age>>
    /\ MarkingLost(j)
    /\ marking' = [marking EXCEPT ![j] = FALSE]
    /\ UNCHANGED <<instVars, sweepVars, result, child>>

\* A child ends whenever it likes, its owner alive or not.
ChildExits(j) ==
    /\ child[j] = "alive"
    /\ child' = [child EXCEPT ![j] = "gone"]
    /\ UNCHANGED <<instVars, sweepVars, rowVars, mem, marking, result>>

\* The job takes its final status in memory: while queued (timeout, cancel,
\* shutdown), while running (close, a settled request, cancel, a timer), or
\* once the killed child is gone.
Settles(j, r) ==
    \/ mem[j] = "queued"  /\ r \in {"failed", "canceled"}
    \/ mem[j] = "running" /\ (r = "completed" => child[j] # "alive")
    \/ mem[j] = "killing" /\ child[j] = "gone" /\ r = "failed"

Settle(i, j) ==
    /\ Runs(i) /\ owner[j] = i
    /\ \E r \in Results : Settles(j, r) /\ result' = [result EXCEPT ![j] = r]
    /\ mem' = [mem EXCEPT ![j] = "ending"]
    /\ UNCHANGED <<instVars, sweepVars, rowVars, marking, child>>

\* Defect: the terminal write leaves orphaned rows alone.
RecordComplete_OpenOnly(j) ==
    IF ~IsOpen(j) THEN UNCHANGED <<status, lease>>
    ELSE /\ status' = [status EXCEPT ![j] = result[j]]
         /\ lease' = [lease EXCEPT ![j] = -1]

\* SQL_UPDATE_COMPLETE: the result replaces an open or orphaned status only.
RecordComplete(j) ==
    IF status[j] \notin Open \cup {"orphaned"} THEN UNCHANGED <<status, lease>>
    ELSE /\ status' = [status EXCEPT ![j] = result[j]]
         /\ lease' = [lease EXCEPT ![j] = -1]

Persist(i, j) ==
    /\ Runs(i) /\ owner[j] = i
    /\ mem[j] = "ending"
    /\ RecordComplete(j)
    /\ mem' = [mem EXCEPT ![j] = "settled"]
    /\ UNCHANGED <<instVars, sweepVars, owner, pid, age, recorded, marking, result, child>>

\* The terminal write throws although it committed; it is tried again.
PersistUnacknowledged(i, j) ==
    /\ Runs(i) /\ owner[j] = i
    /\ mem[j] = "ending"
    /\ RecordComplete(j)
    /\ UNCHANGED <<instVars, sweepVars, owner, pid, age, recorded, jobVars>>

-----------------------------------------------------------------------------
Next ==
    \/ Tick
    \/ \E i \in Instances :
         \/ StartUp(i) \/ Crash(i)
         \/ BeatSucceeds(i) \/ BeatRestores(i) \/ BeatFails(i)
         \/ SweepSkips(i) \/ SweepReads(i) \/ SweepWrites(i) \/ SweepFails(i)
         \/ \E j \in Jobs :
              \/ Admit(i, j) \/ Launch(i, j)
              \/ MarkingApplied(i, j) \/ MarkingRefused(i, j) \/ MarkingThrows(i, j)
              \/ Settle(i, j) \/ Persist(i, j) \/ PersistUnacknowledged(i, j)
              \/ Evict(i, j)
    \/ \E j \in Jobs : RunsOut(j) \/ ChildExits(j)

\* Timers fire, and a store that is asked again and again does not fail every
\* time.  Crashes, failing calls, new work and the moments children end are left
\* to chance.
SweepFairness(i) == WF_vars(SweepSkips(i)) /\ WF_vars(SweepReads(i)) /\ SF_vars(SweepWrites(i))
PersistFairness(i) == \A j \in Jobs : SF_vars(Persist(i, j))

Fairness ==
    /\ WF_vars(Tick)
    /\ \A i \in Instances : SweepFairness(i) /\ PersistFairness(i)

SafetySpec == Init /\ [][Next]_vars
Spec == SafetySpec /\ Fairness

-----------------------------------------------------------------------------
(* Properties.                                                              *)

TypeOK ==
    /\ proc \in [Instances -> {"off", "up", "crashed"}]
    /\ due \in [Instances -> {"none", "due", "late"}]
    /\ missed \in [Instances -> 0 .. LeaseTTL]
    /\ admission \in [Instances -> BOOLEAN]
    /\ failures \in [Instances -> 0 .. MaxFailures]
    /\ successes \in [Instances -> 0 .. MinSuccesses]
    /\ skipSweep \in [Instances -> BOOLEAN]
    /\ sweeping \in [Instances -> BOOLEAN]
    /\ confirmed \in [Instances -> SUBSET ProcessJobs]
    /\ status \in [Jobs -> Open \cup Results \cup {"none", "orphaned", "deleted"}]
    /\ owner \in [Jobs -> Instances \cup {NoOwner}]
    /\ lease \in [Jobs -> -1 .. LeaseTTL]
    /\ pid \in [Jobs -> BOOLEAN]
    /\ age \in [Jobs -> 0 .. HttpGrace + 1]
    /\ recorded \in [Jobs -> BOOLEAN]
    /\ mem \in [Jobs -> {"none", "queued", "running", "killing", "ending", "settled", "lost"}]
    /\ marking \in [Jobs -> BOOLEAN]
    /\ result \in [Jobs -> Results \cup {"none"}]
    /\ child \in [Jobs -> {"none", "alive", "gone"}]

\* What the store promises of a row holds whatever instances crash, block, sweep
\* and retry: JobLedger, with the row's own status.  In particular no result is
\* ever replaced and no recovered row comes back to life
\* (the WHERE clauses of job-store.ts:1227-1533).
Ledger == INSTANCE JobLedger WITH Jobs <- Jobs, status <- status
LedgerKept == Ledger!Spec

\* The beats of a whole lease an instance has not brought through, the one that is
\* due now among them.
Outstanding(i) == missed[i] + IF due[i] = "none" THEN 0 ELSE 1

\* An instance that is up loses a job to the sweep only when LeaseTTL beats in a row
\* have not come through, the one due now counted: LeaseTTL - 1 missed ones are
\* forgiven if the next is in time, whatever the job's status when it was last
\* renewed and however the sweep's read and write interleave with the beats.
\* config.ts:297-299 promises as much without the condition on the next one.
LiveJobsSurviveStep ==
    \A j \in Jobs :
      (status[j] # "orphaned" /\ status'[j] = "orphaned")
        => (proc[owner[j]] = "up" => Outstanding(owner[j]) >= LeaseTTL)
LiveJobsSurvive == [][LiveJobsSurviveStep]_vars

\* A child its owner lets run was durably recorded as running: no child runs
\* against a row that is still queued, or that was recovered before the
\* transition landed (markRunningDurable, async-job-manager.ts:2461-2492).
NoUnrecordedChild ==
    \A j \in ProcessJobs :
      (mem[j] = "running" /\ ~marking[j]) => recorded[j] /\ status[j] # "queued"

\* The open rows of a crashed instance are recovered as long as some instance
\* stays up, keeps admission and is not forever too busy to beat in time (a late
\* beat cancels the next sweep), even when the dead children's pids are taken
\* over by other processes: the probe's grace is given once
\* (recoverStaleJobs, job-store.ts:2274-2333).
SomeSurvivor == \E i \in Instances : <>[](Runs(i) /\ admission[i] /\ due[i] # "late")
DeadOwnersJobsRecovered ==
    SomeSurvivor =>
      \A j \in Jobs :
        (IsOpen(j) /\ proc[owner[j]] = "crashed") ~> ~IsOpen(j)

\* A job its owner has seen end gets its own result into its row, even when the
\* row was presumed dead meanwhile, unless the owner dies first or the row's
\* retention ends (recordComplete over 'orphaned', job-store.ts:1315-1381).
ResultReachesRow ==
    \A j \in Jobs :
      mem[j] = "ending" ~> status[j] \in {result[j], "deleted"} \/ mem[j] = "lost"
=============================================================================
