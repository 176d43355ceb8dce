--------------------------- MODULE OwnershipProofs ---------------------------
(***************************************************************************)
(* Proofs about who owns what: JobLeases, for any number of instances,     *)
(* hosts and jobs and any lease of at least two heartbeats, and FileLocks, *)
(* for any number of processes and of deaths.                              *)
(***************************************************************************)
EXTENDS JobLeases, FileLocks, FiniteSetTheorems, TLAPS

-----------------------------------------------------------------------------
(* Types.                                                                   *)

USE DEF Results, Open, instVars, sweepVars, rowVars, jobVars

LEMMA InitTypes == Init => TypeOK
  BY LeaseAssumption, JobsAssumption DEF Init, TypeOK, Jobs

LEMMA TickTypes == TypeOK /\ Tick => TypeOK'
  <1> SUFFICES ASSUME TypeOK, Tick PROVE TypeOK'
    OBVIOUS
  <1> USE LeaseAssumption DEF TypeOK, Tick
  <1>1. due' \in [Instances -> {"none", "due", "late"}]
    OBVIOUS
  <1>2. missed' \in [Instances -> 0 .. LeaseTTL]
    BY DEF Capped
  <1>3. lease' \in [Jobs -> -1 .. LeaseTTL]
    BY DEF Lapsed
  <1>4. age' \in [Jobs -> 0 .. HttpGrace + 1]
    BY DEF Capped, IsOpen
  <1>. QED
    BY <1>1, <1>2, <1>3, <1>4

LEMMA InstanceTypes ==
    ASSUME TypeOK, NEW i \in Instances, StartUp(i) \/ Crash(i)
    PROVE  TypeOK'
  <1> USE LeaseAssumption DEF TypeOK
  <1>1. CASE StartUp(i)
    BY <1>1 DEF StartUp
  <1>2. CASE Crash(i)
    <2> USE <1>2 DEF Crash
    <2>1. /\ missed' \in [Instances -> 0 .. LeaseTTL]
          /\ failures' \in [Instances -> 0 .. MaxFailures]
          /\ successes' \in [Instances -> 0 .. MinSuccesses]
      OBVIOUS
    <2>2. confirmed' \in [Instances -> SUBSET ProcessJobs]
      OBVIOUS
    <2>3. /\ mem' \in [Jobs -> {"none", "queued", "running", "killing", "ending", "settled", "lost"}]
          /\ marking' \in [Jobs -> BOOLEAN]
      BY DEF OwnedBy
    <2>. QED
      BY <2>1, <2>2, <2>3
  <1>. QED
    BY <1>1, <1>2

LEMMA BeatTypes ==
    ASSUME TypeOK, NEW i \in Instances, BeatSucceeds(i) \/ BeatRestores(i) \/ BeatFails(i)
    PROVE  TypeOK'
  <1> USE LeaseAssumption DEF TypeOK, BeatRuns
  <1>1. HeartbeatStatement(i) => lease' \in [Jobs -> -1 .. LeaseTTL]
    BY DEF HeartbeatStatement
  <1>2. CASE BeatSucceeds(i)
    BY <1>1, <1>2 DEF BeatSucceeds
  <1>3. CASE BeatRestores(i)
    BY <1>1, <1>3 DEF BeatRestores
  <1>4. CASE BeatFails(i)
    <2> USE <1>4 DEF BeatFails
    <2>1. /\ lease' \in [Jobs -> -1 .. LeaseTTL]
          /\ missed' \in [Instances -> 0 .. LeaseTTL]
      BY <1>1 DEF Capped
    <2>2. failures' \in [Instances -> 0 .. MaxFailures]
      BY DEF Capped
    <2>3. successes' \in [Instances -> 0 .. MinSuccesses]
      OBVIOUS
    <2>4. admission' \in [Instances -> BOOLEAN]
      OBVIOUS
    <2>. QED
      BY <2>1, <2>2, <2>3, <2>4
  <1>. QED
    BY <1>2, <1>3, <1>4

LEMMA SweepTypes ==
    ASSUME TypeOK, NEW i \in Instances,
           SweepSkips(i) \/ SweepReads(i) \/ SweepWrites(i) \/ SweepFails(i)
    PROVE  TypeOK'
  <1> USE LeaseAssumption DEF TypeOK
  <1>1. CASE SweepSkips(i)
    BY <1>1 DEF SweepSkips
  <1>2. CASE SweepReads(i)
    <2>1. confirmed' \in [Instances -> SUBSET ProcessJobs]
      BY <1>2 DEF SweepReads, Stale
    <2>. QED
      BY <1>2, <2>1 DEF SweepReads
  <1>3. CASE SweepWrites(i)
    <2>1. /\ lease' \in [Jobs -> -1 .. LeaseTTL]
          /\ pid' \in [Jobs -> BOOLEAN]
      BY <1>3 DEF SweepWrites, GraceGiven
    <2>2. status' \in [Jobs -> Open \cup Results \cup {"none", "orphaned", "deleted"}]
      BY <1>3 DEF SweepWrites
    <2>. QED
      BY <1>3, <2>1, <2>2 DEF SweepWrites
  <1>4. CASE SweepFails(i)
    BY <1>4 DEF SweepFails
  <1>. QED
    BY <1>1, <1>2, <1>3, <1>4

LEMMA MarkingTypes ==
    ASSUME TypeOK, NEW i \in Instances, NEW j \in Jobs,
           MarkingApplied(i, j) \/ MarkingRefused(i, j) \/ MarkingThrows(i, j)
    PROVE  TypeOK'
  <1> USE LeaseAssumption DEF TypeOK
  <1>1. MarkRunning(j) => /\ status' \in [Jobs -> Open \cup Results \cup {"none", "orphaned", "deleted"}]
                          /\ lease' \in [Jobs -> -1 .. LeaseTTL]
                          /\ pid' \in [Jobs -> BOOLEAN]
                          /\ recorded' \in [Jobs -> BOOLEAN]
    BY DEF MarkRunning
  <1>2. MarkingLost(j) =>
          mem' \in [Jobs -> {"none", "queued", "running", "killing", "ending", "settled", "lost"}]
    BY DEF MarkingLost
  <1>3. CASE MarkingApplied(i, j)
    BY <1>1, <1>3 DEF MarkingApplied
  <1>4. CASE MarkingRefused(i, j)
    BY <1>2, <1>4 DEF MarkingRefused
  <1>5. CASE MarkingThrows(i, j)
    BY <1>1, <1>2, <1>5 DEF MarkingThrows
  <1>. QED
    BY <1>3, <1>4, <1>5

\* A job that has ended knows its result: what the terminal write writes.
EndedJobsHaveResults == \A j \in Jobs : mem[j] = "ending" => result[j] \in Results

LEMMA JobTypes ==
    ASSUME TypeOK, EndedJobsHaveResults, NEW i \in Instances, NEW j \in Jobs,
           \/ Admit(i, j) \/ Launch(i, j) \/ Settle(i, j)
           \/ Persist(i, j) \/ PersistUnacknowledged(i, j) \/ Evict(i, j)
    PROVE  TypeOK'
  <1> USE LeaseAssumption DEF TypeOK
  <1>1. CASE Admit(i, j)
    BY <1>1 DEF Admit
  <1>2. CASE Launch(i, j)
    BY <1>2 DEF Launch
  <1>3. CASE Settle(i, j)
    BY <1>3 DEF Settle
  <1>4. CASE Evict(i, j)
    BY <1>4 DEF Evict
  <1>5. ASSUME mem[j] = "ending", RecordComplete(j)
        PROVE  /\ status' \in [Jobs -> Open \cup Results \cup {"none", "orphaned", "deleted"}]
               /\ lease' \in [Jobs -> -1 .. LeaseTTL]
    BY <1>5 DEF EndedJobsHaveResults, RecordComplete
  <1>6. CASE Persist(i, j)
    BY <1>5, <1>6 DEF Persist
  <1>7. CASE PersistUnacknowledged(i, j)
    BY <1>5, <1>7 DEF PersistUnacknowledged
  <1>. QED
    BY <1>1, <1>2, <1>3, <1>4, <1>6, <1>7

LEMMA ChildTypes == TypeOK /\ (\E j \in Jobs : RunsOut(j) \/ ChildExits(j)) => TypeOK'
  BY LeaseAssumption DEF TypeOK, RunsOut, ChildExits

LEMMA StepTypes == TypeOK /\ EndedJobsHaveResults /\ [Next]_vars => TypeOK'
  <1> SUFFICES ASSUME TypeOK, EndedJobsHaveResults, [Next]_vars PROVE TypeOK'
    OBVIOUS
  <1>1. CASE Tick
    BY <1>1, TickTypes
  <1>2. ASSUME NEW i \in Instances, NEW j \in Jobs,
               MarkingApplied(i, j) \/ MarkingRefused(i, j) \/ MarkingThrows(i, j)
        PROVE  TypeOK'
    BY <1>2, MarkingTypes
  <1>3. ASSUME NEW i \in Instances, NEW j \in Jobs,
               \/ Admit(i, j) \/ Launch(i, j) \/ Settle(i, j)
               \/ Persist(i, j) \/ PersistUnacknowledged(i, j) \/ Evict(i, j)
        PROVE  TypeOK'
    BY <1>3, JobTypes
  <1>4. CASE UNCHANGED vars
    BY <1>4 DEF TypeOK, vars
  <1>. QED
    BY <1>1, <1>2, <1>3, <1>4, InstanceTypes, BeatTypes, SweepTypes, ChildTypes DEF Next

LEMMA StepEnded == TypeOK /\ EndedJobsHaveResults /\ [Next]_vars => EndedJobsHaveResults'
  <1> SUFFICES ASSUME TypeOK, EndedJobsHaveResults, [Next]_vars,
                      NEW k \in Jobs, mem'[k] = "ending"
               PROVE  result'[k] \in Results
    BY DEF EndedJobsHaveResults
  <1> USE DEF TypeOK, EndedJobsHaveResults
  <1>1. ASSUME mem' = mem, result' = result PROVE result'[k] \in Results
    BY <1>1
  <1>2. CASE Tick
    BY <1>1, <1>2 DEF Tick
  <1>3. ASSUME NEW i \in Instances, Crash(i) PROVE result'[k] \in Results
    BY <1>3 DEF Crash
  <1>4. ASSUME NEW i \in Instances,
               \/ StartUp(i)
               \/ BeatSucceeds(i) \/ BeatRestores(i) \/ BeatFails(i)
               \/ SweepSkips(i) \/ SweepReads(i) \/ SweepWrites(i) \/ SweepFails(i)
        PROVE  result'[k] \in Results
    BY <1>1, <1>4 DEF StartUp, BeatSucceeds, BeatRestores, BeatFails, BeatRuns,
                      SweepSkips, SweepReads, SweepWrites, SweepFails
  <1>5. ASSUME NEW i \in Instances, NEW j \in Jobs, Settle(i, j)
        PROVE  result'[k] \in Results
    BY <1>5 DEF Settle
  <1>6. ASSUME NEW i \in Instances, NEW j \in Jobs,
               MarkingApplied(i, j) \/ MarkingRefused(i, j) \/ MarkingThrows(i, j)
        PROVE  result'[k] \in Results
    <2>1. result' = result /\ (mem' = mem \/ MarkingLost(j))
      BY <1>6 DEF MarkingApplied, MarkingRefused, MarkingThrows
    <2>2. mem[k] = "ending"
      BY <2>1 DEF MarkingLost
    <2>. QED
      BY <2>1, <2>2
  <1>7. ASSUME NEW i \in Instances, NEW j \in Jobs,
               \/ Admit(i, j) \/ Launch(i, j) \/ Persist(i, j)
               \/ PersistUnacknowledged(i, j) \/ Evict(i, j)
        PROVE  result'[k] \in Results
    <2>1. result' = result
      BY <1>7 DEF Admit, Launch, Persist, PersistUnacknowledged, Evict
    <2>2. mem[k] = "ending"
      BY <1>7 DEF Admit, Launch, Persist, PersistUnacknowledged, Evict
    <2>. QED
      BY <2>1, <2>2
  <1>8. ASSUME NEW j \in Jobs, RunsOut(j) \/ ChildExits(j) PROVE result'[k] \in Results
    BY <1>1, <1>8 DEF RunsOut, ChildExits
  <1>9. CASE UNCHANGED vars
    BY <1>1, <1>9 DEF vars
  <1>. QED
    BY <1>2, <1>3, <1>4, <1>5, <1>6, <1>7, <1>8, <1>9 DEF Next

LEMMA TypesInvariant == SafetySpec => [](TypeOK /\ EndedJobsHaveResults)
  <1>1. Init => EndedJobsHaveResults
    BY DEF Init, EndedJobsHaveResults
  <1>. QED
    BY <1>1, InitTypes, StepTypes, StepEnded, PTL DEF SafetySpec

\* Every variable keeps its type under every interleaving of instances.
THEOREM LeasesTypes == SafetySpec => []TypeOK
  BY TypesInvariant, PTL

-----------------------------------------------------------------------------
(* A running child has a durable record.                                    *)

LEMMA StepRecorded == TypeOK /\ NoUnrecordedChild /\ [Next]_vars => NoUnrecordedChild'
  <1> SUFFICES ASSUME TypeOK, NoUnrecordedChild, [Next]_vars,
                      NEW k \in ProcessJobs, mem'[k] = "running", ~marking'[k]
               PROVE  recorded'[k] /\ status'[k] # "queued"
    BY DEF NoUnrecordedChild
  <1> DEFINE Goal == recorded'[k] /\ status'[k] # "queued"
  <1> USE DEF TypeOK, NoUnrecordedChild, Jobs
  <1>1. ASSUME mem' = mem, marking' = marking, recorded' = recorded, status' = status
        PROVE  Goal
    BY <1>1
  <1>2. CASE Tick
    BY <1>1, <1>2 DEF Tick
  <1>3. ASSUME NEW i \in Instances, Crash(i) PROVE Goal
    BY <1>3 DEF Crash
  <1>4. ASSUME NEW i \in Instances,
               \/ StartUp(i)
               \/ BeatSucceeds(i) \/ BeatRestores(i) \/ BeatFails(i)
               \/ SweepSkips(i) \/ SweepReads(i) \/ SweepFails(i)
        PROVE  Goal
    BY <1>1, <1>4 DEF StartUp, BeatSucceeds, BeatRestores, BeatFails, BeatRuns,
                      SweepSkips, SweepReads, SweepFails
  <1>5. ASSUME NEW i \in Instances, SweepWrites(i) PROVE Goal
    BY <1>5 DEF SweepWrites
  <1>6. ASSUME NEW i \in Instances, NEW j \in Jobs, MarkingApplied(i, j) PROVE Goal
    BY <1>6 DEF MarkingApplied, MarkRunning
  <1>7. ASSUME NEW i \in Instances, NEW j \in Jobs, MarkingRefused(i, j) PROVE Goal
    BY <1>7 DEF MarkingRefused, MarkingLost
  <1>8. ASSUME NEW i \in Instances, NEW j \in Jobs, MarkingThrows(i, j) PROVE Goal
    BY <1>8 DEF MarkingThrows, MarkingLost, MarkRunning
  <1>9. ASSUME NEW i \in Instances, NEW j \in Jobs,
               \/ Admit(i, j) \/ Launch(i, j) \/ Settle(i, j)
               \/ Persist(i, j) \/ PersistUnacknowledged(i, j) \/ Evict(i, j)
        PROVE  Goal
    <2>1. CASE Admit(i, j)
      BY <2>1 DEF Admit
    <2>2. CASE Launch(i, j)
      BY <2>2 DEF Launch
    <2>3. CASE Settle(i, j)
      BY <2>3 DEF Settle
    <2>4. CASE Evict(i, j)
      BY <2>4 DEF Evict
    <2>5. CASE Persist(i, j)
      BY <2>5 DEF Persist, RecordComplete
    <2>6. CASE PersistUnacknowledged(i, j)
      BY <2>6 DEF PersistUnacknowledged, RecordComplete
    <2>. QED
      BY <1>9, <2>1, <2>2, <2>3, <2>4, <2>5, <2>6
  <1>10. ASSUME NEW j \in Jobs, RunsOut(j) \/ ChildExits(j) PROVE Goal
    BY <1>1, <1>10 DEF RunsOut, ChildExits
  <1>11. CASE UNCHANGED vars
    BY <1>1, <1>11 DEF vars
  <1>. QED
    BY <1>2, <1>3, <1>4, <1>5, <1>6, <1>7, <1>8, <1>9, <1>10, <1>11 DEF Next

\* No child runs against a row that is still queued or was recovered before the
\* queued -> running transition landed (markRunningDurable).
THEOREM ChildrenRecorded == SafetySpec => []NoUnrecordedChild
  <1>1. Init => NoUnrecordedChild
    BY DEF Init, NoUnrecordedChild, Jobs
  <1>2. TypeOK /\ NoUnrecordedChild /\ [Next]_vars => NoUnrecordedChild'
    BY StepRecorded
  <1>. QED
    BY <1>1, <1>2, LeasesTypes, PTL DEF SafetySpec

-----------------------------------------------------------------------------
(* The rows keep what JobLedger promises.                                   *)

LEMMA SweepLedger ==
    ASSUME TypeOK, NEW i \in Instances, SweepWrites(i)
    PROVE  [Ledger!Next]_status
  <1>1. Orphaned(i) \in SUBSET Jobs /\ \A j \in Orphaned(i) : status[j] \in Open
    BY DEF Orphaned, IsOpen
  <1>2. status' = [j \in Jobs |-> IF j \in Orphaned(i) THEN "orphaned" ELSE status[j]]
    BY DEF SweepWrites
  <1>3. CASE Orphaned(i) = {}
    BY <1>2, <1>3 DEF TypeOK
  <1>4. CASE Orphaned(i) # {}
    <2>1. Ledger!Orphan(Orphaned(i))
      BY <1>1, <1>2, <1>4 DEF Ledger!Orphan, Ledger!Open
    <2>. QED
      BY <1>1, <2>1 DEF Ledger!Next
  <1>. QED
    BY <1>3, <1>4

LEMMA MarkingLedger ==
    ASSUME TypeOK, NEW i \in Instances, NEW j \in Jobs,
           MarkingApplied(i, j) \/ MarkingRefused(i, j) \/ MarkingThrows(i, j)
    PROVE  [Ledger!Next]_status
  <1>1. status' = status \/ (status[j] = "queued" /\ MarkRunning(j))
    BY DEF MarkingApplied, MarkingRefused, MarkingThrows
  <1>2. ASSUME status[j] = "queued", MarkRunning(j) PROVE Ledger!Start(j)
    BY <1>2 DEF MarkRunning, Ledger!Start, Ledger!Move
  <1>. QED
    BY <1>1, <1>2 DEF Ledger!Next

LEMMA FinishLedger ==
    ASSUME TypeOK, EndedJobsHaveResults, NEW j \in Jobs,
           mem[j] = "ending", RecordComplete(j)
    PROVE  [Ledger!Next]_status
  <1>1. result[j] \in Ledger!Results
    BY DEF EndedJobsHaveResults, Ledger!Results
  <1>2. status' = status \/ Ledger!Finish(j, result[j])
    BY DEF RecordComplete, Ledger!Finish, Ledger!Move, Ledger!Open
  <1>. QED
    BY <1>1, <1>2 DEF Ledger!Next

LEMMA StepLedger ==
    TypeOK /\ EndedJobsHaveResults /\ [Next]_vars => [Ledger!Next]_status
  <1> SUFFICES ASSUME TypeOK, EndedJobsHaveResults, [Next]_vars
               PROVE  [Ledger!Next]_status
    OBVIOUS
  <1>1. CASE Tick
    BY <1>1 DEF Tick
  <1>2. ASSUME NEW i \in Instances,
               \/ StartUp(i) \/ Crash(i)
               \/ BeatSucceeds(i) \/ BeatRestores(i) \/ BeatFails(i)
               \/ SweepSkips(i) \/ SweepReads(i) \/ SweepFails(i)
        PROVE  [Ledger!Next]_status
    BY <1>2 DEF StartUp, Crash, BeatSucceeds, BeatRestores, BeatFails, BeatRuns,
                SweepSkips, SweepReads, SweepFails
  <1>3. ASSUME NEW i \in Instances, NEW j \in Jobs, Admit(i, j)
        PROVE  [Ledger!Next]_status
    <2>1. Ledger!Admit(j)
      BY <1>3 DEF Admit, Ledger!Admit, Ledger!Move
    <2>. QED
      BY <2>1 DEF Ledger!Next
  <1>4. ASSUME NEW i \in Instances, NEW j \in Jobs, Evict(i, j)
        PROVE  [Ledger!Next]_status
    <2>1. Ledger!Delete(j)
      BY <1>4 DEF Evict, Ledger!Delete, Ledger!Move, Ledger!Results
    <2>. QED
      BY <2>1 DEF Ledger!Next
  <1>5. ASSUME NEW i \in Instances, NEW j \in Jobs, Launch(i, j) \/ Settle(i, j)
        PROVE  [Ledger!Next]_status
    BY <1>5 DEF Launch, Settle
  <1>6. ASSUME NEW i \in Instances, NEW j \in Jobs,
               Persist(i, j) \/ PersistUnacknowledged(i, j)
        PROVE  [Ledger!Next]_status
    BY <1>6, FinishLedger DEF Persist, PersistUnacknowledged
  <1>7. ASSUME NEW j \in Jobs, RunsOut(j) \/ ChildExits(j) PROVE [Ledger!Next]_status
    BY <1>7 DEF RunsOut, ChildExits
  <1>8. CASE UNCHANGED vars
    BY <1>8 DEF vars
  <1>. QED
    BY <1>1, <1>2, <1>3, <1>4, <1>5, <1>6, <1>7, <1>8, SweepLedger, MarkingLedger DEF Next

\* Whatever crashes, blocks, sweeps and retries, a row of the store only makes
\* the transitions of JobLedger: the WHERE clauses of job-store.ts suffice.
THEOREM LedgerRefined == SafetySpec => LedgerKept
  <1>1. Init => Ledger!Init
    BY DEF Init, Ledger!Init
  <1>2. TypeOK /\ EndedJobsHaveResults /\ [Next]_vars => [Ledger!Next]_status
    BY StepLedger
  <1>. QED
    BY <1>1, <1>2, TypesInvariant, PTL DEF SafetySpec, LedgerKept, Ledger!Spec

-----------------------------------------------------------------------------
(* Leases of live instances.                                                *)

\* A lease has lost at most the beats its live owner has not brought through, the
\* one that is due now among them, until those are a whole lease; and the owner of
\* a row has been started.
LeaseFact(j) ==
    /\ owner[j] # NoOwner => proc[owner[j]] # "off"
    /\ IsOpen(j) => owner[j] # NoOwner
    /\ (IsOpen(j) /\ proc[owner[j]] = "up" /\ Outstanding(owner[j]) < LeaseTTL)
         => lease[j] >= LeaseTTL - Outstanding(owner[j])

LeaseOutlastsMisses == \A j \in Jobs : LeaseFact(j)

LEMMA OpenRowsAreOwned ==
    ASSUME TypeOK, NEW k \in Jobs, LeaseFact(k), IsOpen(k)
    PROVE  owner[k] \in Instances /\ missed[owner[k]] \in 0 .. LeaseTTL
  BY DEF TypeOK, LeaseFact

\* What most steps do to a row that is open after it: its owner's heartbeat is
\* left alone and the lease is kept or renewed whole.
LeaseKept(k) ==
    /\ proc' = proc /\ due' = due /\ missed' = missed /\ owner' = owner
    /\ IsOpen(k)' => IsOpen(k) /\ lease'[k] \in {lease[k], LeaseTTL}

LEMMA LeaseKeptIsEnough ==
    ASSUME TypeOK, NEW k \in Jobs, LeaseFact(k), LeaseKept(k)
    PROVE  LeaseFact(k)'
  <1>1. lease[k] \in -1 .. LeaseTTL
    BY DEF TypeOK
  <1>. QED
    BY <1>1, OpenRowsAreOwned, LeaseAssumption DEF LeaseKept, LeaseFact, Outstanding

LEMMA TickLease ==
    ASSUME TypeOK, NEW k \in Jobs, LeaseFact(k), Tick
    PROVE  LeaseFact(k)'
  <1>1. /\ IsOpen(k)' <=> IsOpen(k)
        /\ owner' = owner /\ proc' = proc
    BY DEF Tick, IsOpen
  <1>2. SUFFICES ASSUME IsOpen(k), proc[owner[k]] = "up", Outstanding(owner[k])' < LeaseTTL
                 PROVE  lease'[k] >= LeaseTTL - Outstanding(owner[k])'
    BY <1>1 DEF LeaseFact
  <1> DEFINE i == owner[k]
  <1>3. i \in Instances /\ missed[i] \in 0 .. LeaseTTL /\ lease[k] \in -1 .. LeaseTTL
    BY <1>2, OpenRowsAreOwned DEF TypeOK
  <1>4. due'[i] # "none"
    BY <1>2, <1>3 DEF Tick, TypeOK
  <1>5. missed'[i] + 1 < LeaseTTL /\ Outstanding(i)' = missed'[i] + 1
    BY <1>1, <1>2, <1>4 DEF Outstanding
  <1>6. CASE due[i] = "none"
    <2>1. missed'[i] = missed[i]
      BY <1>3, <1>6 DEF Tick
    <2>2. lease[k] >= LeaseTTL - missed[i]
      BY <1>2, <1>3, <1>5, <1>6, <2>1, LeaseAssumption DEF LeaseFact, Outstanding
    <2>3. lease'[k] = lease[k] - 1
      BY <1>3, <1>5, <2>1, <2>2, LeaseAssumption DEF Tick, Lapsed
    <2>. QED
      BY <1>1, <1>3, <1>5, <2>1, <2>2, <2>3, LeaseAssumption
  <1>7. CASE due[i] # "none"
    <2>1. missed'[i] = missed[i] + 1
      BY <1>3, <1>5, <1>7, LeaseAssumption DEF Tick, Capped
    <2>2. lease[k] >= LeaseTTL - missed[i] - 1
      BY <1>2, <1>3, <1>5, <1>7, <2>1, LeaseAssumption DEF LeaseFact, Outstanding
    <2>3. lease'[k] = lease[k] - 1
      BY <1>3, <1>5, <2>1, <2>2, LeaseAssumption DEF Tick, Lapsed
    <2>. QED
      BY <1>1, <1>3, <1>5, <2>1, <2>2, <2>3, LeaseAssumption
  <1>. QED
    BY <1>6, <1>7

LEMMA RunsOutLease ==
    ASSUME TypeOK, NEW k \in Jobs, LeaseFact(k), NEW j \in Jobs, RunsOut(j)
    PROVE  LeaseFact(k)'
  <1>1. UNCHANGED <<proc, due, missed, owner, status>>
    BY DEF RunsOut
  <1>2. lease'[k] = lease[k] \/ lease[k] = 0
    BY DEF RunsOut, TypeOK
  <1>3. lease[k] = 0 /\ IsOpen(k) /\ proc[owner[k]] = "up" => Outstanding(owner[k]) >= LeaseTTL
    <2>1. SUFFICES ASSUME lease[k] = 0, IsOpen(k), proc[owner[k]] = "up", Outstanding(owner[k]) < LeaseTTL
                   PROVE  FALSE
      BY OpenRowsAreOwned, LeaseAssumption DEF Outstanding
    <2>. QED
      BY <2>1, OpenRowsAreOwned, LeaseAssumption DEF LeaseFact, Outstanding
  <1>. QED
    BY <1>1, <1>2, <1>3, OpenRowsAreOwned, LeaseAssumption DEF LeaseFact, Outstanding, IsOpen

LEMMA InstanceLease ==
    ASSUME TypeOK, NEW k \in Jobs, LeaseFact(k),
           NEW i \in Instances, StartUp(i) \/ Crash(i)
    PROVE  LeaseFact(k)'
  <1>1. /\ UNCHANGED <<owner, status, lease>>
        /\ \A h \in Instances \ {i} : UNCHANGED <<proc[h], due[h], missed[h]>>
    BY DEF TypeOK, StartUp, Crash, rowVars
  <1>2. owner[k] = i => Crash(i)
    BY JobsAssumption DEF LeaseFact, StartUp
  <1>3. Crash(i) => proc'[i] = "crashed"
    BY DEF TypeOK, Crash
  <1>4. owner[k] \in Instances \cup {NoOwner}
    BY DEF TypeOK
  <1>. QED
    BY <1>1, <1>2, <1>3, <1>4 DEF LeaseFact, Outstanding, IsOpen

LEMMA BeatLease ==
    ASSUME TypeOK, NEW k \in Jobs, LeaseFact(k),
           NEW i \in Instances, BeatSucceeds(i) \/ BeatRestores(i) \/ BeatFails(i)
    PROVE  LeaseFact(k)'
  <1>1. /\ UNCHANGED <<owner, status, proc>>
        /\ due' = [due EXCEPT ![i] = "none"]
        /\ due[i] # "none"
    BY DEF BeatSucceeds, BeatRestores, BeatFails, BeatRuns
  <1>2. \/ HeartbeatStatement(i) /\ missed' = [missed EXCEPT ![i] = 0]
        \/ missed' = [missed EXCEPT ![i] = Capped(@ + 1, LeaseTTL)] /\ UNCHANGED lease
    BY DEF BeatSucceeds, BeatRestores, BeatFails
  <1>3. /\ \A h \in Instances \ {i} : UNCHANGED <<due[h], missed[h]>>
        /\ due'[i] = "none"
    BY <1>1, <1>2 DEF TypeOK
  <1>4. lease[k] \in -1 .. LeaseTTL
    BY DEF TypeOK
  <1>5. SUFFICES ASSUME IsOpen(k), proc[owner[k]] = "up", Outstanding(owner[k])' < LeaseTTL
                 PROVE  lease'[k] >= LeaseTTL - Outstanding(owner[k])'
    BY <1>1 DEF LeaseFact, IsOpen
  <1>6. owner[k] \in Instances /\ missed[owner[k]] \in 0 .. LeaseTTL
    BY <1>5, OpenRowsAreOwned
  <1>7. CASE owner[k] # i
    <2>1. lease'[k] = lease[k]
      BY <1>2, <1>7 DEF HeartbeatStatement, TypeOK
    <2>2. Outstanding(owner[k])' = Outstanding(owner[k])
      BY <1>1, <1>3, <1>6, <1>7 DEF Outstanding
    <2>. QED
      BY <1>5, <2>1, <2>2 DEF LeaseFact
  <1>8. CASE owner[k] = i /\ HeartbeatStatement(i) /\ missed' = [missed EXCEPT ![i] = 0]
    <2>1. lease'[k] = LeaseTTL /\ missed'[i] = 0
      BY <1>5, <1>8 DEF HeartbeatStatement, TypeOK
    <2>. QED
      BY <1>1, <1>3, <1>8, <2>1, LeaseAssumption DEF Outstanding
  <1>9. CASE /\ owner[k] = i
             /\ missed' = [missed EXCEPT ![i] = Capped(@ + 1, LeaseTTL)] /\ UNCHANGED lease
    <2>1. Outstanding(i)' = missed'[i] /\ missed'[i] < LeaseTTL
      BY <1>1, <1>3, <1>5, <1>6, <1>9, LeaseAssumption DEF Outstanding, Capped, TypeOK
    <2>2. missed'[i] = missed[i] + 1
      BY <1>6, <1>9, <2>1, LeaseAssumption DEF Capped, TypeOK
    <2>. QED
      BY <1>1, <1>4, <1>5, <1>6, <1>9, <2>1, <2>2, LeaseAssumption DEF LeaseFact, Outstanding
  <1>. QED
    BY <1>2, <1>7, <1>8, <1>9

LEMMA SweepLease ==
    ASSUME TypeOK, NEW k \in Jobs, LeaseFact(k), NEW i \in Instances,
           SweepSkips(i) \/ SweepReads(i) \/ SweepWrites(i) \/ SweepFails(i)
    PROVE  LeaseFact(k)'
  <1>1. UNCHANGED <<proc, due, missed, owner>>
    BY DEF SweepSkips, SweepReads, SweepWrites, SweepFails
  <1>2. CASE SweepWrites(i)
    <2>1. lease'[k] \in {lease[k], LeaseTTL}
      BY <1>2 DEF SweepWrites, GraceGiven, TypeOK
    <2>2. IsOpen(k)' => IsOpen(k)
      BY <1>2 DEF SweepWrites, IsOpen, TypeOK
    <2>. QED
      BY <1>1, <2>1, <2>2, LeaseKeptIsEnough DEF LeaseKept
  <1>3. CASE UNCHANGED <<status, lease>>
    BY <1>1, <1>3, LeaseKeptIsEnough DEF LeaseKept, IsOpen
  <1>4. SweepWrites(i) \/ UNCHANGED <<status, lease>>
    BY DEF SweepSkips, SweepReads, SweepFails
  <1>. QED
    BY <1>2, <1>3, <1>4

LEMMA MarkingLease ==
    ASSUME TypeOK, NEW k \in Jobs, LeaseFact(k), NEW i \in Instances, NEW j \in Jobs,
           MarkingApplied(i, j) \/ MarkingRefused(i, j) \/ MarkingThrows(i, j)
    PROVE  LeaseFact(k)'
  <1>1. UNCHANGED <<proc, due, missed, owner>>
    BY DEF MarkingApplied, MarkingRefused, MarkingThrows
  <1>2. UNCHANGED <<status, lease>> \/ (status[j] = "queued" /\ MarkRunning(j))
    BY DEF MarkingApplied, MarkingRefused, MarkingThrows
  <1>3. (IsOpen(k)' => IsOpen(k)) /\ lease'[k] \in {lease[k], LeaseTTL}
    BY <1>2 DEF MarkRunning, IsOpen, TypeOK
  <1>. QED
    BY <1>1, <1>3, LeaseKeptIsEnough DEF LeaseKept

LEMMA AdmitLease ==
    ASSUME TypeOK, NEW k \in Jobs, LeaseFact(k), NEW i \in Instances, NEW j \in Jobs,
           Admit(i, j)
    PROVE  LeaseFact(k)'
  <1>1. UNCHANGED <<proc, due, missed>>
    BY DEF Admit
  <1>2. CASE k = j
    <2>1. owner'[k] = i /\ lease'[k] = LeaseTTL /\ proc[i] = "up"
      BY <1>2 DEF Admit, Runs, TypeOK
    <2>. QED
      BY <1>1, <2>1, JobsAssumption, LeaseAssumption DEF LeaseFact, Outstanding, TypeOK
  <1>3. CASE k # j
    BY <1>1, <1>3 DEF Admit, LeaseFact, Outstanding, IsOpen, TypeOK
  <1>. QED
    BY <1>2, <1>3

LEMMA JobLease ==
    ASSUME TypeOK, EndedJobsHaveResults, NEW k \in Jobs, LeaseFact(k),
           NEW i \in Instances, NEW j \in Jobs,
           \/ Launch(i, j) \/ Settle(i, j) \/ Persist(i, j)
           \/ PersistUnacknowledged(i, j) \/ Evict(i, j)
    PROVE  LeaseFact(k)'
  <1>1. UNCHANGED <<proc, due, missed, owner>>
    BY DEF Launch, Settle, Persist, PersistUnacknowledged, Evict
  <1>2. \/ UNCHANGED <<status, lease>>
        \/ RecordComplete(j) /\ mem[j] = "ending"
        \/ Evict(i, j)
    BY DEF Launch, Settle, Persist, PersistUnacknowledged
  <1>3. IsOpen(k)' => IsOpen(k) /\ lease'[k] = lease[k]
    BY <1>2 DEF RecordComplete, EndedJobsHaveResults, Evict, IsOpen, TypeOK
  <1>. QED
    BY <1>1, <1>3, LeaseKeptIsEnough DEF LeaseKept

LEMMA StepLease ==
    TypeOK /\ EndedJobsHaveResults /\ LeaseOutlastsMisses /\ [Next]_vars
      => LeaseOutlastsMisses'
  <1> SUFFICES ASSUME TypeOK, EndedJobsHaveResults, LeaseOutlastsMisses, [Next]_vars,
                      NEW k \in Jobs
               PROVE  LeaseFact(k)'
    BY DEF LeaseOutlastsMisses
  <1>1. LeaseFact(k)
    BY DEF LeaseOutlastsMisses
  <1>2. CASE Tick
    BY <1>1, <1>2, TickLease
  <1>3. ASSUME NEW j \in Jobs, RunsOut(j) \/ ChildExits(j) PROVE LeaseFact(k)'
    <2>1. CASE RunsOut(j)
      BY <1>1, <2>1, RunsOutLease
    <2>2. CASE ChildExits(j)
      BY <1>1, <2>2, LeaseKeptIsEnough DEF ChildExits, LeaseKept, IsOpen
    <2>. QED
      BY <1>3, <2>1, <2>2
  <1>4. CASE UNCHANGED vars
    BY <1>1, <1>4, LeaseKeptIsEnough DEF vars, LeaseKept, IsOpen
  <1>. QED
    BY <1>1, <1>2, <1>3, <1>4, InstanceLease, BeatLease, SweepLease, MarkingLease,
       AdmitLease, JobLease DEF Next

LEMMA LeaseInvariant ==
    SafetySpec => [](TypeOK /\ EndedJobsHaveResults /\ LeaseOutlastsMisses)
  <1>1. Init => LeaseOutlastsMisses
    BY DEF Init, LeaseOutlastsMisses, LeaseFact, IsOpen
  <1>. QED
    BY <1>1, TypesInvariant, StepLease, PTL DEF SafetySpec

LEMMA StepSurvives ==
    TypeOK /\ EndedJobsHaveResults /\ LeaseOutlastsMisses /\ [Next]_vars
      => [LiveJobsSurviveStep]_vars
  <1> SUFFICES ASSUME TypeOK, EndedJobsHaveResults, LeaseOutlastsMisses, Next, NEW k \in Jobs,
                      status[k] # "orphaned", status'[k] = "orphaned", proc[owner[k]] = "up"
               PROVE  Outstanding(owner[k]) >= LeaseTTL
    BY DEF LiveJobsSurviveStep
  <1>1. PICK i \in Instances : SweepWrites(i)
    <2>1. \A i \in Instances, j \in Jobs :
            (Persist(i, j) \/ PersistUnacknowledged(i, j)) => status'[k] # "orphaned"
      BY DEF Persist, PersistUnacknowledged, RecordComplete, EndedJobsHaveResults, TypeOK
    <2>2. \A i \in Instances, j \in Jobs :
            (MarkingApplied(i, j) \/ MarkingRefused(i, j) \/ MarkingThrows(i, j))
              => status'[k] # "orphaned"
      BY DEF MarkingApplied, MarkingRefused, MarkingThrows, MarkRunning, TypeOK
    <2>3. \A i \in Instances, j \in Jobs :
            (Admit(i, j) \/ Launch(i, j) \/ Settle(i, j) \/ Evict(i, j))
              => status'[k] # "orphaned"
      BY DEF Admit, Launch, Settle, Evict, TypeOK
    <2>4. \A i \in Instances :
            (\/ StartUp(i) \/ Crash(i)
             \/ BeatSucceeds(i) \/ BeatRestores(i) \/ BeatFails(i)
             \/ SweepSkips(i) \/ SweepReads(i) \/ SweepFails(i)) => status' = status
      BY DEF StartUp, Crash, BeatSucceeds, BeatRestores, BeatFails, BeatRuns,
             SweepSkips, SweepReads, SweepFails
    <2>5. (Tick \/ \E j \in Jobs : RunsOut(j) \/ ChildExits(j)) => status' = status
      BY DEF Tick, RunsOut, ChildExits
    <2>. QED
      BY <2>1, <2>2, <2>3, <2>4, <2>5 DEF Next
  <1>2. IsOpen(k) /\ lease[k] < 0
    BY <1>1 DEF SweepWrites, Orphaned, Lapsed, TypeOK
  <1>3. /\ missed[owner[k]] \in 0 .. LeaseTTL
        /\ LeaseFact(k)
    BY <1>2, OpenRowsAreOwned DEF LeaseOutlastsMisses
  <1>. QED
    BY <1>2, <1>3, LeaseAssumption DEF LeaseFact, Outstanding, TypeOK

\* No instance that is up loses a job before the beats of a whole lease have not
\* come through, the one due now counted, whoever sweeps, whenever in an interval
\* the lease ends and however the sweep interleaves with the beats: what the leases
\* give of the tolerance of config.ts:297-299, for every lease of two beats or more.
THEOREM LiveJobsOutlastMissedBeats == SafetySpec => LiveJobsSurvive
  BY LeaseInvariant, StepSurvives, PTL DEF SafetySpec, LiveJobsSurvive

-----------------------------------------------------------------------------
(* The lock files: the inductive invariant.                                 *)

\* What a process that is unlinking a file is at: its own lock, the lock of a
\* dead owner, its own recovery lock, or the recovery lock of a dead reclaimer.
Releasing(p) == removal[p].path = "lock" /\ removal[p].yes = "idle"
Reclaiming(p) == removal[p].path = "lock" /\ removal[p].yes = "dropFreed" /\ removal[p].no = "drop"
Dropping(p) == removal[p].path = "recovery" /\ removal[p].yes \in {"retry", "idle"}
TakingOver(p) == removal[p].path = "recovery" /\ removal[p].yes = "again" /\ removal[p].no = "idle"

HoldsLock(p) == \/ at[p] \in {"section", "write", "unlock"}
                \/ at[p] = "move" /\ Releasing(p)
HoldsRecovery(p) ==
    \/ at[p] \in {"inspect", "probe", "drop", "dropFreed",
                  "parse", "ask", "reparse", "unlink", "leave"}
    \/ at[p] \in {"move", "look"} /\ Reclaiming(p)
    \/ at[p] = "move" /\ Dropping(p)
Holds(p, f) == IF f = "lock" THEN HoldsLock(p) ELSE HoldsRecovery(p)

KitSteps == {"idle", "acquire", "retry", "section", "recover", "again", "readRecovery",
             "probeRecovery", "inspect", "probe", "drop", "dropFreed", "move", "look"}
StorageSteps == {"idle", "acquire", "write", "section", "mutex", "parse", "ask", "reparse",
                 "unlink", "leave", "unlock"}

OfTheDead(content) == content # Absent /\ content[1] \in dead

\* A process runs the protocol of its lock, with a token of its own; nothing it
\* moved aside has turned out to be somebody else's.
Called == \A p \in Procs :
    /\ at[p] \in IF protocol = "kit" THEN KitSteps ELSE StorageSteps
    /\ at[p] # "idle" => token[p] \in {p} \X Generations
    /\ at[p] \in {"probe", "probeRecovery", "ask", "reparse"} => saw[p] # Absent

Removing == \A p \in Procs : at[p] \in {"move", "look"} =>
    \/ Releasing(p) /\ removal[p].token = token[p]
    \/ Reclaiming(p) /\ OfTheDead(removal[p].token)
    \/ Dropping(p) /\ removal[p].token = token[p]
    \/ TakingOver(p) /\ OfTheDead(removal[p].token)

\* What a process holds is at its path, and what is at a path its live owner holds.
Published == \A p \in Procs :
    /\ HoldsLock(p) => file["lock"] = IF at[p] = "write" THEN <<p, Malformed>> ELSE token[p]
    /\ HoldsRecovery(p) =>
          file["recovery"] = IF protocol = "kit" THEN token[p] ELSE <<p, Malformed>>

Accounted == \A p \in Procs \ dead, f \in Files :
    file[f] # Absent /\ file[f][1] = p => Holds(p, f)

\* What was moved aside is what was read, and the storage lock that was read again
\* after the question is still there when it is unlinked.
Matching == \A p \in Procs :
    /\ at[p] = "look" => aside[p] = removal[p].token
    /\ at[p] = "reparse" => saw[p][1] \in dead
    /\ at[p] = "unlink" => file["lock"] = saw[p] /\ OfTheDead(saw[p])

\* While every question was about a record still at its path, and no recovery lock
\* has been taken over, what a reclaimer found dead is there when it is moved.
Stable == \A p \in Procs : at[p] = "move" /\ (Reclaiming(p) \/ TakingOver(p)) =>
    file[removal[p].path] = removal[p].token

Held == Called /\ Removing /\ Published /\ Accounted /\ Matching
LockIInv == /\ LockTypeOK
            /\ displaced => doubt /\ protocol = "kit"
            /\ ~displaced => Held
            /\ ~doubt => Stable

USE DEF lockVars

-----------------------------------------------------------------------------
(* The lock files: types.                                                   *)

LEMMA ContentFacts ==
    /\ Absent \notin Contents
    /\ \A c \in Contents : c[1] \in Procs /\ c[2] \in Generations \cup {Malformed}
    /\ \A p \in Procs, n \in Generations \cup {Malformed} :
          <<p, n>> \in Contents /\ <<p, n>>[1] = p /\ <<p, n>>[2] = n
    /\ Malformed \notin Generations
  <1>1. Malformed \notin Generations
    BY DEF Malformed, Generations
  <1>2. Absent \notin Contents
    BY DEF Absent, Contents
  <1>. QED
    BY <1>1, <1>2 DEF Contents

LEMMA RemovalRecords ==
    /\ NoRemoval \in Removals
    /\ \A path \in Files, content \in Contents \cup {Absent},
          yes \in {"idle", "again", "retry", "dropFreed"}, no \in {"idle", "retry", "drop"} :
          [path |-> path, token |-> content, yes |-> yes, no |-> no] \in Removals
  <1>. HIDE DEF Contents, Absent
  <1>. QED
    BY DEF NoRemoval, Removals, Files

LEMMA LockRemoveTypes ==
    ASSUME LockTypeOK, NEW p \in Procs, NEW path \in Files, NEW content \in Contents \cup {Absent},
           NEW yes \in {"idle", "again", "retry", "dropFreed"}, NEW no \in {"idle", "retry", "drop"},
           Remove(p, path, content, yes, no)
    PROVE  at' \in [Procs -> Steps] /\ removal' \in [Procs -> Removals] /\ at' = [at EXCEPT ![p] = "move"]
  <1>1. [path |-> path, token |-> content, yes |-> yes, no |-> no] \in Removals
    BY RemovalRecords
  <1>2. removal' \in [Procs -> Removals]
    BY <1>1 DEF Remove, LockTypeOK
  <1>3. at' \in [Procs -> Steps] /\ at' = [at EXCEPT ![p] = "move"]
    BY DEF Remove, Go, LockTypeOK, Steps
  <1>. QED
    BY <1>2, <1>3

LEMMA LockInitTypes == LockInit => LockTypeOK
  <1>. SUFFICES ASSUME LockInit PROVE LockTypeOK
    OBVIOUS
  <1>1. removal \in [Procs -> Removals]
    BY RemovalRecords DEF LockInit
  <1>2. /\ file \in [Files -> Contents \cup {Absent}] /\ aside \in [Procs -> Contents \cup {Absent}]
        /\ token \in [Procs -> Contents \cup {Absent}] /\ saw \in [Procs -> Contents \cup {Absent}]
    BY DEF LockInit
  <1>3. at \in [Procs -> Steps]
    BY DEF LockInit, Steps
  <1>. QED
    BY <1>1, <1>2, <1>3 DEF LockInit, LockTypeOK

LEMMA LockCallTypes ==
    ASSUME LockTypeOK, NEW p \in Procs \ dead, Call(p)
    PROVE  LockTypeOK'
  BY ContentFacts DEF Call, Go, Unused, LockTypeOK, Steps

LEMMA LockRemovalTypes ==
    ASSUME LockTypeOK, NEW p \in Procs \ dead, Move(p) \/ Look(p) \/ Restore(p) \/ Preserve(p)
    PROVE  LockTypeOK'
  <1>0. /\ removal[p] \in Removals /\ removal[p].yes \in Steps /\ removal[p].no \in Steps
        /\ removal[p].path \in Files /\ NoRemoval \in Removals
    BY DEF LockTypeOK, Removals, Steps, NoRemoval, Files
  <1>1. CASE Move(p)
    BY <1>0, <1>1 DEF Move, Removed, Go, Put, LockTypeOK, Steps
  <1>2. CASE Look(p)
    BY <1>0, <1>2 DEF Look, Removed, Go, LockTypeOK, Steps
  <1>3. CASE Restore(p)
    BY <1>0, <1>3 DEF Restore, Removed, Go, Put, LockTypeOK, Steps
  <1>4. CASE Preserve(p)
    <2>1. file' \in [Files -> Contents \cup {Absent}]
      <3>1. <<p, Malformed>> \in Contents
        BY ContentFacts
      <3>2. file \in [Files -> Contents \cup {Absent}]
        BY DEF LockTypeOK
      <3>3. file' = file \/ file' = [file EXCEPT ![removal[p].path] = <<p, Malformed>>]
        BY <1>4 DEF Preserve, Put
      <3>. QED
        BY <3>1, <3>2, <3>3
    <2>. QED
      BY <1>0, <1>4, <2>1 DEF Preserve, Removed, Go, LockTypeOK, Steps
  <1>. QED
    BY <1>1, <1>2, <1>3, <1>4

LEMMA LockKitTypes ==
    ASSUME LockTypeOK, NEW p \in Procs \ dead,
           KitAcquire(p) \/ KitRecover(p) \/ KitReadRecovery(p) \/ KitProbeRecovery(p)
           \/ KitInspect(p) \/ KitProbe(p) \/ KitDrop(p) \/ KitRelease(p)
    PROVE  LockTypeOK'
  <1>0. /\ "lock" \in Files /\ "recovery" \in Files
        /\ file["lock"] \in Contents \cup {Absent} /\ file["recovery"] \in Contents \cup {Absent}
    BY DEF Files, LockTypeOK
  <1>1. CASE KitAcquire(p)
    BY <1>1 DEF KitAcquire, Go, Put, LockTypeOK, Steps, Files
  <1>2. CASE KitRecover(p)
    BY <1>2 DEF KitRecover, Go, Put, LockTypeOK, Steps, Files
  <1>3. CASE KitReadRecovery(p)
    BY <1>0, <1>3 DEF KitReadRecovery, Reads, Go, LockTypeOK, Steps
  <1>4. CASE KitInspect(p)
    BY <1>0, <1>4 DEF KitInspect, Reads, Go, LockTypeOK, Steps
  <1>7. ASSUME NEW path \in Files, NEW yes \in {"again", "dropFreed"}, NEW no \in {"idle", "drop"},
               Probe(p, path, yes, no)
        PROVE  LockTypeOK'
    <2>0. saw[p] \in Contents \cup {Absent}
      BY DEF LockTypeOK
    <2>1. CASE Remove(p, path, saw[p], yes, no)
      <3>1. yes \in {"idle", "again", "retry", "dropFreed"} /\ no \in {"idle", "retry", "drop"}
        BY <1>7
      <3>2. at' \in [Procs -> Steps] /\ removal' \in [Procs -> Removals] /\ at' = [at EXCEPT ![p] = "move"]
        BY <1>7, <2>0, <2>1, <3>1, LockRemoveTypes
      <3>. QED
        BY <1>7, <3>2 DEF Probe, LockTypeOK
    <2>2. CASE Go(p, no) /\ UNCHANGED removal
      BY <1>7, <2>2 DEF Probe, Go, LockTypeOK, Steps
    <2>. QED
      BY <1>7, <2>1, <2>2 DEF Probe
  <1>5. CASE KitDrop(p)
    BY <1>5 DEF KitDrop, DropRecovery, Remove, Go, LockTypeOK, Steps, Files, Removals
  <1>6. CASE KitRelease(p)
    BY <1>6 DEF KitRelease, Remove, Go, LockTypeOK, Steps, Files, Removals
  <1>. QED
    BY <1>0, <1>1, <1>2, <1>3, <1>4, <1>5, <1>6, <1>7 DEF KitProbeRecovery, KitProbe

LEMMA LockStorageTypes ==
    ASSUME LockTypeOK, NEW p \in Procs \ dead, StorageStep(p) \/ StorageRelease(p)
    PROVE  LockTypeOK'
  <1>. USE ContentFacts DEF Go, Put, LockTypeOK, Steps, Files
  <1>1. CASE StorageAcquire(p)
    BY <1>1 DEF StorageAcquire
  <1>2. CASE StorageWrite(p)
    BY <1>2 DEF StorageWrite
  <1>3. CASE StorageMutex(p)
    BY <1>3 DEF StorageMutex
  <1>4. CASE StorageParse(p)
    BY <1>4 DEF StorageParse, Reads
  <1>5. CASE StorageReparse(p)
    BY <1>5 DEF StorageReparse
  <1>9. CASE StorageProbe(p)
    BY <1>9 DEF StorageProbe
  <1>6. CASE StorageUnlink(p)
    BY <1>6 DEF StorageUnlink
  <1>7. CASE StorageLeave(p)
    BY <1>7 DEF StorageLeave
  <1>8. CASE StorageRelease(p)
    BY <1>8 DEF StorageRelease
  <1>. QED
    BY <1>1, <1>2, <1>3, <1>4, <1>5, <1>6, <1>7, <1>8, <1>9 DEF StorageStep

LEMMA LockDieTypes ==
    ASSUME LockTypeOK, NEW p \in Procs \ dead, Die(p)
    PROVE  LockTypeOK'
  BY DEF Die, Go, LockTypeOK, NoRemoval, Removals, Steps, Files

-----------------------------------------------------------------------------
(* The lock files: each step keeps the invariant.                           *)

LEMMA OwnFacts ==
    ASSUME LockTypeOK, Held
    PROVE  /\ \A p \in Procs : HoldsLock(p) => file["lock"] # Absent /\ file["lock"][1] = p
           /\ \A p \in Procs : HoldsRecovery(p) => file["recovery"] # Absent /\ file["recovery"][1] = p
           /\ \A p \in Procs : at[p] # "idle" => token[p] # Absent /\ token[p][1] = p
           /\ \A p \in dead : at[p] = "idle"
  <1>1. ASSUME NEW p \in Procs, at[p] # "idle"
        PROVE  token[p] # Absent /\ token[p][1] = p
    BY <1>1, ContentFacts DEF Held, Called
  <1>2. ASSUME NEW p \in Procs
        PROVE  <<p, Malformed>> # Absent /\ <<p, Malformed>>[1] = p
    BY ContentFacts
  <1>3. ASSUME NEW p \in Procs, HoldsLock(p)
        PROVE  file["lock"] # Absent /\ file["lock"][1] = p
    <2>1. file["lock"] = IF at[p] = "write" THEN <<p, Malformed>> ELSE token[p]
      BY <1>3 DEF Held, Published
    <2>2. at[p] # "idle"
      BY <1>3 DEF HoldsLock
    <2>. QED
      BY <1>1, <1>2, <2>1, <2>2
  <1>4. ASSUME NEW p \in Procs, HoldsRecovery(p)
        PROVE  file["recovery"] # Absent /\ file["recovery"][1] = p
    <2>1. file["recovery"] = IF protocol = "kit" THEN token[p] ELSE <<p, Malformed>>
      BY <1>4 DEF Held, Published
    <2>2. at[p] # "idle"
      BY <1>4 DEF HoldsRecovery
    <2>. QED
      BY <1>1, <1>2, <2>1, <2>2
  <1>. QED
    BY <1>1, <1>3, <1>4 DEF LockTypeOK

LEMMA CallHolds ==
    ASSUME LockTypeOK, Held, NEW p \in Procs \ dead, Call(p)
    PROVE  Held'
  <1>1. PICK n \in Generations : token' = [token EXCEPT ![p] = <<p, n>>]
    BY DEF Call, Unused
  <1>. QED
    BY <1>1 DEF Call, Go, LockTypeOK, Held, Called, Removing, Published, Accounted, Matching,
        HoldsLock, HoldsRecovery, Holds, OfTheDead, Releasing, Reclaiming, Dropping, TakingOver,
        KitSteps, StorageSteps

LEMMA KitHolds ==
    ASSUME LockTypeOK, Held, NEW p \in Procs \ dead,
           KitAcquire(p) \/ KitRecover(p) \/ KitReadRecovery(p) \/ KitProbeRecovery(p)
           \/ KitInspect(p) \/ KitProbe(p) \/ KitDrop(p) \/ KitRelease(p)
    PROVE  Held'
  <1>. USE OwnFacts DEF Go, Put, LockTypeOK, Held, Called, Removing, Published, Accounted, Matching,
        HoldsLock, HoldsRecovery, Holds, OfTheDead, Releasing, Reclaiming, Dropping, TakingOver,
        KitSteps, StorageSteps, Files
  <1>1. CASE KitAcquire(p)
    BY <1>1 DEF KitAcquire
  <1>2. CASE KitRecover(p)
    BY <1>2 DEF KitRecover, RecoveryFree
  <1>3. CASE KitReadRecovery(p)
    BY <1>3 DEF KitReadRecovery, Reads, Complete
  <1>4. CASE KitInspect(p)
    BY <1>4 DEF KitInspect, Reads, Complete
  <1>5. CASE KitDrop(p)
    BY <1>5 DEF KitDrop, DropRecovery, Remove
  <1>6. CASE KitRelease(p)
    BY <1>6 DEF KitRelease, Remove
  <1>7. CASE KitProbeRecovery(p)
    BY <1>7 DEF KitProbeRecovery, Probe, OwnerGone, Remove
  <1>8. CASE KitProbe(p)
    BY <1>8 DEF KitProbe, Probe, OwnerGone, Remove
  <1>. QED
    BY <1>1, <1>2, <1>3, <1>4, <1>5, <1>6, <1>7, <1>8

LEMMA RemovalHolds ==
    ASSUME LockTypeOK, Held, ~displaced', NEW p \in Procs \ dead,
           Move(p) \/ Look(p) \/ Restore(p) \/ Preserve(p)
    PROVE  Held'
  <1>. USE OwnFacts DEF Go, Put, LockTypeOK, Held, Called, Removing, Published, Accounted, Matching,
        HoldsLock, HoldsRecovery, Holds, OfTheDead, Releasing, Reclaiming, Dropping, TakingOver,
        KitSteps, StorageSteps, Files
  <1>1. CASE Move(p)
    <2>0. protocol = "kit" /\ at[p] = "move"
      BY <1>1 DEF Move
    <2>1. CASE file[removal[p].path] = Absent
      <3>1. Reclaiming(p) \/ TakingOver(p)
        BY <2>0, <2>1
      <3>2. /\ at' = [at EXCEPT ![p] = removal[p].no] /\ removal' = [removal EXCEPT ![p] = NoRemoval]
            /\ UNCHANGED <<protocol, file, aside, token, saw, dead>>
        BY <1>1, <2>1 DEF Move, Removed
      <3>. QED
        BY <2>0, <3>1, <3>2 DEF NoRemoval
    <2>2. CASE file[removal[p].path] # Absent
      <3>1. file[removal[p].path] = removal[p].token
        BY <1>1, <2>2 DEF Move
      <3>2. /\ aside' = [aside EXCEPT ![p] = removal[p].token]
            /\ file' = [file EXCEPT ![removal[p].path] = Absent]
            /\ at' = [at EXCEPT ![p] = "look"]
            /\ UNCHANGED <<protocol, removal, token, saw, dead>>
        BY <1>1, <2>2, <3>1 DEF Move
      <3>3. Called'
        BY <2>0, <3>2
      <3>4. Removing'
        BY <2>0, <3>2
      <3>5. Published'
        BY <2>0, <2>2, <3>1, <3>2
      <3>6. Accounted'
        BY <2>0, <2>2, <3>1, <3>2
      <3>7. Matching'
        BY <2>0, <2>2, <3>1, <3>2
      <3>. QED
        BY <3>3, <3>4, <3>5, <3>6, <3>7
    <2>. QED
      BY <2>1, <2>2
  <1>2. CASE Look(p)
    BY <1>2 DEF Look, Removed, NoRemoval
  <1>3. CASE Restore(p)
    BY <1>3 DEF Restore
  <1>4. CASE Preserve(p)
    BY <1>4 DEF Preserve
  <1>. QED
    BY <1>1, <1>2, <1>3, <1>4

LEMMA StorageHolds ==
    ASSUME LockTypeOK, Held, NEW p \in Procs \ dead, StorageStep(p) \/ StorageRelease(p)
    PROVE  Held'
  <1>. USE OwnFacts, ContentFacts DEF Go, Put, LockTypeOK, Held, Called, Removing, Published, Accounted, Matching,
        HoldsLock, HoldsRecovery, Holds, OfTheDead, Releasing, Reclaiming, Dropping, TakingOver,
        KitSteps, StorageSteps, Files
  <1>1. CASE StorageAcquire(p)
    BY <1>1 DEF StorageAcquire
  <1>2. CASE StorageWrite(p)
    BY <1>2 DEF StorageWrite
  <1>3. CASE StorageMutex(p)
    BY <1>3 DEF StorageMutex, RecoveryFree
  <1>4. CASE StorageParse(p)
    BY <1>4 DEF StorageParse, Reads, Complete
  <1>5. CASE StorageReparse(p)
    BY <1>5 DEF StorageReparse
  <1>6. CASE StorageUnlink(p)
    BY <1>6 DEF StorageUnlink
  <1>7. CASE StorageLeave(p)
    BY <1>7 DEF StorageLeave
  <1>8. CASE StorageRelease(p)
    BY <1>8 DEF StorageRelease
  <1>9. CASE StorageProbe(p)
    BY <1>9 DEF StorageProbe, OwnerGone
  <1>. QED
    BY <1>1, <1>2, <1>3, <1>4, <1>5, <1>6, <1>7, <1>8, <1>9 DEF StorageStep

LEMMA DieHolds ==
    ASSUME LockTypeOK, Held, NEW p \in Procs \ dead, Die(p)
    PROVE  Held'
  BY OwnFacts DEF Die, Go, Put, LockTypeOK, Held, Called, Removing, Published, Accounted, Matching,
        HoldsLock, HoldsRecovery, Holds, OfTheDead, Releasing, Reclaiming, Dropping, TakingOver,
        KitSteps, StorageSteps, Files

LEMMA HistoryStays ==
    ASSUME LockTypeOK, NEW p \in Procs \ dead,
           Call(p) \/ KitStep(p) \/ StorageStep(p) \/ Release(p) \/ Die(p)
    PROVE  (doubt => doubt') /\ (displaced => displaced') /\ protocol' = protocol
  BY DEF LockTypeOK, Call, KitStep, StorageStep, Release, Die, Move, Look, Restore, Preserve,
         KitAcquire, KitRecover, KitReadRecovery, KitProbeRecovery, Probe, KitInspect, KitProbe,
         KitDrop, KitRelease, StorageAcquire, StorageWrite, StorageMutex, StorageParse,
         StorageProbe, StorageReparse, StorageUnlink, StorageLeave, StorageRelease

\* What a process is about to move aside is there, while there is no doubt.
LEMMA MovesWhatItRead ==
    ASSUME LockTypeOK, Held, Stable, NEW p \in Procs \ dead, at[p] = "move"
    PROVE  file[removal[p].path] = removal[p].token
  <1>1. protocol = "kit"
    BY DEF Held, Called, StorageSteps
  <1>2. CASE Releasing(p) /\ removal[p].token = token[p]
    BY <1>2 DEF Held, Published, HoldsLock, Releasing
  <1>3. CASE Dropping(p) /\ removal[p].token = token[p]
    BY <1>1, <1>3 DEF Held, Published, HoldsRecovery, Dropping
  <1>4. CASE Reclaiming(p) \/ TakingOver(p)
    BY <1>4 DEF Stable
  <1>. QED
    BY <1>2, <1>3, <1>4 DEF Held, Removing

LEMMA FirstDisplaced ==
    ASSUME LockTypeOK, Held, ~displaced, displaced', NEW p \in Procs \ dead,
           Call(p) \/ KitStep(p) \/ StorageStep(p) \/ Release(p) \/ Die(p)
    PROVE  protocol = "kit" /\ ~Stable
  <1>1. Move(p)
    BY DEF Call, KitStep, StorageStep, Release, Die, Look, Restore, Preserve, KitAcquire, KitRecover,
         KitReadRecovery, KitProbeRecovery, Probe, KitInspect, KitProbe, KitDrop, KitRelease,
         StorageAcquire, StorageWrite, StorageMutex, StorageParse, StorageProbe, StorageReparse,
         StorageUnlink, StorageLeave, StorageRelease
  <1>2. at[p] = "move" /\ file[removal[p].path] # removal[p].token
    BY <1>1 DEF Move
  <1>. QED
    BY <1>2, MovesWhatItRead DEF Held, Called, StorageSteps

LEMMA StableKept ==
    ASSUME LockTypeOK, Held, Stable, ~doubt', NEW p \in Procs \ dead,
           Call(p) \/ KitStep(p) \/ StorageStep(p) \/ Release(p) \/ Die(p)
    PROVE  Stable'
  <1>. SUFFICES ASSUME NEW q \in Procs, at'[q] = "move", (Reclaiming(q) \/ TakingOver(q))'
                PROVE  file'[removal'[q].path] = removal'[q].token
    BY DEF Stable
  <1>. USE DEF Go, LockTypeOK
  <1>0. removal[p] \in Removals /\ removal[p].yes # "move" /\ removal[p].no # "move"
    BY DEF Removals
  <1>1. CASE p = q
    <2>1. CASE \E path \in Files, yes \in {"again", "dropFreed"}, no \in {"idle", "drop"} :
                   Probe(p, path, yes, no)
      <3>1. PICK path \in Files, yes \in {"again", "dropFreed"}, no \in {"idle", "drop"} :
                   Probe(p, path, yes, no)
        BY <2>1
      <3>2. CASE OwnerGone(p)
        <4>1. file' = file /\ file[path] = saw[p]
          BY <3>1, <3>2 DEF Probe
        <4>2. removal' = [removal EXCEPT ![p] = [path |-> path, token |-> saw[p], yes |-> yes, no |-> no]]
          BY <3>1, <3>2 DEF Probe, Remove
        <4>. HIDE DEF LockTypeOK
        <4>3. removal \in [Procs -> Removals]
          BY DEF LockTypeOK
        <4>4. removal'[p].path = path /\ removal'[p].token = saw[p]
          BY <4>2, <4>3
        <4>. QED
          BY <1>1, <4>1, <4>4
      <3>3. CASE ~OwnerGone(p)
        <4>1. at' = [at EXCEPT ![p] = no]
          BY <3>1, <3>3 DEF Probe
        <4>2. no # "move"
          BY <3>1
        <4>. QED
          BY <1>1, <4>1, <4>2
      <3>. QED
        BY <3>2, <3>3
    <2>2. CASE KitDrop(p) \/ KitRelease(p)
      BY <1>1, <2>2 DEF KitDrop, DropRecovery, KitRelease, Remove, Reclaiming, TakingOver
    <2>3. CASE Move(p)
      BY <1>0, <1>1, <2>3 DEF Move, Removed
    <2>4. CASE Look(p) \/ Restore(p) \/ Preserve(p)
      BY <1>0, <1>1, <2>4 DEF Look, Restore, Preserve, Removed
    <2>5. CASE StorageStep(p) \/ StorageRelease(p)
      BY <1>1, <2>5 DEF StorageStep, StorageAcquire, StorageWrite, StorageMutex, StorageParse, Reads,
         StorageProbe, StorageReparse, StorageUnlink, StorageLeave, StorageRelease
    <2>6. CASE Call(p) \/ Die(p) \/ KitAcquire(p) \/ KitRecover(p) \/ KitReadRecovery(p) \/ KitInspect(p)
      BY <1>1, <2>6 DEF Call, Die, KitAcquire, KitRecover, KitReadRecovery, KitInspect, Reads
    <2>. QED
      BY <2>1, <2>2, <2>3, <2>4, <2>5, <2>6 DEF KitStep, Release, KitProbeRecovery, KitProbe, Files
  <1>2. CASE p # q
    <2>1. at[q] = "move" /\ removal'[q] = removal[q]
      <3>1. at'[q] = at[q]
        BY <1>2 DEF Call, KitStep, StorageStep, Release, Die, Move, Removed, Remove, DropRecovery, Look,
           Restore, Preserve, Reads, KitAcquire, KitRecover, KitReadRecovery, KitProbeRecovery, Probe,
           KitInspect, KitProbe, KitDrop, KitRelease, StorageAcquire, StorageWrite, StorageMutex,
           StorageParse, StorageProbe, StorageReparse, StorageUnlink, StorageLeave, StorageRelease
      <3>2. removal'[q] = removal[q]
        BY <1>2 DEF Call, KitStep, StorageStep, Release, Die, Move, Removed, Remove, DropRecovery, Look,
           Restore, Preserve, KitAcquire, KitRecover, KitReadRecovery, KitProbeRecovery, Probe,
           KitInspect, KitProbe, KitDrop, KitRelease, StorageAcquire, StorageWrite, StorageMutex,
           StorageParse, StorageProbe, StorageReparse, StorageUnlink, StorageLeave, StorageRelease
      <3>. QED
        BY <3>1, <3>2
    <2>2. Reclaiming(q) \/ TakingOver(q)
      BY <2>1 DEF Reclaiming, TakingOver
    <2>3. /\ file[removal[q].path] = removal[q].token /\ OfTheDead(removal[q].token)
          /\ removal[q].path \in Files
      BY <2>1, <2>2 DEF Stable, Held, Removing, Releasing, Reclaiming, Dropping, TakingOver, Files
    <2>4. protocol = "kit"
      BY <2>1 DEF Held, Called, StorageSteps
    <2>5. ASSUME Move(p) PROVE file'[removal[q].path] = file[removal[q].path]
      <3>1. CASE file[removal[p].path] = Absent
        BY <2>5, <3>1 DEF Move
      <3>2. CASE file[removal[p].path] # Absent
        <4>1. at[p] = "move" /\ removal[p].yes # "again"
          BY <2>5, <3>2 DEF Move
        <4>2. file[removal[p].path] = removal[p].token
          BY <4>1, MovesWhatItRead
        <4>5. file' = [file EXCEPT ![removal[p].path] = Absent]
          BY <2>5, <3>2 DEF Move, Put
        <4>3. CASE Releasing(p) \/ Dropping(p)
          <5>1. removal[p].token = token[p] /\ token[p][1] = p
            BY <4>1, <4>3, OwnFacts DEF Held, Removing, Releasing, Reclaiming, Dropping, TakingOver
          <5>2. removal[p].path # removal[q].path
            BY <2>3, <4>2, <5>1 DEF OfTheDead
          <5>. QED
            BY <2>3, <4>5, <5>2
        <4>4. CASE Reclaiming(p)
          <5>1. ~Reclaiming(q)
            BY <1>2, <2>1, <4>1, <4>4, OwnFacts DEF HoldsRecovery
          <5>2. removal[p].path # removal[q].path
            BY <2>2, <4>4, <5>1 DEF Reclaiming, TakingOver
          <5>. QED
            BY <2>3, <4>5, <5>2
        <4>. QED
          BY <4>1, <4>3, <4>4 DEF Held, Removing, TakingOver
      <3>. QED
        BY <3>1, <3>2
    <2>6. ASSUME KitAcquire(p) \/ KitRecover(p) PROVE file'[removal[q].path] = file[removal[q].path]
      BY <2>3, <2>6 DEF KitAcquire, KitRecover, RecoveryFree, Put, OfTheDead
    <2>7. ~StorageStep(p) /\ ~Restore(p) /\ ~Preserve(p)
      BY <2>4 DEF Held, Called, KitSteps, StorageStep, StorageAcquire, StorageWrite, StorageMutex,
         StorageParse, StorageProbe, StorageReparse, StorageUnlink, StorageLeave, Restore, Preserve
    <2>8. ASSUME ~Move(p), ~KitAcquire(p), ~KitRecover(p)
          PROVE  file' = file
      BY <2>7, <2>8 DEF Call, KitStep, Release, Die, Look, KitReadRecovery, KitProbeRecovery, Probe,
           KitInspect, KitProbe, KitDrop, KitRelease, StorageRelease
    <2>9. file'[removal[q].path] = file[removal[q].path]
      BY <2>5, <2>6, <2>8
    <2>. QED
      BY <2>1, <2>3, <2>9
  <1>. QED
    BY <1>1, <1>2

LEMMA LockInductive == LockInit /\ [][LockNext]_lockVars => []LockIInv
  <1>1. LockInit => LockIInv
    <2> SUFFICES ASSUME LockInit PROVE LockIInv
      OBVIOUS
    <2>1. LockTypeOK
      BY LockInitTypes
    <2>2. Held /\ Stable
      BY DEF LockInit, Held, Called, Removing, Published, Accounted, Matching, Stable,
             HoldsLock, HoldsRecovery, Holds, KitSteps, StorageSteps, Files
    <2>. QED
      BY <2>1, <2>2 DEF LockIInv, LockInit
  <1>2. LockIInv /\ [LockNext]_lockVars => LockIInv'
    <2> SUFFICES ASSUME LockIInv, [LockNext]_lockVars PROVE LockIInv'
      OBVIOUS
    <2>0. LockTypeOK /\ (displaced => doubt /\ protocol = "kit") /\ (~displaced => Held) /\ (~doubt => Stable)
      BY DEF LockIInv
    <2>1. ASSUME NEW p \in Procs \ dead,
                 Call(p) \/ KitStep(p) \/ StorageStep(p) \/ Release(p) \/ Die(p)
          PROVE  LockIInv'
      <3>1. LockTypeOK'
        BY <2>0, <2>1, LockCallTypes, LockRemovalTypes, LockKitTypes, LockStorageTypes, LockDieTypes DEF KitStep, Release
      <3>2. (doubt => doubt') /\ (displaced => displaced') /\ protocol' = protocol
        BY <2>0, <2>1, HistoryStays
      <3>3. displaced' => doubt' /\ protocol' = "kit"
        BY <2>0, <2>1, <3>2, FirstDisplaced
      <3>4. ~displaced' => Held'
        BY <2>0, <2>1, <3>2, CallHolds, RemovalHolds, KitHolds, StorageHolds, DieHolds DEF KitStep, Release
      <3>5. ~doubt' => Stable'
        BY <2>0, <2>1, <3>2, StableKept
      <3>. QED
        BY <3>1, <3>3, <3>4, <3>5 DEF LockIInv
    <2>2. CASE UNCHANGED lockVars
      BY <2>0, <2>2
         DEF LockIInv, LockTypeOK, Held, Called, Removing, Published, Accounted, Matching, Stable, HoldsLock,
             HoldsRecovery, Holds, OfTheDead, Releasing, Reclaiming, Dropping, TakingOver
    <2>. QED
      BY <2>1, <2>2 DEF LockNext
  <1>. QED
    BY <1>1, <1>2, PTL

\* Files, processes and what they remember are well typed, and a dead process
\* takes no step, for any number of processes and deaths (withKitLock,
\* withStorageLock).
THEOREM LockTypes == LockSpec => []LockTypeOK
  <1>1. LockIInv => LockTypeOK
    BY DEF LockIInv
  <1>. QED
    BY <1>1, LockInductive, PTL DEF LockSpec

\* Two processes are never under the lock at once and none leaves a lock behind,
\* for any number of processes and deaths, while the rename has displaced nothing;
\* and it displaces something only after a question about a record by then gone, or
\* the takeover of a recovery lock, and only in the Kit (reclaimConfirmedDeadKitLock,
\* reclaimConfirmedDeadStorageLock).
THEOREM LocksExclude == LockSpec => []OneHolder
  <1>1. LockIInv => OneHolder
    <2> SUFFICES ASSUME LockIInv, ~displaced PROVE OneHolder
      BY DEF OneHolder, LockIInv
    <2>0. LockTypeOK /\ Held
      BY DEF LockIInv
    <2>1. \A p \in Procs : Inside(p) => HoldsLock(p)
      BY DEF Inside, HoldsLock
    <2>2. \A p, q \in Procs : Inside(p) /\ Inside(q) => p = q
      BY <2>0, <2>1, OwnFacts
    <2>3. \A p \in Procs : Inside(p) => file["lock"] \in {token[p], <<p, Malformed>>}
      BY <2>0, <2>1 DEF Held, Published
    <2>4. \A f \in Files, p \in Procs \ dead :
             at[p] = "idle" => file[f] = Absent \/ file[f][1] # p
      BY <2>0 DEF Held, Accounted, Holds, HoldsLock, HoldsRecovery
    <2>. QED
      BY <2>2, <2>3, <2>4 DEF OneHolder
  <1>. QED
    BY <1>1, LockInductive, PTL DEF LockSpec

-----------------------------------------------------------------------------
(* Who takes a lock file away.                                              *)

\* The owner, while it lives; when the owner is dead, the one live process that
\* holds the recovery lock, or whoever takes the recovery lock itself over.
MayTakeAway(f, whose) ==
    \/ whose \notin dead /\ at'[whose] # at[whose]
    \/ /\ whose \in dead
       /\ \E p \in Procs \ dead :
             /\ at'[p] # at[p]
             /\ IF f = "lock" THEN HoldsRecovery(p) ELSE at[p] = "move" /\ TakingOver(p)

\* No process removes or overwrites what another has published, except that a
\* dead owner's lock is reclaimed under the recovery lock, and a dead reclaimer's
\* recovery lock by a takeover.  The first record that the rename displaces is
\* displaced when a takeover has begun already, or a question was asked about a
\* record by then gone: not before (unlinkKitLockIfTokenMatches,
\* reclaimConfirmedDeadStorageLock).
LocksRespected ==
    [][/\ ~displaced /\ displaced' => doubt
       /\ ~displaced' => \A f \in Files :
             file[f] # Absent /\ file'[f] # file[f] => MayTakeAway(f, file[f][1])]_lockVars

LEMMA OwnFileTaken ==
    ASSUME LockTypeOK, NEW p \in Procs \ dead, NEW f \in Files,
           file[f] = token[p] \/ file[f] = <<p, Malformed>>, token[p] \in {p} \X Generations,
           at'[p] # at[p]
    PROVE  MayTakeAway(f, file[f][1])
  <1>1. file[f][1] = p
    OBVIOUS
  <1>. QED
    BY <1>1 DEF MayTakeAway

LEMMA DeadFileTaken ==
    ASSUME LockTypeOK, NEW p \in Procs \ dead, OfTheDead(file["lock"]), HoldsRecovery(p),
           at'[p] # at[p]
    PROVE  MayTakeAway("lock", file["lock"][1])
  BY DEF MayTakeAway, OfTheDead

LEMMA MoveRespects ==
    ASSUME LockTypeOK, Held, ~displaced', NEW p \in Procs \ dead, Move(p), NEW f \in Files,
           file[f] # Absent, file'[f] # file[f]
    PROVE  MayTakeAway(f, file[f][1])
  <1>1. /\ f = removal[p].path /\ at[p] = "move" /\ at' = [at EXCEPT ![p] = "look"]
        /\ file[f] = removal[p].token
    BY DEF Move, Removed, Go, Put, LockTypeOK
  <1>2. at'[p] # at[p] /\ token[p] \in {p} \X Generations
    BY <1>1 DEF LockTypeOK, Held, Called
  <1>3. CASE removal[p].token = token[p]
    BY <1>1, <1>2, <1>3, OwnFileTaken
  <1>4. CASE Reclaiming(p) /\ OfTheDead(removal[p].token)
    <2>1. f = "lock" /\ OfTheDead(file["lock"]) /\ HoldsRecovery(p)
      BY <1>1, <1>4 DEF Reclaiming, HoldsRecovery
    <2>. QED
      BY <1>2, <2>1, DeadFileTaken
  <1>5. CASE TakingOver(p) /\ OfTheDead(removal[p].token)
    <2>1. f = "recovery" /\ file[f][1] \in dead
      BY <1>1, <1>5 DEF TakingOver, OfTheDead
    <2>. QED
      BY <1>1, <1>2, <1>5, <2>1 DEF MayTakeAway
  <1>. QED
    BY <1>1, <1>3, <1>4, <1>5 DEF Held, Removing

LEMMA StorageRespects ==
    ASSUME LockTypeOK, Held, NEW p \in Procs \ dead, StorageStep(p), NEW f \in Files,
           file[f] # Absent, file'[f] # file[f]
    PROVE  MayTakeAway(f, file[f][1])
  <1>1. \/ StorageWrite(p) /\ f = "lock"
        \/ StorageUnlink(p) /\ f = "lock"
        \/ StorageLeave(p) /\ f = "recovery"
    BY DEF StorageStep, StorageAcquire, StorageWrite, StorageMutex, RecoveryFree, StorageParse,
           StorageProbe, StorageReparse, StorageUnlink, StorageLeave, Put, Files, LockTypeOK
  <1>2. at[p] # "idle" /\ at'[p] # at[p] /\ token[p] \in {p} \X Generations
    BY <1>1 DEF StorageWrite, StorageUnlink, StorageLeave, Go, LockTypeOK, Held, Called
  <1>3. CASE StorageWrite(p) /\ f = "lock"
    BY <1>2, <1>3, OwnFileTaken DEF StorageWrite, Held, Published, HoldsLock
  <1>4. CASE StorageUnlink(p) /\ f = "lock" /\ at[p] = "unlock"
    BY <1>2, <1>4, OwnFileTaken DEF Held, Published, HoldsLock
  <1>5. CASE StorageUnlink(p) /\ f = "lock" /\ at[p] = "unlink"
    <2>1. OfTheDead(file["lock"]) /\ HoldsRecovery(p)
      BY <1>5 DEF Held, Matching, HoldsRecovery
    <2>. QED
      BY <1>2, <1>5, <2>1, DeadFileTaken
  <1>6. CASE StorageLeave(p) /\ f = "recovery"
    <2>1. file["recovery"] \in {token[p], <<p, Malformed>>}
      BY <1>6 DEF StorageLeave, Held, Published, HoldsRecovery
    <2>. QED
      BY <1>2, <1>6, <2>1, OwnFileTaken
  <1>. QED
    BY <1>1, <1>3, <1>4, <1>5, <1>6 DEF StorageUnlink

\* For any number of processes and deaths, whoever takes a lock file away may,
\* until the rename displaces something, and that is not before there is a doubt.
THEOREM LocksAreRespected == LockSpec => LocksRespected
  <1>1. ASSUME LockIInv, [LockNext]_lockVars
        PROVE  [/\ ~displaced /\ displaced' => doubt
                /\ ~displaced' => \A f \in Files :
                      file[f] # Absent /\ file'[f] # file[f] => MayTakeAway(f, file[f][1])]_lockVars
    <2>. SUFFICES ASSUME ~UNCHANGED lockVars
                  PROVE  /\ ~displaced /\ displaced' => doubt
                         /\ ~displaced' => \A f \in Files :
                               file[f] # Absent /\ file'[f] # file[f] => MayTakeAway(f, file[f][1])
      OBVIOUS
    <2>1. PICK p \in Procs \ dead : Call(p) \/ KitStep(p) \/ StorageStep(p) \/ Release(p) \/ Die(p)
      BY <1>1 DEF LockNext
    <2>2. LockTypeOK /\ (~displaced => Held) /\ (~doubt => Stable)
      BY <1>1 DEF LockIInv
    <2>3. ~displaced /\ displaced' => doubt
      BY <2>1, <2>2, FirstDisplaced
    <2>4. ASSUME ~displaced', NEW f \in Files, file[f] # Absent, file'[f] # file[f]
          PROVE  MayTakeAway(f, file[f][1])
      <3>0. Held
        BY <2>1, <2>2, <2>4, HistoryStays
      <3>1. at[p] \notin {"restore", "preserve"}
        BY <3>0 DEF Held, Called, KitSteps, StorageSteps
      <3>2. ~KitAcquire(p) /\ ~KitRecover(p)
        BY <2>2, <2>4 DEF KitAcquire, KitRecover, RecoveryFree, Put, Files, LockTypeOK
      <3>3. Move(p) \/ StorageStep(p)
        BY <2>1, <2>4, <3>1, <3>2
           DEF Call, KitStep, KitReadRecovery, KitProbeRecovery, Probe, KitInspect, KitProbe, KitDrop,
               Look, Restore, Preserve, Release, KitRelease, StorageRelease, Die
      <3>. QED
        BY <2>2, <2>4, <3>0, <3>3, MoveRespects, StorageRespects
    <2>. QED
      BY <2>3, <2>4
  <1>. QED
    BY <1>1, LockInductive, PTL DEF LockSpec, LocksRespected

=============================================================================
