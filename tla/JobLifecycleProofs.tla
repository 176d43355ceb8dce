------------------------- MODULE JobLifecycleProofs -------------------------
(***************************************************************************)
(* Proofs about JobLifecycle, for any number of jobs of both transports,   *)
(* any running limit and either kind of store.                             *)
(***************************************************************************)
EXTENDS JobLifecycle, FiniteSetTheorems, TLAPS

-----------------------------------------------------------------------------
(* The inductive invariant, job by job.                                     *)

\* How far the start call is.
Admission(j) ==
    /\ status[j] = "none" => start[j] = "none"
    /\ start[j] = "none" => status[j] = "none" /\ ~wired[j]
    /\ slot[j] = "waiting" => status[j] = "queued" /\ queuedFirst[j]
    /\ start[j] = "recording" /\ ~queuedFirst[j] =>
         status[j] = "queued" /\ slot[j] = "held" /\ ~wired[j]

\* A held permit is wired, except while an immediate grant is being recorded, and
\* a terminal pipeline is on its way to every permit of a job that ended.
Permit(j) ==
    /\ wired[j] => slot[j] = "held"
    /\ slot[j] = "held" => wired[j] \/ (start[j] = "recording" /\ ~queuedFirst[j])
    /\ status[j] = "running" => wired[j]
    /\ Ended(j) /\ wired[j] => pending[j] > 0
    /\ pending[j] > 0 \/ retry[j] \/ persisted[j] => Ended(j)

\* How far the launch is.
Running(j) ==
    /\ launch[j] = "none" => child[j] = "none"
    /\ launch[j] = "starting" =>
         child[j] = "none" /\ (j \in ProcessJobs => status[j] = "running")
    /\ launch[j] # "none" => status[j] = "running" \/ Ended(j)
    /\ child[j] = "exited" => outcome[j] # "none"

JobInv(j) == Admission(j) /\ Permit(j) /\ Running(j)

IInv ==
    /\ TypeOK
    /\ PermitsWithinLimit
    /\ \A j \in Jobs : JobInv(j)

\* With a serial store a child closes with its handlers attached, a terminal write
\* finds the row its job inserted, and one that fails is retried or followed by
\* the write of the close handler.
Durable(j) ==
    /\ start[j] = "done" => row[j] # "none"
    /\ persisted[j] => start[j] # "recording"
    /\ persisted[j] /\ start[j] = "done" => row[j] = status[j]
    /\ ~persisted[j] => row[j] \notin Results
    /\ j \in ProcessJobs /\ child[j] \in {"exited", "closed"} => launch[j] = "over"
    /\ child[j] = "closed" => closeSeen[j]
    /\ j \in ProcessJobs /\ launch[j] = "marking" => child[j] # "none"
    /\ launch[j] = "over" => child[j] # "none" \/ closeSeen[j]
    /\ status[j] = "running" => launch[j] # "none"
    /\ Ended(j) /\ launch[j] = "none" => closeSeen[j]
    /\ Ended(j) /\ closeSeen[j] /\ pending[j] = 0 /\ ~retry[j] => persisted[j]

DurableInv == \A j \in Jobs : Durable(j)

-----------------------------------------------------------------------------
(* A step of one job leaves the others alone.                               *)

Same(j) ==
    /\ status'[j] = status[j] /\ start'[j] = start[j] /\ queuedFirst'[j] = queuedFirst[j]
    /\ closeSeen'[j] = closeSeen[j] /\ slot'[j] = slot[j] /\ wired'[j] = wired[j]
    /\ launch'[j] = launch[j] /\ child'[j] = child[j] /\ outcome'[j] = outcome[j]
    /\ pending'[j] = pending[j] /\ retry'[j] = retry[j]
    /\ persisted'[j] = persisted[j] /\ row'[j] = row[j]

Starting(j) ==
    \/ Start(j) \/ RecordStartSucceeds(j) \/ RecordStartFails(j)
    \/ ReleaseLaunch(j) \/ Grant(j)

Launching(j) == LaunchContinues(j) \/ SpawnFails(j) \/ MarkReturns(j)

Ending(j) ==
    \/ ChildExits(j) \/ ChildCloses(j) \/ RequestSettles(j)
    \/ IdleTimeout(j) \/ QueueTimeout(j)
    \/ CancelQueued(j) \/ CancelRunning(j) \/ DeadProcessFound(j)

Persisting(j) == Persist(j) \/ PersistFails(j) \/ RetryTimer(j)

USE DEF Results, Ended, memVars, limitVars, runVars, endVars

LEMMA StartingFrame ==
    ASSUME TypeOK, NEW k \in Jobs, Starting(k)
    PROVE  \A j \in Jobs \ {k} : Same(j)
  <1> USE DEF TypeOK, StageTypes, FlagTypes, Same
  <1>1. CASE Start(k)
    BY <1>1 DEF Start
  <1>2. CASE RecordStartSucceeds(k)
    BY <1>2 DEF RecordStartSucceeds, Launch
  <1>3. CASE RecordStartFails(k)
    BY <1>3 DEF RecordStartFails
  <1>4. CASE ReleaseLaunch(k)
    BY <1>4 DEF ReleaseLaunch, Launch
  <1>5. CASE Grant(k)
    <2> SUFFICES ASSUME NEW j \in Jobs \ {k} PROVE Same(j)
      OBVIOUS
    <2>1. status'[j] = status[j] /\ launch'[j] = launch[j]
      BY <1>5 DEF Grant, Launch
    <2>2. slot'[j] = slot[j]
      BY <1>5 DEF Grant, Launch
    <2>3. wired'[j] = wired[j]
      BY <1>5 DEF Grant, Launch
    <2>4. UNCHANGED <<start, queuedFirst, closeSeen, child, outcome, pending, retry, persisted, row>>
      BY <1>5 DEF Grant
    <2>. QED
      BY <2>1, <2>2, <2>3, <2>4
  <1>. QED
    BY <1>1, <1>2, <1>3, <1>4, <1>5 DEF Starting

LEMMA LaunchingFrame ==
    ASSUME TypeOK, NEW k \in Jobs, Launching(k)
    PROVE  \A j \in Jobs \ {k} : Same(j)
  <1> USE DEF TypeOK, StageTypes, FlagTypes, Same
  <1>1. CASE LaunchContinues(k)
    BY <1>1 DEF LaunchContinues
  <1>2. CASE SpawnFails(k)
    BY <1>2 DEF SpawnFails, BeginEnd
  <1>3. CASE MarkReturns(k)
    BY <1>3 DEF MarkReturns
  <1>. QED
    BY <1>1, <1>2, <1>3 DEF Launching

LEMMA EndingFrame ==
    ASSUME TypeOK, NEW k \in Jobs, Ending(k)
    PROVE  \A j \in Jobs \ {k} : Same(j)
  <1> USE DEF TypeOK, StageTypes, FlagTypes, Same
  <1>1. CASE ChildExits(k)
    BY <1>1 DEF ChildExits
  <1>2. CASE ChildCloses(k)
    BY <1>2 DEF ChildCloses, BeginEnd, JobInv, Running
  <1>3. CASE RequestSettles(k)
    BY <1>3 DEF RequestSettles, BeginEnd
  <1>4. CASE IdleTimeout(k)
    BY <1>4 DEF IdleTimeout, BeginEnd
  <1>5. CASE QueueTimeout(k)
    BY <1>5 DEF QueueTimeout, BeginEnd
  <1>6. CASE CancelQueued(k)
    BY <1>6 DEF CancelQueued, BeginEnd, ReleasePermit
  <1>7. CASE CancelRunning(k)
    BY <1>7 DEF CancelRunning, BeginEnd
  <1>8. CASE DeadProcessFound(k)
    BY <1>8 DEF DeadProcessFound, BeginEnd
  <1>. QED
    BY <1>1, <1>2, <1>3, <1>4, <1>5, <1>6, <1>7, <1>8 DEF Ending

LEMMA PersistingFrame ==
    ASSUME TypeOK, NEW k \in Jobs, Persisting(k)
    PROVE  \A j \in Jobs \ {k} : Same(j)
  <1> USE DEF TypeOK, StageTypes, FlagTypes, Same
  <1>1. CASE Persist(k)
    BY <1>1 DEF Persist, MayPersist, RecordComplete, ReleasePermit, JobInv, Permit
  <1>2. CASE PersistFails(k)
    BY <1>2 DEF PersistFails, MayPersist, ReleasePermit
  <1>3. CASE RetryTimer(k)
    BY <1>3 DEF RetryTimer
  <1>. QED
    BY <1>1, <1>2, <1>3 DEF Persisting

-----------------------------------------------------------------------------
(* Types.                                                                   *)

LEMMA LaunchStages ==
    ASSUME StageTypes, NEW k \in Jobs, Launch(k)
    PROVE  /\ status' \in [Jobs -> Results \cup {"none", "queued", "running"}]
           /\ slot' \in [Jobs -> {"none", "waiting", "held", "back"}]
           /\ launch' \in [Jobs -> {"none", "starting", "marking", "over"}]
  <1>1. status' \in [Jobs -> Results \cup {"none", "queued", "running"}]
    BY DEF Launch, StageTypes
  <1>2. slot' \in [Jobs -> {"none", "waiting", "held", "back"}]
    BY DEF Launch, StageTypes
  <1>3. launch' \in [Jobs -> {"none", "starting", "marking", "over"}]
    BY DEF Launch, StageTypes
  <1>. QED
    BY <1>1, <1>2, <1>3

LEMMA PermitFlag ==
    ASSUME wired \in [Jobs -> BOOLEAN], NEW k \in Jobs, Launch(k) \/ ReleasePermit(k)
    PROVE  wired' \in [Jobs -> BOOLEAN]
  <1>1. CASE Launch(k)
    BY <1>1 DEF Launch
  <1>2. CASE ReleasePermit(k)
    BY <1>2 DEF ReleasePermit
  <1>. QED
    BY <1>1, <1>2

LEMMA StartingStages ==
    ASSUME TypeOK, NEW k \in Jobs, JobInv(k), Starting(k)
    PROVE  StageTypes'
  <1> USE DEF TypeOK, StageTypes
  <1>1. CASE Start(k)
    BY <1>1 DEF Start
  <1>2. CASE RecordStartSucceeds(k)
    BY <1>2, LaunchStages DEF RecordStartSucceeds
  <1>3. CASE RecordStartFails(k)
    BY <1>3 DEF RecordStartFails
  <1>4. CASE ReleaseLaunch(k)
    BY <1>4, LaunchStages DEF ReleaseLaunch
  <1>5. CASE Grant(k)
    <2>1. CASE released[k]
      BY <1>5, <2>1, LaunchStages DEF Grant
    <2>2. CASE ~released[k]
      BY <1>5, <2>2 DEF Grant
    <2>. QED
      BY <2>1, <2>2
  <1>. QED
    BY <1>1, <1>2, <1>3, <1>4, <1>5 DEF Starting

LEMMA LaunchingStages ==
    ASSUME TypeOK, NEW k \in Jobs, JobInv(k), Launching(k)
    PROVE  StageTypes'
  <1> USE DEF TypeOK, StageTypes
  <1>1. CASE LaunchContinues(k)
    BY <1>1 DEF LaunchContinues
  <1>2. CASE SpawnFails(k)
    BY <1>2 DEF SpawnFails, BeginEnd
  <1>3. CASE MarkReturns(k)
    BY <1>3 DEF MarkReturns
  <1>. QED
    BY <1>1, <1>2, <1>3 DEF Launching

LEMMA EndingStages ==
    ASSUME TypeOK, NEW k \in Jobs, JobInv(k), Ending(k)
    PROVE  StageTypes'
  <1> USE DEF TypeOK, StageTypes
  <1>1. CASE ChildExits(k)
    BY <1>1 DEF ChildExits
  <1>2. CASE ChildCloses(k)
    <2>1. CASE launch[k] = "marking"
      BY <1>2, <2>1 DEF ChildCloses
    <2>2. CASE launch[k] = "over"
      <3>1. outcome[k] # "none"
        BY <1>2, <2>2 DEF ChildCloses, JobInv, Running
      <3>2. status' \in [Jobs -> Results \cup {"none", "queued", "running"}]
        BY <1>2, <2>2, <3>1 DEF ChildCloses, BeginEnd
      <3>. QED
        BY <1>2, <2>2, <3>2 DEF ChildCloses, BeginEnd
    <2>. QED
      BY <1>2, <2>1, <2>2 DEF ChildCloses
  <1>3. CASE RequestSettles(k)
    BY <1>3 DEF RequestSettles, BeginEnd
  <1>4. CASE IdleTimeout(k)
    BY <1>4 DEF IdleTimeout, BeginEnd
  <1>5. CASE QueueTimeout(k)
    <2>1. CASE status[k] = "queued"
      BY <1>5, <2>1 DEF QueueTimeout, BeginEnd
    <2>2. CASE status[k] # "queued"
      BY <1>5, <2>2 DEF QueueTimeout
    <2>. QED
      BY <2>1, <2>2
  <1>6. CASE CancelQueued(k)
    <2>1. CASE slot[k] = "waiting"
      BY <1>6, <2>1 DEF CancelQueued, BeginEnd
    <2>2. CASE slot[k] # "waiting"
      BY <1>6, <2>2 DEF ReleasePermit, CancelQueued, BeginEnd
    <2>. QED
      BY <2>1, <2>2
  <1>7. CASE CancelRunning(k)
    BY <1>7 DEF CancelRunning, BeginEnd
  <1>8. CASE DeadProcessFound(k)
    BY <1>8 DEF DeadProcessFound, BeginEnd
  <1>. QED
    BY <1>1, <1>2, <1>3, <1>4, <1>5, <1>6, <1>7, <1>8 DEF Ending

LEMMA PersistingStages ==
    ASSUME TypeOK, NEW k \in Jobs, JobInv(k), Persisting(k)
    PROVE  StageTypes'
  <1> USE DEF TypeOK, StageTypes
  <1>1. CASE Persist(k)
    <2>1. row' \in [Jobs -> Results \cup {"none", "queued", "running"}]
      BY <1>1 DEF Persist, RecordComplete
    <2>2. slot' \in [Jobs -> {"none", "waiting", "held", "back"}]
      BY <1>1 DEF ReleasePermit, Persist
    <2>3. pending' \in [Jobs -> Nat]
      BY <1>1 DEF MayPersist, Persist
    <2>. QED
      BY <1>1, <2>1, <2>2, <2>3 DEF Persist
  <1>2. CASE PersistFails(k)
    BY <1>2 DEF ReleasePermit, PersistFails, MayPersist
  <1>3. CASE RetryTimer(k)
    BY <1>3 DEF RetryTimer
  <1>. QED
    BY <1>1, <1>2, <1>3 DEF Persisting

-----------------------------------------------------------------------------
(* Flags.                                                                   *)

LEMMA StartingFlags ==
    ASSUME TypeOK, NEW k \in Jobs, JobInv(k), Starting(k)
    PROVE  FlagTypes'
  <1> USE DEF TypeOK, FlagTypes
  <1>1. CASE Start(k)
    BY <1>1 DEF Start
  <1>2. CASE RecordStartSucceeds(k)
    BY <1>2, PermitFlag DEF RecordStartSucceeds
  <1>3. CASE RecordStartFails(k)
    BY <1>3 DEF RecordStartFails
  <1>4. CASE ReleaseLaunch(k)
    BY <1>4, PermitFlag DEF ReleaseLaunch
  <1>5. CASE Grant(k)
    <2>1. CASE released[k]
      BY <1>5, <2>1, PermitFlag DEF Grant
    <2>2. CASE ~released[k]
      BY <1>5, <2>2 DEF Grant
    <2>. QED
      BY <2>1, <2>2
  <1>. QED
    BY <1>1, <1>2, <1>3, <1>4, <1>5 DEF Starting

LEMMA LaunchingFlags ==
    ASSUME TypeOK, NEW k \in Jobs, JobInv(k), Launching(k)
    PROVE  FlagTypes'
  <1> USE DEF TypeOK, FlagTypes
  <1>1. CASE LaunchContinues(k)
    BY <1>1 DEF LaunchContinues
  <1>2. CASE SpawnFails(k)
    BY <1>2 DEF SpawnFails, BeginEnd
  <1>3. CASE MarkReturns(k)
    BY <1>3 DEF MarkReturns
  <1>. QED
    BY <1>1, <1>2, <1>3 DEF Launching

LEMMA EndingFlags ==
    ASSUME TypeOK, NEW k \in Jobs, JobInv(k), Ending(k)
    PROVE  FlagTypes'
  <1> USE DEF TypeOK, FlagTypes
  <1>1. CASE ChildExits(k)
    BY <1>1 DEF ChildExits
  <1>2. CASE ChildCloses(k)
    <2>1. CASE launch[k] = "marking"
      BY <1>2, <2>1 DEF ChildCloses
    <2>2. CASE launch[k] = "over"
      BY <1>2, <2>2 DEF ChildCloses
    <2>. QED
      BY <1>2, <2>1, <2>2 DEF ChildCloses
  <1>3. CASE RequestSettles(k)
    BY <1>3 DEF RequestSettles, BeginEnd
  <1>4. CASE IdleTimeout(k)
    BY <1>4 DEF IdleTimeout, BeginEnd
  <1>5. CASE QueueTimeout(k)
    <2>1. CASE status[k] = "queued"
      BY <1>5, <2>1 DEF QueueTimeout, BeginEnd
    <2>2. CASE status[k] # "queued"
      BY <1>5, <2>2 DEF QueueTimeout
    <2>. QED
      BY <2>1, <2>2
  <1>6. CASE CancelQueued(k)
    <2>1. CASE slot[k] = "waiting"
      BY <1>6, <2>1 DEF CancelQueued, BeginEnd
    <2>2. CASE slot[k] # "waiting"
      BY <1>6, <2>2, PermitFlag DEF CancelQueued, BeginEnd
    <2>. QED
      BY <2>1, <2>2
  <1>7. CASE CancelRunning(k)
    BY <1>7 DEF CancelRunning, BeginEnd
  <1>8. CASE DeadProcessFound(k)
    BY <1>8 DEF DeadProcessFound, BeginEnd
  <1>. QED
    BY <1>1, <1>2, <1>3, <1>4, <1>5, <1>6, <1>7, <1>8 DEF Ending

LEMMA PersistingFlags ==
    ASSUME TypeOK, NEW k \in Jobs, JobInv(k), Persisting(k)
    PROVE  FlagTypes'
  <1> USE DEF TypeOK, FlagTypes
  <1>1. CASE Persist(k)
    BY <1>1, PermitFlag DEF Persist
  <1>2. CASE PersistFails(k)
    BY <1>2, PermitFlag DEF PersistFails, MayPersist
  <1>3. CASE RetryTimer(k)
    BY <1>3 DEF RetryTimer
  <1>. QED
    BY <1>1, <1>2, <1>3 DEF Persisting

-----------------------------------------------------------------------------
(* What the step does to its own job.                                       *)

LEMMA StartingJob ==
    ASSUME TypeOK, NEW k \in Jobs, JobInv(k), Starting(k)
    PROVE  JobInv(k)'
  <1> USE DEF TypeOK, StageTypes, FlagTypes, JobInv, Admission, Permit, Running
  <1>1. CASE Start(k)
    BY <1>1 DEF Start
  <1>2. CASE RecordStartSucceeds(k)
    BY <1>2 DEF RecordStartSucceeds, Launch
  <1>3. CASE RecordStartFails(k)
    BY <1>3 DEF RecordStartFails
  <1>4. CASE ReleaseLaunch(k)
    BY <1>4 DEF ReleaseLaunch, Launch
  <1>5. CASE Grant(k)
    <2>1. CASE released[k]
      BY <1>5, <2>1 DEF Grant, Launch
    <2>2. CASE ~released[k]
      BY <1>5, <2>2 DEF Grant
    <2>. QED
      BY <2>1, <2>2
  <1>. QED
    BY <1>1, <1>2, <1>3, <1>4, <1>5 DEF Starting

LEMMA LaunchingJob ==
    ASSUME TypeOK, NEW k \in Jobs, JobInv(k), Launching(k)
    PROVE  JobInv(k)'
  <1> USE DEF TypeOK, StageTypes, FlagTypes, JobInv, Admission, Permit, Running
  <1>1. CASE LaunchContinues(k)
    BY <1>1 DEF LaunchContinues
  <1>2. CASE SpawnFails(k)
    BY <1>2 DEF SpawnFails, BeginEnd
  <1>3. CASE MarkReturns(k)
    BY <1>3 DEF MarkReturns
  <1>. QED
    BY <1>1, <1>2, <1>3 DEF Launching

LEMMA EndingJob ==
    ASSUME TypeOK, NEW k \in Jobs, JobInv(k), Ending(k)
    PROVE  JobInv(k)'
  <1> USE DEF TypeOK, StageTypes, FlagTypes, JobInv, Admission, Permit, Running
  <1>1. CASE ChildExits(k)
    BY <1>1 DEF ChildExits
  <1>2. CASE ChildCloses(k)
    <2>1. CASE launch[k] = "marking"
      BY <1>2, <2>1 DEF ChildCloses
    <2>2. CASE launch[k] = "over" /\ status[k] # "running"
      BY <1>2, <2>2 DEF ChildCloses, BeginEnd
    <2>3. CASE launch[k] = "over" /\ status[k] = "running"
      BY <1>2, <2>3 DEF ChildCloses, BeginEnd
    <2>. QED
      BY <1>2, <2>1, <2>2, <2>3 DEF ChildCloses
  <1>3. CASE RequestSettles(k)
    BY <1>3 DEF RequestSettles, BeginEnd
  <1>4. CASE IdleTimeout(k)
    BY <1>4 DEF IdleTimeout, BeginEnd
  <1>5. CASE QueueTimeout(k)
    BY <1>5 DEF QueueTimeout, BeginEnd
  <1>6. CASE CancelQueued(k)
    BY <1>6 DEF CancelQueued, BeginEnd, ReleasePermit
  <1>7. CASE CancelRunning(k)
    BY <1>7 DEF CancelRunning, BeginEnd
  <1>8. CASE DeadProcessFound(k)
    BY <1>8 DEF DeadProcessFound, BeginEnd
  <1>. QED
    BY <1>1, <1>2, <1>3, <1>4, <1>5, <1>6, <1>7, <1>8 DEF Ending

LEMMA PersistingJob ==
    ASSUME TypeOK, NEW k \in Jobs, JobInv(k), Persisting(k)
    PROVE  JobInv(k)'
  <1> USE DEF TypeOK, StageTypes, FlagTypes, JobInv, Admission, Permit, Running
  <1>1. CASE Persist(k)
    BY <1>1 DEF Persist, MayPersist, RecordComplete, ReleasePermit
  <1>2. CASE PersistFails(k)
    BY <1>2 DEF PersistFails, MayPersist, ReleasePermit
  <1>3. CASE RetryTimer(k)
    BY <1>3 DEF RetryTimer
  <1>. QED
    BY <1>1, <1>2, <1>3 DEF Persisting

-----------------------------------------------------------------------------
(* No step exceeds the limit.                                               *)

\* The holders are a finite set, and a step adds at most one, if there is room.
LEMMA HoldersFinite == TypeOK => IsFiniteSet(Holders) /\ Cardinality(Holders) \in Nat
  <1>1. Holders \subseteq Jobs
    BY DEF Holders
  <1>. QED
    BY <1>1, JobsAssumption, FS_Subset, FS_CardinalityType

LEMMA NoNewHolder ==
    ASSUME TypeOK, PermitsWithinLimit, Holders' \subseteq Holders
    PROVE  PermitsWithinLimit'
  <1>1. Cardinality(Holders') <= Cardinality(Holders) /\ Cardinality(Holders') \in Nat
    BY HoldersFinite, FS_Subset, FS_CardinalityType
  <1>. QED
    BY <1>1, HoldersFinite, JobsAssumption DEF PermitsWithinLimit

LEMMA OneNewHolder ==
    ASSUME TypeOK, NEW k \in Jobs, Room, Holders' \subseteq Holders \cup {k}
    PROVE  PermitsWithinLimit'
  <1>1. /\ IsFiniteSet(Holders \cup {k})
        /\ Cardinality(Holders \cup {k}) <= Cardinality(Holders) + 1
        /\ Cardinality(Holders \cup {k}) \in Nat
    BY HoldersFinite, FS_AddElement, FS_CardinalityType
  <1>2. Cardinality(Holders') <= Cardinality(Holders \cup {k}) /\ Cardinality(Holders') \in Nat
    BY <1>1, FS_Subset, FS_CardinalityType
  <1>. QED
    BY <1>1, <1>2, HoldersFinite, JobsAssumption DEF PermitsWithinLimit, Room

LEMMA LimitKept ==
    ASSUME IInv, NEW k \in Jobs, Starting(k) \/ Launching(k) \/ Ending(k) \/ Persisting(k)
    PROVE  PermitsWithinLimit'
  <1>1. TypeOK /\ PermitsWithinLimit /\ JobInv(k)
    BY DEF IInv
  <1>2. \A j \in Jobs \ {k} : slot'[j] = slot[j]
    BY <1>1, StartingFrame, LaunchingFrame, EndingFrame, PersistingFrame DEF Same
  <1>3. CASE Room
    BY <1>1, <1>2, <1>3, OneNewHolder DEF Holders
  <1>4. CASE ~Room
    <2>1. slot'[k] = "held" => slot[k] = "held"
      <3> USE <1>1, <1>4 DEF TypeOK, StageTypes, FlagTypes, JobInv, Admission, Permit, Running
      <3>1. CASE Starting(k)
        <4>1. CASE Start(k)
          BY <4>1 DEF Start
        <4>2. CASE RecordStartSucceeds(k)
          BY <4>2 DEF RecordStartSucceeds, Launch
        <4>3. CASE RecordStartFails(k)
          BY <4>3 DEF RecordStartFails
        <4>4. CASE ReleaseLaunch(k)
          BY <4>4 DEF ReleaseLaunch, Launch
        <4>5. CASE Grant(k)
          BY <4>5 DEF Grant
        <4>. QED
          BY <3>1, <4>1, <4>2, <4>3, <4>4, <4>5 DEF Starting
      <3>2. CASE Launching(k)
        BY <3>2 DEF Launching, LaunchContinues, SpawnFails, MarkReturns
      <3>3. CASE Ending(k)
        <4>1. CASE QueueTimeout(k) \/ CancelQueued(k)
          BY <4>1 DEF QueueTimeout, CancelQueued, ReleasePermit
        <4>2. CASE ~(QueueTimeout(k) \/ CancelQueued(k))
          BY <3>3, <4>2 DEF Ending, ChildExits, ChildCloses, RequestSettles, IdleTimeout,
                            CancelRunning, DeadProcessFound
        <4>. QED
          BY <4>1, <4>2
      <3>4. CASE Persisting(k)
        BY <3>4 DEF Persisting, Persist, PersistFails, RetryTimer, ReleasePermit
      <3>. QED
        BY <3>1, <3>2, <3>3, <3>4
    <2>2. Holders' \subseteq Holders
      BY <1>2, <2>1 DEF Holders
    <2>. QED
      BY <1>1, <2>2, NoNewHolder
  <1>. QED
    BY <1>3, <1>4

-----------------------------------------------------------------------------
(* The invariant.                                                           *)

LEMMA NextIsAJobStep ==
    Next => PumpEnds \/ \E k \in Jobs : \/ Starting(k) \/ Launching(k)
                                        \/ Ending(k) \/ Persisting(k)
  BY DEF Next, Starting, Launching, Ending, Persisting

LEMMA SameKeepsJobInv ==
    ASSUME NEW j \in Jobs, JobInv(j), Same(j)
    PROVE  JobInv(j)'
  BY DEF Same, JobInv, Admission, Permit, Running

LEMMA InitInv == Init => IInv
  <1> SUFFICES ASSUME Init PROVE IInv
    OBVIOUS
  <1>1. TypeOK
    BY DEF Init, TypeOK, StageTypes, FlagTypes
  <1>2. PermitsWithinLimit
    <2>1. Holders = {}
      BY DEF Init, Holders
    <2>. QED
      BY <2>1, FS_EmptySet, JobsAssumption DEF PermitsWithinLimit
  <1>3. \A j \in Jobs : JobInv(j)
    BY DEF Init, JobInv, Admission, Permit, Running
  <1>. QED
    BY <1>1, <1>2, <1>3 DEF IInv

LEMMA JobStepInv ==
    ASSUME IInv, NEW k \in Jobs, Starting(k) \/ Launching(k) \/ Ending(k) \/ Persisting(k)
    PROVE  IInv'
  <1>1. TypeOK /\ JobInv(k)
    BY DEF IInv
  <1>2. StageTypes' /\ FlagTypes'
    BY <1>1, StartingStages, LaunchingStages, EndingStages, PersistingStages,
       StartingFlags, LaunchingFlags, EndingFlags, PersistingFlags
  <1>3. pumping' \in BOOLEAN
    <2>1. CASE Starting(k)
      BY <1>1, <2>1 DEF TypeOK, Starting, Start, RecordStartSucceeds, RecordStartFails,
                        ReleaseLaunch, Grant, Launch
    <2>2. CASE Launching(k)
      BY <1>1, <2>2 DEF TypeOK, Launching, LaunchContinues, SpawnFails, MarkReturns
    <2>3. CASE Ending(k)
      BY <1>1, <2>3 DEF TypeOK, Ending, ChildExits, ChildCloses, RequestSettles, IdleTimeout,
                        QueueTimeout, CancelQueued, CancelRunning, DeadProcessFound, ReleasePermit
    <2>4. CASE Persisting(k)
      BY <1>1, <2>4 DEF TypeOK, Persisting, Persist, PersistFails, RetryTimer, ReleasePermit
    <2>. QED
      BY <2>1, <2>2, <2>3, <2>4
  <1>4. JobInv(k)'
    BY <1>1, StartingJob, LaunchingJob, EndingJob, PersistingJob
  <1>5. ASSUME NEW j \in Jobs \ {k} PROVE JobInv(j)'
    <2>1. Same(j)
      BY <1>1, StartingFrame, LaunchingFrame, EndingFrame, PersistingFrame
    <2>. QED
      BY <2>1, SameKeepsJobInv DEF IInv
  <1>. QED
    BY <1>2, <1>3, <1>4, <1>5, LimitKept DEF IInv, TypeOK

LEMMA NextInv == IInv /\ [Next]_vars => IInv'
  <1> SUFFICES ASSUME IInv, [Next]_vars PROVE IInv'
    OBVIOUS
  <1>1. CASE PumpEnds
    <2>1. pumping' \in BOOLEAN
      BY <1>1 DEF PumpEnds
    <2>2. StageTypes' /\ FlagTypes'
      BY <1>1 DEF PumpEnds, IInv, TypeOK, StageTypes, FlagTypes
    <2>3. PermitsWithinLimit'
      BY <1>1 DEF PumpEnds, IInv, PermitsWithinLimit, Holders
    <2>4. ASSUME NEW j \in Jobs PROVE JobInv(j)'
      BY <1>1, SameKeepsJobInv DEF PumpEnds, IInv, Same
    <2>. QED
      BY <2>1, <2>2, <2>3, <2>4 DEF IInv, TypeOK
  <1>2. CASE UNCHANGED vars
    BY <1>2 DEF vars, IInv, TypeOK, StageTypes, FlagTypes, PermitsWithinLimit, Holders,
                JobInv, Admission, Permit, Running
  <1>. QED
    BY <1>1, <1>2, NextIsAJobStep, JobStepInv

THEOREM Invariance == SafetySpec => []IInv
  BY InitInv, NextInv, PTL DEF SafetySpec

\* The lifecycle's variables keep their types: the close handler, which writes the
\* result the child left, finds one.
THEOREM LifecycleTypes == SafetySpec => []TypeOK
  <1>1. IInv => TypeOK
    BY DEF IInv
  <1>. QED
    BY <1>1, Invariance, PTL

\* releaseJobPermit and grantOrHold: a running job holds a permit, and never more
\* than MaxRunning are held, however starts, grants, cancels and timers interleave.
THEOREM LimitRespected == SafetySpec => []RunningWithinLimit
  <1>1. IInv => RunningWithinLimit
    BY DEF IInv, RunningWithinLimit, JobInv, Permit
  <1>. QED
    BY <1>1, Invariance, PTL

\* fireOnComplete: no job that ended and has nothing under way keeps its permit.
THEOREM PermitsComeBack == SafetySpec => []PermitReturned
  <1>1. IInv => PermitReturned
    <2> SUFFICES ASSUME IInv, NEW j \in Jobs, Quiet(j), Ended(j)
                 PROVE  slot[j] \in {"none", "back"}
      BY DEF PermitReturned
    <2>1. TypeOK /\ JobInv(j)
      BY DEF IInv
    <2>2. slot[j] # "waiting" /\ slot[j] # "held"
      BY <2>1 DEF JobInv, Admission, Permit, Quiet
    <2>. QED
      BY <2>1, <2>2 DEF TypeOK, StageTypes
  <1>. QED
    BY <1>1, Invariance, PTL

\* cancelJob, the close handler, the timers and the settling request: none replaces
\* the result of a job that has one.
THEOREM ResultsAreFinal == SafetySpec => ResultFinal
  <1>1. ASSUME IInv, [Next]_vars PROVE [ResultFinalStep]_vars
    <2> SUFFICES ASSUME Next, NEW j \in Jobs, Ended(j) PROVE status'[j] = status[j]
      BY <1>1 DEF ResultFinalStep
    <2>1. TypeOK /\ \A k \in Jobs : JobInv(k)
      BY <1>1 DEF IInv
    <2>2. CASE PumpEnds
      BY <2>2 DEF PumpEnds
    <2>3. ASSUME NEW k \in Jobs, k # j, Starting(k) \/ Launching(k) \/ Ending(k) \/ Persisting(k)
          PROVE  status'[j] = status[j]
      BY <2>1, <2>3, StartingFrame, LaunchingFrame, EndingFrame, PersistingFrame DEF Same
    <2>4. CASE Starting(j)
      BY <2>1, <2>4 DEF Starting, Start, RecordStartSucceeds, RecordStartFails, ReleaseLaunch,
                        Grant, Launch, JobInv, Admission, TypeOK, StageTypes
    <2>5. CASE Launching(j)
      BY <2>1, <2>5, JobsAssumption DEF Launching, LaunchContinues, SpawnFails, MarkReturns, BeginEnd,
                        JobInv, Running, TypeOK, StageTypes
    <2>6. CASE Ending(j)
      <3> USE <2>1 DEF BeginEnd, TypeOK, StageTypes
      <3>1. CASE ChildCloses(j)
        <4>1. CASE launch[j] = "marking"
          BY <3>1, <4>1 DEF ChildCloses
        <4>2. CASE launch[j] # "marking"
          <5>1. status' = [status EXCEPT ![j] = status[j]]
            BY <3>1, <4>2 DEF ChildCloses
          <5>. QED
            BY <5>1
        <4>. QED
          BY <4>1, <4>2
      <3>2. CASE RequestSettles(j)
        BY <3>2 DEF RequestSettles
      <3>3. CASE QueueTimeout(j)
        BY <3>3 DEF QueueTimeout
      <3>4. CASE ChildExits(j) \/ IdleTimeout(j) \/ CancelQueued(j) \/ CancelRunning(j) \/ DeadProcessFound(j)
        BY <3>4 DEF ChildExits, IdleTimeout, CancelQueued, CancelRunning, DeadProcessFound
      <3>. QED
        BY <2>6, <3>1, <3>2, <3>3, <3>4 DEF Ending
    <2>7. CASE Persisting(j)
      BY <2>7 DEF Persisting, Persist, PersistFails, RetryTimer
    <2>. QED
      BY <2>2, <2>3, <2>4, <2>5, <2>6, <2>7, NextIsAJobStep
  <1>. QED
    BY <1>1, Invariance, PTL DEF SafetySpec, ResultFinal

-----------------------------------------------------------------------------
(* A serial store: a call that was made is answered before the next event.  *)

LEMMA NothingInFlight ==
    ASSUME ~Pooled, EventDelivered, TypeOK, NEW k \in Jobs
    PROVE  start[k] # "recording" /\ launch[k] \notin {"starting", "marking"} /\ pending[k] = 0
  BY DEF EventDelivered, StoreBusy, TypeOK, StageTypes

LEMMA SameKeepsDurable ==
    ASSUME NEW j \in Jobs, Durable(j), Same(j)
    PROVE  Durable(j)'
  BY DEF Same, Durable

LEMMA StartingDurable ==
    ASSUME ~Pooled, TypeOK, NEW k \in Jobs, JobInv(k), Durable(k), Starting(k)
    PROVE  Durable(k)'
  <1> USE DEF TypeOK, StageTypes, FlagTypes, Durable, JobInv, Admission, Permit, Running
  <1>1. CASE Start(k)
    BY <1>1 DEF Start
  <1>2. CASE RecordStartSucceeds(k)
    BY <1>2 DEF RecordStartSucceeds, Launch
  <1>3. CASE RecordStartFails(k)
    BY <1>3 DEF RecordStartFails
  <1>4. CASE ReleaseLaunch(k)
    BY <1>4 DEF ReleaseLaunch, Launch
  <1>5. CASE Grant(k)
    <2>1. CASE released[k]
      BY <1>5, <2>1 DEF Grant, Launch
    <2>2. CASE ~released[k]
      BY <1>5, <2>2 DEF Grant
    <2>. QED
      BY <2>1, <2>2
  <1>. QED
    BY <1>1, <1>2, <1>3, <1>4, <1>5 DEF Starting

LEMMA LaunchingDurable ==
    ASSUME ~Pooled, TypeOK, NEW k \in Jobs, JobInv(k), Durable(k), Launching(k)
    PROVE  Durable(k)'
  <1> USE DEF TypeOK, StageTypes, FlagTypes, Durable, JobInv, Admission, Permit, Running
  <1>1. CASE LaunchContinues(k)
    BY <1>1 DEF LaunchContinues
  <1>2. CASE SpawnFails(k)
    BY <1>2 DEF SpawnFails, BeginEnd
  <1>3. CASE MarkReturns(k)
    <2>1. CASE k \in ProcessJobs
      BY <1>3, <2>1, JobsAssumption DEF MarkReturns, MayMark
    <2>2. CASE k \in HttpJobs
      BY <1>3, <2>2, JobsAssumption DEF MarkReturns, MayMark
    <2>. QED
      BY <2>1, <2>2 DEF Jobs
  <1>. QED
    BY <1>1, <1>2, <1>3 DEF Launching

LEMMA EndingDurable ==
    ASSUME ~Pooled, TypeOK, NEW k \in Jobs, JobInv(k), Durable(k), Ending(k)
    PROVE  Durable(k)'
  <1> USE DEF TypeOK, StageTypes, FlagTypes, Durable, JobInv, Admission, Permit, Running
  <1>1. CASE ChildExits(k)
    BY <1>1, NothingInFlight DEF ChildExits
  <1>2. CASE ChildCloses(k)
    <2>1. launch[k] = "over"
      BY <1>2, NothingInFlight DEF ChildCloses
    <2>2. CASE status[k] # "running"
      BY <1>2, <2>1, <2>2, NothingInFlight DEF ChildCloses, BeginEnd
    <2>3. CASE status[k] = "running"
      BY <1>2, <2>1, <2>3, NothingInFlight DEF ChildCloses, BeginEnd
    <2>. QED
      BY <2>2, <2>3
  <1>3. CASE RequestSettles(k)
    BY <1>3, NothingInFlight DEF RequestSettles, BeginEnd
  <1>4. CASE IdleTimeout(k)
    BY <1>4 DEF IdleTimeout, BeginEnd
  <1>5. CASE QueueTimeout(k)
    BY <1>5 DEF QueueTimeout, BeginEnd
  <1>6. CASE CancelQueued(k)
    BY <1>6 DEF CancelQueued, BeginEnd, ReleasePermit
  <1>7. CASE CancelRunning(k)
    BY <1>7 DEF CancelRunning, BeginEnd
  <1>8. CASE DeadProcessFound(k)
    BY <1>8 DEF DeadProcessFound, BeginEnd
  <1>. QED
    BY <1>1, <1>2, <1>3, <1>4, <1>5, <1>6, <1>7, <1>8 DEF Ending

LEMMA PersistingDurable ==
    ASSUME ~Pooled, TypeOK, NEW k \in Jobs, JobInv(k), Durable(k), Persisting(k)
    PROVE  Durable(k)'
  <1> USE DEF TypeOK, StageTypes, FlagTypes, Durable, JobInv, Admission, Permit, Running
  <1>1. CASE Persist(k)
    <2>1. CASE persisted[k]
      BY <1>1, <2>1 DEF Persist, MayPersist
    <2>2. CASE ~persisted[k]
      BY <1>1, <2>2 DEF Persist, MayPersist, RecordComplete
    <2>. QED
      BY <2>1, <2>2
  <1>2. CASE PersistFails(k)
    BY <1>2 DEF PersistFails, MayPersist
  <1>3. CASE RetryTimer(k)
    BY <1>3 DEF RetryTimer
  <1>. QED
    BY <1>1, <1>2, <1>3 DEF Persisting

LEMMA DurableNext ==
    ASSUME ~Pooled, IInv, DurableInv, [Next]_vars
    PROVE  DurableInv'
  <1> SUFFICES ASSUME NEW j \in Jobs PROVE Durable(j)'
    BY DEF DurableInv
  <1>1. TypeOK /\ Durable(j) /\ \A k \in Jobs : JobInv(k)
    BY DEF IInv, DurableInv
  <1>2. CASE PumpEnds \/ UNCHANGED vars
    BY <1>1, <1>2 DEF PumpEnds, vars, Durable
  <1>3. CASE Starting(j) \/ Launching(j) \/ Ending(j) \/ Persisting(j)
    BY <1>1, <1>3, StartingDurable, LaunchingDurable, EndingDurable, PersistingDurable
  <1>4. ASSUME NEW k \in Jobs, k # j, Starting(k) \/ Launching(k) \/ Ending(k) \/ Persisting(k)
        PROVE  Durable(j)'
    BY <1>1, <1>4, StartingFrame, LaunchingFrame, EndingFrame, PersistingFrame, SameKeepsDurable
  <1>. QED
    BY <1>2, <1>3, <1>4, NextIsAJobStep

LEMMA DurableInvariance ==
    ASSUME ~Pooled
    PROVE  SafetySpec => []DurableInv
  <1>1. Init => DurableInv
    BY DEF Init, DurableInv, Durable
  <1>2. IInv /\ DurableInv /\ [Next]_vars => DurableInv'
    BY DurableNext
  <1>. QED
    BY <1>1, <1>2, Invariance, PTL DEF SafetySpec

\* launchProcessJob: with a serial store the handlers are attached before the child
\* can close.
THEOREM ClosesAreHandled ==
    ASSUME ~Pooled
    PROVE  SafetySpec => []CloseSeen
  <1>1. DurableInv => CloseSeen
    BY DEF DurableInv, Durable, CloseSeen, Jobs
  <1>. QED
    BY <1>1, DurableInvariance, PTL

\* persistCompleteBody and scheduleTerminalPersistenceRetry: with a serial store the
\* row of a job that is over shows its result, whatever writes failed on the way.
THEOREM RowsSettle ==
    ASSUME ~Pooled
    PROVE  SafetySpec => []RowSettled
  <1>1. IInv /\ DurableInv => RowSettled
    <2> SUFFICES ASSUME IInv, DurableInv, NEW j \in Jobs,
                        Quiet(j), Ended(j), start[j] = "done"
                 PROVE  row[j] = status[j]
      BY DEF RowSettled
    <2>1. Durable(j)
      BY DEF DurableInv
    <2>2. closeSeen[j]
      BY <2>1 DEF Durable, Quiet
    <2>. QED
      BY <2>1, <2>2 DEF Durable, Quiet
  <1>. QED
    BY <1>1, Invariance, DurableInvariance, PTL
=============================================================================
