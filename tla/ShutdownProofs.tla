--------------------------- MODULE ShutdownProofs ---------------------------
(***************************************************************************)
(* Proofs about Shutdown, for any set of jobs.                             *)
(***************************************************************************)
EXTENDS Shutdown, TLAPS

-----------------------------------------------------------------------------
(* The inductive invariant.                                                 *)

\* How far a job is, in the three places that know.
Stages(j) ==
    /\ start[j] \in {"none", "calling"} => status[j] = "none"
    /\ start[j] \in {"recording", "done"} => status[j] # "none"
    /\ status[j] \in {"none", "queued"} => launch[j] = "none"
    /\ status[j] = "running" => launch[j] # "none"
    /\ launch[j] = "none" => child[j] = "none"
    /\ launch[j] = "starting" => child[j] = "none" /\ status[j] = "running"

\* A living child belongs to a job that runs or was signalled when it was ended,
\* and a job that ended without its close has a child.
Children(j) ==
    /\ closeSeen[j] => Ended(j) /\ child[j] # "alive"
    /\ child[j] = "alive" /\ Ended(j) => killing[j]
    /\ Ended(j) /\ ~closeSeen[j] => child[j] # "none"

Rows(j) ==
    /\ row[j] # "none" => start[j] = "done"
    /\ captured[j] => row[j] = "closed"

\* What dispose() has made sure of.
Shut(j) ==
    /\ phase \in {"draining", "deregistering", "returned"} /\ Tracked(j) /\ child[j] = "alive" =>
         killing[j]
    /\ dereg # "none" /\ Tracked(j) => child[j] # "alive" /\ status[j] # "running"

JobInv(j) == Stages(j) /\ Children(j) /\ Rows(j) /\ Shut(j)

IInv ==
    /\ TypeOK
    /\ AdmissionStaysClosed
    /\ dereg # "none" => phase \in {"deregistering", "returned"}
    /\ \A j \in Jobs : JobInv(j)

\* With a serial store nothing straddles the beginning of dispose().
Quiet ==
    Disposed =>
        /\ \A t \in Threads : thread[t] = "idle"
        /\ \A j \in Jobs : start[j] \notin {"calling", "recording"}

SerialInv ==
    /\ Quiet
    /\ dereg # "none" => \A j \in Jobs : row[j] # "open"
    /\ DeregistrationIsFinal

-----------------------------------------------------------------------------
(* Types.                                                                   *)

USE DEF disposeVars, leaseVars, runVars, memVars, writeVars, doneVars, jobVars, Disposed, Ended,
        Tracked, Threads

LEMMA LeaseTypes ==
    ASSUME TypeOK, Lease
    PROVE  TypeOK'
  <1> USE DEF TypeOK
  <1>1. CASE TickBegins
    BY <1>1 DEF TickBegins
  <1>2. CASE BeatReturns
    BY <1>2 DEF BeatReturns, AfterBeat
  <1>3. CASE RepairReturns
    BY <1>3 DEF RepairReturns, AfterBeat
  <1>4. CASE TickFails
    BY <1>4 DEF TickFails
  <1>5. CASE OthersCollect
    BY <1>5 DEF OthersCollect
  <1>6. ASSUME NEW t \in Threads, RegisterReturns(t)
        PROVE  TypeOK'
    BY <1>6 DEF RegisterReturns
  <1>7. ASSUME NEW t \in Threads, ConfirmReturns(t)
        PROVE  TypeOK'
    BY <1>7 DEF ConfirmReturns
  <1>8. ASSUME NEW t \in Threads, RestoreFails(t)
        PROVE  TypeOK'
    BY <1>8 DEF RestoreFails
  <1>. QED
    BY <1>1, <1>2, <1>3, <1>4, <1>5, <1>6, <1>7, <1>8 DEF Lease

EndTypes ==
    /\ status \in [Jobs -> {"none", "queued", "running", "ended"}]
    /\ closeSeen \in [Jobs -> BOOLEAN]
    /\ pending \in [Jobs -> Nat]

LEMMA EndClosedTypes ==
    ASSUME TypeOK, NEW k \in Jobs, EndClosed(k)
    PROVE  EndTypes'
  BY DEF TypeOK, EndClosed, EndTypes

LEMMA JobTypes ==
    ASSUME TypeOK, NEW k \in Jobs, Job(k)
    PROVE  TypeOK'
  <1> USE DEF TypeOK
  <1>1. CASE StartCall(k)
    BY <1>1 DEF StartCall
  <1>2. CASE LookupReturns(k)
    BY <1>2 DEF LookupReturns
  <1>3. CASE RecordReturns(k)
    BY <1>3 DEF RecordReturns
  <1>4. CASE StartRefused(k)
    BY <1>4 DEF StartRefused
  <1>5. CASE Launch(k)
    <2>1. EndTypes'
      <3>1. CASE Disposed
        BY <1>5, <3>1, EndClosedTypes DEF Launch
      <3>2. CASE ~Disposed
        BY <1>5, <3>2 DEF Launch, EndTypes
      <3>. QED
        BY <3>1, <3>2
    <2>2. launch' \in [Jobs -> {"none", "starting", "marking", "over"}]
      BY <1>5 DEF Launch
    <2>. QED
      BY <1>5, <2>1, <2>2 DEF Launch, EndTypes
  <1>6. CASE LaunchContinues(k)
    <2>1. EndTypes'
      <3>1. CASE Spawn(k)
        BY <3>1 DEF Spawn, EndTypes
      <3>2. CASE EndClosed(k)
        BY <3>2, EndClosedTypes
      <3>. QED
        BY <1>6, <3>1, <3>2 DEF LaunchContinues
    <2>2. /\ launch' \in [Jobs -> {"none", "starting", "marking", "over"}]
          /\ child' \in [Jobs -> {"none", "alive", "closed"}]
      BY <1>6 DEF LaunchContinues, Spawn
    <2>. QED
      BY <1>6, <2>1, <2>2 DEF LaunchContinues, EndTypes
  <1>7. CASE MarkReturns(k)
    BY <1>7 DEF MarkReturns
  <1>8. CASE StopQueued(k)
    BY <1>8 DEF StopQueued, EndClosed
  <1>9. CASE StopRunning(k)
    BY <1>9 DEF StopRunning
  <1>10. CASE ChildCloses(k)
    <2>1. EndTypes'
      <3>1. CASE launch[k] = "over"
        BY <1>10, <3>1, EndClosedTypes DEF ChildCloses
      <3>2. CASE launch[k] # "over"
        BY <1>10, <3>2 DEF ChildCloses, EndTypes
      <3>. QED
        BY <3>1, <3>2
    <2>. QED
      BY <1>10, <2>1 DEF ChildCloses, EndTypes
  <1>11. CASE DeadProcessFound(k)
    BY <1>11 DEF DeadProcessFound
  <1>12. CASE Persist(k)
    BY <1>12 DEF Persist, MayPersist
  <1>13. CASE PersistFails(k)
    BY <1>13 DEF PersistFails, MayPersist
  <1>14. CASE RetryTimer(k)
    BY <1>14 DEF RetryTimer
  <1>. QED
    BY <1>1, <1>2, <1>3, <1>4, <1>5, <1>6, <1>7, <1>8, <1>9, <1>10, <1>11, <1>12, <1>13,
       <1>14 DEF Job

LEMMA DisposeTypes ==
    ASSUME TypeOK, Dispose
    PROVE  TypeOK'
  <1> USE DEF TypeOK
  <1>1. CASE DisposeBegins
    <2>1. status' \in [Jobs -> {"none", "queued", "running", "ended"}]
      BY <1>1 DEF DisposeBegins
    <2>2. closeSeen' \in [Jobs -> BOOLEAN]
      BY <1>1 DEF DisposeBegins
    <2>3. pending' \in [Jobs -> Nat]
      BY <1>1 DEF DisposeBegins, WriteAgain
    <2>. QED
      BY <1>1, <2>1, <2>2, <2>3 DEF DisposeBegins
  <1>2. CASE QueuedWorkEnds
    BY <1>2 DEF QueuedWorkEnds, WriteAgain
  <1>3. CASE SignalRunning
    BY <1>3 DEF SignalRunning
  <1>4. CASE DrainEnds
    BY <1>4 DEF DrainEnds
  <1>5. CASE GiveUp
    BY <1>5 DEF GiveUp
  <1>6. CASE DeregisterReturns
    BY <1>6 DEF DeregisterReturns
  <1>7. CASE DisposeReturns
    BY <1>7 DEF DisposeReturns
  <1>8. CASE DeadlinePasses
    BY <1>8 DEF DeadlinePasses
  <1>. QED
    BY <1>1, <1>2, <1>3, <1>4, <1>5, <1>6, <1>7, <1>8 DEF Dispose

-----------------------------------------------------------------------------
(* A step of one job leaves the others alone, and dispose() and the lease.   *)

Same(j) ==
    /\ start'[j] = start[j] /\ launch'[j] = launch[j] /\ status'[j] = status[j]
    /\ child'[j] = child[j] /\ killing'[j] = killing[j] /\ closeSeen'[j] = closeSeen[j]
    /\ captured'[j] = captured[j] /\ row'[j] = row[j]

LEMMA EndClosedFrame ==
    ASSUME TypeOK, NEW k \in Jobs, EndClosed(k), NEW j \in Jobs \ {k}
    PROVE  status'[j] = status[j] /\ closeSeen'[j] = closeSeen[j]
  BY DEF TypeOK, EndClosed

LEMMA JobFrame ==
    ASSUME TypeOK, NEW k \in Jobs, Job(k)
    PROVE  (\A j \in Jobs \ {k} : Same(j)) /\ UNCHANGED <<disposeVars, leaseVars>>
  <1> USE DEF TypeOK, Same
  <1>1. CASE StartCall(k)
    BY <1>1 DEF StartCall
  <1>2. CASE LookupReturns(k)
    BY <1>2 DEF LookupReturns
  <1>3. CASE RecordReturns(k)
    BY <1>3 DEF RecordReturns
  <1>4. CASE StartRefused(k)
    BY <1>4 DEF StartRefused
  <1>5. CASE Launch(k)
    <2>1. CASE Disposed
      BY <1>5, <2>1, EndClosedFrame DEF Launch
    <2>2. CASE ~Disposed
      BY <1>5, <2>2 DEF Launch
    <2>. QED
      BY <2>1, <2>2
  <1>6. CASE LaunchContinues(k)
    <2>1. CASE Spawn(k)
      BY <1>6, <2>1 DEF LaunchContinues, Spawn
    <2>2. CASE EndClosed(k) /\ launch' = [launch EXCEPT ![k] = "over"] /\ UNCHANGED child
      BY <1>6, <2>2, EndClosedFrame DEF LaunchContinues
    <2>. QED
      BY <1>6, <2>1, <2>2 DEF LaunchContinues
  <1>7. CASE MarkReturns(k)
    BY <1>7 DEF MarkReturns
  <1>8. CASE StopQueued(k)
    BY <1>8, EndClosedFrame DEF StopQueued
  <1>9. CASE StopRunning(k)
    BY <1>9 DEF StopRunning
  <1>10. CASE ChildCloses(k)
    <2>1. CASE launch[k] = "over"
      BY <1>10, <2>1, EndClosedFrame DEF ChildCloses
    <2>2. CASE launch[k] # "over"
      BY <1>10, <2>2 DEF ChildCloses
    <2>. QED
      BY <2>1, <2>2
  <1>11. CASE DeadProcessFound(k)
    BY <1>11 DEF DeadProcessFound
  <1>12. CASE Persist(k)
    BY <1>12 DEF Persist
  <1>13. CASE PersistFails(k)
    BY <1>13 DEF PersistFails
  <1>14. CASE RetryTimer(k)
    BY <1>14 DEF RetryTimer
  <1>. QED
    BY <1>1, <1>2, <1>3, <1>4, <1>5, <1>6, <1>7, <1>8, <1>9, <1>10, <1>11, <1>12, <1>13,
       <1>14 DEF Job

-----------------------------------------------------------------------------
(* The step of a job keeps its own invariant.                               *)

LEMMA JobOwn ==
    ASSUME IInv, NEW k \in Jobs, Job(k)
    PROVE  JobInv(k)'
  <1> JobInv(k) /\ TypeOK
    BY DEF IInv
  <1> USE DEF TypeOK, JobInv, Stages, Children, Rows, Shut
  <1>1. CASE StartCall(k)
    BY <1>1 DEF StartCall
  <1>2. CASE LookupReturns(k)
    BY <1>2 DEF LookupReturns
  <1>3. CASE RecordReturns(k)
    BY <1>3 DEF RecordReturns
  <1>4. CASE StartRefused(k)
    BY <1>4 DEF StartRefused
  <1>5. CASE Launch(k)
    <2>1. CASE Disposed
      BY <1>5, <2>1 DEF Launch, EndClosed
    <2>2. CASE ~Disposed
      BY <1>5, <2>2 DEF Launch, IInv
    <2>. QED
      BY <2>1, <2>2
  <1>6. CASE LaunchContinues(k)
    <2>1. CASE Spawn(k) /\ ~Disposed
      <3>1. dereg = "none" /\ status[k] = "running"
        BY <1>6, <2>1 DEF IInv, LaunchContinues
      <3>2. ~closeSeen[k]
        BY <3>1
      <3>. QED
        BY <1>6, <2>1, <3>1, <3>2 DEF LaunchContinues, Spawn
    <2>2. CASE EndClosed(k) /\ launch' = [launch EXCEPT ![k] = "over"] /\ UNCHANGED child
      BY <1>6, <2>2 DEF LaunchContinues, EndClosed
    <2>. QED
      BY <1>6, <2>1, <2>2 DEF LaunchContinues
  <1>7. CASE MarkReturns(k)
    BY <1>7 DEF MarkReturns
  <1>8. CASE StopQueued(k)
    BY <1>8 DEF StopQueued, EndClosed
  <1>9. CASE StopRunning(k)
    BY <1>9 DEF StopRunning
  <1>10. CASE ChildCloses(k)
    <2>1. CASE launch[k] = "over"
      BY <1>10, <2>1 DEF ChildCloses, EndClosed
    <2>2. CASE launch[k] # "over"
      BY <1>10, <2>2 DEF ChildCloses
    <2>. QED
      BY <2>1, <2>2
  <1>11. CASE DeadProcessFound(k)
    BY <1>11 DEF DeadProcessFound
  <1>12. CASE Persist(k)
    BY <1>12 DEF Persist
  <1>13. CASE PersistFails(k)
    BY <1>13 DEF PersistFails
  <1>14. CASE RetryTimer(k)
    BY <1>14 DEF RetryTimer
  <1>. QED
    BY <1>1, <1>2, <1>3, <1>4, <1>5, <1>6, <1>7, <1>8, <1>9, <1>10, <1>11, <1>12, <1>13,
       <1>14 DEF Job

-----------------------------------------------------------------------------
(* Steps of the lease and of dispose().                                     *)

LEMMA Kept ==
    ASSUME NEW j \in Jobs, JobInv(j), Same(j), UNCHANGED <<phase, dereg>>
    PROVE  JobInv(j)'
  BY DEF JobInv, Stages, Children, Rows, Shut, Same

LEMMA LeaseNext ==
    ASSUME IInv, Lease
    PROVE  /\ UNCHANGED <<disposeVars, jobVars>>
           /\ AdmissionStaysClosed'
  <1> USE DEF AdmissionStaysClosed
  <1> AdmissionStaysClosed /\ admission \in BOOLEAN
    BY DEF IInv, TypeOK
  <1>1. CASE TickBegins
    BY <1>1 DEF TickBegins
  <1>2. CASE BeatReturns
    BY <1>2 DEF BeatReturns
  <1>3. CASE RepairReturns
    BY <1>3 DEF RepairReturns
  <1>4. CASE TickFails
    <2>1. admission' = admission \/ admission' = FALSE
      BY <1>4 DEF TickFails
    <2>2. CASE admission' = admission
      BY <1>4, <2>2 DEF TickFails
    <2>3. CASE admission' = FALSE
      BY <1>4, <2>3 DEF TickFails
    <2>. QED
      BY <2>1, <2>2, <2>3
  <1>5. CASE OthersCollect
    BY <1>5 DEF OthersCollect
  <1>6. ASSUME NEW t \in Threads, RegisterReturns(t)
        PROVE  UNCHANGED <<disposeVars, admission, jobVars>>
    BY <1>6 DEF RegisterReturns
  <1>7. ASSUME NEW t \in Threads, ConfirmReturns(t)
        PROVE  UNCHANGED <<disposeVars, jobVars>> /\ AdmissionStaysClosed'
    BY <1>7 DEF ConfirmReturns
  <1>8. ASSUME NEW t \in Threads, RestoreFails(t)
        PROVE  UNCHANGED <<disposeVars, jobVars>> /\ AdmissionStaysClosed'
    BY <1>8 DEF RestoreFails
  <1>. QED
    BY <1>1, <1>2, <1>3, <1>4, <1>5, <1>6, <1>7, <1>8 DEF Lease

LEMMA DisposeBeginsNext ==
    ASSUME IInv, DisposeBegins, NEW j \in Jobs
    PROVE  JobInv(j)'
  <1>1. TypeOK /\ JobInv(j) /\ dereg = "none" /\ phase' = "ending" /\ dereg' = dereg
    BY DEF IInv, DisposeBegins
  <1>2. UNCHANGED <<start, launch, child, killing, captured, row>>
    BY DEF DisposeBegins
  <1>3. CASE j \in awaited'
    <2>1. status[j] = "queued" /\ status'[j] = "ended" /\ closeSeen'[j]
      BY <1>3 DEF DisposeBegins
    <2>. QED
      BY <1>1, <1>2, <2>1 DEF JobInv, Stages, Children, Rows, Shut
  <1>4. CASE j \notin awaited'
    <2>1. status'[j] = status[j] /\ closeSeen'[j] = closeSeen[j]
      BY <1>1, <1>4 DEF DisposeBegins, TypeOK
    <2>. QED
      BY <1>1, <1>2, <2>1 DEF JobInv, Stages, Children, Rows, Shut
  <1>. QED
    BY <1>3, <1>4

LEMMA SignalRunningNext ==
    ASSUME IInv, SignalRunning, NEW j \in Jobs
    PROVE  JobInv(j)'
  <1>1. TypeOK /\ JobInv(j) /\ phase' = "draining" /\ dereg = "none" /\ dereg' = dereg
    BY DEF IInv, SignalRunning, TypeOK
  <1>2. UNCHANGED <<start, launch, child, status, closeSeen, captured, row>>
    BY DEF SignalRunning
  <1>3. /\ killing[j] => killing'[j]
        /\ Tracked(j) /\ status[j] = "running" /\ child[j] # "none" => killing'[j]
    BY DEF SignalRunning
  <1>4. child[j] = "alive" => status[j] \in {"running", "ended"}
    BY <1>1 DEF JobInv, Stages, TypeOK
  <1>. QED
    BY <1>1, <1>2, <1>3, <1>4 DEF JobInv, Stages, Children, Rows, Shut

LEMMA DrainEndsNext ==
    ASSUME IInv, DrainEnds, NEW j \in Jobs
    PROVE  JobInv(j)'
  <1>1. JobInv(j) /\ phase = "draining" /\ phase' = "deregistering" /\ UNCHANGED jobVars
    BY DEF IInv, DrainEnds
  <1>2. Tracked(j) => status[j] # "running" /\ (child[j] # "none" => closeSeen[j])
    BY DEF DrainEnds, Idle
  <1>. QED
    BY <1>1, <1>2 DEF JobInv, Stages, Children, Rows, Shut

LEMMA DisposeNext ==
    ASSUME IInv, Dispose
    PROVE  /\ AdmissionStaysClosed'
           /\ (dereg # "none" => phase \in {"deregistering", "returned"})'
           /\ \A j \in Jobs : JobInv(j)'
  <1> USE DEF AdmissionStaysClosed
  <1>0. /\ TypeOK /\ AdmissionStaysClosed /\ (\A j \in Jobs : JobInv(j))
        /\ dereg # "none" => phase \in {"deregistering", "returned"}
    BY DEF IInv
  <1>1. CASE DisposeBegins
    BY <1>0, <1>1, DisposeBeginsNext DEF DisposeBegins
  <1>2. CASE QueuedWorkEnds
    <2>1. UNCHANGED <<dereg, admission, start, launch, child, killing, status, closeSeen,
                      captured, row>>
      BY <1>2 DEF QueuedWorkEnds
    <2>2. phase = "ending" /\ phase' = "retrying" /\ dereg = "none"
      BY <1>0, <1>2 DEF QueuedWorkEnds
    <2>. QED
      BY <1>0, <2>1, <2>2 DEF JobInv, Stages, Children, Rows, Shut
  <1>3. CASE SignalRunning
    BY <1>0, <1>3, SignalRunningNext DEF SignalRunning
  <1>4. CASE DrainEnds
    BY <1>0, <1>4, DrainEndsNext DEF DrainEnds
  <1>5. CASE GiveUp
    BY <1>0, <1>5 DEF GiveUp, JobInv, Stages, Children, Rows, Shut
  <1>6. CASE DeregisterReturns
    BY <1>0, <1>6 DEF DeregisterReturns, JobInv, Stages, Children, Rows, Shut
  <1>7. CASE DisposeReturns
    BY <1>0, <1>7 DEF DisposeReturns, JobInv, Stages, Children, Rows, Shut
  <1>8. CASE DeadlinePasses
    BY <1>0, <1>8 DEF DeadlinePasses, JobInv, Stages, Children, Rows, Shut
  <1>. QED
    BY <1>1, <1>2, <1>3, <1>4, <1>5, <1>6, <1>7, <1>8 DEF Dispose

LEMMA IInvNext == IInv /\ [Next]_vars => IInv'
  <1> SUFFICES ASSUME IInv, [Next]_vars PROVE IInv'
    OBVIOUS
  <1>0. TypeOK /\ \A j \in Jobs : JobInv(j)
    BY DEF IInv
  <1>1. CASE Lease
    <2>1. UNCHANGED <<phase, dereg>> /\ \A j \in Jobs : Same(j)
      BY <1>1, LeaseNext DEF Same
    <2>. QED
      BY <1>0, <1>1, <2>1, LeaseNext, LeaseTypes, Kept DEF IInv
  <1>2. CASE Dispose
    BY <1>0, <1>2, DisposeNext, DisposeTypes DEF IInv
  <1>3. ASSUME NEW k \in Jobs, Job(k)
        PROVE  IInv'
    <2>1. (\A j \in Jobs \ {k} : Same(j)) /\ UNCHANGED <<phase, dereg, admission>>
      BY <1>0, <1>3, JobFrame
    <2>2. \A j \in Jobs : JobInv(j)'
      BY <1>0, <1>3, <2>1, Kept, JobOwn
    <2>. QED
      BY <1>0, <1>3, <2>1, <2>2, JobTypes DEF IInv, AdmissionStaysClosed
  <1>4. CASE UNCHANGED vars
    <2>1. \A j \in Jobs : JobInv(j)'
      BY <1>0, <1>4 DEF vars, JobInv, Stages, Children, Rows, Shut
    <2>2. TypeOK'
      BY <1>0, <1>4 DEF vars, TypeOK
    <2>. QED
      BY <1>4, <2>1, <2>2 DEF vars, IInv, AdmissionStaysClosed
  <1>. QED
    BY <1>1, <1>2, <1>3, <1>4 DEF Next

LEMMA Invariance == SafetySpec => []IInv
  <1>1. Init => IInv
    <2> SUFFICES ASSUME Init PROVE IInv
      OBVIOUS
    <2>1. TypeOK
      BY DEF Init, TypeOK
    <2>2. \A j \in Jobs : JobInv(j)
      BY DEF Init, JobInv, Stages, Children, Rows, Shut
    <2>. QED
      BY <2>1, <2>2 DEF Init, IInv, AdmissionStaysClosed
  <1>. QED
    BY <1>1, IInvNext, PTL DEF SafetySpec

-----------------------------------------------------------------------------
(* What holds with any store.                                               *)

\* Every variable keeps its type: no handler loses count of the terminal writes.
THEOREM TypeCorrect == SafetySpec => []TypeOK
  <1>1. IInv => TypeOK
    BY DEF IInv
  <1>. QED
    BY <1>1, Invariance, PTL

\* restoreDurableAdmission: no recovery in flight reopens admission after dispose().
THEOREM AdmissionClosed == SafetySpec => []AdmissionStaysClosed
  <1>1. IInv => AdmissionStaysClosed
    BY DEF IInv
  <1>. QED
    BY <1>1, Invariance, PTL

\* launchProcessJob and dispose(): no child escapes the pass that signals.
THEOREM AllSignalled == SafetySpec => []ChildrenSignalled
  <1>1. IInv => ChildrenSignalled
    BY DEF IInv, JobInv, Shut, ChildrenSignalled
  <1>. QED
    BY <1>1, Invariance, PTL

\* dispose() deregisters when every child is dead, and none is born later.
THEOREM DeregisteredIsChildless == SafetySpec => []NoChildAfterDeregistration
  <1>1. IInv => NoChildAfterDeregistration
    BY DEF IInv, JobInv, Shut, NoChildAfterDeregistration
  <1>. QED
    BY <1>1, Invariance, PTL

-----------------------------------------------------------------------------
(* What holds with a serial store.                                          *)

LEMMA LeaseSerial ==
    ASSUME ~Pooled, IInv, SerialInv, Lease
    PROVE  SerialInv'
  <1>1. UNCHANGED <<phase, dereg, start, row>> /\ (dereg # "none" => Disposed)
    BY LeaseNext DEF IInv
  <1>2. CASE Disposed
    <2>1. \A t \in Threads : thread[t] = "idle"
      BY <1>2 DEF SerialInv, Quiet
    <2>2. OthersCollect
      BY <1>2, <2>1 DEF Lease, TickBegins, BeatReturns, RepairReturns, TickFails,
         RegisterReturns, ConfirmReturns, RestoreFails
    <2>. QED
      BY <1>1, <2>2 DEF OthersCollect, SerialInv, Quiet, DeregistrationIsFinal
  <1>3. CASE ~Disposed
    BY <1>1, <1>3 DEF SerialInv, Quiet, DeregistrationIsFinal
  <1>. QED
    BY <1>2, <1>3

\* While dispose() runs no start call is under way, and only its record opens a row.
LEMMA JobSerial ==
    ASSUME ~Pooled, IInv, SerialInv, NEW k \in Jobs, Job(k)
    PROVE  SerialInv'
  <1>1. UNCHANGED <<phase, dereg, inst, thread>> /\ (dereg # "none" => Disposed) /\ TypeOK
    BY JobFrame DEF IInv
  <1>2. CASE Disposed
    <2>1. start[k] \notin {"calling", "recording"}
      BY <1>2 DEF SerialInv, Quiet
    <2>2. start' = start
      BY <1>2, <2>1 DEF Job, StartCall, LookupReturns, RecordReturns, StartRefused, Launch,
         LaunchContinues, MarkReturns, StopQueued, StopRunning, ChildCloses, DeadProcessFound,
         Persist, PersistFails, RetryTimer
    <2>3. row'[k] = "open" => row[k] = "open"
      BY <1>1, <1>2, <2>1 DEF Job, StartCall, LookupReturns, RecordReturns, StartRefused, Launch,
         LaunchContinues, MarkReturns, StopQueued, StopRunning, ChildCloses, DeadProcessFound,
         Persist, PersistFails, RetryTimer, TypeOK
    <2>4. \A j \in Jobs \ {k} : row'[j] = row[j]
      BY <1>1, JobFrame DEF Same
    <2>. QED
      BY <1>1, <2>2, <2>3, <2>4 DEF SerialInv, Quiet, DeregistrationIsFinal
  <1>3. CASE ~Disposed
    BY <1>1, <1>3 DEF SerialInv, Quiet, DeregistrationIsFinal
  <1>. QED
    BY <1>2, <1>3

\* dispose() begins when nothing is in flight, and deregisters when every row of
\* a job it knows has its capture, which only a closed row takes.
LEMMA DisposeSerial ==
    ASSUME ~Pooled, IInv, SerialInv, Dispose
    PROVE  SerialInv'
  <1>1. CASE DisposeBegins
    <2>1. ~StoreBusy /\ dereg = "none" /\ UNCHANGED <<dereg, thread, start>>
      BY <1>1 DEF DisposeBegins, EventDelivered, IInv
    <2>. QED
      BY <2>1 DEF StoreBusy, SerialInv, Quiet, DeregistrationIsFinal
  <1>2. CASE DrainEnds
    <2>1. UNCHANGED <<thread, start, row>> /\ phase = "draining" /\ dereg' = "sent"
      BY <1>2 DEF DrainEnds
    <2>2. \A j \in Jobs : row[j] # "open"
      <3> SUFFICES ASSUME NEW j \in Jobs, row[j] = "open" PROVE FALSE
        OBVIOUS
      <3>1. JobInv(j) /\ TypeOK
        BY DEF IInv
      <3>2. start[j] = "done" /\ status[j] # "none" /\ ~captured[j]
        BY <3>1 DEF JobInv, Stages, Rows
      <3>3. status[j] \notin {"queued", "running"} /\ (child[j] # "none" => closeSeen[j])
            /\ ~CapturePending(j)
        BY <1>2, <3>2 DEF DrainEnds, Idle
      <3>4. status[j] = "ended"
        BY <3>1, <3>2, <3>3 DEF TypeOK
      <3>. QED
        BY <3>1, <3>2, <3>3, <3>4 DEF CapturePending, JobInv, Children
    <2>. QED
      BY <2>1, <2>2 DEF SerialInv, Quiet, DeregistrationIsFinal
  <1>3. CASE DeregisterReturns
    BY <1>3 DEF DeregisterReturns, SerialInv, Quiet, DeregistrationIsFinal
  <1>4. CASE QueuedWorkEnds \/ SignalRunning \/ GiveUp \/ DisposeReturns \/ DeadlinePasses
    <2>1. UNCHANGED <<dereg, inst, thread, start, row>> /\ Disposed
      BY <1>4 DEF QueuedWorkEnds, SignalRunning, GiveUp, DisposeReturns, DeadlinePasses
    <2>. QED
      BY <2>1 DEF SerialInv, Quiet, DeregistrationIsFinal
  <1>. QED
    BY <1>1, <1>2, <1>3, <1>4 DEF Dispose

LEMMA SerialInvariance ==
    ASSUME ~Pooled
    PROVE  SafetySpec => []SerialInv
  <1>1. Init => SerialInv
    BY DEF Init, SerialInv, Quiet, DeregistrationIsFinal
  <1>2. IInv /\ SerialInv /\ [Next]_vars => SerialInv'
    <2>1. CASE UNCHANGED vars
      BY <2>1 DEF vars, SerialInv, Quiet, DeregistrationIsFinal
    <2>. QED
      BY <2>1, LeaseSerial, JobSerial, DisposeSerial DEF Next
  <1>. QED
    BY <1>1, <1>2, Invariance, PTL DEF SafetySpec

\* dispose(): with a serial store an instance that deregistered left no open row.
THEOREM DeregisteredIsClean ==
    ASSUME ~Pooled
    PROVE  SafetySpec => []NoOpenRowAfterDeregistration
  <1>1. SerialInv => NoOpenRowAfterDeregistration
    BY DEF SerialInv, NoOpenRowAfterDeregistration
  <1>. QED
    BY <1>1, SerialInvariance, PTL

\* dispose(): with a serial store a deregistered instance stays deregistered.
THEOREM DeregisteredForGood ==
    ASSUME ~Pooled
    PROVE  SafetySpec => []DeregistrationIsFinal
  <1>1. SerialInv => DeregistrationIsFinal
    BY DEF SerialInv
  <1>. QED
    BY <1>1, SerialInvariance, PTL
=============================================================================
