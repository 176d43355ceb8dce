--------------------------- MODULE ExecutorProofs ---------------------------
(***************************************************************************)
(* Proofs about Executor, for any number of calls, any threshold and any   *)
(* reset time: types, the groups that are killed, what a success means.    *)
(***************************************************************************)
EXTENDS Executor, TLAPS

-----------------------------------------------------------------------------
(* The inductive invariant.                                                 *)

BreakerInv ==
    /\ state \in {"CLOSED", "OPEN", "HALF_OPEN"}
    /\ failures \in 0..Threshold
    /\ age \in -1..(ResetTimeout + 1)
    /\ call \in [Calls -> {"running", "sleeping"} \cup Over]
    /\ attempt \in [Calls -> Tries]
    /\ IF state = "CLOSED" THEN failures < Threshold ELSE failures = Threshold /\ age >= 0
    /\ \A c \in Calls : call[c] = "sleeping" => attempt[c] < Threshold

Leaders == {"none", "unborn", "alive"} \cup Codes
Causes == {"none", "timeout", "idle", "overflow"}
Deliveries == {"pending", "succeeded", "failed"}

ProcTypes ==
    /\ leader \in [Groups -> Leaders]
    /\ kin \in [Groups -> BOOLEAN]
    /\ closed \in [Groups -> BOOLEAN]
    /\ registered \in [Groups -> BOOLEAN]
    /\ pending \in [Groups -> BOOLEAN]
    /\ cause \in [Groups -> Causes]
    /\ stdin \in [Groups -> Deliveries]
    /\ leaving \in {"no", "asking", "killed", "gone"}
    /\ late \in [Groups -> BOOLEAN]
    /\ healthy \in BOOLEAN

\* A living group is on the books.
OnTheBooks(g) == Living(g) => registered[g]

\* A try whose promise is still to settle is the current one of its call.
CurrentTry(g) ==
    ~closed[g] /\ cause[g] # "overflow" => call[g[1]] = "running" /\ attempt[g[1]] = g[2]

\* Who lives after the SIGKILL of the shutdown was born after it.
BornLate(g) == leaving \in {"killed", "gone"} /\ leader[g] = "alive" => late[g]

\* A process that was not born has its error event still to come.
Unborn(g) == leader[g] = "unborn" => ~closed[g] /\ cause[g] # "overflow"

GroupInv(g) == OnTheBooks(g) /\ CurrentTry(g) /\ BornLate(g) /\ Unborn(g)

IInv == BreakerInv /\ ProcTypes /\ \A g \in Groups : GroupInv(g)

USE BreakerAssumption DEF breakerVars, procVars, vars

LEMMA GroupsArePairs ==
    /\ \A g \in Groups : g[1] \in Calls /\ g[2] \in Tries /\ g = <<g[1], g[2]>>
    /\ \A c \in Calls, t \in Tries :
          <<c, t>> \in Groups /\ <<c, t>>[1] = c /\ <<c, t>>[2] = t
  BY DEF Groups

-----------------------------------------------------------------------------
(* The breaker.                                                             *)

LEMMA FinishTypes ==
    ASSUME BreakerInv, NEW c \in Calls, NEW how \in Over, Finish(c, how)
    PROVE  /\ call' \in [Calls -> {"running", "sleeping"} \cup Over]
           /\ attempt' \in [Calls -> Tries]
           /\ call'[c] = how
           /\ \A d \in Calls \ {c} : call'[d] = call[d] /\ attempt'[d] = attempt[d]
           /\ \A d \in Calls : call'[d] = "sleeping" => attempt'[d] < Threshold
  <1>1. 1 \in Tries
    BY DEF Tries
  <1>. QED
    BY <1>1 DEF BreakerInv, Finish, Over

LEMMA OperationEndsInv ==
    ASSUME BreakerInv, NEW c \in Calls, NEW outcome, OperationEnds(c, outcome)
    PROVE  /\ BreakerInv'
           /\ call'[c] = "returned" => outcome = "success"
           /\ \A d \in Calls \ {c} : call'[d] = call[d] /\ attempt'[d] = attempt[d]
  <1>1. CASE outcome = "success" /\ Succeeds(c)
    <2>1. "returned" \in Over
      BY DEF Over
    <2>2. /\ state' \in {"CLOSED", "OPEN", "HALF_OPEN"} /\ failures' \in 0..Threshold
          /\ age' \in -1..(ResetTimeout + 1)
          /\ IF state' = "CLOSED" THEN failures' < Threshold
                                  ELSE failures' = Threshold /\ age' >= 0
      BY <1>1 DEF BreakerInv, Succeeds
    <2>. QED
      BY <1>1, <2>1, <2>2, FinishTypes DEF BreakerInv, Succeeds
  <1>2. CASE outcome = "permanent" /\ FailsForGood(c)
    <2>1. "idle" \in Over
      BY DEF Over
    <2>. QED
      BY <1>2, <2>1, FinishTypes DEF BreakerInv, FailsForGood
  <1>3. CASE outcome = "transient" /\ FailsForNow(c)
    <2>0. "idle" \in Over /\ "returned" # "idle"
      BY DEF Over
    <2>1. Counted \in 0..Threshold
      BY DEF Counted, BreakerInv
    <2>2. /\ state' \in {"CLOSED", "OPEN", "HALF_OPEN"} /\ failures' \in 0..Threshold
          /\ age' \in -1..(ResetTimeout + 1)
          /\ IF state' = "CLOSED" THEN failures' < Threshold
                                  ELSE failures' = Threshold /\ age' >= 0
      BY <1>3, <2>1 DEF BreakerInv, FailsForNow, Counted
    <2>3. CASE Finish(c, "idle")
      BY <2>0, <2>2, <2>3, FinishTypes DEF BreakerInv
    <2>4. CASE attempt[c] # Threshold /\ call' = [call EXCEPT ![c] = "sleeping"] /\ UNCHANGED attempt
      <3>1. attempt[c] < Threshold
        BY <2>4 DEF BreakerInv, Tries
      <3>. QED
        BY <1>3, <2>2, <2>4, <3>1 DEF BreakerInv
    <2>. QED
      BY <1>3, <2>3, <2>4 DEF FailsForNow
  <1>. QED
    BY <1>1, <1>2, <1>3 DEF OperationEnds

LEMMA CallBeginsInv ==
    ASSUME BreakerInv, NEW c \in Calls, CallBegins(c)
    PROVE  /\ BreakerInv'
           /\ call'[c] = "running" /\ attempt'[c] = 1
           /\ \A d \in Calls \ {c} : call'[d] = call[d] /\ attempt'[d] = attempt[d]
  <1>1. 1 \in Tries
    BY DEF Tries
  <1>. QED
    BY <1>1 DEF BreakerInv, CallBegins

LEMMA RetryBeginsInv ==
    ASSUME BreakerInv, NEW c \in Calls, call[c] = "sleeping", RetryBegins(c)
    PROVE  /\ BreakerInv'
           /\ call'[c] = "running" /\ attempt'[c] = attempt[c] + 1
           /\ \A d \in Calls \ {c} : call'[d] = call[d] /\ attempt'[d] = attempt[d]
  <1>1. attempt[c] + 1 \in Tries
    BY DEF BreakerInv, Tries
  <1>. QED
    BY <1>1 DEF BreakerInv, RetryBegins

LEMMA TimePassesInv ==
    ASSUME BreakerInv, TimePasses
    PROVE  BreakerInv'
  BY DEF BreakerInv, TimePasses

-----------------------------------------------------------------------------
(* The processes.                                                           *)

LEMMA SpawnInv ==
    ASSUME ProcTypes, NEW g \in Groups, Spawn(g), UNCHANGED <<leaving, healthy>>
    PROVE  /\ ProcTypes'
           /\ OnTheBooks(g)' /\ cause'[g] = "none" /\ ~closed'[g]
           /\ leaving = "killed" => late'[g]
           /\ \A h \in Groups \ {g} :
                /\ leader'[h] = leader[h] /\ kin'[h] = kin[h] /\ registered'[h] = registered[h]
                /\ closed'[h] = closed[h] /\ cause'[h] = cause[h] /\ late'[h] = late[h]
  <1>1. PICK born \in {"alive", "unborn"} : /\ leader' = [leader EXCEPT ![g] = born]
                                            /\ registered' = [registered EXCEPT ![g] = born = "alive"]
    BY DEF Spawn
  <1>2. PICK s \in {"succeeded", "pending"} : stdin' = [stdin EXCEPT ![g] = s]
    BY DEF Spawn
  <1>3. leader' \in [Groups -> Leaders]
    BY <1>1 DEF ProcTypes, Leaders
  <1>4. stdin' \in [Groups -> Deliveries]
    BY <1>2 DEF ProcTypes, Deliveries
  <1>5. cause' \in [Groups -> Causes]
    BY DEF ProcTypes, Causes, Spawn
  <1>6. registered' \in [Groups -> BOOLEAN] /\ late' \in [Groups -> BOOLEAN]
    BY <1>1 DEF ProcTypes, Spawn
  <1>7. /\ kin' \in [Groups -> BOOLEAN] /\ closed' \in [Groups -> BOOLEAN]
        /\ pending' \in [Groups -> BOOLEAN]
    BY DEF ProcTypes, Spawn
  <1>8. ProcTypes'
    BY <1>3, <1>4, <1>5, <1>6, <1>7 DEF ProcTypes
  <1>9. OnTheBooks(g)'
    BY <1>1 DEF ProcTypes, OnTheBooks, Living, Spawn
  <1>10. cause'[g] = "none" /\ ~closed'[g] /\ (leaving = "killed" => late'[g])
    BY DEF ProcTypes, Spawn
  <1>11. ASSUME NEW h \in Groups, h # g
         PROVE  /\ leader'[h] = leader[h] /\ kin'[h] = kin[h] /\ registered'[h] = registered[h]
                /\ closed'[h] = closed[h] /\ cause'[h] = cause[h] /\ late'[h] = late[h]
    BY <1>1, <1>11 DEF ProcTypes, Spawn
  <1>. QED
    BY <1>8, <1>9, <1>10, <1>11

LEMMA CallInv ==
    ASSUME IInv, NEW c \in Calls, Call(c)
    PROVE  IInv'
  <1>. DEFINE g == <<c, 1>>
  <1>0. g \in Groups /\ g[1] = c /\ g[2] = 1
    BY GroupsArePairs DEF Tries
  <1>1. BreakerInv /\ ProcTypes /\ CallBegins(c) /\ Spawn(g) /\ UNCHANGED <<leaving, healthy>>
        /\ Running /\ (\A t \in Tries : closed[<<c, t>>])
    BY DEF IInv, Call
  <1>. HIDE DEF g
  <1>2. ASSUME NEW h \in Groups
        PROVE  GroupInv(h)'
    <2>1. GroupInv(h)
      BY DEF IInv
    <2>2. CASE h = g
      BY <1>0, <1>1, <2>2, SpawnInv, CallBeginsInv
         DEF GroupInv, CurrentTry, BornLate, Unborn, Running
    <2>3. CASE h # g
      <3>1. h[1] = c => closed[h]
        BY <1>1, GroupsArePairs
      <3>2. h[1] \in Calls
        BY GroupsArePairs
      <3>3. h[1] # c => call'[h[1]] = call[h[1]] /\ attempt'[h[1]] = attempt[h[1]]
        BY <1>1, <3>2, CallBeginsInv
      <3>4. /\ leader'[h] = leader[h] /\ kin'[h] = kin[h] /\ registered'[h] = registered[h]
            /\ closed'[h] = closed[h] /\ cause'[h] = cause[h] /\ late'[h] = late[h]
        BY <1>0, <1>1, <2>3, SpawnInv
      <3>. QED
        BY <1>1, <2>1, <3>1, <3>3, <3>4 DEF GroupInv, OnTheBooks, Living, CurrentTry, BornLate, Unborn
    <2>. QED
      BY <2>2, <2>3
  <1>. QED
    BY <1>0, <1>1, <1>2, SpawnInv, CallBeginsInv DEF IInv

LEMMA WakeInv ==
    ASSUME IInv, NEW c \in Calls, Wake(c)
    PROVE  IInv'
  <1>. DEFINE g == <<c, attempt'[c]>>
  <1>1. /\ BreakerInv /\ ProcTypes /\ RetryBegins(c) /\ Spawn(g) /\ UNCHANGED <<leaving, healthy>>
        /\ Running /\ call[c] = "sleeping"
    BY DEF IInv, Wake
  <1>0. g \in Groups /\ g[1] = c /\ g[2] = attempt'[c]
    BY <1>1, GroupsArePairs, RetryBeginsInv DEF BreakerInv
  <1>. HIDE DEF g
  <1>2. ASSUME NEW h \in Groups
        PROVE  GroupInv(h)'
    <2>1. GroupInv(h)
      BY DEF IInv
    <2>2. CASE h = g
      BY <1>0, <1>1, <2>2, SpawnInv, RetryBeginsInv
         DEF GroupInv, CurrentTry, BornLate, Unborn, Running
    <2>3. CASE h # g
      <3>1. h[1] = c => closed[h] \/ cause[h] = "overflow"
        BY <1>1, <2>1 DEF GroupInv, CurrentTry
      <3>2. h[1] \in Calls
        BY GroupsArePairs
      <3>3. h[1] # c => call'[h[1]] = call[h[1]] /\ attempt'[h[1]] = attempt[h[1]]
        BY <1>1, <3>2, RetryBeginsInv
      <3>4. /\ leader'[h] = leader[h] /\ kin'[h] = kin[h] /\ registered'[h] = registered[h]
            /\ closed'[h] = closed[h] /\ cause'[h] = cause[h] /\ late'[h] = late[h]
        BY <1>0, <1>1, <2>3, SpawnInv
      <3>. QED
        BY <1>1, <2>1, <3>1, <3>3, <3>4 DEF GroupInv, OnTheBooks, Living, CurrentTry, BornLate, Unborn
    <2>. QED
      BY <2>2, <2>3
  <1>. QED
    BY <1>0, <1>1, <1>2, SpawnInv, RetryBeginsInv DEF IInv

LEMMA KillAllTypes ==
    ASSUME ProcTypes, NEW gs \in SUBSET Groups, KillAll(gs)
    PROVE  /\ leader' \in [Groups -> Leaders]
           /\ kin' \in [Groups -> BOOLEAN] /\ registered' \in [Groups -> BOOLEAN]
           /\ \A h \in gs : ~Living(h)'
           /\ \A h \in Groups : leader'[h] = "unborn" => leader[h] = "unborn"
           /\ \A h \in Groups \ gs : /\ leader'[h] = leader[h] /\ kin'[h] = kin[h]
                                     /\ registered'[h] = registered[h]
  BY DEF ProcTypes, KillAll, Living, Leaders, Codes

LEMMA ForgetTypes ==
    ASSUME ProcTypes, NEW g \in Groups, NEW over \in BOOLEAN, Forget(g, over)
    PROVE  /\ cause' \in [Groups -> Causes] /\ stdin' \in [Groups -> Deliveries]
           /\ \A h \in Groups : h # g \/ ~over => cause'[h] = cause[h]
  BY DEF ProcTypes, Forget, Causes, Deliveries

LEMMA FenceKillsInv ==
    ASSUME IInv, NEW g \in Groups, FenceKills(g)
    PROVE  IInv'
  <1>1. /\ BreakerInv /\ ProcTypes /\ KillAll({g}) /\ Forget(g, closed[g])
        /\ UNCHANGED <<closed, late, leaving, healthy>> /\ UNCHANGED breakerVars
        /\ pending' = [pending EXCEPT ![g] = FALSE]
    BY DEF IInv, FenceKills
  <1>2. closed[g] \in BOOLEAN /\ {g} \in SUBSET Groups
    BY <1>1 DEF ProcTypes
  <1>3. ProcTypes'
    BY <1>1, <1>2, KillAllTypes, ForgetTypes DEF ProcTypes
  <1>4. BreakerInv'
    BY <1>1 DEF BreakerInv
  <1>5. ASSUME NEW h \in Groups
        PROVE  GroupInv(h)'
    <2>1. GroupInv(h)
      BY DEF IInv
    <2>2. CASE h = g
      BY <1>1, <1>2, <2>1, <2>2, KillAllTypes, ForgetTypes
         DEF GroupInv, OnTheBooks, Living, CurrentTry, BornLate, Unborn
    <2>3. CASE h # g
      BY <1>1, <1>2, <2>1, <2>3, KillAllTypes, ForgetTypes
         DEF GroupInv, OnTheBooks, Living, CurrentTry, BornLate, Unborn
    <2>. QED
      BY <2>2, <2>3
  <1>. QED
    BY <1>3, <1>4, <1>5 DEF IInv

\* What only happens to a group and its pipes.
LEMMA LifeInv ==
    ASSUME IInv, NEW g \in Groups,
           LeaderEnds(g) \/ Forks(g) \/ KinEnds(g) \/ StdinEnds(g) \/ TimerFires(g)
    PROVE  IInv'
  <1>0. BreakerInv /\ ProcTypes /\ \A h \in Groups : GroupInv(h)
    BY DEF IInv
  <1>1. BreakerInv'
    BY <1>0 DEF BreakerInv, LeaderEnds, Forks, KinEnds, StdinEnds, TimerFires
  <1>2. CASE LeaderEnds(g)
    <2>1. PICK code \in Codes : leader' = [leader EXCEPT ![g] = code]
      BY <1>2 DEF LeaderEnds
    <2>2. leader' \in [Groups -> Leaders]
      BY <1>0, <2>1 DEF ProcTypes, Leaders
    <2>3. \A h \in Groups : leader'[h] \in {"alive", "unborn"} => leader'[h] = leader[h]
      BY <1>0, <2>1 DEF ProcTypes, Codes
    <2>. QED
      BY <1>0, <1>1, <1>2, <2>2, <2>3
         DEF IInv, LeaderEnds, ProcTypes, GroupInv, OnTheBooks, Living, CurrentTry, BornLate, Unborn
  <1>3. CASE Forks(g) \/ KinEnds(g)
    <2>1. kin' \in [Groups -> BOOLEAN]
          /\ \A h \in Groups : kin'[h] => kin[h] \/ leader[h] = "alive"
      BY <1>0, <1>3 DEF ProcTypes, Forks, KinEnds
    <2>2. UNCHANGED <<leader, closed, registered, pending, cause, stdin, late, leaving, healthy>>
      BY <1>3 DEF Forks, KinEnds
    <2>3. UNCHANGED breakerVars
      BY <1>3 DEF Forks, KinEnds
    <2>. QED
      BY <1>0, <1>1, <2>1, <2>2, <2>3
         DEF IInv, ProcTypes, GroupInv, OnTheBooks, Living, CurrentTry, BornLate, Unborn
  <1>4. CASE StdinEnds(g) \/ TimerFires(g)
    <2>1. /\ stdin' \in [Groups -> Deliveries] /\ pending' \in [Groups -> BOOLEAN]
          /\ cause' \in [Groups -> Causes]
      <3>1. stdin' \in [Groups -> Deliveries]
        BY <1>0, <1>4 DEF ProcTypes, StdinEnds, TimerFires, Deliveries
      <3>2. pending' \in [Groups -> BOOLEAN]
        BY <1>0, <1>4 DEF ProcTypes, StdinEnds, TimerFires, Request
      <3>3. cause' \in [Groups -> Causes]
        BY <1>0, <1>4 DEF ProcTypes, StdinEnds, TimerFires, Causes
      <3>. QED
        BY <3>1, <3>2, <3>3
    <2>2. \A h \in Groups : cause[h] = "overflow" => cause'[h] = "overflow"
      <3>1. CASE UNCHANGED cause
        BY <3>1
      <3>2. CASE cause[g] # "overflow" /\ \E why : cause' = [cause EXCEPT ![g] = why]
        BY <1>0, <3>2 DEF ProcTypes
      <3>. QED
        BY <1>4, <3>1, <3>2 DEF StdinEnds, TimerFires, Watched
    <2>3. UNCHANGED <<leader, kin, closed, registered, late, leaving, healthy>>
      BY <1>4 DEF StdinEnds, TimerFires
    <2>4. UNCHANGED breakerVars
      BY <1>4 DEF StdinEnds, TimerFires
    <2>5. ProcTypes'
      BY <1>0, <2>1, <2>3 DEF ProcTypes
    <2>6. ASSUME NEW h \in Groups
          PROVE  GroupInv(h)'
      <3>1. leader[h] = "unborn" => cause'[h] # "overflow"
        <4>1. CASE UNCHANGED cause
          BY <1>0, <4>1 DEF GroupInv, Unborn
        <4>2. CASE \E why \in {"timeout", "idle"} : cause' = [cause EXCEPT ![g] = why]
          BY <1>0, <4>2 DEF ProcTypes, GroupInv, Unborn
        <4>. QED
          BY <1>4, <4>1, <4>2 DEF StdinEnds, TimerFires
      <3>2. OnTheBooks(h)' /\ BornLate(h)' /\ Unborn(h)'
        BY <1>0, <2>3, <3>1 DEF GroupInv, OnTheBooks, Living, BornLate, Unborn
      <3>3. CurrentTry(h)'
        BY <1>0, <2>2, <2>3, <2>4 DEF GroupInv, CurrentTry
      <3>. QED
        BY <3>2, <3>3 DEF GroupInv
    <2>. QED
      BY <1>1, <2>5, <2>6 DEF IInv
  <1>. QED
    BY <1>2, <1>3, <1>4

\* The end of a try disturbs no other try that is still to settle.
LEMMA OnlyTry ==
    ASSUME IInv, NEW g \in Groups, ~closed[g], cause[g] # "overflow",
           NEW outcome, OperationEnds(g[1], outcome), NEW h \in Groups, h # g
    PROVE  ~closed[h] /\ cause[h] # "overflow" => call'[h[1]] = "running" /\ attempt'[h[1]] = h[2]
  <1>1. g[1] \in Calls /\ h[1] \in Calls
    BY GroupsArePairs
  <1>2. CurrentTry(g) /\ CurrentTry(h) /\ BreakerInv
    BY DEF IInv, GroupInv
  <1>3. CASE h[1] = g[1]
    <2>1. g[2] # h[2]
      BY <1>3, GroupsArePairs
    <2>. QED
      BY <1>2, <1>3, <2>1 DEF CurrentTry
  <1>4. CASE h[1] # g[1]
    BY <1>1, <1>2, <1>4, OperationEndsInv DEF CurrentTry
  <1>. QED
    BY <1>3, <1>4

LEMMA OverflowInv ==
    ASSUME IInv, NEW g \in Groups, OutputOverflows(g)
    PROVE  IInv'
  <1>0. BreakerInv /\ ProcTypes /\ g[1] \in Calls
    BY GroupsArePairs DEF IInv
  <1>1. /\ ~closed[g] /\ leader[g] # "unborn"
        /\ cause[g] # "overflow" /\ OperationEnds(g[1], "permanent")
        /\ cause' = [cause EXCEPT ![g] = "overflow"] /\ pending' = [pending EXCEPT ![g] = TRUE]
        /\ UNCHANGED <<leader, kin, closed, registered, stdin, late, leaving, healthy>>
    BY DEF OutputOverflows, Watched, Open, Request
  <1>2. BreakerInv'
    BY <1>0, <1>1, OperationEndsInv
  <1>3. ProcTypes'
    <2>1. cause' \in [Groups -> Causes]
      BY <1>0, <1>1 DEF ProcTypes, Causes
    <2>2. pending' \in [Groups -> BOOLEAN]
      BY <1>0, <1>1 DEF ProcTypes
    <2>. QED
      BY <1>0, <1>1, <2>1, <2>2 DEF ProcTypes
  <1>4. ASSUME NEW h \in Groups
        PROVE  GroupInv(h)'
    <2>1. GroupInv(h)
      BY DEF IInv
    <2>2. CurrentTry(h)'
      <3>1. CASE h = g
        BY <1>0, <1>1, <3>1 DEF CurrentTry, ProcTypes
      <3>2. CASE h # g
        <4>1. cause'[h] = cause[h] /\ closed'[h] = closed[h]
          BY <1>0, <1>1, <3>2 DEF ProcTypes
        <4>. QED
          BY <1>1, <3>2, <4>1, OnlyTry DEF CurrentTry
      <3>. QED
        BY <3>1, <3>2
    <2>3. Unborn(h)'
      BY <1>0, <1>1, <2>1 DEF ProcTypes, GroupInv, Unborn
    <2>. QED
      BY <1>1, <2>1, <2>2, <2>3 DEF GroupInv, OnTheBooks, Living, BornLate
  <1>. QED
    BY <1>2, <1>3, <1>4 DEF IInv

LEMMA SpawnFailsInv ==
    ASSUME IInv, NEW g \in Groups, SpawnFails(g)
    PROVE  IInv'
  <1>0. BreakerInv /\ ProcTypes /\ g[1] \in Calls
    BY GroupsArePairs DEF IInv
  <1>1. /\ OperationEnds(g[1], "permanent")
        /\ leader' = [leader EXCEPT ![g] = "none"] /\ closed' = [closed EXCEPT ![g] = TRUE]
        /\ UNCHANGED <<kin, registered, pending, cause, stdin, late, leaving, healthy>>
    BY DEF SpawnFails
  <1>2. BreakerInv'
    BY <1>0, <1>1, OperationEndsInv
  <1>3. ProcTypes'
    BY <1>0, <1>1 DEF ProcTypes, Leaders
  <1>4. ~closed[g] /\ cause[g] # "overflow"
    BY DEF IInv, GroupInv, Unborn, SpawnFails
  <1>5. ASSUME NEW h \in Groups
        PROVE  GroupInv(h)'
    <2>1. GroupInv(h)
      BY DEF IInv
    <2>2. /\ leader'[h] = "alive" => leader[h] = "alive"
          /\ Unborn(h)'
      BY <1>0, <1>1, <2>1 DEF ProcTypes, GroupInv, Unborn
    <2>3. CurrentTry(h)'
      <3>1. CASE h = g
        BY <1>0, <1>1, <3>1 DEF CurrentTry, ProcTypes
      <3>2. CASE h # g
        <4>1. cause'[h] = cause[h] /\ closed'[h] = closed[h]
          BY <1>0, <1>1, <3>2 DEF ProcTypes
        <4>. QED
          BY <1>1, <1>4, <3>2, <4>1, OnlyTry DEF CurrentTry
      <3>. QED
        BY <3>1, <3>2
    <2>. QED
      BY <1>1, <2>1, <2>2, <2>3 DEF GroupInv, OnTheBooks, Living, BornLate, Unborn
  <1>. QED
    BY <1>2, <1>3, <1>5 DEF IInv

LEMMA CloseInv ==
    ASSUME IInv, NEW g \in Groups, Close(g)
    PROVE  IInv'
  <1>0. BreakerInv /\ ProcTypes /\ g[1] \in Calls /\ pending[g] \in BOOLEAN
    BY GroupsArePairs DEF IInv, ProcTypes
  <1>1. /\ ~closed[g] /\ closed' = [closed EXCEPT ![g] = TRUE]
        /\ leader' = [leader EXCEPT ![g] = "none"]
        /\ kin' = [kin EXCEPT ![g] = @ /\ pending[g]]
        /\ registered' = [registered EXCEPT ![g] = @ /\ pending[g]]
        /\ Forget(g, ~pending[g])
        /\ IF cause[g] = "overflow" THEN UNCHANGED breakerVars
                                    ELSE OperationEnds(g[1], Outcome(g))
        /\ UNCHANGED <<pending, late, leaving, healthy>>
    BY DEF Close, Open, LeaderGone
  <1>2. BreakerInv'
    <2>1. CASE cause[g] = "overflow"
      BY <1>0, <1>1, <2>1 DEF BreakerInv
    <2>2. CASE cause[g] # "overflow"
      BY <1>0, <1>1, <2>2, OperationEndsInv
    <2>. QED
      BY <2>1, <2>2
  <1>3. ProcTypes'
    <2>1. cause' \in [Groups -> Causes] /\ stdin' \in [Groups -> Deliveries]
      BY <1>0, <1>1, ForgetTypes
    <2>2. leader' \in [Groups -> Leaders]
      BY <1>0, <1>1 DEF ProcTypes, Leaders
    <2>3. /\ kin' \in [Groups -> BOOLEAN] /\ closed' \in [Groups -> BOOLEAN]
          /\ registered' \in [Groups -> BOOLEAN]
      BY <1>0, <1>1 DEF ProcTypes
    <2>. QED
      BY <1>0, <1>1, <2>1, <2>2, <2>3 DEF ProcTypes
  <1>4. ASSUME NEW h \in Groups
        PROVE  GroupInv(h)'
    <2>1. GroupInv(h)
      BY DEF IInv
    <2>2. /\ leader'[h] = "alive" => leader[h] = "alive"
          /\ Living(h)' => registered'[h]
      BY <1>0, <1>1, <2>1 DEF ProcTypes, GroupInv, OnTheBooks, Living
    <2>4. Unborn(h)'
      <3>1. CASE h = g
        BY <1>0, <1>1, <3>1 DEF ProcTypes, Unborn
      <3>2. CASE h # g
        BY <1>0, <1>1, <2>1, <3>2, ForgetTypes DEF ProcTypes, GroupInv, Unborn
      <3>. QED
        BY <3>1, <3>2
    <2>3. CurrentTry(h)'
      <3>1. CASE h = g
        BY <1>0, <1>1, <3>1 DEF CurrentTry, ProcTypes
      <3>2. CASE h # g
        <4>1. cause'[h] = cause[h] /\ closed'[h] = closed[h]
          BY <1>0, <1>1, <3>2, ForgetTypes DEF ProcTypes
        <4>2. CASE cause[g] = "overflow"
          BY <1>1, <2>1, <4>1, <4>2 DEF GroupInv, CurrentTry
        <4>3. CASE cause[g] # "overflow"
          BY <1>1, <3>2, <4>1, <4>3, OnlyTry DEF CurrentTry
        <4>. QED
          BY <4>2, <4>3
      <3>. QED
        BY <3>1, <3>2
    <2>. QED
      BY <1>1, <2>1, <2>2, <2>3, <2>4 DEF GroupInv, OnTheBooks, BornLate
  <1>. QED
    BY <1>2, <1>3, <1>4 DEF IInv

LEMMA LeavingInv ==
    ASSUME IInv, ShutdownBegins \/ ShutdownKills \/ Exits \/ Tick \/ ProviderRecovers
    PROVE  IInv'
  <1>0. BreakerInv /\ ProcTypes /\ \A h \in Groups : GroupInv(h)
    BY DEF IInv
  <1>1. CASE ShutdownBegins
    <2>1. UNCHANGED <<procVars, healthy>> /\ UNCHANGED breakerVars
          /\ leaving' = IF \E g \in Groups : registered[g] THEN "asking" ELSE "killed"
      BY <1>1 DEF ShutdownBegins
    <2>2. ASSUME NEW h \in Groups
          PROVE  BornLate(h)'
      BY <1>0, <2>1 DEF GroupInv, OnTheBooks, Living, BornLate
    <2>3. ASSUME NEW h \in Groups
          PROVE  OnTheBooks(h)' /\ CurrentTry(h)' /\ Unborn(h)'
      BY <1>0, <2>1 DEF GroupInv, OnTheBooks, Living, CurrentTry, Unborn
    <2>4. BreakerInv' /\ ProcTypes'
      BY <1>0, <2>1 DEF BreakerInv, ProcTypes
    <2>. QED
      BY <2>2, <2>3, <2>4 DEF IInv, GroupInv
  <1>2. CASE ShutdownKills
    <2>. DEFINE gs == {g \in Groups : registered[g]}
    <2>1. /\ KillAll(gs) /\ gs \in SUBSET Groups /\ leaving' = "killed"
          /\ UNCHANGED <<closed, pending, cause, stdin, late, healthy>> /\ UNCHANGED breakerVars
      BY <1>2 DEF ShutdownKills
    <2>2. \A h \in Groups \ gs : ~Living(h)
      BY <1>0 DEF GroupInv, OnTheBooks
    <2>. HIDE DEF gs
    <2>3. \A h \in Groups : ~Living(h)'
      BY <1>0, <2>1, <2>2, KillAllTypes DEF Living
    <2>4. ASSUME NEW h \in Groups
          PROVE  GroupInv(h)'
      <3>1. leader'[h] = "unborn" => leader[h] = "unborn"
        BY <1>0, <2>1, KillAllTypes
      <3>. QED
        BY <1>0, <2>1, <2>3, <3>1
           DEF GroupInv, OnTheBooks, Living, CurrentTry, BornLate, Unborn
    <2>5. BreakerInv' /\ ProcTypes'
      BY <1>0, <2>1, KillAllTypes DEF BreakerInv, ProcTypes
    <2>. QED
      BY <2>4, <2>5 DEF IInv
  <1>3. CASE Exits
    BY <1>0, <1>3 DEF IInv, Exits, BreakerInv, ProcTypes, GroupInv, OnTheBooks, Living, CurrentTry,
                      BornLate, Unborn
  <1>4. CASE Tick
    <2>1. BreakerInv'
      BY <1>0, <1>4, TimePassesInv DEF Tick
    <2>2. UNCHANGED <<procVars, leaving, healthy, call, attempt>>
      BY <1>4 DEF Tick, TimePasses
    <2>. QED
      BY <1>0, <2>1, <2>2 DEF IInv, ProcTypes, GroupInv, OnTheBooks, Living, CurrentTry, BornLate,
                              Unborn
  <1>5. CASE ProviderRecovers
    BY <1>0, <1>5 DEF IInv, ProviderRecovers, BreakerInv, ProcTypes, GroupInv, OnTheBooks, Living,
                      CurrentTry, BornLate, Unborn
  <1>. QED
    BY <1>1, <1>2, <1>3, <1>4, <1>5

LEMMA Inductive == SafetySpec => []IInv
  <1>1. Init => IInv
    <2> SUFFICES ASSUME Init PROVE IInv
      OBVIOUS
    <2>1. BreakerInv
      <3>1. 1 \in Tries
        BY DEF Tries
      <3>. QED
        BY <3>1 DEF Init, BreakerInit, BreakerInv, Over
    <2>2. ProcTypes
      BY DEF Init, ProcTypes, Leaders, Causes, Deliveries
    <2>3. \A g \in Groups : GroupInv(g)
      BY DEF Init, GroupInv, OnTheBooks, Living, CurrentTry, BornLate, Unborn
    <2>. QED
      BY <2>1, <2>2, <2>3 DEF IInv
  <1>2. IInv /\ [Next]_vars => IInv'
    <2> SUFFICES ASSUME IInv, [Next]_vars PROVE IInv'
      OBVIOUS
    <2>1. ASSUME NEW c \in Calls, Call(c) \/ Wake(c)
          PROVE  IInv'
      BY <2>1, CallInv, WakeInv
    <2>2. ASSUME NEW g \in Groups,
                 \/ FenceKills(g) \/ LeaderEnds(g) \/ Forks(g) \/ KinEnds(g) \/ StdinEnds(g)
                 \/ TimerFires(g) \/ OutputOverflows(g) \/ SpawnFails(g) \/ Close(g)
          PROVE  IInv'
      BY <2>2, FenceKillsInv, LifeInv, OverflowInv, SpawnFailsInv, CloseInv
    <2>3. CASE ShutdownBegins \/ ShutdownKills \/ Exits \/ Tick \/ ProviderRecovers
      BY <2>3, LeavingInv
    <2>4. CASE UNCHANGED vars
      BY <2>4 DEF IInv, BreakerInv, ProcTypes, GroupInv, OnTheBooks, Living, CurrentTry, BornLate,
                  Unborn
    <2>. QED
      BY <2>1, <2>2, <2>3, <2>4 DEF Next
  <1>. QED
    BY <1>1, <1>2, PTL DEF SafetySpec

-----------------------------------------------------------------------------
(* Theorems.                                                                *)

\* The breaker's counters and every call and group are well typed, and an open
\* breaker has failures enough and a time to count from, for any number of
\* callers and stragglers (withRetry, executeCli).
THEOREM ExecutorTypes == Spec => []TypeOK
  <1>1. IInv => TypeOK
    BY DEF IInv, BreakerInv, ProcTypes, TypeOK, Leaders, Causes, Deliveries
  <1>. QED
    BY <1>1, Inductive, PTL DEF Spec

\* A group that has been let go has no living member, so the fence owned it until
\* its SIGKILL (createTerminationFence in executor.ts).
THEOREM CondemnedDie == Spec => []CondemnedGroupsDie
  <1>1. IInv => CondemnedGroupsDie
    BY DEF IInv, GroupInv, OnTheBooks, CondemnedGroupsDie
  <1>. QED
    BY <1>1, Inductive, PTL DEF Spec

\* After its SIGKILL the shutdown leaves no process but those born since
\* (killAllProcessGroups).
THEOREM ShutdownLeavesNobody == Spec => []ShutdownKillsAll
  <1>1. IInv => ShutdownKillsAll
    BY DEF IInv, GroupInv, BornLate, ShutdownKillsAll
  <1>. QED
    BY <1>1, Inductive, PTL DEF Spec

\* A call succeeds only by a process that ended with 0, was asked to stop by nobody
\* and had its whole input, whichever of its tries that was (the close handler of
\* executeCli).
THEOREM SuccessesAreWhole == Spec => SuccessIsWhole
  <1>1. ASSUME IInv, Next, NEW c \in Calls, call[c] = "running", call'[c] = "returned"
        PROVE  LET g == <<c, attempt[c]>> IN
               stdin[g] = "succeeded" /\ leader[g] = "0" /\ ~Condemned(g)
    <2>0. BreakerInv /\ ProcTypes
      BY <1>1 DEF IInv
    <2>1. ASSUME NEW d \in Calls, NEW outcome, OperationEnds(d, outcome)
          PROVE  d = c /\ outcome = "success"
      BY <1>1, <2>0, <2>1, OperationEndsInv
    <2>2. PICK g \in Groups : Close(g) /\ cause[g] # "overflow" /\ OperationEnds(g[1], Outcome(g))
      <3>1. ASSUME NEW g \in Groups, OutputOverflows(g) \/ SpawnFails(g)
            PROVE  FALSE
        <4>1. OperationEnds(g[1], "permanent") /\ g[1] \in Calls
          BY <3>1, GroupsArePairs DEF OutputOverflows, SpawnFails
        <4>. QED
          BY <2>1, <4>1
      <3>2. ASSUME NEW d \in Calls, Call(d) \/ Wake(d)
            PROVE  FALSE
        <4>1. CallBegins(d) \/ (call[d] = "sleeping" /\ RetryBegins(d))
          BY <3>2 DEF Call, Wake
        <4>. QED
          BY <1>1, <2>0, <4>1, CallBeginsInv, RetryBeginsInv
      <3>3. call' # call
        BY <1>1
      <3>4. \/ \E d \in Calls : Call(d) \/ Wake(d)
            \/ \E g \in Groups : OutputOverflows(g) \/ SpawnFails(g) \/ Close(g)
        BY <1>1, <3>3 DEF Next, Tick, TimePasses, ProviderRecovers, ShutdownBegins, ShutdownKills,
                          Exits, FenceKills, LeaderEnds, Forks, KinEnds, StdinEnds, TimerFires
      <3>. QED
        BY <3>1, <3>2, <3>3, <3>4 DEF Close
    <2>3. g[1] = c /\ Outcome(g) = "success"
      BY <2>1, <2>2, GroupsArePairs
    <2>4. g = <<c, attempt[c]>>
      <3>1. attempt[g[1]] = g[2]
        BY <1>1, <2>2 DEF IInv, GroupInv, CurrentTry, Close, Open
      <3>. QED
        BY <2>3, <3>1, GroupsArePairs
    <2>5. cause[g] = "none" /\ leader[g] = "0" /\ stdin[g] = "succeeded"
      BY <2>3 DEF Outcome
    <2>. QED
      BY <2>4, <2>5 DEF Condemned
  <1>2. IInv /\ [Next]_vars
          => [\A c \in Calls : call[c] = "running" /\ call'[c] = "returned" =>
                LET g == <<c, attempt[c]>> IN
                stdin[g] = "succeeded" /\ leader[g] = "0" /\ ~Condemned(g)]_vars
    BY <1>1
  <1>. QED
    BY <1>2, Inductive, PTL DEF Spec, SafetySpec, SuccessIsWhole

-----------------------------------------------------------------------------
(* The breaker among its calls.                                             *)

\* What every change of state comes from, whichever tries of whichever calls end
\* meanwhile: it opens on the error that reaches the threshold, and counts its time
\* from then; a trial is let in when the reset time is over; it closes, with nothing
\* left on its books, when a call that was running succeeds.
StepsJustified ==
    /\ state = "CLOSED" /\ state' # state => state' = "OPEN" /\ failures' = Threshold /\ age' = 0
    /\ state = "OPEN" /\ state' = "HALF_OPEN" => age > ResetTimeout
    /\ state # "CLOSED" /\ state' = "CLOSED" =>
          /\ failures' = 0 /\ age' = -1
          /\ \E c \in Calls : call[c] = "running" /\ call'[c] = "returned"
BreakerSteps == [][StepsJustified]_vars

LEMMA AdmissionJustified ==
    ASSUME BreakerInv, NEW c \in Calls, CallBegins(c)
    PROVE  StepsJustified
  BY DEF BreakerInv, CallBegins, Refused, Elapsed, StepsJustified

LEMMA EndJustified ==
    ASSUME BreakerInv, NEW c \in Calls, call[c] = "running",
           NEW outcome, OperationEnds(c, outcome)
    PROVE  StepsJustified
  <1>1. CASE outcome = "success" /\ Succeeds(c)
    <2>1. "returned" \in Over
      BY DEF Over
    <2>2. call'[c] = "returned"
      BY <1>1, <2>1, FinishTypes DEF Succeeds
    <2>. QED
      BY <1>1, <2>2 DEF BreakerInv, Succeeds, StepsJustified
  <1>2. CASE outcome = "permanent" /\ FailsForGood(c)
    BY <1>2 DEF FailsForGood, StepsJustified
  <1>3. CASE outcome = "transient" /\ FailsForNow(c)
    BY <1>3 DEF BreakerInv, FailsForNow, StepsJustified
  <1>. QED
    BY <1>1, <1>2, <1>3 DEF OperationEnds

\* The breaker that calls share moves only as its rules say, although a call that
\* was admitted before it opened goes on without looking at it again (withRetry).
THEOREM BreakerKeepsItsRules == Spec => BreakerSteps
  <1>1. ASSUME IInv, Next
        PROVE  StepsJustified
    <2>0. BreakerInv
      BY <1>1 DEF IInv
    <2>1. CASE \E c \in Calls : Call(c)
      BY <2>0, <2>1, AdmissionJustified DEF Call
    <2>2. CASE \E g \in Groups : OutputOverflows(g) \/ SpawnFails(g) \/ Close(g)
      <3>1. PICK g \in Groups : OutputOverflows(g) \/ SpawnFails(g) \/ Close(g)
        BY <2>2
      <3>2. g[1] \in Calls
        BY GroupsArePairs
      <3>3. CASE UNCHANGED breakerVars
        BY <3>3 DEF StepsJustified
      <3>4. CASE cause[g] # "overflow" /\ \E outcome : OperationEnds(g[1], outcome)
        <4>1. ~closed[g]
          BY <1>1, <3>1 DEF IInv, GroupInv, Unborn, OutputOverflows, Watched, Open, SpawnFails, Close
        <4>2. call[g[1]] = "running"
          BY <1>1, <3>4, <4>1 DEF IInv, GroupInv, CurrentTry
        <4>. QED
          BY <2>0, <3>2, <3>4, <4>2, EndJustified
      <3>5. cause[g] # "overflow" \/ Close(g)
        BY <1>1, <3>1 DEF IInv, GroupInv, Unborn, OutputOverflows, Watched, SpawnFails
      <3>. QED
        BY <3>1, <3>3, <3>4, <3>5 DEF OutputOverflows, SpawnFails, Close
    <2>3. CASE UNCHANGED state
      BY <2>3 DEF StepsJustified
    <2>. QED
      BY <1>1, <2>1, <2>2, <2>3
         DEF Next, Tick, TimePasses, ProviderRecovers, ShutdownBegins, ShutdownKills, Exits, Wake,
             RetryBegins, FenceKills, LeaderEnds, Forks, KinEnds, StdinEnds, TimerFires
  <1>2. IInv /\ [Next]_vars => [StepsJustified]_vars
    BY <1>1
  <1>. QED
    BY <1>2, Inductive, PTL DEF Spec, SafetySpec, BreakerSteps
=============================================================================
