--------------------------- MODULE AdmissionProofs ---------------------------
(***************************************************************************)
(* Proofs about admission: of a job to one of the limited running slots    *)
(* (JobLimiter), and of a roster of reviewers, a judge and a receipt to a  *)
(* validation run (ValidationRuns, whose launches wait for those slots).   *)
(* They hold for any number of tickets, providers, seats, callers and      *)
(* readers, any positive limits and any number of failing store calls.     *)
(***************************************************************************)
EXTENDS JobLimiter, ValidationRuns, SequenceTheorems, FiniteSetTheorems, TLAPS

-----------------------------------------------------------------------------
(* The queue as a sequence.                                                 *)

\* removeEntry()'s splice drops one position and keeps the order of the rest.
LEMMA RemoveAtEntries ==
    ASSUME NEW S, NEW q \in Seq(S), NEW i \in 1 .. Len(q)
    PROVE  /\ RemoveAt(q, i) \in Seq(S)
           /\ Len(RemoveAt(q, i)) = Len(q) - 1
           /\ \A k \in 1 .. Len(q) - 1 :
                RemoveAt(q, i)[k] = IF k < i THEN q[k] ELSE q[k + 1]
  <1> DEFINE a == SubSeq(q, 1, i - 1)
             b == SubSeq(q, i + 1, Len(q))
  <1>1. Len(q) \in Nat /\ \A k \in 1 .. Len(q) : q[k] \in S
    BY LenProperties, ElementOfSeq
  <1>2. /\ a \in Seq(S) /\ Len(a) = i - 1
        /\ \A k \in 1 .. i - 1 : a[k] = q[k]
    BY <1>1, SubSeqProperties, SMT
  <1>3. /\ b \in Seq(S) /\ Len(b) = Len(q) - i
        /\ \A k \in 1 .. Len(q) - i : b[k] = q[i + k]
    BY <1>1, SubSeqProperties, SMT
  <1> HIDE DEF a, b
  <1>4. /\ a \o b \in Seq(S)
        /\ Len(a \o b) = Len(a) + Len(b)
        /\ \A k \in 1 .. Len(a) + Len(b) :
             (a \o b)[k] = IF k <= Len(a) THEN a[k] ELSE b[k - Len(a)]
    BY <1>2, <1>3, ConcatProperties
  <1>5. RemoveAt(q, i) = a \o b
    BY DEF RemoveAt, a, b
  <1>6. ASSUME NEW k \in 1 .. Len(q) - 1
        PROVE  (a \o b)[k] = IF k < i THEN q[k] ELSE q[k + 1]
    <2>1. CASE k < i
      BY <1>1, <1>2, <1>3, <1>4, <2>1, SMT
    <2>2. CASE ~(k < i)
      <3>1. k - (i - 1) \in 1 .. Len(q) - i /\ i + (k - (i - 1)) = k + 1
        BY <1>1, <2>2, SMT
      <3>2. (a \o b)[k] = b[k - (i - 1)]
        BY <1>1, <1>2, <1>3, <1>4, <2>2, SMT
      <3>3. b[k - (i - 1)] = q[k + 1]
        BY <3>1, <1>3
      <3> QED BY <2>2, <3>2, <3>3
    <2> QED BY <2>1, <2>2
  <1> QED BY <1>1, <1>2, <1>3, <1>4, <1>5, <1>6, SMT

-----------------------------------------------------------------------------
(* Type correctness.                                                        *)

\* One step keeps every field in its type; PumpGrant and the removals rely on
\* the splice staying a sequence of tickets.
LEMMA TypeStep == TypeOK /\ [Next]_vars => TypeOK'
  <1> SUFFICES ASSUME TypeOK, [Next]_vars PROVE TypeOK'
    OBVIOUS
  <1> USE DEF TypeOK, Stages
  <1>1. ASSUME NEW t \in Tickets, AcquireGranted(t) PROVE TypeOK'
    BY <1>1 DEF AcquireGranted, Grant
  <1>2. ASSUME NEW t \in Tickets, AcquireQueued(t) PROVE TypeOK'
    BY <1>2, AppendProperties DEF AcquireQueued
  <1>3. ASSUME NEW t \in Tickets, AcquireRejected(t) PROVE TypeOK'
    BY <1>3 DEF AcquireRejected
  <1>4. ASSUME NEW t \in Tickets, Release(t) PROVE TypeOK'
    <2>1. CASE stage[t] = "released"
      BY <1>4, <2>1 DEF Release, vars
    <2>2. CASE stage[t] = "held"
      <3>1. runningGlobal' \in Nat /\ runningByProvider' \in [Providers -> Nat]
        BY <1>4, <2>2 DEF Release, GiveBack
      <3> QED BY <1>4, <2>2, <3>1 DEF Release
    <2> QED BY <1>4, <2>1, <2>2 DEF Release
  <1>5. ASSUME NEW t \in Tickets, NEW how \in {"timedOut", "cancelled"}, LeaveQueue(t, how)
        PROVE TypeOK'
    <2> PICK i \in 1 .. Len(queue) : queue' = RemoveAt(queue, i)
      BY <1>5 DEF LeaveQueue
    <2>1. queue' \in Seq(Tickets)
      BY RemoveAtEntries
    <2> QED BY <1>5, <2>1 DEF LeaveQueue
  <1>6. ASSUME NEW t \in Tickets, BecomeMoot(t) PROVE TypeOK'
    BY <1>6 DEF BecomeMoot
  <1>7. ASSUME NEW t \in Tickets, NEW p \in Providers, Reuse(t, p) PROVE TypeOK'
    BY <1>7 DEF Reuse
  <1>8. ASSUME NEW i \in 1 .. Len(queue), PumpGrant(i) PROVE TypeOK'
    <2>1. queue' \in Seq(Tickets) /\ queue[i] \in Tickets
      BY <1>8, RemoveAtEntries, ElementOfSeq DEF PumpGrant
    <2> QED BY <1>8, <2>1 DEF PumpGrant, Grant
  <1>9. ASSUME NEW i \in 1 .. Len(queue), PumpBounce(i) PROVE TypeOK'
    <2>1. queue' \in Seq(Tickets) /\ queue[i] \in Tickets
      BY <1>9, RemoveAtEntries, ElementOfSeq DEF PumpBounce
    <2> QED BY <1>9, <2>1 DEF PumpBounce
  <1>10. CASE PumpEnd
    BY <1>10 DEF PumpEnd
  <1>11. CASE UNCHANGED vars
    BY <1>11 DEF vars
  <1> QED
    BY <1>1, <1>2, <1>3, <1>4, <1>5, <1>6, <1>7, <1>8, <1>9, <1>10, <1>11
    DEF Next, PumpStep, QueueTimeout, Cancel

\* Every field of the limiter keeps its type.
THEOREM LimiterTypes == Spec => []TypeOK
  <1>1. Init => TypeOK
    <2> SUFFICES ASSUME Init PROVE TypeOK
      OBVIOUS
    <2>1. queue \in Seq(Tickets)
      BY EmptySeq DEF Init
    <2>2. /\ runningGlobal \in Nat /\ runningByProvider \in [Providers -> Nat]
          /\ pumping \in BOOLEAN /\ moot \in SUBSET Tickets
      BY DEF Init
    <2>3. provider \in [Tickets -> Providers] /\ stage \in [Tickets -> Stages]
      BY DEF Init, Stages
    <2> QED BY <2>1, <2>2, <2>3 DEF TypeOK
  <1> QED
    BY <1>1, TypeStep, PTL DEF Spec

-----------------------------------------------------------------------------
(* The queue holds exactly the waiters.                                     *)

MootAreWaiters == \A t \in moot : stage[t] = "queued"

\* Taking one entry out of a queue of distinct waiters leaves exactly the
\* other waiters in it.
LEMMA TakeOneOut ==
    ASSUME TypeOK, QueueIsTheWaiters, NEW i \in 1 .. Len(queue),
           queue' = RemoveAt(queue, i),
           NEW how \in Stages \ {"queued"},
           stage' = [stage EXCEPT ![queue[i]] = how]
    PROVE  QueueIsTheWaiters'
  <1> DEFINE r == RemoveAt(queue, i)
  <1>1. /\ queue \in Seq(Tickets) /\ Len(queue) \in Nat
        /\ \A k \in 1 .. Len(queue) : queue[k] \in Tickets
    BY LenProperties, ElementOfSeq DEF TypeOK
  <1>2. /\ Len(r) = Len(queue) - 1
        /\ \A k \in 1 .. Len(queue) - 1 : r[k] = IF k < i THEN queue[k] ELSE queue[k + 1]
    BY <1>1, RemoveAtEntries
  <1> HIDE DEF r
  <1>3. \A k \in 1 .. Len(r) : \E m \in 1 .. Len(queue) : m # i /\ r[k] = queue[m]
                                  /\ m = IF k < i THEN k ELSE k + 1
    BY <1>1, <1>2, SMT
  <1>4. \A m \in 1 .. Len(queue) : m # i => \E k \in 1 .. Len(r) : r[k] = queue[m]
    <2> SUFFICES ASSUME NEW m \in 1 .. Len(queue), m # i
                 PROVE  \E k \in 1 .. Len(r) : r[k] = queue[m]
      OBVIOUS
    <2>1. CASE m < i
      BY <1>1, <1>2, <2>1, SMT
    <2>2. CASE m > i
      <3>1. m - 1 \in 1 .. Len(r) /\ ~(m - 1 < i) /\ (m - 1) + 1 = m
        BY <1>1, <1>2, <2>2, SMT
      <3> QED BY <1>2, <3>1
    <2> QED BY <1>1, <2>1, <2>2, SMT
  <1>5. Len(r) <= MaxQueued
    BY <1>1, <1>2, LimitsAssumption DEF QueueIsTheWaiters
  <1>6. \A j, k \in 1 .. Len(r) : r[j] = r[k] => j = k
    BY <1>1, <1>2, <1>3, SMT DEF QueueIsTheWaiters
  <1>7. ASSUME NEW t \in Tickets
        PROVE  stage'[t] = "queued" <=> Contains(r, t)
    <2>1. CASE t = queue[i]
      <3>1. stage'[t] # "queued"
        BY <1>1, <2>1 DEF TypeOK
      <3>2. \A m \in 1 .. Len(queue) : m # i => queue[m] # queue[i]
        BY DEF QueueIsTheWaiters
      <3>3. \A k \in 1 .. Len(r) : r[k] # t
        BY <1>3, <2>1, <3>2, Zenon
      <3> QED BY <3>1, <3>3 DEF Contains
    <2>2. CASE t # queue[i]
      <3>1. stage'[t] = stage[t]
        BY <2>2 DEF TypeOK
      <3>2. Contains(queue, t) <=> Contains(r, t)
        BY <1>3, <1>4, <2>2 DEF Contains
      <3> QED BY <3>1, <3>2 DEF QueueIsTheWaiters
    <2> QED BY <2>1, <2>2
  <1> QED
    BY <1>5, <1>6, <1>7 DEF QueueIsTheWaiters, r

\* A step that leaves the queue and the set of waiters alone keeps both facts
\* about them.
LEMMA QueueUntouched ==
    ASSUME QueueIsTheWaiters, queue' = queue,
           \A t \in Tickets : (stage'[t] = "queued") <=> (stage[t] = "queued")
    PROVE  QueueIsTheWaiters'
  BY DEF QueueIsTheWaiters

LEMMA QueueStep ==
    TypeOK /\ QueueIsTheWaiters /\ MootAreWaiters /\ [Next]_vars
      => QueueIsTheWaiters' /\ MootAreWaiters'
  <1> SUFFICES ASSUME TypeOK, QueueIsTheWaiters, MootAreWaiters, [Next]_vars
               PROVE  QueueIsTheWaiters' /\ MootAreWaiters'
    OBVIOUS
  <1> USE DEF MootAreWaiters
  <1>0. Len(queue) \in Nat /\ \A k \in 1 .. Len(queue) : queue[k] \in Tickets
    BY LenProperties, ElementOfSeq DEF TypeOK
  <1>1. ASSUME NEW t \in Tickets, AcquireGranted(t)
        PROVE  QueueIsTheWaiters' /\ MootAreWaiters'
    BY <1>1, QueueUntouched DEF AcquireGranted, TypeOK
  <1>2. ASSUME NEW t \in Tickets, AcquireQueued(t)
        PROVE  QueueIsTheWaiters' /\ MootAreWaiters'
    <2>1. MootAreWaiters'
      BY <1>2 DEF AcquireQueued, TypeOK
    <2>2. /\ Len(queue') = Len(queue) + 1
          /\ \A k \in 1 .. Len(queue) : queue'[k] = queue[k]
          /\ queue'[Len(queue) + 1] = t
      BY <1>2, AppendProperties DEF AcquireQueued, TypeOK
    <2>3. \A k \in 1 .. Len(queue) : queue[k] # t
      BY <1>2, <1>0 DEF AcquireQueued, QueueIsTheWaiters, Contains
    <2>4. Len(queue') <= MaxQueued
      BY <1>2, <1>0, <2>2, LimitsAssumption DEF AcquireQueued
    <2>5. \A j, k \in 1 .. Len(queue') : queue'[j] = queue'[k] => j = k
      BY <1>0, <2>2, <2>3, SMT DEF QueueIsTheWaiters
    <2>6. ASSUME NEW u \in Tickets
          PROVE  stage'[u] = "queued" <=> Contains(queue', u)
      <3>1. CASE u = t
        <4>1. Len(queue) + 1 \in 1 .. Len(queue')
          BY <1>0, <2>2
        <4> QED BY <1>2, <2>2, <3>1, <4>1 DEF AcquireQueued, TypeOK, Contains
      <3>2. CASE u # t
        <4>1. stage'[u] = stage[u]
          BY <1>2, <3>2 DEF AcquireQueued, TypeOK
        <4>2. Contains(queue', u) <=> Contains(queue, u)
          BY <1>0, <2>2, <3>2, SMT DEF Contains
        <4> QED BY <4>1, <4>2 DEF QueueIsTheWaiters
      <3> QED BY <3>1, <3>2
    <2> QED BY <2>1, <2>4, <2>5, <2>6 DEF QueueIsTheWaiters
  <1>3. ASSUME NEW t \in Tickets, AcquireRejected(t)
        PROVE  QueueIsTheWaiters' /\ MootAreWaiters'
    BY <1>3, QueueUntouched DEF AcquireRejected, TypeOK
  <1>4. ASSUME NEW t \in Tickets, Release(t)
        PROVE  QueueIsTheWaiters' /\ MootAreWaiters'
    <2>1. CASE stage[t] = "released"
      BY <1>4, <2>1, QueueUntouched DEF Release, vars
    <2>2. CASE stage[t] = "held"
      BY <1>4, <2>2, QueueUntouched DEF Release, TypeOK
    <2> QED BY <1>4, <2>1, <2>2 DEF Release
  <1>5. ASSUME NEW t \in Tickets, NEW how \in {"timedOut", "cancelled"}, LeaveQueue(t, how)
        PROVE  QueueIsTheWaiters' /\ MootAreWaiters'
    <2> PICK i \in 1 .. Len(queue) : queue[i] = t /\ queue' = RemoveAt(queue, i)
      BY <1>5 DEF LeaveQueue
    <2>1. QueueIsTheWaiters'
      BY <1>5, TakeOneOut DEF LeaveQueue, Stages
    <2>2. MootAreWaiters'
      BY <1>5 DEF LeaveQueue, TypeOK
    <2> QED BY <2>1, <2>2
  <1>6. ASSUME NEW t \in Tickets, BecomeMoot(t)
        PROVE  QueueIsTheWaiters' /\ MootAreWaiters'
    BY <1>6, QueueUntouched DEF BecomeMoot, TypeOK
  <1>7. ASSUME NEW t \in Tickets, NEW p \in Providers, Reuse(t, p)
        PROVE  QueueIsTheWaiters' /\ MootAreWaiters'
    BY <1>7, QueueUntouched DEF Reuse, TypeOK
  <1>8. ASSUME NEW i \in 1 .. Len(queue), PumpGrant(i)
        PROVE  QueueIsTheWaiters' /\ MootAreWaiters'
    <2>1. QueueIsTheWaiters'
      BY <1>8, TakeOneOut DEF PumpGrant, Stages
    <2>2. MootAreWaiters'
      BY <1>8 DEF PumpGrant, TypeOK
    <2> QED BY <2>1, <2>2
  <1>9. ASSUME NEW i \in 1 .. Len(queue), PumpBounce(i)
        PROVE  QueueIsTheWaiters' /\ MootAreWaiters'
    <2>1. QueueIsTheWaiters'
      BY <1>9, TakeOneOut DEF PumpBounce, Stages
    <2>2. MootAreWaiters'
      BY <1>9 DEF PumpBounce, TypeOK
    <2> QED BY <2>1, <2>2
  <1>10. CASE PumpEnd
    BY <1>10, QueueUntouched DEF PumpEnd
  <1>11. CASE UNCHANGED vars
    BY <1>11, QueueUntouched DEF vars
  <1> QED
    BY <1>1, <1>2, <1>3, <1>4, <1>5, <1>6, <1>7, <1>8, <1>9, <1>10, <1>11
    DEF Next, PumpStep, QueueTimeout, Cancel

\* The queue is exactly the waiting tickets, each once, and never longer than
\* its limit.
THEOREM QueueExact == Spec => []QueueIsTheWaiters
  <1>1. Init => QueueIsTheWaiters /\ MootAreWaiters
    <2> SUFFICES ASSUME Init PROVE QueueIsTheWaiters /\ MootAreWaiters
      OBVIOUS
    <2>1. queue = << >> /\ Len(queue) = 0 /\ moot = {}
      BY EmptySeq DEF Init
    <2>2. \A t \in Tickets : stage[t] = "idle"
      BY DEF Init
    <2>3. \A t \in Tickets : ~Contains(queue, t)
      BY <2>1, SMT DEF Contains
    <2>4. QueueIsTheWaiters
      BY <2>1, <2>2, <2>3, LimitsAssumption, SMT DEF QueueIsTheWaiters
    <2> QED BY <2>1, <2>4 DEF MootAreWaiters
  <1>2. TypeOK /\ (QueueIsTheWaiters /\ MootAreWaiters) /\ [Next]_vars
          => (QueueIsTheWaiters /\ MootAreWaiters)'
    BY QueueStep
  <1> QED
    BY <1>1, <1>2, LimiterTypes, PTL DEF Spec

-----------------------------------------------------------------------------
(* The counters are exact and the caps hold.                                *)

\* One ticket becomes a holder.
LEMMA OneMoreHolder ==
    ASSUME TypeOK, PermitsWithinCaps, NEW t \in Tickets, stage[t] # "held",
           CanRunNow(provider[t]), Grant(provider[t]),
           stage' = [stage EXCEPT ![t] = "held"], provider' = provider
    PROVE  PermitsWithinCaps'
  <1>1. /\ IsFiniteSet(AllHolders) /\ AllHolders' = AllHolders \cup {t}
        /\ t \notin AllHolders
    BY TicketsAssumption, FS_Subset DEF AllHolders, TypeOK
  <1>2. Cardinality(AllHolders)' = Cardinality(AllHolders) + 1
    BY <1>1, FS_AddElement
  <1>3. runningGlobal' = runningGlobal + 1 /\ runningGlobal + 1 <= MaxRunning
    BY LimitsAssumption DEF Grant, CanRunNow, TypeOK
  <1>4. ASSUME NEW p \in Providers
        PROVE  /\ Cardinality(Holders(p))' = runningByProvider'[p]
               /\ runningByProvider'[p] <= MaxPerProvider
    <2>0. IsFiniteSet(Holders(p))
      BY TicketsAssumption, FS_Subset DEF Holders
    <2>1. CASE p = provider[t]
      <3>1. Holders(p)' = Holders(p) \cup {t} /\ t \notin Holders(p)
        BY <2>1 DEF Holders, TypeOK
      <3>2. Cardinality(Holders(p))' = Cardinality(Holders(p)) + 1
        BY <2>0, <3>1, FS_AddElement
      <3>3. runningByProvider'[p] = runningByProvider[p] + 1
        BY <2>1 DEF Grant, TypeOK
      <3> QED BY <2>1, <3>2, <3>3, LimitsAssumption DEF CanRunNow, PermitsWithinCaps, TypeOK
    <2>2. CASE p # provider[t]
      <3>1. Holders(p)' = Holders(p)
        BY <2>2 DEF Holders, TypeOK
      <3>2. runningByProvider'[p] = runningByProvider[p]
        BY <2>2 DEF Grant, TypeOK
      <3> QED BY <3>1, <3>2 DEF PermitsWithinCaps
    <2> QED BY <2>1, <2>2
  <1> QED
    BY <1>2, <1>3, <1>4 DEF PermitsWithinCaps

\* One holder gives its permit back: the clamps at zero never bite.
LEMMA OneHolderLess ==
    ASSUME TypeOK, PermitsWithinCaps, NEW t \in Tickets, stage[t] = "held",
           GiveBack(provider[t]),
           stage' = [stage EXCEPT ![t] = "released"], provider' = provider
    PROVE  PermitsWithinCaps'
  <1>1. /\ IsFiniteSet(AllHolders) /\ AllHolders' = AllHolders \ {t}
        /\ t \in AllHolders
    BY TicketsAssumption, FS_Subset DEF AllHolders, TypeOK
  <1>2. /\ Cardinality(AllHolders)' = Cardinality(AllHolders) - 1
        /\ Cardinality(AllHolders) \in Nat /\ Cardinality(AllHolders)' \in Nat
    BY <1>1, FS_RemoveElement, FS_CardinalityType
  <1>3. /\ runningGlobal' = Cardinality(AllHolders)'
        /\ runningGlobal' <= MaxRunning
    BY <1>2, LimitsAssumption DEF GiveBack, PermitsWithinCaps, TypeOK
  <1>4. ASSUME NEW p \in Providers
        PROVE  /\ Cardinality(Holders(p))' = runningByProvider'[p]
               /\ runningByProvider'[p] <= MaxPerProvider
    <2>0. IsFiniteSet(Holders(p))
      BY TicketsAssumption, FS_Subset DEF Holders
    <2>1. CASE p = provider[t]
      <3>1. Holders(p)' = Holders(p) \ {t} /\ t \in Holders(p)
        BY <2>1 DEF Holders, TypeOK
      <3>2. /\ Cardinality(Holders(p))' = Cardinality(Holders(p)) - 1
            /\ Cardinality(Holders(p))' \in Nat
        BY <2>0, <3>1, FS_RemoveElement, FS_CardinalityType
      <3>3. runningByProvider[p] > 0
        BY <2>0, <3>2, FS_CardinalityType DEF PermitsWithinCaps, TypeOK
      <3>4. runningByProvider'[p] = runningByProvider[p] - 1
        BY <2>1, <3>3 DEF GiveBack, TypeOK
      <3> QED BY <3>2, <3>4, LimitsAssumption DEF PermitsWithinCaps, TypeOK
    <2>2. CASE p # provider[t]
      <3>1. Holders(p)' = Holders(p)
        BY <2>2 DEF Holders, TypeOK
      <3>2. runningByProvider'[p] = runningByProvider[p]
        BY <2>2 DEF GiveBack, TypeOK
      <3> QED BY <3>1, <3>2 DEF PermitsWithinCaps
    <2> QED BY <2>1, <2>2
  <1> QED
    BY <1>3, <1>4 DEF PermitsWithinCaps

\* A step after which the same tickets hold permits of the same providers.
LEMMA SameHolders ==
    ASSUME PermitsWithinCaps,
           runningGlobal' = runningGlobal, runningByProvider' = runningByProvider,
           \A t \in Tickets : (stage'[t] = "held") <=> (stage[t] = "held"),
           \A t \in Tickets : stage[t] = "held" => provider'[t] = provider[t]
    PROVE  PermitsWithinCaps'
  <1>1. AllHolders' = AllHolders /\ \A p \in Providers : Holders(p)' = Holders(p)
    BY DEF AllHolders, Holders
  <1> QED
    BY <1>1 DEF PermitsWithinCaps

LEMMA CapsStep ==
    TypeOK /\ QueueIsTheWaiters /\ PermitsWithinCaps /\ [Next]_vars => PermitsWithinCaps'
  <1> SUFFICES ASSUME TypeOK, QueueIsTheWaiters, PermitsWithinCaps, [Next]_vars
               PROVE  PermitsWithinCaps'
    OBVIOUS
  <1>0. \A i \in 1 .. Len(queue) : queue[i] \in Tickets /\ stage[queue[i]] = "queued"
    BY ElementOfSeq DEF TypeOK, QueueIsTheWaiters, Contains
  <1>1. ASSUME NEW t \in Tickets, AcquireGranted(t) PROVE PermitsWithinCaps'
    BY <1>1, OneMoreHolder DEF AcquireGranted
  <1>2. ASSUME NEW t \in Tickets, AcquireQueued(t) PROVE PermitsWithinCaps'
    BY <1>2, SameHolders DEF AcquireQueued, TypeOK
  <1>3. ASSUME NEW t \in Tickets, AcquireRejected(t) PROVE PermitsWithinCaps'
    BY <1>3, SameHolders DEF AcquireRejected, TypeOK
  <1>4. ASSUME NEW t \in Tickets, Release(t) PROVE PermitsWithinCaps'
    <2>1. CASE stage[t] = "released"
      BY <1>4, <2>1, SameHolders DEF Release, vars
    <2>2. CASE stage[t] = "held"
      BY <1>4, <2>2, OneHolderLess DEF Release
    <2> QED BY <1>4, <2>1, <2>2 DEF Release
  <1>5. ASSUME NEW t \in Tickets, NEW how \in {"timedOut", "cancelled"}, LeaveQueue(t, how)
        PROVE PermitsWithinCaps'
    <2>1. stage[t] = "queued"
      BY <1>0, <1>5 DEF LeaveQueue
    <2> QED BY <1>5, <2>1, SameHolders DEF LeaveQueue, TypeOK
  <1>6. ASSUME NEW t \in Tickets, BecomeMoot(t) PROVE PermitsWithinCaps'
    BY <1>6, SameHolders DEF BecomeMoot
  <1>7. ASSUME NEW t \in Tickets, NEW p \in Providers, Reuse(t, p) PROVE PermitsWithinCaps'
    BY <1>7, SameHolders DEF Reuse, TypeOK
  <1>8. ASSUME NEW i \in 1 .. Len(queue), PumpGrant(i) PROVE PermitsWithinCaps'
    <2>1. queue[i] \in Tickets /\ stage[queue[i]] # "held"
      BY <1>0
    <2> QED BY <1>8, <2>1, OneMoreHolder DEF PumpGrant, FirstRunnable
  <1>9. ASSUME NEW i \in 1 .. Len(queue), PumpBounce(i) PROVE PermitsWithinCaps'
    <2>1. queue[i] \in Tickets /\ stage[queue[i]] # "held"
      BY <1>0
    <2> QED BY <1>9, <2>1, SameHolders DEF PumpBounce, TypeOK
  <1>10. CASE PumpEnd
    BY <1>10, SameHolders DEF PumpEnd
  <1>11. CASE UNCHANGED vars
    BY <1>11, SameHolders DEF vars
  <1> QED
    BY <1>1, <1>2, <1>3, <1>4, <1>5, <1>6, <1>7, <1>8, <1>9, <1>10, <1>11
    DEF Next, PumpStep, QueueTimeout, Cancel

\* The permits in their owners' hands are what the counters say, and stay
\* within the global and the per-provider cap.
THEOREM CapsRespected == Spec => []PermitsWithinCaps
  <1>1. Init => PermitsWithinCaps
    <2> SUFFICES ASSUME Init PROVE PermitsWithinCaps
      OBVIOUS
    <2>1. AllHolders = {} /\ \A p \in Providers : Holders(p) = {}
      BY DEF Init, AllHolders, Holders
    <2>2. Cardinality({}) = 0 /\ 0 <= MaxRunning /\ 0 <= MaxPerProvider
      BY FS_EmptySet, LimitsAssumption
    <2>3. runningGlobal = 0 /\ \A p \in Providers : runningByProvider[p] = 0
      BY DEF Init
    <2> QED BY <2>1, <2>2, <2>3 DEF PermitsWithinCaps
  <1> QED
    BY <1>1, CapsStep, LimiterTypes, QueueExact, PTL DEF Spec

-----------------------------------------------------------------------------
(* No waiter that could run is left behind.                                 *)

LEMMA WakeStep ==
    TypeOK /\ QueueIsTheWaiters /\ NoRunnableWaiter /\ [Next]_vars => NoRunnableWaiter'
  <1> SUFFICES ASSUME TypeOK, QueueIsTheWaiters, NoRunnableWaiter, [Next]_vars, ~pumping'
               PROVE  \A i \in 1 .. Len(queue') : ~CanRunNow(provider[queue[i]])'
    BY DEF NoRunnableWaiter
  <1>0. /\ Len(queue) \in Nat
        /\ \A i \in 1 .. Len(queue) : queue[i] \in Tickets /\ stage[queue[i]] = "queued"
    BY LenProperties, ElementOfSeq DEF TypeOK, QueueIsTheWaiters, Contains
  <1> DEFINE Quiet == \A i \in 1 .. Len(queue') : ~CanRunNow(provider[queue[i]])'
  <1>a. ASSUME queue' = queue, runningGlobal' = runningGlobal,
               runningByProvider' = runningByProvider, ~pumping,
               \A u \in Tickets : stage[u] = "queued" => provider'[u] = provider[u]
        PROVE  Quiet
    BY <1>0, <1>a DEF NoRunnableWaiter, CanRunNow
  <1>1. ASSUME NEW t \in Tickets, AcquireGranted(t) PROVE Quiet
    <2>1. \A p \in Providers : runningByProvider'[p] >= runningByProvider[p]
      BY <1>1 DEF AcquireGranted, Grant, TypeOK
    <2>2. runningGlobal' >= runningGlobal
      BY <1>1 DEF AcquireGranted, Grant, TypeOK
    <2>3. \A p \in Providers : CanRunNow(p)' => CanRunNow(p)
      <3> TAKE p \in Providers
      <3>1. runningByProvider'[p] \in Nat /\ runningByProvider[p] \in Nat
            /\ runningGlobal \in Nat /\ runningGlobal' \in Nat
        BY TypeStep DEF TypeOK
      <3> QED BY <2>1, <2>2, <3>1, LimitsAssumption, SMT DEF CanRunNow
    <2>4. ASSUME NEW i \in 1 .. Len(queue) PROVE ~CanRunNow(provider[queue[i]])'
      <3>1. provider' = provider /\ queue' = queue /\ provider[queue[i]] \in Providers
        BY <1>0, <1>1 DEF AcquireGranted, TypeOK
      <3>2. ~CanRunNow(provider[queue[i]])
        BY <1>1 DEF AcquireGranted, NoRunnableWaiter
      <3>3. CanRunNow(provider[queue[i]])' => CanRunNow(provider[queue[i]])
        BY <2>3, <3>1 DEF CanRunNow
      <3> QED BY <3>2, <3>3
    <2> QED BY <1>1, <2>4 DEF AcquireGranted
  <1>2. ASSUME NEW t \in Tickets, AcquireQueued(t) PROVE Quiet
    <2>1. /\ Len(queue') = Len(queue) + 1
          /\ \A k \in 1 .. Len(queue) : queue'[k] = queue[k]
          /\ queue'[Len(queue) + 1] = t
      BY <1>2, AppendProperties DEF AcquireQueued, TypeOK
    <2>2. \A k \in 1 .. Len(queue') : k \in 1 .. Len(queue) \/ queue'[k] = t
      BY <1>0, <2>1
    <2> QED BY <1>2, <2>1, <2>2 DEF AcquireQueued, NoRunnableWaiter, CanRunNow
  <1>3. ASSUME NEW t \in Tickets, AcquireRejected(t) PROVE Quiet
    BY <1>3, <1>a DEF AcquireRejected
  <1>4. ASSUME NEW t \in Tickets, Release(t) PROVE Quiet
    BY <1>4, <1>a DEF Release, vars
  <1>5. ASSUME NEW t \in Tickets, NEW how \in {"timedOut", "cancelled"}, LeaveQueue(t, how)
        PROVE Quiet
    <2> PICK i \in 1 .. Len(queue) : queue' = RemoveAt(queue, i)
      BY <1>5 DEF LeaveQueue
    <2>1. /\ Len(queue') = Len(queue) - 1
          /\ \A k \in 1 .. Len(queue) - 1 :
               queue'[k] = IF k < i THEN queue[k] ELSE queue[k + 1]
      BY RemoveAtEntries DEF TypeOK
    <2>2. \A k \in 1 .. Len(queue') : \E m \in 1 .. Len(queue) : queue'[k] = queue[m]
      BY <1>0, <2>1
    <2> QED BY <1>5, <2>2 DEF LeaveQueue, NoRunnableWaiter, CanRunNow
  <1>6. ASSUME NEW t \in Tickets, BecomeMoot(t) PROVE Quiet
    BY <1>6, <1>a DEF BecomeMoot
  <1>7. ASSUME NEW t \in Tickets, NEW p \in Providers, Reuse(t, p) PROVE Quiet
    BY <1>7, <1>a DEF Reuse, TypeOK
  <1>8. ASSUME NEW i \in 1 .. Len(queue), PumpGrant(i) \/ PumpBounce(i) PROVE Quiet
    BY <1>8 DEF PumpGrant, PumpBounce
  <1>9. CASE PumpEnd
    BY <1>9 DEF PumpEnd, CanRunNow
  <1>10. CASE UNCHANGED vars
    BY <1>10, <1>a DEF vars
  <1> QED
    BY <1>1, <1>2, <1>3, <1>4, <1>5, <1>6, <1>7, <1>8, <1>9, <1>10
    DEF Next, PumpStep, QueueTimeout, Cancel

\* Whenever pump() is not on the stack, no waiter could run: no wakeup is lost
\* and a provider at its cap blocks nobody else.
THEOREM NoWakeupLost == Spec => []NoRunnableWaiter
  <1>1. Init => NoRunnableWaiter
    BY EmptySeq, SMT DEF Init, NoRunnableWaiter
  <1> QED
    BY <1>1, WakeStep, LimiterTypes, QueueExact, PTL DEF Spec

-----------------------------------------------------------------------------
(* First come, first served within a provider.                              *)

LEMMA FifoHolds ==
    TypeOK /\ QueueIsTheWaiters /\ NoRunnableWaiter /\ [Next]_vars => [FifoStep]_vars
  <1> SUFFICES ASSUME TypeOK, QueueIsTheWaiters, NoRunnableWaiter, Next,
                      NEW u \in Tickets, stage[u] # "held", stage'[u] = "held",
                      NEW k \in 1 .. Len(queue),
                      provider[queue[k]] = provider[u], stage'[queue[k]] = "queued"
               PROVE  \E i \in 1 .. k : queue[i] = u
    BY DEF FifoStep
  <1>1. ASSUME NEW t \in Tickets, AcquireGranted(t) PROVE FALSE
    <2>1. t = u
      BY <1>1 DEF AcquireGranted, TypeOK
    <2> QED BY <1>1, <2>1 DEF AcquireGranted, NoRunnableWaiter
  <1>2. ASSUME NEW i \in 1 .. Len(queue), PumpGrant(i)
        PROVE  \E j \in 1 .. k : queue[j] = u
    <2>1. queue[i] = u
      BY <1>2 DEF PumpGrant, TypeOK
    <2>2. ~(k < i)
      BY <1>2, <2>1, LenProperties DEF PumpGrant, FirstRunnable, TypeOK
    <2>3. i \in 1 .. k
      BY <2>2, LenProperties DEF TypeOK
    <2> QED BY <2>1, <2>3
  <1>3. ASSUME NEW t \in Tickets,
               \/ AcquireQueued(t) \/ AcquireRejected(t) \/ Release(t)
               \/ LeaveQueue(t, "timedOut") \/ LeaveQueue(t, "cancelled")
               \/ BecomeMoot(t) \/ \E p \in Providers : Reuse(t, p)
        PROVE  FALSE
    BY <1>3 DEF AcquireQueued, AcquireRejected, Release, LeaveQueue, BecomeMoot, Reuse,
                TypeOK, vars
  <1>4. ASSUME NEW i \in 1 .. Len(queue), PumpBounce(i) PROVE FALSE
    BY <1>4, ElementOfSeq DEF PumpBounce, TypeOK
  <1>5. ~PumpEnd
    BY DEF PumpEnd
  <1> QED
    BY <1>1, <1>2, <1>3, <1>4, <1>5 DEF Next, PumpStep, QueueTimeout, Cancel

\* Same-provider tickets are granted in arrival order, the fast path included.
THEOREM FirstComeFirstServed == Spec => ProviderFifo
  BY FifoHolds, LimiterTypes, QueueExact, NoWakeupLost, PTL DEF Spec, ProviderFifo

-----------------------------------------------------------------------------
(* Validation runs: where the kickoff is.                                    *)
(*                                                                           *)
(* The kickoff decides what else can be under way: until the run is open     *)
(* nobody reads it, judges it or mints its receipt; once the kickoff is done *)
(* no launch is withheld.                                                    *)

Unopened == kickoff \in {"begin", "record", "admit", "open"}
IsOpen(theRun) == theRun.status \in {"running", "judge_skipped", "finalized"}

\* A withheld launch never reached the spawn.
WithheldNotRun == \A j \in Jobs : launch[j] \in {"held", "cancelled"} => job[j] # "running"

\* A review and an ordinary validation take different steps.
RightSteps ==
    /\ kickoff \in {"admit", "open", "release", "cancel"} => request.review
    /\ kickoff \in {"record", "index"} => ~request.review
    /\ \A c \in Callers :
          /\ synth[c] \in {"claim", "skip", "release"} => request.review /\ request.judge
          /\ synth[c] \in {"check", "link"} => ~request.review

NothingBegun == Unopened =>
    /\ IF kickoff \in {"begin", "record"} THEN run = NoRun
       ELSE run.status = "admitting" /\ run.judge = NoJob
    /\ receipt = NoReceipt
    /\ \A r \in Readers : mint[r] = NoMint
    /\ \A c \in Callers : synth[c] = "idle" /\ job[c] = "none"
    /\ kickoff = "begin" => \A s \in Seats : job[s] = "none"

\* What VerifyLinks saw still holds when the launches are released.
RosterComplete == kickoff \in {"open", "release"} =>
    /\ todo = {} /\ run.links = {s \in Seats : launch[s] # "none"}
    /\ kickoff = "release" => IsOpen(run)

NoneWithheld == kickoff \in {"begin", "record", "index", "done"} => Seats \cap Held = {}

InOrder == /\ aged => kickoff = "done"
           /\ RightSteps /\ NothingBegun /\ RosterComplete /\ NoneWithheld

-----------------------------------------------------------------------------
(* Validation runs: the links, the judge, and what a reader read.            *)

\* A reviewer that runs, or may be launched by a permit that comes now.
LaunchedWhenOpen == \A s \in Seats :
    request.review /\ (\/ job[s] \in {"running", "completed", "truncated"}
                       \/ job[s] = "queued" /\ launch[s] = "released") =>
        kickoff = "done" /\ todo = {} /\ IsOpen(run) /\ s \in run.links

\* While the row of a review stands it links every job admitted for it, and the
\* index has every link, so that no sweep forgets it while a job is there.
SeatsLinked ==
    request.review =>
        /\ Linked(run) \subseteq indexed
        /\ run.status # "none" => \A s \in Seats : job[s] # "none" => s \in run.links

Judges == {c \in Callers : job[c] # "none"}

\* The judge of a review is the one its run names, as long as there is a run.
JudgeOfRun ==
    request.review => \A c \in Judges :
        /\ \A d \in Judges : c = d
        /\ IF run.status = "none" THEN run = NoRun
           ELSE run.status \in {"running", "finalized"} /\ run.judge = c

\* The evidence a call bound stays terminal, for no reviewer is admitted later.
EvidenceStands ==
    request.review /\ (Judges # {} \/ \E c \in Callers : synth[c] = "claim") =>
        \A s \in Seats : job[s] \notin {"queued", "running"}

\* What a reader read is still what the run says, but for its status: the links
\* are fixed before it is open, and a planned judge before it is mintable.
ReadStands == \A r \in Readers : mint[r] # NoMint =>
    LET read == mint[r].run
    IN  /\ read.status \in {"running", "judge_skipped"}
        /\ request.judge => read.judge # NoJob \/ read.status = "judge_skipped"
        /\ run.status # "none" =>
              /\ IsOpen(run)
              /\ read.status = "judge_skipped" => run.status # "running"
              /\ read.links = run.links /\ read.judge \in {run.judge, NoJob}
              /\ request.review \/ request.judge => read.judge = run.judge

RunIInv == /\ RunTypeOK /\ WithheldNotRun /\ InOrder
           /\ LaunchedWhenOpen /\ SeatsLinked /\ JudgeOfRun /\ EvidenceStands
           /\ ReadStands /\ ReceiptVerifies

\* Reading one more job leaves a reader with a run and a set of jobs.
LEMMA OneJobLess ==
  ASSUME NEW m \in [run : RunRecords, left : SUBSET Jobs], NEW j
  PROVE  [m EXCEPT !.left = @ \ {j}] \in [run : RunRecords, left : SUBSET Jobs]
  <1>1. [m EXCEPT !.left = @ \ {j}] = [run |-> m.run, left |-> m.left \ {j}]
    OBVIOUS
  <1> QED BY <1>1

LEMMA RunTypeStep ==
  ASSUME RunTypeOK, [RunNext]_runVars
  PROVE  RunTypeOK'
  <1> USE ValidationAssumption DEF Jobs, Ended, RunRecords, Launches, NoRun, NoMint,
       NoReceipt, RunTypeOK, Linked, jobs, row
  <1>1. ASSUME NEW o \in Outcomes, RecordReview(o) PROVE RunTypeOK'
    BY <1>1 DEF RecordReview, Call, Outcomes
  <1>2. ASSUME NEW o \in Outcomes, VerifyLinks(o) PROVE RunTypeOK'
    BY <1>2 DEF VerifyLinks, Call, Outcomes
  <1>3. ASSUME NEW o \in Outcomes, CompleteAdmission(o) PROVE RunTypeOK'
    BY <1>3 DEF CompleteAdmission, Call, Outcomes
  <1>4. ASSUME NEW o \in Outcomes, FenceAdmission(o) PROVE RunTypeOK'
    BY <1>4 DEF FenceAdmission, Call, Outcomes
  <1>5. ASSUME NEW o \in Outcomes, RecordOrdinary(o) PROVE RunTypeOK'
    <2>1. PICK S \in SUBSET Seats :
               run' = run \/ run' = [status |-> "running", links |-> S, judge |-> run.judge]
      <3>1. {s \in Seats : job[s] # "none"} \in SUBSET Seats
        OBVIOUS
      <3> QED BY <1>5, <3>1 DEF RecordOrdinary
    <2>2. run.judge \in Callers \cup {NoJob}
      OBVIOUS
    <2>3. run' \in RunRecords
      BY <2>1, <2>2
    <2>4. run'.links \subseteq Seats
      BY <2>3
    <2> HIDE DEF RunRecords
    <2> QED BY <1>5, <2>3, <2>4 DEF RecordOrdinary, Call, Outcomes
  <1>6. ASSUME NEW s \in Seats, SkipSeat(s) PROVE RunTypeOK'
    BY <1>6 DEF SkipSeat
  <1>7. ASSUME NEW s \in Seats, CancelSeat(s) PROVE RunTypeOK'
    BY <1>7 DEF CancelSeat
  <1>8. ASSUME NEW s \in Seats, NEW o \in Outcomes, AdmitSeat(s, o) PROVE RunTypeOK'
    BY <1>8 DEF AdmitSeat, SeatLaunch, Call, Outcomes
  <1>9. ASSUME NEW S \in SUBSET Seats, StartSeats(S) PROVE RunTypeOK'
    BY <1>9 DEF StartSeats
  <1>10. ASSUME ReleaseRoster PROVE RunTypeOK'
    BY <1>10 DEF ReleaseRoster
  <1>11. ASSUME NEW j \in Jobs, Launch(j) PROVE RunTypeOK'
    BY <1>11 DEF Launch, MayLaunch
  <1>12. ASSUME NEW j \in Jobs, EndQueued(j) PROVE RunTypeOK'
    BY <1>12 DEF EndQueued
  <1>13. ASSUME NEW j \in Jobs, End(j) PROVE RunTypeOK'
    BY <1>13 DEF End
  <1>14. ASSUME NEW j \in Jobs, Recover(j) PROVE RunTypeOK'
    BY <1>14 DEF Recover
  <1>15. ASSUME NEW c \in Callers, BindReview(c) PROVE RunTypeOK'
    BY <1>15 DEF BindReview, EvidenceBound, Verified, Step
  <1>16. ASSUME NEW c \in Callers, ReleaseJudge(c) PROVE RunTypeOK'
    BY <1>16 DEF ReleaseJudge, Step
  <1>17. ASSUME NEW c \in Callers, StartJudge(c) PROVE RunTypeOK'
    BY <1>17 DEF StartJudge, Step
  <1>18. ASSUME NEW c \in Callers, CheckJudge(c) PROVE RunTypeOK'
    BY <1>18 DEF CheckJudge, MayClaimJudge, Step
  <1>19. ASSUME NEW c \in Callers, NEW o \in Outcomes, ClaimJudge(c, o) PROVE RunTypeOK'
    <2>1. run' \in RunRecords
      BY <1>19 DEF ClaimJudge
    <2>2. job' \in [Jobs -> {"none", "queued", "running", "deleted"} \cup Ended]
      BY <1>19 DEF ClaimJudge
    <2>3. launch' \in [Jobs -> Launches]
      BY <1>19 DEF ClaimJudge
    <2>4. synth' \in [Callers -> {"idle", "claim", "skip", "release", "check", "link", "done"}]
      BY <1>19 DEF ClaimJudge, Step
    <2> QED BY <1>19, <2>1, <2>2, <2>3, <2>4 DEF ClaimJudge, Call
  <1>20. ASSUME NEW c \in Callers, NEW o \in Outcomes, SkipJudge(c, o) PROVE RunTypeOK'
    BY <1>20 DEF SkipJudge, MayClaimJudge, Call, Outcomes, Step
  <1>21. ASSUME NEW c \in Callers, NEW o \in Outcomes, LinkJudge(c, o) PROVE RunTypeOK'
    BY <1>21 DEF LinkJudge, MayLinkJudge, EntryAdded, Call, Outcomes, Step
  <1>22. ASSUME NEW r \in Readers, BeginMint(r) PROVE RunTypeOK'
    BY <1>22 DEF BeginMint, Mintable
  <1>23. ASSUME NEW r \in Readers, ReadJob(r) PROVE RunTypeOK'
    <2> DEFINE next(j) == IF Verified(j) THEN [mint[r] EXCEPT !.left = @ \ {j}]
                          ELSE NoMint
    <2>1. PICK j \in mint[r].left : mint' = [mint EXCEPT ![r] = next(j)]
      BY <1>23 DEF ReadJob
    <2>2. NoMint \in [run : RunRecords, left : SUBSET Jobs]
      OBVIOUS
    <2> HIDE DEF RunRecords, NoMint
    <2>3. [mint[r] EXCEPT !.left = @ \ {j}] \in [run : RunRecords, left : SUBSET Jobs]
      BY OneJobLess DEF Jobs
    <2>4. next(j) \in [run : RunRecords, left : SUBSET Jobs]
      BY <2>2, <2>3
    <2> HIDE DEF next
    <2>5. mint' \in [Readers -> [run : RunRecords, left : SUBSET Jobs]]
      BY <2>1, <2>4
    <2> QED BY <1>23, <2>5 DEF ReadJob
  <1>24. ASSUME NEW r \in Readers, NEW o \in Outcomes, Finalize(r, o) PROVE RunTypeOK'
    BY <1>24 DEF Finalize, FinalizedRun, ReceiptOf, Call, Outcomes
  <1>25. ASSUME Age PROVE RunTypeOK'
    BY <1>25 DEF Age
  <1>26. ASSUME EvictExpired PROVE RunTypeOK'
    BY <1>26 DEF EvictExpired
  <1>27. ASSUME EvictWedged PROVE RunTypeOK'
    BY <1>27 DEF EvictWedged, Wedged
  <1>28. ASSUME Crash PROVE RunTypeOK'
    BY <1>28 DEF Crash
  <1>29. CASE UNCHANGED runVars
    BY <1>29 DEF runVars
  <1>30. ASSUME NEW s \in Seats, NEW o \in Outcomes, IndexLink(s, o)
         PROVE  RunTypeOK'
    BY <1>30 DEF IndexLink, EntryAdded, Call, Outcomes
  <1> QED
    BY <1>1, <1>2, <1>3, <1>4, <1>5, <1>6, <1>7, <1>8, <1>9, <1>10, <1>11, <1>12,
       <1>13, <1>14, <1>15, <1>16, <1>17, <1>18, <1>19, <1>20, <1>21, <1>22, <1>23,
       <1>24, <1>25, <1>26, <1>27, <1>28, <1>29, <1>30
    DEF RunNext, Kickoff, Synthesize, Mint

\* A permit starts only a released launch, and none is withheld again.
LEMMA WithheldStep ==
  ASSUME RunTypeOK, WithheldNotRun, [RunNext]_runVars
  PROVE  WithheldNotRun'
  <1> USE ValidationAssumption DEF Jobs, Ended, RunRecords, Launches, NoRun, NoMint,
       NoReceipt, RunTypeOK, WithheldNotRun, Held, jobs, row
  <1>1. ASSUME NEW o \in Outcomes, RecordReview(o) PROVE WithheldNotRun'
    BY <1>1 DEF RecordReview, Call, Outcomes
  <1>2. ASSUME NEW o \in Outcomes, VerifyLinks(o) PROVE WithheldNotRun'
    BY <1>2 DEF VerifyLinks, Call, Outcomes
  <1>3. ASSUME NEW o \in Outcomes, CompleteAdmission(o) PROVE WithheldNotRun'
    BY <1>3 DEF CompleteAdmission, Call, Outcomes
  <1>4. ASSUME NEW o \in Outcomes, FenceAdmission(o) PROVE WithheldNotRun'
    BY <1>4 DEF FenceAdmission, Call, Outcomes
  <1>5. ASSUME NEW o \in Outcomes, RecordOrdinary(o) PROVE WithheldNotRun'
    BY <1>5 DEF RecordOrdinary, Call, Outcomes
  <1>6. ASSUME NEW s \in Seats, SkipSeat(s) PROVE WithheldNotRun'
    BY <1>6 DEF SkipSeat
  <1>7. ASSUME NEW s \in Seats, CancelSeat(s) PROVE WithheldNotRun'
    BY <1>7 DEF CancelSeat
  <1>8. ASSUME NEW s \in Seats, NEW o \in Outcomes, AdmitSeat(s, o)
        PROVE  WithheldNotRun'
    BY <1>8 DEF AdmitSeat, SeatLaunch, Call, Outcomes
  <1>9. ASSUME NEW S \in SUBSET Seats, StartSeats(S) PROVE WithheldNotRun'
    BY <1>9 DEF StartSeats
  <1>10. ASSUME ReleaseRoster PROVE WithheldNotRun'
    BY <1>10 DEF ReleaseRoster
  <1>11. ASSUME NEW j \in Jobs, Launch(j) PROVE WithheldNotRun'
    BY <1>11 DEF Launch, MayLaunch
  <1>12. ASSUME NEW j \in Jobs, EndQueued(j) PROVE WithheldNotRun'
    BY <1>12 DEF EndQueued
  <1>13. ASSUME NEW j \in Jobs, End(j) PROVE WithheldNotRun'
    BY <1>13 DEF End
  <1>14. ASSUME NEW j \in Jobs, Recover(j) PROVE WithheldNotRun'
    BY <1>14 DEF Recover
  <1>15. ASSUME NEW c \in Callers, BindReview(c) PROVE WithheldNotRun'
    BY <1>15 DEF BindReview, EvidenceBound, Verified, Step
  <1>16. ASSUME NEW c \in Callers, ReleaseJudge(c) PROVE WithheldNotRun'
    BY <1>16 DEF ReleaseJudge, Step
  <1>17. ASSUME NEW c \in Callers, StartJudge(c) PROVE WithheldNotRun'
    BY <1>17 DEF StartJudge, Step
  <1>18. ASSUME NEW c \in Callers, CheckJudge(c) PROVE WithheldNotRun'
    BY <1>18 DEF CheckJudge, MayClaimJudge, Step
  <1>19. ASSUME NEW c \in Callers, NEW o \in Outcomes, ClaimJudge(c, o)
        PROVE  WithheldNotRun'
    BY <1>19 DEF ClaimJudge, MayClaimJudge, Call, Outcomes, Step
  <1>20. ASSUME NEW c \in Callers, NEW o \in Outcomes, SkipJudge(c, o)
        PROVE  WithheldNotRun'
    BY <1>20 DEF SkipJudge, MayClaimJudge, Call, Outcomes, Step
  <1>21. ASSUME NEW c \in Callers, NEW o \in Outcomes, LinkJudge(c, o)
        PROVE  WithheldNotRun'
    BY <1>21 DEF LinkJudge, MayLinkJudge, EntryAdded, Call, Outcomes, Step
  <1>22. ASSUME NEW r \in Readers, BeginMint(r) PROVE WithheldNotRun'
    BY <1>22 DEF BeginMint, Mintable
  <1>23. ASSUME NEW r \in Readers, ReadJob(r) PROVE WithheldNotRun'
    BY <1>23 DEF ReadJob
  <1>24. ASSUME NEW r \in Readers, NEW o \in Outcomes, Finalize(r, o)
        PROVE  WithheldNotRun'
    BY <1>24 DEF Finalize, FinalizedRun, ReceiptOf, Call, Outcomes
  <1>25. ASSUME Age PROVE WithheldNotRun'
    BY <1>25 DEF Age
  <1>26. ASSUME EvictExpired PROVE WithheldNotRun'
    BY <1>26 DEF EvictExpired
  <1>27. ASSUME EvictWedged PROVE WithheldNotRun'
    BY <1>27 DEF EvictWedged, Wedged
  <1>28. ASSUME Crash PROVE WithheldNotRun'
    BY <1>28 DEF Crash
  <1>29. CASE UNCHANGED runVars
    BY <1>29 DEF runVars
  <1>30. ASSUME NEW s \in Seats, NEW o \in Outcomes, IndexLink(s, o)
         PROVE  WithheldNotRun'
    BY <1>30 DEF IndexLink, EntryAdded, Call, Outcomes
  <1> QED
    BY <1>1, <1>2, <1>3, <1>4, <1>5, <1>6, <1>7, <1>8, <1>9, <1>10, <1>11, <1>12,
       <1>13, <1>14, <1>15, <1>16, <1>17, <1>18, <1>19, <1>20, <1>21, <1>22, <1>23,
       <1>24, <1>25, <1>26, <1>27, <1>28, <1>29, <1>30
    DEF RunNext, Kickoff, Synthesize, Mint

\* The kickoff keeps to its order, and nothing else disturbs it before it is done.
LEMMA OrderStep ==
  ASSUME RunTypeOK, InOrder, [RunNext]_runVars
  PROVE  InOrder'
  <1> USE ValidationAssumption DEF Jobs, Ended, RunRecords, Launches, NoRun, NoMint,
       NoReceipt, RunTypeOK, Unopened, IsOpen, Held, jobs, row, InOrder, RightSteps,
       NothingBegun, RosterComplete, NoneWithheld
  <1>1. ASSUME NEW o \in Outcomes, RecordReview(o) PROVE InOrder'
    BY <1>1 DEF RecordReview, Call, Outcomes
  <1>2. ASSUME NEW o \in Outcomes, VerifyLinks(o) PROVE InOrder'
    BY <1>2 DEF VerifyLinks, Call, Outcomes
  <1>3. ASSUME NEW o \in Outcomes, CompleteAdmission(o) PROVE InOrder'
    BY <1>3 DEF CompleteAdmission, Call, Outcomes
  <1>4. ASSUME NEW o \in Outcomes, FenceAdmission(o) PROVE InOrder'
    BY <1>4 DEF FenceAdmission, Call, Outcomes
  <1>5. ASSUME NEW o \in Outcomes, RecordOrdinary(o) PROVE InOrder'
    BY <1>5 DEF RecordOrdinary, Call, Outcomes
  <1>6. ASSUME NEW s \in Seats, SkipSeat(s) PROVE InOrder'
    BY <1>6 DEF SkipSeat
  <1>7. ASSUME NEW s \in Seats, CancelSeat(s) PROVE InOrder'
    BY <1>7 DEF CancelSeat
  <1>8. ASSUME NEW s \in Seats, NEW o \in Outcomes, AdmitSeat(s, o) PROVE InOrder'
    BY <1>8 DEF AdmitSeat, SeatLaunch, Call, Outcomes
  <1>9. ASSUME NEW S \in SUBSET Seats, StartSeats(S) PROVE InOrder'
    BY <1>9 DEF StartSeats
  <1>10. ASSUME ReleaseRoster PROVE InOrder'
    BY <1>10 DEF ReleaseRoster
  <1>11. ASSUME NEW j \in Jobs, Launch(j) PROVE InOrder'
    BY <1>11 DEF Launch, MayLaunch
  <1>12. ASSUME NEW j \in Jobs, EndQueued(j) PROVE InOrder'
    BY <1>12 DEF EndQueued
  <1>13. ASSUME NEW j \in Jobs, End(j) PROVE InOrder'
    BY <1>13 DEF End
  <1>14. ASSUME NEW j \in Jobs, Recover(j) PROVE InOrder'
    BY <1>14 DEF Recover
  <1>15. ASSUME NEW c \in Callers, BindReview(c) PROVE InOrder'
    BY <1>15 DEF BindReview, EvidenceBound, Verified, Step
  <1>16. ASSUME NEW c \in Callers, ReleaseJudge(c) PROVE InOrder'
    BY <1>16 DEF ReleaseJudge, Step
  <1>17. ASSUME NEW c \in Callers, StartJudge(c) PROVE InOrder'
    BY <1>17 DEF StartJudge, Step
  <1>18. ASSUME NEW c \in Callers, CheckJudge(c) PROVE InOrder'
    BY <1>18 DEF CheckJudge, MayClaimJudge, Step
  <1>19. ASSUME NEW c \in Callers, NEW o \in Outcomes, ClaimJudge(c, o) PROVE InOrder'
    BY <1>19 DEF ClaimJudge, MayClaimJudge, Call, Outcomes, Step
  <1>20. ASSUME NEW c \in Callers, NEW o \in Outcomes, SkipJudge(c, o) PROVE InOrder'
    BY <1>20 DEF SkipJudge, MayClaimJudge, Call, Outcomes, Step
  <1>21. ASSUME NEW c \in Callers, NEW o \in Outcomes, LinkJudge(c, o) PROVE InOrder'
    BY <1>21 DEF LinkJudge, MayLinkJudge, EntryAdded, Call, Outcomes, Step
  <1>22. ASSUME NEW r \in Readers, BeginMint(r) PROVE InOrder'
    BY <1>22 DEF BeginMint, Mintable
  <1>23. ASSUME NEW r \in Readers, ReadJob(r) PROVE InOrder'
    BY <1>23 DEF ReadJob
  <1>24. ASSUME NEW r \in Readers, NEW o \in Outcomes, Finalize(r, o) PROVE InOrder'
    BY <1>24 DEF Finalize, FinalizedRun, ReceiptOf, Call, Outcomes
  <1>25. ASSUME Age PROVE InOrder'
    BY <1>25 DEF Age
  <1>26. ASSUME EvictExpired PROVE InOrder'
    BY <1>26 DEF EvictExpired
  <1>27. ASSUME EvictWedged PROVE InOrder'
    BY <1>27 DEF EvictWedged, Wedged
  <1>28. ASSUME Crash PROVE InOrder'
    BY <1>28 DEF Crash
  <1>29. CASE UNCHANGED runVars
    BY <1>29 DEF runVars
  <1>30. ASSUME NEW s \in Seats, NEW o \in Outcomes, IndexLink(s, o)
         PROVE  InOrder'
    BY <1>30 DEF IndexLink, EntryAdded, Call, Outcomes
  <1> QED
    BY <1>1, <1>2, <1>3, <1>4, <1>5, <1>6, <1>7, <1>8, <1>9, <1>10, <1>11, <1>12,
       <1>13, <1>14, <1>15, <1>16, <1>17, <1>18, <1>19, <1>20, <1>21, <1>22, <1>23,
       <1>24, <1>25, <1>26, <1>27, <1>28, <1>29, <1>30
    DEF RunNext, Kickoff, Synthesize, Mint

\* A linked run is evicted only when its jobs are, and grows no link once it is open.
LEMMA LinksStep ==
  ASSUME RunTypeOK, InOrder, LaunchedWhenOpen, SeatsLinked, [RunNext]_runVars
  PROVE  LaunchedWhenOpen' /\ SeatsLinked'
  <1> USE ValidationAssumption DEF Jobs, Ended, RunRecords, Launches, NoRun, NoMint,
       NoReceipt, RunTypeOK, Unopened, IsOpen, Held, Linked, LaunchedWhenOpen,
       SeatsLinked, jobs, row, InOrder, RightSteps, NothingBegun, RosterComplete,
       NoneWithheld
  <1>1. ASSUME NEW o \in Outcomes, RecordReview(o)
        PROVE  LaunchedWhenOpen' /\ SeatsLinked'
    BY <1>1 DEF RecordReview, Call, Outcomes
  <1>2. ASSUME NEW o \in Outcomes, VerifyLinks(o)
        PROVE  LaunchedWhenOpen' /\ SeatsLinked'
    BY <1>2 DEF VerifyLinks, Call, Outcomes
  <1>3. ASSUME NEW o \in Outcomes, CompleteAdmission(o)
        PROVE  LaunchedWhenOpen' /\ SeatsLinked'
    BY <1>3 DEF CompleteAdmission, Call, Outcomes
  <1>4. ASSUME NEW o \in Outcomes, FenceAdmission(o)
        PROVE  LaunchedWhenOpen' /\ SeatsLinked'
    BY <1>4 DEF FenceAdmission, Call, Outcomes
  <1>5. ASSUME NEW o \in Outcomes, RecordOrdinary(o)
        PROVE  LaunchedWhenOpen' /\ SeatsLinked'
    BY <1>5 DEF RecordOrdinary, Call, Outcomes
  <1>6. ASSUME NEW s \in Seats, SkipSeat(s) PROVE LaunchedWhenOpen' /\ SeatsLinked'
    BY <1>6 DEF SkipSeat
  <1>7. ASSUME NEW s \in Seats, CancelSeat(s) PROVE LaunchedWhenOpen' /\ SeatsLinked'
    BY <1>7 DEF CancelSeat
  <1>8. ASSUME NEW s \in Seats, NEW o \in Outcomes, AdmitSeat(s, o)
        PROVE  LaunchedWhenOpen' /\ SeatsLinked'
    BY <1>8 DEF AdmitSeat, SeatLaunch, Call, Outcomes
  <1>9. ASSUME NEW S \in SUBSET Seats, StartSeats(S)
        PROVE  LaunchedWhenOpen' /\ SeatsLinked'
    BY <1>9 DEF StartSeats
  <1>10. ASSUME ReleaseRoster PROVE LaunchedWhenOpen' /\ SeatsLinked'
    BY <1>10 DEF ReleaseRoster
  <1>11. ASSUME NEW j \in Jobs, Launch(j) PROVE LaunchedWhenOpen' /\ SeatsLinked'
    BY <1>11 DEF Launch, MayLaunch
  <1>12. ASSUME NEW j \in Jobs, EndQueued(j) PROVE LaunchedWhenOpen' /\ SeatsLinked'
    BY <1>12 DEF EndQueued
  <1>13. ASSUME NEW j \in Jobs, End(j) PROVE LaunchedWhenOpen' /\ SeatsLinked'
    BY <1>13 DEF End
  <1>14. ASSUME NEW j \in Jobs, Recover(j) PROVE LaunchedWhenOpen' /\ SeatsLinked'
    BY <1>14 DEF Recover
  <1>15. ASSUME NEW c \in Callers, BindReview(c) PROVE LaunchedWhenOpen' /\ SeatsLinked'
    BY <1>15 DEF BindReview, EvidenceBound, Verified, Step
  <1>16. ASSUME NEW c \in Callers, ReleaseJudge(c)
        PROVE  LaunchedWhenOpen' /\ SeatsLinked'
    BY <1>16 DEF ReleaseJudge, Step
  <1>17. ASSUME NEW c \in Callers, StartJudge(c) PROVE LaunchedWhenOpen' /\ SeatsLinked'
    BY <1>17 DEF StartJudge, Step
  <1>18. ASSUME NEW c \in Callers, CheckJudge(c) PROVE LaunchedWhenOpen' /\ SeatsLinked'
    BY <1>18 DEF CheckJudge, MayClaimJudge, Step
  <1>19. ASSUME NEW c \in Callers, NEW o \in Outcomes, ClaimJudge(c, o)
        PROVE  LaunchedWhenOpen' /\ SeatsLinked'
    BY <1>19 DEF ClaimJudge, MayClaimJudge, Call, Outcomes, Step
  <1>20. ASSUME NEW c \in Callers, NEW o \in Outcomes, SkipJudge(c, o)
        PROVE  LaunchedWhenOpen' /\ SeatsLinked'
    BY <1>20 DEF SkipJudge, MayClaimJudge, Call, Outcomes, Step
  <1>21. ASSUME NEW c \in Callers, NEW o \in Outcomes, LinkJudge(c, o)
        PROVE  LaunchedWhenOpen' /\ SeatsLinked'
    BY <1>21 DEF LinkJudge, MayLinkJudge, EntryAdded, Call, Outcomes, Step
  <1>22. ASSUME NEW r \in Readers, BeginMint(r) PROVE LaunchedWhenOpen' /\ SeatsLinked'
    BY <1>22 DEF BeginMint, Mintable
  <1>23. ASSUME NEW r \in Readers, ReadJob(r) PROVE LaunchedWhenOpen' /\ SeatsLinked'
    BY <1>23 DEF ReadJob
  <1>24. ASSUME NEW r \in Readers, NEW o \in Outcomes, Finalize(r, o)
        PROVE  LaunchedWhenOpen' /\ SeatsLinked'
    BY <1>24 DEF Finalize, FinalizedRun, ReceiptOf, Call, Outcomes
  <1>25. ASSUME Age PROVE LaunchedWhenOpen' /\ SeatsLinked'
    BY <1>25 DEF Age
  <1>26. ASSUME EvictExpired PROVE LaunchedWhenOpen' /\ SeatsLinked'
    BY <1>26 DEF EvictExpired
  <1>27. ASSUME EvictWedged PROVE LaunchedWhenOpen' /\ SeatsLinked'
    BY <1>27 DEF EvictWedged, Wedged
  <1>28. ASSUME Crash PROVE LaunchedWhenOpen' /\ SeatsLinked'
    BY <1>28 DEF Crash
  <1>29. CASE UNCHANGED runVars
    BY <1>29 DEF runVars
  <1>30. ASSUME NEW s \in Seats, NEW o \in Outcomes, IndexLink(s, o)
         PROVE  LaunchedWhenOpen' /\ SeatsLinked'
    BY <1>30 DEF IndexLink, EntryAdded, Call, Outcomes
  <1> QED
    BY <1>1, <1>2, <1>3, <1>4, <1>5, <1>6, <1>7, <1>8, <1>9, <1>10, <1>11, <1>12,
       <1>13, <1>14, <1>15, <1>16, <1>17, <1>18, <1>19, <1>20, <1>21, <1>22, <1>23,
       <1>24, <1>25, <1>26, <1>27, <1>28, <1>29, <1>30
    DEF RunNext, Kickoff, Synthesize, Mint

\* A judge is claimed by one call, of an open run without one, on settled evidence.
LEMMA JudgeStep ==
  ASSUME RunTypeOK, InOrder, SeatsLinked, JudgeOfRun, EvidenceStands, [RunNext]_runVars
  PROVE  JudgeOfRun' /\ EvidenceStands'
  <1> USE ValidationAssumption DEF Jobs, Ended, RunRecords, Launches, NoRun, NoMint,
       NoReceipt, RunTypeOK, Unopened, IsOpen, Linked, SeatsLinked, Judges, JudgeOfRun,
       EvidenceStands, jobs, row, InOrder, RightSteps, NothingBegun, RosterComplete,
       NoneWithheld
  <1>1. ASSUME NEW o \in Outcomes, RecordReview(o) PROVE JudgeOfRun' /\ EvidenceStands'
    BY <1>1 DEF RecordReview, Call, Outcomes
  <1>2. ASSUME NEW o \in Outcomes, VerifyLinks(o) PROVE JudgeOfRun' /\ EvidenceStands'
    BY <1>2 DEF VerifyLinks, Call, Outcomes
  <1>3. ASSUME NEW o \in Outcomes, CompleteAdmission(o)
        PROVE  JudgeOfRun' /\ EvidenceStands'
    BY <1>3 DEF CompleteAdmission, Call, Outcomes
  <1>4. ASSUME NEW o \in Outcomes, FenceAdmission(o)
        PROVE  JudgeOfRun' /\ EvidenceStands'
    <2>1. /\ \/ run' = run
             \/ /\ run.status = "admitting"
                /\ run' = [run EXCEPT !.status = "admission_failed"]
          /\ UNCHANGED <<request, job, synth>>
      BY <1>4 DEF FenceAdmission
    <2>2. request.review /\ Judges # {} => run.status # "admitting"
      OBVIOUS
    <2> QED BY <2>1, <2>2
  <1>5. ASSUME NEW o \in Outcomes, RecordOrdinary(o)
        PROVE  JudgeOfRun' /\ EvidenceStands'
    BY <1>5 DEF RecordOrdinary, Call, Outcomes
  <1>6. ASSUME NEW s \in Seats, SkipSeat(s) PROVE JudgeOfRun' /\ EvidenceStands'
    BY <1>6 DEF SkipSeat
  <1>7. ASSUME NEW s \in Seats, CancelSeat(s) PROVE JudgeOfRun' /\ EvidenceStands'
    BY <1>7 DEF CancelSeat
  <1>8. ASSUME NEW s \in Seats, NEW o \in Outcomes, AdmitSeat(s, o)
        PROVE  JudgeOfRun' /\ EvidenceStands'
    BY <1>8 DEF AdmitSeat, SeatLaunch, Call, Outcomes
  <1>9. ASSUME NEW S \in SUBSET Seats, StartSeats(S)
        PROVE  JudgeOfRun' /\ EvidenceStands'
    BY <1>9 DEF StartSeats
  <1>10. ASSUME ReleaseRoster PROVE JudgeOfRun' /\ EvidenceStands'
    BY <1>10 DEF ReleaseRoster
  <1>11. ASSUME NEW j \in Jobs, Launch(j) PROVE JudgeOfRun' /\ EvidenceStands'
    BY <1>11 DEF Launch, MayLaunch
  <1>12. ASSUME NEW j \in Jobs, EndQueued(j) PROVE JudgeOfRun' /\ EvidenceStands'
    BY <1>12 DEF EndQueued
  <1>13. ASSUME NEW j \in Jobs, End(j) PROVE JudgeOfRun' /\ EvidenceStands'
    BY <1>13 DEF End
  <1>14. ASSUME NEW j \in Jobs, Recover(j) PROVE JudgeOfRun' /\ EvidenceStands'
    BY <1>14 DEF Recover
  <1>15. ASSUME NEW c \in Callers, BindReview(c) PROVE JudgeOfRun' /\ EvidenceStands'
    BY <1>15 DEF BindReview, EvidenceBound, Verified, Step
  <1>16. ASSUME NEW c \in Callers, ReleaseJudge(c) PROVE JudgeOfRun' /\ EvidenceStands'
    BY <1>16 DEF ReleaseJudge, Step
  <1>17. ASSUME NEW c \in Callers, StartJudge(c) PROVE JudgeOfRun' /\ EvidenceStands'
    BY <1>17 DEF StartJudge, Step
  <1>18. ASSUME NEW c \in Callers, CheckJudge(c) PROVE JudgeOfRun' /\ EvidenceStands'
    BY <1>18 DEF CheckJudge, MayClaimJudge, Step
  <1>19. ASSUME NEW c \in Callers, NEW o \in Outcomes, ClaimJudge(c, o)
        PROVE  JudgeOfRun' /\ EvidenceStands'
    BY <1>19 DEF ClaimJudge, MayClaimJudge, Call, Outcomes, Step
  <1>20. ASSUME NEW c \in Callers, NEW o \in Outcomes, SkipJudge(c, o)
        PROVE  JudgeOfRun' /\ EvidenceStands'
    <2>1. /\ \/ run' = run
             \/ /\ run.status = "running" /\ run.judge = NoJob
                /\ run' = [run EXCEPT !.status = "judge_skipped"]
          /\ synth' = [synth EXCEPT ![c] = "done"] /\ UNCHANGED <<request, job>>
      BY <1>20 DEF SkipJudge, MayClaimJudge, Step
    <2>2. request.review /\ run.judge = NoJob /\ run.status = "running" => Judges = {}
      OBVIOUS
    <2>3. \A d \in Callers : synth'[d] = "claim" => synth[d] = "claim"
      BY <2>1
    <2>4. JudgeOfRun'
      BY <2>1, <2>2
    <2> QED BY <2>1, <2>3, <2>4
  <1>21. ASSUME NEW c \in Callers, NEW o \in Outcomes, LinkJudge(c, o)
        PROVE  JudgeOfRun' /\ EvidenceStands'
    BY <1>21 DEF LinkJudge, MayLinkJudge, EntryAdded, Call, Outcomes, Step
  <1>22. ASSUME NEW r \in Readers, BeginMint(r) PROVE JudgeOfRun' /\ EvidenceStands'
    BY <1>22 DEF BeginMint, Mintable
  <1>23. ASSUME NEW r \in Readers, ReadJob(r) PROVE JudgeOfRun' /\ EvidenceStands'
    BY <1>23 DEF ReadJob
  <1>24. ASSUME NEW r \in Readers, NEW o \in Outcomes, Finalize(r, o)
        PROVE  JudgeOfRun' /\ EvidenceStands'
    BY <1>24 DEF Finalize, FinalizedRun, ReceiptOf, Call, Outcomes
  <1>25. ASSUME Age PROVE JudgeOfRun' /\ EvidenceStands'
    BY <1>25 DEF Age
  <1>26. ASSUME EvictExpired PROVE JudgeOfRun' /\ EvidenceStands'
    <2>1. /\ \A j \in Jobs :
                /\ job'[j] # "none" <=> job[j] # "none"
                /\ job'[j] \in {"queued", "running"} => job[j] \in {"queued", "running"}
          /\ UNCHANGED <<request, run, synth>>
      BY <1>26 DEF EvictExpired
    <2>2. Judges' = Judges
      BY <2>1
    <2> QED BY <2>1, <2>2
  <1>27. ASSUME EvictWedged PROVE JudgeOfRun' /\ EvidenceStands'
    BY <1>27 DEF EvictWedged, Wedged
  <1>28. ASSUME Crash PROVE JudgeOfRun' /\ EvidenceStands'
    BY <1>28 DEF Crash
  <1>29. CASE UNCHANGED runVars
    BY <1>29 DEF runVars
  <1>30. ASSUME NEW s \in Seats, NEW o \in Outcomes, IndexLink(s, o)
         PROVE  JudgeOfRun' /\ EvidenceStands'
    BY <1>30 DEF IndexLink, EntryAdded, Call, Outcomes
  <1> QED
    BY <1>1, <1>2, <1>3, <1>4, <1>5, <1>6, <1>7, <1>8, <1>9, <1>10, <1>11, <1>12,
       <1>13, <1>14, <1>15, <1>16, <1>17, <1>18, <1>19, <1>20, <1>21, <1>22, <1>23,
       <1>24, <1>25, <1>26, <1>27, <1>28, <1>29, <1>30
    DEF RunNext, Kickoff, Synthesize, Mint

\* No link and no planned judge comes between a reader's read and its receipt.
LEMMA ReceiptStep ==
  ASSUME RunTypeOK, InOrder, ReadStands, ReceiptVerifies, [RunNext]_runVars
  PROVE  ReadStands' /\ ReceiptVerifies'
  <1> USE ValidationAssumption DEF Jobs, Ended, RunRecords, Launches, NoRun, NoMint,
       NoReceipt, RunTypeOK, Unopened, IsOpen, Linked, Verifies, ReceiptVerifies,
       ReadStands, jobs, row, InOrder, RightSteps, NothingBegun, RosterComplete,
       NoneWithheld
  <1>1. ASSUME NEW o \in Outcomes, RecordReview(o) PROVE ReadStands' /\ ReceiptVerifies'
    BY <1>1 DEF RecordReview, Call, Outcomes
  <1>2. ASSUME NEW o \in Outcomes, VerifyLinks(o) PROVE ReadStands' /\ ReceiptVerifies'
    BY <1>2 DEF VerifyLinks, Call, Outcomes
  <1>3. ASSUME NEW o \in Outcomes, CompleteAdmission(o)
        PROVE  ReadStands' /\ ReceiptVerifies'
    BY <1>3 DEF CompleteAdmission, Call, Outcomes
  <1>4. ASSUME NEW o \in Outcomes, FenceAdmission(o)
        PROVE  ReadStands' /\ ReceiptVerifies'
    BY <1>4 DEF FenceAdmission, Call, Outcomes
  <1>5. ASSUME NEW o \in Outcomes, RecordOrdinary(o)
        PROVE  ReadStands' /\ ReceiptVerifies'
    BY <1>5 DEF RecordOrdinary, Call, Outcomes
  <1>6. ASSUME NEW s \in Seats, SkipSeat(s) PROVE ReadStands' /\ ReceiptVerifies'
    BY <1>6 DEF SkipSeat
  <1>7. ASSUME NEW s \in Seats, CancelSeat(s) PROVE ReadStands' /\ ReceiptVerifies'
    BY <1>7 DEF CancelSeat
  <1>8. ASSUME NEW s \in Seats, NEW o \in Outcomes, AdmitSeat(s, o)
        PROVE  ReadStands' /\ ReceiptVerifies'
    BY <1>8 DEF AdmitSeat, SeatLaunch, Call, Outcomes
  <1>9. ASSUME NEW S \in SUBSET Seats, StartSeats(S)
        PROVE  ReadStands' /\ ReceiptVerifies'
    BY <1>9 DEF StartSeats
  <1>10. ASSUME ReleaseRoster PROVE ReadStands' /\ ReceiptVerifies'
    BY <1>10 DEF ReleaseRoster
  <1>11. ASSUME NEW j \in Jobs, Launch(j) PROVE ReadStands' /\ ReceiptVerifies'
    BY <1>11 DEF Launch, MayLaunch
  <1>12. ASSUME NEW j \in Jobs, EndQueued(j) PROVE ReadStands' /\ ReceiptVerifies'
    BY <1>12 DEF EndQueued
  <1>13. ASSUME NEW j \in Jobs, End(j) PROVE ReadStands' /\ ReceiptVerifies'
    BY <1>13 DEF End
  <1>14. ASSUME NEW j \in Jobs, Recover(j) PROVE ReadStands' /\ ReceiptVerifies'
    BY <1>14 DEF Recover
  <1>15. ASSUME NEW c \in Callers, BindReview(c) PROVE ReadStands' /\ ReceiptVerifies'
    BY <1>15 DEF BindReview, EvidenceBound, Verified, Step
  <1>16. ASSUME NEW c \in Callers, ReleaseJudge(c) PROVE ReadStands' /\ ReceiptVerifies'
    BY <1>16 DEF ReleaseJudge, Step
  <1>17. ASSUME NEW c \in Callers, StartJudge(c) PROVE ReadStands' /\ ReceiptVerifies'
    BY <1>17 DEF StartJudge, Step
  <1>18. ASSUME NEW c \in Callers, CheckJudge(c) PROVE ReadStands' /\ ReceiptVerifies'
    BY <1>18 DEF CheckJudge, MayClaimJudge, Step
  <1>19. ASSUME NEW c \in Callers, NEW o \in Outcomes, ClaimJudge(c, o)
        PROVE  ReadStands' /\ ReceiptVerifies'
    BY <1>19 DEF ClaimJudge, MayClaimJudge, Call, Outcomes, Step
  <1>20. ASSUME NEW c \in Callers, NEW o \in Outcomes, SkipJudge(c, o)
        PROVE  ReadStands' /\ ReceiptVerifies'
    BY <1>20 DEF SkipJudge, MayClaimJudge, Call, Outcomes, Step
  <1>21. ASSUME NEW c \in Callers, NEW o \in Outcomes, LinkJudge(c, o)
        PROVE  ReadStands' /\ ReceiptVerifies'
    BY <1>21 DEF LinkJudge, MayLinkJudge, EntryAdded, Call, Outcomes, Step
  <1>22. ASSUME NEW r \in Readers, BeginMint(r) PROVE ReadStands' /\ ReceiptVerifies'
    <2>1. mint' = [mint EXCEPT ![r] = [run |-> run, left |-> Linked(run)]]
      BY <1>22 DEF BeginMint
    <2>2. /\ run.status \in {"running", "judge_skipped"}
          /\ request.judge => run.judge # NoJob \/ run.status = "judge_skipped"
          /\ UNCHANGED <<request, run, receipt>>
      BY <1>22 DEF BeginMint, Mintable
    <2>3. mint'[r].run = run /\ \A q \in Readers \ {r} : mint'[q] = mint[q]
      BY <2>1
    <2> HIDE DEF NoMint, NoRun, RunRecords, NoReceipt
    <2>4. ReadStands'
      BY <2>2, <2>3
    <2> QED BY <2>2, <2>4
  <1>23. ASSUME NEW r \in Readers, ReadJob(r) PROVE ReadStands' /\ ReceiptVerifies'
    <2>1. PICK j \in mint[r].left :
               mint' = [mint EXCEPT ![r] = IF Verified(j)
                                           THEN [mint[r] EXCEPT !.left = @ \ {j}] ELSE NoMint]
      BY <1>23 DEF ReadJob
    <2>2. mint[r] # NoMint
      OBVIOUS
    <2>3. mint'[r] # NoMint => mint'[r].run = mint[r].run
      BY <2>1
    <2>4. \A q \in Readers \ {r} : mint'[q] = mint[q]
      BY <2>1
    <2>5. UNCHANGED <<request, run, receipt>>
      BY <1>23 DEF ReadJob
    <2> HIDE DEF NoMint, NoRun, RunRecords, NoReceipt
    <2>6. ReadStands'
      BY <2>2, <2>3, <2>4, <2>5
    <2> QED BY <2>5, <2>6
  <1>24. ASSUME NEW r \in Readers, NEW o \in Outcomes, Finalize(r, o)
        PROVE  ReadStands' /\ ReceiptVerifies'
    <2> DEFINE read == mint[r].run
    <2>1. /\ mint[r] # NoMint /\ mint' = [mint EXCEPT ![r] = NoMint] /\ UNCHANGED request
      BY <1>24 DEF Finalize
    <2>2. CASE UNCHANGED <<receipt, run>>
      BY <2>1, <2>2
    <2>3. CASE run.status # "none" /\ run' = [run EXCEPT !.status = "finalized"]
               /\ receipt' = IF receipt = NoReceipt THEN ReceiptOf(read) ELSE receipt
      <3>1. run'.status = "finalized" /\ run'.links = run.links /\ run'.judge = run.judge
        BY <2>3
      <3>2. receipt' # NoReceipt
        BY <2>3 DEF ReceiptOf
      <3>3. ReadStands'
        <4>1. /\ mint'[r] = NoMint
              /\ \A q \in Readers \ {r} : mint'[q] = mint[q]
          BY <2>1
        <4> HIDE DEF NoMint, NoRun, RunRecords, NoReceipt
        <4> QED BY <2>1, <2>3, <3>1, <4>1
      <3>4. CASE receipt = NoReceipt /\ (request.review \/ request.judge)
        <4>1. /\ receipt'.links = read.links /\ receipt'.judge = read.judge
              /\ receipt'.synthesis = IF read.judge # NoJob THEN "judged"
                                       ELSE IF read.status = "judge_skipped" /\ request.judge
                                       THEN "skipped" ELSE "not_requested"
          BY <2>3, <3>4 DEF ReceiptOf
        <4>2. /\ read.links = run.links /\ read.judge = run.judge
              /\ request.judge => read.judge # NoJob \/ read.status = "judge_skipped"
          BY <2>1, <2>3, <3>4
        <4>3. Verifies'
          BY <2>1, <3>1, <4>1, <4>2
        <4> QED BY <3>1, <3>2, <3>3, <4>3
      <3>5. CASE receipt # NoReceipt
        BY <2>1, <2>3, <3>1, <3>3, <3>5
      <3> QED BY <2>1, <3>1, <3>2, <3>3, <3>4, <3>5
    <2> QED BY <1>24, <2>2, <2>3 DEF Finalize, FinalizedRun
  <1>25. ASSUME Age PROVE ReadStands' /\ ReceiptVerifies'
    BY <1>25 DEF Age
  <1>26. ASSUME EvictExpired PROVE ReadStands' /\ ReceiptVerifies'
    BY <1>26 DEF EvictExpired
  <1>27. ASSUME EvictWedged PROVE ReadStands' /\ ReceiptVerifies'
    BY <1>27 DEF EvictWedged, Wedged
  <1>28. ASSUME Crash PROVE ReadStands' /\ ReceiptVerifies'
    BY <1>28 DEF Crash
  <1>29. CASE UNCHANGED runVars
    BY <1>29 DEF runVars
  <1>30. ASSUME NEW s \in Seats, NEW o \in Outcomes, IndexLink(s, o)
         PROVE  ReadStands' /\ ReceiptVerifies'
    BY <1>30 DEF IndexLink, EntryAdded, Call, Outcomes
  <1> QED
    BY <1>1, <1>2, <1>3, <1>4, <1>5, <1>6, <1>7, <1>8, <1>9, <1>10, <1>11, <1>12,
       <1>13, <1>14, <1>15, <1>16, <1>17, <1>18, <1>19, <1>20, <1>21, <1>22, <1>23,
       <1>24, <1>25, <1>26, <1>27, <1>28, <1>29, <1>30
    DEF RunNext, Kickoff, Synthesize, Mint

-----------------------------------------------------------------------------
(* Validation runs: the theorems.                                            *)

LEMMA RunInitially == RunInit => RunIInv
  <1> SUFFICES ASSUME RunInit PROVE RunIInv
    OBVIOUS
  <1> USE ValidationAssumption DEF RunInit, Jobs, Ended, RunRecords, Launches, NoRun,
        NoMint, NoReceipt
  <1>1. RunTypeOK
    <2>1. run \in RunRecords
      OBVIOUS
    <2>2. receipt \in [links : SUBSET Seats, judge : Callers \cup {NoJob},
                       synthesis : {"none", "not_requested", "skipped", "judged"}]
      OBVIOUS
    <2>3. NoMint \in [run : RunRecords, left : SUBSET Jobs]
      OBVIOUS
    <2>4. aged \in BOOLEAN /\ crashed \in BOOLEAN /\ 0 \in 0 .. MaxFaults
      <3>1. 0 \in 0 .. MaxFaults
        BY SMT DEF ValidationAssumption
      <3> QED BY <3>1, Zenon
    <2>5. /\ job \in [Jobs -> {"none", "queued", "running", "deleted"} \cup Ended]
          /\ launch \in [Jobs -> Launches]
      OBVIOUS
    <2> HIDE DEF NoRun, NoReceipt, NoMint, RunRecords
    <2>6. mint \in [Readers -> [run : RunRecords, left : SUBSET Jobs]]
      BY <2>3
    <2> QED BY <2>1, <2>2, <2>4, <2>5, <2>6 DEF RunTypeOK
  <1>2. WithheldNotRun /\ InOrder
    BY DEF WithheldNotRun, InOrder, RightSteps, NothingBegun, RosterComplete, NoneWithheld,
       Unopened, Held
  <1>3. LaunchedWhenOpen /\ SeatsLinked /\ JudgeOfRun /\ EvidenceStands
    BY DEF LaunchedWhenOpen, SeatsLinked, JudgeOfRun, EvidenceStands, Judges, Linked
  <1>4. ReadStands /\ ReceiptVerifies
    BY DEF ReadStands, ReceiptVerifies
  <1> QED BY <1>1, <1>2, <1>3, <1>4 DEF RunIInv

LEMMA RunStep == RunIInv /\ [RunNext]_runVars => RunIInv'
  BY RunTypeStep, WithheldStep, OrderStep, LinksStep, JudgeStep, ReceiptStep DEF RunIInv

LEMMA RunInvariant == RunSpec => []RunIInv
  BY RunInitially, RunStep, PTL DEF RunSpec

\* The columns of the run, its receipt, its jobs and what every call holds keep
\* their types.
THEOREM RunTypes == RunSpec => []RunTypeOK
  <1>1. RunIInv => RunTypeOK
    BY DEF RunIInv
  <1> QED BY <1>1, RunInvariant, PTL

\* startReviewRun's launch barrier holds for any roster, any number of callers
\* and readers, and however many store calls fail.
THEOREM LaunchesBarred == RunSpec => []LaunchBarrier
  <1>1. RunIInv => LaunchBarrier
    BY DEF RunIInv, LaunchBarrier, WithheldNotRun, LaunchedWhenOpen, InOrder, NoneWithheld,
       IsOpen
  <1> QED BY <1>1, RunInvariant, PTL

\* However many callers bind the same evidence at once, one judge is admitted at
\* most, and only after every reviewer has ended.
THEOREM JudgedOnce == RunSpec => []OneJudge
  <1>1. ASSUME RunIInv, request.review PROVE Cardinality(Judges) <= 1
    <2>1. CASE Judges = {}
      BY <2>1, FS_EmptySet
    <2>2. ASSUME NEW c \in Judges PROVE Cardinality(Judges) <= 1
      <3>1. Judges = {c}
        BY <1>1 DEF RunIInv, JudgeOfRun
      <3>2. Cardinality({c}) = 1
        BY FS_Singleton, Zenon
      <3> QED BY <3>1, <3>2
    <2> QED BY <2>1, <2>2
  <1>2. RunIInv => OneJudge
    BY <1>1 DEF RunIInv, OneJudge, Judges, JudgeOfRun, EvidenceStands
  <1> QED BY <1>2, RunInvariant, PTL

\* A receipt stands beside a finalized run and only there, and agrees with it
\* for good, whatever was read before the run changed.
THEOREM ReceiptsVerify == RunSpec => []ReceiptVerifies
  <1>1. RunIInv => ReceiptVerifies
    BY DEF RunIInv
  <1> QED BY <1>1, RunInvariant, PTL

\* A finalized run is a finished record: no call, no sweep and no crash alters or
\* deletes the run or its receipt, and a second mint stores nothing
\* (finalizeValidationReceipt's insert or ignore, evictWedgedValidationRuns).
ReceiptIsFinal == [][run.status = "finalized" => UNCHANGED <<run, receipt>>]_runVars

THEOREM ReceiptsAreFinal == RunSpec => ReceiptIsFinal
  <1>1. ASSUME RunIInv, [RunNext]_runVars
        PROVE  [run.status = "finalized" => UNCHANGED <<run, receipt>>]_runVars
    <2> SUFFICES ASSUME run.status = "finalized" PROVE UNCHANGED <<run, receipt>>
      OBVIOUS
    <2>1. run \in RunRecords /\ receipt # NoReceipt /\ ~Unopened
      BY <1>1 DEF RunIInv, RunTypeOK, ReceiptVerifies, InOrder, NothingBegun, NoReceipt,
         NoRun, Unopened
    <2>2. [run EXCEPT !.status = "finalized"] = run
      BY <2>1 DEF RunRecords
    <2>3. ASSUME Kickoff PROVE UNCHANGED <<run, receipt>>
      BY <2>1, <2>3 DEF Kickoff, Unopened, RecordReview, VerifyLinks, CompleteAdmission,
         FenceAdmission, RecordOrdinary, IndexLink, SkipSeat, CancelSeat, AdmitSeat,
         StartSeats, ReleaseRoster, row
    <2>4. ASSUME NEW j \in Jobs, Launch(j) \/ EndQueued(j) \/ End(j) \/ Recover(j)
          PROVE  UNCHANGED <<run, receipt>>
      BY <2>4 DEF Launch, EndQueued, End, Recover, row
    <2>5. ASSUME NEW c \in Callers, Synthesize(c) PROVE UNCHANGED <<run, receipt>>
      BY <2>5 DEF Synthesize, BindReview, ReleaseJudge, StartJudge, CheckJudge, ClaimJudge,
         SkipJudge, LinkJudge, MayClaimJudge, MayLinkJudge, row
    <2>6. ASSUME NEW r \in Readers, Mint(r) PROVE UNCHANGED <<run, receipt>>
      <3>1. ASSUME NEW o \in Outcomes, Finalize(r, o) PROVE UNCHANGED <<run, receipt>>
        BY <2>1, <2>2, <3>1 DEF Finalize, FinalizedRun
      <3> QED BY <2>6, <3>1 DEF Mint, BeginMint, ReadJob, row
    <2>7. ASSUME Age \/ EvictExpired \/ EvictWedged \/ Crash PROVE UNCHANGED <<run, receipt>>
      BY <2>7 DEF Age, EvictExpired, EvictWedged, Wedged, Crash, row
    <2>8. CASE UNCHANGED runVars
      BY <2>8 DEF runVars, row
    <2> QED BY <1>1, <2>3, <2>4, <2>5, <2>6, <2>7, <2>8 DEF RunNext
  <1> QED BY <1>1, RunInvariant, PTL DEF ReceiptIsFinal, RunSpec


\* ValidationRuns implements RunLedger: whatever kickoff, judge calls, receipt
\* readers, sweeps and a crash do, the row of a run and its receipt make only the
\* moves the ledger names (startReviewRun, persistValidationRun,
\* resolveValidationReceipt and the statements of job-store.ts they call), for
\* any roster, callers and readers.
THEOREM RunLedgerRefined == RunSpec => RunKept
  <1>1. RunInit => Ledger!Init
    BY DEF RunInit, NoRun, Ledger!Init
  <1>2. RunIInv /\ [RunNext]_runVars => [Ledger!Next]_(Ledger!ledger)
    <2> SUFFICES ASSUME RunIInv, [RunNext]_runVars PROVE [Ledger!Next]_(Ledger!ledger)
      OBVIOUS
    <2> USE DEF Ledger!Next, Ledger!Becomes
    <2>1. /\ run \in RunRecords /\ InOrder /\ ReadStands /\ ReceiptVerifies
          /\ mint \in [Readers -> [run : RunRecords, left : SUBSET Jobs]]
      BY DEF RunIInv, RunTypeOK
    <2>2. \A status :
             LET new == [run EXCEPT !.status = status]
             IN  new.status = status /\ new.links = run.links /\ new.judge = run.judge
      BY <2>1 DEF RunRecords
    <2>3. \A c :
             LET new == [run EXCEPT !.judge = c]
             IN  new.judge = c /\ new.status = run.status /\ new.links = run.links
      BY <2>1 DEF RunRecords
    <2>4. CASE UNCHANGED <<run, receipt>>
      BY <2>4 DEF Ledger!ledger
    <2>5. ASSUME NEW o \in Outcomes, RecordReview(o), run' # run
          PROVE  Ledger!Announced
      BY <2>1, <2>2, <2>5 DEF RecordReview, InOrder, NothingBegun, Unopened, NoRun,
         Ledger!Announced
    <2>6. ASSUME NEW o \in Outcomes, CompleteAdmission(o), run' # run PROVE Ledger!Opened
      BY <2>2, <2>6 DEF CompleteAdmission, Ledger!Opened
    <2>7. ASSUME NEW o \in Outcomes, FenceAdmission(o), run' # run PROVE Ledger!GivenUp
      BY <2>2, <2>7 DEF FenceAdmission, Ledger!GivenUp
    <2>8. ASSUME NEW o \in Outcomes, RecordOrdinary(o), run' # run PROVE Ledger!Recorded
      <3>1. run = NoRun
        BY <2>1, <2>8 DEF RecordOrdinary, InOrder, NothingBegun, Unopened
      <3>2. run' = [NoRun EXCEPT !.status = "running", !.links = {s \in Seats : job[s] # "none"}]
        BY <2>8, <3>1 DEF RecordOrdinary
      <3>3. run' = [status |-> "running", links |-> {s \in Seats : job[s] # "none"},
                    judge |-> NoJob]
        BY <3>2 DEF NoRun
      <3> QED BY <2>8, <3>1, <3>3 DEF RecordOrdinary, NoRun, Ledger!Recorded
    <2>9. ASSUME NEW s \in Seats, NEW o \in Outcomes, AdmitSeat(s, o), run' # run
          PROVE  Ledger!SeatLinked
      <3>1. run' = [run EXCEPT !.links = @ \cup {s}]
        BY <2>9 DEF AdmitSeat, row
      <3>2. run'.links = run.links \cup {s} /\ run'.status = run.status /\ run'.judge = run.judge
        BY <2>1, <3>1 DEF RunRecords
      <3> QED BY <2>9, <3>2 DEF AdmitSeat, row, Ledger!SeatLinked
    <2>10. ASSUME NEW c \in Callers, NEW o \in Outcomes, ClaimJudge(c, o) \/ LinkJudge(c, o),
                  run' # run
           PROVE  Ledger!JudgeLinked
      <3>1. /\ run.status = "running" /\ run.judge = NoJob /\ UNCHANGED receipt
            /\ run' = [run EXCEPT !.judge = c]
        BY <2>10 DEF ClaimJudge, LinkJudge, MayClaimJudge, MayLinkJudge, row
      <3> QED BY <2>3, <3>1 DEF Ledger!JudgeLinked
    <2>11. ASSUME NEW c \in Callers, NEW o \in Outcomes, SkipJudge(c, o), run' # run
           PROVE  Ledger!JudgeSkipped
      BY <2>2, <2>11 DEF SkipJudge, MayClaimJudge, Ledger!JudgeSkipped
    <2>12. ASSUME NEW r \in Readers, NEW o \in Outcomes, Finalize(r, o),
                  ~UNCHANGED <<run, receipt>>
           PROVE  Ledger!Finalized
      <3> DEFINE read == mint[r].run
      <3>1. /\ mint[r] # NoMint /\ run.status # "none"
            /\ run' = [run EXCEPT !.status = "finalized"]
            /\ receipt' = IF receipt = NoReceipt THEN ReceiptOf(read) ELSE receipt
        BY <2>12 DEF Finalize, FinalizedRun
      <3>2. /\ run.status \in {"running", "judge_skipped", "finalized"}
            /\ read.links = run.links /\ read.judge \in {run.judge, NoJob}
        BY <2>1, <3>1 DEF ReadStands, IsOpen
      <3>3. run.status # "finalized" /\ receipt = NoReceipt
        <4>1. run.status # "finalized" \/ run' = run
          BY <2>1, <3>1 DEF RunRecords
        <4>2. receipt # NoReceipt <=> run.status = "finalized"
          BY <2>1 DEF ReceiptVerifies
        <4> QED BY <2>12, <3>1, <4>1, <4>2
      <3>4. /\ receipt'.links = run.links /\ receipt'.judge = read.judge
            /\ receipt'.synthesis = "judged" <=> read.judge # NoJob
            /\ receipt' # NoReceipt
        BY <3>1, <3>2, <3>3 DEF ReceiptOf, NoReceipt
      <3> QED BY <2>2, <3>1, <3>2, <3>3, <3>4 DEF Ledger!Finalized
    <2>13. CASE EvictWedged
      BY <2>13 DEF EvictWedged, Wedged, NoRun, Ledger!Forgotten
    <2>14. UNCHANGED receipt \/ \E r \in Readers, o \in Outcomes : Finalize(r, o)
      BY DEF RunNext, runVars, Kickoff, Synthesize, Mint, RecordReview, VerifyLinks,
         CompleteAdmission, FenceAdmission, RecordOrdinary, IndexLink, SkipSeat, CancelSeat,
         AdmitSeat, StartSeats, ReleaseRoster, Launch, EndQueued, End, Recover, BindReview,
         ReleaseJudge, StartJudge, CheckJudge, ClaimJudge, SkipJudge, LinkJudge, BeginMint,
         ReadJob, Age, EvictExpired, EvictWedged, Crash, row
    <2>15. \/ UNCHANGED run \/ EvictWedged
           \/ \E o \in Outcomes :
                 \/ RecordReview(o) \/ CompleteAdmission(o) \/ FenceAdmission(o)
                 \/ RecordOrdinary(o)
                 \/ \E s \in Seats : AdmitSeat(s, o)
                 \/ \E c \in Callers : ClaimJudge(c, o) \/ SkipJudge(c, o) \/ LinkJudge(c, o)
                 \/ \E r \in Readers : Finalize(r, o)
      BY DEF RunNext, runVars, Kickoff, Synthesize, Mint, VerifyLinks, IndexLink, SkipSeat,
         CancelSeat, StartSeats, ReleaseRoster, Launch, EndQueued, End, Recover, BindReview,
         ReleaseJudge, StartJudge, CheckJudge, BeginMint, ReadJob, Age, EvictExpired, Crash,
         row
    <2> QED
      BY <2>4, <2>5, <2>6, <2>7, <2>8, <2>9, <2>10, <2>11, <2>12, <2>13, <2>14, <2>15
  <1> QED BY <1>1, <1>2, RunInvariant, PTL DEF RunSpec, RunKept, Ledger!Spec
=============================================================================
