------------------------ MODULE RequestFlightsProofs ------------------------
(***************************************************************************)
(* Proofs about RequestFlights, for any number of identical requests.      *)
(***************************************************************************)
EXTENDS RequestFlights, TLAPS

-----------------------------------------------------------------------------
(* The inductive invariant.                                                 *)

\* A row is absent until its request, or the manager for it, has started it.
NotStarted(r) ==
    \/ stage[r] = "idle"
    \/ kind[r] = "async" /\ stage[r] \in {"looking", "deciding", "recording", "logging"}
StartedOnce(r) == NotStarted(r) => flight[r] = NoFlight

\* Only a synchronous handler polls, completes and defers, and only an
\* asynchronous start is logged by the manager.
Handlers(r) ==
    /\ stage[r] \in {"polling", "completing", "deferred"} => kind[r] = "sync"
    /\ stage[r] = "logging" => kind[r] = "async"
    /\ stage[r] \in {"polling", "completing"} => uses[r] # None

\* The manager owns the rows of asynchronous requests and of the jobs some
\* request has deferred to; a handler that completed its row has left.
Deferred(r) == \E q \in Requests : uses[q] = r /\ stage[q] = "deferred"
Owners(r) ==
    /\ "handler" \in writers[r] => kind[r] = "sync" /\ stage[r] = "answered"
    /\ "manager" \in writers[r] \/ write[r].sent => r \in armed
    /\ write[r].ran => write[r].sent
    /\ r \in armed => kind[r] = "async" \/ Deferred(r)

\* A terminal pipeline belongs to a job that is over, and a job begins with the
\* decision not to share another.
Pipelines(r) ==
    /\ pipelines[r] > 0 => Over(r)
    /\ stage[r] \in {"idle", "looking", "deciding"} => status[r] = "none"

RequestInv(r) == StartedOnce(r) /\ Handlers(r) /\ Owners(r) /\ Pipelines(r)

IInv == TypeOK /\ \A r \in Requests : RequestInv(r)

USE RequestsAssumption DEF vars, handler, job, manager, flights

-----------------------------------------------------------------------------
(* Types.                                                                   *)

LEMMA CompletedTypes ==
    ASSUME TypeOK, NEW r \in Requests, NEW rank \in 1 .. 2,
           NEW by \in {"handler", "manager", "sweep"}, Completed(r, rank, by)
    PROVE  /\ flight' \in [Requests -> FlightRows]
           /\ writers' \in [Requests -> SUBSET {"handler", "manager", "sweep"}]
           /\ overtaken' \subseteq Requests
  <1>. DEFINE completed == [status |-> "done", rank |-> rank, by |-> by]
  <1>0. completed \in FlightRows
    BY DEF FlightRows
  <1>. HIDE DEF completed
  <1>1. flight' = [flight EXCEPT ![r] = completed] \/ flight' = flight
    BY DEF Completed, completed
  <1>2. writers' = [writers EXCEPT ![r] = @ \cup {by}] \/ writers' = writers
    BY DEF Completed
  <1>3. overtaken' \subseteq overtaken \cup {r}
    BY DEF Completed
  <1>4. flight' \in [Requests -> FlightRows]
    <2>1. flight \in [Requests -> FlightRows]
      BY DEF TypeOK
    <2>. QED
      BY <1>0, <1>1, <2>1
  <1>5. writers' \in [Requests -> SUBSET {"handler", "manager", "sweep"}]
    <2>1. writers \in [Requests -> SUBSET {"handler", "manager", "sweep"}]
      BY DEF TypeOK
    <2>2. writers[r] \cup {by} \in SUBSET {"handler", "manager", "sweep"}
      BY <2>1
    <2>. QED
      BY <1>2, <2>1, <2>2
  <1>6. overtaken' \subseteq Requests
    BY <1>3 DEF TypeOK
  <1>. QED
    BY <1>4, <1>5, <1>6

LEMMA StartedTypes ==
    ASSUME TypeOK, NEW r \in Requests, Started(r)
    PROVE  /\ flight' \in [Requests -> FlightRows]
           /\ \A q \in Requests \ {r} : flight'[q] = flight[q]
  <1>. DEFINE begun == [NoFlight EXCEPT !.status = "started"]
  <1>0. begun \in FlightRows
    BY DEF FlightRows, NoFlight
  <1>. HIDE DEF begun
  <1>1. flight' = [flight EXCEPT ![r] = begun]
    BY DEF Started, begun
  <1>. QED
    BY <1>0, <1>1 DEF TypeOK

LEMMA HasJobTypes ==
    ASSUME TypeOK, NEW r \in Requests, NEW j \in Requests, HasJob(r, j)
    PROVE  /\ uses' \in [Requests -> Requests \cup {None}]
           /\ stage' \in [Requests -> Stages]
           /\ polls' \in Seq(Requests)
  <1>1. "polling" \in Stages /\ "answered" \in Stages
    BY DEF Stages
  <1>2. Append(polls, r) \in Seq(Requests)
    BY DEF TypeOK
  <1>3. uses \in [Requests -> Requests \cup {None}] /\ stage \in [Requests -> Stages]
        /\ polls \in Seq(Requests)
    BY DEF TypeOK
  <1>4. uses' \in [Requests -> Requests \cup {None}]
    BY <1>3 DEF HasJob
  <1>5. stage' \in [Requests -> Stages]
    BY <1>1, <1>3 DEF HasJob
  <1>6. polls' \in Seq(Requests)
    BY <1>2, <1>3 DEF HasJob
  <1>. QED
    BY <1>4, <1>5, <1>6

LEMMA StartTypes ==
    ASSUME TypeOK, NEW r \in Requests, StartSteps(r)
    PROVE  TypeOK'
  <1> USE DEF TypeOK, Stages
  <1>1. CASE Begin(r)
    BY <1>1, StartedTypes DEF Begin
  <1>2. CASE LookUp(r)
    BY <1>2 DEF LookUp, Reusable
  <1>3. CASE Reuse(r)
    BY <1>3, HasJobTypes DEF Reuse
  <1>4. CASE Create(r)
    BY <1>4 DEF Create, ArmedAtStart
  <1>5. CASE Recorded(r)
    <2>1. CASE kind[r] = "sync"
      BY <1>5, <2>1, HasJobTypes DEF Recorded
    <2>2. CASE kind[r] # "sync"
      BY <1>5, <2>2 DEF Recorded
    <2>. QED
      BY <2>1, <2>2
  <1>6. CASE Logged(r)
    BY <1>6, HasJobTypes, StartedTypes DEF Logged
  <1>. QED
    BY <1>1, <1>2, <1>3, <1>4, <1>5, <1>6 DEF StartSteps

LEMMA JobTypes ==
    ASSUME TypeOK, NEW r \in Requests,
           Launch(r) \/ EndEarly(r) \/ Close(r) \/ Sweep(r) \/ SweepCompletes(r)
    PROVE  TypeOK'
  <1>1. CASE Launch(r)
    BY <1>1 DEF TypeOK, Launch
  <1>2. CASE EndEarly(r)
    BY <1>2 DEF TypeOK, EndEarly, TerminalPipeline
  <1>3. CASE Close(r)
    <2>1. status' \in [Requests -> {"none", "queued", "running", "completed", "failed"}]
      <3>1. status \in [Requests -> {"none", "queued", "running", "completed", "failed"}]
        BY DEF TypeOK
      <3>2. CASE UNCHANGED status
        BY <3>1, <3>2
      <3>3. CASE \E t \in {"completed", "failed"} : status' = [status EXCEPT ![r] = t]
        BY <3>1, <3>3
      <3>. QED
        BY <1>3, <3>2, <3>3 DEF Close
    <2>2. closed' \subseteq Requests /\ pipelines' \in [Requests -> Nat]
      BY <1>3 DEF TypeOK, Close, TerminalPipeline
    <2>. QED
      BY <1>3, <2>1, <2>2 DEF TypeOK, Close
  <1>4. CASE Sweep(r)
    BY <1>4 DEF TypeOK, Sweep
  <1>5. CASE SweepCompletes(r)
    BY <1>5, CompletedTypes DEF TypeOK, SweepCompletes
  <1>. QED
    BY <1>1, <1>2, <1>3, <1>4, <1>5

LEMMA WriteTypes ==
    ASSUME TypeOK, NEW r \in Requests, Pipelines(r), WriteSteps(r)
    PROVE  TypeOK'
  <1>1. CASE Persisted(r)
    BY <1>1 DEF TypeOK, Persisted, Pipelines, Over
  <1>2. CASE SendFlight(r)
    <2>1. [write[r] EXCEPT !.sent = TRUE] \in Writes
      <3>1. write[r] \in Writes
        BY DEF TypeOK
      <3>. QED
        BY <3>1 DEF Writes
    <2>2. write' \in [Requests -> Writes]
      BY <1>2, <2>1 DEF TypeOK, SendFlight
    <2>. QED
      BY <1>2, <2>2 DEF TypeOK, SendFlight
  <1>3. CASE FlightRuns(r)
    <2>1. [write[r] EXCEPT !.ran = TRUE] \in Writes
      <3>1. write[r] \in Writes
        BY DEF TypeOK
      <3>. QED
        BY <3>1 DEF Writes
    <2>2. write' \in [Requests -> Writes]
      BY <1>3, <2>1 DEF TypeOK, FlightRuns
    <2>. QED
      BY <1>3, <2>2, CompletedTypes DEF TypeOK, FlightRuns
  <1>4. CASE FlightAnswered(r)
    BY <1>4 DEF TypeOK, FlightAnswered, NoWrite, Writes
  <1>. QED
    BY <1>1, <1>2, <1>3, <1>4 DEF WriteSteps

LEMMA PollTypes ==
    ASSUME TypeOK, NEW r \in Requests, Handlers(r), PollSteps(r) \/ Expire(r)
    PROVE  TypeOK'
  <1>1. CASE FindOver(r)
    BY <1>1 DEF TypeOK, FindOver, Stages
  <1>2. CASE CompleteInline(r)
    BY <1>2, CompletedTypes DEF TypeOK, CompleteInline, Stages
  <1>3. CASE Defer(r)
    BY <1>3 DEF TypeOK, Defer, Arm, Handlers, Stages
  <1>4. CASE Expire(r)
    BY <1>4 DEF TypeOK, Expire
  <1>. QED
    BY <1>1, <1>2, <1>3, <1>4 DEF PollSteps

LEMMA NextTypes ==
    ASSUME IInv, [Next]_vars
    PROVE  TypeOK'
  <1>1. ASSUME NEW r \in Requests, StartSteps(r)
        PROVE  TypeOK'
    BY <1>1, StartTypes DEF IInv
  <1>2. ASSUME NEW r \in Requests, PollSteps(r) \/ Expire(r)
        PROVE  TypeOK'
    BY <1>2, PollTypes DEF IInv, RequestInv
  <1>3. ASSUME NEW r \in Requests, WriteSteps(r)
        PROVE  TypeOK'
    BY <1>3, WriteTypes DEF IInv, RequestInv
  <1>4. ASSUME NEW r \in Requests,
               Launch(r) \/ EndEarly(r) \/ Close(r) \/ Sweep(r) \/ SweepCompletes(r)
        PROVE  TypeOK'
    BY <1>4, JobTypes DEF IInv
  <1>5. CASE UNCHANGED vars
    BY <1>5 DEF IInv, TypeOK
  <1>. QED
    BY <1>1, <1>2, <1>3, <1>4, <1>5 DEF Next

-----------------------------------------------------------------------------
(* The rows.                                                                *)

\* A handler that has deferred stays so, with its job.
LEMMA DeferredStays ==
    ASSUME IInv, Next, NEW q \in Requests, stage[q] = "deferred"
    PROVE  stage'[q] = "deferred" /\ uses'[q] = uses[q]
  <1> USE DEF IInv, TypeOK
  <1>1. ASSUME NEW r \in Requests, StartSteps(r)
        PROVE  stage'[q] = "deferred" /\ uses'[q] = uses[q]
    BY <1>1 DEF StartSteps, Begin, LookUp, Reuse, Create, Recorded, Logged, HasJob
  <1>2. ASSUME NEW r \in Requests, PollSteps(r) \/ Expire(r)
        PROVE  stage'[q] = "deferred" /\ uses'[q] = uses[q]
    BY <1>2 DEF PollSteps, FindOver, CompleteInline, Defer, Expire
  <1>3. ASSUME NEW r \in Requests, WriteSteps(r)
        PROVE  stage'[q] = "deferred" /\ uses'[q] = uses[q]
    BY <1>3 DEF WriteSteps, Persisted, SendFlight, FlightRuns, FlightAnswered
  <1>4. ASSUME NEW r \in Requests,
               Launch(r) \/ EndEarly(r) \/ Close(r) \/ Sweep(r) \/ SweepCompletes(r)
        PROVE  stage'[q] = "deferred" /\ uses'[q] = uses[q]
    BY <1>4 DEF Launch, EndEarly, Close, Sweep, SweepCompletes
  <1>. QED
    BY <1>1, <1>2, <1>3, <1>4 DEF Next

LEMMA DeferredKept ==
    ASSUME IInv, Next, NEW q \in Requests, Deferred(q)
    PROVE  Deferred(q)'
  <1>1. PICK d \in Requests : uses[d] = q /\ stage[d] = "deferred"
    BY DEF Deferred
  <1>2. stage'[d] = "deferred" /\ uses'[d] = q
    BY <1>1, DeferredStays
  <1>. QED
    BY <1>2 DEF Deferred

\* What a completion does to the rows.
LEMMA CompletedRows ==
    ASSUME TypeOK, NEW r \in Requests, NEW rank \in 1 .. 2,
           NEW by \in {"handler", "manager", "sweep"}, Completed(r, rank, by), NEW q \in Requests
    PROVE  /\ flight[q] = NoFlight => flight'[q] = NoFlight
           /\ flight[q].rank = 2 => flight'[q].rank = 2
           /\ q # r => writers'[q] = writers[q]
           /\ writers'[q] \subseteq writers[q] \cup {by}
  <1>. flight[q] \in FlightRows /\ flight[r] \in FlightRows
    BY DEF TypeOK
  <1>1. CASE Lands(r, rank)
    BY <1>1 DEF TypeOK, Completed, Lands, NoFlight, FlightRows
  <1>2. CASE ~Lands(r, rank)
    BY <1>2 DEF Completed
  <1>. QED
    BY <1>1, <1>2

LEMMA StartInv ==
    ASSUME IInv, NEW r \in Requests, StartSteps(r), NEW q \in Requests
    PROVE  RequestInv(q)'
  <1> USE DEF IInv, TypeOK, RequestInv, StartedOnce, NotStarted, Handlers, Owners, Pipelines, Over
  <1>0. Next
    BY DEF Next
  <1>. Deferred(q) => Deferred(q)'
    BY <1>0, DeferredKept
  <1>1. CASE Begin(r)
    BY <1>1 DEF Begin, Started, NoFlight
  <1>2. CASE LookUp(r)
    BY <1>2 DEF LookUp, Reusable
  <1>3. CASE Reuse(r)
    BY <1>3 DEF Reuse, HasJob
  <1>4. CASE Create(r)
    <2>1. armed' \subseteq armed \cup {r} /\ (r \in armed' \ armed => kind[r] = "async")
      <3>1. armed' = IF ArmedAtStart(r) THEN armed \cup {r} ELSE armed
        BY <1>4 DEF Create
      <3>2. CASE kind[r] = "async"
        BY <3>1, <3>2 DEF ArmedAtStart
      <3>3. CASE kind[r] # "async"
        BY <3>1, <3>3 DEF ArmedAtStart
      <3>. QED
        BY <3>2, <3>3
    <2>2. pipelines[r] > 0 => FALSE
      BY <1>4 DEF Create
    <2>. QED
      BY <1>4, <2>1, <2>2 DEF Create
  <1>5. CASE Recorded(r)
    BY <1>5 DEF Recorded, HasJob
  <1>6. CASE Logged(r)
    BY <1>6 DEF Logged, HasJob, Started, NoFlight
  <1>. QED
    BY <1>1, <1>2, <1>3, <1>4, <1>5, <1>6 DEF StartSteps

LEMMA JobInv ==
    ASSUME IInv, NEW r \in Requests, NEW q \in Requests,
           Launch(r) \/ EndEarly(r) \/ Close(r) \/ Sweep(r) \/ SweepCompletes(r)
    PROVE  RequestInv(q)'
  <1> USE DEF IInv, RequestInv, StartedOnce, NotStarted, Handlers, Owners, Pipelines, Over
  <1>0. Next
    BY DEF Next
  <1>. Deferred(q) => Deferred(q)'
    BY <1>0, DeferredKept
  <1>1. CASE Launch(r)
    BY <1>1 DEF TypeOK, Launch
  <1>2. CASE EndEarly(r)
    BY <1>2 DEF TypeOK, EndEarly, TerminalPipeline
  <1>3. CASE Close(r)
    BY <1>3 DEF TypeOK, Close, TerminalPipeline
  <1>4. CASE Sweep(r)
    BY <1>4 DEF TypeOK, Sweep
  <1>5. CASE SweepCompletes(r)
    <2>1. /\ flight[q] = NoFlight => flight'[q] = NoFlight
          /\ writers'[q] \subseteq writers[q] \cup {"sweep"}
      BY <1>5, CompletedRows DEF SweepCompletes
    <2>. QED
      BY <1>5, <2>1 DEF SweepCompletes
  <1>. QED
    BY <1>1, <1>2, <1>3, <1>4, <1>5

LEMMA WriteInv ==
    ASSUME IInv, NEW r \in Requests, NEW q \in Requests, WriteSteps(r)
    PROVE  RequestInv(q)'
  <1> USE DEF IInv, RequestInv, StartedOnce, NotStarted, Handlers, Owners, Pipelines, Over
  <1>0. Next
    BY DEF Next
  <1>. Deferred(q) => Deferred(q)'
    BY <1>0, DeferredKept
  <1>1. CASE Persisted(r)
    BY <1>1 DEF TypeOK, Persisted
  <1>2. CASE SendFlight(r)
    BY <1>2 DEF TypeOK, SendFlight
  <1>3. CASE FlightRuns(r)
    <2>1. /\ flight[q] = NoFlight => flight'[q] = NoFlight
          /\ q # r => writers'[q] = writers[q]
          /\ writers'[q] \subseteq writers[q] \cup {"manager"}
      BY <1>3, CompletedRows DEF FlightRuns
    <2>2. /\ q # r => write'[q] = write[q]
          /\ write'[r].sent /\ write[r].sent
      BY <1>3 DEF FlightRuns, TypeOK
    <2>. QED
      BY <1>3, <2>1, <2>2 DEF FlightRuns
  <1>4. CASE FlightAnswered(r)
    BY <1>4 DEF TypeOK, FlightAnswered, NoWrite, Writes
  <1>. QED
    BY <1>1, <1>2, <1>3, <1>4 DEF WriteSteps

LEMMA PollInv ==
    ASSUME IInv, NEW r \in Requests, NEW q \in Requests, PollSteps(r) \/ Expire(r)
    PROVE  RequestInv(q)'
  <1> USE DEF IInv, RequestInv, StartedOnce, NotStarted, Handlers, Owners, Pipelines, Over
  <1>0. Next
    BY DEF Next
  <1>. Deferred(q) => Deferred(q)'
    BY <1>0, DeferredKept
  <1>1. CASE FindOver(r)
    BY <1>1 DEF TypeOK, FindOver, Stages
  <1>2. CASE CompleteInline(r)
    <2>1. /\ flight[q] = NoFlight => flight'[q] = NoFlight
          /\ q # r => writers'[q] = writers[q]
          /\ writers'[q] \subseteq writers[q] \cup {"handler"}
      BY <1>2, CompletedRows DEF CompleteInline
    <2>2. kind[r] = "sync" /\ stage'[r] = "answered"
      BY <1>2 DEF CompleteInline, TypeOK
    <2>. QED
      BY <1>2, <2>1, <2>2 DEF CompleteInline, TypeOK
  <1>3. CASE Defer(r)
    <2>1. uses[r] \in Requests /\ armed' = armed \cup {uses[r]}
      BY <1>3 DEF TypeOK, Defer, Arm
    <2>2. uses'[r] = uses[r] /\ stage'[r] = "deferred"
      BY <1>3 DEF TypeOK, Defer
    <2>3. Deferred(uses[r])'
      BY <2>2 DEF Deferred
    <2>. QED
      BY <1>3, <2>1, <2>3 DEF TypeOK, Defer
  <1>4. CASE Expire(r)
    BY <1>4 DEF TypeOK, Expire
  <1>. QED
    BY <1>1, <1>2, <1>3, <1>4 DEF PollSteps

LEMMA Inductive == Init /\ [][Next]_vars => []IInv
  <1>1. Init => IInv
    BY DEF Init, IInv, TypeOK, RequestInv, StartedOnce, NotStarted, Handlers, Owners, Pipelines,
           NoWrite, NoFlight, Stages, FlightRows, Writes
  <1>2. ASSUME IInv, [Next]_vars, NEW q \in Requests
        PROVE  RequestInv(q)'
    <2>1. CASE UNCHANGED vars
      BY <1>2, <2>1 DEF IInv, RequestInv, StartedOnce, NotStarted, Handlers, Owners, Deferred,
                        Pipelines, Over
    <2>. QED
      BY <1>2, <2>1, StartInv, JobInv, WriteInv, PollInv DEF Next
  <1>3. IInv /\ [Next]_vars => IInv'
    BY <1>2, NextTypes DEF IInv
  <1>. QED
    BY <1>1, <1>3, PTL

-----------------------------------------------------------------------------
(* Theorems.                                                                *)

\* The state of any number of requests, their jobs and their flight rows is
\* well typed (the handlers of index.ts and async-job-manager.ts).
THEOREM FlightsTypes == Spec => []TypeOK
  <1>1. IInv => TypeOK
    BY DEF IInv
  <1>. QED
    BY <1>1, Inductive, PTL DEF Spec

\* What a process observed is never replaced by a presumption, for any number
\* of requests, jobs and sweeps in any order (completion_rank).
THEOREM ObservationsStand == Spec => ObservedStands
  <1>1. ASSUME IInv, Next, NEW q \in Requests, flight[q].rank = 2
        PROVE  flight'[q].rank = 2
    <2> USE DEF IInv, TypeOK, RequestInv, StartedOnce, NotStarted, Handlers
    <2>1. ASSUME NEW r \in Requests, StartSteps(r)
          PROVE  flight'[q].rank = 2
      <3>1. CASE Begin(r) \/ Logged(r)
        <4>1. flight[r] = NoFlight
          BY <1>1, <3>1 DEF Begin, Logged
        <4>2. q # r
          BY <1>1, <4>1 DEF NoFlight
        <4>3. CASE Started(r)
          BY <1>1, <4>2, <4>3, StartedTypes
        <4>4. CASE UNCHANGED flight
          BY <1>1, <4>4
        <4>. QED
          BY <3>1, <4>3, <4>4 DEF Begin, Logged
      <3>2. CASE LookUp(r) \/ Reuse(r) \/ Create(r) \/ Recorded(r)
        BY <1>1, <3>2 DEF LookUp, Reuse, Create, Recorded
      <3>. QED
        BY <2>1, <3>1, <3>2 DEF StartSteps
    <2>2. ASSUME NEW r \in Requests, PollSteps(r) \/ Expire(r)
          PROVE  flight'[q].rank = 2
      BY <1>1, <2>2, CompletedRows DEF PollSteps, FindOver, CompleteInline, Defer, Expire
    <2>3. ASSUME NEW r \in Requests, WriteSteps(r)
          PROVE  flight'[q].rank = 2
      BY <1>1, <2>3, CompletedRows DEF WriteSteps, Persisted, SendFlight, FlightRuns, FlightAnswered
    <2>4. ASSUME NEW r \in Requests,
                 Launch(r) \/ EndEarly(r) \/ Close(r) \/ Sweep(r) \/ SweepCompletes(r)
          PROVE  flight'[q].rank = 2
      BY <1>1, <2>4, CompletedRows DEF Launch, EndEarly, Close, Sweep, SweepCompletes
    <2>. QED
      BY <1>1, <2>1, <2>2, <2>3, <2>4 DEF Next
  <1>2. IInv /\ [Next]_vars
          => [\A r \in Requests : flight[r].rank = 2 => flight'[r].rank = 2]_vars
    BY <1>1
  <1>. QED
    BY <1>2, Inductive, PTL DEF Spec, ObservedStands

\* Handler and manager complete one row only where another request was
\* deferred to its job (FlightOwnership, armFlightCompleteForDeferral).
THEOREM RowsCompletedByOne == Spec => []CompletedByOne
  <1>1. IInv => CompletedByOne
    <2> SUFFICES ASSUME IInv, NEW r \in Requests, {"handler", "manager"} \subseteq writers[r]
                 PROVE  \E q \in Requests \ {r} : uses[q] = r /\ stage[q] = "deferred"
      BY DEF CompletedByOne
    <2>1. kind[r] = "sync" /\ stage[r] = "answered" /\ r \in armed
      BY DEF IInv, RequestInv, Owners
    <2>2. PICK q \in Requests : uses[q] = r /\ stage[q] = "deferred"
      BY <2>1 DEF IInv, RequestInv, Owners, Deferred
    <2>. QED
      BY <2>1, <2>2
  <1>. QED
    BY <1>1, Inductive, PTL DEF Spec
=============================================================================
