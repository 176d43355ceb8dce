--------------------------- MODULE RequestFlights ---------------------------
(***************************************************************************)
(* Identical requests, the jobs they start or share, and their rows in the *)
(* flight recorder.  A synchronous request writes its own start row, polls *)
(* its job until a deadline and then either completes the row itself or    *)
(* leaves that to the manager; an asynchronous one leaves the whole row to *)
(* the manager.  A request may be given the job of an earlier identical    *)
(* one.  A sweep of another gateway completes the rows of jobs it presumes *)
(* dead.  (index.ts awaitJobOrDefer, async-job-manager.ts,                 *)
(* flight-ownership.ts, flight-recorder.ts)                                *)
(*                                                                         *)
(* A job has the name of the request that started it.  The store is        *)
(* PostgreSQL: other events come between a call and its answer.  Writes of *)
(* the recorder do not fail here.                                          *)
(***************************************************************************)
EXTENDS Naturals, Sequences, FiniteSets

CONSTANTS Requests,         \* identical requests of one principal
          None              \* no request

ASSUME RequestsAssumption == None \notin Requests

VARIABLES
    kind,       \* "sync" or "async"
    stage,      \* how far the handler of the request is
    seen,       \* the row its lookup found
    uses,       \* the job it was given
    polls,      \* requests in the order of their deadlines
    expired,    \* requests whose deadline has passed
    status,     \* job.status; "none" before the job exists
    waits,      \* the limiter queued the job
    closed,     \* job.closeObserved
    row,        \* the job's row in the store
    pipelines,  \* terminal pipelines before their recordComplete is through
    due,        \* flight completions waiting on terminalWriteChain
    write,      \* the logComplete in flight
    armed,      \* job.flightCompleteArmed
    done,       \* job.flightRecorderComplete
    presumed,   \* swept jobs whose flight row the sweep is about to complete
    flight,     \* the flight rows: [status, rank, by]
    writers,    \* history: who completed the row while it stood
    overtaken   \* history: rows whose completion came before their start

handler == <<kind, stage, seen, uses, polls, expired>>
job     == <<status, waits, closed>>
manager == <<pipelines, due, write, armed, done>>
flights == <<flight, writers, overtaken>>
vars    == <<handler, job, row, manager, presumed, flights>>

NoWrite == [sent |-> FALSE, ran |-> FALSE]
NoFlight == [status |-> "absent", rank |-> 0, by |-> "nobody"]

Init == /\ kind \in [Requests -> {"sync", "async"}]
        /\ stage = [r \in Requests |-> "idle"]
        /\ seen = [r \in Requests |-> None]
        /\ uses = [r \in Requests |-> None]
        /\ polls = <<>> /\ expired = {}
        /\ status = [r \in Requests |-> "none"]
        /\ waits = [r \in Requests |-> FALSE]
        /\ closed = {}
        /\ row = [r \in Requests |-> "absent"]
        /\ pipelines = [r \in Requests |-> 0]
        /\ due = [r \in Requests |-> 0]
        /\ write = [r \in Requests |-> NoWrite]
        /\ armed = {} /\ done = {} /\ presumed = {}
        /\ flight = [r \in Requests |-> NoFlight]
        /\ writers = [r \in Requests |-> {}]
        /\ overtaken = {}

Over(j) == status[j] \in {"completed", "failed"}

-----------------------------------------------------------------------------
(* The flight recorder.                                                    *)

\* logStart.
Started(r) == flight' = [flight EXCEPT ![r] = [NoFlight EXCEPT !.status = "started"]]

\* Defect: the last writer wins.
Lands_Last(r, rank) == flight[r].status # "absent"

\* Authority, not arrival, decides: 1 for a presumption of the sweep, 2 for
\* what a process observed.
Lands(r, rank) == flight[r].status # "absent" /\ flight[r].rank <= rank

\* logComplete: response and metadata are fenced alike.
Completed(r, rank, by) ==
    IF Lands(r, rank)
    THEN /\ flight' = [flight EXCEPT ![r] = [status |-> "done", rank |-> rank, by |-> by]]
         /\ writers' = [writers EXCEPT ![r] = @ \cup {by}]
         /\ UNCHANGED overtaken
    ELSE /\ overtaken' = IF flight[r].status = "absent" THEN overtaken \cup {r} ELSE overtaken
         /\ UNCHANGED <<flight, writers>>

-----------------------------------------------------------------------------
(* The start of a request.                                                 *)

\* A synchronous handler awaits flight.start() before anything else.
Begin(r) == /\ stage[r] = "idle"
            /\ stage' = [stage EXCEPT ![r] = "looking"]
            /\ IF kind[r] = "sync" THEN Started(r) ELSE UNCHANGED flight
            /\ UNCHANGED <<kind, seen, uses, polls, expired, job, row, manager, presumed,
                           writers, overtaken>>

\* findByRequestKey: open and completed rows may be reused.
Reusable == {j \in Requests : row[j] \in {"open", "completed"}}

LookUp(r) == /\ stage[r] = "looking"
             /\ stage' = [stage EXCEPT ![r] = "deciding"]
             /\ \E j \in IF Reusable = {} THEN {None} ELSE Reusable :
                  seen' = [seen EXCEPT ![r] = j]
             /\ UNCHANGED <<kind, uses, polls, expired, job, row, manager, presumed, flights>>

\* Where a handler goes once it has its job.
HasJob(r, j) == /\ uses' = [uses EXCEPT ![r] = j]
                /\ IF kind[r] = "sync"
                   THEN /\ stage' = [stage EXCEPT ![r] = "polling"]
                        /\ polls' = Append(polls, r)
                   ELSE /\ stage' = [stage EXCEPT ![r] = "answered"]
                        /\ UNCHANGED polls

\* tryReuseDedupedJob: the job is taken as it is in memory.
Reuse(r) == /\ stage[r] = "deciding" /\ seen[r] # None
            /\ HasJob(r, seen[r])
            /\ UNCHANGED <<kind, seen, expired, job, row, manager, presumed, flights>>

\* Defect: the manager completes the row of a synchronous request as well.
ArmedAtStart_Always(r) == TRUE

\* writeFlightStart: only the asynchronous path leaves the row to the manager.
ArmedAtStart(r) == kind[r] = "async"

\* startJobWithDedup: the job enters the map and the limiter.
Create(r) == /\ stage[r] = "deciding" /\ seen[r] = None
             /\ stage' = [stage EXCEPT ![r] = "recording"]
             /\ status' = [status EXCEPT ![r] = "queued"]
             /\ \E queued \in BOOLEAN : waits' = [waits EXCEPT ![r] = queued]
             /\ armed' = IF ArmedAtStart(r) THEN armed \cup {r} ELSE armed
             /\ UNCHANGED <<kind, seen, uses, polls, expired, closed, row, pipelines, due,
                            write, done, presumed, flights>>

\* recordStart has inserted the row.
Recorded(r) == /\ stage[r] = "recording"
               /\ row' = [row EXCEPT ![r] = "open"]
               /\ IF kind[r] = "sync"
                  THEN HasJob(r, r)
                  ELSE /\ stage' = [stage EXCEPT ![r] = "logging"]
                       /\ UNCHANGED <<uses, polls>>
               /\ UNCHANGED <<kind, seen, expired, job, manager, presumed, flights>>

\* The manager's logStart of an asynchronous request.
Logged(r) == /\ stage[r] = "logging"
             /\ Started(r)
             /\ HasJob(r, r)
             /\ UNCHANGED <<kind, seen, expired, job, row, manager, presumed, writers, overtaken>>

-----------------------------------------------------------------------------
(* The job.                                                                *)

\* A granted job is launched at the end of its start call, a queued one by
\* whoever releases a permit.
Launch(j) == /\ status[j] = "queued" /\ row[j] # "absent"
             /\ waits[j] \/ stage[j] # "logging"
             /\ status' = [status EXCEPT ![j] = "running"]
             /\ UNCHANGED <<handler, waits, closed, row, manager, presumed, flights>>

TerminalPipeline(j) == pipelines' = [pipelines EXCEPT ![j] = @ + 1]

\* Cancellation, timeouts and overflow, while the child lives on; a job that
\* still waits has no child.
EndEarly(j) == /\ \/ status[j] = "running"
                  \/ status[j] = "queued" /\ waits[j] /\ row[j] # "absent"
               /\ status' = [status EXCEPT ![j] = "failed"]
               /\ closed' = IF status[j] = "queued" THEN closed \cup {j} ELSE closed
               /\ TerminalPipeline(j)
               /\ UNCHANGED <<handler, waits, row, due, write, armed, done, presumed, flights>>

\* The child's close event.
Close(j) == /\ j \notin closed
            /\ \/ /\ status[j] = "running"
                  /\ \E s \in {"completed", "failed"} : status' = [status EXCEPT ![j] = s]
               \/ Over(j) /\ UNCHANGED status
            /\ closed' = closed \cup {j}
            /\ TerminalPipeline(j)
            /\ UNCHANGED <<handler, waits, row, due, write, armed, done, presumed, flights>>

\* recordComplete is through; writeFlightComplete joins the chain behind it.
Persisted(j) == /\ pipelines[j] > 0
                /\ pipelines' = [pipelines EXCEPT ![j] = @ - 1]
                /\ row' = IF row[j] \in {"open", "orphaned"}
                          THEN [row EXCEPT ![j] = status[j]] ELSE row
                /\ due' = [due EXCEPT ![j] = @ + 1]
                /\ UNCHANGED <<handler, job, write, armed, done, presumed, flights>>

\* writeFlightCompleteBody up to its await.
SendFlight(j) == /\ due[j] > 0 /\ ~write[j].sent
                 /\ due' = [due EXCEPT ![j] = @ - 1]
                 /\ write' = IF j \in armed /\ j \notin done
                             THEN [write EXCEPT ![j].sent = TRUE]
                             ELSE write
                 /\ UNCHANGED <<handler, job, row, pipelines, armed, done, presumed, flights>>

FlightRuns(j) == /\ write[j].sent /\ ~write[j].ran
                 /\ write' = [write EXCEPT ![j].ran = TRUE]
                 /\ Completed(j, 2, "manager")
                 /\ UNCHANGED <<handler, job, row, pipelines, due, armed, done, presumed>>

\* A process job stays eligible for another write until its close was seen,
\* which is asked after the await.
FlightAnswered(j) == /\ write[j].ran
                     /\ write' = [write EXCEPT ![j] = NoWrite]
                     /\ done' = IF j \in closed THEN done \cup {j} ELSE done
                     /\ UNCHANGED <<handler, job, row, pipelines, due, armed, presumed, flights>>

-----------------------------------------------------------------------------
(* The rest of a synchronous request.                                      *)

\* A deadline is a constant after the start of the polling.
Expire(r) == /\ stage[r] = "polling" /\ r \notin expired
             /\ \A i \in 1 .. Len(polls) :
                  polls[i] = r => \A k \in 1 .. i - 1 : polls[k] \in expired \/
                                                       stage[polls[k]] # "polling"
             /\ expired' = expired \cup {r}
             /\ UNCHANGED <<kind, stage, seen, uses, polls, job, row, manager, presumed, flights>>

\* The poll that finds the job over before the deadline.
FindOver(r) == /\ stage[r] = "polling" /\ r \notin expired /\ Over(uses[r])
               /\ stage' = [stage EXCEPT ![r] = "completing"]
               /\ UNCHANGED <<kind, seen, uses, polls, expired, job, row, manager, presumed, flights>>

\* FlightOwnership.completeInline.
CompleteInline(r) == /\ stage[r] = "completing"
                     /\ stage' = [stage EXCEPT ![r] = "answered"]
                     /\ Completed(r, 2, "handler")
                     /\ UNCHANGED <<kind, seen, uses, polls, expired, job, row, manager, presumed>>

\* Defect: a job that ended before it was armed is left as it is.
Arm_NoRecovery(j) == armed' = armed \cup {j} /\ UNCHANGED due

\* armFlightCompleteForDeferral: a job that is over already has passed its
\* terminal callback by.
Arm(j) == /\ armed' = armed \cup {j}
          /\ due' = IF j \notin armed /\ Over(j) THEN [due EXCEPT ![j] = @ + 1] ELSE due

\* The deadline has passed: the manager owns the completion from here on.
Defer(r) == /\ stage[r] = "polling" /\ r \in expired
            /\ stage' = [stage EXCEPT ![r] = "deferred"]
            /\ Arm(uses[r])
            /\ UNCHANGED <<kind, seen, uses, polls, expired, job, row, pipelines, write, done,
                           presumed, flights>>

-----------------------------------------------------------------------------
(* Another gateway, while this one does not renew its leases.              *)

Sweep(j) == /\ row[j] = "open"
            /\ row' = [row EXCEPT ![j] = "orphaned"]
            /\ presumed' = presumed \cup {j}
            /\ UNCHANGED <<handler, job, manager, flights>>

SweepCompletes(j) == /\ j \in presumed
                     /\ presumed' = presumed \ {j}
                     /\ Completed(j, 1, "sweep")
                     /\ UNCHANGED <<handler, job, row, manager>>

-----------------------------------------------------------------------------
StartSteps(r) == \/ Begin(r) \/ LookUp(r) \/ Reuse(r) \/ Create(r) \/ Recorded(r) \/ Logged(r)
PollSteps(r)  == FindOver(r) \/ CompleteInline(r) \/ Defer(r)
WriteSteps(j) == Persisted(j) \/ SendFlight(j) \/ FlightRuns(j) \/ FlightAnswered(j)

Next == \E r \in Requests : \/ StartSteps(r) \/ PollSteps(r) \/ Expire(r)
                            \/ Launch(r) \/ EndEarly(r) \/ Close(r)
                            \/ WriteSteps(r)
                            \/ Sweep(r) \/ SweepCompletes(r)

\* Calls are answered, timers fire, a permit comes, and a child that was
\* launched closes.
Fairness == \A r \in Requests : /\ WF_vars(LookUp(r) \/ Reuse(r) \/ Create(r) \/ Recorded(r) \/ Logged(r))
                                /\ WF_vars(PollSteps(r)) /\ WF_vars(Expire(r))
                                /\ WF_vars(Launch(r)) /\ WF_vars(Close(r))
                                /\ WF_vars(WriteSteps(r))

Spec == Init /\ [][Next]_vars /\ Fairness

-----------------------------------------------------------------------------
(* Properties.                                                             *)

Stages == {"idle", "looking", "deciding", "recording", "logging",
           "polling", "completing", "deferred", "answered"}
FlightRows == [status : {"absent", "started", "done"}, rank : 0 .. 2,
               by : {"nobody", "handler", "manager", "sweep"}]
Writes == [sent : BOOLEAN, ran : BOOLEAN]

\* Every variable keeps the type of what it stands for.
TypeOK == /\ kind \in [Requests -> {"sync", "async"}]
          /\ stage \in [Requests -> Stages]
          /\ seen \in [Requests -> Requests \cup {None}]
          /\ uses \in [Requests -> Requests \cup {None}]
          /\ polls \in Seq(Requests)
          /\ status \in [Requests -> {"none", "queued", "running", "completed", "failed"}]
          /\ waits \in [Requests -> BOOLEAN]
          /\ row \in [Requests -> {"absent", "open", "orphaned", "completed", "failed"}]
          /\ pipelines \in [Requests -> Nat] /\ due \in [Requests -> Nat]
          /\ write \in [Requests -> Writes]
          /\ expired \subseteq Requests /\ closed \subseteq Requests
          /\ armed \subseteq Requests /\ done \subseteq Requests
          /\ presumed \subseteq Requests /\ overtaken \subseteq Requests
          /\ flight \in [Requests -> FlightRows]
          /\ writers \in [Requests -> SUBSET {"handler", "manager", "sweep"}]

\* Two gateways' view of one row: what a process observed is never replaced by
\* what a sweep presumed, whichever comes first (completion_rank).
ObservedStands == [][\A r \in Requests : flight[r].rank = 2 => flight'[r].rank = 2]_vars

\* A handler that answered inline and the manager do not both complete a row,
\* unless a later request shares the job and was deferred: that one arms the
\* first request's row (armFlightCompleteForDeferral).
CompletedByOne ==
    \A r \in Requests : {"handler", "manager"} \subseteq writers[r] =>
        \E q \in Requests \ {r} : uses[q] = r /\ stage[q] = "deferred"

\* Every flight row that was started is completed in the end, although its
\* handler leaves; excepted are the row of a deferred request that shares
\* another's job, and a completion that came before the start row.
FlightsComplete ==
    \A r \in Requests : flight[r].status = "started" ~>
        \/ flight[r].status = "done"
        \/ r \in overtaken
        \/ stage[r] = "deferred" /\ uses[r] # r

=============================================================================
