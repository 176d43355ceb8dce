--------------------------- MODULE CircuitBreaker ---------------------------
(***************************************************************************)
(* withRetry of src/src/retry.ts: the calls that share one circuit breaker *)
(* (one command of executor.ts, one provider of api-provider.ts), each     *)
(* trying its operation up to failureThreshold times.  Everything between  *)
(* two awaits is one step: the admission with the first try, the end of a  *)
(* try with what the loop does next, the end of a backoff with a new try.  *)
(*                                                                         *)
(* age is the time since lastFailureTime in ticks, -1 for null; it stops   *)
(* after ResetTimeout, and failures at Threshold, where nothing in the     *)
(* code tells larger values apart.  A backoff is shorter than resetTimeout *)
(* or longer: it may end at any time.                                      *)
(***************************************************************************)
EXTENDS Integers

CONSTANTS
    Calls,         \* callers of withRetry
    Threshold,     \* failureThreshold, also the number of tries of a call
    ResetTimeout   \* resetTimeout, in ticks

ASSUME BreakerAssumption == Threshold \in Nat \ {0} /\ ResetTimeout \in Nat

VARIABLES
    state,     \* circuitBreaker.state
    failures,  \* circuitBreaker.failures
    age,       \* the age of circuitBreaker.lastFailureTime
    call,      \* "running" (its operation is awaited), "sleeping", "returned" once it
               \* succeeded, "idle" before and after an error
    attempt    \* the try of a call that is not over

breakerVars == <<state, failures, age, call, attempt>>

Over == {"idle", "returned"}

BreakerInit ==
    /\ state = "CLOSED"
    /\ failures = 0
    /\ age = -1
    /\ call = [c \in Calls |-> "idle"]
    /\ attempt = [c \in Calls |-> 1]

\* A null lastFailureTime counts as the epoch.
Elapsed == age = -1 \/ age > ResetTimeout

\* A call that is refused ("failing fast") changes nothing.
Refused == state = "OPEN" /\ ~Elapsed

Counted == IF failures < Threshold THEN failures + 1 ELSE Threshold

\* The admission of a call and the start of its first try.
CallBegins(c) ==
    /\ ~Refused
    /\ state' = IF state = "OPEN" THEN "HALF_OPEN" ELSE state
    /\ call' = [call EXCEPT ![c] = "running"]
    /\ attempt' = [attempt EXCEPT ![c] = 1]
    /\ UNCHANGED <<failures, age>>

\* The backoff is over.  The loop does not look at the breaker again.
RetryBegins(c) ==
    /\ call' = [call EXCEPT ![c] = "running"]
    /\ attempt' = [attempt EXCEPT ![c] = @ + 1]
    /\ UNCHANGED <<state, failures, age>>

Finish(c, how) ==
    /\ call' = [call EXCEPT ![c] = how]
    /\ attempt' = [attempt EXCEPT ![c] = 1]

\* Defect: a success is noted only while the breaker is closed.
Succeeds_ClosedOnly(c) ==
    /\ IF failures > 0 /\ state = "CLOSED"
         THEN failures' = 0 /\ age' = -1
         ELSE UNCHANGED <<failures, age>>
    /\ Finish(c, "returned")
    /\ UNCHANGED state

\* Any success closes the breaker, also one of a try begun before it opened.
Succeeds(c) ==
    /\ IF failures > 0 \/ state = "HALF_OPEN"
         THEN state' = "CLOSED" /\ failures' = 0 /\ age' = -1
         ELSE UNCHANGED <<state, failures, age>>
    /\ Finish(c, "returned")

\* An error that is not transient leaves the breaker alone, half open too.
FailsForGood(c) ==
    /\ Finish(c, "idle")
    /\ UNCHANGED <<state, failures, age>>

\* A transient error counts, opens the breaker if it has to, and is retried if
\* neither the breaker nor the number of tries forbids it.
FailsForNow(c) ==
    LET opens == state = "HALF_OPEN" \/ Counted = Threshold IN
    /\ failures' = Counted
    /\ age' = 0
    /\ state' = IF opens THEN "OPEN" ELSE state
    /\ IF opens \/ attempt[c] = Threshold
         THEN Finish(c, "idle")
         ELSE call' = [call EXCEPT ![c] = "sleeping"] /\ UNCHANGED attempt

\* The end of an operation, with what withRetry does about it.
OperationEnds(c, outcome) ==
    \/ outcome = "success" /\ Succeeds(c)
    \/ outcome = "permanent" /\ FailsForGood(c)
    \/ outcome = "transient" /\ FailsForNow(c)

TimePasses ==
    /\ age \in 0..ResetTimeout
    /\ age' = age + 1
    /\ UNCHANGED <<state, failures, call, attempt>>

=============================================================================
