----------------------------- MODULE MCExecutor -----------------------------
(***************************************************************************)
(* Executor with two callers of one command and two tries: c1 meets all    *)
(* that can happen to a process, c2 is a straggler with plain processes.   *)
(***************************************************************************)
EXTENDS Executor

CONSTANTS c1, c2

\* It ends well or as after a timeout, and leaves no kin.
Plain(g) ==
    /\ ~kin'[g] /\ ~pending'[g] /\ stdin'[g] = "succeeded"
    /\ leader'[g] \notin {"unborn", "other"}

SecondIsPlain == \A t \in Tries : Plain(<<c2, t>>)

\* The kin that outlives a try is the first one's, whether or not there is a second.
FirstForks == ~kin'[<<c1, 2>>]

\* The straggler matters to the breaker, not to the shutdown; the provider's recovery
\* to a gateway that stays, and not to the descendants of a leader.
OneAtATime == /\ leaving' # "no" => call'[c2] \in Over /\ ~healthy'
              /\ healthy' => \A g \in Groups : ~kin'[g]

BoundedSpec == Init /\ [][Next /\ SecondIsPlain /\ FirstForks /\ OneAtATime]_vars /\ Fairness
=============================================================================
