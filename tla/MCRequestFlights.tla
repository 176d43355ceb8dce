-------------------------- MODULE MCRequestFlights --------------------------
(* Two identical requests.  Either may come first, so r1 does; r1's job is  *)
(* the one that may end before its close and whose row may be swept.        *)
EXTENDS RequestFlights

CONSTANTS r1, r2

Bounded == /\ stage'[r2] # "idle" => stage[r1] # "idle"
           /\ presumed' \subseteq {r1}
           /\ ~EndEarly(r2)

BoundedSpec == Init /\ [][Next /\ Bounded]_vars /\ Fairness
=============================================================================
