---------------------------- MODULE MCJobLimiter ----------------------------
(***************************************************************************)
(* JobLimiter with three providers, room for two permits, one per provider,*)
(* and a queue of two: with four tickets the queue fills, either cap binds *)
(* alone (the third provider's waiter has only the global cap against it   *)
(* and competes for a permit with newcomers of the other two), a waiter can*)
(* be blocked by its provider while a later one of another is not, and a   *)
(* permit can be released while two waiters are runnable.                  *)
(***************************************************************************)
EXTENDS JobLimiter, TLC

CONSTANTS t1, t2, t3, t4, p1, p2, p3

MCTickets   == {t1, t2, t3, t4}
MCProviders == {p1, p2, p3}
=============================================================================
