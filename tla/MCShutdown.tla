----------------------------- MODULE MCShutdown -----------------------------
(***************************************************************************)
(* Shutdown with one or two jobs, so that one can be at any point of its   *)
(* start while the other ends.                                             *)
(***************************************************************************)
EXTENDS Shutdown, TLC

CONSTANTS j1, j2

JobSymmetry == Permutations({j1, j2})
=============================================================================
