--------------------------- MODULE MCJobLifecycle ---------------------------
(***************************************************************************)
(* JobLifecycle with jobs of both transports and one permit, so that every *)
(* second job has to wait.                                                 *)
(***************************************************************************)
EXTENDS JobLifecycle, TLC

CONSTANTS p1, p2, h1

ProcessSymmetry == Permutations({p1, p2})
=============================================================================
