----------------------------- MODULE MCJobOutput -----------------------------
(* One job, swept and collected at any point; its bound is in the cfg.       *)
EXTENDS JobOutput

=============================================================================
