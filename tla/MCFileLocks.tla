----------------------------- MODULE MCFileLocks -----------------------------
(* Three processes, of which two may die; the bounds are in the cfg.        *)
EXTENDS FileLocks

=============================================================================
