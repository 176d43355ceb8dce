----------------------------- MODULE MCJobLeases -----------------------------
(***************************************************************************)
(* JobLeases with two instances.  A lease is two heartbeat intervals, the  *)
(* shortest config.ts accepts.                                             *)
(***************************************************************************)
EXTENDS JobLeases

CONSTANTS i1, i2, j1, h1

MCInstances == {i1, i2}
SameHost    == [i \in MCInstances |-> "host"]

\* With one job one instance owns it, and the other can do it no more harm by
\* crashing or beating late (both only keep it from sweeping) than by staying up;
\* nothing tells a cancelled job from a failed one.
OwnerAndWatcher ==
    /\ proc'[i2] # "crashed"
    /\ due'[i2] # "late"
    /\ \A j \in Jobs : owner'[j] # i2 /\ result'[j] # "canceled"

\* One job of either kind, which fails if it ends; only the watcher sweeps
\* (OwnershipProofs has the safety properties with every instance sweeping).
OneFailure ==
    /\ Cardinality({j \in Jobs : status'[j] # "none"}) <= 1
    /\ \A j \in Jobs : result'[j] # "completed"

LivenessSpec ==
    /\ Init /\ [][Next /\ OwnerAndWatcher /\ OneFailure /\ ~sweeping'[i1]]_vars
    /\ WF_vars(Tick) /\ SweepFairness(i2) /\ PersistFairness(i1)
=============================================================================
