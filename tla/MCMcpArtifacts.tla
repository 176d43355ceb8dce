--------------------------- MODULE MCMcpArtifacts ---------------------------
(***************************************************************************)
(* McpArtifacts with one job, two gateways of its machine and one of       *)
(* another.                                                                *)
(***************************************************************************)
EXTENDS McpArtifacts

CONSTANTS a1, a2, b1, j1

MCGateways == {a1, a2, b1}
MCHostOf   == [g \in MCGateways |-> IF g = b1 THEN "b" ELSE "a"]

\* The job is a1's.  The other machine only sweeps, so that it may as well stay up;
\* two of the four kinds of fault occur in one behaviour.
Bounds ==
    /\ \A j \in Jobs : owner'[j] \in {a1, NoGateway}
    /\ b1 \in up' /\ cleaner'[b1] = AtRest
    /\ faults'["refusals"] + faults'["losses"] + faults'["lapses"] + faults'["crashes"] <= 2

\* No fairness is asked of the other machine.
MCSpec ==
    /\ Init /\ [][Next /\ Bounds]_vars
    /\ OwnerFairness(j1)
    /\ \A g \in {a1, a2} : Restarted(g)
    /\ SF_vars(SweepOwnerless(a2))
=============================================================================
