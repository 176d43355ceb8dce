--------------------------- MODULE MCValidationRuns ---------------------------
(* Two seats, two judge calls, two readers.  Of several interchangeable      *)
(* actors the first moves first; only the first seat's job ends while it is  *)
(* queued, only a reviewer's fails, and only the first seat's and the first  *)
(* judge's output is cut.  One store call or the gateway fails at most; as   *)
(* soon as one does, or an output is cut or a link not indexed, there is one *)
(* reader, and one judge call unless it was a store call.                    *)
EXTENDS ValidationRuns

CONSTANTS p1, p2, c1, c2, r1, r2

InTurn == /\ p1 \in todo /\ p2 \in todo => p2 \in todo' \/ p1 \notin todo'
          /\ synth'[c2] # "idle" => synth'[c1] # "idle"
          /\ mint[r2] = NoMint /\ mint'[r2] # NoMint => mint[r1] # NoMint

Narrow == /\ job[p2] = "queued" /\ job'[p2] = "failed" => kickoff = "cancel" \/ crashed
          /\ \A j \in Jobs : job[j] # "failed" /\ job'[j] = "failed" =>
                 crashed \/ (request.review /\ j \in Seats)
          /\ \A j \in Jobs : job'[j] = "truncated" => j \in {p1, c1}

\* Two calls of a judge meet one reader, two readers one call.
Pairs == mint'[r2] # NoMint => synth'[c2] = "idle"

\* What may go wrong: a crash, a store call, an output that is cut, a link that
\* is not in the index.
Cut == \E j \in Jobs : job[j] = "truncated"
Unindexed == ~(Linked(run) \subseteq indexed \cup todo)

OneFailure == /\ ~(crashed' /\ faults' > 0)
              /\ crashed' \/ faults' > 0 \/ Cut' \/ Unindexed' => mint'[r2] = NoMint
              /\ crashed' \/ Cut' \/ Unindexed' => synth'[c2] = "idle"

BoundedSpec == RunInit /\ [][RunNext /\ InTurn /\ Narrow /\ Pairs /\ OneFailure]_runVars
               /\ RunFairness

=============================================================================
