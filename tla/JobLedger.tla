------------------------------ MODULE JobLedger ------------------------------
(***************************************************************************)
(* What the durable job store promises about one row of the table `jobs',  *)
(* whoever writes it: the transitions of JobStoreStatus                    *)
(* (src/src/job-store.ts).  A row is admitted queued and may start, may be *)
(* presumed dead (orphaned) while it is open, and takes one result.  A     *)
(* result may still replace "orphaned", never another result.  Only a      *)
(* closed row is deleted.                                                  *)
(***************************************************************************)
CONSTANT Jobs

VARIABLE status

Results == {"completed", "failed", "canceled"}
Open    == {"queued", "running"}

Init == status = [j \in Jobs |-> "none"]

Move(j, from, to) ==
    /\ status[j] \in from
    /\ status' = [status EXCEPT ![j] = to]

Admit(j)     == Move(j, {"none"}, "queued")
Start(j)     == Move(j, {"queued"}, "running")
Finish(j, r) == Move(j, Open \cup {"orphaned"}, r)
Delete(j)    == Move(j, Results \cup {"orphaned"}, "deleted")

\* One sweep presumes any number of open rows dead at once.
Orphan(S) ==
    /\ S # {}
    /\ \A j \in S : status[j] \in Open
    /\ status' = [j \in Jobs |-> IF j \in S THEN "orphaned" ELSE status[j]]

Next ==
    \/ \E j \in Jobs : Admit(j) \/ Start(j) \/ Delete(j) \/ \E r \in Results : Finish(j, r)
    \/ \E S \in SUBSET Jobs : Orphan(S)

Spec == Init /\ [][Next]_status
=============================================================================
