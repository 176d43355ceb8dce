------------------------------ MODULE RunLedger ------------------------------
(***************************************************************************)
(* What the row of a validation run and its receipt may become.  The       *)
(* statements of the job store promise less: the one that finalizes a run  *)
(* asks for no status, and the one that records it for no earlier row.     *)
(* (job-store.ts, validation-receipt.ts)                                   *)
(*                                                                         *)
(* A review is announced, linked seat by seat and opened, or given up; an  *)
(* ordinary run is recorded open with its links.  An open run gets one     *)
(* judge or none, and is finalized with a receipt that says so, once and   *)
(* for good; any other run may be forgotten.                               *)
(***************************************************************************)
CONSTANTS Seats,       \* the jobs a run may link
          Judges,      \* the judge jobs it may link
          NoJob,
          NoReceipt

VARIABLES status, links, judge, receipt

ledger == <<status, links, judge, receipt>>

Init == status = "none" /\ links = {} /\ judge = NoJob /\ receipt = NoReceipt

Becomes(from, to) == status = from /\ status' = to

Announced == Becomes("none", "admitting") /\ UNCHANGED <<links, judge, receipt>>

Recorded == /\ Becomes("none", "running")
            /\ links' \in SUBSET Seats
            /\ UNCHANGED <<judge, receipt>>

SeatLinked == /\ status = "admitting"
              /\ \E s \in Seats \ links : links' = links \cup {s}
              /\ UNCHANGED <<status, judge, receipt>>

Opened == Becomes("admitting", "running") /\ UNCHANGED <<links, judge, receipt>>

GivenUp == Becomes("admitting", "admission_failed") /\ UNCHANGED <<links, judge, receipt>>

JudgeLinked == /\ status = "running" /\ judge = NoJob
               /\ judge' \in Judges
               /\ UNCHANGED <<status, links, receipt>>

JudgeSkipped == /\ Becomes("running", "judge_skipped") /\ judge = NoJob
                /\ UNCHANGED <<links, judge, receipt>>

\* The receipt names the links, and the judge unless it came after the results
\* were collected.
Finalized == /\ status \in {"running", "judge_skipped"} /\ status' = "finalized"
             /\ receipt = NoReceipt /\ receipt' # NoReceipt
             /\ receipt'.links = links
             /\ receipt'.judge \in {judge, NoJob}
             /\ receipt'.synthesis = "judged" <=> receipt'.judge # NoJob
             /\ UNCHANGED <<links, judge>>

Forgotten == /\ status \notin {"none", "finalized"}
             /\ status' = "none" /\ links' = {} /\ judge' = NoJob
             /\ UNCHANGED receipt

Next == \/ Announced \/ Recorded \/ SeatLinked \/ Opened \/ GivenUp
        \/ JudgeLinked \/ JudgeSkipped \/ Finalized \/ Forgotten

Spec == Init /\ [][Next]_ledger
=============================================================================
