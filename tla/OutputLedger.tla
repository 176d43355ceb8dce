---------------------------- MODULE OutputLedger ----------------------------
(***************************************************************************)
(* What the statements of the job store promise about the body of one row: *)
(* the output written so far and the accounting of its capture.            *)
(*                                                                         *)
(* While the row is open its owner rewrites the body.  Another gateway may *)
(* presume the job dead: that freezes the body until the owner brings a    *)
(* result.  After the result the owner may still add what the child wrote  *)
(* on its way out.  The capture is accounted for once; a stand-in written  *)
(* for an owner that disappeared yields to the owner's own accounting.     *)
(***************************************************************************)
CONSTANTS Outputs,          \* what a job may have written
          NoCapture,        \* capture_status IS NULL
          StandIn           \* not_captured, with the recovery error

VARIABLES status, body, capture

ledger == <<status, body, capture>>

Init == status = "open" /\ body \in Outputs /\ capture = NoCapture

Written == status = "open" /\ body' \in Outputs /\ UNCHANGED <<status, capture>>

PresumedDead == status = "open" /\ status' = "orphaned" /\ UNCHANGED <<body, capture>>

Accounted(old, new) == \/ new = old
                       \/ old = NoCapture /\ new \in Outputs

Completed == /\ status \in {"open", "orphaned"}
             /\ status' = "ended"
             /\ body' \in Outputs
             /\ Accounted(capture, capture')

Rescued == status = "ended" /\ body' \in Outputs /\ UNCHANGED <<status, capture>>

Captured == /\ status = "ended"
            /\ capture \in {NoCapture, StandIn}
            /\ capture' \in Outputs
            /\ UNCHANGED <<status, body>>

OwnerDisappeared == /\ status # "open"
                    /\ capture = NoCapture
                    /\ capture' = StandIn
                    /\ UNCHANGED <<status, body>>

Next == Written \/ PresumedDead \/ Completed \/ Rescued \/ Captured \/ OwnerDisappeared

Spec == Init /\ [][Next]_ledger
=============================================================================
