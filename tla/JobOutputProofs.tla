--------------------------- MODULE JobOutputProofs ---------------------------
(***************************************************************************)
(* Proofs about JobOutput, for every amount of output: types, the capture  *)
(* that accounts for the whole of it, the output that a settled job has in *)
(* its row, and the refinement of OutputLedger.                            *)
(***************************************************************************)
EXTENDS JobOutput, TLAPS

-----------------------------------------------------------------------------
(* The inductive invariant.                                                 *)

\* No statement asks to write an orphaned row's output, and a capture that is
\* on its way accounts for all that a closed child wrote.
CallSound(call) ==
    /\ "orphaned" \notin call.fence
    /\ call.capture # StandIn
    /\ call.kind = "capture" => call.capture \in Outputs
    /\ call.capture \in Outputs => closed /\ call.capture = output

FlushSound == flush.kind \in {"none", "output"} /\ "orphaned" \notin flush.fence

IInv == TypeOK /\ CaptureIsWhole /\ CallSound(step) /\ FlushSound

USE OutputAssumption DEF vars, memory, flags, chain, history

-----------------------------------------------------------------------------
(* Calls and what they do to the row.                                       *)

Kinds == {"none", "output", "complete", "capture", "readback"}

LEMMA Constants ==
    /\ NoCapture \in Captures /\ StandIn \in Captures /\ Outputs \subseteq Captures
    /\ NoCapture \notin Outputs /\ StandIn \notin Outputs /\ NoCapture # StandIn
    /\ 0 \in Outputs
  BY DEF NoCapture, StandIn, Captures, Outputs

LEMMA CallTypes ==
    /\ NoCall \in Calls
    /\ \A kind \in Kinds, body \in Outputs, fence \in SUBSET {"open", "orphaned", "ended"},
          capture \in Captures : Call(kind, body, fence, capture) \in Calls
    /\ \A call \in Calls, answer \in {"none", "applied", "rejected", "error"} :
          [call EXCEPT !.answer = answer] \in Calls
  <1>. HIDE DEF Captures, Outputs, NoCapture
  <1>. QED
    BY Constants DEF Calls, NoCall, Call, Kinds

\* The effects a statement may have.
Rewrites(call) == /\ row.status \in call.fence
                  /\ row' = [row EXCEPT !.body = call.body]
Completes(call) == /\ row.status \in {"open", "orphaned"}
                   /\ row' = [status |-> "ended", body |-> call.body,
                              capture |-> IF row.capture = NoCapture THEN call.capture
                                                                     ELSE row.capture]
Accounts(call) == /\ row.status = "ended" /\ row.capture \in {NoCapture, StandIn}
                  /\ row' = [row EXCEPT !.capture = call.capture]

LEMMA Effect ==
    ASSUME NEW call \in Calls, NEW answer, Outcome(call, answer)
    PROVE  \/ row' = row
           \/ call.kind = "output" /\ Rewrites(call)
           \/ call.kind = "complete" /\ Completes(call)
           \/ call.kind = "capture" /\ Accounts(call)
  <1>1. call.kind \in Kinds \ {"none"}
    BY DEF Outcome, Calls, Kinds
  <1>2. row' = row \/ row' = Written(call)
    BY DEF Outcome
  <1>3. CASE call.kind = "output"
    BY <1>2, <1>3 DEF Written, OutputWritten, Rewrites
  <1>4. CASE call.kind = "complete"
    BY <1>2, <1>4 DEF Written, CompletionWritten, CompletionApplied, Completes
  <1>5. CASE call.kind = "capture"
    BY <1>2, <1>5 DEF Written, CaptureWritten, CaptureApplied, Accounts
  <1>6. CASE call.kind = "readback"
    BY <1>2, <1>6 DEF Written
  <1>. QED
    BY <1>1, <1>3, <1>4, <1>5, <1>6 DEF Kinds

LEMMA EffectTypes ==
    ASSUME NEW call \in Calls, NEW answer, Outcome(call, answer), row \in Rows
    PROVE  row' \in Rows
  <1>. HIDE DEF Captures, Outputs, NoCapture, StandIn
  <1>0. call.body \in Outputs /\ call.capture \in Captures
    BY DEF Calls
  <1>1. CASE row' = row
    BY <1>1
  <1>2. CASE Rewrites(call)
    BY <1>0, <1>2 DEF Rewrites, Rows
  <1>3. CASE Completes(call)
    BY <1>0, <1>3 DEF Completes, Rows
  <1>4. CASE Accounts(call)
    BY <1>0, <1>4 DEF Accounts, Rows
  <1>. QED
    BY <1>1, <1>2, <1>3, <1>4, Effect

\* The capture of the row after a sound statement.
LEMMA EffectCaptures ==
    ASSUME NEW call \in Calls, NEW answer, Outcome(call, answer), row \in Rows, CaptureIsWhole,
           call.capture \in Outputs => closed /\ call.capture = output,
           UNCHANGED <<output, closed>>
    PROVE  CaptureIsWhole'
  <1>. HIDE DEF Captures, Outputs, NoCapture, StandIn
  <1>1. row'.capture \in {row.capture, call.capture}
    BY Effect DEF Rewrites, Completes, Accounts, Rows
  <1>. QED
    BY <1>1 DEF CaptureIsWhole

-----------------------------------------------------------------------------
(* Types.                                                                   *)

LEMMA CaptureStepTypes ==
    ASSUME TypeOK, CaptureStep
    PROVE  step' \in Calls /\ timer' \in BOOLEAN /\ acknowledged' \in BOOLEAN
  <1>0. CaptureNow \in Captures
    BY Constants DEF TypeOK, CaptureNow
  <1>1. CASE PipelineEnds
    BY <1>1, CallTypes DEF PipelineEnds, TypeOK
  <1>2. CASE step' = Call("capture", 0, {}, CaptureNow) /\ UNCHANGED <<timer, acknowledged>>
    BY <1>0, <1>2, CallTypes, Constants DEF Kinds, TypeOK
  <1>. QED
    BY <1>1, <1>2 DEF CaptureStep

LEMMA OwnerTypes ==
    ASSUME TypeOK, Chunk \/ MaybeFlush \/ EndEarly \/ Close \/ RetryTimer
    PROVE  TypeOK'
  <1>1. CASE Chunk
    BY <1>1 DEF TypeOK, Chunk, Outputs
  <1>2. CASE MaybeFlush
    <2>1. decisions' \in Nat
      BY <1>2 DEF TypeOK, MaybeFlush
    <2>2. dirty' \in BOOLEAN
      BY <1>2 DEF TypeOK, MaybeFlush
    <2>3. flushes' \in Seq(Outputs)
      <3>1. Append(flushes, output) \in Seq(Outputs)
        BY DEF TypeOK
      <3>. QED
        BY <1>2, <3>1 DEF TypeOK, MaybeFlush
    <2>. QED
      BY <1>2, <2>1, <2>2, <2>3 DEF TypeOK, MaybeFlush
  <1>3. CASE EndEarly
    BY <1>3 DEF TypeOK, EndEarly
  <1>4. CASE Close
    BY <1>4 DEF TypeOK, Close
  <1>5. CASE RetryTimer
    <2>1. waiting' \in Nat
      BY <1>5 DEF TypeOK, RetryTimer
    <2>2. timer' \in BOOLEAN
      BY <1>5 DEF RetryTimer
    <2>. QED
      BY <1>5, <2>1, <2>2 DEF TypeOK, RetryTimer
  <1>. QED
    BY <1>1, <1>2, <1>3, <1>4, <1>5

LEMMA OthersTypes ==
    ASSUME TypeOK, Sweep \/ Collect \/ Register
    PROVE  TypeOK'
  <1>1. CASE Sweep
    <2>1. row' \in Rows
      BY <1>1 DEF TypeOK, Sweep, Rows
    <2>. QED
      BY <1>1, <2>1 DEF TypeOK, Sweep
  <1>2. CASE Collect
    <2>1. row' \in Rows
      BY <1>2, Constants DEF TypeOK, Collect, Rows
    <2>. QED
      BY <1>2, <2>1 DEF TypeOK, Collect
  <1>3. CASE Register
    BY <1>3 DEF TypeOK, Register
  <1>. QED
    BY <1>1, <1>2, <1>3

LEMMA FlushTypes ==
    ASSUME TypeOK, SendFlush \/ FlushRuns \/ FlushAnswered
    PROVE  TypeOK'
  <1>1. CASE SendFlush
    <2>1. flushes' \in Seq(Outputs) /\ Head(flushes) \in Outputs
      BY <1>1 DEF TypeOK, SendFlush
    <2>2. OwnedStatuses \in SUBSET {"open", "orphaned", "ended"}
      BY DEF OwnedStatuses
    <2>3. flush' \in Calls
      BY <1>1, <2>1, <2>2, CallTypes, Constants DEF SendFlush, Kinds
    <2>. QED
      BY <1>1, <2>1, <2>3 DEF TypeOK, SendFlush
  <1>2. CASE FlushRuns
    <2>1. row' \in Rows
      BY <1>2, EffectTypes DEF TypeOK, FlushRuns
    <2>2. flush' \in Calls
      <3>1. PICK answer \in {"applied", "rejected", "error"} : flush' = [flush EXCEPT !.answer = answer]
        BY <1>2 DEF FlushRuns
      <3>2. flush \in Calls
        BY DEF TypeOK
      <3>. QED
        BY <3>1, <3>2, CallTypes
    <2>. QED
      BY <1>2, <2>1, <2>2 DEF TypeOK, FlushRuns
  <1>3. CASE FlushAnswered
    BY <1>3, CallTypes DEF TypeOK, FlushAnswered
  <1>. QED
    BY <1>1, <1>2, <1>3

LEMMA PipelineTypes ==
    ASSUME TypeOK, Pipeline
    PROVE  TypeOK'
  <1>0. CaptureNow \in Captures /\ OwnedStatuses \in SUBSET {"open", "orphaned", "ended"}
    BY Constants DEF TypeOK, CaptureNow, OwnedStatuses
  <1>1. CASE Begin
    <2>1. step' \in Calls /\ timer' \in BOOLEAN /\ acknowledged' \in BOOLEAN
      <3>1. CASE step' = Call("complete", output, {}, CaptureNow) /\ UNCHANGED <<timer, acknowledged>>
        BY <1>0, <3>1, CallTypes DEF Kinds, TypeOK
      <3>2. CASE step' = Call("output", output, OwnedStatuses, NoCapture)
                 /\ UNCHANGED <<timer, acknowledged>>
        BY <1>0, <3>2, CallTypes, Constants DEF Kinds, TypeOK
      <3>3. CASE CaptureStep
        BY <3>3, CaptureStepTypes
      <3>. QED
        BY <1>1, <3>1, <3>2, <3>3 DEF Begin
    <2>2. waiting' \in Nat
      BY <1>1 DEF Begin, TypeOK
    <2>3. dirty' \in BOOLEAN
      BY <1>1 DEF Begin
    <2>. QED
      BY <1>1, <2>1, <2>2, <2>3 DEF TypeOK, Begin
  <1>2. CASE StepRuns
    <2>1. row' \in Rows
      BY <1>2, EffectTypes DEF TypeOK, StepRuns
    <2>2. step' \in Calls
      <3>1. PICK answer \in {"applied", "rejected", "error"} : step' = [step EXCEPT !.answer = answer]
        BY <1>2 DEF StepRuns
      <3>2. step \in Calls
        BY DEF TypeOK
      <3>. QED
        BY <3>1, <3>2, CallTypes
    <2>3. crossed' \in BOOLEAN /\ unheard' \in BOOLEAN
      BY <1>2 DEF TypeOK, StepRuns
    <2>. QED
      BY <1>2, <2>1, <2>2, <2>3 DEF TypeOK, StepRuns
  <1>3. CASE CompleteAnswered
    <2>1. step' \in Calls
      BY <1>3, CallTypes, Constants DEF CompleteAnswered, PipelineRetries, Kinds
    <2>2. timer' \in BOOLEAN /\ crossed' \in BOOLEAN
      BY <1>3 DEF TypeOK, CompleteAnswered, PipelineRetries
    <2>3. /\ persisted' \in BOOLEAN /\ owned' \in BOOLEAN /\ lost' \in BOOLEAN
          /\ captured' \in BOOLEAN /\ acknowledged' \in BOOLEAN
      BY <1>3 DEF TypeOK, CompleteAnswered, RowWonBack
    <2>. QED
      BY <1>3, <2>1, <2>2, <2>3 DEF TypeOK, CompleteAnswered
  <1>4. CASE LateOutputAnswered
    <2>1. step' \in Calls /\ timer' \in BOOLEAN /\ acknowledged' \in BOOLEAN
      BY <1>4, CaptureStepTypes DEF LateOutputAnswered
    <2>2. lost' \in BOOLEAN
      BY <1>4 DEF TypeOK, LateOutputAnswered
    <2>. QED
      BY <1>4, <2>1, <2>2 DEF TypeOK, LateOutputAnswered
  <1>5. CASE CaptureAnswered
    <2>1. step' \in Calls
      BY <1>0, <1>5, CallTypes, Constants DEF CaptureAnswered, PipelineEnds, Kinds
    <2>2. captured' \in BOOLEAN /\ acknowledged' \in BOOLEAN /\ timer' \in BOOLEAN
      BY <1>5 DEF TypeOK, CaptureAnswered, PipelineEnds
    <2>. QED
      BY <1>5, <2>1, <2>2 DEF TypeOK, CaptureAnswered
  <1>6. CASE ReadbackAnswered
    <2>1. step' \in Calls
      BY <1>6, CallTypes DEF ReadbackAnswered, PipelineEnds, CaptureMissing, PipelineRetries
    <2>2. timer' \in BOOLEAN /\ acknowledged' \in BOOLEAN /\ captured' \in BOOLEAN
      BY <1>6 DEF TypeOK, ReadbackAnswered, PipelineEnds, CaptureMissing, PipelineRetries
    <2>. QED
      BY <1>6, <2>1, <2>2 DEF TypeOK, ReadbackAnswered
  <1>. QED
    BY <1>1, <1>2, <1>3, <1>4, <1>5, <1>6 DEF Pipeline

-----------------------------------------------------------------------------
(* The capture.                                                             *)

LEMMA CallFields ==
    ASSUME NEW kind, NEW body, NEW fence, NEW capture
    PROVE  LET call == Call(kind, body, fence, capture)
           IN  /\ call.kind = kind /\ call.body = body /\ call.fence = fence
               /\ call.capture = capture /\ call.answer = "none"
  BY DEF Call

LEMMA NoCallFields == NoCall.kind = "none" /\ NoCall.answer = "none"
  BY DEF NoCall

LEMMA CaptureNowSound ==
    ASSUME TypeOK
    PROVE  /\ CaptureNow # StandIn
           /\ CaptureNow \in Outputs => closed /\ CaptureNow = output
           /\ CaptureNow # NoCapture => CaptureNow \in Outputs
  BY Constants DEF TypeOK, CaptureNow

LEMMA NoCallSound == CallSound(NoCall) /\ CallSound(NoCall)'
  BY Constants DEF CallSound, NoCall

LEMMA CaptureStepSound ==
    ASSUME TypeOK, CaptureStep, UNCHANGED <<output, closed>>
    PROVE  CallSound(step)'
  <1>1. CASE step' = NoCall
    BY <1>1, NoCallSound DEF CallSound
  <1>2. CASE /\ CaptureNow # NoCapture
             /\ step' = Call("capture", 0, {}, CaptureNow)
    BY <1>2, CallFields, CaptureNowSound DEF CallSound
  <1>. QED
    BY <1>1, <1>2 DEF CaptureStep, PipelineEnds

LEMMA PipelineSound ==
    ASSUME IInv, Pipeline
    PROVE  CaptureIsWhole' /\ CallSound(step)' /\ FlushSound'
  <1>0. TypeOK /\ CaptureIsWhole /\ CallSound(step) /\ FlushSound
    BY DEF IInv
  <1>1. CASE Begin
    <2>1. UNCHANGED <<row, output, closed, flush>>
      BY <1>1 DEF Begin
    <2>2. CASE step' = Call("complete", output, {}, CaptureNow)
      BY <1>0, <2>1, <2>2, CallFields, CaptureNowSound DEF CallSound, CaptureIsWhole, FlushSound
    <2>3. CASE step' = Call("output", output, OwnedStatuses, NoCapture)
      BY <1>0, <2>1, <2>3, CallFields, Constants
         DEF CallSound, CaptureIsWhole, FlushSound, OwnedStatuses
    <2>4. CASE CaptureStep
      BY <1>0, <2>1, <2>4, CaptureStepSound DEF CaptureIsWhole, FlushSound
    <2>. QED
      BY <1>1, <2>2, <2>3, <2>4 DEF Begin
  <1>2. CASE StepRuns
    <2>1. UNCHANGED <<output, closed, flush>> /\ step \in Calls /\ row \in Rows
      BY <1>0, <1>2 DEF StepRuns, TypeOK
    <2>2. PICK answer \in {"applied", "rejected", "error"} :
             Outcome(step, answer) /\ step' = [step EXCEPT !.answer = answer]
      BY <1>2 DEF StepRuns
    <2>3. CaptureIsWhole'
      BY <1>0, <2>1, <2>2, EffectCaptures DEF CallSound
    <2>4. step'.kind = step.kind /\ step'.fence = step.fence /\ step'.capture = step.capture
      BY <2>1, <2>2 DEF Calls
    <2>. QED
      BY <1>0, <2>1, <2>3, <2>4 DEF CallSound, FlushSound
  <1>3. CASE CompleteAnswered
    <2>1. UNCHANGED <<row, output, closed, flush>>
      BY <1>3 DEF CompleteAnswered
    <2>2. step' = NoCall \/ step' = Call("readback", 0, {}, NoCapture)
      BY <1>3 DEF CompleteAnswered, PipelineRetries
    <2>. QED
      BY <1>0, <2>1, <2>2, NoCallSound, CallFields, Constants
         DEF CallSound, CaptureIsWhole, FlushSound
  <1>4. CASE LateOutputAnswered
    <2>1. UNCHANGED <<row, output, closed, flush>> /\ CaptureStep
      BY <1>4 DEF LateOutputAnswered
    <2>. QED
      BY <1>0, <2>1, CaptureStepSound DEF CaptureIsWhole, FlushSound
  <1>5. CASE CaptureAnswered
    <2>1. UNCHANGED <<row, output, closed, flush>>
      BY <1>5 DEF CaptureAnswered
    <2>2. step' = NoCall \/ step' = Call("readback", 0, {}, CaptureNow)
      BY <1>5 DEF CaptureAnswered, PipelineEnds
    <2>. QED
      BY <1>0, <2>1, <2>2, NoCallSound, CallFields, CaptureNowSound
         DEF CallSound, CaptureIsWhole, FlushSound
  <1>6. CASE ReadbackAnswered
    <2>1. UNCHANGED <<row, output, closed, flush>>
      BY <1>6 DEF ReadbackAnswered
    <2>2. step' = NoCall
      BY <1>6 DEF ReadbackAnswered, PipelineEnds, CaptureMissing, PipelineRetries
    <2>. QED
      BY <1>0, <2>1, <2>2, NoCallSound DEF CallSound, CaptureIsWhole, FlushSound
  <1>. QED
    BY <1>1, <1>2, <1>3, <1>4, <1>5, <1>6 DEF Pipeline

LEMMA OthersSound ==
    ASSUME IInv, \/ Chunk \/ MaybeFlush \/ EndEarly \/ Close \/ RetryTimer
                 \/ SendFlush \/ FlushRuns \/ FlushAnswered
                 \/ Sweep \/ Collect \/ Register
    PROVE  CaptureIsWhole' /\ CallSound(step)' /\ FlushSound'
  <1>0. TypeOK /\ CaptureIsWhole /\ CallSound(step) /\ FlushSound
    BY DEF IInv
  <1>1. CASE Chunk
    <2>1. ~closed /\ ~closed' /\ UNCHANGED <<row, step, flush>>
      BY <1>1 DEF Chunk
    <2>. QED
      BY <1>0, <2>1 DEF CaptureIsWhole, CallSound, FlushSound
  <1>2. CASE MaybeFlush \/ EndEarly \/ RetryTimer \/ Register
    <2>1. UNCHANGED <<row, output, closed, step, flush>>
      BY <1>2 DEF MaybeFlush, EndEarly, RetryTimer, Register
    <2>. QED
      BY <1>0, <2>1 DEF CaptureIsWhole, CallSound, FlushSound
  <1>3. CASE Close
    <2>1. ~closed /\ closed' /\ UNCHANGED <<row, output, step, flush>>
      BY <1>3 DEF Close
    <2>. QED
      BY <1>0, <2>1 DEF CaptureIsWhole, CallSound, FlushSound
  <1>4. CASE SendFlush
    <2>1. UNCHANGED <<row, output, closed, step>>
      BY <1>4 DEF SendFlush
    <2>2. flush' = Call("output", Head(flushes), OwnedStatuses, NoCapture)
      BY <1>4 DEF SendFlush
    <2>. QED
      BY <1>0, <2>1, <2>2, CallFields DEF CaptureIsWhole, CallSound, FlushSound, OwnedStatuses
  <1>5. CASE FlushRuns
    <2>1. UNCHANGED <<output, closed, step>> /\ flush \in Calls /\ row \in Rows
      BY <1>0, <1>5 DEF FlushRuns, TypeOK
    <2>2. PICK answer \in {"applied", "rejected", "error"} :
             Outcome(flush, answer) /\ flush' = [flush EXCEPT !.answer = answer]
      BY <1>5 DEF FlushRuns
    <2>3. row'.capture = row.capture
      BY <1>0, <2>1, <2>2, Effect DEF FlushSound, Rewrites, Rows
    <2>4. flush'.kind = flush.kind /\ flush'.fence = flush.fence
      BY <2>1, <2>2 DEF Calls
    <2>. QED
      BY <1>0, <2>1, <2>3, <2>4 DEF CaptureIsWhole, CallSound, FlushSound
  <1>6. CASE FlushAnswered
    <2>1. UNCHANGED <<row, output, closed, step>> /\ flush' = NoCall
      BY <1>6 DEF FlushAnswered
    <2>. QED
      BY <1>0, <2>1 DEF CaptureIsWhole, CallSound, FlushSound, NoCall
  <1>7. CASE Sweep
    <2>1. UNCHANGED <<output, closed, step, flush>> /\ row'.capture = row.capture
      BY <1>0, <1>7 DEF Sweep, TypeOK, Rows
    <2>. QED
      BY <1>0, <2>1 DEF CaptureIsWhole, CallSound, FlushSound
  <1>8. CASE Collect
    <2>1. UNCHANGED <<output, closed, step, flush>>
      BY <1>8 DEF Collect
    <2>2. row'.capture \in {row.capture, StandIn}
      BY <1>0, <1>8 DEF Collect, TypeOK, Rows
    <2>. QED
      BY <1>0, <2>1, <2>2, Constants DEF CaptureIsWhole, CallSound, FlushSound
  <1>. QED
    BY <1>1, <1>2, <1>3, <1>4, <1>5, <1>6, <1>7, <1>8

LEMMA Inductive == Init /\ [][Next]_vars => []IInv
  <1>1. Init => IInv
    <2> SUFFICES ASSUME Init PROVE IInv
      OBVIOUS
    <2>1. TypeOK
      <3>1. row \in Rows
        BY Constants DEF Init, Rows
      <3>2. flush \in Calls /\ step \in Calls /\ output \in Outputs
        BY Constants, CallTypes DEF Init
      <3>3. flushes \in Seq(Outputs)
        BY DEF Init
      <3>. QED
        BY <3>1, <3>2, <3>3 DEF Init, TypeOK
    <2>2. CaptureIsWhole
      BY Constants DEF Init, CaptureIsWhole
    <2>3. CallSound(step) /\ FlushSound
      BY NoCallSound DEF Init, FlushSound, NoCall
    <2>. QED
      BY <2>1, <2>2, <2>3 DEF IInv
  <1>2. IInv /\ [Next]_vars => IInv'
    <2> SUFFICES ASSUME IInv, [Next]_vars PROVE IInv'
      OBVIOUS
    <2>1. CASE Pipeline
      BY <2>1, PipelineTypes, PipelineSound DEF IInv
    <2>2. CASE \/ Chunk \/ MaybeFlush \/ EndEarly \/ Close \/ RetryTimer
               \/ SendFlush \/ FlushRuns \/ FlushAnswered
               \/ Sweep \/ Collect \/ Register
      BY <2>2, OwnerTypes, OthersTypes, FlushTypes, OthersSound DEF IInv
    <2>3. CASE UNCHANGED vars
      BY <2>3 DEF IInv, TypeOK, CaptureIsWhole, CallSound, FlushSound
    <2>. QED
      BY <2>1, <2>2, <2>3 DEF Next
  <1>. QED
    BY <1>1, <1>2, PTL

-----------------------------------------------------------------------------
(* The output a closed child leaves.                                        *)

Asked == step.kind \in {"complete", "output"}

\* Where the pipelines are: the result goes first, what follows it after, and
\* the last pipeline to begin carries everything the closed child wrote.
Stages ==
    /\ step.kind = "complete" => ~persisted
    /\ step.kind \in {"output", "capture", "readback"} => persisted
    /\ captured => persisted
    /\ closed /\ waiting = 0 /\ Asked => step.body = output
    /\ flush.kind = "none" => flush.answer = "none"

\* While every committed result is heard of, the row has ended exactly when the
\* owner wrote it, and no statement the owner sends after it is turned away.
ResultStands ==
    ~unheard =>
        /\ persisted => owned /\ row.status = "ended"
        /\ ~persisted => (row.status = "ended" <=> (step.kind = "complete" /\ step.answer = "applied"))
        /\ step.kind = "complete" => step.answer # "rejected"
        /\ step.kind = "output" => step.fence = {"ended"} /\ step.answer # "rejected"

Quiet == ~crossed /\ ~unheard

\* Nor is a flush that was sent after it.
RowHeld ==
    Quiet /\ persisted =>
        /\ ~lost
        /\ flush.kind = "output" => flush.fence = {"ended"} /\ flush.answer # "rejected"

WrittenOut == /\ row.status = "ended" /\ row.body = output
              /\ \A i \in DOMAIN flushes : flushes[i] = output
              /\ flush.kind = "output" => flush.body = output

ToBeRetried == row.status # "ended" /\ (timer \/ (step.kind = "complete" /\ step.answer = "error"))

\* Once the last pipeline's write has run, the whole output is in the row, and
\* no flush that is still due takes any of it away, or the write comes again.
LastWrite ==
    Quiet /\ closed /\ waiting = 0 /\ ~(Asked /\ step.answer = "none") => WrittenOut \/ ToBeRetried

Kept == Stages /\ ResultStands /\ RowHeld /\ LastWrite

LEMMA OwnerKeeps ==
    ASSUME IInv, Kept, Chunk \/ MaybeFlush \/ EndEarly \/ Close \/ RetryTimer \/ Register
    PROVE  Kept'
  <1>0. TypeOK
    BY DEF IInv
  <1>. USE DEF Kept, Stages, ResultStands, RowHeld, LastWrite, Asked, Quiet, WrittenOut, ToBeRetried
  <1>1. CASE Chunk
    BY <1>0, <1>1 DEF Chunk
  <1>2. CASE MaybeFlush
    <2>1. UNCHANGED <<row, output, closed, flush, chain, flags, history>>
      BY <1>2 DEF MaybeFlush
    <2>2. ASSUME \A i \in DOMAIN flushes : flushes[i] = output
          PROVE  \A i \in DOMAIN flushes' : flushes'[i] = output
      <3>1. flushes \in Seq(Outputs) /\ output \in Outputs
        BY <1>0 DEF TypeOK
      <3>. QED
        BY <1>2, <2>2, <3>1 DEF MaybeFlush
    <2>. QED
      BY <2>1, <2>2
  <1>3. CASE EndEarly
    BY <1>0, <1>3 DEF EndEarly, TypeOK
  <1>4. CASE Close
    BY <1>0, <1>4 DEF Close, TypeOK
  <1>5. CASE RetryTimer
    BY <1>0, <1>5 DEF RetryTimer, TypeOK
  <1>6. CASE Register
    BY <1>6 DEF Register
  <1>. QED
    BY <1>1, <1>2, <1>3, <1>4, <1>5, <1>6

LEMMA OthersKeep ==
    ASSUME IInv, Kept, Sweep \/ Collect
    PROVE  Kept'
  <1>1. row \in Rows
    BY DEF IInv, TypeOK
  <1>2. /\ UNCHANGED <<memory, flushes, flush, chain, flags, history>>
        /\ row'.body = row.body
        /\ row'.status = "ended" <=> row.status = "ended"
    BY <1>1 DEF Sweep, Collect, Rows
  <1>. QED
    BY <1>2 DEF Kept, Stages, ResultStands, RowHeld, LastWrite, Asked, Quiet, WrittenOut, ToBeRetried

LEMMA FlushKeeps ==
    ASSUME IInv, Kept, SendFlush \/ FlushRuns \/ FlushAnswered
    PROVE  Kept'
  <1>0. TypeOK /\ FlushSound
    BY DEF IInv
  <1>. USE DEF Kept, Stages, ResultStands, RowHeld, LastWrite, Asked, Quiet, WrittenOut, ToBeRetried
  <1>1. CASE SendFlush
    <2>1. UNCHANGED <<row, memory, chain, flags, history>>
      BY <1>1 DEF SendFlush
    <2>2. /\ flush'.kind = "output" /\ flush'.body = flushes[1]
          /\ flush'.fence = OwnedStatuses /\ flush'.answer = "none"
      BY <1>0, <1>1, CallFields DEF SendFlush, TypeOK
    <2>3. /\ flushes \in Seq(Outputs) /\ flushes # <<>> /\ flushes' = Tail(flushes)
      BY <1>0, <1>1 DEF SendFlush, TypeOK
    <2>4. ASSUME \A i \in DOMAIN flushes : flushes[i] = output
          PROVE  flushes[1] = output /\ \A i \in DOMAIN flushes' : flushes'[i] = output
      BY <2>3, <2>4
    <2>. QED
      BY <2>1, <2>2, <2>4 DEF OwnedStatuses
  <1>2. CASE FlushRuns
    <2>1. PICK answer \in {"applied", "rejected", "error"} :
             Outcome(flush, answer) /\ flush' = [flush EXCEPT !.answer = answer]
      BY <1>2 DEF FlushRuns
    <2>2. UNCHANGED <<memory, flushes, chain, flags, history>> /\ row \in Rows
      BY <1>0, <1>2 DEF FlushRuns, TypeOK
    <2>3. /\ flush.kind = "output" /\ flush'.kind = flush.kind /\ flush'.body = flush.body
          /\ flush'.fence = flush.fence /\ flush'.answer = answer
      BY <1>0, <2>1 DEF FlushSound, TypeOK, Calls, Outcome
    <2>4. /\ row'.status = row.status /\ row'.body \in {row.body, flush.body}
          /\ row.status \in flush.fence => answer # "rejected"
      BY <2>1, <2>2, <2>3 DEF Outcome, Written, Applied, OutputWritten, OutputApplied, Rows
    <2>. QED
      BY <2>2, <2>3, <2>4
  <1>3. CASE FlushAnswered
    <2>1. /\ UNCHANGED <<row, memory, flushes, chain, persisted, owned, captured, history>>
          /\ lost' = (lost \/ flush.answer = "rejected") /\ flush.answer # "none"
          /\ flush'.kind = "none" /\ flush'.answer = "none"
      BY <1>3 DEF FlushAnswered, NoCall
    <2>2. flush.kind = "output"
      BY <1>0, <2>1 DEF FlushSound
    <2>. QED
      BY <2>1, <2>2
  <1>. QED
    BY <1>1, <1>2, <1>3

LEMMA BeginKeeps ==
    ASSUME IInv, Kept, Begin
    PROVE  Kept'
  <1>0. waiting \in Nat /\ step.kind = "none"
    BY NoCallFields DEF IInv, TypeOK, Begin
  <1>1. /\ waiting' = waiting - 1 /\ waiting > 0
        /\ UNCHANGED <<row, output, decisions, ended, closed, flushes, flush,
                       persisted, owned, lost, captured, history>>
    BY DEF Begin
  <1>. USE DEF Kept, Stages, ResultStands, RowHeld, LastWrite, Asked, Quiet, WrittenOut, ToBeRetried
  <1>2. CASE ~persisted /\ step' = Call("complete", output, {}, CaptureNow)
    BY <1>0, <1>1, <1>2, CallFields
  <1>3. CASE persisted /\ step' = Call("output", output, OwnedStatuses, NoCapture)
    <2>1. /\ step'.kind = "output" /\ step'.body = output /\ step'.answer = "none"
          /\ step'.fence = OwnedStatuses
      BY <1>3, CallFields
    <2>. QED
      BY <1>0, <1>1, <1>3, <2>1 DEF OwnedStatuses
  <1>4. CASE persisted /\ ~MayWriteOutput /\ CaptureStep
    <2>1. ~Quiet
      BY <1>4 DEF MayWriteOutput
    <2>2. step'.kind \in {"none", "capture"} /\ step'.answer = "none"
      BY <1>4, NoCallFields, CallFields DEF CaptureStep, PipelineEnds
    <2>. QED
      BY <1>0, <1>1, <1>4, <2>1, <2>2
  <1>. QED
    BY <1>2, <1>3, <1>4 DEF Begin

LEMMA StepRunsKeeps ==
    ASSUME IInv, Kept, StepRuns
    PROVE  Kept'
  <1>0. TypeOK /\ step \in Calls /\ row \in Rows
    BY DEF IInv, TypeOK
  <1>1. PICK answer \in {"applied", "rejected", "error"} :
           /\ Outcome(step, answer) /\ step' = [step EXCEPT !.answer = answer]
           /\ crossed' = \/ crossed
                         \/ step.kind \in {"complete", "output"} /\ FlushOutstanding
                         \/ step.kind = "output" /\ answer = "error"
           /\ unheard' = \/ unheard
                         \/ step.kind = "complete" /\ answer = "error" /\ row' # row
    BY DEF StepRuns
  <1>2. UNCHANGED <<memory, flushes, flush, waiting, timer, flags>>
    BY DEF StepRuns
  <1>3. /\ step'.kind = step.kind /\ step'.body = step.body /\ step'.fence = step.fence
        /\ step'.answer = answer /\ step.answer = "none" /\ step.kind \in Kinds \ {"none"}
    BY <1>0, <1>1 DEF Calls, Kinds, Outcome
  <1>. USE DEF Kept, Stages, ResultStands, RowHeld, LastWrite, Asked, Quiet, ToBeRetried
  <1>4. CASE step.kind = "complete"
    <2>1. ~unheard' => /\ answer = "error" => row' = row
                       /\ answer = "applied" => row'.status = "ended" /\ row'.body = step.body
      BY <1>1, <1>4 DEF Outcome, Written, Applied, CompletionWritten, CompletionApplied
    <2>2. ~unheard => row.status # "ended"
      BY <1>3, <1>4
    <2>3. ~unheard => answer # "rejected"
      BY <1>0, <1>1, <1>4, <2>2 DEF Outcome, Applied, CompletionApplied, Rows
    <2>4. ~crossed' => flushes = <<>> /\ flush = NoCall
      BY <1>1, <1>4 DEF FlushOutstanding
    <2>. QED
      BY <1>1, <1>2, <1>3, <1>4, <2>1, <2>2, <2>3, <2>4, NoCallFields DEF WrittenOut
  <1>5. CASE step.kind = "output"
    <2>1. ~unheard => /\ row.status = "ended" /\ step.fence = {"ended"}
                      /\ persisted /\ owned
      BY <1>5
    <2>2. row'.status = row.status
      BY <1>0, <1>1, <1>5 DEF Outcome, Written, OutputWritten, Rows
    <2>3. ~unheard => answer # "rejected" /\ (answer = "applied" => row'.body = step.body)
      BY <1>0, <1>1, <1>5, <2>1 DEF Outcome, Applied, OutputApplied, Written, OutputWritten, Rows
    <2>4. ~crossed' => flushes = <<>> /\ flush = NoCall
      BY <1>1, <1>5 DEF FlushOutstanding
    <2>. QED
      BY <1>1, <1>2, <1>3, <1>5, <2>1, <2>2, <2>3, <2>4, NoCallFields DEF WrittenOut
  <1>6. CASE step.kind \in {"capture", "readback"}
    <2>1. row'.status = row.status /\ row'.body = row.body
      BY <1>0, <1>1, <1>6 DEF Outcome, Written, CaptureWritten, Rows
    <2>. QED
      BY <1>1, <1>2, <1>3, <1>6, <2>1 DEF WrittenOut
  <1>. QED
    BY <1>3, <1>4, <1>5, <1>6 DEF Kinds

LEMMA AnswersKeep ==
    ASSUME IInv, Kept, CompleteAnswered \/ LateOutputAnswered \/ CaptureAnswered \/ ReadbackAnswered
    PROVE  Kept'
  <1>0. TypeOK /\ step \in Calls
    BY DEF IInv, TypeOK
  <1>1. CASE CompleteAnswered
    <2>1. /\ UNCHANGED <<row, known, memory, flushes, flush, waiting, unheard>>
          /\ step.kind = "complete" /\ step.answer # "none"
          /\ crossed' = (crossed \/ FlushOutstanding)
      BY <1>1 DEF CompleteAnswered
    <2>2. CASE step.answer = "error"
      <3>1. /\ UNCHANGED flags /\ step' = NoCall
            /\ timer' = (timer \/ ~acknowledged' \/ (closed /\ ~captured))
        BY <1>1, <2>2 DEF CompleteAnswered, PipelineRetries
      <3>. QED
        BY <2>1, <2>2, <3>1, NoCallFields
           DEF Kept, Stages, ResultStands, RowHeld, LastWrite, Asked, Quiet, WrittenOut, ToBeRetried
    <2>3. CASE step.answer # "error"
      <3>1. /\ persisted' = TRUE /\ owned' = (step.answer = "applied")
            /\ lost' = (lost /\ step.answer # "applied")
            /\ step'.kind \in {"none", "readback"}
        BY <1>1, <2>3, NoCallFields, CallFields DEF CompleteAnswered, RowWonBack
      <3>2. ~unheard => step.answer = "applied"
        BY <1>0, <2>1, <2>3 DEF Kept, ResultStands, Calls
      <3>3. ~crossed' => flush = NoCall
        BY <2>1 DEF FlushOutstanding
      <3>. QED
        BY <2>1, <2>3, <3>1, <3>2, <3>3, NoCallFields
           DEF Kept, Stages, ResultStands, RowHeld, LastWrite, Asked, Quiet, WrittenOut, ToBeRetried
    <2>. QED
      BY <2>2, <2>3
  <1>2. CASE LateOutputAnswered
    <2>1. /\ UNCHANGED <<row, known, memory, flushes, flush, waiting, persisted, owned, captured, history>>
          /\ step.kind = "output" /\ step.answer # "none"
          /\ lost' = (lost \/ step.answer = "rejected")
          /\ step'.kind \in {"none", "capture"}
      BY <1>2, NoCallFields, CallFields DEF LateOutputAnswered, CaptureStep, PipelineEnds
    <2>. QED
      BY <2>1
         DEF Kept, Stages, ResultStands, RowHeld, LastWrite, Asked, Quiet, WrittenOut, ToBeRetried
  <1>3. CASE CaptureAnswered \/ ReadbackAnswered
    <2>1. /\ UNCHANGED <<row, known, memory, flushes, flush, waiting, persisted, owned, lost, history>>
          /\ step.kind \in {"capture", "readback"}
          /\ step'.kind \in {"none", "readback"}
      BY <1>3, NoCallFields, CallFields
         DEF CaptureAnswered, ReadbackAnswered, CaptureMissing, PipelineRetries, PipelineEnds
    <2>. QED
      BY <2>1
         DEF Kept, Stages, ResultStands, RowHeld, LastWrite, Asked, Quiet, WrittenOut, ToBeRetried
  <1>. QED
    BY <1>1, <1>2, <1>3

-----------------------------------------------------------------------------
(* Theorems.                                                                *)

\* A job's output, its flushes and its terminal pipelines are well typed,
\* however much a child writes (AsyncJobManager, job-store.ts).
THEOREM OutputTypes == Spec => []TypeOK
  <1>1. IInv => TypeOK
    BY DEF IInv
  <1>. QED
    BY <1>1, Inductive, PTL DEF Spec

\* A capture in the row accounts for the complete output of a closed child,
\* whatever is lost, repeated or swept (persistCapture, captureForCompletion).
THEOREM CapturesAreWhole == Spec => []CaptureIsWhole
  <1>1. IInv => CaptureIsWhole
    BY DEF IInv
  <1>. QED
    BY <1>1, Inductive, PTL DEF Spec

\* What a closed child wrote is in its row once the job is settled, but for the
\* three cases OutputKept names (persistLateOutput, mayWriteOutputFor).
THEOREM OutputsAreKept == Spec => []OutputKept
  <1>1. Init => Kept
    BY NoCallFields
       DEF Init, Kept, Stages, ResultStands, RowHeld, LastWrite, Asked, Quiet, WrittenOut, ToBeRetried
  <1>2. IInv /\ Kept /\ [Next]_vars => Kept'
    <2> SUFFICES ASSUME IInv, Kept, [Next]_vars PROVE Kept'
      OBVIOUS
    <2>1. CASE Pipeline
      BY <2>1, BeginKeeps, StepRunsKeeps, AnswersKeep DEF Pipeline
    <2>2. CASE \/ Chunk \/ MaybeFlush \/ EndEarly \/ Close \/ RetryTimer
               \/ SendFlush \/ FlushRuns \/ FlushAnswered
               \/ Sweep \/ Collect \/ Register
      BY <2>2, OwnerKeeps, FlushKeeps, OthersKeep
    <2>3. CASE UNCHANGED vars
      BY <2>3
         DEF Kept, Stages, ResultStands, RowHeld, LastWrite, Asked, Quiet, WrittenOut, ToBeRetried
    <2>. QED
      BY <2>1, <2>2, <2>3 DEF Next
  <1>3. IInv /\ Kept => OutputKept
    BY NoCallFields
       DEF IInv, Kept, LastWrite, Asked, Quiet, WrittenOut, ToBeRetried, OutputKept, AtRest
  <1>. QED
    BY <1>1, <1>2, <1>3, Inductive, PTL DEF Spec

\* What a statement does to the row is what the ledger allows.
LEMMA EffectRefines ==
    ASSUME NEW call \in Calls, NEW answer, Outcome(call, answer), row \in Rows,
           "orphaned" \notin call.fence, call.capture # StandIn,
           call.kind = "capture" => call.capture \in Outputs
    PROVE  [Ledger!Next]_(Ledger!ledger)
  <1>0. call.body \in Outputs /\ call.capture \in Outputs \cup {NoCapture}
    BY DEF Calls, Captures
  <1>. HIDE DEF Captures, Outputs, NoCapture, StandIn
  <1>1. CASE row' = row
    BY <1>1 DEF Ledger!ledger
  <1>2. CASE Rewrites(call)
    <2>1. row.status \in {"open", "ended"}
      BY <1>2 DEF Rewrites, Rows
    <2>2. row'.status = row.status /\ row'.capture = row.capture /\ row'.body \in Outputs
      BY <1>0, <1>2 DEF Rewrites, Rows
    <2>. QED
      BY <2>1, <2>2 DEF Ledger!Next, Ledger!Written, Ledger!Rescued
  <1>3. CASE Completes(call)
    <2>1. /\ row'.status = "ended" /\ row'.body \in Outputs
          /\ row'.capture = IF row.capture = NoCapture THEN call.capture ELSE row.capture
      BY <1>0, <1>3 DEF Completes
    <2>. QED
      BY <1>0, <1>3, <2>1 DEF Completes, Ledger!Next, Ledger!Completed, Ledger!Accounted
  <1>4. CASE call.kind = "capture" /\ Accounts(call)
    <2>1. row'.status = row.status /\ row'.body = row.body /\ row'.capture \in Outputs
      BY <1>4 DEF Accounts, Rows
    <2>. QED
      BY <1>4, <2>1 DEF Accounts, Ledger!Next, Ledger!Captured
  <1>. QED
    BY <1>1, <1>2, <1>3, <1>4, Effect

\* JobOutput implements OutputLedger: a row presumed dead keeps its output until
\* a result replaces both, and the first accounting is final, for any number of
\* flushes, retries, sweeps and collections (the fences of job-store.ts).
THEOREM LedgerRefined == Spec => BodyKept
  <1>1. Init => Ledger!Init
    BY Constants DEF Init, Ledger!Init
  <1>2. IInv /\ [Next]_vars => [Ledger!Next]_(Ledger!ledger)
    <2> SUFFICES ASSUME IInv, [Next]_vars PROVE [Ledger!Next]_(Ledger!ledger)
      OBVIOUS
    <2>0. TypeOK /\ CallSound(step) /\ FlushSound
      BY DEF IInv
    <2>1. CASE StepRuns
      BY <2>0, <2>1, EffectRefines DEF StepRuns, TypeOK, CallSound
    <2>2. CASE FlushRuns
      <3>1. flush.kind # "capture"
        BY <2>0 DEF FlushSound
      <3>2. PICK answer \in {"applied", "rejected", "error"} : Outcome(flush, answer)
        BY <2>2 DEF FlushRuns
      <3>3. row \in Rows /\ flush \in Calls
        BY <2>0 DEF TypeOK
      <3>4. row' = row \/ Rewrites(flush)
        BY <2>0, <3>2, <3>3, Effect DEF FlushSound
      <3>5. CASE row' = row
        BY <3>5 DEF Ledger!ledger
      <3>6. CASE Rewrites(flush)
        <4>1. row.status \in {"open", "ended"}
          BY <2>0, <3>3, <3>6 DEF Rewrites, Rows, FlushSound
        <4>2. row'.status = row.status /\ row'.capture = row.capture /\ row'.body \in Outputs
          BY <3>3, <3>6 DEF Rewrites, Rows, Calls
        <4>. QED
          BY <4>1, <4>2 DEF Ledger!Next, Ledger!Written, Ledger!Rescued
      <3>. QED
        BY <3>4, <3>5, <3>6
    <2>3. CASE Sweep
      <3>1. row.status = "open" /\ row'.status = "orphaned"
            /\ row'.body = row.body /\ row'.capture = row.capture
        BY <2>0, <2>3 DEF Sweep, TypeOK, Rows
      <3>. QED
        BY <3>1 DEF Ledger!Next, Ledger!PresumedDead
    <2>4. CASE Collect
      <3>1. CASE row' = row
        BY <3>1 DEF Ledger!ledger
      <3>2. CASE row.status # "open" /\ row.capture = NoCapture /\ row' = [row EXCEPT !.capture = StandIn]
        <4>1. row'.status = row.status /\ row'.body = row.body /\ row'.capture = StandIn
          BY <2>0, <3>2 DEF TypeOK, Rows
        <4>. QED
          BY <3>2, <4>1 DEF Ledger!Next, Ledger!OwnerDisappeared
      <3>. QED
        BY <2>4, <3>1, <3>2 DEF Collect
    <2>5. CASE UNCHANGED row
      BY <2>5 DEF Ledger!ledger
    <2>. QED
      BY <2>1, <2>2, <2>3, <2>4, <2>5
         DEF Next, Pipeline, Chunk, MaybeFlush, EndEarly, Close, SendFlush, FlushAnswered,
             RetryTimer, Register, Begin, CompleteAnswered, LateOutputAnswered,
             CaptureAnswered, ReadbackAnswered
  <1>. QED
    BY <1>1, <1>2, Inductive, PTL DEF Spec, BodyKept, Ledger!Spec
=============================================================================
