------------------------------ MODULE JobOutput ------------------------------
(***************************************************************************)
(* The output of one running process job, in the memory of its manager and *)
(* in its row of the PostgreSQL store: routine flushes, the terminal       *)
(* write, what the child writes after it, and the accounting of the        *)
(* capture, while another gateway sweeps the row or collects the owner.    *)
(* (async-job-manager.ts, job-store.ts)                                    *)
(*                                                                         *)
(* Output is counted in chunks.  Two chains of promises run side by side:  *)
(* `flushes' (outputWriteChain), one routine flush after another, and the  *)
(* terminal pipelines (terminalWriteChain), of which `waiting' have not    *)
(* begun and `step' is the call the running one has in flight.  A call is  *)
(* sent, may be committed, and is answered; the answer may be an error     *)
(* although the statement was committed.                                   *)
(***************************************************************************)
EXTENDS Integers, Sequences

CONSTANT MaxOutput          \* bound: chunks a child writes

ASSUME OutputAssumption == MaxOutput \in Nat

Outputs == 0 .. MaxOutput
NoCapture == -1             \* capture_status IS NULL
StandIn == -2               \* not_captured, CAPTURE_ACCOUNTING_RECOVERY_ERROR
Captures == Outputs \cup {NoCapture, StandIn}

NoCall == [kind |-> "none", body |-> 0, fence |-> {}, capture |-> NoCapture, answer |-> "none"]

\* A statement on its way to the store: `fence' are the statuses it accepts.
Call(kind, body, fence, capture) ==
    [kind |-> kind, body |-> body, fence |-> fence, capture |-> capture, answer |-> "none"]

VARIABLES
    row,        \* the row: [status, body, capture]
    known,      \* the owner has a row in gateway_instances
    output,     \* job.stdout, the chunks appended
    dirty,      \* job.outputDirty
    decisions,  \* calls of appendOutput that have not reached maybeFlushOutput
    ended,      \* job.status is terminal
    closed,     \* job.closeObserved
    flushes,    \* snapshots of the flushes waiting on outputWriteChain
    flush,      \* the recordOutput of the flush being written
    waiting,    \* terminal pipelines waiting on terminalWriteChain
    step,       \* the call of the running terminal pipeline
    timer,      \* job.terminalPersistenceRetryTimer is set
    persisted,  \* job.terminalPersisted
    owned,      \* job.terminalRowOwned
    lost,       \* job.durableOutputRowLost
    captured,   \* job.capturePersisted
    acknowledged,   \* job.terminalPersistenceAcknowledged
    crossed,    \* history: a flush was outstanding beside the terminal write or
                \* the late output, or the late output met an error
    unheard     \* history: a recordComplete was committed, its answer lost

memory == <<output, dirty, decisions, ended, closed>>
flags  == <<persisted, owned, lost, captured, acknowledged>>
chain  == <<waiting, step, timer>>
history == <<crossed, unheard>>
vars   == <<row, known, memory, flushes, flush, chain, flags, history>>

\* Ordinary jobs start with the acknowledgement set: only Kit jobs wait for it.
Init == /\ row = [status |-> "open", body |-> 0, capture |-> NoCapture]
        /\ known = TRUE
        /\ output = 0 /\ dirty = FALSE /\ decisions = 0
        /\ ended = FALSE /\ closed = FALSE
        /\ flushes = <<>> /\ flush = NoCall
        /\ waiting = 0 /\ step = NoCall /\ timer = FALSE
        /\ persisted = FALSE /\ owned = FALSE /\ lost = FALSE
        /\ captured = FALSE /\ acknowledged = TRUE
        /\ crossed = FALSE /\ unheard = FALSE

-----------------------------------------------------------------------------
(* Ownership of the row's output.                                          *)

MayWriteOutput == ~lost /\ (persisted => owned)

\* Defect: the unfenced write that the predicate replaced.
OwnedStatuses_Any == {"open", "orphaned", "ended"}

\* Read when the statement is sent, not when the flush was decided on.
OwnedStatuses == IF persisted /\ owned THEN {"ended"} ELSE {"open"}

-----------------------------------------------------------------------------
(* What the child and its callers do.                                      *)

\* appendOutput: the append is synchronous, the flush comes after an await.
Chunk == /\ ~closed /\ output < MaxOutput
         /\ output' = output + 1
         /\ dirty' = TRUE
         /\ decisions' = decisions + 1
         /\ UNCHANGED <<row, known, ended, closed, flushes, flush, chain, flags, history>>

\* maybeFlushOutput: the throttle may keep the output for a later call.
MaybeFlush ==
    /\ decisions > 0
    /\ decisions' = decisions - 1
    /\ \/ /\ dirty /\ MayWriteOutput
          /\ dirty' = FALSE
          /\ flushes' = Append(flushes, output)
       \/ /\ dirty /\ ~MayWriteOutput
          /\ dirty' = FALSE
          /\ UNCHANGED flushes
       \/ UNCHANGED <<dirty, flushes>>          \* throttled, or nothing new
    /\ UNCHANGED <<row, known, output, ended, closed, flush, chain, flags, history>>

\* Cancellation, idle timeout and overflow end the job while its child lives.
EndEarly == /\ ~ended
            /\ ended' = TRUE
            /\ waiting' = waiting + 1
            /\ UNCHANGED <<row, known, output, dirty, decisions, closed, flushes, flush,
                           step, timer, flags, history>>

\* The close handler always runs the terminal pipeline.
Close == /\ ~closed
         /\ closed' = TRUE
         /\ ended' = TRUE
         /\ waiting' = waiting + 1
         /\ UNCHANGED <<row, known, output, dirty, decisions, flushes, flush,
                        step, timer, flags, history>>

-----------------------------------------------------------------------------
(* The store's statements.                                                 *)

\* recordOutput.
OutputWritten(call) == IF row.status \in call.fence THEN [row EXCEPT !.body = call.body] ELSE row

OutputApplied(call) == row.status \in call.fence

\* recordComplete: an open or an orphaned row takes the result.
CompletionApplied == row.status \in {"open", "orphaned"}

CompletionWritten(call) ==
    IF CompletionApplied
    THEN [status |-> "ended", body |-> call.body,
          capture |-> IF row.capture = NoCapture THEN call.capture ELSE row.capture]
    ELSE row

\* recordCapture: the first accounting stays, the stand-in yields.
CaptureApplied == row.status = "ended" /\ row.capture \in {NoCapture, StandIn}

CaptureWritten(call) == IF CaptureApplied THEN [row EXCEPT !.capture = call.capture] ELSE row

Applied(call) == CASE call.kind = "output"   -> OutputApplied(call)
                   [] call.kind = "complete" -> CompletionApplied
                   [] call.kind = "capture"  -> CaptureApplied
                   [] call.kind = "readback" -> row.capture # NoCapture

Written(call) == CASE call.kind = "output"   -> OutputWritten(call)
                   [] call.kind = "complete" -> CompletionWritten(call)
                   [] call.kind = "capture"  -> CaptureWritten(call)
                   [] call.kind = "readback" -> row

\* The statement runs and its answer is on the way; or it is lost, with or
\* without the statement.
Outcome(call, answer) == /\ call.kind # "none" /\ call.answer = "none"
                         /\ \/ /\ answer = IF Applied(call) THEN "applied" ELSE "rejected"
                               /\ row' = Written(call)
                            \/ /\ answer = "error"
                               /\ row' \in {row, Written(call)}

-----------------------------------------------------------------------------
(* Routine flushes.                                                        *)

\* The next link of outputWriteChain: writeOwnedOutput.
SendFlush == /\ flush = NoCall /\ flushes # <<>>
             /\ flush' = Call("output", Head(flushes), OwnedStatuses, NoCapture)
             /\ flushes' = Tail(flushes)
             /\ UNCHANGED <<row, known, memory, chain, flags, history>>

FlushRuns == \E answer \in {"applied", "rejected", "error"} :
               /\ Outcome(flush, answer)
               /\ flush' = [flush EXCEPT !.answer = answer]
               /\ UNCHANGED <<known, memory, flushes, chain, flags, history>>

\* A rejection means the row moved; safeStoreCall logs an error and goes on.
FlushAnswered == /\ flush.answer # "none"
                 /\ lost' = (lost \/ flush.answer = "rejected")
                 /\ flush' = NoCall
                 /\ UNCHANGED <<row, known, memory, flushes, chain, persisted, owned,
                                captured, acknowledged, history>>

-----------------------------------------------------------------------------
(* The terminal pipeline: persistComplete and persistCompleteBody.         *)

\* Defect: accounting for a child that may still write.
CaptureNow_AnyTime == output

\* captureForCompletion, and the guard of persistCapture: only after close.
CaptureNow == IF closed THEN output ELSE NoCapture

\* The pipeline is through: its result is acknowledged.
PipelineEnds == step' = NoCall /\ acknowledged' = TRUE /\ UNCHANGED timer

\* scheduleTerminalPersistenceRetry: of an acknowledged job only a capture that
\* is due is tried again, so before the close there is no timer.
PipelineRetries == step' = NoCall /\ timer' = (timer \/ ~acknowledged' \/ (closed /\ ~captured))

\* persistCapture, after the late output.
CaptureStep ==
    IF captured \/ CaptureNow = NoCapture
    THEN PipelineEnds
    ELSE /\ step' = Call("capture", 0, {}, CaptureNow)
         /\ UNCHANGED <<timer, acknowledged>>

\* The first pipeline writes the result, a later one what came after it.
Begin == /\ step = NoCall /\ waiting > 0
         /\ waiting' = waiting - 1
         /\ dirty' = FALSE
         /\ \/ /\ ~persisted
               /\ step' = Call("complete", output, {}, CaptureNow)
               /\ UNCHANGED <<timer, acknowledged>>
            \/ /\ persisted /\ MayWriteOutput
               /\ step' = Call("output", output, OwnedStatuses, NoCapture)
               /\ UNCHANGED <<timer, acknowledged>>
            \/ /\ persisted /\ ~MayWriteOutput
               /\ CaptureStep
         /\ UNCHANGED <<row, known, output, decisions, ended, closed, flushes, flush,
                        persisted, owned, lost, captured, history>>

FlushOutstanding == flushes # <<>> \/ flush # NoCall

StepRuns == \E answer \in {"applied", "rejected", "error"} :
              /\ Outcome(step, answer)
              /\ step' = [step EXCEPT !.answer = answer]
              /\ crossed' = \/ crossed
                            \/ step.kind \in {"complete", "output"} /\ FlushOutstanding
                            \/ step.kind = "output" /\ answer = "error"
              /\ unheard' = \/ unheard
                            \/ step.kind = "complete" /\ answer = "error" /\ row' # row
              /\ UNCHANGED <<known, memory, flushes, flush, waiting, timer, flags>>

\* Defect: winning the row back does not clear the mark of its loss.
RowWonBack_Not == lost

\* An admitted terminal write wins back a row that was presumed dead.
RowWonBack == lost /\ step.answer # "applied"

\* persistCompleteBody after recordComplete.
CompleteAnswered ==
    /\ step.kind = "complete" /\ step.answer # "none"
    /\ crossed' = (crossed \/ FlushOutstanding)
    /\ \/ /\ step.answer = "error"
          /\ UNCHANGED flags
          /\ PipelineRetries
       \/ /\ step.answer # "error"
          /\ persisted' = TRUE
          /\ acknowledged' = TRUE
          /\ owned' = (step.answer = "applied")
          /\ lost' = RowWonBack
          /\ captured' = (captured \/ (step.capture # NoCapture /\ step.answer = "applied"))
          /\ step' = IF step.capture # NoCapture /\ step.answer = "rejected"
                     THEN Call("readback", 0, {}, NoCapture)
                     ELSE NoCall
          /\ UNCHANGED timer
    /\ UNCHANGED <<row, known, memory, flushes, flush, waiting, unheard>>

\* persistLateOutput has been answered; the capture is next.
LateOutputAnswered ==
    /\ step.kind = "output" /\ step.answer # "none"
    /\ lost' = (lost \/ step.answer = "rejected")
    /\ CaptureStep
    /\ UNCHANGED <<row, known, memory, flushes, flush, waiting, persisted, owned, captured, history>>

\* recordCapture: anything but success is looked up in the row.
CaptureAnswered ==
    /\ step.kind = "capture" /\ step.answer # "none"
    /\ \/ /\ step.answer = "applied"
          /\ captured' = TRUE
          /\ PipelineEnds
       \/ /\ step.answer # "applied"
          /\ step' = Call("readback", 0, {}, CaptureNow)
          /\ UNCHANGED <<captured, acknowledged, timer>>
    /\ UNCHANGED <<row, known, memory, flushes, flush, waiting, persisted, owned, lost, history>>

\* Defect: the pipeline gives the capture up after one try.
CaptureMissing_GivenUp == PipelineEnds

\* The row shows no accounting: try again later.
CaptureMissing == acknowledged' = FALSE /\ PipelineRetries

\* reconcileCaptureAcknowledgement.  Behind a rejected recordComplete nothing
\* follows; behind recordCapture the pipeline is repeated.
ReadbackAnswered ==
    /\ step.kind = "readback" /\ step.answer # "none"
    /\ captured' = (captured \/ step.answer = "applied")
    /\ IF step.answer = "applied" \/ step.capture = NoCapture
       THEN PipelineEnds
       ELSE CaptureMissing
    /\ UNCHANGED <<row, known, memory, flushes, flush, waiting, persisted, owned, lost, history>>

\* retryTerminalPersistence.
RetryTimer == /\ timer
              /\ timer' = FALSE
              /\ waiting' = waiting + 1
              /\ UNCHANGED <<row, known, memory, flushes, flush, step, flags, history>>

-----------------------------------------------------------------------------
(* Other gateways, for whom the owner stopped its heartbeat.               *)

\* recoverStaleJobs freezes the row's output.
Sweep == /\ row.status = "open"
         /\ row' = [row EXCEPT !.status = "orphaned"]
         /\ UNCHANGED <<known, memory, flushes, flush, chain, flags, history>>

\* gcInstances deletes the owner's instance row and, in the same transaction,
\* accounts for the captures of owners without one.
Collect == /\ known' = FALSE
           /\ row' = IF row.status # "open" /\ row.capture = NoCapture
                     THEN [row EXCEPT !.capture = StandIn] ELSE row
           /\ UNCHANGED <<memory, flushes, flush, chain, flags, history>>

\* The owner's next heartbeat registers it again.
Register == /\ ~known
            /\ known' = TRUE
            /\ UNCHANGED <<row, memory, flushes, flush, chain, flags, history>>

-----------------------------------------------------------------------------
Pipeline == \/ Begin \/ StepRuns
            \/ CompleteAnswered \/ LateOutputAnswered \/ CaptureAnswered \/ ReadbackAnswered

Next == \/ Chunk \/ MaybeFlush \/ EndEarly \/ Close
        \/ SendFlush \/ FlushRuns \/ FlushAnswered
        \/ Pipeline \/ RetryTimer
        \/ Sweep \/ Collect \/ Register

\* The child closes in the end, calls are answered, timers fire, and a store
\* that is asked again and again does not lose every answer.
Succeeds == StepRuns /\ step'.answer # "error"

Fairness == /\ WF_vars(Close) /\ WF_vars(Pipeline) /\ WF_vars(RetryTimer)
            /\ WF_vars(SendFlush) /\ WF_vars(FlushRuns) /\ WF_vars(FlushAnswered)
            /\ \A kind \in {"complete", "capture", "readback"} :
                 SF_vars(step.kind = kind /\ Succeeds)

Spec == Init /\ [][Next]_vars /\ Fairness

-----------------------------------------------------------------------------
(* Properties.                                                             *)

Calls == [kind : {"none", "output", "complete", "capture", "readback"}, body : Outputs,
          fence : SUBSET {"open", "orphaned", "ended"}, capture : Captures,
          answer : {"none", "applied", "rejected", "error"}]

Rows == [status : {"open", "orphaned", "ended"}, body : Outputs, capture : Captures]

\* Every variable keeps the type of the field it stands for.
TypeOK == /\ row \in Rows /\ known \in BOOLEAN
          /\ output \in Outputs /\ decisions \in Nat /\ dirty \in BOOLEAN
          /\ ended \in BOOLEAN /\ closed \in BOOLEAN
          /\ flushes \in Seq(Outputs)
          /\ flush \in Calls /\ step \in Calls
          /\ waiting \in Nat /\ timer \in BOOLEAN
          /\ persisted \in BOOLEAN /\ owned \in BOOLEAN /\ lost \in BOOLEAN
          /\ captured \in BOOLEAN /\ acknowledged \in BOOLEAN
          /\ crossed \in BOOLEAN /\ unheard \in BOOLEAN

AtRest == waiting = 0 /\ step = NoCall /\ ~timer /\ ~FlushOutstanding /\ decisions = 0

\* A child's whole output is in its row once the job is settled, also what it
\* wrote between the signal and its close and also when the row had been
\* presumed dead; the exceptions are a flush that runs beside the terminal write or the
\* late output, a terminal write whose acknowledgement was lost, and an error on
\* the late output, which is not tried again (persistLateOutput,
\* mayWriteOutputFor).
OutputKept == closed /\ AtRest /\ ~crossed /\ ~unheard => row.status = "ended" /\ row.body = output

\* The capture in the row accounts for the complete output of a closed child,
\* never for a part of it (persistCapture, captureForCompletion).
CaptureIsWhole == row.capture \in Outputs => closed /\ row.capture = output

\* A row that was presumed dead keeps the output it was swept with until a
\* result replaces both, and the first accounting of a capture is final
\* (recordOutput's fence, recordComplete, recordCapture).
Ledger == INSTANCE OutputLedger WITH status <- row.status, body <- row.body, capture <- row.capture
BodyKept == Ledger!Spec

\* A closed job's result and capture reach the row however often the store
\* fails, the capture unless the answer to a committed recordComplete was lost:
\* the repeated write is then rejected and the pipeline ends without it
\* (scheduleTerminalPersistenceRetry).
RowSettled == closed ~> (row.status = "ended" /\ (row.capture # NoCapture \/ unheard))
=============================================================================
