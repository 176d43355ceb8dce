---------------------------- MODULE ValidationRuns ----------------------------
(***************************************************************************)
(* One validation run in the durable store: the kickoff that admits its    *)
(* provider seats (a repository review behind a launch barrier, an         *)
(* ordinary validation without one), the calls that add a judge, the reads *)
(* that mint its receipt, and the retention sweeps that delete its jobs    *)
(* and, once none survives, the run.  (validation-orchestrator.ts,         *)
(* validation-tools.ts, validation-receipt.ts, job-store.ts)               *)
(*                                                                         *)
(* A store call is one transaction: it succeeds, is refused, or is         *)
(* committed and its answer lost; only the record of an ordinary run is    *)
(* several writes, in SQLite.  A job is its row; `launch' is what the      *)
(* gateway that admitted it holds in memory.                               *)
(***************************************************************************)
EXTENDS Integers, FiniteSets

CONSTANTS Seats,        \* the providers of the roster, each with one job
          Callers,      \* calls of synthesize_validation, each with one judge job
          Readers,      \* concurrent attempts to mint the receipt
          NoJob,        \* no judge job
          MaxFaults     \* bound: store calls that fail or lose their answer

Jobs == Seats \cup Callers

ASSUME ValidationAssumption ==
    /\ Seats \cap Callers = {} /\ NoJob \notin Jobs
    /\ MaxFaults \in Nat

NoRun == [status |-> "none", links |-> {}, judge |-> NoJob]
NoReceipt == [links |-> {}, judge |-> NoJob, synthesis |-> "none"]
NoMint == [run |-> NoRun, left |-> {}]

\* A job that ended with its output cut has failed: `truncated'.
Ended == {"completed", "failed", "truncated"}

VARIABLES
    request,    \* what was asked: [review, judge], each a BOOLEAN
    run,        \* the row of validation_runs: [status, links, judge]
    indexed,    \* the jobs validation_run_jobs names for this run
    receipt,    \* the row of validation_receipts
    job,        \* the status of each job's row
    launch,     \* the deferred launch of each job
    kickoff,    \* where the kickoff is
    todo,       \* seats not admitted or skipped yet; recorded, links not indexed yet
    synth,      \* where each call of synthesize_validation is
    mint,       \* the run a reader read, and the linked jobs it has left to read
    aged,       \* the retention horizons have passed
    faults,     \* store calls that failed so far
    crashed     \* the gateway has died (at most once)

row == <<run, indexed>>
jobs == <<job, launch>>
runVars == <<request, row, receipt, jobs, kickoff, todo, synth, mint, aged, faults, crashed>>

RunInit == /\ request \in [review : BOOLEAN, judge : BOOLEAN]
           /\ run = NoRun /\ indexed = {} /\ receipt = NoReceipt
           /\ job = [j \in Jobs |-> "none"] /\ launch = [j \in Jobs |-> "none"]
           /\ kickoff = "begin" /\ todo = Seats
           /\ synth = [c \in Callers |-> "idle"]
           /\ mint = [r \in Readers |-> NoMint]
           /\ aged = FALSE /\ faults = 0 /\ crashed = FALSE

\* A store call ends in `outcome'; the transaction took effect unless refused.
Call(outcome) == IF outcome = "ok" THEN UNCHANGED faults
                 ELSE faults < MaxFaults /\ faults' = faults + 1
Outcomes == {"ok", "refused", "unheard"}

Linked(theRun) == theRun.links \cup ({theRun.judge} \ {NoJob})
Held == {j \in Jobs : launch[j] = "held"}

-----------------------------------------------------------------------------
(* startReviewRun: nothing is launched until the whole roster is admitted. *)

RecordReview(outcome) ==
    /\ kickoff = "begin" /\ request.review
    /\ Call(outcome)
    /\ run' = IF outcome = "refused" THEN run ELSE [run EXCEPT !.status = "admitting"]
    /\ kickoff' = IF outcome = "ok" THEN "admit" ELSE "done"
    /\ UNCHANGED <<request, indexed, receipt, jobs, todo, synth, mint, aged, crashed>>

\* launchProviderSeat refuses: not installed, or a preflight gate.
SkipSeat(s) ==
    /\ kickoff = "admit" /\ s \in todo
    /\ todo' = todo \ {s}
    /\ UNCHANGED <<request, row, receipt, jobs, kickoff, synth, mint, aged, faults, crashed>>

\* Defect: a seat is launched when it is admitted, not when the roster is.
SeatLaunch_AtOnce == "released"

SeatLaunch == "held"

\* Defect: the judge's admission trusts the run that was read before it.
MayClaimJudge_Any == run.status # "none"

\* assertReviewJudgeClaim: evaluated in the transaction that links or skips.
MayClaimJudge == run.status = "running" /\ run.judge = NoJob

\* The job's row, its link and the link's index entry are one transaction; a
\* lost answer leaves them, and no launch, for the manager has forgotten the job.
AdmitSeat(s, outcome) ==
    /\ kickoff = "admit" /\ s \in todo
    /\ Call(outcome)
    /\ IF outcome = "refused"
       THEN UNCHANGED <<row, jobs>>
       ELSE /\ run.status = "admitting" /\ s \notin run.links
            /\ run' = [run EXCEPT !.links = @ \cup {s}]
            /\ indexed' = indexed \cup {s}
            /\ job' = [job EXCEPT ![s] = "queued"]
            /\ launch' = [launch EXCEPT ![s] = IF outcome = "ok" THEN SeatLaunch ELSE "none"]
    /\ IF outcome = "ok"
       THEN todo' = todo \ {s} /\ UNCHANGED kickoff
       ELSE kickoff' = "cancel" /\ UNCHANGED todo
    /\ UNCHANGED <<request, receipt, synth, mint, aged, crashed>>

VerifyLinks(outcome) ==
    /\ kickoff = "admit" /\ todo = {} /\ outcome # "unheard"
    /\ Call(outcome)
    /\ kickoff' = IF outcome = "ok" /\ run.links = {s \in Seats : launch[s] # "none"}
                  THEN "open" ELSE "cancel"
    /\ UNCHANGED <<request, row, receipt, jobs, todo, synth, mint, aged, crashed>>

CompleteAdmission(outcome) ==
    /\ kickoff = "open"
    /\ Call(outcome)
    /\ run' = IF run.status = "admitting" /\ outcome # "refused"
              THEN [run EXCEPT !.status = "running"] ELSE run
    /\ kickoff' = IF run.status = "admitting" /\ outcome = "ok" THEN "release" ELSE "cancel"
    /\ UNCHANGED <<request, indexed, receipt, jobs, todo, synth, mint, aged, crashed>>

\* One deferred.cancel after another, then the fence.
CancelSeat(s) ==
    /\ kickoff = "cancel" /\ s \in Seats \cap Held
    /\ launch' = [launch EXCEPT ![s] = "cancelled"]
    /\ job' = [job EXCEPT ![s] = IF @ = "queued" THEN "failed" ELSE @]
    /\ UNCHANGED <<request, row, receipt, kickoff, todo, synth, mint, aged, faults, crashed>>

\* Defect: the launches are left to be cancelled by nobody.
FenceAdmission_Early(outcome) ==
    /\ kickoff = "cancel"
    /\ Call(outcome)
    /\ run' = IF run.status = "admitting" /\ outcome # "refused"
              THEN [run EXCEPT !.status = "admission_failed"] ELSE run
    /\ kickoff' = "done"
    /\ UNCHANGED <<request, indexed, receipt, jobs, todo, synth, mint, aged, crashed>>

FenceAdmission(outcome) ==
    /\ kickoff = "cancel" /\ Seats \cap Held = {}
    /\ Call(outcome)
    /\ run' = IF run.status = "admitting" /\ outcome # "refused"
              THEN [run EXCEPT !.status = "admission_failed"] ELSE run
    /\ kickoff' = "done"
    /\ UNCHANGED <<request, indexed, receipt, jobs, todo, synth, mint, aged, crashed>>

ReleaseRoster ==
    /\ kickoff = "release"
    /\ launch' = [j \in Jobs |-> IF j \in Seats \cap Held THEN "released" ELSE launch[j]]
    /\ kickoff' = "done"
    /\ UNCHANGED <<request, row, receipt, job, todo, synth, mint, aged, faults, crashed>>

-----------------------------------------------------------------------------
(* startValidationRun: the seats start at once, the run is recorded after, *)
(* and neither a failed start of one nor a failed record stops the others. *)

StartSeats(S) ==
    /\ kickoff = "begin" /\ ~request.review
    /\ job' = [j \in Jobs |-> IF j \in S THEN "queued" ELSE job[j]]
    /\ launch' = [j \in Jobs |-> IF j \in S THEN "released" ELSE launch[j]]
    /\ kickoff' \in {"record", "done"}
    /\ UNCHANGED <<request, row, receipt, todo, synth, mint, aged, faults, crashed>>

\* The run's INSERT names every link; the index entries are INSERTs of their
\* own (one transaction in PostgreSQL), and an error ends the kickoff there.
RecordOrdinary(outcome) ==
    /\ kickoff = "record"
    /\ Call(outcome)
    /\ run' = IF outcome = "refused" THEN run
              ELSE [run EXCEPT !.status = "running",
                               !.links = {s \in Seats : job[s] # "none"}]
    /\ todo' = run'.links
    /\ kickoff' = IF outcome = "ok" /\ todo' # {} THEN "index" ELSE "done"
    /\ UNCHANGED <<request, indexed, receipt, jobs, synth, mint, aged, crashed>>

\* INSERT OR IGNORE: a job reused from an earlier run keeps that run's entry.
EntryAdded(j) == indexed' \in {indexed, indexed \cup {j}}

IndexLink(s, outcome) ==
    /\ kickoff = "index" /\ s \in todo
    /\ Call(outcome)
    /\ IF outcome = "refused" THEN UNCHANGED indexed ELSE EntryAdded(s)
    /\ todo' = todo \ {s}
    /\ kickoff' = IF outcome = "ok" /\ todo' # {} THEN "index" ELSE "done"
    /\ UNCHANGED <<request, run, receipt, jobs, synth, mint, aged, crashed>>

Kickoff ==
    \/ \E o \in Outcomes : \/ RecordReview(o) \/ VerifyLinks(o) \/ CompleteAdmission(o)
                           \/ FenceAdmission(o) \/ RecordOrdinary(o)
    \/ \E s \in Seats : \/ SkipSeat(s) \/ CancelSeat(s)
                        \/ \E o \in Outcomes : AdmitSeat(s, o) \/ IndexLink(s, o)
    \/ \E S \in SUBSET Seats : StartSeats(S)
    \/ ReleaseRoster

-----------------------------------------------------------------------------
(* The jobs.                                                               *)

\* grantOrHold: a permit, whenever it comes, starts only a released launch.
MayLaunch(j) == job[j] = "queued" /\ launch[j] = "released"

Launch(j) ==
    /\ MayLaunch(j)
    /\ job' = [job EXCEPT ![j] = "running"]
    /\ UNCHANGED <<request, row, receipt, launch, kickoff, todo, synth, mint, aged,
                   faults, crashed>>

\* A queued job is cancelled or times out in the queue, released or not.
EndQueued(j) ==
    /\ job[j] = "queued" /\ launch[j] \in {"held", "released"}
    /\ job' = [job EXCEPT ![j] = "failed"]
    /\ UNCHANGED <<request, row, receipt, launch, kickoff, todo, synth, mint, aged,
                   faults, crashed>>

End(j) ==
    /\ job[j] = "running" /\ launch[j] # "gone"
    /\ \E result \in Ended : job' = [job EXCEPT ![j] = result]
    /\ UNCHANGED <<request, row, receipt, launch, kickoff, todo, synth, mint, aged,
                   faults, crashed>>

\* The orphan sweep of the next gateway.
Recover(j) ==
    /\ launch[j] = "gone" /\ job[j] \in {"queued", "running"}
    /\ \E result \in Ended \ {"completed"} :
          /\ result = "truncated" => job[j] = "running"
          /\ job' = [job EXCEPT ![j] = result]
    /\ UNCHANGED <<request, row, receipt, launch, kickoff, todo, synth, mint, aged,
                   faults, crashed>>

\* What binds and mints alike ask of a linked job: it is indexed for this run,
\* it has ended, and its output is whole (hasCompleteOutput).
Verified(j) == j \in indexed /\ job[j] \in Ended \ {"truncated"}

-----------------------------------------------------------------------------
(* synthesize_validation.                                                  *)

Step(c, at) == synth' = [synth EXCEPT ![c] = at]

\* bindReviewSynthesisInput: every linked provider result is terminal and whole.
EvidenceBound == \A s \in run.links : Verified(s)

\* The run is read once; what is bound from it is used after several awaits.
BindReview(c) ==
    /\ synth[c] = "idle" /\ request.review /\ request.judge
    /\ run.status = "running" /\ run.judge = NoJob /\ EvidenceBound
    /\ \/ Step(c, "skip")           \* no completed result, or the seat refuses
       \/ /\ \E s \in run.links : job[s] = "completed"
          /\ Step(c, "claim")
    /\ UNCHANGED <<request, row, receipt, jobs, kickoff, todo, mint, aged, faults, crashed>>

\* The judge's row, its link and the index are one transaction; then its launch
\* is held.
ClaimJudge(c, outcome) ==
    /\ synth[c] = "claim"
    /\ Call(outcome)
    /\ IF MayClaimJudge /\ outcome # "refused"
       THEN /\ run' = [run EXCEPT !.judge = c] /\ indexed' = indexed \cup {c}
            /\ job' = [job EXCEPT ![c] = "queued"]
            /\ launch' = [launch EXCEPT ![c] = IF outcome = "ok" THEN "held" ELSE "none"]
            /\ Step(c, IF outcome = "ok" THEN "release" ELSE "done")
       ELSE Step(c, "done") /\ UNCHANGED <<row, jobs>>
    /\ UNCHANGED <<request, receipt, kickoff, todo, mint, aged, crashed>>

\* Defect: the judge is admitted and linked, and never released.
ReleaseJudge_Forgotten(c) ==
    /\ synth[c] = "release"
    /\ Step(c, "done")
    /\ UNCHANGED <<request, row, receipt, jobs, kickoff, todo, mint, aged, faults, crashed>>

ReleaseJudge(c) ==
    /\ synth[c] = "release"
    /\ launch' = [launch EXCEPT ![c] = "released"]
    /\ Step(c, "done")
    /\ UNCHANGED <<request, row, receipt, job, kickoff, todo, mint, aged, faults, crashed>>

SkipJudge(c, outcome) ==
    /\ synth[c] = "skip"
    /\ Call(outcome)
    /\ run' = IF MayClaimJudge /\ outcome # "refused"
              THEN [run EXCEPT !.status = "judge_skipped"] ELSE run
    /\ Step(c, "done")
    /\ UNCHANGED <<request, indexed, receipt, jobs, kickoff, todo, mint, aged, crashed>>

\* An ordinary judge works on results its caller supplies, and starts at once.
StartJudge(c) ==
    /\ synth[c] = "idle" /\ ~request.review /\ run.status # "none"
    /\ job' = [job EXCEPT ![c] = "queued"]
    /\ launch' = [launch EXCEPT ![c] = "released"]
    /\ Step(c, "check")
    /\ UNCHANGED <<request, row, receipt, kickoff, todo, mint, aged, faults, crashed>>

\* linkJudgeJob reads the run and the receipt first.
CheckJudge(c) ==
    /\ synth[c] = "check"
    /\ Step(c, IF MayClaimJudge /\ receipt = NoReceipt THEN "link" ELSE "done")
    /\ UNCHANGED <<request, row, receipt, jobs, kickoff, todo, mint, aged, faults, crashed>>

\* Defect: the link relies on what linkJudgeJob read.
MayLinkJudge_Unfenced == run.status # "none"

MayLinkJudge == run.status = "running" /\ run.judge = NoJob /\ receipt = NoReceipt

LinkJudge(c, outcome) ==
    /\ synth[c] = "link"
    /\ Call(outcome)
    /\ IF MayLinkJudge /\ outcome # "refused"
       THEN run' = [run EXCEPT !.judge = c] /\ EntryAdded(c)
       ELSE UNCHANGED row
    /\ Step(c, "done")
    /\ UNCHANGED <<request, receipt, jobs, kickoff, todo, mint, aged, crashed>>

Synthesize(c) ==
    \/ BindReview(c) \/ ReleaseJudge(c) \/ StartJudge(c) \/ CheckJudge(c)
    \/ \E o \in Outcomes : ClaimJudge(c, o) \/ SkipJudge(c, o) \/ LinkJudge(c, o)

-----------------------------------------------------------------------------
(* tryMint: mint on read, and the eager mint after job_result.             *)

Mintable == /\ run.status \in {"running", "judge_skipped"}
            /\ request.judge => run.judge # NoJob \/ run.status = "judge_skipped"

BeginMint(r) ==
    /\ mint[r] = NoMint /\ receipt = NoReceipt /\ Mintable
    /\ mint' = [mint EXCEPT ![r] = [run |-> run, left |-> Linked(run)]]
    /\ UNCHANGED <<request, row, receipt, jobs, kickoff, todo, synth, aged, faults, crashed>>

\* readVerifiedLinkedJob: a job still open, no longer there, cut, or not this
\* run's in the index ends the mint.
ReadJob(r) ==
    \E j \in mint[r].left :
        /\ mint' = [mint EXCEPT ![r] = IF Verified(j)
                                       THEN [mint[r] EXCEPT !.left = @ \ {j}] ELSE NoMint]
        /\ UNCHANGED <<request, row, receipt, jobs, kickoff, todo, synth, aged, faults, crashed>>

ReceiptOf(theRun) ==
    [links |-> theRun.links, judge |-> theRun.judge,
     synthesis |-> IF theRun.judge # NoJob THEN "judged"
                   ELSE IF theRun.status = "judge_skipped" /\ request.judge THEN "skipped"
                   ELSE "not_requested"]

FinalizedRun == run.status # "none"

\* finalizeValidationReceipt: insert or ignore, finalize, in one transaction.
Finalize(r, outcome) ==
    /\ mint[r] # NoMint /\ mint[r].left = {}
    /\ Call(outcome)
    /\ mint' = [mint EXCEPT ![r] = NoMint]
    /\ IF FinalizedRun /\ outcome # "refused"
       THEN /\ receipt' = IF receipt = NoReceipt THEN ReceiptOf(mint[r].run) ELSE receipt
            /\ run' = [run EXCEPT !.status = IF @ = "none" THEN @ ELSE "finalized"]
       ELSE UNCHANGED <<receipt, run>>
    /\ UNCHANGED <<request, indexed, jobs, kickoff, todo, synth, aged, crashed>>

Mint(r) == BeginMint(r) \/ ReadJob(r) \/ \E o \in Outcomes : Finalize(r, o)

-----------------------------------------------------------------------------
(* The passage of time, and the death of the gateway.                      *)

\* The horizons are days, a kickoff takes seconds.
Age == /\ kickoff = "done" /\ ~aged
       /\ aged' = TRUE
       /\ UNCHANGED <<request, row, receipt, jobs, kickoff, todo, synth, mint, faults, crashed>>

\* One statement deletes every row whose horizon, set when it ended, is past.
EvictExpired ==
    /\ aged /\ \E j \in Jobs : job[j] \in Ended
    /\ job' = [j \in Jobs |-> IF job[j] \in Ended THEN "deleted" ELSE job[j]]
    /\ UNCHANGED <<request, row, receipt, launch, kickoff, todo, synth, mint, aged,
                   faults, crashed>>

\* The jobs that protect a run are those of the index.
Wedged == /\ aged /\ run.status \notin {"none", "finalized"}
          /\ \A j \in indexed : job[j] = "deleted"

EvictWedged ==
    /\ Wedged
    /\ run' = NoRun /\ indexed' = {}
    /\ UNCHANGED <<request, receipt, jobs, kickoff, todo, synth, mint, aged, faults, crashed>>

\* Every launch and every call in flight dies with the gateway.
Crash ==
    /\ ~crashed
    /\ crashed' = TRUE
    /\ kickoff' = "done"
    /\ launch' = [j \in Jobs |-> IF job[j] = "none" THEN "none" ELSE "gone"]
    /\ synth' = [c \in Callers |-> IF synth[c] = "idle" THEN "idle" ELSE "done"]
    /\ mint' = [r \in Readers |-> NoMint]
    /\ UNCHANGED <<request, row, receipt, job, todo, aged, faults>>

RunNext == \/ Kickoff
           \/ \E j \in Jobs : Launch(j) \/ EndQueued(j) \/ End(j) \/ Recover(j)
           \/ \E c \in Callers : Synthesize(c)
           \/ \E r \in Readers : Mint(r)
           \/ Age \/ EvictExpired \/ EvictWedged \/ Crash

\* The gateway goes on with what it has begun, jobs end, the sweep recovers
\* those of a dead gateway; somebody polls the receipt.
RunFairness ==
    /\ WF_runVars(Kickoff)
    /\ \A c \in Callers : WF_runVars(ReleaseJudge(c))
    /\ \A j \in Jobs : WF_runVars(Launch(j)) /\ WF_runVars(End(j)) /\ WF_runVars(Recover(j))
    /\ WF_runVars(\E r \in Readers : Mint(r))

RunSpec == RunInit /\ [][RunNext]_runVars /\ RunFairness

-----------------------------------------------------------------------------
(* Properties.                                                             *)

Launches == {"none", "held", "released", "cancelled", "gone"}
RunRecords == [status : {"none", "admitting", "running", "judge_skipped",
                         "admission_failed", "finalized"},
               links : SUBSET Seats, judge : Callers \cup {NoJob}]

\* What the columns, the launches, the calls and the faults may hold.
RunTypeOK ==
    /\ request \in [review : BOOLEAN, judge : BOOLEAN]
    /\ run \in RunRecords /\ indexed \subseteq Jobs
    /\ receipt \in [links : SUBSET Seats, judge : Callers \cup {NoJob},
                    synthesis : {"none", "not_requested", "skipped", "judged"}]
    /\ job \in [Jobs -> {"none", "queued", "running", "deleted"} \cup Ended]
    /\ launch \in [Jobs -> Launches]
    /\ kickoff \in {"begin", "admit", "open", "release", "record", "index", "cancel", "done"}
    /\ todo \subseteq Seats
    /\ synth \in [Callers -> {"idle", "claim", "skip", "release", "check", "link", "done"}]
    /\ mint \in [Readers -> [run : RunRecords, left : SUBSET Jobs]]
    /\ aged \in BOOLEAN /\ faults \in 0 .. MaxFaults /\ crashed \in BOOLEAN

\* No reviewer of a repository review runs, or has run, before the whole
\* roster is admitted, linked and the run durably open; none ever runs for a
\* review whose admission was given up (startReviewRun's launch barrier), and no
\* job at all while its launch is withheld or cancelled (grantOrHold).
LaunchBarrier ==
    /\ \A j \in Jobs : launch[j] \in {"held", "cancelled"} => job[j] # "running"
    /\ \A s \in Seats : request.review /\ job[s] \in {"running", "completed", "truncated"} =>
        /\ run.status \notin {"none", "admitting", "admission_failed"}
        /\ s \in run.links
        /\ todo = {} /\ Seats \cap Held = {}

\* A review gets one judge at most, never beside a recorded skip, and its judge
\* is admitted only when every reviewer has ended, whatever concurrent calls of
\* synthesize_validation read before (bindReviewSynthesisInput, assertReviewJudgeClaim).
OneJudge ==
    request.review =>
        LET judges == {c \in Callers : job[c] # "none"}
        IN  /\ Cardinality(judges) <= 1
            /\ judges # {} => run.status \notin {"admitting", "admission_failed", "judge_skipped"}
            /\ judges # {} => \A s \in Seats : job[s] \notin {"queued", "running"}

\* What synthesisMatchesRun and providerRosterMatchesRun ask of a receipt.
Verifies == /\ receipt.links = run.links
            /\ IF run.judge # NoJob
               THEN receipt.judge = run.judge /\ receipt.synthesis = "judged"
               ELSE receipt.judge = NoJob /\ receipt.synthesis # "judged"
            /\ request.judge => receipt.synthesis # "not_requested"

\* A run is finalized exactly when its receipt is stored: no reader finds one
\* without the other, whatever a sweep deletes (finalizeValidationReceipt,
\* evictWedgedValidationRuns).  For every review, and every run whose judge was
\* planned, the receipt agrees with its run for good, so that a reader is never
\* told verification_failed (README.md, validation_receipt).
ReceiptVerifies ==
    /\ (receipt # NoReceipt) <=> (run.status = "finalized")
    /\ receipt # NoReceipt /\ (request.review \/ request.judge) => Verifies

\* The store's statements are called in such an order that a run is opened,
\* judged and finalized once, on a complete roster, and never out of the blue:
\* finalizeValidationReceipt's UPDATE itself would finalize a run that is still
\* admitting, and recordValidationRun a run that a sweep has deleted.
Ledger == INSTANCE RunLedger WITH Judges <- Callers, status <- run.status,
                                  links <- run.links, judge <- run.judge
RunKept == Ledger!Spec

\* However the admission of a review goes, each launch withheld for it is
\* eventually released, cancelled, or gone with its gateway.
LaunchesSettled == Held # {} ~> Held = {}

\* A link nobody will ever verify: its output is cut, or the kickoff is over and
\* the index does not have it (a write failed or crashed, or the job is reused).
NeverVerified(j) == job[j] = "truncated" \/ (kickoff = "done" /\ j \notin indexed)

\* An open run whose judge, if planned, is linked or skipped gets its receipt
\* when someone reads it, unless its horizon passes first, the answer to a
\* job's admission was lost and nobody holds its launch, or one of its links
\* can never be verified (tryMint).
OpenRunMinted ==
    (run.status \in {"running", "judge_skipped"} /\ Mintable)
        ~> (\/ run.status = "finalized" \/ aged
            \/ \E j \in Linked(run) : launch[j] = "none" \/ NeverVerified(j))

=============================================================================
