# A TLA+ model of llm-cli-gateway

llm-cli-gateway is an MCP server that runs command-line agents (Claude, Codex,
Gemini, Grok, Devin, ...) and HTTP model APIs as *jobs*.  This directory models what
every tool call goes through: admission under limits, the child process and its
retries, the life of a job inside one gateway, its output and durable row, the record
of the request in the flight recorder, the leases by which several gateways sharing one
store recover each other's jobs, and the way a gateway leaves; and, on top of that,
validation runs made of several jobs, the configuration files that Claude jobs leave
behind, and the lock files of the session store and of the agent-config Kit.  The paths below are relative to `src/src/`.

## 1. Inventory

| Component | Source | State it keeps | Operations | Hard behaviours | Modelled in |
|---|---|---|---|---|---|
| Job limiter | `async-job-manager.ts` 379-590, 5578 | counts of permits in use (global, per provider), FIFO queue with a timer per entry | acquire, release, cancel, queue timeout, pump | callbacks that re-enter `pump()`, idempotent release, fairness | `JobLimiter` |
| Job life cycle | `async-job-manager.ts` 2432-3335, 3778-4222, 4507-5234, 5443 | a record per job: status, permit, child or request, timers, terminal flags | start, deferred release/cancel, launch, cancel, close, settle, idle timeout, eviction, terminal write and its retry | every `await` of a store call lets the other handlers run; several of them end the same job | `JobLifecycle` (partly) |
| Durable job store | `job-store.ts`, `postgres-job-store-ops.ts` | table `jobs`: status, owner, lease, pid, output; table `gateway_instances` | recordStart, markRunning, recordOutput, recordComplete, recordCapture, heartbeat, recoverStaleJobs, gcInstances | writes of several gateways, fenced by WHERE clauses | `JobLeases`, `JobOutput` (partly) |
| Instance lease | `async-job-manager.ts` 1837-2135 | admission flag, failure and success counters, skip flag | heartbeat tick, recovery, sweep | crash, blocked event loop, failing store, pid reuse | `JobLeases` (partly) |
| Shutdown | `async-job-manager.ts` 1681-1823 | `disposed`, pending writes | dispose, drain, deregister | heartbeats and restores in flight | `Shutdown` (partly) |
| Output and capture | `async-job-manager.ts` 3440-3990, `provider-capture.ts` | buffers, dirty flags, ownership of the row's output | append, flush, late output, capture | stale flush against a foreign terminal write | `JobOutput` (partly) |
| Deduplication | `async-job-manager.ts` 2703-2850 | request keys in the store | lookup, reuse | check-then-act | `RequestFlights` (partly) |
| Flight recorder | `flight-recorder*.ts`, `flight-ownership.ts`, `index.ts` 1908-2068 | one row per request | logStart, logComplete | completion by handler, manager, sweep | `RequestFlights` (partly) |
| Processes, termination fence, stdin | `executor.ts`, `child-stdin.ts` | active process groups, signal timers, delivery of stdin | spawn, stop, escalate, close, kill all groups | SIGTERM ignored, leader gone before its group | `Executor` (partly) |
| Circuit breaker, retry | `retry.ts` | state, failure count, time of the last failure | try, success, failure, backoff | stragglers, several trials half open | `CircuitBreaker` |
| Validation | `validation-orchestrator.ts`, `validation-tools.ts`, `validation-receipt.ts` | runs, provider and judge jobs, receipts | admit roster, release, judge, skip, mint | partial start of a roster, concurrent judges, retention | `ValidationRuns` (partly) |
| Sessions | `session-manager*.ts` | sessions, attempts, tombstones | create, admit, finalize, reconcile | crash between row and session; several gateways, one file | the file's lock: `FileLocks` |
| Agent-config Kit | `personal-config.ts` | releases, active release, lock | sync, rollback, acknowledge | several processes; takeover of a dead owner's lock | its lock: `FileLocks` |
| MCP artifacts | `claude-mcp-config.ts`, `mcp-artifact-*.ts`, `async-job-manager.ts` 2076-2395, 3252-3330 | a config file per Claude request, a cleanup pin on its row | write, pin, unlink, acknowledge, reconcile, recover by hand | a child that outlives its job, unlink and acknowledgement apart, restarts, several removers | `McpArtifacts` (partly) |
| Storage drivers | `storage/drivers/*.ts` | a write queue per file; pools per role | transaction, bootstrap, close | drain bound, lost commit acknowledgement | - |
| ACP | `acp/*.ts` | sessions, pending JSON-RPC requests | initialize, prompt, cancel | late answers, process exit | - |
| HTTP transport, OAuth | `http-transport.ts`, `oauth.ts` | sessions, codes, tokens | open, close, authorize, exchange | table limits, single use | - |
| Worktrees, workspaces | `worktree-manager.ts`, `workspace-registry.ts` | worktree metadata | create, remove, prune | mostly git I/O | - |
| Router, registry, parsers, compressor, doctor, config | the rest | caches, tables | pure functions | little control | - |

How they interact: a tool calls `startJob*`, or, for a synchronous request, the
executor.  The manager asks the limiter (a synchronous call whose grant comes back as a
callback), then the store, then spawns a child or sends a request; events of the child,
timers and callers end the job in memory; the terminal path writes the row, completes
the flight record, accounts for the capture, releases the permit (which calls back into
the launch of another job) and runs the session hook.  Heartbeat and reaper timers run
beside all this, and other gateways write the same tables.  A validation run admits
its seats as deferred jobs and releases them together; its receipt is minted by whoever
reads it after its jobs ended.

What makes it correct: the limits hold and nobody sleeps beside a free permit; a permit
always comes back; a job has one result; its row gets that result and the whole output;
a job of a living gateway is never presumed dead while its lease can be trusted and a
dead gateway's jobs are always recovered; no child runs that the store does not know of,
none survives its own condemnation or the gateway's shutdown; a request's flight row is
completed, once, and by whoever knows best; a roster is launched as a whole or not at
all, has one judge, and its receipt keeps telling the truth about it; a job's config
file stays while its child reads it and is removed in the end, and until then its row is
kept.

## 2. Modules

| Module | Models | Theorems in |
|---|---|---|
| `JobLimiter` | `class JobLimiter` and its callers' part of the protocol | `AdmissionProofs` |
| `JobLedger` | abstract: the transitions the store promises for one row | (refined by `JobLeases`) |
| `JobLeases` | several gateways over one store | `OwnershipProofs` |
| `JobLifecycle` | the jobs of one gateway, in memory and in their rows | `JobLifecycleProofs` |
| `Shutdown` | `dispose()` against what is in flight in its gateway | `ShutdownProofs` |
| `CircuitBreaker` | `withRetry` and the breaker its calls share | in `ExecutorProofs` |
| `Executor` | `executeCli` over `CircuitBreaker`: processes, fences, stdin, shutdown | `ExecutorProofs` |
| `OutputLedger` | abstract: what the statements promise about a row's output | (refined by `JobOutput`) |
| `JobOutput` | the output and capture of one job, in memory and in its row | `JobOutputProofs` |
| `RequestFlights` | identical requests, shared jobs and their flight rows | `RequestFlightsProofs` |
| `RunLedger` | abstract: the moves of a run's row and its receipt | (refined by `ValidationRuns`) |
| `ValidationRuns` | one validation run, its jobs, judge and receipt | `AdmissionProofs` |
| `FileLocks` | the lock files of the Kit and of the session store | `OwnershipProofs` |
| `McpArtifacts` | a Claude job's config file, its removers and the pin on its row | `McpArtifactsProofs` |
| `MC*` | the instances TLC checks, one per module | |

`Executor` EXTENDS `CircuitBreaker` and joins its operators to the end of each process.
The other modules meet in what they assume of each other: `JobLifecycle` assumes of the
limiter what `JobLimiter` proves, `ValidationRuns` of a deferred job what
`JobLifecycle` shows, `JobOutput` and `RequestFlights` refine one part each of the
terminal path that `JobLifecycle` keeps as a single write.

The proofs are grouped by what they are about: `AdmissionProofs` has those of the limiter
and of validation runs, `OwnershipProofs` those of leases and of lock files, where in both
a survivor takes over from a dead owner.  `ValidationRuns` and `FileLocks` name their
specifications `RunSpec` and `LockSpec`, so that they stand beside the other module's
`Spec` there.

### JobLimiter

`queue`, `runningGlobal` and `runningByProvider` are the fields of the class; `stage`
is what a request made of its `acquire()` so far; `moot` holds waiting requests whose
`onGrant` will give the permit straight back (a job that ended, a disposed manager).
JavaScript runs `pump()` to its end before anything else, but the callbacks it makes
may call `release()` and so `pump()` again.  `pumping` is true while some `pump()` is
on the stack; each grant is a step of it, and no other action is enabled.  A nested
`pump()` differs from restarting the scan in nothing the queue can show, so the
recursion is flattened; `PumpBounce` is a grant whose callback releases.  A request
that came to an end may be reused for a new call of any provider, so the run has no
last request and starvation is visible.

### JobLeases and JobLedger

Time is counted in heartbeat intervals; `lease[j]` is the number that `Tick` has not
counted yet, -1 when the deadline has passed or is NULL.  A deadline is not aligned with
the intervals: at 0 it may pass at any moment of the interval that has begun (`RunsOut`,
and likewise for the age of an http job at its grace), so a beat that comes late in it may
find the row swept.  An instance is `off`, `up` or `crashed` (a restart is another
instance id, as in the code).  `due` says whether the beat of this interval is still
to run; it becomes `late` when another interval passes, which is what
`runHeartbeatTick` measures as drift.  A beat succeeds, fails, or commits and fails
(lost acknowledgement).  The sweep is two steps, the candidate read with its
`kill(pid, 0)` probes and the `recoverStaleJobs` transaction, and anything may happen
between them.  A dead child's pid may have been taken by another process.  `mem`,
`marking` and `result` are the owner's record of the job: `marking` while
`markRunning` is on its way.  `missed` and `recorded` are history variables.

`JobLedger` is what the statements promise about one row: queued, running, orphaned,
one result, deleted; a result may replace `orphaned` and nothing replaces a result.
`JobLeases` implements it with the row's own status as the mapping.

### JobLifecycle

A step is the code between two awaits of the store.  `start` follows the start call
(`acquire`, then `recordStart`), `launch` the launch after its grant, `pending` counts
the terminal pipelines waiting for their turn in the job's write chain.  `slot` is the
job's permit as the limiter sees it; `wired` says that `job.limiterPermit` is set, so
that a release would find it.  `queuedFirst` is the answer `acquire()` gave, which
`recordStartOrFailClosed` uses after its await.  The limiter is reduced to what
`JobLimiter` proves of it: a released permit is handed on in the same step to a waiter
(`pumping` disables the rest until then).

The store is a parameter.  With `Pooled = FALSE` it is SQLite: the driver is
synchronous, every answer arrives within the microtasks that follow, so no timer or
child event comes between (`EventDelivered`), and statements commit in call order.
With `Pooled = TRUE` it is PostgreSQL: a call takes event-loop turns and the calls of
one job may commit in any order where the code does not await one before the other.

`Launch` keeps the code's check for a job that ended before its grant.  In this module
it never applies (a job leaves "queued" only together with its queue entry); in
`JobLimiter` it is the `moot` request.

### Shutdown

`phase` is how far `dispose()` is: "ending" while it awaits the terminal writes of
queued jobs, "retrying" while it awaits the writes it repeats, "draining", and
"deregistering"; `disposed` is `phase # "up"`.  `expired` is its deadline, the only
thing that bounds its awaits.  `thread` says for the startup coroutine and for the
heartbeat tick which store call each waits for; both go on when it answers, and only
`restoreDurableAdmission` then looks at `disposed`.  Of the jobs it keeps the start
call (with the id lookup between the check of `disposed` and the insertion into the
map), the launch, the child, and the terminal write with its capture, because these
are what the drain condition reads.  A refused start is deleted from the map and so
out of the reach of `dispose()` (section 6, 1), which is what `Tracked` says in the
properties.  `inst` is the row in `gateway_instances`, which another gateway may
collect at any time.  The store is a parameter as in `JobLifecycle`.

### CircuitBreaker and Executor

A step of `CircuitBreaker` is what `withRetry` does between two awaits: the admission
with the first try, the end of a try with the decision that follows, the end of a
backoff with the next try.  `age` is the age of `lastFailureTime` in ticks; it and
`failures` stop counting where the code no longer tells larger values apart.

`Executor` gives each try a process: a group named by its call and the number of the
try.  `leader` is its leader or the leader's exit code (a signal gives none, and
`code ?? 0` takes that for 0), `kin` a descendant in the group, `registered` its place in
`activeProcessGroups`, `pending` the armed escalation timer of its fence, `cause` the
flags `timedOut`, `idledOut` and the early rejection by an overflow, `stdin` the
delivery of the request.  SIGTERM may be ignored by any member and so has no effect of
its own; a process may end at any time anyway.  SIGKILL ends the group.  The shutdown
asks, kills what is registered by then, and exits; calls and retries go on in between,
as nothing in the code stops them, which `late` records.

### OutputLedger and JobOutput

Output is counted in chunks.  `flushes` and `flush` are the chain of routine flushes
(`outputWriteChain`), `waiting` and `step` the chain of terminal pipelines
(`terminalWriteChain`); the two run side by side.  Each store call is sent, is or is not
committed, and is answered, perhaps with an error although it was committed.  The fence
of a statement (`OwnedStatuses`) is computed when it is sent.  `persisted`, `owned`,
`lost`, `captured` and `acknowledged` are the flags of the job record.  Another gateway
may sweep the row, or collect the owner and write its stand-in for the capture, at any
time.  The history variables `crossed` and `unheard` mark what the code cannot repair
(section 6, 6 and 7).  `OutputLedger` says what the row shows of all that: a body
rewritten while open, frozen when presumed dead, replaced by a result, and one
accounting of the capture, where only the stand-in yields.

### RequestFlights

A handler (`stage`) looks its request key up, takes the job it found or creates one,
and polls.  A synchronous one completes its flight row inline, or is deferred at its
deadline and arms the manager's completion; an asynchronous one leaves the row to the
manager from the start.  The job ends, its pipelines pass, and the manager's completion
runs behind each of them (`due`, `write`).  A sweep of another gateway completes rows
with rank 1, an observer with rank 2.  The window between lookup and insertion is there,
so two requests may share a job or start two.

### RunLedger and ValidationRuns

One run and its receipt as rows, the status of each job's row, and `launch`, the
deferred launch that the admitting gateway holds in memory.  `kickoff` is the one
coroutine of `startReviewRun` or of `startValidationRun`; each caller of
`synthesize_validation` reads the run, and claims, skips or links several awaits later;
each reader of a receipt reads the run, then its jobs one at a time, then finalizes.  A
store call succeeds, is refused, or is committed with its answer lost.  Retention deletes
jobs past their horizon and then runs without any; the gateway may die once.

`indexed` is the reverse index `validation_run_jobs`, as far as it names this run.  A
review's links enter it in the transaction of the job's admission.  `recordValidationRun`
of an ordinary run writes the row and then each entry by a statement of its own
(`IndexLink`; PostgreSQL makes one transaction of them, which is one of the behaviours),
and `INSERT OR IGNORE` leaves the entry of an earlier run in place where a job is reused
(`EntryAdded`).  A job that ended with its output cut is `truncated`.  `Verified` is what
`readVerifiedLinkedJob` asks of a linked job: that the index has it for this run and that
it ended whole.  The wedge sweep looks for surviving jobs in the index, not in the links.

`RunLedger` is the record of a run as its readers understand it: announced, linked,
opened, judged at most once, finalized with a receipt that tells its links and its
judge.  The statements themselves allow more (the one that finalizes asks for no status);
`ValidationRuns` implements it because of the order in which the orchestrator calls them
and of what it has read before.

### FileLocks

The steps are system calls: `open(O_EXCL)`, `link`, `rename`, `unlink`, a read of a
record, and the `kill(pid, 0)` that asks for its owner; between any two of them other
processes go on, end, or die, and `saw` is the record that was read.  `file` is
what is at the path of the lock and of the recovery lock, `aside` what a process moved to
its quarantine path.  The two protocols differ where the code does: the Kit publishes a
complete record by `link(2)` and removes by rename, look, restore; the session store
writes the record after the `open`, and unlinks after a second read.  Two history
variables name what the Kit's protocol cannot repair (section 6, 13): `doubt`, that the
recovery lock of a dead reclaimer was moved aside to be taken over, or that a reclaimer
found dead the owner of a record that had left the path since it was read; and
`displaced`, that a rename moved aside another record than the one that was read.

### McpArtifacts

A job's config (`file`) is written by the request, which hands it to the manager of its
gateway (`owner`); `held` is the job in that manager's memory, `closed` the
`closeObserved` of its record and `path` its `mcpArtifactPath`.  Each terminal callback
(`calls`: the one that ends the job, the close of a job already over, the retry of the
terminal write) is a sequence of awaits of its own: the write, the confirmed unlink, the
acknowledgement, the request's own cleanup; `liveProcessMayStillReadArtifacts` is looked
at once, after the write.  `cleaner` is a gateway's `reconcileLocalOrphanedClaudeMcpArtifacts`
or the cleanup that follows its sweep, and the operator's command.  An unlink reports
"removed", "absent" or a refusal, which stands for unsafe, scope_changed and failed; a
store call may report an error whether it was applied or not.  Leases are abstracted: a
row whose owner is gone may be swept at any time, one whose owner lives as often as
`MaxLapses` (`JobLeases` has the reasons).  The sweep that precedes a start's
reconciliation is the sweep at another time, and the two selectors of the reconciliation,
for orphaned and for pinned rows, are one.

## 3. Runs

| Run | Instance | What it asks |
|---|---|---|
| `limiter` | 4 requests, 3 providers, 2 permits (1 per provider), queue of 2 | caps, no runnable waiter sleeps, FIFO per provider, every waiter is served |
| `leases` | owner and watcher on one machine, a process or an http job, lease of 2 beats | refinement of `JobLedger`, no unrecorded child, no live job orphaned early; a dead owner's row is recovered although its pid is reused; a result reaches its row |
| `lifecycle_sqlite` | 2 process jobs, 1 deferred http job, 1 permit, serial store | rows settled, results final |
| `lifecycle_pool` | 1 process job, 1 deferred http job, 1 permit, pool | permits come back; every job ends |
| `shutdown_pool` | 2 process jobs, pool | every child left is signalled; no living child once deregistration is asked |
| `shutdown_sqlite` | 2 process jobs, serial store | no open row after deregistration, deregistration is final, `dispose()` returns |
| `executor` | 2 callers of one command, 2 tries, breaker threshold 2, reset after 1 tick | condemned groups die, shutdown kills all, success is whole, calls return, the breaker closes again |
| `output` | 1 job of 2 chunks | the row keeps the whole output, accounts for it once and whole, refines `OutputLedger`, settles |
| `flights` | 2 identical requests | rows are completed, by one, and an observation stands over a presumption |
| `validation` | 2 seats, 2 judge calls, 2 readers; 1 failed or unheard call or 1 crash, outputs cut, links not indexed | launch barrier, one judge, the receipt verifies, launches settle, receipts are minted |
| `file_locks` | 3 processes, 2 deaths or exits | one holder, locks returned by the living, dead owners' locks reclaimed |
| `mcp_artifacts` | 1 job, 2 gateways of its machine, 1 of another, the operator; 2 faults of 4 kinds | a row with a config on disk stays, pinned; a living child's config is removed by no owner; every config is removed |

Every property of a run has a mutant: an operator `<Action>_<Defect>` in the
module, which states the action with a plausible bug; put in place of the action it
violates the property.

**Bounds.**  Two of a kind and one permit are enough for every race between jobs that
the code knows: jobs meet only in the limiter, and a third job is only one more
waiter.  The limiter's three providers share two permits of one each, so either cap can
be the one that binds: while two providers run, a waiter of the third has only the global
cap against it, and each permit that comes back may go to it or to a newcomer; the fourth
request fills the queue.  Two instances are enough for the leases because a row has one owner and
the sweep of any other instance reads nothing but the row; the watcher neither
crashes nor beats late in the runs, as both only keep it from sweeping, and the owner
crashes or its store fails, not both.  A lease of
two beats is the shortest `config.ts` accepts (392-402), and a grace of three separates the
grace from the lease.  Only the watcher sweeps in the run; the safety
properties are proved with every instance sweeping (section 4).  In `Shutdown` a second job is there for the drain to see one job
while the other is being launched or comes late.

In `executor` the first caller meets everything that can happen to a process and the
second is the straggler that the breaker is about: its processes end well or as after a
timeout.  Descendants survive the first try only, the straggler is over when a shutdown
begins, and the provider recovers in a gateway that stays (`MCExecutor`); two tries are
the fewest that retry.  In `output` two chunks give a part of the output that is not the
whole.  In `flights` the first request comes first, and its job is the one that may end
early or be swept.  In `validation` interchangeable actors move in order, a second
judge call meets one reader and a second reader one judge call, and a failure, a crash, a
cut output or a link that is not indexed meets one reader (`MCValidationRuns` states each
restriction).  In `file_locks` two deaths are the fewest with which a reclaimer dies too,
and three processes the fewest with which a reclaimer displaces the live lock of one in
place of the dead or departed other's; a second entry beside that lock takes a fourth,
which the theorems allow.  In `mcp_artifacts` jobs do not meet, so one is
enough; its owner, another gateway of its machine and the operator are all that may touch
the file, and the gateway of another machine only sweeps rows it may not clean.  Of the
four kinds of fault any two occur in one behaviour, each once.

No bound is put on the number of retries, restarts of admission or pipelines beyond
what the actions themselves allow.

**Fairness.**  Timers fire and callbacks that are due run (weak fairness of the steps
they take), a child or request that is killed, closes or times out ends, and a store
that is asked again and again does not fail for ever (strong fairness of the
terminal write, of the capture and its read-back, and of the sweep's write, which
retries and the next interval repeat).  Not assumed: that calls succeed at first, that
an instance survives, that a caller cancels.  `DeadOwnersJobsRecovered` needs a survivor
that from some time on is up, admitted and not always late: the code skips a sweep after
each late beat, so an instance that is late for ever recovers nobody.  `JobsEnd` needs
the caller of a deferred start to release it in the end: nothing in the manager does it
for him.  `ShutdownEnds` assumes only that `dispose()` resumes when its awaits are over
and that the timer of its deadline fires: neither the store nor a child has to answer.

`CallsReturn` does not assume that a process ends: only that timers fire and that the
close of a dead group is reported.  `RecoveryClosesBreaker` adds callers that keep
calling and processes that end well once the provider is healthy.  `FlightsComplete`
needs a launched child to close.  `LaunchesSettled` and `OpenRunMinted` need the gateway
to go on with what it has begun, jobs to end and somebody to poll the receipt, since
receipts are minted on read.  `DeadLockReclaimed` needs live processes to go on and some to
ask again: the takeover is done by whoever wants the lock.  `ConfigsRemoved` needs the
owner to go on with its job, and of the other gateways of the machine that they are
stopped and started now and then, or recover from an outage, because nothing else runs the
reconciliation; one of them goes on sweeping, as the reaper's timer does.  Nothing is
asked of the other machine or of the operator.

Deadlock checking is off: a gateway with nothing to do stops.

## 4. Proofs

TLAPS checks these for every number of requests, providers, instances, jobs, callers,
tries, chunks, processes, seats, callers and readers, every limit, lease length and grace
allowed by the assumptions:

| Module | Theorem | States |
|---|---|---|
| `AdmissionProofs` | `LimiterTypes`, `QueueExact`, `CapsRespected`, `NoWakeupLost`, `FirstComeFirstServed` | all safety of `limiter` |
| | `RunTypes`, `LaunchesBarred`, `JudgedOnce`, `ReceiptsVerify`, `ReceiptsAreFinal`, `RunLedgerRefined` | all safety of `validation`; a finalized run and its receipt never change; the run implements `RunLedger` |
| `OwnershipProofs` | `LeasesTypes`, `ChildrenRecorded`, `LedgerRefined`, `LiveJobsOutlastMissedBeats` | all safety of `leases` |
| | `LockTypes`, `LocksExclude`, `LocksAreRespected` | all safety of `file_locks`; who takes a lock file away |
| `JobLifecycleProofs` | `LifecycleTypes`, `LimitRespected`, `PermitsComeBack`, `ResultsAreFinal`, and for the serial store `ClosesAreHandled`, `RowsSettle` | all safety of the two life-cycle runs |
| `ShutdownProofs` | `TypeCorrect`, `AdmissionClosed`, `AllSignalled`, `DeregisteredIsChildless`, and for the serial store `DeregisteredIsClean`, `DeregisteredForGood` | all safety of the two shutdown runs |
| `ExecutorProofs` | `ExecutorTypes`, `CondemnedDie`, `ShutdownLeavesNobody`, `SuccessesAreWhole`, `BreakerKeepsItsRules` | all safety of `executor`; what moves the breaker |
| `JobOutputProofs` | `OutputTypes`, `CapturesAreWhole`, `OutputsAreKept`, `LedgerRefined` | all safety of `output` |
| `RequestFlightsProofs` | `FlightsTypes`, `ObservationsStand`, `RowsCompletedByOne` | all safety of `flights` |
| `McpArtifactsProofs` | `ArtifactTypes`, `PinsGuardFiles`, `ConfigsKept` | all safety of `mcp_artifacts` |

Every safety property of a run is thus proved, for the whole specification and not only
for the steps to which an `MC` module restricts TLC.

The theorems about types, and `QueueExact`, `LimitRespected`, `ClosesAreHandled` and
`AdmissionClosed`, state invariants of the modules (`TypeOK`, `QueueIsTheWaiters`,
`RunningWithinLimit`, `CloseSeen`, `AdmissionStaysClosed`) that the others rest on; they
are proved and not in the list of a run.

*Limiter.*  `CapsRespected` counts: each counter is the cardinality of the set of
holders, so a release without a permit, or two for one, would break it.
`NoWakeupLost` holds because only a release makes a waiter runnable and a release
starts the pump, which stops only when its scan finds nobody; that in turn needs the
queue to be exactly the set of waiters, without repetition.

*Leases.*  `Outstanding` counts the beats of an instance that have not come through, the
one due now included.  `LiveJobsOutlastMissedBeats` rests on `LeaseOutlastsMisses`: as long
as fewer than `LeaseTTL` are outstanding, an open row of an instance that is up has at
least `LeaseTTL - Outstanding` intervals left, and so cannot run out.  It is not
inductive alone: the beat may commit without acknowledgement, the sweep may advance
the lease of a row it took for alive, and `markRunning` renews a row on its own.
`LedgerRefined` needs `EndedJobsHaveResults` (a job about to write has a result to
write); each action is a step or a stutter of `JobLedger`.

*Life cycle.*  The inductive invariant has three parts per job.  `Admission` relates
the start call, the answer of the limiter and the permit; `Permit` says where a held
permit will be released from (a pipeline, a running child, the deferred control, or a start
call that has not returned); `Running` says that a running job has a live pipeline
towards its end.  `PermitsWithinLimit` is carried along for the cardinality.  For the
serial store `DurableInv` adds that nothing ends while a call of the job is in
flight, from which `CloseSeen` and `RowSettled` follow.  On a pool both are false
(section 6, 2 and 3).

*Shutdown.*  `AllSignalled` needs to know, per job, that a launch in progress has no
child yet and runs (`Stages`), and that a living child whose job ended was signalled
when it ended (`Children`): the pass of `dispose()` signals only what it finds
running, and the fence of `launchProcessJob` stops the rest.  `DeregisteredIsChildless`
follows at the end of the drain, since a child whose close was seen is dead.
`DeregisteredIsClean` uses that only a closed row takes a capture (`Rows`), which the
drain waits for, and `Quiet`: with a serial store no start call and no lease call
straddles the beginning of `dispose()`.

*Executor.*  Every group with a living member is registered (`OnTheBooks`): that is why
asking for the end of a group may leave everything else to the timer.  It survives the
exit of the leader because `cleanupAfterLeaderExit` keeps a pending group.  `CurrentTry`
says that a try whose promise has not settled is the one its call waits for, without
which the close of an old process could settle a newer try; `BornLate` carries the
history of the shutdown, `Unborn` excludes a failed spawn from both.  `BreakerInv` relates
the state of the breaker to its counters.  `BreakerKeepsItsRules` takes the breaker by its
steps: it opens only on the error that reaches the threshold, lets a trial in only after
the reset time, and closes only on a success of a call that was running, which again
needs `CurrentTry`; that the trial need not be a single one is no part of it (section 6,
10).

*Output.*  `CallSound` says of a call in flight that it never writes an orphaned row's
output and that the capture it carries is the whole output of a closed child;
`FlushSound` the same of a routine flush.  With them `Effect` gives for each statement one
of four changes of the row, and each of these is a step of `OutputLedger`.

`OutputsAreKept` relates the two promise chains to the row.  `Stages` orders the terminal
chain: the result first, the late output and the capture after it, and the last pipeline
to begin carries everything a closed child wrote.  `ResultStands` says that, as long as
every committed result was heard of, the row has ended exactly when the owner wrote it,
so that nothing the owner sends after it is turned away; `RowHeld` says the same of
routine flushes.  `LastWrite` is the property while work is left: once the write of the
last pipeline has run, the row and every flush still due hold the whole output, or the
write will be tried again.  It is not inductive without the others: a flush sent before
the result, or a rejected one that sets `lost`, would undo it, which is what `crossed` and
`unheard` exclude.

*Flights.*  `StartedOnce` (no row before its start), `Handlers` (who may poll and
complete), `Owners` (the manager completes only what it was armed for; a handler that
completed has left) and `Pipelines`.  `RowsCompletedByOne` is the meeting of the two
halves of `Owners`; its exception, a later request that shares the job and was deferred,
is a state the invariant names.

*Validation.*  `InOrder` says what the position of the kickoff excludes: until a run is
open nobody has read it for a judge or a receipt (`NothingBegun`), and when the launches are
released the links are still the ones that were verified (`RosterComplete`).
`LaunchedWhenOpen` is the barrier, strengthened by the seats that a permit may launch at any
moment.  It survives the retention because a run is evicted only when every job the index
has for it is deleted, and `SeatsLinked` leaves no job of a review unlinked and no link
unindexed.  `JudgedOnce` needs that a bound evidence
stays terminal (`EvidenceStands`: no reviewer is admitted after the run is open) and that the
judge is the one the run names (`JudgeOfRun`), which the transaction of the claim looks at
again; that a run may be evicted under a call is why the judges are compared with each other
as well.  `ReceiptsVerify` rests on `ReadStands`: between a reader's read and its transaction
the run may be finalized, skipped or evicted, but neither its links nor a planned judge
change.  `ReceiptsAreFinal` follows, since every guard that writes a run asks for another
status.  `RunLedgerRefined` rests on the same facts: `ReadStands` gives the links and the
judge that a receipt is stored with, `InOrder` that a run is recorded, opened and given up
only from the status its ledger says.

*Locks.*  `Held` is what holds until a rename displaces something: `Published` says that
what a process holds is at its path, `Accounted` that what is at a path and names a live
process is held by it, `Removing` and `Matching` that what is being removed is the
process's own record or that of a dead owner, and that what was moved aside is what was
read.  `HoldsLock` and `HoldsRecovery` read off the step a process is at what it holds.
Exclusion follows as one path has one content.  `Stable` is the reason for the recovery
lock, and needs more: as long as there is no `doubt`, what a reclaimer found dead is still
there when it renames it, for only the holder of the recovery lock removes a dead owner's
lock.  Hence the first displacement comes after a doubt.  For the storage lock none comes
at all: its second read follows the question, and a record read twice around it was there,
and its owner dead, when it is unlinked (`Matching`).

`LocksAreRespected` is about the steps instead: as what a process holds is at its path and
what a reclaimer found dead is still there, the unlinks and renames, which name a path and
not a token, take away the process's own file or that of the dead, and nobody else's, until
a rename displaces something.

*Artifacts.*  Per job, `Unlaunched` (no child and no row before their time), `Callbacks`
(a close proves the child dead; a callback past its write had no child or saw the close,
and one that acknowledges has unlinked) and `Pinned`, which is `PinsGuardFiles`; per
cleaner, `CleanerInv`: what it unlinks it has seen settled, and a settled row never opens
again, though it may be deleted, completed over or acknowledged by others in between
(`Monotone`).  `ConfigsKept` takes the removers one by one: the caller's cleanup and the
owner's have no living child, and a cleaner's row cannot have been deleted, because the
file is still there.

Each inductive invariant was checked by TLC on an instance before it was proved; that of
`ValidationRuns` on `RunSpec` itself too, without the restrictions of `MCValidationRuns`
(two seats, two callers, two readers, up to symmetry: 7.5 million states).
`ReceiptsAreFinal`, `RunLedgerRefined`, `LocksAreRespected` and `BreakerKeepsItsRules` state
what no run lists: TLC checked them once on the instances above, and their formulas
(`ReceiptIsFinal`, `RunKept`, `LocksRespected`, `BreakerSteps`) are beside the theorems or
in the module.

Only model-checked are the liveness properties: `WaiterServed`, `DeadOwnersJobsRecovered`,
`ResultReachesRow`, `JobsEnd`, `ShutdownEnds`, `CallsReturn`, `RecoveryClosesBreaker`,
`RowSettled` of `JobOutput`, `FlightsComplete`, `LaunchesSettled`, `OpenRunMinted`,
`DeadLockReclaimed` and `ConfigsRemoved` (liveness under fairness is beyond this prover).

## 5. Abstractions

Diagnostics, exit codes beyond those that decide, JSON columns, prompts, reports, hashes
and progress records are data that no property here tells apart and are left out; output
is a number of chunks.  Awaits of progress flushes between two store calls are merged
with the store call next to them.

* `JobLifecycle`: not modelled yet are Kit jobs (whose permit is kept until the terminal
  write is acknowledged), the error event of a child without pid, eviction of finished
  jobs from memory, and a store call that commits although it reports failure (which
  `JobLeases` has).  A full queue leaves no trace in the manager; `JobLimiter` has it.
  Output, capture and flight records are in `JobOutput` and `RequestFlights`.
* `JobLeases`: the age of a retention is nondeterministic.  A beat, and a lease, are at some
  moment of an interval; how the two compare within one is nondeterministic too.
* `Shutdown` leaves out the sweep after a recovery and request jobs; its limiter grants in
  any order.  What `performShutdown` does with process groups afterwards is in `Executor`.
* `Executor`: the Windows branch (`taskkill`) is not modelled, and the group of a call is
  reused only once the old one is off its books, as a pid is.
* `JobOutput`: ordinary jobs only; one sweep and one owner, which may be collected and
  register again.
* `RequestFlights`: the recorder's writes do not fail.  The request key of all requests
  is the same; `forceRefresh` and the cache horizon only choose whether a row is found.
* `ValidationRuns`: the reads by which a judge's evidence is bound are one step, because a
  job that ended stays ended, and so are those by which a reader verifies one linked job;
  a read that fails ends the mint as an unverified job does; jobs meet no limit.
* `FileLocks`: a pid is not reused; a token is the least number not in use, which stands for a fresh UUID; the wait loop of
  the session store gives up at any time; a file in quarantine that is not put back is
  litter nobody reads.
* `McpArtifacts`: how a path is proved to be the captured one is left out, and with it rows
  older than the captured scope, which nobody may clean; a job that ended is not evicted
  from its owner's memory; a gateway that stops waits for what is in flight or leaves it
  to a crash.

## 6. What the code does otherwise than it says

Met while modelling; each is a behaviour of the modelled actions, and the properties of
the runs name it as their exception where they meet it.

Jobs and store (`async-job-manager.ts`):

1. `recordStartOrFailClosed` (2432) decides by `acq.state`, read before the await.  A job
   queued by `acquire()` may be granted while `recordStart` is in flight; when it then
   rejects, `acq.cancel()` finds no entry.  The job is launched although its request was
   refused (by the same path a deferred job, which nobody launches, keeps its slot for
   ever).  The comment promises that the slot is released and that no "in-memory-only job
   with no owned durable row" runs (2426-2431).
2. On PostgreSQL a job can end (queue-wait timeout, or launch and end) while its INSERT is
   in flight.  `recordComplete` then matches no row, and `persistCompleteBody` takes this
   for "SOME OTHER writer already committed a terminal state" (4072-4073): the write is
   never repeated and the row is left queued.
3. The `close` listener is attached after the await of `markRunning` (4970, 5080).  On
   PostgreSQL a child that exits within it closes unheard; "Close is the positive death
   proof for every process termination path" (5086) does not hold.  `JobsEnd` shows that
   the dead-process sweep still ends the job, as failed.
4. `startJobWithDedup` looks at `disposed` (4627) and then awaits `getById` (4634).  On
   PostgreSQL `dispose()` may find no job, deregister, and the call then enters its job and
   inserts its row: a new job does "slip in mid-dispose" (1700).  Its launch is refused, so
   no child is born.
5. On PostgreSQL a `registerInstance` in flight (startup, recovery, or the repair of 1961)
   is applied after `deregisterInstance`; the second look at `disposed` (2025) keeps
   admission closed but comes too late for the row.  `DeregistrationIsFinal` is checked
   for the serial store.
6. On PostgreSQL a flush outstanding beside the terminal write or the late output can
   overwrite it with a shorter snapshot, or be rejected and so set
   `durableOutputRowLost`, which suppresses the late output (3610-3616 admits a
   truncation).  An error on the late output's own write is swallowed and not retried.
   `OutputKept` excludes both (`crossed`).
7. When the answer to a committed `recordComplete` is lost, the retry is rejected and the
   row is taken for another's (`terminalRowOwned` false): late output is not rescued and
   the capture may stay NULL (`unheard`).
8. A capture written by the collection of an owner yields to `recordCapture` but not to the
   capture that `recordComplete` brings, while memory notes `capturePersisted`.

Requests and flights:

9. The comment at 3500-3503 and a test say that the metadata update is fenced to
   `status='started'`; the code uses `completion_rank`.
   `docs/plans/async-flight-recorder.pr-body.md:114-119` documents that the row of a
   deferred request that shares another's job stays "started", which
   `FlightsComplete` excepts; the deferral also arms the first request's row, which the
   manager then completes over the handler (`CompletedByOne`).  On a pool a queued job may
   end before its start row is written, and the row stays "started" (`overtaken`).  A close
   seen during the await of `logComplete` marks the recorder complete with the response
   from before it (3463-3512).

Processes:

10. `retry.ts:18` describes half open as a state that "allows a single trial operation";
    nothing limits the trials.  A leader killed by a signal has no code, and `code ?? 0`
    takes that for success (`executor.ts:833`) unless a timer or the fence asked for it.
    The router rejects providers whose breaker is open or half open, so routed calls alone
    do not close it.
11. A retry that sleeps while the gateway leaves is spawned after the SIGKILL of
    `killAllProcessGroups`; the log says "All process groups terminated"
    (`index.ts:24641`).  `ShutdownKillsAll` names the exception (`late`).

Validation and locks:

12. In an ordinary run without a planned judge, a judge may be linked while a receipt is
    being minted: the receipt says "not_requested", the run has a judge, and readers are
    told `verification_failed` for good, which `README.md:518` calls a defect
    (`ReceiptVerifies` is stated for reviews and planned judges).  A lost answer to a job's
    admission leaves a linked queued row that nobody holds until a restart; one to
    `completeReviewAdmission` leaves an open run whose seats are cancelled; a persist
    failure whose row was committed leaves `admitting` until the wedge sweep, which is off
    by default.  An open run never gets its receipt where one of its links cannot be
    verified: `recordValidationRun` in SQLite was interrupted between its INSERTs
    (`job-store.ts` 2533-2562), so that a link is not in the index; an ordinary validation
    repeated within the dedup window reuses jobs whose entry in the index (`job_id` is its
    key, INSERT OR IGNORE) names the earlier run, as only reviews and judges force a
    refresh (`validation-orchestrator.ts` 325-361, 463, 617); or a linked job's output was
    cut (`validation-receipt.ts` 298-313, which documents `expired_unminted` for it).
    `OpenRunMinted` excepts these (`NeverVerified`).  Nor does a job that survives without
    its entry keep its run from the wedge sweep.
13. `unlinkKitLockIfTokenMatches` moves whatever is at the path, and the path stays free
    until the restore.  Two processes can be inside the Kit lock, against the comments at
    `personal-config.ts` 923-929 and 958-962, in two ways.  Without a dead reclaimer, with
    four processes: one holds the recovery lock and reads the owner's record (984); the
    owner releases and exits; another links its lock; `kill(pid, 0)` of the one that left
    says ESRCH (870); the rename takes the live lock away (933), and a fourth links before
    the restore.  The session store reads again after the question
    (`session-manager.ts:814`) and is not affected.  Or after a dead reclaimer's recovery
    lock was taken over: two processes that read its record move it aside one after the
    other, the second moving what the first has published since; a reclaimer that dies
    between its rename and its look has freed the path in the same way.  A live process's
    recovery record may then be put back after it gave up, and a placeholder for an
    ambiguous recovery stays for ever.  `OneHolder` holds until a rename displaces another
    record than the one read (`displaced`), and says that this takes one of the two
    (`doubt`).
14. A session-store process that dies between `open` and the write of its record, or while
    it reclaims, leaves a lock nobody removes; `session-manager.ts:824` calls the leftover
    "harmless".  `DeadLockReclaimed` excepts it (`RecoveryStuck`; a record that was not
    written has no dead owner to read).

Artifacts:

15. A job ended early (cancel, idle timeout, overflow) has a settled, pinned row while its
    child may still run.  Its owner keeps the config ("Keep that file until `close`",
    `async-job-manager.ts:3322`), but a gateway of the same machine that starts, or any
    that recovers from an outage, the owner included, removes it (2307-2324 asks for the
    row's status, not for the child), and so does a sweep whose `kill(pid, 0)` is past its
    one grace.  `ConfigKept` says so.
16. "A failed durable acknowledgement stays pinned and is retried by the origin-host
    startup reconciliation" (2371-2373): the retry finds no file, "absent" is not "removed",
    and the pin stays until an operator's command.  The same follows when the first unlink
    precedes a terminal write that failed (the row is still open, the compare-and-set
    misses), and when the request's own cleanup removes what the confirmed unlink had
    refused (3309-3326 runs one after the other whatever the first one said).  The row is
    then never deleted; the file is gone, which is what `ConfigsRemoved` asks.
17. A config written by a gateway that dies before the row is inserted has no record and
    stays (`PinGuardsFile` and `ConfigsRemoved` speak of admitted jobs).

Leases:

18. "so up to five consecutive missed heartbeats never orphan a live job"
    (`config.ts:297-299`, a lease of six heartbeats): after five missed ones the lease runs
    out at the time the sixth is due, and a sweep of another instance that comes before it
    orphans the job where no live pid or grace protects it.  `LiveJobsSurvive` counts the
    beat that is due among those that have not come through.

## 7. Not modelled, and the plan

Not modelled: the activation of Kit releases and the attempts of Kit
sessions, the SQLite write queue, HTTP sessions and OAuth, ACP, worktrees (reasons in
`PROJECT.json`); the schemas and handlers of the tools in `index.ts` and the contract
tables of `upstream-contracts.ts` and `provider-tool-capabilities.ts`, which are data and
glue around the calls modelled here; ranking, parsers, compression, configuration and the
doctor, which are pure functions of their input.

Next, in order:

1. The eviction of finished jobs (`async-job-manager.ts` 2675) in `JobLifecycle`.
2. The sweep and the request jobs in `Shutdown`.
3. Kit release activation (`personal-config.ts` 1684-1786, 786-826) and Kit session attempts
   (`session-manager.ts` 1160-1438) with crash recovery.
4. The SQLite write queue and its drain; HTTP session table, OAuth codes; ACP request
   correlation; router ranking against a reference definition.

Theorems left: an abstract lock that `FileLocks` implements; the safety of what the list
above adds.
