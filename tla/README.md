# RAEF in TLA+

RAEF runs the tools of an LLM agent behind a durable write-ahead log, so that an
agent process that dies in the middle of a tool call can be restarted without
losing or repeating the call's effect. This directory models the part of RAEF
that carries that promise, checks it with TLC on small instances and proves the
central guarantees with TLAPS for every instance.

Paths below are relative to the repository; `raef/x.py` stands for
`src/raef/x.py`.

## 1. The system

| Part | State it keeps | Operations |
|---|---|---|
| Execution lifecycle (`raef/models.py`, table in `raef/logging_service.py`) | status of one execution: `intent_logged`, `dispatched`, `acked`, `verified_committed`, `verified_not_found`, `failed` | the allowed moves; classes of statuses (reusable, unsettled, terminal) |
| Logging facade (`raef/logging_service.py`, `wal.py`, `agent_state.py`, `runtime_store.py`) | SQLite: events, planner and context projections, one result record per execution, checkpoints | `start_run`, `record_context_message`, `record_llm_turn`, `record_tool_intent`, `record_tool_dispatch`, `record_tool_result`, `advance_plan_item`, `set_active_plan_item`, `write_checkpoint`, `rebuild_state` |
| Planner state (`raef/planner_state.py`) | version, items with status and dependencies, active item, cursor | create, set active, update status, attach, next runnable, integrity check |
| Transaction manager (`raef/txn_manager.py`) | none that is durable: a call is a thread | `execute_tool`: look up, log intent, dispatch, invoke, record |
| Recovery coordinator and strategy (`raef/recovery/...`) | none that is durable: a pass works from a snapshot | `recover_run`: decide, verify, record the verdict, reconcile tool messages |
| Target and verifier (`raef/tools/mock_target.py`, `raef/verifier.py`) | action log by execution id, domain state | apply (plain, idempotent, RIFL, distinguishable), increment a counter, look up, `verify_write` |
| Agent loop, replayed script (`example/sample_agent_openrouter_mock.py`) | none that is durable | recover, next plan item, turn, tool call, advance |
| Agent loop, model-driven (`example/sample_agent_openrouter.py`) | none that is durable | start or resume, ask the model, record the turn, tool call, recover, advance, final answer, each in a timing span |
| Evaluation recorder (`raef/evaluation.py`) | SQLite: one row per attempt of a step and per phase | open, close, report |
| Readers of a run (`rebuild_state`, `audit` and `show` of `raef/cli.py`) | none that is durable: a view put together from several SELECTs | read checkpoint, events, plan, context, records |
| Crash experiment drivers (`example/crash_recovery_e2e.py`, `example/openrouter_crash_recovery_e2e.py`) | none that is durable | launch an agent that crashes, read the commit counter, launch it again, judge |
| Soft mirror (`raef/logging_observability.py`) | a JSON file rewritten after each commit | rebuild the run's state and rewrite, which may fail |
| Pulse monitor, adapters, command line, simulators | a cooldown; none | polling, glue |

**How they interact.** Several threads of one process call `execute_tool`; each
call reads the execution's record, logs its intent, logs a dispatch marker (for
writes, optionally for reads), calls the adapter, and records what the adapter
made of the target's answer. `recover_run` lists records and pending executions,
decides each one and, where a write has been dispatched and its waiting window
has passed, asks the target. Callers of the facade meet only in SQLite: each
facade operation is one transaction under the run's lock. After each commit the
facade rewrites the mirror, and a failure of *that* reaches the caller of an
operation that has already taken effect. Requests and answers travel over a
network that may lose, delay or deliver them after the caller has gone. The
readers take no lock: they see the run in the midst of whatever its agent does.
The agents time their steps with the evaluation recorder, whose rows outlive a
crash, and the drivers run an agent twice and judge by the target's counter.

**What is hard.** The process can die between any two transactions; a request
may be under way when it dies and arrive after recovery has looked; two threads
and a recovery pass may hold different readings of one record; a replay may be
ambiguous again; a pass acts on a snapshot; log, projections and record must
change together; checkpoint and log must meet at one sequence id although other
runs advance the same counter; a reader's view is made of several moments; a
model that is asked again may choose another call for a step whose first call is
still open; two saves may write their text over each other's; spans are left open by kills and closed by exceptions. `PROJECT.json` lists each hazard at its line.

**What makes each part correct.**
- Lifecycle and journal: a committed result is never reopened, and what the
  operator's audit calls an anomaly does not arise.
- Transaction manager: nothing is sent before it is logged; nothing is sent
  again without a verdict; success is answered only when it is recorded.
- Recovery: verdicts are true, results are copied into the context once,
  an ambiguous write gets a verdict or is handed off, no move is attempted that
  the facade refuses.
- Target: where calls do not overlap, each is one atomic effect, once per id where
  the method dedupes, and a killed process leaves a store that can be read; where
  they do, what was answered stays as long as saves do not share a file.
- The whole: at most one effect per write, and exactly the open executions are
  pending.
- Agent loops: items run in plan order and are not repeated, a restarted agent
  finishes its plan, and what it leaves unresolved stays visible; whatever the
  model answers, no write is sent twice and every process comes to an end.
- Evaluation recorder: attempts are numbered without gaps across crashes, and
  the report says of each one what became of it.
- Readers: what they hand out hangs together, and the audit does not blame an
  execution for what happened while it was looking.
- Crash experiment: wherever the crash is armed, the restarted agent brings
  exactly the missing commits.
- Facade: log, projections, records and checkpoints always tell the same story,
  and together they behave like the journal.

## 2. Modules

| Module | Models | State | Actions |
|---|---|---|---|
| `ExecutionStatus` | status enum and transition table | - | - |
| `ExecutionJournal` | *abstract* facade: what it promises about executions | `records`, `pending`, `intents` | `RecordToolIntent`, `RecordToolDispatch`, `RecordToolResult`, `ForgetPending` (a forced reset) |
| `ToolTarget` | target, action log, stored value, requests given up | `commits`, `actionLog`, `domain`, `late` | `Apply`, `LateArrives`, `LateVanishes`; `Found` is `verify_write` |
| `TargetStore` | *detailed* target: the JSON file shared by processes, its temporary file, all five methods that write | `file`, `tmp`, `pc`, `req`, `data`, `handle`, `texts`, `overlapped`, `answers` | `Create`, `Hit`, `Change`, `Refuse`, `Open`, `Flush`, `Write`, `Replace`, their failures, `Crash` |
| `Environment` | waiting windows, injected faults, history | `elapsed`, `faults`, `unproven`, `resent`, `foundAbsent` | helpers used by the others |
| `TransactionManager` | `execute_tool` as a thread | `pc`, `task`, `replay`, `reply`, `wire` | one per point between two transactions or calls |
| `RecoveryCoordinator` | `recover_run` as a pass | `step`, `snapshot`, `overdue`, `todo`, `current`, `verdict`, `decision`, `outcome`, `toolMsgs` | one per read, decision, probe and transaction |
| `AgentSystem` | everything above together, crashes, clock, network | `crashes` and all the above | composition, `Crash`, `WindowPasses`, `Network` |
| `AgentLoop` | the sample agent's loop on top of `AgentSystem` | `at`, `stepIndex`, `completed`, `done` | `StartProcess`, `SkipItem`, `TakeTurn`, `ExecuteTool`, `Recover`, `Resolve`, `AcceptReplay`, `AdvancePlanItem`, `Finish`, `Raise`, `Kill` |
| `CrashMatrix` | the crash experiment around `AgentLoop` | `driver`, `before` | `LaunchCrashChild`, `ChildWorks`, `CrashChildExits`, `LaunchResumeChild`, `ResumeChildExits`, `OutOfExperiment` |
| `EvaluationRecorder` | the timing spans of a run | `spans`, `stepSpan`, `phaseSpan` | `StartStep`, `StartPhase`, `FinishPhase`, `FinishStep`, `ForgetSpans` (a kill) |
| `OpenRouterLoop` | the model-driven agent on top of `AgentSystem` and `EvaluationRecorder` | `at`, `mode`, `unwinding`, `stepIndex`, `completed`, `done`, `turn`, `turns`, `outputs`, `starts`, `crashedIn` | one per place of the loop, `SimulatedCrash`, `Unwind`, `Kill` |
| `PlannerState` | the plan as a value | - | - |
| `LoggingService` | *detailed* facade: log, projections, checkpoints | `log`, `lastSeq`, `plan`, `context`, `records`, `checkpoint` | one per facade operation, `OtherRunAppends` |
| `RunReaders` | `rebuild_state` and the audit beside a run that goes on | `reader`, `reading`, `seen` | one per SELECT, `WriteMeanwhile` |
| `MCAgentSystem`, `MCAgentLoop`, `MCOpenRouterLoop`, `MCLoggingService`, `MCRunReaders`, `MCTargetStore` | instances for TLC | | |
| `AgentSystemProofs`, `SingleWriterProofs`, `AgentLoopProofs`, `CrashMatrixProofs`, `OpenRouterLoopProofs`, `LoggingServiceProofs`, `RunReadersProofs`, `TargetStoreProofs` | theorems | | |

`TransactionManager` and `RecoveryCoordinator` extend the *journal*, not the
detailed facade: they are checked against what the facade promises, and
`LoggingService` is shown to implement that promise
(`ImplementsJournal`, with `pending <- context.pending` and `intents <-` the
executions with an intent event in the log).

**Correspondence with the code.** A thread of `TransactionManager` is one call of
`execute_tool`. Its steps follow the code's order: `Lookup` (the existing-record
branch), `LogIntent`, `Reread`, `Dispatch`, `Invoke`, the adapter's four ways to
end (`AdapterReturns`, `AdapterErrs`, `AdapterAmbiguous`, or a crash), and the
three recordings `RecordAcked`, `RecordFailed`, `RecordAmbiguous`. An adapter may raise while
its request is still out (a client's timeout), which then arrives late or never
(`Abandon`). `is_verified_replay` is membership in
`replay`. A step that commits to the journal has a second outcome in which the
mirror fails and the call ends with an exception (`reply = "aborted"`); one whose
move the transition table refuses ends it with `ValueError` (`"raised"`).
`RecoveryCoordinator` separates the reads of `recover_run` (clock and records,
then pending ids), the probe, the transaction that records the verdict, and the
read and append of the tool message, because a thread can act between any two of
them. `elapsed` replaces clock arithmetic: an execution is in it when its
record's deadline has passed, and every commit that restamps the record takes it
out.

`AgentLoop` is one process at a time running the sample agent: `completed` is the
set of done items it read at its start, `done` their durable status, and a plan
item is identified with the execution of its one tool call. Its only thread is
the one `Workers` holds, and its calls and passes are those of
`TransactionManager` and `RecoveryCoordinator`, step by step, so a kill can fall
anywhere inside them. After a call that is pending recovery the sample agent
passes `now = updated_at + 1s`, which is past every deadline
(`BeginPassWith`). The plan's version, active item and cursor are the concern of
`LoggingService`; an item's status is all that the loop reads. A process is started
when none lives; starting a finished run again would find every item done and
repeat its final turn only, and is left out.

`OpenRouterLoop` separates what a process does between two spans. `at` is the
phase, `mode` whether it has yet to open its span, is at work, waits for a call or
a pass, or has yet to close the span. The model is the choice of `AskModel`: any
call that serves the item (an execution is identified by item and call, as
execution ids are hashes of the call's arguments), the final answer, or an
exception. An exception closes the open spans one by one on its way out
(`Unwind`), with the status the code gives it; `SimulatedCrash` is the one the
crash simulator raises at its points, `Kill` leaves the spans open. A restarted process skips the items
whose status is done and asks the model anew for the others; a run that has
answered may be started again, too (`NotRunning`). The agent has no
verifier here (`HasVerifier = FALSE`), as in the code.

`CrashMatrix` is the driver of the replayed agent: the first process has one
request or response lost for good and exits at a point where the simulator can be
armed (`SweepPoint`), the driver reads the counter, the second process runs without faults, and
`judge` is the driver's verdict. Anything else that `AgentLoop` can do voids the
row (`OutOfExperiment`) and goes on, so that the loop's own properties are checked
in the same run. The driver of the model-driven agent is not modelled as a process: it
injects faults after the restart as well and judges mainly by exit codes; its two processes are those
of `OpenRouterLoop` (`MaxStarts`).

`TargetStore` follows a call through load, change and save. The text of a save reaches
the temporary file in blocks (`Flush`, `Write`), through a handle that follows the file
it opened and not its name. While a client is the only one to have a file open, what
is in it is nothing, a part that does not parse, or its document; once another writes
to the same file, what is left may also be a document that joins the texts
(`Spliced`): its maps up to some point in the order of the keys from one text, the
rest from another, with entries lost at the seam. `texts` holds the documents written so; it
is never cleared and any join of them may appear later, which is more than can happen.

`RunReaders` puts a reader beside `LoggingService`. `BundleOrder` and `AuditOrder`
are the orders in which the code reads; between two reads the run may take any
facade operation.

Some definitions exist to be compared with the code's: `LookupRetrying`,
`DispatchUnlogged`, `RecoverInTime`, `AllowedNextReopening` and the like are
plausible wrong versions of the definition that follows them. No specification
uses them; they are the mutants that `PROJECT.json` pairs with each property.

**Abstractions.** Execution ids are model values (the hash of inputs is not
modelled); messages are counted; the payloads of events are what a reader of the
log needs; SQLite transactions are atomic; the adapter is reduced to how a call
can end. The target's call is atomic (`TargetStore` shows when that is so), its
store holds one key. Every write
stores its own value in the checked instances, so a value under the key
identifies the write (section 7). In `TargetStore` a process may be killed, the
machine does not fail; queries change nothing and are left out.

## 3. Properties and runs

| Run | Instance | Shows |
|---|---|---|
| `keyed_target` | one keyed write, one read with a dispatch marker; one thread and one pass in turn (`SingleWriter`), a deduplicating target, late requests, 2 faults, 2 crashes | the guarantees of the documented discipline of one writer per run |
| `two_threads` | one keyed write; two threads and a pass at the same time, 2 faults, 1 crash | which guarantees do not need the discipline |
| `unkeyed_bounded_delay` | two writes of one key, one keyed and one not, no dedup; a request has arrived or is lost before its window ends | what verification alone achieves |
| `facade` | two executions, plan of two dependent items, checkpoint every third id, 11 events in the store | the detailed facade, and that it implements the journal |
| `agent_loop` | a plan of two keyed writes at a deduplicating target, 2 faults, 1 crash, with fairness; the crash experiment's driver around it | what the sample agent's loop makes of the guarantees below it, that it leaves no ambiguous write waiting, and that the crash experiment passes |
| `openrouter_loop` | a plan of two items and three steps, a read or a write for the first item and a write for the second, no dedup; two processes, also after an answer, 1 fault, 1 crash (injected or a kill), with fairness | that spans and report account for what happened, that no write is sent twice, that processes end |
| `readers` | one execution and one item, created as failed and depending on an id the plan does not have, checkpoint every fifth id, 10 events in the store, at most 3 events in a bundle; readers one after the other | what the reader of a bundle and of an audit may conclude |
| `target_store` | two processes at one store, seven requests that cover the five methods and every domain action, among them two actions and two methods under one id; three calls, one process killed; saves may mix their texts, joined among the idempotent requests | what survives overlapping calls, and that calls which do not overlap are the atomic calls of `ToolTarget` |
| `intent_is_replayed` | the plan of `agent_loop`, 1 fault, 1 crash, with fairness | an expected violation (section 6) |
| `one_replay_per_verdict`, `failed_is_definite` | one write | expected violations (section 6) |
| `restored_turns` | the plan of `openrouter_loop`, three processes, two crashes, no fault | an expected violation (section 6) |

Safety of `AgentSystem`:
- `LogBeforeSend`: a write that travels or has taken effect has a record beyond
  its intent, after any crash.
- `NeverBlindlyRefired`: a write is sent a second time only after a verdict
  found it absent.
- `ExactlyOnceEffect`: a keyed write takes effect at most once at a target that
  dedupes, also when a request arrives after recovery found it absent.
- `CommittedIsReal`: `acked` and `verified_committed` are true of the target.
- `PendingIffUnsettled`: the context's pending ids are exactly the open
  executions. It needs one writer: with several threads a second dispatch after a
  failure (`failed` to `dispatched` is allowed) opens an execution that is no
  longer pending. What remains then is `AuditClean`, one direction of it.
- `NoIllegalMove`: with one writer, neither caller ever attempts a refused move.
- `ReconciledOnce`: a committed result enters the context once however often a
  run is recovered and wherever a pass was cut off.
- `SuccessIsDurable`: an answer that reports success rests on a committed record
  for as long as the answer stands, with any number of threads.
- `OneCommitPerVerdict`: without dedup, a keyed write is applied at most once
  unless it was re-sent without a new verdict (which finding 2 says can happen).
- `AuditClean`, `CommittedStays`: of the journal, checked in the system.

Agent loop: `PlanOrder` (an execution is begun only when all items before it are
done, across restarts), `DoneIsNotRepeated` (a done item is not executed again),
`UnresolvedStaysVisible` (a write of a done item that has not taken effect is
still pending or recorded as failed: the loop moves on, the bookkeeping does not
forget), `AgentFinishes` (liveness: a restarted agent finishes its plan unless a
tool has failed), `AmbiguousWritesAreJudged` (liveness: with a verifier, a dispatched write
whose item is not done gets a verdict, or is handed off because the lookup failed, whatever
is killed or lost; its pass must come with a time past the waiting window). That an ambiguous write
ends *settled* is not claimed: the loop replays once, marks the item done and never comes back
to it, and nothing else in the repository does.

Crash experiment: `SweepPasses` (wherever the crash is armed and whichever request
or response is lost before it, the restarted agent finishes with one commit per
write, and writes committed before the restart are not sent again).

Model-driven agent: `AttemptsAreNumbered` (attempts of a step are 1, 2, ... in the
order they were started, phases lie within their attempt, and a plan step whose tool call an
attempt has carried through is not attempted again, also when a run that has answered is
started again), `SpanBeforeWork` (each execution of an item was begun in an
attempt of its own), `SucceededMeansAdvanced` (an attempt reported as succeeded has
left its item done or the run answered), `ReportAccountsForCrashes` (the report calls interrupted exactly the
attempts in which a process crashed), `SentAtMostOnce` (however often the run is
crashed, restarted and the model asked again, no write is sent twice),
`EveryProcessEnds` (liveness: nothing in the loop waits for an outcome that stays
open).

Readers: `BundleReplays` (the events handed out, replayed on the checkpoint read
before them, give plan, context and records as they were after the last of them),
`BundleLooksForward` (no part of a bundle refers to what a part read later does not
have, and the results have not fallen behind a commit the events tell of),
`AuditBlamesOnlyNewcomers` (in a run that is being written to, the audit can only
miss the record of an execution begun after it had started). The
last one is a limit rather than a guarantee: `audit` reads the ids before the context and the
events, so beside a living agent it may name an intent whose record it has not
seen, and its exit code is then not evidence of a violated invariant; when nobody
writes, `AuditClean` applies.

Facade: `LogAgrees` (telling the log from its start gives plan, context and records as stored),
`CheckpointRebuilds` (the latest checkpoint plus the events after it give the
current state), `SyncedWithPlanner` (the context names the plan's version and
step), `ImplementsJournal`.

Target's store: `WholeSnapshots` (a store that can be read is whole, however calls
overlap) and `AnswersStand` (an answered call that ran alone is not taken back), both as long
as no save has written to a file that another had open (`texts = {}`): calls may overlap
anywhere else, change copies others have replaced, find the temporary file gone or rename one that is
still empty;
`QuietStepsKeepTheStore` (killing a process leaves the store readable unless
calls overlap), `AppliesAtomically` (without overlap each step gives at most one request its
effect, and a write that sets a value is one `Apply` of `ToolTarget`). The code takes no lock: overlapping calls do lose
updates, and since the temporary file's name is fixed they can leave a store that
no later call can read, or one that can be read and is not whole: without their condition both
properties are violated in the model. The run shows how far that damage goes and no document
promises more, so it is no finding; it is the reason why the recovery models
assume that calls at the target do not overlap.

**Bounds.** Distinct states: `keyed_target` 424,494, `facade` 527,745,
`openrouter_loop` 570,835, `target_store` 1.2 million, `readers` 3.1 million, `agent_loop` 70,352. `MaxFaults` bounds ambiguous calls, failed lookups and mirror failures
together, `MaxCrashes` crashes of the process, `MaxSeq` the store's events. Two
faults and a crash suffice for the sequences that matter: an ambiguous send, a
verdict, a replay that is ambiguous again, with a crash in any place between.
One write suffices for most safety properties, as executions meet only in
the stored value, and the run with two writes is there for that. The facade's 11
events hold a started run (4 events) followed by an intent, a dispatch and a
result, or two intents, or plan steps between them, or a second `start_run`
with `force_reset`, and automatic and explicit checkpoints anywhere among them.
The two processes and three steps of `openrouter_loop` (`MaxStarts`, `MaxSteps`) hold a crash at
any place, a restart that skips or repeats a step, a model that answers
differently the second time, and a step past the end of the plan; its finding
needs a third process (`restored_turns`). The 10 events of `readers` and its limit of 3
(`EventLimit`) hold a bundle that the limit cuts, a checkpoint written and a
reset made between two reads. There a reader that has its view leaves before the run goes
on, and other runs append only while nobody reads: neither is observable, for a
reader never reads twice and other runs' events only move the counter. One
execution is enough because each promise is about one execution.
Three calls at the store (`MaxCalls`) are a first one, a retry or rival that overlaps
it or meets what it left, and one that looks at the result. One seam (`Seams`) tells what comes before
and after the join and what is lost at it; after one text has been written to a shared
file, calls start one at a time (`MaxTexts`), which leaves the mixed store to calls that
do not overlap. The theorems have neither bound.
`SYMMETRY` is used in `facade`, where the executions are interchangeable, and in
`target_store`, where the processes are; no liveness property is checked under symmetry, and
`ImplementsJournal` has no fairness.
`CHECK_DEADLOCK FALSE` is used where the system stops: in `facade` the store is
full after `MaxSeq` events, in `target_store` the calls are used up, in `readers` the store is full, and in the runs of the agent loops a finished agent stops.

**Fairness.** Only the agents' runs have a fairness assumption. `FairLoopSpec`: weak
fairness of the loop's own process: a process that lives goes on, one that died is started
again. `FairMatrixSpec` assumes the same of the agent inside the experiment. `FairOpenRouterSpec` assumes only that a
living process goes on: the model's answer has a timeout, a call or pass comes to
an end by itself. Nothing is assumed of crashes, faults or the target's answers.

## 4. What is proved

Assumptions are those on the constants: `WritesAssumption`
(keyed executions are writes, writes are executions, each stores a value),
`WorkersAssumption` (finitely many threads), `MaxFaultsAssumption`,
`VerifierAssumption`, `SystemAssumption`, and for the loop and the facade
`OpenRouterAssumption` (a plan of at least one item, each call for one of them, one thread),
`PlanAssumption` (a plan has at least one item, each once, in the order of their
sequence indices; its items may start with any status and depend on anything), `LoopAssumption`, `LoggingAssumption`, for the readers
`ReadersAssumption` (their bound on what is written meanwhile), and for the
target's store `RequestsAssumption` and `FilesAssumption` (finitely many processes and
requests; the markers of a file that is missing, empty or torn are no documents). Nothing is assumed about how many
executions, threads, items, events, faults or crashes there are. The theorems of
`AgentSystemProofs` hold with and without the single-writer discipline; those of `SingleWriterProofs` state `SingleWriter` as their hypothesis (and
`OneCommitForEachVerdict` also `BoundedDelay`, `NoVerifierNoSecondRequest` that there is no
verifier); that of `CrashMatrixProofs` states the experiment's plan as its own; `AgentLoopProofs` and `OpenRouterLoopProofs` show that the sample
agents' loops keep to one writer by their own control, so that what follows from it holds of
the loops unconditionally.

**The journal** (the first part of `AgentSystemProofs`): `JournalTypeCorrect`,
`JournalAuditClean`, `JournalCommittedStays`. The journal's audit is
inductive because callers use only two forms of `record_tool_result`: parking
without clearing, and settling with clearing; that threads and passes keep to
them is what the refinement below establishes.

**The run** (`AgentSystemProofs`):

- `TypeCorrect`: `Spec => []TypeOK`, inductive by itself, one lemma per module.
- `ImplementsJournal`: `Spec => JournalSpec`. Every step of a thread
  (`WorkerJournalStep`), of a pass (`PassJournalStep`) and of anything else
  (`SystemJournalStep`) is a journal operation or leaves the journal alone. This
  carries what is proved of the journal alone to the
  system: `SystemAuditClean` and `SystemCommittedStays`.
- `ExactlyOnce`: `Spec => []ExactlyOnceEffect`. Not inductive as it stands: a
  second `Apply` is harmless only because the first put the id into the action
  log. `EffectInv` adds that: at a deduplicating target a keyed execution that
  has taken effect is in the action log and has done so once. Only `Apply`
  changes the target (`OnlyRequestsChangeTarget`).
- `WritesAreLoggedBeforeSent`: `Spec => []LogBeforeSend`. The strengthening
  `SendInv` extends the claim back to threads that are *about to* send (pc at
  `invoke`) and forward to those that have sent and not yet recorded; the record
  stays logged while they proceed because no journal operation returns a record
  to `intent_logged` (`LoggedStays`), whatever other threads and passes do.
- `ReportedSuccessIsDurable`: `Spec => []SuccessIsDurable`: an answer comes from a
  committed record (`SuccessComesFromRecord`), and committed records stay so.

**Recovery without the discipline** (the last part of `AgentSystemProofs`):

- `CommittedMeansApplied`: `Spec => []CommittedIsReal`, under
  the named hypothesis `DistinctWrites` (no two writes store the same value; the
  verifier accepts a matching value as evidence). The strengthening
  `EvidenceInv` says that every form of evidence is true: what the verifier can
  find at the target, a request a thread knows to be applied, and a verdict given
  and not yet recorded. It is preserved because the target takes nothing back
  (`EffectsRemain`), and it suffices because a record becomes committed only by an
  acknowledgement or a verdict (`CommitsComeFromEvidence`).
- `CopiedOnce`: `Spec => []ReconciledOnce`. `ReconcileInv` adds that while the
  message of a reconciliation is still to be appended, none has been: the pass
  looked for one and appends in a later transaction, and only one pass is under way.

**One writer at a time** (`SingleWriterProofs`): the invariant `Discipline` is

- `OneAtATime`: at most one thread is inside a call, and none while a pass is
  under way;
- `CallKnows`: what a call has read of its record at each point is what the
  record says;
- `SnapshotHolds`: what a pass has listed is still so for what it has left to do;
- the properties themselves, `PendingIffUnsettled` and `NoIllegalMove`, which
  are inductive only together with these: `PendingIsExact`, `MovesAreLegal`.

`DisciplineStays` derives it for any step that keeps to `OneAtATime`, which is
what lets the loop reuse it. `NoBlindRefire` (`NeverBlindlyRefired`) adds
`RefireInv`: a write whose last request no verdict has settled has a record past
`intent_logged`, one at `verified_not_found` was found absent, and a call about to send may do so. `OneCommitForEachVerdict` needs to know why a verdict "absent" is true.
`WindowClosed` says that an execution whose waiting window has passed is
not under way, `OverdueHolds` that what the pass took for overdue still is,
`AbsenceHolds` that the verdict not yet recorded is correct; `LoadInv` then
counts what has been applied together with what may still arrive.
`NoVerifierNoSecondRequest` (`OneReplayPerVerdict`, and at most one effect per write at *any*
target) is for agents that have none: `SentInv` says that nothing is ever found absent, that
an execution once sent has a record, which answers all later calls, and that
what has been applied and what may still arrive are together at most one.
The last part of the module, `RunInv`, gathers these invariants for the loops: they
are kept by every step of the run and by every `Interlude` of an agent between them
(a commit of its own that fails, a pass that begins at a time it chooses, a crash).

**The sample agent's loop** (`AgentLoopProofs`): `LoopControl` ties the loop's
position to its one call and its one pass. From it, every step of the loop is a step of the run,
an `Interlude`, or leaves the run alone (`LoopStepsOfTheRun`), so `LoopInv` contains the invariants above:
`LoopTypeCorrect`, `LoopIsTheSingleWriter`, `LoopImplementsJournal`,
`DoneStaysDone`. `ItemsRunInPlanOrder` strengthens `PlanOrder` by `PlanInv`: an
item that the loop has gone past, or is about to, has a record.
`NothingIsSilentlyDropped` (`UnresolvedStaysVisible`, under `DistinctWrites`)
combines it with the evidence invariant.

An interlude is not a step of `Spec`, so what is proved of `Spec` does not carry over to
the loop by refinement. The inductive invariants do: `EffectsInv` (`EffectInv`, `SendInv`,
`SuccessIsDurable`) and the evidence are kept by steps and interludes alike
(`EffectsStay`, `EvidenceStaysInTheRun`), which gives

- `LoopEffectsAreSafe`: `ExactlyOnceEffect`, `LogBeforeSend` and `SuccessIsDurable` of every
  run the loop drives;
- `LoopTellsTheTruth`: what the loop finds committed or is told has succeeded has happened
  (`DistinctWrites`);
- `LoopSendsOnceUnverified`: without a verifier the loop sends no write twice;
- `FinishedMeansAppliedOnce`: a finished run with nothing pending has applied every keyed write
  of its plan exactly once, unless it is recorded as failed (`DistinctWrites`,
  `TargetDedupes`). "Nothing pending" is needed: finding 1 is a run that finishes
  with a write pending and without its commit.

`OneCommitPerVerdict` is not among them: after a call that is left pending the loop
gives recovery a time past the deadline whatever the clock says, so a pass may find a
write absent that is still on its way, and the waiting window protects nothing.

**The crash experiment** (`CrashMatrixProofs`): `EverySweepPasses` (`SweepPasses`), for a
plan of any number of distinct writes and reads, wherever the crash is armed and
whichever one message is lost. The hypothesis `SweepPlan` is what
the experiment's plan gives: there is a verifier, no two writes store the same value,
and every write is an item of the plan. Neither keys nor a target that dedupes are needed. The
experiment's steps are steps of the loop (`ExperimentImplementsLoop`), so what is proved of the loop
holds (`Known`); `SweepInv` adds

- `RecordTells`: what the record of a write says of the target is so, up to the outcome
  its call has yet to record (`CallTells`); in particular, what is `verified_not_found` and not
  on its way again has not been applied;
- `OpenAfterFault`: until the one message is lost, a write is open only while its call is
  under way. That no *other* write is open when the fault strikes, and none is while one is
  applied, follows from the order of the plan (`NoOtherWriteIsOpen`);
- `SentOnce`: what may have been sent is not about to be sent again, hence `resent` stays empty;
- `PassTells`, `RecoverySettles`, `ItemSettles`: an ambiguous outcome is on the way to a verdict, and the
  loop leaves an item only when its write is committed (`DoneIsCommitted`), so the process
  that returns its result leaves none behind (`DriverControl`).

What a call, a pass and the loop between them do to it is shown one by one (`CallsSettle`,
`PassesSettle`, `ChildrenSettle`).

**The model-driven agent** (`OpenRouterLoopProofs`): all six invariants of its run,
`NothingIsSentTwice` (`SentAtMostOnce`) for agents without a verifier. `LoopInv` is

- `LoopControl` and `TurnControl`: the place in the loop against its one call, its
  one pass and the model's turn; from them every step is again a step of the run or
  an interlude (`StepsOfTheRun`), which gives `AgentIsTheSingleWriter` and
  `AgentImplementsJournal`, and with `EffectsInv` and the evidence also
  `AgentEffectsAreSafe` and `AgentTellsTheTruth`;
- `ItemControl`: what is done was so when the process started, is behind the loop,
  or has been done by this step;
- `SpanControl`, `RowsNest`, `PhasesEnd`: which spans are open at each place, how rows
  hang together, and that of the open attempt's phases none but the open one runs.
  A new attempt has the next number because those before it are numbered in
  order (`NextNumber`): the greatest of the numbers is the number of them. `NumberingIsGapless`
  (`AttemptsAreNumbered`) and the types of the recorder follow;
- `SuccessInv`: what a successful attempt has left behind. It needs more than
  `SucceededMeansAdvanced` says: the attempt is the last of its step, since a process that
  comes later finds the step's item done and skips it (`SucceededIsSkipped`). The one
  attempt whose item stays undone is the final answer given early: `AnswerPhase` says
  that a row of the phase that records the answer tells such an attempt, which a
  process that is started on the answered run may follow by another;
- `ReportInv`: at any time the rows reported as interrupted are those in which a process crashed
  and the open one (`InterruptedMeansCrashed`);
- `WorkInv`: apart from the call in hand, each execution of an item with a record was begun in
  an attempt that is over (`WorkIsUnderASpan`); a record is written only while the
  loop waits for that call (`RecordSteps`).

**The facade** (`LoggingServiceProofs`): `FacadeTypeCorrect` (with the log in
the order of its sequence ids), `ContextFollowsPlan` (`SyncedWithPlanner`), `LogTellsAll`
(`LogAgrees`), `CheckpointTellsTheRest` (`CheckpointRebuilds`) and
`FacadeImplementsJournal`: the detailed facade, with its log, projections and
automatic checkpoints, implements the journal that the rest is checked
against. Every operation except the explicit checkpoint is shown to be one
form of commit (`OperationsCommit`): its events, told to a reader who is up to
date, give exactly the projections it stores, with the automatic checkpoint due or not.
`LogTellsAll` is then inductive; for the checkpoint `Rebuilds` generalises over the records
the reader starts from, since a checkpoint holds the plan and the context and
not the executions. What a reader is told by a log is a recursive function of its length.
Facts about it (`TellingExists`, `OneEventMore`, `NothingPast`) are proved for logs of any
length by least counterexample: the order of the naturals is well-founded,
so a length at which the fact fails would have a least one (`LeastNumber`).

**The readers of a run** (`RunReadersProofs`): `BundleCanBeReplayed`
(`BundleReplays`), `BundleNeverLooksBack` (`BundleLooksForward`) and `AuditIsFair`
(`AuditBlamesOnlyNewcomers`). A reader may lag behind by any number of
commits, so what it has seen is compared with *beginnings* of the log.

- The log is in the order of its sequence ids, so "up to a sequence id" cuts it in
  two (`Counting`, `Parts`), and telling the rest to whoever has been told the
  beginning tells the whole (`TellingOfRests`).
- `Extends`: a step of the facade only adds to the log, past the last sequence id;
  its events leave each record among what it was and what it is; and the plan's version
  does not fall unless a `RUN_STARTED` is among them. `ReadersRunTheFacade`: what goes on
  beside the readers is the facade, so `FacadeInv` holds.
- `Followed`: wherever one stops reading the log, the stored records have not fallen behind
  what it has told. `CheckpointKnown`: a checkpoint is the run as of its sequence id.
  With these and `JournalInv` (pending executions have an intent and an
  unsettled record), `ReadersInv` says for each place of a reader what it has read so far
  and how that relates to what is stored now: events (`EventsKnown`), the plan's version
  (`VersionKnown`), results (`ResultsKnown`), findings of the audit (`AuditKnown`).

**The target's store** (`TargetStoreProofs`): all five properties of its run.

- `StoreTypeCorrect` and `StoresAreWhole` (`WholeSnapshots`): `WholeInv` says that, as long as no
  texts have been mixed, *every* document, in the file, in the temporary file and in each process, is
  whole, since any of them may become the store; `StoreInv` is what holds of mixed
  documents, too (`MixturesAreGood`: any join of two documents is a document of the store's form). What a request does to a
  document is first reduced to its fields (`AppliedFields`); that it keeps
  a document whole (`AppliedIsWhole`) needs that sums of effects grow by one in the
  right place (`OneMoreEffect`), which is proved of the library's fold over
  finite sets by smallest counterexample (`SmallestSet`). The bound on the number
  under the key is a count of calls that have changed their copy (`Changes`).
- `QuietStoresStayReadable`: `AloneInv` says that a call nobody overlaps
  has the temporary file to itself, and that the store is still what it has read.
- `AnswersAreKept` (`AnswersStand`): `CarryInv` says that, as long as no texts have been mixed, all that lone calls were
  told is also in every copy under way, and in the temporary file while somebody
  is about to rename it: a rename can only bring back what has it too.
- `QuietCallsAreAtomic` (`AppliesAtomically`): the step-by-step refinement of
  `ToolTarget`, so that the atomic target of the recovery theorems is what calls that do not
  overlap give, killed processes included, also at a store that earlier overlap has left
  mixed: a call that has the file to itself mixes nothing (`AloneSharesNothing`).

Every invariant and every action property of a passing run is stated by a theorem. **Out of the
prover's reach**, and only model-checked: `AmbiguousWritesAreJudged`, `AgentFinishes` and
`EveryProcessEnds`, since liveness under fairness needs `ENABLED`.

## 5. Running

    tlc -config keyed_target.cfg MCAgentSystem      (likewise the other MCAgentSystem runs)
    tlc -config agent_loop.cfg MCAgentLoop             (and intent_is_replayed.cfg)
    tlc -config openrouter_loop.cfg MCOpenRouterLoop   (and restored_turns.cfg)
    tlc -config facade.cfg MCLoggingService
    tlc -config readers.cfg MCRunReaders
    tlc -config target_store.cfg MCTargetStore
    tlapm AgentSystemProofs.tla
    tlapm SingleWriterProofs.tla
    tlapm AgentLoopProofs.tla
    tlapm CrashMatrixProofs.tla
    tlapm OpenRouterLoopProofs.tla
    tlapm LoggingServiceProofs.tla
    tlapm RunReadersProofs.tla
    tlapm TargetStoreProofs.tla

`PROJECT.json` maps every definition to the lines it stands for, and names for
each property a mutant of the code's model that violates it.

## 6. Findings

1. **An intent is not replayed** (`intent_is_replayed`). The strategy decides REPLAY
   for "intent recorded but dispatch not observed"; `execute_tool` answers
   `PENDING_RECOVERY` for such a record and nothing moves it on. The consequence in
   the sample agent: after a crash between the intent's commit and the dispatch marker the
   restarted agent sees PENDING_RECOVERY, a REPLAY decision and PENDING_RECOVERY
   again, marks the item done and finishes without the commit. The run is that agent, restarted
   whenever it dies: its record stays at the intent. The documents
   promise "exactly one commit landing at the target" for a kill at any point; the
   crash points of the simulator lie outside `execute_tool`, which is why
   `SweepPasses` holds all the same.
2. **One verdict may license several replays** (`one_replay_per_verdict`). A
   replay that ends ambiguously, or is interrupted, leaves the record at
   `verified_not_found`, from which the next call sends again; recovery verifies
   only `dispatched` records.
3. **A failed write may have taken effect** (`failed_is_definite`). Any exception
   other than `AmbiguousToolError`, and any output that is not a dictionary, is
   recorded as FAILED ("failed definitively") although the target may have
   applied the write, or may yet do so if its request is still under way.
4. **A restart may restore turns that are not the recorded ones** (`restored_turns`). The
   context keeps every assistant turn, the planner one output per item, and
   `_restore_raw_llm_outputs` matches the two by position: after a step that was
   begun twice they no longer line up, and the model is shown one call in place of
   another.

## 7. Not modelled, and the plan

Not modelled, because it holds no state that a property is about: SQL and schema,
payload files, parsing and formatting, prompts and the normalisation of arguments,
timestamps beyond the window, durations and the text of reports, the command line's
output, adapters for frameworks, the LLM client, the front ends of the mock
target. The pulse monitor is a polling loop that starts passes, which
`AgentSystem` may start at any time; that an exception of a pass ends the
monitor is a hazard without a property. How overlapping rewrites of the mirror's
file overtake each other is left out: the file is documented as best effort, and what
it is rewritten from is `RunReaders`. Two recorders on one run at once, which
could take the same attempt number, are left out: the agents run one process per run. An
exception raised by the closing of a span itself is left out. A transaction of SQLite is one step: that it is atomic
is assumed, and what is checked is that the code puts together what belongs together. After a forced
reset the records of the former life remain, to be reused or left unsettled without being pending; no
property forbids what the code does there. The
recovery models take only writes that set a value, for which the verifier has evidence beside the id. In
`openrouter_loop` the target does not dedupe, which also covers arguments (and
hence execution ids) that differ only in what the model wrote.

Left for later:

- *Planner instances*: sparse and 1-based sequence indices against the cursor
   check, blocked items.

Writes that share a stored value are outside the checked instances: the verifier
accepts a matching value, so it would take one write for the other, and
`CommittedIsReal` is stated for distinct values.
