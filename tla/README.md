# A verification project for PistonDecompiler

PistonDecompiler extracts a binary with Ghidra, asks language models to name and explain its functions callee first,
writes accepted results back into the Ghidra project and repeats while new evidence appears.
This directory holds TLA+ models of the parts where order, concurrency and failure matter, TLC configurations that check
them on small instances, and proofs that TLAPS checks for every instance.

The repository has its Rust sources in `src/*.rs`; below, a name such as `pipeline.rs:93` is a line of those files.

## 1. The system

All durable state is one SQLite database; a data-directory lock (`main.rs:181`) lets one process at a time use it.
Inside that process several tasks run concurrently: `config.concurrency` workers (`pipeline::work`), the recovery task
(`automatic::work`), the HTTP/RPC handlers, the MCP tools and a recording.
They share the tables, a semaphore of one permit for Ghidra (the "Ghidra gate"), and nothing else.
Each SQLite transaction is atomic; everything between two of them can be interleaved, or cut off by a crash.
Three kinds of process outlive the server: a recorder, a Ghidra desktop, and the Java process of a headless Ghidra.

| Component | State | Operations | Interacts with | Correct when |
|---|---|---|---|---|
| Dependency graph (`graph.rs`) | `edges`, `function_components`, ranks | `rebuild`, `dependency_ranks`, `modules` | rebuilt by import, refresh and extraction; read by READY | components are the SCCs, the READY closure is "strictly downstream", ranks agree with it |
| Job queue and workers (`pipeline.rs`, `decisions.rs`) | `jobs`; `paused`, `active_run_id` of a binary | claim, finish, fail, control, prepare | workers, front ends, recovery writer, batches | one worker per job, callees first, verification before callers, no silent wait |
| Provider requests (`ai.rs`, `billing.rs`) | `provider_requests`, a job's pinned `input_json` | pin, dispatch, record, retry | called by the workers and batches | an uncertain request is never repeated unasked |
| Recovery writer and cycle (`automatic.rs`, `recovery.rs`, `parameters.rs`) | `recovery_writer`, `automatic_recovery`, `parameter_trials` | assess, names, types, refresh, reanalyse | queue, writeback, refresh | alone with the evidence; one writeback per pass; a crash resumes the phase; every cycle ends |
| Knowledge (`knowledge.rs`) | `results`, reviews, investigations, `analysis_runs` | review, correct, reanalyze, invalidate, preview | queue, writeback | revisions never lost, stale results not applied |
| Writeback (`ghidra.rs`, `types.rs`, `PistonApply.java`, `PistonTypes.java`) | `apply_operations`, `type_operations`, the Ghidra project | preview, execute, reconcile | recovery, front ends | one unresolved writer per binary; each change applied once |
| Ghidra desktop bridge (`desktop.rs`, `PistonDesktop.java`) | `session.json`, `launch.json`, request, cancel and response files; the desktop's open program | open, dispatch, request; heartbeat, execute | writeback, headless Ghidra | one process writes the project; an operation believed done is saved; no request runs twice |
| Extraction and refresh (`ghidra.rs`, `PistonExport.java`) | `functions`, `artifacts`, progress | `import_export`, `refresh` | graph, queue | refreshed evidence invalidates what relied on the old |
| Runtime evidence (`runtime.rs`) | `runtime_observations`, observed edges | `import` | graph, results | imported once, and not under an open request |
| Recordings (`recording.rs`, `native.rs`, `capture.py`) | `recordings`, a journal, a recorder process | start, stop, import, recover, publish, analyze | queue, runtime, refresh, Ghidra gate | quiet queue during a capture; one recorder; a crash leaves no recording open |
| Batches (`batch.rs`) | `batches`, status `batched` | submit, attach, abandon, collect | queue, provider | a batch of unknown fate is not resubmitted |
| Research (`research.rs`, `mcp.rs`) | `research_operations` | propose, apply | paused binary, Ghidra gate | resume refused while unresolved |
| Restart (`db.rs:48`) | every unresolved status | `recover` | all | nothing in flight is forgotten or repeated |
| Reports (`progress.rs`, `live.rs`) | none of their own | read | tables | no event skipped |
| Types, C++ layouts (`types.rs`, `cpp.rs`, `refinement.rs`, `objects.rs`) | none of their own | validate, merge, fingerprint | writeback | merges conflict-free plans only |
| Front ends (`server.rs`, `main.rs`, `mcp.rs`, `config.rs`, web UI) | configuration | call the above | all | |

What is hard here: workers and operator commands interleave with handlers whose awaits separate the claim, the send and
the save; a process may stop with requests at the provider; scopes overlap (one function may have jobs in many runs);
recursion in the call graph must not block itself; one writer must be alone with evidence that requests read; a phase of
recovery is a dozen commits, any of which may be its last; and recorders and desktops go on when the server is gone.
`PROJECT.json` lists these hazards at their lines.

## 2. Modules

### `CallGraph`, `CallRanks`: the dependency order

`CallGraph` defines strongly connected components as petgraph's `kosaraju_scc` computes them, and `Downstream`, the
recursive query of READY (`pipeline.rs:28-46`): start from the components that the job's component calls, itself
excluded, and follow calls component by component.
`StrictlyBelow` is what the documents mean by it: what a function reaches and is not reached from.
A closure is written as the intersection of closed sets, so no operator is recursive and the modules can be used in proofs.

`CallRanks` is `graph::dependency_ranks`. Each step ranks the component that `kosaraju_scc` lists next; the list's order
is external, and any order with callees before callers is allowed.

### `Pipeline`: the durable queue

One binary. The variables are columns (`jobs.status`, `attempts`, `available_at` as `waiting`, `input_json` as
`pinned`; `paused`, `recovery_writer`, `active_run_id`; `functions.skip_reason`; `edges`), what READY computes from
`function_components` (`below`), and the workers' memory (`holds`, `sent`). `lost` is a history variable.
A job is identified by its function, stage and run, as in the table's UNIQUE constraint.

| Action | Code | One atomic step because |
|---|---|---|
| `Claim` | `pipeline::claim_inner` | one transaction; its first statement selects the job and marks it |
| `Send` | `Ai::analyze_job`, `billing::dispatch` | the request leaves; what precedes it in this handler is pinned once |
| `Complete`, `Fail` | `pipeline::finish`, `fail`, `decisions::finish` | one transaction, including the stages it queues |
| `OutcomeNotSaved` | `pipeline::work`, error of the save, or of the event after the claim | |
| `BackoffElapses` | `available_at` passes | time |
| `Resume`, `Pause`, `AllRuns`, `Retry` | `pipeline::control`, `decisions::prepare` | each commits once; preparation and unpausing touch disjoint state, and claims look at `paused` |
| `Reanalyze` | `knowledge::reanalyze_scope` | one transaction |
| `ScopeAgain` | `recording::analyze` on the run it started before; its resume is `Resume` | one statement |
| `AcquireWriter`, `ReleaseWriter`, `FollowUp` | `automatic::advance`, its reanalysis phase | one statement, one statement, one transaction |
| `ImportObservedCalls` | `runtime::import` | one transaction |
| `Refresh` | `ghidra::refresh_export` | one transaction |
| `Restart` | the process stops anywhere; `Db::recover` | runs before anything else, under the data-directory lock |

Abstractions. A prompt, an answer and a result are not represented; what a handler decides from them (an error's kind,
a decision's route, which functions to select) is a free choice. Priority only orders jobs that are ready, so a claim
may take any. The rounds of an escalate job after the first belong to the same request. The configuration, which jobs
pin with their run, is the same across restarts. `AddCalls` may leave the graph as it is because most imports and
refreshes find no new call; `Observed` bounds those that do. A started recording pauses the binary, which is `Pause`, and
the trigger of `0006_recordings.sql` may refuse a resume, which is the unsuccessful `Resume`. Status
`batched` is produced by the module `Batch`, whose console commands run in processes of their own.

### `EvidenceLock`: what the queue promises

A readers-writer lock: requests read the evidence, a writer changes it alone, and while the binary is held (`held`) neither
begins. What is open may end, and its end may pause the binary; only somebody's command lets it go on. `Pipeline` implements
it with the refinement `readers <- jobs running, batched or uncertain`, `writing <- recovery_writer`, `held <- paused`
(property `LockSpec`). Every module that reduces the queue to a few facts is proved to implement the same lock, so
that what one module takes for granted of another is what that one does:

| Module | `readers` | `writing` | `held` |
|---|---|---|---|
| `Pipeline`, `Batch` | jobs running, batched or uncertain | `recovery_writer` | `paused` |
| `Recovery` | jobs of all scopes, open or uncertain | `recovery_writer` | `paused` |
| `Recording`, of each binary | an open request, an unknown outcome | a phase of recovery that holds the Ghidra gate | `paused` |
| `Knowledge` | open requests | rows read by an assessment and not yet written | not represented |
| `Writeback` | open requests | those rows, a type plan, an annotation until its outcome is known | not represented |

### `Batch`: asynchronous provider batches

Extends `Pipeline`. The console's batch commands run alone under the data-directory lock, each in a process of its own
that first runs `Db::recover`; `NewProcess` is the end of one process and the start of the next, as a server (`Serve` is
the queue's step) or as a command. `SubmitStart`, `ClaimBatch`, `PinInBatch`, `RejectFromBatch`, `Seal`, `Upload`, `Post`
and `Submitted` are the steps of `submit` between two commits or requests, `CollectStart`, `CollectJob` and `CollectEnd`
those of `collect`; a command may stop before any of them (`CommandOver`, `NewProcess`). `attach` and `abandon` are one
step. `accepted` is the provider's side: what it accepted and may charge for, until the outcome is saved.

`submit` refuses jobs whose answers are routed by decisions, so `SubmitStart` asks for `~Decisions`.

The code asks the operator about a submission without an answer; the model lets the operator attach it only if the
provider has it, and confirm that it has not only if it has not. The provider's expiry of a batch is an outcome.

### `Knowledge`: results and what they rest on

The tables `results`, `result_dependencies`, `review_decisions` and `functions.current_result_id`, the prompts pinned on
jobs, and the rows the assessment of recovery has read and not written. A result is an identity; what it says is data, and
so is the size of a prompt (`Ask` pins any part of the usable callees). The queue is reduced to whether a function has a
pinned prompt (`pinned`) and an open request (`active`): which job may start when is the subject of `Pipeline`.

| Action | Code |
|---|---|
| `Ask`, `AskAgain`, `PutBack`, `Answer` | `Ai::pin_prompt` under a claim, the claim of a job that has a prompt, `pipeline::fail`, `pipeline::finish` |
| `Review`, `Correct` | `knowledge::review` and `correct`, one transaction each; a request that names another revision is refused and changes nothing |
| `AssessRead`, `AssessWrite`, `AssessEnds` | `automatic::assess`: a query, then one guarded update per row, with reviews in between |
| `Refresh`, `ImportObservations` | the staleness that `refresh_export` and `runtime::import` cause |

The exemption of `finish` for `recovery_iterations` is left out, as nothing writes that table any more. `corrected` is a
history variable.

### `Writeback`: changing the Ghidra project

Extends `Knowledge`. Change sets (`apply_operations`), type plans (`type_operations`) and research annotations
(`research_operations`); `ghidra`, `layout` and `markers` are what the project holds, `text` is the index's copy of its
names and comments. An operation goes through `Begin` (one transaction), `Script` (one Ghidra transaction, saved whole or
not at all), `RecordNames`, `RecordTypes` or `RecordNotes`, and `Finish`; `Fails` may come at any point, `Dropped` is the
RPC whose future ends with its connection (only change sets are applied by such an RPC), and `Restart` is `Db::recover`.
`handler` is the permit of the Ghidra gate together with what its holder has done. `Begin` is atomic for research
operations too, whose check and claim are two statements, because both happen under the permit and nothing else
starts a writer.

A desktop or a headless Ghidra goes on with the script of a handler that is gone. `ScriptLate` saves what it still does: while
the operation is unresolved, whether the server is idle or a retry is on its way to Ghidra; whether it comes at all is a free
choice. A retry's script that is saved after it finds its changes in place. One that came after its operation was settled
would find the same, and which process writes at all is the subject of `Desktop`.

A type plan also moves and renames the functions it has signatures for (`PistonTypes.java:330`), and compares their
prototypes, names included, with those of its preview (`PistonTypes.java:175`, `:276`): `SignedTexts` writes the signature's
name, which need not be the one the result proposes, over whatever name is there and leaves the comment. The results in
`Signing` are those whose plan has a signature. A result signs its own function and no other: an answer that signs another
is refused before it is saved (`ai.rs:448-459`), so every function a plan renames is an item of its operation. A
person's correction holds no plan (`Proposals`). The namespace belongs to `layout`.

A text stands for its author (a result, an operation, an edit or the original program). The types, and the signatures but
for their names, are one value, so all type plans overlap; plans that do not overlap have no order to get wrong. Research
type plans, which run the same script as `type_operations`, and plans that preview as unchanged are left out.

### `Recovery`: the automatic cycle

One binary. `cycle` is the table `automatic_recovery` by scope (a follow-up moves the row; `id` tells passes apart),
`ops` are `apply_operations` and `type_operations` in the order of their making, `types` and `marked` are what
`automation_json` says of the current results, `handler` is the running phase: its next step, and what it keeps in memory.
`unexported` and `news` are the two ways in which evidence is ahead of the index, and of the prompts.

| Action | Code |
|---|---|
| `Claim`, `Enter`, `Release` | `automatic::advance`: the flag, `advance_locked` reading scope and row, the flag again |
| `PhaseFails` | the error path of `advance_locked` (`automatic.rs:263-274`), after any step |
| `AssessRow`, `AssessDone` | `assess`, row by row; `compatible`; the phase's end |
| `NamesPreview`, `NamesKeep`, `NamesAgain`, `NamesBegin`, `NamesSave`, `NamesRecord`, `NamesDone` | phase `names`: `preview_apply`, the stored identifier, `execute_apply` with its script and report |
| `TypesPreview`, `TypesRefused`, `LocalsDropped`, `LocalsKeep`, `IsolateReject`, `IsolateAccept`, `TypesKeep`, `TypesAgain`, `TypesBegin`, `TypesSave`, `TypesExport`, `TypesOutcome`, `TypesDone`, `TypesNothing` | phase `types`: `preview_types` with its repair of locals, `isolate_type_conflicts`, `types::apply` with its refresh, `type_outcome` |
| `TrialSave`, `TrialRecord`, `RefreshExport`, `RefreshNothing`, `Mark` | phase `refreshing`: `parameters::recover`, `ghidra::refresh`, the audit of names |
| `Select`, `FollowUp`, `Finish` | phase `reanalysis` |
| `LateSave` | Ghidra, which nobody stops (`desktop.rs:145-156`), saves what a broken-off phase had asked of it |
| `Control`, `ChooseScope`, `Review`, `Correct`, `Ask`, `Answer`, `JobFails`, `Restart` | what the other modules model in full, reduced to what a cycle sees of it |

`Control` has the operator's pause and resume, retry, and return to all runs (`pipeline.rs:308`). `ChooseScope` is
`reanalyze_scope`, which always makes a new run; the only other way back to an earlier scope, `recording::analyze` on the
run it started before, is `ScopeAgain` of `Pipeline`.

Abstractions. Which plans are compatible, which of them Ghidra takes, which names are in conflict and whether a parameter
trial changes the prototype are free choices. Every function is worth a trial. `completed` and `deferred` are one phase,
`ended`. Operations of a pass that is over are emptied (`Forget`), as nobody looks at them again.

### `Recording`: managed recordings

`rec`, `sessions` and `inGhidra` are the table, the imported sessions and the saved evidence; `recorder` and `file` are
the process and its directory; `orphans` are recorders that a stopped server left behind; `task` is the holder of the
Ghidra gate and where it is. `Start` is one transaction with its trigger; `Launch`, `SeeProgress` and `SeeEnd` are
`recording::run`; `ImportBegin`, `ImportEvidence` and `ImportDone` are `import_saved`; `PublishBegin`, `PublishApply`,
`PublishVerify`, `PublishExport` and `PublishEnd` are `publish`; `Analyze`, `ScopeAgain`, `ScopeNew`, `StoreRun` and
`ResumeAnalysis` are `analyze`, which runs in the call and may be dropped with it (`AnalyzeDropped`), as may a start
that has not yet been handed to its task (`StartDropped`). `Attach`, `Report` and `RecorderEnds` are the recorder
(`capture.py`). A queue is reduced to three facts about a binary: paused, a request open, an outcome unknown.

### `Desktop`: the native desktop and headless Ghidra

One binary. `handler` is the holder of the gate, from `Begin` (an operation) or `OpenWindow` to its report.

| Action | Code |
|---|---|
| `RouteToWindow`, `RouteOn` | `ghidra::headless` with a window wanted (`ghidra.rs:120`): the desktop is opened unless its status is connected |
| `RouteToDesktop`, `RouteToStatus`, `RouteRefused` | `desktop::dispatch` reads `session.json` (`desktop.rs:60`): it serves, there is none, it is not to be relied on |
| `RouteStatus` | `desktop::status` reads `session.json` once more (`desktop.rs:315`); any answer but "none" is not "starting" |
| `RouteClear`, `RouteRefused` | `launch.json` (`desktop.rs:319`): nothing is starting, or something is |
| `RouteToHeadless`, `RouteRefused` | the scripts are installed and `analyzeHeadless` is started, or cannot be (`ghidra.rs:129-155`) |
| `Send`, `SeeAnswer`, `SeeDesktopLost`, `GiveUp` | `desktop::request` |
| `OpenAgain`, `OpenCompile`, `OpenSpawn`, `OpenNote`, `OpenDone`, `OpenFails` | `desktop::open` |
| `DesktopOpens`, `Heartbeat`, `DropForeign`, `TakeUp`, `Run...` | `PistonDesktop` |
| `HeadlessOpens`, `HeadlessSaves`, `HeadlessEnds`, `HeadlessStopped` | the headless process, and its end at the deadline |

Each `Route...` step reads one file, so desktops start, serve, hang and end between any two of the reads. Ghidra's project
lock is external. Users save, close and quit at any time; desktops may hang for ever; deadlines may pass at any time.

`open` reads `session.json` and then `launch.json`; nothing but `open` itself starts a desktop, and only the holder of the gate
opens, so `OpenCompile` takes both in one step. `OpenAgain` leads an operation back to `dispatch`. Operations that only read are
left out, as is a Ghidra that was opened by hand. Two variables are history: `forgotten`, desktops whose launcher ended
between the start of the process and the file that notes it, and `late`, whether a session was written since `dispatch`
found none. Whether the text of a retried operation is written twice is the subject of `Writeback`; here an operation is
in the project or not.

## 3. Runs

| Run | What it shows | Instance |
|---|---|---|
| `ranks` | in every listing order, ranks agree with the dependency barrier and carry no gap | every call graph of four functions up to renaming |
| `queue` | order and evidence hold for every request, whenever the scope waits it is for the clock alone, it drains or says what blocks it, and a drained binary is handed to the recovery writer | a caller and a callee that a recording makes recursive, two runs, two workers, follow-up runs, a refresh that finds no code, a restart; with fairness |
| `decisions` | the whole stage machine with decisions and escalation, preparation of old extractions, retries out of order, an outcome that is not saved, publications at any time; refinement of the lock | a caller and a callee, one run, two workers |
| `batches` | what the provider accepted is awaited and taken once, and no job stays in a batch without a way out, wherever a process stops and whatever the server does in between | a caller and a callee, one batch of two, four processes |
| `knowledge` | nothing fresh rests on what is stale or rejected, a person keeps the last word, and the assessment never overwrites a decision, whatever happens while a request is open | a caller and a callee that also calls itself, three results, decisions on summaries |
| `writeback` | one writer at a time over the three kinds of operation; what was reviewed is what is written; a saved plan is known to be saved; index and project agree except where an operation is unresolved; an edit in Ghidra is overwritten only by what was previewed with it | one function, two results whose plans both sign it, one operation of each kind, one edit in Ghidra |
| `recovery` | each pass writes names and types by one operation however often it is broken off; every plan is decided; the next pass sees what was changed; decisions prevent writes; the audit is true; every cycle ends | one function, two passes, two failures to give up, one restart and one act of the operator at any await; with fairness |
| `recording` | the queue is quiet during a capture, recorders take turns, reports are true, every recording that a task watches ends | one binary, two recordings, a restart, an act of the operator; with fairness |
| `desktop` | headless Ghidra stays away from a desktop with the exceptions under Disagreements, an operation believed done is saved, no request runs twice or elsewhere, every handler gives the gate back | one operation, three attempts, two desktops, a stop of the server; with fairness |
| `publish` (violation) | publishing a recording rebuilds the graph under open requests | |
| `corrections` (violation) | a correction misses the caller whose request is open | |
| `unsettled` (violation) | an interrupted change set whose result became stale can never be reconciled | |

Bounds. Two workers are enough for every race between handlers, since no handler looks at more than one other job's
worker; two runs give an old scope and a new one; two functions that an observed call makes recursive are a strict
barrier first and a component afterwards (larger graphs are the subject of `ranks` and of the proofs).
`MaxAttempts` bounds the counted failures of a job, `AttemptCap` the attempts that spending limits may add without end.
`MaxRestarts` and `MaxSaveErrors` of one suffice since what such an event leaves (a lost job) is not changed by a second.
The run `queue` loses requests by the restart alone (`MaxSaveErrors` is 0 there), so it checks `LostIsHeldBack` for a crash; an
outcome that cannot be saved and a publication are covered by the theorem `LostHeldBack`.
`CHECK_DEADLOCK FALSE` is set where the system may stop: everything finished, or paused with nobody resuming; results,
operations or attempts used up. In `batches`, one batch suffices since a batch never looks at another one's
jobs, and three restarts allow a submission, a server, a collection and whatever comes between them.

Three results are a caller's, a callee's and one that replaces either; results are interchangeable and so a symmetry set
(no run with symmetry checks liveness). `MaxRevision` bounds the decisions on one result to one, which is what tells a
decided result from another. `Fields` is the summary where only summaries pass from one result to the next.
`Events` restricts a run to the events its question is about. In `writeback` every plan signs its function, as one without
signatures does less; the theorems cover any mixture. One edit in Ghidra can meet every state of an operation.

In `recovery`, two passes are the first one and a follow-up; two results are the first answer and the one that replaces
it; the code's three failures are two, as the third differs from the second in nothing. One restart and one act can
each fall between any two steps, and failures may come before and after. In `recording`, the second recording is there to
be refused while the first is active, and to meet the recorder that a stopped server left. In `desktop`, three attempts
are one that goes wrong, one that meets what it left and one that meets both; the second desktop may find the
files of the first; a second stop would find nothing that the first does not.

Fairness. Workers poll each second (`pipeline.rs:267`), so an enabled claim is taken; requests
time out (`ai.rs:650`), so a sent request is answered or fails; time passes; `advance` is tried every two seconds
(`automatic.rs:85`) and gives the flag back whatever its phase did (`automatic.rs:98`). In `Recovery` the cycle goes on: it is
claimed, or its phase takes a step or fails, as each await of a phase has a deadline of its own; and a request of a worker
begins and ends. In `Recording` the task that holds the gate goes on, as the recorder is
killed at its deadline (`recording.rs:283`); nothing is assumed of the recorder. One process has no deadline and is
taken to end, the `--recover` of `capture.py` (`recording.rs:359`). In `Desktop` the handler goes on, as
requests, processes and the wait for a session have deadlines (`desktop.rs:147`, `ghidra.rs:172`, `desktop.rs:289`);
nothing is assumed of Ghidra or its user. The compiler that `open` calls has none (`desktop.rs:232-250`), and is taken to
end. No operator action and no restart is fair. Weak fairness is enough everywhere:
what is enabled is disabled only by a pause, by the writer or by other progress.

### Disagreements

Three runs record a disagreement between the documents and the code; `PROJECT.json` quotes the lines under `findings`.
More were seen while the code was read and have no run of their own:

- A request of another run with an unknown outcome keeps the recovery writer out of a scope that is reported complete, in
  silence (`automatic.rs:92` looks at every run, `run_state` at `pipeline.rs:49` at the scope alone; `scheduling.md:15`
  forbids waits without an explanation). `DrainedBinaryRecovers` is stated with that exception.
- A job of the retired stage `propagate` that an old database holds waits for every `map` job of its run, and the `map` jobs of
  its callers wait for it: they wait for each other for ever while `run_state` says "Waiting" (`pipeline.rs:30`;
  `scheduling.md:15` forbids waits without an explanation). With `Propagating = {leaf}` the run
  `queue` finds it; `WaitsAreExplained` has the hypothesis that there is no such job.
- A worker that has claimed a job sends its request without looking at a pause (`automatic-recovery.md:72`).
- A job put back by a failure keeps its pinned prompt when a recording is imported, and its answer is taken for a
  conclusion from the present evidence (`runtime.rs:461` forces reanalysis).
- An edit in Ghidra makes every retry of an interrupted type plan, or of saved annotations whose report was lost, throw;
  they end neither in a conflict nor applied (`ghidra-recovery.md:23`).
- A parameter trial that changed a function, followed by a failure of the phase, is exported only if the function is
  visited again: not if a person reviews it before the retry. `FreshEvidence` is stated with that exception, and with one
  for another scope's unfinished cycle, whose saved names and types the present scope does not export.
- Retrying failed jobs after a cycle has ended gives results that no cycle assesses (`automatic.rs:127`).
- The follow-up makes its run the scope although the operator may have chosen another one since (`automatic.rs:245`), and
  a scope chosen between `automatic.rs:92` and `automatic.rs:107` has a phase before its requests drain.
- A crash between the removal of locals and the outcome of a plan lets an empty plan be reported as applied
  (`automatic.rs:330`).
- `recording::analyze` creates its run (`recording.rs:404`) and remembers it (`recording.rs:416`) in two commits; a call
  dropped in between makes the next one start a second run, which `recordings.md` excludes.
- A refused recovery turns a ready recording into a failed one (`server.rs:93-97`); a start dropped before its task exists
  (`server.rs:43-49`) leaves a recording that is starting, without a task, until the next restart.
- `recover` imports without pausing the queue (`QuietCapture` is stated with that exception), and does not notice an old
  recorder that has not yet reported (`recording.rs:345-356`).
- A server that stops between the start of a desktop (`desktop.rs:283`) and the file that notes its process
  (`desktop.rs:284`) leaves a desktop that nobody knows until it has a session: headless Ghidra may then be started beside
  it, although `ghidra-recovery.md` says that no headless writer runs beside a desktop. Only Ghidra's own project lock is
  in the way. `HeadlessStaysAway` is stated with that exception.
- `dispatch` reads `session.json` twice (`desktop.rs:60`, and `status` at `desktop.rs:62`). A desktop that is launched by a
  call which has since been dropped or given up, and writes its first session between the two reads, is not there for the
  first and not "starting" for the second, so `dispatch` answers that headless Ghidra may run (`desktop.rs:65`) beside a
  desktop that is open, although `desktop.rs:49` says that "no headless fallback is allowed while desktop ownership is
  uncertain". A desktop of the previous item may even write its session after both. This is the second exception of
  `HeadlessStaysAway` (`late`); without it TLC finds the interleaving in the run `desktop`.

## 4. Proofs

`CallGraphProofs` proves `DownstreamIsStrictlyBelow`: READY's query over component identifiers is exactly "reaches and is
not reached from", on any graph. It rests on the transitivity of `Reach` and on all members of a component reaching the
same functions. `LowestFunction` says that a finite graph has, in every set of functions, one that nothing else of the set is
strictly below, from `BelowIsOrder` and a lemma on finite sets (`LastElement`) that stands in for induction.

`CallRanksProofs` proves `RanksAreTrue`: on any finite graph, whatever order `kosaraju_scc` lists the components in, the rank
that `dependency_ranks` gives a function is the number of barriers below it (`RanksAreDepths`), and `RanksAreUnique`, that
the listing order makes no difference. The recursion of depths is not proved by induction over numbers: `RanksInv` says that
what is ranked is closed below (`WayOut` finds the edge out of a component) and already true, and two depth functions that
differ would differ at a lowest function (`DepthsAgree`).

`PipelineProofs` proves, from `PipelineAssumption`, `NoneAssumption` and, for batches, `BatchAssumption`:

- `TypeCorrect`.
- `OneWorker`, `RunningHeld`, `LostHeldBack` and `WriterIsAlone`, from the inductive invariant `Safe`. None of the four is
  inductive alone. For example, a worker keeps its job to itself only because the writer's flag excludes open requests and
  a lost job belongs to nobody; `Safe` ties `holds`, `sent`, `lost`, `writer` and `status` together.
- `QueueImplementsLock`: initial states map to initial states and every step to a step of the lock or a stutter. It needs
  `OnlyClaimOpens` (only a claim lets a request in), `OnlyAcquireWrites` and `OnlyResumeUnpauses`.
- `PauseHolds`: from the lock, that while the binary is paused no worker, batch or writer begins anything.
- `WaitsAreExplained`: whenever `run_state` says "Waiting", only a backoff keeps some job of the scope from the workers, so that
  neither recursion nor other runs make jobs wait for each other. It takes the lowest function with queued work
  (`LowestFunction`), hence a finite `Functions`, and needs `Propagating = {}` for the reason given under Disagreements.
- `CalleesComeFirst`: from `GraphStored` (`below` is always the closure of the current `edges`) and
  `DownstreamIsStrictlyBelow`.
- `VerificationComesFirst`: from `VerificationFollows` (with decisions, a completed job of `map` or `escalate` has its
  verification job, `verify_map` or `verify_escalate`), since a claim finds every job below finished.
- `CalleesSettled`: without retries and publications. It needs `SkippedWait` (a function that an older extraction skipped
  has no job, so preparation cannot put work under an open request that its caller did not wait for).
- `GraphIsFixed`: without publications, no step changes the graph under an open request; the run `publish` shows that the
  hypothesis is needed.

The same module proves every property that the run `batches` checks, `NothingIsPaidTwice`, `NoJobIsStranded` and
`CalleesBeforeBatchedCallers`. The queue neither takes a job out of a batch nor puts one into it (`BatchedUntouched`), so
`TypeOK`, `Safe` and the graph facts carry over. The inductive invariant `BatchSafe` adds where the batch at hand stands for
each command (`CommandIsHere`), that what is in its file is in the batch (`FileIsInBatch`), and that a batch owns its jobs
until the provider is seen to have it (`BatchOwnsJobs`): without these, a post could send what a restart had meanwhile
released. What is proved of the queue alone holds beside the console's commands as well: `QueueIsSafeUnderBatches`,
`BatchesImplementLock`, `CalleesSettledUnderBatches`, `WaitsAreExplainedUnderBatches`.

`KnowledgeProofs` proves, from `KnowledgeAssumption` alone, for every call graph and number of results:

- `TypeCorrect`.
- `StalenessSpreads` and `RejectionsSpread`. Both are inductive given the types. The closure that `invalidate` computes
  leaves no gap (`AffectedIsClosed`, by transitivity of `Reach`), and an answer made meanwhile looks at what it was given.
- `DecisionsAreKept`: needs `RowsKnown`, that a row read before a decision carries an older revision.
- `LastWordIsKept`.
- `KnowledgeImplementsLock`: open requests and the rows of an assessment never meet.

`WritebackProofs` proves every property that the passing runs of `Writeback` check, from
`KnowledgeAssumption` and `WritebackAssumption` (operation ids are of one kind each, and none of them is the author
"original"), for any number of operations, results and functions:

- `WritersTakeTurns`: `OneWriter` with `Running`, that the operation of a handler is marked as being applied.
- `ReviewsAreWritten`: needs the types of `Knowledge` (a result is never deleted) and `Planned` (what an operation writes
  is fixed by its preview), since `Held` protects only results that exist.
- `WritersKeepKnowledge`: every step of the writers is a step of `Knowledge` or a stutter, if refreshes are among its
  events. It needs `GateHeld`: no assessment has rows open while a handler runs, which is why evidence recorded by a
  handler is evidence a refresh might have found. The theorems of `KnowledgeProofs` so hold under writeback too, as
  `KnowledgeUnderWriters` states them.
- `WritersImplementLock`: type plans and annotations begin only when no request is open, and none starts before the handler of
  the plan is gone or the annotation is settled. `execute_apply` begins change sets beside open requests too
  (`ghidra.rs:443`); they are no part of the claim.
- `EditsAreKept`: only scripts change the project besides edits (`OnlyScripts`), late ones of unresolved operations included
  (`ScriptsAreBegun`), and each looks at what it finds: for a type plan, at the names of the functions it signs.
- `TypesAreMarked`: from `Marked`, which adds that a plan not yet begun has neither a marker nor its types in place.
- `IndexIsExplained`: from `Indexed`. A difference alone is not inductive: the handler must know, once its script has
  run, exactly what was saved (`Reported`), so that recording it removes every difference (`RecordsCatchUp`) before the
  operation stops being unresolved.
- `WritersTypeCorrect`.

`RecordingProofs` proves `RecordingTypes`, `CaptureIsQuiet`, `RecordersTakeTurns` and `RecordingReportsAreTrue` from
`RecordingAssumption`, for any number of binaries and recordings. The inductive invariant says what a task has already
established at each of its steps (`Established`), and that only a task imports, publishes and runs a recorder that is
not left behind (`Owned`). `RecordingImplementsLock` shows for each binary that its requests, pauses and phases keep the lock.

`DesktopProofs` proves `DesktopTypes`, `OutcomesTrue`, `RequestsRunOnce` and `HeadlessYields` from `DesktopAssumption`,
for any number of operations, attempts, desktops and stops. None is inductive alone. That an answer is true needs that
an attempt's id is new (`IdsAreUnique`), that a script has ended in memory before the save (`ProgressIsTrue`), and that
the desktop that saves holds everything that was saved before it (`OneOwner`); that headless Ghidra stays away needs
that every desktop is noted, forgotten or just being noted (`LaunchesAreKnown`), and that what `dispatch` has read so far is
still so unless a session came late (`LooksAreTrue`), which each step of a desktop between two reads must keep.

`RecoveryProofs` proves every safety property that the run `recovery` checks (`RecoveryTypes`, `OneWriteback`,
`DecisionsPrevent`, `AuditTrue`, `ProposalsDecided`, `EvidenceIsFresh`) from `RecoveryAssumption`, for any number of functions,
passes, failures, runs, restarts and acts. The inductive invariant `Core` ties three things together that the code keeps
apart: the cycle's row, the operations it names, and the handler in memory.

- `HandlerHere` and `RowsCount`: the handler is in the phase of its row, and the row within its limits.
- `RowsRefer`, `HandlerRefers`: a row names operations of the right kind, no two live rows name the same one, and the
  handler works on what its row names or is about to name. An operation previewed and not yet named is named by nobody:
  this is why a failure between the preview and the stored identifier loses nothing.
- `OpsStand`: only the operation at hand is being applied, and what is reported as applied was saved.
- `Settles`, `Begun`, `Once`: an open outcome belongs to a live or failed row; a pass has begun nothing but what its row
  names, and a pass to come has begun nothing. `Once` alone is not inductive: a follow-up gets the row of a run that has
  no operations yet, which is `Begun`.

`CyclesOnlyAdvance` is the safe half of `RecoveryEnds`: a pass never goes back to an earlier phase, exchanges the operation it
has named or forgets a failure, and a cycle that ended or failed stays so. With the limits of `RowsCount`, a cycle comes to
its end unless a phase is not run again, or never returns.

`DecisionsPrevent` holds for what Ghidra saves after the phase was broken off, too. It needs `HeldRevisions`: while an
operation is unresolved, nobody decides on a result in it (`Held`), so its revisions stay what `NamesBegin` found.

`ProposalsDecided` adds `Deciding`: the plans that the handler has dropped, and those of a row whose phase is past them,
have their outcome or are replaced. It needs that a plan is of a result there is (`Known`), since a new result comes after
all of them and so is never mistaken for one (`ReplaceKeeps`).

`EvidenceIsFresh` adds `Debts`: every function that is changed and not exported is a person's, or some cycle owes its
export, for a name it wrote, types it saved or a trial that changed it (`Owes`). A debt outlives every step but an export
and the end of its phase (`OwesStays`), and no own debt is left there: trials completed by an earlier attempt are looked at
again (`TrialsSeen`), or else the export of the type plan has come after the names. A change that comes late is owed by the
cycle that takes up its operation, or by one that failed (`LateSaveOwes`, from `Settles`).

`RecoveryImplementsLock` shows that `Recovery` implements `EvidenceLock` with the requests of all scopes as readers and the
writer flag as the writer, as `Pipeline` does (`QueueImplementsLock`): what each of the two modules assumes of the other
about the flag and about pauses is the same specification.

Only model-checked: the five liveness properties, `QueueDrains`, `DrainedBinaryRecovers`, `RecoveryEnds`, `RecordingEnds` and
`HandlersEnd`, since TLAPS reasons neither about fairness nor about `ENABLED`. Every invariant and action property that a
passing run checks is proved.

## 5. Plan

1. `CallGraph`, `CallRanks`, `Pipeline`, `EvidenceLock` and their proofs: done.
2. `Batch` and its proofs: done.
3. `Knowledge`, `Writeback` and their proofs: done.
4. `Recovery` and its proofs, and that its writer flag is the lock of `Pipeline`: done.
5. `Recording`, `Desktop` and their proofs: done.
6. `EvidenceLock` with pauses, implemented by every module that has a queue; scripts that outlive their handler, in `Writeback`
   and `Recovery`; ranks; waits that are explained; cycles that only advance: done.
7. Next: the safe halves of the other liveness properties (what an active recording, a handler of `Desktop` may still do); that
   each route of `Desktop` keeps what `Writeback` assumes of a script: saved whole, once, while its operation is unresolved.
8. `EventStream` (the cursor of `live.rs`), type-plan merging (`compatible`), label propagation (`graph::modules`) as
   pure algorithms against reference definitions.

## 6. Not modelled

Prompt assembly, evidence selection, JSON validation and cost figures are data. How the Ghidra scripts edit types, and how
a recorder reads its target, is I/O. `progress.rs` and `live.rs` read tables. The web interface presents them. The
validation of types and C++ layouts (`types.rs`, `cpp.rs`, `objects.rs`, `refinement.rs`) is a pure function over large
records with little state. Queries of the research tools save nothing. The components list in `PROJECT.json`
names each part and its status.
