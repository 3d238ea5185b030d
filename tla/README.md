# EJAgent in TLA+

TLA+ models of EJAgent's runtime (`src/src/ejagent`), the TLC configurations
that check them on small instances, and TLAPS proofs of their main safety
properties for every value of the constants. Paths below are relative to
`src/src/ejagent` unless they begin with `src/` or `docs/` (which is
`src/docs`).

EJAgent runs one LLM agent per *Harness*: an application submits a query, a
*Run* asks a model for turns of text and tool calls until it ends, and the
messages a completed Run adds become a new revision of the agent's
Conversation. Around this core there are session storage shared by processes,
planning, an evaluation of the environment against acceptance criteria, a
monitor that watches a Run's trajectory, tells the model what it found and
decides whether a claim of completion is allowed, and the services a Run uses:
a judge, evidence sources, tools, a model provider, a context pipeline.

## 1. The system

| Component | State it keeps | Operations | Talks to |
| --- | --- | --- | --- |
| Session values (`contracts/session.py`, `contracts/conversation.py`) | none: snapshots with a revision, commits with a base | resulting Conversation of a commit | everything below |
| JSONL session store (`storage/jsonl.py`, `storage/_file_lock.py`) | one append-only file per agent, its lock file, per-process locks | `load`, `commit` | called by the Harness of several processes |
| Session codec (`storage/codec.py`) | none | encode, decode a record | store |
| Agent Harness (`harness/core.py`, `harness/_control.py`) | status, the two asyncio locks, follow-up queue and counter, active controls and token, snapshot, observer tasks | `start`, `run`, `continue_run`, `cancel`, `steer`, `follow_up`, `shutdown`, the follow-up worker | Kernel (awaits a Run), store (commit), resources, observers |
| Runtime Kernel (`kernel/runtime.py`, `kernel/_workspace.py`) | one Run's workspace: turn, messages, usage, repeat guard, capture state, rejection count, staged feedback | `run`: captures, context, model stream, concurrent tools, completion claims | context pipeline, model port, tool executor, trajectory monitor, token |
| Cancellation token (`contracts/control.py`) | an event and a reason | `cancel`, `wait`, `run` | Harness sets it, everything awaits it |
| Planning (`planning/model.py`, `harness/_planning.py`) | plan and its version, latest checkpoint, audit records | task planning before the Run, `update_plan`, context, capture | Kernel's tools, context and monitor are wrapped by it |
| Evaluation engine (`evaluation/engine.py`, `types.py`, `rules.py`, `sources.py`) | per Run: lock, verdict cache, latest report, novelty | `evaluate`, `close_run` | evidence sources, verifiers, judge, sink; called by the monitor |
| Semantic judge (`evaluation/judge.py`, `_structured_output.py`) | per Run: lock, usage, attempts; a semaphore | `evaluate`, `close_run` | model port; called by the engine |
| Trajectory analysis (`_trajectory/shadow.py`, `online.py`, `context.py`, `kernel/trajectory.py`, `evaluation/trajectory.py`) | per Run: Checkpoints, Action counts, one frame of feedback | `capture`, assessment, `build` of the context, `close_run` | Kernel sends signals, the engine evaluates, the context shows the frame |
| Workspace and command evidence (`evaluation/workspace.py`, `sources.py`) | latest output of a command and its revision | `revision`, `read` | engine reads it, other programs write the files |
| Context pipeline and skills (`context/`, `skills/catalog.py`) | per Run: the prefix that is summarized, the chosen skill; the catalog's texts | `start`, `build`, `shutdown` | Kernel asks for a view each turn |
| Tool executors (`tools/executor.py`, `mcp.py`, `_mcp_manager.py`) | started executors, connections, routes | `start`, `execute`, `shutdown` | Harness resource; Kernel calls it |
| Model ports (`providers/openai_port.py`, `anthropic_port.py`) | a client and whose it is | `start`, `stream`, `shutdown` | Kernel, planner and judge stream from it |
| Evaluation journal, logging | none | append a report, format a line | nobody reads them back |

**What is hard here.**
Everything in one process runs on one asyncio event loop, so the interleavings
are those of suspension points: a Harness has many callers, a worker task, two
nested locks and observer tasks; a Kernel has a batch of concurrent tools and a
token that may be set at every await; an evaluation has concurrent source reads
while other programs change what is read. Between processes there is one file,
with kills, partial writes, failing syncs and power loss. The rest are long
protocols with state that must not be stale: which receipt decides a claim,
which frame of feedback belongs to which turn, which cached verdict belongs to
which evidence, which plan rests on which checkpoint; answers put together from
pieces in any order; resources half opened when a step fails; and numbers at
their boundary: budgets, retries, queue capacities, sums of floats compared
with zero.
`PROJECT.json` lists every such hazard at its line, with the properties that
would catch it.

**What makes each component correct.**

* *Store*: the file can always be read; recorded Runs form one history, each on
  exactly the messages its predecessor left; an acknowledged commit stays
  recorded; a commit is atomic and idempotent.
* *Harness*: Runs are serial and each works on the current snapshot; resources
  outlive whoever uses them; follow-ups are executed in order, exactly once,
  within the capacity; steering reaches its own Run or none; every handle is
  settled; closing is final; every call ends.
* *Kernel*: a claim completes a Run only if it was allowed itself; a model is
  given well-formed messages; no tool survives its Run; limits hold; a
  cancelled Run begins nothing; every Run ends.
* *Evaluation*: verifiers see a state that existed; a verdict is about the
  evidence of its report; cached verdicts are not stale; published facts are
  retracted when they are no longer confirmed.
* *Trajectory*: cycles are found exactly when the Run is in one; feedback is of
  the last boundary and fits the state it shows; a refusal is explained.
* *Judge*: one request of a Run at a time, within budget; attempts and spending
  are told as they were; every question ends.
* *Planning*: no plan drops a condition, and none rests on a state that is not
  the newest known.
* *Evidence*: what is read belongs to the revision it is returned with.
* *Context*: a view tells all of Conversation and Run, in order and once; the
  text of a skill does not change in the middle.
* *Tools, model ports*: whatever fails, nothing stays open that nobody can
  close, and a completed answer is all that was streamed.

## 2. Modules

Order in which they build on each other:

1. **SessionCommits** - values of the `SessionStore` seam. A Conversation is
   the initial messages ("seed") and the ids of the Runs committed to it;
   `Follows` is the comparison of `_validate_base`.
2. **SessionStore** - the abstract specification: what the protocol in
   `contracts/session.py` promises. `Call` proposes any commit, `Record` is the
   one instant at which it takes effect, `Succeed`, `Conflict` and `Fail` are
   the answers, `Repeat` the same commit again.
3. **JsonlStore** - the detailed specification, one step per system call.
   `Promise` maps it to SessionStore: a call takes effect when its line is
   complete in the file.
4. **JsonlStoreProofs** - theorems about it.
5. **Harness**, **HarnessProofs** - the event loop, its two locks and everything
   between them, callers that give up waiting included; theorems about it.
6. **Kernel**, **KernelProofs** - one Run, and theorems about it.
7. **Evaluation**, **EvaluationProofs** - one Run's evaluations against a
   changing environment, and theorems about them.
8. **Shadow** - the analyzer of a history of Checkpoints, as operators.
9. **Trajectory** - the state machine that produces those histories; EXTENDS
   Shadow. **TrajectoryProofs** - theorems about it.
10. **OutputRecovery** - what a model's text is read as; **Judge** and
    **Planning** extend it; **JudgeProofs**, **PlanningProofs**.
11. **ModelStream**, **Evidence**, **Toolbox**, **ContextViews** - a model port,
    the evidence of files and commands, the tools, the views a model is shown.
12. **MCServices** - exercises modules 10 and 11. They share no state: what
    they answer meets only in the Kernel, the engine and the monitor, whose
    modules take any answer. So each behaviour runs the one service its initial
    state chooses. **ServicesProofs** - theorems about the services of 11, and
    that this composition satisfies the specification of each.

`MC<module>` gives model values, symmetry and the plans or environments of an
instance; `<module>_<run>.cfg` the constants.

### Store

`file`, `torn`, `synced`, `entry` are the file as other processes see it, the
bytes after its last newline, and what of it would survive a power loss (lines
fsynced; the directory entry). The asyncio lock, the process lock and
`flock` exclude the same calls and are one `lock`; a killed process loses it.
A writer stands for one process, `view` for the snapshot its Harness would go
on from. `Begin` ... `SyncDirectory` follow `_commit_sync`: wait for the lock
(`Acquire`, `GiveUp`), read and validate (`ReadIndex`, with the replayed and
the refused answers), `Truncate`, `AppendLine`, `Sync`, `SyncDirectory`.
`Cancel` is the cancellation of the awaiting coroutine: it ends the wait for
the lock, but a worker thread past it goes on (`_StoreLockCancelled`).
Faults are `Kill`, partial and failing writes, failing syncs, and `PowerLoss`.
A line's bytes are abstracted to its sequence number and commit; sequence 0
marks a line that is not JSON because it was appended to a torn tail.

### Harness

Asyncio is part of the model: `running` is the task that executes, `ready` the
FIFO of the tasks that may go on, each lock the FIFO of its owner and waiters.
An action guarded by `running = t` is a stretch of `t`'s code without a
suspension; `Goto` moves its `pc`. An uncontended lock is taken without a
suspension and a released one wakes the next waiter, as in `asyncio.Lock`.
`entering`, `gate`, `starting`, `loading`, `undoing` are `start()` with its
rollback; `queueing`, `slot`, `kernel`, `committing` are `_execute`;
`flushing`, `releasing`, `joining` are `shutdown()`; `serving` is the loop of
`_run_follow_ups`. `fate` records what becomes of each steering input,
`handle` what a `FollowUpHandle` was settled with. `Abandon` cancels the task
of a call that waits for a lock, or was woken for it and has not run yet;
`LeaveLocks` is the CancelledError on its way out: the lock is handed to the
next. A `start()` cancelled between two resources is a failing resource: both
end in `_rollback_start`.

### Kernel

One Run. `pc` names the await it is suspended at (a capture, the context, the
model, the tools) or the stretch between two. `Turn` is the head of the loop
with its limits, `RespondText`/`RespondCalls` an answer with its effects on
usage, messages and repeat guard (`RecordedFrom` is the guard of
`record_tool_call`, call by call; a call is identified by its turn and its
place in the batch), the `Tool` actions one task of
`_execute_tools` each, `CancelTools`/`UnwindTool`/`AbortBatch` the failure of
one of them, `AfterBatch`, `Accept` and `Reject` the decision. `Abort` stands for
`RunCancelledError` at an await. An awaited dependency answers everything its
contract allows, and raises what it may raise. `proposed`, all the calls a
Run's model has made, is a history variable of the properties.

### Evaluation

`env` is what the sources observe and how often each changed; `Change` may
happen between any two steps. An evaluation goes through its barriers
(`before`, read, `after`, verify, `final`), whose tasks are concurrent: `todo`
holds those without an answer. `$completion`, whose task ends without an await,
is read with the barrier before. `Revision` is the source's contract, and for a
file what `FileEvidenceSource.revision` really answers. `Verify` consults and
fills the cache, `Conclude` builds the report, `Publish` and `SinkFails` end
it, `Interrupt` is a cancellation or error at any await. `previous` is the
evidence of the latest report, all of it that a later evaluation reads.
`instants`, `verified` and `believed` are history variables of the properties.
`believed` is what a reader behind the report sink knows; if the sink refuses the report of
an interrupted evaluation, which the code swallows, it is given up (`None`):
that reader misses a retraction for good, and `FactsAreRetracted` says so.

### Trajectory

The Kernel's side is reduced to its boundaries (baseline, a batch, a claim,
the next turn). `Capture` is the whole of `OnlineTrajectoryMonitor.capture()`
after its evaluation: transition checks, assessment, event, frame, receipt.
`SinkFails` keeps the frame but not the Checkpoint, `CaptureFails` neither.
`BeginTurn` asks for the context: a frame the projector refuses (`Refused`, an
event that does not fit its state) ends the Run. `End`
is `close_run()`, which the Kernel calls whichever way the Run ends.
Shadow computes the verdict of a history. Coverage is a float in the code, and
sums of rounded differences are compared with zero, so Shadow rounds: numbers
are integers in units of half an ulp of one half, with a significand of
`Precision` bits. The code's 53 bits need numbers beyond TLC's 32-bit integers;
the runs use 13. Thirds are the only quotients of at most four requirements
that are not exact, and their rounding direction depends only on the parity of
the precision: 13 and 53 round them alike, so the sign of every sum of their
differences is the same.

### Judge and planner

Both read a model's text with `OutputRecovery`: a bare object, a fenced one, or
something to be asked again with a reminder. `at` is where a question stands:
at the lock of its Run, just granted it, at a permit, at the model. The inner
task of `CancellationToken.run` may hold the lock when the question itself was
cancelled; the model keeps it held (`holder`), as the code does, and the
property is that this stops nobody. `Stop` sets the token of a Run, `Fail` is
an exception that cancels all questions of its evaluation, `CloseRun` drops
its state. `usage` and `attempts` are what the judge reports.

Planning follows a Run from `plan()` to `close_run`: the planner's bounded
loop, `_bind`, captures that succeed or are lost, and batches of `update_plan`
calls, each naming the version and the checkpoint it saw. `log` is a history of
captures and revisions.

### Model port

One request. `request` is the translated context, `said` the pieces the
provider sent, `answer` what is put together of them. A piece of a call names
its index, or none and then counts for its place in its chunk (`Home`); a later
id overwrites the one before, names and arguments are appended (`WithPiece`).
So two calls that a provider streams without an index in chunks of their own are
one call for the port, of the second id and of both names run together:
`AnswersAreWhole` states the answer in these terms (`Gives`, `LatestId`,
`Counted`) and not that calls are told apart where the stream does not tell
them apart. Every await may be ended by the token or by a timeout or a
cancelled task of the consumer; `dropped` is a stream that opened in the very
instant of this and that nobody closes, which the property names rather than
hides.

### Evidence

`disk` is the files and `moments` what they were during the read. A read looks
at the paths in order, twice; a command read runs the command in between or
answers from its cache. A command opens each file at a time of its own.

### Tools

`life` is the composite's, `linked` the open connections, `routes` which client
each service's tools go to. Starts and stops fail or are cancelled at each
await. `abandoned` are connections the code forgets while they may be open: those of a
start that an exception other than a failing connect left (an `aclose()` that
raises, a CancelledError), and those whose own close raised or was interrupted
when the exit stack was closed (`CloseFails`): the stack tries every other
callback and is empty afterwards, so nobody holds them. `scarred` says that this
has happened: `McpServerManager.shutdown` then leaves before it clears the
routes. The property makes these two exceptions and no other.

### Context views

`step` is where a Run is, between two views; a view is built by the chain from
the outside in, out of `conversation`, the Run's own `pending` messages, the
instructions that are `due` and the plan. Files of skills
are edited or deleted at any time; a skill's parts are read one by one and kept
for the catalog's life.

## 3. Runs

| Run | Checks | Instance |
| --- | --- | --- |
| `store_processes` | `AckedIsRecorded`, `ViewsDoNotFork`, `ImplementsPromise` | 2 processes, 2 seeds, 2 run ids, no power loss |
| `store_power` | `AlwaysReadable`, `WrittenIsRecorded`, `CallsReturn` | 2 processes, 1 seed, 1 run id, 1 power loss, fairness |
| `store_replay` | refutes `ReplayedIsRecorded` | 1 process, 1 seed, 2 run ids, 1 power loss |
| `harness_runs` | `ResourcesOutliveTheirUsers`, `RunsAreSerial`, `SteeringBelongsToItsRun` | 2 callers, 2 closers, all of which may give up waiting, the worker, 1 follow-up, 2 steering inputs, 2 resources, capacities 1 |
| `harness_followups` | `OutstandingIsExact`, `FollowUpsInOrder`, `CallsEnd`, `FollowUpsSettle` | 1 caller, 1 closer, 3 follow-ups, capacity 2, fairness |
| `harness_deadlock` | refutes `CallsEnd` | 2 callers, 1 closer, 1 follow-up, fairness |
| `kernel_turns` | `CompletedIsApproved`, `DeltaIsWellFormed`, `NoToolOutlivesTheRun`, `RepeatedCallsDoNotExecute`, `BudgetIsRespected`, `CancelStopsWork`, `RunEnds` | 2 turns with 2 signatures, or 3 turns with 1 signature and a token limit of 2, up to 2 tokens a request; batches of 2, repeat limit 3, 1 retry, fairness |
| `services` | `OneRequestPerRun`, `SpendingIsKnown`, `PlansAreGrounded`, `StreamsAreClosed`, `AnswersAreWhole`, `ResultsFollowTheirCalls`, `ReadsAreConsistent`, `ToolsMatchConnections`, `ViewsTellTheRun`, `SkillsAreStable`, `QuestionsEnd` | see below |
| `evaluation_plan` | `VerifiersSeeOneMoment`, `VerdictsAreCurrent`, `VerdictsFollowTheRules`, `FactsAreRetracted` | a file and another source, a rule over both, a guarded judge at completion, 2 evaluations, 1 change a source |
| `evaluation_files` | refutes `ReportsShowOneMoment` | 2 files, 1 rule, 4 changes each, 1 evaluation |
| `trajectory_monitor` | `CyclesAreExact`, `SuspectedFirst`, `FeedbackIsCurrent`, `RefusalIsExplained`, `SignalsAreAccepted` | 2 requirements, 4 states found, 2 actions, periods to 2, 4 turns, 5 Checkpoints |
| `trajectory_rounding` | refutes `CyclesAreFound` | 3 requirements, 3 states, 1 action, periods to 3, 6 turns, 7 Checkpoints |

What `services` asks of each service, and its instance:

| Service | Properties | Instance |
| --- | --- | --- |
| Judge | `OneRequestPerRun`, `SpendingIsKnown`, `QuestionsEnd` | 2 questions of one Run, 1 of another that only competes for the 1 permit; 2 requests, 1 token, 1 format retry |
| Planning | `SpendingIsKnown`, `PlansAreGrounded` | 2 capabilities, one of them required and a constraint; 1 retry, 2 tokens; 3 plan versions, 3 captures, batches of 2 updates |
| ModelStream | `StreamsAreClosed`, `AnswersAreWhole`, `ResultsFollowTheirCalls` | both ports, one with a client of its own, the other with one it is given; contexts of up to 3 exchanges with up to 2 calls each; 4 pieces, with one of 2 indexes or none, in chunks of up to 2 pieces of calls; a piece of a call brings id and name or a part of the arguments |
| Evidence | `ReadsAreConsistent` | 2 files, 2 changes each, 2 reads, 1 invalidation |
| Toolbox | `ToolsMatchConnections` | 2 services and another executor, 3 starts |
| ContextViews | `ViewsTellTheRun`, `SkillsAreStable` | 2 skills of which one has a template and is edited once, a compaction limit of 3 messages, 2 Runs of 2 turns, 1 steering input a turn, 2 plans |

Each module has a type invariant (`TypeOK`, `JudgeTypeOK`, ...). Those of
JsonlStore, Evaluation and Trajectory and the parts of the Kernel's are proved;
the others are stated for the reader, and what the proofs need of them is in
their invariants. No run spends its time on them. The proved `LinearHistory`,
`AppendOnly`, `FeedbackFollowsRejection` and `MonitorFailureIsFinal` are in no
run either.

Why the bounds are enough:

* *Store.* No run id is recorded twice, so `RunIds` bounds the file. Two
  processes and two ids give a lost race, a repeated commit, a conflict of
  contents under one id and a torn tail of the other; different seeds give the
  case where revisions agree and messages do not. A third process only waits
  longer. The safety properties are proved for any number of each.
* *Harness.* Two callers, the worker and two closers give every order at both
  locks with one task inside and several waiting; the capacity is both reached
  and exceeded; two resources make a partial start with rollback. The second
  configuration drops one caller and steering for a queue that holds more than
  one follow-up. `Callers` call once; what a caller does after its call is the
  call of another one.
* *Kernel.* Two turns with batches of two at a repeat limit of three let the
  guard bite within a batch and across turns; three turns with one retry make
  the second rejection and the last turn meet; `MCKernel` lets the initial state
  choose between the two. A limit of two with requests of
  0..2 tokens is met exactly, overshot and missed for lack of usage.
* *Evaluation.* Two evaluations give a cache hit, a stale entry and a
  retraction; a source changes between any two steps of either. The second
  configuration has one evaluation, and enough changes for two files to be
  created and deleted twice each, which the finding needs; they are symmetric.
* *Trajectory.* A cycle of period 2 is confirmed with five Checkpoints, and
  claims, failures and incomplete captures fit between them. A batch has one of
  two actions, or the first one without being attributed to it.

* *Services.* Two questions of a Run meet at its lock while a third holds the
  permit; a second reply overshoots either budget. Two updates of one batch name
  the same version and checkpoint, and captures succeed or fail between
  batches. Four pieces are a call, a part, usage and an end, in any order; two
  calls and an end, or two beginnings of one call; or two calls, a part of the
  first and an end. Two files and two changes let both change between the first and
  the second look. Three starts are one that fails or is cancelled at any await,
  one after it, and one after a stop. Two Runs over one catalog, with a Conversation
  long enough for compaction in the second.

`CHECK_DEADLOCK FALSE` stands where the modelled thing ends: a Run, a Harness
that was shut down, the monitor and the evaluator of a closed Run, a service
whose bound is reached. The store never stops
and is checked for deadlock.

### Fairness

* `JsonlStore!Fairness`: weak fairness of each step of a call. The worker
  thread of `asyncio.to_thread` is not stopped while its process lives, and
  waiting for the lock polls up to `lock_timeout`. Calls, cancellations, kills
  and power losses are not fair. `CallsReturn` needs `LockTimeout`: without a
  deadline a holder may keep the lock as long as it works, and another process
  may take it first each time.
* `Harness!Fairness`: the event loop runs ready tasks, and the awaited Kernel,
  store, resources and observers answer. The application is under no
  obligation: nothing requires that anybody calls `shutdown()` or `cancel()`.
* `Kernel!Fairness`: the coroutine goes on, each tool's task goes on, and what
  is awaited answers in one of the modelled ways (the providers have
  timeouts; a tool that hangs forever would hang its Run, and is a broken
  contract here). `cancel()` is not fair.

* `Judge!JudgeFairness`: an asked question's task goes on: the loop runs it,
  timers fire, and `asyncio.timeout` ends a request that does not answer.
  Cancelling, failing and closing a Run are not fair.

## 4. Findings

* `store_replay` - `_commit_sync` answers a commit that is already in the file
  from what it reads (`storage/jsonl.py:103`). If the call that wrote the line
  failed in `os.fsync` or died before it, nothing has synced that line: the
  retry is acknowledged, and a power loss takes the commit away. TLC's trace: r1
  is committed, its line and the directory entry synced; the line of r2 is
  appended and its fsync fails; the retry is answered `"replayed"`; the power
  fails and the file ends after r1. The class promises a *durable* store.
  `ReplayedIsRecorded` asks nothing of a file whose directory entry the disk
  never had (`_fsync_directory` swallows its errors: such a success is reported
  `"unlisted"` by the model, and no property speaks of it). `WrittenIsRecorded`
  states what does hold.
* `harness_deadlock` - `shutdown()` awaits the follow-up worker with
  `_lifecycle_lock` held (`harness/core.py:405`). A worker that checked
  `_closing` before and asks for this lock in `start()` never gets it: neither
  `shutdown()` nor the follow-up ends. It takes a second application task
  whose Run made the status RUNNING. With one caller (`harness_followups`)
  every call ends.
* `trajectory_rounding` - coverages 0, 1/3, 1 in turn: the rounded differences
  of one period add up to more than zero, so a cycle that closes exactly counts
  as progress and is answered `no_cycle` for ever (`_trajectory/shadow.py:948`).
  `sum()` compensates its own rounding since Python 3.12; the remainder is that
  of the differences. With one, two or four requirements everything is exact
  (`CyclesAreExact`), and no rounding confirms what is no cycle.
* `evaluation_files` - a `FileEvidenceSource` answers `"absent"` for every
  absence (`evaluation/sources.py:63`), where the contract asks for a new
  revision whenever the source changes. In TLC's trace, of eight changes, two
  files are created and deleted between all the looks at them, so that at every
  instant from the begin of the evaluation to its report one of them exists; the
  report is complete and states that both are absent. `VerifiersSeeOneMoment`
  and `VerdictsAreCurrent` state what holds otherwise, and with at most one
  file among the sources `ReportsShowOneMoment` is proved.

## 5. Proofs

**JsonlStoreProofs.** For any number of processes, seeds and run ids:
`TypeCorrect`, `ReadableHolds`, `LinearHistoryHolds`, `ViewsDoNotForkHolds` and
`WrittenIsRecordedHolds`, with any number of power losses; and, assuming `MaxPowerLosses = 0`, `AppendOnlyHolds`,
`AckedIsRecordedHolds` and `StoreImplementsPromise`, the refinement of
SessionStore. The inductive invariant is
`TypeOK /\ Readable /\ LockOwned /\ IndexFresh`: that the file is readable is
not inductive by itself, because `AppendLine` uses an index read earlier;
`IndexFresh` says that the index of a call past `ReadIndex` still describes the
file, which holds because `LockOwned` lets nobody else write meanwhile. With it
`Truncate` cuts nothing that is recorded, and `AppendLine` appends a line that
follows the last one. `Durable` adds what a power loss leaves: a call that
reports the line it wrote has synced all lines up to it, and its directory
entry. `ViewsAreRecorded` adds that the snapshot of a process is what some
recorded line left. For the refinement each step of a call maps to a step or
a stutter of SessionStore, the append to `Record`.

**KernelProofs.** For every limit, batch size and signature set:
`CompletedIsApprovedHolds`, `NoToolOutlivesTheRunHolds`,
`BudgetIsRespectedHolds`, `FeedbackFollowsRejectionHolds`, `CancelStopsWorkHolds`
and `MonitorFailureIsFinalHolds`. The invariants behind them are proved
separately and combined: `Counting` (ranges of the counters), `Approving` (a
receipt at hand at a decision belongs to this turn's claim: every path to
`decide` resets it or captures it), `Quiet` (no task is alive outside of
`tools` and `aborting`), `Monitoring`, `Aborting`, `Budgeting` (usage is
complete and below the limit when a request begins) and `Explaining`
(feedback is staged exactly after a rejection that is retried).

`DeltaIsWellFormedHolds` and `RepeatedCallsDoNotExecuteHolds` are about
sequences. `Telling` says of the messages of a Run how they were put together:
answered calls, and behind them the one message whose calls are being executed
or whose claim is being judged; the results a batch appends, or makes up for
calls that did not run, are those of its calls in order. `Guarding` says that the
repeat guard counts the equal calls at the end of `proposed`, so that a call is
blocked exactly when it completes a series of the limit. `RecordedGuards` proves it
for one batch by induction over its calls, and `RecordedFrom` is a recursive
function for that reason. The induction is a `LEMMA Induction` about sets of
numbers, since those of the library take an operator.

**HarnessProofs.** For any number of callers, closers, follow-ups, inputs and
resources: `RunsAreSerialHolds`, `ResourcesOutliveTheirUsersHolds`,
`SteeringBelongsToItsRunHolds`, `OutstandingIsExactHolds` and
`FollowUpsInOrderHolds`.

* The two locks come first. `Discipline` says of a lock, as sets of tasks, who
  waits, owns, leaves and goes on: an owner is the first in line, a waiting task
  goes on only when it is the first, and the first does go on. Its lemmas
  (`Joins`, `Owns`, `Passes`, `GivesUp`, `Leaves`) are the five things a step
  does to a lock, a cancelled wait among them; `LifecycleLock` and `SlotLock`
  instantiate them. `Looping` supports them: a task is at most once in the event
  loop, and what a shutdown waits for has ended.
* Exclusion is not enough for `RunsAreSerial` and `ResourcesOutliveTheirUsers`,
  because a Run holds only the inner lock and a shutdown waits for it with the
  outer one. `Phases` states what a task may rely on at each place of its code:
  the status, whether the Harness is closing, which resources are live, how
  `base`, `snapshot` and `stored` relate.
* `Admitting` adds that steering is admitted by the Run in the kernel alone.
* `Serving` adds the queue: `Holding` (a pending follow-up is in the queue or in
  the worker's hands), `Counting` (the counter is exact, also while a task
  executes) and `Ordering` (the queue keeps the order of acceptance, and what
  was accepted after one that still waits or is served is not yet settled,
  unless a shutdown discarded it).

**PlanningProofs.** For every set of capabilities and every limit:
`PlansAreGroundedHolds` and `PlannerSpendingIsKnownHolds`. `RevisionsAreGrounded`
is about the history only; `Newest` connects it with the checkpoint an update is
compared with, and needs that revisions since then were made from smaller plan
versions. `Covering` follows a plan from `_bind` through every revision,
`Accounting` the planner's loop.

**JudgeProofs.** For any number of Runs, questions and permits:
`OneRequestPerRunHolds`, `BudgetIsBoundedHolds` and `SpendingIsAccountedHolds`,
the judge's half of `SpendingIsKnown`. `Holding` is that a question past the
lock of its Run holds it. The converse fails, since an abandoned question may
leave the lock held. `Spending` is that a request in flight is the one whose
usage is unknown, and began below the budget. `Telling` relates the attempts to
the usage: one for each request, the last of which is undecided while the
request is in flight, and a reminder exactly if one is owed (`Owes`) by the
attempts before.

**EvaluationProofs.** For every plan, set of sources and number of changes and
evaluations: `EvaluationTypeCorrect`, `FactsAreRetractedHolds`,
`VerdictsFollowTheRulesHolds`, `VerdictsAreCurrentHolds`,
`VerifiersSeeOneMomentHolds` and, with at most one file among the sources,
`ReportsShowOneMomentHolds`.

* `RetractsItsDifference`: nothing replaces `previous` between the step that
  decides what a report invalidates and the one that publishes it, an
  interruption included.
* `CacheIsSound` and `JudgedSoFar`: a verdict enters the cache with the evidence
  it was made of, and is used again only where the rule's part of the evidence
  is the same.
* `SnapshotsAreDated`: a revision that is still the present one tells that
  nothing has changed since the read, because a change gives a version the
  source never had. `Confirmed` carries this through the last barrier, source by
  source, while others change.
* `MomentExists` is why the two barriers around the reads are enough: there is
  an instant between them at which every source that is unchanged in the end was
  as it was read. The instant is chosen anew by the read of an absent file, whose
  revision may recur. Two such files would need two instants, so the theorem
  assumes that at most one source is a file (`\A j, k \in Files : j = k`); that
  the assumption is needed is the finding of `evaluation_files`.

**TrajectoryProofs.** For any requirements, states found, actions, turns and
Checkpoints: `TrajectoryTypeCorrect`, `SignalsAreAcceptedHolds`,
`FeedbackIsCurrentHolds`, `RefusalIsExplainedHolds`, `SuspectedFirstHolds`,
`ConfirmedCyclesAreCycles` and `CyclesAreExactHolds`. `Counted` relates the
Kernel's count of Actions to that of the last Checkpoint, while no capture has
failed. `Framed` says at each boundary which turn the frame in the buffer is for
and which state it describes. `Explained` says that a refusal is not overwritten by
another event before it is shown. The last three are about the analyzer:

* `Recorded` is the invariant of a Run's history: a Checkpoint with Actions has
  more of them than every one before it, and evidence is news only when its State
  occurs first.
* The folds over windows of the history are `Sums`: some function of sets of
  indexes adds one member at a time, in any order (`SumsAreExtended`), and the
  fold is that function (`FoldIsSum`). So two windows that share all but one
  Checkpoint can be compared, and differences of neighbours telescope.
* `ConfirmedWasSuspected`: the window of a confirmation, moved back by one
  Checkpoint, gains one with the State, and so the rounded difference, of the one
  it loses. This holds for every plan, however coverage is rounded.
* `ConfirmedCyclesAreCycles` holds for every plan too. Its converse needs
  that nothing is rounded (`CoverageIsExact`: one, two or four requirements, since
  `ShadowAssumption` bounds them by four); `CoverageExact` and `DeltaExact` prove
  this for every precision. For three it is false: `trajectory_rounding`.

**ServicesProofs.** About the modules MCServices composes, each for every value
of its constants:

* *Tools*, `ToolsMatchConnectionsHolds`: `Owning` says that what is connected is
  on a stack that will close it or is `abandoned`, `Untouched` that a
  service whose turn is to come has no client of this start, so that skipping it
  closes nothing that serves, and `Routing` that routes lead to open connections unless closing has failed
  (`scarred`). What is proved has these two exceptions, as the property states.
* *Evidence*, `ReadsAreConsistentHolds`: a version of a file that is gone does not
  come back (`Versions`, `Past`), so what the second look finds as the first one
  did was so in between; `CommandSees` draws this for the files a command opened
  one by one, `ReadSees` for the moment at which the first look ended, and
  `CacheHolds` for an output that is served again.
* *Model port*, `StreamsAreClosedHolds`: `Opening` is where the stream is open.
  `AnswersAreWholeHolds`: `Gathering` says that what was gathered lists the places
  of what was said, each call what counts for its index, by the piece or by its
  place in the chunk (`PieceTells`, `CountedGrows`), and that calls have distinct
  indexes; that
  they can be put in the order of their indexes at the end (`Sorts`) is shown by
  inserting one after the other. `ResultsFollowTheirCallsHolds`, for contexts of
  any number of exchanges with any number of calls: what an exchange adds to a
  request (`ExchangeIsAnswered`, `PlainIsAnswered`) leaves it `Answered`, and
  `YieldsTheRequest` is that the translation, message by message, of a context is
  that of its parts one behind the other.
* *Context views*, `ViewsTellTheRunHolds`: `Says` gives for a part of a view the
  messages it tells and the instructions in it, and `SaysBoth` adds two parts up,
  which rests on `FlattenBoth`; `SystemSplit` is that the system messages and what
  a summary stands for make the Conversation. `Numbering` relates the instructions
  shown, those due and those given, so that one that is drained, or kept over a
  rejection, is not shown twice.
  `SkillsAreStableHolds`: `Choosing` says that what was told of a
  skill is what the cache holds, and that a view shows the choice of its Run's
  task. That the choice does not change rests on `SameTask`: the messages a Run
  adds after its first turn are not the user's.
* `ServicesAreTheirOwn`: a behaviour of the composition is a behaviour of each
  service's specification, so `SpendingIsKnownHolds` follows from the judge's half
  and the planner's.

The assumptions are those the modules name: `SeedsAssumption`, `WritersAssumption`
and the `NoneAssumption` of SessionCommits, of Evaluation and of Trajectory (the
mark of an absent value is no value), `KernelAssumption`, `HarnessAssumption`,
`PlanningAssumption`, `ToolboxAssumption`, `JudgeAssumption`,
`EvaluationAssumption`, `ShadowAssumption`, `TrajectoryAssumption`,
`EvidenceAssumption`, `StreamAssumption` and `ContextAssumption`. TLC evaluates
each in the runs of its module.

**Only model-checked**:

* `CyclesAreExact` with three requirements is no theorem: the run
  `trajectory_rounding` refutes the half of it that `CyclesAreFound` states.
* Of the Kernel `TypeOK` as a whole, and of the Harness, whose bound on revisions
  counts callers and follow-ups.
* All liveness: `CallsReturn`, `CallsEnd`, `FollowUpsSettle`, `RunEnds`,
  `QuestionsEnd`. Fairness and `ENABLED` are out of the prover's reach.

## 6. Abstractions and what is not modelled

* Messages, texts, tool arguments and results are the identities the
  properties need; wording, audit records and logging are left out.
* **Codec**: lossless conversion; a line that does not decode makes the file
  unreadable, which JsonlStore covers. A `datetime` in a `ZoneInfo` zone inside
  an hour that occurs twice decodes to a value that is not equal to the
  encoded one (`storage/codec.py:388`); values are a matter of unit tests.
* **Harness**: planning inside a Run is part of the Kernel's span. Observers do
  not call back into the Harness. `shutdown()` is cancelled only while it waits
  for a lock: while it awaits the observers or the worker its `gather` would
  cancel those, which is left out.
* **Kernel**: a TASK Run (a CONTINUE Run begins without a user message);
  steering is the Harness's; the services are their contracts.
* **Evaluation**: one Run with a plan; `asyncio.Lock` serializes its
  evaluations. Left out: novelty, cost counters, evaluation without a plan,
  `json_fields`, `boolean_field`, the probe source's limit. The judge is its four
  possible answers.
* **Trajectory**: one Run under completion enforcement. Left out: audit
  normalization, Fact payloads and their invalidation, wording, signals nobody
  sends.
* **Judge, Planning**: criteria are identified with the capability they select;
  evidence, wording and the order of audit records are left out.
* **ModelStream**: the end of a provider's stream is that its close was called:
  the port swallows what it raises (`openai_port.py:225`), and a close that is
  itself cancelled is not modelled. Cancelling is possible at every await, for
  whatever reason. Calls without an index in separate chunks are one call, as
  in the code; the model does not judge this. Thinking deltas, the sums of usage fields, which error an
  exception becomes and the configurations are left out. A shape of context the
  Anthropic port refuses is modelled as refused: `continue_run()` over a
  Conversation of which compaction left only a summary has no user message
  (`anthropic_port.py:116`), although a view is meant to be neutral of the
  provider (`contracts/context.py:88`); `ViewsTellTheRun` names this one case.
* **Evidence**: paths that are links out of the root and the size bounds are one
  failure. A stat signature never recurs (`ChangeFile`): two changes within one
  tick of the file system's clock that restore the size, or a clock set back,
  would be seen by no look, and `ReadsAreConsistent` does not speak of them.
* **Toolbox**: a close that raises or is cancelled may or may not have closed its
  own connection; that of another client is tried all the same, as
  `AsyncExitStack.aclose()` does. Executing a call changes no state of an executor; the Kernel
  models it.
* **ContextViews**: discovery is one step and its failure leaves nothing behind;
  metadata, wording and ranges are left out. That an edit of a skill is seen
  only by a new catalog is what the code does, and no property forbids it.
* **Not modelled**: the evaluation journal and logging, which append text that
  nothing reads back; configuration from the environment; `src/examples` and
  `src/experiments`, which are scripts and user interfaces around this library.

## 7. Plan

Done: modules 1 to 9, in the order in which they carry the system: what must
not be lost (store), what must not interleave (Harness), what one Run may do
(Kernel), what it is judged by (Evaluation, Trajectory); then the services a
Run uses (10 to 12); proofs about each of them.

To come:

1. **Type invariants** of Kernel, Harness and the services.
2. **Harness**: observers that call back, `shutdown()` cancelled past its locks.
3. **Evaluation, Trajectory**: novelty, fact invalidation across Checkpoints.
4. **StoreFileLock** below JsonlStore: thread lock and `flock`, with its
   polling, shown to exclude like the single lock JsonlStore has.
