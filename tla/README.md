# Verification of axiom-agent

TLA+ models, TLC runs and TLAPS proofs for axiom-agent: its durable Runtime (`src/src/axiom/runtime`) and the stateful
parts around it - memory, context window, code index, command execution, tool batches, planning and evaluation.
All source paths below are relative to `src/src/axiom/`; those that start with `docs/` are relative to `src/`.

## 1. Inventory

A user's turn becomes a **Run**: one row with a versioned `RunState`, advanced step by step and saved before and after
every step. Everything else in the Runtime exists to let several processes advance, stop, resume and account for Runs
without doing so twice.

| Component | State it keeps | Operations | Talks to | Hard behaviour | What makes it correct |
| --- | --- | --- | --- | --- | --- |
| Run store, `runtime/postgres.py` | `runs` rows: status, sequence, runnable, owner, lease, fencing token, delivery attempt, failure queue | admit, save, claim, renew, release, mark runnable, exhaust, requeue | called by everything below; the database clock | transactions of many processes in any order, leases that expire meanwhile | outcomes are final; authority is exclusive and never regained; ended Runs leave the queue; deliveries are bounded |
| Distributed worker, `runtime/ownership.py` | the claim in memory, two asyncio tasks | claim, heartbeat, execute, release, shutdown | store; durable runtime | crash, lost or refused heartbeat, takeover | one execution per Run; no Run is forgotten |
| Durable runtime, `runtime/durable.py` | RunState copies in coroutines | start, resume, queue_resume, interrupt, cancel, step loop, model calls and their retries | store, budget, tools, model | a copy is read, awaited over and saved | interrupts and cancels hold; a step is applied to the state it was computed from; retries stay bounded over restarts |
| Plan-and-Execute, `runtime/plan_strategy.py` | the plan inside the Parent's RunState | plan, dispatch, observe, wait, replan, complete | Child Runs | a Child ends, is cancelled or resumed while the Parent decides | dependencies first; versions of a plan do not overlap; the Parent completes last |
| Multi-agent, `runtime/multi_agent_strategy.py` | assignments with dependencies inside the Parent's RunState | plan, schedule, observe, review, retry, synthesise | Child Runs | parallel Children, review rounds, failed dependencies | no assignment before its dependencies; results count once; bounded parallelism |
| Plan parsing, `plan/planner.py`, `plan/models.py` | none | parse, order, reload | both strategies | repeated, unknown and cyclic references | what is accepted can be executed to its end |
| Budget manager, `runtime/budget.py` | one ledger per Run tree: version, usage, operations, reservations | register, consume, reserve, complete, record a hard limit | ledger rows by compare-and-swap | concurrent Runs of a tree, re-executed steps, leaked reservations | each operation counts once; limits of Run and tree hold |
| Tool execution, `durable.py`, `runtime/dependency.py` | `tool_executions` records, approvals in the RunState | look up, permit, park, charge, start, execute, retry, apply | tools (external), approvals | crash between a side effect and its record, stale approvals, stale Workers | bounded and paid attempts; no unasked repetition; the transcript matches the record |
| API control plane, `runtime/api.py`, `runtime/control_plane.py` | `control_operations` by key, in-process locks | approve, reject, resume, cancel, interrupt, requeue | durable runtime, in its request threads | repeated requests, cancel against execution, restarts | one execution; acknowledged answers stay true; decisions hit what they name |
| Admission, `postgres.py`, `runtime/capacity.py` | token buckets, submission keys, queue counts | submit, replay, refill, claim under a quota | store | submissions of several API processes | ceilings hold; a refusal costs nothing; one Run per key |
| Background tasks, `runtime/tasks.py`, `runtime/supervisor.py` | task rows, worker threads, the registry of live executions | add, claim, execute, settle, cancel, drain | durable runtime, API | threads racing on unguarded updates, signals across threads | a task settles; a cancel is not undone in its Run; a drained server leaves no execution |
| Local stores, `runtime/checkpoints.py` | SQLite and in-memory tables | save, compare-and-swap, replace, insert | everything local | threads and processes on one file, rolled back transactions, ended awaits | a reported write is in every later state |
| Events, `runtime/events.py`, `api.py` | event rows, cursors of clients | append, follow, reconnect | clients | concurrent writers, lost connections | every client reads the Run's events in order and without gap |
| Trace, `runtime/observability_store.py` | trace, spans | open, finish, recover | durable runtime | written beside the checkpoint, never with it | counts agree with the checkpoint; recovery leaves no span open |
| Progress detector and completion policy, `runtime/progress.py`, `runtime/completion.py` | windows of fingerprints; corrections | observe, recover, terminate; verify | durable runtime | boundaries, observations repeated after a crash | a Run is stopped when, and only when, it stagnates; what completes was verified |
| Memory, `memory/` | conversation records, summary, facts, checkpoints | derive, summarise, state a fact | API, after each Turn | derived writes fail, or stop half way | the next Turn sees what the Thread holds |
| Context window, `context.py` | summary of a prefix | project, compact, refuse | model calls | what may be left out | exchanges stay whole; no message is lost or shown twice |
| Code index, `rag/` | chunks, vectors, symbols, references, call edges | update | files that are edited meanwhile | several transactions, failures between them | what is stored belongs to one version of each file |
| Execution backend, `execution/backends.py` | a process group | execute, time out, cancel, clean up | the operating system | processes that ignore signals or hold the pipes | no process is left; the call ends |
| Tool batches, `tools/executor.py`, `agent/` | history of the conversation | request, read side by side, write in turn | tools, policy, user | failures and refusals in a batch | calls do not collide; nothing refused runs; the history stays whole |
| Bad cases, `evaluation/badcases.py` | JSON files | collect, review, promote | datasets | two files per promotion | a promoted case is in its dataset, once |
| Storage selection, model clients, MCP, reinforcement learning export, entry points, rendering, snapshots, skills, language server | files, processes, connections | input and output | - | - | not modelled, see section 9 |

`PROJECT.json` has the same list with a status per component, and the hazards of the code, each at its line with the
properties that would catch it.

## 2. Modules

```
LeasedRun <=(implements)= RunStore <=(EXTENDS)= DistributedWorker     AtomicBudget <=(implements)= BudgetLedger
                                                       ^                                           ^
                                            DistributedWorkerProofs                        BudgetLedgerProofs

ToolExecution <= ToolExecutionProofs     ControlPlane <= ControlPlaneProofs
LocalStore, Admission, ProgressDetector, CodeIndex, BadCases, ToolBatch, RunTrace <= ServiceProofs
BackgroundTasks, ReactLoop, EventStream, CommandExecution, ContextWindow, ThreadMemory <= RuntimeProofs

MultiAgent <= MultiAgentProofs     PlanExecute <= PlanExecuteProofs
ChildRuns <=(EXTENDS)= MultiAgent, PlanExecute <=(EXTENDS)= MCOrchestration
BackgroundTasks, Admission, ReactLoop, ProgressDetector, EventStream, LocalStore <=(EXTENDS)= MCServices
ThreadMemory, ContextWindow, CodeIndex, CommandExecution, ToolBatch, Planning, BadCases, RunTrace <=(EXTENDS)= MCWorkspace
```

| Module | What it is | State and actions in the code |
| --- | --- | --- |
| `LeasedRun` | abstract: a versioned Run with at most one holder per generation, whose outcome is final | what the Runtime relies on |
| `RunStore` | the `runs` table; one action per transaction of `PostgresCheckpointStore` | each variable is a column; `Authorised`, `Claimable`, `Active`, `DeliveryExhausted` are the SQL predicates `_OWNERSHIP...`, `_RUN_IS_CLAIMABLE`, `_RUN_IS_ACTIVE`, `_delivery_is_exhausted`. Clients are arbitrary: any past claim, any old copy |
| `DistributedWorker` | the real clients: Workers, the step loop, the Plan-and-Execute Parent with inline Children, the control operations | `frame[w][r]` is a coroutine; every `await` between a read and the write that depends on it is a step boundary; `Commit` is `_save_checkpoint`, `Applying` is `_apply_next_action` |
| `AtomicBudget` | abstract: the charges of a Run tree, each checked and made in one step | what `docs/architecture-current.md` promises of the budget |
| `BudgetLedger` | the compare-and-swap ledger and the executions that charge it, overlapping ownerships included | `LoadLedger`/`SaveLedger` are the two halves of `BudgetManager._mutate` |
| `ToolExecution` | the life of the tool calls of one model answer over crashes, takeovers, approvals and interrupts | `record` is the `tool_executions` row; one action per save of `_execute_pending_tool_inner` |
| `ControlPlane` | the control requests of one Run in the local server: idempotency records, locks, execution in the request thread | the stages of `_execute_control_operation`, one action per access to shared state |
| `ChildRuns` | what both strategies share: a Parent's coroutine on its `copy` of the row, the Children it starts, and the control operations behind that copy | `row` is the checkpoint, `child` the status of each Child Run, `host` who executes it; `pc` is the `await` the coroutine is at |
| `MultiAgent` | assignments, attempts, reviews, synthesis | one action per step of `MultiAgentExecutionStrategy` |
| `PlanExecute` | tasks, waves, barrier, replans that keep completed work | one action per step of `PlanExecuteStrategy` |
| `BackgroundTasks` | task rows, worker threads, registry, cancel endpoint, shutdown | a statement of the task table is a transaction, so `claim_next` is two actions |
| `Admission` | buckets, idempotency mapping, ceilings, claims under quotas | a transaction is a read and a commit; the coordination row keeps others out where the code locks it |
| `ReactLoop` | model calls, retries, tool answers, verification and corrections of one Run | `row` survives a crash, the copy does not |
| `ProgressDetector` | the windows, detectors, recovery and termination | one action per observed operation |
| `EventStream` | event rows and the server-sent stream with its cursor | insert and commit are two actions when there are several writers; a poll returns the new rows `InOrder` |
| `LocalStore` | the writes of the stores without leases | a write is a thread's job that survives its caller's cancellation |
| `ThreadMemory` | records, summary and facts, derived after each Turn | one action per derived write; each may fail or be the last of its process; a Turn may park behind its question and answer after later Turns |
| `ContextWindow` | projection, compaction and refusal of a request | `prepare` before every model call |
| `CodeIndex` | one symbol, its definitions, references and edges, chunks and vectors | one action per transaction of `update()`, between which files change |
| `CommandExecution` | one POSIX process group and the call that waits for it | signals, exits, pipes, timeout, cancel |
| `ToolBatch` | the query loop, its batches and its history | one action per call's stage |
| `Planning` | the two parsers of a planner's answer, the order of execution, the reload of a stored plan | operators, applied to every bounded answer |
| `BadCases` | the store of bad cases and the datasets | each command is a process; `file` and `datasets` are the JSON files, read and replaced in actions of their own |
| `RunTrace` | executions, control requests and the trace they write | one action per checkpoint and per write of a span |
| `MC*` | instances for TLC; `MCServices` and `MCWorkspace` put modules that share no state side by side | |
| `DistributedWorkerProofs`, `BudgetLedgerProofs`, `ToolExecutionProofs`, `ControlPlaneProofs`, `ServiceProofs`, `RuntimeProofs`, `MultiAgentProofs`, `PlanExecuteProofs` | theorems | section 7 |

Data is abstracted to what the properties distinguish: a RunState is its status, sequence and the few fields that steer
control (turn, plan tasks, pending approval, decisions); messages, prompts, results and traces are left out except where
a module is about them; times are ticks of a lease or a Boolean `expired`; money is left out, tokens are counts.

`DistributedWorker` and `PlanExecute` both have a plan Parent. The first is about processes: ownership and leases of a
Parent with one inline Child. The second is about the plan: dependencies, waves, failures and versions, in one process.

The definitions marked `mutant` are plausible bugs (a dropped guard, an off-by-one, a missing reset). `PROJECT.json`
pairs each property of a passing run with one of them and with the definition it replaces; the property then fails.

## 3. Runs

| Run | Question | Bounds and why they are enough |
| --- | --- | --- |
| `store` | Do the store's transactions keep their promises for any client? Includes the refinement of `LeasedRun` | Parent and Child, two Workers, lease of one tick, two deliveries, three checkpoints and four fences per Run: takeover, stale copy, quarantine and requeue each happen with every stale client beside them |
| `worker_tree` | Is execution exclusive, is no Run forgotten, does the Parent complete last, under one fault? | Parent with an inline Child, leases of two ticks (a heartbeat fits in), wall time of the Parent may run out |
| `worker_control` | Does the Runtime use the store as its clients may, and does one control request at any moment have its effect? | one request, one delivery, three fences; a lease of one tick makes every ownership loss possible at every await |
| `worker_progress` | Does every executing Run settle? | two faults, liveness under section 6 |
| `budget` | Are charges neither lost nor doubled, do limits hold, is the atomic budget implemented? | root and Child; the Child has two overlapping ownerships, so that a stale execution, a re-execution and a sibling race on one ledger; model reports above and below the estimate; an estimate of 0, the planner's, leaves the same properties in force |
| `tool` | Attempts, payment, transcript, repetition of unsafe tools | a retryable call that needs approval and an unsafe one, three overlapping ownerships, four control operations, two attempts: every order of crash, takeover, approval and retry |
| `control` | Locks, decisions, acknowledged answers | two approvals under one key, a resume, a cancel, an interrupt and one restart, all concurrent; two approvals asked for |
| `orchestration` | Do both strategies respect dependencies, failures and versions, and do they come to an end? | two assignments (independent, in sequence, in a cycle, behind a name that is no assignment) with one retry; three tasks (independent, a fork, an empty plan) with one replan, so that work of the first version is there to be kept; two Children side by side, one crash, one control request at any moment |
| `services` | Does each service around the Runtime keep its promise? | *tasks*: one task, two worker threads and an API thread that resumes, cancel and shutdown. *admission*: two requests under one key and one without, two claimers, a queue of one, a principal quota below the global one, buckets of three and two tokens. *react*: three turns, three attempts, one correction, two crashes, one interrupt. *progress*: every detector with windows of two to four and one recovery, one crash. *events*: two writers, four ids, one lost connection. *store*: two users, two writes each, one end of a process, on each table |
| `workspace` | Does each thing an agent works with stay whole? | *memory*: seven messages, so that two summaries follow each other, two statements of two values (kept, superseded, retracted), one parked Turn, one failure or stop. *context*: messages around the watermark and above the hard limit, three earlier Turns. *index*: a caller, a library and a second definition, two edits, one crash, updates of the whole workspace and of one file. *command*: a shell and two background processes, each of which may hold the pipes, two cancellations. *batch*: two requests of two turns with two calls. *plan*: every answer of up to three nodes. *badcases*: two cases, two datasets, nine commands. *trace*: three activities, two ends of a process, one control request |

`MaxSequence`, `MaxFence`, `MaxFaults`, `MaxControls`, `MaxStep`, `MaxAsked`, `MaxCrashes`, `Reports` and the constants a
module comments as `bound` limit the exploration, not the code; `MaxActive`, `MaxQueued`, `MaxDelivery`, `MaxTurns`, `Limit`,
`MaxAttempts`, `MaxRetries`, `MaxReplans`, `MaxParallel` and the like are configuration of the program. In `WorkerTree` and the
other Worker runs `MaxSequence = 40` is never reached. Symmetry is used over Workers, in runs without liveness.

The modules of `services`, and those of `workspace`, share no state, and what one of them needs of another is among its
inputs (the Run of a task may end in any way; a model answers what it likes). A behaviour is therefore about one of them:
`focus`, chosen in the initial state, says which, and the others stand still. Composing them would multiply their
states and add no behaviour of either.

Deadlock checking is off: a system whose Runs have all ended, or whose bounds are used up, really stops.

## 4. What the passing runs show

*Store.* `StoreSafety`: whatever clients do, a terminal Run leaves the queue (`TerminalLeavesQueue`), the failure queue
holds Runs that used up their deliveries (`QuarantineConsistent`, `DeliveryBounded`). A terminal status is left only by a requeue
(`OutcomeIsFinal`), and lost authority stays lost (`LostAuthorityStaysLost`). `LeasedRunSpec` is the refinement.

*Workers.* Executions of a Run exclude each other (`ExecutionIsExclusive`, except when a Child is itself resumed, which
queues it beside its Parent's Worker; `worker_tree` therefore has no control requests), a running root Run is always in the
queue or in the hands of a Worker that will release it (`RunningRunIsSchedulable`), a Parent completes only after its Children
(`ParentCompletesLast`), no Child is started under a Parent that is no longer running (`FamilyIsOrdered`), an interrupt
of a root Run is not overwritten (`InterruptIsHonoured`), and executing Runs settle (`RunSettles`). `StoreSpec` shows that the
Workers and the API are clients of the kind `RunStore` assumes, so that the theorems of section 7 hold of them.

*Budget.* `LimitsHold`: discrete limits of Run and tree hold, and tokens overrun only by what calls under way report
beyond their estimate. `LedgerIsExact`: no charge is lost or doubled, and a budget failure is on the ledger. `AtomicBudgetSpec` is the
refinement.

*Tools.* `AttemptsAreAccounted` (bounded attempts, each run of the tool paid before it), `TranscriptMatchesRecord`,
`SuccessIsFinal`, `UnsafeRunsOnceUnasked`, `RejectedIsNotStarted`.

*Control requests.* `LocksExclude` (one thread advances the Run, locks come back), `DecisionWasAskedFor`, `AnswerStaysTrue`.

*Orchestration.* `AssignmentsAreSettled`: no attempt of an assignment exists before its dependencies were accepted, each
result counts once, and each Child is the one its assignment names. `ChildrenAreSettled`: no more Children than allowed run
side by side, and a completed Parent has none left. `PlanIsFollowed`: the same for tasks, and beyond it that
the tasks of two plan versions do not overlap in time, that completed work survives a replan, and that nothing is started behind
a failure. `ExecutionEnds`: review rounds, replans, skipped dependents and dependencies nothing provides do not keep a
Parent's step loop running for ever.

*Services.* `TasksAreSupervised`: a live execution is the one in the registry, a drained server abandons no Run in
`RUNNING`, a task that a thread took settles, and a Run that is over is not reopened. `AdmissionIsFair`: ceilings and quotas hold over concurrent
transactions, a refused submission takes neither a token nor a place, a repeated one gets the Run of the first.
`ReactIsDurable`: attempts are bounded over restarts, a completed Run was verified, corrections are not granted
again by a crash, and a Run that executes ends or is interrupted. `ProgressIsJudgedRightly`: the number of operations without new
evidence is bounded, none is counted twice, and a Run is stopped only when the last evidence lies far enough back. `ClientsReadEverything`: with
one writer, every client reads all events in order over reconnects, and a closed stream was complete.
`ReportedWritesStand`: what a caller was told is written is part of every later state of its table.

*Workspace.* `MemoryFollowsTheThread`: the summary stands for exactly the answered Turns of its range, nothing falls between
summary and recent records, and a fact is what the user stated last. `ContextIsWhole`: a request holds both
sides of a tool exchange or neither, and each message is in it or in its summary. `IndexIsCurrent`: what an update completed
agrees with the files, the call graph has exactly the edges the stored files tell, and a vector belongs to the stored text.
`CommandsAreCleanedUp`: the result of a shell that ended leaves no process of its group; a cancelled command is stopped, and a call
whose cleanup begins ends, as long as only the shell ignores SIGTERM. `BatchIsSound`: a writing call runs alone, refused calls do not run, every call in the kept
history has one result. `PlansAreReadRightly`: an accepted plan can be executed to its end, only
cycles are refused, both parsers agree. `CasesAreKept`: a promoted case is in its dataset once, and a review stands.
`TraceFollowsTheRun`: an ended trace says how the Run ended, checkpoints and turns are counted, and recovery leaves no span open.

## 5. Where the code and its documents disagree

Two runs are counterexamples and part of `PROJECT.json` "findings":

- `parent_wakeup`: a Child that ends before its Parent's `WAITING_CHILD` checkpoint or release wakes nobody
  (`docs/architecture-current.md:1026-1027`).
- `repeated_tool`: an approval left in the RunState lets recovery repeat an unsafe tool without asking
  (`docs/durable-execution.md:106-108`).

Further configurations show one execution each; `tlc -config <name>.cfg <module>` finds it. Where the name is that of a run's
configuration, the property is checked in place of those listed there.

| Configuration, module | Property | What the text says | What the code does |
| --- | --- | --- | --- |
| `ParkedRedelivery`, `MCDistributedWorker` | `ParkingIsNotRedelivery` | "normal wait/resume ... are not Run redelivery failures" (`docs/architecture-current.md:1054-1056`) | the refused heartbeat of a parked Run ends `run_once` without a release; the next claim is charged |
| `QueuedResume`, `MCDistributedWorker` | `RunningRunIsSchedulable` | "Persist a control transition and requeue it for capacity-gated execution" (`runtime/durable.py:418`) | a resume queued before the pausing Worker's release is undone by it |
| `ControlPlane`, `MCControlPlane` | `StoredOutcomeStands` | "Repeating the same request returns the stored outcome" (`docs/runtime-api.md:75-76`) | a retried control request can replace the stored outcome of the first |
| `Orchestration`, `MCOrchestration` | `InterruptNeedsResume` | "A manual interrupt requires an explicit resume" (`docs/runtime-api.md:94`) | both strategies load the saved row before they wait, and write `WAITING_CHILD` over the interrupt |
| `Orchestration`, `MCOrchestration` | `CancelReachesEveryChild` | a cancel "cancels all non-terminal Plan Children" (`docs/plan-durable-execution.md:146-147`) | a Child named after the cancel read the plan is left out |
| `Workspace`, `MCWorkspace` | `KillFollowsTerm` | SIGTERM to the group, grace period, "then uses `SIGKILL`" (`docs/execution-isolation.md:104-105`) | a shell that obeys SIGTERM ends the wait; a background process that ignores it is not signalled again |
| `IndexBackfill`, `CodeIndex` | `SymbolsAreBackfilled` | "The next `update()` backfills symbol data for parsed files" (`docs/code-symbol-index.md:130-131`) | unchanged files are skipped, whatever the schema added |
| `EventGap`, `EventStream` | `StreamHasNoGap` | "Independent clients receive the same stream" (`docs/architecture-current.md:1081-1082`) | a PostgreSQL identity is taken before its transaction commits; a cursor may have passed it |
| `Workspace`, `MCWorkspace` | `OverflowIsPinned` | a Run fails "if pinned context still exceeds the hard input limit" (`docs/architecture-current.md:615-618`) | history after an old objective is not eligible, so that a long tool loop is refused although its pinned part fits |
| `DroppedPartial`, `ThreadMemory` | `SummaryCoversItsRange` | a summary covers its event range and the context "does not inject raw conversation records covered by the active summary" (`docs/memory-map-reduce-summary.md:77-88`) | partials beyond the reduce limit are dropped while the range ends with the last of them (`memory/service.py:448`), so that those Turns are in neither; run `workspace` keeps within the limit |

Other disagreements met while modelling, in behaviour that a module has without a property of its own, or that is data
in the models:

- *Distributed resume through the API*: `_queue_distributed_resume` (`runtime/api.py:1021-1044`) reads `state.history`, a field
  that the slotted `RunState` does not have; as written the request ends in an `AttributeError` and its record
  stays `IN_PROGRESS`. `DistributedWorker` models the `queue_resume` that it would call, which other callers reach.
- *Task cancel*: "Cancelling a running background task also cancels its deterministic durable Run"
  (`docs/active-run-supervisor.md:122`); a conflict with a checkpoint of the execution is suppressed (`runtime/api.py:1626`), so the
  Run may complete although the task stays cancelled.
- *No-progress recovery*: an instruction is added "to the next model-facing Context projection"
  (`docs/architecture-current.md:947-950`); when several calls of one answer repeat, the second detection may end the Run
  before the model saw the instruction of the first.
- *Symbol references*: a reference that is ambiguous now keeps the symbol it was resolved to before
  (`rag/symbols/resolver.py:54`; `docs/code-symbol-index.md:83-84`). The call graph is not affected: an edge needs a resolved reference.

Behaviour that the models contain and no document contradicts, so that no run reports it:

- a server that stops between `begin` and `complete` leaves a record that answers `operation_in_progress` for ever
  (`runtime/control_plane.py:134`);
- a crash or a cancellation between `reserve_model_call` and `complete_model_call` leaves the reservation on the ledger;
- an interrupted Run frees its capacity slot while the lease of its Worker still lives (`runtime/durable.py:418`);
- the Parent's Worker resumes an interrupted Child inline (`_start_child`);
- after a token overrun only the token dimension is refused, so a step or a tool call of a sibling goes on;
- a rejected recovery of an ambiguous tool call parks the Run again;
- a wall-time expiry of a Run that nobody owns leaves it `RUNNING` (it is no longer claimable);
- the orphan Child of a quarantined Parent stays until the Parent is requeued, and a requeued failed Child whose failure was
  observed runs unobserved;
- a failed plan waits for a Child that is `RUNNING` in its row and that nobody executes since a crash
  (`runtime/plan_strategy.py:200`); an assignment behind a cycle or an unknown name stays `PENDING` (`runtime/multi_agent_strategy.py:379`);
- a planner answer whose nodes are all no objects is an accepted, empty plan (`plan/planner.py:111`);
- `complete` and `fail` of a task do not look at its status (`runtime/tasks.py:102`), and a second cancellation signal ends a worker
  thread (`runtime/api.py:1586`);
- a resume clears the retry record of a model call, and a crash during the first attempt leaves none, so that it is sent again;
- the trace of a completed Run may stay open for ever, when a process ends before `_finish_run_trace`
  (`runtime/observability_store.py:293`);
- messages of a failed Turn are passed over by the summary, and so are question and answer of one that was parked while another
  Turn of its Thread was asked (`memory/summarizer.py:129` pairs an answer with the question before it);
- `/memory` and the prompt assembler read and write the memory of the configuration (`entrypoints/repl.py:390`,
  `prompt/assembler.py:66`), the API derives into the one of its data directory (`runtime/api.py:161`): two files.

## 6. Fairness

- `worker_progress`: `TimelySpec` assumes weak fairness of each Worker's polling loop and of the coroutines on its event loop, of its
  heartbeat, of accepted control requests and of the database clock. `run_forever` polls until it is stopped and asyncio
  resumes every ready task, which justifies them; a crashed Worker is one that an operator starts again. `Timely` says that the lease
  of a Worker which is alive does not expire: the heartbeat interval is at most a third of the lease.
- `orchestration`: weak fairness of the Parent's coroutine, of the Children it started, which end or park (each is a Run, for which
  `RunSettles` and `ReactEnds` say so), and of an accepted cancel. A resume, an approval or a restart after a crash is somebody's
  decision and has no fairness.
- `services`: weak fairness of the execution of each worker thread, of the ReAct loop, of the serving loop of a connected client
  and of the commit of a begun transaction. Clients, cancels and lost connections have none.
- `workspace`: weak fairness of the steps of `execute()` on the event loop, its timer included, and of the death of a
  process that was signalled and does not ignore it. The command itself may run for ever.

Nothing is assumed of faults, of people (a parked Run may wait for ever) or of the wall clock of a budget.

## 7. Proofs

The first part of `DistributedWorkerProofs` proves, for any Runs, lineage, Workers, limits and bounds that satisfy the named assumptions of `RunStore`
(null values are distinct, the lineage is one level deep, limits are numbers):

- `StoreIsSafe`: the invariant of run `store`, from `TypeCorrect`, `EndedRunsLeaveTheQueue`, `QuarantineIsConsistent` and
  `DeliveriesAreBounded`;
- `OutcomesAreFinal`, `AuthorityIsNotRegained`: its action properties;
- `StoreImplementsLeasedRun`: the refinement of `LeasedRun`, whose holder is the owner of a live lease.

The inductive invariant `IInv` adds two facts to the invariants. *A row exists exactly when it has a checkpoint*
(`RowExists`): a save that matches the current sequence was therefore derived from the current status, which is what
keeps a terminal status final. *A live lease has an owner* (`LeaseHasOwner`): a Run without an owner is therefore held by
nobody in the abstract specification. `Write` isolates the part of a client's save that the proofs need (the copy is
current, its status is not terminal, the write is fenced or a control transition); one lemma per transaction preserves `IInv`,
`StepInvariant` puts them together.

The second part extends these proofs to the whole system of Workers, coroutines and control requests, for any
Runs, lineage, Workers, limits and numbers of faults and requests:

- `RuntimeUsesTheStore`: every behaviour of the system is one of `RunStore` (`StoreSpec`), so that `RuntimeInheritsTheStore` gets
  all that is proved of the store, the refinement of `LeasedRun` included;
- `ParentsOutliveChildren`, `InterruptsAreHonoured`: the action properties of run `worker_control`;
- `ParentsCompleteLast`: the invariant of run `worker_tree`, a Run is completed only after all of its Children;
- `OwnershipsAreExclusive`: no two Workers execute a Run under the same ownership;
- `ExecutionsAreExclusive`: under `[]NoChildIsResumed`, no two execute it at all;
- `RunningRunsAreSchedulable`: under `[]NothingIsResumed`, a running root Run is in the queue or in the hands of a Worker that
  will release it.

The two hypotheses are what the code needs and are not restrictions of the model: a `queue_resume` of a Child puts it in the
queue beside its Parent's Worker, and one of a Run that its Worker has not released yet is undone by that release (section 5).
Behaviours with claims, crashes, takeovers, interrupts, cancels and requeues satisfy them, and `worker_tree` checks those.
`RuntimeInv` says of each coroutine under which ownership it may stand where (`Placed`) and what its copy still tells
(`Informed`: if nobody saved since, the Run has not ended). `Dispatching` and `ProposesRightly` are what a Parent knows of
itself. `Scheduled` and `ChildrenAreUnqueued` are invariants on top of it, for the two theorems with a hypothesis.

`BudgetLedgerProofs` proves, for any finite tree of Runs, limits, reports, estimate and ownership generations (`TreeAssumption`,
`LimitAssumption`: limits and reports are numbers, the estimate is 0 or more, and some report is not below it):

- `LimitsAlwaysHold`, `LedgerIsAlwaysExact`: the invariants of run `budget`;
- `LedgerImplementsAtomicBudget`: the executions that read, change and save the ledger in separate steps implement the atomic
  budget. A save that is refused, or that finds its operation charged, is a stutter; one that is accepted is `Charge`.

`IInv` rests on one fact about the compare-and-swap (`Sane`): *a copy that is about to be saved is the ledger, or too old to be
saved*, so that what its preflight found is true of the ledger it replaces. `Counted` ties the counters to the set of
operations, with the tree's use as the cardinality of its units, since a sum over Runs would need induction. `Fresh` keeps the
number of a new call apart from those on the ledger. Tokens may be overrun, and `TokenBound` says by how much: each Run has at most
one call that is `Outstanding` (reserved, and able to report), and *what a report adds beyond the estimate is charged to the Run
that is then `Quiet`*; so the overrun is never more than one report per Run.

`ToolExecutionProofs` proves, for any number of calls, any set of unsafe tools, any policy, retry allowance and bounds (the
named assumptions of `ToolExecution`: the policy answers for every call, at least one attempt is allowed):

- `RunsAreAccounted`, from `TypeCorrect`, `AttemptsAreBounded` and `RunsArePaid`; `TranscriptsMatch`, `UnsafeToolsRunOnceUnasked`: the
  invariants of run `tool`;
- `SuccessesAreFinal`, `RejectedCallsStayUnstarted`: its action properties.

None of these is inductive, because a step decides from the copy that its execution took some steps ago. `IInv` says when
that copy can be relied on. *Only the frame of the latest ownership is `Coherent`* with the durable state: its record is
the stored one, its answer is the decision on the call while the lease lives, and its position in the code implies what was
permitted and charged; a stale frame is merely `Sane`, and the fence of every save stops it. What a stale
frame can still do is run the tool, so *`Counted` counts those runs before they happen*: the runs done plus the executions
`Underway` never exceed the attempts of the record, and each of these attempts is in the ledger. `Recorded` ties the
status and attempt of a record to the allowance and to the approvals, and `Asked` says that every approval a copy can hold
was given by a person. One lemma per action preserves `IInv`; the lemmas `MovePreserves`, `SavePreserves`,
`RestPreserves` and `BesidesPreserves` carry what the actions of a kind have in common.

`ControlPlaneProofs` proves, for any requests, keys and bounds (`RequestAssumption`, `BoundAssumption`):

- `LocksAreExclusive`, `DecisionsWereAskedFor`, `AnswersStayTrue`: the invariants of run `control`;
- `DecisionsAndCancelsAreFinal`: a decision on an invocation is taken once, and a cancelled Run is never written again.

`IInv` says thread by thread what a handler may rely on: which lock it is inside (`Placed`), how the copy it loaded relates to
the Run (`Informed`) and what its durable record says (`OnRecord`). The cancel and the run lock are two locks and an interrupt takes
none, so a handler's copy may be old; the argument is that *under the run lock an approval finds the Run as it validated it, or
cancelled*, and that a save of an older copy is refused.

`ServiceProofs` is about seven modules that share no state, each with an inductive invariant of its own.

- `WritesStand` (`ReportedWritesStand` of run `services`), for any users, arguments and bounds (`LocalStoreAssumption`: no argument is the
  null value): what a store reported as written stays. `StoreInv` says what a user may rely on while it holds an object: its
  checkpoint or ledger is the one stored under its version, with the write underway and no other. `Numbered` says that a write
  underway is in no checkpoint yet, also when the task that began it was cancelled and its thread still works, so that each
  checkpoint adds one write.
- `AdmissionIsFairAlways` (`AdmissionIsFair` of run `services`), for any API processes, Workers, ceilings and bursts of at least
  one (`AdmissionAssumption`). The counts that a transaction reads are checked only at its commit. `AdmissionInv` is therefore *who is
  between read and commit holds the coordination row* (`RowIsHeld`), and hence *what it counted is still an upper bound*
  (`CountsAreFresh`): others can end Runs meanwhile, but neither queue nor claim one.
- `ProgressIsJudged` (`ProgressIsJudgedRightly` of run `services`), for any policy that the configuration accepts (`PolicyAssumption`, the
  ranges of its fields). A window is cut to the history limit, emptied by a recovery and appended to by an operation that may be
  observed again after a crash. `ProgressInv` says of the saved and of the working detector what the length of each window still
  tells (`WindowIsSound`) and *how many operations without evidence fit into the recoveries so far* (`WindowsCover`), which gives
  both bounds: not later than all recoveries allow, not sooner than the quickest detector does.
- `IndexStaysCurrent` (`IndexIsCurrent` of run `workspace`), for any files, scopes, edits and stops (`CodeIndexAssumption`: the two files that
  the module names are files). `IndexInv` says that *a row tells a version that was on disk* (`RowIsOfThePast`), what a half-read
  file and a half-done scan may say, and that from the resolution of references on nothing counts as up to date that was
  edited since; a complete update then leaves the exact call graph.
- `CasesStayKept` (`CasesAreKept` of run `workspace`), for any bad cases, datasets and processes, while one command runs at a time
  (`OneAtATime`, how the command line is used; section 9). A promotion writes the dataset and then the record, and its process may end
  between the two. `BadCaseInv` says *what a command relies on of what it read*: what it appends to is the dataset as it
  is, and who marks a record has the case in its dataset.
- `BatchesAreSound` (`BatchIsSound` of run `workspace`), for any number of calls, turns and requests, at least one read at a time and one
  turn (`BatchAssumption`). `BatchInv` says *how far the history is whole* (as far as the last answer, whose calls have no result yet),
  that every call has a name of its own over all requests, and that a call that changes something waits for all that come before it
  (`OthersWait`).
- `TracesFollowRuns` (`TraceFollowsTheRun` of run `workspace`), for any number of activities, control requests and processes that end
  (`RunTraceAssumption`). The trace is written beside the checkpoint, so that its counts are right only up to the save that is underway.
  `TraceInv` therefore knows *the set of spans whose checkpoint was saved* (`SavedCheckpoints`): it has as many members as the
  sequence of the Run, and lies between the spans that succeeded and those that did not fail. `Refers` says which spans an activity
  may still close, `CopiesRow` what its copy tells while nobody saved since (above all, that the Run has not ended), and
  `Recovers` that a recovery closes, or has closed, what earlier executions left open; it may meanwhile only meet spans of activities
  that go on no more, or of control requests.

`RuntimeProofs` proves what a server promises beside the store: the safety parts of four properties of the runs `services` and
`workspace`, whose liveness parts stay with TLC, `ContextIsWhole` and `MemoryFollowsTheThread`. The modules share no state and have an inductive invariant each.

- `ExecutionsStaySupervised` (of `TasksAreSupervised`), for any tasks, threads and cancels (`TaskAssumption`: no API thread is a worker
  thread, `runtime/api.py:313`). `TasksInv` says that *from its creation on a `RUNNING` row has an execution which its handle names*
  (`RunningExecutes`), except while its creator is between two statements. A second signal may stop an execution without a durable
  end; `SecondSignals` and `CancellersFit` say that it comes after the Run is over, since the endpoint signals again only behind a
  save that stood, or was refused by a later one.
- `LoopStaysDurable` (of `ReactIsDurable`), for any limits and any number of crashes and interrupts (`ReactAssumption`). `ReactInv` ties
  the calls sent so far to the failure in the checkpoint (`RetriesFit`), and says that *the copy is the checkpoint, but for an
  interrupt* (`CopyHolds`), so that a bound which is checked on the copy holds of the row; `PlaceFits` says what each place in the
  loop knows of its state.
- `ClientsMissNothing` (of `ClientsReadEverything`), for any writers, events and reconnects, where one transaction writes at a time
  (`OneWriter`, SQLite). The hypothesis is what the property needs: with PostgreSQL it fails (`EventGap`, section 5). `StreamInv` says that
  *no id below the last one is still to be committed* (`IdsInOrder`), that the rows of a poll are all those between the cursor and the last
  of them (`RowsCover`), and that who saw the Run end and then read nothing has read what was committed before that end (`EndIsSeenFirst`).
- `ResultsLeaveNoProcess` (of `CommandsAreCleanedUp`), for any background processes, signals they ignore and pipes they hold. `CommandInv`
  says that whoever goes on to collect output without a timeout or cancel does so with an empty group.
- `RequestsAreWhole`, for any log, sizes of messages and limits (`WindowAssumption`). `WindowInv` says that *the results of a call stand
  behind it and nothing else does* (`ResultsFollow`), and, from one answer to the next, that all calls but the last are answered
  (`Complete`, `Awaits`). So the units of `_message_units` divide the log (`WindowUnitEnd`), the eligible prefix ends where a unit does
  (`WindowPrefix`), before the objective and the newest messages (`Covers`), and what the summary covers and what is projected
  (`WindowRequest`) meet without gap or overlap (`WindowCalls`).
- `MemoryStaysWithTheThread`, for any policy and any Turns that fail or park, writes that fail and processes that stop (`MemoryAssumption`: one
  read returns all records, `list_records` has 1000), under two hypotheses. `NothingIsDropped`: the partials of one summary fit into one
  reduce request; without it the property fails (`DroppedPartial`, section 5). `RecentSuffices`: what is too little to be summarized is
  not more than the context shows, which the defaults satisfy (6, 4, 2 and 8 messages) and the configuration does not enforce.
  `MemoryInv` says that *a summary ends with the record of an answer* (`SummaryEnds`), so that no later summary parts a question from
  its answer (`MemoryPairIsWhole`, `MemoryMerges`), that the segments about to be reduced hold each pair (`SegmentsFit`, from the
  arithmetic of `MemorySegments`), and that the pending statements are all those behind some event from the checkpoint on
  (`PendingFits`), so that applying them again after a stop leads to the same value (`MemoryApplies`, `MemorySilence`).

`MultiAgentProofs` proves, of `MultiAgentSpec` with any finite set of assignments, any answers of the planner, any plan order
and any limits (`ChildRunsAssumption`, `MultiAgentAssumption`: limits are numbers, each attempt has a Child):

- `AssignmentsSettled`: the invariant `AssignmentsAreSettled` of run `orchestration`;
- `ChildrenSettled`: its invariant `ChildrenAreSettled`, of Parents that run this strategy.

Most of `IInv` is `Sound`, a predicate of a RunState and the Children: an assignment that was attempted has its dependencies
accepted, how it ended is how its Child ended, and the tokens are the results that were `Counted`. One lemma per change of the
RunState that the strategy makes preserves it, and so does what the Children do meanwhile (`ChildrenMove`: nothing in it is lost
when a Child goes on, or starts that the row names). `Coroutine` says when the copy may be trusted: *`fresh` means that it is the
row*, so that a save writes a change of the row, or is refused. `Slots` and `Completion` are about the scheduler: whatever the
Parent executes holds a slot of the batch, and a completed Parent has no coroutine that could start another Child.

`PlanExecuteProofs` proves, of `PlanSpec` with any finite set of tasks, any plans and any limits (`ChildRunsAssumption`,
`PlanExecuteAssumption`: a plan is a set of tasks whose dependencies are tasks of the same plan, which is what the planner keeps,
`plan/planner.py:144`; the bounds are numbers, at least one Child may run, each version of a task has a Child):

- `PlansAreFollowed`: the property `PlanIsFollowed` of run `orchestration`, five invariants and the action property that nothing starts
  behind a recorded failure;
- `PlanChildrenSettled`: its invariant `ChildrenAreSettled`, of Parents that run this strategy.

`IInv` has the shape of the one for `MultiAgent`, and needs more because a replan makes a new version of the plan while results
of the version before are kept. `Sound` relates a RunState to the Children of all versions: the status of a task is that of its Child
(`StatusFits`), a Child that has not ended belongs to the current version (`ChildrenFit`), what completed under the version before is
the work of this one (`WorkIsKept`), whoever was scheduled had its dependencies met (`Provided`), and the tokens are the results
in a set of `Countable` Children (`Tallies`). `Coroutine` ties the copy to the row: the same plan, the same Children (`SamePlan`), and before
each save of the step loop the Children of earlier versions have ended (`Superseded`). `Queued` says that who is about to be
started is named by the row, and that no failure was recorded in between.

The obvious form of `ChildrenFit` is not inductive, for a reason in the code: a Parent that is cancelled while it observes its Children
reads the cancelled row back, may find a failure in it and still replan once. The new version is saved with the status
`CANCELLED`, while Children of the version before run until the cancel reaches them (`plan_strategy.py`, `_advance_step`). No property is lost by
this, since no Child of that version is ever started; `Abandoned` is this state, and `Quenched` (a cancel leaves no task that waits or
runs) is why the version starts nothing.

## 8. Only model-checked

- *Liveness* (`RunSettles`, `ExecutionEnds`, and the liveness parts of `TasksAreSupervised`, `ReactIsDurable`, `ClientsReadEverything`
  and `CommandsAreCleanedUp`): the proof system has no support for `ENABLED`.
- *Recursion over data*: `PlansAreReadRightly`. `Planning` orders tasks with a recursive operator, and what it computes for every plan
  would need induction.

## 9. Not modelled

- *Data*: contents of messages, prompts, plans and reviews, the choice of model and tool, token estimates, ranking, chunking and
  parsing, fingerprints, money, backoff times.
- *Order of claims*: `_claim_next` orders candidates by priority and age; `Claim` takes any claimable Run, which includes
  every order.
- *The local server with several processes*: `ControlPlane` has the locks of one process; with the PostgreSQL backend
  several API processes are the unfenced control clients of `DistributedWorker`.
- *A stop of the API process between the save and `mark_runnable` of `queue_resume`* (`runtime/durable.py:444`), which leaves a
  Run `RUNNING` and not in the queue: `DistributedWorker` has both steps and lets the process finish.
- *Admission without `max_active_runs`*: a claim then takes no coordination lock (`runtime/postgres.py:750`) and the quota of a principal
  is approximate. How far the clock of a waiting transaction rewinds a bucket (`runtime/postgres.py:1583`) is a matter of real time.
- *Two updates of one code index at once*, an edit that restores an earlier content between two reads of a file, two
  refreshers of one Thread's memory, two commands of the command line on one bad-case store: each module has one of them at a time, as
  the program is used; nothing in the code excludes the other. A parked Turn is resumed under the lock of its Run, not of its
  Thread (`runtime/api.py:676`, `:945`), so that two Turns of a Thread can derive memory side by side; `ThreadMemory` lets other Turns
  run while one is parked, but not this.
- *Runs that are queued without being submitted*: `_RUN_IS_QUEUED` (`runtime/postgres.py:1723`) also counts Children, resumes, requeues
  and Runs whose lease ran out. None of them takes the admission lock, so `CeilingsHold` speaks of submissions only: the queue can be
  longer than `max_queued_runs`, and a submission is then refused.
- *What the trace of a finished Run still says*: `TraceFollowsTheRun` reads from the trace to the Run. A request that loses against the
  end of the Run may have opened its trace again, and leaves it open (section 5); the root span, which `start_run` does not open again
  (`runtime/observability_store.py:317`), is left out.
- *Early exits*: in `DistributedWorker` a Parent whose budget allows no Child, or whose progress is judged while it observes one
  (`runtime/plan_strategy.py:237`, `:758`; both end it as `FailStep` ends a Run), and a completion that the evaluation turns into a failure or another turn
  (`runtime/durable.py:718`, which `ReactLoop` has); in `BudgetLedger` the mark of an exhausted owner (`_mark_owner_hard_if_exhausted`), so that the
  record of hard limits is the weaker one; all model calls of an instance have one estimate. In `ToolExecution` the failures of a
  step budget, of changed arguments and of a deadline before the tool runs (`runtime/durable.py:1515`, `:1587`, `:1910`); in `BadCases` a
  case collision and an insufficient expectation (`evaluation/badcases.py:644`, `:616`), raised before any write.
- *In `ControlPlane`*: Runs that wait for a Child or have failed, and requeues (which `DistributedWorker` has); an
  exception that is none of those caught, as for a Run that failed (`runtime/api.py:1321`), leaves its operation `IN_PROGRESS`, as a
  restart does.
- *In `MultiAgent`* a reviewer that answers nothing: the review is asked for again (`runtime/multi_agent_strategy.py:805`, `:823`). The progress
  detector, to which it is the same action again, and the budget are what bounds this.
- *Call ids of the provider that repeat*: `ToolBatch` has unique ids; where a provider gives none, `agent/query.py:159` numbers them within one
  answer, and the same number comes back in a later turn.
- *The race of a shell's own end with its timeout* (`execution/backends.py:172`), Windows jobs, sandboxes.
- *Storage selection, entry points, rendering*: wiring and terminal output. *Language model clients, MCP, language server, web,
  images*: calls of something external, whose answers are arbitrary in the modules that wait for them. *Snapshots, skills,
  reinforcement learning export, offline scoring*: sequential conversion of files. *`agent/orchestrator.py`, `agent/plan_execute.py`*: facades
  that start a Run of the strategies with in-memory stores and answer its approvals in a loop, as clients of the Runtime do;
  the plan parser of the former, which only tests call, shifts dependencies behind a node that is no object (`agent/orchestrator.py:380`). *Policies and single tools*: string and path matching.

## 10. Plan

Done: the scheduling core (`LeasedRun`, `RunStore`, `DistributedWorker`), budget, tools, control requests, local stores, both
strategies, admission, the progress detector, the code index, bad cases, tool batches, the trace, requests and memory with the proofs of
section 7;
local services, with the proofs of their safety parts; the parts an agent works with. Left:

- *Larger compositions*: `ChildRuns` under leases, as `DistributedWorker` has it for one inline Child.
