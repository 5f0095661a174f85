-------------------------- MODULE BackgroundTasks --------------------------
(***************************************************************************)
(* The background tasks of one Runtime API server: the task table          *)
(* (runtime/tasks.py), the worker threads that take tasks from it, the     *)
(* durable Run "run_<task_id>" that each task gets, the registry of live   *)
(* executions (runtime/supervisor.py) and its cross-thread cancellation,   *)
(* the cancel endpoint of a task and the shutdown of the server            *)
(* (runtime/api.py).                                                       *)
(*                                                                         *)
(* Every statement of the task table is a transaction of its own: a worker *)
(* looks for the oldest queued task in one and marks it in another.  Only  *)
(* a live execution is in the registry; what it is executing is the Run.   *)
(***************************************************************************)
EXTENDS Integers, FiniteSets

CONSTANTS TaskCount,   \* bound: tasks that clients add, numbered by age
          TaskWorker,  \* worker threads of the server
          Resumer,     \* API threads that resume a Run that waits for an approval
          MaxSaves     \* bound: checkpoints of one Run

ASSUME TaskAssumption == /\ TaskCount \in Nat /\ MaxSaves \in Nat \ {0}
                         /\ "none" \notin TaskWorker \cup Resumer
                         /\ TaskWorker \cap Resumer = {}

VARIABLES task,       \* tasks.status, "absent" before the insert
          taskRun,    \* the Run's row: status and sequence
          executor,   \* the worker threads
          handle,     \* ActiveRunSupervisor._handles: whose asyncio task it is
          signalled,  \* workers on whose loop _cancel_if_pending is scheduled
          canceller,  \* the handler of POST /v1/tasks/<id>/cancel
          closing     \* the shutdown: its stage and what it still has to do

taskVars == <<task, taskRun, executor, handle, signalled, canceller, closing>>

TaskId == 1 .. TaskCount
Thread == TaskWorker \cup Resumer
Live   == {"resuming", "executing", "converging", "leaving"}    \* inside _supervise

Executor(at, t) == [at |-> at, task |-> t, seen |-> "absent", row |-> "none"]

TasksInit ==
    /\ task = [t \in TaskId |-> "absent"]
    /\ taskRun = [t \in TaskId |-> [status |-> "none", sequence |-> 0]]
    /\ executor = [w \in Thread |-> Executor("idle", 0)]
    /\ handle = [t \in TaskId |-> "none"]
    /\ signalled = {}
    /\ canceller = [t \in TaskId |-> [at |-> "idle", sequence |-> 0]]
    /\ closing = [at |-> "serving", snapshot |-> {}, pending |-> {}]

Over(row)   == row.status \in {"COMPLETED", "CANCELLED"}
Serving     == closing.at = "serving"
Of(w)       == executor[w].task
Turn(w, e)  == executor' = [executor EXCEPT ![w] = e]
SaveRow(t, status) == taskRun' = [taskRun EXCEPT ![t] =
                          [status |-> status, sequence |-> @.sequence + 1]]

(***************************************************************************)
(* The task table.                                                         *)
(***************************************************************************)
AddTask(t) ==
    /\ Serving /\ task[t] = "absent" /\ \A u \in 1 .. t - 1 : task[u] # "absent"
    /\ task' = [task EXCEPT ![t] = "queued"]
    /\ UNCHANGED <<taskRun, executor, handle, signalled, canceller, closing>>

\* The select of claim_next.
SelectTask(w) ==
    /\ Serving /\ executor[w].at = "idle"
    /\ \E t \in TaskId :
        /\ task[t] = "queued" /\ \A u \in 1 .. t - 1 : task[u] # "queued"
        /\ Turn(w, Executor("selected", t))
    /\ UNCHANGED <<task, taskRun, handle, signalled, canceller, closing>>

\* The update of claim_next: by id, whatever the status has become.
MarkRunning(w) ==
    /\ executor[w].at = "selected"
    /\ task' = [task EXCEPT ![Of(w)] = "running"]
    /\ Turn(w, Executor("claimed", Of(w)))
    /\ UNCHANGED <<taskRun, handle, signalled, canceller, closing>>

(***************************************************************************)
(* The execution of a task: _run_task, start and _supervise.               *)
(***************************************************************************)
CheckCanceled(w) ==
    /\ executor[w].at = "claimed"
    /\ Turn(w, Executor(IF task[Of(w)] = "canceled" THEN "returned" ELSE "creating", Of(w)))
    /\ UNCHANGED <<task, taskRun, handle, signalled, canceller, closing>>

MayStart(t) == taskRun[t].status = "none"

\* The initial checkpoint; a second start of the Run raises.
CreateTaskRun(w) ==
    /\ executor[w].at = "creating"
    /\ IF MayStart(Of(w))
       THEN SaveRow(Of(w), "RUNNING") /\ Turn(w, Executor("created", Of(w)))
       ELSE UNCHANGED taskRun /\ Turn(w, Executor("failing", Of(w)))
    /\ UNCHANGED <<task, handle, signalled, canceller, closing>>

NoLiveHandle(t) == handle[t] = "none"

RegisterHandle(w) ==
    /\ executor[w].at = "created"
    /\ IF NoLiveHandle(Of(w))
       THEN /\ handle' = [handle EXCEPT ![Of(w)] = w]
            /\ Turn(w, Executor(IF w \in Resumer THEN "resuming" ELSE "executing", Of(w)))
       ELSE /\ UNCHANGED handle
            /\ Turn(w, IF w \in Resumer THEN Executor("idle", 0) ELSE Executor("failing", Of(w)))
    /\ UNCHANGED <<task, taskRun, signalled, canceller, closing>>

\* A request resumes the waiting Run in its own thread, also while the worker that
\* parked it is still in its finally.
RequestResume(r) ==
    /\ Serving /\ executor[r].at = "idle"
    /\ \E t \in TaskId : taskRun[t].status = "WAITING_APPROVAL" /\ Turn(r, Executor("created", t))
    /\ UNCHANGED <<task, taskRun, handle, signalled, canceller, closing>>

ResumeTaskRun(r) ==
    /\ executor[r].at = "resuming"
    /\ IF taskRun[Of(r)].status = "WAITING_APPROVAL"
       THEN SaveRow(Of(r), "RUNNING") /\ Turn(r, Executor("executing", Of(r)))
       ELSE UNCHANGED taskRun /\ Turn(r, Executor("leaving", Of(r)))
    /\ UNCHANGED <<task, handle, signalled, canceller, closing>>

\* The finally of _supervise: unregister, if the handle is still the own one.
Unregister(w) == handle' = [handle EXCEPT ![Of(w)] = IF @ = w THEN "none" ELSE @]

\* A worker goes on to the task; the resuming request is answered.
Return(w) == Turn(w, IF w \in TaskWorker THEN Executor("returned", Of(w)) ELSE Executor("idle", 0))

LeaveSupervise(w) ==
    /\ executor[w].at = "leaving"
    /\ Unregister(w) /\ signalled' = signalled \ {w} /\ Return(w)
    /\ UNCHANGED <<task, taskRun, canceller, closing>>

\* A checkpoint of the Run that goes on, ends (completed stands for every end) or
\* waits for an approval.  A save over a cancelled row is refused and converges to it.
SaveStep(w) ==
    /\ executor[w].at = "executing" /\ taskRun[Of(w)].status = "RUNNING"
    /\ \E status \in {"RUNNING", "COMPLETED", "WAITING_APPROVAL"} :
        /\ status \in {"RUNNING", "WAITING_APPROVAL"} => taskRun[Of(w)].sequence < MaxSaves
        /\ SaveRow(Of(w), status)
        /\ Turn(w, Executor(IF status = "RUNNING" THEN "executing" ELSE "leaving", Of(w)))
    /\ UNCHANGED <<task, handle, signalled, canceller, closing>>

MeetCancelledRow(w) ==
    /\ executor[w].at = "executing" /\ taskRun[Of(w)].status = "CANCELLED"
    /\ Turn(w, Executor("leaving", Of(w)))
    /\ UNCHANGED <<task, taskRun, handle, signalled, canceller, closing>>

\* CancelledError is raised at the next await of the execution.
ReceiveSignal(w) ==
    /\ executor[w].at = "executing" /\ w \in signalled
    /\ signalled' = signalled \ {w}
    /\ Turn(w, Executor("converging", Of(w)))
    /\ UNCHANGED <<task, taskRun, handle, canceller, closing>>

LeaveRow(t) == UNCHANGED taskRun     \* mutant: the signalled execution just stops

CancelUnlessOver(t) == IF Over(taskRun[t]) THEN UNCHANGED taskRun ELSE SaveRow(t, "CANCELLED")

\* _converge_cancelled.
ConvergeCancelled(w) ==
    /\ executor[w].at = "converging"
    /\ CancelUnlessOver(Of(w)) /\ Turn(w, Executor("leaving", Of(w)))
    /\ UNCHANGED <<task, handle, signalled, canceller, closing>>

\* A second signal interrupts the convergence, and no except clause of the worker
\* thread catches CancelledError.
SignalledTwice(w) ==
    /\ executor[w].at = "converging" /\ w \in signalled
    /\ Unregister(w) /\ signalled' = signalled \ {w}
    /\ Turn(w, Executor("stopped", 0))
    /\ UNCHANGED <<task, taskRun, canceller, closing>>

(***************************************************************************)
(* What the worker writes about the task: two reads and an update, and the *)
(* except clause.                                                          *)
(***************************************************************************)
\* The two reads after the execution, which nothing but a cancel can come between.
ReadBack(w) ==
    /\ executor[w].at = "returned"
    /\ Turn(w, [executor[w] EXCEPT !.at = "settling", !.seen = task[Of(w)],
                                   !.row = taskRun[Of(w)].status])
    /\ UNCHANGED <<task, taskRun, handle, signalled, canceller, closing>>

ReportedStatus(e) ==
    IF e.seen = "canceled" THEN task[e.task]
    ELSE IF e.row = "CANCELLED"
         THEN IF task[e.task] \in {"queued", "running"} THEN "canceled" ELSE task[e.task]
         ELSE IF e.row \in {"none", "COMPLETED"} THEN "completed" ELSE "failed"

SettleTask(w) ==
    /\ executor[w].at = "settling"
    /\ task' = [task EXCEPT ![Of(w)] = ReportedStatus(executor[w])]
    /\ Turn(w, Executor("idle", 0))
    /\ UNCHANGED <<taskRun, handle, signalled, canceller, closing>>

RecordError(t) == "failed"

FailTask(w) ==
    /\ executor[w].at = "failing"
    /\ task' = [task EXCEPT ![Of(w)] = RecordError(Of(w))]
    /\ Turn(w, Executor("idle", 0))
    /\ UNCHANGED <<taskRun, handle, signalled, canceller, closing>>

StopWorker(w) ==
    /\ ~Serving /\ executor[w].at = "idle"
    /\ Turn(w, Executor("stopped", 0))
    /\ UNCHANGED <<task, taskRun, handle, signalled, canceller, closing>>

(***************************************************************************)
(* Cancelling a task: the task, then its Run, then its execution.          *)
(***************************************************************************)
Signal(t) == signalled' = signalled \cup ({handle[t]} \ {"none"})

CancelTask(t) ==
    /\ Serving /\ canceller[t].at = "idle" /\ task[t] \in {"queued", "running"}
    /\ task' = [task EXCEPT ![t] = "canceled"]
    /\ canceller' = [canceller EXCEPT ![t] = [at |-> "load", sequence |-> 0]]
    /\ UNCHANGED <<taskRun, executor, handle, signalled, closing>>

LoadTaskRun(t) ==
    /\ canceller[t].at = "load"
    /\ canceller' = [canceller EXCEPT ![t] =
           [at |-> IF taskRun[t].status = "none" \/ Over(taskRun[t]) THEN "idle" ELSE "save",
            sequence |-> taskRun[t].sequence]]
    /\ UNCHANGED <<task, taskRun, executor, handle, signalled, closing>>

\* A conflict with a save of the execution is suppressed, and nothing is signalled.
SaveCancelled(t) ==
    /\ canceller[t].at = "save"
    /\ IF taskRun[t].sequence = canceller[t].sequence
       THEN SaveRow(t, "CANCELLED") /\ canceller' = [canceller EXCEPT ![t].at = "signal"]
       ELSE UNCHANGED taskRun /\ canceller' = [canceller EXCEPT ![t].at = "idle"]
    /\ UNCHANGED <<task, executor, handle, signalled, closing>>

\* request_cancel after the cancelled checkpoint; the execution may be gone by now.
SignalOwner(t) ==
    /\ canceller[t].at = "signal"
    /\ Signal(t)
    /\ canceller' = [canceller EXCEPT ![t].at = "idle"]
    /\ UNCHANGED <<task, taskRun, executor, handle, closing>>

(***************************************************************************)
(* Shutdown: snapshot, durable cancellation within the deadline, signals   *)
(* for the rest, drain.                                                    *)
(***************************************************************************)
StopServer ==
    /\ Serving
    /\ LET live == {t \in TaskId : handle[t] # "none"} IN
       closing' = [at |-> "persisting", snapshot |-> live, pending |-> live]
    /\ UNCHANGED <<task, taskRun, executor, handle, signalled, canceller>>

\* One Run of the snapshot: cancelled and signalled, or left to the signals below
\* after a conflict or at the deadline.
PersistCancellation(t) ==
    /\ closing.at = "persisting" /\ t \in closing.pending
    /\ closing' = [closing EXCEPT !.pending = @ \ {t}]
    /\ \/ ~Over(taskRun[t]) /\ SaveRow(t, "CANCELLED") /\ Signal(t)
       \/ UNCHANGED <<taskRun, signalled>>
    /\ UNCHANGED <<task, executor, handle, canceller>>

SignalRest ==
    /\ closing.at = "persisting" /\ closing.pending = {}
    /\ signalled' = signalled \cup
           {w \in Thread : \E t \in closing.snapshot :
                handle[t] = w /\ executor[w].at = "executing"}
    /\ closing' = [closing EXCEPT !.at = "draining"]
    /\ UNCHANGED <<task, taskRun, executor, handle, canceller>>

\* drain returns once no handle is left; past its deadline nothing waits for it.
Drain ==
    /\ closing.at = "draining" /\ \A t \in TaskId : handle[t] = "none"
    /\ closing' = [closing EXCEPT !.at = "drained"]
    /\ UNCHANGED <<task, taskRun, executor, handle, signalled, canceller>>

ExecuteTask(w) ==
    \/ MarkRunning(w) \/ CheckCanceled(w) \/ CreateTaskRun(w) \/ RegisterHandle(w)
    \/ ResumeTaskRun(w) \/ SaveStep(w) \/ MeetCancelledRow(w) \/ ReceiveSignal(w)
    \/ ConvergeCancelled(w) \/ LeaveSupervise(w) \/ SignalledTwice(w)
    \/ ReadBack(w) \/ SettleTask(w) \/ FailTask(w)

TasksNext ==
    \/ \E t \in TaskId : \/ AddTask(t) \/ CancelTask(t) \/ LoadTaskRun(t) \/ SaveCancelled(t)
                         \/ SignalOwner(t) \/ PersistCancellation(t)
    \/ \E w \in TaskWorker : SelectTask(w) \/ StopWorker(w)
    \/ \E r \in Resumer : RequestResume(r)
    \/ \E w \in Thread : ExecuteTask(w)
    \/ StopServer \/ SignalRest \/ Drain

\* The worker threads run; nothing is assumed of clients.
TasksFairness == \A w \in Thread : WF_taskVars(ExecuteTask(w))

TasksSpec == TasksInit /\ [][TasksNext]_taskVars /\ TasksFairness

(***************************************************************************)
(* Properties.                                                             *)
(***************************************************************************)
(* A live execution is the one its Run's handle names, so a Run has one    *)
(* execution at a time and a cancellation from another thread reaches it:  *)
(* neither a second claim of the task nor the finally of another execution *)
(* takes the handle away (register, unregister with its expected handle).  *)
ExecutionHasItsHandle ==
    \A w \in Thread : executor[w].at \in Live => handle[Of(w)] = w

(* When drain has returned because nothing is active any more, no Run of   *)
(* the shutdown's snapshot is abandoned in RUNNING: whichever of the       *)
(* durable cancellation, its lost race and the signal met the execution,   *)
(* the Run has ended or waits, or a resume that came later executes it     *)
(* (_shutdown_active_executions, _supervise).                              *)
DrainedRunsEnded ==
    closing.at = "drained" =>
        \A t \in closing.snapshot :
            taskRun[t].status = "RUNNING" =>
                \E w \in Thread : executor[w].at \in Live /\ Of(w) = t

(* A task that a worker took gets a final status, also when two workers    *)
(* took it and the Run of the second one is refused, unless the server     *)
(* is shut down (_worker_loop).                                            *)
TaskSettles ==
    \A t \in TaskId : task[t] = "running" ~> (task[t] # "running" \/ ~Serving)

(* A second claim of a task, a resume or a late save never reopens a Run   *)
(* that is over.                                                           *)
FinishedTaskRunStays ==
    [][\A t \in TaskId : Over(taskRun[t]) => taskRun'[t] = taskRun[t]]_taskVars

\* A live execution can be cancelled through its handle, a drained one is not left in
\* RUNNING, each task that was taken settles, and a Run that is over stays so (the parts
\* above).
TasksAreSupervised ==
    /\ [](ExecutionHasItsHandle /\ DrainedRunsEnded)
    /\ TaskSettles
    /\ FinishedTaskRunStays
=============================================================================
