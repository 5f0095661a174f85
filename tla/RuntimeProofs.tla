--------------------------- MODULE RuntimeProofs ---------------------------
(***************************************************************************)
(* Proofs about what a server runs beside the store: its background tasks  *)
(* (BackgroundTasks), the loop of a Run (ReactLoop), the streams that      *)
(* follow a Run (EventStream), the shell commands of its tools             *)
(* (CommandExecution), the requests to its model (ContextWindow) and what  *)
(* it remembers of a Thread (ThreadMemory); for any threads, processes,    *)
(* limits and bounds that satisfy the named assumptions of these modules.  *)
(*                                                                         *)
(* The six have no state in common.  Each has an inductive invariant of    *)
(* its own (TasksInv, ReactInv, StreamInv, CommandInv, WindowInv,          *)
(* MemoryInv), which says more than the properties that follow from it.    *)
(***************************************************************************)
EXTENDS BackgroundTasks, ReactLoop, EventStream, CommandExecution, ContextWindow,
        ThreadMemory, FiniteSetTheorems, SequenceTheorems, TLAPS

(***************************************************************************)
(* BackgroundTasks.  A Run is created by one worker, before anything else  *)
(* of it exists (CreationsComeFirst), and from then on a row in RUNNING    *)
(* has an execution that its handle names (RunningExecutes).  A second     *)
(* signal can stop an execution without a durable end, so it must come     *)
(* after the Run is over (SecondSignals, CancellersFit).                   *)
(***************************************************************************)
TaskStatus == {"absent", "queued", "running", "canceled", "completed", "failed"}

RowStatus == {"none", "RUNNING", "WAITING_APPROVAL", "COMPLETED", "CANCELLED"}

ExecutorPlaces ==
    Live \cup {"idle", "selected", "claimed", "creating", "created", "returned", "settling",
               "failing", "stopped"}

ExecutorType ==
    {e \in [at : ExecutorPlaces, task : TaskId \cup {0}, seen : TaskStatus, row : RowStatus] :
        e.task = 0 => e.at \in {"idle", "stopped"}}

TasksTyped ==
    /\ task \in [TaskId -> TaskStatus]
    /\ taskRun \in [TaskId -> [status : RowStatus, sequence : Nat]]
    /\ executor \in [Thread -> ExecutorType]
    /\ handle \in [TaskId -> Thread \cup {"none"}]
    /\ signalled \subseteq Thread
    /\ canceller \in [TaskId -> [at : {"idle", "load", "save", "signal"}, sequence : Nat]]
    /\ closing \in [at : {"serving", "persisting", "draining", "drained"},
                    snapshot : SUBSET TaskId, pending : SUBSET TaskId]

HandlesExecute ==
    \A t \in TaskId : handle[t] # "none" => executor[handle[t]].at \in Live /\ Of(handle[t]) = t

\* Nothing but its creator is about the Run.
OnlyCreated(t) == handle[t] = "none" /\ \A r \in Resumer : Of(r) # t

CreationsComeFirst ==
    /\ \A t \in TaskId : taskRun[t].status = "none" => OnlyCreated(t)
    /\ \A w \in TaskWorker : executor[w].at = "created" =>
          /\ OnlyCreated(Of(w))
          /\ taskRun[Of(w)].status \in {"RUNNING", "CANCELLED"}
          /\ \A v \in TaskWorker : executor[v].at = "created" /\ Of(v) = Of(w) => v = w

Creating(t) == \E w \in TaskWorker : executor[w].at = "created" /\ Of(w) = t

RunningExecutes ==
    \A t \in TaskId : taskRun[t].status = "RUNNING" =>
        \/ handle[t] # "none" /\ executor[handle[t]].at \in {"executing", "converging"}
        \/ Creating(t)

SecondSignals ==
    \A w \in signalled : executor[w].at = "converging" => Over(taskRun[Of(w)])

CancellersFit ==
    \A t \in TaskId :
        /\ canceller[t].at = "signal" => Over(taskRun[t])
        /\ canceller[t].at = "save" =>
              /\ canceller[t].sequence <= taskRun[t].sequence
              /\ canceller[t].sequence = taskRun[t].sequence => ~Over(taskRun[t])

SnapshotBegan ==
    \A t \in closing.snapshot : taskRun[t].status # "none" /\ ~Creating(t)

TasksInv ==
    /\ TasksTyped /\ ExecutionHasItsHandle /\ HandlesExecute
    /\ CreationsComeFirst /\ RunningExecutes /\ SecondSignals
    /\ CancellersFit /\ SnapshotBegan

(* What a turn of a thread and a save of a row change.                     *)
LEMMA TaskTurn ==
    ASSUME TasksTyped, NEW w \in Thread, NEW e \in ExecutorType, Turn(w, e)
    PROVE  /\ executor' \in [Thread -> ExecutorType] /\ executor'[w] = e
           /\ \A v \in Thread : v # w => executor'[v] = executor[v]
BY DEF TasksTyped, Turn

(* A save of a row bumps its sequence and leaves the other rows alone.     *)
LEMMA TaskRowSaved ==
    ASSUME TasksTyped, NEW t \in TaskId, NEW status \in RowStatus, SaveRow(t, status)
    PROVE  /\ taskRun' \in [TaskId -> [status : RowStatus, sequence : Nat]]
           /\ taskRun'[t].status = status /\ taskRun'[t].sequence = taskRun[t].sequence + 1
           /\ \A u \in TaskId : u # t => taskRun'[u] = taskRun[u]
BY DEF TasksTyped, SaveRow

(* The executors that the actions build are executors.                     *)
LEMMA TaskExecutors ==
    /\ \A at \in ExecutorPlaces, t \in TaskId : Executor(at, t) \in ExecutorType
    /\ \A at \in {"idle", "stopped"} : Executor(at, 0) \in ExecutorType
BY TaskAssumption DEF Executor, ExecutorType, ExecutorPlaces, TaskStatus, RowStatus, TaskId

(* A thread that is busy is busy with a task.                              *)
LEMMA TaskOf ==
    ASSUME TasksTyped, NEW w \in Thread
    PROVE  /\ executor[w].at \in ExecutorPlaces /\ Of(w) \in TaskId \cup {0}
           /\ executor[w].at \notin {"idle", "stopped"} => Of(w) \in TaskId
BY DEF TasksTyped, ExecutorType, Of

(* What a thread does outside of its executions disturbs no part: neither  *)
(* a handle nor a creation depends on it.                                  *)
LEMMA TaskQuietTurn ==
    ASSUME TasksInv, NEW w \in Thread, NEW e \in ExecutorType, Turn(w, e),
           executor[w].at \notin Live, e.at \notin Live,
           w \in TaskWorker => executor[w].at # "created" /\ e.at # "created",
           \/ w \in TaskWorker \/ e.task \in {Of(w), 0}
           \/ e.task \in TaskId /\ taskRun[e.task].status = "WAITING_APPROVAL",
           task' \in [TaskId -> TaskStatus],
           UNCHANGED <<taskRun, handle, signalled, canceller, closing>>
    PROVE  TasksInv'
<1>1. /\ executor' \in [Thread -> ExecutorType] /\ executor'[w] = e
      /\ \A v \in Thread : v # w => executor'[v] = executor[v]
    BY TaskTurn DEF TasksInv
<1>2. TasksTyped'
    BY <1>1 DEF TasksInv, TasksTyped
<1>3. ExecutionHasItsHandle' /\ HandlesExecute'
  <2>1. \A v \in Thread : /\ (executor'[v].at \in Live <=> executor[v].at \in Live)
                           /\ (executor[v].at \in Live => Of(v)' = Of(v))
    BY <1>1 DEF Of
  <2> QED
    BY <2>1 DEF TasksInv, TasksTyped, ExecutionHasItsHandle, HandlesExecute
<1>4. CreationsComeFirst'
  <2>1. \A t \in TaskId : OnlyCreated(t) /\ taskRun[t].status # "WAITING_APPROVAL" => OnlyCreated(t)'
    BY <1>1, TaskAssumption DEF OnlyCreated, Of, Thread, TaskId
  <2>2. \A v \in TaskWorker : executor'[v].at = "created" => executor'[v] = executor[v]
    BY <1>1 DEF Thread
  <2>3. \A v \in TaskWorker : executor[v].at = "created" => Of(v) \in TaskId
    BY TaskOf DEF TasksInv, Thread
  <2> QED
    BY <2>1, <2>2, <2>3 DEF TasksInv, CreationsComeFirst, Of
<1>5. \A t \in TaskId : Creating(t)' <=> Creating(t)
    BY <1>1 DEF Creating, Of, Thread
<1>6. RunningExecutes' /\ SnapshotBegan'
    BY <1>1, <1>5 DEF TasksInv, TasksTyped, RunningExecutes, SnapshotBegan, Live
<1>7. SecondSignals' /\ CancellersFit'
    BY <1>1 DEF TasksInv, TasksTyped, SecondSignals, CancellersFit, Of, Live
<1> QED
    BY <1>2, <1>3, <1>4, <1>6, <1>7 DEF TasksInv

(* Taking a task, and what is written about it afterwards, are turns of    *)
(* that kind: the select and the update of claim_next, the reads and the   *)
(* updates of _worker_loop.                                                *)
LEMMA TaskTableKeeps ==
    ASSUME TasksInv, NEW w \in Thread,
           \/ w \in TaskWorker /\ (SelectTask(w) \/ StopWorker(w))
           \/ MarkRunning(w) \/ CheckCanceled(w) \/ ReadBack(w) \/ SettleTask(w) \/ FailTask(w)
    PROVE  TasksInv'
<1>1. /\ task \in [TaskId -> TaskStatus] /\ executor[w] \in ExecutorType
      /\ \A t \in TaskId : taskRun[t].status \in RowStatus
    BY DEF TasksInv, TasksTyped
<1>2. executor[w].at \notin {"idle", "stopped"} => Of(w) \in TaskId
    BY TaskOf DEF TasksInv
<1>3. CASE w \in TaskWorker /\ SelectTask(w)
  <2>1. PICK t \in TaskId : Turn(w, Executor("selected", t))
    BY <1>3 DEF SelectTask
  <2>2. executor[w].at = "idle" /\ UNCHANGED <<task, taskRun, handle, signalled, canceller, closing>>
    BY <1>3 DEF SelectTask
  <2>3. Executor("selected", t) \in ExecutorType /\ Executor("selected", t).at = "selected"
    BY TaskExecutors DEF ExecutorPlaces, Executor
  <2> QED
    BY <1>1, <1>3, <2>1, <2>2, <2>3, TaskQuietTurn DEF Live
<1>4. CASE w \in TaskWorker /\ StopWorker(w)
  <2>1. /\ executor[w].at = "idle" /\ Turn(w, Executor("stopped", 0))
        /\ UNCHANGED <<task, taskRun, handle, signalled, canceller, closing>>
    BY <1>4 DEF StopWorker
  <2>2. Executor("stopped", 0) \in ExecutorType /\ Executor("stopped", 0).at = "stopped"
    BY TaskExecutors DEF Executor
  <2> QED
    BY <1>1, <1>4, <2>1, <2>2, TaskQuietTurn DEF Live
<1>5. CASE MarkRunning(w)
  <2>1. /\ executor[w].at = "selected" /\ Turn(w, Executor("claimed", Of(w)))
        /\ task' = [task EXCEPT ![Of(w)] = "running"]
        /\ UNCHANGED <<taskRun, handle, signalled, canceller, closing>>
    BY <1>5 DEF MarkRunning
  <2>2. /\ Executor("claimed", Of(w)) \in ExecutorType /\ Executor("claimed", Of(w)).at = "claimed"
        /\ Executor("claimed", Of(w)).task = Of(w)
    BY <1>2, <2>1, TaskExecutors DEF Executor, ExecutorPlaces
  <2>3. task' \in [TaskId -> TaskStatus]
    BY <1>1, <2>1 DEF TaskStatus
  <2> QED
    BY <2>1, <2>2, <2>3, TaskQuietTurn DEF Live
<1>6. CASE CheckCanceled(w)
  <2> DEFINE e == Executor(IF task[Of(w)] = "canceled" THEN "returned" ELSE "creating", Of(w))
  <2>1. /\ executor[w].at = "claimed" /\ Turn(w, e)
        /\ UNCHANGED <<task, taskRun, handle, signalled, canceller, closing>>
    BY <1>6 DEF CheckCanceled
  <2>2. e \in ExecutorType /\ e.at \in {"returned", "creating"} /\ e.task = Of(w)
    BY <1>2, <2>1, TaskExecutors DEF Executor, ExecutorPlaces
  <2> HIDE DEF e
  <2> QED
    BY <1>1, <2>1, <2>2, TaskQuietTurn DEF Live
<1>7. CASE ReadBack(w)
  <2> DEFINE e == [executor[w] EXCEPT !.at = "settling", !.seen = task[Of(w)], !.row = taskRun[Of(w)].status]
  <2>1. /\ executor[w].at = "returned" /\ Turn(w, e)
        /\ UNCHANGED <<task, taskRun, handle, signalled, canceller, closing>>
    BY <1>7 DEF ReadBack
  <2>2. e \in ExecutorType /\ e.at = "settling" /\ e.task = Of(w)
    <3>1. Of(w) \in TaskId /\ executor[w].task = Of(w)
        BY <1>2, <2>1 DEF Of
    <3> DEFINE settling == [executor[w] EXCEPT !.at = "settling"]
               seen     == [settling EXCEPT !.seen = task[Of(w)]]
    <3>2. settling \in ExecutorType /\ settling.at = "settling" /\ settling.task = Of(w)
        BY <1>1, <2>1, <3>1 DEF ExecutorType, ExecutorPlaces, TaskId
    <3>3. e = [seen EXCEPT !.row = taskRun[Of(w)].status]
        OBVIOUS
    <3>4. task[Of(w)] \in TaskStatus /\ taskRun[Of(w)].status \in RowStatus
        BY <1>1, <3>1
    <3> HIDE DEF settling
    <3>5. seen \in ExecutorType /\ seen.at = "settling" /\ seen.task = Of(w)
        BY <3>2, <3>4 DEF ExecutorType
    <3> HIDE DEF seen, e
    <3> QED
        BY <3>3, <3>4, <3>5 DEF ExecutorType
  <2> HIDE DEF e
  <2> QED
    BY <1>1, <2>1, <2>2, TaskQuietTurn DEF Live
<1>8. CASE SettleTask(w) \/ FailTask(w)
  <2>1. /\ executor[w].at \in {"settling", "failing"} /\ Turn(w, Executor("idle", 0))
        /\ UNCHANGED <<taskRun, handle, signalled, canceller, closing>>
        /\ \E status \in TaskStatus : task' = [task EXCEPT ![Of(w)] = status]
    <3>1. executor[w].at \in {"settling", "failing"}
        BY <1>8 DEF SettleTask, FailTask
    <3>2. task[executor[w].task] \in TaskStatus
        BY <1>1, <1>2, <3>1 DEF Of
    <3>3. ReportedStatus(executor[w]) \in TaskStatus
        BY <3>2 DEF ReportedStatus, TaskStatus
    <3> QED
        BY <1>8, <3>1, <3>3 DEF SettleTask, FailTask, RecordError, TaskStatus
  <2>2. /\ Executor("idle", 0) \in ExecutorType /\ Executor("idle", 0).at = "idle"
        /\ Executor("idle", 0).task = 0
    BY TaskExecutors DEF Executor
  <2>3. task' \in [TaskId -> TaskStatus]
    BY <1>1, <2>1
  <2> QED
    BY <2>1, <2>2, <2>3, TaskQuietTurn DEF Live
<1> QED
    BY <1>3, <1>4, <1>5, <1>6, <1>7, <1>8

(* Adding a task and cancelling it write the table alone, and the clients  *)
(* of a Run that is over read it (LoadTaskRun).                            *)
LEMMA TaskClientsKeep ==
    ASSUME TasksInv, NEW t \in TaskId, AddTask(t) \/ CancelTask(t) \/ LoadTaskRun(t)
    PROVE  TasksInv'
<1>1. UNCHANGED <<taskRun, executor, handle, signalled, closing>>
    BY DEF AddTask, CancelTask, LoadTaskRun
<1>2. /\ task' \in [TaskId -> TaskStatus]
      /\ canceller' \in [TaskId -> [at : {"idle", "load", "save", "signal"}, sequence : Nat]]
  <2>1. /\ task \in [TaskId -> TaskStatus] /\ taskRun[t].sequence \in Nat
        /\ canceller \in [TaskId -> [at : {"idle", "load", "save", "signal"}, sequence : Nat]]
    BY DEF TasksInv, TasksTyped
  <2>2. CASE AddTask(t)
    BY <2>1, <2>2 DEF AddTask, TaskStatus
  <2>3. CASE CancelTask(t)
    BY <2>1, <2>3 DEF CancelTask, TaskStatus
  <2>4. CASE LoadTaskRun(t)
    <3>1. PICK at \in {"idle", "save"} :
            canceller' = [canceller EXCEPT ![t] = [at |-> at, sequence |-> taskRun[t].sequence]]
        BY <2>4 DEF LoadTaskRun
    <3> QED
        BY <2>1, <2>4, <3>1 DEF LoadTaskRun
  <2> QED
    BY <2>2, <2>3, <2>4
<1>3. TasksTyped'
    BY <1>1, <1>2 DEF TasksInv, TasksTyped
<1>4. CancellersFit'
  <2>1. CASE AddTask(t)
    BY <2>1 DEF AddTask, TasksInv, CancellersFit
  <2>2. CASE CancelTask(t)
    <3>1. canceller'[t].at = "load" /\ \A u \in TaskId : u # t => canceller'[u] = canceller[u]
        BY <2>2 DEF CancelTask, TasksInv, TasksTyped
    <3> QED
        BY <1>1, <3>1 DEF TasksInv, CancellersFit
  <2>3. CASE LoadTaskRun(t)
    <3>1. /\ canceller'[t].at = IF taskRun[t].status = "none" \/ Over(taskRun[t]) THEN "idle" ELSE "save"
          /\ canceller'[t].sequence = taskRun[t].sequence
          /\ \A u \in TaskId : u # t => canceller'[u] = canceller[u]
        BY <2>3 DEF LoadTaskRun, TasksInv, TasksTyped
    <3>2. taskRun[t].sequence \in Nat
        BY DEF TasksInv, TasksTyped
    <3> QED
        BY <1>1, <3>1, <3>2 DEF TasksInv, CancellersFit
  <2> QED
    BY <2>1, <2>2, <2>3
<1> QED
    BY <1>1, <1>3, <1>4
    DEF TasksInv, ExecutionHasItsHandle, HandlesExecute, CreationsComeFirst, OnlyCreated, Creating,
        RunningExecutes, SecondSignals, SnapshotBegan, Of

(* The handle of a Run that somebody executes is the one of its thread.    *)
LEMMA TaskExecution ==
    ASSUME TasksInv, NEW w \in Thread, executor[w].at \in Live
    PROVE  /\ Of(w) \in TaskId /\ handle[Of(w)] = w /\ w # "none"
           /\ taskRun[Of(w)].status # "none" /\ ~Creating(Of(w))
           /\ executor[w].at \notin {"executing", "converging"} => taskRun[Of(w)].status # "RUNNING"
           /\ \A v \in Thread : v # w /\ executor[v].at \in Live => Of(v) # Of(w)
<1>1. Of(w) \in TaskId
    BY TaskOf DEF TasksInv, Live
<1>2. handle[Of(w)] = w /\ w # "none" /\ \A v \in Thread : v # w /\ executor[v].at \in Live => Of(v) # Of(w)
    BY TaskAssumption DEF TasksInv, ExecutionHasItsHandle, Thread
<1>3. taskRun[Of(w)].status # "none" /\ ~Creating(Of(w))
    BY <1>1, <1>2 DEF TasksInv, CreationsComeFirst, OnlyCreated, Creating
<1> QED
    BY <1>1, <1>2, <1>3 DEF TasksInv, RunningExecutes

\* A row that is over is not written again.
LeavesFinished == \A t \in TaskId : Over(taskRun[t]) => taskRun'[t] = taskRun[t]

(* A step of a live execution keeps its handle and, unless the row waits   *)
(* or is over, leaves it executing.                                        *)
LEMMA TaskExecutes ==
    ASSUME TasksInv, NEW w \in Thread, NEW e \in ExecutorType, Turn(w, e),
           executor[w].at \in Live, e.at \in Live, e.task = Of(w),
           \/ UNCHANGED taskRun
           \/ /\ ~Over(taskRun[Of(w)])
              /\ \E status \in RowStatus \ {"none"} : SaveRow(Of(w), status),
           signalled' \subseteq signalled,
           taskRun'[Of(w)].status = "RUNNING" => e.at \in {"executing", "converging"},
           e.at = "converging" /\ w \in signalled' => Over(taskRun'[Of(w)]),
           UNCHANGED <<task, handle, canceller, closing>>
    PROVE  TasksInv' /\ LeavesFinished
<1> DEFINE t == Of(w)
<1>1. /\ executor' \in [Thread -> ExecutorType] /\ executor'[w] = e
      /\ \A v \in Thread : v # w => executor'[v] = executor[v]
    BY TaskTurn DEF TasksInv
<1>2. /\ t \in TaskId /\ handle[t] = w /\ w # "none"
      /\ taskRun[t].status # "none" /\ ~Creating(t)
      /\ \A v \in Thread : v # w /\ executor[v].at \in Live => Of(v) # t
    BY TaskExecution
<1>3. /\ taskRun' \in [TaskId -> [status : RowStatus, sequence : Nat]]
      /\ \A u \in TaskId : u # t => taskRun'[u] = taskRun[u]
      /\ taskRun'[t].status # "none"
      /\ \/ taskRun'[t] = taskRun[t]
         \/ ~Over(taskRun[t]) /\ taskRun'[t].sequence = taskRun[t].sequence + 1
  <2>1. CASE UNCHANGED taskRun
    BY <1>2, <2>1 DEF TasksInv, TasksTyped
  <2>2. CASE ~Over(taskRun[t]) /\ \E status \in RowStatus \ {"none"} : SaveRow(t, status)
    BY <1>2, <2>2, TaskRowSaved DEF TasksInv
  <2> QED
    BY <2>1, <2>2
<1> HIDE DEF t
<1>4. LeavesFinished
    BY <1>3 DEF LeavesFinished
<1>5. TasksTyped'
    BY <1>1, <1>3 DEF TasksInv, TasksTyped
<1>6. \A v \in Thread : Of(v)' = Of(v)
    BY <1>1 DEF Of
<1>7. ExecutionHasItsHandle' /\ HandlesExecute'
  <2>1. \A v \in Thread : executor'[v].at \in Live <=> executor[v].at \in Live
    BY <1>1
  <2> QED
    BY <1>6, <2>1, TaskAssumption DEF TasksInv, TasksTyped, ExecutionHasItsHandle, HandlesExecute, Thread
<1>8. \A v \in Thread : executor[v].at = "created" <=> executor'[v].at = "created"
    BY <1>1 DEF Live
<1>9. \A u \in TaskId : Creating(u)' <=> Creating(u)
    BY <1>6, <1>8 DEF Creating, Thread
<1>10. CreationsComeFirst'
  <2>1. \A u \in TaskId : OnlyCreated(u)' <=> OnlyCreated(u)
    BY <1>6 DEF OnlyCreated, Thread
  <2>2. \A u \in TaskId : taskRun'[u].status = "none" => OnlyCreated(u)'
    BY <1>3, <2>1 DEF TasksInv, CreationsComeFirst
  <2>3. \A v \in TaskWorker : executor'[v].at = "created" =>
            /\ OnlyCreated(Of(v))'
            /\ taskRun'[Of(v)].status \in {"RUNNING", "CANCELLED"}
            /\ \A x \in TaskWorker : executor'[x].at = "created" /\ Of(x) = Of(v) => x = v
    <3> SUFFICES ASSUME NEW v \in TaskWorker, executor'[v].at = "created"
                 PROVE  /\ OnlyCreated(Of(v))'
                        /\ taskRun'[Of(v)].status \in {"RUNNING", "CANCELLED"}
                        /\ \A x \in TaskWorker : executor'[x].at = "created" /\ Of(x) = Of(v) => x = v
        OBVIOUS
    <3>1. executor[v].at = "created" /\ Of(v) \in TaskId /\ Of(v)' = Of(v)
        BY <1>6, <1>8, TaskOf DEF TasksInv, Thread
    <3>2. Of(v) # t
        BY <1>2, <3>1 DEF Creating
    <3> QED
        BY <1>3, <1>8, <2>1, <3>1, <3>2 DEF TasksInv, CreationsComeFirst, Thread
  <2> QED
    BY <1>6, <2>2, <2>3 DEF CreationsComeFirst, Thread
<1>11. RunningExecutes'
  <2> SUFFICES ASSUME NEW u \in TaskId, taskRun'[u].status = "RUNNING"
               PROVE  \/ handle[u] # "none" /\ executor'[handle[u]].at \in {"executing", "converging"}
                      \/ Creating(u)'
    BY DEF RunningExecutes
  <2>1. CASE u = t
    BY <1>1, <1>2, <2>1 DEF t
  <2>2. CASE u # t
    <3>1. handle[u] # w
        BY <1>2, <2>2 DEF TasksInv, HandlesExecute, t
    <3>2. handle[u] \in Thread \cup {"none"}
        BY DEF TasksInv, TasksTyped
    <3> QED
        BY <1>1, <1>3, <1>9, <2>2, <3>1, <3>2 DEF TasksInv, RunningExecutes
  <2> QED
    BY <2>1, <2>2
<1>12. SecondSignals'
  <2> SUFFICES ASSUME NEW v \in signalled', executor'[v].at = "converging"
               PROVE  Over(taskRun'[Of(v)'])
    BY DEF SecondSignals, Over
  <2>1. CASE v = w
    BY <1>1, <1>6, <2>1 DEF Over
  <2>2. CASE v # w
    <3>1. v \in Thread /\ v \in signalled /\ executor'[v] = executor[v] /\ Of(v)' = Of(v)
        BY <1>1, <1>6, <2>2 DEF TasksInv, TasksTyped
    <3>2. Of(v) \in TaskId /\ Of(v) # t
        BY <1>2, <2>2, <3>1, TaskOf DEF TasksInv, Live
    <3> QED
        BY <1>3, <3>1, <3>2 DEF TasksInv, SecondSignals
  <2> QED
    BY <2>1, <2>2
<1>13. CancellersFit'
  <2>1. \A u \in TaskId : canceller[u].sequence \in Nat /\ taskRun[u].sequence \in Nat
    BY DEF TasksInv, TasksTyped
  <2>2. \A u \in TaskId : \/ taskRun'[u] = taskRun[u]
                          \/ ~Over(taskRun[u]) /\ taskRun'[u].sequence = taskRun[u].sequence + 1
    BY <1>3
  <2> QED
    BY <2>1, <2>2 DEF TasksInv, CancellersFit
<1>14. SnapshotBegan'
  <2>1. closing.snapshot \subseteq TaskId
    BY DEF TasksInv, TasksTyped
  <2> QED
    BY <1>3, <1>9, <2>1 DEF TasksInv, SnapshotBegan
<1> QED
    BY <1>4, <1>5, <1>7, <1>10, <1>11, <1>12, <1>13, <1>14 DEF TasksInv

(* The steps of a supervised execution: the resume of a Run that waits, a  *)
(* checkpoint, meeting the cancelled row, and the signal with what it      *)
(* writes (_supervise, _converge_cancelled).                               *)
LEMMA TaskExecutionKeeps ==
    ASSUME TasksInv, NEW w \in Thread,
           \/ ResumeTaskRun(w) \/ SaveStep(w) \/ MeetCancelledRow(w)
           \/ ReceiveSignal(w) \/ ConvergeCancelled(w)
    PROVE  TasksInv' /\ LeavesFinished
<1> DEFINE t == Of(w)
<1>1. executor[w].at \in {"resuming", "executing", "converging"}
    BY DEF ResumeTaskRun, SaveStep, MeetCancelledRow, ReceiveSignal, ConvergeCancelled
<1>2. /\ t \in TaskId /\ taskRun[t].status # "none"
      /\ executor[w].at = "resuming" => taskRun[t].status # "RUNNING"
    BY <1>1, TaskExecution DEF Live
<1>3. taskRun \in [TaskId -> [status : RowStatus, sequence : Nat]]
    BY DEF TasksInv, TasksTyped
<1>4. \A at \in Live : /\ Executor(at, t) \in ExecutorType /\ Executor(at, t).at = at
                        /\ Executor(at, t).task = t
    BY <1>2, TaskExecutors DEF Executor, ExecutorPlaces
<1>5. ASSUME NEW at \in Live, NEW status \in RowStatus \ {"none"}, ~Over(taskRun[t]), SaveRow(t, status),
             status = "RUNNING" => at = "executing", at # "converging",
             Turn(w, Executor(at, t)), UNCHANGED <<task, handle, signalled, canceller, closing>>
      PROVE  TasksInv' /\ LeavesFinished
  <2>1. taskRun'[t].status = status
    BY <1>2, <1>5, TaskRowSaved DEF TasksInv
  <2> QED
    BY <1>1, <1>4, <1>5, <2>1, TaskExecutes DEF Live
<1>6. ASSUME NEW at \in Live, UNCHANGED taskRun, taskRun[t].status # "RUNNING" \/ at = "converging",
             signalled' \subseteq signalled, at = "converging" => w \notin signalled',
             Turn(w, Executor(at, t)), UNCHANGED <<task, handle, canceller, closing>>
      PROVE  TasksInv' /\ LeavesFinished
  <2>1. taskRun'[t].status = "RUNNING" => at \in {"executing", "converging"}
    BY <1>6
  <2> QED
    BY <1>1, <1>4, <1>6, <2>1, TaskExecutes DEF Live
<1>7. CASE ResumeTaskRun(w)
  <2>1. UNCHANGED <<task, handle, signalled, canceller, closing>> /\ executor[w].at = "resuming"
    BY <1>7 DEF ResumeTaskRun
  <2>2. CASE taskRun[t].status = "WAITING_APPROVAL"
    <3>1. SaveRow(t, "RUNNING") /\ Turn(w, Executor("executing", t))
        BY <1>7, <2>2 DEF ResumeTaskRun
    <3>2. ~Over(taskRun[t])
        BY <2>2 DEF Over
    <3> QED
        BY <1>5, <2>1, <3>1, <3>2 DEF Live, RowStatus
  <2>3. CASE taskRun[t].status # "WAITING_APPROVAL"
    <3>1. UNCHANGED taskRun /\ Turn(w, Executor("leaving", t))
        BY <1>7, <2>3 DEF ResumeTaskRun
    <3> QED
        BY <1>2, <1>6, <2>1, <3>1 DEF Live
  <2> QED
    BY <2>2, <2>3
<1>8. CASE SaveStep(w)
  <2>1. /\ UNCHANGED <<task, handle, signalled, canceller, closing>>
        /\ executor[w].at = "executing" /\ taskRun[t].status = "RUNNING"
    BY <1>8 DEF SaveStep
  <2>2. PICK status \in {"RUNNING", "COMPLETED", "WAITING_APPROVAL"} :
            /\ SaveRow(t, status)
            /\ Turn(w, Executor(IF status = "RUNNING" THEN "executing" ELSE "leaving", t))
    BY <1>8 DEF SaveStep
  <2>3. ~Over(taskRun[t]) /\ status \in RowStatus \ {"none"}
    BY <2>1 DEF Over, RowStatus
  <2>4. CASE status = "RUNNING"
    BY <1>5, <2>1, <2>2, <2>3, <2>4 DEF Live
  <2>5. CASE status # "RUNNING"
    BY <1>5, <2>1, <2>2, <2>3, <2>5 DEF Live
  <2> QED
    BY <2>4, <2>5
<1>9. CASE MeetCancelledRow(w)
  <2>1. /\ taskRun[t].status = "CANCELLED" /\ Turn(w, Executor("leaving", t))
        /\ UNCHANGED <<task, taskRun, handle, signalled, canceller, closing>>
    BY <1>9 DEF MeetCancelledRow
  <2> QED
    BY <1>6, <2>1 DEF Live
<1>10. CASE ReceiveSignal(w)
  <2>1. /\ signalled' = signalled \ {w} /\ Turn(w, Executor("converging", t))
        /\ UNCHANGED <<task, taskRun, handle, canceller, closing>>
    BY <1>10 DEF ReceiveSignal
  <2> QED
    BY <1>6, <2>1 DEF Live
<1>11. CASE ConvergeCancelled(w)
  <2>1. /\ CancelUnlessOver(t) /\ Turn(w, Executor("leaving", t))
        /\ UNCHANGED <<task, handle, signalled, canceller, closing>>
    BY <1>11 DEF ConvergeCancelled
  <2>2. CASE Over(taskRun[t])
    <3>1. UNCHANGED taskRun /\ taskRun[t].status # "RUNNING"
        BY <2>1, <2>2 DEF CancelUnlessOver, Over
    <3> QED
        BY <1>6, <2>1, <3>1 DEF Live
  <2>3. CASE ~Over(taskRun[t])
    <3>1. SaveRow(t, "CANCELLED")
        BY <2>1, <2>3 DEF CancelUnlessOver
    <3> QED
        BY <1>5, <2>1, <2>3, <3>1 DEF Live, RowStatus
  <2> QED
    BY <2>2, <2>3
<1> QED
    BY <1>7, <1>8, <1>9, <1>10, <1>11

(* A worker creates the Run when there is none, and is then the only one   *)
(* that is about it; a second start is refused (start).                    *)
LEMMA TaskCreates ==
    ASSUME TasksInv, NEW w \in Thread, CreateTaskRun(w)
    PROVE  TasksInv' /\ LeavesFinished
<1> DEFINE t == Of(w)
<1>1. executor[w].at = "creating" /\ UNCHANGED <<task, handle, signalled, canceller, closing>>
    BY DEF CreateTaskRun
<1>2. t \in TaskId
    BY <1>1, TaskOf DEF TasksInv
<1>3. \A at \in {"created", "failing"} : /\ Executor(at, t) \in ExecutorType /\ Executor(at, t).at = at
                                        /\ Executor(at, t).task = t
    BY <1>2, TaskExecutors DEF Executor, ExecutorPlaces
<1>4. CASE ~MayStart(t)
  <2>1. UNCHANGED taskRun /\ Turn(w, Executor("failing", t))
    BY <1>4 DEF CreateTaskRun
  <2>2. task' \in [TaskId -> TaskStatus] /\ LeavesFinished
    BY <1>1, <2>1 DEF TasksInv, TasksTyped, LeavesFinished
  <2> QED
    BY <1>1, <1>3, <2>1, <2>2, TaskQuietTurn DEF Live
<1>5. CASE MayStart(t)
  <2>1. SaveRow(t, "RUNNING") /\ Turn(w, Executor("created", t)) /\ taskRun[t].status = "none"
    BY <1>5 DEF CreateTaskRun, MayStart
  <2>2. /\ executor' \in [Thread -> ExecutorType] /\ executor'[w] = Executor("created", t)
        /\ \A v \in Thread : v # w => executor'[v] = executor[v]
    BY <1>3, <2>1, TaskTurn DEF TasksInv
  <2>3. /\ taskRun' \in [TaskId -> [status : RowStatus, sequence : Nat]]
        /\ taskRun'[t].status = "RUNNING" /\ taskRun'[t].sequence = taskRun[t].sequence + 1
        /\ \A u \in TaskId : u # t => taskRun'[u] = taskRun[u]
    BY <1>2, <2>1, TaskRowSaved DEF TasksInv, RowStatus
  <2>4. OnlyCreated(t) /\ ~Creating(t) /\ ~Over(taskRun[t])
    BY <1>2, <2>1 DEF TasksInv, CreationsComeFirst, Creating, Over
  <2>5. w \in TaskWorker
    BY <2>4 DEF OnlyCreated, Thread
  <2>6. \A v \in Thread : Of(v)' = Of(v)
    BY <1>3, <2>2 DEF Of
  <2>7. \A v \in Thread : executor'[v].at \in Live <=> executor[v].at \in Live
    BY <1>1, <1>3, <2>2 DEF Live
  <2>8. \A u \in TaskId : (OnlyCreated(u)' <=> OnlyCreated(u)) /\ (u # t => (Creating(u)' <=> Creating(u)))
    BY <1>1, <1>3, <2>2, <2>6 DEF OnlyCreated, Creating, Thread
  <2>9. \A u \in TaskId : u = t => Creating(u)'
    BY <1>3, <2>2, <2>5, <2>6 DEF Creating
  <2> HIDE DEF t
  <2>10. LeavesFinished
    BY <2>3, <2>4 DEF LeavesFinished
  <2>11. TasksTyped'
    BY <1>1, <2>2, <2>3 DEF TasksInv, TasksTyped
  <2>12. ExecutionHasItsHandle' /\ HandlesExecute'
    BY <1>1, <2>6, <2>7 DEF TasksInv, TasksTyped, ExecutionHasItsHandle, HandlesExecute
  <2>13. CreationsComeFirst'
    <3>1. \A u \in TaskId : taskRun'[u].status = "none" => OnlyCreated(u)'
        BY <2>3, <2>8 DEF TasksInv, CreationsComeFirst
    <3>2. ASSUME NEW v \in TaskWorker, executor'[v].at = "created"
          PROVE  /\ OnlyCreated(Of(v))' /\ taskRun'[Of(v)].status \in {"RUNNING", "CANCELLED"}
                 /\ \A x \in TaskWorker : executor'[x].at = "created" /\ Of(x) = Of(v) => x = v
      <4>1. CASE v = w
        BY <1>2, <2>2, <2>3, <2>4, <2>6, <2>8, <4>1 DEF Creating, t, Thread
      <4>2. CASE v # w
        <5>1. executor[v].at = "created" /\ Of(v) \in TaskId /\ Of(v)' = Of(v)
            BY <2>2, <2>6, <3>2, <4>2, TaskOf DEF TasksInv, Thread
        <5>2. Of(v) # t
            BY <2>4, <5>1 DEF Creating
        <5> QED
            BY <2>2, <2>3, <2>8, <5>1, <5>2 DEF TasksInv, CreationsComeFirst, Thread, t
      <4> QED
        BY <4>1, <4>2
    <3> QED
        BY <2>6, <3>1, <3>2 DEF CreationsComeFirst, Thread
  <2>14. RunningExecutes'
    <3> SUFFICES ASSUME NEW u \in TaskId, taskRun'[u].status = "RUNNING"
                 PROVE  \/ handle[u] # "none" /\ executor'[handle[u]].at \in {"executing", "converging"}
                        \/ Creating(u)'
        BY <1>1 DEF RunningExecutes
    <3>1. handle[u] \in Thread \cup {"none"}
        BY DEF TasksInv, TasksTyped
    <3>2. CASE u # t
        BY <1>1, <2>2, <2>3, <2>8, <3>1, <3>2 DEF TasksInv, RunningExecutes
    <3> QED
        BY <2>9, <3>2
  <2>15. SecondSignals'
    <3> SUFFICES ASSUME NEW v \in signalled, executor'[v].at = "converging"
                 PROVE  Over(taskRun'[Of(v)'])
        BY <1>1 DEF SecondSignals, Over
    <3>1. v \in Thread /\ v # w /\ executor'[v] = executor[v] /\ Of(v)' = Of(v)
        BY <1>3, <2>2, <2>6 DEF TasksInv, TasksTyped, t
    <3>2. Of(v) \in TaskId /\ Over(taskRun[Of(v)])
        BY <3>1, TaskOf DEF TasksInv, SecondSignals
    <3> QED
        BY <2>3, <2>4, <3>1, <3>2 DEF Over
  <2>16. CancellersFit'
    <3>1. \A u \in TaskId : canceller[u].sequence \in Nat /\ taskRun[u].sequence \in Nat
        BY DEF TasksInv, TasksTyped
    <3>2. canceller'[t].at # "signal" /\ taskRun'[t].sequence > taskRun[t].sequence
        BY <1>1, <1>2, <2>3, <2>4, <3>1 DEF TasksInv, CancellersFit
    <3> QED
        BY <1>1, <2>3, <3>1, <3>2 DEF TasksInv, CancellersFit
  <2>17. SnapshotBegan'
    <3>1. closing.snapshot \subseteq TaskId /\ t \notin closing.snapshot
        BY <2>1 DEF TasksInv, TasksTyped, SnapshotBegan, t
    <3> QED
        BY <1>1, <2>3, <2>8, <3>1 DEF TasksInv, SnapshotBegan
  <2> QED
    BY <2>10, <2>11, <2>12, <2>13, <2>14, <2>15, <2>16, <2>17 DEF TasksInv
<1> QED
    BY <1>4, <1>5

(* An execution registers its handle where there is none, and a request    *)
(* that resumes a waiting Run starts as one that is about it (register).   *)
LEMMA TaskRegisters ==
    ASSUME TasksInv, NEW w \in Thread, RegisterHandle(w)
    PROVE  TasksInv' /\ LeavesFinished
<1>1. /\ executor[w].at = "created" /\ Of(w) \in TaskId
      /\ UNCHANGED <<task, taskRun, signalled, canceller, closing>>
    BY TaskOf DEF RegisterHandle, TasksInv
<1>2. LeavesFinished /\ task' \in [TaskId -> TaskStatus]
    BY <1>1 DEF LeavesFinished, TasksInv, TasksTyped
<1>3. w \in TaskWorker => OnlyCreated(Of(w)) /\ taskRun[Of(w)].status \in {"RUNNING", "CANCELLED"}
    BY <1>1 DEF TasksInv, CreationsComeFirst
<1>4. CASE ~NoLiveHandle(Of(w))
  <2>1. w \in Resumer /\ w \notin TaskWorker
    BY <1>3, <1>4 DEF NoLiveHandle, OnlyCreated, Thread
  <2>2. UNCHANGED handle /\ Turn(w, Executor("idle", 0))
    BY <1>4, <2>1 DEF RegisterHandle
  <2>3. Executor("idle", 0) \in ExecutorType /\ Executor("idle", 0).at = "idle" /\ Executor("idle", 0).task = 0
    BY TaskExecutors DEF Executor
  <2> QED
    BY <1>1, <1>2, <2>1, <2>2, <2>3, TaskQuietTurn DEF Live
<1>5. CASE NoLiveHandle(Of(w))
  <2> DEFINE e == Executor(IF w \in Resumer THEN "resuming" ELSE "executing", Of(w))
  <2>1. handle' = [handle EXCEPT ![Of(w)] = w] /\ Turn(w, e) /\ handle[Of(w)] = "none"
    BY <1>5 DEF RegisterHandle, NoLiveHandle
  <2>2. e \in ExecutorType /\ e.at = (IF w \in Resumer THEN "resuming" ELSE "executing") /\ e.task = Of(w)
    BY <1>1, TaskExecutors DEF Executor, ExecutorPlaces, Live
  <2> HIDE DEF e
  <2>3. /\ executor' \in [Thread -> ExecutorType] /\ executor'[w] = e
        /\ \A v \in Thread : v # w => executor'[v] = executor[v]
    BY <2>1, <2>2, TaskTurn DEF TasksInv
  <2>4. /\ handle' \in [TaskId -> Thread \cup {"none"}] /\ handle'[Of(w)] = w
        /\ \A u \in TaskId : u # Of(w) => handle'[u] = handle[u]
    BY <1>1, <2>1 DEF TasksInv, TasksTyped
  <2>5. \A v \in Thread : Of(v)' = Of(v)
    BY <2>2, <2>3 DEF Of
  <2>6. \A v \in Thread : executor[v].at \in Live => v # w /\ Of(v) # Of(w) /\ Of(v) \in TaskId
    <3> SUFFICES ASSUME NEW v \in Thread, executor[v].at \in Live
                 PROVE  v # w /\ Of(v) # Of(w) /\ Of(v) \in TaskId
        OBVIOUS
    <3> QED
        BY <1>1, <2>1, TaskExecution DEF Live
  <2>7. w # "none"
    BY TaskAssumption DEF Thread
  <2>8. \A u \in TaskId : u # Of(w) => (Creating(u)' <=> Creating(u))
    BY <1>1, <2>2, <2>3, <2>5 DEF Creating, Thread
  <2>9. TasksTyped'
    BY <1>1, <2>3, <2>4 DEF TasksInv, TasksTyped
  <2>10. ExecutionHasItsHandle'
    <3> SUFFICES ASSUME NEW v \in Thread, executor'[v].at \in Live PROVE handle'[Of(v)'] = v
        BY DEF ExecutionHasItsHandle, Of
    <3>1. CASE v = w
        BY <2>4, <2>5, <3>1
    <3>2. CASE v # w
        BY <2>3, <2>4, <2>5, <2>6, <3>2 DEF TasksInv, ExecutionHasItsHandle
    <3> QED
        BY <3>1, <3>2
  <2>11. HandlesExecute'
    <3> SUFFICES ASSUME NEW u \in TaskId, handle'[u] # "none"
                 PROVE  executor'[handle'[u]].at \in Live /\ executor'[handle'[u]].task = u
        BY DEF HandlesExecute, Of
    <3>1. CASE u = Of(w)
        BY <2>2, <2>3, <2>4, <2>5, <3>1 DEF Live
    <3>2. CASE u # Of(w)
      <4>1. handle'[u] = handle[u] /\ handle[u] \in Thread
        BY <2>4, <3>2 DEF TasksInv, TasksTyped
      <4>2. executor[handle[u]].at \in Live /\ Of(handle[u]) = u
        BY <4>1 DEF TasksInv, HandlesExecute
      <4>3. executor'[handle[u]] = executor[handle[u]]
        BY <2>3, <2>6, <4>1, <4>2
      <4> QED
        BY <4>1, <4>2, <4>3 DEF Of
    <3> QED
        BY <3>1, <3>2
  <2>12. CreationsComeFirst'
    <3>1. \A u \in TaskId : u # Of(w) => (OnlyCreated(u)' <=> OnlyCreated(u))
        BY <2>4, <2>5 DEF OnlyCreated, Thread
    <3>2. taskRun[Of(w)].status # "none"
        BY <1>1, <1>3 DEF TasksInv, CreationsComeFirst, OnlyCreated, Thread
    <3>3. \A u \in TaskId : taskRun'[u].status = "none" => OnlyCreated(u)'
        BY <1>1, <3>1, <3>2 DEF TasksInv, CreationsComeFirst
    <3>4. ASSUME NEW v \in TaskWorker, executor'[v].at = "created"
          PROVE  /\ OnlyCreated(Of(v))' /\ taskRun'[Of(v)].status \in {"RUNNING", "CANCELLED"}
                 /\ \A x \in TaskWorker : executor'[x].at = "created" /\ Of(x) = Of(v) => x = v
      <4>1. v # w /\ executor[v].at = "created"
        BY <2>2, <2>3, <3>4 DEF Thread
      <4>2. Of(v) \in TaskId /\ OnlyCreated(Of(v)) /\ taskRun[Of(v)].status \in {"RUNNING", "CANCELLED"}
        BY <4>1, TaskOf DEF TasksInv, CreationsComeFirst, Thread
      <4>3. Of(v) # Of(w)
        <5>1. CASE w \in TaskWorker
            BY <1>1, <4>1, <5>1 DEF TasksInv, CreationsComeFirst
        <5>2. CASE w \in Resumer
            BY <4>2, <5>2 DEF OnlyCreated
        <5> QED
            BY <5>1, <5>2 DEF Thread
      <4>4. \A x \in TaskWorker : executor'[x].at = "created" /\ Of(x) = Of(v) => x = v
        <5>1. \A x \in TaskWorker : executor'[x].at = "created" => executor[x].at = "created"
            BY <2>2, <2>3 DEF Thread
        <5> QED
            BY <4>1, <5>1 DEF TasksInv, CreationsComeFirst
      <4>5. Of(v)' = Of(v)
        BY <2>5 DEF Thread
      <4> QED
        BY <1>1, <3>1, <4>2, <4>3, <4>4, <4>5
    <3> QED
        BY <2>5, <3>3, <3>4 DEF CreationsComeFirst, Thread
  <2>13. RunningExecutes'
    <3> SUFFICES ASSUME NEW u \in TaskId, taskRun[u].status = "RUNNING"
                 PROVE  \/ handle'[u] # "none" /\ executor'[handle'[u]].at \in {"executing", "converging"}
                        \/ Creating(u)'
        BY <1>1 DEF RunningExecutes
    <3>1. CASE u = Of(w)
      <4>1. w \notin Resumer
        BY <2>1, <3>1 DEF TasksInv, RunningExecutes, CreationsComeFirst, Creating, OnlyCreated
      <4> QED
        BY <2>2, <2>3, <2>4, <2>7, <3>1, <4>1
    <3>2. CASE u # Of(w)
      <4>1. handle'[u] = handle[u] /\ handle[u] \in Thread \cup {"none"}
        BY <2>4, <3>2 DEF TasksInv, TasksTyped
      <4>2. handle[u] # "none" => executor'[handle[u]] = executor[handle[u]]
        BY <2>3, <2>6, <4>1 DEF TasksInv, HandlesExecute
      <4> QED
        BY <2>8, <3>2, <4>1, <4>2 DEF TasksInv, RunningExecutes
    <3> QED
        BY <3>1, <3>2
  <2>14. SecondSignals' /\ CancellersFit'
    <3>1. \A v \in signalled : executor'[v].at = "converging" => executor[v].at = "converging"
        BY <2>2, <2>3 DEF TasksInv, TasksTyped
    <3>2. SecondSignals'
        BY <1>1, <2>5, <3>1 DEF TasksInv, TasksTyped, SecondSignals, Over
    <3> QED
        BY <1>1, <3>2 DEF TasksInv, CancellersFit, Over
  <2>15. SnapshotBegan'
    <3>1. closing.snapshot \subseteq TaskId
        BY DEF TasksInv, TasksTyped
    <3>2. \A u \in TaskId : Creating(u)' => Creating(u)
        BY <2>2, <2>3, <2>5 DEF Creating, Thread
    <3> QED
        BY <1>1, <3>1, <3>2 DEF TasksInv, SnapshotBegan
  <2> QED
    BY <1>2, <2>9, <2>10, <2>11, <2>12, <2>13, <2>14, <2>15 DEF TasksInv
<1> QED
    BY <1>4, <1>5

(* A request to resume a task changes nothing but its own thread.          *)
LEMMA TaskResumes ==
    ASSUME TasksInv, NEW r \in Resumer, RequestResume(r)
    PROVE  TasksInv' /\ LeavesFinished
<1>1. executor[r].at = "idle" /\ UNCHANGED <<task, taskRun, handle, signalled, canceller, closing>>
    BY DEF RequestResume
<1>2. PICK t \in TaskId : taskRun[t].status = "WAITING_APPROVAL" /\ Turn(r, Executor("created", t))
    BY DEF RequestResume
<1>3. /\ Executor("created", t) \in ExecutorType /\ Executor("created", t).at = "created"
      /\ Executor("created", t).task = t
    BY TaskExecutors DEF Executor, ExecutorPlaces
<1>4. r \in Thread /\ r \notin TaskWorker /\ LeavesFinished /\ task' \in [TaskId -> TaskStatus]
    BY <1>1, TaskAssumption DEF Thread, LeavesFinished, TasksInv, TasksTyped
<1> QED
    BY <1>1, <1>2, <1>3, <1>4, TaskQuietTurn DEF Live

(* An execution leaves with a row that is not RUNNING: its own last save,  *)
(* or what was saved before the second of two signals (_supervise).        *)
LEMMA TaskLeaves ==
    ASSUME TasksInv, NEW w \in Thread, LeaveSupervise(w) \/ SignalledTwice(w)
    PROVE  TasksInv' /\ LeavesFinished
<1>1. /\ executor[w].at \in Live /\ Unregister(w) /\ signalled' = signalled \ {w}
      /\ UNCHANGED <<task, taskRun, canceller, closing>>
    BY DEF LeaveSupervise, SignalledTwice, Live
<1>2. /\ Of(w) \in TaskId /\ handle[Of(w)] = w /\ w # "none"
      /\ taskRun[Of(w)].status # "none" /\ ~Creating(Of(w))
      /\ \A v \in Thread : v # w /\ executor[v].at \in Live => Of(v) # Of(w)
    BY <1>1, TaskExecution
<1>3. taskRun[Of(w)].status # "RUNNING"
  <2>1. CASE LeaveSupervise(w)
    BY <1>1, <2>1, TaskExecution DEF LeaveSupervise
  <2>2. CASE SignalledTwice(w)
    BY <2>2 DEF SignalledTwice, TasksInv, SecondSignals, Over
  <2> QED
    BY <2>1, <2>2
<1>4. PICK e \in ExecutorType : Turn(w, e) /\ e.at \in {"returned", "idle", "stopped"} /\ e.task \in {Of(w), 0}
  <2>1. /\ Executor("returned", Of(w)) \in ExecutorType
        /\ Executor("idle", 0) \in ExecutorType /\ Executor("stopped", 0) \in ExecutorType
    BY <1>2, TaskExecutors DEF ExecutorPlaces
  <2> QED
    BY <2>1 DEF LeaveSupervise, SignalledTwice, Return, Executor
<1>5. /\ executor' \in [Thread -> ExecutorType] /\ executor'[w] = e
      /\ \A v \in Thread : v # w => executor'[v] = executor[v]
    BY <1>4, TaskTurn DEF TasksInv
<1>6. /\ handle' \in [TaskId -> Thread \cup {"none"}] /\ handle'[Of(w)] = "none"
      /\ \A u \in TaskId : u # Of(w) => handle'[u] = handle[u]
    BY <1>1, <1>2 DEF Unregister, TasksInv, TasksTyped
<1>7. \A u \in TaskId : u # Of(w) => handle[u] # w
    BY <1>2 DEF TasksInv, HandlesExecute
<1>8. TasksTyped'
    BY <1>1, <1>5, <1>6 DEF TasksInv, TasksTyped
<1>9. ExecutionHasItsHandle'
  <2> SUFFICES ASSUME NEW v \in Thread, executor'[v].at \in Live PROVE handle'[executor'[v].task] = v
    BY DEF ExecutionHasItsHandle, Of
  <2>1. v # w
    BY <1>4, <1>5 DEF Live
  <2>2. executor'[v] = executor[v] /\ Of(v) # Of(w) /\ Of(v) \in TaskId
    BY <1>2, <1>5, <2>1, TaskExecution
  <2> QED
    BY <1>6, <2>2 DEF TasksInv, ExecutionHasItsHandle, Of
<1>10. HandlesExecute'
  <2> SUFFICES ASSUME NEW u \in TaskId, handle'[u] # "none"
               PROVE  executor'[handle'[u]].at \in Live /\ executor'[handle'[u]].task = u
    BY DEF HandlesExecute, Of
  <2>1. u # Of(w) /\ handle'[u] = handle[u] /\ handle[u] # w /\ handle[u] \in Thread
    BY <1>6, <1>7 DEF TasksInv, TasksTyped
  <2> QED
    BY <1>5, <2>1 DEF TasksInv, HandlesExecute, Of
<1>11. \A v \in TaskWorker : executor'[v].at = "created" => executor'[v] = executor[v]
    BY <1>4, <1>5 DEF Thread
<1>12. CreationsComeFirst'
  <2>1. \A u \in TaskId : OnlyCreated(u) => OnlyCreated(u)'
    <3> SUFFICES ASSUME NEW u \in TaskId, OnlyCreated(u)
                 PROVE  handle'[u] = "none" /\ \A r \in Resumer : executor'[r].task # u
        BY DEF OnlyCreated, Of
    <3>1. handle'[u] = "none"
        BY <1>6 DEF OnlyCreated
    <3>2. u # 0
        BY DEF TaskId
    <3> QED
        BY <1>4, <1>5, <3>1, <3>2 DEF OnlyCreated, Of, Thread
  <2>2. \A v \in TaskWorker : executor[v].at = "created" => Of(v) \in TaskId
    BY TaskOf DEF TasksInv, Thread
  <2> QED
    BY <1>1, <1>11, <2>1, <2>2 DEF TasksInv, CreationsComeFirst, Of
<1>13. \A u \in TaskId : Creating(u)' <=> Creating(u)
    BY <1>1, <1>4, <1>5 DEF Creating, Of, Thread, Live
<1>14. RunningExecutes' /\ SnapshotBegan'
  <2>1. \A u \in TaskId : taskRun[u].status = "RUNNING" /\ handle[u] # "none" =>
            handle'[u] = handle[u] /\ executor'[handle[u]] = executor[handle[u]]
    BY <1>3, <1>5, <1>6, <1>7 DEF TasksInv, TasksTyped
  <2>2. RunningExecutes'
    BY <1>1, <1>13, <2>1 DEF TasksInv, RunningExecutes
  <2> QED
    BY <1>1, <1>13, <2>2 DEF TasksInv, TasksTyped, SnapshotBegan
<1>15. SecondSignals' /\ CancellersFit' /\ LeavesFinished
  <2>1. \A v \in signalled' : v \in signalled /\ executor'[v] = executor[v]
    BY <1>1, <1>5 DEF TasksInv, TasksTyped
  <2> QED
    BY <1>1, <2>1 DEF TasksInv, SecondSignals, CancellersFit, LeavesFinished, Of, Over
<1> QED
    BY <1>8, <1>9, <1>10, <1>12, <1>14, <1>15 DEF TasksInv

(* A row that is cancelled from outside, over no end, takes nothing away   *)
(* from its execution, and a signal for its handle comes after it.         *)
LEMMA TaskRowCancelled ==
    ASSUME TasksInv, NEW t \in TaskId, ~Over(taskRun[t]), SaveRow(t, "CANCELLED"),
           signalled' \subseteq signalled \cup ({handle[t]} \ {"none"}),
           canceller' \in [TaskId -> [at : {"idle", "load", "save", "signal"}, sequence : Nat]],
           canceller'[t].at \in {canceller[t].at, "signal"}, canceller'[t].sequence = canceller[t].sequence,
           \A u \in TaskId : u # t => canceller'[u] = canceller[u],
           closing'.snapshot = closing.snapshot,
           closing' \in [at : {"serving", "persisting", "draining", "drained"},
                         snapshot : SUBSET TaskId, pending : SUBSET TaskId],
           UNCHANGED <<task, executor, handle>>
    PROVE  TasksInv' /\ LeavesFinished
<1>1. /\ taskRun' \in [TaskId -> [status : RowStatus, sequence : Nat]]
      /\ taskRun'[t].status = "CANCELLED" /\ taskRun'[t].sequence = taskRun[t].sequence + 1
      /\ \A u \in TaskId : u # t => taskRun'[u] = taskRun[u]
    BY TaskRowSaved DEF TasksInv, RowStatus
<1>2. TasksTyped'
    BY <1>1 DEF TasksInv, TasksTyped
<1>3. /\ ExecutionHasItsHandle' /\ HandlesExecute' /\ \A v \in Thread : Of(v)' = Of(v)
      /\ \A u \in TaskId : (Creating(u)' <=> Creating(u)) /\ (OnlyCreated(u)' <=> OnlyCreated(u))
    BY DEF TasksInv, ExecutionHasItsHandle, HandlesExecute, Creating, OnlyCreated, Of
<1>4. CreationsComeFirst'
  <2>1. \A v \in TaskWorker : executor[v].at = "created" => Of(v) \in TaskId
    BY TaskOf DEF TasksInv, Thread
  <2> QED
    BY SMTT(20), <1>1, <1>3, <2>1 DEF TasksInv, CreationsComeFirst, Thread
<1>5. RunningExecutes' /\ SnapshotBegan'
  <2>1. \A u \in TaskId : taskRun'[u].status = "RUNNING" => taskRun[u].status = "RUNNING"
    BY <1>1
  <2>2. \A u \in TaskId : taskRun[u].status # "none" => taskRun'[u].status # "none"
    BY <1>1
  <2>3. RunningExecutes'
    BY <1>3, <2>1 DEF TasksInv, RunningExecutes
  <2>4. closing.snapshot \subseteq TaskId
    BY DEF TasksInv, TasksTyped
  <2>5. SnapshotBegan'
    BY <1>3, <2>2, <2>4 DEF TasksInv, SnapshotBegan
  <2> QED
    BY <2>3, <2>5
<1>6. SecondSignals'
  <2> SUFFICES ASSUME NEW v \in signalled', executor[v].at = "converging"
               PROVE  Over(taskRun'[Of(v)])
    BY DEF SecondSignals, Over, Of
  <2>1. v \in Thread
    BY <1>2 DEF TasksTyped
  <2>2. Of(v) \in TaskId
    BY <2>1, TaskOf DEF TasksInv
  <2>3. CASE Of(v) = t
    BY <1>1, <2>3 DEF Over
  <2>4. CASE Of(v) # t
    BY <1>1, <2>2, <2>4 DEF TasksInv, SecondSignals, HandlesExecute, Over
  <2> QED
    BY <2>3, <2>4
<1>7. CancellersFit'
  <2>1. canceller[t].sequence \in Nat /\ taskRun[t].sequence \in Nat
    BY DEF TasksInv, TasksTyped
  <2>2. Over(taskRun'[t]) /\ taskRun'[t].sequence > taskRun[t].sequence
    BY <1>1, <2>1 DEF Over
  <2>3. canceller'[t].at = "save" => canceller[t].at = "save"
    OBVIOUS
  <2> QED
    BY <1>1, <2>1, <2>2, <2>3 DEF TasksInv, CancellersFit
<1>8. LeavesFinished
    BY <1>1 DEF LeavesFinished
<1> QED
    BY <1>2, <1>3, <1>4, <1>5, <1>6, <1>7, <1>8 DEF TasksInv

(* Signals and the stages of the shutdown leave rows, threads and handles  *)
(* alone: a signal is harmless to a thread that does not converge, and to  *)
(* one whose Run is over.                                                  *)
LEMMA TaskSignals ==
    ASSUME TasksInv, UNCHANGED <<task, taskRun, executor, handle>>,
           signalled' \subseteq Thread,
           \A w \in signalled' : \/ w \in signalled \/ executor[w].at # "converging"
                                \/ Over(taskRun[Of(w)]),
           canceller' \in [TaskId -> [at : {"idle", "load", "save", "signal"}, sequence : Nat]],
           \A t \in TaskId : canceller'[t] = canceller[t] \/ canceller'[t].at = "idle",
           closing' \in [at : {"serving", "persisting", "draining", "drained"},
                         snapshot : SUBSET TaskId, pending : SUBSET TaskId],
           \A t \in closing'.snapshot : t \in closing.snapshot \/ handle[t] # "none"
    PROVE  TasksInv' /\ LeavesFinished
<1>1. TasksTyped'
    BY DEF TasksInv, TasksTyped
<1>2. /\ ExecutionHasItsHandle' /\ HandlesExecute' /\ CreationsComeFirst' /\ RunningExecutes'
    BY DEF TasksInv, ExecutionHasItsHandle, HandlesExecute, CreationsComeFirst, OnlyCreated,
           RunningExecutes, Creating, Of
<1>3. SecondSignals' /\ LeavesFinished
    BY DEF TasksInv, SecondSignals, LeavesFinished, Of, Over
<1>4. CancellersFit'
    BY DEF TasksInv, CancellersFit, Over
<1>5. SnapshotBegan'
  <2>1. closing'.snapshot \subseteq TaskId
    BY <1>1 DEF TasksTyped
  <2>2. \A t \in TaskId : handle[t] # "none" => taskRun[t].status # "none" /\ ~Creating(t)
    BY DEF TasksInv, CreationsComeFirst, OnlyCreated, Creating
  <2>3. \A t \in TaskId : Creating(t)' <=> Creating(t)
    BY DEF Creating, Of
  <2> QED
    BY <2>1, <2>2, <2>3 DEF TasksInv, SnapshotBegan
<1> QED
    BY <1>1, <1>2, <1>3, <1>4, <1>5 DEF TasksInv

(* The cancel endpoint: the row is saved as it was read or not at all, and *)
(* its owner is signalled after that (SaveCancelled, SignalOwner).         *)
LEMMA TaskCancelKeeps ==
    ASSUME TasksInv, NEW t \in TaskId, SaveCancelled(t) \/ SignalOwner(t)
    PROVE  TasksInv' /\ LeavesFinished
<1>1. /\ canceller \in [TaskId -> [at : {"idle", "load", "save", "signal"}, sequence : Nat]]
      /\ closing \in [at : {"serving", "persisting", "draining", "drained"},
                       snapshot : SUBSET TaskId, pending : SUBSET TaskId]
      /\ handle \in [TaskId -> Thread \cup {"none"}] /\ signalled \subseteq Thread
    BY DEF TasksInv, TasksTyped
<1>2. \A at \in {"idle", "signal"} :
          LET c == [canceller EXCEPT ![t].at = at]
          IN  /\ c \in [TaskId -> [at : {"idle", "load", "save", "signal"}, sequence : Nat]]
              /\ c[t].at = at /\ c[t].sequence = canceller[t].sequence
              /\ \A u \in TaskId : u # t => c[u] = canceller[u]
    BY <1>1
<1>3. CASE SaveCancelled(t)
  <2>1. canceller[t].at = "save" /\ UNCHANGED <<task, executor, handle, signalled, closing>>
    BY <1>3 DEF SaveCancelled
  <2>2. CASE taskRun[t].sequence = canceller[t].sequence
    <3>1. SaveRow(t, "CANCELLED") /\ canceller' = [canceller EXCEPT ![t].at = "signal"]
        BY <1>3, <2>2 DEF SaveCancelled
    <3>2. ~Over(taskRun[t])
        BY <2>1, <2>2 DEF TasksInv, CancellersFit
    <3> QED
        BY <1>1, <1>2, <2>1, <3>1, <3>2, TaskRowCancelled
  <2>3. CASE taskRun[t].sequence # canceller[t].sequence
    <3>1. UNCHANGED taskRun /\ canceller' = [canceller EXCEPT ![t].at = "idle"]
        BY <1>3, <2>3 DEF SaveCancelled
    <3> QED
        BY <1>1, <1>2, <2>1, <3>1, TaskSignals
  <2> QED
    BY <2>2, <2>3
<1>4. CASE SignalOwner(t)
  <2>1. /\ canceller[t].at = "signal" /\ canceller' = [canceller EXCEPT ![t].at = "idle"]
        /\ signalled' = signalled \cup ({handle[t]} \ {"none"})
        /\ UNCHANGED <<task, taskRun, executor, handle, closing>>
    BY <1>4 DEF SignalOwner, Signal
  <2>2. Over(taskRun[t]) /\ (handle[t] # "none" => Of(handle[t]) = t)
    BY <2>1 DEF TasksInv, CancellersFit, HandlesExecute
  <2>3. \A w \in signalled' : w \in signalled \/ Over(taskRun[Of(w)])
    BY <2>1, <2>2
  <2> QED
    BY <1>1, <1>2, <2>1, <2>3, TaskSignals
<1> QED
    BY <1>3, <1>4

(* The shutdown: a snapshot of the Runs that have a handle, a durable      *)
(* cancellation with its signal for each, signals for the rest, and the    *)
(* drain (_shutdown_active_executions).                                    *)
LEMMA TaskShutdownKeeps ==
    ASSUME TasksInv, StopServer \/ SignalRest \/ Drain \/ \E t \in TaskId : PersistCancellation(t)
    PROVE  TasksInv' /\ LeavesFinished
<1>1. /\ canceller \in [TaskId -> [at : {"idle", "load", "save", "signal"}, sequence : Nat]]
      /\ closing \in [at : {"serving", "persisting", "draining", "drained"},
                       snapshot : SUBSET TaskId, pending : SUBSET TaskId]
      /\ handle \in [TaskId -> Thread \cup {"none"}] /\ signalled \subseteq Thread
    BY DEF TasksInv, TasksTyped
<1>2. CASE StopServer
  <2> DEFINE live == {t \in TaskId : handle[t] # "none"}
  <2>1. /\ closing' = [at |-> "persisting", snapshot |-> live, pending |-> live]
        /\ UNCHANGED <<task, taskRun, executor, handle, signalled, canceller>>
    BY <1>2 DEF StopServer
  <2> QED
    BY <1>1, <2>1, TaskSignals
<1>3. CASE SignalRest
  <2>1. /\ UNCHANGED <<task, taskRun, executor, handle, canceller>>
        /\ closing' = [closing EXCEPT !.at = "draining"]
        /\ signalled' \subseteq Thread
        /\ \A w \in signalled' : w \in signalled \/ executor[w].at = "executing"
    BY <1>1, <1>3 DEF SignalRest
  <2> QED
    BY <1>1, <2>1, TaskSignals
<1>4. CASE Drain
  <2>1. /\ UNCHANGED <<task, taskRun, executor, handle, signalled, canceller>>
        /\ closing' = [closing EXCEPT !.at = "drained"]
    BY <1>4 DEF Drain
  <2> QED
    BY <1>1, <2>1, TaskSignals
<1>5. ASSUME NEW t \in TaskId, PersistCancellation(t)
      PROVE  TasksInv' /\ LeavesFinished
  <2>1. /\ closing' = [closing EXCEPT !.pending = @ \ {t}]
        /\ UNCHANGED <<task, executor, handle, canceller>>
    BY <1>5 DEF PersistCancellation
  <2>2. /\ closing' \in [at : {"serving", "persisting", "draining", "drained"},
                          snapshot : SUBSET TaskId, pending : SUBSET TaskId]
        /\ closing'.snapshot = closing.snapshot
    BY <1>1, <2>1
  <2>3. CASE ~Over(taskRun[t]) /\ SaveRow(t, "CANCELLED") /\ Signal(t)
    BY <1>1, <2>1, <2>2, <2>3, TaskRowCancelled DEF Signal
  <2>4. CASE UNCHANGED <<taskRun, signalled>>
    BY <1>1, <2>1, <2>2, <2>4, TaskSignals
  <2> QED
    BY <1>5, <2>3, <2>4 DEF PersistCancellation
<1> QED
    BY <1>2, <1>3, <1>4, <1>5

(* Nothing is submitted at first.                                          *)
LEMMA TasksInvInit == TasksInit => TasksInv
<1> SUFFICES ASSUME TasksInit PROVE TasksInv
    OBVIOUS
<1>1. Executor("idle", 0) \in ExecutorType /\ Executor("idle", 0).at = "idle" /\ Executor("idle", 0).task = 0
    BY TaskExecutors DEF Executor
<1>2. \A w \in Thread : executor[w] = Executor("idle", 0)
    BY DEF TasksInit
<1>3. TasksTyped
    BY <1>1 DEF TasksInit, TasksTyped, TaskStatus, RowStatus
<1>4. ExecutionHasItsHandle /\ HandlesExecute
    BY <1>1, <1>2 DEF TasksInit, ExecutionHasItsHandle, HandlesExecute, Live
<1>5. CreationsComeFirst
    BY <1>1, <1>2 DEF TasksInit, CreationsComeFirst, OnlyCreated, Of, Thread, TaskId
<1> QED
    BY <1>3, <1>4, <1>5
    DEF TasksInit, TasksInv, RunningExecutes, SecondSignals, CancellersFit, SnapshotBegan

(* Every step keeps the invariant, and leaves a finished task's row alone. *)
LEMMA TasksInvStep == TasksInv /\ [TasksNext]_taskVars => TasksInv' /\ (LeavesFinished \/ UNCHANGED taskVars)
<1> SUFFICES ASSUME TasksInv, [TasksNext]_taskVars PROVE TasksInv' /\ (LeavesFinished \/ UNCHANGED taskVars)
    OBVIOUS
<1>1. ASSUME NEW t \in TaskId,
             AddTask(t) \/ CancelTask(t) \/ LoadTaskRun(t) \/ SaveCancelled(t) \/ SignalOwner(t)
      PROVE  TasksInv' /\ LeavesFinished
  <2>1. CASE AddTask(t) \/ CancelTask(t) \/ LoadTaskRun(t)
    BY <2>1, TaskClientsKeep DEF AddTask, CancelTask, LoadTaskRun, LeavesFinished
  <2>2. CASE SaveCancelled(t) \/ SignalOwner(t)
    BY <2>2, TaskCancelKeeps
  <2> QED
    BY <1>1, <2>1, <2>2
<1>2. CASE StopServer \/ SignalRest \/ Drain \/ \E t \in TaskId : PersistCancellation(t)
    BY <1>2, TaskShutdownKeeps
<1>3. ASSUME NEW w \in TaskWorker, SelectTask(w) \/ StopWorker(w)
      PROVE  TasksInv' /\ LeavesFinished
    BY <1>3, TaskTableKeeps DEF SelectTask, StopWorker, LeavesFinished, Thread
<1>4. ASSUME NEW r \in Resumer, RequestResume(r)
      PROVE  TasksInv' /\ LeavesFinished
    BY <1>4, TaskResumes
<1>5. ASSUME NEW w \in Thread, ExecuteTask(w)
      PROVE  TasksInv' /\ LeavesFinished
  <2>1. CASE MarkRunning(w) \/ CheckCanceled(w) \/ ReadBack(w) \/ SettleTask(w) \/ FailTask(w)
    BY <2>1, TaskTableKeeps
    DEF MarkRunning, CheckCanceled, ReadBack, SettleTask, FailTask, LeavesFinished
  <2>2. CASE CreateTaskRun(w)
    BY <2>2, TaskCreates
  <2>3. CASE RegisterHandle(w)
    BY <2>3, TaskRegisters
  <2>4. CASE ResumeTaskRun(w) \/ SaveStep(w) \/ MeetCancelledRow(w) \/ ReceiveSignal(w) \/ ConvergeCancelled(w)
    BY <2>4, TaskExecutionKeeps
  <2>5. CASE LeaveSupervise(w) \/ SignalledTwice(w)
    BY <2>5, TaskLeaves
  <2> QED
    BY <1>5, <2>1, <2>2, <2>3, <2>4, <2>5 DEF ExecuteTask
<1>6. CASE UNCHANGED taskVars
    BY <1>6
    DEF taskVars, TasksInv, TasksTyped, ExecutionHasItsHandle, HandlesExecute, CreationsComeFirst, OnlyCreated,
        Creating, RunningExecutes, SecondSignals, CancellersFit, SnapshotBegan, Of, Over
<1> QED
    BY <1>1, <1>2, <1>3, <1>4, <1>5, <1>6 DEF TasksNext

(* A live execution is the one its handle names, so that a cancellation    *)
(* finds it, no Run of the shutdown's snapshot is RUNNING without an       *)
(* execution when the drain is over, and a Run that is over stays so       *)
(* (_supervise, _shutdown_active_executions, the cancel endpoint).         *)
THEOREM ExecutionsStaySupervised ==
    TasksSpec => [](ExecutionHasItsHandle /\ DrainedRunsEnded) /\ FinishedTaskRunStays
<1>1. TasksInv => ExecutionHasItsHandle /\ DrainedRunsEnded
  <2> SUFFICES ASSUME TasksInv PROVE DrainedRunsEnded /\ ExecutionHasItsHandle
    OBVIOUS
  <2>1. \A t \in closing.snapshot : taskRun[t].status = "RUNNING" => t \in TaskId /\ handle[t] # "none"
            /\ executor[handle[t]].at \in {"executing", "converging"}
    BY DEF TasksInv, TasksTyped, SnapshotBegan, RunningExecutes
  <2>2. \A t \in TaskId : handle[t] # "none" => handle[t] \in Thread /\ Of(handle[t]) = t
    BY DEF TasksInv, TasksTyped, HandlesExecute
  <2> QED
    BY <2>1, <2>2 DEF TasksInv, DrainedRunsEnded, Live
<1>2. TasksInv /\ [TasksNext]_taskVars =>
          [\A t \in TaskId : Over(taskRun[t]) => taskRun'[t] = taskRun[t]]_taskVars
    BY TasksInvStep DEF LeavesFinished
<1> QED
    BY <1>1, <1>2, TasksInvInit, TasksInvStep, PTL DEF TasksSpec, FinishedTaskRunStays

(***************************************************************************)
(* ReactLoop.  What a checkpoint says of its failed call bounds the calls  *)
(* that were sent since (RetriesFit), and what is true of the checkpoint   *)
(* is true of the copy, which differs from it by an interrupt at most      *)
(* (CopyHolds).                                                            *)
(***************************************************************************)
FailureType == [attempt : Nat, started : BOOLEAN, retry : BOOLEAN]

CheckpointType ==
    [status : {"none", "RUNNING", "INTERRUPTED", "COMPLETED", "FAILED"}, contract : BOOLEAN,
     last : {"user", "assistant", "tool"}, open : Nat, turn : Nat, error : FailureType,
     attempts : Nat, corrections : Nat]

\* An attempt that is to be repeated is not the last one, unless it was started.
FailureFits(error) ==
    /\ error.attempt = 0 => error = NoFailure
    /\ error.attempt <= MaxAttempts
    /\ error.retry /\ ~error.started => error.attempt < MaxAttempts

CheckpointFits(r) ==
    /\ r \in CheckpointType
    /\ FailureFits(r.error) /\ (r.status = "none" => r.error = NoFailure)
    /\ r.last = "assistant" => r.turn > 0 /\ r.error = NoFailure
    /\ r.corrections <= r.attempts /\ r.corrections <= MaxCorrections

LoopPlaces == {"down", "preflight", "tool", "fail", "model", "attempt", "calling", "judge"}

\* The loop may be at a place with this state.
PlaceFits(r, where) ==
    /\ where \in LoopPlaces
    /\ where # "down" => r.status = "RUNNING"
    /\ where \in {"model", "attempt", "calling"} => r.open = 0 /\ r.last # "assistant"
    /\ where = "tool" => r.open > 0
    /\ where = "attempt" /\ r.error # NoFailure => r.error.attempt < MaxAttempts

RetriesFit(n, r) == n \in Nat /\ n <= IF r.error.attempt = 0 THEN 0 ELSE r.error.attempt - 1

CopyHolds ==
    loop # "down" =>
        row = IF stale THEN [copy EXCEPT !.status = "INTERRUPTED"] ELSE copy

ReactInv ==
    /\ CheckpointFits(row) /\ CheckpointFits(copy)
    /\ PlaceFits(copy, loop) /\ CopyHolds
    /\ stale \in BOOLEAN /\ (stale => row.status = "INTERRUPTED")
    /\ RetriesFit(retries, row)
    /\ verified \in Nat
    /\ CompletedIsVerified

(* The loop decides from a state that fits, or its process ends.           *)
LEMMA ReactGoes ==
    ASSUME ReactInv, NEW where, Goto(where), where = "down" \/ PlaceFits(copy, where),
           loop # "down", UNCHANGED <<stale, retries, verified>>
    PROVE  ReactInv'
<1>1. PlaceFits(copy, where)
    BY DEF PlaceFits, LoopPlaces
<1>2. UNCHANGED <<row, copy, stale, retries, verified>> /\ loop' = where
    BY DEF Goto
<1>3. CheckpointFits(row)' /\ CheckpointFits(copy)' /\ RetriesFit(retries, row)'
    BY <1>2 DEF ReactInv, CheckpointFits, FailureFits, RetriesFit
<1>4. PlaceFits(copy, loop)' /\ CopyHolds'
    BY <1>1, <1>2 DEF ReactInv, PlaceFits, CopyHolds
<1> QED
    BY <1>2, <1>3, <1>4 DEF ReactInv, CompletedIsVerified

(* A save of a state that fits keeps the invariant: a stale one is refused *)
(* and the process stops, any other makes row and copy equal (Commit).     *)
LEMMA ReactSaves ==
    ASSUME ReactInv, loop # "down", NEW state, NEW next, Commit(state, next),
           CheckpointFits(state), PlaceFits(state, next), UNCHANGED stale,
           verified' \in Nat,
           stale => retries' = retries,
           ~stale => RetriesFit(retries', state),
           state.status = "COMPLETED" /\ state.contract => verified' = state.turn
    PROVE  ReactInv'
<1>1. CASE stale
  <2>1. loop' = "down" /\ UNCHANGED <<row, copy, stale, retries>>
    BY <1>1 DEF Commit
  <2>2. CheckpointFits(row)' /\ CheckpointFits(copy)' /\ RetriesFit(retries, row)'
    BY <2>1 DEF ReactInv, CheckpointFits, FailureFits, RetriesFit
  <2>3. PlaceFits(copy, loop)' /\ CopyHolds'
    BY <2>1 DEF PlaceFits, CopyHolds, LoopPlaces
  <2>4. CompletedIsVerified'
    BY <1>1, <2>1 DEF ReactInv, CompletedIsVerified
  <2> QED
    BY <2>1, <2>2, <2>3, <2>4 DEF ReactInv
<1>2. CASE ~stale
  <2>1. row' = state /\ copy' = state /\ loop' = next /\ stale' = FALSE
    BY <1>2 DEF Commit, ReactInv
  <2>2. CheckpointFits(row)' /\ CheckpointFits(copy)' /\ RetriesFit(retries, row)'
    BY <1>2, <2>1 DEF CheckpointFits, FailureFits, RetriesFit
  <2>3. PlaceFits(copy, loop)' /\ CopyHolds'
    BY <2>1 DEF PlaceFits, CopyHolds
  <2>4. CompletedIsVerified'
    BY <2>1 DEF CompletedIsVerified
  <2> QED
    BY <2>1, <2>2, <2>3, <2>4 DEF ReactInv
<1> QED
    BY <1>1, <1>2

(* While the loop works and no interrupt came, the row is its copy.        *)
LEMMA ReactCopy ==
    ASSUME ReactInv, loop # "down"
    PROVE  /\ CheckpointFits(copy) /\ PlaceFits(copy, loop) /\ copy.status = "RUNNING"
           /\ RetriesFit(retries, copy)
           /\ row.contract = copy.contract
           /\ ~stale => row = copy
           /\ verified \in Nat
<1>1. row = copy \/ row = [copy EXCEPT !.status = "INTERRUPTED"]
    BY DEF ReactInv, CopyHolds
<1>2. row.error = copy.error /\ row.contract = copy.contract
    BY <1>1 DEF ReactInv, CheckpointFits, CheckpointType
<1> QED
    BY <1>2 DEF ReactInv, PlaceFits, CopyHolds, RetriesFit

(* A state that differs from the copy in its status alone fits as well.    *)
LEMMA ReactEnding ==
    ASSUME ReactInv, loop # "down", NEW status \in {"FAILED", "COMPLETED"}
    PROVE  LET end == [copy EXCEPT !.status = status]
           IN  CheckpointFits(end) /\ PlaceFits(end, "down") /\ RetriesFit(retries, end) /\ end.status = status
<1>1. CheckpointFits(copy) /\ RetriesFit(retries, copy)
    BY ReactCopy
<1> QED
    BY <1>1 DEF CheckpointFits, CheckpointType, PlaceFits, LoopPlaces, FailureFits, RetriesFit

(* A Run that is ended as FAILED claims no verified answer (_fail_run).    *)
LEMMA ReactFails ==
    ASSUME ReactInv, loop # "down", End("FAILED"), UNCHANGED <<stale, retries, verified>>
    PROVE  ReactInv'
<1>1. verified \in Nat
    BY ReactCopy
<1> QED
    BY <1>1, ReactEnding, ReactSaves, "FAILED" # "COMPLETED" DEF End

(* The step the loop chooses fits its copy: a model call only where all    *)
(* tool calls have a result and no answer waits for its verdict.           *)
LEMMA ReactPreflight ==
    ASSUME ReactInv, PreflightStep
    PROVE  ReactInv'
<1>1. loop # "down" /\ UNCHANGED <<stale, retries, verified>>
    BY DEF PreflightStep, History
<1>2. CASE Goto("down")
    BY <1>1, <1>2, ReactGoes
<1>3. CASE Goto(NextStep)
  <2>1. CheckpointFits(copy) /\ PlaceFits(copy, loop)
    BY <1>1, ReactCopy
  <2>2. PlaceFits(copy, NextStep)
    BY <1>1, <2>1 DEF PlaceFits, NextStep, CheckpointFits, FailureFits, CheckpointType, FailureType, LoopPlaces
  <2> QED
    BY <1>1, <1>3, <2>2, ReactGoes
<1>4. CASE End("FAILED")
    BY <1>1, <1>4, ReactFails
<1> QED
    BY <1>2, <1>3, <1>4 DEF PreflightStep

(* A tool call gets its result, and the loop looks again.                  *)
LEMMA ReactTool ==
    ASSUME ReactInv, RunTool
    PROVE  ReactInv'
<1> DEFINE done == [copy EXCEPT !.open = @ - 1, !.last = "tool"]
<1>1. loop = "tool" /\ UNCHANGED <<stale, retries, verified>> /\ Commit(done, "preflight")
    BY DEF RunTool, History
<1>2. /\ CheckpointFits(copy) /\ copy.status = "RUNNING" /\ copy.open > 0
      /\ RetriesFit(retries, copy) /\ verified \in Nat
    BY <1>1, ReactCopy DEF PlaceFits
<1>3. CheckpointFits(done) /\ RetriesFit(retries, done) /\ done.status = "RUNNING"
  <2>1. /\ done \in CheckpointType /\ done.status = "RUNNING" /\ done.error = copy.error
        /\ done.last = "tool" /\ done.attempts = copy.attempts /\ done.corrections = copy.corrections
    <3> DEFINE closed == [copy EXCEPT !.open = @ - 1]
    <3>1. /\ closed \in CheckpointType /\ closed.status = "RUNNING" /\ closed.error = copy.error
          /\ closed.attempts = copy.attempts /\ closed.corrections = copy.corrections
        BY <1>2 DEF CheckpointFits, CheckpointType
    <3>2. done = [closed EXCEPT !.last = "tool"]
        OBVIOUS
    <3> HIDE DEF closed, done
    <3> QED
        BY <3>1, <3>2 DEF CheckpointType
  <2> HIDE DEF done
  <2> QED
    BY <1>2, <2>1 DEF CheckpointFits, RetriesFit
<1>4. PlaceFits(done, "preflight")
    BY <1>3 DEF PlaceFits, LoopPlaces
<1> HIDE DEF done
<1> QED
    BY <1>1, <1>2, <1>3, <1>4, ReactSaves

(* An error on record is consulted before anything is sent; what it allows *)
(* is an attempt that is not beyond the last one.                          *)
LEMMA ReactConsults ==
    ASSUME ReactInv, ConsultError
    PROVE  ReactInv'
<1>1. loop = "model" /\ UNCHANGED <<stale, retries, verified>>
    BY DEF ConsultError, History
<1>2. CheckpointFits(copy) /\ PlaceFits(copy, "model") /\ copy.status = "RUNNING"
    BY <1>1, ReactCopy
<1>3. PlaceFits(copy, "fail")
    BY <1>2 DEF PlaceFits, LoopPlaces
<1>4. copy.error = NoFailure => PlaceFits(copy, "attempt")
    BY <1>2 DEF PlaceFits, LoopPlaces
<1>5. PlaceFits(copy, Recorded)
  <2>1. CASE Recorded = "fail"
    BY <1>3, <2>1
  <2>2. CASE Recorded = "attempt"
    <3>1. copy.error.retry /\ ~(copy.error.started /\ copy.error.attempt >= MaxAttempts)
        BY <2>2 DEF Recorded
    <3>2. copy.error.attempt < MaxAttempts
        BY <1>2, <3>1, ReactAssumption DEF CheckpointFits, CheckpointType, FailureType, FailureFits
    <3> QED
        BY <1>2, <2>2, <3>2 DEF PlaceFits, LoopPlaces
  <2> QED
    BY <2>1, <2>2 DEF Recorded
<1>6. \E where : PlaceFits(copy, where) /\ Goto(where)
    BY <1>3, <1>4, <1>5 DEF ConsultError
<1> QED
    BY <1>1, <1>6, ReactGoes

(* The first attempt of a call leaves the checkpoint alone.                *)
LEMMA ReactSendsFirst ==
    ASSUME ReactInv, SendFirst
    PROVE  ReactInv'
<1>1. loop = "attempt" /\ Goto("calling") /\ UNCHANGED <<stale, retries, verified>>
    BY DEF SendFirst, History
<1>2. PlaceFits(copy, "calling")
    BY <1>1, ReactCopy DEF PlaceFits, LoopPlaces
<1> QED
    BY <1>1, <1>2, ReactGoes

(* A further attempt is on record before it is sent, so the record goes on *)
(* to bound what was sent.                                                 *)
LEMMA ReactSendsAgain ==
    ASSUME ReactInv, SendRetry
    PROVE  ReactInv'
<1> DEFINE begun == [copy EXCEPT !.error.attempt = @ + 1, !.error.started = TRUE]
<1>1. /\ loop = "attempt" /\ copy.error # NoFailure /\ UNCHANGED <<stale, verified>>
      /\ Commit(begun, "calling") /\ retries' = IF stale THEN retries ELSE retries + 1
    BY DEF SendRetry
<1>2. /\ CheckpointFits(copy) /\ PlaceFits(copy, "attempt") /\ copy.status = "RUNNING"
      /\ RetriesFit(retries, copy) /\ verified \in Nat
    BY <1>1, ReactCopy
<1>3. copy.error.attempt \in Nat \ {0} /\ copy.error.attempt < MaxAttempts
    BY <1>1, <1>2 DEF CheckpointFits, CheckpointType, FailureType, FailureFits, PlaceFits
<1>4. /\ begun \in CheckpointType /\ begun.status = "RUNNING" /\ begun.last = copy.last
      /\ begun.open = copy.open /\ begun.attempts = copy.attempts /\ begun.corrections = copy.corrections
      /\ begun.error.attempt = copy.error.attempt + 1 /\ begun.error.started
  <2>1. begun.error = [copy.error EXCEPT !.attempt = @ + 1, !.started = TRUE]
    BY <1>2 DEF CheckpointFits, CheckpointType
  <2>2. begun.error \in FailureType /\ begun.error.attempt = copy.error.attempt + 1 /\ begun.error.started
    <3>1. copy.error \in FailureType
        BY <1>2 DEF CheckpointFits, CheckpointType
    <3> DEFINE next == [copy.error EXCEPT !.attempt = @ + 1]
    <3>2. next \in FailureType /\ next.attempt = copy.error.attempt + 1
        BY <1>3, <3>1 DEF FailureType
    <3>3. begun.error = [next EXCEPT !.started = TRUE]
        BY <2>1
    <3> HIDE DEF next, begun
    <3> QED
        BY <3>2, <3>3 DEF FailureType
  <2> QED
    BY <1>2, <2>2 DEF CheckpointFits, CheckpointType
<1>5. copy.last # "assistant" /\ copy.open = 0
    BY <1>2 DEF PlaceFits
<1>6. CheckpointFits(begun)
    BY <1>2, <1>3, <1>4, <1>5, ReactAssumption DEF CheckpointFits, FailureFits
<1>7. PlaceFits(begun, "calling")
    BY <1>4, <1>5 DEF PlaceFits, LoopPlaces
<1>8. ~stale => RetriesFit(retries', begun)
    BY <1>1, <1>2, <1>3, <1>4 DEF RetriesFit
<1> HIDE DEF begun
<1> QED
    BY <1>1, <1>2, <1>4, <1>6, <1>7, <1>8, ReactSaves, "RUNNING" # "COMPLETED"

(* An answer clears the error, and is judged or has tool calls to run.     *)
LEMMA ReactAnswers ==
    ASSUME ReactInv, CallSucceeds
    PROVE  ReactInv'
<1>1. loop = "calling" /\ UNCHANGED <<stale, verified>> /\ retries' = IF stale THEN retries ELSE 0
    BY DEF CallSucceeds
<1>2. PICK calls \in 0 .. ToolCalls :
        Commit(AnswerWith(calls), IF calls = 0 THEN "judge" ELSE "preflight")
    BY DEF CallSucceeds
<1>3. CheckpointFits(copy) /\ copy.status = "RUNNING" /\ verified \in Nat
    BY <1>1, ReactCopy
<1>4. CheckpointFits(AnswerWith(calls)) /\ AnswerWith(calls).status = "RUNNING"
  <2>1. NoFailure \in FailureType /\ FailureFits(NoFailure)
    BY ReactAssumption DEF NoFailure, FailureType, FailureFits
  <2>2. calls \in Nat
    BY ReactAssumption
  <2>3. /\ AnswerWith(calls) \in CheckpointType /\ AnswerWith(calls).status = "RUNNING"
        /\ AnswerWith(calls).error = NoFailure /\ AnswerWith(calls).turn = copy.turn + 1
        /\ AnswerWith(calls).attempts = copy.attempts /\ AnswerWith(calls).corrections = copy.corrections
    <3> DEFINE cleared == [copy EXCEPT !.error = NoFailure]
               said    == [cleared EXCEPT !.last = "assistant"]
               calling   == [said EXCEPT !.open = calls]
    <3>1. /\ cleared \in CheckpointType /\ cleared.status = "RUNNING" /\ cleared.error = NoFailure
          /\ cleared.turn = copy.turn
          /\ cleared.attempts = copy.attempts /\ cleared.corrections = copy.corrections
        BY <1>3, <2>1 DEF CheckpointFits, CheckpointType
    <3>2. AnswerWith(calls) = [calling EXCEPT !.turn = @ + 1]
        BY DEF AnswerWith
    <3> HIDE DEF cleared
    <3>3. /\ said \in CheckpointType /\ said.status = "RUNNING" /\ said.error = NoFailure
          /\ said.turn = copy.turn
          /\ said.attempts = copy.attempts /\ said.corrections = copy.corrections
        BY <3>1 DEF CheckpointType
    <3> HIDE DEF said
    <3>4. /\ calling \in CheckpointType /\ calling.status = "RUNNING" /\ calling.error = NoFailure
          /\ calling.turn = copy.turn
          /\ calling.attempts = copy.attempts /\ calling.corrections = copy.corrections
        BY <2>2, <3>3 DEF CheckpointType
    <3> HIDE DEF calling
    <3> QED
        BY <3>2, <3>4 DEF CheckpointType
  <2> QED
    BY <1>3, <2>1, <2>3 DEF CheckpointFits, CheckpointType
<1>5. PlaceFits(AnswerWith(calls), IF calls = 0 THEN "judge" ELSE "preflight")
    BY <1>4 DEF PlaceFits, LoopPlaces
<1>6. ~stale => RetriesFit(retries', AnswerWith(calls))
    BY <1>1, <1>3 DEF RetriesFit, AnswerWith, NoFailure, CheckpointFits, CheckpointType
<1> QED
    BY <1>1, <1>2, <1>3, <1>4, <1>5, <1>6, ReactSaves, "RUNNING" # "COMPLETED"

(* A failure goes on record with its attempt, to be repeated only when an  *)
(* attempt is left (_execute_llm_step).                                    *)
LEMMA ReactCallFails ==
    ASSUME ReactInv, CallFails
    PROVE  ReactInv'
<1>1. loop = "calling" /\ UNCHANGED <<stale, retries, verified>>
    BY DEF CallFails, History
<1>2. PICK failure \in {400, 401, 408, 410, 429, 503} :
        \E retry \in {MayRetry(failure, Attempt), FALSE} :
            Commit([copy EXCEPT !.error = [attempt |-> Attempt, started |-> FALSE, retry |-> retry]],
                   IF retry THEN "attempt" ELSE "fail")
    BY DEF CallFails
<1>3. PICK retry \in BOOLEAN :
        /\ retry => Attempt < MaxAttempts
        /\ Commit([copy EXCEPT !.error = [attempt |-> Attempt, started |-> FALSE, retry |-> retry]],
                   IF retry THEN "attempt" ELSE "fail")
    BY <1>2 DEF MayRetry
<1> DEFINE error == [attempt |-> Attempt, started |-> FALSE, retry |-> retry]
           failed == [copy EXCEPT !.error = error]
<1>4. /\ CheckpointFits(copy) /\ PlaceFits(copy, "calling") /\ copy.status = "RUNNING"
      /\ RetriesFit(retries, copy) /\ verified \in Nat
    BY <1>1, ReactCopy
<1>5. /\ Attempt \in Nat \ {0} /\ Attempt <= MaxAttempts
      /\ retries \in Nat /\ retries <= Attempt - 1
    BY <1>4, ReactAssumption
    DEF Attempt, CheckpointFits, CheckpointType, FailureType, FailureFits, RetriesFit, NoFailure
<1>6. error \in FailureType /\ FailureFits(error) /\ error.attempt = Attempt
    BY <1>3, <1>5 DEF FailureType, FailureFits
<1> HIDE DEF error
<1>7. /\ failed \in CheckpointType /\ failed.error = error /\ failed.status = "RUNNING"
      /\ failed.last = copy.last /\ failed.open = copy.open
      /\ failed.attempts = copy.attempts /\ failed.corrections = copy.corrections
    BY <1>4, <1>6 DEF CheckpointFits, CheckpointType
<1>8. copy.last # "assistant" /\ copy.open = 0
    BY <1>4 DEF PlaceFits
<1>9. CheckpointFits(failed)
    BY <1>4, <1>6, <1>7, <1>8 DEF CheckpointFits
<1>10. PlaceFits(failed, IF retry THEN "attempt" ELSE "fail")
    BY <1>3, <1>6, <1>7, <1>8 DEF PlaceFits, LoopPlaces
<1>11. RetriesFit(retries, failed)
    BY <1>5, <1>6, <1>7 DEF RetriesFit
<1>12. Commit(failed, IF retry THEN "attempt" ELSE "fail")
    BY <1>3 DEF error
<1> HIDE DEF failed
<1> QED
    BY <1>1, <1>4, <1>7, <1>9, <1>10, <1>11, <1>12, ReactSaves, "RUNNING" # "COMPLETED"

(* The verdict and its consequence are one save: COMPLETED with a contract *)
(* only for a verified answer, and a correction only within the allowance. *)
LEMMA ReactJudges ==
    ASSUME ReactInv, JudgeAnswer
    PROVE  ReactInv'
<1>1. loop = "judge" /\ UNCHANGED <<stale, retries>>
    BY DEF JudgeAnswer
<1>2. /\ CheckpointFits(copy) /\ copy.status = "RUNNING" /\ RetriesFit(retries, copy)
      /\ row.contract = copy.contract /\ verified \in Nat
    BY <1>1, ReactCopy
<1>3. PICK verdict \in Verdicts :
        /\ CASE Decide(verdict, Judged.attempts) = "COMPLETE" ->
                    Commit([Judged EXCEPT !.status = "COMPLETED"], "down")
             [] Decide(verdict, Judged.attempts) = "CONTINUE" ->
                    Commit([Judged EXCEPT !.last = "user", !.corrections = @ + 1], "preflight")
             [] Decide(verdict, Judged.attempts) = "FAIL" ->
                    Commit([Judged EXCEPT !.status = "FAILED"], "down")
        /\ verified' = IF verdict = "VERIFIED" THEN copy.turn ELSE verified
    BY DEF JudgeAnswer
<1>4. /\ Judged \in CheckpointType /\ Judged.error = copy.error /\ Judged.status = "RUNNING"
      /\ Judged.last = copy.last /\ Judged.turn = copy.turn /\ Judged.contract = copy.contract
      /\ Judged.corrections = copy.corrections
      /\ Judged.attempts = IF copy.contract THEN copy.attempts + 1 ELSE copy.attempts
    BY <1>2 DEF Judged, CheckpointFits, CheckpointType
<1>5. CheckpointFits(Judged) /\ RetriesFit(retries, Judged)
    BY <1>2, <1>4 DEF CheckpointFits, CheckpointType, RetriesFit
<1>6. verified' \in Nat
    BY <1>2, <1>3 DEF CheckpointFits, CheckpointType
<1>7. CASE Decide(verdict, Judged.attempts) = "COMPLETE"
  <2> DEFINE end == [Judged EXCEPT !.status = "COMPLETED"]
  <2>1. /\ CheckpointFits(end) /\ PlaceFits(end, "down") /\ RetriesFit(retries, end)
        /\ end.contract = copy.contract /\ end.turn = copy.turn
    BY <1>4, <1>5 DEF CheckpointFits, CheckpointType, PlaceFits, LoopPlaces, RetriesFit
  <2>2. verdict \in {"VERIFIED", "NOT_APPLICABLE"}
    BY <1>7 DEF Decide
  <2>3. copy.contract => verdict = "VERIFIED"
    BY <1>2, <1>3, <2>2 DEF Verdicts
  <2>4. end.contract => verified' = end.turn
    BY <1>3, <2>1, <2>3
  <2>5. Commit(end, "down")
    BY <1>3, <1>7
  <2> HIDE DEF end
  <2> QED
    BY <1>1, <1>6, <2>1, <2>4, <2>5, ReactSaves
<1>8. CASE Decide(verdict, Judged.attempts) = "CONTINUE"
  <2> DEFINE again == [Judged EXCEPT !.last = "user", !.corrections = @ + 1]
  <2>1. verdict = "NOT_VERIFIED" /\ Judged.attempts <= MaxCorrections
    BY <1>8 DEF Decide
  <2>2. copy.contract
    BY <1>2, <1>3, <2>1 DEF Verdicts
  <2>3. copy.corrections \in Nat /\ copy.corrections + 1 <= Judged.attempts
    BY <1>2, <1>4, <2>2 DEF CheckpointFits, CheckpointType
  <2>4. /\ again \in CheckpointType /\ again.error = Judged.error /\ again.status = "RUNNING"
        /\ again.last = "user" /\ again.attempts = Judged.attempts
        /\ again.corrections = copy.corrections + 1
    <3> DEFINE corrected == [Judged EXCEPT !.last = "user"]
    <3>1. /\ corrected \in CheckpointType /\ corrected.error = Judged.error
          /\ corrected.status = "RUNNING" /\ corrected.last = "user"
          /\ corrected.attempts = Judged.attempts /\ corrected.corrections = copy.corrections
        BY <1>4 DEF CheckpointType
    <3>2. again = [corrected EXCEPT !.corrections = @ + 1]
        OBVIOUS
    <3> HIDE DEF corrected, again
    <3> QED
        BY <2>3, <3>1, <3>2 DEF CheckpointType
  <2>5. CheckpointFits(again)
    BY <1>4, <1>5, <2>1, <2>3, <2>4, ReactAssumption DEF CheckpointFits, CheckpointType
  <2>6. PlaceFits(again, "preflight") /\ RetriesFit(retries, again)
    BY <1>5, <2>4 DEF PlaceFits, LoopPlaces, RetriesFit
  <2>7. Commit(again, "preflight")
    BY <1>3, <1>8
  <2> HIDE DEF again
  <2> QED
    BY <1>1, <1>6, <2>4, <2>5, <2>6, <2>7, ReactSaves, "RUNNING" # "COMPLETED"
<1>9. CASE Decide(verdict, Judged.attempts) = "FAIL"
  <2> DEFINE end == [Judged EXCEPT !.status = "FAILED"]
  <2>1. /\ CheckpointFits(end) /\ PlaceFits(end, "down") /\ RetriesFit(retries, end)
        /\ end.status = "FAILED"
    BY <1>4, <1>5 DEF CheckpointFits, CheckpointType, PlaceFits, LoopPlaces, RetriesFit
  <2>2. Commit(end, "down")
    BY <1>3, <1>9
  <2> HIDE DEF end
  <2> QED
    BY <1>1, <1>6, <2>1, <2>2, ReactSaves, "FAILED" # "COMPLETED"
<1> QED
    BY <1>7, <1>8, <1>9 DEF Decide

(* Nothing but the checkpoint outlives the process, and what is read back  *)
(* from it is what was saved: crash, recovery, interrupt and resume.       *)
LEMMA ReactSurvives ==
    ASSUME ReactInv, CrashLoop \/ RecoverRun \/ InterruptRun \/ ResumeRun \/ StartReact
    PROVE  ReactInv'
<1>1. /\ CheckpointFits(row) /\ CheckpointFits(copy) /\ RetriesFit(retries, row)
      /\ PlaceFits(copy, loop) /\ CopyHolds /\ verified \in Nat
    BY DEF ReactInv
<1>2. CASE CrashLoop
  <2>1. loop' = "down" /\ stale' = FALSE /\ UNCHANGED <<row, copy, retries, verified>>
    BY <1>2 DEF CrashLoop, Goto, History
  <2>2. CheckpointFits(row)' /\ CheckpointFits(copy)' /\ RetriesFit(retries, row)'
    BY <1>1, <2>1 DEF CheckpointFits, FailureFits, RetriesFit
  <2>3. PlaceFits(copy, loop)' /\ CopyHolds'
    BY <2>1 DEF PlaceFits, LoopPlaces, CopyHolds
  <2> QED
    BY <2>1, <2>2, <2>3 DEF ReactInv, CompletedIsVerified
<1>3. CASE RecoverRun
  <2>1. /\ row.status = "RUNNING" /\ copy' = row /\ loop' = "preflight" /\ stale' = FALSE
        /\ UNCHANGED <<row, retries, verified>>
    BY <1>3 DEF RecoverRun, History
  <2>2. CheckpointFits(row)' /\ CheckpointFits(copy)' /\ RetriesFit(retries, row)'
    BY <1>1, <2>1 DEF CheckpointFits, FailureFits, RetriesFit
  <2>3. PlaceFits(copy, loop)' /\ CopyHolds'
    BY <2>1 DEF PlaceFits, LoopPlaces, CopyHolds
  <2> QED
    BY <2>1, <2>2, <2>3 DEF ReactInv, CompletedIsVerified
<1>4. CASE InterruptRun
  <2>1. /\ row.status = "RUNNING" /\ row' = [row EXCEPT !.status = "INTERRUPTED"]
        /\ stale' = (loop # "down") /\ UNCHANGED <<copy, loop, retries, verified>>
    BY <1>4 DEF InterruptRun, History
  <2>2. row' \in CheckpointType /\ row'.status = "INTERRUPTED" /\ row'.error = row.error
        /\ row'.last = row.last /\ row'.turn = row.turn
        /\ row'.attempts = row.attempts /\ row'.corrections = row.corrections
    BY <1>1, <2>1 DEF CheckpointFits, CheckpointType
  <2>3. CheckpointFits(row)' /\ CheckpointFits(copy)' /\ RetriesFit(retries, row)'
    BY <1>1, <2>1, <2>2 DEF CheckpointFits, FailureFits, RetriesFit
  <2>4. PlaceFits(copy, loop)'
    BY <1>1, <2>1 DEF PlaceFits
  <2>5. CopyHolds'
    <3>1. stale => row.status = "INTERRUPTED"
        BY DEF ReactInv
    <3>2. ~stale
        BY <2>1, <3>1, "RUNNING" # "INTERRUPTED"
    <3>3. loop # "down" => row = copy
        BY <1>1, <3>2 DEF CopyHolds
    <3> QED
        BY <2>1, <3>3 DEF CopyHolds
  <2> QED
    BY <1>1, <2>1, <2>2, <2>3, <2>4, <2>5 DEF ReactInv, CompletedIsVerified
<1>5. CASE ResumeRun
  <2>1. /\ row' = [row EXCEPT !.status = "RUNNING", !.error = NoFailure]
        /\ copy' = row' /\ loop' = "preflight" /\ stale' = FALSE /\ retries' = 0 /\ verified' = verified
    BY <1>5 DEF ResumeRun
  <2>2. CheckpointFits(row)' /\ RetriesFit(retries, row)' /\ row'.status = "RUNNING"
    <3>1. NoFailure \in FailureType /\ FailureFits(NoFailure) /\ NoFailure.attempt = 0
        BY ReactAssumption DEF NoFailure, FailureType, FailureFits
    <3>2. /\ row' \in CheckpointType /\ row'.status = "RUNNING" /\ row'.error = NoFailure
          /\ row'.last = row.last /\ row'.turn = row.turn
          /\ row'.attempts = row.attempts /\ row'.corrections = row.corrections
        BY <1>1, <2>1, <3>1 DEF CheckpointFits, CheckpointType
    <3>3. CheckpointFits(row)'
        BY <1>1, <3>1, <3>2 DEF CheckpointFits, FailureFits
    <3> QED
        BY <2>1, <3>1, <3>2, <3>3 DEF RetriesFit
  <2>3. CheckpointFits(copy)' /\ PlaceFits(copy, loop)' /\ CopyHolds'
    BY <2>1, <2>2 DEF PlaceFits, LoopPlaces, CopyHolds, CheckpointFits, FailureFits
  <2> QED
    BY <1>1, <2>1, <2>2, <2>3 DEF ReactInv, CompletedIsVerified
<1>6. CASE StartReact
  <2>1. row.status = "none" /\ copy' = row' /\ loop' = "preflight" /\ UNCHANGED <<stale, retries, verified>>
    BY <1>6 DEF StartReact, History, NewRow
  <2>2. PICK contract \in BOOLEAN :
            row' = [NewRow EXCEPT !.status = "RUNNING", !.contract = contract]
    BY <1>6 DEF StartReact, NewRow
  <2>3. NoFailure \in FailureType /\ FailureFits(NoFailure) /\ NoFailure.attempt = 0
    BY ReactAssumption DEF NoFailure, FailureType, FailureFits
  <2>4. row' \in CheckpointType /\ row'.status = "RUNNING" /\ row'.error = NoFailure
        /\ row'.last = "user" /\ row'.attempts = 0 /\ row'.corrections = 0
    BY <2>2, <2>3 DEF NewRow, CheckpointType
  <2>5. CheckpointFits(row)'
    BY <2>3, <2>4, ReactAssumption DEF CheckpointFits, FailureFits
  <2>6. CheckpointFits(copy)' /\ PlaceFits(copy, loop)'
    BY <2>1, <2>4, <2>5 DEF PlaceFits, LoopPlaces, CheckpointFits, FailureFits
  <2>7. ~stale /\ stale \in BOOLEAN /\ row.error.attempt = 0
    BY <1>1, <2>1, <2>3 DEF ReactInv, CheckpointFits
  <2>8. CopyHolds' /\ RetriesFit(retries, row)' /\ CompletedIsVerified'
    BY <1>1, <2>1, <2>3, <2>4, <2>7 DEF CopyHolds, RetriesFit, CompletedIsVerified
  <2> QED
    BY <1>1, <2>1, <2>5, <2>6, <2>7, <2>8 DEF ReactInv
<1> QED
    BY <1>2, <1>3, <1>4, <1>5, <1>6

(* The invariant holds at first and in every step.                         *)
LEMMA ReactInvInit == ReactInit => ReactInv
<1> SUFFICES ASSUME ReactInit PROVE ReactInv
    OBVIOUS
<1>1. row = NewRow /\ copy = NewRow /\ loop = "down" /\ stale = FALSE /\ retries = 0 /\ verified = 0
    BY DEF ReactInit
<1>2. NoFailure \in FailureType /\ FailureFits(NoFailure) /\ NoFailure.attempt = 0
    BY ReactAssumption DEF NoFailure, FailureType, FailureFits
<1>3. NewRow \in CheckpointType /\ NewRow.error = NoFailure /\ NewRow.last = "user"
      /\ NewRow.attempts = 0 /\ NewRow.corrections = 0 /\ NewRow.status = "none" /\ ~NewRow.contract
    BY <1>2 DEF NewRow, CheckpointType
<1>4. CheckpointFits(NewRow)
    BY <1>2, <1>3, ReactAssumption DEF CheckpointFits
<1>5. PlaceFits(copy, loop) /\ CopyHolds
    BY <1>1 DEF PlaceFits, LoopPlaces, CopyHolds
<1>6. RetriesFit(retries, row) /\ CompletedIsVerified
    BY <1>1, <1>2, <1>3 DEF RetriesFit, CompletedIsVerified
<1> QED
    BY <1>1, <1>4, <1>5, <1>6 DEF ReactInv

(* Every step of the loop, the client and a crash keeps the invariant.     *)
LEMMA ReactInvStep == ReactInv /\ [ReactNext]_reactVars => ReactInv'
<1> SUFFICES ASSUME ReactInv, [ReactNext]_reactVars PROVE ReactInv'
    OBVIOUS
<1>1. CASE StartReact \/ CrashLoop \/ RecoverRun \/ InterruptRun \/ ResumeRun
    BY <1>1, ReactSurvives
<1>2. CASE PreflightStep
    BY <1>2, ReactPreflight
<1>3. CASE RunTool
    BY <1>3, ReactTool
<1>4. CASE FailRun
    BY <1>4, ReactFails DEF FailRun, History
<1>5. CASE ConsultError
    BY <1>5, ReactConsults
<1>6. CASE SendFirst
    BY <1>6, ReactSendsFirst
<1>7. CASE SendRetry
    BY <1>7, ReactSendsAgain
<1>8. CASE CallSucceeds
    BY <1>8, ReactAnswers
<1>9. CASE CallFails
    BY <1>9, ReactCallFails
<1>10. CASE JudgeAnswer
    BY <1>10, ReactJudges
<1>11. CASE UNCHANGED reactVars
    BY <1>11
    DEF reactVars, ReactInv, CheckpointFits, FailureFits, PlaceFits, CopyHolds, RetriesFit, CompletedIsVerified
<1> QED
    BY <1>1, <1>2, <1>3, <1>4, <1>5, <1>6, <1>7, <1>8, <1>9, <1>10, <1>11 DEF ReactNext, Execute

(* A call is sent from "attempt" alone, where the copy, which the save     *)
(* before it keeps but for the error, ends in something to answer.         *)
LEMMA ReactAsks ==
    ASSUME ReactInv, [ReactNext]_reactVars, loop # "calling", loop' = "calling"
    PROVE  copy'.open = 0 /\ copy'.last # "assistant"
<1>1. SendFirst \/ SendRetry
  <2>1. ~(StartReact \/ FailRun \/ PreflightStep \/ RunTool \/ ConsultError \/ CallSucceeds \/ CallFails)
    BY DEF StartReact, FailRun, PreflightStep, RunTool, ConsultError, CallSucceeds, CallFails,
           Commit, Goto, End, NextStep, Recorded
  <2>2. ~(CrashLoop \/ RecoverRun \/ InterruptRun \/ ResumeRun \/ JudgeAnswer)
    <3>1. ~JudgeAnswer
        BY DEF JudgeAnswer, Commit, Decide
    <3> QED
        BY <3>1 DEF CrashLoop, Goto, RecoverRun, InterruptRun, ResumeRun
  <2> QED
    BY <2>1, <2>2 DEF ReactNext, Execute, reactVars
<1>2. loop = "attempt"
    BY <1>1 DEF SendFirst, SendRetry
<1>3. CheckpointFits(copy) /\ copy.open = 0 /\ copy.last # "assistant"
    BY <1>2, ReactCopy DEF PlaceFits
<1>4. CASE SendFirst
    BY <1>3, <1>4 DEF SendFirst, Goto
<1>5. CASE SendRetry
  <2>1. copy' = copy \/ copy' = [copy EXCEPT !.error.attempt = @ + 1, !.error.started = TRUE]
    BY <1>5 DEF SendRetry, Commit
  <2>2. copy'.open = copy.open /\ copy'.last = copy.last
    BY <1>3, <2>1 DEF CheckpointFits, CheckpointType
  <2> QED
    BY <1>3, <2>2
<1> QED
    BY <1>1, <1>4, <1>5

(* Over any crashes and interrupts the retries of a call and the           *)
(* corrections stay within their limits, a Run with a contract completes   *)
(* on its last, verified answer, and a model call is only sent when there  *)
(* is something to answer (_execute_llm_step, _evaluate_completion).       *)
THEOREM LoopStaysDurable ==
    ReactSpec => /\ [](RetriesAreBounded /\ CompletedIsVerified /\ CorrectionsAreBounded)
                 /\ CallsHaveAQuestion
<1>1. ReactInv => RetriesAreBounded /\ CompletedIsVerified /\ CorrectionsAreBounded
  <2> SUFFICES ASSUME ReactInv PROVE RetriesAreBounded /\ CorrectionsAreBounded /\ CompletedIsVerified
    OBVIOUS
  <2>1. /\ row \in CheckpointType /\ row.error.attempt <= MaxAttempts /\ row.corrections <= MaxCorrections
        /\ RetriesFit(retries, row) /\ CompletedIsVerified
    BY DEF ReactInv, CheckpointFits, FailureFits
  <2> QED
    BY <2>1, ReactAssumption
    DEF RetriesFit, RetriesAreBounded, CorrectionsAreBounded, CheckpointType, FailureType
<1>2. ReactInv /\ [ReactNext]_reactVars =>
          [loop # "calling" /\ loop' = "calling" =>
               copy'.open = 0 /\ copy'.last # "assistant"]_reactVars
    BY ReactAsks
<1> QED
    BY <1>1, <1>2, ReactInvInit, ReactInvStep, PTL DEF ReactSpec, CallsHaveAQuestion

(***************************************************************************)
(* EventStream, with one writer.  An id that is not committed yet is       *)
(* greater than every committed one (IdsInOrder), so nothing appears below *)
(* what a poll has returned (RowsCover).                                   *)
(***************************************************************************)
StreamTyped ==
    /\ events \in [run : SUBSET Nat, other : SUBSET Nat] /\ lastId \in Nat
    /\ emitting \in [Emitter -> Nat] /\ ended \in BOOLEAN /\ received \in Seq(Nat)
    /\ follower \in [at : {"off", "poll", "write", "closed"}, cursor : Nat, rows : Seq(Nat),
                     quiet : BOOLEAN, ended : BOOLEAN]

IdsInOrder ==
    /\ \A id \in events.run \cup events.other :
          /\ 0 < id /\ id <= lastId
          /\ \A p \in Emitter : emitting[p] # 0 => id < lastId
    /\ \A p \in Emitter : emitting[p] # 0 =>
          emitting[p] = lastId /\ \A q \in Emitter : emitting[q] # 0 => q = p

\* The rows of a poll are those behind the cursor, up to the last of them.
RowsCover(rows, cursor) ==
    /\ \A i, j \in 1 .. Len(rows) : i < j => rows[i] < rows[j]
    /\ \A i \in 1 .. Len(rows) : rows[i] \in events.run /\ rows[i] > cursor
    /\ \A id \in events.run, j \in 1 .. Len(rows) :
          id > cursor /\ id <= rows[j] => \E i \in 1 .. Len(rows) : rows[i] = id

FollowerFits ==
    /\ follower.at \in {"poll", "write"} => follower.cursor = LastRead
    /\ follower.at = "write" => RowsCover(follower.rows, follower.cursor)

EndIsSeenFirst ==
    /\ early \subseteq events.run
    /\ follower.at = "closed" \/ follower.ended => ended
    /\ follower.at = "write" /\ follower.quiet /\ follower.ended =>
          \A id \in early : id <= follower.cursor
    /\ ClosedStreamIsComplete

StreamInv ==
    /\ StreamTyped /\ IdsInOrder /\ StreamHasNoGap /\ FollowerFits /\ EndIsSeenFirst

(* What was read last is an event of the Run, or nothing was.              *)
LEMMA StreamLastRead ==
    ASSUME StreamTyped, StreamHasNoGap
    PROVE  /\ LastRead \in Nat /\ (LastRead = 0 \/ LastRead \in events.run)
           /\ \A i \in 1 .. Len(received) : received[i] \in events.run /\ received[i] <= LastRead
           /\ \A id \in events.run : id <= LastRead => \E i \in 1 .. Len(received) : received[i] = id
<1>1. received \in Seq(Nat) /\ Len(received) \in Nat /\ DOMAIN received = 1 .. Len(received)
    BY DEF StreamTyped
<1>2. ToSet(received) = {received[i] : i \in 1 .. Len(received)}
    BY <1>1 DEF ToSet
<1>3. {received[i] : i \in 1 .. Len(received)} = {id \in events.run : id <= LastRead}
    BY <1>2 DEF StreamHasNoGap, InOrder
<1>4. \A i \in 1 .. Len(received) : received[i] \in events.run /\ received[i] <= LastRead
    BY <1>3
<1>5. \A id \in events.run : id <= LastRead => \E i \in 1 .. Len(received) : received[i] = id
    BY <1>3
<1>6. LastRead \in Nat /\ (LastRead = 0 \/ LastRead \in events.run)
  <2>1. CASE received = <<>>
    BY <2>1 DEF LastRead
  <2>2. CASE received # <<>>
    <3>1. Len(received) \in 1 .. Len(received) /\ LastRead = received[Len(received)]
        BY <1>1, <2>2 DEF LastRead, Last
    <3> QED
        BY <1>1, <1>4, <3>1
  <2> QED
    BY <2>1, <2>2
<1> QED
    BY <1>4, <1>5, <1>6

(* A new id is greater than every committed one, and the only one that is  *)
(* not committed: there is one writer.                                     *)
LEMMA StreamInserts ==
    ASSUME OneWriter, StreamInv, NEW p \in Emitter, InsertEvent(p)
    PROVE  StreamInv'
<1>1. /\ \A q \in Emitter : emitting[q] = 0
      /\ lastId' = lastId + 1 /\ emitting' = [emitting EXCEPT ![p] = lastId + 1]
      /\ UNCHANGED <<events, ended, follower, received, early, drops>>
    BY DEF InsertEvent
<1>2. lastId \in Nat /\ events.run \cup events.other \subseteq Nat /\ emitting \in [Emitter -> Nat]
    BY DEF StreamInv, StreamTyped
<1>3. StreamTyped'
    BY <1>1, <1>2 DEF StreamInv, StreamTyped
<1>4. IdsInOrder'
    BY <1>1, <1>2 DEF StreamInv, IdsInOrder
<1>5. StreamHasNoGap' /\ FollowerFits' /\ EndIsSeenFirst'
    BY <1>1
    DEF StreamInv, StreamHasNoGap, InOrder, FollowerFits, RowsCover, EndIsSeenFirst, ClosedStreamIsComplete, LastRead
<1> QED
    BY <1>3, <1>4, <1>5 DEF StreamInv

(* It is committed behind everything a client or a poll has seen.          *)
LEMMA StreamCommits ==
    ASSUME StreamInv, NEW p \in Emitter, CommitEvent(p)
    PROVE  StreamInv'
<1>1. PICK stream \in {"run", "other"} :
        /\ events' = [events EXCEPT ![stream] = @ \cup {emitting[p]}]
        /\ early' = IF ended \/ stream = "other" THEN early ELSE early \cup {emitting[p]}
    BY DEF CommitEvent
<1>2. /\ emitting[p] # 0 /\ emitting' = [emitting EXCEPT ![p] = 0]
      /\ UNCHANGED <<lastId, ended, follower, received, drops>>
    BY DEF CommitEvent
<1>3. /\ StreamTyped /\ IdsInOrder /\ emitting[p] = lastId /\ lastId \in Nat
      /\ \A id \in events.run \cup events.other : id \in Nat /\ 0 < id /\ id < lastId
      /\ \A q \in Emitter : q # p => emitting[q] = 0
    BY <1>2 DEF StreamInv, StreamTyped, IdsInOrder
<1>4. /\ events' \in [run : SUBSET Nat, other : SUBSET Nat]
      /\ events'.run = IF stream = "run" THEN events.run \cup {lastId} ELSE events.run
      /\ events'.other = IF stream = "run" THEN events.other ELSE events.other \cup {lastId}
    BY <1>1, <1>3 DEF StreamTyped
<1>5. StreamTyped'
    BY <1>2, <1>3, <1>4 DEF StreamTyped
<1>6. \A q \in Emitter : emitting'[q] = 0
    BY <1>2, <1>3 DEF StreamTyped
<1>7. IdsInOrder'
    BY <1>2, <1>3, <1>4, <1>6 DEF IdsInOrder
<1>8. LastRead' = LastRead /\ LastRead \in Nat /\ LastRead < lastId
  <2>1. LastRead \in Nat /\ (LastRead = 0 \/ LastRead \in events.run)
    BY StreamLastRead DEF StreamInv
  <2> QED
    BY <1>2, <1>3, <2>1 DEF LastRead
<1>9. StreamHasNoGap'
  <2>1. {id \in events'.run : id <= LastRead} = {id \in events.run : id <= LastRead}
    BY <1>3, <1>4, <1>8
  <2> QED
    BY <1>2, <1>8, <2>1 DEF StreamInv, StreamHasNoGap, InOrder
<1>10. FollowerFits'
  <2> SUFFICES ASSUME follower.at = "write" PROVE RowsCover(follower.rows, follower.cursor)'
    BY <1>2, <1>8 DEF StreamInv, FollowerFits
  <2>1. RowsCover(follower.rows, follower.cursor)
    BY DEF StreamInv, FollowerFits
  <2>2. \A i \in 1 .. Len(follower.rows) : follower.rows[i] \in events.run /\ follower.rows[i] < lastId
    BY <1>3, <2>1 DEF RowsCover
  <2>3. \A j \in 1 .. Len(follower.rows) : ~(lastId <= follower.rows[j])
    BY <1>3, <2>2
  <2> QED
    BY <1>2, <1>4, <2>1, <2>2, <2>3 DEF RowsCover
<1>11. EndIsSeenFirst'
  <2>1. early' \subseteq events'.run
    BY <1>1, <1>3, <1>4 DEF StreamInv, EndIsSeenFirst
  <2>2. ended => early' = early
    BY <1>1
  <2> QED
    BY <1>2, <2>1, <2>2 DEF StreamInv, EndIsSeenFirst, ClosedStreamIsComplete
<1> QED
    BY <1>5, <1>7, <1>9, <1>10, <1>11 DEF StreamInv

(* A poll reads what is behind the cursor, in order; finding nothing after *)
(* the end was seen, nothing early is left.                                *)
LEMMA StreamPolls ==
    ASSUME StreamInv, PollEvents
    PROVE  StreamInv'
<1>1. PICK rows \in [1 .. Cardinality(NewEvents) -> NewEvents] :
        /\ InOrder(rows, NewEvents)
        /\ follower' = [follower EXCEPT !.at = "write", !.rows = rows, !.quiet = (NewEvents = {})]
    BY DEF PollEvents
<1>2. /\ follower.at = "poll" /\ UNCHANGED <<events, lastId, emitting, ended, received, early, drops>>
    BY DEF PollEvents
<1>3. /\ StreamTyped /\ IdsInOrder
      /\ NewEvents \subseteq Nat /\ NewEvents \subseteq 1 .. lastId /\ lastId \in Nat
    BY DEF StreamInv, StreamTyped, IdsInOrder, NewEvents
<1>4. Cardinality(NewEvents) \in Nat
  <2>1. IsFiniteSet(1 .. lastId)
    BY <1>3, FS_Interval
  <2>2. IsFiniteSet(NewEvents)
    BY <1>3, <2>1, FS_Subset
  <2> QED
    BY <2>2, FS_CardinalityType
<1>5. rows \in Seq(Nat) /\ Len(rows) = Cardinality(NewEvents) /\ DOMAIN rows = 1 .. Len(rows)
    BY <1>1, <1>3, <1>4
<1>6. /\ follower'.at = "write" /\ follower'.rows = rows /\ follower'.quiet = (NewEvents = {})
      /\ follower'.cursor = follower.cursor /\ follower'.ended = follower.ended
      /\ follower' \in [at : {"off", "poll", "write", "closed"}, cursor : Nat, rows : Seq(Nat),
                        quiet : BOOLEAN, ended : BOOLEAN]
  <2>1. follower' = [at |-> "write", cursor |-> follower.cursor, rows |-> rows,
                     quiet |-> (NewEvents = {}), ended |-> follower.ended]
    BY <1>1, <1>3 DEF StreamTyped
  <2> QED
    BY <1>3, <1>5, <2>1 DEF StreamTyped
<1>7. StreamTyped' /\ IdsInOrder' /\ StreamHasNoGap'
    BY <1>2, <1>3, <1>6 DEF StreamInv, StreamTyped, IdsInOrder, StreamHasNoGap, InOrder, LastRead
<1>8. FollowerFits'
  <2>1. \A id \in NewEvents : \E i \in 1 .. Len(rows) : rows[i] = id
    BY <1>1, <1>5 DEF InOrder, ToSet
  <2>2. RowsCover(rows, follower.cursor)
    BY <1>1, <1>5, <2>1 DEF RowsCover, InOrder, NewEvents
  <2> QED
    BY <1>2, <1>6, <2>2 DEF StreamInv, FollowerFits, RowsCover, LastRead
<1>9. EndIsSeenFirst'
  <2>1. NewEvents = {} => \A id \in events.run : id <= follower.cursor
    BY <1>3 DEF NewEvents, StreamTyped
  <2> QED
    BY <1>2, <1>6, <2>1 DEF StreamInv, EndIsSeenFirst, ClosedStreamIsComplete
<1> QED
    BY <1>7, <1>8, <1>9 DEF StreamInv

(* The client reads the first row, the very next event of the Run.         *)
LEMMA StreamWrites ==
    ASSUME StreamInv, WriteEvent
    PROVE  StreamInv'
<1> DEFINE rows == follower.rows
           n    == Len(received)
<1>1. /\ follower.at = "write" /\ rows # <<>> /\ received' = Append(received, Head(rows))
      /\ follower' = [follower EXCEPT !.cursor = Head(rows), !.rows = Tail(@)]
      /\ UNCHANGED <<events, lastId, emitting, ended, early, drops>>
    BY DEF WriteEvent
<1>2. StreamTyped /\ rows \in Seq(Nat) /\ received \in Seq(Nat)
    BY DEF StreamInv, StreamTyped
<1>3. RowsCover(rows, follower.cursor) /\ follower.cursor = LastRead /\ events.run \subseteq Nat
    BY <1>1, <1>2 DEF StreamInv, FollowerFits, StreamTyped
<1>4. /\ Len(rows) \in Nat \ {0} /\ Head(rows) = rows[1] /\ rows[1] \in Nat
      /\ Tail(rows) \in Seq(Nat) /\ Len(Tail(rows)) = Len(rows) - 1
      /\ \A i \in 1 .. Len(rows) - 1 : Tail(rows)[i] = rows[i + 1]
    BY <1>1, <1>2
<1>5. /\ n \in Nat /\ Len(received') = n + 1 /\ received'[n + 1] = rows[1] /\ received' # <<>>
      /\ received' \in Seq(Nat) /\ DOMAIN received' = 1 .. n + 1
      /\ \A i \in 1 .. n : received'[i] = received[i]
    BY <1>1, <1>2, <1>4
<1>6. /\ LastRead \in Nat
      /\ \A i \in 1 .. n : received[i] \in events.run /\ received[i] <= LastRead
      /\ \A id \in events.run : id <= LastRead => \E i \in 1 .. n : received[i] = id
    BY StreamLastRead DEF StreamInv
<1>7. rows[1] \in events.run /\ rows[1] > LastRead
    BY <1>3, <1>4 DEF RowsCover
<1>8. LastRead' = rows[1]
    BY <1>5 DEF LastRead, Last
<1>9. \A id \in events.run : id > LastRead /\ id <= rows[1] => id = rows[1]
  <2> SUFFICES ASSUME NEW id \in events.run, id > LastRead, id <= rows[1]
               PROVE  id = rows[1]
    OBVIOUS
  <2>1. PICK i \in 1 .. Len(rows) : rows[i] = id
    BY <1>3, <1>4 DEF RowsCover
  <2>2. i # 1 => rows[1] < rows[i]
    BY <1>3, <1>4 DEF RowsCover
  <2> QED
    BY <1>3, <1>4, <2>1, <2>2
<1>10. follower' \in [at : {"off", "poll", "write", "closed"}, cursor : Nat, rows : Seq(Nat),
                      quiet : BOOLEAN, ended : BOOLEAN]
       /\ follower'.at = "write" /\ follower'.cursor = rows[1] /\ follower'.rows = Tail(rows)
       /\ follower'.quiet = follower.quiet /\ follower'.ended = follower.ended
  <2>1. follower' = [at |-> "write", cursor |-> rows[1], rows |-> Tail(rows),
                     quiet |-> follower.quiet, ended |-> follower.ended]
    BY <1>1, <1>2, <1>4 DEF StreamTyped
  <2> QED
    BY <1>2, <1>4, <2>1 DEF StreamTyped
<1> HIDE DEF n, rows
<1>11. StreamTyped' /\ IdsInOrder'
    BY <1>1, <1>5, <1>10 DEF StreamInv, StreamTyped, IdsInOrder
<1>12. StreamHasNoGap'
  <2>1. \A i, j \in 1 .. n + 1 : i < j => received'[i] < received'[j]
    <3>1. \A i, j \in 1 .. n : i < j => received[i] < received[j]
        BY DEF StreamInv, StreamHasNoGap, InOrder, n
    <3>2. \A i \in 1 .. n : received[i] < rows[1]
        BY <1>3, <1>4, <1>6, <1>7
    <3> QED
        BY <1>5, <3>1, <3>2
  <2>2. {received'[i] : i \in 1 .. n + 1} = {id \in events.run : id <= rows[1]}
    <3>1. ASSUME NEW i \in 1 .. n + 1
          PROVE  received'[i] \in events.run /\ received'[i] <= rows[1]
      <4>1. CASE i = n + 1
        BY <1>4, <1>5, <1>7, <4>1
      <4>2. CASE i \in 1 .. n
        <5>1. received'[i] = received[i]
            BY <1>5, <4>2
        <5>2. received[i] \in events.run /\ received[i] \in Nat /\ received[i] <= LastRead
            BY <1>3, <1>6, <4>2
        <5> QED
            BY <1>4, <1>6, <1>7, <5>1, <5>2
      <4> QED
        BY <1>5, <4>1, <4>2
    <3>2. ASSUME NEW id \in events.run, id <= rows[1]
          PROVE  \E i \in 1 .. n + 1 : received'[i] = id
      <4>1. CASE id <= LastRead
        BY <1>5, <1>6, <4>1
      <4>2. CASE id > LastRead
        BY <1>5, <1>9, <3>2, <4>2
      <4> QED
        BY <1>3, <1>6, <4>1, <4>2
    <3> QED
        BY <3>1, <3>2
  <2>3. ToSet(received)' = {received'[i] : i \in 1 .. n + 1}
    BY <1>5 DEF ToSet
  <2> QED
    BY <1>1, <1>5, <1>8, <2>1, <2>2, <2>3 DEF StreamHasNoGap, InOrder
<1>13. FollowerFits'
  <2>1. \A i, j \in 1 .. Len(rows) - 1 : i < j => Tail(rows)[i] < Tail(rows)[j]
    BY <1>3, <1>4 DEF RowsCover
  <2>2. \A i \in 1 .. Len(rows) - 1 : Tail(rows)[i] \in events.run /\ Tail(rows)[i] > rows[1]
    BY <1>3, <1>4 DEF RowsCover
  <2>3. ASSUME NEW id \in events.run, NEW j \in 1 .. Len(rows) - 1, id > rows[1], id <= Tail(rows)[j]
        PROVE  \E i \in 1 .. Len(rows) - 1 : Tail(rows)[i] = id
    <3>1. id > LastRead /\ id <= rows[j + 1]
        BY <1>3, <1>4, <1>6, <1>7, <2>3
    <3>2. PICK i \in 1 .. Len(rows) : rows[i] = id
        BY <1>3, <1>4, <3>1 DEF RowsCover
    <3>3. i # 1
        BY <1>3, <1>4, <2>3, <3>2
    <3> QED
        BY <1>4, <3>2, <3>3
  <2>4. RowsCover(Tail(rows), rows[1])
    BY <1>4, <2>1, <2>2, <2>3 DEF RowsCover
  <2> QED
    BY <1>1, <1>8, <1>10, <2>4 DEF FollowerFits, RowsCover
<1>14. EndIsSeenFirst'
  <2>1. early \subseteq events.run /\ (follower.quiet /\ follower.ended => \A id \in early : id <= rows[1])
    BY <1>1, <1>3, <1>4, <1>6, <1>7 DEF StreamInv, EndIsSeenFirst
  <2> QED
    BY <1>1, <1>10, <2>1 DEF StreamInv, EndIsSeenFirst, ClosedStreamIsComplete
<1> QED
    BY <1>11, <1>12, <1>13, <1>14 DEF StreamInv

(* The stream is closed when the end had been seen before the poll that    *)
(* found nothing, which has read all that was early (_send_events).        *)
LEMMA StreamCloses ==
    ASSUME StreamInv, CheckRunEnded
    PROVE  StreamInv'
<1>1. /\ follower.at = "write"
      /\ follower' = IF ended /\ QuietAfterTheEnd THEN [follower EXCEPT !.at = "closed"]
                     ELSE [follower EXCEPT !.at = "poll", !.ended = ended]
      /\ UNCHANGED <<events, lastId, emitting, ended, received, early, drops>>
    BY DEF CheckRunEnded
<1>2. StreamTyped
    BY DEF StreamInv
<1>3. CASE ended /\ QuietAfterTheEnd
  <2>1. /\ follower'.at = "closed" /\ follower'.ended = follower.ended
        /\ follower' \in [at : {"off", "poll", "write", "closed"}, cursor : Nat, rows : Seq(Nat),
                          quiet : BOOLEAN, ended : BOOLEAN]
    BY <1>1, <1>2, <1>3 DEF StreamTyped
  <2>2. ClosedStreamIsComplete'
    <3>1. \A id \in early : id \in events.run /\ id <= LastRead
        BY <1>1, <1>3 DEF StreamInv, EndIsSeenFirst, FollowerFits, QuietAfterTheEnd
    <3>2. early \subseteq ToSet(received)
        BY <3>1 DEF StreamInv, StreamHasNoGap, InOrder
    <3> QED
        BY <1>1, <3>2 DEF ClosedStreamIsComplete
  <2> QED
    BY <1>1, <1>3, <2>1, <2>2
    DEF StreamInv, StreamTyped, IdsInOrder, StreamHasNoGap, InOrder, FollowerFits, EndIsSeenFirst, LastRead
<1>4. CASE ~(ended /\ QuietAfterTheEnd)
  <2>1. /\ follower'.at = "poll" /\ follower'.ended = ended /\ follower'.cursor = follower.cursor
        /\ follower' \in [at : {"off", "poll", "write", "closed"}, cursor : Nat, rows : Seq(Nat),
                          quiet : BOOLEAN, ended : BOOLEAN]
    <3>1. follower' = [at |-> "poll", cursor |-> follower.cursor, rows |-> follower.rows,
                       quiet |-> follower.quiet, ended |-> ended]
        BY <1>1, <1>2, <1>4 DEF StreamTyped
    <3> QED
        BY <1>2, <3>1 DEF StreamTyped
  <2> QED
    BY <1>1, <2>1
    DEF StreamInv, StreamTyped, IdsInOrder, StreamHasNoGap, InOrder, FollowerFits, EndIsSeenFirst,
        ClosedStreamIsComplete, LastRead
<1> QED
    BY <1>3, <1>4

(* A connection starts behind the last event its client has read.          *)
LEMMA StreamConnects ==
    ASSUME StreamInv, Follow \/ LoseConnection \/ EndRun
    PROVE  StreamInv'
<1>1. StreamTyped /\ LastRead \in Nat
    BY StreamLastRead DEF StreamInv
<1>2. Idle \in [at : {"off"}, cursor : Nat, rows : Seq(Nat), quiet : BOOLEAN, ended : BOOLEAN] /\ ~Idle.ended
    BY DEF Idle
<1>3. UNCHANGED <<events, lastId, emitting, received, early>>
    BY DEF Follow, LoseConnection, EndRun
<1>4. IdsInOrder' /\ StreamHasNoGap' /\ LastRead' = LastRead
    BY <1>3 DEF StreamInv, IdsInOrder, StreamHasNoGap, InOrder, LastRead
<1>5. CASE Follow
  <2>1. ended' = ended /\ follower' = [[Idle EXCEPT !.at = "poll"] EXCEPT !.cursor = LastRead]
    BY <1>5 DEF Follow
  <2>2. follower' = [at |-> "poll", cursor |-> LastRead, rows |-> <<>>, quiet |-> FALSE, ended |-> FALSE]
    BY <2>1 DEF Idle
  <2>3. /\ follower' \in [at : {"off", "poll", "write", "closed"}, cursor : Nat, rows : Seq(Nat),
                          quiet : BOOLEAN, ended : BOOLEAN]
        /\ follower'.at = "poll" /\ follower'.cursor = LastRead /\ ~follower'.ended
    BY <1>1, <2>2
  <2>4. StreamTyped'
    BY <1>1, <1>3, <2>1, <2>3 DEF StreamTyped
  <2>5. FollowerFits'
    BY <1>4, <2>3 DEF FollowerFits
  <2>6. EndIsSeenFirst'
    BY <1>3, <2>3 DEF StreamInv, EndIsSeenFirst, ClosedStreamIsComplete
  <2> QED
    BY <1>4, <2>4, <2>5, <2>6 DEF StreamInv
<1>6. CASE LoseConnection
  <2>1. ended' = ended /\ follower' = Idle
    BY <1>6 DEF LoseConnection
  <2> QED
    BY <1>1, <1>2, <1>3, <1>4, <2>1
    DEF StreamInv, StreamTyped, FollowerFits, EndIsSeenFirst, ClosedStreamIsComplete
<1>7. CASE EndRun
  <2>1. ended' = TRUE /\ UNCHANGED follower
    BY <1>7 DEF EndRun
  <2> QED
    BY <1>1, <1>3, <1>4, <2>1
    DEF StreamInv, StreamTyped, FollowerFits, RowsCover, EndIsSeenFirst, ClosedStreamIsComplete
<1> QED
    BY <1>5, <1>6, <1>7

(* No event has been written and no client follows the Run at first.       *)
LEMMA StreamInvInit == StreamInit => StreamInv
<1> SUFFICES ASSUME StreamInit PROVE StreamInv
    OBVIOUS
<1>1. /\ events = [run |-> {}, other |-> {}] /\ lastId = 0 /\ emitting = [p \in Emitter |-> 0]
      /\ ended = FALSE /\ received = <<>> /\ early = {}
      /\ follower = [at |-> "off", cursor |-> 0, rows |-> <<>>, quiet |-> FALSE, ended |-> FALSE]
    BY DEF StreamInit, Idle
<1>2. StreamTyped
  <2>1. <<>> \in Seq(Nat)
    OBVIOUS
  <2>2. /\ follower \in [at : {"off", "poll", "write", "closed"}, cursor : Nat, rows : Seq(Nat),
                         quiet : BOOLEAN, ended : BOOLEAN]
        /\ events \in [run : SUBSET Nat, other : SUBSET Nat] /\ emitting \in [Emitter -> Nat]
    BY <1>1, <2>1
  <2> QED
    BY <1>1, <2>1, <2>2 DEF StreamTyped
<1>3. StreamHasNoGap
  <2>1. events.run = {} /\ Len(received) = 0 /\ DOMAIN received = {}
    BY <1>1
  <2>2. ToSet(received) = {}
    BY <2>1 DEF ToSet
  <2> QED
    BY <2>1, <2>2 DEF StreamHasNoGap, InOrder
<1> QED
    BY <1>1, <1>2, <1>3
    DEF StreamInv, IdsInOrder, FollowerFits, EndIsSeenFirst, ClosedStreamIsComplete

(* Over the one writer of SQLite, what a client reads over any reconnects  *)
(* are the events of the Run from the first on, in order, none twice and   *)
(* none left out, and a stream that is closed has delivered what was       *)
(* committed before the Run ended (_send_events, list_events).  With the   *)
(* many writers of PostgreSQL this does not hold.                          *)
THEOREM ClientsMissNothing ==
    OneWriter => (StreamSpec => [](StreamHasNoGap /\ ClosedStreamIsComplete))
<1> SUFFICES ASSUME OneWriter PROVE StreamSpec => [](StreamHasNoGap /\ ClosedStreamIsComplete)
    OBVIOUS
<1>1. StreamInv /\ [StreamNext]_streamVars => StreamInv'
  <2> SUFFICES ASSUME StreamInv, [StreamNext]_streamVars PROVE StreamInv'
    OBVIOUS
  <2>1. ASSUME NEW p \in Emitter, InsertEvent(p) \/ CommitEvent(p)
        PROVE  StreamInv'
    BY <2>1, StreamInserts, StreamCommits
  <2>2. CASE PollEvents
    BY <2>2, StreamPolls
  <2>3. CASE WriteEvent
    BY <2>3, StreamWrites
  <2>4. CASE CheckRunEnded
    BY <2>4, StreamCloses
  <2>5. CASE Follow \/ LoseConnection \/ EndRun
    BY <2>5, StreamConnects
  <2>6. CASE UNCHANGED streamVars
    BY <2>6
    DEF streamVars, StreamInv, StreamTyped, IdsInOrder, StreamHasNoGap, InOrder, FollowerFits, RowsCover,
        EndIsSeenFirst, ClosedStreamIsComplete, LastRead
  <2> QED
    BY <2>1, <2>2, <2>3, <2>4, <2>5, <2>6 DEF StreamNext, Serve
<1>2. StreamInv => StreamHasNoGap /\ ClosedStreamIsComplete
    BY DEF StreamInv, EndIsSeenFirst
<1> QED
    BY <1>1, <1>2, StreamInvInit, PTL DEF StreamSpec

(***************************************************************************)
(* CommandExecution.  Without a timeout or a cancellation the result is    *)
(* only captured once nothing of the group lives, and the dead start       *)
(* nothing.                                                                *)
(***************************************************************************)
CommandInv ==
    /\ call \in [at : {"called", "wait", "sweep", "terminate", "capture", "over"},
                 because : {"none", "timeout", "cancel"}, outcome : {"none", "returned", "cancelled"}]
    /\ call.outcome = "returned" => call.at = "over"
    /\ call.at = "terminate" => call.because # "none"
    /\ call.at = "called" => call.outcome = "none"
    /\ call.because = "none" /\ (call.at = "capture" \/ call.outcome = "returned") => alive = {}

(* The backend's own steps and the cancellations of its caller.            *)
LEMMA CommandCallKeeps ==
    ASSUME CommandInv, CallSteps \/ Cancel
    PROVE  CommandInv'
<1> DEFINE Type == [at : {"called", "wait", "sweep", "terminate", "capture", "over"},
                    because : {"none", "timeout", "cancel"}, outcome : {"none", "returned", "cancelled"}]
<1>1. call \in Type
    BY DEF CommandInv
<1>2. CASE ShellEnds
  <2>1. PICK at \in {"capture", "sweep"} :
            call' = [call EXCEPT !.at = at] /\ (at = "capture" => alive = {} /\ alive' = {})
    BY <1>2 DEF ShellEnds, CommandTo, SendTerm, groupVars
  <2>2. call' \in Type /\ call'.at = at /\ call'.because = call.because /\ call'.outcome = call.outcome
    BY <1>1, <2>1
  <2>3. call.at = "wait"
    BY <1>2 DEF ShellEnds
  <2> QED
    BY <2>1, <2>2, <2>3 DEF CommandInv
<1>3. CASE SweepGraceOver
  <2>1. call.at = "sweep" /\ call' = [call EXCEPT !.at = "capture"] /\ alive' = {}
    BY <1>3 DEF SweepGraceOver, CommandTo, SendKill, groupVars
  <2>2. call' \in Type /\ call'.at = "capture" /\ call'.outcome = call.outcome
    BY <1>1, <2>1
  <2> QED
    BY <2>1, <2>2 DEF CommandInv
<1>4. ASSUME NEW because \in {"timeout", "cancel"}, Terminate(because)
      PROVE  CommandInv'
  <2>1. /\ call.at = "wait"
        /\ \E at \in {"terminate", "capture"} : call' = [[call EXCEPT !.at = at] EXCEPT !.because = because]
    BY <1>4 DEF Terminate
  <2>2. PICK at \in {"terminate", "capture"} :
            call' = [at |-> at, because |-> because, outcome |-> call.outcome]
    BY <1>1, <2>1
  <2>3. call' \in Type /\ call'.at = at /\ call'.because = because /\ call'.outcome = call.outcome
    BY <1>1, <2>2
  <2> QED
    BY <2>1, <2>3 DEF CommandInv
<1>5. CASE ShellObeys \/ GraceOver
  <2>1. call.at = "terminate" /\ call' = [call EXCEPT !.at = "capture"]
    BY <1>5 DEF ShellObeys, GraceOver, CommandTo
  <2>2. call' \in Type /\ call'.at = "capture" /\ call'.because = call.because /\ call'.outcome = call.outcome
    BY <1>1, <2>1
  <2> QED
    BY <2>1, <2>2 DEF CommandInv
<1>6. CASE FinishCapture
  <2>1. call.at = "capture" /\ alive' = alive
    BY <1>6 DEF FinishCapture, groupVars
  <2>2. PICK outcome \in {"cancelled", "returned"} :
            call' = [call EXCEPT !.at = "over", !.outcome = outcome]
    <3>1. CASE Ended
      <4>1. call.outcome = "cancelled"
        BY <1>1, <2>1, <3>1 DEF CommandInv, Ended
      <4>2. CASE call.because = "cancel"
        BY <1>1, <1>6, <3>1, <4>1, <4>2 DEF FinishCapture
      <4>3. CASE call.because # "cancel"
        BY <1>1, <1>6, <3>1, <4>1, <4>3 DEF FinishCapture
      <4> QED
        BY <4>2, <4>3
    <3>2. CASE ~Ended /\ call.because = "cancel"
      <4>1. call' = [call EXCEPT !.at = "over", !.outcome = "cancelled"]
        BY <1>6, <3>2 DEF FinishCapture
      <4> QED
        BY <4>1
    <3>3. CASE ~Ended /\ call.because # "cancel"
      <4>1. call' = [call EXCEPT !.at = "over", !.outcome = "returned"]
        BY <1>6, <3>3 DEF FinishCapture
      <4> QED
        BY <4>1
    <3> QED
      BY <3>1, <3>2, <3>3
  <2>3. call' = [at |-> "over", because |-> call.because, outcome |-> outcome]
    BY <1>1, <2>2
  <2>4. call' \in Type /\ call'.at = "over" /\ call'.because = call.because
    BY <1>1, <2>3
  <2> QED
    BY <2>1, <2>4 DEF CommandInv
<1>7. CASE CancelCleanup
  <2>1. /\ call.at \in {"sweep", "terminate", "capture"} /\ alive' = alive
        /\ \E at \in {call.at, "over"} : call' = [[call EXCEPT !.outcome = "cancelled"] EXCEPT !.at = at]
    BY <1>7 DEF CancelCleanup, groupVars
  <2>2. PICK at \in {call.at, "over"} :
            call' = [at |-> at, because |-> call.because, outcome |-> "cancelled"]
    BY <1>1, <2>1
  <2>3. call' \in Type /\ call'.at = at /\ call'.because = call.because /\ call'.outcome = "cancelled"
    BY <1>1, <2>1, <2>2
  <2> QED
    BY <2>1, <2>3 DEF CommandInv
<1> QED
    BY <1>2, <1>3, <1>4, <1>5, <1>6, <1>7 DEF CallSteps, Cancel, CancelWait, TimeOut

(* The processes of the command: where none lives none is started.         *)
LEMMA CommandGroupKeeps ==
    ASSUME CommandInv,
           Launch \/ \E p \in Group : StartBackground(p) \/ ExitByItself(p) \/ DieOfTerm(p)
    PROVE  CommandInv'
<1>1. CASE Launch
  <2>1. call.at = "called" /\ call' = [call EXCEPT !.at = "wait"]
    BY <1>1 DEF Launch, CommandTo
  <2>2. /\ call' \in [at : {"called", "wait", "sweep", "terminate", "capture", "over"},
                      because : {"none", "timeout", "cancel"}, outcome : {"none", "returned", "cancelled"}]
        /\ call'.at = "wait" /\ call'.outcome = call.outcome
    BY <2>1 DEF CommandInv
  <2> QED
    BY <2>1, <2>2 DEF CommandInv
<1>2. ASSUME NEW p \in Group, StartBackground(p) \/ ExitByItself(p) \/ DieOfTerm(p)
      PROVE  CommandInv'
  <2>1. call' = call /\ (alive = {} => alive' = {})
    BY <1>2 DEF StartBackground, ExitByItself, DieOfTerm
  <2> QED
    BY <2>1 DEF CommandInv
<1> QED
    BY <1>1, <1>2

(* A command whose shell ended by itself has left no process when its      *)
(* result is returned, whatever it put in the background and whoever       *)
(* ignores SIGTERM (_cleanup_finished_posix_group).                        *)
THEOREM ResultsLeaveNoProcess == CommandSpec => []ResultLeavesNoProcess
<1>1. CommandInit => CommandInv
    BY DEF CommandInit, CommandInv
<1>2. CommandInv /\ [CommandNext]_commandVars => CommandInv'
  <2>1. CommandInv /\ UNCHANGED commandVars => CommandInv'
    BY DEF CommandInv, commandVars
  <2> QED
    BY <2>1, CommandCallKeeps, CommandGroupKeeps DEF CommandNext
<1>3. CommandInv => ResultLeavesNoProcess
    BY DEF CommandInv, ResultLeavesNoProcess
<1> QED
    BY <1>1, <1>2, <1>3, PTL DEF CommandSpec

(***************************************************************************)
(* ContextWindow.  The results of a call stand behind it (ResultsFollow),  *)
(* so that the units are known (WindowUnitEnd); a summary ends where a     *)
(* unit does, before the objective and the newest messages (Covers).       *)
(***************************************************************************)
MessageType == [role : {"user", "assistant", "tool"}, call : Nat, calls : Nat, size : Nat]

\* A result names the call that it stands behind, and nothing else stands there.
ResultsFollow(m) ==
    /\ m \in Seq(MessageType)
    /\ \A i \in 1 .. Len(m) : m[i].role = "tool" =>
          m[i].call \in 1 .. (i - 1) /\ i <= m[i].call + m[m[i].call].calls
    /\ \A i \in 1 .. Len(m) : m[i].calls > 0 => m[i].role = "assistant"
    /\ \A i, k \in 1 .. Len(m) : i < k /\ k <= i + m[i].calls => m[k].role = "tool" /\ m[k].call = i

Answered(m, i) == i + m[i].calls <= Len(m)

Complete(m) == ResultsFollow(m) /\ \A i \in 1 .. Len(m) : Answered(m, i)

\* The last answer, which asks for tools whose results are not all there.
Awaits(m, a) ==
    /\ a \in 1 .. Len(m) /\ ~Answered(m, a)
    /\ \A i \in 1 .. Len(m) : i # a => Answered(m, i)

LastAnswer(m, a) ==
    /\ a \in 1 .. Len(m) /\ m[a].role = "assistant"
    /\ \A i \in 1 .. Len(m) : m[i].role = "assistant" => i <= a

\* What the first n messages, the summarized ones, are to the log m with its objective.
Covers(m, o, n) ==
    /\ n \in Nat /\ n < o /\ m[n + 1].role # "tool"
    /\ n > 0 => n <= Len(m) - RawReserve

WindowInv ==
    /\ ResultsFollow(log)
    /\ asking \in {"start", "model", "tools", "done", "overflow"}
    /\ IF asking = "tools" THEN \E a \in 1 .. Len(log) : Awaits(log, a) /\ LastAnswer(log, a)
       ELSE Complete(log)
    /\ IF asking = "start" THEN compaction.covered = 0
       ELSE /\ objective \in 1 .. Len(log) /\ log[objective].role = "user"
            /\ Covers(log, objective, compaction.covered)
    /\ compaction = [covered |-> compaction.covered, of |-> 1 .. compaction.covered]
    /\ asking = "done" => LastAnswer(log, Len(log))
    /\ ContextIsWhole

(* The messages are messages.                                              *)
LEMMA WindowMessages ==
    ASSUME NEW m, ResultsFollow(m)
    PROVE  /\ m \in Seq(MessageType) /\ Len(m) \in Nat /\ DOMAIN m = 1 .. Len(m)
           /\ \A i \in 1 .. Len(m) :
                 m[i] \in MessageType /\ m[i].calls \in Nat /\ (m[i].calls > 0 => m[i].role # "tool")
<1>1. m \in Seq(MessageType)
    BY DEF ResultsFollow
<1>2. Len(m) \in Nat /\ DOMAIN m = 1 .. Len(m) /\ \A i \in 1 .. Len(m) : m[i] \in MessageType
    BY <1>1
<1>3. \A i \in 1 .. Len(m) : m[i].calls \in Nat
    BY <1>2 DEF MessageType
<1>4. \A i \in 1 .. Len(m) : m[i].calls > 0 => m[i].role = "assistant"
    BY DEF ResultsFollow
<1> QED
    BY <1>1, <1>2, <1>3, <1>4

(* A call and its results are a unit.                                      *)
LEMMA WindowUnitEnd ==
    ASSUME NEW m, Complete(m), NEW i \in 1 .. Len(m), m[i].role # "tool"
    PROVE  UnitEnd(m, i) = i + m[i].calls
<1>0. ResultsFollow(m)
    BY DEF Complete
<1>1. m \in Seq(MessageType) /\ Len(m) \in Nat /\ m[i] \in MessageType /\ m[i].calls \in Nat
    BY <1>0, WindowMessages
<1>2. CASE m[i].calls = 0
    BY <1>1, <1>2 DEF UnitEnd
<1>3. CASE m[i].calls > 0
  <2> DEFINE end == i + m[i].calls
             next == {j \in (i + 1) .. Len(m) : m[j].role # "tool"}
  <2>1. end \in Nat /\ end <= Len(m) /\ i < end
    BY <1>1, <1>3 DEF Complete, Answered
  <2>2. \A j \in next : j > end
    BY <1>1, <2>1 DEF Complete, ResultsFollow
  <2>3. end < Len(m) => end + 1 \in next
    <3> SUFFICES ASSUME end < Len(m), m[end + 1].role = "tool" PROVE FALSE
        BY <1>1, <2>1
    <3> DEFINE c == m[end + 1].call
    <3>1. c \in 1 .. end /\ end + 1 <= c + m[c].calls
        BY <1>1, <2>1 DEF Complete, ResultsFollow
    <3>2. c \in 1 .. Len(m) /\ m[c].calls \in Nat
      <4>1. c \in 1 .. Len(m)
          BY <1>1, <2>1, <3>1
      <4> QED
          BY <1>0, <4>1, WindowMessages
    <3>3. m[c].role # "tool"
      <4>1. m[c].calls > 0
          BY <2>1, <3>1, <3>2
      <4> QED
          BY <1>0, <3>2, <4>1, WindowMessages
    <3>4. c # i
        BY <1>1, <2>1, <3>1
    <3>5. c < i => m[i].role = "tool"
        BY <1>1, <2>1, <3>1, <3>2 DEF Complete, ResultsFollow
    <3>6. c > i => m[c].role = "tool"
        BY <1>1, <2>1, <3>1, <3>2 DEF Complete, ResultsFollow
    <3> QED
        BY <3>2, <3>3, <3>4, <3>5, <3>6
  <2>4. CASE next = {}
    BY <1>1, <1>3, <2>1, <2>3, <2>4 DEF UnitEnd
  <2>5. CASE next # {}
    <3>1. end + 1 \in next
        BY <1>1, <2>1, <2>2, <2>3, <2>5
    <3> DEFINE first == CHOOSE j \in next : \A k \in next : j <= k
    <3>2. first = end + 1
      <4>1. \A k \in next : end + 1 <= k
        BY <1>1, <2>1, <2>2
      <4>2. \A j \in next : (\A k \in next : j <= k) => j = end + 1
        BY <1>1, <2>1, <3>1, <4>1
      <4> HIDE DEF next, end
      <4> QED
        BY <3>1, <4>1, <4>2
    <3>3. UnitEnd(m, i) = first - 1
        BY <1>1, <1>3, <2>5 DEF UnitEnd
    <3> HIDE DEF first
    <3> QED
        BY <1>1, <2>1, <3>2, <3>3
  <2> QED
    BY <2>4, <2>5
<1> QED
    BY <1>1, <1>2, <1>3

(* Each message is in a unit, which begins with no result.                 *)
LEMMA WindowUnits ==
    ASSUME NEW m, Complete(m)
    PROVE  /\ \A u \in MessageUnits(m) :
                 u[1] \in 1 .. Len(m) /\ u[2] \in Nat /\ u[1] <= u[2] /\ m[u[1]].role # "tool"
           /\ \A p \in 1 .. Len(m) : \E u \in MessageUnits(m) :
                 u[1] <= p /\ p <= u[2] /\ (m[p].role # "tool" => u[1] = p)
<1>0. ResultsFollow(m)
    BY DEF Complete
<1>1. /\ m \in Seq(MessageType) /\ Len(m) \in Nat /\ DOMAIN m = 1 .. Len(m)
      /\ \A i \in 1 .. Len(m) : m[i] \in MessageType /\ m[i].calls \in Nat
    BY <1>0, WindowMessages
<1>2. ASSUME NEW u \in MessageUnits(m)
      PROVE  u[1] \in 1 .. Len(m) /\ u[2] \in Nat /\ u[1] <= u[2] /\ m[u[1]].role # "tool"
  <2>1. PICK i \in DOMAIN m : m[i].role # "tool" /\ u = <<i, UnitEnd(m, i)>>
    BY DEF MessageUnits
  <2>2. i \in 1 .. Len(m) /\ UnitEnd(m, i) = i + m[i].calls
    BY <1>1, <2>1, WindowUnitEnd
  <2> QED
    BY <1>1, <2>1, <2>2
<1>3. ASSUME NEW i \in 1 .. Len(m), m[i].role # "tool"
      PROVE  <<i, i + m[i].calls>> \in MessageUnits(m)
    BY <1>1, <1>3, WindowUnitEnd DEF MessageUnits
<1>4. ASSUME NEW p \in 1 .. Len(m)
      PROVE  \E u \in MessageUnits(m) : u[1] <= p /\ p <= u[2] /\ (m[p].role # "tool" => u[1] = p)
  <2>1. CASE m[p].role # "tool"
    <3> DEFINE u == <<p, p + m[p].calls>>
    <3>1. u \in MessageUnits(m) /\ u[1] = p /\ p <= u[2]
        BY <1>1, <1>3, <2>1
    <3> QED
        BY <3>1
  <2>2. CASE m[p].role = "tool"
    <3> DEFINE c == m[p].call
    <3>1. c \in 1 .. (p - 1) /\ p <= c + m[c].calls
        BY <2>2 DEF Complete, ResultsFollow
    <3>2. c \in 1 .. Len(m) /\ m[c].calls > 0
        BY <1>1, <3>1
    <3>3. m[c].role = "assistant"
        BY <3>2 DEF Complete, ResultsFollow
    <3>4. <<c, c + m[c].calls>> \in MessageUnits(m)
        BY <1>3, <3>2, <3>3
    <3> QED
        BY <1>1, <2>2, <3>1, <3>4
  <2> QED
    BY <2>1, <2>2
<1> QED
    BY <1>2, <1>4

(* A set of numbers that is not empty has a smallest one.                  *)
LEMMA WindowLeast ==
    ASSUME NEW S \in SUBSET Nat, S # {}
    PROVE  \E i \in S : \A j \in S : i <= j
<1> DEFINE Less == OpToRel(<, Nat)
<1>1. \A i, j \in S : <<j, i>> \in Less <=> j < i
    BY DEF OpToRel
<1>2. IsWellFoundedOn(Less, Nat)
    BY NatLessThanWellFounded
<1> HIDE DEF Less
<1>3. PICK i \in S : \A j \in S : ~(<<j, i>> \in Less)
    BY <1>2, WFMin
<1>4. \A j \in S : ~(j < i)
    BY <1>1, <1>3
<1> QED
    BY <1>3, <1>4

(* A compaction ends before the objective and the newest messages, where a *)
(* unit does.                                                              *)
LEMMA WindowPrefix ==
    ASSUME NEW m, Complete(m), RawReserve \in Nat, objective \in 1 .. Len(m), m[objective].role = "user",
           compaction.covered \in Nat, compaction.covered < objective
    PROVE  /\ EligiblePrefixEnd(m) \in Nat
           /\ EligiblePrefixEnd(m) > compaction.covered => Covers(m, objective, EligiblePrefixEnd(m))
<1> DEFINE end == EligiblePrefixEnd(m)
           pinned == {u[1] : u \in {u \in MessageUnits(m) : u[2] > compaction.covered /\ Pinned(m, u)}}
           first == CHOOSE i \in pinned : \A j \in pinned : i <= j
<1>1. Len(m) \in Nat /\ pinned \subseteq 1 .. Len(m) /\ \A i \in pinned : m[i].role # "tool"
    BY WindowUnits, WindowMessages DEF Complete
<1>2. objective \in pinned
  <2>1. PICK u \in MessageUnits(m) : u[1] = objective /\ objective <= u[2] /\ u[2] \in Nat
    BY WindowUnits
  <2>2. u[2] > compaction.covered /\ Pinned(m, u)
    BY <1>1, <2>1 DEF Pinned
  <2> QED
    BY <2>1, <2>2
<1>3. first \in pinned /\ \A j \in pinned : first <= j
  <2> HIDE DEF pinned
  <2>1. \E i \in pinned : \A j \in pinned : i <= j
    BY <1>1, <1>2, WindowLeast
  <2> QED
    BY <2>1
<1>4. end = first - 1
    BY DEF EligiblePrefixEnd
<1> HIDE DEF first, end, pinned
<1>5. end \in Nat /\ end < objective /\ m[end + 1].role # "tool" /\ end + 1 = first
    BY <1>1, <1>2, <1>3, <1>4
<1>6. end > compaction.covered => end <= Len(m) - RawReserve
  <2> SUFFICES ASSUME end > compaction.covered, end > Len(m) - RawReserve PROVE FALSE
    BY <1>1, <1>5
  <2>1. end \in 1 .. Len(m)
    BY <1>1, <1>5 DEF end
  <2>2. PICK u \in MessageUnits(m) : u[1] <= end /\ end <= u[2] /\ u[1] \in Nat /\ u[2] \in Nat
    BY <2>1, WindowUnits
  <2>3. Pinned(m, u) /\ u[2] > compaction.covered
    BY <1>1, <2>1, <2>2 DEF Pinned, end
  <2>4. u[1] \in pinned
    BY <2>2, <2>3 DEF pinned
  <2>5. first <= u[1]
    BY <1>3, <2>4
  <2> QED
    BY <1>5, <2>2, <2>5
<1> QED
    BY <1>5, <1>6 DEF Covers, end

(* A request holds the summary, if there is one, and the messages after    *)
(* its range; of these only old results are cut.                           *)
LEMMA WindowRequest ==
    ASSUME NEW m, ResultsFollow(m), NEW n \in 0 .. Len(m), RawReserve \in Nat
    PROVE  LET request == Project(m, WithSummary(m, n))
           IN /\ {item[1] : item \in ToSet(request)} = ((n + 1) .. Len(m)) \cup (IF n = 0 THEN {} ELSE {0})
              /\ \A i \in (n + 1) .. Len(m) : m[i].role # "tool" \/ i > Len(m) - RawReserve =>
                    <<i, m[i].size>> \in ToSet(request)
<1> DEFINE items == WithSummary(m, n)
           request == Project(m, items)
           shift == IF n = 0 THEN 0 ELSE 1
<1>1. Len(m) \in Nat /\ n \in Nat /\ n <= Len(m)
    BY WindowMessages
<1>2. /\ DOMAIN items = 1 .. (Len(m) - n + shift) /\ Len(items) = Len(m) - n + shift
      /\ shift = 1 => items[1] = <<0, SummarySize>>
      /\ \A k \in (1 + shift) .. (Len(m) - n + shift) :
            items[k] = <<n + k - shift, m[n + k - shift].size>>
  <2>1. CASE n = 0
    BY <1>1, <2>1 DEF WithSummary, Items
  <2>2. CASE n # 0
    <3> DEFINE tail == Items(m, n)
               head == <<<<0, SummarySize>>>>
    <3> DEFINE last == Len(m) - n
               Item == {tail[k] : k \in 1 .. last} \cup {<<0, SummarySize>>}
    <3>1. last \in Nat /\ \A k \in 1 .. last : tail[k] = <<n + k, m[n + k].size>>
        BY <1>1 DEF Items
    <3>2. tail = [k \in 1 .. last |-> tail[k]]
        BY DEF Items
    <3>3. items = head \o tail /\ Len(head) = 1 /\ head[1] = <<0, SummarySize>> /\ shift = 1
        BY <2>2 DEF WithSummary
    <3>4. head \in Seq(Item)
        OBVIOUS
    <3> HIDE DEF tail, head, items, last
    <3>5. tail \in Seq(Item) /\ Len(tail) = last
        BY <3>1, <3>2
    <3> HIDE DEF Item
    <3>6. /\ head \o tail \in Seq(Item) /\ Len(head \o tail) = Len(head) + Len(tail)
          /\ \A k \in 1 .. (Len(head) + Len(tail)) :
                (head \o tail)[k] = IF k <= Len(head) THEN head[k] ELSE tail[k - Len(head)]
        BY <3>4, <3>5, ConcatProperties
    <3>7. items \in Seq(Item) /\ Len(items) = 1 + last /\ items[1] = head[1]
        BY <3>1, <3>3, <3>5, <3>6
    <3>8. \A k \in 2 .. (1 + last) : items[k] = tail[k - 1] /\ k - 1 \in 1 .. last
        BY <3>1, <3>3, <3>5, <3>6
    <3>9. \A k \in 2 .. (1 + last) : items[k] = <<n + k - 1, m[n + k - 1].size>>
      <4> SUFFICES ASSUME NEW k \in 2 .. (1 + last)
                   PROVE  items[k] = <<n + k - 1, m[n + k - 1].size>>
          OBVIOUS
      <4>1. items[k] = <<n + (k - 1), m[n + (k - 1)].size>>
          BY <3>1, <3>8
      <4>2. n + (k - 1) = n + k - 1
          BY <1>1, <3>1
      <4> QED
          BY <4>1, <4>2
    <3>10. Len(m) - n + shift = 1 + last /\ 1 + shift = 2 /\ \A k \in 2 .. (1 + last) : n + k - shift = n + k - 1
        BY <1>1, <3>1, <3>3 DEF last
    <3> HIDE DEF shift
    <3>11. ASSUME NEW k \in (1 + shift) .. (Len(m) - n + shift)
          PROVE  items[k] = <<n + k - shift, m[n + k - shift].size>>
      <4>1. k \in 2 .. (1 + last)
          BY <3>10
      <4>2. n + k - shift = n + k - 1
          BY <3>10, <4>1
      <4> QED
          BY <3>9, <4>1, <4>2
    <3>12. DOMAIN items = 1 .. (1 + last)
        BY <3>7
    <3> QED
        BY <3>3, <3>7, <3>10, <3>11, <3>12
  <2> QED
    BY <2>1, <2>2
<1> HIDE DEF items
<1>3. /\ DOMAIN request = 1 .. (Len(m) - n + shift)
      /\ \A k \in 1 .. (Len(m) - n + shift) : request[k][1] = items[k][1]
      /\ \A k \in 1 .. (Len(m) - n + shift) :
            items[k][1] = 0 \/ m[items[k][1]].role # "tool" \/ k > Len(items) - RawReserve =>
                request[k] = items[k]
    BY <1>1, <1>2 DEF Project
<1> HIDE DEF request
<1>4. ToSet(request) = {request[k] : k \in 1 .. (Len(m) - n + shift)}
    BY <1>3 DEF ToSet
<1>5. \A k \in (1 + shift) .. (Len(m) - n + shift) : request[k][1] = n + k - shift
    BY <1>1, <1>2, <1>3
<1>6. shift = 1 => request[1][1] = 0
    BY <1>1, <1>2, <1>3
<1>7. \A i \in (n + 1) .. Len(m) : i - n + shift \in (1 + shift) .. (Len(m) - n + shift)
    BY <1>1
<1>8. {item[1] : item \in ToSet(request)} = ((n + 1) .. Len(m)) \cup (IF n = 0 THEN {} ELSE {0})
  <2>1. \A k \in 1 .. (Len(m) - n + shift) :
            request[k][1] \in ((n + 1) .. Len(m)) \cup (IF n = 0 THEN {} ELSE {0})
    BY <1>1, <1>5, <1>6
  <2>2. \A i \in (n + 1) .. Len(m) : request[i - n + shift][1] = i /\ i - n + shift \in 1 .. (Len(m) - n + shift)
    <3> SUFFICES ASSUME NEW i \in (n + 1) .. Len(m)
                 PROVE  request[i - n + shift][1] = i /\ i - n + shift \in 1 .. (Len(m) - n + shift)
        OBVIOUS
    <3> DEFINE k == i - n + shift
    <3>1. k \in (1 + shift) .. (Len(m) - n + shift) /\ n + k - shift = i /\ k >= 1
        BY <1>1, <1>7
    <3> HIDE DEF k, shift
    <3>2. request[k][1] = i
        BY <1>5, <3>1
    <3> QED
        BY <3>1, <3>2 DEF k, shift
  <2>3. n # 0 => request[1][1] = 0 /\ 1 \in 1 .. (Len(m) - n + shift)
    BY <1>1, <1>6
  <2> HIDE DEF shift
  <2> QED
    BY <1>4, <2>1, <2>2, <2>3
<1>9. ASSUME NEW i \in (n + 1) .. Len(m), m[i].role # "tool" \/ i > Len(m) - RawReserve
      PROVE  <<i, m[i].size>> \in ToSet(request)
  <2> DEFINE k == i - n + shift
  <2>1. k \in 1 .. (Len(m) - n + shift) /\ k \in (1 + shift) .. (Len(m) - n + shift) /\ n + k - shift = i
    BY <1>1, <1>7
  <2>2. items[k] = <<i, m[i].size>>
    BY <1>2, <2>1
  <2>3. i > Len(m) - RawReserve => k > Len(items) - RawReserve
    BY <1>1, <1>2
  <2>4. m[items[k][1]].role # "tool" \/ k > Len(items) - RawReserve
    BY <1>9, <2>2, <2>3
  <2> HIDE DEF k, shift
  <2>5. request[k] = items[k]
    BY <1>3, <2>1, <2>4
  <2> QED
    BY <1>4, <2>1, <2>2, <2>5
<1> QED
    BY <1>8, <1>9 DEF request, items

(* A message behind a log without open calls, or the next result of one.   *)
LEMMA WindowAppends ==
    ASSUME NEW m, ResultsFollow(m), NEW x \in MessageType, x.calls > 0 => x.role = "assistant",
           \/ Complete(m) /\ x.role # "tool"
           \/ /\ x.role = "tool" /\ x.call \in 1 .. Len(m) /\ ~Answered(m, x.call)
              /\ \A i \in 1 .. Len(m) : i # x.call => Answered(m, i)
    PROVE  /\ ResultsFollow(Append(m, x)) /\ Len(Append(m, x)) = Len(m) + 1
           /\ Append(m, x)[Len(m) + 1] = x /\ \A i \in 1 .. Len(m) : Append(m, x)[i] = m[i]
<1> DEFINE n == Append(m, x)
<1>1. /\ m \in Seq(MessageType) /\ Len(m) \in Nat
      /\ \A i \in 1 .. Len(m) : m[i] \in MessageType /\ m[i].calls \in Nat
    BY WindowMessages
<1>2. /\ n \in Seq(MessageType) /\ Len(n) = Len(m) + 1 /\ n[Len(m) + 1] = x
      /\ \A i \in 1 .. Len(m) : n[i] = m[i]
    BY <1>1
<1> HIDE DEF n
<1>3. \A i \in 1 .. Len(n) : i \in 1 .. Len(m) \/ i = Len(m) + 1
    BY <1>1, <1>2
<1>4. \A i \in 1 .. Len(n) : n[i].role = "tool" =>
          n[i].call \in 1 .. (i - 1) /\ i <= n[i].call + n[n[i].call].calls
  <2>1. ASSUME NEW i \in 1 .. Len(m), n[i].role = "tool"
        PROVE  n[i].call \in 1 .. (i - 1) /\ i <= n[i].call + n[n[i].call].calls
    <3>1. m[i].call \in 1 .. (i - 1) /\ i <= m[i].call + m[m[i].call].calls
        BY <1>2, <2>1 DEF ResultsFollow
    <3>2. m[i].call \in 1 .. Len(m)
        BY <1>1, <3>1
    <3> QED
        BY <1>2, <3>1, <3>2
  <2>2. x.role = "tool" => /\ x.call \in 1 .. Len(m) /\ n[x.call] = m[x.call]
                           /\ Len(m) + 1 <= x.call + n[x.call].calls
    BY <1>1, <1>2 DEF Answered
  <2> QED
    BY <1>1, <1>2, <1>3, <2>1, <2>2
<1>5. \A i \in 1 .. Len(n) : n[i].calls > 0 => n[i].role = "assistant"
    BY <1>2, <1>3 DEF ResultsFollow
<1>6. ASSUME NEW i \in 1 .. Len(n), NEW k \in 1 .. Len(n), i < k, k <= i + n[i].calls
      PROVE  n[k].role = "tool" /\ n[k].call = i
  <2>1. i \in 1 .. Len(m) /\ n[i] = m[i]
    BY <1>1, <1>2, <1>3, <1>6
  <2>2. CASE k \in 1 .. Len(m)
    BY <1>2, <1>6, <2>1, <2>2 DEF ResultsFollow
  <2>3. CASE k = Len(m) + 1
    <3>1. ~Answered(m, i)
        BY <1>1, <1>6, <2>1, <2>3 DEF Answered
    <3>2. x.role = "tool" /\ i = x.call
        BY <2>1, <3>1 DEF Complete
    <3> QED
        BY <1>2, <2>3, <3>2
  <2> QED
    BY <1>3, <2>2, <2>3
<1>7. ResultsFollow(n)
    BY <1>2, <1>4, <1>5, <1>6 DEF ResultsFollow
<1> QED
    BY <1>2, <1>7 DEF n

(* A message that makes no call leaves none open.                          *)
LEMMA WindowCompletes ==
    ASSUME NEW m, Complete(m), NEW x \in MessageType, x.calls = 0, x.role # "tool"
    PROVE  /\ Complete(Append(m, x)) /\ Len(Append(m, x)) = Len(m) + 1
           /\ Append(m, x)[Len(m) + 1] = x /\ \A i \in 1 .. Len(m) : Append(m, x)[i] = m[i]
<1> DEFINE n == Append(m, x)
<1>1. ResultsFollow(m)
    BY DEF Complete
<1>2. /\ ResultsFollow(n) /\ Len(n) = Len(m) + 1 /\ n[Len(m) + 1] = x
      /\ \A i \in 1 .. Len(m) : n[i] = m[i]
    BY <1>1, WindowAppends
<1> HIDE DEF n
<1>3. Len(m) \in Nat /\ \A i \in 1 .. Len(m) : m[i].calls \in Nat
    BY <1>1, WindowMessages
<1>4. \A i \in 1 .. Len(n) : Answered(n, i)
  <2> SUFFICES ASSUME NEW i \in 1 .. Len(n) PROVE Answered(n, i)
    OBVIOUS
  <2>1. CASE i = Len(m) + 1
    BY <1>2, <1>3, <2>1 DEF Answered
  <2>2. CASE i \in 1 .. Len(m)
    BY <1>2, <1>3, <2>2 DEF Answered, Complete
  <2> QED
    BY <1>2, <1>3, <2>1, <2>2
<1> QED
    BY <1>2, <1>4 DEF Complete, n

(* What the last call of the model was asked.                              *)
LEMMA WindowAskedAbout ==
    /\ \A a : ResultsFollow(log) /\ LastAnswer(log, a) => AskedAbout = 1 .. (a - 1)
    /\ \A a : ResultsFollow(log') /\ LastAnswer(log', a) => AskedAbout' = 1 .. (a - 1)
<1>1. ASSUME NEW m, NEW a, ResultsFollow(m), LastAnswer(m, a)
      PROVE  (CHOOSE i \in DOMAIN m : m[i].role = "assistant" /\ \A j \in DOMAIN m : m[j].role = "assistant" => j <= i) = a
  <2>1. Len(m) \in Nat /\ DOMAIN m = 1 .. Len(m)
    BY <1>1, WindowMessages
  <2>2. \A i \in DOMAIN m : m[i].role = "assistant" /\ (\A j \in DOMAIN m : m[j].role = "assistant" => j <= i)
            => i = a
    BY <1>1, <2>1 DEF LastAnswer
  <2> QED
    BY <1>1, <2>1, <2>2 DEF LastAnswer
<1> QED
    BY <1>1 DEF AskedAbout, Positions

(* The numbers up to k are k numbers.                                      *)
LEMMA WindowInterval == \A k \in Nat : Cardinality(1 .. k) = k
<1> SUFFICES ASSUME NEW k \in Nat PROVE Cardinality(1 .. k) = k
    OBVIOUS
<1>1. Cardinality(1 .. k) = IF 1 > k THEN 0 ELSE k - 1 + 1
    BY 1 \in Int, k \in Int, FS_Interval
<1> QED
    BY <1>1

(* What an answered call leaves: its request had the messages after the    *)
(* summary and, of the newest and the objective, the whole.                *)
LEMMA WindowAnswers ==
    ASSUME WindowInv, asking = "model", NEW m, NEW x, NEW hint \in BOOLEAN, RawReserve \in Nat,
           m = IF hint THEN Append(log, Plain("user")) ELSE log,
           x \in MessageType, x.role = "assistant",
           log' = Append(log, x), objective' = objective,
           compaction' = Fit(m).compaction, sent' = Fit(m).request
    PROVE  /\ compaction' = [covered |-> compaction'.covered, of |-> 1 .. compaction'.covered]
           /\ Covers(log', objective', compaction'.covered)
           /\ ResultsFollow(log') /\ Len(log') = Len(log) + 1 /\ LastAnswer(log', Len(log) + 1)
           /\ log'[Len(log) + 1] = x /\ \A i \in 1 .. Len(log) : log'[i] = log[i]
           /\ ContextIsWhole'
<1> DEFINE L == Len(log)
           n == compaction'.covered
<1>1. /\ Complete(log) /\ ResultsFollow(log) /\ L \in Nat /\ objective \in 1 .. L
      /\ log[objective].role = "user" /\ Covers(log, objective, compaction.covered)
      /\ compaction = [covered |-> compaction.covered, of |-> 1 .. compaction.covered]
    BY WindowMessages DEF WindowInv
<1>2. Complete(m) /\ Len(m) \in {L, L + 1} /\ \A i \in 1 .. L : m[i] = log[i]
  <2>1. Plain("user") \in MessageType /\ Plain("user").calls = 0 /\ Plain("user").role = "user"
    <3>1. Plain("user") = [role |-> "user", call |-> 0, calls |-> 0, size |-> 1]
        BY DEF Plain
    <3> QED
        BY <3>1 DEF MessageType
  <2>2. /\ Complete(Append(log, Plain("user"))) /\ Len(Append(log, Plain("user"))) = L + 1
        /\ \A i \in 1 .. L : Append(log, Plain("user"))[i] = log[i]
    BY <1>1, <2>1, WindowCompletes
  <2> QED
    BY <1>1, <2>2
<1>3. Len(m) \in Nat /\ ResultsFollow(m) /\ objective \in 1 .. Len(m) /\ m[objective].role = "user"
    BY <1>1, <1>2 DEF Complete
<1>4. /\ compaction' = [covered |-> n, of |-> 1 .. n] /\ sent' = Project(m, WithSummary(m, n))
      /\ Covers(m, objective, n)
  <2> DEFINE c == compaction.covered
             end == EligiblePrefixEnd(m)
  <2>1. c \in Nat /\ c < objective
    BY <1>1 DEF Covers
  <2>2. compaction.covered = c /\ compaction.of = 1 .. c
    BY <1>1
  <2>3. CASE Fit(m) = [request |-> Project(m, WithSummary(m, c)), compaction |-> compaction]
    <3>1. Covers(m, objective, c)
        BY <1>1, <1>2, <2>1 DEF Covers
    <3> QED
        BY <1>1, <2>3, <3>1
  <2>4. CASE /\ end > c
             /\ Fit(m) = [request |-> Project(m, WithSummary(m, end)), compaction |-> Summarized(compaction, end)]
    <3>1. Covers(m, objective, end)
        BY <1>2, <1>3, <2>1, <2>4, WindowPrefix
    <3>2. 1 .. end = (1 .. c) \cup ((c + 1) .. end)
        BY <2>1, <2>4, <3>1 DEF Covers
    <3>3. Summarized(compaction, end) = [covered |-> end, of |-> 1 .. end]
        BY <2>2, <3>2 DEF Summarized
    <3> QED
        BY <2>4, <3>1, <3>3
  <2>5. end <= c \/ end > c
    <3>1. end \in Nat
        BY <1>2, <1>3, <2>1, WindowPrefix
    <3> HIDE DEF end
    <3> QED
        BY <2>1, <3>1
  <2> QED
    BY <2>3, <2>4, <2>5 DEF Fit
<1>5. /\ ResultsFollow(log') /\ Len(log') = L + 1 /\ log'[L + 1] = x
      /\ \A i \in 1 .. L : log'[i] = log[i]
    BY <1>1, WindowAppends
<1>6. LastAnswer(log', L + 1)
    BY <1>1, <1>5 DEF LastAnswer
<1>7. Covers(log', objective', n)
  <2>1. /\ n \in Nat /\ n < objective /\ m[n + 1].role # "tool" /\ RawReserve \in Nat
        /\ n > 0 => n <= Len(m) - RawReserve
    BY <1>4, WindowAssumption DEF Covers
  <2>2. n + 1 \in 1 .. L
    BY <1>1, <2>1
  <2>3. log'[n + 1] = m[n + 1]
    BY <1>2, <1>5, <2>2
  <2>4. n > 0 => n <= Len(log') - RawReserve
    BY <1>1, <1>2, <1>5, <2>1
  <2>5. objective' = objective
    BY <1>1
  <2> QED
    BY <2>1, <2>3, <2>4, <2>5 DEF Covers
<1>8. AskedAbout' = 1 .. L
  <2>1. AskedAbout' = 1 .. (L + 1 - 1)
    BY <1>5, <1>6, WindowAskedAbout
  <2> QED
    BY <1>1, <2>1
<1>9. n \in 0 .. Len(m) /\ n \in Nat /\ n < objective
    BY <1>3, <1>4 DEF Covers
<1>10. /\ Sent' = ((n + 1) .. Len(m)) \cup (IF n = 0 THEN {} ELSE {0})
       /\ \A i \in (n + 1) .. Len(m) : m[i].role # "tool" \/ i > Len(m) - RawReserve =>
             <<i, m[i].size>> \in ToSet(sent')
  <2> DEFINE request == Project(m, WithSummary(m, n))
  <2>1. RawReserve \in Nat /\ ResultsFollow(m) /\ n \in 0 .. Len(m)
    BY <1>3, <1>9, WindowAssumption
  <2> HIDE DEF n
  <2>2. /\ {item[1] : item \in ToSet(request)} = ((n + 1) .. Len(m)) \cup (IF n = 0 THEN {} ELSE {0})
        /\ \A i \in (n + 1) .. Len(m) : m[i].role # "tool" \/ i > Len(m) - RawReserve =>
              <<i, m[i].size>> \in ToSet(request)
    BY <2>1, WindowRequest
  <2>3. sent' = request
    BY <1>4
  <2> HIDE DEF request
  <2> QED
    BY <2>2, <2>3 DEF Sent
<1> HIDE DEF n
<1>11. \A i \in 1 .. L : i \in Sent' <=> i > n
    BY <1>1, <1>2, <1>9, <1>10
<1>12. ExchangesAreWhole'
  <2> SUFFICES ASSUME NEW i \in 1 .. L, log[i].role = "tool"
               PROVE  i \in Sent' <=> log[i].call \in Sent'
    BY <1>5, <1>8 DEF ExchangesAreWhole
  <2> DEFINE c == log[i].call
  <2>1. c \in 1 .. (i - 1) /\ i <= c + log[c].calls
    BY <1>1 DEF ResultsFollow
  <2>2. c \in 1 .. L /\ c < i /\ log[c].calls \in Nat
    BY <1>1, <2>1, WindowMessages
  <2>3. ~(c <= n /\ i > n)
    <3> SUFFICES ASSUME c <= n, i > n PROVE FALSE
        OBVIOUS
    <3>1. n + 1 \in 1 .. L /\ c < n + 1 /\ n + 1 <= c + log[c].calls
        BY <1>1, <1>9, <2>1, <2>2
    <3>2. log[n + 1].role = "tool"
        BY <1>1, <2>2, <3>1 DEF ResultsFollow
    <3>3. log[n + 1].role # "tool"
        BY <1>2, <1>4, <3>1 DEF Covers
    <3> QED
        BY <3>2, <3>3
  <2> QED
    BY <1>9, <1>11, <2>2, <2>3
<1>13. EveryMessageIsThereOnce'
  <2>1. Cardinality(AskedAbout') = L
    <3>1. Cardinality(1 .. L) = L
        BY <1>1, WindowInterval
    <3> QED
        BY <1>8, <3>1
  <2> SUFFICES ASSUME NEW i \in 1 .. L
               PROVE  /\ (i \in Sent') # (i \in compaction'.of)
                      /\ i = objective \/ i > L + 1 - RawReserve => <<i, log[i].size>> \in ToSet(sent')
    BY <1>5, <1>8, <2>1 DEF EveryMessageIsThereOnce
  <2>2. compaction'.of = 1 .. n
    BY <1>4
  <2>3. (i \in Sent') # (i \in compaction'.of)
    BY <1>9, <1>11, <2>2
  <2>4. ASSUME i = objective \/ i > L + 1 - RawReserve
        PROVE  <<i, log[i].size>> \in ToSet(sent')
    <3>1. i > n
        BY <1>1, <1>2, <1>4, <1>9, <2>4 DEF Covers
    <3>2. i \in (n + 1) .. Len(m)
        BY <1>1, <1>2, <1>9, <3>1
    <3>3. m[i].role # "tool" \/ i > Len(m) - RawReserve
        BY <1>1, <1>2, <1>3, <2>4
    <3> QED
        BY <1>2, <1>10, <3>2, <3>3
  <2> QED
    BY <2>3, <2>4
<1> QED
    BY <1>4, <1>5, <1>6, <1>7, <1>12, <1>13 DEF ContextIsWhole, n

(* The messages that the steps append.                                     *)
LEMMA WindowPlain ==
    ASSUME NEW role \in {"user", "assistant", "tool"}
    PROVE  /\ Plain(role) \in MessageType /\ Plain(role).calls = 0 /\ Plain(role).role = role
           /\ \A n \in Nat : /\ [Plain(role) EXCEPT !.calls = n] \in MessageType
                             /\ [Plain(role) EXCEPT !.calls = n].calls = n
                             /\ [Plain(role) EXCEPT !.calls = n].role = role
BY DEF Plain, MessageType

(* A result is a message that names its call.                              *)
LEMMA WindowTool ==
    ASSUME NEW asker \in Nat, NEW size \in Nat
    PROVE  LET x == [Plain("tool") EXCEPT !.call = asker, !.size = size]
           IN x \in MessageType /\ x.call = asker /\ x.calls = 0 /\ x.role = "tool"
BY DEF Plain, MessageType

(* A message behind two, and behind three.                                 *)
LEMMA WindowThird ==
    ASSUME NEW S, NEW a \in S, NEW b \in S, NEW c \in S
    PROVE  <<a, b>> \o <<c>> = <<a, b, c>>
<1> DEFINE s == Append(<<a, b>>, c)
<1>1. <<a, b>> \in Seq(S) /\ Len(<<a, b>>) = 2 /\ <<a, b, c>> \in Seq(S) /\ Len(<<a, b, c>>) = 3
    OBVIOUS
<1>2. s = <<a, b>> \o <<c>>
    BY <1>1, AppendIsConcat
<1>3. s \in Seq(S) /\ Len(s) = 3 /\ s[1] = a /\ s[2] = b /\ s[3] = c
    BY <1>1, AppendProperties
<1> HIDE DEF s
<1>4. \A i \in 1 .. 3 : s[i] = <<a, b, c>>[i]
    BY <1>3
<1> QED
    BY <1>1, <1>2, <1>3, <1>4, SeqEqual

(* The same, of four.                                                      *)
LEMMA WindowFourth ==
    ASSUME NEW S, NEW a \in S, NEW b \in S, NEW c \in S, NEW d \in S
    PROVE  <<a, b, c>> \o <<d>> = <<a, b, c, d>>
<1> DEFINE s == Append(<<a, b, c>>, d)
<1>1. /\ <<a, b, c>> \in Seq(S) /\ Len(<<a, b, c>>) = 3
      /\ <<a, b, c, d>> \in Seq(S) /\ Len(<<a, b, c, d>>) = 4
    OBVIOUS
<1>2. s = <<a, b, c>> \o <<d>>
    BY <1>1, AppendIsConcat
<1>3. s \in Seq(S) /\ Len(s) = 4 /\ s[1] = a /\ s[2] = b /\ s[3] = c /\ s[4] = d
    BY <1>1, AppendProperties
<1> HIDE DEF s
<1>4. \A i \in 1 .. 4 : s[i] = <<a, b, c, d>>[i]
    BY <1>3
<1> QED
    BY <1>1, <1>2, <1>3, <1>4, SeqEqual

(* The result that a call is waiting for is its next one.                  *)
LEMMA WindowResult ==
    ASSUME NEW m, ResultsFollow(m), NEW a, Awaits(m, a), LastAnswer(m, a), NEW size \in Nat
    PROVE  LET n == Append(m, [Plain("tool") EXCEPT !.call = a, !.size = size])
           IN /\ ResultsFollow(n) /\ Len(n) = Len(m) + 1 /\ \A i \in 1 .. Len(m) : n[i] = m[i]
              /\ LastAnswer(n, a)
              /\ IF Len(m) - a + 1 = m[a].calls THEN Complete(n) ELSE Awaits(n, a)
<1> DEFINE x == [Plain("tool") EXCEPT !.call = a, !.size = size]
           n == Append(m, x)
<1>1. /\ Len(m) \in Nat /\ a \in 1 .. Len(m) /\ \A i \in 1 .. Len(m) : m[i].calls \in Nat
    BY WindowMessages DEF Awaits
<1>2. x \in MessageType /\ x.call = a /\ x.calls = 0 /\ x.role = "tool"
  <2>1. a \in Nat
    BY <1>1
  <2> QED
    BY <2>1, WindowTool
<1> HIDE DEF x
<1>3. /\ ResultsFollow(n) /\ Len(n) = Len(m) + 1 /\ n[Len(m) + 1] = x
      /\ \A i \in 1 .. Len(m) : n[i] = m[i]
    BY <1>1, <1>2, WindowAppends DEF Awaits
<1> HIDE DEF n
<1>4. \A i \in 1 .. Len(n) : i \in 1 .. Len(m) \/ i = Len(m) + 1
    BY <1>1, <1>3
<1>5. \A i \in 1 .. Len(n) : i # a => Answered(n, i)
  <2>1. \A i \in 1 .. Len(m) : i # a => Answered(n, i)
    BY <1>1, <1>3 DEF Awaits, Answered
  <2>2. Answered(n, Len(m) + 1)
    BY <1>1, <1>2, <1>3 DEF Answered
  <2> QED
    BY <1>4, <2>1, <2>2
<1>6. LastAnswer(n, a)
    BY <1>1, <1>2, <1>3, <1>4 DEF LastAnswer
<1>7. CASE Len(m) - a + 1 = m[a].calls
  <2>1. Answered(n, a)
    BY <1>1, <1>3, <1>7 DEF Answered
  <2>2. Complete(n)
    BY <1>3, <1>5, <2>1 DEF Complete
  <2> QED
    BY <1>3, <1>6, <1>7, <2>2 DEF n, x
<1>8. CASE Len(m) - a + 1 # m[a].calls
  <2>1. ~Answered(n, a)
    BY <1>1, <1>3, <1>8 DEF Answered, Awaits
  <2>2. Awaits(n, a)
    BY <1>1, <1>3, <1>5, <2>1 DEF Awaits
  <2> QED
    BY <1>3, <1>6, <1>8, <2>2 DEF n, x
<1> QED
    BY <1>7, <1>8

(* An earlier Turn leaves its exchange with the tools complete.            *)
LEMMA WindowEarlier ==
    ASSUME NEW m, Complete(m), NEW exchange \in Nat
    PROVE  Complete(m \o EarlierTurn(Len(m), exchange))
<1> DEFINE L == Len(m)
           u == Plain("user")
           s == Plain("assistant")
           c == [Plain("assistant") EXCEPT !.calls = 1]
           t == [Plain("tool") EXCEPT !.call = L + 2, !.size = exchange]
<1>1. m \in Seq(MessageType) /\ L \in Nat /\ L + 2 \in Nat /\ ResultsFollow(m)
    BY WindowMessages DEF Complete
<1>2. /\ u \in MessageType /\ u.calls = 0 /\ u.role = "user"
      /\ s \in MessageType /\ s.calls = 0 /\ s.role = "assistant"
      /\ c \in MessageType /\ c.calls = 1 /\ c.role = "assistant"
      /\ t \in MessageType
    BY <1>1, WindowPlain, WindowTool
<1> HIDE DEF u, s, c
<1>3. /\ Complete(Append(m, u)) /\ Len(Append(m, u)) = L + 1
      /\ ResultsFollow(Append(m, u)) /\ Append(m, u) \in Seq(MessageType)
  <2>1. Complete(Append(m, u)) /\ Len(Append(m, u)) = L + 1
    BY <1>2, WindowCompletes
  <2>2. ResultsFollow(Append(m, u))
    BY <2>1 DEF Complete
  <2> QED
    BY <1>1, <1>2, <2>1, <2>2, AppendProperties
<1>4. CASE exchange = 0
  <2>1. Complete(Append(Append(m, u), s))
    BY <1>2, <1>3, WindowCompletes
  <2>2. m \o <<u, s>> = Append(Append(m, u), s)
    BY <1>1, <1>2, <1>3, AppendIsConcat, ConcatAssociative
  <2> QED
    BY <1>4, <2>1, <2>2 DEF EarlierTurn, u, s
<1>5. CASE exchange # 0
  <2> DEFINE n == Append(Append(m, u), c)
             p == Append(n, t)
  <2>1. /\ ResultsFollow(n) /\ Len(n) = L + 2 /\ n[L + 2] = c
        /\ \A i \in 1 .. (L + 1) : n[i] = Append(m, u)[i]
    <3>1. /\ ResultsFollow(n) /\ Len(n) = L + 1 + 1 /\ n[L + 1 + 1] = c
          /\ \A i \in 1 .. (L + 1) : n[i] = Append(m, u)[i]
        BY <1>2, <1>3, WindowAppends
    <3> QED
        BY <1>1, <3>1
  <2>2. n \in Seq(MessageType)
    BY <2>1 DEF ResultsFollow
  <2>3. Awaits(n, L + 2) /\ LastAnswer(n, L + 2)
    <3>1. \A i \in 1 .. (L + 1) : Answered(Append(m, u), i) /\ Append(m, u)[i].calls \in Nat
        BY <1>3, WindowMessages DEF Complete
    <3>2. \A i \in 1 .. (L + 1) : Answered(n, i)
        BY <1>1, <1>3, <2>1, <3>1 DEF Answered
    <3> HIDE DEF n
    <3>3. ~Answered(n, L + 2)
        BY <1>1, <1>2, <2>1 DEF Answered
    <3> QED
        BY <1>1, <1>2, <2>1, <3>2, <3>3 DEF Awaits, LastAnswer
  <2> HIDE DEF n
  <2>4. Complete(p)
    <3>1. Len(n) - (L + 2) + 1 = n[L + 2].calls
        BY <1>1, <1>2, <2>1
    <3>2. IF Len(n) - (L + 2) + 1 = n[L + 2].calls THEN Complete(p) ELSE Awaits(p, L + 2)
        BY <2>1, <2>3, WindowResult
    <3> QED
        BY <3>1, <3>2
  <2>5. p \in Seq(MessageType)
    BY <2>4 DEF Complete, ResultsFollow
  <2>6. Complete(Append(p, s))
    BY <1>2, <2>4, WindowCompletes
  <2> HIDE DEF t
  <2>7. p = n \o <<t>> /\ Append(p, s) = p \o <<s>>
    BY <1>2, <2>2, <2>5, AppendIsConcat
  <2>8. n = m \o <<u, c>>
    BY <1>1, <1>2, <1>3, AppendIsConcat, ConcatAssociative DEF n
  <2>9. <<u, c>> \in Seq(MessageType) /\ <<t>> \in Seq(MessageType) /\ <<s>> \in Seq(MessageType)
    BY <1>2
  <2>10. Append(p, s) = m \o ((<<u, c>> \o <<t>>) \o <<s>>)
    <3>1. p = m \o (<<u, c>> \o <<t>>)
        BY <1>1, <2>7, <2>8, <2>9, ConcatAssociative
    <3>2. <<u, c>> \o <<t>> \in Seq(MessageType)
        BY <2>9, ConcatProperties
    <3>3. Append(p, s) = (m \o (<<u, c>> \o <<t>>)) \o <<s>>
        BY <2>7, <3>1
    <3> QED
        BY <1>1, <2>9, <3>2, <3>3, ConcatAssociative
  <2>11. (<<u, c>> \o <<t>>) \o <<s>> = <<u, c, t, s>>
    <3>1. <<u, c>> \o <<t>> = <<u, c, t>>
        BY <1>2, WindowThird
    <3>2. <<u, c, t>> \o <<s>> = <<u, c, t, s>>
        BY <1>2, WindowFourth
    <3> QED
        BY <3>1, <3>2
  <2>12. EarlierTurn(L, exchange) = <<u, c, t, s>>
    BY <1>5 DEF EarlierTurn, u, c, t, s
  <2> QED
    BY <2>6, <2>10, <2>11, <2>12
<1> QED
    BY <1>4, <1>5

(* Before the first call nothing is summarized or open.                    *)
LEMMA WindowStarts ==
    ASSUME WindowInv, EndEarlierTurn \/ Start
    PROVE  WindowInv'
<1>1. asking = "start" /\ Complete(log) /\ compaction.covered = 0 /\ UNCHANGED compaction /\ log \in Seq(MessageType)
      /\ ResultsFollow(log) /\ Len(log) \in Nat
    BY WindowMessages DEF WindowInv, EndEarlierTurn, Start
<1>2. /\ Plain("user") \in MessageType /\ Plain("user").calls = 0 /\ Plain("user").role = "user"
    BY WindowPlain
<1>3. CASE EndEarlierTurn
  <2>1. asking' = "start"
    BY <1>1, <1>3 DEF EndEarlierTurn
  <2>2. PICK exchange \in Sizes \cup {0} : log' = log \o EarlierTurn(Len(log), exchange)
    BY <1>3 DEF EndEarlierTurn
  <2>3. exchange \in Nat
    BY WindowAssumption
  <2>4. Complete(log')
    BY <1>1, <2>2, <2>3, WindowEarlier
  <2>5. ResultsFollow(log')
    BY <2>4 DEF Complete
  <2> QED
    BY <1>1, <2>1, <2>4, <2>5
    DEF WindowInv, ContextIsWhole, ExchangesAreWhole, EveryMessageIsThereOnce
<1>4. CASE Start
  <2>1. asking' = "model" /\ log' = Append(log, Plain("user")) /\ objective' = Len(log')
    BY <1>4 DEF Start
  <2>2. /\ Complete(log') /\ Len(log') = Len(log) + 1 /\ log'[Len(log) + 1] = Plain("user")
        /\ \A i \in 1 .. Len(log) : log'[i] = log[i]
    BY <1>1, <1>2, <2>1, WindowCompletes
  <2>3. ResultsFollow(log')
    BY <2>2 DEF Complete
  <2>4. objective' \in 1 .. Len(log') /\ log'[objective'].role = "user"
    BY <1>1, <1>2, <2>1, <2>2
  <2>5. log'[1].role # "tool"
    BY <1>1, <2>2, <2>3 DEF ResultsFollow
  <2>6. Covers(log', objective', 0)
    BY <1>1, <2>1, <2>2, <2>5 DEF Covers
  <2> QED
    BY <1>1, <2>1, <2>2, <2>3, <2>4, <2>6
    DEF WindowInv, ContextIsWhole, ExchangesAreWhole, EveryMessageIsThereOnce
<1> QED
    BY <1>3, <1>4

(* A call of the model.                                                    *)
LEMMA WindowCalls ==
    ASSUME WindowInv, CallModel
    PROVE  WindowInv'
<1>1. /\ asking = "model" /\ objective' = objective /\ RawReserve \in Nat /\ Complete(log)
      /\ ResultsFollow(log) /\ Len(log) \in Nat
      /\ objective \in 1 .. Len(log) /\ log[objective].role = "user"
    BY WindowAssumption, WindowMessages DEF WindowInv, CallModel
<1>2. PICK hint \in BOOLEAN :
        LET m == IF hint THEN Append(log, Plain("user")) ELSE log
        IN \/ asking' = "overflow" /\ UNCHANGED <<compaction, sent, log>>
           \/ /\ compaction' = Fit(m).compaction /\ sent' = Fit(m).request
              /\ \/ asking' = "done" /\ log' = Append(log, Plain("assistant"))
                 \/ \E n \in {1, 2} : asking' = "tools" /\ log' = Append(log, [Plain("assistant") EXCEPT !.calls = n])
    BY DEF CallModel
<1> DEFINE m == IF hint THEN Append(log, Plain("user")) ELSE log
<1>3. CASE asking' = "overflow" /\ UNCHANGED <<compaction, sent, log>>
    BY <1>1, <1>3 DEF WindowInv, ContextIsWhole, ExchangesAreWhole, EveryMessageIsThereOnce
<1>4. ASSUME NEW x \in MessageType, x.role = "assistant", log' = Append(log, x),
             compaction' = Fit(m).compaction, sent' = Fit(m).request,
             \/ asking' = "done" /\ x.calls = 0
             \/ asking' = "tools" /\ x.calls > 0 /\ x.calls \in Nat
      PROVE  WindowInv'
  <2>1. /\ compaction' = [covered |-> compaction'.covered, of |-> 1 .. compaction'.covered]
        /\ Covers(log', objective', compaction'.covered)
        /\ ResultsFollow(log') /\ Len(log') = Len(log) + 1 /\ LastAnswer(log', Len(log) + 1)
        /\ log'[Len(log) + 1] = x /\ \A i \in 1 .. Len(log) : log'[i] = log[i]
        /\ ContextIsWhole'
    BY <1>1, <1>4, WindowAnswers
  <2>2. objective' \in 1 .. Len(log') /\ log'[objective'].role = "user"
    BY <1>1, <2>1
  <2>3. CASE asking' = "done" /\ x.calls = 0
    <3>1. Complete(log')
        BY <1>1, <1>4, <2>3, WindowCompletes
    <3>2. LastAnswer(log', Len(log'))
        BY <2>1
    <3> QED
        BY <2>1, <2>2, <2>3, <3>1, <3>2 DEF WindowInv
  <2>4. CASE asking' = "tools" /\ x.calls > 0 /\ x.calls \in Nat
    <3>1. \A i \in 1 .. Len(log) : Answered(log', i)
      <4>1. \A i \in 1 .. Len(log) : log[i].calls \in Nat /\ Answered(log, i)
          BY <1>1, WindowMessages DEF Complete
      <4> QED
          BY <1>1, <2>1, <4>1 DEF Answered
    <3>2. ~Answered(log', Len(log) + 1)
        BY <1>1, <2>1, <2>4 DEF Answered
    <3>3. Awaits(log', Len(log) + 1) /\ Len(log) + 1 \in 1 .. Len(log')
        BY <1>1, <2>1, <3>1, <3>2 DEF Awaits
    <3> QED
        BY <2>1, <2>2, <2>4, <3>3 DEF WindowInv
  <2> QED
    BY <1>4, <2>3, <2>4
<1>5. /\ Plain("assistant") \in MessageType /\ Plain("assistant").calls = 0 /\ Plain("assistant").role = "assistant"
      /\ \A n \in Nat : /\ [Plain("assistant") EXCEPT !.calls = n] \in MessageType
                        /\ [Plain("assistant") EXCEPT !.calls = n].calls = n
                        /\ [Plain("assistant") EXCEPT !.calls = n].role = "assistant"
    BY WindowPlain
<1> HIDE DEF m
<1>6. CASE /\ compaction' = Fit(m).compaction /\ sent' = Fit(m).request
           /\ asking' = "done" /\ log' = Append(log, Plain("assistant"))
    BY <1>4, <1>5, <1>6
<1>7. CASE /\ compaction' = Fit(m).compaction /\ sent' = Fit(m).request
           /\ \E n \in {1, 2} : asking' = "tools" /\ log' = Append(log, [Plain("assistant") EXCEPT !.calls = n])
  <2>1. PICK n \in {1, 2} : asking' = "tools" /\ log' = Append(log, [Plain("assistant") EXCEPT !.calls = n])
    BY <1>7
  <2> DEFINE x == [Plain("assistant") EXCEPT !.calls = n]
  <2>2. n \in Nat /\ n > 0
    OBVIOUS
  <2>3. x \in MessageType /\ x.calls = n /\ x.role = "assistant" /\ log' = Append(log, x)
    BY <1>5, <2>1, <2>2
  <2> HIDE DEF x
  <2> QED
    BY <1>4, <1>7, <2>1, <2>2, <2>3
<1> QED
    BY <1>2, <1>3, <1>6, <1>7 DEF m

(* A further message leaves the end of the summary where it is.            *)
LEMMA WindowCovers ==
    ASSUME NEW m, NEW w, Len(m) \in Nat, Len(w) = Len(m) + 1, \A i \in 1 .. Len(m) : w[i] = m[i],
           NEW o \in 1 .. Len(m), m[o].role = "user", NEW n, Covers(m, o, n)
    PROVE  Covers(w, o, n) /\ o \in 1 .. Len(w) /\ w[o].role = "user"
<1>1. /\ n \in Nat /\ n < o /\ m[n + 1].role # "tool" /\ RawReserve \in Nat
      /\ n > 0 => n <= Len(m) - RawReserve
    BY WindowAssumption DEF Covers
<1>2. n + 1 \in 1 .. Len(m)
    BY <1>1
<1>3. w[n + 1] = m[n + 1] /\ w[o] = m[o]
    BY <1>2
<1>4. n > 0 => n <= Len(w) - RawReserve
    BY <1>1
<1>5. o \in 1 .. Len(w)
    OBVIOUS
<1> QED
    BY <1>1, <1>3, <1>4, <1>5 DEF Covers

(* A result.                                                               *)
LEMMA WindowGetsResult ==
    ASSUME WindowInv, AppendResult
    PROVE  WindowInv'
<1>1. /\ asking = "tools" /\ UNCHANGED <<objective, compaction, sent>> /\ ResultsFollow(log) /\ Len(log) \in Nat
      /\ objective \in 1 .. Len(log) /\ log[objective].role = "user"
      /\ Covers(log, objective, compaction.covered)
      /\ DOMAIN log = 1 .. Len(log) /\ \A i \in 1 .. Len(log) : log[i].calls \in Nat
    BY WindowMessages DEF WindowInv, AppendResult
<1>2. PICK a \in 1 .. Len(log) : Awaits(log, a) /\ LastAnswer(log, a)
    BY <1>1 DEF WindowInv
<1> DEFINE asker == CHOOSE i \in Positions : log[i].calls # 0 /\ \A j \in Positions : log[j].calls # 0 => j <= i
<1>3. asker = a
  <2>1. a \in Positions /\ log[a].calls # 0
    BY <1>1, <1>2 DEF Positions, Awaits, Answered
  <2>2. \A j \in Positions : log[j].calls # 0 => j <= a
    <3>1. \A j \in 1 .. Len(log) : log[j].calls # 0 => log[j].role = "assistant"
        BY <1>1 DEF ResultsFollow
    <3> QED
        BY <1>1, <1>2, <3>1 DEF Positions, LastAnswer
  <2>3. \A i \in Positions : log[i].calls # 0 /\ (\A j \in Positions : log[j].calls # 0 => j <= i) => i = a
    BY <1>1, <2>1, <2>2 DEF Positions
  <2> QED
    BY <2>1, <2>2, <2>3
<1>4. /\ \E size \in Sizes : log' = Append(log, [Plain("tool") EXCEPT !.call = asker, !.size = size])
      /\ asking' = IF Len(log) - asker + 1 = log[asker].calls THEN "model" ELSE "tools"
    BY DEF AppendResult
<1> HIDE DEF asker
<1>5. PICK size \in Sizes : log' = Append(log, [Plain("tool") EXCEPT !.call = a, !.size = size])
    BY <1>3, <1>4
<1>6. size \in Nat
    BY WindowAssumption
<1>7. /\ ResultsFollow(log') /\ Len(log') = Len(log) + 1 /\ \A i \in 1 .. Len(log) : log'[i] = log[i]
      /\ LastAnswer(log', a)
      /\ IF Len(log) - a + 1 = log[a].calls THEN Complete(log') ELSE Awaits(log', a)
  <2> DEFINE next == Append(log, [Plain("tool") EXCEPT !.call = a, !.size = size])
  <2>1. /\ ResultsFollow(next) /\ Len(next) = Len(log) + 1 /\ \A i \in 1 .. Len(log) : next[i] = log[i]
        /\ LastAnswer(next, a)
        /\ IF Len(log) - a + 1 = log[a].calls THEN Complete(next) ELSE Awaits(next, a)
    BY <1>1, <1>2, <1>6, WindowResult
  <2>2. log' = next
    BY <1>5
  <2> HIDE DEF next
  <2> QED
    BY <2>1, <2>2
<1>8. Covers(log', objective', compaction'.covered) /\ objective' \in 1 .. Len(log') /\ log'[objective'].role = "user"
    BY <1>1, <1>7, WindowCovers
<1>9. AskedAbout = 1 .. (a - 1) /\ AskedAbout' = 1 .. (a - 1)
    BY <1>1, <1>2, <1>7, WindowAskedAbout
<1>10. ContextIsWhole'
  <2>1. ExchangesAreWhole /\ EveryMessageIsThereOnce /\ Sent' = Sent
    BY <1>1 DEF WindowInv, ContextIsWhole, Sent
  <2>2. \A i \in 1 .. (a - 1) : log'[i] = log[i]
    BY <1>1, <1>2, <1>7
  <2>3. ExchangesAreWhole'
    BY <1>1, <1>9, <2>1, <2>2 DEF ExchangesAreWhole
  <2>4. EveryMessageIsThereOnce'
    BY <1>1, <1>9, <2>1, <2>2 DEF EveryMessageIsThereOnce
  <2> QED
    BY <2>3, <2>4 DEF ContextIsWhole
<1>11. compaction' = [covered |-> compaction'.covered, of |-> 1 .. compaction'.covered]
    BY <1>1 DEF WindowInv
<1>12. CASE Len(log) - a + 1 = log[a].calls
  <2>1. asking' = "model" /\ Complete(log')
    BY <1>3, <1>4, <1>7, <1>12
  <2> QED
    BY <1>7, <1>8, <1>10, <1>11, <2>1 DEF WindowInv
<1>13. CASE Len(log) - a + 1 # log[a].calls
  <2>1. asking' = "tools" /\ Awaits(log', a) /\ a \in 1 .. Len(log')
    BY <1>3, <1>4, <1>7, <1>13 DEF Awaits
  <2> QED
    BY <1>7, <1>8, <1>10, <1>11, <2>1 DEF WindowInv
<1> QED
    BY <1>12, <1>13

(* A correction behind a rejected answer.                                  *)
LEMMA WindowCorrects ==
    ASSUME WindowInv, Correct
    PROVE  WindowInv'
<1>1. /\ asking = "done" /\ asking' = "model" /\ log' = Append(log, Plain("user"))
      /\ UNCHANGED <<objective, compaction, sent>> /\ Complete(log) /\ Len(log) \in Nat
      /\ objective \in 1 .. Len(log) /\ log[objective].role = "user"
      /\ Covers(log, objective, compaction.covered)
    BY WindowMessages DEF WindowInv, Correct
<1>2. Plain("user") \in MessageType /\ Plain("user").calls = 0 /\ Plain("user").role = "user"
    BY WindowPlain
<1>3. /\ Complete(log') /\ Len(log') = Len(log) + 1 /\ \A i \in 1 .. Len(log) : log'[i] = log[i]
    BY <1>1, <1>2, WindowCompletes
<1>4. ResultsFollow(log')
    BY <1>3 DEF Complete
<1>5. Covers(log', objective', compaction'.covered) /\ objective' \in 1 .. Len(log') /\ log'[objective'].role = "user"
    BY <1>1, <1>3, WindowCovers
<1> QED
    BY <1>1, <1>3, <1>4, <1>5
    DEF WindowInv, ContextIsWhole, ExchangesAreWhole, EveryMessageIsThereOnce

(* Of the messages before a call each is in the request or in the summary, *)
(* never in both, calls and results together, and the objective and the    *)
(* newest messages are not cut (ContextBudget.fit).                        *)
THEOREM RequestsAreWhole == WindowSpec => []ContextIsWhole
<1>1. WindowInit => WindowInv
  <2> SUFFICES ASSUME WindowInit PROVE WindowInv
    OBVIOUS
  <2>1. log = <<>> /\ asking = "start" /\ compaction.covered = 0 /\ compaction.of = {} /\ Len(log) = 0
    BY DEF WindowInit
  <2>2. ResultsFollow(log) /\ Complete(log)
    BY <2>1 DEF ResultsFollow, Complete
  <2>3. compaction = [covered |-> compaction.covered, of |-> 1 .. compaction.covered]
    BY DEF WindowInit
  <2> QED
    BY <2>1, <2>2, <2>3
    DEF WindowInv, ContextIsWhole, ExchangesAreWhole, EveryMessageIsThereOnce
<1>2. WindowInv /\ UNCHANGED windowVars => WindowInv'
    BY DEF windowVars, WindowInv, ContextIsWhole, ExchangesAreWhole, EveryMessageIsThereOnce, Sent, AskedAbout, Positions
<1>3. WindowInv /\ [WindowNext]_windowVars => WindowInv'
    BY <1>2, WindowStarts, WindowCalls, WindowGetsResult, WindowCorrects DEF WindowNext
<1>4. WindowInv => ContextIsWhole
    BY DEF WindowInv
<1> QED
    BY <1>1, <1>3, <1>4, PTL DEF WindowSpec

(***************************************************************************)
(* ThreadMemory.  A summary ends with an answer (SummaryEnds) and what is  *)
(* about to be summarized is all that may be (SegmentsFit), so that piece  *)
(* by piece the pairs are those of one pass over everything.  The facts    *)
(* are applied from the checkpoint on, oldest first (PendingFits).         *)
(***************************************************************************)
MemoryMessage == [role : {"user", "assistant"}, says : Stated \cup {NoValue, "nothing"}, recorded : BOOLEAN]

MemoryFact == [value : Stated \cup {NoValue, "nothing"}, active : BOOLEAN, seen : SUBSET Nat]

MemoryTurn ==
    [at : {"idle", "running", "summarize", "reduce", "extract", "save"},
     segments : Seq(SUBSET (Nat \X Nat)), pending : SUBSET Nat, upto : Nat]

MemoryTyped ==
    /\ messages \in Seq(MemoryMessage) /\ facts \in Seq(MemoryFact)
    /\ summary \in [version : Nat, end : Nat, turns : SUBSET (Nat \X Nat)]
    /\ extracted \in 0 .. Len(messages) /\ failures \in Nat
    /\ turn \in MemoryTurn

\* The active summary ends with the record of an answer.
SummaryEnds ==
    /\ summary.end <= Len(messages)
    /\ summary.end > 0 => summary.end \in WithRecord /\ messages[summary.end].role = "assistant"

\* What is about to be summarized is all that may be.
SegmentsFit ==
    turn.at = "reduce" =>
        /\ TurnsOf(turn.segments, Len(turn.segments)) = PairsOf(EligibleRecords)
        /\ PairsOf(EligibleRecords) # {}

ActiveValues == {facts[k].value : k \in ActiveFacts}

\* The statements that are to be applied are those behind some event, up to the last one.
PendingFits ==
    turn.at = "save" =>
        /\ turn.upto = Len(messages)
        /\ \E n \in extracted .. Len(messages) : turn.pending = StatedAfter(n)
        /\ turn.pending = {} => ActiveValues = SaidAt(Len(messages))

MemoryInv ==
    MemoryTyped /\ SummaryEnds /\ SegmentsFit /\ PendingFits /\ MemoryFollowsTheThread

(***************************************************************************)
(* The summary.                                                            *)
(***************************************************************************)
(* A question, and the next answer among the records.                      *)
LEMMA MemoryPairs ==
    ASSUME NEW records
    PROVE  \A p : p \in PairsOf(records) <=>
                     /\ p \in records \X records /\ p[1] < p[2]
                     /\ messages[p[1]].role = "user" /\ messages[p[2]].role = "assistant"
                     /\ \A k \in records : ~(p[1] < k /\ k < p[2])
BY DEF PairsOf

(* Rounded up, none of them is none.                                       *)
LEMMA MemoryNone == \A c \in Nat \ {0} : (0 + c - 1) \div c = 0
<1> SUFFICES ASSUME NEW c \in Nat \ {0}, NEW k \in Int, k = (0 + c - 1) \div c PROVE k = 0
    OBVIOUS
<1>1. c * k <= c - 1 /\ c - 1 < c * k + c
    OBVIOUS
<1>2. ~(k >= 1)
  <2> SUFFICES ASSUME k >= 1 PROVE FALSE
    OBVIOUS
  <2>1. c * k >= c
    OBVIOUS
  <2> QED
    BY <1>1, <2>1
<1>3. ~(k <= -1)
  <2> SUFFICES ASSUME k <= -1 PROVE FALSE
    OBVIOUS
  <2>1. c * k <= -c
    OBVIOUS
  <2> QED
    BY <1>1, <2>1
<1> QED
    BY <1>2, <1>3

(* Taken c at a time, each of n has its piece.                             *)
LEMMA MemoryDivision ==
    ASSUME NEW c \in Nat \ {0}, NEW n \in Nat, NEW place \in 1 .. n
    PROVE  \E k \in 1 .. ((n + c - 1) \div c) : (k - 1) * c < place /\ place <= k * c
<1> DEFINE k == (place + c - 1) \div c
           count == (n + c - 1) \div c
<1>1. /\ k \in Int /\ c * k <= place + c - 1 /\ place + c - 1 < c * k + c
      /\ count \in Int /\ c * count <= n + c - 1 /\ n + c - 1 < c * count + c
    OBVIOUS
<1> HIDE DEF k, count
<1>2. (k - 1) * c = c * k - c /\ k * c = c * k
    BY <1>1
<1>3. k >= 1
  <2> SUFFICES ASSUME k <= 0 PROVE FALSE
    BY <1>1
  <2>1. c * k <= 0
    BY <1>1
  <2> QED
    BY <1>1, <2>1
<1>4. k <= count
  <2> SUFFICES ASSUME count <= k - 1 PROVE FALSE
    BY <1>1
  <2>1. c * count <= c * (k - 1)
    BY <1>1
  <2>2. c * (k - 1) = c * k - c
    BY <1>1
  <2> QED
    BY <1>1, <2>1, <2>2
<1> QED
    BY <1>1, <1>2, <1>3, <1>4 DEF count

(* Records are events of the Thread; there are finitely many, and the      *)
(* newest are few.                                                         *)
LEMMA MemoryRecords ==
    ASSUME messages \in Seq(MemoryMessage), summary.end \in Nat
    PROVE  /\ Len(messages) \in Nat /\ WithRecord \subseteq 1 .. Len(messages)
           /\ IsFiniteSet(WithRecord) /\ Cardinality(WithRecord) \in Nat
           /\ Unsummarized \subseteq WithRecord /\ EligibleRecords \subseteq Unsummarized
           /\ IsFiniteSet(Unsummarized) /\ IsFiniteSet(EligibleRecords)
           /\ Cardinality(Unsummarized) \in Nat /\ Cardinality(EligibleRecords) \in Nat
           /\ \A i : IsFiniteSet({j \in Unsummarized : j > i}) /\ Newer(i) \in Nat
<1>1. Len(messages) \in Nat /\ WithRecord \subseteq 1 .. Len(messages)
    BY DEF WithRecord
<1>2. Unsummarized \subseteq WithRecord /\ EligibleRecords \subseteq Unsummarized
    BY DEF Unsummarized, EligibleRecords
<1>3. IsFiniteSet(1 .. Len(messages))
    BY <1>1, FS_Interval
<1>4. IsFiniteSet(WithRecord)
    BY <1>1, <1>3, FS_Subset
<1>5. IsFiniteSet(Unsummarized) /\ IsFiniteSet(EligibleRecords)
    BY <1>2, <1>4, FS_Subset
<1>6. \A i : IsFiniteSet({j \in Unsummarized : j > i})
    BY <1>5, FS_Subset
<1>7. \A i : Newer(i) \in Nat
    BY <1>6, FS_CardinalityType DEF Newer
<1> QED
    BY <1>1, <1>2, <1>4, <1>5, <1>6, <1>7, FS_CardinalityType

(* What is older than an eligible record is eligible as well.              *)
LEMMA MemoryOlder ==
    ASSUME messages \in Seq(MemoryMessage), summary.end \in Nat, RecentReserve \in Nat,
           NEW i \in Unsummarized, NEW j \in EligibleRecords, i < j
    PROVE  i \in EligibleRecords
<1>1. i \in Nat /\ j \in Nat /\ Unsummarized \subseteq Nat
  <2>1. Unsummarized \subseteq 1 .. Len(messages) /\ j \in Unsummarized /\ Len(messages) \in Nat
    BY MemoryRecords
  <2>2. \A k \in Unsummarized : k \in Nat
    BY <2>1
  <2> QED
    BY <2>1, <2>2
<1>2. {k \in Unsummarized : k > j} \subseteq {k \in Unsummarized : k > i}
  <2>1. \A k \in Unsummarized : k > j => k > i
    BY <1>1
  <2> QED
    BY <2>1
<1>3. Newer(j) <= Newer(i)
    BY <1>2, MemoryRecords, FS_Subset DEF Newer
<1>4. Newer(j) >= RecentReserve
    BY DEF EligibleRecords
<1>5. Newer(i) \in Nat /\ Newer(j) \in Nat
    BY MemoryRecords
<1> QED
    BY <1>3, <1>4, <1>5 DEF EligibleRecords

(* A pair are two events of the Thread.                                    *)
LEMMA MemoryPairEvents ==
    ASSUME messages \in Seq(MemoryMessage), summary.end \in Nat, NEW p \in PairsOf(WithRecord)
    PROVE  p[1] \in WithRecord /\ p[2] \in WithRecord /\ p[1] < p[2] /\ p[1] \in Nat /\ p[2] \in Nat
<1>1. p[1] \in WithRecord /\ p[2] \in WithRecord /\ p[1] < p[2]
    BY MemoryPairs
<1>2. \A i \in WithRecord : i \in Nat
    BY MemoryRecords
<1> QED
    BY <1>1, <1>2

(* A question and its answer are not parted by the end of a summary.       *)
LEMMA MemoryPairIsWhole ==
    ASSUME messages \in Seq(MemoryMessage), summary.end \in Nat, SummaryEnds,
           NEW p \in PairsOf(WithRecord), p[2] > summary.end
    PROVE  p[1] \in Unsummarized /\ p[2] \in Unsummarized
<1>1. /\ p[1] \in WithRecord /\ p[2] \in WithRecord /\ p[1] < p[2] /\ messages[p[1]].role = "user"
      /\ \A k \in WithRecord : ~(p[1] < k /\ k < p[2])
    BY MemoryPairs
<1>2. p[1] \in Nat /\ p[2] \in Nat /\ p[1] > 0
    BY <1>1, MemoryRecords
<1>3. p[1] > summary.end
    BY <1>1, <1>2 DEF SummaryEnds
<1> QED
    BY <1>1, <1>3 DEF Unsummarized

(* Pairs of what is eligible are those of all records that lie in it.      *)
LEMMA MemoryPairsAgree ==
    ASSUME messages \in Seq(MemoryMessage), summary.end \in Nat, SummaryEnds, RecentReserve \in Nat, NEW p
    PROVE  p \in PairsOf(EligibleRecords) <=>
                p \in PairsOf(WithRecord) /\ p[2] > summary.end /\ p[2] \in EligibleRecords
<1>1. ASSUME p \in PairsOf(EligibleRecords)
      PROVE  p \in PairsOf(WithRecord) /\ p[2] > summary.end /\ p[2] \in EligibleRecords
  <2>1. /\ p \in EligibleRecords \X EligibleRecords /\ p[1] < p[2]
        /\ messages[p[1]].role = "user" /\ messages[p[2]].role = "assistant"
        /\ \A k \in EligibleRecords : ~(p[1] < k /\ k < p[2])
    BY <1>1, MemoryPairs
  <2>2. p \in WithRecord \X WithRecord /\ p[1] \in Unsummarized /\ p[2] \in Unsummarized
    BY <2>1, MemoryRecords
  <2>3. p[1] > summary.end /\ p[2] > summary.end
    BY <2>2 DEF Unsummarized
  <2>4. ASSUME NEW k \in WithRecord, p[1] < k, k < p[2] PROVE FALSE
    <3>1. k \in Nat /\ p[1] \in Nat
        BY <2>2, MemoryRecords
    <3>2. k \in Unsummarized
        BY <2>3, <2>4, <3>1 DEF Unsummarized
    <3>3. k \in EligibleRecords
        BY <2>1, <2>4, <3>2, MemoryOlder
    <3> QED
        BY <2>1, <2>4, <3>3
  <2> QED
    BY <2>1, <2>2, <2>3, <2>4, MemoryPairs
<1>2. ASSUME p \in PairsOf(WithRecord), p[2] > summary.end, p[2] \in EligibleRecords
      PROVE  p \in PairsOf(EligibleRecords)
  <2>1. /\ p \in WithRecord \X WithRecord /\ p[1] < p[2]
        /\ messages[p[1]].role = "user" /\ messages[p[2]].role = "assistant"
        /\ \A k \in WithRecord : ~(p[1] < k /\ k < p[2])
    BY <1>2, MemoryPairs
  <2>2. p[1] \in EligibleRecords
    BY <1>2, <2>1, MemoryPairIsWhole, MemoryOlder
  <2>3. \A k \in EligibleRecords : k \in WithRecord
    BY MemoryRecords
  <2>4. p \in EligibleRecords \X EligibleRecords
    BY <1>2, <2>1, <2>2
  <2> QED
    BY <2>1, <2>3, <2>4, MemoryPairs
<1> QED
    BY <1>1, <1>2

(* Of finitely many events one is the last.                                *)
LEMMA MemoryLatest ==
    ASSUME NEW n \in Nat, NEW S \in SUBSET (1 .. n), S # {}
    PROVE  \E i \in S : \A j \in S : j <= i
<1> DEFINE D == {n - i : i \in S}
<1>1. D \in SUBSET Nat /\ D # {}
  <2>1. \A i \in S : i \in Int /\ i <= n /\ n - i \in Nat
    OBVIOUS
  <2> QED
    BY <2>1
<1>2. PICK d \in D : \A e \in D : d <= e
    BY <1>1, WindowLeast
<1>3. PICK i \in S : d = n - i
    OBVIOUS
<1>4. \A j \in S : n - j \in D
    OBVIOUS
<1>5. \A j \in S : j <= i
    BY <1>2, <1>3, <1>4
<1> QED
    BY <1>5

(* At most RecentReserve records are newer than all that may be            *)
(* summarized.                                                             *)
LEMMA MemoryFew ==
    ASSUME messages \in Seq(MemoryMessage), summary.end \in Nat, RecentReserve \in Nat
    PROVE  /\ Unsummarized \ EligibleRecords = {i \in Unsummarized : Newer(i) < RecentReserve}
           /\ Cardinality(Unsummarized) <= Cardinality(EligibleRecords) + RecentReserve
<1> DEFINE few == Unsummarized \ EligibleRecords
<1>1. few = {i \in Unsummarized : Newer(i) < RecentReserve}
  <2>1. \A i : Newer(i) \in Nat
    BY MemoryRecords
  <2> QED
    BY <2>1 DEF EligibleRecords
<1>2. /\ IsFiniteSet(few) /\ IsFiniteSet(EligibleRecords) /\ few \in SUBSET Nat
      /\ Cardinality(few) \in Nat /\ Cardinality(EligibleRecords) \in Nat
  <2>1. IsFiniteSet(Unsummarized) /\ few \subseteq Unsummarized
    BY MemoryRecords
  <2>2. Unsummarized \subseteq Nat
    BY MemoryRecords
  <2>3. IsFiniteSet(few)
    BY <2>1, FS_Subset
  <2> HIDE DEF few
  <2> QED
    BY <2>1, <2>2, <2>3, MemoryRecords, FS_CardinalityType
<1>3. Cardinality(few) <= RecentReserve
  <2>1. CASE few = {}
    <3>1. Cardinality(few) = 0
        BY <2>1, FS_EmptySet
    <3> QED
        BY <3>1
  <2>2. CASE few # {}
    <3>1. PICK low \in few : \A j \in few : low <= j
        BY <1>2, <2>2, WindowLeast
    <3> DEFINE newer == {j \in Unsummarized : j > low}
    <3>2. Newer(low) < RecentReserve /\ low \in Unsummarized
        BY <1>1
    <3>3. IsFiniteSet(newer) /\ Cardinality(newer) = Newer(low) /\ Newer(low) \in Nat
        BY MemoryRecords DEF Newer
    <3>4. few \subseteq newer \cup {low}
      <4> SUFFICES ASSUME NEW j \in few, j # low PROVE j \in Unsummarized /\ j > low
          OBVIOUS
      <4>1. low \in Nat /\ j \in Nat /\ low <= j
          BY <1>2, <3>1
      <4> QED
          BY <4>1
    <3> HIDE DEF newer, few
    <3>5. IsFiniteSet(newer \cup {low}) /\ Cardinality(newer \cup {low}) <= Cardinality(newer) + 1
      <4>1. IsFiniteSet(newer \cup {low})
          BY <3>3, FS_AddElement
      <4>2. Cardinality(newer \cup {low}) = IF low \in newer THEN Cardinality(newer) ELSE Cardinality(newer) + 1
          BY <3>3, FS_AddElement
      <4>3. Cardinality(newer) \in Nat
          BY <3>3
      <4> QED
          BY <4>1, <4>2, <4>3
    <3>6. Cardinality(few) <= Cardinality(newer \cup {low}) /\ Cardinality(newer \cup {low}) \in Nat
        BY <3>4, <3>5, FS_Subset, FS_CardinalityType
    <3> QED
        BY <1>2, <3>2, <3>3, <3>5, <3>6
  <2> QED
    BY <2>1, <2>2
<1>4. Unsummarized = few \cup EligibleRecords /\ few \cap EligibleRecords = {}
    BY MemoryRecords
<1> HIDE DEF few
<1>5. Cardinality(Unsummarized) = Cardinality(few) + Cardinality(EligibleRecords)
  <2>1. Cardinality(few \cap EligibleRecords) = 0
    BY <1>4, FS_EmptySet
  <2>2. IsFiniteSet(few) /\ IsFiniteSet(EligibleRecords)
    BY <1>2
  <2>3. Cardinality(few \cup EligibleRecords)
            = Cardinality(few) + Cardinality(EligibleRecords) - Cardinality(few \cap EligibleRecords)
    BY <2>2, FS_Union
  <2>4. Cardinality(few) \in Nat /\ Cardinality(EligibleRecords) \in Nat
    BY <1>2
  <2> QED
    BY <1>4, <2>1, <2>3, <2>4
<1> QED
    BY <1>1, <1>2, <1>3, <1>5 DEF few

(* Fewer records are newer than one of them than there are.                *)
LEMMA MemoryNewer ==
    ASSUME messages \in Seq(MemoryMessage), summary.end \in Nat, NEW i \in Unsummarized
    PROVE  Newer(i) + 1 <= Cardinality(Unsummarized)
<1> DEFINE newer == {j \in Unsummarized : j > i}
<1>1. IsFiniteSet(newer) /\ IsFiniteSet(Unsummarized) /\ Cardinality(newer) = Newer(i) /\ Newer(i) \in Nat
    BY MemoryRecords DEF Newer
<1>2. i \in Nat
  <2>1. Unsummarized \subseteq Nat
    BY MemoryRecords
  <2> QED
    BY <2>1
<1>3. i \notin newer /\ newer \cup {i} \subseteq Unsummarized
    BY <1>2
<1> HIDE DEF newer
<1>4. IsFiniteSet(newer \cup {i}) /\ Cardinality(newer \cup {i}) = Cardinality(newer) + 1
    BY <1>1, <1>3, FS_AddElement
<1> QED
    BY <1>1, <1>3, <1>4, FS_Subset

(* Pairs lie between events of the Thread, and there are finitely many.    *)
LEMMA MemoryFinitePairs ==
    ASSUME messages \in Seq(MemoryMessage), summary.end \in Nat
    PROVE  /\ IsFiniteSet(PairsOf(EligibleRecords)) /\ PairsOf(EligibleRecords) \subseteq Nat \X Nat
           /\ \A p \in PairsOf(EligibleRecords) : p[2] \in 1 .. Len(messages)
<1>1. IsFiniteSet(EligibleRecords) /\ EligibleRecords \subseteq 1 .. Len(messages) /\ Len(messages) \in Nat
    BY MemoryRecords
<1>2. IsFiniteSet(EligibleRecords \X EligibleRecords)
    BY <1>1, FS_Product
<1>3. PairsOf(EligibleRecords) \subseteq EligibleRecords \X EligibleRecords
    BY DEF PairsOf
<1>4. IsFiniteSet(PairsOf(EligibleRecords))
    BY <1>2, <1>3, FS_Subset
<1>5. EligibleRecords \X EligibleRecords \subseteq Nat \X Nat
  <2>1. \A i \in EligibleRecords : i \in Nat
    BY <1>1
  <2> QED
    BY <2>1
<1>6. \A p \in EligibleRecords \X EligibleRecords : p[2] \in 1 .. Len(messages)
    BY <1>1
<1> QED
    BY <1>3, <1>4, <1>5, <1>6

(* The segments hold each pair, and there is one if there is a pair.       *)
LEMMA MemorySegments ==
    ASSUME NEW pairs, IsFiniteSet(pairs), pairs \subseteq Nat \X Nat
    PROVE  /\ SegmentMessages(pairs) \in Seq(SUBSET (Nat \X Nat))
           /\ TurnsOf(SegmentMessages(pairs), Len(SegmentMessages(pairs))) = pairs
           /\ SegmentMessages(pairs) = <<>> <=> pairs = {}
<1> DEFINE before(p) == {q \in pairs : q[2] <= p[2]}
           place(p) == Cardinality(before(p))
           n == Cardinality(pairs)
           count == (n + ChunkTurns - 1) \div ChunkTurns
           segment(k) == {p \in pairs : (k - 1) * ChunkTurns < place(p) /\ place(p) <= k * ChunkTurns}
           segments == [k \in 1 .. count |-> segment(k)]
<1>1. SegmentMessages(pairs) = segments
    BY DEF SegmentMessages
<1>2. n \in Nat /\ ChunkTurns \in Nat \ {0}
    BY FS_CardinalityType, MemoryAssumption
<1>3. \A p \in pairs : place(p) \in 1 .. n
  <2> SUFFICES ASSUME NEW p \in pairs PROVE place(p) \in 1 .. n
    OBVIOUS
  <2>1. before(p) \subseteq pairs /\ p \in before(p)
    <3>1. p[2] \in Nat
        OBVIOUS
    <3>2. p[2] <= p[2]
        BY <3>1
    <3> QED
        BY <3>2
  <2> HIDE DEF before
  <2>2. IsFiniteSet(before(p)) /\ Cardinality(before(p)) <= n
    BY <2>1, FS_Subset
  <2>3. Cardinality(before(p)) \in Nat /\ Cardinality(before(p)) # 0
    BY <2>1, <2>2, FS_CardinalityType, FS_EmptySet
  <2> QED
    BY <1>2, <2>2, <2>3
<1>4. \A p \in pairs : \E k \in 1 .. count : p \in segment(k)
  <2> SUFFICES ASSUME NEW p \in pairs PROVE \E k \in 1 .. count : p \in segment(k)
    OBVIOUS
  <2>1. place(p) \in 1 .. n
    BY <1>3
  <2> HIDE DEF place, n
  <2>2. PICK k \in 1 .. count : (k - 1) * ChunkTurns < place(p) /\ place(p) <= k * ChunkTurns
    BY <1>2, <2>1, MemoryDivision
  <2> QED
    BY <2>2
<1>5. count \in Nat
  <2> HIDE DEF n
  <2>1. n + ChunkTurns - 1 \in Nat
    BY <1>2
  <2> QED
    BY <1>2, <2>1
<1>6. \A k \in 1 .. count : segment(k) \subseteq pairs
    OBVIOUS
<1> HIDE DEF segment, count, place, before, n
<1>7. segments \in Seq(SUBSET (Nat \X Nat)) /\ Len(segments) = count /\ DOMAIN segments = 1 .. count
    BY <1>5, <1>6
<1>8. TurnsOf(segments, count) = pairs
  <2>1. {k \in DOMAIN segments : k <= count} = 1 .. count
    BY <1>5, <1>7
  <2>2. \A k \in 1 .. count : segments[k] = segment(k)
    OBVIOUS
  <2> HIDE DEF segments
  <2>3. TurnsOf(segments, count) = UNION {segments[k] : k \in 1 .. count}
    BY <2>1 DEF TurnsOf
  <2> QED
    BY <1>4, <1>6, <2>2, <2>3
<1>9. segments = <<>> <=> pairs = {}
  <2>1. segments = <<>> <=> count = 0
    BY <1>5, <1>7
  <2>2. pairs = {} => count = 0
    <3>1. pairs = {} => n = 0
        BY FS_EmptySet DEF n
    <3> QED
        BY <1>2, <3>1, MemoryNone DEF count
  <2> QED
    BY <1>4, <1>5, <2>1, <2>2
<1> HIDE DEF segments
<1> QED
    BY <1>1, <1>7, <1>8, <1>9

(* A summary ends with the last answer that is summarized.                 *)
LEMMA MemoryEnd ==
    ASSUME NEW n \in Nat, NEW pairs, pairs # {}, \A p \in pairs : p[2] \in 1 .. n
    PROVE  /\ \E p \in pairs : LastAnswerIn(pairs) = p[2]
           /\ \A p \in pairs : p[2] <= LastAnswerIn(pairs)
<1> DEFINE answers == {p[2] : p \in pairs}
<1>1. answers \in SUBSET (1 .. n) /\ answers # {}
    OBVIOUS
<1>2. \E i \in answers : \A j \in answers : j <= i
    BY <1>1, MemoryLatest
<1>3. \E i \in answers : \A p \in pairs : p[2] <= i
    BY <1>2
<1>4. LastAnswerIn(pairs) = CHOOSE i \in answers : \A p \in pairs : p[2] <= i
    BY DEF LastAnswerIn
<1>5. LastAnswerIn(pairs) \in answers /\ \A p \in pairs : p[2] <= LastAnswerIn(pairs)
    BY <1>3, <1>4
<1> QED
    BY <1>5

(* The new summary is made from all that lies in its range.                *)
LEMMA MemoryMerges ==
    ASSUME MemoryTyped, SummaryEnds, SummaryCoversItsRange, NEW end,
           PairsOf(EligibleRecords) # {}, end = LastAnswerIn(PairsOf(EligibleRecords))
    PROVE  /\ end \in WithRecord /\ end > summary.end /\ messages[end].role = "assistant"
           /\ {p \in PairsOf(WithRecord) : p[2] <= end} = summary.turns \cup PairsOf(EligibleRecords)
<1>1. /\ messages \in Seq(MemoryMessage) /\ summary.end \in Nat /\ Len(messages) \in Nat
      /\ RecentReserve \in Nat
    BY MemoryAssumption DEF MemoryTyped
<1>2. /\ \E p \in PairsOf(EligibleRecords) : end = p[2]
      /\ \A p \in PairsOf(EligibleRecords) : p[2] <= end
    BY <1>1, MemoryFinitePairs, MemoryEnd
<1>3. /\ WithRecord \subseteq Nat /\ EligibleRecords \subseteq WithRecord
      /\ \A i \in EligibleRecords : i \in Unsummarized /\ i > summary.end
    BY <1>1, MemoryRecords DEF Unsummarized
<1>4. end \in EligibleRecords /\ messages[end].role = "assistant"
    BY <1>2, MemoryPairs
<1>5. end \in WithRecord /\ end > summary.end /\ end \in Nat
    BY <1>3, <1>4
<1>6. \A p \in PairsOf(WithRecord) : p[2] \in WithRecord /\ p[2] \in Nat
  <2>1. \A p \in PairsOf(WithRecord) : p[2] \in WithRecord
    BY MemoryPairs
  <2> QED
    BY <1>3, <2>1
<1>7. ASSUME NEW p \in PairsOf(WithRecord), p[2] <= end
      PROVE  p \in summary.turns \/ p \in PairsOf(EligibleRecords)
  <2>1. CASE p[2] <= summary.end
    BY <1>7, <2>1 DEF SummaryCoversItsRange
  <2>2. CASE p[2] > summary.end
    <3>1. p[2] \in EligibleRecords
      <4>1. p[2] \in Unsummarized
          BY <1>6, <2>2 DEF Unsummarized
      <4>2. p[2] = end \/ p[2] < end
          BY <1>5, <1>6, <1>7
      <4> QED
          BY <1>1, <1>4, <4>1, <4>2, MemoryOlder
    <3> QED
        BY <1>1, <1>7, <2>2, <3>1, MemoryPairsAgree
  <2> QED
    BY <1>1, <1>6, <2>1, <2>2
<1>8. ASSUME NEW p \in PairsOf(EligibleRecords)
      PROVE  p \in PairsOf(WithRecord) /\ p[2] <= end
    BY <1>1, <1>2, MemoryPairsAgree
<1>9. ASSUME NEW p \in summary.turns
      PROVE  p \in PairsOf(WithRecord) /\ p[2] <= end
  <2>1. p \in PairsOf(WithRecord) /\ p[2] <= summary.end
    BY <1>9 DEF SummaryCoversItsRange
  <2> QED
    BY <1>1, <1>5, <1>6, <2>1
<1> QED
    BY <1>4, <1>5, <1>7, <1>8, <1>9

(* A pair that may not be summarized is among the recent records, a        *)
(* question behind its answer.                                             *)
LEMMA MemoryRecent ==
    ASSUME MemoryTyped, SummaryEnds, NEW p \in PairsOf(WithRecord), p[2] > summary.end,
           p \notin PairsOf(EligibleRecords)
    PROVE  Newer(p[1]) <= RecentReserve /\ Newer(p[2]) < RecentReserve
<1>1. /\ messages \in Seq(MemoryMessage) /\ summary.end \in Nat /\ RecentReserve \in Nat
    BY MemoryAssumption DEF MemoryTyped
<1>2. p[1] \in Unsummarized /\ p[2] \in Unsummarized /\ p[2] \notin EligibleRecords
    BY <1>1, MemoryPairIsWhole, MemoryPairsAgree
<1>3. Newer(p[2]) < RecentReserve /\ Newer(p[2]) \in Nat /\ Newer(p[1]) \in Nat
  <2>1. Newer(p[2]) \in Nat /\ Newer(p[1]) \in Nat
    BY <1>1, MemoryRecords
  <2> QED
    BY <1>1, <1>2, <2>1 DEF EligibleRecords
<1>4. p[1] < p[2] /\ \A k \in WithRecord : ~(p[1] < k /\ k < p[2])
    BY MemoryPairs
<1> DEFINE newer(i) == {j \in Unsummarized : j > i}
<1>5. newer(p[1]) \subseteq newer(p[2]) \cup {p[2]}
  <2> SUFFICES ASSUME NEW j \in Unsummarized, j > p[1], j # p[2] PROVE j > p[2]
    OBVIOUS
  <2>1. Unsummarized \subseteq WithRecord /\ WithRecord \subseteq Nat
    BY <1>1, MemoryRecords
  <2>2. j \in WithRecord /\ j \in Nat /\ p[2] \in Nat /\ p[1] \in Nat
    BY <1>2, <2>1
  <2> QED
    BY <1>4, <2>2
<1>6. /\ IsFiniteSet(newer(p[2])) /\ Cardinality(newer(p[2])) = Newer(p[2])
      /\ Cardinality(newer(p[1])) = Newer(p[1])
    BY <1>1, MemoryRecords DEF Newer
<1> HIDE DEF newer
<1>7. /\ IsFiniteSet(newer(p[2]) \cup {p[2]})
      /\ Cardinality(newer(p[2]) \cup {p[2]}) = IF p[2] \in newer(p[2]) THEN Cardinality(newer(p[2]))
                                                 ELSE Cardinality(newer(p[2])) + 1
    BY <1>6, FS_AddElement
<1>8. Cardinality(newer(p[1])) <= Cardinality(newer(p[2]) \cup {p[2]})
    BY <1>5, <1>7, FS_Subset
<1> QED
    BY <1>1, <1>3, <1>6, <1>7, <1>8

(***************************************************************************)
(* The policy's defaults satisfy this: what is too little to be summarized *)
(* is shown as it is.                                                      *)
(***************************************************************************)
RecentSuffices ==
    /\ Threshold <= RecentLimit + 1 /\ MinUnsummarized + RecentReserve <= RecentLimit + 1
    /\ RecentReserve < RecentLimit

(* When nothing is summarized, everything since the last summary is recent *)
(* or was too new.                                                         *)
LEMMA MemoryTooLittle ==
    ASSUME MemoryTyped, SummaryEnds, RecentSuffices, NEW p \in PairsOf(WithRecord), p[2] > summary.end,
           \/ Cardinality(WithRecord) < Threshold
           \/ Cardinality(EligibleRecords) < MinUnsummarized
           \/ p \notin PairsOf(EligibleRecords)
    PROVE  {p[1], p[2]} \subseteq RecentRecords
<1>1. /\ messages \in Seq(MemoryMessage) /\ summary.end \in Nat /\ RecentReserve \in Nat /\ RecentLimit \in Nat
      /\ Threshold \in Nat /\ MinUnsummarized \in Nat
    BY MemoryAssumption DEF MemoryTyped
<1>2. p[1] \in Unsummarized /\ p[2] \in Unsummarized
    BY <1>1, MemoryPairIsWhole
<1>3. Newer(p[1]) \in Nat /\ Newer(p[2]) \in Nat
    BY <1>1, MemoryRecords
<1>4. Newer(p[1]) < RecentLimit /\ Newer(p[2]) < RecentLimit
  <2>1. /\ Newer(p[1]) + 1 <= Cardinality(Unsummarized) /\ Newer(p[2]) + 1 <= Cardinality(Unsummarized)
    BY <1>1, <1>2, MemoryNewer
  <2>2. /\ Cardinality(Unsummarized) \in Nat /\ Cardinality(WithRecord) \in Nat
        /\ Cardinality(EligibleRecords) \in Nat /\ IsFiniteSet(WithRecord) /\ Unsummarized \subseteq WithRecord
    BY <1>1, MemoryRecords
  <2>3. CASE Cardinality(WithRecord) < Threshold
    <3>1. Cardinality(Unsummarized) <= Cardinality(WithRecord)
        BY <2>2, FS_Subset
    <3> QED
        BY <1>1, <1>3, <2>1, <2>2, <2>3, <3>1 DEF RecentSuffices
  <2>4. CASE Cardinality(EligibleRecords) < MinUnsummarized
    <3>1. Cardinality(Unsummarized) <= Cardinality(EligibleRecords) + RecentReserve
        BY <1>1, MemoryFew
    <3> QED
        BY <1>1, <1>3, <2>1, <2>2, <2>4, <3>1 DEF RecentSuffices
  <2>5. CASE p \notin PairsOf(EligibleRecords)
    <3>1. Newer(p[1]) <= RecentReserve /\ Newer(p[2]) < RecentReserve
        BY <2>5, MemoryRecent
    <3> QED
        BY <1>1, <1>3, <3>1 DEF RecentSuffices
  <2> QED
    BY <2>3, <2>4, <2>5
<1> QED
    BY <1>2, <1>4 DEF RecentRecords

(***************************************************************************)
(* The facts.                                                              *)
(***************************************************************************)
(* What was said last is what the last statement says.                     *)
LEMMA MemorySaid ==
    ASSUME messages \in Seq(MemoryMessage), NEW n \in 1 .. Len(messages), messages[n].says # "nothing"
    PROVE  SaidAt(n) = {messages[n].says} \ {NoValue}
<1> DEFINE said == {i \in 1 .. n : messages[i].says # "nothing"}
           last == CHOOSE i \in said : \A j \in said : j <= i
<1>1. Len(messages) \in Nat /\ n \in Nat
    OBVIOUS
<1>2. n \in said /\ \A j \in said : j <= n
    BY <1>1
<1>3. \A i \in said : (\A j \in said : j <= i) => i = n
    BY <1>1, <1>2
<1>4. last = n
    BY <1>2, <1>3
<1>5. SaidAt(n) = IF said = {} THEN {} ELSE {messages[last].says} \ {NoValue}
    BY DEF SaidAt
<1> QED
    BY <1>2, <1>4, <1>5

(* Where nothing is said in between, what was said last is the same.       *)
LEMMA MemorySilence ==
    ASSUME messages \in Seq(MemoryMessage), NEW m \in 0 .. Len(messages), StatedAfter(m) = {},
           NEW n \in m .. Len(messages)
    PROVE  SaidAt(n) = SaidAt(m)
<1>1. DOMAIN messages = 1 .. Len(messages) /\ Len(messages) \in Nat
    OBVIOUS
<1>2. {i \in 1 .. n : messages[i].says # "nothing"} = {i \in 1 .. m : messages[i].says # "nothing"}
    BY <1>1 DEF StatedAfter
<1> QED
    BY <1>2 DEF SaidAt

(* At most one value was said last.                                        *)
LEMMA MemoryOneValue == \A n : \A v, w \in SaidAt(n) : v = w
BY DEF SaidAt

(* A statement is applied: it is the only value then, or there is none.    *)
LEMMA MemoryApplies ==
    ASSUME MemoryTyped, FactFollowsTheUser, NEW id \in DOMAIN messages, messages[id].says # "nothing",
           facts' = IF messages[id].says = NoValue THEN RetractFact ELSE SaveFactValue(messages[id].says, id)
    PROVE  facts' \in Seq(MemoryFact) /\ ActiveValues' = {messages[id].says} \ {NoValue}
<1> DEFINE value == messages[id].says
<1>1. /\ facts \in Seq(MemoryFact) /\ Len(facts) \in Nat /\ DOMAIN facts = 1 .. Len(facts)
      /\ value \in Stated \cup {NoValue, "nothing"} /\ id \in Nat
      /\ \A k \in DOMAIN facts : facts[k] \in MemoryFact
  <2>1. facts \in Seq(MemoryFact) /\ messages \in Seq(MemoryMessage)
    BY DEF MemoryTyped
  <2>2. messages[id] \in MemoryMessage /\ id \in Nat
    BY <2>1
  <2>3. value \in Stated \cup {NoValue, "nothing"}
    BY <2>2 DEF MemoryMessage
  <2>4. Len(facts) \in Nat /\ DOMAIN facts = 1 .. Len(facts) /\ \A k \in 1 .. Len(facts) : facts[k] \in MemoryFact
    BY <2>1
  <2> QED
    BY <2>1, <2>2, <2>3, <2>4
<1> HIDE DEF value
<1>2. CASE value = NoValue
  <2>1. facts' = [k \in DOMAIN facts |-> [facts[k] EXCEPT !.active = FALSE]]
    BY <1>2 DEF RetractFact, value
  <2>2. \A k \in DOMAIN facts : [facts[k] EXCEPT !.active = FALSE] \in MemoryFact
    BY <1>1 DEF MemoryFact
  <2>3. facts' \in Seq(MemoryFact) /\ DOMAIN facts' = 1 .. Len(facts)
    BY <1>1, <2>1, <2>2
  <2>4. \A k \in DOMAIN facts' : ~facts'[k].active
    BY <1>1, <2>1, <2>3 DEF MemoryFact
  <2>5. ActiveValues' = {}
    BY <2>4 DEF ActiveValues, ActiveFacts
  <2> QED
    BY <1>2, <2>3, <2>5 DEF value
<1>3. CASE value # NoValue /\ \E k \in ActiveFacts : facts[k].value = value
  <2>1. facts' = [k \in DOMAIN facts |-> IF k \in ActiveFacts /\ facts[k].value = value
                                        THEN [facts[k] EXCEPT !.seen = @ \cup {id}] ELSE facts[k]]
    BY <1>3 DEF SaveFactValue, value
  <2>2. \A k \in DOMAIN facts :
            /\ [facts[k] EXCEPT !.seen = @ \cup {id}] \in MemoryFact
            /\ [facts[k] EXCEPT !.seen = @ \cup {id}].active = facts[k].active
            /\ [facts[k] EXCEPT !.seen = @ \cup {id}].value = facts[k].value
    BY <1>1 DEF MemoryFact
  <2>3. facts' \in Seq(MemoryFact) /\ DOMAIN facts' = DOMAIN facts
    <3>1. \A k \in 1 .. Len(facts) : (IF k \in ActiveFacts /\ facts[k].value = value
                                     THEN [facts[k] EXCEPT !.seen = @ \cup {id}] ELSE facts[k]) \in MemoryFact
        BY <1>1, <2>2
    <3> QED
        BY <1>1, <2>1, <3>1
  <2>4. \A k \in DOMAIN facts : facts'[k].active = facts[k].active /\ facts'[k].value = facts[k].value
    BY <1>1, <2>1, <2>2
  <2>5. ActiveValues' = ActiveValues
    BY <2>3, <2>4 DEF ActiveValues, ActiveFacts
  <2>6. value \in ActiveValues /\ \A v, w \in ActiveValues : v = w
    <3>1. \E n : ActiveValues = SaidAt(n)
        BY DEF FactFollowsTheUser, ActiveValues
    <3> QED
        BY <1>3, <3>1, MemoryOneValue DEF ActiveValues
  <2>7. ActiveValues = {value}
    BY <2>6
  <2> QED
    BY <1>3, <2>3, <2>5, <2>7 DEF value
<1>4. CASE value # NoValue /\ ~\E k \in ActiveFacts : facts[k].value = value
  <2> DEFINE old == [k \in DOMAIN facts |-> [facts[k] EXCEPT !.active = FALSE]]
             new == [value |-> value, active |-> TRUE, seen |-> {id}]
  <2>1. facts' = Append(old, new)
    BY <1>4 DEF SaveFactValue, value
  <2>2. \A k \in DOMAIN facts : [facts[k] EXCEPT !.active = FALSE] \in MemoryFact
                              /\ [facts[k] EXCEPT !.active = FALSE].active = FALSE
    BY <1>1 DEF MemoryFact
  <2>3. /\ old \in Seq(MemoryFact) /\ Len(old) = Len(facts) /\ new \in MemoryFact
        /\ \A k \in 1 .. Len(facts) : ~old[k].active
    BY <1>1, <2>2 DEF MemoryFact
  <2>4. new.value = value /\ new.active
    OBVIOUS
  <2> HIDE DEF old, new
  <2>5. /\ facts' \in Seq(MemoryFact) /\ DOMAIN facts' = 1 .. (Len(facts) + 1)
        /\ facts'[Len(facts) + 1] = new /\ \A k \in 1 .. Len(facts) : facts'[k] = old[k]
    <3>1. /\ Append(old, new) \in Seq(MemoryFact) /\ Len(Append(old, new)) = Len(old) + 1
          /\ Append(old, new)[Len(old) + 1] = new
          /\ \A k \in 1 .. Len(old) : Append(old, new)[k] = old[k]
        BY <2>3, AppendProperties
    <3>2. DOMAIN Append(old, new) = 1 .. Len(Append(old, new))
        BY <3>1
    <3> QED
        BY <2>1, <2>3, <3>1, <3>2
  <2>6. ActiveFacts' = {Len(facts) + 1}
    BY <1>1, <2>3, <2>4, <2>5 DEF ActiveFacts
  <2>7. ActiveValues' = {value}
    BY <2>4, <2>5, <2>6 DEF ActiveValues
  <2> QED
    BY <1>4, <2>5, <2>7 DEF value
<1> QED
    BY <1>2, <1>3, <1>4

(***************************************************************************)
(* The steps.                                                              *)
(***************************************************************************)
(* What is read of the records while no message is written and no summary  *)
(* saved.                                                                  *)
LEMMA MemoryStands ==
    ASSUME UNCHANGED <<messages, summary>>
    PROVE  /\ WithRecord' = WithRecord /\ EligibleRecords' = EligibleRecords
           /\ PairsOf(WithRecord)' = PairsOf(WithRecord) /\ PairsOf(EligibleRecords)' = PairsOf(EligibleRecords)
           /\ RecentRecords' = RecentRecords /\ SummaryEnds' = SummaryEnds
           /\ SummaryCoversItsRange' = SummaryCoversItsRange
<1>1. WithRecord' = WithRecord /\ \A S : PairsOf(S)' = PairsOf(S)
    BY DEF WithRecord, PairsOf
<1>2. Unsummarized' = Unsummarized
    BY <1>1 DEF Unsummarized
<1>3. EligibleRecords' = EligibleRecords /\ RecentRecords' = RecentRecords
    BY <1>2 DEF EligibleRecords, RecentRecords, Newer
<1>4. SummaryEnds' = SummaryEnds
    BY <1>1 DEF SummaryEnds
<1>5. PairsOf(WithRecord)' = PairsOf(WithRecord) /\ PairsOf(EligibleRecords)' = PairsOf(EligibleRecords)
    BY <1>1, <1>3 DEF PairsOf
<1>6. SummaryCoversItsRange' = SummaryCoversItsRange
    BY <1>5 DEF SummaryCoversItsRange
<1> QED
    BY <1>1, <1>3, <1>4, <1>5, <1>6

(* ... and of the facts, while none is saved either.                       *)
LEMMA MemoryFactsStand ==
    ASSUME UNCHANGED <<messages, facts, extracted>>
    PROVE  /\ ActiveValues' = ActiveValues /\ FactFollowsTheUser' = FactFollowsTheUser
           /\ \A n : SaidAt(n)' = SaidAt(n) /\ StatedAfter(n)' = StatedAfter(n)
BY DEF ActiveValues, ActiveFacts, FactFollowsTheUser, SaidAt, StatedAfter

(* The process goes on, or ends.                                           *)
LEMMA MemoryTurns ==
    ASSUME turn \in MemoryTurn
    PROVE  /\ AtRest \in MemoryTurn /\ AtRest.at = "idle"
           /\ \A at \in {"running", "summarize", "extract"} :
                 [turn EXCEPT !.at = at] \in MemoryTurn /\ [turn EXCEPT !.at = at].at = at
           /\ [turn EXCEPT !.at = "extract", !.segments = <<>>] \in MemoryTurn
           /\ [turn EXCEPT !.at = "extract", !.segments = <<>>].at = "extract"
<1>1. <<>> \in Seq(SUBSET (Nat \X Nat))
    OBVIOUS
<1>2. AtRest \in MemoryTurn /\ AtRest.at = "idle"
    BY <1>1 DEF AtRest, MemoryTurn
<1>3. \A at \in {"running", "summarize", "extract"} :
            [turn EXCEPT !.at = at] \in MemoryTurn /\ [turn EXCEPT !.at = at].at = at
    BY DEF MemoryTurn
<1>4. /\ [turn EXCEPT !.at = "extract", !.segments = <<>>] \in MemoryTurn
      /\ [turn EXCEPT !.at = "extract", !.segments = <<>>].at = "extract"
  <2> DEFINE next == [turn EXCEPT !.at = "extract"]
  <2>1. next \in MemoryTurn /\ next.at = "extract"
    BY DEF MemoryTurn
  <2>2. [turn EXCEPT !.at = "extract", !.segments = <<>>] = [next EXCEPT !.segments = <<>>]
    OBVIOUS
  <2> HIDE DEF next
  <2>3. [next EXCEPT !.segments = <<>>] \in MemoryTurn /\ [next EXCEPT !.segments = <<>>].at = "extract"
    BY <1>1, <2>1 DEF MemoryTurn
  <2> QED
    BY <2>2, <2>3
<1> QED
    BY <1>2, <1>3, <1>4

(* A message behind the others changes nothing of what was derived from    *)
(* them.                                                                   *)
LEMMA MemoryWrites ==
    ASSUME MemoryInv, NEW role \in {"user", "assistant"}, NEW says \in Stated \cup {NoValue, "nothing"},
           RecordMessage(role, says), UNCHANGED <<summary, facts, extracted>>,
           NEW at \in {"running", "summarize"}, turn' = [turn EXCEPT !.at = at]
    PROVE  MemoryInv'
<1>1. MemoryTyped /\ SummaryEnds /\ SummaryCoversItsRange /\ FactFollowsTheUser
    BY DEF MemoryInv, MemoryFollowsTheThread
<1>2. PICK fails \in {0, 1} :
        /\ failures' = failures + fails
        /\ messages' = Append(messages, [role |-> role, says |-> says, recorded |-> fails = 0])
    BY DEF RecordMessage, MayFail
<1> DEFINE x == [role |-> role, says |-> says, recorded |-> fails = 0]
           n == Len(messages)
<1>3. /\ messages \in Seq(MemoryMessage) /\ n \in Nat /\ x \in MemoryMessage /\ summary.end \in Nat
      /\ summary.end <= n /\ extracted \in 0 .. n
    BY <1>1 DEF MemoryTyped, SummaryEnds, MemoryMessage
<1> HIDE DEF x
<1>4. /\ messages' \in Seq(MemoryMessage) /\ Len(messages') = n + 1
      /\ \A i \in 1 .. n : messages'[i] = messages[i]
    BY <1>2, <1>3, AppendProperties DEF x
<1>5. DOMAIN messages = 1 .. n /\ DOMAIN messages' = 1 .. (n + 1)
    BY <1>3, <1>4
<1>6. MemoryTyped'
  <2>1. failures' \in Nat
    BY <1>1, <1>2 DEF MemoryTyped
  <2>2. extracted' \in 0 .. Len(messages')
    BY <1>3, <1>4
  <2>3. turn' \in MemoryTurn
    BY <1>1, MemoryTurns DEF MemoryTyped
  <2> QED
    BY <1>1, <1>4, <2>1, <2>2, <2>3 DEF MemoryTyped
<1>7. WithRecord \subseteq 1 .. n /\ WithRecord \subseteq WithRecord' /\ \A i \in WithRecord' : i <= n => i \in WithRecord
    BY <1>3, <1>4, <1>5 DEF WithRecord
<1>8. SummaryEnds'
    BY <1>1, <1>3, <1>4, <1>7 DEF SummaryEnds
<1>9. SummaryCoversItsRange'
  <2>1. \A p : p \in PairsOf(WithRecord)' <=>
              /\ p \in WithRecord' \X WithRecord' /\ p[1] < p[2]
              /\ messages'[p[1]].role = "user" /\ messages'[p[2]].role = "assistant"
              /\ \A k \in WithRecord' : ~(p[1] < k /\ k < p[2])
    BY DEF PairsOf
  <2>2. WithRecord' \subseteq 1 .. (n + 1)
    BY <1>5 DEF WithRecord
  <2>3. ASSUME NEW p \in PairsOf(WithRecord)', p[2] <= summary.end PROVE p \in PairsOf(WithRecord)
    <3>1. p \in WithRecord' \X WithRecord' /\ p[1] < p[2] /\ p[1] \in Nat /\ p[2] \in Nat
        BY <1>3, <2>1, <2>2, <2>3
    <3>2. p[1] <= n /\ p[2] <= n
        BY <1>3, <2>3, <3>1
    <3>3. p \in WithRecord \X WithRecord
        BY <1>7, <3>1, <3>2
    <3>4. messages'[p[1]] = messages[p[1]] /\ messages'[p[2]] = messages[p[2]]
        BY <1>4, <1>7, <3>3
    <3> QED
        BY <1>7, <2>1, <2>3, <3>3, <3>4, MemoryPairs
  <2>4. ASSUME NEW p \in PairsOf(WithRecord), p[2] <= summary.end PROVE p \in PairsOf(WithRecord)'
    <3>1. /\ p \in WithRecord \X WithRecord /\ p[1] < p[2]
          /\ messages[p[1]].role = "user" /\ messages[p[2]].role = "assistant"
          /\ \A k \in WithRecord : ~(p[1] < k /\ k < p[2])
        BY <2>4, MemoryPairs
    <3>2. messages'[p[1]] = messages[p[1]] /\ messages'[p[2]] = messages[p[2]]
        BY <1>4, <1>7, <3>1
    <3>3. \A k \in WithRecord' : k < p[2] => k \in WithRecord
        BY <1>3, <1>7, <2>2, <2>4, <3>1
    <3> QED
        BY <1>7, <2>1, <3>1, <3>2, <3>3
  <2>5. summary.turns = {p \in PairsOf(WithRecord) : p[2] <= summary.end}
    BY <1>1 DEF SummaryCoversItsRange
  <2>6. {p \in PairsOf(WithRecord)' : p[2] <= summary.end} = {p \in PairsOf(WithRecord) : p[2] <= summary.end}
    BY <2>3, <2>4
  <2> QED
    BY <2>5, <2>6 DEF SummaryCoversItsRange
<1>10. FactFollowsTheUser'
  <2>1. PICK k \in extracted .. n : ActiveValues = SaidAt(k)
    BY <1>1 DEF FactFollowsTheUser, ActiveValues
  <2>2. {i \in 1 .. k : messages'[i].says # "nothing"} = {i \in 1 .. k : messages[i].says # "nothing"}
    BY <1>3, <1>4
  <2>3. \A i \in 1 .. k : messages'[i] = messages[i]
    BY <1>3, <1>4
  <2> DEFINE said == {i \in 1 .. k : messages[i].says # "nothing"}
             last == CHOOSE i \in said : \A j \in said : j <= i
  <2>4. SaidAt(k) = (IF said = {} THEN {} ELSE {messages[last].says} \ {NoValue})
    BY DEF SaidAt
  <2>5. SaidAt(k)' = (IF said = {} THEN {} ELSE {messages'[last].says} \ {NoValue})
    BY <2>2 DEF SaidAt
  <2>6. said # {} => last \in said
    <3>1. said \in SUBSET (1 .. n)
        BY <1>3
    <3> HIDE DEF said
    <3>2. said # {} => \E i \in said : \A j \in said : j <= i
        BY <1>3, <3>1, MemoryLatest
    <3> QED
        BY <3>2
  <2>7. said # {} => messages'[last] = messages[last]
    BY <2>3, <2>6
  <2>8. SaidAt(k)' = SaidAt(k)
    BY <2>4, <2>5, <2>7
  <2>9. ActiveValues' = ActiveValues /\ k \in extracted' .. Len(messages')
    BY <1>3, <1>4 DEF ActiveValues, ActiveFacts
  <2> QED
    BY <2>1, <2>8, <2>9 DEF FactFollowsTheUser, ActiveValues
<1>11. turn'.at = at
    BY <1>1 DEF MemoryTyped
<1>12. SegmentsFit' /\ PendingFits' /\ NothingFallsBetween'
    BY <1>11 DEF SegmentsFit, PendingFits, NothingFallsBetween
<1> QED
    BY <1>6, <1>8, <1>9, <1>10, <1>12 DEF MemoryInv, MemoryFollowsTheThread

(* A process that ends, is stopped, goes on, or whose summarizer fails.    *)
LEMMA MemoryRests ==
    ASSUME MemoryInv, UNCHANGED <<messages, summary, facts, extracted>>, failures' \in Nat,
           \/ turn' \in {AtRest, [turn EXCEPT !.at = "running"]}
           \/ turn' = [turn EXCEPT !.at = "extract", !.segments = <<>>] /\ failures' > 0
    PROVE  MemoryInv'
<1>1. turn \in MemoryTurn
    BY DEF MemoryInv, MemoryTyped
<1>2. /\ turn' \in MemoryTurn
      /\ turn'.at \in {"idle", "running", "extract"} /\ (turn'.at = "extract" => failures' # 0)
  <2>1. CASE turn' \in {AtRest, [turn EXCEPT !.at = "running"]}
    <3>1. turn' \in MemoryTurn /\ turn'.at \in {"idle", "running"}
        BY <1>1, <2>1, MemoryTurns
    <3> QED
        BY <3>1
  <2>2. CASE turn' = [turn EXCEPT !.at = "extract", !.segments = <<>>] /\ failures' > 0
    <3>1. turn' \in MemoryTurn /\ turn'.at = "extract"
        BY <1>1, <2>2, MemoryTurns
    <3>2. failures' # 0
        BY <2>2
    <3> QED
        BY <3>1, <3>2
  <2> QED
    BY <2>1, <2>2
<1>3. MemoryTyped'
    BY <1>2 DEF MemoryInv, MemoryTyped
<1>4. SummaryEnds' /\ SummaryCoversItsRange' /\ FactFollowsTheUser'
    BY MemoryStands, MemoryFactsStand DEF MemoryInv, MemoryFollowsTheThread
<1>5. SegmentsFit' /\ PendingFits' /\ NothingFallsBetween'
    BY <1>2 DEF SegmentsFit, PendingFits, NothingFallsBetween
<1> QED
    BY <1>3, <1>4, <1>5 DEF MemoryInv, MemoryFollowsTheThread

(* A Thread is summarized, or what was not is short enough to be shown.    *)
LEMMA MemoryReads ==
    ASSUME MemoryInv, RecentSuffices, ReadForSummary
    PROVE  MemoryInv'
<1> DEFINE pairs == PairsOf(EligibleRecords)
           segments == SegmentMessages(pairs)
           enough == /\ Cardinality(WithRecord) >= Threshold
                     /\ Cardinality(EligibleRecords) >= MinUnsummarized
                     /\ segments # <<>>
<1>1. /\ turn' = (IF enough THEN [turn EXCEPT !.at = "reduce", !.segments = segments]
                  ELSE [turn EXCEPT !.at = "extract"])
      /\ UNCHANGED <<messages, summary, facts, extracted, failures>>
    BY DEF ReadForSummary
<1>2. MemoryTyped /\ SummaryEnds /\ SummaryCoversItsRange /\ messages \in Seq(MemoryMessage) /\ summary.end \in Nat
    BY DEF MemoryInv, MemoryFollowsTheThread, MemoryTyped
<1>3. /\ segments \in Seq(SUBSET (Nat \X Nat)) /\ TurnsOf(segments, Len(segments)) = pairs
      /\ segments = <<>> <=> pairs = {}
    BY <1>2, MemoryFinitePairs, MemorySegments
<1>4. /\ SummaryEnds' /\ SummaryCoversItsRange' /\ FactFollowsTheUser'
      /\ PairsOf(EligibleRecords)' = pairs /\ PairsOf(WithRecord)' = PairsOf(WithRecord)
      /\ RecentRecords' = RecentRecords
    BY <1>1, MemoryStands, MemoryFactsStand DEF MemoryInv, MemoryFollowsTheThread
<1> HIDE DEF segments
<1>5. MemoryTyped' /\ turn'.at = (IF enough THEN "reduce" ELSE "extract")
  <2>1. turn \in MemoryTurn
    BY <1>2 DEF MemoryTyped
  <2> HIDE DEF enough
  <2>2. /\ turn' \in MemoryTurn
        /\ turn'.at = (IF enough THEN "reduce" ELSE "extract")
    <3>1. CASE enough
        BY <1>1, <1>3, <2>1, <3>1 DEF MemoryTurn
    <3>2. CASE ~enough
        BY <1>1, <2>1, <3>2, MemoryTurns
    <3> QED
        BY <3>1, <3>2
  <2> QED
    BY <1>1, <1>2, <2>2 DEF MemoryTyped
<1>6. SegmentsFit'
  <2> SUFFICES ASSUME enough PROVE SegmentsFit'
    BY <1>5 DEF SegmentsFit
  <2>1. turn'.segments = segments /\ pairs # {}
    BY <1>1, <1>2, <1>3 DEF MemoryTyped
  <2>2. TurnsOf(turn.segments, Len(turn.segments))' = TurnsOf(segments, Len(segments))
    BY <2>1 DEF TurnsOf
  <2> QED
    BY <1>3, <1>4, <2>1, <2>2 DEF SegmentsFit
<1>7. NothingFallsBetween'
  <2> SUFFICES ASSUME ~enough, NEW p \in PairsOf(WithRecord)
               PROVE  p \in summary'.turns \/ {p[1], p[2]} \subseteq RecentRecords'
    BY <1>4, <1>5 DEF NothingFallsBetween
  <2>1. CASE p[2] <= summary.end
    BY <1>1, <1>2, <2>1 DEF SummaryCoversItsRange
  <2>2. CASE p[2] > summary.end
    <3>1. Cardinality(WithRecord) \in Nat /\ Cardinality(EligibleRecords) \in Nat
        BY <1>2, MemoryRecords
    <3>2. \/ Cardinality(WithRecord) < Threshold
          \/ Cardinality(EligibleRecords) < MinUnsummarized
          \/ p \notin pairs
        BY <1>3, <3>1, MemoryAssumption
    <3>3. {p[1], p[2]} \subseteq RecentRecords
        BY <1>2, <2>2, <3>2, MemoryTooLittle
    <3> QED
        BY <1>4, <3>3
  <2>3. p[2] <= summary.end \/ p[2] > summary.end
    <3>1. p[2] \in Nat /\ summary.end \in Nat
        BY <1>2, MemoryPairEvents
    <3> QED
        BY <3>1
  <2> QED
    BY <2>1, <2>2, <2>3
<1>8. PendingFits'
    BY <1>5 DEF PendingFits
<1> QED
    BY <1>4, <1>5, <1>6, <1>7, <1>8 DEF MemoryInv, MemoryFollowsTheThread

(***************************************************************************)
(* The partial summaries of a Thread fit into one request of the           *)
(* summarizer: MemoryService.summarize does not secure this.               *)
(***************************************************************************)
NothingIsDropped == turn.at = "reduce" => Len(turn.segments) <= ReducePartials

(* The new summary is made from its range, as nothing was dropped, and     *)
(* ends where what is recent begins.                                       *)
LEMMA MemorySummarizes ==
    ASSUME MemoryInv, RecentSuffices, NothingIsDropped, SaveSummary
    PROVE  MemoryInv'
<1> DEFINE pairs == PairsOf(EligibleRecords)
           end == LastAnswerIn(pairs)
<1>1. /\ MemoryTyped /\ SummaryEnds /\ SummaryCoversItsRange /\ FactFollowsTheUser
      /\ messages \in Seq(MemoryMessage) /\ summary.end \in Nat /\ Len(messages) \in Nat
    BY DEF MemoryInv, MemoryFollowsTheThread, MemoryTyped
<1>2. /\ turn.at = "reduce" /\ UNCHANGED <<messages, facts, extracted, failures>>
      /\ turn' = [turn EXCEPT !.at = "extract", !.segments = <<>>]
    BY DEF SaveSummary
<1>3. TurnsOf(turn.segments, Len(turn.segments)) = pairs /\ pairs # {}
    BY <1>2 DEF MemoryInv, SegmentsFit
<1>4. TurnsOf(turn.segments, ReducePartials) = pairs
  <2>1. turn.segments \in Seq(SUBSET (Nat \X Nat)) /\ ReducePartials \in Nat
    BY <1>1, MemoryAssumption DEF MemoryTyped, MemoryTurn
  <2>2. Len(turn.segments) \in Nat /\ DOMAIN turn.segments = 1 .. Len(turn.segments)
    BY <2>1
  <2>3. Len(turn.segments) <= ReducePartials
    BY <1>2 DEF NothingIsDropped
  <2>4. {k \in DOMAIN turn.segments : k <= ReducePartials} = {k \in DOMAIN turn.segments : k <= Len(turn.segments)}
    BY <2>1, <2>2, <2>3
  <2> QED
    BY <1>3, <2>4 DEF TurnsOf
<1>5. summary' = [version |-> summary.version + 1, end |-> end, turns |-> summary.turns \cup pairs]
    BY <1>3, <1>4 DEF SaveSummary, NewSummary
<1>6. /\ end \in WithRecord /\ end > summary.end /\ messages[end].role = "assistant"
      /\ {p \in PairsOf(WithRecord) : p[2] <= end} = summary.turns \cup pairs
    BY <1>1, <1>3, MemoryMerges
<1>7. WithRecord \subseteq 1 .. Len(messages) /\ \A i \in WithRecord : i \in Nat
    BY <1>1, MemoryRecords
<1>8. WithRecord' = WithRecord /\ \A S : PairsOf(S)' = PairsOf(S)
    BY <1>2 DEF WithRecord, PairsOf
<1>9. PairsOf(WithRecord)' = PairsOf(WithRecord)
    BY <1>2, <1>8 DEF PairsOf
<1> HIDE DEF end
<1>10. MemoryTyped'
  <2>1. pairs \subseteq Nat \X Nat
    BY <1>1, MemoryFinitePairs
  <2>2. summary' \in [version : Nat, end : Nat, turns : SUBSET (Nat \X Nat)]
    BY <1>1, <1>5, <1>6, <1>7, <2>1 DEF MemoryTyped
  <2>3. turn \in MemoryTurn
    BY <1>1 DEF MemoryTyped
  <2>4. turn' \in MemoryTurn
    BY <1>2, <2>3, MemoryTurns
  <2> QED
    BY <1>1, <1>2, <2>2, <2>4 DEF MemoryTyped
<1>11. SummaryEnds'
    BY <1>1, <1>2, <1>5, <1>6, <1>7, <1>8 DEF SummaryEnds
<1>12. SummaryCoversItsRange'
    BY <1>5, <1>6, <1>9 DEF SummaryCoversItsRange
<1>13. FactFollowsTheUser'
    BY <1>1, <1>2, MemoryFactsStand
<1>14. turn'.at = "extract"
    BY <1>1, <1>2 DEF MemoryTyped
<1>15. NothingFallsBetween'
  <2> SUFFICES ASSUME NEW p \in PairsOf(WithRecord)
               PROVE  p \in summary'.turns \/ {p[1], p[2]} \subseteq RecentRecords'
    BY <1>9 DEF NothingFallsBetween
  <2>1. p[1] \in WithRecord /\ p[2] \in WithRecord /\ p[1] < p[2] /\ p[1] \in Nat /\ p[2] \in Nat
    BY <1>1, MemoryPairEvents
  <2>2. CASE p[2] <= end
    BY <1>5, <1>6, <2>2
  <2>3. CASE p[2] > end
    <3>1. p[2] > summary.end /\ p \notin pairs
        BY <1>1, <1>6, <1>7, <2>1, <2>3
    <3>2. Newer(p[1]) <= RecentReserve /\ Newer(p[2]) < RecentReserve
        BY <1>1, <3>1, MemoryRecent
    <3>3. Newer(p[1]) < RecentLimit /\ Newer(p[2]) < RecentLimit
      <4>1. Newer(p[1]) \in Nat /\ Newer(p[2]) \in Nat
          BY <1>1, MemoryRecords
      <4> QED
          BY <3>2, <4>1, MemoryAssumption DEF RecentSuffices
    <3>4. Unsummarized' = {i \in WithRecord : i > end}
        BY <1>5, <1>8 DEF Unsummarized
    <3>5. SummaryEnds' /\ PairsOf(WithRecord)' = PairsOf(WithRecord) /\ p[1] > end
      <4>1. \A k \in WithRecord : ~(p[1] < k /\ k < p[2])
          BY MemoryPairs
      <4>2. messages[p[1]].role = "user"
          BY MemoryPairs
      <4> QED
          BY <1>6, <1>7, <1>9, <1>11, <2>1, <2>3, <4>1, <4>2
    <3>6. \A k \in WithRecord : k > end => Newer(k)' = Newer(k)
      <4> SUFFICES ASSUME NEW k \in WithRecord, k > end PROVE Newer(k)' = Newer(k)
          OBVIOUS
      <4>1. {j \in Unsummarized' : j > k} = {j \in Unsummarized : j > k}
        <5>1. \A j \in WithRecord : j > k => j > end /\ j > summary.end
            BY <1>1, <1>6, <1>7
        <5> QED
            BY <3>4, <5>1 DEF Unsummarized
      <4> QED
          BY <4>1 DEF Newer
    <3>7. p[1] \in Unsummarized' /\ p[2] \in Unsummarized'
        BY <2>1, <2>3, <3>4, <3>5
    <3>8. Newer(p[1])' = Newer(p[1]) /\ Newer(p[2])' = Newer(p[2])
        BY <2>1, <2>3, <3>5, <3>6 DEF Newer
    <3> QED
        BY <3>3, <3>7, <3>8 DEF RecentRecords, Newer
  <2> QED
    BY <1>6, <1>7, <2>1, <2>2, <2>3
<1>16. SegmentsFit' /\ PendingFits'
    BY <1>14 DEF SegmentsFit, PendingFits
<1> QED
    BY <1>10, <1>11, <1>12, <1>13, <1>15, <1>16 DEF MemoryInv, MemoryFollowsTheThread

(* The statements behind the checkpoint are read, if any, in one piece.    *)
LEMMA MemoryReadsFacts ==
    ASSUME MemoryInv, ReadForFacts
    PROVE  MemoryInv'
<1>1. /\ turn.at = "extract" /\ UNCHANGED <<messages, summary, facts, extracted, failures>>
      /\ turn' = [turn EXCEPT !.at = "save", !.pending = StatedAfter(extracted), !.upto = Len(messages)]
    BY DEF ReadForFacts
<1>2. /\ MemoryTyped /\ FactFollowsTheUser /\ NothingFallsBetween /\ messages \in Seq(MemoryMessage)
      /\ extracted \in 0 .. Len(messages) /\ Len(messages) \in Nat /\ turn \in MemoryTurn
    BY DEF MemoryInv, MemoryTyped, MemoryFollowsTheThread
<1>3. StatedAfter(extracted) \in SUBSET Nat
    BY <1>2 DEF StatedAfter
<1>4. /\ turn' \in MemoryTurn /\ turn'.at = "save" /\ turn'.upto = Len(messages)
      /\ turn'.pending = StatedAfter(extracted)
    BY <1>1, <1>2, <1>3 DEF MemoryTurn
<1>5. MemoryTyped'
    BY <1>1, <1>2, <1>4 DEF MemoryTyped
<1>6. /\ SummaryEnds' /\ SummaryCoversItsRange' /\ FactFollowsTheUser' /\ ActiveValues' = ActiveValues
      /\ PairsOf(WithRecord)' = PairsOf(WithRecord) /\ RecentRecords' = RecentRecords
      /\ \A n : SaidAt(n)' = SaidAt(n) /\ StatedAfter(n)' = StatedAfter(n)
    BY <1>1, MemoryStands, MemoryFactsStand DEF MemoryInv, MemoryFollowsTheThread
<1>7. NothingFallsBetween'
    BY <1>1, <1>2, <1>6 DEF NothingFallsBetween
<1>8. PendingFits'
  <2>1. ASSUME StatedAfter(extracted) = {} PROVE ActiveValues = SaidAt(Len(messages))
    <3>1. PICK n \in extracted .. Len(messages) : ActiveValues = SaidAt(n)
        BY <1>2 DEF FactFollowsTheUser, ActiveValues
    <3>2. SaidAt(n) = SaidAt(extracted) /\ SaidAt(Len(messages)) = SaidAt(extracted)
        BY <1>2, <2>1, MemorySilence
    <3> QED
        BY <3>1, <3>2
  <2>2. SaidAt(Len(messages))' = SaidAt(Len(messages)) /\ StatedAfter(extracted)' = StatedAfter(extracted)
    BY <1>1, <1>6 DEF SaidAt, StatedAfter
  <2> QED
    BY <1>1, <1>2, <1>4, <1>6, <2>1, <2>2 DEF PendingFits
<1>9. SegmentsFit'
    BY <1>4 DEF SegmentsFit
<1> QED
    BY <1>5, <1>6, <1>7, <1>8, <1>9 DEF MemoryInv, MemoryFollowsTheThread

(* The oldest pending statement is applied: the facts are what was said    *)
(* last when it was made.                                                  *)
LEMMA MemorySavesFact ==
    ASSUME MemoryInv, SaveFact
    PROVE  MemoryInv'
<1>1. /\ turn.at = "save" /\ UNCHANGED <<messages, summary, extracted, failures>>
      /\ MemoryTyped /\ FactFollowsTheUser /\ NothingFallsBetween /\ messages \in Seq(MemoryMessage)
      /\ extracted \in 0 .. Len(messages) /\ Len(messages) \in Nat /\ turn \in MemoryTurn
    BY DEF SaveFact, MemoryInv, MemoryTyped, MemoryFollowsTheThread
<1>2. PICK id \in turn.pending :
        /\ \A i \in turn.pending : id <= i
        /\ facts' = IF messages[id].says = NoValue THEN RetractFact ELSE SaveFactValue(messages[id].says, id)
        /\ turn' = [turn EXCEPT !.pending = @ \ {id}]
    BY DEF SaveFact
<1>3. PICK m \in extracted .. Len(messages) : turn.pending = StatedAfter(m)
    BY <1>1 DEF MemoryInv, PendingFits
<1>4. /\ id \in 1 .. Len(messages) /\ id > m /\ messages[id].says # "nothing"
      /\ id \in extracted .. Len(messages)
    BY <1>1, <1>2, <1>3 DEF StatedAfter
<1>5. turn.pending \ {id} = StatedAfter(id)
  <2>1. \A i \in DOMAIN messages : i \in StatedAfter(id) <=> i \in StatedAfter(m) /\ i # id
    <3> SUFFICES ASSUME NEW i \in 1 .. Len(messages)
                 PROVE  i \in StatedAfter(id) <=> i \in StatedAfter(m) /\ i # id
        BY <1>1
    <3>1. i \in StatedAfter(m) => id <= i
        BY <1>2, <1>3
    <3> QED
        BY <1>1, <1>3, <1>4, <3>1 DEF StatedAfter
  <2>2. StatedAfter(id) \subseteq DOMAIN messages /\ StatedAfter(m) \subseteq DOMAIN messages
    BY DEF StatedAfter
  <2> QED
    BY <1>3, <2>1, <2>2
<1>6. facts' \in Seq(MemoryFact) /\ ActiveValues' = SaidAt(id)
  <2>1. facts' \in Seq(MemoryFact) /\ ActiveValues' = {messages[id].says} \ {NoValue}
    BY <1>1, <1>2, <1>4, MemoryApplies
  <2> QED
    BY <1>1, <1>4, <2>1, MemorySaid
<1>7. /\ turn' \in MemoryTurn /\ turn'.at = "save" /\ turn'.pending = StatedAfter(id)
      /\ turn'.upto = turn.upto
    BY <1>1, <1>2, <1>5 DEF MemoryTurn
<1>8. MemoryTyped'
    BY <1>1, <1>6, <1>7 DEF MemoryTyped
<1>9. /\ SummaryEnds' /\ SummaryCoversItsRange'
      /\ PairsOf(WithRecord)' = PairsOf(WithRecord) /\ RecentRecords' = RecentRecords
    BY <1>1, MemoryStands DEF MemoryInv, MemoryFollowsTheThread
<1>10. \A n : SaidAt(n)' = SaidAt(n) /\ StatedAfter(n)' = StatedAfter(n)
    BY <1>1 DEF SaidAt, StatedAfter
<1>11. FactFollowsTheUser'
    BY <1>1, <1>4, <1>6, <1>10 DEF FactFollowsTheUser, ActiveValues
<1>12. NothingFallsBetween'
    BY <1>1, <1>7, <1>9 DEF NothingFallsBetween
<1>13. PendingFits'
  <2>1. StatedAfter(id) = {} => SaidAt(Len(messages)) = SaidAt(id)
    BY <1>1, <1>4, MemorySilence
  <2>2. SaidAt(Len(messages))' = SaidAt(Len(messages)) /\ StatedAfter(id)' = StatedAfter(id)
    BY <1>1, <1>2 DEF SaidAt, StatedAfter
  <2>3. turn.upto = Len(messages)
    BY <1>1 DEF MemoryInv, PendingFits
  <2> QED
    BY <1>1, <1>4, <1>6, <1>7, <1>10, <2>1, <2>2, <2>3 DEF PendingFits
<1>14. SegmentsFit'
    BY <1>7 DEF SegmentsFit
<1> QED
    BY <1>8, <1>9, <1>11, <1>12, <1>13, <1>14 DEF MemoryInv, MemoryFollowsTheThread

(* The checkpoint follows when all statements are applied.                 *)
LEMMA MemoryChecks ==
    ASSUME MemoryInv, SaveCheckpoint
    PROVE  MemoryInv'
<1>1. /\ turn.at = "save" /\ turn.pending = {} /\ UNCHANGED <<messages, summary, facts, failures>>
      /\ turn' = AtRest /\ extracted' = turn.upto /\ turn.upto = Len(messages)
      /\ MemoryTyped /\ Len(messages) \in Nat /\ turn \in MemoryTurn
      /\ ActiveValues = SaidAt(Len(messages))
    BY DEF SaveCheckpoint, MemoryInv, MemoryTyped, PendingFits
<1>2. turn' \in MemoryTurn /\ turn'.at = "idle"
    BY <1>1, MemoryTurns
<1>3. MemoryTyped'
    BY <1>1, <1>2 DEF MemoryTyped
<1>4. SummaryEnds' /\ SummaryCoversItsRange'
    BY <1>1, MemoryStands DEF MemoryInv, MemoryFollowsTheThread
<1>5. FactFollowsTheUser'
  <2>1. ActiveValues' = ActiveValues /\ \A n : SaidAt(n)' = SaidAt(n)
    BY <1>1 DEF ActiveValues, ActiveFacts, SaidAt
  <2>2. Len(messages)' = Len(messages) /\ Len(messages) \in extracted' .. Len(messages)'
    BY <1>1
  <2> QED
    BY <1>1, <2>1, <2>2 DEF FactFollowsTheUser, ActiveValues
<1>6. SegmentsFit' /\ PendingFits' /\ NothingFallsBetween'
    BY <1>2 DEF SegmentsFit, PendingFits, NothingFallsBetween
<1> QED
    BY <1>3, <1>4, <1>5, <1>6 DEF MemoryInv, MemoryFollowsTheThread

(* While no partial summary is dropped, the active summary is made from    *)
(* all of its range, what is not in it is shown as it was said, unless a   *)
(* derived write failed, and one value at most is active, one stated last  *)
(* at an event not before the checkpoint (MemoryService).                  *)
THEOREM MemoryStaysWithTheThread ==
    ASSUME RecentSuffices
    PROVE  MemorySpec /\ []NothingIsDropped => []MemoryFollowsTheThread
<1>1. MemoryInit => MemoryInv
  <2> SUFFICES ASSUME MemoryInit PROVE MemoryInv
    OBVIOUS
  <2>1. /\ messages = <<>> /\ summary = [version |-> 0, end |-> 0, turns |-> {}] /\ facts = <<>>
        /\ extracted = 0 /\ failures = 0 /\ Len(messages) = 0 /\ Len(facts) = 0
        /\ turn = [at |-> "idle", segments |-> <<>>, pending |-> {}, upto |-> 0]
    BY DEF MemoryInit, NoSummary, AtRest
  <2>2. turn \in MemoryTurn
    <3>1. <<>> \in Seq(SUBSET (Nat \X Nat))
        OBVIOUS
    <3> QED
        BY <2>1, <3>1 DEF MemoryTurn
  <2>3. MemoryTyped
    BY <2>1, <2>2 DEF MemoryTyped
  <2>4. SummaryEnds /\ SegmentsFit /\ PendingFits /\ NothingFallsBetween
    BY <2>1 DEF SummaryEnds, SegmentsFit, PendingFits, NothingFallsBetween
  <2>5. SummaryCoversItsRange
    <3>1. WithRecord = {}
        BY <2>1 DEF WithRecord
    <3>2. PairsOf(WithRecord) = {}
        BY <3>1 DEF PairsOf
    <3> QED
        BY <2>1, <3>2 DEF SummaryCoversItsRange
  <2>6. FactFollowsTheUser
    <3>1. ActiveFacts = {} /\ SaidAt(0) = {}
        BY <2>1 DEF ActiveFacts, SaidAt
    <3>2. {facts[k].value : k \in ActiveFacts} = SaidAt(0) /\ 0 \in extracted .. Len(messages)
        BY <2>1, <3>1
    <3> QED
        BY <3>2 DEF FactFollowsTheUser
  <2> QED
    BY <2>3, <2>4, <2>5, <2>6 DEF MemoryInv, MemoryFollowsTheThread
<1>2. MemoryInv /\ UNCHANGED memoryVars => MemoryInv'
  <2> SUFFICES ASSUME MemoryInv, UNCHANGED memoryVars PROVE MemoryInv'
    OBVIOUS
  <2>1. UNCHANGED <<messages, summary, facts, extracted, turn, failures>>
    BY DEF memoryVars
  <2>2. /\ SummaryEnds' /\ SummaryCoversItsRange' /\ FactFollowsTheUser' /\ ActiveValues' = ActiveValues
        /\ PairsOf(WithRecord)' = PairsOf(WithRecord) /\ RecentRecords' = RecentRecords
        /\ PairsOf(EligibleRecords)' = PairsOf(EligibleRecords)
    BY <2>1, MemoryStands, MemoryFactsStand DEF MemoryInv, MemoryFollowsTheThread
  <2>3. MemoryTyped'
    BY <2>1 DEF MemoryInv, MemoryTyped
  <2>4. SegmentsFit'
    BY <2>1, <2>2 DEF MemoryInv, SegmentsFit, TurnsOf
  <2>5. NothingFallsBetween'
    BY <2>1, <2>2 DEF MemoryInv, MemoryFollowsTheThread, NothingFallsBetween
  <2>6. PendingFits'
    BY <2>1, <2>2 DEF MemoryInv, PendingFits, SaidAt, StatedAfter
  <2> QED
    BY <2>2, <2>3, <2>4, <2>5, <2>6 DEF MemoryInv, MemoryFollowsTheThread
<1>3. MemoryInv /\ NothingIsDropped /\ [MemoryNext]_memoryVars => MemoryInv'
  <2> SUFFICES ASSUME MemoryInv, NothingIsDropped, [MemoryNext]_memoryVars PROVE MemoryInv'
    OBVIOUS
  <2>1. failures \in Nat
    BY DEF MemoryInv, MemoryTyped
  <2>2. CASE BeginTurn
    <3>1. PICK says \in Stated \cup {NoValue, "nothing"} : RecordMessage("user", says)
        BY <2>2 DEF BeginTurn
    <3>2. UNCHANGED <<summary, facts, extracted>> /\ turn' = [turn EXCEPT !.at = "running"]
        BY <2>2 DEF BeginTurn
    <3> QED
        BY <3>1, <3>2, MemoryWrites
  <2>3. CASE FinishTurn
    <3>1. RecordMessage("assistant", "nothing")
        BY <2>3 DEF FinishTurn
    <3>2. UNCHANGED <<summary, facts, extracted>> /\ turn' = [turn EXCEPT !.at = "summarize"]
        BY <2>3 DEF FinishTurn
    <3> QED
        BY <3>1, <3>2, MemoryWrites
  <2>4. CASE TurnFails
    BY <2>1, <2>4, MemoryRests DEF TurnFails
  <2>5. CASE Stop
    BY <2>1, <2>5, MemoryRests DEF Stop, MayFail
  <2>6. CASE SummarizeFails
    <3>1. failures' \in Nat /\ failures' > 0
        BY <2>1, <2>6 DEF SummarizeFails, MayFail
    <3> QED
        BY <2>6, <3>1, MemoryRests DEF SummarizeFails
  <2>7. CASE ParkTurn \/ ResumeTurn
    BY <2>1, <2>7, MemoryRests DEF ParkTurn, ResumeTurn
  <2> QED
    BY <1>2, <2>2, <2>3, <2>4, <2>5, <2>6, <2>7, MemoryReads, MemorySummarizes, MemoryReadsFacts, MemorySavesFact, MemoryChecks
    DEF MemoryNext
<1>4. MemoryInv => MemoryFollowsTheThread
    BY DEF MemoryInv
<1> QED
    BY <1>1, <1>3, <1>4, PTL DEF MemorySpec
=============================================================================
