---------------------------- MODULE PlanExecute ----------------------------
(***************************************************************************)
(* PlanExecuteStrategy (plan_strategy.py, plan/models.py): the steps of a  *)
(* Parent Run that has a plan made, runs the plan's tasks as Child Runs in *)
(* the order of their dependencies, and replaces a plan that failed by a   *)
(* new version, which keeps the completed work of the old one.             *)
(*                                                                         *)
(* A task stands for its normalized description, so that a replacement     *)
(* plan that names it again names the same work.  A Child is named by its  *)
(* task and the plan version that first started it.                        *)
(***************************************************************************)
EXTENDS ChildRuns

CONSTANTS Task,
          TaskOrder,      \* the tasks in the order of execution_order
          PlanOutput,  \* plans: acyclic dependency functions on some of the tasks
          MaxReplans      \* max_replans

\* A plan depends on its own tasks only: the planner keeps no other dependency
\* (plan/planner.py:144-148).
ASSUME PlanExecuteAssumption ==
    /\ IsFiniteSet(Task)
    /\ \A plan \in PlanOutput :
          DOMAIN plan \subseteq Task /\ \A t \in DOMAIN plan : plan[t] \subseteq DOMAIN plan
    /\ MaxReplans \in Nat
    /\ Task \X (1 .. MaxReplans + 1) \subseteq Child

TaskTerminal == {"COMPLETED", "FAILED", "SKIPPED", "CANCELLED"}
Unsuccessful == {"FAILED", "CANCELLED", "SKIPPED"}

\* `in` is the plan version in the name of the task's Child, 0 before it has one;
\* `noted` the parked status of the Child that the Parent has recorded.
TaskState == [status : {"PENDING", "RUNNING"} \cup TaskTerminal,
              in : 0 .. MaxReplans + 1,
              noted : {""} \cup Parked]

NewTask == [status |-> "PENDING", in |-> 0, noted |-> ""]

Plan == [strategy : {"plan_execute"},
         status : {"RUNNING", "WAITING_CHILD", "INTERRUPTED"} \cup Terminal,
         version : 0 .. MaxReplans + 1,
         plan : PlanOutput \cup {<<>>},
         task : [Task -> TaskState],
         tokens : Nat]

NewPlan == [strategy |-> "plan_execute", status |-> "RUNNING", version |-> 0, plan |-> <<>>,
            task |-> [t \in Task |-> NewTask], tokens |-> 0]

PlanRun == row.strategy = "plan_execute"

PlanExecuteTypeOK ==
    /\ ChildRunsTypeOK
    /\ PlanRun => row \in Plan /\ copy \in Plan \cup {NoCopy}

PlanExecuteInit == ChildRunsInit(NewPlan)

(***************************************************************************)
(* What the strategy reads of its plan (ExecutionPlan, snapshot).          *)
(***************************************************************************)
Tasks(s)        == DOMAIN s.plan
TaskStatus(s, t) == s.task[t].status
TaskChild(s, t) == <<t, s.task[t].in>>
Mark(s, t, status) == [s EXCEPT !.task[t].status = status]

\* The Child as the store has it; a task that was never started has none.
ChildStatus(s, t) == IF s.task[t].in = 0 THEN "ABSENT" ELSE child[TaskChild(s, t)]

AllCompleted(s) == \A t \in Tasks(s) : TaskStatus(s, t) = "COMPLETED"
HasFailed(s)    == \E t \in Tasks(s) : TaskStatus(s, t) \in {"FAILED", "CANCELLED"}

ReadyTasks(s) ==
    {t \in Tasks(s) : /\ TaskStatus(s, t) = "PENDING"
                      /\ \A d \in s.plan[t] : TaskStatus(s, d) = "COMPLETED"}

LaunchableTasks(s) ==
    {t \in Tasks(s) : TaskStatus(s, t) = "RUNNING" /\ ChildStatus(s, t) \in {"ABSENT", "RUNNING"}}

ObservableTask(s, t) ==
    TaskStatus(s, t) = "RUNNING" /\ ChildStatus(s, t) \notin {"ABSENT", "RUNNING"}

\* active_task_ids and waiting_task_ids of the scheduler's snapshot.
RunningOnly(s) ==                            \* mutant: waiting approvals are forgotten
    {t \in Tasks(s) : TaskStatus(s, t) = "RUNNING" /\ ChildStatus(s, t) \notin Parked}

Unresolved(s) ==
    {t \in Tasks(s) : \/ TaskStatus(s, t) = "RUNNING"
                      \/ TaskStatus(s, t) = "PENDING" /\ ChildStatus(s, t) \in Parked}

\* Tasks that a failure reaches through pending tasks.
FailedDependents(s) ==
    LET reached[n \in Nat] ==
            IF n = 0 THEN {t \in Tasks(s) : TaskStatus(s, t) \in Unsuccessful}
            ELSE reached[n - 1] \cup {t \in Tasks(s) : /\ TaskStatus(s, t) = "PENDING"
                                                       /\ s.plan[t] \cap reached[n - 1] # {}}
    IN {t \in reached[Cardinality(Task)] : TaskStatus(s, t) = "PENDING"}

MarkAll(s, chosen, status) ==
    [s EXCEPT !.task = [t \in Task |-> IF t \in chosen
                                       THEN [@[t] EXCEPT !.status = status, !.noted = ""]
                                       ELSE @[t]]]

(***************************************************************************)
(* Steps (_advance_step).                                                  *)
(***************************************************************************)
\* _call_planner without a plan: the budget, the provider, the parser or a cycle in the
\* answer failed the Run.
PlannerFails == Conclude(copy, "FAILED")

\* _create_plan
CreatePlan ==
    /\ pc = "step"
    /\ copy.version = 0
    /\ \/ \E plan \in PlanOutput :
             Save([copy EXCEPT !.version = 1, !.plan = plan], "apply")
       \/ PlannerFails

\* _reconcile_children picks the tasks to observe ...
PickObservable(state, observe, next) ==
    LET seen == {t \in Tasks(state) : ObservableTask(state, t)}
    IN /\ batch' = {TaskChild(state, t) : t \in seen}
       /\ pc' = IF seen # {} THEN observe ELSE next

ReconcileTasks ==
    /\ pc = "step"
    /\ copy.version > 0
    /\ PickObservable(copy, "observe", "decide")
    /\ UNCHANGED <<row, copy, fresh, queue, childVars>>

\* ... also after the scheduler has returned, when the Parent is still RUNNING.
ReconcileWave ==
    /\ pc = "execute"
    /\ queue = {}
    /\ batch = {}
    /\ copy' = row
    /\ fresh' = TRUE
    /\ IF row.status = "RUNNING" THEN PickObservable(row, "collect", "apply")
                                 ELSE pc' = "apply" /\ UNCHANGED batch
    /\ UNCHANGED <<row, queue, childVars>>

ObservedTask(s, t) ==
    LET status == ChildStatus(s, t)
    IN CASE status \in Parked    -> [s EXCEPT !.task[t].noted = status]
         [] status = "COMPLETED" -> [Mark(s, t, "COMPLETED") EXCEPT !.tokens = @ + 1,
                                                                    !.task[t].noted = ""]
         [] OTHER                -> [Mark(s, t, status) EXCEPT !.task[t].noted = ""]

\* _observe_child reads the Parent's row again and saves it, whatever its control
\* status has become; no progress may fail the Run there.  A retry after a lost
\* sequence race is the same read again.
Observe(t) ==
    /\ \/ /\ row.status \notin Terminal
          /\ ObservableTask(row, t)
          /\ \/ row' = ObservedTask(row, t)
             \/ /\ ChildStatus(row, t) = "COMPLETED"
                /\ row' = IF row.status = "INTERRUPTED" THEN row
                          ELSE [ObservedTask(row, t) EXCEPT !.status = "FAILED"]
       \/ /\ row.status \in Terminal \/ ~ObservableTask(row, t)
          /\ row' = row
    /\ fresh' = (fresh /\ row' = row)

ObserveTask(t) ==
    /\ pc \in {"observe", "collect"}
    /\ TaskChild(copy, t) \in batch
    /\ batch' = batch \ {TaskChild(copy, t)}
    /\ Observe(t)
    /\ UNCHANGED <<copy, pc, queue, childVars>>

TasksReconciled ==
    /\ pc \in {"observe", "collect"}
    /\ batch = {}
    /\ copy' = row
    /\ fresh' = TRUE
    /\ pc' = IF pc = "observe" THEN "decide" ELSE "apply"
    /\ UNCHANGED <<row, queue, batch, childVars>>

\* _complete_plan, and the completion policy's answer to the proposal.
ProposeCompletion ==
    /\ pc = "decide" /\ AllCompleted(copy)
    /\ Goto("finish")

FinishPlan ==
    /\ pc = "finish"
    /\ Conclude(copy, "COMPLETED") \/ Conclude(copy, "FAILED")

(***************************************************************************)
(* The replan barrier.                                                     *)
(***************************************************************************)
\* _release_unstarted_tasks
ReleaseUnstarted ==
    /\ pc = "decide"
    /\ ~AllCompleted(copy) /\ HasFailed(copy)
    /\ LET unstarted == {t \in Tasks(copy) : /\ TaskStatus(copy, t) = "RUNNING"
                                             /\ ChildStatus(copy, t) = "ABSENT"}
       IN IF unstarted = {} THEN Goto("skip")
          ELSE Save(MarkAll(copy, unstarted, "PENDING"), "skip")

\* _skip_failed_dependents
SkipDependents ==
    /\ pc = "skip"
    /\ LET skipped == FailedDependents(copy)
       IN IF skipped = {} THEN Goto("settle")
          ELSE Save(MarkAll(copy, skipped, "SKIPPED"), "settle")

KeptTasks(s, plan) == {t \in DOMAIN plan : t \in Tasks(s) /\ TaskStatus(s, t) = "COMPLETED"}

\* The next version of the plan, with _reuse_completed_tasks.
Replanned(s, plan) ==
    [s EXCEPT !.version = @ + 1,
              !.plan = plan,
              !.task = [t \in Task |-> IF t \in KeptTasks(s, plan) THEN @[t] ELSE NewTask]]

\* _replan: the planner may fail, and so may the progress detector.
Replan ==
    \/ PlannerFails
    \/ \E plan \in PlanOutput :
          LET next == Replanned(copy, plan)
          IN Conclude(next, "FAILED") \/ Save(next, "apply")

WaitInPlace == Save(copy, "apply")           \* mutant: the Parent goes on polling

Wait == Save([copy EXCEPT !.status = "WAITING_CHILD"], "apply")

SettleFailure ==
    /\ pc = "settle"
    /\ HasFailed(copy)
    /\ \/ Unresolved(copy) # {} /\ Wait
       \/ Unresolved(copy) = {} /\ copy.version <= MaxReplans /\ Replan
       \/ Unresolved(copy) = {} /\ copy.version > MaxReplans /\ Save(copy, "fail")

\* _fail_plan saves the failed plan first and fails the Run then.
FailPlan == pc = "fail" /\ Conclude(copy, "FAILED")

(***************************************************************************)
(* Scheduling.                                                             *)
(***************************************************************************)
\* _persist_ready_tasks: a released task keeps the Child it has been given.
Scheduled(s, chosen) ==
    [s EXCEPT !.task =
        [t \in Task |-> IF t \in chosen
                        THEN [status |-> "RUNNING", noted |-> "",
                              in |-> IF @[t].in = 0 THEN s.version ELSE @[t].in]
                        ELSE @[t]]]

ScheduleReady ==
    /\ pc = "decide"
    /\ ~AllCompleted(copy) /\ ~HasFailed(copy)
    /\ LET ready == ReadyTasks(copy)
       IN IF ready = {} THEN Goto("launch") ELSE Save(Scheduled(copy, ready), "launch")

\* The Children of the launchable tasks go to the scheduler; the budget may forbid
\* it.  Nothing is saved in between.
LaunchWave ==
    LET chosen == LaunchableTasks(copy)
    IN /\ pc = "launch"
       /\ \/ /\ chosen = {} /\ Goto("settle")
          \/ /\ chosen # {} /\ Conclude(copy, "FAILED")
          \/ /\ chosen # {}
             /\ queue' = {TaskChild(copy, t) : t \in chosen}
             /\ pc' = "execute"
             /\ UNCHANGED <<row, copy, fresh, batch, childVars>>

\* execute goes on launching after the Child of t was observed.
GoOn(s, t) ==
    /\ ChildStatus(s, t) \notin {"FAILED", "CANCELLED"}
    /\ s.status = "RUNNING"
    /\ ~HasFailed(s)

\* FIRST_COMPLETED: the Child is observed and its slot is free again.
TaskReturned(t) ==
    /\ Returned(TaskChild(copy, t))
    /\ batch' = batch \ {TaskChild(copy, t)}
    /\ Observe(t)
    /\ queue' = IF GoOn(row', t) THEN queue ELSE {}
    /\ UNCHANGED <<copy, pc, childVars>>

\* The tasks are started in the order of the plan (_tasks_in_plan_order).
StartTask == \E c \in queue : Earliest(TaskOrder, c[1], {d[1] : d \in queue}) /\ Launch(c)

\* Nothing to launch: wait, or fail a plan whose dependencies are not satisfied.
SettleWave ==
    /\ pc = "settle"
    /\ ~HasFailed(copy)
    /\ IF Unresolved(copy) # {} THEN Wait ELSE Save(copy, "fail")

\* on_cancel
CancelledPlan(s) ==
    [s EXCEPT !.status = "CANCELLED",
              !.task = [t \in Task |-> IF t \in Tasks(s) /\ @[t].status \notin TaskTerminal
                                       THEN [@[t] EXCEPT !.status = "CANCELLED", !.noted = ""]
                                       ELSE @[t]]]

PlannedChildren(s) == {TaskChild(s, t) : t \in {u \in Tasks(s) : s.task[u].in # 0}}

PlanStep ==
    /\ \/ Resume \/ Preflight \/ Apply
       \/ CreatePlan
       \/ ReconcileTasks \/ ReconcileWave \/ TasksReconciled
       \/ \E t \in Task : ObserveTask(t) \/ TaskReturned(t)
       \/ ProposeCompletion \/ FinishPlan
       \/ ReleaseUnstarted \/ SkipDependents \/ SettleFailure \/ FailPlan
       \/ ScheduleReady \/ LaunchWave \/ StartTask \/ SettleWave
    /\ UNCHANGED apiVars

PlanNext ==
    /\ PlanRun
    /\ \/ PlanStep
       \/ ChildStep
       \/ Control(CancelledPlan(row), PlannedChildren(row))
       \/ Converge
       \/ Crash

\* The event loop runs a coroutine that can run.  Resume is left to the client.
PlanExecuteFairness ==
    /\ WF_orchestrationVars(pc # "idle" /\ PlanRun /\ PlanStep)
    /\ ChildFairness

PlanSpec ==
    /\ PlanExecuteInit /\ [][PlanNext]_orchestrationVars
    /\ PlanExecuteFairness

(***************************************************************************)
(* Properties.                                                             *)
(***************************************************************************)
\* "A pending Task is ready only when every required dependency is COMPLETED"
\* (docs/plan-durable-execution.md): no Child of the current version exists before
\* the tasks it depends on were observed to complete, over crashes, cancels and
\* the barrier's releases (snapshot, _persist_ready_tasks).
TaskDependenciesComeFirst ==
    PlanRun => \A t \in Tasks(row) :
        row.version > 0 /\ child[<<t, row.version>>] # "ABSENT" =>
            \A d \in row.plan[t] : TaskStatus(row, d) = "COMPLETED"

\* "Plan versions never execute speculatively together": while a Child of one
\* version exists, every Child of an earlier one has ended, approvals that a human
\* still owes included (_release_unstarted_tasks, _advance_step).
VersionsDoNotOverlap ==
    PlanRun => \A new, old \in Task \X (1 .. MaxReplans + 1) :
        new[2] > old[2] /\ child[new] # "ABSENT" => child[old] \in Terminal \cup {"ABSENT"}

\* "Exact normalized task-description matches can reuse completed v1 work": what one
\* version completed, the next one never runs again (_reuse_completed_tasks).
CompletedWorkIsKept ==
    PlanRun => \A t \in Task, v \in 1 .. MaxReplans :
        child[<<t, v>>] = "COMPLETED" /\ row.version = v + 1 => child[<<t, v + 1>>] = "ABSENT"

\* Every completed Child is added to the Parent's tokens once, also when the
\* scheduler's observer and a later reconciliation both see it (_observe_child).
TasksCountOnce ==
    PlanRun =>
    /\ row.tokens >= Cardinality({t \in Tasks(row) : TaskStatus(row, t) = "COMPLETED"})
    /\ row.tokens <= Cardinality({c \in Child : child[c] = "COMPLETED"})

\* "the scheduler stops launching new v1 Tasks": once the row of a Parent that runs
\* records a failed task, no further Child starts (execute, the observer).
NothingStartsBehindAFailure ==
    [][PlanRun => \A t \in Task, v \in 1 .. MaxReplans + 1 :
          child[<<t, v>>] = "ABSENT" /\ child'[<<t, v>>] # "ABSENT" =>
              ~(row.status = "RUNNING" /\ HasFailed(row))]_orchestrationVars

\* A Parent completes only when the Child of every task of its plan has completed;
\* a task that a failure cancelled or skipped is never passed over (_advance_step).
PlanCompletionIsWhole ==
    PlanRun /\ row.status = "COMPLETED" => \A t \in Tasks(row) : ChildStatus(row, t) = "COMPLETED"

\* Children follow the dependencies of the plan, over its versions: no two versions run
\* together, completed work is kept and counted once, and the Parent completes only with
\* all of it; nothing new starts behind a failure (the parts above).
PlanIsFollowed ==
    /\ [](/\ PlanExecuteTypeOK /\ TaskDependenciesComeFirst /\ VersionsDoNotOverlap
          /\ CompletedWorkIsKept /\ TasksCountOnce /\ PlanCompletionIsWhole)
    /\ NothingStartsBehindAFailure
=============================================================================
