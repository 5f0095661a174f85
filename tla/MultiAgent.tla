------------------------------ MODULE MultiAgent ----------------------------
(***************************************************************************)
(* MultiAgentExecutionStrategy (multi_agent_strategy.py): the steps of an  *)
(* orchestrating Parent Run, which plans assignments, runs each of them as *)
(* a Child Run of its own, has every result reviewed, repeats a rejected   *)
(* one as a new attempt and synthesizes the results.                       *)
(*                                                                         *)
(* The texts of plans, tasks, results and reviews are abstracted to what   *)
(* the steps read of them: the dependencies of the plan and the verdict of *)
(* a review.  The Child of an assignment is named by its attempt.          *)
(***************************************************************************)
EXTENDS ChildRuns

CONSTANTS Assignment,
          PlanOrder,      \* the assignments in plan order
          PlannerOutput,  \* dependency functions the planner may answer
          MaxRetries      \* max_retries_per_assignment

ASSUME MultiAgentAssumption ==
    /\ MaxRetries \in Nat
    /\ IsFiniteSet(Assignment)
    /\ Assignment \X (1 .. MaxRetries + 1) \subseteq Child

AssignmentTerminal == {"COMPLETED", "FAILED", "SKIPPED", "CANCELLED"}
Underway == {"ASSIGNED", "WAITING_CHILD"}

AssignmentState == [status : {"PENDING", "REVIEWING"} \cup Underway \cup AssignmentTerminal,
                    attempt : 1 .. MaxRetries + 1,
                    review : {"none", "approved", "rejected"}]

NoPlan == [a \in Assignment |-> {}]

Orchestration == [strategy : {"multi_agent"},
                  status : {"RUNNING", "WAITING_CHILD", "INTERRUPTED"} \cup Terminal,
                  phase : {"new", "planning", "planned"},
                  plan : PlannerOutput \cup {NoPlan},
                  unit : [Assignment -> AssignmentState],
                  synthesized : BOOLEAN,
                  tokens : Nat]

NewOrchestration ==
    [strategy |-> "multi_agent", status |-> "RUNNING", phase |-> "new", plan |-> NoPlan,
     unit |-> [a \in Assignment |-> [status |-> "PENDING", attempt |-> 1, review |-> "none"]],
     synthesized |-> FALSE, tokens |-> 0]

AgentsRun == row.strategy = "multi_agent"

MultiAgentTypeOK ==
    /\ ChildRunsTypeOK
    /\ AgentsRun => row \in Orchestration /\ copy \in Orchestration \cup {NoCopy}

MultiAgentInit == ChildRunsInit(NewOrchestration)

(***************************************************************************)
(* What the strategy reads of its state.                                   *)
(***************************************************************************)
StatusOf(s, a) == s.unit[a].status
ChildOf(s, a)  == <<a, s.unit[a].attempt>>

With(s, a, status) == [s EXCEPT !.unit[a].status = status]

Dependencies(s, a) == s.plan[a]

\* A dependency that names no assignment has no status.
DependencyStatus(s, d) == IF d \in Assignment THEN StatusOf(s, d) ELSE "unknown"

ReadyAssignments(s) ==
    {a \in Assignment : /\ StatusOf(s, a) = "PENDING"
                        /\ \A d \in Dependencies(s, a) : DependencyStatus(s, d) = "COMPLETED"}

BlockedAssignments(s) ==
    {a \in Assignment :
        /\ StatusOf(s, a) = "PENDING"
        /\ \E d \in Dependencies(s, a) :
              DependencyStatus(s, d) \in {"FAILED", "CANCELLED", "SKIPPED"}}

ObservableInReview(s, a) ==                  \* mutant: a result is observed again
    /\ StatusOf(s, a) \in Underway \cup {"REVIEWING"}
    /\ child[ChildOf(s, a)] \notin {"ABSENT", "RUNNING"}

\* A Child that ended or parked since the assignment was last written.
Observable(s, a) ==
    /\ StatusOf(s, a) \in Underway
    /\ child[ChildOf(s, a)] \notin {"ABSENT", "RUNNING"}

LaunchableAssignments(s) ==
    {a \in Assignment : StatusOf(s, a) \in Underway /\ child[ChildOf(s, a)] \in {"ABSENT", "RUNNING"}}

SettledButWaiting(s) ==                      \* mutant: waiting Children are forgotten
    \A a \in Assignment : StatusOf(s, a) \in Underway => child[ChildOf(s, a)] \in Parked

\* Neither active nor waiting in the scheduler's snapshot.
Settled(s) == \A a \in Assignment : StatusOf(s, a) \notin Underway

(***************************************************************************)
(* Steps (_advance_step).                                                  *)
(***************************************************************************)
StartOrchestration ==
    /\ pc = "step"
    /\ copy.phase = "new"
    /\ Save([copy EXCEPT !.phase = "planning"], "apply")

\* _role_call without an answer: the budget, the provider or the parser failed the Run.
RoleCallFails == Conclude(copy, "FAILED")

\* _create_assignments; a planner whose answer cannot be parsed fails the Run too.
CreateAssignments ==
    /\ pc = "step"
    /\ copy.phase = "planning"
    /\ \/ \E plan \in PlannerOutput :
             Save([copy EXCEPT !.phase = "planned", !.plan = plan], "apply")
       \/ RoleCallFails

\* _reconcile_children at the start of a step and after the scheduler has returned:
\* the Children to observe are read off the copy.
Reconcile(place, observe, next) ==
    LET seen == {a \in Assignment : Observable(copy, a)}
    IN /\ pc = place
       /\ copy.phase = "planned"
       /\ batch' = {ChildOf(copy, a) : a \in seen}
       /\ pc' = IF seen # {} THEN observe ELSE next
       /\ UNCHANGED <<row, copy, fresh, queue, childVars>>

ReconcileFirst == Reconcile("step", "observe", "decide")

ReconcileAgain == queue = {} /\ batch = {} /\ Reconcile("execute", "collect", "apply")

\* The RunState with the Child of a as it is now.
ObservedAssignment(s, a) ==
    CASE child[ChildOf(s, a)] \in Parked      -> With(s, a, "WAITING_CHILD")
      [] child[ChildOf(s, a)] = "COMPLETED"   -> [With(s, a, "REVIEWING") EXCEPT !.tokens = @ + 1]
      [] child[ChildOf(s, a)] = "CANCELLED"   -> With(s, a, "CANCELLED")
      [] OTHER                                -> With(s, a, "FAILED")

\* _observe_child reads the Parent's row again and saves it, whatever its control
\* status has become; no progress may fail the Run there.  A retry after a lost
\* sequence race is the same read again.
ObserveAssignment(a) ==
    LET c == ChildOf(copy, a)
    IN /\ pc \in {"observe", "collect"}
       /\ c \in batch
       /\ batch' = batch \ {c}
       /\ \/ /\ row.status \notin Terminal
             /\ Observable(row, a)
             /\ \/ row' = ObservedAssignment(row, a)
                \/ /\ child[c] = "COMPLETED"
                   /\ row' = IF row.status = "INTERRUPTED" THEN row
                             ELSE [ObservedAssignment(row, a) EXCEPT !.status = "FAILED"]
          \/ /\ row.status \in Terminal \/ ~Observable(row, a)
             /\ row' = row
       /\ fresh' = (fresh /\ row' = row)
       /\ UNCHANGED <<copy, pc, queue, childVars>>

\* Every observer has returned: the row is the step's RunState from here on.
AssignmentsReconciled ==
    /\ pc \in {"observe", "collect"}
    /\ batch = {}
    /\ copy' = row
    /\ fresh' = TRUE
    /\ pc' = IF pc = "observe" THEN "decide" ELSE "apply"
    /\ UNCHANGED <<row, queue, batch, childVars>>

InReview(s) == {a \in Assignment : StatusOf(s, a) = "REVIEWING"}

Judged(s, a, verdict) == [s EXCEPT !.unit[a].review = verdict]

\* _review asks the reviewer ...
Review ==
    /\ pc = "decide"
    /\ \E a \in Assignment :
          /\ Earliest(PlanOrder, a, InReview(copy))
          /\ copy.unit[a].review = "none"
          /\ \/ RoleCallFails
             \/ \E verdict \in {"approved", "rejected"} :
                   Save(Judged(copy, a, verdict), "apply") \/ Conclude(Judged(copy, a, verdict), "FAILED")

RetriesUsedUp(s, a) == s.unit[a].attempt > MaxRetries

\* ... and a later step accepts the result or begins a new attempt.
Accept(s, a) == With(s, a, "COMPLETED")

ReassignSame(s, a) ==                        \* mutant: the attempt is not counted
    [s EXCEPT !.unit[a] = [status |-> "PENDING", attempt |-> @.attempt, review |-> "none"]]

Reassign(s, a) ==
    [s EXCEPT !.unit[a] = [status |-> "PENDING", attempt |-> @.attempt + 1, review |-> "none"]]

SettleReview ==
    /\ pc = "decide"
    /\ \E a \in Assignment :
          /\ Earliest(PlanOrder, a, InReview(copy))
          /\ copy.unit[a].review # "none"
          /\ Save(IF copy.unit[a].review = "approved" \/ RetriesUsedUp(copy, a)
                  THEN Accept(copy, a) ELSE Reassign(copy, a), "apply")

\* The RunState where the assignments of a set have another status.
Became(s, some, status) ==
    [s EXCEPT !.unit =
        [a \in Assignment |-> IF a \in some THEN [@[a] EXCEPT !.status = status] ELSE @[a]]]

\* _skip_blocked_assignments: one pass, dependents of a skipped one follow in the
\* next step.
SkipBlocked ==
    /\ pc = "decide"
    /\ InReview(copy) = {}
    /\ LET blocked == BlockedAssignments(copy)
       IN IF blocked = {} THEN Goto("ready") ELSE Save(Became(copy, blocked, "SKIPPED"), "ready")

\* _persist_ready_assignments
PersistReady ==
    /\ pc = "ready"
    /\ LET ready == ReadyAssignments(copy)
       IN IF ready = {} THEN Goto("launch") ELSE Save(Became(copy, ready, "ASSIGNED"), "launch")

\* The batch of Children is saved as started; the budget may forbid it.
LaunchBatch ==
    LET chosen == LaunchableAssignments(copy)
    IN /\ pc = "launch"
       /\ IF chosen = {} THEN Goto("settle")
          ELSE \/ Conclude(copy, "FAILED")
               \/ ~fresh /\ Stop
               \/ /\ fresh
                  /\ row' = copy
                  /\ queue' = {ChildOf(copy, a) : a \in chosen}
                  /\ pc' = "execute"
                  /\ UNCHANGED <<copy, fresh, batch, childVars>>

\* The assignments are started in plan order.
StartAssignment == \E c \in queue : Earliest(PlanOrder, c[1], {d[1] : d \in queue}) /\ Launch(c)

\* FIRST_COMPLETED: the slot of a Child that returned is free again.
AssignmentReturned(c) ==
    /\ Returned(c)
    /\ batch' = batch \ {c}
    /\ UNCHANGED <<row, copy, fresh, pc, queue, childVars>>

\* _wait_for_children, _synthesize, _complete
SettleOrchestration ==
    /\ pc = "settle"
    /\ \/ /\ ~Settled(copy)
          /\ Save([copy EXCEPT !.status = "WAITING_CHILD"], "apply")
       \/ /\ Settled(copy) /\ ~copy.synthesized
          /\ Save([copy EXCEPT !.synthesized = TRUE], "apply")
       \/ /\ Settled(copy) /\ copy.synthesized
          /\ Goto("finish")

\* The completion policy accepts the proposal or rejects it.
FinishOrchestration ==
    /\ pc = "finish"
    /\ Conclude(copy, "COMPLETED") \/ Conclude(copy, "FAILED")

\* on_cancel
CancelledOrchestration(s) ==
    [s EXCEPT !.status = "CANCELLED",
              !.unit = [a \in Assignment |-> IF @[a].status \in AssignmentTerminal THEN @[a]
                                             ELSE [@[a] EXCEPT !.status = "CANCELLED"]]]

CurrentChildren(s) == {ChildOf(s, a) : a \in Assignment}

MultiAgentStep ==
    /\ \/ Resume \/ Preflight \/ Apply
       \/ StartOrchestration \/ CreateAssignments
       \/ ReconcileFirst \/ ReconcileAgain \/ AssignmentsReconciled
       \/ \E a \in Assignment : ObserveAssignment(a)
       \/ Review \/ SettleReview \/ SkipBlocked \/ PersistReady \/ LaunchBatch
       \/ StartAssignment
       \/ \E c \in Child : AssignmentReturned(c)
       \/ SettleOrchestration \/ FinishOrchestration
    /\ UNCHANGED apiVars

MultiAgentNext ==
    /\ AgentsRun
    /\ \/ MultiAgentStep
       \/ ChildStep
       \/ Control(CancelledOrchestration(row), CurrentChildren(row))
       \/ Converge
       \/ Crash

\* The event loop runs a coroutine that can run.  Resume is left to the client.
MultiAgentFairness ==
    /\ WF_orchestrationVars(pc # "idle" /\ AgentsRun /\ MultiAgentStep)
    /\ ChildFairness

MultiAgentSpec ==
    /\ MultiAgentInit /\ [][MultiAgentNext]_orchestrationVars
    /\ MultiAgentFairness

(***************************************************************************)
(* Properties.                                                             *)
(***************************************************************************)
\* "PENDING with all dependencies COMPLETED is ready" (docs/multi-agent-durable-
\* execution.md): no Child, of any attempt, exists before every dependency of its
\* assignment was reviewed and accepted, over crashes, cancels and retries
\* (LocalChildRunScheduler.snapshot, _review).
DependenciesComeFirst ==
    AgentsRun => \A a \in Assignment, n \in 1 .. MaxRetries + 1 :
        child[<<a, n>>] # "ABSENT" =>
            \A d \in Dependencies(row, a) : DependencyStatus(row, d) = "COMPLETED"

\* Every result is added to the Parent's tokens once: observers that race each
\* other, an interrupt or a crash neither repeat nor lose one (_observe_child).
ResultsCountOnce ==
    AgentsRun =>
    LET counted == {p \in Assignment \X (1 .. MaxRetries + 1) :
                       \/ p[2] < row.unit[p[1]].attempt
                       \/ /\ p[2] = row.unit[p[1]].attempt
                          /\ StatusOf(row, p[1]) \in {"REVIEWING", "COMPLETED"}}
    IN row.status # "CANCELLED" =>
          /\ row.tokens = Cardinality(counted)
          /\ \A p \in counted : child[p] = "COMPLETED"

\* "Each ready Child ID is persisted before any Child in that batch starts": a Child
\* Run that exists is the one its assignment names, or an earlier attempt of it that
\* completed and was rejected, so a restart finds every Child again
\* (_persist_ready_assignments, _review).
ChildrenAreNamed ==
    AgentsRun => \A a \in Assignment, n \in 1 .. MaxRetries + 1 :
        child[<<a, n>>] # "ABSENT" =>
            \/ n < row.unit[a].attempt /\ child[<<a, n>>] = "COMPLETED"
            \/ n = row.unit[a].attempt /\ StatusOf(row, a) \notin {"PENDING", "SKIPPED"}

\* Children follow the dependencies of the assignments, have their names saved before
\* they start, and each result counts once (the parts above).
AssignmentsAreSettled ==
    /\ MultiAgentTypeOK
    /\ DependenciesComeFirst
    /\ ResultsCountOnce
    /\ ChildrenAreNamed
=============================================================================
