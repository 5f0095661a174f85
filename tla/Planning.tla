------------------------------ MODULE Planning ------------------------------
(***************************************************************************)
(* What becomes of the planner's answer: Planner.parse_plan                *)
(* (src/axiom/plan/planner.py) and the graph of its tasks                  *)
(* (src/axiom/plan/models.py), and _parse_assignments of the multi-agent   *)
(* strategy.  The answer is any list of nodes: some are no objects, ids    *)
(* repeat or look like those the parser gives, dependencies name tasks     *)
(* that are not there, or themselves.                                      *)
(***************************************************************************)
EXTENDS Integers, Sequences, FiniteSets, SequencesExt, Relation

CONSTANTS GivenId,    \* ids a node may have, and dependencies may name
          Named,      \* GivenId -> the position whose new id it looks like, 0 for none
          MaxNodes    \* bound

VARIABLES nodes,    \* the answer, <<>> before it
          verdict,  \* "none", "accepted", "cyclic"; after a restart "reloaded" or "unreadable"
          tasks,    \* the dependencies of each task, by its position
          order     \* _execution_order
planVars == <<nodes, verdict, tasks, order>>

NoObject == [object |-> FALSE, id |-> "", dependencies |-> {}]
Node == [object : {TRUE}, id : GivenId, dependencies : SUBSET GivenId]

PlanInit == nodes = <<>> /\ verdict = "none" /\ tasks = <<>> /\ order = <<>>

(***************************************************************************)
(* parse_plan.                                                             *)
(***************************************************************************)
\* The positions that become tasks: task_1 of the first node, and so on.
TaskPositions(ns) == {i \in DOMAIN ns : ns[i].object}

\* id_mapping: the last node of an id has it; an id nobody has may name a task directly.
MappedTo(ns, positions, id) ==
    LET with == {i \in positions : ns[i].id = id} IN IF with = {} THEN Named[id] ELSE Max(with)

\* mutant: what the mapping does not know is kept
KeepUnknown(ns) == [i \in TaskPositions(ns) |-> {MappedTo(ns, TaskPositions(ns), d) : d \in ns[i].dependencies}]

\* A dependency that is no task of the plan is dropped.
TasksOf(ns) ==
    [i \in TaskPositions(ns) |->
        {MappedTo(ns, TaskPositions(ns), d) : d \in ns[i].dependencies} \cap TaskPositions(ns)]

(***************************************************************************)
(* compute_execution_order: depth first, in the order of the tasks.        *)
(***************************************************************************)
InOrder(S) == SetToSortSeq(S, LAMBDA a, b : a < b)

Left(walk, t) == [walk EXCEPT !.order = Append(@, t), !.visiting = @ \ {t}]

RECURSIVE Visit(_, _, _), VisitAll(_, _, _)
Visit(plan, t, walk) ==
    IF ~walk.ok THEN walk
    ELSE IF t \in walk.visiting THEN [walk EXCEPT !.ok = FALSE]
    ELSE IF t \in ToSet(walk.order) THEN walk
    ELSE LET inside == VisitAll(plan, InOrder(plan[t] \cap DOMAIN plan), [walk EXCEPT !.visiting = @ \cup {t}])
         IN IF inside.ok THEN Left(inside, t) ELSE inside
VisitAll(plan, ts, walk) ==
    IF ts = <<>> THEN walk ELSE VisitAll(plan, Tail(ts), Visit(plan, Head(ts), walk))

ComputeExecutionOrder(plan) ==
    VisitAll(plan, InOrder(DOMAIN plan), [ok |-> TRUE, visiting |-> {}, order |-> <<>>])

ParsePlan(ns) ==
    /\ nodes = <<>> /\ nodes' = ns
    /\ tasks' = TasksOf(ns)
    /\ LET walk == ComputeExecutionOrder(TasksOf(ns))
       IN IF walk.ok THEN verdict' = "accepted" /\ order' = walk.order
          ELSE verdict' = "cyclic" /\ order' = <<>>

(***************************************************************************)
(* The batches in which the tasks become executable.                       *)
(***************************************************************************)
IsExecutable(plan, completed, t) == t \notin completed /\ plan[t] \subseteq completed \cap DOMAIN plan

RECURSIVE BatchesFrom(_, _)
BatchesFrom(plan, completed) ==
    LET batch == {t \in DOMAIN plan : IsExecutable(plan, completed, t)}
    IN IF batch = {} THEN <<>> ELSE <<batch>> \o BatchesFrom(plan, completed \cup batch)
ExecutionBatches(plan) == BatchesFrom(plan, {})

(***************************************************************************)
(* _parse_assignments: the nodes that are no objects are dropped first.    *)
(***************************************************************************)
ValidNodes(ns) == SelectSeq(ns, LAMBDA n : n.object)

\* 0 stands for a name that no assignment has: it is kept.
AssignmentOf(valid, id) ==
    LET with == {i \in DOMAIN valid : valid[i].id = id} IN IF with = {} THEN 0 ELSE Max(with)
ParseAssignments(ns) ==
    LET valid == ValidNodes(ns)
    IN [i \in DOMAIN valid |-> {AssignmentOf(valid, d) : d \in valid[i].dependencies}]

\* A restarted worker reads the plan from the checkpoint, and orders it again.
ReloadPlan ==
    /\ verdict = "accepted"
    /\ LET walk == ComputeExecutionOrder(tasks)
       IN verdict' = (IF walk.ok THEN "reloaded" ELSE "unreadable") /\ order' = walk.order
    /\ UNCHANGED <<nodes, tasks>>

PlanNext ==
    \/ ReloadPlan
    \/ \E n \in 1..MaxNodes : \E ns \in [1..n -> Node \cup {NoObject}] : ParsePlan(ns)

(***************************************************************************)
(* What the strategies take for granted.                                   *)
(***************************************************************************)

\* An accepted plan can be executed to its end, whatever the planner named: the
\* order has every task once, after all it depends on, and the batches of
\* executable tasks leave none out, also when a restart reads it back.
AcceptedPlanIsExecutable ==
    verdict \in {"accepted", "reloaded", "unreadable"} =>
        /\ ToSet(order) = DOMAIN tasks /\ IsInjective(order)
        /\ \A i \in DOMAIN order : tasks[order[i]] \subseteq {order[j] : j \in 1..(i - 1)}
        /\ UNION ToSet(ExecutionBatches(tasks)) = DOMAIN tasks

\* A plan is refused only for a cycle among its own tasks: tasks that two others
\* depend on, repeated ids and unknown names do not look like one.
OnlyCyclesAreRefused ==
    LET reached == TransitiveClosure([t, u \in DOMAIN tasks |-> u \in tasks[t]], DOMAIN tasks)
    IN verdict = "cyclic" => \E t \in DOMAIN tasks : reached[t, t]

\* Both strategies read the same graph out of an answer: a node between the tasks
\* that is no object shifts nobody's dependencies.
ParsersAgree ==
    nodes # <<>> =>
        LET position == InOrder(TaskPositions(nodes))
            clear(i) == \A d \in nodes[i].dependencies : \E j \in DOMAIN tasks : nodes[j].id = d
        IN \A k \in DOMAIN position : clear(position[k]) =>
               tasks[position[k]] = {position[m] : m \in ParseAssignments(nodes)[k]}

\* What is accepted can be executed, what is refused has a cycle, and both parsers read
\* the same graph (the parts above).
PlansAreReadRightly ==
    /\ AcceptedPlanIsExecutable
    /\ OnlyCyclesAreRefused
    /\ ParsersAgree
=============================================================================
