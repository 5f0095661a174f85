--------------------------- MODULE MCOrchestration --------------------------
EXTENDS MultiAgent, PlanExecute, TLC
Children == Assignment \X (1 .. MaxRetries + 1) \cup Task \X (1 .. MaxReplans + 1)

\* Assignments: independent, in sequence, in a cycle, and with a dependency that names
\* no assignment.
Assignments == <<"a", "b">>
Answers == {"a" :> {} @@ "b" :> {}, "a" :> {} @@ "b" :> {"a"}, "a" :> {"b"} @@ "b" :> {"a"}, "a" :> {} @@ "b" :> {"none"}}

\* Tasks: independent, a fork, and a plan with no usable task.
TasksInPlan == <<"t", "u", "v">>
Plans == {"t" :> {} @@ "u" :> {} @@ "v" :> {}, "t" :> {} @@ "u" :> {} @@ "v" :> {"t"}, <<>>}

OrchestrationInit == MultiAgentInit \/ PlanExecuteInit
OrchestrationNext == MultiAgentNext \/ PlanNext
OrchestrationSpec ==
    /\ OrchestrationInit /\ [][OrchestrationNext]_orchestrationVars
    /\ MultiAgentFairness /\ PlanExecuteFairness
=============================================================================
