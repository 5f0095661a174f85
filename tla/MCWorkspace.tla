--------------------------- MODULE MCWorkspace ---------------------------
(***************************************************************************)
(* What an agent works with: memory, context, code index, commands, tools, *)
(* plans, bad cases, a trace - each on its own, as in MCServices.           *)
(***************************************************************************)
EXTENDS ThreadMemory, ContextWindow, CodeIndex, CommandExecution, ToolBatch, Planning, BadCases, RunTrace

VARIABLE focus

\* The parser's own name for the first node.
NewNames == [id \in GivenId |-> IF id = "task_1" THEN 1 ELSE 0]

WorkspaceInit ==
    /\ focus \in {"memory", "context", "index", "command", "batch", "plan", "badcases", "trace"}
    /\ MemoryInit /\ WindowInit /\ IndexInit /\ CommandInit /\ BatchInit /\ PlanInit /\ BadCasesInit /\ TraceInit

WorkspaceNext ==
    /\ UNCHANGED focus
    /\ \/ /\ focus = "memory" /\ MemoryNext
          /\ UNCHANGED <<windowVars, indexVars, commandVars, batchVars, planVars, badCaseVars, traceVars>>
       \/ /\ focus = "context" /\ WindowNext
          /\ UNCHANGED <<memoryVars, indexVars, commandVars, batchVars, planVars, badCaseVars, traceVars>>
       \/ /\ focus = "index" /\ IndexNext
          /\ UNCHANGED <<memoryVars, windowVars, commandVars, batchVars, planVars, badCaseVars, traceVars>>
       \/ /\ focus = "command" /\ CommandNext
          /\ UNCHANGED <<memoryVars, windowVars, indexVars, batchVars, planVars, badCaseVars, traceVars>>
       \/ /\ focus = "batch" /\ BatchNext
          /\ UNCHANGED <<memoryVars, windowVars, indexVars, commandVars, planVars, badCaseVars, traceVars>>
       \/ /\ focus = "plan" /\ PlanNext
          /\ UNCHANGED <<memoryVars, windowVars, indexVars, commandVars, batchVars, badCaseVars, traceVars>>
       \/ /\ focus = "badcases" /\ BadCasesNext
          /\ UNCHANGED <<memoryVars, windowVars, indexVars, commandVars, batchVars, planVars, traceVars>>
       \/ /\ focus = "trace" /\ TraceNext
          /\ UNCHANGED <<memoryVars, windowVars, indexVars, commandVars, batchVars, planVars, badCaseVars>>

vars == <<focus, memoryVars, windowVars, indexVars, commandVars, batchVars, planVars, badCaseVars, traceVars>>

\* The fairness of a command: see CommandFairness.
WorkspaceFairness ==
    /\ WF_commandVars(focus = "command" /\ CallSteps)
    /\ \A p \in Group : WF_commandVars(focus = "command" /\ DieOfTerm(p))

WorkspaceSpec == WorkspaceInit /\ [][WorkspaceNext]_vars /\ WorkspaceFairness
=============================================================================
