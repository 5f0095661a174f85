------------------------------ MODULE RunTrace ------------------------------
(***************************************************************************)
(* The trace of one Run (src/axiom/runtime/observability_store.py and the  *)
(* spans that durable.py opens): a Run with one turn of tools, whose       *)
(* executions stop and are resumed, while requests interrupt or cancel it. *)
(* The trace is written beside the checkpoint, never with it: what the     *)
(* metrics count must agree with the checkpoint wherever a process ends.   *)
(*                                                                         *)
(* Activities are numbered in the order they begin: executions (start or   *)
(* resume, one at a time) and control requests.  A local Runtime without a *)
(* lease; approvals and retries of a model call are left to ToolExecution  *)
(* and ReactLoop.                                                          *)
(***************************************************************************)
EXTENDS Integers, Sequences, FiniteSets

CONSTANTS MaxActivities, MaxControls, MaxEnds   \* bounds: activities, control requests, processes that end

ASSUME RunTraceAssumption == MaxActivities \in Nat

VARIABLES row,      \* the checkpoint
          tool,     \* the record of the one tool invocation
          trace,    \* the trace: status, whether it ended, its tool span
          spans,    \* the other spans: of each activity, those it opened
          activity, \* what each activity does, with the tracer and the state it holds
          ends

traceVars == <<row, tool, trace, spans, activity, ends>>

Activities == 1 .. MaxActivities
Finished == {"COMPLETED", "FAILED", "CANCELLED"}
NewActivity == [kind |-> "none", at |-> "idle", state |-> "none", stale |-> {}, recovered |-> FALSE,
                resume |-> 0, step |-> 0, span |-> 0, then |-> "none", failed |-> FALSE]

TraceInit ==
    /\ row = [sequence |-> 0, status |-> "none", turns |-> 0, next |-> "llm"]
    /\ tool = "none" /\ trace = [status |-> "none", ended |-> FALSE, tool |-> "none"]
    /\ spans = [a \in Activities |-> <<>>] /\ activity = [a \in Activities |-> NewActivity] /\ ends = 0

At(a, at) == activity[a].at = at
Going(a, at) == [activity[a] EXCEPT !.at = at]
Now(a, to) == activity' = [activity EXCEPT ![a] = to]
Past(a) == [NewActivity EXCEPT !.kind = activity[a].kind, !.at = "ended", !.recovered = activity[a].recovered,
                               !.resume = activity[a].resume]
Execution == {a \in Activities : activity[a].kind \in {"start", "resume"}}

\* start_span, and finish_span.
OpenSpan(a, type) == spans' = [spans EXCEPT ![a] = Append(@, [type |-> type, status |-> "RUNNING"])]
NewSpan(a) == Len(spans[a]) + 1
CloseSpan(a, n, status) == spans' = [spans EXCEPT ![a][n].status = status]
SpanIds == UNION {{<<a, n>> : n \in DOMAIN spans[a]} : a \in Activities}
Span(id) == spans[id[1]][id[2]]

(***************************************************************************)
(* An activity begins, and opens the trace (RunTracer.start_run).          *)
(***************************************************************************)
Statuses(kind) == CASE kind = "start" -> {"none"}
                    [] kind = "resume" -> {"RUNNING", "INTERRUPTED"}
                    [] kind = "interrupt" -> {"RUNNING"}
                    [] kind = "cancel" -> {"RUNNING", "INTERRUPTED"}

\* The state start makes is RUNNING; the others load theirs.
Begin(a, kind) ==
    /\ At(a, "idle") /\ a = Cardinality({b \in Activities : ~At(b, "idle")}) + 1
    /\ row.status \in Statuses(kind) /\ (kind = "start" => a = 1)
    /\ kind = "resume" => \A b \in Execution : At(b, "ended")
    /\ kind \in {"interrupt", "cancel"} => Cardinality({b \in Activities : ~At(b, "idle")} \ Execution) < MaxControls
    /\ Now(a, [NewActivity EXCEPT !.kind = kind, !.at = "trace", !.recovered = kind = "resume" /\ row.status = "RUNNING",
                                  !.state = IF kind = "start" THEN [row EXCEPT !.status = "RUNNING"] ELSE row])
    /\ UNCHANGED <<row, tool, trace, spans, ends>>

\* mutant: only the spans of model calls are in-process spans
StaleCalls == {id \in SpanIds : Span(id).status = "RUNNING" /\ Span(id).type = "llm"}

\* The tool span is not among them: its record decides.
StaleSpans == {id \in SpanIds : Span(id).status = "RUNNING"}

WithStatus(a) == CASE activity[a].kind = "interrupt" -> "INTERRUPTED"
                   [] activity[a].kind = "cancel" -> "CANCELLED"
                   [] OTHER -> "RUNNING"

\* A trace that ended is open again; its root span, which is left out here, is not.
OpenTrace(a) ==
    /\ At(a, "trace") /\ trace' = [trace EXCEPT !.status = activity[a].state.status, !.ended = FALSE]
    /\ LET loaded == [Going(a, "save") EXCEPT !.then = activity[a].kind, !.state.status = WithStatus(a)]
       IN Now(a, CASE activity[a].recovered -> [Going(a, "stale") EXCEPT !.stale = StaleSpans]
                   [] activity[a].kind = "resume" /\ ~activity[a].recovered -> Going(a, "resume")
                   [] OTHER -> loaded)
    /\ UNCHANGED <<row, tool, spans, ends>>

CloseStaleSpan(a) ==
    /\ At(a, "stale")
    /\ IF activity[a].stale = {} THEN Now(a, Going(a, "resume")) /\ UNCHANGED spans
       ELSE LET id == CHOOSE id \in activity[a].stale : TRUE
            IN CloseSpan(id[1], id[2], "INTERRUPTED") /\ Now(a, [activity[a] EXCEPT !.stale = @ \ {id}])
    /\ UNCHANGED <<row, tool, trace, ends>>

\* The resume claims the Run with a checkpoint, also when it changes nothing.
OpenResume(a) ==
    /\ At(a, "resume") /\ OpenSpan(a, "resume")
    /\ Now(a, [Going(a, "save") EXCEPT !.resume = NewSpan(a), !.then = "resume", !.state.status = "RUNNING"])
    /\ UNCHANGED <<row, tool, trace, ends>>

(***************************************************************************)
(* Every checkpoint is saved within a span (_save_checkpoint).             *)
(***************************************************************************)
OpenSave(a) ==
    /\ At(a, "save") /\ OpenSpan(a, "checkpoint") /\ Now(a, [Going(a, "advance") EXCEPT !.span = NewSpan(a)])
    /\ UNCHANGED <<row, tool, trace, ends>>

AdvanceRunState(a) ==
    /\ At(a, "advance")
    /\ LET state == [activity[a].state EXCEPT !.sequence = @ + 1]
       IN IF row.sequence = activity[a].state.sequence
          THEN row' = state /\ Now(a, [Going(a, "saved") EXCEPT !.state = state])
          ELSE Now(a, Going(a, "conflict")) /\ UNCHANGED row
    /\ UNCHANGED <<tool, trace, spans, ends>>

AfterSave(then) == CASE then = "start" -> "loop"
                     [] then = "resume" -> "update"
                     [] then = "interrupt" -> "note"
                     [] then \in {"cancel", "end"} -> "finish"
                     [] then = "step" -> "step"

CloseSave(a) ==
    /\ At(a, "saved") /\ CloseSpan(a, activity[a].span, "SUCCEEDED") /\ Now(a, Going(a, AfterSave(activity[a].then)))
    /\ UNCHANGED <<row, tool, trace, ends>>

\* The exception passes through the step and the resume.
FailSave(a) ==
    /\ At(a, "conflict") /\ CloseSpan(a, activity[a].span, "FAILED") /\ Now(a, Going(a, "raised"))
    /\ UNCHANGED <<row, tool, trace, ends>>

\* What an except block closes: the span of a tool's step, never that of a model
\* call's; and the resume span, once the Run is claimed.
Handlers(a) ==
    {i \in {activity[a].step, activity[a].resume} \ {0} :
        spans[a][i].status = "RUNNING" /\ spans[a][i].type # "llm step" /\ activity[a].then # "resume"}

Raise(a) ==
    /\ At(a, "raised")
    /\ IF Handlers(a) = {} THEN Now(a, Past(a)) /\ UNCHANGED spans
       ELSE /\ CloseSpan(a, CHOOSE i \in Handlers(a) : \A j \in Handlers(a) : i >= j, "FAILED") /\ UNCHANGED activity
    /\ UNCHANGED <<row, tool, trace, ends>>

UpdateRun(a) ==
    /\ At(a, "update") /\ trace' = [trace EXCEPT !.status = activity[a].state.status, !.ended = FALSE]
    /\ Now(a, IF activity[a].kind = "resume" THEN Going(a, "loop") ELSE Past(a))
    /\ UNCHANGED <<row, tool, spans, ends>>

RecordInterrupt(a) ==
    /\ \/ At(a, "note") /\ OpenSpan(a, "interrupt") /\ Now(a, [Going(a, "noted") EXCEPT !.span = NewSpan(a)])
       \/ At(a, "noted") /\ CloseSpan(a, activity[a].span, "INTERRUPTED") /\ Now(a, Going(a, "update"))
    /\ UNCHANGED <<row, tool, trace, ends>>

(***************************************************************************)
(* The loop of an execution.                                               *)
(***************************************************************************)

\* _preflight_step and _apply_next_action go by the stored state.
Loop(a) ==
    /\ At(a, "loop")
    /\ LET loaded == [activity[a] EXCEPT !.state = row]
           end(status) == [loaded EXCEPT !.at = "save", !.then = "end", !.state.status = status]
       IN Now(a, CASE row.status # "RUNNING" -> [loaded EXCEPT !.at = "returned"]
                   [] row.status = "RUNNING" /\ activity[a].failed -> end("FAILED")
                   [] row.status = "RUNNING" /\ ~activity[a].failed /\ row.next = "complete" -> end("COMPLETED")
                   [] OTHER -> [loaded EXCEPT !.at = "open"])
    /\ UNCHANGED <<row, tool, trace, spans, ends>>

OpenStep(a) ==
    /\ At(a, "open") /\ OpenSpan(a, IF activity[a].state.next = "tool" THEN "tool step" ELSE "llm step")
    /\ Now(a, [Going(a, activity[a].state.next) EXCEPT !.step = NewSpan(a), !.then = "step"])
    /\ UNCHANGED <<row, tool, trace, ends>>

OpenCall(a) ==
    /\ At(a, "llm") /\ OpenSpan(a, "llm") /\ Now(a, [Going(a, "calling") EXCEPT !.span = NewSpan(a)])
    /\ UNCHANGED <<row, tool, trace, ends>>

\* An answer asks for the tool, or is the last.
AnswerCall(a) ==
    /\ At(a, "calling") /\ CloseSpan(a, activity[a].span, "SUCCEEDED")
    /\ \E next \in IF activity[a].state.turns = 0 THEN {"tool", "complete"} ELSE {"complete"} :
          Now(a, [Going(a, "save") EXCEPT !.state.turns = @ + 1, !.state.next = next])
    /\ UNCHANGED <<row, tool, trace, ends>>

FailCall(a) ==
    /\ At(a, "calling") /\ CloseSpan(a, activity[a].span, "FAILED")
    /\ Now(a, [Going(a, "save") EXCEPT !.failed = TRUE])
    /\ UNCHANGED <<row, tool, trace, ends>>

CloseStep(a) ==
    /\ At(a, "step") /\ CloseSpan(a, activity[a].step, IF activity[a].failed THEN "FAILED" ELSE "SUCCEEDED")
    /\ Now(a, [Going(a, "loop") EXCEPT !.step = 0])
    /\ UNCHANGED <<row, tool, trace, ends>>

(***************************************************************************)
(* The tool: its span has the identity of the invocation.                  *)
(***************************************************************************)
Applied(a) == [Going(a, "save") EXCEPT !.state.next = "llm"]

\* A result that was recorded is reused, and the span of the execution that made it closed.
ReuseResult(a) ==
    /\ \/ /\ At(a, "tool") /\ tool \in {"SUCCEEDED", "FAILED"}
          /\ trace' = [trace EXCEPT !.tool = IF @ = "none" THEN "RUNNING" ELSE @]
          /\ Now(a, Going(a, "reuse"))
       \/ /\ At(a, "reuse") /\ trace' = [trace EXCEPT !.tool = IF @ = "RUNNING" \/ tool = "FAILED" THEN tool ELSE @]
          /\ Now(a, Applied(a))
    /\ UNCHANGED <<row, tool, spans, ends>>

\* Its attempts are used up.
GiveUpTool(a) ==
    /\ At(a, "tool") /\ tool = "RUNNING" /\ tool' = "FAILED"
    /\ UNCHANGED <<row, trace, spans, activity, ends>>

RecordTool(a) ==
    /\ At(a, "tool") /\ tool = "none" /\ tool' = "PENDING"
    /\ UNCHANGED <<row, trace, spans, activity, ends>>

\* The span is opened again for an attempt whose outcome is not known.
OpenTool(a) ==
    /\ At(a, "tool") /\ tool \in {"PENDING", "RUNNING"}
    /\ trace' = [trace EXCEPT !.tool = IF @ = "none" \/ tool = "RUNNING" THEN "RUNNING" ELSE @]
    /\ Now(a, Going(a, "run")) /\ UNCHANGED <<row, tool, spans, ends>>

StartTool(a) ==
    /\ At(a, "run") /\ tool' = "RUNNING" /\ Now(a, Going(a, "running"))
    /\ UNCHANGED <<row, trace, spans, ends>>

EndTool(a) ==
    /\ At(a, "running") /\ tool' \in {"SUCCEEDED", "FAILED"} /\ Now(a, Going(a, "close"))
    /\ UNCHANGED <<row, trace, spans, ends>>

CloseTool(a) ==
    /\ At(a, "close") /\ trace' = [trace EXCEPT !.tool = tool] /\ Now(a, Applied(a))
    /\ UNCHANGED <<row, tool, spans, ends>>

\* The cancellation is signalled while the tool runs; CancelledError passes every other except block.
CancelTool(a) ==
    /\ \/ /\ At(a, "running") /\ row.status = "CANCELLED" /\ tool' = "FAILED"
          /\ Now(a, Going(a, "cancelled")) /\ UNCHANGED trace
       \/ /\ At(a, "cancelled") /\ trace' = [trace EXCEPT !.tool = "CANCELLED"]
          /\ Now(a, Past(a)) /\ UNCHANGED tool
    /\ UNCHANGED <<row, spans, ends>>

(***************************************************************************)
(* The end of an activity, or of its process.                              *)
(***************************************************************************)
FinishTrace(a) ==
    /\ At(a, "finish") /\ trace' = [trace EXCEPT !.status = activity[a].state.status, !.ended = TRUE]
    /\ Now(a, Going(a, "returned")) /\ UNCHANGED <<row, tool, spans, ends>>

Outcome(status) == CASE status = "COMPLETED" -> "SUCCEEDED"
                     [] status \in {"FAILED", "CANCELLED"} -> status
                     [] OTHER -> "INTERRUPTED"

\* An execution that resumed the Run closes its span, and finishes the trace again.
Return(a) ==
    /\ At(a, "returned")
    /\ LET resume == activity[a].resume   status == activity[a].state.status
       IN IF resume # 0 /\ spans[a][resume].status = "RUNNING"
          THEN /\ CloseSpan(a, resume, Outcome(status))
               /\ Now(a, IF status \in Finished THEN Going(a, "finish") ELSE Past(a))
          ELSE Now(a, Past(a)) /\ UNCHANGED spans
    /\ UNCHANGED <<row, tool, trace, ends>>

\* The process ends, or a cancelled execution is signalled where no except block sees it.
EndActivity(a) ==
    /\ ~At(a, "idle") /\ ~At(a, "ended") /\ Now(a, Past(a))
    /\ \/ ends < MaxEnds /\ ends' = ends + 1
       \/ a \in Execution /\ row.status = "CANCELLED" /\ UNCHANGED ends
    /\ UNCHANGED <<row, tool, trace, spans>>

TraceNext ==
    \E a \in Activities :
        \/ \E kind \in {"start", "resume", "interrupt", "cancel"} : Begin(a, kind)
        \/ OpenTrace(a) \/ CloseStaleSpan(a) \/ OpenResume(a)
        \/ OpenSave(a) \/ AdvanceRunState(a) \/ CloseSave(a) \/ FailSave(a) \/ Raise(a)
        \/ UpdateRun(a) \/ RecordInterrupt(a)
        \/ Loop(a) \/ OpenStep(a) \/ OpenCall(a) \/ AnswerCall(a) \/ FailCall(a) \/ CloseStep(a)
        \/ ReuseResult(a) \/ GiveUpTool(a) \/ RecordTool(a) \/ OpenTool(a) \/ StartTool(a) \/ EndTool(a)
        \/ CloseTool(a) \/ CancelTool(a)
        \/ FinishTrace(a) \/ Return(a) \/ EndActivity(a)

TraceSpec == TraceInit /\ [][TraceNext]_traceVars

(***************************************************************************)
(* What a reader of the trace relies on.                                   *)
(***************************************************************************)
Ones(type, status) == Cardinality({id \in SpanIds : Span(id) = [type |-> type, status |-> status]})

\* A trace that ended says how the Run ended, and its Run ended so: no request that
\* loses to an execution, and no resume, ends it early ("the root Run span and Trace
\* remain open while a Run is interrupted", docs/observability.md:108).
EndedTraceIsRight == trace.ended => trace.status \in Finished /\ trace.status = row.status

\* checkpoint_count never exceeds the checkpoints there are, and no checkpoint is
\* without a span, wherever a process ended between span and save (_save_checkpoint).
CheckpointsAreCounted ==
    /\ Ones("checkpoint", "SUCCEEDED") <= row.sequence
    /\ row.sequence <= Cardinality({id \in SpanIds : Span(id).type = "checkpoint" /\ Span(id).status # "FAILED"})

\* Every turn of the checkpoint has its successful model call in the metrics, after
\* any number of recoveries (llm.chat is closed before the checkpoint, _close_stale_spans).
TurnsAreTraced == row.turns <= Ones("llm", "SUCCEEDED")

\* Once an execution that recovered the Run goes on, no span of an earlier one is open
\* (docs/observability.md:109-110, _close_stale_spans).
RecoveryLeavesNoneOpen ==
    \A a \in Activities : activity[a].recovered /\ activity[a].resume # 0 =>
        \A id \in SpanIds : id[1] \in Execution /\ id[1] < a => Span(id).status # "RUNNING"

\* When the Run has passed its tool, the tool's span has the outcome of the record,
\* whichever execution made it and whichever reused it (_execute_pending_tool_inner).
ToolSpanFollowsTool == tool # "none" /\ row.next # "tool" => trace.tool = tool

\* Traces, checkpoints, turns and tools are recorded as they happened, over crashes,
\* recoveries and lost requests (the parts above).
TraceFollowsTheRun ==
    /\ EndedTraceIsRight
    /\ CheckpointsAreCounted
    /\ TurnsAreTraced
    /\ RecoveryLeavesNoneOpen
    /\ ToolSpanFollowsTool
=============================================================================
