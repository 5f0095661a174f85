----------------------------- MODULE ReactLoop -----------------------------
(***************************************************************************)
(* The ReAct loop of one Run (runtime/durable.py): model calls with their  *)
(* retries, the tool calls they ask for, and the decision whether an       *)
(* answer completes the Run (runtime/completion.py, steps.py).             *)
(*                                                                         *)
(* What survives a crash is the row; the loop works on its copy and saves  *)
(* it, and a save after an interrupt has changed the row is refused.  A    *)
(* retry is remembered in the error of the row: the failure with whether   *)
(* it may be retried, then the attempt that was started.  A tool call is   *)
(* one step here (ToolExecution has its own), tokens and time are left to  *)
(* BudgetLedger.                                                           *)
(***************************************************************************)
EXTENDS Integers

CONSTANTS MaxTurns, MaxAttempts, MaxCorrections,   \* the limits of the configuration
          ToolCalls,       \* bound: tool calls one answer asks for
          MaxCrashes, MaxInterrupts                \* bounds of the environment

ASSUME ReactAssumption == {MaxTurns, MaxAttempts, ToolCalls} \subseteq Nat \ {0} /\ MaxCorrections \in Nat

VARIABLES row,      \* the checkpoint
          copy,     \* the state the loop works on
          loop,     \* where the loop is: "down" without a process
          stale,    \* the row has changed since the loop last read or saved it
          retries,  \* history: calls sent since a failure was recorded
          verified, \* history: the turn whose answer was last VERIFIED
          crashes, interrupts

reactVars == <<row, copy, loop, stale, retries, verified, crashes, interrupts>>

NoFailure == [attempt |-> 0, started |-> FALSE, retry |-> FALSE]

\* last: the role of the last message; open: tool calls without a result.
NewRow == [status |-> "none", contract |-> FALSE, last |-> "user", open |-> 0, turn |-> 0,
           error |-> NoFailure, attempts |-> 0, corrections |-> 0]

ReactInit ==
    /\ row = NewRow /\ copy = NewRow /\ loop = "down" /\ stale = FALSE
    /\ retries = 0 /\ verified = 0 /\ crashes = 0 /\ interrupts = 0

Environment == <<crashes, interrupts>>
History     == <<retries, verified>>

StartReact ==
    /\ row.status = "none"
    /\ \E contract \in BOOLEAN :
        row' = [NewRow EXCEPT !.status = "RUNNING", !.contract = contract]
    /\ copy' = row' /\ loop' = "preflight"
    /\ UNCHANGED <<stale, History, Environment>>

\* Save the copy and go on, or find that an interrupt came first and stop.
Commit(state, next) ==
    IF stale
    THEN loop' = "down" /\ UNCHANGED <<row, copy>>
    ELSE row' = state /\ copy' = state /\ loop' = next

End(status)  == Commit([copy EXCEPT !.status = status], "down")
Goto(where)  == loop' = where /\ UNCHANGED <<row, copy>>

(***************************************************************************)
(* The loop: what to do next, from the copy alone.                         *)
(***************************************************************************)
AskAgain == IF copy.open > 0 THEN "tool"        \* mutant: a durable answer is not looked at
            ELSE IF copy.turn >= MaxTurns THEN "fail" ELSE "model"

NextStep ==
    IF copy.open = 0 /\ copy.turn > 0 /\ copy.last = "assistant" /\ copy.error = NoFailure
    THEN "judge"
    ELSE IF copy.open > 0 THEN "tool"
    ELSE IF copy.turn >= MaxTurns THEN "fail"
    ELSE "model"

\* The wall time may be used up before any step.
PreflightStep ==
    /\ loop = "preflight"
    /\ IF stale THEN Goto("down") ELSE Goto(NextStep) \/ End("FAILED")
    /\ UNCHANGED <<stale, History, Environment>>

RunTool ==
    /\ loop = "tool"
    /\ Commit([copy EXCEPT !.open = @ - 1, !.last = "tool"], "preflight")
    /\ UNCHANGED <<stale, History, Environment>>

FailRun ==
    /\ loop = "fail" /\ End("FAILED")
    /\ UNCHANGED <<stale, History, Environment>>

(***************************************************************************)
(* A model call.                                                           *)
(***************************************************************************)
\* A failure that an earlier execution recorded.
Recorded ==
    IF copy.error.started /\ copy.error.attempt >= MaxAttempts THEN "fail"
    ELSE IF copy.error.retry THEN "attempt" ELSE "fail"

ConsultError ==
    /\ loop = "model"
    /\ IF copy.error = NoFailure THEN Goto("attempt")
       ELSE Goto(Recorded) \/ Goto("fail")      \* the backoff does not fit the deadline
    /\ UNCHANGED <<stale, History, Environment>>

\* The first attempt leaves no record; every later one is saved before it is sent.
SendFirst ==
    /\ loop = "attempt" /\ copy.error = NoFailure
    /\ Goto("calling")
    /\ UNCHANGED <<stale, History, Environment>>

SendRetry ==
    /\ loop = "attempt" /\ copy.error # NoFailure
    /\ Commit([copy EXCEPT !.error.attempt = @ + 1, !.error.started = TRUE], "calling")
    /\ retries' = IF stale THEN retries ELSE retries + 1
    /\ UNCHANGED <<stale, verified, Environment>>

Attempt == IF copy.error = NoFailure THEN 1 ELSE copy.error.attempt

AnswerWith(calls) == [copy EXCEPT !.error = NoFailure, !.last = "assistant", !.open = calls, !.turn = @ + 1]

\* Without tool calls the answer is proposed as the completion.
CallSucceeds ==
    /\ loop = "calling"
    /\ \E calls \in 0 .. ToolCalls :
        Commit(AnswerWith(calls), IF calls = 0 THEN "judge" ELSE "preflight")
    /\ retries' = IF stale THEN retries ELSE 0
    /\ UNCHANGED <<stale, verified, Environment>>

\* A failure is an HTTP status; exceptions without one fall into the same categories.
Category(failure) ==
    CASE failure = 429             -> "rate_limited"
      [] failure \in {408, 504}    -> "timeout"
      [] failure \in {500, 502, 503} -> "transient_server_error"
      [] failure \in {401, 403}    -> "auth_error"
      [] failure \in {400, 404, 409, 413, 422} -> "validation_error"
      [] OTHER                     -> "permanent_error"

RetryableCategories == {"timeout", "rate_limited", "transient_server_error", "connection_error"}

MayRetry(failure, attempt) == Category(failure) \in RetryableCategories /\ attempt < MaxAttempts

\* Without a retry: for good, no attempt left, or the backoff does not fit the deadline.
CallFails ==
    /\ loop = "calling"
    /\ \E failure \in {400, 401, 408, 410, 429, 503} :
        \E retry \in {MayRetry(failure, Attempt), FALSE} :
            Commit([copy EXCEPT !.error = [attempt |-> Attempt, started |-> FALSE, retry |-> retry]],
                   IF retry THEN "attempt" ELSE "fail")
    /\ UNCHANGED <<stale, History, Environment>>

(***************************************************************************)
(* The answer is judged, and the verdict is saved with its consequence.    *)
(***************************************************************************)
Decide(verdict, attempt) ==
    IF verdict \in {"VERIFIED", "NOT_APPLICABLE"} THEN "COMPLETE"
    ELSE IF verdict = "NOT_VERIFIED" /\ attempt <= MaxCorrections THEN "CONTINUE" ELSE "FAIL"

Verdicts == IF row.contract THEN {"VERIFIED", "NOT_VERIFIED", "ERROR"} ELSE {"NOT_APPLICABLE"}

Judged == IF copy.contract THEN [copy EXCEPT !.attempts = @ + 1] ELSE copy

JudgeAnswer ==
    /\ loop = "judge"
    /\ \E verdict \in Verdicts :
        /\ CASE Decide(verdict, Judged.attempts) = "COMPLETE" ->
                    Commit([Judged EXCEPT !.status = "COMPLETED"], "down")
             [] Decide(verdict, Judged.attempts) = "CONTINUE" ->
                    Commit([Judged EXCEPT !.last = "user", !.corrections = @ + 1], "preflight")
             [] Decide(verdict, Judged.attempts) = "FAIL" ->
                    Commit([Judged EXCEPT !.status = "FAILED"], "down")
        /\ verified' = IF verdict = "VERIFIED" THEN copy.turn ELSE verified
    /\ UNCHANGED <<stale, retries, Environment>>

(***************************************************************************)
(* Crash, recovery, interrupt, resume.                                     *)
(***************************************************************************)
CrashLoop ==
    /\ loop # "down" /\ crashes < MaxCrashes
    /\ Goto("down") /\ stale' = FALSE
    /\ crashes' = crashes + 1 /\ UNCHANGED <<History, interrupts>>

RecoverRun ==
    /\ loop = "down" /\ row.status = "RUNNING"
    /\ copy' = row /\ loop' = "preflight" /\ stale' = FALSE
    /\ UNCHANGED <<row, History, Environment>>

InterruptRun ==
    /\ row.status = "RUNNING" /\ interrupts < MaxInterrupts
    /\ row' = [row EXCEPT !.status = "INTERRUPTED"]
    /\ stale' = (loop # "down") /\ interrupts' = interrupts + 1
    /\ UNCHANGED <<copy, loop, History, crashes>>

\* An explicit resume forgets the error, and with it the attempts.
ResumeRun ==
    /\ loop = "down" /\ row.status = "INTERRUPTED"
    /\ row' = [row EXCEPT !.status = "RUNNING", !.error = NoFailure]
    /\ copy' = row' /\ loop' = "preflight" /\ stale' = FALSE /\ retries' = 0
    /\ UNCHANGED <<verified, Environment>>

Execute ==
    \/ PreflightStep \/ RunTool \/ FailRun \/ ConsultError \/ SendFirst \/ SendRetry
    \/ CallSucceeds \/ CallFails \/ JudgeAnswer \/ RecoverRun

ReactNext == StartReact \/ Execute \/ CrashLoop \/ InterruptRun \/ ResumeRun

\* The process executes, and after a crash another one recovers the Run.
ReactFairness == WF_reactVars(Execute)

ReactSpec == ReactInit /\ [][ReactNext]_reactVars /\ ReactFairness

(***************************************************************************)
(* Properties.                                                             *)
(***************************************************************************)
(* Once a failed model call is on record, at most max_attempts - 1 further *)
(* calls are sent for that step however often the process crashes: the     *)
(* attempt is saved before it is sent and an interrupted last one is not   *)
(* sent again (_execute_llm_step).                                         *)
RetriesAreBounded == retries <= MaxAttempts - 1

(* A model call is only sent when the durable transcript ends in something *)
(* to answer: never while a tool call has no result, and never when a      *)
(* durable answer still awaits its verdict, also after a crash between the *)
(* answer and the verdict (_execute_react_step).                           *)
CallsHaveAQuestion ==
    [][loop # "calling" /\ loop' = "calling" =>
           copy'.open = 0 /\ copy'.last # "assistant"]_reactVars

(* A Run with a completion contract completes only on an answer that was   *)
(* verified, and on the last one it gave (_evaluate_completion).           *)
CompletedIsVerified ==
    row.status = "COMPLETED" /\ row.contract => verified = row.turn

(* The verifier sends the model back at most max_correction_attempts       *)
(* times, crashes or not.                                                  *)
CorrectionsAreBounded == row.corrections <= MaxCorrections

(* A Run that executes ends or is interrupted: retries, corrections and    *)
(* turns are all bounded and a crash does not reset the bounds.            *)
ReactEnds == row.status = "RUNNING" ~> row.status # "RUNNING"

\* Over any crashes and interrupts the loop keeps the bounds of its retries and
\* corrections, completes on a verified answer, asks only when there is something to
\* answer, and ends (the parts above).
ReactIsDurable ==
    /\ [](RetriesAreBounded /\ CompletedIsVerified /\ CorrectionsAreBounded)
    /\ CallsHaveAQuestion
    /\ ReactEnds
=============================================================================
