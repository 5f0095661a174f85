---------------------------- MODULE ToolExecution ---------------------------
(***************************************************************************)
(* The durable execution of the tool calls that one model answer asks for  *)
(* (DurableAgentRuntime._execute_pending_tool, src/axiom/runtime/          *)
(* durable.py): the ToolExecution record that survives a crash, the        *)
(* retries, the permission policy and the approvals of a person, and the   *)
(* checkpoint that gives the result to the model.                          *)
(*                                                                         *)
(* frame[g] is the execution of the Run under its g-th ownership: its copy *)
(* of the RunState and of the record.  Writes of the record and of the     *)
(* checkpoint are fenced by the ownership (RunStore, DistributedWorker);   *)
(* running the tool is not, and an execution learns that it lost the Run   *)
(* only at its next fenced write.                                          *)
(***************************************************************************)
EXTENDS Integers, FiniteSets

CONSTANTS Calls,        \* number of pending_tool_calls
          Unsafe,       \* calls that are neither read-only nor idempotent
          Policy,       \* what the permission policy says of each call
          MaxAttempts,  \* retry_policy.max_attempts
          MaxFence,     \* bound: ownership generations
          MaxControls   \* bound: answers, interrupts, resumes and cancels

Call       == 1 .. Calls
Generation == 1 .. MaxFence

ASSUME CallAssumption ==
    /\ Calls \in Nat
    /\ Unsafe \subseteq Call
    /\ Policy \in [Call -> {"ALLOW", "REQUIRE_APPROVAL", "DENY"}]

ASSUME BoundAssumption ==
    /\ MaxAttempts \in Nat \ {0}
    /\ MaxFence \in Nat /\ MaxControls \in Nat

VARIABLES status,      \* runs.status
          sequence,    \* runs.current_sequence
          next,        \* state.next_tool_index, from 1
          decision,    \* state.decisions
          record,      \* tool_executions
          charged,     \* attempts of each call charged to the budget ledger
          generation, live,
          frame,
          controls,
          runs,        \* history: times the code of each tool ran
          approvals,   \* history: times a person approved each call
          told         \* history: what the model was told of each call

durableVars == <<status, sequence, next, decision, record, charged>>
ownerVars   == <<generation, live>>
historyVars == <<runs, approvals, told>>
vars        == <<durableVars, ownerVars, frame, controls, historyVars>>

(***************************************************************************)
(* Types.                                                                  *)
(***************************************************************************)
Record == [status : {"ABSENT", "PENDING", "RUNNING", "SUCCEEDED", "FAILED", "UNKNOWN"},
           attempt : Nat,
           retry : {"NONE", "PENDING", "SUPPRESSED", "EXHAUSTED"}]

NoRecord == [status |-> "ABSENT", attempt |-> 0, retry |-> "NONE"]

Decision == {"none", "approve", "reject"}

\* at is next_tool_index, answer the decision on that call, base the sequence of
\* the copy; rec is the ToolExecutionRecord object.
Frame == [pc : {"idle", "preflight", "lookup", "permission", "create", "backoff", "charge",
                "start", "execute", "cancelled", "record", "deny", "exhaust", "apply",
                "reuse", "park", "fail"},
          base : Nat, at : Nat, answer : Decision, rec : Record]

Idle == [pc |-> "idle", base |-> 0, at |-> 0, answer |-> "none", rec |-> NoRecord]

TypeOK ==
    /\ status \in {"RUNNING", "WAITING_APPROVAL", "INTERRUPTED", "FAILED", "CANCELLED"}
    /\ sequence \in Nat
    /\ next \in 1 .. Calls + 1
    /\ decision \in [Call -> Decision]
    /\ record \in [Call -> Record]
    /\ charged \in [Call -> SUBSET Nat]
    /\ generation \in 0 .. MaxFence
    /\ live \in BOOLEAN
    /\ frame \in [Generation -> Frame]
    /\ controls \in 0 .. MaxControls
    /\ runs \in [Call -> Nat]
    /\ approvals \in [Call -> 0 .. MaxControls]
    /\ told \in [Call -> {"nothing", "result", "error"}]

Init ==
    /\ status = "RUNNING"
    /\ sequence = 1
    /\ next = 1
    /\ decision = [c \in Call |-> "none"]
    /\ record = [c \in Call |-> NoRecord]
    /\ charged = [c \in Call |-> {}]
    /\ generation = 0
    /\ live = FALSE
    /\ frame = [g \in Generation |-> Idle]
    /\ controls = 0
    /\ runs = [c \in Call |-> 0]
    /\ approvals = [c \in Call |-> 0]
    /\ told = [c \in Call |-> "nothing"]

(***************************************************************************)
(* Plumbing.                                                               *)
(***************************************************************************)
AnyToken(g) == live /\ status = "RUNNING"     \* mutant: the fencing token is not compared

Authorised(g) == live /\ generation = g /\ status = "RUNNING"

At(g, pc) == frame[g].pc = pc
Rec(g)    == frame[g].rec

Goto(g, f) == frame' = [frame EXCEPT ![g] = f]
To(g, pc)  == Goto(g, [frame[g] EXCEPT !.pc = pc])

\* A local step of the execution.
Move(g, f) == Goto(g, f) /\ UNCHANGED <<durableVars, ownerVars, controls, historyVars>>

\* _save_tool_execution, after which the execution stands at pc.
SaveRecord(g, rec, pc) ==
    /\ Authorised(g)
    /\ record' = [record EXCEPT ![frame[g].at] = rec]
    /\ Goto(g, [frame[g] EXCEPT !.pc = pc, !.rec = rec])
    /\ UNCHANGED <<status, sequence, next, decision, charged, ownerVars, controls, historyVars>>

\* _save_checkpoint with a new status: fenced, then conditional on the sequence.
Checkpoint(g, new) ==
    /\ Authorised(g)
    /\ sequence = frame[g].base
    /\ status' = new
    /\ sequence' = sequence + 1

Writing == {"create", "backoff", "charge", "start", "cancelled", "record", "deny", "exhaust",
            "apply", "reuse", "park", "fail"}

\* OwnershipLost or a checkpoint conflict ends the execution.
Stop(g) ==
    /\ frame[g].pc \in Writing \cup {"preflight"}
    /\ \/ ~Authorised(g)
       \/ frame[g].pc \in {"apply", "reuse", "park", "fail"} /\ sequence # frame[g].base
    /\ Move(g, Idle)

(***************************************************************************)
(* Rules.                                                                  *)
(***************************************************************************)
\* An existing record whose outcome is known, or is given up.
Concluded(rec) ==
    /\ rec.status \in {"FAILED", "UNKNOWN"}
    /\ rec.retry \in {"SUPPRESSED", "EXHAUSTED"} \/ rec.attempt >= MaxAttempts

UnaskedAmbiguous(c, rec, answer) == FALSE    \* mutant: recovery never asks

\* The tool may have run and may not run again unasked.
Ambiguous(c, rec, answer) == rec.status = "RUNNING" /\ c \in Unsafe /\ answer # "approve"

AnyAnswerAllows(c, answer) ==        \* mutant: every answer is taken for an approval
    IF answer # "none" /\ Policy[c] # "DENY" THEN "ALLOW" ELSE Policy[c]

\* _permission_decision
Permission(c, answer) ==
    CASE answer = "reject" -> "DENY"
      [] answer = "approve" /\ Policy[c] # "DENY" -> "ALLOW"
      [] OTHER -> Policy[c]

OneIdentity(rec) == 1                \* mutant: every attempt has the same identity

\* The number in the identity "tool:<invocation>:attempt:<n>".
NextAttempt(rec) == rec.attempt + 1

\* RetryPolicy.decide after a failure; the last two outcomes are those of a failure
\* that is not transient, or whose backoff misses the Run's deadline.
AfterFailure(c, attempt) ==
    {[status |-> "FAILED", attempt |-> attempt, retry |-> "SUPPRESSED"]}
    \cup (IF c \in Unsafe
          THEN {[status |-> "UNKNOWN", attempt |-> attempt, retry |-> "SUPPRESSED"]}
          ELSE IF attempt >= MaxAttempts
          THEN IF MaxAttempts > 1
               THEN {[status |-> "FAILED", attempt |-> attempt, retry |-> "EXHAUSTED"]}
               ELSE {}
          ELSE {[status |-> "FAILED", attempt |-> attempt, retry |-> "PENDING"]})

Succeeded(rec) == [rec EXCEPT !.status = "SUCCEEDED", !.retry = "NONE"]

Denied(rec) == [rec EXCEPT !.status = "FAILED"]

Cancelled(c, rec) ==
    [rec EXCEPT !.status = IF c \in Unsafe THEN "UNKNOWN" ELSE "FAILED", !.retry = "SUPPRESSED"]

(***************************************************************************)
(* Ownership.                                                              *)
(***************************************************************************)
\* A Worker claims the Run and resumes it (DistributedWorker).
Claim ==
    /\ status = "RUNNING"
    /\ ~live
    /\ next <= Calls
    /\ generation < MaxFence
    /\ generation' = generation + 1
    /\ live' = TRUE
    /\ sequence' = sequence + 1
    /\ Goto(generation + 1, [Idle EXCEPT !.pc = "preflight"])
    /\ UNCHANGED <<status, next, decision, record, charged, controls, historyVars>>

\* The lease expires, or the Worker that returned releases it.  A crashed Worker
\* takes no further step.
Lose ==
    /\ live
    /\ live' = FALSE
    /\ UNCHANGED <<durableVars, generation, frame, controls, historyVars>>

(***************************************************************************)
(* The tool step.                                                          *)
(***************************************************************************)
\* _preflight_step reads the RunState; the step ends when no call is left.
Preflight(g) ==
    /\ At(g, "preflight")
    /\ Authorised(g)
    /\ Move(g, IF next > Calls THEN Idle
               ELSE [pc |-> "lookup", base |-> sequence, at |-> next,
                     answer |-> decision[next], rec |-> NoRecord])

\* load_tool_execution and what it implies, before any permission is asked.
Lookup(g) ==
    /\ At(g, "lookup")
    /\ LET c == frame[g].at
           rec == record[c]
           f == [frame[g] EXCEPT !.rec = rec]
       IN Move(g, [f EXCEPT !.pc =
              CASE rec.status = "SUCCEEDED" \/ Concluded(rec) -> "reuse"
                [] rec.status = "RUNNING" /\ rec.attempt >= MaxAttempts -> "exhaust"
                [] rec.status = "RUNNING" /\ rec.attempt < MaxAttempts
                      /\ Ambiguous(c, rec, f.answer) -> "park"
                [] OTHER -> "permission"])

Exhausted(g) ==
    /\ At(g, "exhaust")
    /\ SaveRecord(g, [Rec(g) EXCEPT !.status = "FAILED", !.retry = "EXHAUSTED"], "reuse")

Permit(g) ==
    /\ At(g, "permission")
    /\ LET permission == Permission(frame[g].at, frame[g].answer)
       IN Move(g, [frame[g] EXCEPT !.pc =
              CASE permission = "REQUIRE_APPROVAL" -> "park"
                [] permission = "DENY" -> "deny"
                [] permission = "ALLOW" ->
                      IF Rec(g).status = "ABSENT" THEN "create"
                      ELSE IF Rec(g).retry = "PENDING" THEN "backoff"
                      ELSE "charge"])

Deny(g) ==
    /\ At(g, "deny")
    /\ SaveRecord(g, Denied(Rec(g)), "apply")

Create(g) ==
    /\ At(g, "create")
    /\ SaveRecord(g, [Rec(g) EXCEPT !.status = "PENDING"], "charge")

\* The wait before a retry, or the deadline that it would miss.
Backoff(g) ==
    /\ At(g, "backoff")
    /\ \/ SaveRecord(g, [Rec(g) EXCEPT !.retry = "NONE"], "charge")
       \/ SaveRecord(g, [Rec(g) EXCEPT !.retry = "SUPPRESSED"], "apply")

\* consume_tool_call of the next attempt.  Other Runs of the tree may have used up
\* the budget, unless this attempt was charged before.
ChargeCall(g) ==
    /\ At(g, "charge")
    /\ Authorised(g)
    /\ LET c == frame[g].at
           n == NextAttempt(Rec(g))
       IN \/ /\ charged' = [charged EXCEPT ![c] = @ \cup {n}]
             /\ To(g, "start")
          \/ /\ n \notin charged[c]
             /\ UNCHANGED charged
             /\ To(g, "fail")
    /\ UNCHANGED <<status, sequence, next, decision, record, ownerVars, controls, historyVars>>

StartCall(g) ==
    /\ At(g, "start")
    /\ SaveRecord(g, [Rec(g) EXCEPT !.attempt = @ + 1, !.status = "RUNNING"], "execute")

\* ToolExecutor.execute_one: the tool runs and succeeds or fails, or a shutdown or
\* a lost heartbeat cancels it.  No fence protects what the tool does.
Execute(g) ==
    /\ At(g, "execute")
    /\ LET c == frame[g].at
       IN /\ \/ \E rec \in AfterFailure(c, Rec(g).attempt) \cup {Succeeded(Rec(g))} :
                    Goto(g, [frame[g] EXCEPT !.pc = "record", !.rec = rec])
             \/ To(g, "cancelled")
          /\ runs' = [runs EXCEPT ![c] = @ + 1]
    /\ UNCHANGED <<durableVars, ownerVars, controls, approvals, told>>

\* The CancelledError handler, after which run_once releases the Run.
SaveCancelled(g) ==
    /\ At(g, "cancelled")
    /\ Authorised(g)
    /\ record' = [record EXCEPT ![frame[g].at] = Cancelled(frame[g].at, Rec(g))]
    /\ live' = FALSE
    /\ Goto(g, Idle)
    /\ UNCHANGED <<status, sequence, next, decision, charged, generation, controls, historyVars>>

SaveOutcome(g) ==
    /\ At(g, "record")
    /\ SaveRecord(g, Rec(g), IF Rec(g).retry = "PENDING" THEN "backoff" ELSE "apply")

\* _apply_tool_result: the result enters the transcript, the approval is used up.
\* A new result that repeats itself without progress fails the Run.
Apply(g) ==
    LET c == frame[g].at
    IN /\ \/ frame[g].pc \in {"apply", "reuse"} /\ Checkpoint(g, "RUNNING")
          \/ At(g, "apply") /\ Checkpoint(g, "FAILED")
       /\ next' = c + 1
       /\ decision' = [decision EXCEPT ![c] = "none"]
       /\ told' = [told EXCEPT ![c] = IF Rec(g).status = "SUCCEEDED" THEN "result" ELSE "error"]
       /\ Goto(g, [Idle EXCEPT !.pc = "preflight"])
       /\ UNCHANGED <<record, charged, ownerVars, controls, runs, approvals>>

\* _wait_for_approval; the Worker then releases the Run.
Park(g) ==
    /\ At(g, "park")
    /\ Checkpoint(g, "WAITING_APPROVAL")
    /\ live' = FALSE
    /\ Goto(g, Idle)
    /\ UNCHANGED <<next, decision, record, charged, generation, controls, historyVars>>

\* _fail with BudgetExceededError.
Fail(g) ==
    /\ At(g, "fail")
    /\ Checkpoint(g, "FAILED")
    /\ live' = FALSE
    /\ Goto(g, Idle)
    /\ UNCHANGED <<next, decision, record, charged, generation, controls, historyVars>>

(***************************************************************************)
(* Control operations of the API process.                                  *)
(***************************************************************************)
ControlSave(new) == status' = new /\ sequence' = sequence + 1

\* queue_resume of a Run that waits for approval.
Answer(d) ==
    /\ status = "WAITING_APPROVAL"
    /\ ControlSave("RUNNING")
    /\ decision' = [decision EXCEPT ![next] = d]
    /\ approvals' = [approvals EXCEPT ![next] = IF d = "approve" THEN @ + 1 ELSE @]
    /\ UNCHANGED <<next, record, charged, ownerVars, frame, runs, told>>

Interrupt ==
    /\ status = "RUNNING"
    /\ ControlSave("INTERRUPTED")
    /\ UNCHANGED <<next, decision, record, charged, ownerVars, frame, historyVars>>

Resume ==
    /\ status = "INTERRUPTED"
    /\ ControlSave("RUNNING")
    /\ UNCHANGED <<next, decision, record, charged, ownerVars, frame, historyVars>>

Cancel ==
    /\ status \in {"RUNNING", "WAITING_APPROVAL", "INTERRUPTED"}
    /\ ControlSave("CANCELLED")
    /\ UNCHANGED <<next, decision, record, charged, ownerVars, frame, historyVars>>

Control ==
    /\ controls < MaxControls
    /\ Answer("approve") \/ Answer("reject") \/ Interrupt \/ Resume \/ Cancel
    /\ controls' = controls + 1

ToolStep(g) ==
    \/ Preflight(g) \/ Lookup(g) \/ Exhausted(g) \/ Permit(g) \/ Deny(g) \/ Create(g)
    \/ Backoff(g) \/ ChargeCall(g) \/ StartCall(g) \/ Execute(g) \/ SaveCancelled(g)
    \/ SaveOutcome(g) \/ Apply(g) \/ Park(g) \/ Fail(g) \/ Stop(g)

Next ==
    \/ Claim
    \/ Lose
    \/ Control
    \/ \E g \in Generation : ToolStep(g)

Spec == Init /\ [][Next]_vars

(***************************************************************************)
(* Properties.                                                             *)
(***************************************************************************)

\* No crash, restart, takeover or approval makes a tool run more often than
\* max_attempts allows (RetryPolicy, the record's attempt).
AttemptsBounded == \A c \in Call : runs[c] <= MaxAttempts

\* "Each real model/Tool attempt consumes the normal model-call/Tool-call ledger
\* unit" (docs/architecture-current.md): no run of a tool is unpaid.
EveryRunIsPaid == \A c \in Call : runs[c] <= Cardinality(charged[c])

\* A persisted success is final, and the model is told exactly what is persisted:
\* no stale execution rewrites the record of a call whose result was applied.
TranscriptMatchesRecord ==
    \A c \in Call :
        /\ c < next <=> told[c] # "nothing"
        /\ told[c] = "result" => record[c].status = "SUCCEEDED"
        /\ told[c] = "error" => record[c].status \in {"FAILED", "UNKNOWN"}

SuccessIsFinal ==
    [][\A c \in Call : record[c].status = "SUCCEEDED" => record'[c] = record[c]]_vars

\* A tool that is unsafe to repeat runs at most once when nobody was asked, and not
\* at all when the policy wants an approval: no recovery repeats it on its own
\* (_execute_pending_tool_inner).
UnsafeRunsOnceUnasked ==
    \A c \in Unsafe : approvals[c] = 0 => runs[c] <= IF Policy[c] = "ALLOW" THEN 1 ELSE 0

\* A call that was rejected is not started, by whatever execution resumes the Run
\* (_permission_decision).
RejectedIsNotStarted ==
    [][\A c \in Call :
          decision[c] = "reject" => record'[c].attempt = record[c].attempt]_vars

\* "For a non-read-only tool without tool-provided idempotency, it interrupts with
\* ambiguous_tool_execution and requires an explicit recovery decision"
\* (docs/durable-execution.md): every run of an unsafe tool, after one that the
\* policy allowed unasked, has an approval of its own.
RepeatNeedsDecision ==
    \A c \in Unsafe : runs[c] <= approvals[c] + IF Policy[c] = "ALLOW" THEN 1 ELSE 0

\* Records, histories and charges keep their types, and every run of a tool, of whatever
\* execution, is one of the allowed attempts and was paid (the three parts above).
AttemptsAreAccounted ==
    /\ TypeOK
    /\ AttemptsBounded
    /\ EveryRunIsPaid
=============================================================================
