---------------------------- MODULE BudgetLedger ----------------------------
(***************************************************************************)
(* The budget ledger that a root Run and its Child Runs share              *)
(* (src/axiom/runtime/budget.py), and the executions that charge it        *)
(* (durable.py).  Every change is a compare-and-swap: BudgetManager._mutate*)
(* loads the ledger, changes its copy, and saves the copy if the version   *)
(* is still the one it loaded.  The two are separate steps, so that the    *)
(* executions of several Runs, of crashed Workers and of Workers that lost *)
(* their ownership interleave between them.                                *)
(*                                                                         *)
(* frame[r][g] is the execution of Run r under its g-th ownership.  Only   *)
(* the latest one can be authorised; earlier ones may still be running.    *)
(* tool_calls is charged like steps, by _consume_discrete under an         *)
(* identity that a restart issues again, and is not repeated here.         *)
(***************************************************************************)
EXTENDS Integers, FiniteSets, FiniteSetsExt

CONSTANTS Run,        \* the Runs of one tree
          Root,       \* the Run that owns the ledger, budget_owner_run_id
          Limit,      \* budget policy of each Run; the root's bounds the tree
          Estimate,   \* estimated input tokens of a model call, 0 for one of the planner
          Reports,    \* bound: token counts a provider may report
          MaxStep,    \* bound: durable steps of a Run
          MaxFence    \* bound: ownership generations of each Run

Discrete  == {"steps", "model_calls"}
Dimension == Discrete \cup {"tokens"}

ASSUME TreeAssumption == Root \in Run /\ IsFiniteSet(Run)

ASSUME LimitAssumption ==
    /\ Limit \in [Run -> [Dimension -> Nat]]
    /\ Estimate \in Nat
    /\ Reports \subseteq Nat
    /\ \E m \in Reports : m >= Estimate /\ \A n \in Reports : n <= m
    /\ MaxStep \in Nat /\ MaxFence \in [Run -> Nat]

VARIABLES ledger,      \* run_budget_ledgers: version and state_json
          step,        \* state.step_index of each Run
          outcome,     \* status of each Run, as far as the budget decides it
          issued,      \* model operations each Run has named
          generation,  \* ownership generations each Run has had
          live,        \* the latest ownership of the Run is still valid
          frame

vars == <<ledger, step, outcome, issued, generation, live, frame>>

(***************************************************************************)
(* Types.                                                                  *)
(***************************************************************************)
Generation(r) == 1 .. MaxFence[r]

Operation == [run : Run, kind : Discrete, no : Nat]

Ledger == [version : Nat,
           runs : SUBSET Run,
           used : [Run -> [Dimension -> Nat]],
           operations : SUBSET Operation,
           reserved : SUBSET Operation,
           hard : SUBSET Run]

NoLedger == [version |-> 0,
             runs |-> {},
             used |-> [r \in Run |-> [d \in Dimension |-> 0]],
             operations |-> {},
             reserved |-> {},
             hard |-> {}]

Mutating == {"register", "step", "reserve", "settle", "exceeded"}

\* copy is the ledger that _mutate loaded, at the step_index of the execution's
\* RunState, call the model operation underway.
Frame == [pc : Mutating \cup {"idle", "call", "checkpoint", "fail"},
          writing : BOOLEAN,
          copy : Ledger,
          at : 0 .. MaxStep,
          call : Nat,
          tokens : Reports \cup {0}]

Start(pc, at) ==
    [pc |-> pc, writing |-> FALSE, copy |-> NoLedger, at |-> at, call |-> 0, tokens |-> 0]

Idle == Start("idle", 0)

TypeOK ==
    /\ ledger \in Ledger
    /\ step \in [Run -> 0 .. MaxStep]
    /\ outcome \in [Run -> {"RUNNING", "FAILED"}]
    /\ issued \in [Run -> Nat]
    /\ generation \in [Run -> Nat]
    /\ live \in [Run -> BOOLEAN]
    /\ \A r \in Run : frame[r] \in [Generation(r) -> Frame]

(***************************************************************************)
(* Reading a ledger.                                                       *)
(***************************************************************************)
\* What the Runs of the ledger used of d, unit by unit: the sum over them is the number
\* of these pairs.
Units(l, d) == UNION {{r} \X (1 .. l.used[r][d]) : r \in l.runs}

Tree(l, d) == Cardinality(Units(l, d))

\* _usage with include_reservations: only tokens are reserved by estimate.
Held(l, d, R) ==
    IF d = "tokens" THEN Estimate * Cardinality({o \in l.reserved : o.run \in R}) ELSE 0

Usage(l, r, d) == l.used[r][d] + Held(l, d, {r})
TreeUsage(l, d) == Tree(l, d) + Held(l, d, l.runs)

\* An operation that is not known to use any finds nothing left when the limit is reached.
Exceeds(used, amount, limit) == IF amount = 0 THEN used >= limit ELSE used + amount > limit

FitsRunOnly(l, r, d, amount) ==      \* mutant: the tree limit is not checked
    ~Exceeds(Usage(l, r, d), amount, Limit[r][d])

\* _preflight
Fits(l, r, d, amount) ==
    /\ ~Exceeds(Usage(l, r, d), amount, Limit[r][d])
    /\ ~Exceeds(TreeUsage(l, d), amount, Limit[Root][d])

(***************************************************************************)
(* Mutations of a copy.                                                    *)
(***************************************************************************)
StepOp(r, f) == [run |-> r, kind |-> "steps", no |-> f.at]
CallOp(r, f) == [run |-> r, kind |-> "model_calls", no |-> f.call]

ChargeAgain(l, o) ==                 \* mutant: the operation identity is ignored
    [l EXCEPT !.used[o.run][o.kind] = @ + 1, !.operations = @ \cup {o}]

Charge(l, o) ==
    IF o \in l.operations THEN l
    ELSE [l EXCEPT !.used[o.run][o.kind] = @ + 1, !.operations = @ \cup {o}]

\* initialize registers the Run and, through its own start, the root did so before.
Register(l, r) == [l EXCEPT !.runs = @ \cup {r}]

Reserve(l, o) ==
    IF o \in l.operations THEN l
    ELSE [Charge(l, o) EXCEPT !.reserved = @ \cup {o}]

\* record_hard_limit
MarkHard(l, r) == [l EXCEPT !.hard = @ \cup {r}]

\* _first_violation
Overrun(l, r) ==
    \/ l.used[r]["tokens"] > Limit[r]["tokens"]
    \/ Tree(l, "tokens") > Limit[Root]["tokens"]

Reported(l, o, tokens) ==
    [l EXCEPT !.used[o.run]["tokens"] = @ + tokens, !.reserved = @ \ {o}]

\* complete_model_call: the reported usage replaces the reservation.
Settle(l, o, tokens) ==
    LET settled == Reported(l, o, tokens)
    IN IF o \notin l.reserved THEN l
       ELSE IF Overrun(settled, o.run) THEN MarkHard(settled, o.run)
       ELSE settled

\* The preflight of the mutation that f is about to make to copy l.
Refuses(l, r, f) ==
    \/ f.pc = "step" /\ StepOp(r, f) \notin l.operations /\ ~Fits(l, r, "steps", 1)
    \/ /\ f.pc = "reserve"
       /\ CallOp(r, f) \notin l.operations
       /\ ~Fits(l, r, "model_calls", 1) \/ ~Fits(l, r, "tokens", Estimate)

Mutated(l, r, f) ==
    CASE f.pc = "register" -> Register(l, r)
      [] f.pc = "step"     -> Charge(l, StepOp(r, f))
      [] f.pc = "reserve"  -> Reserve(l, CallOp(r, f))
      [] f.pc = "settle"   -> Settle(l, CallOp(r, f), f.tokens)
      [] f.pc = "exceeded" -> MarkHard(l, r)

After(r, f) ==
    CASE f.pc = "register" -> "step"
      [] f.pc = "step"     -> "reserve"
      [] f.pc = "reserve"  -> "call"
      [] f.pc = "settle"   -> IF Overrun(Mutated(f.copy, r, f), r) THEN "exceeded" ELSE "checkpoint"
      [] f.pc = "exceeded" -> "fail"

(***************************************************************************)
(* BudgetManager._mutate.                                                  *)
(***************************************************************************)
Init ==
    /\ ledger = NoLedger
    /\ step = [r \in Run |-> 0]
    /\ outcome = [r \in Run |-> "RUNNING"]
    /\ issued = [r \in Run |-> 0]
    /\ generation = [r \in Run |-> 0]
    /\ live = [r \in Run |-> FALSE]
    /\ frame = [r \in Run |-> [g \in Generation(r) |-> Idle]]

Authorised(r, g) == live[r] /\ generation[r] = g

Goto(r, g, f) == frame' = [frame EXCEPT ![r][g] = f]

\* load_budget_ledger and the preflight; a refusal raises BudgetExceededError.
LoadLedger(r, g) ==
    LET f == frame[r][g]
    IN /\ f.pc \in Mutating
       /\ ~f.writing
       /\ f.pc = "reserve" => f.call # 0
       /\ IF Refuses(ledger, r, f)
          THEN Goto(r, g, [f EXCEPT !.pc = "exceeded"])
          ELSE Goto(r, g, [f EXCEPT !.writing = TRUE, !.copy = ledger])
       /\ UNCHANGED <<ledger, step, outcome, issued, generation, live>>

AnyCopy(l) == TRUE                   \* mutant: the last writer wins

Current(l) == l.version = ledger.version

\* save_budget_ledger: fenced, then conditional on the version; a conflict
\* starts over.
SaveLedger(r, g) ==
    LET f == frame[r][g]
    IN /\ f.pc \in Mutating
       /\ f.writing
       /\ Authorised(r, g)
       /\ IF Current(f.copy)
          THEN /\ ledger' = [Mutated(f.copy, r, f) EXCEPT !.version = @ + 1]
               /\ Goto(r, g, [f EXCEPT !.pc = After(r, f), !.writing = FALSE, !.copy = NoLedger])
          ELSE /\ UNCHANGED ledger
               /\ Goto(r, g, [f EXCEPT !.writing = FALSE, !.copy = NoLedger])
       /\ UNCHANGED <<step, outcome, issued, generation, live>>

\* OwnershipLost ends the execution at its next fenced write.
Stop(r, g) ==
    LET f == frame[r][g]
    IN /\ f.writing \/ f.pc \in {"checkpoint", "fail"}
       /\ ~Authorised(r, g)
       /\ Goto(r, g, Idle)
       /\ UNCHANGED <<ledger, step, outcome, issued, generation, live>>

(***************************************************************************)
(* The execution between its ledger operations.                            *)
(***************************************************************************)
\* The step is charged: name the model operation (a fresh span id).
NameCall(r, g) ==
    LET f == frame[r][g]
    IN /\ f.pc = "reserve"
       /\ ~f.writing
       /\ f.call = 0
       /\ issued' = [issued EXCEPT ![r] = @ + 1]
       /\ Goto(r, g, [f EXCEPT !.call = issued[r] + 1])
       /\ UNCHANGED <<ledger, step, outcome, generation, live>>

\* The provider answers, or the request fails without usage.
ModelCall(r, g) ==
    LET f == frame[r][g]
    IN /\ f.pc = "call"
       /\ \E n \in Reports : Goto(r, g, [f EXCEPT !.pc = "settle", !.tokens = n])
       /\ UNCHANGED <<ledger, step, outcome, issued, generation, live>>

\* "llm.completed": the step is durable and the next one begins.
Checkpoint(r, g) ==
    LET f == frame[r][g]
    IN /\ f.pc = "checkpoint"
       /\ Authorised(r, g)
       /\ f.at < MaxStep
       /\ step' = [step EXCEPT ![r] = f.at + 1]
       /\ Goto(r, g, Start("step", f.at + 1))
       /\ UNCHANGED <<ledger, outcome, issued, generation, live>>

\* A failed request with retry allowance left makes another call.
RetryCall(r, g) ==
    LET f == frame[r][g]
    IN /\ f.pc = "checkpoint"
       /\ f.tokens = 0
       /\ Authorised(r, g)
       /\ Goto(r, g, Start("reserve", f.at))
       /\ UNCHANGED <<ledger, step, outcome, issued, generation, live>>

\* _fail: the Run ends with the budget error.
Fail(r, g) ==
    /\ frame[r][g].pc = "fail"
    /\ Authorised(r, g)
    /\ outcome' = [outcome EXCEPT ![r] = "FAILED"]
    /\ live' = [live EXCEPT ![r] = FALSE]
    /\ Goto(r, g, Idle)
    /\ UNCHANGED <<ledger, step, issued, generation>>

(***************************************************************************)
(* Ownership.                                                              *)
(***************************************************************************)
Claim(r) ==
    /\ outcome[r] = "RUNNING"
    /\ ~live[r]
    /\ generation[r] < MaxFence[r]
    /\ r = Root \/ Root \in ledger.runs
    /\ generation' = [generation EXCEPT ![r] = @ + 1]
    /\ live' = [live EXCEPT ![r] = TRUE]
    /\ Goto(r, generation[r] + 1, Start("register", step[r]))
    /\ UNCHANGED <<ledger, step, outcome, issued>>

\* The lease is lost.  The execution goes on until a fenced write refuses it; if
\* its process crashed it takes no further step.
Lose(r) ==
    /\ live[r]
    /\ live' = [live EXCEPT ![r] = FALSE]
    /\ UNCHANGED <<ledger, step, outcome, issued, generation, frame>>

Next ==
    \E r \in Run :
        \/ Claim(r)
        \/ Lose(r)
        \/ \E g \in Generation(r) :
            \/ LoadLedger(r, g)
            \/ SaveLedger(r, g)
            \/ Stop(r, g)
            \/ NameCall(r, g)
            \/ ModelCall(r, g)
            \/ Checkpoint(r, g)
            \/ RetryCall(r, g)
            \/ Fail(r, g)

Spec == Init /\ [][Next]_vars

(***************************************************************************)
(* Properties.                                                             *)
(***************************************************************************)
Charges(r, d) == {o \in ledger.operations : o.run = r /\ o.kind = d}

\* A Run stays within its own limits of steps and model calls, whatever its
\* earlier executions, its restarts and its siblings charge (_preflight, _mutate).
RunLimitsHold == \A r \in Run, d \in Discrete : ledger.used[r][d] <= Limit[r][d]

\* "CAS updates plus a process-local lock prevent concurrent children from both
\* reserving the same final call/token/cost allowance": the whole tree stays within
\* the root's limits (docs/architecture-current.md).
TreeLimitsHold == \A d \in Discrete : Tree(ledger, d) <= Limit[Root][d]

\* Every operation is counted once: not lost by a concurrent save, and not
\* counted again by the restart that issues it again (_consume_discrete).
EachOperationCountsOnce ==
    \A r \in Run, d \in Discrete : ledger.used[r][d] = Cardinality(Charges(r, d))

\* Work is paid for before it is done, and stays paid for: each durable step of a
\* Run, and each model call underway, is in the ledger.
WorkIsPaid ==
    \A r \in Run :
        /\ \A n \in 0 .. step[r] - 1 : [run |-> r, kind |-> "steps", no |-> n] \in ledger.operations
        /\ \A g \in Generation(r) :
              frame[r][g].pc = "call" => CallOp(r, frame[r][g]) \in ledger.operations

ReservedTokens(R) == Estimate * Cardinality({o \in ledger.reserved : o.run \in R})

\* Token limits are overrun only by what the calls underway, one per Run, report
\* beyond their estimates: a call that was reserved fitted beside every reservation
\* before it, those that a crash left behind included (reserve_model_call,
\* complete_model_call).
OverrunIsBounded ==
    LET beyond == Max(Reports) - Estimate
    IN /\ \A r \in Run :
             ledger.used[r]["tokens"] + ReservedTokens({r}) <= Limit[r]["tokens"] + beyond
       /\ Tree(ledger, "tokens") + ReservedTokens(Run)
             <= Limit[Root]["tokens"] + Cardinality(Run) * beyond

\* A Run that ended for its budget says so in the ledger (_fail, record_hard_limit).
FailureIsRecorded == \A r \in Run : outcome[r] = "FAILED" => r \in ledger.hard

\* The compare-and-swap ledger is the atomic budget that the rest of the Runtime
\* relies on.
Atomic == INSTANCE AtomicBudget WITH charged <- ledger.operations

AtomicBudgetSpec == Atomic!Spec

\* No interleaving of executions, retries and siblings takes more than the limits allow:
\* not a Run, not its tree, and tokens only by what the calls underway report (_preflight,
\* _mutate).
LimitsHold ==
    /\ RunLimitsHold
    /\ TreeLimitsHold
    /\ OverrunIsBounded

\* The ledger tells what was done: each operation once, all work that was begun and each
\* hard limit that was met (_consume_discrete, record_hard_limit).
LedgerIsExact ==
    /\ TypeOK
    /\ EachOperationCountsOnce
    /\ WorkIsPaid
    /\ FailureIsRecorded
=============================================================================
