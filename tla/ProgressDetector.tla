-------------------------- MODULE ProgressDetector --------------------------
(***************************************************************************)
(* The no-progress detector of a Run (runtime/progress.py) as the durable  *)
(* Runtime uses it (runtime/durable.py, observe_progress): every operation *)
(* that ended is observed once, in the memory of the process, and saved    *)
(* with the checkpoint of its result.  After a crash in between, a plan or *)
(* Worker operation is observed again, and the result of a tool is taken   *)
(* from its record without being observed.  The kind of detector that      *)
(* fired and the history of errors are only reported and are left out.     *)
(***************************************************************************)
EXTENDS Integers, Sequences

CONSTANTS MaxIdentical, MaxErrors, MaxCycle, MaxStagnant, MaxRecovery, HistoryLimit, \* ProgressPolicy
          Action, Evidence,     \* fingerprints of calls and of successful results
          BatchSize,            \* bound: tool calls of one answer
          Crashes               \* bound: crashes of the process

\* The ranges ProgressPolicy.__post_init__ enforces.
ASSUME PolicyAssumption ==
    /\ {MaxIdentical, MaxErrors, MaxCycle, MaxStagnant} \subseteq 2 .. 100 /\ MaxRecovery \in 0 .. 10
    /\ HistoryLimit \in 8 .. 256
    /\ \A needed \in {MaxIdentical, MaxErrors, MaxStagnant, 4 * MaxCycle} : needed <= HistoryLimit

VARIABLES saved,     \* the detector state of the checkpoint
          working,   \* the one of the process
          current,   \* operations saved so far, and whether the next one is observed, not saved
          batch,     \* tool calls of the last answer that are left
          idle,      \* history: operations saved since the last new evidence
          lost       \* crashes so far

progressVars == <<saved, working, current, batch, idle, lost>>

Fresh == [actions |-> <<>>, evidence |-> <<>>, processed |-> <<>>, repeats |-> 0, errors |-> 0,
          lastAction |-> "none", lastError |-> "none", stagnant |-> 0, recoveries |-> 0,
          signal |-> FALSE, terminated |-> FALSE]

ProgressInit ==
    /\ saved = Fresh /\ working = Fresh
    /\ current = [done |-> 0, observed |-> FALSE, new |-> FALSE]
    /\ batch = 0 /\ idle = 0 /\ lost = 0

InSeq(x, seq) == \E i \in 1 .. Len(seq) : seq[i] = x

\* _append_bounded
Bounded(seq, x) ==
    LET longer == Append(seq, x) IN
    IF Len(longer) > HistoryLimit THEN SubSeq(longer, Len(longer) - HistoryLimit + 1, Len(longer)) ELSE longer

\* _detect_cycle: the last MaxCycle stretches of some length 2 .. 4 are the same.
HasCycle(actions) ==
    \E length \in 2 .. 4 :
        LET first == Len(actions) - length * MaxCycle + 1 IN
        /\ first >= 1
        /\ \A i \in first .. Len(actions) - length : actions[i] = actions[i + length]

(***************************************************************************)
(* observe                                                                 *)
(***************************************************************************)
Observation == {o \in [action : Action, error : {"none", "error"}, evidence : Evidence \cup {"none"}] :
                    o.error = "none" \/ o.evidence = "none"}

IsNew(d, o) == o.evidence # "none" /\ ~InSeq(o.evidence, d.evidence)

Count(d, o) ==
    [d EXCEPT !.repeats = IF d.lastAction = o.action /\ ~IsNew(d, o) THEN @ + 1 ELSE 1,
              !.errors = IF o.error = "none" THEN 0
                         ELSE IF d.lastError = o.error /\ ~IsNew(d, o) THEN @ + 1 ELSE 1]

Entered(d, o) ==
    LET counted == Count(d, o)
        base == IF IsNew(d, o)
                THEN [counted EXCEPT !.evidence = Bounded(@, o.evidence), !.stagnant = 0,
                                     !.recoveries = 0, !.signal = FALSE, !.actions = <<>>]
                ELSE [counted EXCEPT !.stagnant = @ + 1]
    IN [base EXCEPT !.lastAction = o.action, !.lastError = o.error, !.actions = Bounded(@, o.action)]

Detects(d) == \/ d.errors >= MaxErrors \/ d.repeats >= MaxIdentical
              \/ HasCycle(d.actions)   \/ d.stagnant >= MaxStagnant

\* A detection opens the window anew, as often as the policy allows between two evidences.
Recover(d) ==
    IF d.recoveries < MaxRecovery
    THEN [d EXCEPT !.actions = <<>>, !.repeats = 0, !.errors = 0, !.stagnant = 0,
                   !.lastAction = "none", !.lastError = "none", !.signal = TRUE,
                   !.recoveries = @ + 1]
    ELSE [d EXCEPT !.signal = FALSE, !.terminated = TRUE]

NeverProcessed(d, op) == FALSE   \* mutant: an operation is counted each time it is seen

Processed(d, op) == InSeq(op, d.processed)

Observe(d, op, o) ==
    LET seen == [Entered(d, o) EXCEPT !.processed = Bounded(@, op)] IN
    IF Processed(d, op) THEN d
    ELSE IF Detects(seen) THEN Recover(seen) ELSE seen

(***************************************************************************)
(* The process.                                                            *)
(***************************************************************************)
Active == ~saved.terminated

\* A model call: it sees a pending signal, which is then delivered.
AskModel ==
    /\ Active /\ batch = 0 /\ ~current.observed
    /\ batch' \in 1 .. BatchSize
    /\ working' = [working EXCEPT !.signal = FALSE] /\ saved' = working'
    /\ UNCHANGED <<current, idle, lost>>

ObserveOperation ==
    /\ Active /\ batch > 0 /\ ~current.observed
    /\ \E o \in Observation :
        /\ working' = Observe(working, current.done + 1, o)
        /\ current' = [current EXCEPT !.observed = TRUE, !.new = IsNew(working, o)]
    /\ UNCHANGED <<saved, batch, idle, lost>>

\* A reconciliation that lost its save to another one sees the operation that one saved.
ObserveAgain ==
    /\ Active /\ batch > 0 /\ ~current.observed /\ saved.processed # <<>>
    /\ \E o \in Observation : working' = Observe(saved, saved.processed[Len(saved.processed)], o)
    /\ saved' = working'
    /\ UNCHANGED <<current, batch, idle, lost>>

SaveObservation ==
    /\ current.observed
    /\ saved' = working
    /\ idle' = IF current.new THEN 0 ELSE idle + 1
    /\ current' = [done |-> current.done + 1, observed |-> FALSE, new |-> FALSE]
    /\ batch' = batch - 1
    /\ UNCHANGED <<working, lost>>

\* Either the operation is observed again, or it counts as done without.
LoseObservation ==
    /\ current.observed /\ lost < Crashes
    /\ working' = saved /\ lost' = lost + 1
    /\ \E skipped \in {0, 1} :
        /\ current' = [done |-> current.done + skipped, observed |-> FALSE, new |-> FALSE]
        /\ batch' = batch - skipped
    /\ UNCHANGED <<saved, idle>>

ProgressNext == AskModel \/ ObserveOperation \/ ObserveAgain \/ SaveObservation \/ LoseObservation

ProgressSpec == ProgressInit /\ [][ProgressNext]_progressVars

(***************************************************************************)
(* Properties.                                                             *)
(***************************************************************************)
(* Without new evidence a Run is stopped after a bounded number of         *)
(* operations, whatever mixture of detectors fires and recoveries restart  *)
(* their windows: at most max_stagnant_steps per window.                   *)
IdleIsBounded == idle <= MaxStagnant * (MaxRecovery + 1)

(* Operations are not counted twice, neither when one is observed again    *)
(* after a crash or a lost save nor when its observation had been saved.   *)
StagnationIsReal == saved.stagnant <= idle

(* A Run is not stopped while it makes progress: the last evidence lies    *)
(* as many operations back as the quickest detector needs, once per        *)
(* recovery and once more (the operation with the evidence may be the      *)
(* first of equal actions or of a cycle).                                  *)
StoppedOnlyWhenIdle ==
    LET quickest == {MaxErrors, MaxIdentical - 1, 2 * MaxCycle - 1, MaxStagnant}
    IN saved.terminated => \E least \in quickest : idle >= least * (MaxRecovery + 1)

\* A Run without progress is stopped within the bound, counts no operation twice, and is
\* not stopped while it makes progress (the parts above).
ProgressIsJudgedRightly ==
    /\ IdleIsBounded
    /\ StagnationIsReal
    /\ StoppedOnlyWhenIdle
=============================================================================
