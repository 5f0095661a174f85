--------------------------- MODULE MultiAgentProofs ---------------------------
(***************************************************************************)
(* Proofs about MultiAgent, for any assignments, plans, plan order and     *)
(* limits.                                                                 *)
(*                                                                         *)
(* Most of the inductive invariant IInv is Sound, a predicate of a         *)
(* RunState and the Children: it is about the row, and about the copy as   *)
(* far as the copy is the row (Coroutine).  Each change of the RunState    *)
(* that the strategy makes preserves it, and so does what Children do.     *)
(***************************************************************************)
EXTENDS MultiAgent, FiniteSetTheorems, TLAPS

Attempts == 1 .. MaxRetries + 1

\* The dependencies of a were accepted.
Provided(s, a) == \A d \in Dependencies(s, a) : DependencyStatus(s, d) = "COMPLETED"

\* A Child of a was named, and may exist.
Attempted(s, a) ==
    StatusOf(s, a) \in Underway \cup {"REVIEWING", "COMPLETED", "FAILED"} \/ s.unit[a].attempt > 1

\* The Children of a, where ch is the status of each Child.
ChildrenOf(s, ch, a) ==
    \A n \in Attempts : ch[<<a, n>>] # "ABSENT" =>
        /\ Provided(s, a)
        /\ \/ n < s.unit[a].attempt /\ ch[<<a, n>>] = "COMPLETED"
           \/ n = s.unit[a].attempt /\ StatusOf(s, a) \notin {"PENDING", "SKIPPED"}

Unplanned(s, ch, a) ==
    /\ StatusOf(s, a) \in {"PENDING", "CANCELLED"}
    /\ s.unit[a].attempt = 1
    /\ \A n \in Attempts : ch[<<a, n>>] = "ABSENT"

\* How an assignment ended is how its Child ended, unless the Parent was cancelled.
Outcome(s, ch, a) ==
    IF s.status = "CANCELLED" THEN StatusOf(s, a) \in AssignmentTerminal
    ELSE StatusOf(s, a) \in {"FAILED", "CANCELLED"} => ch[ChildOf(s, a)] = StatusOf(s, a)

SoundUnit(s, ch, a) ==
    /\ Attempted(s, a) => Provided(s, a)
    /\ ChildrenOf(s, ch, a)
    /\ s.phase # "planned" => Unplanned(s, ch, a)
    /\ Outcome(s, ch, a)

\* The attempts whose results were counted.
Counted(s) ==
    {p \in Assignment \X Attempts :
        \/ p[2] < s.unit[p[1]].attempt
        \/ /\ p[2] = s.unit[p[1]].attempt
           /\ StatusOf(s, p[1]) \in {"REVIEWING", "COMPLETED"}}

Tally(s, ch) ==
    s.status # "CANCELLED" =>
        /\ s.tokens = Cardinality(Counted(s))
        /\ \A p \in Counted(s) : ch[p] = "COMPLETED"

Sound(s, ch) ==
    /\ s \in Orchestration
    /\ \A a \in Assignment : SoundUnit(s, ch, a)
    /\ Tally(s, ch)

(***************************************************************************)
(* The coroutine.                                                          *)
(***************************************************************************)
ChildType == [Child -> {"ABSENT", "RUNNING"} \cup Parked \cup Terminal]

Planned == {"observe", "decide", "ready", "launch", "execute", "collect", "settle", "finish"}

\* What the step loop knows of its copy and of the row.
Coroutine ==
    /\ pc \in {"idle", "preflight", "step", "apply"} \cup Planned
    /\ copy \in Orchestration \cup {NoCopy}
    /\ pc = "idle" => copy = NoCopy
    /\ pc \notin {"idle", "preflight"} => copy \in Orchestration
    /\ fresh => copy = row
    /\ copy \in Orchestration /\ copy.phase = "planned" => row.phase = "planned"
    /\ pc \in Planned => copy.phase = "planned"
    /\ pc = "finish" => Settled(copy)

\* A Child that an assignment names may be started.
Startable(s, c) ==
    \E a \in Assignment :
        /\ c = ChildOf(s, a)
        /\ StatusOf(s, a) \notin {"PENDING", "SKIPPED"}
        /\ Provided(s, a)

\* So are the Children that are about to be started.
Queued == pc = "execute" => \A c \in queue : Startable(row, c)

\* The Children that the Parent executes have a slot each.
Slots ==
    /\ \A c \in Child : host[c] = "parent" => pc = "execute" /\ c \in batch
    /\ pc = "execute" => IsFiniteSet(batch) /\ Cardinality(batch) <= MaxParallel
    /\ pc \notin {"observe", "collect", "execute"} => batch = {}

Completion ==
    row.status = "COMPLETED" =>
        pc = "idle" /\ \A c \in Child : child[c] \in Terminal \cup {"ABSENT"}

IInv ==
    /\ ChildRunsTypeOK
    /\ \A c \in Child \ (Assignment \X Attempts) : child[c] = "ABSENT"
    /\ Sound(row, child)
    /\ Coroutine
    /\ Queued
    /\ Slots
    /\ Completion

(***************************************************************************)
(* The RunState, and what changes of it are made of.                       *)
(***************************************************************************)
RunStatus == {"RUNNING", "WAITING_CHILD", "INTERRUPTED"} \cup Terminal

\* The fields of a RunState.
LEMMA Formed ==
    ASSUME NEW s \in Orchestration
    PROVE  /\ DOMAIN s = {"strategy", "status", "phase", "plan", "unit", "synthesized", "tokens"}
           /\ s.strategy = "multi_agent"
           /\ s.status \in RunStatus
           /\ s.phase \in {"new", "planning", "planned"}
           /\ s.unit \in [Assignment -> AssignmentState]
           /\ s.tokens \in Nat
BY Zenon DEF Orchestration, RunStatus

\* A RunState has a status, unlike no copy.
LEMMA NoCopyIsNone == NoCopy \notin Orchestration
BY DEF NoCopy, Orchestration

\* What an assignment is.
LEMMA UnitFormed ==
    ASSUME NEW s \in Orchestration, NEW a \in Assignment
    PROVE  /\ s.unit[a] \in AssignmentState
           /\ s.unit[a].attempt \in Attempts
           /\ StatusOf(s, a) \in {"PENDING", "REVIEWING"} \cup Underway \cup AssignmentTerminal
           /\ s.unit[a].review \in {"none", "approved", "rejected"}
BY Formed DEF AssignmentState, StatusOf, Attempts

\* The status of the Run.
LEMMA StatusForm ==
    ASSUME NEW s \in Orchestration, NEW x \in RunStatus, NEW t, t = [s EXCEPT !.status = x]
    PROVE  /\ t \in Orchestration
           /\ t.status = x /\ t.phase = s.phase /\ t.plan = s.plan /\ t.unit = s.unit
           /\ t.tokens = s.tokens
BY DEF Orchestration, RunStatus

\* Its assignments.
LEMMA UnitsForm ==
    ASSUME NEW s \in Orchestration, NEW u \in [Assignment -> AssignmentState], NEW t, t = [s EXCEPT !.unit = u]
    PROVE  /\ t \in Orchestration
           /\ t.status = s.status /\ t.phase = s.phase /\ t.plan = s.plan /\ t.unit = u
           /\ t.tokens = s.tokens
BY DEF Orchestration

\* s becomes t, and a is all of it that may change but the tokens.
Rewritten(s, t, a) ==
    /\ t \in Orchestration
    /\ t.status = s.status /\ t.phase = s.phase /\ t.plan = s.plan
    /\ \A b \in Assignment \ {a} : t.unit[b] = s.unit[b]

Put(s, a, x) == [s EXCEPT !.unit[a] = x]

\* One of its assignments.
LEMMA UnitForm ==
    ASSUME NEW s \in Orchestration, NEW a \in Assignment, NEW x \in AssignmentState,
           NEW t, t = Put(s, a, x)
    PROVE  Rewritten(s, t, a) /\ t.tokens = s.tokens /\ t.unit[a] = x
<1>1. /\ s.unit \in [Assignment -> AssignmentState]
      /\ DOMAIN s = {"strategy", "status", "phase", "plan", "unit", "synthesized", "tokens"}
  BY Formed
<1>2. /\ t.status = s.status /\ t.phase = s.phase /\ t.plan = s.plan /\ t.tokens = s.tokens
      /\ t.unit = [s.unit EXCEPT ![a] = x]
  BY <1>1 DEF Put
<1>3. t \in Orchestration
  BY <1>1 DEF Put, Orchestration
<1> QED BY <1>1, <1>2, <1>3 DEF Rewritten

\* The number of results that were counted.
LEMMA TokensForm ==
    ASSUME NEW s \in Orchestration, NEW n \in Nat, NEW t, t = [s EXCEPT !.tokens = n]
    PROVE  /\ t \in Orchestration
           /\ t.status = s.status /\ t.phase = s.phase /\ t.plan = s.plan /\ t.unit = s.unit
           /\ t.tokens = n
BY DEF Orchestration

\* The synthesis.
LEMMA SynthesisForm ==
    ASSUME NEW s \in Orchestration, NEW t, t = [s EXCEPT !.synthesized = TRUE]
    PROVE  /\ t \in Orchestration
           /\ t.status = s.status /\ t.phase = s.phase /\ t.plan = s.plan /\ t.unit = s.unit
           /\ t.tokens = s.tokens
BY DEF Orchestration

\* Planning begins.
LEMMA PhaseForm ==
    ASSUME NEW s \in Orchestration, NEW x \in {"planning", "planned"}, NEW t, t = [s EXCEPT !.phase = x]
    PROVE  /\ t \in Orchestration
           /\ t.status = s.status /\ t.phase = x /\ t.unit = s.unit /\ t.tokens = s.tokens
BY DEF Orchestration

\* Planning ends with a plan.
LEMMA PlanForm ==
    ASSUME NEW s \in Orchestration, NEW p \in PlannerOutput, NEW t,
           t = [s EXCEPT !.phase = "planned", !.plan = p]
    PROVE  /\ t \in Orchestration
           /\ t.status = s.status /\ t.phase = "planned" /\ t.unit = s.unit /\ t.tokens = s.tokens
BY DEF Orchestration

(***************************************************************************)
(* Changes of the assignments.                                             *)
(***************************************************************************)

\* What has to be shown of an assignment when s becomes t.
Moved(s, t, ch, a) ==
    /\ StatusOf(s, a) = "COMPLETED" => StatusOf(t, a) = "COMPLETED"
    /\ Attempted(t, a) => Provided(s, a)
    /\ \A n \in Attempts : ch[<<a, n>>] # "ABSENT" =>
          \/ n < t.unit[a].attempt /\ ch[<<a, n>>] = "COMPLETED"
          \/ n = t.unit[a].attempt /\ StatusOf(t, a) \notin {"PENDING", "SKIPPED"}
    /\ t.phase # "planned" => Unplanned(t, ch, a)
    /\ Outcome(t, ch, a)

\* What was accepted once is accepted for good.
LEMMA ProvidedStays ==
    ASSUME NEW s, NEW t, t.plan = s.plan,
           \A a \in Assignment : StatusOf(s, a) = "COMPLETED" => StatusOf(t, a) = "COMPLETED",
           NEW a \in Assignment, Provided(s, a)
    PROVE  Provided(t, a)
BY DEF Provided, Dependencies, DependencyStatus

\* A change of the assignments of a plan.
LEMMA UnitsMove ==
    ASSUME NEW s, NEW t \in Orchestration, NEW ch, Sound(s, ch), t.plan = s.plan,
           \A a \in Assignment : Moved(s, t, ch, a), Tally(t, ch)
    PROVE  Sound(t, ch)
<1>1. \A a \in Assignment : StatusOf(s, a) = "COMPLETED" => StatusOf(t, a) = "COMPLETED"
  BY DEF Moved
<1>2. ASSUME NEW a \in Assignment PROVE SoundUnit(t, ch, a)
  <2>1. Provided(s, a) => Provided(t, a)
    BY <1>1, ProvidedStays
  <2>2. Attempted(t, a) => Provided(t, a)
    BY <2>1 DEF Moved
  <2>3. ChildrenOf(t, ch, a)
    BY <2>1 DEF Moved, ChildrenOf, Sound, SoundUnit
  <2>4. (t.phase # "planned" => Unplanned(t, ch, a)) /\ Outcome(t, ch, a)
    BY DEF Moved
  <2> QED BY <2>2, <2>3, <2>4 DEF SoundUnit
<1> QED BY <1>2 DEF Sound

\* An assignment that stays as it is, in a Run whose status is not affected by it.
LEMMA UnmovedUnit ==
    ASSUME NEW s, NEW t, NEW ch, Sound(s, ch), NEW a \in Assignment,
           t.phase = s.phase, StatusOf(t, a) = StatusOf(s, a), t.unit[a].attempt = s.unit[a].attempt,
           t.status = "CANCELLED" <=> s.status = "CANCELLED"
    PROVE  Moved(s, t, ch, a)
<1>1. SoundUnit(s, ch, a)
  BY DEF Sound
<1>2. StatusOf(t, a) = StatusOf(s, a) /\ ChildOf(t, a) = ChildOf(s, a)
  BY DEF ChildOf
<1>3. Attempted(t, a) <=> Attempted(s, a)
  BY <1>2 DEF Attempted
<1>4. Unplanned(s, ch, a) => Unplanned(t, ch, a)
  BY <1>2 DEF Unplanned
<1>5. Outcome(t, ch, a)
  BY <1>1, <1>2 DEF SoundUnit, Outcome
<1>6. Attempted(t, a) => Provided(s, a)
  BY <1>1, <1>3 DEF SoundUnit
<1>7. t.phase # "planned" => Unplanned(t, ch, a)
  BY <1>1, <1>4 DEF SoundUnit
<1>8. \A n \in Attempts : ch[<<a, n>>] # "ABSENT" =>
          \/ n < t.unit[a].attempt /\ ch[<<a, n>>] = "COMPLETED"
          \/ n = t.unit[a].attempt /\ StatusOf(t, a) \notin {"PENDING", "SKIPPED"}
  BY <1>1, <1>2 DEF SoundUnit, ChildrenOf
<1> QED BY <1>2, <1>5, <1>6, <1>7, <1>8 DEF Moved

\* The same results are counted.
LEMMA SameTally ==
    ASSUME NEW s, NEW t, NEW ch, Tally(s, ch), s.status # "CANCELLED", t.tokens = s.tokens,
           \A a \in Assignment :
              /\ t.unit[a].attempt = s.unit[a].attempt
              /\ StatusOf(t, a) \in {"REVIEWING", "COMPLETED"} <=> StatusOf(s, a) \in {"REVIEWING", "COMPLETED"}
    PROVE  Tally(t, ch)
<1>1. Counted(t) = Counted(s)
  BY DEF Counted
<1> QED BY <1>1 DEF Tally

\* No assignment changes its status or its attempt, nor does the Run to or from CANCELLED.
LEMMA UnmovedUnits ==
    ASSUME NEW s, NEW ch, Sound(s, ch), NEW t \in Orchestration,
           t.phase = s.phase, t.plan = s.plan, t.tokens = s.tokens,
           t.status = "CANCELLED" <=> s.status = "CANCELLED",
           \A a \in Assignment : StatusOf(t, a) = StatusOf(s, a) /\ t.unit[a].attempt = s.unit[a].attempt
    PROVE  Sound(t, ch)
<1>1. \A a \in Assignment : Moved(s, t, ch, a)
  BY UnmovedUnit
<1>2. Tally(t, ch)
  <2>1. CASE s.status = "CANCELLED"
    BY <2>1 DEF Tally
  <2>2. CASE s.status # "CANCELLED"
    BY <2>2, SameTally DEF Sound
  <2> QED BY <2>1, <2>2
<1> QED BY <1>1, <1>2, UnitsMove

\* The status of the Run changes, but not to or from CANCELLED.
LEMMA StatusMoves ==
    ASSUME NEW s, NEW ch, Sound(s, ch), NEW x \in RunStatus, x # "CANCELLED", s.status # "CANCELLED",
           NEW t, t = [s EXCEPT !.status = x]
    PROVE  Sound(t, ch)
<1>1. s \in Orchestration
  BY DEF Sound
<1>2. t \in Orchestration /\ t.status = x /\ t.phase = s.phase /\ t.plan = s.plan /\ t.unit = s.unit
      /\ t.tokens = s.tokens
  BY <1>1, StatusForm
<1> QED BY <1>2, UnmovedUnits DEF StatusOf

\* The synthesis is stored.
LEMMA SynthesisMoves ==
    ASSUME NEW s, NEW ch, Sound(s, ch), NEW t, t = [s EXCEPT !.synthesized = TRUE]
    PROVE  Sound(t, ch)
<1>1. s \in Orchestration
  BY DEF Sound
<1>2. t \in Orchestration /\ t.status = s.status /\ t.phase = s.phase /\ t.plan = s.plan /\ t.unit = s.unit
      /\ t.tokens = s.tokens
  BY <1>1, SynthesisForm
<1> QED BY <1>2, UnmovedUnits DEF StatusOf

\* Before there is a plan there are no Children, and nothing was attempted.
LEMMA PlanMoves ==
    ASSUME NEW s, NEW ch, Sound(s, ch), s.phase # "planned", NEW t \in Orchestration,
           t.status = s.status, t.unit = s.unit, t.tokens = s.tokens
    PROVE  Sound(t, ch)
<1>3. ASSUME NEW a \in Assignment PROVE SoundUnit(t, ch, a)
  <2>1. SoundUnit(s, ch, a) /\ Unplanned(s, ch, a)
    BY DEF Sound, SoundUnit
  <2>2. StatusOf(t, a) = StatusOf(s, a) /\ t.unit[a] = s.unit[a]
    BY DEF StatusOf
  <2>3. Unplanned(t, ch, a)
    BY <2>1, <2>2 DEF Unplanned
  <2>4. ~Attempted(t, a)
    BY <2>3 DEF Unplanned, Attempted, Underway
  <2>5. ChildrenOf(t, ch, a)
    BY <2>3 DEF Unplanned, ChildrenOf
  <2>6. Outcome(t, ch, a)
    BY <2>1, <2>2 DEF SoundUnit, Outcome, ChildOf
  <2> QED BY <2>3, <2>4, <2>5, <2>6 DEF SoundUnit
<1>4. Tally(t, ch)
  <2>1. Counted(t) = Counted(s)
    BY DEF Counted, StatusOf
  <2> QED BY <2>1 DEF Sound, Tally
<1> QED BY <1>3, <1>4 DEF Sound

\* One assignment changes.
LEMMA OneMoves ==
    ASSUME NEW s, NEW ch, Sound(s, ch), NEW a \in Assignment, NEW t, Rewritten(s, t, a),
           Moved(s, t, ch, a), Tally(t, ch)
    PROVE  Sound(t, ch)
<1>1. ASSUME NEW b \in Assignment \ {a} PROVE Moved(s, t, ch, b)
  <2>1. t.unit[b] = s.unit[b] /\ t.phase = s.phase /\ t.status = s.status
    BY DEF Rewritten
  <2> QED BY <2>1, UnmovedUnit DEF StatusOf
<1> QED BY <1>1, UnitsMove DEF Rewritten

\* The status of an assignment is written.
LEMMA WithForm ==
    ASSUME NEW s \in Orchestration, NEW a \in Assignment,
           NEW x \in {"PENDING", "REVIEWING"} \cup Underway \cup AssignmentTerminal, NEW t, t = With(s, a, x)
    PROVE  /\ Rewritten(s, t, a) /\ t.tokens = s.tokens
           /\ StatusOf(t, a) = x /\ t.unit[a].attempt = s.unit[a].attempt
<1>1. s.unit[a] \in AssignmentState
  BY UnitFormed
<1>2. [s.unit[a] EXCEPT !.status = x] \in AssignmentState
  BY <1>1 DEF AssignmentState
<1>3. PICK u \in AssignmentState : u.status = x /\ u.attempt = s.unit[a].attempt /\ t = Put(s, a, u)
  BY <1>1, <1>2 DEF AssignmentState, With, Put
<1>4. Rewritten(s, t, a) /\ t.tokens = s.tokens /\ t.unit[a] = u
  BY <1>3, UnitForm
<1> QED BY <1>3, <1>4 DEF StatusOf

\* An assignment with a Child in the plan that was accepted is planned and provided for.
LEMMA AttemptedUnit ==
    ASSUME NEW s, NEW ch, Sound(s, ch), NEW a \in Assignment,
           StatusOf(s, a) \in Underway \cup {"REVIEWING"}
    PROVE  Provided(s, a) /\ s.phase = "planned" /\ s.status # "CANCELLED" /\ s.unit[a].attempt \in Attempts
<1>1. s \in Orchestration /\ SoundUnit(s, ch, a)
  BY DEF Sound
<1>2. Provided(s, a)
  BY <1>1 DEF SoundUnit, Attempted
<1>3. s.phase = "planned"
  BY <1>1 DEF SoundUnit, Unplanned, Underway
<1>4. s.status # "CANCELLED"
  BY <1>1 DEF SoundUnit, Outcome, Underway, AssignmentTerminal
<1> QED BY <1>1, <1>2, <1>3, <1>4, UnitFormed

\* An assignment whose Child was named goes on to another status.
LEMMA StepMoves ==
    ASSUME NEW s, NEW ch, Sound(s, ch), NEW a \in Assignment,
           StatusOf(s, a) \in Underway \cup {"REVIEWING"},
           NEW t, Rewritten(s, t, a),
           t.unit[a].attempt = s.unit[a].attempt, StatusOf(t, a) \notin {"PENDING", "SKIPPED"},
           StatusOf(t, a) \in {"FAILED", "CANCELLED"} => ch[ChildOf(s, a)] = StatusOf(t, a)
    PROVE  Moved(s, t, ch, a)
<1>1. Provided(s, a) /\ t.phase = "planned" /\ t.status # "CANCELLED"
  BY AttemptedUnit DEF Rewritten
<1>2. \A n \in Attempts : ch[<<a, n>>] # "ABSENT" =>
          \/ n < t.unit[a].attempt /\ ch[<<a, n>>] = "COMPLETED"
          \/ n = t.unit[a].attempt /\ StatusOf(t, a) \notin {"PENDING", "SKIPPED"}
  BY DEF Sound, SoundUnit, ChildrenOf
<1>3. Outcome(t, ch, a)
  BY <1>1 DEF Outcome, ChildOf
<1>4. StatusOf(s, a) # "COMPLETED"
  BY DEF Underway
<1> QED BY <1>1, <1>2, <1>3, <1>4 DEF Moved

\* A result is counted.
LEMMA ResultCounts ==
    ASSUME NEW s, NEW ch, Sound(s, ch), NEW a \in Assignment, StatusOf(s, a) \in Underway,
           ch[ChildOf(s, a)] = "COMPLETED",
           NEW t, Rewritten(s, t, a), t.tokens = s.tokens + 1,
           StatusOf(t, a) = "REVIEWING", t.unit[a].attempt = s.unit[a].attempt
    PROVE  Tally(t, ch)
<1> DEFINE c == <<a, s.unit[a].attempt>>
<1>1. s.status # "CANCELLED" /\ s.unit[a].attempt \in Attempts /\ s.unit[a].attempt \in Nat
  BY AttemptedUnit, MultiAgentAssumption DEF Attempts
<1>2. c \notin Counted(s)
  BY <1>1 DEF Counted, Underway
<1>3. Counted(t) = Counted(s) \cup {c}
  BY <1>1 DEF Counted, StatusOf, Underway, Rewritten
<1>4. IsFiniteSet(Counted(s))
  <2>1. IsFiniteSet(Attempts)
    BY FS_Interval, MultiAgentAssumption DEF Attempts
  <2>2. IsFiniteSet(Assignment \X Attempts)
    BY <2>1, FS_Product, MultiAgentAssumption
  <2> QED BY <2>2, FS_Subset DEF Counted
<1>5. Cardinality(Counted(t)) = Cardinality(Counted(s)) + 1
  BY <1>2, <1>3, <1>4, FS_AddElement
<1>6. Tally(s, ch)
  BY DEF Sound
<1>7. ch[c] = "COMPLETED"
  BY DEF ChildOf
<1> HIDE DEF c
<1> QED BY <1>1, <1>3, <1>5, <1>6, <1>7 DEF Tally, Rewritten

\* The other observations count nothing.
LEMMA NothingCounts ==
    ASSUME NEW s, NEW ch, Sound(s, ch), NEW a \in Assignment, StatusOf(s, a) \in Underway,
           NEW t, Rewritten(s, t, a), t.tokens = s.tokens,
           StatusOf(t, a) \notin {"REVIEWING", "COMPLETED"}, t.unit[a].attempt = s.unit[a].attempt
    PROVE  Tally(t, ch)
<1>1. s.status # "CANCELLED"
  BY AttemptedUnit
<1>2. \A b \in Assignment :
          /\ t.unit[b].attempt = s.unit[b].attempt
          /\ StatusOf(t, b) \in {"REVIEWING", "COMPLETED"} <=> StatusOf(s, b) \in {"REVIEWING", "COMPLETED"}
  BY DEF StatusOf, Underway, Rewritten
<1> QED BY <1>1, <1>2, SameTally DEF Sound, Rewritten

(***************************************************************************)
(* The changes that the strategy makes.                                    *)
(***************************************************************************)

\* An observation (_observe_child).
LEMMA ObservationMoves ==
    ASSUME NEW s, Sound(s, child), child \in ChildType, NEW a \in Assignment, Observable(s, a),
           ChildOf(s, a) \in Child, NEW t, t = ObservedAssignment(s, a)
    PROVE  Sound(t, child) /\ t.phase = s.phase /\ t.status = s.status
<1>1. s \in Orchestration /\ StatusOf(s, a) \in Underway /\ StatusOf(s, a) \in Underway \cup {"REVIEWING"}
  BY DEF Sound, Observable
<1>2. child[ChildOf(s, a)] \in Parked \cup Terminal
  BY DEF Observable, ChildType
<1>3. CASE child[ChildOf(s, a)] = "COMPLETED"
  <2> DEFINE w == With(s, a, "REVIEWING")
  <2>1. t = [w EXCEPT !.tokens = @ + 1]
    BY <1>3 DEF ObservedAssignment, Parked
  <2>2. /\ Rewritten(s, w, a) /\ w.tokens = s.tokens
        /\ StatusOf(w, a) = "REVIEWING" /\ w.unit[a].attempt = s.unit[a].attempt
    BY <1>1, WithForm
  <2> HIDE DEF w
  <2>3. w \in Orchestration /\ w.tokens \in Nat /\ w.tokens + 1 \in Nat /\ t = [w EXCEPT !.tokens = w.tokens + 1]
    BY <2>1, <2>2, Formed DEF Rewritten
  <2>4. t \in Orchestration /\ t.status = w.status /\ t.phase = w.phase /\ t.plan = w.plan
        /\ t.unit = w.unit /\ t.tokens = w.tokens + 1
    BY <2>3, TokensForm
  <2>5. /\ Rewritten(s, t, a) /\ t.tokens = s.tokens + 1
        /\ StatusOf(t, a) = "REVIEWING" /\ t.unit[a].attempt = s.unit[a].attempt
    BY <2>2, <2>4 DEF StatusOf, Rewritten
  <2>6. Moved(s, t, child, a)
    BY <1>1, <2>5, StepMoves
  <2>7. Tally(t, child)
    BY <1>1, <1>3, <2>5, ResultCounts
  <2> QED BY <2>5, <2>6, <2>7, OneMoves DEF Rewritten
<1>4. ASSUME NEW x \in {"WAITING_CHILD", "CANCELLED", "FAILED"}, t = With(s, a, x),
             x \in {"FAILED", "CANCELLED"} => child[ChildOf(s, a)] = x
      PROVE  Sound(t, child) /\ t.phase = s.phase /\ t.status = s.status
  <2>1. x \in {"PENDING", "REVIEWING"} \cup Underway \cup AssignmentTerminal
    BY DEF Underway, AssignmentTerminal
  <2>2. /\ Rewritten(s, t, a) /\ t.tokens = s.tokens
        /\ StatusOf(t, a) = x /\ t.unit[a].attempt = s.unit[a].attempt
    BY <1>1, <1>4, <2>1, WithForm
  <2>3. Moved(s, t, child, a)
    BY <1>1, <1>4, <2>2, StepMoves
  <2>4. Tally(t, child)
    BY <1>1, <2>2, NothingCounts
  <2> QED BY <2>2, <2>3, <2>4, OneMoves DEF Rewritten
<1>5. CASE child[ChildOf(s, a)] \in Parked
  <2>1. t = With(s, a, "WAITING_CHILD")
    BY <1>5 DEF ObservedAssignment, Parked
  <2> QED BY <1>4, <2>1
<1>6. CASE child[ChildOf(s, a)] = "CANCELLED"
  <2>1. t = With(s, a, "CANCELLED")
    BY <1>6 DEF ObservedAssignment, Parked
  <2> QED BY <1>4, <1>6, <2>1
<1>7. CASE child[ChildOf(s, a)] = "FAILED"
  <2>1. t = With(s, a, "FAILED")
    BY <1>7 DEF ObservedAssignment, Parked
  <2> QED BY <1>4, <1>7, <2>1
<1> QED BY <1>2, <1>3, <1>5, <1>6, <1>7 DEF Terminal

\* A verdict (_review).
LEMMA VerdictMoves ==
    ASSUME NEW s, NEW ch, Sound(s, ch), NEW a \in Assignment, NEW v \in {"approved", "rejected"},
           NEW t, t = Judged(s, a, v)
    PROVE  Sound(t, ch) /\ t.phase = s.phase /\ t.status = s.status
<1>1. s \in Orchestration /\ s.unit[a] \in AssignmentState
  BY UnitFormed DEF Sound
<1>2. [s.unit[a] EXCEPT !.review = v] \in AssignmentState
  BY <1>1 DEF AssignmentState
<1>3. PICK u \in AssignmentState :
          u.status = s.unit[a].status /\ u.attempt = s.unit[a].attempt /\ t = Put(s, a, u)
  BY <1>1, <1>2 DEF AssignmentState, Judged, Put
<1>4. Rewritten(s, t, a) /\ t.tokens = s.tokens /\ t.unit[a] = u
  BY <1>1, <1>3, UnitForm
<1>5. \A b \in Assignment : StatusOf(t, b) = StatusOf(s, b) /\ t.unit[b].attempt = s.unit[b].attempt
  BY <1>3, <1>4 DEF StatusOf, Rewritten
<1> QED BY <1>4, <1>5, UnmovedUnits DEF Rewritten

\* An accepted result (_review).
LEMMA AcceptMoves ==
    ASSUME NEW s, NEW ch, Sound(s, ch), NEW a \in Assignment, StatusOf(s, a) = "REVIEWING",
           NEW t, t = Accept(s, a)
    PROVE  Sound(t, ch) /\ t.phase = s.phase /\ t.status = s.status
<1>1. s \in Orchestration /\ t = With(s, a, "COMPLETED")
  BY DEF Sound, Accept
<1>2. /\ Rewritten(s, t, a) /\ t.tokens = s.tokens
      /\ StatusOf(t, a) = "COMPLETED" /\ t.unit[a].attempt = s.unit[a].attempt
  BY <1>1, WithForm DEF AssignmentTerminal
<1>3. Moved(s, t, ch, a)
  BY <1>2, StepMoves
<1>4. s.status # "CANCELLED"
  BY AttemptedUnit
<1>5. \A b \in Assignment :
          /\ t.unit[b].attempt = s.unit[b].attempt
          /\ StatusOf(t, b) \in {"REVIEWING", "COMPLETED"} <=> StatusOf(s, b) \in {"REVIEWING", "COMPLETED"}
  BY <1>2 DEF StatusOf, Rewritten
<1>6. Tally(t, ch)
  BY <1>2, <1>4, <1>5, SameTally DEF Sound, Rewritten
<1> QED BY <1>2, <1>3, <1>6, OneMoves DEF Rewritten

\* A new attempt at a rejected one (_review).
LEMMA ReassignMoves ==
    ASSUME NEW s, NEW ch, Sound(s, ch), NEW a \in Assignment, StatusOf(s, a) = "REVIEWING",
           ~RetriesUsedUp(s, a), NEW t, t = Reassign(s, a)
    PROVE  Sound(t, ch) /\ t.phase = s.phase /\ t.status = s.status
<1> DEFINE u == [status |-> "PENDING", attempt |-> s.unit[a].attempt + 1, review |-> "none"]
<1>1. s \in Orchestration /\ s.unit[a] \in AssignmentState
  BY UnitFormed DEF Sound
<1>2. /\ s.unit[a].attempt \in Nat \ {0} /\ s.unit[a].attempt <= MaxRetries
      /\ s.unit[a].attempt \in Attempts /\ s.unit[a].attempt + 1 \in Attempts
  BY <1>1, MultiAgentAssumption DEF AssignmentState, RetriesUsedUp, Attempts
<1>3. u \in AssignmentState /\ u.status = "PENDING" /\ u.attempt = s.unit[a].attempt + 1
  BY <1>2 DEF AssignmentState, Attempts
<1>4. t = Put(s, a, u)
  BY DEF Reassign, Put
<1> HIDE DEF u
<1>5. Rewritten(s, t, a) /\ t.tokens = s.tokens /\ t.unit[a] = u
  BY <1>1, <1>3, <1>4, UnitForm
<1>6. StatusOf(t, a) = "PENDING" /\ t.unit[a].attempt = s.unit[a].attempt + 1
  BY <1>3, <1>5 DEF StatusOf
<1>7. Provided(s, a) /\ s.phase = "planned" /\ s.status # "CANCELLED"
  BY AttemptedUnit
<1>8. <<a, s.unit[a].attempt>> \in Counted(s) /\ ch[<<a, s.unit[a].attempt>>] = "COMPLETED"
  <2>1. <<a, s.unit[a].attempt>> \in Counted(s)
    BY <1>2 DEF Counted
  <2> QED BY <1>7, <2>1 DEF Sound, Tally
<1>9. Moved(s, t, ch, a)
  <2>1. ASSUME NEW n \in Attempts, ch[<<a, n>>] # "ABSENT"
        PROVE  n < t.unit[a].attempt /\ ch[<<a, n>>] = "COMPLETED"
    <3>1. \/ n < s.unit[a].attempt /\ ch[<<a, n>>] = "COMPLETED"
          \/ n = s.unit[a].attempt
      BY <2>1 DEF Sound, SoundUnit, ChildrenOf
    <3>2. n \in Nat
      BY MultiAgentAssumption DEF Attempts
    <3> QED BY <1>2, <1>6, <1>8, <3>1, <3>2
  <2>2. Outcome(t, ch, a)
    BY <1>5, <1>6, <1>7 DEF Outcome, Rewritten
  <2> QED BY <1>5, <1>7, <2>1, <2>2 DEF Moved, Rewritten
<1>10. Tally(t, ch)
  <2>1. Counted(t) = Counted(s)
    <3>1. ASSUME NEW p \in Assignment \X Attempts, p[1] = a PROVE p \in Counted(t) <=> p \in Counted(s)
      <4>1. p[2] \in Nat /\ (p[2] < t.unit[a].attempt <=> p[2] < s.unit[a].attempt \/ p[2] = s.unit[a].attempt)
        BY <1>2, <1>6, MultiAgentAssumption DEF Attempts
      <4> QED BY <1>6, <3>1, <4>1 DEF Counted
    <3>2. ASSUME NEW p \in Assignment \X Attempts, p[1] # a PROVE p \in Counted(t) <=> p \in Counted(s)
      BY <1>5, <3>2 DEF Counted, StatusOf, Rewritten
    <3> QED BY <3>1, <3>2 DEF Counted
  <2> QED BY <1>5, <2>1 DEF Sound, Tally, Rewritten
<1> QED BY <1>5, <1>9, <1>10, OneMoves DEF Rewritten

\* What PENDING assignments become.
LEMMA BecameForm ==
    ASSUME NEW s \in Orchestration, NEW some \in SUBSET Assignment, NEW x \in {"SKIPPED", "ASSIGNED"},
           NEW t, t = Became(s, some, x)
    PROVE  /\ t \in Orchestration
           /\ t.status = s.status /\ t.phase = s.phase /\ t.plan = s.plan /\ t.tokens = s.tokens
           /\ \A a \in Assignment :
                 /\ StatusOf(t, a) = IF a \in some THEN x ELSE StatusOf(s, a)
                 /\ t.unit[a].attempt = s.unit[a].attempt
<1> DEFINE after(a) == IF a \in some THEN [s.unit[a] EXCEPT !.status = x] ELSE s.unit[a]
           u == [a \in Assignment |-> after(a)]
<1>1. \A a \in Assignment : s.unit[a] \in AssignmentState
  BY UnitFormed
<1>2. ASSUME NEW a \in Assignment
      PROVE  /\ after(a) \in AssignmentState /\ after(a).attempt = s.unit[a].attempt
             /\ after(a).status = IF a \in some THEN x ELSE s.unit[a].status
  BY <1>1 DEF AssignmentState, Underway, AssignmentTerminal
<1>3. t = [s EXCEPT !.unit = u]
  BY DEF Became
<1> HIDE DEF after
<1>4. u \in [Assignment -> AssignmentState]
  BY <1>2
<1>5. \A a \in Assignment : u[a] = after(a)
  OBVIOUS
<1> HIDE DEF u
<1>6. /\ t \in Orchestration
      /\ t.status = s.status /\ t.phase = s.phase /\ t.plan = s.plan /\ t.unit = u
      /\ t.tokens = s.tokens
  BY <1>3, <1>4, UnitsForm
<1> QED BY <1>2, <1>5, <1>6 DEF StatusOf

\* Assignments are skipped, or assigned (_skip_blocked_assignments, _persist_ready_assignments).
LEMMA BecameMoves ==
    ASSUME NEW s, NEW ch, Sound(s, ch), s.phase = "planned", NEW some \in SUBSET Assignment,
           NEW x \in {"SKIPPED", "ASSIGNED"}, \A a \in some : StatusOf(s, a) = "PENDING",
           x = "ASSIGNED" => \A a \in some : Provided(s, a), NEW t, t = Became(s, some, x)
    PROVE  Sound(t, ch) /\ t.phase = s.phase /\ t.status = s.status
<1>1. s \in Orchestration
  BY DEF Sound
<1>2. /\ t \in Orchestration
      /\ t.status = s.status /\ t.phase = s.phase /\ t.plan = s.plan /\ t.tokens = s.tokens
  BY <1>1, BecameForm
<1>3. ASSUME NEW a \in Assignment
      PROVE  /\ StatusOf(t, a) = IF a \in some THEN x ELSE StatusOf(s, a)
             /\ t.unit[a].attempt = s.unit[a].attempt
  BY <1>1, BecameForm
<1>4. ASSUME NEW a \in some PROVE Moved(s, t, ch, a)
  <2>1. a \in Assignment /\ StatusOf(s, a) = "PENDING" /\ StatusOf(t, a) = x /\ SoundUnit(s, ch, a)
        /\ t.unit[a].attempt = s.unit[a].attempt
    BY <1>3 DEF Sound
  <2>2. s.status # "CANCELLED"
    BY <2>1 DEF SoundUnit, Outcome, AssignmentTerminal
  <2>3. Attempted(t, a) => Provided(s, a)
    <3>1. CASE x = "ASSIGNED"
      BY <3>1
    <3>2. CASE x = "SKIPPED"
      BY <2>1, <3>2 DEF SoundUnit, Attempted, Underway
    <3> QED BY <3>1, <3>2
  <2>4. \A n \in Attempts : ch[<<a, n>>] # "ABSENT" => n < t.unit[a].attempt /\ ch[<<a, n>>] = "COMPLETED"
    BY <2>1 DEF SoundUnit, ChildrenOf
  <2>5. Outcome(t, ch, a)
    BY <1>2, <2>1, <2>2 DEF Outcome
  <2> QED BY <1>2, <2>1, <2>3, <2>4, <2>5 DEF Moved
<1>5. ASSUME NEW a \in Assignment \ some PROVE Moved(s, t, ch, a)
  BY <1>2, <1>3, UnmovedUnit
<1>6. Tally(t, ch)
  <2>1. Counted(t) = Counted(s)
    <3>1. \A a \in Assignment :
              StatusOf(t, a) \in {"REVIEWING", "COMPLETED"} <=> StatusOf(s, a) \in {"REVIEWING", "COMPLETED"}
      BY <1>3
    <3> QED BY <1>3, <3>1 DEF Counted
  <2> QED BY <1>2, <2>1 DEF Sound, Tally
<1> QED BY <1>2, <1>4, <1>5, <1>6, UnitsMove

\* A cancel (on_cancel).
LEMMA CancelledForm ==
    ASSUME NEW s \in Orchestration, NEW t, t = CancelledOrchestration(s)
    PROVE  /\ t \in Orchestration
           /\ t.status = "CANCELLED" /\ t.phase = s.phase /\ t.plan = s.plan
           /\ \A a \in Assignment :
                 /\ StatusOf(t, a) = IF StatusOf(s, a) \in AssignmentTerminal THEN StatusOf(s, a) ELSE "CANCELLED"
                 /\ t.unit[a].attempt = s.unit[a].attempt
<1> DEFINE after(a) == IF s.unit[a].status \in AssignmentTerminal THEN s.unit[a]
                       ELSE [s.unit[a] EXCEPT !.status = "CANCELLED"]
           u == [a \in Assignment |-> after(a)]
           w == [s EXCEPT !.status = "CANCELLED"]
<1>1. \A a \in Assignment : s.unit[a] \in AssignmentState
  BY UnitFormed
<1>2. ASSUME NEW a \in Assignment
      PROVE  /\ after(a) \in AssignmentState /\ after(a).attempt = s.unit[a].attempt
             /\ after(a).status = IF s.unit[a].status \in AssignmentTerminal THEN s.unit[a].status ELSE "CANCELLED"
  BY <1>1 DEF AssignmentState, Underway, AssignmentTerminal
<1>3. t = [w EXCEPT !.unit = u]
  BY DEF CancelledOrchestration
<1>4. w \in Orchestration /\ w.status = "CANCELLED" /\ w.phase = s.phase /\ w.plan = s.plan
  BY StatusForm DEF RunStatus, Terminal
<1> HIDE DEF after, w
<1>5. u \in [Assignment -> AssignmentState]
  BY <1>2
<1>6. \A a \in Assignment : u[a] = after(a)
  OBVIOUS
<1> HIDE DEF u
<1>7. t \in Orchestration /\ t.status = w.status /\ t.phase = w.phase /\ t.plan = w.plan /\ t.unit = u
  BY <1>3, <1>4, <1>5, UnitsForm
<1> QED BY <1>2, <1>4, <1>6, <1>7 DEF StatusOf

\* A cancel (on_cancel).
LEMMA CancelMoves ==
    ASSUME NEW s, NEW ch, Sound(s, ch), NEW t, t = CancelledOrchestration(s)
    PROVE  Sound(t, ch) /\ t.phase = s.phase /\ t.status = "CANCELLED"
<1>1. s \in Orchestration
  BY DEF Sound
<1>2. t \in Orchestration /\ t.status = "CANCELLED" /\ t.phase = s.phase /\ t.plan = s.plan
  BY <1>1, CancelledForm
<1>3. ASSUME NEW a \in Assignment
      PROVE  /\ StatusOf(t, a) = IF StatusOf(s, a) \in AssignmentTerminal THEN StatusOf(s, a) ELSE "CANCELLED"
             /\ t.unit[a].attempt = s.unit[a].attempt
  BY <1>1, CancelledForm
<1>4. ASSUME NEW a \in Assignment PROVE Moved(s, t, ch, a)
  <2>1. SoundUnit(s, ch, a)
    BY DEF Sound
  <2>2. StatusOf(s, a) = "COMPLETED" => StatusOf(t, a) = "COMPLETED"
    BY <1>3 DEF AssignmentTerminal
  <2>3. Attempted(t, a) => Attempted(s, a)
    BY <1>3 DEF Attempted, AssignmentTerminal, Underway
  <2>4. StatusOf(t, a) \in {"PENDING", "SKIPPED"} => StatusOf(s, a) \in {"PENDING", "SKIPPED"}
    BY <1>3 DEF AssignmentTerminal
  <2>5. \A n \in Attempts : ch[<<a, n>>] # "ABSENT" =>
          \/ n < t.unit[a].attempt /\ ch[<<a, n>>] = "COMPLETED"
          \/ n = t.unit[a].attempt /\ StatusOf(t, a) \notin {"PENDING", "SKIPPED"}
    BY <1>3, <2>1, <2>4 DEF SoundUnit, ChildrenOf
  <2>6. Unplanned(s, ch, a) => Unplanned(t, ch, a)
    BY <1>3 DEF Unplanned, AssignmentTerminal
  <2>7. Outcome(t, ch, a)
    BY <1>2, <1>3 DEF Outcome, AssignmentTerminal
  <2> QED BY <1>2, <2>1, <2>2, <2>3, <2>5, <2>6, <2>7 DEF Moved, SoundUnit
<1>5. Tally(t, ch)
  BY <1>2 DEF Tally
<1> QED BY <1>2, <1>4, <1>5, UnitsMove

(***************************************************************************)
(* What the Children do.                                                   *)
(***************************************************************************)

\* A Child that has started and not ended goes on, or one that may be started is.
Evolved(s, ch, d, c) ==
    \/ d[c] = ch[c]
    \/ ch[c] \notin Terminal \cup {"ABSENT"} /\ d[c] # "ABSENT"
    \/ ch[c] = "ABSENT" /\ s.phase = "planned" /\ Startable(s, c)

\* No such step takes away what was counted, planned or concluded from the Children.
LEMMA ChildrenMove ==
    ASSUME NEW s, NEW ch, Sound(s, ch), NEW d, \A c \in Child : Evolved(s, ch, d, c)
    PROVE  Sound(s, d)
<1>1. \A p \in Assignment \X Attempts : p \in Child
  BY MultiAgentAssumption DEF Attempts
<1>2. ASSUME NEW p \in Assignment \X Attempts, ch[p] \in Terminal PROVE d[p] = ch[p]
  BY <1>1, <1>2 DEF Evolved, Terminal
<1>3. ASSUME NEW a \in Assignment PROVE SoundUnit(s, d, a)
  <2>1. SoundUnit(s, ch, a) /\ s \in Orchestration
    BY DEF Sound
  <2>2. ASSUME NEW n \in Attempts, d[<<a, n>>] # "ABSENT", ch[<<a, n>>] = "ABSENT"
        PROVE  /\ s.phase = "planned" /\ Provided(s, a)
               /\ n = s.unit[a].attempt /\ StatusOf(s, a) \notin {"PENDING", "SKIPPED"}
    <3>1. <<a, n>> \in Child
      BY <1>1
    <3>2. s.phase = "planned" /\ Startable(s, <<a, n>>)
      BY <2>2, <3>1 DEF Evolved
    <3>3. PICK b \in Assignment : /\ <<a, n>> = ChildOf(s, b)
                                  /\ StatusOf(s, b) \notin {"PENDING", "SKIPPED"}
                                  /\ Provided(s, b)
      BY <3>2 DEF Startable
    <3>4. b = a /\ n = s.unit[a].attempt
      BY <3>3 DEF ChildOf
    <3> QED BY <3>2, <3>3, <3>4
  <2>3. ASSUME NEW n \in Attempts, d[<<a, n>>] # "ABSENT"
        PROVE  /\ Provided(s, a)
               /\ \/ n < s.unit[a].attempt /\ d[<<a, n>>] = "COMPLETED"
                  \/ n = s.unit[a].attempt /\ StatusOf(s, a) \notin {"PENDING", "SKIPPED"}
    <3>1. CASE ch[<<a, n>>] = "ABSENT"
      BY <2>2, <2>3, <3>1
    <3>2. CASE ch[<<a, n>>] # "ABSENT"
      <4>1. /\ Provided(s, a)
            /\ \/ n < s.unit[a].attempt /\ ch[<<a, n>>] = "COMPLETED"
               \/ n = s.unit[a].attempt /\ StatusOf(s, a) \notin {"PENDING", "SKIPPED"}
        BY <2>1, <3>2 DEF SoundUnit, ChildrenOf
      <4>2. ch[<<a, n>>] = "COMPLETED" => d[<<a, n>>] = "COMPLETED"
        BY <1>2 DEF Terminal
      <4> QED BY <4>1, <4>2
    <3> QED BY <3>1, <3>2
  <2>4. s.phase # "planned" => Unplanned(s, d, a)
    BY <2>1, <2>2 DEF SoundUnit, Unplanned
  <2>5. Outcome(s, d, a)
    <3>1. s.unit[a].attempt \in Attempts
      BY <2>1, UnitFormed
    <3>2. ChildOf(s, a) \in Assignment \X Attempts
      BY <3>1 DEF ChildOf
    <3>3. ch[ChildOf(s, a)] \in {"FAILED", "CANCELLED"} => d[ChildOf(s, a)] = ch[ChildOf(s, a)]
      BY <1>2, <3>2 DEF Terminal
    <3> QED BY <2>1, <3>3 DEF SoundUnit, Outcome
  <2> QED BY <2>1, <2>3, <2>4, <2>5 DEF SoundUnit, ChildrenOf
<1>4. Tally(s, d)
  <2>1. Tally(s, ch)
    BY DEF Sound
  <2>2. \A p \in Counted(s) : p \in Assignment \X Attempts
    BY DEF Counted
  <2>3. \A p \in Counted(s) : ch[p] = "COMPLETED" => d[p] = "COMPLETED"
    BY <1>2, <2>2 DEF Terminal
  <2> QED BY <2>1, <2>3 DEF Tally
<1> QED BY <1>3, <1>4 DEF Sound

\* Whatever has not been started stays so unless it may be.
LEMMA NoOthers ==
    ASSUME NEW s \in Orchestration, NEW c, Startable(s, c)
    PROVE  c \in Assignment \X Attempts /\ c \in Child
<1>1. PICK a \in Assignment : c = ChildOf(s, a)
  BY DEF Startable
<1>2. s.unit[a].attempt \in Attempts
  BY UnitFormed
<1>3. c \in Assignment \X Attempts
  BY <1>1, <1>2 DEF ChildOf
<1> QED BY <1>3, MultiAgentAssumption DEF Attempts

\* When every assignment is settled, so are the Children.
LEMMA SettledChildren ==
    ASSUME NEW s, NEW ch, Sound(s, ch), Settled(s), s.status # "CANCELLED",
           NEW c \in Assignment \X Attempts
    PROVE  ch[c] \in Terminal \cup {"ABSENT"}
<1>1. PICK a \in Assignment, n \in Attempts : c = <<a, n>>
  OBVIOUS
<1>2. SUFFICES ASSUME ch[<<a, n>>] # "ABSENT" PROVE ch[<<a, n>>] \in Terminal
  BY <1>1
<1>3. s \in Orchestration /\ SoundUnit(s, ch, a) /\ Tally(s, ch)
  BY DEF Sound
<1>4. CASE n < s.unit[a].attempt /\ ch[<<a, n>>] = "COMPLETED"
  BY <1>4 DEF Terminal
<1>5. CASE n = s.unit[a].attempt /\ StatusOf(s, a) \notin {"PENDING", "SKIPPED"}
  <2>1. StatusOf(s, a) \in {"REVIEWING", "COMPLETED", "FAILED", "CANCELLED"}
    <3>1. StatusOf(s, a) \in {"PENDING", "REVIEWING"} \cup Underway \cup AssignmentTerminal
      BY <1>3, UnitFormed
    <3> QED BY <1>5, <3>1 DEF Settled, AssignmentTerminal
  <2>2. CASE StatusOf(s, a) \in {"REVIEWING", "COMPLETED"}
    <3>1. <<a, n>> \in Counted(s)
      BY <1>5, <2>2 DEF Counted
    <3> QED BY <1>3, <3>1 DEF Tally, Terminal
  <2>3. CASE StatusOf(s, a) \in {"FAILED", "CANCELLED"}
    BY <1>3, <1>5, <2>3 DEF SoundUnit, Outcome, ChildOf, Terminal
  <2> QED BY <2>1, <2>2, <2>3
<1> QED BY <1>2, <1>3, <1>4, <1>5 DEF SoundUnit, ChildrenOf

(***************************************************************************)
(* What the steps are made of.                                             *)
(***************************************************************************)
Places == {"idle", "preflight", "step", "observe", "decide", "skip", "ready", "launch",
           "execute", "collect", "settle", "finish", "fail", "apply"}

ApiType ==
    /\ cascade \subseteq Child
    /\ signal \in BOOLEAN
    /\ crashes \in 0 .. MaxCrashes
    /\ controls \in 0 .. MaxControls

\* No Child runs or waits.
Over(ch) == \A c \in Child : ch[c] \in Terminal \cup {"ABSENT"}

\* Steps leave the API's variables alone.
LEMMA ApiStays ==
    ASSUME ChildRunsTypeOK, UNCHANGED apiVars
    PROVE  ApiType'
BY DEF ChildRunsTypeOK, apiVars, ApiType

\* The coroutine has ended.
LEMMA EndedInv ==
    ASSUME IInv, copy' = NoCopy, fresh' = FALSE, pc' = "idle", queue' = {}, batch' = {},
           host' \in [Child -> {"nobody", "api"}], child' = child, ApiType',
           Sound(row', child), row'.status = "COMPLETED" => Over(child)
    PROVE  IInv'
<1>1. ChildRunsTypeOK'
  BY DEF IInv, ChildRunsTypeOK, ApiType
<1>2. \A c \in Child \ (Assignment \X Attempts) : child'[c] = "ABSENT"
  BY DEF IInv
<1>3. Sound(row', child')
  OBVIOUS
<1>4. Coroutine'
  BY NoCopyIsNone DEF Coroutine, Planned
<1>5. Queued' /\ Slots'
  BY DEF Queued, Slots
<1>6. Completion'
  BY DEF Completion, Over
<1> QED BY <1>1, <1>2, <1>3, <1>4, <1>5, <1>6 DEF IInv

\* Stopped, as the steps use it.
LEMMA StoppedInv ==
    ASSUME IInv, Stopped, child' = child, UNCHANGED apiVars,
           Sound(row', child), row'.status = "COMPLETED" => Over(child)
    PROVE  IInv'
<1>1. ChildRunsTypeOK
  BY DEF IInv
<1>2. host' \in [Child -> {"nobody", "api"}]
  BY <1>1 DEF Stopped, ChildRunsTypeOK
<1>3. ApiType'
  BY <1>1, ApiStays
<1> QED BY <1>2, <1>3, EndedInv DEF Stopped

\* Stop: the row stays as it is.
LEMMA StopInv ==
    ASSUME IInv, Stop, UNCHANGED apiVars
    PROVE  IInv'
<1>1. row' = row /\ child' = child /\ Stopped
  BY DEF Stop
<1>2. Sound(row', child)
  BY <1>1 DEF IInv
<1>3. row'.status = "COMPLETED" => Over(child)
  BY <1>1 DEF IInv, Completion, Over
<1> QED BY <1>1, <1>2, <1>3, StoppedInv

\* A step of a coroutine that has no Children under way, other than to "execute".
LEMMA WorkInv ==
    ASSUME IInv, UNCHANGED <<childVars, apiVars, queue, batch>>, batch = {}, pc # "idle",
           pc' \in Places \ {"idle", "skip", "fail", "observe", "execute", "collect"},
           Sound(row', child), copy' \in Orchestration, fresh' => copy' = row',
           copy'.phase = "planned" => row'.phase = "planned",
           pc' \in Planned => copy'.phase = "planned",
           pc' = "finish" => Settled(copy'),
           row'.status # "COMPLETED", fresh' \in BOOLEAN
    PROVE  IInv'
<1>1. ChildRunsTypeOK /\ child' = child /\ host' = host /\ ApiType'
  BY ApiStays DEF IInv, childVars
<1>2. ChildRunsTypeOK'
  BY <1>1 DEF ChildRunsTypeOK, ApiType, Places
<1>3. \A c \in Child \ (Assignment \X Attempts) : child'[c] = "ABSENT"
  BY <1>1 DEF IInv
<1>4. Sound(row', child')
  BY <1>1
<1>5. Coroutine'
  BY DEF Coroutine, Planned, Places
<1>6. Queued'
  BY DEF Queued
<1>7. Slots'
  BY <1>1 DEF Slots, IInv
<1>8. Completion'
  BY DEF Completion
<1> QED BY <1>2, <1>3, <1>4, <1>5, <1>6, <1>7, <1>8 DEF IInv

\* While the coroutine executes, the Run has not completed.
LEMMA NotCompleted ==
    ASSUME IInv, pc # "idle"
    PROVE  row.status # "COMPLETED"
BY DEF IInv, Completion

\* Goto
LEMMA GotoInv ==
    ASSUME IInv, NEW place \in {"preflight", "ready", "launch", "settle", "finish", "decide"},
           Goto(place), UNCHANGED apiVars, batch = {},
           pc \notin {"idle", "preflight"},
           place \in Planned => pc \in Planned,
           place = "finish" => Settled(copy)
    PROVE  IInv'
<1>1. Coroutine /\ copy \in Orchestration
  BY DEF IInv, Coroutine
<1>2. copy' = copy /\ row' = row /\ fresh' = fresh /\ pc' = place
  BY DEF Goto
<1>3. row'.status # "COMPLETED"
  BY <1>2, NotCompleted
<1>4. Sound(row', child) /\ fresh' \in BOOLEAN
  BY <1>2 DEF IInv, ChildRunsTypeOK
<1>5. /\ fresh' => copy' = row'
      /\ copy'.phase = "planned" => row'.phase = "planned"
      /\ pc' \in Planned => copy'.phase = "planned"
      /\ pc' = "finish" => Settled(copy')
  BY <1>1, <1>2 DEF Coroutine
<1>6. pc' \in Places \ {"idle", "skip", "fail", "observe", "execute", "collect"}
  BY <1>2 DEF Places
<1> QED BY <1>1, <1>2, <1>3, <1>4, <1>5, <1>6, WorkInv DEF Goto, childVars

\* Save, of a change of the copy that is sound if the copy is.
LEMMA SaveInv ==
    ASSUME IInv, NEW new, NEW place \in {"apply", "ready", "launch"},
           Save(new, place), UNCHANGED apiVars, batch = {}, pc \notin {"idle", "preflight"},
           place # "apply" => new.phase = "planned",
           Sound(copy, child) => Sound(new, child),
           copy.status # "COMPLETED" => new.status # "COMPLETED"
    PROVE  IInv'
<1>1. Coroutine /\ copy \in Orchestration /\ Sound(row, child) /\ row.status # "COMPLETED"
  BY NotCompleted DEF IInv, Coroutine
<1>2. CASE fresh /\ row' = new /\ copy' = new /\ pc' = place
           /\ UNCHANGED <<fresh, queue, batch, childVars>>
  <2>1. copy = row
    BY <1>1, <1>2 DEF Coroutine
  <2>2. Sound(row', child) /\ row'.status # "COMPLETED"
    BY <1>1, <1>2, <2>1
  <2>3. copy' \in Orchestration
    BY <1>2, <2>2 DEF Sound
  <2>4. pc' \in Places \ {"idle", "skip", "fail", "observe", "execute", "collect"} /\ pc' # "finish"
    BY <1>2 DEF Places
  <2>5. pc' \in Planned => copy'.phase = "planned"
    BY <1>2 DEF Planned
  <2>6. fresh' \in BOOLEAN
    BY <1>2 DEF IInv, ChildRunsTypeOK
  <2> QED BY <1>2, <2>2, <2>3, <2>4, <2>5, <2>6, WorkInv DEF childVars
<1>3. CASE Stop
  BY <1>3, StopInv
<1> QED BY <1>2, <1>3 DEF Save

\* Conclude, likewise.
LEMMA ConcludeInv ==
    ASSUME IInv, NEW new, NEW status \in {"COMPLETED", "FAILED"}, Conclude(new, status), UNCHANGED apiVars,
           pc \notin {"idle", "preflight"},
           Sound(copy, child) => Sound(new, child), new.status = copy.status,
           status = "COMPLETED" => new = copy /\ Settled(copy)
    PROVE  IInv'
<1>1. Coroutine /\ copy \in Orchestration /\ Sound(row, child)
  BY DEF IInv, Coroutine
<1>2. CASE fresh /\ row.status \notin {"CANCELLED", "INTERRUPTED"}
           /\ row' = [new EXCEPT !.status = status] /\ Stopped /\ child' = child
  <2>1. copy = row /\ Sound(copy, child) /\ Sound(new, child)
    BY <1>1, <1>2 DEF Coroutine
  <2>2. new.status # "CANCELLED" /\ status \in RunStatus /\ status # "CANCELLED"
    BY <1>2, <2>1 DEF RunStatus, Terminal
  <2>3. Sound(row', child)
    BY <1>2, <2>1, <2>2, StatusMoves
  <2>4. row'.status = "COMPLETED" => Over(child)
    <3>1. SUFFICES ASSUME row'.status = "COMPLETED", NEW c \in Child PROVE child[c] \in Terminal \cup {"ABSENT"}
      BY DEF Over
    <3>2. new \in Orchestration
      BY <2>1 DEF Sound
    <3>3. row'.status = status
      BY <1>2, <2>2, <3>2, StatusForm
    <3>4. Settled(copy) /\ copy.status # "CANCELLED"
      BY <2>1, <2>2, <3>1, <3>3
    <3>5. CASE c \in Assignment \X Attempts
      BY <2>1, <3>4, <3>5, SettledChildren
    <3>6. CASE c \notin Assignment \X Attempts
      BY <3>6 DEF IInv
    <3> QED BY <3>5, <3>6
  <2> QED BY <1>2, <2>3, <2>4, StoppedInv
<1>3. CASE Stop
  BY <1>3, StopInv
<1> QED BY <1>2, <1>3 DEF Conclude

(***************************************************************************)
(* The steps of the coroutine.                                             *)
(***************************************************************************)

\* Resume
LEMMA ResumeInv ==
    ASSUME IInv, Resume, UNCHANGED apiVars
    PROVE  IInv'
<1>1. Coroutine /\ Sound(row, child) /\ pc = "idle" /\ copy = NoCopy /\ copy' = copy /\ fresh' = fresh
      /\ pc' = "preflight" /\ row.status \in {"RUNNING", "WAITING_CHILD", "INTERRUPTED"}
      /\ row' = [row EXCEPT !.status = "RUNNING"]
      /\ UNCHANGED <<queue, batch, child, host>>
  BY DEF IInv, Coroutine, Resume, childVars
<1>2. Sound(row', child) /\ row'.status = "RUNNING" /\ row' \in Orchestration /\ row \in Orchestration
  <2>1. "RUNNING" \in RunStatus /\ "RUNNING" # "CANCELLED" /\ row.status # "CANCELLED" /\ row \in Orchestration
    BY <1>1 DEF RunStatus, Sound
  <2>2. Sound(row', child)
    BY <1>1, <2>1, StatusMoves
  <2>3. row'.status = "RUNNING"
    BY <1>1, <2>1, StatusForm
  <2> QED BY <2>1, <2>2, <2>3 DEF Sound
<1>3. ~fresh
  BY <1>1, <1>2, NoCopyIsNone DEF Coroutine
<1>4. ChildRunsTypeOK'
  BY <1>1, ApiStays DEF IInv, ChildRunsTypeOK, ApiType
<1>5. Coroutine'
  BY <1>1, <1>3, NoCopyIsNone DEF Coroutine, Planned
<1>6. Queued' /\ Slots' /\ Completion'
  BY <1>1, <1>2 DEF IInv, Queued, Slots, Completion
<1> QED BY <1>1, <1>2, <1>4, <1>5, <1>6 DEF IInv

\* Preflight
LEMMA PreflightInv ==
    ASSUME IInv, Preflight, UNCHANGED apiVars
    PROVE  IInv'
<1>1. pc = "preflight" /\ Coroutine /\ Sound(row, child) /\ row \in Orchestration /\ batch = {}
  BY DEF IInv, Preflight, Sound, Slots
<1>2. CASE row.status = "RUNNING" /\ row' = [row EXCEPT !.status = "FAILED"] /\ Stopped /\ child' = child
  <2>1. "FAILED" \in RunStatus /\ "FAILED" # "CANCELLED"
    BY DEF RunStatus, Terminal
  <2>2. Sound(row', child)
    BY <1>1, <1>2, <2>1, StatusMoves
  <2>3. row'.status = "FAILED"
    BY <1>1, <1>2, <2>1, StatusForm
  <2> QED BY <1>2, <2>2, <2>3, StoppedInv
<1>3. CASE /\ row.status = "RUNNING" /\ copy' = row /\ fresh' = TRUE /\ pc' = "step"
           /\ UNCHANGED <<row, queue, batch, childVars>>
  <2>1. pc' \in Places \ {"idle", "skip", "fail", "observe", "execute", "collect"} /\ pc' \notin Planned
    BY <1>3 DEF Places, Planned
  <2> QED BY <1>1, <1>3, <2>1, WorkInv DEF Planned
<1>4. CASE Stop
  BY <1>4, StopInv
<1> QED BY <1>2, <1>3, <1>4 DEF Preflight

\* Apply
LEMMA ApplyInv ==
    ASSUME IInv, Apply, UNCHANGED apiVars
    PROVE  IInv'
<1>1. pc = "apply" /\ batch = {}
  BY DEF IInv, Apply, Slots
<1>2. CASE Goto("preflight")
  BY <1>1, <1>2, GotoInv DEF Planned
<1>3. CASE Stop
  BY <1>3, StopInv
<1> QED BY <1>2, <1>3 DEF Apply

\* StartOrchestration
LEMMA StartInv ==
    ASSUME IInv, StartOrchestration, UNCHANGED apiVars
    PROVE  IInv'
<1> DEFINE new == [copy EXCEPT !.phase = "planning"]
<1>1. pc = "step" /\ batch = {} /\ copy \in Orchestration /\ copy.phase # "planned" /\ Save(new, "apply")
  BY DEF IInv, StartOrchestration, Slots, Coroutine
<1>2. new \in Orchestration /\ new.status = copy.status /\ new.unit = copy.unit /\ new.tokens = copy.tokens
  BY <1>1, PhaseForm
<1> HIDE DEF new
<1>3. Sound(copy, child) => Sound(new, child)
  BY <1>1, <1>2, PlanMoves
<1> QED BY <1>1, <1>2, <1>3, SaveInv

\* RoleCallFails
LEMMA RoleCallInv ==
    ASSUME IInv, RoleCallFails, UNCHANGED apiVars, pc \notin {"idle", "preflight"}
    PROVE  IInv'
BY ConcludeInv DEF RoleCallFails

\* CreateAssignments
LEMMA CreateInv ==
    ASSUME IInv, CreateAssignments, UNCHANGED apiVars
    PROVE  IInv'
<1>1. pc = "step" /\ batch = {} /\ copy \in Orchestration /\ copy.phase # "planned"
  BY DEF IInv, CreateAssignments, Slots, Coroutine
<1>2. ASSUME NEW plan \in PlannerOutput, Save([copy EXCEPT !.phase = "planned", !.plan = plan], "apply")
      PROVE  IInv'
  <2> DEFINE new == [copy EXCEPT !.phase = "planned", !.plan = plan]
  <2>1. new \in Orchestration /\ new.status = copy.status /\ new.unit = copy.unit /\ new.tokens = copy.tokens
    BY <1>1, PlanForm
  <2>2. Save(new, "apply")
    BY <1>2
  <2> HIDE DEF new
  <2>3. Sound(copy, child) => Sound(new, child)
    BY <1>1, <2>1, PlanMoves
  <2> QED BY <1>1, <2>1, <2>2, <2>3, SaveInv
<1>3. CASE RoleCallFails
  BY <1>1, <1>3, RoleCallInv
<1> QED BY <1>2, <1>3 DEF CreateAssignments

\* The Child of an assignment.
LEMMA ItsChild ==
    ASSUME NEW s \in Orchestration, NEW a \in Assignment
    PROVE  ChildOf(s, a) \in Child
BY UnitFormed, MultiAgentAssumption DEF ChildOf, Attempts

\* Reconcile
LEMMA ReconcileInv ==
    ASSUME IInv, NEW place \in {"step", "execute"}, NEW observe \in {"observe", "collect"},
           NEW next \in {"decide", "apply"}, Reconcile(place, observe, next), batch = {}, UNCHANGED apiVars
    PROVE  IInv'
<1>1. /\ pc = place /\ copy.phase = "planned" /\ copy \in Orchestration /\ Coroutine
      /\ UNCHANGED <<row, copy, fresh, queue, child, host>>
      /\ batch' = {ChildOf(copy, a) : a \in {a \in Assignment : Observable(copy, a)}}
      /\ pc' = IF {a \in Assignment : Observable(copy, a)} # {} THEN observe ELSE next
  BY DEF IInv, Coroutine, Reconcile, childVars
<1>2. row'.status # "COMPLETED" /\ Sound(row', child)
  BY <1>1, NotCompleted DEF IInv
<1>3. fresh' \in BOOLEAN /\ (fresh' => copy' = row') /\ (copy'.phase = "planned" => row'.phase = "planned")
  BY <1>1 DEF IInv, ChildRunsTypeOK, Coroutine
<1>4. CASE pc' = next /\ batch' = {}
  <2>1. pc' \in Places \ {"idle", "skip", "fail", "observe", "execute", "collect"} /\ pc' # "finish"
    BY <1>4 DEF Places
  <2> QED BY <1>1, <1>2, <1>3, <1>4, <2>1, WorkInv DEF childVars
<1>5. CASE pc' = observe
  <2>1. batch' \subseteq Child
    BY <1>1, ItsChild
  <2>2. ChildRunsTypeOK'
    BY <1>1, <1>5, <2>1, ApiStays DEF IInv, ChildRunsTypeOK, ApiType
  <2>3. Coroutine'
    BY <1>1, <1>3, <1>5, <1>1 DEF Coroutine, Planned
  <2>4. Queued' /\ Completion'
    BY <1>2, <1>5 DEF Queued, Completion
  <2>5. Slots'
    BY <1>1, <1>5 DEF IInv, Slots
  <2> QED BY <1>1, <1>2, <2>2, <2>3, <2>4, <2>5 DEF IInv
<1> QED BY <1>1, <1>4, <1>5

\* ReconcileFirst
LEMMA ReconcileFirstInv ==
    ASSUME IInv, ReconcileFirst, UNCHANGED apiVars
    PROVE  IInv'
<1>1. Reconcile("step", "observe", "decide") /\ pc = "step"
  BY DEF ReconcileFirst, Reconcile
<1>2. batch = {}
  BY <1>1 DEF IInv, Slots
<1> QED BY <1>1, <1>2, ReconcileInv

\* ReconcileAgain
LEMMA ReconcileAgainInv ==
    ASSUME IInv, ReconcileAgain, UNCHANGED apiVars
    PROVE  IInv'
BY ReconcileInv DEF ReconcileAgain

\* What ObserveAssignment makes of the row.
LEMMA ObservedRow ==
    ASSUME IInv, pc # "idle", NEW a \in Assignment, ObserveAssignment(a)
    PROVE  Sound(row', child) /\ row'.phase = row.phase /\ row'.status # "COMPLETED"
<1>1. Sound(row, child) /\ row \in Orchestration /\ row.status # "COMPLETED"
  BY NotCompleted DEF IInv, Sound
<1>2. CASE row' = row
  BY <1>1, <1>2
<1>3. ASSUME row.status \notin Terminal, Observable(row, a)
      PROVE  LET t == ObservedAssignment(row, a)
             IN Sound(t, child) /\ t.phase = row.phase /\ t.status = row.status
  <2>1. child \in ChildType
    BY DEF IInv, ChildRunsTypeOK, ChildType
  <2>2. ChildOf(row, a) \in Child
    BY <1>1, ItsChild
  <2> QED BY <1>1, <1>3, <2>1, <2>2, ObservationMoves
<1>4. CASE row.status \notin Terminal /\ Observable(row, a) /\ row' = ObservedAssignment(row, a)
  BY <1>1, <1>3, <1>4
<1>5. CASE row.status \notin Terminal /\ Observable(row, a)
           /\ row' = [ObservedAssignment(row, a) EXCEPT !.status = "FAILED"]
  <2> DEFINE t == ObservedAssignment(row, a)
  <2>1. Sound(t, child) /\ t.phase = row.phase /\ t.status # "CANCELLED" /\ t \in Orchestration
    BY <1>3, <1>5 DEF Terminal, Sound
  <2>2. row' = [t EXCEPT !.status = "FAILED"]
    BY <1>5
  <2> HIDE DEF t
  <2>3. "FAILED" \in RunStatus /\ "FAILED" # "CANCELLED"
    BY DEF RunStatus, Terminal
  <2>4. Sound(row', child)
    BY <2>1, <2>2, <2>3, StatusMoves
  <2>5. row'.phase = t.phase /\ row'.status = "FAILED"
    BY <2>1, <2>2, <2>3, StatusForm
  <2> QED BY <2>1, <2>4, <2>5
<1> QED BY <1>2, <1>4, <1>5 DEF ObserveAssignment

\* ObserveAssignment
LEMMA ObserveInv ==
    ASSUME IInv, NEW a \in Assignment, ObserveAssignment(a), UNCHANGED apiVars
    PROVE  IInv'
<1>1. /\ pc \in {"observe", "collect"} /\ pc' = pc /\ copy' = copy
      /\ batch' \subseteq batch /\ queue' = queue /\ child' = child /\ host' = host
      /\ fresh' = (fresh /\ row' = row)
  BY DEF ObserveAssignment, childVars
<1>2. Sound(row', child) /\ row'.phase = row.phase /\ row'.status # "COMPLETED"
  BY <1>1, ObservedRow
<1>3. ChildRunsTypeOK'
  BY <1>1, ApiStays DEF IInv, ChildRunsTypeOK, ApiType
<1>4. Coroutine'
  BY <1>1, <1>2 DEF IInv, Coroutine
<1>5. Queued' /\ Slots' /\ Completion'
  BY <1>1, <1>2 DEF IInv, Queued, Slots, Completion
<1> QED BY <1>1, <1>2, <1>3, <1>4, <1>5 DEF IInv

\* AssignmentsReconciled
LEMMA ReconciledInv ==
    ASSUME IInv, AssignmentsReconciled, UNCHANGED apiVars
    PROVE  IInv'
<1>1. /\ pc \in {"observe", "collect"} /\ batch = {} /\ copy' = row /\ row' = row /\ fresh' = TRUE
      /\ pc' \in {"decide", "apply"} /\ UNCHANGED <<childVars, queue, batch>>
  BY DEF AssignmentsReconciled
<1>2. row.phase = "planned" /\ row \in Orchestration /\ Sound(row', child) /\ row'.status # "COMPLETED"
  BY <1>1, NotCompleted DEF IInv, Sound, Coroutine, Planned
<1>3. pc' \in Places \ {"idle", "skip", "fail", "observe", "execute", "collect"} /\ pc' # "finish"
  BY <1>1 DEF Places
<1> QED BY <1>1, <1>2, <1>3, WorkInv

\* Review
LEMMA ReviewInv ==
    ASSUME IInv, Review, UNCHANGED apiVars
    PROVE  IInv'
<1>1. pc = "decide" /\ batch = {} /\ copy \in Orchestration
  BY DEF IInv, Review, Slots, Coroutine
<1>2. CASE RoleCallFails
  BY <1>1, <1>2, RoleCallInv
<1>3. ASSUME NEW a \in Assignment, NEW verdict \in {"approved", "rejected"},
             \/ Save(Judged(copy, a, verdict), "apply")
             \/ Conclude(Judged(copy, a, verdict), "FAILED")
      PROVE  IInv'
  <2> DEFINE new == Judged(copy, a, verdict)
  <2>1. Sound(copy, child) => Sound(new, child) /\ new.status = copy.status
    BY VerdictMoves
  <2>2. new.status = copy.status
    BY <1>1, Formed DEF Judged
  <2>3. Save(new, "apply") \/ Conclude(new, "FAILED")
    BY <1>3
  <2> HIDE DEF new
  <2>4. CASE Save(new, "apply")
    BY <1>1, <2>1, <2>2, <2>4, SaveInv
  <2>5. CASE Conclude(new, "FAILED")
    BY <1>1, <2>1, <2>2, <2>5, ConcludeInv
  <2> QED BY <2>3, <2>4, <2>5
<1> QED BY <1>2, <1>3 DEF Review

\* SettleReview
LEMMA SettleReviewInv ==
    ASSUME IInv, SettleReview, UNCHANGED apiVars
    PROVE  IInv'
<1>1. pc = "decide" /\ batch = {} /\ copy \in Orchestration
  BY DEF IInv, SettleReview, Slots, Coroutine
<1>2. PICK a \in Assignment :
          /\ Earliest(PlanOrder, a, InReview(copy))
          /\ Save(IF copy.unit[a].review = "approved" \/ RetriesUsedUp(copy, a)
                  THEN Accept(copy, a) ELSE Reassign(copy, a), "apply")
  BY DEF SettleReview
<1>3. StatusOf(copy, a) = "REVIEWING"
  BY <1>2 DEF Earliest, InReview
<1>4. CASE Save(Accept(copy, a), "apply")
  <2>1. Sound(copy, child) => Sound(Accept(copy, a), child)
    BY <1>3, AcceptMoves
  <2>2. Accept(copy, a).status = copy.status
    BY <1>1, Formed DEF Accept, With
  <2> QED BY <1>1, <1>4, <2>1, <2>2, SaveInv
<1>5. CASE Save(Reassign(copy, a), "apply") /\ ~RetriesUsedUp(copy, a)
  <2>1. Sound(copy, child) => Sound(Reassign(copy, a), child)
    BY <1>3, <1>5, ReassignMoves
  <2>2. Reassign(copy, a).status = copy.status
    BY <1>1, Formed DEF Reassign
  <2> QED BY <1>1, <1>5, <2>1, <2>2, SaveInv
<1> QED BY <1>2, <1>4, <1>5

\* Became, when it is saved.
LEMMA BecameInv ==
    ASSUME IInv, pc \in {"decide", "ready"}, NEW some \in SUBSET Assignment,
           NEW x \in {"SKIPPED", "ASSIGNED"}, \A a \in some : StatusOf(copy, a) = "PENDING",
           x = "ASSIGNED" => \A a \in some : Provided(copy, a),
           NEW place \in {"ready", "launch"}, Save(Became(copy, some, x), place), UNCHANGED apiVars
    PROVE  IInv'
<1> DEFINE new == Became(copy, some, x)
<1>1. batch = {} /\ copy \in Orchestration /\ copy.phase = "planned" /\ pc \notin {"idle", "preflight"}
  BY DEF IInv, Slots, Coroutine, Planned
<1>2. Sound(copy, child) => Sound(new, child)
  BY <1>1, BecameMoves
<1>3. new.status = copy.status /\ new.phase = copy.phase
  BY <1>1, BecameForm
<1>4. Save(new, place)
  OBVIOUS
<1> HIDE DEF new
<1> QED BY <1>1, <1>2, <1>3, <1>4, SaveInv

\* SkipBlocked
LEMMA SkipInv ==
    ASSUME IInv, SkipBlocked, UNCHANGED apiVars
    PROVE  IInv'
<1>1. pc = "decide" /\ batch = {}
  BY DEF IInv, SkipBlocked, Slots
<1>2. CASE Goto("ready")
  BY <1>1, <1>2, GotoInv DEF Planned
<1>3. CASE Save(Became(copy, BlockedAssignments(copy), "SKIPPED"), "ready")
  <2>1. /\ BlockedAssignments(copy) \in SUBSET Assignment
        /\ \A a \in BlockedAssignments(copy) : StatusOf(copy, a) = "PENDING"
    BY DEF BlockedAssignments
  <2> QED BY <1>1, <1>3, <2>1, BecameInv
<1> QED BY <1>2, <1>3 DEF SkipBlocked

\* PersistReady
LEMMA PersistInv ==
    ASSUME IInv, PersistReady, UNCHANGED apiVars
    PROVE  IInv'
<1>1. pc = "ready" /\ batch = {}
  BY DEF IInv, PersistReady, Slots
<1>2. CASE Goto("launch")
  BY <1>1, <1>2, GotoInv DEF Planned
<1>3. CASE Save(Became(copy, ReadyAssignments(copy), "ASSIGNED"), "launch")
  <2>1. /\ ReadyAssignments(copy) \in SUBSET Assignment
        /\ \A a \in ReadyAssignments(copy) : StatusOf(copy, a) = "PENDING"
        /\ \A a \in ReadyAssignments(copy) : Provided(copy, a)
    BY DEF ReadyAssignments, Provided
  <2> QED BY <1>1, <1>3, <2>1, BecameInv
<1> QED BY <1>2, <1>3 DEF PersistReady

\* LaunchBatch
LEMMA LaunchBatchInv ==
    ASSUME IInv, LaunchBatch, UNCHANGED apiVars
    PROVE  IInv'
<1>1. pc = "launch" /\ batch = {} /\ copy \in Orchestration /\ copy.phase = "planned" /\ Coroutine
      /\ Sound(row, child)
  BY DEF IInv, LaunchBatch, Slots, Coroutine, Planned
<1>2. CASE Goto("settle")
  BY <1>1, <1>2, GotoInv DEF Planned
<1>3. CASE Conclude(copy, "FAILED")
  BY <1>1, <1>3, ConcludeInv
<1>4. CASE Stop
  BY <1>4, StopInv
<1>5. CASE /\ fresh /\ row' = copy /\ pc' = "execute"
           /\ queue' = {ChildOf(copy, a) : a \in LaunchableAssignments(copy)}
           /\ UNCHANGED <<copy, fresh, batch, childVars>>
  <2>1. copy = row /\ row' = row /\ child' = child /\ host' = host
    BY <1>1, <1>5 DEF Coroutine, childVars
  <2>2. ASSUME NEW a \in LaunchableAssignments(copy)
        PROVE  Startable(row, ChildOf(copy, a)) /\ ChildOf(copy, a) \in Child
    <3>1. a \in Assignment /\ StatusOf(copy, a) \in Underway
      BY DEF LaunchableAssignments
    <3>2. Provided(row, a)
      BY <1>1, <2>1, <3>1, AttemptedUnit
    <3>3. StatusOf(row, a) \notin {"PENDING", "SKIPPED"}
      BY <2>1, <3>1 DEF Underway
    <3> QED BY <1>1, <2>1, <3>1, <3>2, <3>3, ItsChild DEF Startable
  <2>3. queue' \subseteq Child /\ \A c \in queue' : Startable(row, c)
    BY <1>5, <2>2
  <2>4. ChildRunsTypeOK'
    BY <1>5, <2>1, <2>3, ApiStays DEF IInv, ChildRunsTypeOK, ApiType
  <2>5. Coroutine'
    BY <1>1, <1>5, <2>1 DEF Coroutine, Planned
  <2>6. Queued'
    BY <2>1, <2>3 DEF Queued
  <2>7. Slots'
    <3>1. IsFiniteSet({}) /\ Cardinality({}) <= MaxParallel
      BY FS_EmptySet, ChildRunsAssumption
    <3> QED BY <1>1, <1>5, <2>1, <3>1 DEF IInv, Slots
  <2>8. Completion'
    BY <1>1, <2>1, NotCompleted DEF Completion
  <2> QED BY <2>1, <2>4, <2>5, <2>6, <2>7, <2>8 DEF IInv
<1> QED BY <1>2, <1>3, <1>4, <1>5 DEF LaunchBatch

\* Launch, where the next Child of the queue starts.
LEMMA StartAssignmentInv ==
    ASSUME IInv, StartAssignment, UNCHANGED apiVars
    PROVE  IInv'
<1>1. PICK c \in queue : Launch(c)
  BY DEF StartAssignment
<1>2. CASE Stop
  BY <1>2, StopInv
<1>3. CASE /\ queue' = queue \ {c} /\ batch' = batch \cup {c}
           /\ child' = [child EXCEPT ![c] = IF @ = "ABSENT" THEN "RUNNING" ELSE @]
           /\ host' = [host EXCEPT ![c] = IF child[c] \in {"ABSENT", "RUNNING"} THEN "parent" ELSE @]
           /\ UNCHANGED <<row, copy, fresh, pc>>
  <2>1. pc = "execute" /\ Room /\ c \in Child /\ Sound(row, child) /\ Startable(row, c)
    BY <1>1 DEF Launch, IInv, ChildRunsTypeOK, Queued
  <2>2. row \in Orchestration /\ c \in Assignment \X Attempts /\ row.phase = "planned"
    <3>1. row \in Orchestration
      BY <2>1 DEF Sound
    <3>2. row.phase = "planned"
      BY <2>1 DEF IInv, Coroutine, Planned
    <3> QED BY <2>1, <3>1, <3>2, NoOthers
  <2>3. child \in ChildType /\ host \in [Child -> {"nobody", "parent", "api"}]
    BY DEF IInv, ChildRunsTypeOK, ChildType
  <2>4. ChildRunsTypeOK'
    BY <1>3, <2>1, <2>3, ApiStays DEF IInv, ChildRunsTypeOK, ApiType, ChildType
  <2>5. \A d \in Child \ (Assignment \X Attempts) : child'[d] = "ABSENT"
    BY <1>3, <2>2, <2>3 DEF IInv, ChildType
  <2>6. Sound(row', child')
    <3>1. ASSUME NEW d \in Child PROVE Evolved(row, child, child', d)
      <4>1. CASE d = c
        BY <1>3, <2>1, <2>2, <2>3, <4>1 DEF Evolved, ChildType
      <4>2. CASE d # c
        BY <1>3, <2>3, <4>2 DEF Evolved, ChildType
      <4> QED BY <4>1, <4>2
    <3> QED BY <1>3, <2>1, <3>1, ChildrenMove
  <2>7. Coroutine'
    BY <1>3 DEF IInv, Coroutine
  <2>8. Queued'
    BY <1>3 DEF IInv, Queued
  <2>9. Slots'
    <3>1. \A d \in Child : host'[d] = "parent" => pc' = "execute" /\ d \in batch'
      BY <1>3, <2>1, <2>3 DEF IInv, Slots
    <3>2. IsFiniteSet(batch) /\ Cardinality(batch) < MaxParallel
      BY <2>1 DEF IInv, Slots, Room
    <3>3. Cardinality(batch) \in Nat
      BY <3>2, FS_CardinalityType
    <3>4. /\ IsFiniteSet(batch \cup {c})
          /\ Cardinality(batch \cup {c}) = IF c \in batch THEN Cardinality(batch) ELSE Cardinality(batch) + 1
      BY <3>2, FS_AddElement
    <3>5. Cardinality(batch \cup {c}) <= MaxParallel
      BY <3>2, <3>3, <3>4, ChildRunsAssumption
    <3> QED BY <1>3, <2>1, <3>1, <3>4, <3>5 DEF Slots
  <2>10. Completion'
    BY <1>3, <2>1, NotCompleted DEF Completion
  <2> QED BY <2>4, <2>5, <2>6, <2>7, <2>8, <2>9, <2>10 DEF IInv
<1> QED BY <1>1, <1>2, <1>3 DEF Launch

\* AssignmentReturned
LEMMA ReturnedInv ==
    ASSUME IInv, NEW c \in Child, AssignmentReturned(c), UNCHANGED apiVars
    PROVE  IInv'
<1>1. /\ pc = "execute" /\ pc' = pc /\ c \in batch /\ host[c] # "parent" /\ batch' = batch \ {c}
      /\ UNCHANGED <<row, copy, fresh, queue, child, host>>
  BY DEF AssignmentReturned, Returned, childVars
<1>2. ChildRunsTypeOK'
  BY <1>1, ApiStays DEF IInv, ChildRunsTypeOK, ApiType
<1>3. Coroutine' /\ Queued' /\ Completion'
  BY <1>1 DEF IInv, Coroutine, Queued, Completion
<1>4. Slots'
  <2>1. IsFiniteSet(batch) /\ Cardinality(batch) <= MaxParallel
    BY <1>1 DEF IInv, Slots
  <2>2. IsFiniteSet(batch') /\ Cardinality(batch') <= Cardinality(batch)
    BY <1>1, <2>1, FS_Subset
  <2>3. Cardinality(batch) \in Nat /\ Cardinality(batch') \in Nat
    BY <2>1, <2>2, FS_CardinalityType
  <2>4. Cardinality(batch') <= MaxParallel
    BY <2>1, <2>2, <2>3, ChildRunsAssumption
  <2> QED BY <1>1, <2>2, <2>4 DEF IInv, Slots
<1> QED BY <1>1, <1>2, <1>3, <1>4 DEF IInv

\* SettleOrchestration
LEMMA SettleInv ==
    ASSUME IInv, SettleOrchestration, UNCHANGED apiVars
    PROVE  IInv'
<1>1. pc = "settle" /\ batch = {} /\ copy \in Orchestration
  BY DEF IInv, SettleOrchestration, Slots, Coroutine
<1>2. CASE ~Settled(copy) /\ Save([copy EXCEPT !.status = "WAITING_CHILD"], "apply")
  <2> DEFINE new == [copy EXCEPT !.status = "WAITING_CHILD"]
  <2>1. PICK a \in Assignment : StatusOf(copy, a) \in Underway
    BY <1>2 DEF Settled
  <2>2. Sound(copy, child) => copy.status # "CANCELLED"
    BY <2>1, AttemptedUnit
  <2>3. "WAITING_CHILD" \in RunStatus /\ "WAITING_CHILD" # "CANCELLED"
    BY DEF RunStatus
  <2>4. new.status = "WAITING_CHILD"
    BY <1>1, <2>3, StatusForm
  <2>5. Sound(copy, child) => Sound(new, child)
    BY <2>2, <2>3, StatusMoves
  <2>6. Save(new, "apply")
    BY <1>2
  <2> HIDE DEF new
  <2> QED BY <1>1, <2>4, <2>5, <2>6, SaveInv
<1>3. CASE Save([copy EXCEPT !.synthesized = TRUE], "apply")
  <2> DEFINE new == [copy EXCEPT !.synthesized = TRUE]
  <2>1. new.status = copy.status
    BY <1>1, SynthesisForm
  <2>2. Sound(copy, child) => Sound(new, child)
    BY SynthesisMoves
  <2>3. Save(new, "apply")
    BY <1>3
  <2> HIDE DEF new
  <2> QED BY <1>1, <2>1, <2>2, <2>3, SaveInv
<1>4. CASE Settled(copy) /\ Goto("finish")
  BY <1>1, <1>4, GotoInv DEF Planned
<1> QED BY <1>2, <1>3, <1>4 DEF SettleOrchestration

\* FinishOrchestration
LEMMA FinishInv ==
    ASSUME IInv, FinishOrchestration, UNCHANGED apiVars
    PROVE  IInv'
<1>1. pc = "finish" /\ Settled(copy)
  BY DEF IInv, FinishOrchestration, Coroutine
<1>2. CASE Conclude(copy, "COMPLETED")
  BY <1>1, <1>2, ConcludeInv
<1>3. CASE Conclude(copy, "FAILED")
  BY <1>1, <1>3, ConcludeInv
<1> QED BY <1>2, <1>3 DEF FinishOrchestration

(***************************************************************************)
(* The Children, the API and the operator.                                 *)
(***************************************************************************)

\* A Child goes on, or ends.
LEMMA ChildGoesOnInv ==
    ASSUME IInv, NEW c \in Child, UNCHANGED <<row, workVars>>, ApiType',
           NEW status, child' = [child EXCEPT ![c] = status],
           \/ status = child[c]
           \/ child[c] \in {"RUNNING"} \cup Parked /\ status \in {"RUNNING"} \cup Parked \cup Terminal,
           NEW by \in {"nobody", "api"}, host' = [host EXCEPT ![c] = by]
    PROVE  IInv'
<1>1. child \in ChildType /\ host \in [Child -> {"nobody", "parent", "api"}]
      /\ UNCHANGED <<row, copy, fresh, pc, queue, batch>>
  BY DEF IInv, ChildRunsTypeOK, ChildType, workVars
<1>2. child' \in ChildType
  BY <1>1 DEF ChildType
<1>3. ChildRunsTypeOK'
  BY <1>1, <1>2 DEF IInv, ChildRunsTypeOK, ApiType, ChildType
<1>4. \A d \in Child : d # c => child'[d] = child[d]
  BY <1>1 DEF ChildType
<1>5. child'[c] = status
  BY <1>1 DEF ChildType
<1>6. child[c] \in Terminal \cup {"ABSENT"} => child'[c] = child[c]
  BY <1>5 DEF Parked, Terminal
<1>7. child[c] \notin Terminal \cup {"ABSENT"} => child'[c] # "ABSENT"
  BY <1>5 DEF Parked, Terminal
<1>8. Sound(row', child')
  <2>1. ASSUME NEW d \in Child PROVE Evolved(row, child, child', d)
    BY <1>4, <1>6, <1>7 DEF Evolved
  <2>2. Sound(row, child)
    BY DEF IInv
  <2> QED BY <1>1, <2>1, <2>2, ChildrenMove
<1>9. \A d \in Child \ (Assignment \X Attempts) : child'[d] = "ABSENT"
  BY <1>4, <1>6 DEF IInv
<1>10. Coroutine' /\ Queued'
  BY <1>1 DEF IInv, Coroutine, Queued
<1>11. Slots'
  BY <1>1 DEF IInv, Slots
<1>12. Completion'
  BY <1>1, <1>4, <1>6 DEF IInv, Completion
<1> QED BY <1>3, <1>8, <1>9, <1>10, <1>11, <1>12 DEF IInv

\* ChildStep
LEMMA ChildStepInv ==
    ASSUME IInv, ChildStep
    PROVE  IInv'
<1>1. PICK c \in Child : ChildEnds(c)
  BY DEF ChildStep
<1>2. PICK end \in {"COMPLETED", "FAILED", "WAITING_APPROVAL", "CANCELLED"} :
          child' = [child EXCEPT ![c] = end]
  BY <1>1 DEF ChildEnds
<1>3. child[c] = "RUNNING" /\ host' = [host EXCEPT ![c] = "nobody"]
  BY <1>1 DEF ChildEnds
<1>4. UNCHANGED <<row, workVars>> /\ ApiType'
  BY ApiStays DEF ChildStep, IInv
<1>5. end \in {"RUNNING"} \cup Parked \cup Terminal
  BY DEF Parked, Terminal
<1> QED BY <1>2, <1>3, <1>4, <1>5, ChildGoesOnInv

\* The row behind the coroutine: it keeps its plan and names the same Children.
LEMMA RowInv ==
    ASSUME IInv, fresh' = FALSE, UNCHANGED <<copy, pc, queue, batch, childVars>>, ApiType',
           Sound(row', child), row'.phase = row.phase, row'.status # "COMPLETED",
           \A c \in Child : Startable(row, c) => Startable(row', c)
    PROVE  IInv'
<1>1. child' = child /\ host' = host
  BY DEF childVars
<1>2. ChildRunsTypeOK'
  BY <1>1 DEF IInv, ChildRunsTypeOK, ApiType
<1>3. Coroutine'
  BY DEF IInv, Coroutine
<1>4. Queued'
  BY DEF IInv, Queued, ChildRunsTypeOK
<1>5. Slots' /\ Completion'
  BY <1>1 DEF IInv, Slots, Completion
<1> QED BY <1>1, <1>2, <1>3, <1>4, <1>5 DEF IInv

\* Interrupt
LEMMA InterruptInv ==
    ASSUME IInv, Interrupt, ApiType'
    PROVE  IInv'
<1>1. Sound(row, child) /\ row \in Orchestration /\ row.status = "RUNNING"
      /\ row' = [row EXCEPT !.status = "INTERRUPTED"] /\ fresh' = FALSE
      /\ UNCHANGED <<copy, pc, queue, batch, childVars>>
  BY DEF IInv, Sound, Interrupt
<1>2. "INTERRUPTED" \in RunStatus /\ "INTERRUPTED" # "CANCELLED" /\ row.status # "CANCELLED"
  BY <1>1 DEF RunStatus
<1>3. row'.status = "INTERRUPTED" /\ row'.phase = row.phase /\ row'.plan = row.plan /\ row'.unit = row.unit
  BY <1>1, <1>2, StatusForm
<1>4. Sound(row', child)
  BY <1>1, <1>2, StatusMoves
<1>5. ASSUME NEW c \in Child, Startable(row, c) PROVE Startable(row', c)
  BY <1>3, <1>5 DEF Startable, ChildOf, StatusOf, Provided, Dependencies, DependencyStatus
<1> QED BY <1>1, <1>3, <1>4, <1>5, RowInv

\* Cancel
LEMMA CancelInv ==
    ASSUME IInv, Cancel(CancelledOrchestration(row), CurrentChildren(row)), ApiType'
    PROVE  IInv'
<1>1. Sound(row, child) /\ row \in Orchestration /\ row' = CancelledOrchestration(row) /\ fresh' = FALSE
      /\ UNCHANGED <<copy, pc, queue, batch, childVars>>
  BY DEF IInv, Sound, Cancel
<1>2. Sound(row', child) /\ row'.phase = row.phase /\ row'.status = "CANCELLED"
  BY <1>1, CancelMoves
<1>3. row'.plan = row.plan
  BY <1>1, CancelledForm
<1>4. ASSUME NEW a \in Assignment
      PROVE  /\ StatusOf(row', a) = IF StatusOf(row, a) \in AssignmentTerminal THEN StatusOf(row, a) ELSE "CANCELLED"
             /\ row'.unit[a].attempt = row.unit[a].attempt
  BY <1>1, CancelledForm
<1>5. ASSUME NEW c \in Child, Startable(row, c) PROVE Startable(row', c)
  <2>1. PICK a \in Assignment :
            c = ChildOf(row, a) /\ StatusOf(row, a) \notin {"PENDING", "SKIPPED"} /\ Provided(row, a)
    BY <1>5 DEF Startable
  <2>2. c = ChildOf(row', a) /\ StatusOf(row', a) \notin {"PENDING", "SKIPPED"}
    BY <1>4, <2>1 DEF ChildOf
  <2>3. \A b \in Assignment : StatusOf(row, b) = "COMPLETED" => StatusOf(row', b) = "COMPLETED"
    BY <1>4 DEF AssignmentTerminal
  <2>4. Provided(row', a)
    BY <1>3, <2>1, <2>3, ProvidedStays
  <2> QED BY <2>2, <2>4 DEF Startable
<1> QED BY <1>1, <1>2, <1>5, RowInv

\* The Children that a cancel names are Children.
LEMMA NamedAreChildren ==
    ASSUME IInv
    PROVE  CurrentChildren(row) \subseteq Child
<1>1. row \in Orchestration
  BY DEF IInv, Sound
<1> QED BY <1>1, ItsChild DEF CurrentChildren

\* Control
LEMMA ControlInv ==
    ASSUME IInv, Control(CancelledOrchestration(row), CurrentChildren(row))
    PROVE  IInv'
<1>1. ChildRunsTypeOK /\ controls' \in 0 .. MaxControls /\ crashes' = crashes
  BY ChildRunsAssumption DEF IInv, ChildRunsTypeOK, Control
<1>2. CASE Interrupt
  <2>1. ApiType'
    BY <1>1, <1>2 DEF Interrupt, ChildRunsTypeOK, ApiType
  <2> QED BY <1>2, <2>1, InterruptInv
<1>3. CASE Cancel(CancelledOrchestration(row), CurrentChildren(row))
  <2>1. ApiType'
    BY <1>1, <1>3, NamedAreChildren DEF Cancel, ChildRunsTypeOK, ApiType
  <2> QED BY <1>3, <2>1, CancelInv
<1>4. ASSUME NEW c \in Child, ResumeChild(c) \/ StopChild(c), UNCHANGED <<row, workVars, cascade, signal>>
      PROVE  IInv'
  <2>1. ApiType'
    BY <1>1, <1>4 DEF ChildRunsTypeOK, ApiType
  <2>2. UNCHANGED <<row, workVars>>
    BY <1>4
  <2>3. CASE ResumeChild(c)
    <3>1. /\ child[c] \in {"RUNNING"} \cup Parked /\ child' = [child EXCEPT ![c] = "RUNNING"]
          /\ host' = [host EXCEPT ![c] = "api"]
      BY <2>3 DEF ResumeChild
    <3> QED BY <2>1, <2>2, <3>1, ChildGoesOnInv
  <2>4. CASE StopChild(c)
    <3>1. child[c] \in {"RUNNING"} \cup Parked /\ host' = [host EXCEPT ![c] = "nobody"]
      BY <2>4 DEF StopChild
    <3>2. PICK end \in {"CANCELLED", "INTERRUPTED"} : child' = [child EXCEPT ![c] = end]
      BY <2>4 DEF StopChild
    <3>3. end \in {"RUNNING"} \cup Parked \cup Terminal
      BY DEF Parked, Terminal
    <3> QED BY <2>1, <2>2, <3>1, <3>2, <3>3, ChildGoesOnInv
  <2> QED BY <1>4, <2>3, <2>4
<1> QED BY <1>2, <1>3, <1>4 DEF Control

\* Converge
LEMMA ConvergeInv ==
    ASSUME IInv, Converge
    PROVE  IInv'
<1>1. ChildRunsTypeOK /\ UNCHANGED <<crashes, controls>>
  BY DEF IInv, Converge
<1>2. ASSUME NEW c \in Child, CancelChild(c), UNCHANGED <<row, workVars>>
      PROVE  IInv'
  <2>1. ApiType'
    BY <1>1, <1>2 DEF CancelChild, ChildRunsTypeOK, ApiType
  <2>2. host' = [host EXCEPT ![c] = "nobody"]
    BY <1>2 DEF CancelChild
  <2>3. CASE child[c] \in Terminal \cup {"ABSENT"}
    <3>1. child' = [child EXCEPT ![c] = child[c]]
      BY <1>2, <2>3 DEF CancelChild
    <3> QED BY <1>2, <2>1, <2>2, <3>1, ChildGoesOnInv
  <2>4. CASE child[c] \notin Terminal \cup {"ABSENT"}
    <3>1. child' = [child EXCEPT ![c] = "CANCELLED"]
      BY <1>2, <2>4 DEF CancelChild
    <3>2. child[c] \in {"RUNNING"} \cup Parked /\ "CANCELLED" \in {"RUNNING"} \cup Parked \cup Terminal
      BY <1>1, <2>4 DEF ChildRunsTypeOK, Terminal
    <3> QED BY <1>2, <2>1, <2>2, <3>1, <3>2, ChildGoesOnInv
  <2> QED BY <2>3, <2>4
<1>3. CASE SignalParent
  <2>1. ApiType' /\ UNCHANGED <<crashes, controls, cascade>>
    BY <1>1, <1>3 DEF SignalParent, ChildRunsTypeOK, ApiType
  <2>2. CASE UNCHANGED <<row, workVars, childVars>>
    <3>1. UNCHANGED <<row, copy, fresh, pc, queue, batch, child, host>>
      BY <2>2 DEF workVars, childVars
    <3>2. ChildRunsTypeOK'
      BY <1>1, <2>1, <3>1 DEF ChildRunsTypeOK, ApiType
    <3> QED BY <3>1, <3>2 DEF IInv, Coroutine, Queued, Slots, Completion
  <2>3. CASE Stop
    <3>1. row' = row /\ child' = child /\ host' \in [Child -> {"nobody", "api"}]
          /\ copy' = NoCopy /\ fresh' = FALSE /\ pc' = "idle" /\ queue' = {} /\ batch' = {}
      BY <1>1, <2>3 DEF Stop, Stopped, ChildRunsTypeOK
    <3>2. Sound(row', child) /\ (row'.status = "COMPLETED" => Over(child))
      BY <3>1 DEF IInv, Completion, Over
    <3> QED BY <2>1, <3>1, <3>2, EndedInv
  <2> QED BY <1>3, <2>2, <2>3 DEF SignalParent
<1> QED BY <1>2, <1>3 DEF Converge

\* Crash
LEMMA CrashInv ==
    ASSUME IInv, Crash
    PROVE  IInv'
<1>1. ChildRunsTypeOK
  BY DEF IInv
<1>2. ApiType'
  <2>1. crashes' \in 0 .. MaxCrashes
    <3>1. crashes < MaxCrashes /\ crashes' = crashes + 1 /\ MaxCrashes \in Nat /\ crashes \in 0 .. MaxCrashes
      BY <1>1, ChildRunsAssumption DEF Crash, ChildRunsTypeOK
    <3> QED BY <3>1
  <2>2. cascade' = {} /\ signal' = FALSE /\ controls' = controls /\ controls \in 0 .. MaxControls
    BY <1>1 DEF Crash, ChildRunsTypeOK
  <2> QED BY <2>1, <2>2 DEF ApiType
<1>3. row' = row /\ child' = child /\ host' \in [Child -> {"nobody", "api"}]
      /\ copy' = NoCopy /\ fresh' = FALSE /\ pc' = "idle" /\ queue' = {} /\ batch' = {}
  BY DEF Crash
<1>4. Sound(row', child) /\ (row'.status = "COMPLETED" => Over(child))
  BY <1>3 DEF IInv, Completion, Over
<1> QED BY <1>2, <1>3, <1>4, EndedInv

(***************************************************************************)
(* The theorems.                                                           *)
(***************************************************************************)

\* The steps of the coroutine.
LEMMA StepInv ==
    ASSUME IInv, MultiAgentStep
    PROVE  IInv'
<1>1. UNCHANGED apiVars
  BY DEF MultiAgentStep
<1>2. CASE Resume \/ Preflight \/ Apply
  BY <1>1, <1>2, ResumeInv, PreflightInv, ApplyInv
<1>3. CASE StartOrchestration \/ CreateAssignments
  BY <1>1, <1>3, StartInv, CreateInv
<1>4. CASE ReconcileFirst \/ ReconcileAgain \/ AssignmentsReconciled
  BY <1>1, <1>4, ReconcileFirstInv, ReconcileAgainInv, ReconciledInv
<1>5. ASSUME NEW a \in Assignment, ObserveAssignment(a) PROVE IInv'
  BY <1>1, <1>5, ObserveInv
<1>6. CASE Review \/ SettleReview
  BY <1>1, <1>6, ReviewInv, SettleReviewInv
<1>7. CASE SkipBlocked \/ PersistReady \/ LaunchBatch
  BY <1>1, <1>7, SkipInv, PersistInv, LaunchBatchInv
<1>8. CASE StartAssignment
  BY <1>1, <1>8, StartAssignmentInv
<1>9. ASSUME NEW c \in Child, AssignmentReturned(c) PROVE IInv'
  BY <1>1, <1>9, ReturnedInv
<1>10. CASE SettleOrchestration \/ FinishOrchestration
  BY <1>1, <1>10, SettleInv, FinishInv
<1> QED BY <1>2, <1>3, <1>4, <1>5, <1>6, <1>7, <1>8, <1>9, <1>10 DEF MultiAgentStep

\* A new RunState.
LEMMA NewIsSound ==
    ASSUME NEW ch, \A p \in Assignment \X Attempts : ch[p] = "ABSENT"
    PROVE  Sound(NewOrchestration, ch)
<1> DEFINE s == NewOrchestration
<1>1. s.status = "RUNNING" /\ s.phase = "new" /\ s.tokens = 0
      /\ \A a \in Assignment : s.unit[a] = [status |-> "PENDING", attempt |-> 1, review |-> "none"]
  BY DEF NewOrchestration
<1>2. s \in Orchestration
  BY MultiAgentAssumption DEF NewOrchestration, Orchestration, AssignmentState
<1>3. \A a \in Assignment : StatusOf(s, a) = "PENDING" /\ s.unit[a].attempt = 1
  BY <1>1 DEF StatusOf
<1> HIDE DEF s
<1>4. ASSUME NEW a \in Assignment PROVE SoundUnit(s, ch, a)
  <2>1. Unplanned(s, ch, a)
    BY <1>3 DEF Unplanned
  <2>2. ~Attempted(s, a)
    BY <1>3 DEF Attempted, Underway
  <2>3. ChildrenOf(s, ch, a)
    BY DEF ChildrenOf
  <2>4. Outcome(s, ch, a)
    BY <1>1, <1>3 DEF Outcome
  <2> QED BY <2>1, <2>2, <2>3, <2>4 DEF SoundUnit
<1>5. Counted(s) = {}
  <2>1. \A n \in Attempts : ~(n < 1)
    BY MultiAgentAssumption DEF Attempts
  <2> QED BY <1>3, <2>1 DEF Counted
<1>6. Tally(s, ch)
  BY <1>1, <1>5, FS_EmptySet DEF Tally
<1> QED BY <1>2, <1>4, <1>6 DEF Sound, s

\* IInv holds of the initial states.
LEMMA InitInv ==
    ASSUME MultiAgentInit
    PROVE  IInv
<1>1. /\ row = NewOrchestration /\ copy = NoCopy /\ fresh = FALSE /\ pc = "idle" /\ queue = {} /\ batch = {}
      /\ child = [c \in Child |-> "ABSENT"] /\ host = [c \in Child |-> "nobody"]
      /\ cascade = {} /\ signal = FALSE /\ crashes = 0 /\ controls = 0
  BY DEF MultiAgentInit, ChildRunsInit
<1>2. ChildRunsTypeOK
  <2>1. 0 \in 0 .. MaxCrashes /\ 0 \in 0 .. MaxControls
    BY ChildRunsAssumption
  <2> QED BY <1>1, <2>1 DEF ChildRunsTypeOK
<1>3. Sound(row, child)
  <2>1. \A p \in Assignment \X Attempts : child[p] = "ABSENT"
    BY <1>1, MultiAgentAssumption DEF Attempts
  <2> QED BY <1>1, <2>1, NewIsSound
<1>4. Coroutine
  BY <1>1, NoCopyIsNone DEF Coroutine, Planned
<1>5. Queued /\ Slots
  BY <1>1 DEF Queued, Slots
<1>6. Completion
  BY <1>1 DEF Completion
<1> QED BY <1>1, <1>2, <1>3, <1>4, <1>5, <1>6 DEF IInv

\* IInv is an invariant of the strategy, whatever is assumed of fairness.
LEMMA Invariance == MultiAgentSpec => []IInv
<1>1. MultiAgentInit => IInv
  BY InitInv
<1>2. IInv /\ [MultiAgentNext]_orchestrationVars => IInv'
  <2>1. ASSUME IInv, MultiAgentNext PROVE IInv'
    BY <2>1, StepInv, ChildStepInv, ControlInv, ConvergeInv, CrashInv DEF MultiAgentNext
  <2>2. ASSUME IInv, UNCHANGED orchestrationVars PROVE IInv'
    <3>1. UNCHANGED <<row, copy, fresh, pc, queue, batch, child, host, cascade, signal, crashes, controls>>
      BY <2>2 DEF orchestrationVars, workVars, childVars, apiVars
    <3>2. ChildRunsTypeOK'
      BY <2>2, <3>1 DEF IInv, ChildRunsTypeOK
    <3> QED BY <2>2, <3>1, <3>2 DEF IInv, Coroutine, Queued, Slots, Completion
  <2> QED BY <2>1, <2>2
<1> QED BY <1>1, <1>2, PTL DEF MultiAgentSpec

\* No Child of an assignment exists before every dependency of it was accepted, each
\* Child that exists is the one its assignment names or an attempt that was rejected,
\* and the Parent's tokens are those of the results that were observed, each once:
\* over observers that race, interrupts, cancels, crashes and retries
\* (_observe_child, _persist_ready_assignments, _review, on_cancel).
THEOREM AssignmentsSettled == MultiAgentSpec => []AssignmentsAreSettled
<1>1. IInv => AssignmentsAreSettled
  <2> SUFFICES ASSUME IInv PROVE AssignmentsAreSettled
    OBVIOUS
  <2>1. Sound(row, child) /\ row \in Orchestration /\ \A a \in Assignment : SoundUnit(row, child, a)
    BY DEF IInv, Sound
  <2>2. MultiAgentTypeOK
    BY <2>1 DEF IInv, Coroutine, MultiAgentTypeOK
  <2>3. DependenciesComeFirst
    BY <2>1 DEF DependenciesComeFirst, SoundUnit, ChildrenOf, Provided, Attempts
  <2>4. ResultsCountOnce
    BY <2>1 DEF ResultsCountOnce, Sound, Tally, Counted, Attempts
  <2>5. ChildrenAreNamed
    BY <2>1 DEF ChildrenAreNamed, SoundUnit, ChildrenOf, Attempts
  <2> QED BY <2>2, <2>3, <2>4, <2>5 DEF AssignmentsAreSettled
<1> QED BY <1>1, Invariance, PTL

\* A Parent never executes more Children than it has slots, those that a restart
\* resumes included, and completes only when no Child of any attempt runs or waits
\* (execute, _wait_for_children, _complete).
THEOREM ChildrenSettled == MultiAgentSpec => []ChildrenAreSettled
<1>1. IInv => ChildrenAreSettled
  <2> SUFFICES ASSUME IInv PROVE ChildrenAreSettled
    OBVIOUS
  <2> DEFINE executed == {c \in Child : host[c] = "parent"}
  <2>1. Cardinality(executed) <= MaxParallel
    <3>1. CASE pc = "execute"
      <4>1. executed \subseteq batch /\ IsFiniteSet(batch) /\ Cardinality(batch) <= MaxParallel
        BY <3>1 DEF IInv, Slots
      <4>2. IsFiniteSet(executed) /\ Cardinality(executed) <= Cardinality(batch)
        BY <4>1, FS_Subset
      <4>3. Cardinality(executed) \in Nat /\ Cardinality(batch) \in Nat
        BY <4>1, <4>2, FS_CardinalityType
      <4> QED BY <4>1, <4>2, <4>3, ChildRunsAssumption
    <3>2. CASE pc # "execute"
      <4>1. executed = {}
        BY <3>2 DEF IInv, Slots
      <4> QED BY <4>1, FS_EmptySet, ChildRunsAssumption
    <3> QED BY <3>1, <3>2
  <2>2. CompletionIsSettled
    BY DEF IInv, Completion, CompletionIsSettled
  <2> QED BY <2>1, <2>2 DEF ChildrenAreSettled, ParallelismIsBounded
<1> QED BY <1>1, Invariance, PTL
=============================================================================
