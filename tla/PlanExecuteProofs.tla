-------------------------- MODULE PlanExecuteProofs --------------------------
(***************************************************************************)
(* Proofs about PlanExecute, for any tasks, plans and limits.              *)
(*                                                                         *)
(* Most of the inductive invariant IInv is Sound, a predicate of a         *)
(* RunState and the Children: it is about the row, and about the copy as   *)
(* far as the copy is the row.  Coroutine says what else the step loop     *)
(* knows: the row behind its copy has the same version of the plan, and    *)
(* names the same Children.                                                *)
(***************************************************************************)
EXTENDS PlanExecute, FiniteSetTheorems, TLAPS

Versions == 1 .. MaxReplans + 1

\* The status of a task agrees with its Child's, where ch is the status of each Child.
\* A task that has a Child of an earlier version was kept.
StatusFits(s, ch, t) ==
    /\ s.task[t].in <= s.version
    /\ t \notin Tasks(s) => s.task[t].in = 0
    /\ s.task[t].in = 0 => TaskStatus(s, t) \in {"PENDING", "SKIPPED", "CANCELLED"}
    /\ s.task[t].in # 0 /\ s.task[t].in < s.version => TaskStatus(s, t) = "COMPLETED"
    /\ s.task[t].in # 0 /\ TaskStatus(s, t) \in {"PENDING", "SKIPPED"} => ch[TaskChild(s, t)] = "ABSENT"
    /\ TaskStatus(s, t) = "COMPLETED" => ch[TaskChild(s, t)] = "COMPLETED"
    /\ s.status # "CANCELLED" /\ TaskStatus(s, t) \in {"FAILED", "CANCELLED"} =>
          s.task[t].in # 0 /\ ch[TaskChild(s, t)] = TaskStatus(s, t)

\* The Children of the earlier versions have ended.
Superseded(s, ch) ==
    \A t \in Task, v \in Versions : v < s.version => ch[<<t, v>>] \in Terminal \cup {"ABSENT"}

\* A Parent that was cancelled while it observed its Children still replans once; the
\* version it makes names no Child, and those of the version before may not have ended yet.
Abandoned(s) == s.status = "CANCELLED" /\ \A t \in Task : s.task[t].in # s.version

\* A Child of the current version is the one its task names; the others have ended.
ChildrenFit(s, ch, t) ==
    \A v \in Versions : ch[<<t, v>>] # "ABSENT" =>
        \/ v = s.version /\ s.task[t].in = v
        \/ v < s.version /\ ch[<<t, v>>] \in Terminal
        \/ v + 1 = s.version /\ Abandoned(s)

\* What the version before completed is the work of this one, too.
WorkIsKept(s, ch, t) ==
    \A v \in Versions : v + 1 = s.version /\ t \in Tasks(s) /\ ch[<<t, v>>] = "COMPLETED" =>
        s.task[t].in = v \/ Abandoned(s)

\* The dependencies of a task that was scheduled were met.
Met(s, t) == \A d \in s.plan[t] : TaskStatus(s, d) = "COMPLETED"

Provided(s, t) == t \in Tasks(s) /\ s.task[t].in = s.version => Met(s, t)

SoundTask(s, ch, t) ==
    /\ StatusFits(s, ch, t)
    /\ ChildrenFit(s, ch, t)
    /\ WorkIsKept(s, ch, t)
    /\ Provided(s, t)

\* The Children whose results may have been added to the Parent's tokens, and were.
Countable(s, ch) ==
    {p \in Task \X Versions :
        /\ ch[p] = "COMPLETED"
        /\ \/ p[2] < s.version
           \/ p[2] = s.task[p[1]].in /\ TaskStatus(s, p[1]) = "COMPLETED"}

Tallies(s, ch, counted) ==
    /\ counted \subseteq Countable(s, ch)
    /\ \A t \in Tasks(s) : TaskStatus(s, t) = "COMPLETED" => TaskChild(s, t) \in counted
    /\ s.tokens = Cardinality(counted)

Sound(s, ch) ==
    /\ s \in Plan
    /\ s.version = 0 => Tasks(s) = {}
    /\ \A t \in Task : SoundTask(s, ch, t)
    /\ \E counted \in SUBSET (Task \X Versions) : Tallies(s, ch, counted)

(***************************************************************************)
(* The coroutine.                                                          *)
(***************************************************************************)
ChildType == [Child -> {"ABSENT", "RUNNING"} \cup Parked \cup Terminal]

\* The row r behind a copy s has the same plan; a task that ran has not become one that waits.
SamePlan(r, s) ==
    /\ r.version = s.version
    /\ r.plan = s.plan
    /\ \A t \in Task :
          /\ r.task[t].in = s.task[t].in
          /\ TaskStatus(s, t) = "RUNNING" =>
                /\ s.task[t].in = s.version /\ s.version # 0
                /\ TaskStatus(r, t) \notin {"PENDING", "SKIPPED"}

\* A cancel leaves no task that waits or runs.
Quenched(s) == \A t \in Tasks(s) : TaskStatus(s, t) \in TaskTerminal

Deciding == {"decide", "skip", "launch", "settle", "finish", "fail"}

\* What the step loop knows of its copy and of the row.
Coroutine ==
    /\ copy \in Plan \cup {NoCopy}
    /\ pc \in {"idle", "preflight", "step", "observe", "decide", "skip", "launch", "execute",
               "collect", "settle", "finish", "fail", "apply"}
    /\ pc = "idle" => copy = NoCopy
    /\ pc \notin {"idle", "preflight"} => copy \in Plan
    /\ fresh => copy = row
    /\ copy \in Plan => SamePlan(row, copy)
    /\ pc = "finish" => AllCompleted(copy)
    /\ pc = "launch" => ~HasFailed(copy)
    /\ pc \in {"step", "decide", "launch"} /\ row.status = "RUNNING" => fresh
    /\ pc \in {"step", "observe"} => copy.status = "RUNNING"
    /\ pc \in Deciding /\ copy.status = "CANCELLED" => Quenched(copy)
    /\ row.status = "CANCELLED" => Quenched(row) \/ pc \in {"apply", "idle"}
    /\ pc \notin {"apply", "idle"} => Superseded(row, child)

\* A Child that a task names may be started.
Startable(s, c) ==
    /\ c \in Task \X Versions
    /\ c[2] = s.version /\ s.task[c[1]].in = s.version
    /\ TaskStatus(s, c[1]) \notin {"PENDING", "SKIPPED"}

\* So are the Children that are about to be started, and no failure is known then.
Queued ==
    /\ pc # "execute" => queue = {}
    /\ \A c \in queue : Startable(row, c)
    /\ queue # {} /\ row.status = "RUNNING" => ~HasFailed(row)

\* The Children that the Parent executes have a slot each.
Slots ==
    /\ \A c \in Child : host[c] = "parent" => pc = "execute" /\ c \in batch
    /\ pc = "execute" => IsFiniteSet(batch) /\ Cardinality(batch) <= MaxParallel
    /\ pc \notin {"observe", "collect", "execute"} => batch = {}

Completion == row.status = "COMPLETED" => pc = "idle" /\ AllCompleted(row)

IInv ==
    /\ ChildRunsTypeOK
    /\ \A c \in Child \ (Task \X Versions) : child[c] = "ABSENT"
    /\ Sound(row, child)
    /\ Coroutine
    /\ Queued
    /\ Slots
    /\ Completion

(***************************************************************************)
(* The RunState, and what changes of it are made of.                       *)
(***************************************************************************)
RunStatus == {"RUNNING", "WAITING_CHILD", "INTERRUPTED"} \cup Terminal

TaskStatuses == {"PENDING", "RUNNING"} \cup TaskTerminal

\* The fields of a RunState.
LEMMA Formed ==
    ASSUME NEW s \in Plan
    PROVE  /\ DOMAIN s = {"strategy", "status", "version", "plan", "task", "tokens"}
           /\ s.strategy = "plan_execute"
           /\ s.status \in RunStatus
           /\ s.version \in 0 .. MaxReplans + 1
           /\ s.plan \in PlanOutput \cup {<<>>}
           /\ s.task \in [Task -> TaskState]
           /\ s.tokens \in Nat
BY Zenon DEF Plan, RunStatus

\* A RunState has a status, unlike no copy.
LEMMA NoCopyIsNone == NoCopy \notin Plan
BY DEF NoCopy, Plan

\* What a task is.
LEMMA TaskFormed ==
    ASSUME NEW s \in Plan, NEW t \in Task
    PROVE  /\ s.task[t] \in TaskState
           /\ TaskStatus(s, t) \in TaskStatuses
           /\ s.task[t].in \in 0 .. MaxReplans + 1
           /\ s.task[t].in # 0 => s.task[t].in \in Versions
<1>1. s.task[t] \in TaskState
  BY Formed
<1>2. TaskStatus(s, t) \in TaskStatuses /\ s.task[t].in \in 0 .. MaxReplans + 1
  BY <1>1 DEF TaskState, TaskStatus, TaskStatuses
<1>3. s.task[t].in # 0 => s.task[t].in \in Versions
  BY <1>2, PlanExecuteAssumption DEF Versions
<1> QED BY <1>1, <1>2, <1>3

\* A plan's tasks depend on each other.
LEMMA PlanFormed ==
    ASSUME NEW s \in Plan
    PROVE  Tasks(s) \subseteq Task /\ \A t \in Tasks(s) : s.plan[t] \subseteq Tasks(s)
<1>1. CASE s.plan \in PlanOutput
  BY <1>1, PlanExecuteAssumption DEF Tasks
<1>2. CASE s.plan = <<>>
  BY <1>2 DEF Tasks
<1> QED BY <1>1, <1>2, Formed

\* The status of the Run.
LEMMA StatusForm ==
    ASSUME NEW s \in Plan, NEW x \in RunStatus, NEW t, t = [s EXCEPT !.status = x]
    PROVE  /\ t \in Plan
           /\ t.status = x /\ t.version = s.version /\ t.plan = s.plan /\ t.task = s.task
           /\ t.tokens = s.tokens
BY DEF Plan, RunStatus

\* Its tasks.
LEMMA TasksForm ==
    ASSUME NEW s \in Plan, NEW u \in [Task -> TaskState], NEW t, t = [s EXCEPT !.task = u]
    PROVE  /\ t \in Plan
           /\ t.status = s.status /\ t.version = s.version /\ t.plan = s.plan /\ t.task = u
           /\ t.tokens = s.tokens
BY DEF Plan

\* The number of results that were counted.
LEMMA TokensForm ==
    ASSUME NEW s \in Plan, NEW n \in Nat, NEW t, t = [s EXCEPT !.tokens = n]
    PROVE  /\ t \in Plan
           /\ t.status = s.status /\ t.version = s.version /\ t.plan = s.plan /\ t.task = s.task
           /\ t.tokens = n
BY DEF Plan

(***************************************************************************)
(* Changes of the tasks.                                                   *)
(***************************************************************************)

\* A RunState has the version and the plan of another, and its tasks name the same
\* Children, or a first one that may start.
SameWork(s, t) ==
    /\ t \in Plan
    /\ t.version = s.version
    /\ t.plan = s.plan
    /\ s.status = "CANCELLED" => t.status = "CANCELLED"
    /\ \A a \in Task :
          /\ TaskStatus(s, a) = "COMPLETED" => TaskStatus(t, a) = "COMPLETED"
          /\ \/ t.task[a].in = s.task[a].in
             \/ /\ s.task[a].in = 0 /\ t.task[a].in = s.version /\ s.status # "CANCELLED"
                /\ a \in Tasks(s) /\ Met(s, a)

\* A task that keeps its status and its Child still agrees with it.
LEMMA FitsStill ==
    ASSUME NEW s, NEW t, NEW ch, NEW a \in Task, StatusFits(s, ch, a),
           t.version = s.version, t.plan = s.plan, TaskStatus(t, a) = TaskStatus(s, a),
           t.task[a].in = s.task[a].in, t.status # "CANCELLED" => s.status # "CANCELLED"
    PROVE  StatusFits(t, ch, a)
BY DEF StatusFits, TaskChild, Tasks

\* A change of the tasks of a plan.
LEMMA TasksMove ==
    ASSUME NEW s, NEW ch, Sound(s, ch), NEW t, SameWork(s, t),
           \A a \in Task : StatusFits(t, ch, a),
           \E counted \in SUBSET (Task \X Versions) : Tallies(t, ch, counted)
    PROVE  Sound(t, ch)
<1>1. s \in Plan /\ t \in Plan /\ t.version = s.version /\ t.plan = s.plan /\ Tasks(t) = Tasks(s)
      /\ Tasks(s) \subseteq Task
  BY PlanFormed DEF Sound, SameWork, Tasks
<1>2. ASSUME NEW a \in Task, t.task[a].in # s.task[a].in
      PROVE  /\ s.task[a].in = 0 /\ t.task[a].in = s.version /\ s.version # 0 /\ s.status # "CANCELLED"
             /\ a \in Tasks(s) /\ Met(s, a)
  <2>1. s.task[a].in = 0 /\ t.task[a].in = s.version /\ s.status # "CANCELLED" /\ a \in Tasks(s) /\ Met(s, a)
    BY <1>2 DEF SameWork
  <2> QED BY <1>2, <2>1
<1>3. Abandoned(s) => Abandoned(t)
  BY <1>1, <1>2 DEF Abandoned, SameWork
<1>4. ASSUME NEW a \in Task, NEW v \in Versions, s.task[a].in = v PROVE t.task[a].in = v
  <2>1. v # 0
    BY PlanExecuteAssumption DEF Versions
  <2> QED BY <1>2, <1>4, <2>1
<1>5. ASSUME NEW a \in Task PROVE SoundTask(t, ch, a)
  <2>1. SoundTask(s, ch, a)
    BY DEF Sound
  <2>2. ChildrenFit(t, ch, a)
    BY <1>1, <1>3, <1>4, <2>1 DEF SoundTask, ChildrenFit
  <2>3. WorkIsKept(t, ch, a)
    BY <1>1, <1>3, <1>4, <2>1 DEF SoundTask, WorkIsKept
  <2>4. Provided(t, a)
    <3>1. SUFFICES ASSUME a \in Tasks(t), t.task[a].in = t.version PROVE Met(t, a)
      BY DEF Provided
    <3>2. Met(s, a)
      BY <1>1, <1>2, <2>1, <3>1 DEF SoundTask, Provided
    <3>3. s.plan[a] \subseteq Task
      BY <1>1, <3>1, PlanFormed
    <3> QED BY <1>1, <3>2, <3>3 DEF Met, SameWork
  <2> QED BY <2>2, <2>3, <2>4 DEF SoundTask
<1>6. t.version = 0 => Tasks(t) = {}
  BY <1>1 DEF Sound
<1> QED BY <1>1, <1>5, <1>6 DEF Sound

\* The same results are counted.
LEMMA SameTally ==
    ASSUME NEW s, NEW ch, Sound(s, ch), NEW t, SameWork(s, t), t.tokens = s.tokens,
           \A a \in Task : TaskStatus(t, a) = "COMPLETED" => TaskStatus(s, a) = "COMPLETED"
    PROVE  \E counted \in SUBSET (Task \X Versions) : Tallies(t, ch, counted)
<1>1. PICK counted \in SUBSET (Task \X Versions) : Tallies(s, ch, counted)
  BY DEF Sound
<1>2. s \in Plan /\ Tasks(t) = Tasks(s) /\ Tasks(s) \subseteq Task /\ t.version = s.version
  BY PlanFormed DEF Sound, SameWork, Tasks
<1>3. ASSUME NEW a \in Task, TaskStatus(s, a) = "COMPLETED" PROVE t.task[a].in = s.task[a].in
  BY <1>3 DEF Sound, SoundTask, StatusFits, SameWork
<1>4. ASSUME NEW p \in Countable(s, ch) PROVE p \in Countable(t, ch)
  <2>1. p \in Task \X Versions /\ p[1] \in Task
    BY DEF Countable
  <2>2. TaskStatus(s, p[1]) = "COMPLETED" =>
            TaskStatus(t, p[1]) = "COMPLETED" /\ t.task[p[1]].in = s.task[p[1]].in
    BY <1>3, <2>1 DEF SameWork
  <2> QED BY <1>2, <2>1, <2>2 DEF Countable
<1>5. ASSUME NEW a \in Tasks(t), TaskStatus(t, a) = "COMPLETED" PROVE TaskChild(t, a) \in counted
  <2>1. a \in Task /\ a \in Tasks(s) /\ TaskStatus(s, a) = "COMPLETED"
    BY <1>2, <1>5
  <2>2. TaskChild(t, a) = TaskChild(s, a)
    BY <1>3, <2>1 DEF TaskChild
  <2> QED BY <1>1, <2>1, <2>2 DEF Tallies
<1>6. counted \subseteq Countable(t, ch)
  BY <1>1, <1>4 DEF Tallies
<1>7. Tallies(t, ch, counted)
  BY <1>1, <1>5, <1>6 DEF Tallies
<1> QED BY <1>7

\* The status of the Run changes, but not to or from CANCELLED.
LEMMA StatusMoves ==
    ASSUME NEW s, NEW ch, Sound(s, ch), NEW x \in RunStatus, x # "CANCELLED", s.status # "CANCELLED",
           NEW t, t = [s EXCEPT !.status = x]
    PROVE  Sound(t, ch)
<1>1. s \in Plan
  BY DEF Sound
<1>2. /\ t \in Plan
      /\ t.status = x /\ t.version = s.version /\ t.plan = s.plan /\ t.task = s.task /\ t.tokens = s.tokens
  BY <1>1, StatusForm
<1>3. SameWork(s, t)
  BY <1>2 DEF SameWork, TaskStatus
<1>4. \A a \in Task : TaskStatus(t, a) = TaskStatus(s, a) /\ t.task[a].in = s.task[a].in
  BY <1>2 DEF TaskStatus
<1>5. ASSUME NEW a \in Task PROVE StatusFits(t, ch, a)
  <2>1. StatusFits(s, ch, a)
    BY DEF Sound, SoundTask
  <2> QED BY <1>2, <1>4, <2>1, FitsStill
<1> QED BY <1>2, <1>3, <1>4, <1>5, TasksMove, SameTally

\* s becomes t, and the task a is all of it that may change but the tokens.
Rewritten(s, t, a) ==
    /\ t \in Plan
    /\ t.status = s.status /\ t.version = s.version /\ t.plan = s.plan
    /\ t.task[a].in = s.task[a].in
    /\ \A b \in Task \ {a} : t.task[b] = s.task[b]

Put(s, a, x) == [s EXCEPT !.task[a] = x]

\* A task is rewritten.
LEMMA TaskForm ==
    ASSUME NEW s \in Plan, NEW a \in Task, NEW x \in TaskState, x.in = s.task[a].in,
           NEW t, t = Put(s, a, x)
    PROVE  Rewritten(s, t, a) /\ t.tokens = s.tokens /\ t.task[a] = x
<1>1. /\ s.task \in [Task -> TaskState]
      /\ DOMAIN s = {"strategy", "status", "version", "plan", "task", "tokens"}
  BY Formed
<1>2. /\ t.status = s.status /\ t.version = s.version /\ t.plan = s.plan /\ t.tokens = s.tokens
      /\ t.task = [s.task EXCEPT ![a] = x]
  BY <1>1 DEF Put
<1>3. t \in Plan
  BY <1>1 DEF Put, Plan
<1> QED BY <1>1, <1>2, <1>3 DEF Rewritten

\* What an observation makes of the RunState (_observe_child).
LEMMA ObservedForm ==
    ASSUME NEW s \in Plan, NEW a \in Task, ChildStatus(s, a) \in Parked \cup Terminal,
           TaskStatus(s, a) = "RUNNING", NEW t, t = ObservedTask(s, a)
    PROVE  /\ Rewritten(s, t, a)
           /\ t.tokens = IF ChildStatus(s, a) = "COMPLETED" THEN s.tokens + 1 ELSE s.tokens
           /\ TaskStatus(t, a) = IF ChildStatus(s, a) \in Parked THEN "RUNNING" ELSE ChildStatus(s, a)
<1> DEFINE status == ChildStatus(s, a)
<1>1. s.task[a] \in TaskState /\ DOMAIN s.task = Task /\ s.tokens \in Nat
      /\ DOMAIN s = {"strategy", "status", "version", "plan", "task", "tokens"}
      /\ s.task \in [Task -> TaskState]
  BY TaskFormed, Formed
<1>2. CASE status \in Parked
  <2> DEFINE x == [s.task[a] EXCEPT !.noted = status]
  <2>1. x \in TaskState /\ x.in = s.task[a].in /\ x.status = s.task[a].status
    BY <1>1, <1>2 DEF TaskState
  <2>2. t = Put(s, a, x)
    <3>1. t = [s EXCEPT !.task[a].noted = status]
      BY <1>2 DEF ObservedTask, Parked
    <3> QED BY <1>1, <3>1 DEF Put
  <2>3. "COMPLETED" \notin Parked
    BY DEF Parked
  <2> HIDE DEF x
  <2>4. Rewritten(s, t, a) /\ t.tokens = s.tokens /\ t.task[a] = x
    BY <2>1, <2>2, TaskForm
  <2> QED BY <1>2, <2>1, <2>3, <2>4 DEF TaskStatus
<1>3. CASE status = "COMPLETED"
  <2> DEFINE x == [[s.task[a] EXCEPT !.status = status] EXCEPT !.noted = ""]
             w == [s EXCEPT !.tokens = @ + 1]
  <2>1. x \in TaskState /\ x.in = s.task[a].in /\ x.status = status
    BY <1>1, <1>3 DEF TaskState, TaskTerminal
  <2>2. w \in Plan /\ w.status = s.status /\ w.version = s.version /\ w.plan = s.plan /\ w.task = s.task
        /\ w.tokens = s.tokens + 1
    BY <1>1, TokensForm
  <2>3. t = Put(w, a, x)
    <3>1. status \notin Parked
      BY <1>3 DEF Parked
    <3>2. t = [Mark(s, a, "COMPLETED") EXCEPT !.tokens = @ + 1, !.task[a].noted = ""]
      BY <1>3, <3>1 DEF ObservedTask
    <3> QED BY <1>1, <1>3, <3>2 DEF Mark, Put
  <2> HIDE DEF x, w
  <2>4. Rewritten(w, t, a) /\ t.tokens = w.tokens /\ t.task[a] = x
    BY <2>1, <2>2, <2>3, TaskForm
  <2>5. Rewritten(s, t, a)
    BY <2>2, <2>4 DEF Rewritten
  <2>6. "COMPLETED" \notin Parked
    BY DEF Parked
  <2> QED BY <1>3, <2>1, <2>2, <2>4, <2>5, <2>6 DEF TaskStatus
<1>4. CASE status \notin Parked \cup {"COMPLETED"}
  <2> DEFINE x == [[s.task[a] EXCEPT !.status = status] EXCEPT !.noted = ""]
  <2>1. x \in TaskState /\ x.in = s.task[a].in /\ x.status = status
    BY <1>1, <1>4 DEF TaskState, TaskTerminal, Terminal
  <2>2. t = Put(s, a, x)
    <3>1. t = [Mark(s, a, status) EXCEPT !.task[a].noted = ""]
      BY <1>4 DEF ObservedTask
    <3> QED BY <1>1, <3>1 DEF Mark, Put
  <2> HIDE DEF x
  <2>3. Rewritten(s, t, a) /\ t.tokens = s.tokens /\ t.task[a] = x
    BY <2>1, <2>2, TaskForm
  <2> QED BY <1>4, <2>1, <2>3 DEF TaskStatus
<1> QED BY <1>2, <1>3, <1>4

\* Tasks \X Versions is finite.
LEMMA CountableIsFinite ==
    ASSUME NEW s, NEW ch
    PROVE  IsFiniteSet(Task \X Versions) /\ IsFiniteSet(Countable(s, ch))
<1>1. IsFiniteSet(Versions)
  BY FS_Interval, PlanExecuteAssumption DEF Versions
<1>2. IsFiniteSet(Task \X Versions)
  BY <1>1, FS_Product, PlanExecuteAssumption
<1> QED BY <1>2, FS_Subset DEF Countable

\* A task with a Child that was started and not observed to end.
LEMMA RunningTask ==
    ASSUME NEW s, NEW ch, Sound(s, ch), NEW a \in Task, TaskStatus(s, a) = "RUNNING"
    PROVE  /\ s.task[a].in = s.version /\ s.task[a].in # 0 /\ s.version \in Versions
           /\ TaskChild(s, a) \in Task \X Versions /\ a \in Tasks(s)
<1>1. s \in Plan /\ StatusFits(s, ch, a)
  BY DEF Sound, SoundTask
<1>2. s.task[a].in # 0
  BY <1>1 DEF StatusFits
<1>3. s.task[a].in \in Versions /\ s.version \in Int
  BY <1>1, <1>2, TaskFormed, Formed
<1>4. s.task[a].in <= s.version /\ ~(s.task[a].in < s.version)
  BY <1>1, <1>2 DEF StatusFits
<1>5. s.task[a].in = s.version
  BY <1>3, <1>4 DEF Versions
<1> QED BY <1>1, <1>2, <1>3, <1>5 DEF TaskChild, StatusFits

(***************************************************************************)
(* The changes that the strategy makes.                                    *)
(***************************************************************************)

\* An observation (_observe_child) that the Child completed is counted.
LEMMA ResultCounts ==
    ASSUME NEW s, NEW ch, Sound(s, ch), NEW a \in Task, TaskStatus(s, a) = "RUNNING",
           ch[TaskChild(s, a)] = "COMPLETED",
           NEW t, Rewritten(s, t, a), t.tokens = s.tokens + 1, TaskStatus(t, a) = "COMPLETED"
    PROVE  \E counted \in SUBSET (Task \X Versions) : Tallies(t, ch, counted)
<1> DEFINE c == TaskChild(s, a)
<1>1. PICK counted \in SUBSET (Task \X Versions) : Tallies(s, ch, counted)
  BY DEF Sound
<1>2. s \in Plan /\ Tasks(t) = Tasks(s) /\ Tasks(s) \subseteq Task /\ t.version = s.version
  BY PlanFormed DEF Sound, Rewritten, Tasks
<1>3. s.task[a].in = s.version /\ c \in Task \X Versions /\ c[1] = a /\ c[2] = s.task[a].in /\ s.version \in Versions
  BY RunningTask DEF TaskChild
<1>4. TaskChild(t, a) = c
  BY DEF TaskChild, Rewritten
<1>5. ASSUME NEW b \in Task, b # a
      PROVE  TaskStatus(t, b) = TaskStatus(s, b) /\ t.task[b].in = s.task[b].in /\ TaskChild(t, b) = TaskChild(s, b)
  BY <1>5 DEF Rewritten, TaskStatus, TaskChild
<1>6. c \notin Countable(s, ch)
  BY <1>3 DEF Countable, Versions
<1>7. c \notin counted
  BY <1>1, <1>6 DEF Tallies
<1>8. IsFiniteSet(counted)
  BY <1>1, CountableIsFinite, FS_Subset
<1>9. Cardinality(counted \cup {c}) = t.tokens
  BY <1>1, <1>7, <1>8, FS_AddElement DEF Tallies
<1>10. c \in Countable(t, ch)
  BY <1>2, <1>3 DEF Countable, Rewritten
<1> HIDE DEF c
<1>11. ASSUME NEW p \in Countable(s, ch) PROVE p \in Countable(t, ch)
  <2>1. p \in Task \X Versions /\ p[1] \in Task
    BY DEF Countable
  <2>2. CASE p[1] = a
    BY <1>2, <2>1, <2>2 DEF Countable, Rewritten
  <2>3. CASE p[1] # a
    BY <1>2, <1>5, <2>1, <2>3 DEF Countable
  <2> QED BY <2>2, <2>3
<1>12. ASSUME NEW b \in Tasks(t), TaskStatus(t, b) = "COMPLETED" PROVE TaskChild(t, b) \in counted \cup {c}
  <2>1. CASE b = a
    BY <1>4, <2>1
  <2>2. CASE b # a
    BY <1>1, <1>2, <1>5, <1>12, <2>2 DEF Tallies
  <2> QED BY <2>1, <2>2
<1>13. counted \cup {c} \in SUBSET (Task \X Versions)
  BY <1>3
<1>14. counted \cup {c} \subseteq Countable(t, ch)
  BY <1>1, <1>10, <1>11 DEF Tallies
<1>15. Tallies(t, ch, counted \cup {c})
  BY <1>9, <1>12, <1>14 DEF Tallies
<1> QED BY <1>13, <1>15

\* s becomes t, and nothing but statuses of tasks and the tokens may change.
LEMMA SameWorkForm ==
    ASSUME NEW s, NEW t \in Plan, t.version = s.version, t.plan = s.plan,
           s.status = "CANCELLED" => t.status = "CANCELLED",
           \A a \in Task : /\ TaskStatus(s, a) = "COMPLETED" => TaskStatus(t, a) = "COMPLETED"
                           /\ t.task[a].in = s.task[a].in
    PROVE  SameWork(s, t)
BY DEF SameWork

\* An observation.
LEMMA ObservationMoves ==
    ASSUME NEW s, Sound(s, child), child \in ChildType, NEW a \in Task, ObservableTask(s, a),
           NEW t, t = ObservedTask(s, a)
    PROVE  Sound(t, child) /\ Rewritten(s, t, a) /\ TaskStatus(t, a) \notin {"PENDING", "SKIPPED"}
<1>1. TaskStatus(s, a) = "RUNNING" /\ s \in Plan /\ StatusFits(s, child, a)
  BY DEF ObservableTask, Sound, SoundTask
<1>2. s.task[a].in # 0 /\ s.task[a].in = s.version /\ TaskChild(s, a) \in Child /\ a \in Tasks(s)
  BY <1>1, RunningTask, PlanExecuteAssumption DEF Versions
<1>3. ChildStatus(s, a) = child[TaskChild(s, a)]
  BY <1>2 DEF ChildStatus
<1>4. ChildStatus(s, a) \in Parked \cup Terminal
  BY <1>2, <1>3 DEF ObservableTask, ChildType
<1>5. /\ Rewritten(s, t, a)
      /\ t.tokens = IF ChildStatus(s, a) = "COMPLETED" THEN s.tokens + 1 ELSE s.tokens
      /\ TaskStatus(t, a) = IF ChildStatus(s, a) \in Parked THEN "RUNNING" ELSE ChildStatus(s, a)
  BY <1>1, <1>4, ObservedForm
<1>6. \A b \in Task \ {a} : TaskStatus(t, b) = TaskStatus(s, b) /\ t.task[b].in = s.task[b].in
  BY <1>5 DEF Rewritten, TaskStatus
<1>7. SameWork(s, t)
  <2>1. \A b \in Task : /\ TaskStatus(s, b) = "COMPLETED" => TaskStatus(t, b) = "COMPLETED"
                        /\ t.task[b].in = s.task[b].in
    BY <1>1, <1>5, <1>6 DEF Rewritten
  <2> QED BY <1>5, <2>1, SameWorkForm DEF Rewritten
<1>8. ASSUME NEW b \in Task PROVE StatusFits(t, child, b)
  <2>1. CASE b = a
    <3>1. TaskChild(t, a) = TaskChild(s, a) /\ t.version = s.version /\ Tasks(t) = Tasks(s) /\ t.task[a].in = s.task[a].in
      BY <1>5 DEF Rewritten, TaskChild, Tasks
    <3>2. TaskStatus(t, a) \notin {"PENDING", "SKIPPED"}
      BY <1>4, <1>5 DEF Parked, Terminal
    <3>3. TaskStatus(t, a) \in {"COMPLETED", "FAILED", "CANCELLED"} => child[TaskChild(t, a)] = TaskStatus(t, a)
      BY <1>3, <1>5, <3>1
    <3>4. t.task[a].in <= t.version /\ ~(t.task[a].in < t.version)
      BY <1>1, <1>2, <3>1, TaskFormed DEF Versions
    <3> QED BY <1>2, <2>1, <3>1, <3>2, <3>3, <3>4 DEF StatusFits
  <2>2. CASE b # a
    <3>1. StatusFits(s, child, b)
      BY DEF Sound, SoundTask
    <3> QED BY <1>5, <1>6, <2>2, <3>1, FitsStill DEF Rewritten
  <2> QED BY <2>1, <2>2
<1>9. \E counted \in SUBSET (Task \X Versions) : Tallies(t, child, counted)
  <2>1. CASE ChildStatus(s, a) = "COMPLETED"
    <3>1. TaskStatus(t, a) = "COMPLETED"
      BY <1>5, <2>1 DEF Parked
    <3> QED BY <1>1, <1>3, <1>5, <2>1, <3>1, ResultCounts
  <2>2. CASE ChildStatus(s, a) # "COMPLETED"
    <3>1. TaskStatus(t, a) # "COMPLETED"
      BY <1>5, <2>2
    <3>2. \A b \in Task : TaskStatus(t, b) = "COMPLETED" => TaskStatus(s, b) = "COMPLETED"
      BY <1>6, <3>1
    <3> QED BY <1>5, <1>7, <2>2, <3>2, SameTally
  <2> QED BY <2>1, <2>2
<1>10. TaskStatus(t, a) \notin {"PENDING", "SKIPPED"}
  BY <1>4, <1>5 DEF Parked, Terminal
<1> QED BY <1>5, <1>7, <1>8, <1>9, <1>10, TasksMove

\* What marked tasks become.
LEMMA MarkedForm ==
    ASSUME NEW s \in Plan, NEW chosen, NEW x \in TaskStatuses, NEW t, t = MarkAll(s, chosen, x)
    PROVE  /\ t \in Plan
           /\ t.status = s.status /\ t.version = s.version /\ t.plan = s.plan /\ t.tokens = s.tokens
           /\ \A a \in Task :
                 /\ TaskStatus(t, a) = IF a \in chosen THEN x ELSE TaskStatus(s, a)
                 /\ t.task[a].in = s.task[a].in
<1> DEFINE after(a) == IF a \in chosen THEN [s.task[a] EXCEPT !.status = x, !.noted = ""] ELSE s.task[a]
           u == [a \in Task |-> after(a)]
<1>1. \A a \in Task : s.task[a] \in TaskState
  BY TaskFormed
<1>2. ASSUME NEW a \in Task
      PROVE  /\ after(a) \in TaskState /\ after(a).in = s.task[a].in
             /\ after(a).status = IF a \in chosen THEN x ELSE s.task[a].status
  BY <1>1 DEF TaskState, TaskStatuses
<1>3. t = [s EXCEPT !.task = u]
  BY DEF MarkAll
<1> HIDE DEF after
<1>4. u \in [Task -> TaskState]
  BY <1>2
<1>5. \A a \in Task : u[a] = after(a)
  OBVIOUS
<1> HIDE DEF u
<1>6. /\ t \in Plan
      /\ t.status = s.status /\ t.version = s.version /\ t.plan = s.plan /\ t.task = u
      /\ t.tokens = s.tokens
  BY <1>3, <1>4, TasksForm
<1> QED BY <1>2, <1>5, <1>6 DEF TaskStatus

\* Tasks are released or skipped before they have a Child (_release_unstarted_tasks,
\* _skip_failed_dependents).
LEMMA MarkedMoves ==
    ASSUME NEW s, NEW ch, Sound(s, ch), NEW chosen, NEW x \in {"PENDING", "SKIPPED"},
           \A a \in chosen : TaskStatus(s, a) \in {"PENDING", "RUNNING"},
           \A a \in chosen \cap Task : TaskStatus(s, a) = "RUNNING" => ch[TaskChild(s, a)] = "ABSENT",
           NEW t, t = MarkAll(s, chosen, x)
    PROVE  Sound(t, ch)
<1>1. s \in Plan /\ x \in TaskStatuses
  BY DEF Sound, TaskStatuses, TaskTerminal
<1>2. t \in Plan /\ t.status = s.status /\ t.version = s.version /\ t.plan = s.plan /\ t.tokens = s.tokens
  BY <1>1, MarkedForm
<1>3. ASSUME NEW a \in Task
      PROVE  /\ TaskStatus(t, a) = IF a \in chosen THEN x ELSE TaskStatus(s, a)
             /\ t.task[a].in = s.task[a].in
  BY <1>1, MarkedForm
<1>4. SameWork(s, t)
  <2>1. \A a \in Task : TaskStatus(s, a) = "COMPLETED" => TaskStatus(t, a) = "COMPLETED"
    BY <1>3
  <2> QED BY <1>2, <1>3, <2>1, SameWorkForm
<1>5. ASSUME NEW a \in Task PROVE StatusFits(t, ch, a)
  <2>1. StatusFits(s, ch, a)
    BY DEF Sound, SoundTask
  <2>2. CASE a \in chosen
    <3>1. TaskStatus(t, a) = x /\ t.task[a].in = s.task[a].in /\ TaskChild(t, a) = TaskChild(s, a)
          /\ Tasks(t) = Tasks(s)
      BY <1>2, <1>3, <2>2 DEF TaskChild, Tasks
    <3>2. TaskStatus(s, a) \in {"PENDING", "RUNNING"}
      BY <2>2
    <3>3. s.task[a].in # 0 => ch[TaskChild(s, a)] = "ABSENT"
      BY <2>1, <2>2, <3>2 DEF StatusFits
    <3> QED BY <1>2, <2>1, <3>1, <3>2, <3>3 DEF StatusFits
  <2>3. CASE a \notin chosen
    BY <1>2, <1>3, <2>1, <2>3, FitsStill
  <2> QED BY <2>2, <2>3
<1>6. \A a \in Task : TaskStatus(t, a) = "COMPLETED" => TaskStatus(s, a) = "COMPLETED"
  BY <1>3
<1> QED BY <1>2, <1>4, <1>5, <1>6, SameTally, TasksMove

\* What scheduled tasks become.
LEMMA ScheduledForm ==
    ASSUME NEW s \in Plan, NEW chosen, NEW t, t = Scheduled(s, chosen)
    PROVE  /\ t \in Plan
           /\ t.status = s.status /\ t.version = s.version /\ t.plan = s.plan /\ t.tokens = s.tokens
           /\ \A a \in Task :
                 /\ TaskStatus(t, a) = IF a \in chosen THEN "RUNNING" ELSE TaskStatus(s, a)
                 /\ t.task[a].in = IF a \in chosen /\ s.task[a].in = 0 THEN s.version ELSE s.task[a].in
<1> DEFINE after(a) == IF a \in chosen
                       THEN [status |-> "RUNNING", noted |-> "",
                             in |-> IF s.task[a].in = 0 THEN s.version ELSE s.task[a].in]
                       ELSE s.task[a]
           u == [a \in Task |-> after(a)]
<1>1. \A a \in Task : s.task[a] \in TaskState /\ s.task[a].in \in 0 .. MaxReplans + 1
  BY TaskFormed
<1>2. s.version \in 0 .. MaxReplans + 1
  BY Formed
<1>3. ASSUME NEW a \in Task
      PROVE  /\ after(a) \in TaskState
             /\ after(a).in = IF a \in chosen /\ s.task[a].in = 0 THEN s.version ELSE s.task[a].in
             /\ after(a).status = IF a \in chosen THEN "RUNNING" ELSE s.task[a].status
  BY <1>1, <1>2 DEF TaskState
<1>4. t = [s EXCEPT !.task = u]
  BY DEF Scheduled
<1> HIDE DEF after
<1>5. u \in [Task -> TaskState]
  BY <1>3
<1>6. \A a \in Task : u[a] = after(a)
  OBVIOUS
<1> HIDE DEF u
<1>7. /\ t \in Plan
      /\ t.status = s.status /\ t.version = s.version /\ t.plan = s.plan /\ t.task = u
      /\ t.tokens = s.tokens
  BY <1>4, <1>5, TasksForm
<1> QED BY <1>3, <1>6, <1>7 DEF TaskStatus

\* Ready tasks are scheduled (_persist_ready_tasks).
LEMMA ScheduledMoves ==
    ASSUME NEW s, NEW ch, Sound(s, ch), s.status # "CANCELLED",
           NEW t, t = Scheduled(s, ReadyTasks(s))
    PROVE  Sound(t, ch)
<1>1. s \in Plan /\ Tasks(s) \subseteq Task
  BY PlanFormed DEF Sound
<1>2. t \in Plan /\ t.status = s.status /\ t.version = s.version /\ t.plan = s.plan /\ t.tokens = s.tokens
      /\ Tasks(t) = Tasks(s)
  BY <1>1, ScheduledForm DEF Tasks
<1>3. ASSUME NEW a \in Task
      PROVE  /\ TaskStatus(t, a) = IF a \in ReadyTasks(s) THEN "RUNNING" ELSE TaskStatus(s, a)
             /\ t.task[a].in = IF a \in ReadyTasks(s) /\ s.task[a].in = 0 THEN s.version ELSE s.task[a].in
  BY <1>1, ScheduledForm
<1>4. ASSUME NEW a \in ReadyTasks(s)
      PROVE  a \in Tasks(s) /\ TaskStatus(s, a) = "PENDING" /\ Met(s, a) /\ s.version # 0
  BY DEF ReadyTasks, Met, Sound
<1>5. SameWork(s, t)
  BY <1>2, <1>3, <1>4 DEF SameWork
<1>6. ASSUME NEW a \in Task PROVE StatusFits(t, ch, a)
  <2>1. StatusFits(s, ch, a)
    BY DEF Sound, SoundTask
  <2>2. CASE a \in ReadyTasks(s)
    <3>1. TaskStatus(t, a) = "RUNNING" /\ t.task[a].in = IF s.task[a].in = 0 THEN s.version ELSE s.task[a].in
      BY <1>3, <2>2
    <3>2. s.version # 0 /\ a \in Tasks(t) /\ TaskStatus(s, a) = "PENDING"
      BY <1>2, <1>4, <2>2
    <3>3. s.version \in Nat /\ s.task[a].in \in Nat
      BY <1>1, Formed, TaskFormed
    <3>4. s.task[a].in # 0 => s.task[a].in = s.version
      BY <2>1, <3>2, <3>3 DEF StatusFits
    <3>5. t.task[a].in = t.version /\ t.task[a].in # 0
      BY <1>2, <3>1, <3>2, <3>4
    <3> QED BY <1>2, <3>1, <3>2, <3>3, <3>5 DEF StatusFits
  <2>3. CASE a \notin ReadyTasks(s)
    BY <1>2, <1>3, <2>1, <2>3, FitsStill
  <2> QED BY <2>2, <2>3
<1>7. \A a \in Task : TaskStatus(t, a) = "COMPLETED" => TaskStatus(s, a) = "COMPLETED"
  BY <1>3
<1> QED BY <1>2, <1>5, <1>6, <1>7, SameTally, TasksMove

\* What a cancel makes of the RunState (on_cancel).
LEMMA CancelledForm ==
    ASSUME NEW s \in Plan, NEW t, t = CancelledPlan(s)
    PROVE  /\ t \in Plan
           /\ t.status = "CANCELLED" /\ t.version = s.version /\ t.plan = s.plan /\ t.tokens = s.tokens
           /\ \A a \in Task :
                 /\ TaskStatus(t, a) = IF a \in Tasks(s) /\ TaskStatus(s, a) \notin TaskTerminal
                                       THEN "CANCELLED" ELSE TaskStatus(s, a)
                 /\ t.task[a].in = s.task[a].in
<1> DEFINE after(a) == IF a \in Tasks(s) /\ s.task[a].status \notin TaskTerminal
                       THEN [s.task[a] EXCEPT !.status = "CANCELLED", !.noted = ""]
                       ELSE s.task[a]
           u == [a \in Task |-> after(a)]
           w == [s EXCEPT !.status = "CANCELLED"]
<1>1. \A a \in Task : s.task[a] \in TaskState
  BY TaskFormed
<1>2. ASSUME NEW a \in Task
      PROVE  /\ after(a) \in TaskState /\ after(a).in = s.task[a].in
             /\ after(a).status = IF a \in Tasks(s) /\ s.task[a].status \notin TaskTerminal
                                  THEN "CANCELLED" ELSE s.task[a].status
  BY <1>1 DEF TaskState, TaskTerminal
<1>3. t = [w EXCEPT !.task = u]
  BY DEF CancelledPlan
<1>4. w \in Plan /\ w.status = "CANCELLED" /\ w.version = s.version /\ w.plan = s.plan /\ w.tokens = s.tokens
  BY StatusForm DEF RunStatus, Terminal
<1> HIDE DEF after, w
<1>5. u \in [Task -> TaskState]
  BY <1>2
<1>6. \A a \in Task : u[a] = after(a)
  OBVIOUS
<1> HIDE DEF u
<1>7. /\ t \in Plan
      /\ t.status = w.status /\ t.version = w.version /\ t.plan = w.plan /\ t.task = u
      /\ t.tokens = w.tokens
  BY <1>3, <1>4, <1>5, TasksForm
<1> QED BY <1>2, <1>4, <1>6, <1>7 DEF TaskStatus

\* A cancel.
LEMMA CancelMoves ==
    ASSUME NEW s, NEW ch, Sound(s, ch), NEW t, t = CancelledPlan(s)
    PROVE  Sound(t, ch) /\ Quenched(t)
<1>1. s \in Plan /\ Tasks(s) \subseteq Task
  BY PlanFormed DEF Sound
<1>2. t \in Plan /\ t.status = "CANCELLED" /\ t.version = s.version /\ t.plan = s.plan /\ t.tokens = s.tokens
      /\ Tasks(t) = Tasks(s)
  BY <1>1, CancelledForm DEF Tasks
<1>3. ASSUME NEW a \in Task
      PROVE  /\ TaskStatus(t, a) = IF a \in Tasks(s) /\ TaskStatus(s, a) \notin TaskTerminal
                                   THEN "CANCELLED" ELSE TaskStatus(s, a)
             /\ t.task[a].in = s.task[a].in
  BY <1>1, CancelledForm
<1>4. SameWork(s, t)
  <2>1. \A a \in Task : TaskStatus(s, a) = "COMPLETED" => TaskStatus(t, a) = "COMPLETED"
    BY <1>3 DEF TaskTerminal
  <2> QED BY <1>2, <1>3, <2>1, SameWorkForm
<1>5. ASSUME NEW a \in Task PROVE StatusFits(t, ch, a)
  <2>1. StatusFits(s, ch, a)
    BY DEF Sound, SoundTask
  <2>2. TaskChild(t, a) = TaskChild(s, a) /\ t.task[a].in = s.task[a].in
    BY <1>3 DEF TaskChild
  <2>3. CASE a \in Tasks(s) /\ TaskStatus(s, a) \notin TaskTerminal
    <3>1. TaskStatus(t, a) = "CANCELLED" /\ TaskStatus(s, a) # "COMPLETED"
      BY <1>3, <2>3 DEF TaskTerminal
    <3> QED BY <1>2, <2>1, <2>2, <2>3, <3>1 DEF StatusFits
  <2>4. CASE ~(a \in Tasks(s) /\ TaskStatus(s, a) \notin TaskTerminal)
    <3>1. TaskStatus(t, a) = TaskStatus(s, a)
      BY <1>3, <2>4
    <3> QED BY <1>2, <2>1, <2>2, <3>1, FitsStill
  <2> QED BY <2>3, <2>4
<1>6. \A a \in Task : TaskStatus(t, a) = "COMPLETED" => TaskStatus(s, a) = "COMPLETED"
  BY <1>3
<1>7. Quenched(t)
  BY <1>1, <1>2, <1>3 DEF Quenched, TaskTerminal
<1> QED BY <1>2, <1>4, <1>5, <1>6, <1>7, SameTally, TasksMove

\* The first version of the plan, before which there are no Children (_create_plan).
LEMMA CreateMoves ==
    ASSUME NEW s, NEW ch, Sound(s, ch), s.version = 0, NEW plan \in PlanOutput,
           NEW t, t = [s EXCEPT !.version = 1, !.plan = plan]
    PROVE  Sound(t, ch) /\ t.status = s.status
<1>1. s \in Plan /\ 1 \in 0 .. MaxReplans + 1
  BY PlanExecuteAssumption DEF Sound
<1>2. t \in Plan /\ t.status = s.status /\ t.version = 1 /\ t.plan = plan /\ t.task = s.task /\ t.tokens = s.tokens
  BY <1>1 DEF Plan
<1>3. ASSUME NEW a \in Task
      PROVE  /\ s.task[a].in = 0 /\ t.task[a].in = 0
             /\ TaskStatus(t, a) = TaskStatus(s, a) /\ TaskStatus(s, a) \in {"PENDING", "SKIPPED", "CANCELLED"}
             /\ \A v \in Versions : ch[<<a, v>>] = "ABSENT"
  <2>1. StatusFits(s, ch, a) /\ ChildrenFit(s, ch, a) /\ s.task[a].in \in Nat
    BY <1>1, TaskFormed DEF Sound, SoundTask
  <2>2. s.task[a].in = 0 /\ TaskStatus(s, a) \in {"PENDING", "SKIPPED", "CANCELLED"}
    BY <2>1 DEF StatusFits
  <2>3. \A v \in Versions : ch[<<a, v>>] = "ABSENT"
    BY <2>1 DEF ChildrenFit, Versions
  <2> QED BY <1>2, <2>2, <2>3 DEF TaskStatus
<1>4. ASSUME NEW a \in Task PROVE SoundTask(t, ch, a)
  <2>1. StatusFits(t, ch, a)
    <3>1. StatusFits(s, ch, a)
      BY DEF Sound, SoundTask
    <3> QED BY <1>2, <1>3, <3>1 DEF StatusFits
  <2>2. ChildrenFit(t, ch, a) /\ WorkIsKept(t, ch, a)
    BY <1>3 DEF ChildrenFit, WorkIsKept
  <2>3. Provided(t, a)
    BY <1>2, <1>3 DEF Provided
  <2> QED BY <2>1, <2>2, <2>3 DEF SoundTask
<1>5. Tallies(t, ch, {})
  <2>1. PICK counted \in SUBSET (Task \X Versions) : Tallies(s, ch, counted)
    BY DEF Sound
  <2>2. counted = {}
    BY <1>3, <2>1 DEF Tallies, Countable
  <2>3. t.tokens = Cardinality({})
    BY <1>2, <2>1, <2>2 DEF Tallies
  <2>4. \A a \in Tasks(t) : TaskStatus(t, a) # "COMPLETED"
    BY <1>2, <1>3, PlanFormed
  <2> QED BY <2>3, <2>4 DEF Tallies
<1> QED BY <1>2, <1>4, <1>5 DEF Sound

\* What the tasks become in the next version of the plan.
LEMMA ReplannedForm ==
    ASSUME NEW s \in Plan, s.version <= MaxReplans, NEW plan \in PlanOutput, NEW t, t = Replanned(s, plan)
    PROVE  /\ t \in Plan
           /\ t.status = s.status /\ t.version = s.version + 1 /\ t.plan = plan /\ t.tokens = s.tokens
           /\ \A a \in Task : t.task[a] = IF a \in KeptTasks(s, plan) THEN s.task[a] ELSE NewTask
<1> DEFINE u == [a \in Task |-> IF a \in KeptTasks(s, plan) THEN s.task[a] ELSE NewTask]
           n == s.version + 1
           w == [s EXCEPT !.version = n, !.plan = plan]
<1>1. n \in 0 .. MaxReplans + 1
  BY Formed, PlanExecuteAssumption
<1>2. w \in Plan /\ w.status = s.status /\ w.version = n /\ w.plan = plan /\ w.tokens = s.tokens
  <2> HIDE DEF n
  <2> QED BY <1>1 DEF Plan
<1>3. NewTask \in TaskState
  BY PlanExecuteAssumption DEF NewTask, TaskState
<1>4. u \in [Task -> TaskState]
  BY <1>3, TaskFormed
<1>5. t = [w EXCEPT !.task = u]
  BY DEF Replanned
<1>6. \A a \in Task : u[a] = IF a \in KeptTasks(s, plan) THEN s.task[a] ELSE NewTask
  OBVIOUS
<1> HIDE DEF u, w
<1>7. /\ t \in Plan
      /\ t.status = w.status /\ t.version = w.version /\ t.plan = w.plan /\ t.task = u
      /\ t.tokens = w.tokens
  BY <1>2, <1>4, <1>5, TasksForm
<1> QED BY <1>2, <1>6, <1>7

\* A task that nothing is open of any more has ended as its Child has.
LEMMA ResolvedChild ==
    ASSUME NEW s, NEW ch, Sound(s, ch), Unresolved(s) = {}, s.status # "CANCELLED", NEW a \in Task,
           NEW v \in Versions, v = s.version, ch[<<a, v>>] # "ABSENT"
    PROVE  /\ s.task[a].in = v /\ a \in Tasks(s)
           /\ ch[<<a, v>>] = TaskStatus(s, a) /\ TaskStatus(s, a) \in {"COMPLETED", "FAILED", "CANCELLED"}
<1>1. s \in Plan /\ StatusFits(s, ch, a) /\ ChildrenFit(s, ch, a)
  BY DEF Sound, SoundTask
<1>2. s.task[a].in = v /\ v # 0
  BY <1>1, PlanExecuteAssumption DEF ChildrenFit, Versions, Abandoned
<1>3. a \in Tasks(s) /\ TaskChild(s, a) = <<a, v>>
  BY <1>1, <1>2 DEF StatusFits, TaskChild
<1>4. TaskStatus(s, a) \notin {"PENDING", "SKIPPED"}
  BY <1>1, <1>2, <1>3 DEF StatusFits
<1>5. TaskStatus(s, a) # "RUNNING"
  BY <1>3 DEF Unresolved
<1>6. TaskStatus(s, a) \in {"COMPLETED", "FAILED", "CANCELLED"}
  BY <1>1, <1>4, <1>5, TaskFormed DEF TaskStatuses, TaskTerminal
<1>7. ch[<<a, v>>] = TaskStatus(s, a)
  BY <1>1, <1>3, <1>6 DEF StatusFits
<1> QED BY <1>2, <1>3, <1>6, <1>7

\* A replacement of the plan keeps the completed work (_replan, _reuse_completed_tasks).
LEMMA ReplannedMoves ==
    ASSUME NEW s, NEW ch, Sound(s, ch), Superseded(s, ch), Unresolved(s) = {}, s.version <= MaxReplans,
           NEW plan \in PlanOutput, NEW t, t = Replanned(s, plan)
    PROVE  Sound(t, ch) /\ t.status = s.status
<1>1. s \in Plan /\ s.version \in Nat
  BY Formed DEF Sound
<1>2. t \in Plan /\ t.status = s.status /\ t.version = s.version + 1 /\ t.plan = plan /\ t.tokens = s.tokens
  BY <1>1, ReplannedForm
<1>3. ASSUME NEW a \in KeptTasks(s, plan)
      PROVE  a \in Task /\ a \in Tasks(s) /\ a \in Tasks(t) /\ t.task[a] = s.task[a] /\ TaskStatus(s, a) = "COMPLETED"
             /\ TaskStatus(t, a) = "COMPLETED" /\ TaskChild(t, a) = TaskChild(s, a)
  <2>1. a \in Task /\ a \in Tasks(s) /\ a \in Tasks(t) /\ TaskStatus(s, a) = "COMPLETED"
    BY <1>1, <1>2, PlanFormed DEF KeptTasks, Tasks
  <2>2. t.task[a] = s.task[a]
    BY <1>1, <2>1, ReplannedForm
  <2> QED BY <2>1, <2>2 DEF TaskStatus, TaskChild
<1>4. ASSUME NEW a \in Task, a \notin KeptTasks(s, plan)
      PROVE  TaskStatus(t, a) = "PENDING" /\ t.task[a].in = 0
  <2>1. t.task[a] = NewTask
    BY <1>1, <1>4, ReplannedForm
  <2>2. NewTask.status = "PENDING" /\ NewTask.in = 0
    BY DEF NewTask
  <2> QED BY <2>1, <2>2 DEF TaskStatus
<1>5. ASSUME NEW a \in Task
      PROVE  t.task[a].in \in Nat /\ s.task[a].in \in Nat /\ s.task[a].in <= s.version /\ t.task[a].in < t.version
  <2>1. t.task[a].in \in Nat /\ s.task[a].in \in Nat
    BY <1>1, <1>2, TaskFormed
  <2>2. s.task[a].in <= s.version
    BY DEF Sound, SoundTask, StatusFits
  <2> QED BY <1>1, <1>2, <1>3, <1>4, <2>1, <2>2
<1>6. s.status = "CANCELLED" => Abandoned(t)
  BY <1>2, <1>5 DEF Abandoned
<1>7. ASSUME NEW a \in Task PROVE SoundTask(t, ch, a)
  <2>1. StatusFits(s, ch, a) /\ ChildrenFit(s, ch, a)
    BY DEF Sound, SoundTask
  <2>2. StatusFits(t, ch, a)
    <3>1. CASE a \in KeptTasks(s, plan)
      <4>1. s.task[a].in # 0 /\ ch[TaskChild(s, a)] = "COMPLETED"
        BY <1>3, <2>1, <3>1 DEF StatusFits
      <4> QED BY <1>1, <1>2, <1>3, <1>5, <3>1, <4>1 DEF StatusFits
    <3>2. CASE a \notin KeptTasks(s, plan)
      BY <1>1, <1>2, <1>4, <1>5, <3>2 DEF StatusFits
    <3> QED BY <3>1, <3>2
  <2>3. ChildrenFit(t, ch, a)
    <3>1. SUFFICES ASSUME NEW v \in Versions, ch[<<a, v>>] # "ABSENT"
                   PROVE  \/ v < t.version /\ ch[<<a, v>>] \in Terminal
                          \/ v + 1 = t.version /\ Abandoned(t)
      BY DEF ChildrenFit
    <3>2. v \in Nat /\ v <= s.version
      BY <1>1, <2>1, <3>1 DEF ChildrenFit, Versions
    <3>3. CASE v < s.version
      <4>1. ch[<<a, v>>] \in Terminal
        BY <3>1, <3>3 DEF Superseded
      <4> QED BY <1>1, <1>2, <3>2, <3>3, <4>1
    <3>4. CASE v = s.version /\ s.status = "CANCELLED"
      BY <1>2, <1>6, <3>4
    <3>5. CASE v = s.version /\ s.status # "CANCELLED"
      <4>1. ch[<<a, v>>] \in Terminal
        BY <3>1, <3>5, ResolvedChild DEF Terminal
      <4> QED BY <1>2, <3>2, <3>5, <4>1
    <3> QED BY <1>1, <3>2, <3>3, <3>4, <3>5
  <2>4. WorkIsKept(t, ch, a)
    <3>1. SUFFICES ASSUME NEW v \in Versions, v + 1 = t.version, a \in Tasks(t), ch[<<a, v>>] = "COMPLETED",
                          s.status # "CANCELLED"
                   PROVE  t.task[a].in = v
      BY <1>6 DEF WorkIsKept
    <3>2. v = s.version
      BY <1>1, <1>2, <3>1 DEF Versions
    <3>3. s.task[a].in = v /\ a \in Tasks(s) /\ TaskStatus(s, a) = "COMPLETED"
      BY <3>1, <3>2, ResolvedChild
    <3>4. a \in KeptTasks(s, plan)
      BY <1>2, <3>1, <3>3 DEF KeptTasks, Tasks
    <3> QED BY <1>3, <3>3, <3>4
  <2>5. Provided(t, a)
    BY <1>5 DEF Provided
  <2> QED BY <2>2, <2>3, <2>4, <2>5 DEF SoundTask
<1>8. \E counted \in SUBSET (Task \X Versions) : Tallies(t, ch, counted)
  <2>1. PICK counted \in SUBSET (Task \X Versions) : Tallies(s, ch, counted)
    BY DEF Sound
  <2>2. ASSUME NEW p \in Countable(s, ch) PROVE p \in Countable(t, ch)
    <3>1. p \in Task \X Versions /\ p[1] \in Task /\ p[2] \in Nat /\ ch[p] = "COMPLETED"
      BY DEF Countable, Versions
    <3>2. p[2] <= s.version
      BY <1>1, <1>5, <3>1 DEF Countable
    <3>3. p[2] < t.version
      BY <1>1, <1>2, <3>1, <3>2
    <3> QED BY <3>1, <3>3 DEF Countable
  <2>3. ASSUME NEW a \in Tasks(t), TaskStatus(t, a) = "COMPLETED" PROVE TaskChild(t, a) \in counted
    <3>1. a \in Task
      BY <1>2, PlanFormed
    <3>2. a \in KeptTasks(s, plan)
      BY <1>4, <2>3, <3>1
    <3> QED BY <1>3, <2>1, <3>2 DEF Tallies
  <2>4. counted \subseteq Countable(t, ch) /\ t.tokens = Cardinality(counted)
    BY <1>2, <2>1, <2>2 DEF Tallies
  <2>5. Tallies(t, ch, counted)
    BY <2>3, <2>4 DEF Tallies
  <2> QED BY <2>5
<1>9. t.version # 0
  BY <1>1, <1>2
<1> QED BY <1>2, <1>7, <1>8, <1>9 DEF Sound

(***************************************************************************)
(* What the Children do.                                                   *)
(***************************************************************************)

\* A Child that has started and not ended goes on, or one that may be started is.
Evolved(s, ch, d, c) ==
    \/ d[c] = ch[c]
    \/ ch[c] \notin Terminal \cup {"ABSENT"} /\ d[c] # "ABSENT"
    \/ ch[c] = "ABSENT" /\ Startable(s, c)

\* A Child that ended stays so, and one that did not exist is one that may be started.
LEMMA EvolvedChild ==
    ASSUME NEW s, NEW ch, NEW d, \A c \in Child : Evolved(s, ch, d, c),
           NEW a \in Task, NEW v \in Versions
    PROVE  /\ ch[<<a, v>>] \in Terminal => d[<<a, v>>] = ch[<<a, v>>]
           /\ ch[<<a, v>>] = "ABSENT" /\ d[<<a, v>>] # "ABSENT" =>
                 /\ v = s.version /\ s.task[a].in = v
                 /\ TaskStatus(s, a) \notin {"PENDING", "SKIPPED"}
<1> DEFINE c == <<a, v>>
<1>1. c \in Child /\ c[1] = a /\ c[2] = v
  BY PlanExecuteAssumption DEF Versions
<1>2. Evolved(s, ch, d, c)
  BY <1>1
<1>3. ch[c] \in Terminal => d[c] = ch[c]
  BY <1>2 DEF Evolved, Terminal
<1>4. ch[c] = "ABSENT" /\ d[c] # "ABSENT" => Startable(s, c)
  BY <1>2 DEF Evolved
<1> QED BY <1>1, <1>3, <1>4 DEF Startable

\* No such step takes away what was counted, scheduled or concluded from the Children.
LEMMA ChildrenMove ==
    ASSUME NEW s, NEW ch, Sound(s, ch), NEW d, \A c \in Child : Evolved(s, ch, d, c)
    PROVE  Sound(s, d)
<1>1. s \in Plan /\ s.version \in Nat
  BY Formed DEF Sound
<1>2. ASSUME NEW a \in Task, NEW v \in Versions
      PROVE  /\ ch[<<a, v>>] \in Terminal => d[<<a, v>>] = ch[<<a, v>>]
             /\ ch[<<a, v>>] = "ABSENT" /\ d[<<a, v>>] # "ABSENT" =>
                   /\ v = s.version /\ s.task[a].in = v
                   /\ TaskStatus(s, a) \notin {"PENDING", "SKIPPED"}
  BY EvolvedChild
<1>3. ASSUME NEW a \in Task PROVE SoundTask(s, d, a)
  <2>1. StatusFits(s, ch, a) /\ ChildrenFit(s, ch, a) /\ WorkIsKept(s, ch, a) /\ Provided(s, a)
    BY DEF Sound, SoundTask
  <2>2. StatusFits(s, d, a)
    <3>1. CASE s.task[a].in = 0
      BY <2>1, <3>1 DEF StatusFits
    <3>2. CASE s.task[a].in # 0
      <4>1. s.task[a].in \in Versions /\ TaskChild(s, a) = <<a, s.task[a].in>>
        BY <1>1, <3>2, TaskFormed DEF TaskChild
      <4>2. ch[TaskChild(s, a)] \in Terminal => d[TaskChild(s, a)] = ch[TaskChild(s, a)]
        BY <1>2, <4>1
      <4>3. TaskStatus(s, a) \in {"PENDING", "SKIPPED"} /\ ch[TaskChild(s, a)] = "ABSENT" =>
                d[TaskChild(s, a)] = "ABSENT"
        BY <1>2, <4>1
      <4> QED BY <2>1, <3>2, <4>2, <4>3 DEF StatusFits, Terminal
    <3> QED BY <3>1, <3>2
  <2>3. ASSUME NEW v \in Versions, d[<<a, v>>] # "ABSENT"
        PROVE  \/ v = s.version /\ s.task[a].in = v
               \/ v < s.version /\ d[<<a, v>>] \in Terminal
               \/ v + 1 = s.version /\ Abandoned(s)
    <3>1. CASE ch[<<a, v>>] = "ABSENT"
      BY <1>2, <2>3, <3>1
    <3>2. CASE ch[<<a, v>>] # "ABSENT"
      <4>1. \/ v = s.version /\ s.task[a].in = v
            \/ v < s.version /\ ch[<<a, v>>] \in Terminal
            \/ v + 1 = s.version /\ Abandoned(s)
        BY <2>1, <3>2 DEF ChildrenFit
      <4> QED BY <1>2, <4>1
    <3> QED BY <3>1, <3>2
  <2>4. WorkIsKept(s, d, a)
    <3>1. SUFFICES ASSUME NEW v \in Versions, v + 1 = s.version, a \in Tasks(s), d[<<a, v>>] = "COMPLETED",
                          ~Abandoned(s)
                   PROVE  s.task[a].in = v
      BY DEF WorkIsKept
    <3>2. v < s.version /\ v # s.version
      BY <1>1, <3>1 DEF Versions
    <3>3. ch[<<a, v>>] # "ABSENT"
      BY <1>2, <3>1, <3>2
    <3>4. ch[<<a, v>>] \in Terminal
      BY <2>1, <3>1, <3>2, <3>3 DEF ChildrenFit
    <3>5. ch[<<a, v>>] = "COMPLETED"
      BY <1>2, <3>1, <3>4
    <3> QED BY <2>1, <3>1, <3>5 DEF WorkIsKept
  <2>5. ChildrenFit(s, d, a)
    BY <2>3 DEF ChildrenFit
  <2> QED BY <2>1, <2>2, <2>4, <2>5 DEF SoundTask
<1>4. \E counted \in SUBSET (Task \X Versions) : Tallies(s, d, counted)
  <2>1. PICK counted \in SUBSET (Task \X Versions) : Tallies(s, ch, counted)
    BY DEF Sound
  <2>2. ASSUME NEW p \in Countable(s, ch) PROVE p \in Countable(s, d)
    <3>1. p \in Task \X Versions /\ ch[p] = "COMPLETED"
      BY DEF Countable
    <3>2. PICK a \in Task, v \in Versions : p = <<a, v>>
      BY <3>1
    <3>3. d[p] = "COMPLETED"
      BY <1>2, <3>1, <3>2 DEF Terminal
    <3> QED BY <3>3 DEF Countable
  <2>3. Tallies(s, d, counted)
    BY <2>1, <2>2 DEF Tallies
  <2> QED BY <2>3
<1> QED BY <1>3, <1>4 DEF Sound

\* The earlier versions stay superseded.
LEMMA SupersededStays ==
    ASSUME NEW s, NEW ch, Sound(s, ch), NEW d, \A c \in Child : Evolved(s, ch, d, c), Superseded(s, ch)
    PROVE  Superseded(s, d)
<1>1. SUFFICES ASSUME NEW a \in Task, NEW v \in Versions, v < s.version
               PROVE  d[<<a, v>>] \in Terminal \cup {"ABSENT"}
  BY DEF Superseded
<1>2. ch[<<a, v>>] \in Terminal \cup {"ABSENT"} /\ v # s.version
  BY <1>1, Formed DEF Superseded, Versions, Sound
<1>3. ch[<<a, v>>] \in Terminal => d[<<a, v>>] = ch[<<a, v>>]
  BY EvolvedChild
<1>4. ch[<<a, v>>] = "ABSENT" => d[<<a, v>>] = "ABSENT"
  BY <1>2, EvolvedChild
<1> QED BY <1>2, <1>3, <1>4

\* A Parent that was not cancelled has no Child of an earlier version that runs or waits.
LEMMA SupersededUnlessCancelled ==
    ASSUME NEW s, NEW ch, Sound(s, ch), s.status # "CANCELLED"
    PROVE  Superseded(s, ch)
<1>1. SUFFICES ASSUME NEW a \in Task, NEW v \in Versions, v < s.version, ch[<<a, v>>] # "ABSENT"
               PROVE  ch[<<a, v>>] \in Terminal
  BY DEF Superseded
<1>2. ChildrenFit(s, ch, a) /\ v # s.version
  BY <1>1, Formed DEF Sound, SoundTask, Versions
<1> QED BY <1>1, <1>2 DEF ChildrenFit, Abandoned

\* A RunState has its own work.
LEMMA OwnPlan ==
    ASSUME NEW s, NEW ch, Sound(s, ch)
    PROVE  SamePlan(s, s)
<1>1. ASSUME NEW a \in Task, TaskStatus(s, a) = "RUNNING"
      PROVE  s.task[a].in = s.version /\ s.version # 0
  BY <1>1, RunningTask
<1> QED BY <1>1 DEF SamePlan

\* When every task has completed, the Children have ended.
LEMMA CompletedChildren ==
    ASSUME NEW s, NEW ch, Sound(s, ch), AllCompleted(s), s.status # "CANCELLED",
           NEW c \in Task \X Versions
    PROVE  ch[c] \in Terminal \cup {"ABSENT"}
<1>1. PICK a \in Task, v \in Versions : c = <<a, v>>
  OBVIOUS
<1>2. SUFFICES ASSUME ch[<<a, v>>] # "ABSENT" PROVE ch[<<a, v>>] \in Terminal
  BY <1>1
<1>3. ChildrenFit(s, ch, a) /\ StatusFits(s, ch, a)
  BY DEF Sound, SoundTask
<1>4. CASE v = s.version /\ s.task[a].in = v
  <2>1. v # 0 /\ TaskChild(s, a) = <<a, v>>
    BY <1>4, PlanExecuteAssumption DEF Versions, TaskChild
  <2>2. a \in Tasks(s)
    BY <1>3, <1>4, <2>1 DEF StatusFits
  <2>3. TaskStatus(s, a) = "COMPLETED"
    BY <2>2 DEF AllCompleted
  <2> QED BY <1>3, <2>1, <2>3 DEF StatusFits, Terminal
<1>5. CASE v < s.version /\ ch[<<a, v>>] \in Terminal
  BY <1>5
<1> QED BY <1>2, <1>3, <1>4, <1>5 DEF ChildrenFit, Abandoned

(***************************************************************************)
(* What the steps are made of.                                             *)
(***************************************************************************)
ApiType ==
    /\ cascade \subseteq Child
    /\ signal \in BOOLEAN
    /\ crashes \in 0 .. MaxCrashes
    /\ controls \in 0 .. MaxControls

\* Steps leave the API's variables alone.
LEMMA ApiStays ==
    ASSUME ChildRunsTypeOK, UNCHANGED apiVars
    PROVE  ApiType'
BY DEF ChildRunsTypeOK, apiVars, ApiType

\* The coroutine has ended.
LEMMA EndedInv ==
    ASSUME IInv, copy' = NoCopy, fresh' = FALSE, pc' = "idle", queue' = {}, batch' = {},
           host' \in [Child -> {"nobody", "api"}], child' = child, ApiType',
           Sound(row', child), row'.status = "COMPLETED" => AllCompleted(row')
    PROVE  IInv'
<1>1. ChildRunsTypeOK'
  BY DEF IInv, ChildRunsTypeOK, ApiType
<1>2. \A c \in Child \ (Task \X Versions) : child'[c] = "ABSENT"
  BY DEF IInv
<1>3. Sound(row', child')
  OBVIOUS
<1>4. Coroutine'
  BY NoCopyIsNone DEF Coroutine, Deciding
<1>5. Queued' /\ Slots'
  BY DEF Queued, Slots
<1>6. Completion'
  BY DEF Completion, AllCompleted, Tasks, TaskStatus
<1> QED BY <1>1, <1>2, <1>3, <1>4, <1>5, <1>6 DEF IInv

\* Stopped, as the steps use it.
LEMMA StoppedInv ==
    ASSUME IInv, Stopped, child' = child, UNCHANGED apiVars,
           Sound(row', child), row'.status = "COMPLETED" => AllCompleted(row')
    PROVE  IInv'
<1>1. ChildRunsTypeOK
  BY DEF IInv
<1>2. host' \in [Child -> {"nobody", "api"}]
  BY <1>1 DEF Stopped, ChildRunsTypeOK
<1>3. ApiType'
  BY <1>1, ApiStays
<1> QED BY <1>2, <1>3, EndedInv DEF Stopped

\* Stop: the row stays as it is.
LEMMA StopInv ==
    ASSUME IInv, Stop, UNCHANGED apiVars
    PROVE  IInv'
<1>1. row' = row /\ child' = child /\ Stopped
  BY DEF Stop
<1>2. Sound(row', child)
  BY <1>1 DEF IInv
<1>3. row'.status = "COMPLETED" => AllCompleted(row')
  BY <1>1 DEF IInv, Completion
<1> QED BY <1>1, <1>2, <1>3, StoppedInv

\* A step of a coroutine that has no Children under way.
LEMMA WorkInv ==
    ASSUME IInv, UNCHANGED <<childVars, apiVars, queue, batch>>, batch = {}, queue = {}, pc # "idle",
           pc' \notin {"idle", "execute"}, fresh' \in BOOLEAN,
           Sound(row', child), Coroutine', row'.status # "COMPLETED"
    PROVE  IInv'
<1>1. ChildRunsTypeOK /\ child' = child /\ host' = host /\ queue' = queue /\ batch' = batch /\ ApiType'
  BY ApiStays DEF IInv, childVars
<1>2. ChildRunsTypeOK'
  BY <1>1 DEF ChildRunsTypeOK, ApiType, Coroutine
<1>3. \A c \in Child \ (Task \X Versions) : child'[c] = "ABSENT"
  BY <1>1 DEF IInv
<1>4. Sound(row', child')
  BY <1>1
<1>5. Queued'
  BY <1>1 DEF Queued
<1>6. Slots'
  BY <1>1 DEF Slots, IInv
<1>7. Completion'
  BY DEF Completion
<1> QED BY <1>2, <1>3, <1>4, <1>5, <1>6, <1>7 DEF IInv

\* While the coroutine executes, the Run has not completed.
LEMMA NotCompleted ==
    ASSUME IInv, pc # "idle"
    PROVE  row.status # "COMPLETED"
BY DEF IInv, Completion

\* What Coroutine says of a step loop that is under way.
LEMMA UnderWay ==
    ASSUME IInv, pc \notin {"idle", "preflight"}
    PROVE  /\ copy \in Plan /\ Sound(row, child) /\ row \in Plan /\ row.status # "COMPLETED"
           /\ fresh => copy = row
           /\ SamePlan(row, copy)
           /\ pc # "execute" => queue = {}
           /\ pc # "apply" => Superseded(row, child)
           /\ pc \notin {"observe", "collect", "execute"} => batch = {}
BY NotCompleted DEF IInv, Coroutine, Sound, Queued, Slots

\* Goto
LEMMA GotoInv ==
    ASSUME IInv, NEW place \in {"preflight", "launch", "skip", "settle", "finish"},
           Goto(place), UNCHANGED apiVars,
           place = "preflight" => pc = "apply" /\ row.status = "RUNNING",
           place # "preflight" => pc \in Deciding,
           place = "finish" => AllCompleted(copy),
           place = "launch" => pc = "decide" /\ ~HasFailed(copy)
    PROVE  IInv'
<1>1. Coroutine /\ pc \notin {"idle", "preflight", "observe", "collect", "execute"} /\ fresh \in BOOLEAN
  BY DEF IInv, Deciding, ChildRunsTypeOK
<1>2. copy' = copy /\ row' = row /\ fresh' = fresh /\ pc' = place /\ child' = child
  BY DEF Goto, childVars
<1>3. /\ copy \in Plan /\ Sound(row, child) /\ row \in Plan /\ row.status # "COMPLETED"
      /\ batch = {} /\ queue = {}
  BY <1>1, UnderWay
<1>4. Superseded(row, child)
  <2>1. CASE pc = "apply"
    BY <1>3, <2>1, SupersededUnlessCancelled DEF Deciding
  <2>2. CASE pc # "apply"
    BY <1>1, <2>2, UnderWay
  <2> QED BY <2>1, <2>2
<1>5. Coroutine'
  <2>1. copy' \in Plan /\ (fresh' => copy' = row') /\ SamePlan(row', copy') /\ Superseded(row', child')
    BY <1>1, <1>2, <1>3, <1>4 DEF Coroutine
  <2>2. pc' \in {"step", "decide", "launch"} /\ row'.status = "RUNNING" => fresh'
    BY <1>1, <1>2 DEF Coroutine
  <2>3. pc' \in Deciding /\ copy'.status = "CANCELLED" => Quenched(copy')
    BY <1>1, <1>2 DEF Coroutine, Deciding
  <2>4. row'.status = "CANCELLED" => Quenched(row') \/ pc' \in {"apply", "idle"}
    BY <1>1, <1>2 DEF Coroutine, Deciding
  <2>5. pc' = "finish" => AllCompleted(copy')
    BY <1>2
  <2>6. pc' = "launch" => ~HasFailed(copy')
    BY <1>2
  <2> QED BY <1>2, <2>1, <2>2, <2>3, <2>4, <2>5, <2>6 DEF Coroutine
<1> QED BY <1>1, <1>2, <1>3, <1>5, WorkInv DEF Goto

\* Save, of a change of the copy that is sound if the copy is.
LEMMA SaveInv ==
    ASSUME IInv, NEW new, NEW place \in {"apply", "skip", "settle", "launch", "fail"},
           Save(new, place), UNCHANGED apiVars, pc \in {"step"} \cup Deciding,
           Sound(copy, child) => Sound(new, child),
           copy.status # "COMPLETED" => new.status # "COMPLETED",
           place # "apply" => /\ pc \in Deciding /\ new.status = copy.status /\ new.version = copy.version
                              /\ Quenched(copy) => Quenched(new),
           place = "launch" => ~HasFailed(new)
    PROVE  IInv'
<1>1. Coroutine /\ pc \notin {"idle", "preflight", "observe", "collect", "execute", "apply"}
  BY DEF IInv, Deciding
<1>2. copy \in Plan /\ Sound(row, child) /\ row.status # "COMPLETED" /\ batch = {} /\ queue = {}
      /\ Superseded(row, child)
  BY <1>1, UnderWay
<1>3. CASE fresh /\ row' = new /\ copy' = new /\ pc' = place
           /\ UNCHANGED <<fresh, queue, batch, childVars>>
  <2>1. copy = row
    BY <1>1, <1>3 DEF Coroutine
  <2>2. Sound(row', child) /\ row'.status # "COMPLETED"
    BY <1>2, <1>3, <2>1
  <2>3. copy' \in Plan /\ SamePlan(row', copy')
    BY <1>3, <2>2, OwnPlan DEF Sound
  <2>4. child' = child /\ fresh' = TRUE
    BY <1>3 DEF childVars, IInv, ChildRunsTypeOK
  <2>5. place # "apply" => Superseded(row', child')
    BY <1>2, <1>3, <2>1, <2>4 DEF Superseded
  <2>6. place # "apply" /\ new.status = "CANCELLED" => Quenched(new)
    BY <1>1 DEF Coroutine
  <2>7. Coroutine'
    <3>1. pc' \in {"skip", "apply", "settle", "launch", "fail"} /\ copy' = row'
      BY <1>3
    <3>2. copy'.status = "CANCELLED" /\ pc' # "apply" => Quenched(copy')
      BY <1>3, <2>6
    <3>3. pc' = "launch" => ~HasFailed(copy')
      BY <1>3
    <3>4. pc' \notin {"apply", "idle"} => Superseded(row', child')
      BY <1>3, <2>5
    <3> QED BY <2>3, <2>4, <3>1, <3>2, <3>3, <3>4 DEF Coroutine, Deciding
  <2> QED BY <1>1, <1>2, <1>3, <2>2, <2>4, <2>7, WorkInv
<1>4. CASE Stop
  BY <1>4, StopInv
<1> QED BY <1>3, <1>4 DEF Save

\* Conclude, likewise.
LEMMA ConcludeInv ==
    ASSUME IInv, NEW new, NEW status \in {"COMPLETED", "FAILED"}, Conclude(new, status), UNCHANGED apiVars,
           pc \notin {"idle", "preflight"},
           Sound(copy, child) => Sound(new, child), new.status = copy.status,
           status = "COMPLETED" => new = copy /\ AllCompleted(copy)
    PROVE  IInv'
<1>1. Coroutine /\ copy \in Plan /\ Sound(row, child)
  BY DEF IInv, Coroutine
<1>2. CASE fresh /\ row.status \notin {"CANCELLED", "INTERRUPTED"}
           /\ row' = [new EXCEPT !.status = status] /\ Stopped /\ child' = child
  <2>1. copy = row /\ Sound(copy, child) /\ Sound(new, child) /\ new \in Plan
    BY <1>1, <1>2 DEF Coroutine, Sound
  <2>2. new.status # "CANCELLED" /\ status \in RunStatus /\ status # "CANCELLED"
    BY <1>2, <2>1 DEF RunStatus, Terminal
  <2>3. Sound(row', child)
    BY <1>2, <2>1, <2>2, StatusMoves
  <2>4. row'.status = status /\ row'.task = new.task /\ row'.plan = new.plan
    BY <1>2, <2>1, <2>2, StatusForm
  <2>5. row'.status = "COMPLETED" => AllCompleted(row')
    BY <2>4 DEF AllCompleted, Tasks, TaskStatus
  <2> QED BY <1>2, <2>3, <2>5, StoppedInv
<1>3. CASE Stop
  BY <1>3, StopInv
<1> QED BY <1>2, <1>3 DEF Conclude

(***************************************************************************)
(* The steps of the coroutine.                                             *)
(***************************************************************************)

\* Resume
LEMMA ResumeInv ==
    ASSUME IInv, Resume, UNCHANGED apiVars
    PROVE  IInv'
<1>1. Coroutine /\ Sound(row, child) /\ pc = "idle" /\ copy = NoCopy /\ copy' = copy /\ fresh' = fresh
      /\ pc' = "preflight" /\ row.status \in {"RUNNING", "WAITING_CHILD", "INTERRUPTED"}
      /\ row' = [row EXCEPT !.status = "RUNNING"]
      /\ UNCHANGED <<queue, batch, child, host>>
  BY DEF IInv, Coroutine, Resume, childVars
<1>2. Sound(row', child) /\ row'.status = "RUNNING" /\ row \in Plan
  <2>1. "RUNNING" \in RunStatus /\ "RUNNING" # "CANCELLED" /\ row.status # "CANCELLED" /\ row \in Plan
    BY <1>1 DEF RunStatus, Sound
  <2>2. Sound(row', child)
    BY <1>1, <2>1, StatusMoves
  <2>3. row'.status = "RUNNING"
    BY <1>1, <2>1, StatusForm
  <2> QED BY <2>1, <2>2, <2>3
<1>3. ~fresh
  BY <1>1, <1>2, NoCopyIsNone DEF Coroutine
<1>4. ChildRunsTypeOK'
  BY <1>1, ApiStays DEF IInv, ChildRunsTypeOK, ApiType
<1>5. Superseded(row', child')
  BY <1>1, <1>2, SupersededUnlessCancelled
<1>6. Coroutine'
  BY <1>1, <1>2, <1>3, <1>5, NoCopyIsNone DEF Coroutine, Deciding
<1>7. Queued' /\ Slots' /\ Completion'
  BY <1>1, <1>2 DEF IInv, Queued, Slots, Completion
<1> QED BY <1>1, <1>2, <1>4, <1>6, <1>7 DEF IInv

\* Preflight
LEMMA PreflightInv ==
    ASSUME IInv, Preflight, UNCHANGED apiVars
    PROVE  IInv'
<1>1. pc = "preflight" /\ Coroutine /\ Sound(row, child) /\ row \in Plan /\ batch = {} /\ queue = {}
      /\ Superseded(row, child)
  BY DEF IInv, Preflight, Sound, Slots, Queued, Coroutine
<1>2. CASE row.status = "RUNNING" /\ row' = [row EXCEPT !.status = "FAILED"] /\ Stopped /\ child' = child
  <2>1. "FAILED" \in RunStatus /\ "FAILED" # "CANCELLED"
    BY DEF RunStatus, Terminal
  <2>2. Sound(row', child)
    BY <1>1, <1>2, <2>1, StatusMoves
  <2>3. row'.status = "FAILED"
    BY <1>1, <1>2, <2>1, StatusForm
  <2> QED BY <1>2, <2>2, <2>3, StoppedInv
<1>3. CASE /\ row.status = "RUNNING" /\ copy' = row /\ fresh' = TRUE /\ pc' = "step"
           /\ UNCHANGED <<row, queue, batch, childVars>>
  <2>1. child' = child /\ row' = row /\ SamePlan(row, row)
    BY <1>1, <1>3, OwnPlan DEF childVars
  <2>2. Coroutine'
    BY <1>1, <1>3, <2>1 DEF Coroutine, Deciding
  <2> QED BY <1>1, <1>3, <2>1, <2>2, WorkInv
<1>4. CASE Stop
  BY <1>4, StopInv
<1> QED BY <1>2, <1>3, <1>4 DEF Preflight

\* Apply
LEMMA ApplyInv ==
    ASSUME IInv, Apply, UNCHANGED apiVars
    PROVE  IInv'
<1>1. pc = "apply"
  BY DEF Apply
<1>2. CASE row.status = "RUNNING" /\ Goto("preflight")
  BY <1>1, <1>2, GotoInv
<1>3. CASE Stop
  BY <1>3, StopInv
<1> QED BY <1>2, <1>3 DEF Apply

\* PlannerFails
LEMMA PlannerFailsInv ==
    ASSUME IInv, PlannerFails, UNCHANGED apiVars, pc \notin {"idle", "preflight"}
    PROVE  IInv'
BY ConcludeInv DEF PlannerFails

\* CreatePlan
LEMMA CreateInv ==
    ASSUME IInv, CreatePlan, UNCHANGED apiVars
    PROVE  IInv'
<1>1. pc = "step" /\ copy \in Plan /\ copy.version = 0
  BY DEF IInv, CreatePlan, Coroutine
<1>2. ASSUME NEW plan \in PlanOutput, Save([copy EXCEPT !.version = 1, !.plan = plan], "apply")
      PROVE  IInv'
  <2> DEFINE new == [copy EXCEPT !.version = 1, !.plan = plan]
  <2>1. Sound(copy, child) => Sound(new, child)
    BY <1>1, CreateMoves
  <2>2. new.status = copy.status
    BY <1>1 DEF Plan
  <2>3. Save(new, "apply")
    BY <1>2
  <2> HIDE DEF new
  <2> QED BY <1>1, <2>1, <2>2, <2>3, SaveInv
<1>3. CASE PlannerFails
  BY <1>1, <1>3, PlannerFailsInv
<1> QED BY <1>2, <1>3 DEF CreatePlan

\* The Children that _reconcile_children picks are Children.
LEMMA SeenAreChildren ==
    ASSUME NEW s \in Plan, NEW t \in Tasks(s), ObservableTask(s, t)
    PROVE  TaskChild(s, t) \in Child
<1>1. t \in Task /\ s.task[t].in # 0
  BY PlanFormed DEF ObservableTask, ChildStatus
<1>2. s.task[t].in \in Versions
  BY <1>1, TaskFormed
<1> QED BY <1>1, <1>2, PlanExecuteAssumption DEF TaskChild, Versions

\* PickObservable
LEMMA PickInv ==
    ASSUME IInv, pc \in {"step", "execute"}, batch = {}, queue = {}, NEW s \in Plan,
           NEW observe \in {"observe", "collect"}, NEW next \in {"decide", "apply"},
           PickObservable(s, observe, next), UNCHANGED <<row, queue, childVars, apiVars>>,
           fresh' \in BOOLEAN, Coroutine'
    PROVE  IInv'
<1>1. child' = child /\ host' = host /\ Sound(row', child) /\ row'.status # "COMPLETED"
  BY NotCompleted DEF childVars, IInv
<1>2. batch' \subseteq Child /\ (pc' = observe \/ (pc' = next /\ batch' = {}))
  BY SeenAreChildren DEF PickObservable
<1>3. CASE pc' = observe
  <2>1. ChildRunsTypeOK'
    BY <1>1, <1>2, <1>3, ApiStays DEF IInv, ChildRunsTypeOK, ApiType
  <2>2. Queued' /\ Completion'
    BY <1>1, <1>3 DEF Queued, Completion
  <2>3. Slots'
    BY <1>1, <1>3 DEF IInv, Slots
  <2> QED BY <1>1, <2>1, <2>2, <2>3 DEF IInv
<1>4. CASE pc' = next /\ batch' = {}
  BY <1>1, <1>4, WorkInv
<1> QED BY <1>2, <1>3, <1>4

\* ReconcileTasks
LEMMA ReconcileInv ==
    ASSUME IInv, ReconcileTasks, UNCHANGED apiVars
    PROVE  IInv'
<1>1. /\ pc = "step" /\ PickObservable(copy, "observe", "decide")
      /\ UNCHANGED <<row, copy, fresh, queue, childVars>> /\ Coroutine /\ fresh \in BOOLEAN
  BY DEF ReconcileTasks, IInv, ChildRunsTypeOK
<1>2. copy \in Plan /\ queue = {} /\ batch = {} /\ Superseded(row, child) /\ copy.status = "RUNNING"
  BY <1>1, UnderWay DEF Coroutine
<1>3. pc' \in {"observe", "decide"} /\ child' = child
  BY <1>1 DEF PickObservable, childVars
<1>4. Coroutine'
  BY <1>1, <1>2, <1>3 DEF Coroutine, Deciding
<1> QED BY <1>1, <1>2, <1>4, PickInv

\* ReconcileWave
LEMMA ReconcileWaveInv ==
    ASSUME IInv, ReconcileWave, UNCHANGED apiVars
    PROVE  IInv'
<1>1. /\ pc = "execute" /\ queue = {} /\ batch = {} /\ copy' = row /\ fresh' = TRUE
      /\ UNCHANGED <<row, queue, childVars>>
  BY DEF ReconcileWave
<1>2. Coroutine /\ row \in Plan /\ Sound(row, child) /\ Superseded(row, child) /\ row.status # "COMPLETED"
      /\ SamePlan(row, row) /\ child' = child
  <2>1. row \in Plan /\ Sound(row, child) /\ Superseded(row, child) /\ row.status # "COMPLETED"
    BY <1>1, UnderWay
  <2> QED BY <1>1, <2>1, OwnPlan DEF IInv, childVars
<1>3. pc' \in {"collect", "apply"} => Coroutine'
  BY <1>1, <1>2 DEF Coroutine, Deciding
<1>4. CASE PickObservable(row, "collect", "apply")
  <2>1. pc' \in {"collect", "apply"}
    BY <1>4 DEF PickObservable
  <2> QED BY <1>1, <1>2, <1>3, <1>4, <2>1, PickInv
<1>5. CASE pc' = "apply" /\ UNCHANGED batch
  BY <1>1, <1>2, <1>3, <1>5, WorkInv
<1> QED BY <1>4, <1>5 DEF ReconcileWave

\* The row behind a copy goes on: it has the same plan, and no task is made to wait.
Behind(r, s) ==
    /\ s.version = r.version
    /\ s.plan = r.plan
    /\ \A t \in Task :
          /\ s.task[t].in = r.task[t].in
          /\ TaskStatus(r, t) \notin {"PENDING", "SKIPPED"} => TaskStatus(s, t) \notin {"PENDING", "SKIPPED"}

\* What the copy and the queue have of the row they still have of the row it becomes.
LEMMA BehindStays ==
    ASSUME NEW r, NEW s, Behind(r, s)
    PROVE  /\ \A c \in Plan : SamePlan(r, c) => SamePlan(s, c)
           /\ \A c \in Child : Startable(r, c) => Startable(s, c)
           /\ \A ch : Superseded(r, ch) => Superseded(s, ch)
<1>1. ASSUME NEW c \in Plan, SamePlan(r, c) PROVE SamePlan(s, c)
  BY <1>1 DEF SamePlan, Behind
<1>2. ASSUME NEW c \in Child, Startable(r, c) PROVE Startable(s, c)
  <2>1. c[1] \in Task
    BY <1>2 DEF Startable
  <2> QED BY <1>2, <2>1 DEF Startable, Behind
<1>3. ASSUME NEW ch, Superseded(r, ch) PROVE Superseded(s, ch)
  BY <1>3 DEF Superseded, Behind
<1> QED BY <1>1, <1>2, <1>3

\* What an observation makes of the row.
LEMMA ObservedRow ==
    ASSUME IInv, pc # "idle", NEW t \in Task, Observe(t)
    PROVE  /\ Sound(row', child) /\ Behind(row, row') /\ row'.status # "COMPLETED"
           /\ row' = row \/ row'.status # "CANCELLED"
           /\ row'.status = "RUNNING" => row.status = "RUNNING"
<1>1. Sound(row, child) /\ row \in Plan /\ row.status # "COMPLETED"
  BY NotCompleted DEF IInv, Sound
<1>2. CASE row' = row
  BY <1>1, <1>2 DEF Behind
<1>3. ASSUME row.status \notin Terminal, ObservableTask(row, t)
      PROVE  LET s == ObservedTask(row, t) IN Sound(s, child) /\ Behind(row, s) /\ s.status = row.status
  <2> DEFINE s == ObservedTask(row, t)
  <2>1. child \in ChildType
    BY DEF IInv, ChildRunsTypeOK, ChildType
  <2>2. Sound(s, child) /\ Rewritten(row, s, t) /\ TaskStatus(s, t) \notin {"PENDING", "SKIPPED"}
    BY <1>1, <1>3, <2>1, ObservationMoves
  <2> HIDE DEF s
  <2>3. Behind(row, s) /\ s.status = row.status
    BY <2>2 DEF Rewritten, Behind, TaskStatus
  <2> QED BY <2>2, <2>3 DEF s
<1>4. CASE row.status \notin Terminal /\ ObservableTask(row, t) /\ row' = ObservedTask(row, t)
  BY <1>1, <1>3, <1>4 DEF Terminal
<1>5. CASE row.status \notin Terminal /\ ObservableTask(row, t)
           /\ row' = [ObservedTask(row, t) EXCEPT !.status = "FAILED"]
  <2> DEFINE s == ObservedTask(row, t)
  <2>1. Sound(s, child) /\ Behind(row, s) /\ s.status # "CANCELLED" /\ s \in Plan
    BY <1>3, <1>5 DEF Terminal, Sound
  <2>2. row' = [s EXCEPT !.status = "FAILED"]
    BY <1>5
  <2> HIDE DEF s
  <2>3. "FAILED" \in RunStatus /\ "FAILED" # "CANCELLED"
    BY DEF RunStatus, Terminal
  <2>4. Sound(row', child)
    BY <2>1, <2>2, <2>3, StatusMoves
  <2>5. row'.version = s.version /\ row'.plan = s.plan /\ row'.task = s.task /\ row'.status = "FAILED"
    BY <2>1, <2>2, <2>3, StatusForm
  <2>6. Behind(row, row')
    BY <2>1, <2>5 DEF Behind, TaskStatus
  <2> QED BY <2>4, <2>5, <2>6
<1> QED BY <1>2, <1>4, <1>5 DEF Observe

\* The coroutine after an observation.
LEMMA ObservedCoroutine ==
    ASSUME IInv, pc \in {"observe", "collect", "execute"}, NEW t \in Task, Observe(t),
           pc' = pc, copy' = copy, child' = child
    PROVE  Coroutine' /\ fresh' \in BOOLEAN
<1>1. Coroutine /\ Superseded(row, child) /\ copy \in Plan
  BY UnderWay DEF IInv
<1>2. /\ Behind(row, row') /\ (row' = row \/ row'.status # "CANCELLED")
      /\ fresh' = (fresh /\ row' = row)
  BY ObservedRow DEF Observe
<1>3. SamePlan(row', copy') /\ Superseded(row', child')
  <2>1. copy' \in Plan /\ SamePlan(row, copy')
    BY <1>1 DEF Coroutine
  <2>2. Superseded(row, child')
    BY <1>1
  <2> QED BY <1>2, <2>1, <2>2, BehindStays
<1>4. fresh' => copy' = row'
  BY <1>1, <1>2 DEF Coroutine
<1> QED BY <1>1, <1>2, <1>3, <1>4 DEF Coroutine, Deciding

\* ObserveTask
LEMMA ObserveInv ==
    ASSUME IInv, NEW t \in Task, ObserveTask(t), UNCHANGED apiVars
    PROVE  IInv'
<1>1. /\ pc \in {"observe", "collect"} /\ pc' = pc /\ copy' = copy /\ Observe(t)
      /\ batch' \subseteq batch /\ queue' = queue /\ child' = child /\ host' = host
  BY DEF ObserveTask, childVars
<1>2. Sound(row', child) /\ row'.status # "COMPLETED"
  BY <1>1, ObservedRow
<1>3. Coroutine' /\ fresh' \in BOOLEAN
  BY <1>1, ObservedCoroutine
<1>4. ChildRunsTypeOK'
  BY <1>1, <1>3, ApiStays DEF IInv, ChildRunsTypeOK, ApiType
<1>5. Queued' /\ Slots' /\ Completion'
  BY <1>1, <1>2 DEF IInv, Queued, Slots, Completion
<1> QED BY <1>1, <1>2, <1>3, <1>4, <1>5 DEF IInv

\* TaskReturned
LEMMA ReturnedInv ==
    ASSUME IInv, NEW t \in Task, TaskReturned(t), UNCHANGED apiVars
    PROVE  IInv'
<1> DEFINE c == TaskChild(copy, t)
<1>1. /\ pc = "execute" /\ pc' = pc /\ copy' = copy /\ Observe(t) /\ c \in batch /\ host[c] # "parent"
      /\ batch' = batch \ {c} /\ child' = child /\ host' = host
      /\ queue' = IF GoOn(row', t) THEN queue ELSE {}
  BY DEF TaskReturned, Returned, childVars
<1>2. Sound(row', child) /\ row'.status # "COMPLETED" /\ Behind(row, row')
  BY <1>1, ObservedRow
<1>3. Coroutine' /\ fresh' \in BOOLEAN
  BY <1>1, ObservedCoroutine
<1>4. ChildRunsTypeOK'
  BY <1>1, <1>3, ApiStays DEF IInv, ChildRunsTypeOK, ApiType
<1>5. Queued'
  <2>1. queue' # {} => ~HasFailed(row')
    BY <1>1 DEF GoOn, HasFailed, Tasks, TaskStatus
  <2>2. \A d \in queue' : Startable(row', d)
    BY <1>1, <1>2, BehindStays DEF IInv, Queued, ChildRunsTypeOK
  <2> QED BY <1>1, <2>1, <2>2 DEF Queued, HasFailed, Tasks, TaskStatus
<1>6. Slots'
  <2>1. IsFiniteSet(batch) /\ Cardinality(batch) <= MaxParallel
    BY <1>1 DEF IInv, Slots
  <2>2. IsFiniteSet(batch') /\ Cardinality(batch') <= Cardinality(batch)
    BY <1>1, <2>1, FS_Subset
  <2>3. Cardinality(batch) \in Nat /\ Cardinality(batch') \in Nat
    BY <2>1, <2>2, FS_CardinalityType
  <2>4. Cardinality(batch') <= MaxParallel
    BY <2>1, <2>2, <2>3, ChildRunsAssumption
  <2>5. \A d \in Child : host'[d] = "parent" => pc' = "execute" /\ d \in batch'
    BY <1>1 DEF IInv, Slots
  <2> QED BY <1>1, <2>2, <2>4, <2>5 DEF Slots
<1>7. Completion'
  BY <1>2 DEF Completion
<1> QED BY <1>1, <1>2, <1>3, <1>4, <1>5, <1>6, <1>7 DEF IInv

\* TasksReconciled
LEMMA ReconciledInv ==
    ASSUME IInv, TasksReconciled, UNCHANGED apiVars
    PROVE  IInv'
<1>1. /\ pc \in {"observe", "collect"} /\ batch = {} /\ copy' = row /\ row' = row /\ fresh' = TRUE
      /\ pc' \in {"decide", "apply"} /\ UNCHANGED <<childVars, queue, batch>>
  BY DEF TasksReconciled
<1>2. Coroutine /\ row \in Plan /\ Sound(row, child) /\ Superseded(row, child) /\ row.status # "COMPLETED"
      /\ SamePlan(row, row) /\ child' = child /\ queue = {}
  <2>1. row \in Plan /\ Sound(row, child) /\ Superseded(row, child) /\ row.status # "COMPLETED" /\ queue = {}
    BY <1>1, UnderWay
  <2> QED BY <1>1, <2>1, OwnPlan DEF IInv, childVars
<1>3. row.status = "CANCELLED" => Quenched(row)
  BY <1>1, <1>2 DEF Coroutine
<1>4. Coroutine'
  BY <1>1, <1>2, <1>3 DEF Coroutine, Deciding
<1> QED BY <1>1, <1>2, <1>4, WorkInv

\* Completion: ProposeCompletion and FinishPlan
LEMMA CompletionInv ==
    ASSUME IInv, ProposeCompletion \/ FinishPlan, UNCHANGED apiVars
    PROVE  IInv'
<1>1. CASE ProposeCompletion
  <2>1. pc \in Deciding /\ AllCompleted(copy) /\ Goto("finish")
    BY <1>1 DEF ProposeCompletion, Deciding
  <2> QED BY <2>1, GotoInv
<1>2. CASE FinishPlan
  <2>1. pc = "finish" /\ AllCompleted(copy)
    BY <1>2 DEF IInv, FinishPlan, Coroutine
  <2>2. CASE Conclude(copy, "COMPLETED")
    BY <2>1, <2>2, ConcludeInv
  <2>3. CASE Conclude(copy, "FAILED")
    BY <2>1, <2>3, ConcludeInv
  <2> QED BY <1>2, <2>2, <2>3 DEF FinishPlan
<1> QED BY <1>1, <1>2

\* MarkAll, when it is saved.
LEMMA MarkedInv ==
    ASSUME IInv, pc \in {"decide", "skip"}, NEW chosen, NEW x \in {"PENDING", "SKIPPED"},
           \A a \in chosen : TaskStatus(copy, a) \in {"PENDING", "RUNNING"},
           \A a \in chosen \cap Task : TaskStatus(copy, a) = "RUNNING" => child[TaskChild(copy, a)] = "ABSENT",
           x = "PENDING" => chosen \cap Tasks(copy) # {},
           NEW place \in {"skip", "settle"}, Save(MarkAll(copy, chosen, x), place), UNCHANGED apiVars
    PROVE  IInv'
<1> DEFINE new == MarkAll(copy, chosen, x)
<1>1. copy \in Plan /\ x \in TaskStatuses /\ Tasks(copy) \subseteq Task
  BY UnderWay, PlanFormed DEF TaskStatuses, TaskTerminal
<1>2. Sound(copy, child) => Sound(new, child)
  BY MarkedMoves
<1>3. new.status = copy.status /\ new.version = copy.version /\ Tasks(new) = Tasks(copy)
      /\ \A a \in Task : TaskStatus(new, a) = IF a \in chosen THEN x ELSE TaskStatus(copy, a)
  BY <1>1, MarkedForm DEF Tasks
<1>4. Save(new, place)
  OBVIOUS
<1> HIDE DEF new
<1>5. Quenched(copy) => Quenched(new)
  <2>1. CASE x = "PENDING"
    BY <2>1 DEF Quenched, TaskTerminal
  <2>2. CASE x = "SKIPPED"
    BY <1>1, <1>3, <2>2 DEF Quenched, TaskTerminal
  <2> QED BY <2>1, <2>2
<1> QED BY <1>2, <1>3, <1>4, <1>5, SaveInv DEF Deciding

\* ReleaseUnstarted
LEMMA ReleaseInv ==
    ASSUME IInv, ReleaseUnstarted, UNCHANGED apiVars
    PROVE  IInv'
<1> DEFINE unstarted == {t \in Tasks(copy) : TaskStatus(copy, t) = "RUNNING" /\ ChildStatus(copy, t) = "ABSENT"}
<1>1. pc = "decide" /\ copy \in Plan /\ SamePlan(row, copy)
  BY UnderWay DEF ReleaseUnstarted
<1>2. CASE unstarted = {} /\ Goto("skip")
  BY <1>1, <1>2, GotoInv DEF Deciding
<1>3. CASE unstarted # {} /\ Save(MarkAll(copy, unstarted, "PENDING"), "skip")
  <2>1. ASSUME NEW a \in unstarted PROVE a \in Tasks(copy) /\ TaskStatus(copy, a) = "RUNNING"
    OBVIOUS
  <2>2. ASSUME NEW a \in unstarted \cap Task PROVE child[TaskChild(copy, a)] = "ABSENT"
    <3>1. copy.task[a].in # 0
      BY <1>1, <2>1 DEF SamePlan
    <3> QED BY <3>1 DEF ChildStatus
  <2>3. unstarted \cap Tasks(copy) # {}
    BY <1>3
  <2> HIDE DEF unstarted
  <2> QED BY <1>1, <1>3, <2>1, <2>2, <2>3, MarkedInv
<1> QED BY <1>2, <1>3 DEF ReleaseUnstarted

\* SkipDependents
LEMMA SkipInv ==
    ASSUME IInv, SkipDependents, UNCHANGED apiVars
    PROVE  IInv'
<1> DEFINE skipped == FailedDependents(copy)
<1>1. pc = "skip"
  BY DEF SkipDependents
<1>2. CASE Goto("settle")
  BY <1>1, <1>2, GotoInv DEF Deciding
<1>3. CASE Save(MarkAll(copy, skipped, "SKIPPED"), "settle")
  <2>1. \A a \in skipped : TaskStatus(copy, a) = "PENDING"
    BY DEF FailedDependents
  <2> HIDE DEF skipped
  <2> QED BY <1>1, <1>3, <2>1, MarkedInv
<1> QED BY <1>2, <1>3 DEF SkipDependents

\* Wait
LEMMA WaitInv ==
    ASSUME IInv, pc = "settle", Unresolved(copy) # {}, Wait, UNCHANGED apiVars
    PROVE  IInv'
<1> DEFINE new == [copy EXCEPT !.status = "WAITING_CHILD"]
<1>1. copy \in Plan /\ Coroutine
  BY UnderWay DEF IInv
<1>2. copy.status # "CANCELLED"
  <2>1. PICK t \in Tasks(copy) : TaskStatus(copy, t) \in {"RUNNING", "PENDING"}
    BY DEF Unresolved
  <2>2. ~Quenched(copy)
    BY <2>1 DEF Quenched, TaskTerminal
  <2> QED BY <1>1, <2>2 DEF Coroutine, Deciding
<1>3. "WAITING_CHILD" \in RunStatus /\ "WAITING_CHILD" # "CANCELLED"
  BY DEF RunStatus
<1>4. Sound(copy, child) => Sound(new, child)
  BY <1>2, <1>3, StatusMoves
<1>5. new.status = "WAITING_CHILD"
  BY <1>1, <1>3, StatusForm
<1>6. Save(new, "apply")
  BY DEF Wait
<1> HIDE DEF new
<1> QED BY <1>4, <1>5, <1>6, SaveInv DEF Deciding

\* A plan that cannot go on is saved before the Run fails.
LEMMA SaveFailedInv ==
    ASSUME IInv, pc = "settle", Save(copy, "fail"), UNCHANGED apiVars
    PROVE  IInv'
BY SaveInv DEF Deciding

\* Replan
LEMMA ReplanInv ==
    ASSUME IInv, pc = "settle", Unresolved(copy) = {}, copy.version <= MaxReplans, Replan, UNCHANGED apiVars
    PROVE  IInv'
<1>1. CASE PlannerFails
  BY <1>1, PlannerFailsInv
<1>2. ASSUME NEW plan \in PlanOutput,
             Conclude(Replanned(copy, plan), "FAILED") \/ Save(Replanned(copy, plan), "apply")
      PROVE  IInv'
  <2> DEFINE new == Replanned(copy, plan)
  <2>1. copy \in Plan /\ Superseded(row, child) /\ (fresh => copy = row)
    BY UnderWay
  <2>2. new.status = copy.status
    BY <2>1, ReplannedForm
  <2>3. CASE fresh
    <3>1. Superseded(copy, child)
      BY <2>1, <2>3
    <3>2. Sound(copy, child) => Sound(new, child)
      BY <3>1, ReplannedMoves
    <3>3. Conclude(new, "FAILED") \/ Save(new, "apply")
      BY <1>2
    <3> HIDE DEF new
    <3> QED BY <2>2, <3>2, <3>3, SaveInv, ConcludeInv DEF Deciding
  <2>4. CASE ~fresh
    <3>1. Stop
      BY <1>2, <2>4 DEF Conclude, Save
    <3> QED BY <3>1, StopInv
  <2> QED BY <2>3, <2>4
<1> QED BY <1>1, <1>2 DEF Replan

\* SettleFailure, SettleWave and FailPlan
LEMMA SettleInv ==
    ASSUME IInv, SettleFailure \/ SettleWave \/ FailPlan, UNCHANGED apiVars
    PROVE  IInv'
<1>1. CASE SettleFailure
  BY <1>1, WaitInv, ReplanInv, SaveFailedInv DEF SettleFailure
<1>2. CASE SettleWave
  BY <1>2, WaitInv, SaveFailedInv DEF SettleWave
<1>3. CASE FailPlan
  BY <1>3, ConcludeInv DEF FailPlan
<1> QED BY <1>1, <1>2, <1>3

\* ScheduleReady
LEMMA ScheduleInv ==
    ASSUME IInv, ScheduleReady, UNCHANGED apiVars
    PROVE  IInv'
<1>1. pc = "decide" /\ ~HasFailed(copy) /\ copy \in Plan /\ Coroutine /\ Tasks(copy) \subseteq Task
  BY UnderWay, PlanFormed DEF ScheduleReady, IInv
<1>2. CASE Goto("launch")
  BY <1>1, <1>2, GotoInv DEF Deciding
<1>3. CASE ReadyTasks(copy) # {} /\ Save(Scheduled(copy, ReadyTasks(copy)), "launch")
  <2> DEFINE new == Scheduled(copy, ReadyTasks(copy))
  <2>1. ~Quenched(copy)
    BY <1>3 DEF ReadyTasks, Quenched, TaskTerminal
  <2>2. copy.status # "CANCELLED"
    BY <1>1, <2>1 DEF Coroutine, Deciding
  <2>3. Sound(copy, child) => Sound(new, child)
    BY <2>2, ScheduledMoves
  <2>4. new.status = copy.status /\ new.version = copy.version /\ Tasks(new) = Tasks(copy)
    BY <1>1, ScheduledForm DEF Tasks
  <2>5. \A a \in Task : TaskStatus(new, a) = IF a \in ReadyTasks(copy) THEN "RUNNING" ELSE TaskStatus(copy, a)
    BY <1>1, ScheduledForm
  <2>6. Save(new, "launch")
    BY <1>3
  <2> HIDE DEF new
  <2>7. ~HasFailed(new)
    BY <1>1, <2>4, <2>5 DEF HasFailed
  <2> QED BY <1>1, <2>1, <2>3, <2>4, <2>6, <2>7, SaveInv DEF Deciding
<1> QED BY <1>2, <1>3 DEF ScheduleReady

\* LaunchWave
LEMMA LaunchWaveInv ==
    ASSUME IInv, LaunchWave, UNCHANGED apiVars
    PROVE  IInv'
<1> DEFINE chosen == LaunchableTasks(copy)
<1>1. pc = "launch" /\ batch = {} /\ copy \in Plan /\ Coroutine /\ SamePlan(row, copy) /\ Superseded(row, child)
      /\ row \in Plan /\ row.status # "COMPLETED" /\ Tasks(copy) \subseteq Task
  BY UnderWay, PlanFormed DEF LaunchWave, IInv
<1>2. CASE Goto("settle")
  BY <1>1, <1>2, GotoInv DEF Deciding
<1>3. CASE Conclude(copy, "FAILED")
  BY <1>1, <1>3, ConcludeInv
<1>4. CASE /\ queue' = {TaskChild(copy, t) : t \in chosen}
           /\ pc' = "execute"
           /\ UNCHANGED <<row, copy, fresh, batch, childVars>>
  <2>1. child' = child /\ host' = host
    BY <1>4 DEF childVars
  <2>2. ASSUME NEW t \in chosen PROVE Startable(row, TaskChild(copy, t)) /\ TaskChild(copy, t) \in Child
    <3>1. t \in Task /\ TaskStatus(copy, t) = "RUNNING"
      BY <1>1 DEF LaunchableTasks
    <3>2. copy.task[t].in = copy.version /\ copy.version # 0 /\ TaskStatus(row, t) \notin {"PENDING", "SKIPPED"}
          /\ row.task[t].in = copy.task[t].in /\ row.version = copy.version
      BY <1>1, <3>1 DEF SamePlan
    <3>3. copy.task[t].in \in Versions
      BY <1>1, <3>1, <3>2, TaskFormed
    <3>4. TaskChild(copy, t) = <<t, row.version>> /\ TaskChild(copy, t) \in Task \X Versions
      BY <3>1, <3>2, <3>3 DEF TaskChild
    <3> QED BY <3>2, <3>4, PlanExecuteAssumption DEF Startable, Versions
  <2>3. queue' \subseteq Child /\ \A c \in queue' : Startable(row, c)
    BY <1>4, <2>2
  <2>4. ChildRunsTypeOK'
    BY <1>4, <2>1, <2>3, ApiStays DEF IInv, ChildRunsTypeOK, ApiType
  <2>5. Coroutine'
    BY <1>1, <1>4, <2>1 DEF Coroutine, Deciding
  <2>6. Queued'
    <3>1. row.status = "RUNNING" => ~HasFailed(row)
      BY <1>1 DEF Coroutine
    <3>2. row' = row
      BY <1>4
    <3> QED BY <1>4, <2>3, <3>1, <3>2 DEF Queued, HasFailed, Tasks, TaskStatus
  <2>7. Slots'
    <3>1. IsFiniteSet({}) /\ Cardinality({}) <= MaxParallel
      BY FS_EmptySet, ChildRunsAssumption
    <3> QED BY <1>1, <1>4, <2>1, <3>1 DEF IInv, Slots
  <2>8. Completion'
    BY <1>1, <1>4 DEF Completion
  <2>9. Sound(row', child') /\ \A c \in Child \ (Task \X Versions) : child'[c] = "ABSENT"
    BY <1>4, <2>1 DEF IInv
  <2> QED BY <2>4, <2>5, <2>6, <2>7, <2>8, <2>9 DEF IInv
<1> QED BY <1>2, <1>3, <1>4 DEF LaunchWave

\* Launch, where the next Child of the queue starts.
LEMMA StartInv ==
    ASSUME IInv, StartTask, UNCHANGED apiVars
    PROVE  IInv'
<1>1. PICK c \in queue : Launch(c)
  BY DEF StartTask
<1>2. CASE Stop
  BY <1>2, StopInv
<1>3. CASE /\ queue' = queue \ {c} /\ batch' = batch \cup {c}
           /\ child' = [child EXCEPT ![c] = IF @ = "ABSENT" THEN "RUNNING" ELSE @]
           /\ host' = [host EXCEPT ![c] = IF child[c] \in {"ABSENT", "RUNNING"} THEN "parent" ELSE @]
           /\ UNCHANGED <<row, copy, fresh, pc>>
  <2>1. pc = "execute" /\ Room /\ c \in Child /\ Sound(row, child) /\ Startable(row, c) /\ c \in Task \X Versions
        /\ Coroutine /\ Superseded(row, child) /\ row.status # "COMPLETED"
    BY <1>1, UnderWay DEF Launch, IInv, ChildRunsTypeOK, Queued, Startable
  <2>2. child \in ChildType /\ host \in [Child -> {"nobody", "parent", "api"}]
    BY DEF IInv, ChildRunsTypeOK, ChildType
  <2>3. ChildRunsTypeOK'
    BY <1>3, <2>1, <2>2, ApiStays DEF IInv, ChildRunsTypeOK, ApiType, ChildType
  <2>4. \A d \in Child \ (Task \X Versions) : child'[d] = "ABSENT"
    BY <1>3, <2>1, <2>2 DEF IInv, ChildType
  <2>5. ASSUME NEW d \in Child PROVE Evolved(row, child, child', d)
    <3>1. CASE d = c
      BY <1>3, <2>1, <2>2, <3>1 DEF Evolved, ChildType
    <3>2. CASE d # c
      BY <1>3, <2>2, <3>2 DEF Evolved, ChildType
    <3> QED BY <3>1, <3>2
  <2>6. Sound(row', child') /\ Superseded(row', child')
    BY <1>3, <2>1, <2>5, ChildrenMove, SupersededStays
  <2>7. Coroutine'
    BY <1>3, <2>1, <2>6 DEF Coroutine
  <2>8. Queued'
    BY <1>3 DEF IInv, Queued
  <2>9. Slots'
    <3>1. \A d \in Child : host'[d] = "parent" => pc' = "execute" /\ d \in batch'
      BY <1>3, <2>1, <2>2 DEF IInv, Slots
    <3>2. IsFiniteSet(batch) /\ Cardinality(batch) < MaxParallel
      BY <2>1 DEF IInv, Slots, Room
    <3>3. Cardinality(batch) \in Nat
      BY <3>2, FS_CardinalityType
    <3>4. /\ IsFiniteSet(batch \cup {c})
          /\ Cardinality(batch \cup {c}) = IF c \in batch THEN Cardinality(batch) ELSE Cardinality(batch) + 1
      BY <3>2, FS_AddElement
    <3>5. Cardinality(batch \cup {c}) <= MaxParallel
      BY <3>2, <3>3, <3>4, ChildRunsAssumption
    <3> QED BY <1>3, <2>1, <3>1, <3>4, <3>5 DEF Slots
  <2>10. Completion'
    BY <1>3, <2>1 DEF Completion
  <2> QED BY <2>3, <2>4, <2>6, <2>7, <2>8, <2>9, <2>10 DEF IInv
<1> QED BY <1>1, <1>2, <1>3 DEF Launch

(***************************************************************************)
(* The Children, the API and the operator.                                 *)
(***************************************************************************)

\* A Child goes on, or ends.
LEMMA ChildGoesOnInv ==
    ASSUME IInv, NEW c \in Child, UNCHANGED <<row, workVars>>, ApiType',
           NEW status, child' = [child EXCEPT ![c] = status],
           \/ status = child[c]
           \/ child[c] \in {"RUNNING"} \cup Parked /\ status \in {"RUNNING"} \cup Parked \cup Terminal,
           NEW by \in {"nobody", "api"}, host' = [host EXCEPT ![c] = by]
    PROVE  IInv'
<1>1. child \in ChildType /\ host \in [Child -> {"nobody", "parent", "api"}]
      /\ UNCHANGED <<row, copy, fresh, pc, queue, batch>>
  BY DEF IInv, ChildRunsTypeOK, ChildType, workVars
<1>2. child' \in ChildType
  BY <1>1 DEF ChildType
<1>3. ChildRunsTypeOK'
  BY <1>1, <1>2 DEF IInv, ChildRunsTypeOK, ApiType, ChildType
<1>4. \A d \in Child : d # c => child'[d] = child[d]
  BY <1>1 DEF ChildType
<1>5. child'[c] = status
  BY <1>1 DEF ChildType
<1>6. child[c] \in Terminal \cup {"ABSENT"} => child'[c] = child[c]
  BY <1>5 DEF Parked, Terminal
<1>7. child[c] \notin Terminal \cup {"ABSENT"} => child'[c] # "ABSENT"
  BY <1>5 DEF Parked, Terminal
<1>8. Sound(row', child') /\ (Superseded(row, child) => Superseded(row', child'))
  <2>1. ASSUME NEW d \in Child PROVE Evolved(row, child, child', d)
    BY <1>4, <1>6, <1>7 DEF Evolved
  <2>2. Sound(row, child)
    BY DEF IInv
  <2> QED BY <1>1, <2>1, <2>2, ChildrenMove, SupersededStays
<1>9. \A d \in Child \ (Task \X Versions) : child'[d] = "ABSENT"
  BY <1>4, <1>6 DEF IInv
<1>10. Coroutine' /\ Queued'
  BY <1>1, <1>8 DEF IInv, Coroutine, Queued
<1>11. Slots'
  BY <1>1 DEF IInv, Slots
<1>12. Completion'
  BY <1>1 DEF IInv, Completion, AllCompleted, Tasks, TaskStatus
<1> QED BY <1>3, <1>8, <1>9, <1>10, <1>11, <1>12 DEF IInv

\* ChildStep
LEMMA ChildStepInv ==
    ASSUME IInv, ChildStep
    PROVE  IInv'
<1>1. PICK c \in Child : ChildEnds(c)
  BY DEF ChildStep
<1>2. PICK end \in {"COMPLETED", "FAILED", "WAITING_APPROVAL", "CANCELLED"} :
          child' = [child EXCEPT ![c] = end]
  BY <1>1 DEF ChildEnds
<1>3. child[c] = "RUNNING" /\ host' = [host EXCEPT ![c] = "nobody"]
  BY <1>1 DEF ChildEnds
<1>4. UNCHANGED <<row, workVars>> /\ ApiType'
  BY ApiStays DEF ChildStep, IInv
<1>5. end \in {"RUNNING"} \cup Parked \cup Terminal
  BY DEF Parked, Terminal
<1> QED BY <1>2, <1>3, <1>4, <1>5, ChildGoesOnInv

\* The row behind the coroutine: it keeps its plan and names the same Children.
LEMMA RowInv ==
    ASSUME IInv, fresh' = FALSE, UNCHANGED <<copy, pc, queue, batch, childVars>>, ApiType',
           Sound(row', child), Behind(row, row'), row'.status \notin {"RUNNING", "COMPLETED"},
           row'.status = "CANCELLED" => Quenched(row')
    PROVE  IInv'
<1>1. child' = child /\ host' = host /\ Coroutine
  BY DEF childVars, IInv
<1>2. ChildRunsTypeOK'
  BY <1>1 DEF IInv, ChildRunsTypeOK, ApiType
<1>3. Coroutine'
  <2>1. copy' \in Plan => SamePlan(row', copy')
    BY <1>1, BehindStays DEF Coroutine
  <2>2. pc' \notin {"apply", "idle"} => Superseded(row', child')
    BY <1>1, BehindStays DEF Coroutine
  <2> QED BY <1>1, <2>1, <2>2 DEF Coroutine, Deciding
<1>4. Queued'
  BY BehindStays DEF IInv, Queued, ChildRunsTypeOK
<1>5. Slots' /\ Completion'
  BY <1>1 DEF IInv, Slots, Completion
<1> QED BY <1>1, <1>2, <1>3, <1>4, <1>5 DEF IInv

\* Interrupt
LEMMA InterruptInv ==
    ASSUME IInv, Interrupt, ApiType'
    PROVE  IInv'
<1>1. Sound(row, child) /\ row \in Plan /\ row.status = "RUNNING"
      /\ row' = [row EXCEPT !.status = "INTERRUPTED"] /\ fresh' = FALSE
      /\ UNCHANGED <<copy, pc, queue, batch, childVars>>
  BY DEF IInv, Sound, Interrupt
<1>2. "INTERRUPTED" \in RunStatus /\ "INTERRUPTED" # "CANCELLED" /\ row.status # "CANCELLED"
  BY <1>1 DEF RunStatus
<1>3. row'.status = "INTERRUPTED" /\ row'.version = row.version /\ row'.plan = row.plan /\ row'.task = row.task
  BY <1>1, <1>2, StatusForm
<1>4. Sound(row', child)
  BY <1>1, <1>2, StatusMoves
<1>5. Behind(row, row')
  BY <1>3 DEF Behind, TaskStatus
<1> QED BY <1>1, <1>3, <1>4, <1>5, RowInv

\* Cancel
LEMMA CancelInv ==
    ASSUME IInv, Cancel(CancelledPlan(row), PlannedChildren(row)), ApiType'
    PROVE  IInv'
<1>1. Sound(row, child) /\ row \in Plan /\ row' = CancelledPlan(row) /\ fresh' = FALSE
      /\ UNCHANGED <<copy, pc, queue, batch, childVars>>
  BY DEF IInv, Sound, Cancel
<1>2. Sound(row', child) /\ Quenched(row')
  BY <1>1, CancelMoves
<1>3. row'.status = "CANCELLED" /\ row'.version = row.version /\ row'.plan = row.plan
  BY <1>1, CancelledForm
<1>4. \A t \in Task : /\ row'.task[t].in = row.task[t].in
                     /\ TaskStatus(row', t) \in {TaskStatus(row, t), "CANCELLED"}
  BY <1>1, CancelledForm
<1>5. Behind(row, row')
  BY <1>3, <1>4 DEF Behind
<1> QED BY <1>1, <1>2, <1>3, <1>5, RowInv

\* The Children that a cancel names are Children.
LEMMA NamedAreChildren ==
    ASSUME IInv
    PROVE  PlannedChildren(row) \subseteq Child
<1>1. row \in Plan
  BY DEF IInv, Sound
<1>2. ASSUME NEW t \in Tasks(row), row.task[t].in # 0 PROVE TaskChild(row, t) \in Child
  <2>1. t \in Task
    BY <1>1, PlanFormed
  <2>2. row.task[t].in \in Versions
    BY <1>1, <1>2, <2>1, TaskFormed
  <2> QED BY <2>1, <2>2, PlanExecuteAssumption DEF TaskChild, Versions
<1> QED BY <1>2 DEF PlannedChildren

\* Control
LEMMA ControlInv ==
    ASSUME IInv, Control(CancelledPlan(row), PlannedChildren(row))
    PROVE  IInv'
<1>1. ChildRunsTypeOK /\ controls' \in 0 .. MaxControls /\ crashes' = crashes
  BY ChildRunsAssumption DEF IInv, ChildRunsTypeOK, Control
<1>2. CASE Interrupt
  <2>1. ApiType'
    BY <1>1, <1>2 DEF Interrupt, ChildRunsTypeOK, ApiType
  <2> QED BY <1>2, <2>1, InterruptInv
<1>3. CASE Cancel(CancelledPlan(row), PlannedChildren(row))
  <2>1. ApiType'
    BY <1>1, <1>3, NamedAreChildren DEF Cancel, ChildRunsTypeOK, ApiType
  <2> QED BY <1>3, <2>1, CancelInv
<1>4. ASSUME NEW c \in Child, ResumeChild(c) \/ StopChild(c), UNCHANGED <<row, workVars, cascade, signal>>
      PROVE  IInv'
  <2>1. ApiType'
    BY <1>1, <1>4 DEF ChildRunsTypeOK, ApiType
  <2>2. UNCHANGED <<row, workVars>>
    BY <1>4
  <2>3. CASE ResumeChild(c)
    <3>1. /\ child[c] \in {"RUNNING"} \cup Parked /\ child' = [child EXCEPT ![c] = "RUNNING"]
          /\ host' = [host EXCEPT ![c] = "api"]
      BY <2>3 DEF ResumeChild
    <3> QED BY <2>1, <2>2, <3>1, ChildGoesOnInv
  <2>4. CASE StopChild(c)
    <3>1. child[c] \in {"RUNNING"} \cup Parked /\ host' = [host EXCEPT ![c] = "nobody"]
      BY <2>4 DEF StopChild
    <3>2. PICK end \in {"CANCELLED", "INTERRUPTED"} : child' = [child EXCEPT ![c] = end]
      BY <2>4 DEF StopChild
    <3>3. end \in {"RUNNING"} \cup Parked \cup Terminal
      BY DEF Parked, Terminal
    <3> QED BY <2>1, <2>2, <3>1, <3>2, <3>3, ChildGoesOnInv
  <2> QED BY <1>4, <2>3, <2>4
<1> QED BY <1>2, <1>3, <1>4 DEF Control

\* Converge
LEMMA ConvergeInv ==
    ASSUME IInv, Converge
    PROVE  IInv'
<1>1. ChildRunsTypeOK /\ UNCHANGED <<crashes, controls>>
  BY DEF IInv, Converge
<1>2. ASSUME NEW c \in Child, CancelChild(c), UNCHANGED <<row, workVars>>
      PROVE  IInv'
  <2>1. ApiType'
    BY <1>1, <1>2 DEF CancelChild, ChildRunsTypeOK, ApiType
  <2>2. host' = [host EXCEPT ![c] = "nobody"]
    BY <1>2 DEF CancelChild
  <2>3. CASE child[c] \in Terminal \cup {"ABSENT"}
    <3>1. child' = [child EXCEPT ![c] = child[c]]
      BY <1>2, <2>3 DEF CancelChild
    <3> QED BY <1>2, <2>1, <2>2, <3>1, ChildGoesOnInv
  <2>4. CASE child[c] \notin Terminal \cup {"ABSENT"}
    <3>1. child' = [child EXCEPT ![c] = "CANCELLED"]
      BY <1>2, <2>4 DEF CancelChild
    <3>2. child[c] \in {"RUNNING"} \cup Parked /\ "CANCELLED" \in {"RUNNING"} \cup Parked \cup Terminal
      BY <1>1, <2>4 DEF ChildRunsTypeOK, Terminal
    <3> QED BY <1>2, <2>1, <2>2, <3>1, <3>2, ChildGoesOnInv
  <2> QED BY <2>3, <2>4
<1>3. CASE SignalParent
  <2>1. ApiType' /\ UNCHANGED <<crashes, controls, cascade>>
    BY <1>1, <1>3 DEF SignalParent, ChildRunsTypeOK, ApiType
  <2>2. CASE UNCHANGED <<row, workVars, childVars>>
    <3>1. UNCHANGED <<row, copy, fresh, pc, queue, batch, child, host>>
      BY <2>2 DEF workVars, childVars
    <3>2. ChildRunsTypeOK'
      BY <1>1, <2>1, <3>1 DEF ChildRunsTypeOK, ApiType
    <3> QED BY <3>1, <3>2 DEF IInv, Coroutine, Queued, Slots, Completion,
                  Superseded, AllCompleted, HasFailed, Quenched, Tasks, TaskStatus
  <2>3. CASE Stop
    <3>1. row' = row /\ child' = child /\ host' \in [Child -> {"nobody", "api"}]
          /\ copy' = NoCopy /\ fresh' = FALSE /\ pc' = "idle" /\ queue' = {} /\ batch' = {}
      BY <1>1, <2>3 DEF Stop, Stopped, ChildRunsTypeOK
    <3>2. Sound(row', child) /\ (row'.status = "COMPLETED" => AllCompleted(row'))
      BY <3>1 DEF IInv, Completion
    <3> QED BY <2>1, <3>1, <3>2, EndedInv
  <2> QED BY <1>3, <2>2, <2>3 DEF SignalParent
<1> QED BY <1>2, <1>3 DEF Converge

\* Crash
LEMMA CrashInv ==
    ASSUME IInv, Crash
    PROVE  IInv'
<1>1. ChildRunsTypeOK
  BY DEF IInv
<1>2. ApiType'
  <2>1. crashes' \in 0 .. MaxCrashes
    <3>1. crashes < MaxCrashes /\ crashes' = crashes + 1 /\ MaxCrashes \in Nat /\ crashes \in 0 .. MaxCrashes
      BY <1>1, ChildRunsAssumption DEF Crash, ChildRunsTypeOK
    <3> QED BY <3>1
  <2>2. cascade' = {} /\ signal' = FALSE /\ controls' = controls /\ controls \in 0 .. MaxControls
    BY <1>1 DEF Crash, ChildRunsTypeOK
  <2> QED BY <2>1, <2>2 DEF ApiType
<1>3. row' = row /\ child' = child /\ host' \in [Child -> {"nobody", "api"}]
      /\ copy' = NoCopy /\ fresh' = FALSE /\ pc' = "idle" /\ queue' = {} /\ batch' = {}
  BY DEF Crash
<1>4. Sound(row', child) /\ (row'.status = "COMPLETED" => AllCompleted(row'))
  BY <1>3 DEF IInv, Completion
<1> QED BY <1>2, <1>3, <1>4, EndedInv

(***************************************************************************)
(* The theorems.                                                           *)
(***************************************************************************)

\* The steps of the coroutine.
LEMMA StepInv ==
    ASSUME IInv, PlanStep
    PROVE  IInv'
<1>1. UNCHANGED apiVars
  BY DEF PlanStep
<1>2. CASE Resume \/ Preflight \/ Apply
  BY <1>1, <1>2, ResumeInv, PreflightInv, ApplyInv
<1>3. CASE CreatePlan
  BY <1>1, <1>3, CreateInv
<1>4. CASE ReconcileTasks \/ ReconcileWave \/ TasksReconciled
  BY <1>1, <1>4, ReconcileInv, ReconcileWaveInv, ReconciledInv
<1>5. ASSUME NEW t \in Task, ObserveTask(t) \/ TaskReturned(t) PROVE IInv'
  BY <1>1, <1>5, ObserveInv, ReturnedInv
<1>6. CASE ProposeCompletion \/ FinishPlan
  BY <1>1, <1>6, CompletionInv
<1>7. CASE ReleaseUnstarted \/ SkipDependents
  BY <1>1, <1>7, ReleaseInv, SkipInv
<1>8. CASE SettleFailure \/ SettleWave \/ FailPlan
  BY <1>1, <1>8, SettleInv
<1>9. CASE ScheduleReady \/ LaunchWave
  BY <1>1, <1>9, ScheduleInv, LaunchWaveInv
<1>10. CASE StartTask
  BY <1>1, <1>10, StartInv
<1> QED BY <1>2, <1>3, <1>4, <1>5, <1>6, <1>7, <1>8, <1>9, <1>10 DEF PlanStep

\* A new RunState.
LEMMA NewIsSound ==
    ASSUME NEW ch, \A a \in Task, v \in Versions : ch[<<a, v>>] = "ABSENT"
    PROVE  Sound(NewPlan, ch)
<1> DEFINE s == NewPlan
<1>1. s.status = "RUNNING" /\ s.version = 0 /\ s.plan = <<>> /\ s.tokens = 0
      /\ s.task = [t \in Task |-> NewTask]
  BY DEF NewPlan
<1>2. NewTask.status = "PENDING" /\ NewTask.in = 0 /\ NewTask \in TaskState
  BY PlanExecuteAssumption DEF NewTask, TaskState
<1>3. s \in Plan
  <2>1. [t \in Task |-> NewTask] \in [Task -> TaskState] /\ 0 \in 0 .. MaxReplans + 1
    BY <1>2, PlanExecuteAssumption
  <2> QED BY <2>1 DEF NewPlan, Plan
<1>4. \A a \in Task : TaskStatus(s, a) = "PENDING" /\ s.task[a].in = 0
  BY <1>1, <1>2 DEF TaskStatus
<1>5. Tasks(s) = {}
  BY <1>1 DEF Tasks
<1> HIDE DEF s
<1>6. ASSUME NEW a \in Task PROVE SoundTask(s, ch, a)
  <2>1. StatusFits(s, ch, a)
    BY <1>1, <1>4 DEF StatusFits
  <2>2. ChildrenFit(s, ch, a) /\ WorkIsKept(s, ch, a) /\ Provided(s, a)
    BY <1>5 DEF ChildrenFit, WorkIsKept, Provided
  <2> QED BY <2>1, <2>2 DEF SoundTask
<1>7. Tallies(s, ch, {})
  BY <1>1, <1>5, FS_EmptySet DEF Tallies
<1> QED BY <1>3, <1>5, <1>6, <1>7 DEF Sound, s

\* IInv holds of the initial states.
LEMMA InitInv ==
    ASSUME PlanExecuteInit
    PROVE  IInv
<1>1. /\ row = NewPlan /\ copy = NoCopy /\ fresh = FALSE /\ pc = "idle" /\ queue = {} /\ batch = {}
      /\ child = [c \in Child |-> "ABSENT"] /\ host = [c \in Child |-> "nobody"]
      /\ cascade = {} /\ signal = FALSE /\ crashes = 0 /\ controls = 0
  BY DEF PlanExecuteInit, ChildRunsInit
<1>2. ChildRunsTypeOK
  <2>1. 0 \in 0 .. MaxCrashes /\ 0 \in 0 .. MaxControls
    BY ChildRunsAssumption
  <2> QED BY <1>1, <2>1 DEF ChildRunsTypeOK
<1>3. Sound(row, child)
  <2>1. \A a \in Task, v \in Versions : child[<<a, v>>] = "ABSENT"
    BY <1>1, PlanExecuteAssumption DEF Versions
  <2> QED BY <1>1, <2>1, NewIsSound
<1>4. row.status = "RUNNING"
  BY <1>1 DEF NewPlan
<1>5. Coroutine
  BY <1>1, NoCopyIsNone DEF Coroutine, Deciding
<1>6. Queued /\ Slots /\ Completion
  BY <1>1, <1>4 DEF Queued, Slots, Completion
<1> QED BY <1>1, <1>2, <1>3, <1>5, <1>6 DEF IInv

\* IInv is inductive.
LEMMA NextInv ==
    ASSUME IInv, [PlanNext]_orchestrationVars
    PROVE  IInv'
<1>1. CASE PlanNext
  BY <1>1, StepInv, ChildStepInv, ControlInv, ConvergeInv, CrashInv DEF PlanNext
<1>2. CASE UNCHANGED orchestrationVars
  <2>1. UNCHANGED <<row, copy, fresh, pc, queue, batch, child, host, cascade, signal, crashes, controls>>
    BY <1>2 DEF orchestrationVars, workVars, childVars, apiVars
  <2>2. ChildRunsTypeOK'
    BY <2>1 DEF IInv, ChildRunsTypeOK
  <2> QED BY <2>1, <2>2 DEF IInv, Coroutine, Queued, Slots, Completion,
                  Superseded, AllCompleted, HasFailed, Quenched, Tasks, TaskStatus
<1> QED BY <1>1, <1>2

\* IInv is an invariant of the strategy, whatever is assumed of fairness.
LEMMA Invariance == PlanSpec => []IInv
<1>1. PlanExecuteInit => IInv
  BY InitInv
<1>2. IInv /\ [PlanNext]_orchestrationVars => IInv'
  BY NextInv
<1> QED BY <1>1, <1>2, PTL DEF PlanSpec

(***************************************************************************)
(* The theorems.                                                           *)
(***************************************************************************)

\* No Child of the current version exists before its task's dependencies completed.
LEMMA DependenciesFirst ==
    ASSUME IInv
    PROVE  TaskDependenciesComeFirst
<1>1. SUFFICES ASSUME NEW t \in Tasks(row), row.version > 0, child[<<t, row.version>>] # "ABSENT"
               PROVE  \A d \in row.plan[t] : TaskStatus(row, d) = "COMPLETED"
  BY DEF TaskDependenciesComeFirst
<1>2. Sound(row, child) /\ row \in Plan /\ t \in Task /\ row.version \in Versions
  BY <1>1, PlanFormed, Formed, PlanExecuteAssumption DEF IInv, Sound, Versions
<1>3. ChildrenFit(row, child, t) /\ Provided(row, t)
  BY <1>2 DEF Sound, SoundTask
<1>4. row.task[t].in = row.version
  BY <1>1, <1>2, <1>3 DEF ChildrenFit, Versions
<1> QED BY <1>1, <1>3, <1>4 DEF Provided, Met

\* No two versions of the plan run or wait together.
LEMMA NoOverlap ==
    ASSUME IInv
    PROVE  VersionsDoNotOverlap
<1>1. SUFFICES ASSUME NEW t \in Task, NEW v \in Versions, NEW u \in Task, NEW w \in Versions,
                      v > w, child[<<t, v>>] # "ABSENT", child[<<u, w>>] # "ABSENT"
               PROVE  child[<<u, w>>] \in Terminal
  BY DEF VersionsDoNotOverlap, Versions
<1>2. Sound(row, child) /\ row.version \in Nat /\ v \in Nat /\ w \in Nat
  BY Formed DEF IInv, Sound, Versions
<1>3. ChildrenFit(row, child, t) /\ ChildrenFit(row, child, u)
  BY <1>2 DEF Sound, SoundTask
<1>4. CASE v = row.version /\ row.task[t].in = v
  <2>1. ~Abandoned(row)
    BY <1>4 DEF Abandoned
  <2>2. w # row.version
    BY <1>1, <1>2, <1>4
  <2> QED BY <1>1, <1>3, <2>1, <2>2 DEF ChildrenFit
<1>5. CASE v < row.version
  <2>1. w # row.version /\ w + 1 # row.version
    BY <1>1, <1>2, <1>5
  <2> QED BY <1>1, <1>3, <2>1 DEF ChildrenFit
<1>6. v + 1 = row.version => v < row.version
  BY <1>2
<1> QED BY <1>1, <1>3, <1>4, <1>5, <1>6 DEF ChildrenFit

\* What one version completed, the next one does not run.
LEMMA WorkKept ==
    ASSUME IInv
    PROVE  CompletedWorkIsKept
<1>1. SUFFICES ASSUME NEW t \in Task, NEW v \in 1 .. MaxReplans, child[<<t, v>>] = "COMPLETED",
                      row.version = v + 1, child[<<t, v + 1>>] # "ABSENT"
               PROVE  FALSE
  BY DEF CompletedWorkIsKept
<1>2. Sound(row, child) /\ v \in Versions /\ v + 1 \in Versions /\ v \in Nat /\ v # 0
  BY PlanExecuteAssumption DEF IInv, Versions
<1>3. StatusFits(row, child, t) /\ ChildrenFit(row, child, t) /\ WorkIsKept(row, child, t)
  BY <1>2 DEF Sound, SoundTask
<1>4. row.task[t].in = v + 1
  BY <1>1, <1>2, <1>3 DEF ChildrenFit
<1>5. t \in Tasks(row) /\ ~Abandoned(row)
  BY <1>1, <1>2, <1>3, <1>4 DEF StatusFits, Abandoned
<1>6. row.task[t].in = v
  BY <1>1, <1>2, <1>3, <1>5 DEF WorkIsKept
<1> QED BY <1>2, <1>4, <1>6

\* The tokens are those of the Children that completed, and of each task that did.
LEMMA CountedOnce ==
    ASSUME IInv
    PROVE  TasksCountOnce
<1> DEFINE done == {t \in Tasks(row) : TaskStatus(row, t) = "COMPLETED"}
           completed == {c \in Child : child[c] = "COMPLETED"}
           f == [t \in done |-> TaskChild(row, t)]
<1>1. PICK counted \in SUBSET (Task \X Versions) : Tallies(row, child, counted)
  BY DEF IInv, Sound
<1>2. IsFiniteSet(Task \X Versions)
  BY CountableIsFinite
<1>3. IsFiniteSet(counted)
  BY <1>2, FS_Subset
<1>4. completed \subseteq Task \X Versions
  BY DEF IInv
<1>5. IsFiniteSet(completed)
  BY <1>2, <1>4, FS_Subset
<1>6. counted \subseteq completed
  BY <1>1, PlanExecuteAssumption DEF Tallies, Countable, Versions
<1>7. f \in Injection(done, counted)
  <2>1. \A t \in done : TaskChild(row, t) \in counted
    BY <1>1 DEF Tallies
  <2>2. f \in [done -> counted]
    BY <2>1
  <2>3. \A t, u \in done : f[t] = f[u] => t = u
    BY DEF TaskChild
  <2> HIDE DEF f, done
  <2> QED BY <2>2, <2>3 DEF Injection, IsInjective
<1> HIDE DEF f, done, completed
<1>8. IsFiniteSet(done) /\ Cardinality(done) <= Cardinality(counted)
  BY <1>3, <1>7, FS_Injection
<1>9. Cardinality(counted) <= Cardinality(completed)
  BY <1>5, <1>6, FS_Subset
<1>10. Cardinality(done) \in Nat /\ Cardinality(counted) \in Nat /\ Cardinality(completed) \in Nat
  BY <1>3, <1>5, <1>8, FS_CardinalityType
<1>11. row.tokens = Cardinality(counted)
  BY <1>1 DEF Tallies
<1>12. row.tokens >= Cardinality(done) /\ row.tokens <= Cardinality(completed)
  BY <1>8, <1>9, <1>10, <1>11
<1> QED BY <1>12 DEF TasksCountOnce, done, completed

\* A Parent that completed has the whole of its plan's work.
LEMMA WholePlan ==
    ASSUME IInv
    PROVE  PlanCompletionIsWhole
<1>1. SUFFICES ASSUME row.status = "COMPLETED", NEW t \in Tasks(row) PROVE ChildStatus(row, t) = "COMPLETED"
  BY DEF PlanCompletionIsWhole
<1>2. t \in Task /\ StatusFits(row, child, t) /\ TaskStatus(row, t) = "COMPLETED"
  BY <1>1, PlanFormed DEF IInv, Sound, SoundTask, Completion, AllCompleted
<1>3. row.task[t].in # 0
  BY <1>2 DEF StatusFits
<1> QED BY <1>2, <1>3 DEF StatusFits, ChildStatus

\* A Child starts from the queue of the step loop, in StartTask, and nowhere else.
LEMMA StartsFromTheQueue ==
    ASSUME IInv, PlanNext, NEW c \in Child, child[c] = "ABSENT", child'[c] # "ABSENT"
    PROVE  queue # {}
<1>1. child \in ChildType
  BY DEF IInv, ChildRunsTypeOK, ChildType
<1>2. ASSUME child' = child PROVE FALSE
  BY <1>2
<1>3. ASSUME NEW d \in Child, NEW status, child' = [child EXCEPT ![d] = status],
             status = child[d] \/ child[d] # "ABSENT"
      PROVE  FALSE
  BY <1>1, <1>3 DEF ChildType
<1>4. CASE PlanStep
  <2>1. CASE StartTask
    BY <2>1 DEF StartTask
  <2>2. CASE Resume \/ Preflight \/ Apply
    BY <1>2, <2>2 DEF Resume, Preflight, Apply, Stop, Goto, childVars
  <2>3. CASE CreatePlan \/ ReconcileTasks \/ ReconcileWave \/ TasksReconciled
    BY <1>2, <2>3 DEF CreatePlan, PlannerFails, Conclude, Save, Stop, ReconcileTasks, ReconcileWave,
                      TasksReconciled, childVars
  <2>4. ASSUME NEW t \in Task, ObserveTask(t) \/ TaskReturned(t) PROVE FALSE
    BY <1>2, <2>4 DEF ObserveTask, TaskReturned, childVars
  <2>5. CASE ProposeCompletion \/ FinishPlan
    BY <1>2, <2>5 DEF ProposeCompletion, FinishPlan, Conclude, Stop, Goto, childVars
  <2>6. CASE ReleaseUnstarted \/ SkipDependents
    BY <1>2, <2>6 DEF ReleaseUnstarted, SkipDependents, Save, Stop, Goto, childVars
  <2>7. CASE SettleFailure \/ SettleWave \/ FailPlan
    BY <1>2, <2>7 DEF SettleFailure, SettleWave, FailPlan, Wait, Replan, PlannerFails, Conclude, Save, Stop,
                      childVars
  <2>8. CASE ScheduleReady \/ LaunchWave
    BY <1>2, <2>8 DEF ScheduleReady, LaunchWave, Conclude, Save, Stop, Goto, childVars
  <2> QED BY <1>4, <2>1, <2>2, <2>3, <2>4, <2>5, <2>6, <2>7, <2>8 DEF PlanStep
<1>5. CASE ChildStep
  <2>1. PICK d \in Child : ChildEnds(d)
    BY <1>5 DEF ChildStep
  <2>2. child[d] = "RUNNING" /\ \E end : child' = [child EXCEPT ![d] = end]
    BY <2>1 DEF ChildEnds
  <2> QED BY <1>3, <2>2
<1>6. CASE Control(CancelledPlan(row), PlannedChildren(row))
  <2>1. ASSUME NEW d \in Child, ResumeChild(d) PROVE FALSE
    BY <1>3, <2>1 DEF ResumeChild, Parked
  <2>2. ASSUME NEW d \in Child, StopChild(d) PROVE FALSE
    <3>1. child[d] # "ABSENT" /\ \E end : child' = [child EXCEPT ![d] = end]
      BY <2>2 DEF StopChild, Parked
    <3> QED BY <1>3, <3>1
  <2>3. CASE Interrupt \/ Cancel(CancelledPlan(row), PlannedChildren(row))
    BY <1>2, <2>3 DEF Interrupt, Cancel, childVars
  <2> QED BY <1>6, <2>1, <2>2, <2>3 DEF Control
<1>7. CASE Converge
  <2>1. ASSUME NEW d \in Child, CancelChild(d) PROVE FALSE
    <3>1. child' = [child EXCEPT ![d] = IF child[d] \in Terminal \cup {"ABSENT"} THEN child[d] ELSE "CANCELLED"]
      BY <2>1 DEF CancelChild
    <3> QED BY <1>3, <3>1
  <2>2. CASE SignalParent
    BY <1>2, <2>2 DEF SignalParent, Stop, childVars
  <2> QED BY <1>7, <2>1, <2>2 DEF Converge
<1>8. CASE Crash
  BY <1>2, <1>8 DEF Crash
<1> QED BY <1>4, <1>5, <1>6, <1>7, <1>8 DEF PlanNext

\* Nothing starts behind a failure.
LEMMA NothingBehind ==
    ASSUME IInv, [PlanNext]_orchestrationVars, PlanRun,
           NEW t \in Task, NEW v \in Versions, child[<<t, v>>] = "ABSENT", child'[<<t, v>>] # "ABSENT"
    PROVE  ~(row.status = "RUNNING" /\ HasFailed(row))
<1>1. <<t, v>> \in Child
  BY PlanExecuteAssumption DEF Versions
<1>2. PlanNext
  BY DEF orchestrationVars, childVars
<1>3. queue # {}
  BY <1>1, <1>2, StartsFromTheQueue
<1> QED BY <1>3 DEF IInv, Queued

\* Children follow the dependencies of the plan: no Child of the current version exists
\* before the tasks it depends on completed, no two versions run or wait together,
\* completed work is neither run again nor counted twice, a Parent completes with the
\* whole of its plan's work, and nothing starts once a failure is recorded: over
\* observers that race, replans, interrupts, cancels and crashes (_advance_step,
\* _observe_child, _persist_ready_tasks, _replan, on_cancel).
THEOREM PlansAreFollowed == PlanSpec => PlanIsFollowed
<1>1. IInv => /\ PlanExecuteTypeOK /\ TaskDependenciesComeFirst /\ VersionsDoNotOverlap
              /\ CompletedWorkIsKept /\ TasksCountOnce /\ PlanCompletionIsWhole
  <2> SUFFICES ASSUME IInv
               PROVE  /\ PlanExecuteTypeOK /\ TaskDependenciesComeFirst /\ VersionsDoNotOverlap
                      /\ CompletedWorkIsKept /\ TasksCountOnce /\ PlanCompletionIsWhole
    OBVIOUS
  <2>1. PlanExecuteTypeOK
    BY DEF IInv, Sound, Coroutine, PlanExecuteTypeOK
  <2> QED BY <2>1, DependenciesFirst, NoOverlap, WorkKept, CountedOnce, WholePlan
<1>2. IInv /\ [PlanNext]_orchestrationVars =>
        [PlanRun => \A t \in Task, v \in 1 .. MaxReplans + 1 :
            child[<<t, v>>] = "ABSENT" /\ child'[<<t, v>>] # "ABSENT" =>
                ~(row.status = "RUNNING" /\ HasFailed(row))]_orchestrationVars
  BY NothingBehind DEF Versions
<1>3. PlanSpec => [][PlanNext]_orchestrationVars
  BY DEF PlanSpec
<1> QED BY <1>1, <1>2, <1>3, Invariance, PTL DEF PlanIsFollowed, NothingStartsBehindAFailure

\* A Parent never executes more Children than it has slots, those that a restart
\* resumes included, and completes only when no Child of any version runs or waits
\* (execute, _advance_step, _complete_plan).
THEOREM PlanChildrenSettled == PlanSpec => []ChildrenAreSettled
<1>1. IInv => ChildrenAreSettled
  <2> SUFFICES ASSUME IInv PROVE ChildrenAreSettled
    OBVIOUS
  <2> DEFINE executed == {c \in Child : host[c] = "parent"}
  <2>1. Cardinality(executed) <= MaxParallel
    <3>1. CASE pc = "execute"
      <4>1. executed \subseteq batch /\ IsFiniteSet(batch) /\ Cardinality(batch) <= MaxParallel
        BY <3>1 DEF IInv, Slots
      <4>2. IsFiniteSet(executed) /\ Cardinality(executed) <= Cardinality(batch)
        BY <4>1, FS_Subset
      <4>3. Cardinality(executed) \in Nat /\ Cardinality(batch) \in Nat
        BY <4>1, <4>2, FS_CardinalityType
      <4> QED BY <4>1, <4>2, <4>3, ChildRunsAssumption
    <3>2. CASE pc # "execute"
      <4>1. executed = {}
        BY <3>2 DEF IInv, Slots
      <4> QED BY <4>1, FS_EmptySet, ChildRunsAssumption
    <3> QED BY <3>1, <3>2
  <2>2. CompletionIsSettled
    <3>1. SUFFICES ASSUME row.status = "COMPLETED", NEW c \in Child PROVE child[c] \in Terminal \cup {"ABSENT"}
      BY DEF CompletionIsSettled
    <3>2. Sound(row, child) /\ AllCompleted(row) /\ row.status # "CANCELLED"
      BY <3>1 DEF IInv, Completion
    <3>3. CASE c \in Task \X Versions
      BY <3>2, <3>3, CompletedChildren
    <3>4. CASE c \notin Task \X Versions
      BY <3>4 DEF IInv
    <3> QED BY <3>3, <3>4
  <2> QED BY <2>1, <2>2 DEF ChildrenAreSettled, ParallelismIsBounded
<1> QED BY <1>1, Invariance, PTL
=============================================================================
