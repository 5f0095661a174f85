-------------------------- MODULE ControlPlaneProofs --------------------------
(***************************************************************************)
(* Proofs about ControlPlane, for any requests, keys and bounds.           *)
(*                                                                         *)
(* The inductive invariant IInv says, thread by thread, what a handler may *)
(* rely on between two of its steps (Sound): which lock it holds, how the  *)
(* copy of the Run it holds relates to the Run, and what its durable       *)
(* record says.  A cancel or an interrupt changes the Run under a handler  *)
(* that holds the other lock, so what a handler read may be old; but an    *)
(* approval under way still finds the Run as it read it, or cancelled.     *)
(***************************************************************************)
EXTENDS ControlPlane, TLAPS

\* The handler is inside the lock.
Holding == {"load", "begin", "validate", "act", "write", "advance", "step", "settle", "release"}

\* It decides by the copy it loaded.
Reading == {"begin", "validate", "act"}

\* It has begun, or found, the record of its key.
Registered == {"validate", "act", "write", "advance", "step", "settle", "release"}

Executing == {"advance", "step"}

\* What a pending approval and the decisions have to do with each other.
Legal(x) ==
    /\ x \in Run
    /\ \A i \in Invocation : i > x.asked => x.decisions[i] = "none"
    /\ x.status = "WAITING_APPROVAL" =>
          x.asked > 0 /\ x.pending = x.asked /\ x.decisions[x.pending] = "none"

\* What the client of an operation that was carried out was told of the Run x.
Effect(x, op, named) ==
    /\ op = "cancel" => x.status = "CANCELLED"
    /\ op \in Deciding /\ named # 0 =>
          x.decisions[named] = op \/ x.status = "CANCELLED"

\* A copy of the Run x: as new as the Run only if it is the Run.
Seen(x, copy) ==
    /\ copy.sequence <= x.sequence
    /\ copy.sequence = x.sequence => copy = x
    /\ copy.status = "CANCELLED" => x.status = "CANCELLED"

Placed(r, f) ==
    /\ r = Turn => f.pc \in Executing \cup {"settle", "release", "done"}
    /\ Op(r) = "interrupt" =>
          f.pc \in {"start", "write", "done"} /\ lock["run"] # r /\ lock["cancel"] # r
    /\ f.pc \in Executing => Op(r) # "cancel"
    /\ f.pc \in Holding /\ Op(r) # "interrupt" => lock[LockOf(r)] = r

Informed(r, f) ==
    /\ f.pc \in Reading \cup {"write", "step"} => Seen(run, f.copy)
    /\ f.pc \in Reading /\ Op(r) \in Deciding =>
          /\ f.copy.status = "WAITING_APPROVAL" => run = f.copy \/ run.status = "CANCELLED"
          /\ Ask[r].named # 0 => f.named = Ask[r].named
    /\ f.pc \in {"act", "write"} /\ Op(r) \in Deciding =>
          f.copy.status = "WAITING_APPROVAL" /\ f.named = f.copy.pending
    /\ f.pc = "write" => f.copy.status \notin {"CANCELLED", "COMPLETED"}
    /\ f.pc = "write" /\ Op(r) = "resume" => f.copy.status # "WAITING_APPROVAL"
    /\ f.pc = "write" /\ Op(r) = "interrupt" => f.copy.status = "RUNNING"
    /\ f.pc = "step" => f.copy.status = "RUNNING"

OnRecord(r, f) ==
    /\ f.pc \in Registered /\ Op(r) \notin {"interrupt", "turn"} =>
          LET rec == ops[KeyOf(r)]
          IN /\ rec.status # "ABSENT"
             /\ rec.op = Op(r)
             /\ f.pc \in {"validate", "act", "write"} => rec.named = f.named
             /\ Op(r) \in Deciding /\ Ask[r].named # 0 => rec.named = Ask[r].named
             /\ f.pc \in Executing \/ f.outcome = "COMPLETED" => Effect(run, rec.op, rec.named)
    /\ f.pc \in {"start", "lock", "load", "write"} \cup Reading => f.outcome = "none"
    /\ f.pc \in {"settle", "release"} => f.outcome # "none"

Sound(r) == Placed(r, thread[r]) /\ Informed(r, thread[r]) /\ OnRecord(r, thread[r])

RecordsAreTrue ==
    \A k \in Key :
        /\ ops[k].status = "ABSENT" => ops[k] = Unused
        /\ ops[k].status = "COMPLETED" => Effect(run, ops[k].op, ops[k].named)

IInv ==
    /\ TypeOK
    /\ Legal(run)
    /\ LocksAreReleased
    /\ RecordsAreTrue
    /\ DecisionWasAskedFor
    /\ AnswerStaysTrue
    /\ \A r \in Thread : Sound(r)

(***************************************************************************)
(* What one step of thread r may do to what the others rely on.            *)
(***************************************************************************)

\* The Run: kept, or moved on by one checkpoint.  A cancelled Run stays, a decision
\* stays, and only the holder of the run lock or a cancel ends a wait for approval.
Evolves(r) ==
    \/ run' = run
    \/ /\ Legal(run')
       /\ run'.sequence = run.sequence + 1
       /\ run.status # "CANCELLED"
       /\ \A i \in Invocation :
             IF run.decisions[i] # "none" THEN run'.decisions[i] = run.decisions[i]
             ELSE run'.decisions[i] # "none" =>
                    \E k \in Key : ops[k].op = run'.decisions[i] /\ ops[k].named = i
       /\ run.status = "WAITING_APPROVAL" =>
             run'.status = "CANCELLED" \/ (LockOf(r) = "run" /\ lock["run"] = r)

\* The records: what a record is about stays, and an outcome is recorded by what it was.
OpsEvolve ==
    /\ ops' \in [Key -> Operation]
    /\ \A k \in Key :
          /\ ops'[k].status = "ABSENT" => ops'[k] = Unused
          /\ ops[k].status # "ABSENT" =>
                ops'[k].status # "ABSENT" /\ ops'[k].op = ops[k].op /\ ops'[k].named = ops[k].named
          /\ ops'[k].status = "COMPLETED" /\ ops[k].status # "COMPLETED" =>
                Effect(run', ops'[k].op, ops'[k].named)

\* The locks: r takes a free one, or frees its own.
LocksEvolve(r, f) ==
    /\ lock' \in [{"run", "cancel"} -> Thread \cup {"free"}]
    /\ \A l \in {"run", "cancel"} :
          /\ lock[l] \notin {"free", r} => lock'[l] = lock[l]
          /\ lock[l] \in {"free", r} => lock'[l] \in {"free", r}
          /\ lock'[l] = r => f.pc \notin {"start", "lock", "done"}

\* The answers: r may be answered, truthfully.
RepliesEvolve(r) ==
    /\ reply' \in [Thread -> Reply]
    /\ \A s \in Thread : s # r => reply'[s] = reply[s]
    /\ r \in Request /\ reply'[r] = "ok" /\ reply[r] # "ok" => Effect(run', Op(r), Ask[r].named)

\* A decision that was taken, and a cancel, are never undone.
Settled ==
    /\ run.status = "CANCELLED" => run' = run
    /\ \A i \in Invocation : run.decisions[i] # "none" => run'.decisions[i] = run.decisions[i]

\* The operations of the threads, and what the assumptions say of the requests.
LEMMA OpFacts ==
    /\ Op(Turn) = "turn"
    /\ \A r \in Request :
          /\ r # Turn
          /\ Op(r) = Ask[r].op /\ KeyOf(r) = Ask[r].key
          /\ Op(r) \in {"approve", "reject", "resume", "cancel", "interrupt"}
          /\ KeyOf(r) \in Key
          /\ Ask[r].named \in 0 .. MaxAsked
    /\ \A r \in Thread : r # "free"
    /\ \A r \in Thread : LockOf(r) \in {"run", "cancel"}
    /\ MaxAsked \in Nat
BY RequestAssumption, BoundAssumption DEF Op, KeyOf, Thread, LockOf

\* What was carried out stays carried out: a decision is not taken back and a cancelled
\* Run stays cancelled.
LEMMA EffectStays ==
    ASSUME TypeOK, NEW r, Evolves(r), NEW op, NEW named \in 0 .. MaxAsked, Effect(run, op, named)
    PROVE  Effect(run', op, named)
<1>1. CASE run' = run
  BY <1>1 DEF Effect
<1>2. CASE run' # run
  <2>1. named # 0 => named \in Invocation
    BY OpFacts DEF Invocation
  <2>2. \A i \in Invocation : run.decisions[i] # "none" => run'.decisions[i] = run.decisions[i]
    BY <1>2 DEF Evolves
  <2> QED
    BY <1>2, <2>1, <2>2 DEF Evolves, Effect, Deciding
<1> QED BY <1>1, <1>2

\* A copy of the Run stays an old copy when the Run moves on.
LEMMA SeenStays ==
    ASSUME TypeOK, NEW r, Evolves(r), NEW copy \in Run, Seen(run, copy)
    PROVE  Seen(run', copy)
<1>1. CASE run' = run
  BY <1>1 DEF Seen
<1>2. CASE run' # run
  <2>1. copy.sequence \in Nat /\ run.sequence \in Nat
    BY DEF TypeOK, Run
  <2> QED BY <1>2, <2>1 DEF Evolves, Seen
<1> QED BY <1>1, <1>2

\* A handler may rely on what it knows while the other threads take steps.
LEMMA OthersStaySound ==
    ASSUME IInv, NEW r \in Thread, NEW f, Evolves(r), OpsEvolve, LocksEvolve(r, f),
           NEW s \in Thread, s # r, thread'[s] = thread[s]
    PROVE  Sound(s)'
<1> DEFINE t == thread[s]
<1>0. Sound(s) /\ TypeOK /\ t \in Frame /\ t.copy \in Run /\ t.named \in 0 .. MaxAsked
  BY DEF IInv, TypeOK, Frame
<1>l. \A l \in {"run", "cancel"} : lock[l] = s => lock'[l] = s
  BY OpFacts DEF LocksEvolve
<1>m. \A l \in {"run", "cancel"} : lock[l] # s => lock'[l] # s
  BY OpFacts DEF LocksEvolve
<1>1. Placed(s, t)'
  BY <1>0, <1>l, <1>m, OpFacts DEF Sound, Placed, Op, LockOf
<1>2. Informed(s, t)'
  <2>1. t.pc \in Reading \cup {"write", "step"} => Seen(run', t.copy)
    BY <1>0, SeenStays DEF Sound, Informed
  <2>2. t.pc \in Reading /\ Op(s) \in Deciding /\ t.copy.status = "WAITING_APPROVAL"
          => run' = t.copy \/ run'.status = "CANCELLED"
    <3> HAVE t.pc \in Reading /\ Op(s) \in Deciding /\ t.copy.status = "WAITING_APPROVAL"
    <3>1. lock["run"] = s
      BY <1>0 DEF Sound, Placed, Holding, Reading, LockOf, Deciding
    <3>2. run = t.copy \/ run.status = "CANCELLED"
      BY <1>0 DEF Sound, Informed
    <3> QED BY <3>1, <3>2 DEF Evolves
  <2> QED BY <1>0, <2>1, <2>2 DEF Sound, Informed, Op
<1>3. OnRecord(s, t)'
  <2> DEFINE old == ops[KeyOf(s)]
             new == ops'[KeyOf(s)]
  <2>1. t.pc \in Registered /\ Op(s) \notin {"interrupt", "turn"} =>
           /\ new.status # "ABSENT"
           /\ new.op = Op(s)
           /\ t.pc \in {"validate", "act", "write"} => new.named = t.named
           /\ Op(s) \in Deciding /\ Ask[s].named # 0 => new.named = Ask[s].named
           /\ t.pc \in Executing \/ t.outcome = "COMPLETED" => Effect(run', new.op, new.named)
    <3> HAVE t.pc \in Registered /\ Op(s) \notin {"interrupt", "turn"}
    <3>1. KeyOf(s) \in Key
      BY OpFacts DEF Thread
    <3>2. old.named \in 0 .. MaxAsked
      BY <1>0, <3>1 DEF TypeOK, Operation
    <3>3. /\ old.status # "ABSENT"
          /\ old.op = Op(s)
          /\ t.pc \in {"validate", "act", "write"} => old.named = t.named
          /\ Op(s) \in Deciding /\ Ask[s].named # 0 => old.named = Ask[s].named
          /\ t.pc \in Executing \/ t.outcome = "COMPLETED" => Effect(run, old.op, old.named)
      BY <1>0 DEF Sound, OnRecord
    <3>4. new.status # "ABSENT" /\ new.op = old.op /\ new.named = old.named
      BY <3>1, <3>3 DEF OpsEvolve
    <3>5. t.pc \in Executing \/ t.outcome = "COMPLETED" => Effect(run', old.op, old.named)
      BY <1>0, <3>2, <3>3, EffectStays
    <3> QED BY <3>3, <3>4, <3>5
  <2>2. /\ t.pc \in {"start", "lock", "load", "write"} \cup Reading => t.outcome = "none"
        /\ t.pc \in {"settle", "release"} => t.outcome # "none"
    BY <1>0 DEF Sound, OnRecord
  <2> QED BY <2>1, <2>2 DEF OnRecord, Op, KeyOf
<1> QED BY <1>1, <1>2, <1>3 DEF Sound

\* A step that does no more than this, and leaves its own thread Sound, preserves IInv.
LEMMA StepPreserves ==
    ASSUME IInv, NEW r \in Thread, NEW f \in Frame, Goto(r, f), crashes' = crashes,
           Evolves(r), OpsEvolve, LocksEvolve(r, f), RepliesEvolve(r), Sound(r)'
    PROVE  IInv' /\ Settled
<1>t. TypeOK /\ Legal(run) /\ LocksAreReleased /\ RecordsAreTrue
  BY DEF IInv
<1>f. \A s \in Thread : thread'[s] = IF s = r THEN f ELSE thread[s]
  BY <1>t DEF TypeOK, Goto
<1>1. Legal(run')
  BY <1>t DEF Evolves
<1>2. TypeOK'
  BY <1>t, <1>1, <1>f DEF TypeOK, Legal, OpsEvolve, LocksEvolve, RepliesEvolve, Goto
<1>3. LocksAreReleased'
  <2> SUFFICES ASSUME NEW l \in {"run", "cancel"}, lock'[l] # "free"
               PROVE  thread'[lock'[l]].pc \notin {"start", "lock", "done"}
    BY DEF LocksAreReleased
  <2>1. CASE lock[l] \in {"free", r}
    BY <1>f, <2>1 DEF LocksEvolve
  <2>2. CASE lock[l] \notin {"free", r}
    BY <1>t, <1>f, <2>2 DEF LocksEvolve, LocksAreReleased, TypeOK
  <2> QED BY <2>1, <2>2
<1>4. RecordsAreTrue'
  <2> SUFFICES ASSUME NEW k \in Key
               PROVE  /\ ops'[k].status = "ABSENT" => ops'[k] = Unused
                      /\ ops'[k].status = "COMPLETED" => Effect(run', ops'[k].op, ops'[k].named)
    BY DEF RecordsAreTrue, Effect
  <2>1. ops[k].named \in 0 .. MaxAsked
    BY <1>t DEF TypeOK, Operation
  <2>2. ops[k].status = "COMPLETED" => Effect(run', ops[k].op, ops[k].named)
    BY <1>t, <2>1, EffectStays DEF RecordsAreTrue
  <2> QED BY <2>2 DEF OpsEvolve
<1>5. DecisionWasAskedFor'
  <2> SUFFICES ASSUME NEW i \in Invocation, run'.decisions[i] # "none"
               PROVE  \E k \in Key : ops'[k].op = run'.decisions[i] /\ ops'[k].named = i
    BY DEF DecisionWasAskedFor, Invocation
  <2>1. PICK k \in Key : ops[k].op = run'.decisions[i] /\ ops[k].named = i
    BY DEF IInv, DecisionWasAskedFor, Evolves
  <2>2. ops[k].status # "ABSENT"
    BY <1>t, <2>1 DEF RecordsAreTrue, Unused
  <2> QED BY <2>1, <2>2 DEF OpsEvolve
<1>6. AnswerStaysTrue'
  <2>1. \A s \in Request : reply'[s] = "ok" => Effect(run', Op(s), Ask[s].named)
    <3> SUFFICES ASSUME NEW s \in Request, reply'[s] = "ok"
                 PROVE  Effect(run', Op(s), Ask[s].named)
      OBVIOUS
    <3>1. CASE reply[s] = "ok"
      <4>1. Effect(run, Op(s), Ask[s].named)
        BY <3>1 DEF IInv, AnswerStaysTrue, Effect
      <4> QED BY <1>t, <4>1, EffectStays, OpFacts
    <3>2. CASE reply[s] # "ok"
      BY <3>2 DEF RepliesEvolve, Thread
    <3> QED BY <3>1, <3>2
  <2> QED BY <2>1 DEF AnswerStaysTrue, Effect, Op
<1>7. \A s \in Thread : Sound(s)'
  BY <1>f, OthersStaySound
<1>8. Settled
  BY DEF Evolves, Settled
<1> QED BY <1>1, <1>2, <1>3, <1>4, <1>5, <1>6, <1>7, <1>8 DEF IInv, Legal

\* What a thread that is doing nothing yet, or does no more, holds: no lock.
LEMMA RestingHoldsNothing ==
    ASSUME IInv, NEW r \in Thread, thread[r].pc \in {"start", "lock", "done"}
    PROVE  \A l \in {"run", "cancel"} : lock[l] # r
BY OpFacts DEF IInv, LocksAreReleased

\* A step that changes only its own thread.
LEMMA MovePreserves ==
    ASSUME IInv, NEW r \in Thread, NEW f \in Frame, Move(r, f),
           Placed(r, f), Informed(r, f), OnRecord(r, f),
           f.pc \in {"start", "lock", "done"} => thread[r].pc \in {"start", "lock", "done"}
    PROVE  IInv' /\ Settled
<1>1. Goto(r, f) /\ UNCHANGED <<run, ops, lock, reply, crashes>>
  BY DEF Move
<1>2. Evolves(r)
  BY <1>1 DEF Evolves
<1>3. OpsEvolve
  BY <1>1 DEF OpsEvolve, IInv, TypeOK, RecordsAreTrue
<1>4. LocksEvolve(r, f)
  BY <1>1, RestingHoldsNothing DEF LocksEvolve, IInv, TypeOK
<1>5. RepliesEvolve(r)
  BY <1>1 DEF RepliesEvolve, IInv, TypeOK
<1>6. Sound(r)'
  <2>1. thread'[r] = f
    BY <1>1 DEF Goto, IInv, TypeOK
  <2>2. Placed(r, f)'
    BY <1>1 DEF Placed, Op, LockOf
  <2>3. Informed(r, f)'
    BY <1>1 DEF Informed, Op, Seen
  <2>4. OnRecord(r, f)'
    BY <1>1 DEF OnRecord, Op, KeyOf, Effect
  <2> QED BY <2>1, <2>2, <2>3, <2>4 DEF Sound
<1> QED BY <1>1, <1>2, <1>3, <1>4, <1>5, <1>6, StepPreserves

\* A thread that holds nothing, and the Run as it was created.
LEMMA BareFacts ==
    /\ NewRun \in Run /\ Legal(NewRun)
    /\ \A pc, outcome :
          /\ Bare(pc, outcome).pc = pc
          /\ Bare(pc, outcome).outcome = outcome
    /\ \A pc \in {"start", "advance", "settle", "release", "done"},
          outcome \in {"none", "COMPLETED", "FAILED"} : Bare(pc, outcome) \in Frame
BY OpFacts DEF NewRun, Run, Bare, Frame, Decision, Legal, Invocation

\* A request is answered and its thread ends; its locks, if it had any, are free.
LEMMA AnswerPreserves ==
    ASSUME IInv, NEW r \in Thread, NEW answer \in Reply, Answer(r, answer),
           UNCHANGED <<run, ops, crashes>>,
           lock' = Unlocked(r) \/ (lock' = lock /\ thread[r].pc \in {"start", "lock", "done"}),
           answer = "ok" /\ r \in Request => Effect(run, Op(r), Ask[r].named)
    PROVE  IInv' /\ Settled
<1> DEFINE f == Bare("done", "none")
<1>1. f \in Frame /\ f.pc = "done" /\ f.outcome = "none"
  BY BareFacts
<1>2. Evolves(r)
  BY DEF Evolves
<1>3. OpsEvolve
  BY DEF OpsEvolve, IInv, TypeOK, RecordsAreTrue
<1>4. LocksEvolve(r, f)
  <2>1. CASE lock' = Unlocked(r)
    BY <2>1, <1>1, OpFacts DEF LocksEvolve, IInv, TypeOK, Unlocked
  <2>2. CASE lock' = lock /\ thread[r].pc \in {"start", "lock", "done"}
    BY <2>2, <1>1, RestingHoldsNothing DEF LocksEvolve, IInv, TypeOK
  <2> QED BY <2>1, <2>2
<1>5. RepliesEvolve(r)
  BY DEF RepliesEvolve, IInv, TypeOK, Answer
<1>6. Sound(r)'
  <2>1. thread'[r] = f
    BY DEF Answer, Goto, IInv, TypeOK
  <2>2. lock'["run"] # r /\ lock'["cancel"] # r
    BY OpFacts, RestingHoldsNothing DEF Unlocked
  <2> QED
    BY <1>1, <2>1, <2>2
    DEF Sound, Placed, Informed, OnRecord, Op, Holding, Reading, Registered, Executing
<1> QED BY <1>1, <1>2, <1>3, <1>4, <1>5, <1>6, StepPreserves DEF Answer

(***************************************************************************)
(* The handler of a request.                                               *)
(***************************************************************************)
\* A known key is answered from its record, which tells the truth.
LEMMA LookupPreserves ==
    ASSUME IInv, NEW r \in Thread, Lookup(r)
    PROVE  IInv' /\ Settled
<1>0. /\ thread[r].pc = "start" /\ Op(r) # "interrupt" /\ r # Turn
      /\ thread[r] \in Frame /\ Sound(r)
  BY DEF Lookup, At, IInv, TypeOK, Sound, Placed, Executing
<1>1. r \in Request /\ KeyOf(r) \in Key
  BY <1>0, OpFacts DEF Thread
<1>2. CASE ops[KeyOf(r)].status = "ABSENT"
  <2> DEFINE f == [thread[r] EXCEPT !.pc = "lock"]
  <2>1. f \in Frame /\ f.pc = "lock"
    BY <1>0 DEF Frame
  <2>2. Move(r, f)
    BY <1>2 DEF Lookup
  <2>3. Placed(r, f) /\ Informed(r, f) /\ OnRecord(r, f)
    BY <1>0, <2>1 DEF Sound, Placed, Informed, OnRecord, Holding, Reading, Registered, Executing
  <2> QED BY <1>0, <2>1, <2>2, <2>3, MovePreserves
<1>3. CASE ops[KeyOf(r)].status # "ABSENT"
  <2> DEFINE rec == ops[KeyOf(r)]
             answer == CASE ~SameRequest(r, rec, Named(r, rec.named)) -> "conflict"
                         [] OTHER -> [IN_PROGRESS |-> "busy", COMPLETED |-> "ok",
                                      FAILED |-> "error"][rec.status]
  <2>1. Answer(r, answer) /\ UNCHANGED <<run, ops, lock, crashes>>
    BY <1>3 DEF Lookup
  <2>2. rec.status \in {"IN_PROGRESS", "COMPLETED", "FAILED"}
    BY <1>1, <1>3 DEF IInv, TypeOK, Operation
  <2>3. answer \in Reply
    BY <2>2 DEF Reply
  <2>4. answer = "ok" => Effect(run, Op(r), Ask[r].named)
    <3> HAVE answer = "ok"
    <3>1. SameRequest(r, rec, Named(r, rec.named)) /\ rec.status = "COMPLETED"
      BY <2>2
    <3>2. Effect(run, rec.op, rec.named)
      BY <1>1, <3>1 DEF IInv, RecordsAreTrue
    <3>3. rec.op = Op(r) /\ (Op(r) \in Deciding /\ Ask[r].named # 0 => rec.named = Ask[r].named)
      BY <3>1 DEF SameRequest, Named
    <3> QED BY <3>2, <3>3 DEF Effect
  <2> QED BY <1>0, <2>1, <2>3, <2>4, AnswerPreserves
<1> QED BY <1>2, <1>3

\* The handler enters under a lock that was free, or is answered operation_in_progress.
LEMMA LockPreserves ==
    ASSUME IInv, NEW r \in Thread, Lock(r)
    PROVE  IInv' /\ Settled
<1>0. /\ thread[r].pc = "lock" /\ Op(r) # "interrupt" /\ r # Turn
      /\ thread[r] \in Frame /\ Sound(r) /\ TypeOK
  BY DEF Lock, At, IInv, TypeOK, Sound, Placed, Executing
<1>1. CASE Free(LockOf(r))
  <2> DEFINE f == [thread[r] EXCEPT !.pc = "load"]
  <2>1. f \in Frame /\ f.pc = "load"
    BY <1>0 DEF Frame
  <2>2. /\ Goto(r, f) /\ lock' = [lock EXCEPT ![LockOf(r)] = r]
        /\ UNCHANGED <<run, ops, reply, crashes>>
    BY <1>1 DEF Lock
  <2>3. Evolves(r) /\ RepliesEvolve(r) /\ OpsEvolve
    BY <2>2 DEF Evolves, RepliesEvolve, OpsEvolve, IInv, TypeOK, RecordsAreTrue
  <2>4. LocksEvolve(r, f)
    BY <1>0, <1>1, <2>1, <2>2, OpFacts DEF LocksEvolve, TypeOK, Free
  <2>5. Sound(r)'
    <3>1. thread'[r] = f /\ lock'[LockOf(r)] = r
      BY <1>0, <2>2, OpFacts DEF Goto, TypeOK
    <3>2. lock'[LockOf(r)'] = r
      BY <3>1 DEF LockOf, Op
    <3> QED
      BY <1>0, <2>1, <3>1, <3>2
      DEF Sound, Placed, Informed, OnRecord, Op, Holding, Reading, Registered, Executing
  <2> QED BY <2>1, <2>2, <2>3, <2>4, <2>5, StepPreserves
<1>2. CASE ~Free(LockOf(r))
  <2>1. Answer(r, "busy") /\ UNCHANGED <<run, ops, lock, crashes>>
    BY <1>2 DEF Lock
  <2> QED BY <1>0, <2>1, AnswerPreserves DEF Reply
<1> QED BY <1>1, <1>2

\* The handler loads the Run and completes its request from it (_control_request).
LEMMA LoadPreserves ==
    ASSUME IInv, NEW r \in Thread, Load(r)
    PROVE  IInv' /\ Settled
<1> DEFINE f == [thread[r] EXCEPT !.pc = "begin", !.copy = run, !.named = Named(r, run.pending)]
<1>0. /\ thread[r].pc = "load" /\ Op(r) # "interrupt" /\ r # Turn
      /\ thread[r] \in Frame /\ Sound(r) /\ run \in Run
  BY DEF Load, At, IInv, TypeOK, Sound, Placed, Executing
<1>1. Named(r, run.pending) \in 0 .. MaxAsked
  BY <1>0, OpFacts DEF Named, Run, Thread
<1>2. /\ f \in Frame /\ f.pc = "begin" /\ f.copy = run /\ f.named = Named(r, run.pending)
      /\ f.outcome = thread[r].outcome
  BY <1>0, <1>1 DEF Frame
<1>3. Placed(r, f)
  BY <1>0, <1>2 DEF Sound, Placed, Holding, Executing
<1>4. Informed(r, f)
  BY <1>0, <1>2 DEF Informed, Seen, Reading, Named, Run
<1>5. OnRecord(r, f)
  BY <1>0, <1>2 DEF Sound, OnRecord, Reading, Registered, Executing
<1> QED BY <1>0, <1>2, <1>3, <1>4, <1>5, MovePreserves DEF Load

\* The key gets its record, or has one of the same request (ControlPlaneStore.begin).
LEMMA BeginPreserves ==
    ASSUME IInv, NEW r \in Thread, Begin(r)
    PROVE  IInv' /\ Settled
<1> DEFINE k == KeyOf(r)
           f == [thread[r] EXCEPT !.pc = "validate"]
<1>0. /\ thread[r].pc = "begin" /\ Op(r) # "interrupt" /\ r # Turn
      /\ thread[r] \in Frame /\ Sound(r) /\ TypeOK
  BY DEF Begin, At, IInv, TypeOK, Sound, Placed, Executing
<1>1. /\ f \in Frame /\ f.pc = "validate" /\ f.outcome = "none"
      /\ f.copy = thread[r].copy /\ f.named = thread[r].named
  BY <1>0 DEF Frame, Sound, OnRecord, Reading
<1>2. /\ k \in Key /\ Op(r) \in {"approve", "reject", "resume", "cancel"}
      /\ thread[r].named \in 0 .. MaxAsked
  BY <1>0, OpFacts DEF Thread, Frame
<1>3. Placed(r, f) /\ Informed(r, f)
  BY <1>0, <1>1 DEF Sound, Placed, Informed, Holding, Reading, Executing
<1>4. Op(r) \in Deciding /\ Ask[r].named # 0 => f.named = Ask[r].named
  BY <1>0, <1>1 DEF Sound, Informed, Reading
<1>5. CASE ops[k].status = "ABSENT"
  <2> DEFINE rec == [status |-> "IN_PROGRESS", op |-> Op(r), named |-> f.named]
  <2>1. /\ ops' = [ops EXCEPT ![k] = rec] /\ Goto(r, f)
        /\ UNCHANGED <<run, lock, reply, crashes>>
    BY <1>1, <1>5 DEF Begin
  <2>2. Evolves(r) /\ RepliesEvolve(r)
    BY <2>1 DEF Evolves, RepliesEvolve, IInv, TypeOK
  <2>3. OpsEvolve
    <3>1. rec \in Operation
      BY <1>1, <1>2 DEF Operation
    <3> QED BY <1>0, <1>2, <1>5, <2>1, <3>1 DEF OpsEvolve, IInv, TypeOK, RecordsAreTrue
  <2>4. LocksEvolve(r, f)
    BY <1>0, <1>1, <2>1 DEF LocksEvolve, TypeOK
  <2>5. Sound(r)'
    <3>1. thread'[r] = f /\ ops'[k] = rec
      BY <1>0, <1>2, <2>1 DEF Goto, TypeOK
    <3>2. Placed(r, thread[r])'
      BY <1>3, <2>1, <3>1 DEF Placed, Op, LockOf
    <3>3. Informed(r, thread[r])'
      BY <1>3, <2>1, <3>1 DEF Informed, Seen, Op
    <3>4. OnRecord(r, thread[r])'
      BY <1>1, <1>4, <3>1 DEF OnRecord, Op, KeyOf, Executing
    <3> QED BY <3>2, <3>3, <3>4 DEF Sound
  <2> QED BY <1>1, <2>1, <2>2, <2>3, <2>4, <2>5, StepPreserves
<1>6. CASE ops[k].status # "ABSENT" /\ SameRequest(r, ops[k], thread[r].named)
  <2>1. Move(r, f)
    BY <1>6 DEF Begin, Move
  <2>2. OnRecord(r, f)
    BY <1>1, <1>4, <1>6 DEF OnRecord, SameRequest, Executing
  <2> QED BY <1>1, <1>3, <2>1, <2>2, MovePreserves
<1>7. CASE ops[k].status # "ABSENT" /\ ~SameRequest(r, ops[k], thread[r].named)
  <2>1. Answer(r, "conflict") /\ lock' = Unlocked(r) /\ UNCHANGED <<run, ops, crashes>>
    BY <1>7 DEF Begin
  <2> QED BY <2>1, AnswerPreserves DEF Reply
<1> QED BY <1>5, <1>6, <1>7

\* Going on to record an outcome: a success only of what was carried out.
LEMMA OutcomePreserves ==
    ASSUME IInv, NEW r \in Thread, NEW outcome \in {"COMPLETED", "FAILED"},
           Move(r, Outcome(outcome)),
           thread[r].pc \in {"validate", "act", "write", "advance", "step"}, Op(r) # "interrupt",
           outcome = "COMPLETED" /\ r # Turn => Effect(run, ops[KeyOf(r)].op, ops[KeyOf(r)].named)
    PROVE  IInv' /\ Settled
<1> DEFINE f == Outcome(outcome)
<1>1. f \in Frame /\ f.pc = "settle" /\ f.outcome = outcome
  BY BareFacts DEF Outcome
<1>0. Sound(r)
  BY DEF IInv
<1>2. Placed(r, f)
  BY <1>0, <1>1 DEF Sound, Placed, Holding, Executing
<1>3. Informed(r, f)
  BY <1>1 DEF Informed, Reading
<1>4. OnRecord(r, f)
  BY <1>0, <1>1, OpFacts DEF Sound, OnRecord, Registered, Reading, Executing
<1> QED BY <1>1, <1>2, <1>3, <1>4, MovePreserves

\* A cancelled Run makes every control operation true.
LEMMA CancelSettlesAll ==
    ASSUME run.status = "CANCELLED", NEW op, NEW named
    PROVE  Effect(run, op, named)
BY DEF Effect

\* An approval goes on only if it names the invocation that waits in its copy.
LEMMA ValidatePreserves ==
    ASSUME IInv, NEW r \in Thread, Validate(r)
    PROVE  IInv' /\ Settled
<1> DEFINE f == thread[r]
           g == [f EXCEPT !.pc = "act"]
<1>0. /\ f.pc = "validate" /\ Op(r) # "interrupt" /\ r # Turn
      /\ f \in Frame /\ Sound(r)
  BY DEF Validate, At, IInv, TypeOK, Sound, Placed, Executing
<1>1. CASE ~Allowed(r, f.copy, f.named)
  <2>1. Move(r, Outcome("FAILED"))
    BY <1>1 DEF Validate
  <2> QED BY <1>0, <2>1, OutcomePreserves
<1>2. CASE Allowed(r, f.copy, f.named) /\ Op(r) = "cancel" /\ f.copy.status = "CANCELLED"
  <2>1. Move(r, Outcome("COMPLETED"))
    BY <1>2 DEF Validate
  <2>2. run.status = "CANCELLED"
    BY <1>0, <1>2 DEF Sound, Informed, Seen, Reading
  <2> QED BY <1>0, <2>1, <2>2, CancelSettlesAll, OutcomePreserves
<1>3. CASE Allowed(r, f.copy, f.named) /\ ~(Op(r) = "cancel" /\ f.copy.status = "CANCELLED")
  <2>1. Move(r, g)
    BY <1>3 DEF Validate
  <2>2. g \in Frame /\ g.pc = "act" /\ g.copy = f.copy /\ g.named = f.named /\ g.outcome = f.outcome
    BY <1>0 DEF Frame
  <2>3. Op(r) \in Deciding => f.copy.status = "WAITING_APPROVAL" /\ f.named = f.copy.pending
    BY <1>3 DEF Allowed, Deciding
  <2>4. Placed(r, g)
    BY <1>0, <2>2 DEF Sound, Placed, Holding, Executing
  <2>5. Informed(r, g)
    BY <1>0, <2>2, <2>3 DEF Sound, Informed, Reading
  <2>6. OnRecord(r, g)
    BY <1>0, <2>2 DEF Sound, OnRecord, Reading, Registered, Executing
  <2> QED BY <2>1, <2>2, <2>4, <2>5, <2>6, MovePreserves
<1> QED BY <1>1, <1>2, <1>3

\* The second load of the Run: a Run that waits is the one that was validated.
LEMMA ActPreserves ==
    ASSUME IInv, NEW r \in Thread, Act(r)
    PROVE  IInv' /\ Settled
<1> DEFINE f == thread[r]
           g == [f EXCEPT !.pc = "write", !.copy = run]
<1>0. /\ f.pc = "act" /\ Op(r) # "interrupt" /\ r # Turn
      /\ f \in Frame /\ Sound(r) /\ run \in Run
  BY DEF Act, At, IInv, TypeOK, Sound, Placed, Executing
<1>1. CASE Move(r, Outcome("FAILED"))
  BY <1>0, <1>1, OutcomePreserves
<1>2. CASE run.status = "CANCELLED" /\ Move(r, Outcome("COMPLETED"))
  BY <1>0, <1>2, CancelSettlesAll, OutcomePreserves
<1>3. CASE /\ run.status \notin {"CANCELLED", "COMPLETED"}
           /\ ~(run.status = "WAITING_APPROVAL" /\ Op(r) = "resume")
           /\ Move(r, g)
  <2>1. g \in Frame /\ g.pc = "write" /\ g.copy = run /\ g.named = f.named /\ g.outcome = f.outcome
    BY <1>0 DEF Frame
  <2>2. Op(r) \in Deciding => run.status = "WAITING_APPROVAL" /\ f.named = run.pending
    BY <1>0, <1>3 DEF Sound, Informed, Reading
  <2>3. Placed(r, g)
    BY <1>0, <2>1 DEF Sound, Placed, Holding, Executing
  <2>4. Informed(r, g)
    BY <1>0, <1>3, <2>1, <2>2 DEF Informed, Seen, Reading, Run
  <2>5. OnRecord(r, g)
    BY <1>0, <2>1 DEF Sound, OnRecord, Reading, Registered, Executing
  <2> QED BY <1>3, <2>1, <2>3, <2>4, <2>5, MovePreserves
<1> QED BY <1>1, <1>2, <1>3 DEF Act

\* A checkpoint that was saved was made from the Run as it is.
LEMMA SavedCopyIsTheRun ==
    ASSUME IInv, NEW r \in Thread, thread[r].pc \in {"write", "step"}, Unchanged(thread[r].copy)
    PROVE  thread[r].copy = run
BY DEF IInv, Sound, Informed, Seen, Unchanged

\* A Run with another status, pending invocation and decisions is a Run.
LEMMA RunWith ==
    ASSUME NEW x \in Run, NEW pending \in 0 .. MaxAsked, NEW decisions \in [Invocation -> Decision],
           NEW status \in {"RUNNING", "WAITING_APPROVAL", "INTERRUPTED", "COMPLETED", "CANCELLED"}
    PROVE  [status |-> status, sequence |-> x.sequence + 1, asked |-> x.asked,
            pending |-> pending, decisions |-> decisions] \in Run
<1>1. x.sequence + 1 \in Nat /\ x.asked \in 0 .. MaxAsked
  BY DEF Run
<1> QED BY <1>1 DEF Run

\* A cancel ends the Run and leaves its decisions.
LEMMA CancelEvolves ==
    ASSUME IInv, NEW r \in Thread, Save(Cancelled(run)), run.status # "CANCELLED"
    PROVE  Evolves(r) /\ run'.status = "CANCELLED"
<1>1. Legal(run) /\ run \in Run
  BY DEF IInv, Legal
<1> DEFINE new == [status |-> "CANCELLED", sequence |-> run.sequence + 1, asked |-> run.asked,
                   pending |-> 0, decisions |-> run.decisions]
<1>2. run' = new
  BY <1>1 DEF Save, Cancelled, Run
<1>3. /\ new.status = "CANCELLED" /\ new.decisions = run.decisions
      /\ new.asked = run.asked /\ new.sequence = run.sequence + 1
      /\ new \in Run
  <2>1. 0 \in 0 .. MaxAsked /\ run.decisions \in [Invocation -> Decision]
    BY <1>1, OpFacts DEF Run
  <2> QED BY <1>1, <2>1, RunWith
<1>4. Legal(new)
  BY <1>1, <1>3 DEF Legal
<1> QED BY <1>2, <1>3, <1>4 DEF Evolves

\* An interrupt pauses a running Run and leaves its decisions.
LEMMA InterruptEvolves ==
    ASSUME IInv, NEW r \in Thread, Save(Interrupted(run)), run.status = "RUNNING"
    PROVE  Evolves(r)
<1>1. Legal(run) /\ run \in Run
  BY DEF IInv, Legal
<1> DEFINE new == [status |-> "INTERRUPTED", sequence |-> run.sequence + 1, asked |-> run.asked,
                   pending |-> 0, decisions |-> run.decisions]
<1>2. run' = new
  BY <1>1 DEF Save, Interrupted, Run
<1>3. /\ new.status = "INTERRUPTED" /\ new.decisions = run.decisions
      /\ new.asked = run.asked /\ new.sequence = run.sequence + 1
      /\ new \in Run
  <2>1. 0 \in 0 .. MaxAsked /\ run.decisions \in [Invocation -> Decision]
    BY <1>1, OpFacts DEF Run
  <2> QED BY <1>1, <2>1, RunWith
<1>4. Legal(new)
  BY <1>1, <1>3 DEF Legal
<1> QED BY <1>1, <1>2, <1>3, <1>4 DEF Evolves

\* A resume sets the Run going again; an approval or a rejection also decides the one
\* invocation that waits, for which no decision was taken.
LEMMA ResumeEvolves ==
    ASSUME IInv, NEW r \in Thread, Save(Resumed(r, run)),
           run.status \notin {"CANCELLED", "COMPLETED"}, LockOf(r) = "run", lock["run"] = r,
           run.status # "WAITING_APPROVAL" \/
               /\ Op(r) \in Deciding
               /\ \E k \in Key : ops[k].op = Op(r) /\ ops[k].named = run.pending
    PROVE  /\ Evolves(r)
           /\ run.status = "WAITING_APPROVAL" => run'.decisions[run.pending] = Op(r)
<1>1. Legal(run) /\ run \in Run
  BY DEF IInv, Legal
<1> DEFINE decided == IF run.status = "WAITING_APPROVAL"
                      THEN [run.decisions EXCEPT ![run.pending] = Op(r)] ELSE run.decisions
           new == [status |-> "RUNNING", sequence |-> run.sequence + 1, asked |-> run.asked,
                   pending |-> 0, decisions |-> decided]
<1>2. run' = new
  BY <1>1 DEF Save, Resumed, Run
<1>3. run.status = "WAITING_APPROVAL" =>
         /\ run.pending \in Invocation /\ run.pending = run.asked
         /\ run.decisions[run.pending] = "none"
         /\ Op(r) \in {"approve", "reject"}
  BY <1>1, OpFacts DEF Legal, Run, Invocation, Deciding
<1>4. /\ decided \in [Invocation -> Decision]
      /\ \A i \in Invocation : decided[i] = IF run.status = "WAITING_APPROVAL" /\ i = run.pending
                                            THEN Op(r) ELSE run.decisions[i]
  BY <1>1, <1>3 DEF Run, Decision
<1>5. /\ new.status = "RUNNING" /\ new.decisions = decided
      /\ new.asked = run.asked /\ new.sequence = run.sequence + 1
      /\ new \in Run
  <2>1. 0 \in 0 .. MaxAsked
    BY OpFacts
  <2> QED BY <1>1, <1>4, <2>1, RunWith
<1>6. Legal(new)
  <2>1. \A i \in Invocation : i > run.asked => decided[i] = "none"
    BY <1>1, <1>3, <1>4 DEF Legal, Invocation, Run
  <2> QED BY <1>5, <2>1 DEF Legal
<1>7. \A i \in Invocation :
         IF run.decisions[i] # "none" THEN decided[i] = run.decisions[i]
         ELSE decided[i] # "none" => \E k \in Key : ops[k].op = decided[i] /\ ops[k].named = i
  BY <1>3, <1>4
<1> QED BY <1>2, <1>3, <1>4, <1>5, <1>6, <1>7 DEF Evolves

\* A step of the execution leaves the decisions alone; it may ask for the next one.
LEMMA StepEvolves ==
    ASSUME IInv, NEW r \in Thread, NEW new \in AfterStep(run), Save(new), run.status = "RUNNING"
    PROVE  Evolves(r)
<1>1. Legal(run) /\ run \in Run
  BY DEF IInv, Legal
<1>2. /\ new \in Run /\ new.decisions = run.decisions
      /\ new.asked >= run.asked
      /\ new.status = "WAITING_APPROVAL" =>
            new.asked > 0 /\ new.pending = new.asked /\ run.decisions[new.pending] = "none"
  <2>1. CASE new = [run EXCEPT !.status = "COMPLETED"]
    BY <1>1, <2>1 DEF Run
  <2>2. CASE new = run
    BY <1>1, <2>2 DEF Run
  <2>3. CASE /\ run.asked < MaxAsked
             /\ new = [run EXCEPT !.status = "WAITING_APPROVAL", !.asked = @ + 1,
                                  !.pending = run.asked + 1]
    <3>1. run.asked + 1 \in Invocation /\ run.asked + 1 \in 0 .. MaxAsked
      BY <1>1, <2>3, OpFacts DEF Run, Invocation
    <3>2. /\ new.decisions = run.decisions /\ new.status = "WAITING_APPROVAL"
          /\ new.asked = run.asked + 1 /\ new.pending = run.asked + 1
      BY <1>1, <2>3 DEF Run
    <3>3. new \in Run
      BY <1>1, <2>3, <3>1 DEF Run
    <3> QED BY <1>1, <3>1, <3>2, <3>3 DEF Legal, Run
  <2> QED BY <2>1, <2>2, <2>3 DEF AfterStep
<1> DEFINE saved == [new EXCEPT !.sequence = run.sequence + 1]
<1>3. run' = saved
  BY DEF Save
<1>4. /\ saved.status = new.status /\ saved.decisions = run.decisions
      /\ saved.asked = new.asked /\ saved.pending = new.pending
      /\ saved.sequence = run.sequence + 1
      /\ saved \in Run
  BY <1>1, <1>2 DEF Run
<1>5. Legal(saved)
  <2>1. \A i \in Invocation : i > new.asked => run.decisions[i] = "none"
    BY <1>1, <1>2 DEF Legal, Invocation, Run
  <2> QED BY <1>2, <1>4, <2>1 DEF Legal
<1> QED BY <1>3, <1>4, <1>5 DEF Evolves

\* A step that changes the Run and its own thread.
LEMMA CheckpointPreserves ==
    ASSUME IInv, NEW r \in Thread, NEW f \in Frame, Goto(r, f), Evolves(r),
           UNCHANGED <<ops, lock, reply, crashes>>,
           thread[r].pc \in Holding, Op(r) # "interrupt",
           (f.pc = "advance" /\ Op(r) # "cancel") \/ f.pc = "settle",
           f.pc = "settle" => f.outcome # "none",
           (f.pc = "advance" \/ f.outcome = "COMPLETED") /\ r # Turn
              => Effect(run', ops[KeyOf(r)].op, ops[KeyOf(r)].named),
           thread[r].pc \in Registered
    PROVE  IInv' /\ Settled
<1>1. OpsEvolve /\ LocksEvolve(r, f) /\ RepliesEvolve(r)
  BY DEF OpsEvolve, LocksEvolve, RepliesEvolve, IInv, TypeOK, RecordsAreTrue
<1>2. Sound(r) /\ thread'[r] = f
  BY DEF IInv, TypeOK, Goto
<1>3. Placed(r, thread[r])'
  BY <1>2 DEF Sound, Placed, Op, LockOf, Holding, Executing
<1>4. Informed(r, thread[r])'
  BY <1>2 DEF Informed, Reading
<1>5. OnRecord(r, thread[r])'
  BY <1>2, OpFacts DEF Sound, OnRecord, Op, KeyOf, Registered, Reading, Executing
<1> QED BY <1>1, <1>3, <1>4, <1>5, StepPreserves DEF Sound

\* The checkpoint of a resume, an approval, a rejection or a cancel, or its conflict.
LEMMA WritePreserves ==
    ASSUME IInv, NEW r \in Thread, Write(r)
    PROVE  IInv' /\ Settled
<1> DEFINE f == thread[r]
           rec == ops[KeyOf(r)]
<1>0. /\ f.pc = "write" /\ Op(r) # "interrupt" /\ r # Turn
      /\ f \in Frame /\ Sound(r) /\ run \in Run
      /\ UNCHANGED <<ops, lock, reply, crashes>>
  BY DEF Write, At, IInv, TypeOK, Sound, Placed, Executing
<1>1. /\ rec.op = Op(r) /\ rec.named = f.named /\ KeyOf(r) \in Key
      /\ Op(r) \in {"approve", "reject", "resume", "cancel"}
  BY <1>0, OpFacts DEF Sound, OnRecord, Registered, Thread
<1>2. CASE Unchanged(f.copy) /\ Op(r) = "cancel"
  <2>1. f.copy = run /\ run.status # "CANCELLED"
    BY <1>0, <1>2, SavedCopyIsTheRun DEF Sound, Informed
  <2>2. Evolves(r) /\ run'.status = "CANCELLED"
    BY <1>2, <2>1, CancelEvolves DEF Write
  <2>3. Goto(r, Outcome("COMPLETED"))
    BY <1>2 DEF Write
  <2>4. /\ Outcome("COMPLETED") \in Frame
        /\ Outcome("COMPLETED").pc = "settle" /\ Outcome("COMPLETED").outcome = "COMPLETED"
    BY BareFacts DEF Outcome
  <2>5. Effect(run', rec.op, rec.named)
    BY <2>2 DEF Effect
  <2> QED BY <1>0, <2>2, <2>3, <2>4, <2>5, CheckpointPreserves DEF Holding, Registered
<1>3. CASE Unchanged(f.copy) /\ Op(r) # "cancel"
  <2>1. f.copy = run /\ run.status \notin {"CANCELLED", "COMPLETED"}
    BY <1>0, <1>3, SavedCopyIsTheRun DEF Sound, Informed
  <2>2. LockOf(r) = "run" /\ lock["run"] = r
    BY <1>0, <1>3 DEF Sound, Placed, Holding, LockOf
  <2>3. /\ Op(r) \in Deciding => run.status = "WAITING_APPROVAL" /\ f.named = run.pending
        /\ Op(r) \notin Deciding => run.status # "WAITING_APPROVAL"
    BY <1>0, <1>1, <1>3, <2>1 DEF Sound, Informed, Deciding
  <2>4. /\ Evolves(r)
        /\ run.status = "WAITING_APPROVAL" => run'.decisions[run.pending] = Op(r)
    BY <1>1, <1>3, <2>1, <2>2, <2>3, ResumeEvolves DEF Write
  <2>5. Goto(r, Bare("advance", "none"))
    BY <1>3 DEF Write
  <2>6. /\ Bare("advance", "none") \in Frame
        /\ Bare("advance", "none").pc = "advance" /\ Bare("advance", "none").outcome = "none"
    BY BareFacts
  <2>7. Effect(run', rec.op, rec.named)
    BY <1>1, <1>3, <2>3, <2>4 DEF Effect
  <2> QED
    BY <1>0, <1>3, <2>4, <2>5, <2>6, <2>7, CheckpointPreserves DEF Holding, Registered
<1>4. CASE ~Unchanged(f.copy)
  <2>1. CASE Op(r) # "cancel" /\ run.status = "CANCELLED"
    <3>1. Move(r, Outcome("COMPLETED"))
      BY <1>0, <1>4, <2>1 DEF Write, Move
    <3> QED BY <1>0, <2>1, <3>1, CancelSettlesAll, OutcomePreserves
  <2>2. CASE ~(Op(r) # "cancel" /\ run.status = "CANCELLED")
    <3>1. Move(r, Outcome("FAILED"))
      BY <1>0, <1>4, <2>2 DEF Write, Move
    <3> QED BY <1>0, <3>1, OutcomePreserves
  <2> QED BY <2>1, <2>2
<1> QED BY <1>2, <1>3, <1>4

(***************************************************************************)
(* The execution, under the run lock.                                      *)
(***************************************************************************)

\* An execution only runs for what was carried out already.
LEMMA ExecutionFacts ==
    ASSUME IInv, NEW r \in Thread, thread[r].pc \in Executing
    PROVE  /\ Op(r) \notin {"cancel", "interrupt"}
           /\ r # Turn => Effect(run, ops[KeyOf(r)].op, ops[KeyOf(r)].named)
           /\ thread[r] \in Frame /\ Sound(r)
<1>1. Sound(r) /\ thread[r] \in Frame
  BY DEF IInv, TypeOK
<1>2. Op(r) \notin {"cancel", "interrupt"}
  BY <1>1 DEF Sound, Placed, Executing
<1>3. r # Turn => Op(r) # "turn"
  BY OpFacts DEF Thread
<1> QED BY <1>1, <1>2, <1>3 DEF Sound, OnRecord, Registered, Executing

\* A step begins on the Run as it is now (_preflight_step).
LEMMA StepBeginPreserves ==
    ASSUME IInv, NEW r \in Thread, StepBegin(r)
    PROVE  IInv' /\ Settled
<1> DEFINE f == thread[r]
           g == [f EXCEPT !.pc = "step", !.copy = run]
<1>0. f.pc = "advance" /\ run \in Run
  BY DEF StepBegin, At, IInv, TypeOK
<1>1. /\ Op(r) \notin {"cancel", "interrupt"}
      /\ r # Turn => Effect(run, ops[KeyOf(r)].op, ops[KeyOf(r)].named)
      /\ f \in Frame /\ Sound(r)
  BY <1>0, ExecutionFacts DEF Executing
<1>2. CASE run.status = "RUNNING"
  <2>1. Move(r, g)
    BY <1>2 DEF StepBegin
  <2>2. g \in Frame /\ g.pc = "step" /\ g.copy = run /\ g.outcome = f.outcome
    BY <1>0, <1>1 DEF Frame
  <2>3. Placed(r, g)
    BY <1>0, <1>1, <2>2 DEF Sound, Placed, Holding, Executing
  <2>4. Informed(r, g)
    BY <1>0, <1>2, <2>2 DEF Informed, Seen, Reading, Run
  <2>5. OnRecord(r, g)
    BY <1>0, <1>1, <2>2 DEF Sound, OnRecord, Reading, Registered, Executing
  <2> QED BY <2>1, <2>2, <2>3, <2>4, <2>5, MovePreserves
<1>3. CASE run.status # "RUNNING"
  <2>1. Move(r, Outcome("COMPLETED"))
    BY <1>3 DEF StepBegin
  <2> QED BY <1>0, <1>1, <2>1, OutcomePreserves
<1> QED BY <1>2, <1>3

\* A step is saved, or finds that the Run was cancelled or interrupted under it.
LEMMA StepEndPreserves ==
    ASSUME IInv, NEW r \in Thread, StepEnd(r)
    PROVE  IInv' /\ Settled
<1> DEFINE f == thread[r]
           rec == ops[KeyOf(r)]
<1>0. /\ f.pc = "step" /\ run \in Run /\ TypeOK
      /\ UNCHANGED <<ops, lock, reply, crashes>>
  BY DEF StepEnd, At, IInv, TypeOK
<1>1. /\ Op(r) \notin {"cancel", "interrupt"}
      /\ r # Turn => Effect(run, rec.op, rec.named)
      /\ f \in Frame /\ Sound(r)
  BY <1>0, ExecutionFacts DEF Executing
<1>2. CASE /\ Unchanged(f.copy)
           /\ \E new \in AfterStep(f.copy) : Save(new)
           /\ Goto(r, Bare("advance", "none"))
  <2>1. f.copy = run /\ run.status = "RUNNING"
    BY <1>0, <1>1, <1>2, SavedCopyIsTheRun DEF Sound, Informed
  <2>2. PICK new \in AfterStep(run) : Save(new)
    BY <1>2, <2>1
  <2>3. Evolves(r)
    BY <2>1, <2>2, StepEvolves
  <2>4. /\ Bare("advance", "none") \in Frame
        /\ Bare("advance", "none").pc = "advance" /\ Bare("advance", "none").outcome = "none"
    BY BareFacts
  <2>5. r # Turn => Effect(run', rec.op, rec.named)
    <3> HAVE r # Turn
    <3>1. rec.named \in 0 .. MaxAsked
      BY <1>0, OpFacts DEF Thread, TypeOK, Operation
    <3> QED BY <1>0, <1>1, <2>3, <3>1, EffectStays
  <2> QED
    BY <1>0, <1>1, <1>2, <2>3, <2>4, <2>5, CheckpointPreserves DEF Holding, Registered
<1>3. CASE UNCHANGED run /\ Goto(r, Outcome("COMPLETED"))
  <2>1. Move(r, Outcome("COMPLETED"))
    BY <1>0, <1>3 DEF Move
  <2> QED BY <1>0, <1>1, <2>1, OutcomePreserves
<1>4. CASE UNCHANGED run /\ Goto(r, Outcome("FAILED"))
  <2>1. Move(r, Outcome("FAILED"))
    BY <1>0, <1>4 DEF Move
  <2> QED BY <1>0, <1>1, <2>1, OutcomePreserves
<1> QED BY <1>2, <1>3, <1>4 DEF StepEnd

\* The outcome is recorded under the key (complete, fail).
LEMMA SettlePreserves ==
    ASSUME IInv, NEW r \in Thread, Settle(r)
    PROVE  IInv' /\ Settled
<1> DEFINE outcome == thread[r].outcome
           f == Bare("release", outcome)
<1>0. /\ thread[r].pc = "settle" /\ thread[r] \in Frame /\ Sound(r) /\ TypeOK
      /\ Goto(r, f) /\ UNCHANGED <<run, lock, reply, crashes>>
  BY DEF Settle, At, IInv, TypeOK
<1>1. outcome \in {"COMPLETED", "FAILED"} /\ Op(r) # "interrupt"
  BY <1>0 DEF Sound, OnRecord, Placed, Frame
<1>2. f \in Frame /\ f.pc = "release" /\ f.outcome = outcome
  BY <1>1, BareFacts
<1>3. r # Turn =>
         /\ KeyOf(r) \in Key
         /\ ops[KeyOf(r)].status # "ABSENT"
         /\ outcome = "COMPLETED" => Effect(run, ops[KeyOf(r)].op, ops[KeyOf(r)].named)
  BY <1>0, <1>1, OpFacts DEF Sound, OnRecord, Registered, Thread
<1>4. \A k \in Key :
         \/ ops'[k] = ops[k]
         \/ /\ r # Turn /\ k = KeyOf(r)
            /\ ops'[k].status = outcome /\ ops'[k].op = ops[k].op /\ ops'[k].named = ops[k].named
  BY <1>0, <1>3 DEF Settle, TypeOK, Operation
<1>5. ops' \in [Key -> Operation]
  <2>1. CASE r = Turn
    BY <1>0, <2>1 DEF Settle, TypeOK
  <2>2. CASE r # Turn
    <3>1. [ops[KeyOf(r)] EXCEPT !.status = outcome] \in Operation
      BY <1>0, <1>1, <1>3, <2>2 DEF TypeOK, Operation
    <3> QED BY <1>0, <1>3, <2>2, <3>1 DEF Settle, TypeOK
  <2> QED BY <2>1, <2>2
<1>6. OpsEvolve
  BY <1>0, <1>1, <1>3, <1>4, <1>5 DEF OpsEvolve, IInv, RecordsAreTrue
<1>7. Evolves(r) /\ RepliesEvolve(r) /\ LocksEvolve(r, f)
  BY <1>0, <1>2 DEF Evolves, RepliesEvolve, LocksEvolve, TypeOK
<1>8. Sound(r)'
  <2>1. thread'[r] = f
    BY <1>0 DEF Goto, TypeOK
  <2>2. Placed(r, thread[r])'
    BY <1>0, <1>2, <2>1 DEF Sound, Placed, Op, LockOf, Holding, Executing
  <2>3. Informed(r, thread[r])'
    BY <1>2, <2>1 DEF Informed, Reading
  <2>4. r # Turn =>
           /\ ops'[KeyOf(r)].status # "ABSENT"
           /\ ops'[KeyOf(r)].op = ops[KeyOf(r)].op
           /\ ops'[KeyOf(r)].named = ops[KeyOf(r)].named
    BY <1>1, <1>3, <1>4
  <2>5. OnRecord(r, thread[r])'
    BY <1>0, <1>1, <1>2, <1>3, <2>1, <2>4, OpFacts
    DEF Sound, OnRecord, Op, KeyOf, Registered, Reading, Executing
  <2> QED BY <2>2, <2>3, <2>5 DEF Sound
<1> QED BY <1>0, <1>2, <1>6, <1>7, <1>8, StepPreserves

\* The lock is released and the client gets the outcome.
LEMMA ReleasePreserves ==
    ASSUME IInv, NEW r \in Thread, Release(r)
    PROVE  IInv' /\ Settled
<1> DEFINE answer == IF thread[r].outcome = "COMPLETED" THEN "ok" ELSE "error"
<1>0. /\ thread[r].pc = "release" /\ Sound(r)
      /\ Answer(r, answer) /\ lock' = Unlocked(r) /\ UNCHANGED <<run, ops, crashes>>
  BY DEF Release, At, IInv
<1>1. answer \in Reply
  BY DEF Reply
<1>2. answer = "ok" /\ r \in Request => Effect(run, Op(r), Ask[r].named)
  <2> HAVE answer = "ok" /\ r \in Request
  <2>1. /\ Effect(run, ops[KeyOf(r)].op, ops[KeyOf(r)].named)
        /\ ops[KeyOf(r)].op = Op(r)
        /\ Op(r) \in Deciding /\ Ask[r].named # 0 => ops[KeyOf(r)].named = Ask[r].named
    BY <1>0, OpFacts DEF Sound, OnRecord, Placed, Registered, Holding
  <2> QED BY <2>1 DEF Effect
<1> QED BY <1>0, <1>1, <1>2, AnswerPreserves

(***************************************************************************)
(* The interrupt endpoint and the restart.                                 *)
(***************************************************************************)
\* An interrupt loads the Run, without a lock (_set_run_status).
LEMMA InterruptLoadPreserves ==
    ASSUME IInv, NEW r \in Thread, InterruptLoad(r)
    PROVE  IInv' /\ Settled
<1> DEFINE g == [thread[r] EXCEPT !.pc = "write", !.copy = run]
<1>0. /\ thread[r].pc = "start" /\ Op(r) = "interrupt" /\ r # Turn
      /\ thread[r] \in Frame /\ Sound(r) /\ run \in Run
  BY OpFacts DEF InterruptLoad, At, IInv, TypeOK
<1>1. CASE run.status = "RUNNING"
  <2>1. Move(r, g)
    BY <1>1 DEF InterruptLoad
  <2>2. g \in Frame /\ g.pc = "write" /\ g.copy = run /\ g.outcome = thread[r].outcome
    BY <1>0 DEF Frame
  <2>3. Placed(r, g)
    BY <1>0, <2>2 DEF Sound, Placed, Executing
  <2>4. Informed(r, g)
    BY <1>0, <1>1, <2>2 DEF Informed, Seen, Reading, Deciding, Run
  <2>5. OnRecord(r, g)
    BY <1>0, <2>2 DEF Sound, OnRecord
  <2> QED BY <2>1, <2>2, <2>3, <2>4, <2>5, MovePreserves
<1>2. CASE run.status # "RUNNING"
  <2>1. Answer(r, "error") /\ UNCHANGED <<run, ops, lock, crashes>>
    BY <1>2 DEF InterruptLoad
  <2> QED BY <1>0, <2>1, AnswerPreserves DEF Reply
<1> QED BY <1>1, <1>2

\* An interrupt of the Run that was loaded, or its conflict.
LEMMA InterruptSavePreserves ==
    ASSUME IInv, NEW r \in Thread, InterruptSave(r)
    PROVE  IInv' /\ Settled
<1> DEFINE f == Bare("done", "none")
<1>0. /\ thread[r].pc = "write" /\ Op(r) = "interrupt" /\ r # Turn
      /\ Sound(r) /\ TypeOK /\ UNCHANGED <<ops, lock, crashes>>
  BY OpFacts DEF InterruptSave, At, IInv
<1>1. f \in Frame /\ f.pc = "done" /\ f.outcome = "none"
  BY BareFacts
<1>2. PICK answer \in {"ok", "error"} : Answer(r, answer)
  BY DEF InterruptSave
<1>3. Evolves(r)
  <2>1. CASE Unchanged(thread[r].copy)
    <3>1. thread[r].copy = run /\ run.status = "RUNNING"
      BY <1>0, <2>1, SavedCopyIsTheRun DEF Sound, Informed
    <3> QED BY <2>1, <3>1, InterruptEvolves DEF InterruptSave
  <2>2. CASE ~Unchanged(thread[r].copy)
    BY <2>2 DEF InterruptSave, Evolves
  <2> QED BY <2>1, <2>2
<1>4. OpsEvolve
  BY <1>0 DEF OpsEvolve, IInv, TypeOK, RecordsAreTrue
<1>5. LocksEvolve(r, f)
  BY <1>0 DEF Sound, Placed, LocksEvolve, TypeOK
<1>6. RepliesEvolve(r)
  BY <1>0, <1>2 DEF RepliesEvolve, TypeOK, Answer, Reply, Effect, Deciding
<1>7. Sound(r)'
  <2>1. thread'[r] = f
    BY <1>0, <1>2 DEF Answer, Goto, TypeOK
  <2> QED
    BY <1>0, <1>1, <2>1
    DEF Sound, Placed, Informed, OnRecord, Op, Holding, Reading, Registered, Executing
<1>8. Goto(r, f)
  BY <1>2 DEF Answer
<1> QED BY <1>0, <1>1, <1>3, <1>4, <1>5, <1>6, <1>7, <1>8, StepPreserves

\* The server starts anew: no thread works, no lock is held, and what was stored and
\* answered stands.
LEMMA RestartPreserves ==
    ASSUME IInv, Restart
    PROVE  IInv' /\ Settled
<1>0. TypeOK
  BY DEF IInv
<1>1. /\ UNCHANGED <<run, ops>>
      /\ \A l \in {"run", "cancel"} : lock'[l] = "free"
      /\ \A r \in Thread : thread'[r] = IF thread[r].pc = "start" THEN thread[r]
                                         ELSE Bare("done", "none")
      /\ \A r \in Thread : reply'[r] = IF thread[r].pc \notin {"start", "done"} THEN "lost"
                                        ELSE reply[r]
  BY DEF Restart
<1>2. /\ Bare("done", "none") \in Frame
      /\ Bare("done", "none").pc = "done" /\ Bare("done", "none").outcome = "none"
  BY BareFacts
<1>3. TypeOK'
  <2>1. thread' \in [Thread -> Frame]
    BY <1>0, <1>1, <1>2 DEF Restart, TypeOK
  <2>2. reply' \in [Thread -> Reply]
    BY <1>0, <1>1 DEF Restart, TypeOK, Reply
  <2>3. lock' \in [{"run", "cancel"} -> Thread \cup {"free"}]
    BY DEF Restart
  <2>4. crashes' \in 0 .. MaxCrashes
    BY <1>0, BoundAssumption DEF Restart, TypeOK
  <2> QED BY <1>0, <1>1, <2>1, <2>2, <2>3, <2>4 DEF TypeOK
<1>4. Legal(run)' /\ RecordsAreTrue' /\ DecisionWasAskedFor'
  BY <1>1 DEF IInv, Legal, RecordsAreTrue, DecisionWasAskedFor, Effect
<1>5. LocksAreReleased'
  BY <1>1 DEF LocksAreReleased
<1>6. AnswerStaysTrue'
  BY <1>1 DEF IInv, AnswerStaysTrue, Thread, Op
<1>7. \A r \in Thread : Sound(r)'
  <2> TAKE r \in Thread
  <2>1. lock'["run"] # r /\ lock'["cancel"] # r
    BY <1>1, OpFacts
  <2>2. CASE thread[r].pc = "start"
    <3>1. thread'[r] = thread[r] /\ Sound(r)
      BY <1>1, <2>2 DEF IInv
    <3> QED
      BY <2>1, <2>2, <3>1
      DEF Sound, Placed, Informed, OnRecord, Op, Holding, Reading, Registered, Executing
  <2>3. CASE thread[r].pc # "start"
    <3>1. thread'[r] = Bare("done", "none")
      BY <1>1, <2>3
    <3> QED
      BY <1>2, <2>1, <3>1
      DEF Sound, Placed, Informed, OnRecord, Op, Holding, Reading, Registered, Executing
  <2> QED BY <2>2, <2>3
<1> QED BY <1>1, <1>3, <1>4, <1>5, <1>6, <1>7 DEF IInv, Settled

(***************************************************************************)
(* The invariants.                                                         *)
(***************************************************************************)

\* The server starts with the turn that created the Run, under the run lock.
LEMMA InitSound == Init => IInv
<1> SUFFICES ASSUME Init PROVE IInv
  OBVIOUS
<1>1. TypeOK
  <2>1. ops \in [Key -> Operation]
    BY OpFacts DEF Init, Unused, Operation
  <2>2. lock \in [{"run", "cancel"} -> Thread \cup {"free"}]
    BY DEF Init, Thread
  <2>3. thread \in [Thread -> Frame]
    BY BareFacts DEF Init
  <2>4. run \in Run /\ reply \in [Thread -> Reply] /\ crashes \in 0 .. MaxCrashes
    BY BareFacts, BoundAssumption DEF Init, Reply
  <2> QED BY <2>1, <2>2, <2>3, <2>4 DEF TypeOK
<1>2. Legal(run) /\ \A i \in Invocation : run.decisions[i] = "none"
  BY BareFacts DEF Init, NewRun
<1>3. /\ lock["run"] = Turn /\ lock["cancel"] = "free"
      /\ \A r \in Thread : thread[r] = Bare(IF r = Turn THEN "advance" ELSE "start", "none")
  BY DEF Init
<1>4. LocksAreReleased
  BY <1>3, BareFacts DEF LocksAreReleased, Thread
<1>5. RecordsAreTrue /\ DecisionWasAskedFor /\ AnswerStaysTrue
  BY <1>2, OpFacts DEF Init, RecordsAreTrue, DecisionWasAskedFor, AnswerStaysTrue, Unused, Thread
<1>6. \A r \in Thread : Sound(r)
  <2> TAKE r \in Thread
  <2>1. thread[r].pc = (IF r = Turn THEN "advance" ELSE "start") /\ thread[r].outcome = "none"
    BY <1>3, BareFacts
  <2> QED
    BY <1>3, <2>1, OpFacts
    DEF Sound, Placed, Informed, OnRecord, Holding, Reading, Registered, Executing, LockOf
<1> QED BY <1>1, <1>2, <1>4, <1>5, <1>6 DEF IInv

\* No request, step of the execution, interrupt or restart breaks what the threads rely on.
LEMMA NextPreserves == IInv /\ [Next]_vars => IInv' /\ Settled
<1> SUFFICES ASSUME IInv, [Next]_vars PROVE IInv' /\ Settled
  OBVIOUS
<1>1. ASSUME NEW r \in Thread, Handle(r) PROVE IInv' /\ Settled
  BY <1>1, LookupPreserves, LockPreserves, LoadPreserves, BeginPreserves, ValidatePreserves,
     ActPreserves, WritePreserves, SettlePreserves, ReleasePreserves, InterruptLoadPreserves,
     InterruptSavePreserves, StepBeginPreserves, StepEndPreserves DEF Handle
<1>2. CASE Restart
  BY <1>2, RestartPreserves
<1>3. CASE UNCHANGED vars
  BY <1>3 DEF vars, IInv, TypeOK, Legal, LocksAreReleased, RecordsAreTrue, Effect,
              DecisionWasAskedFor, AnswerStaysTrue, Sound, Placed, Informed, OnRecord, Seen,
              Op, KeyOf, LockOf, Settled
<1> QED BY <1>1, <1>2, <1>3 DEF Next

\* Every state the server can be in satisfies the inductive invariant.
LEMMA Invariance == Spec => []IInv
BY InitSound, NextPreserves, PTL DEF Spec

\* One thread at a time advances the Run, and a lock is only held by a thread at work under
\* it (LocksExclude): whatever fails, is refused or crashes, the lock comes back.
THEOREM LocksAreExclusive == Spec => []LocksExclude
<1>1. IInv => AdvanceIsExclusive
  <2> SUFFICES ASSUME IInv, NEW r \in Thread, NEW s \in Thread,
                      thread[r].pc \in Executing, thread[s].pc \in Executing
               PROVE  r = s
    BY DEF AdvanceIsExclusive, Executing
  <2>1. lock["run"] = r
    BY ExecutionFacts DEF Sound, Placed, Holding, Executing, LockOf
  <2>2. lock["run"] = s
    BY ExecutionFacts DEF Sound, Placed, Holding, Executing, LockOf
  <2> QED BY <2>1, <2>2
<1>2. IInv => LocksExclude
  BY <1>1 DEF IInv, LocksExclude
<1> QED BY <1>2, Invariance, PTL

\* A decision is only taken on the invocation that an operation of its kind was recorded
\* for (DecisionWasAskedFor), although the Run is loaded three times between the request
\* and the checkpoint: under the run lock an approval finds the Run as it validated it, or
\* cancelled.
THEOREM DecisionsWereAskedFor == Spec => []DecisionWasAskedFor
<1>1. IInv => DecisionWasAskedFor
  BY DEF IInv
<1> QED BY <1>1, Invariance, PTL

\* What a client was told stays true (AnswerStaysTrue), also when the answer comes from the
\* record of an earlier request or after a restart of the server.
THEOREM AnswersStayTrue == Spec => []AnswerStaysTrue
<1>1. IInv => AnswerStaysTrue
  BY DEF IInv
<1> QED BY <1>1, Invariance, PTL

\* A decision on an invocation is taken once, and a cancelled Run is never written again,
\* whatever copy a handler, an execution or an interrupt still holds: the sequence refuses
\* the save.
THEOREM DecisionsAndCancelsAreFinal ==
    Spec => [][/\ run.status = "CANCELLED" => run' = run
               /\ \A i \in Invocation :
                     run.decisions[i] # "none" => run'.decisions[i] = run.decisions[i]]_vars
<1>1. IInv /\ [Next]_vars =>
        [/\ run.status = "CANCELLED" => run' = run
         /\ \A i \in Invocation :
               run.decisions[i] # "none" => run'.decisions[i] = run.decisions[i]]_vars
  BY NextPreserves DEF Settled
<1> QED BY <1>1, Invariance, PTL DEF Spec
=============================================================================
