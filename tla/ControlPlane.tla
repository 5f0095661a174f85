---------------------------- MODULE ControlPlane ----------------------------
(***************************************************************************)
(* The control requests of one Run in the Runtime API server               *)
(* (src/axiom/runtime/api.py): approve, reject, resume, cancel and         *)
(* interrupt, each handled by a thread of its own, the durable record of   *)
(* an idempotency key (control_plane.py), the two locks of the Run, and    *)
(* the execution of the Run, which a resuming request carries on inside    *)
(* its own thread (durable.py).  This is the server with local execution:  *)
(* the checkpoint store is shared with nobody else, but no lock covers     *)
(* cancel and interrupt against the execution, only the sequence does.     *)
(*                                                                         *)
(* A client may send a request again under its key, also while the first   *)
(* one is handled, and the server may stop and start at any point.         *)
(***************************************************************************)
EXTENDS Integers, FiniteSets

CONSTANTS Turn,        \* the thread of the turn that created the Run
          Request,     \* threads of control requests
          Ask,         \* what each request asks for
          Key,         \* idempotency keys; a request without one has its own
          MaxAsked,    \* bound: approvals that the Run asks for
          MaxSequence, \* bound: checkpoints after which the Run ends
          MaxCrashes   \* bound: restarts of the server

Invocation == 1 .. MaxAsked
Thread     == Request \cup {Turn}

ASSUME RequestAssumption ==
    /\ Turn \notin Request /\ "free" \notin Request \cup {Turn}
    /\ Ask \in [Request -> [op : {"approve", "reject", "resume", "cancel", "interrupt"},
                            key : Key,
                            named : 0 .. MaxAsked]]    \* body invocation_id, 0 when left out

ASSUME BoundAssumption == MaxAsked \in Nat /\ MaxSequence \in Nat /\ MaxCrashes \in Nat

VARIABLES run,       \* the Run's row
          ops,       \* control_operations, by key
          lock,      \* _run_locks and _cancel_locks of this Run
          thread,
          reply,     \* what each client was answered
          crashes

vars == <<run, ops, lock, thread, reply, crashes>>

(***************************************************************************)
(* Types.                                                                  *)
(***************************************************************************)
Decision == {"none", "approve", "reject"}

Run == [status : {"RUNNING", "WAITING_APPROVAL", "INTERRUPTED", "COMPLETED", "CANCELLED"},
        sequence : Nat,
        asked : 0 .. MaxAsked,
        pending : 0 .. MaxAsked,                   \* interrupt.invocation_id, 0 for none
        decisions : [Invocation -> Decision]]

NewRun == [status |-> "RUNNING", sequence |-> 1, asked |-> 0, pending |-> 0,
           decisions |-> [i \in Invocation |-> "none"]]

Operation == [status : {"ABSENT", "IN_PROGRESS", "COMPLETED", "FAILED"},
              op : {"none", "approve", "reject", "resume", "cancel"},
              named : 0 .. MaxAsked]

Unused == [status |-> "ABSENT", op |-> "none", named |-> 0]

\* copy is the RunState the thread holds, named the normalized invocation_id,
\* outcome what it is about to record.
Frame == [pc : {"start", "lock", "load", "begin", "validate", "act", "write", "advance",
                "step", "settle", "release", "done"},
          copy : Run, named : 0 .. MaxAsked, outcome : {"none", "COMPLETED", "FAILED"}]

\* A thread at pc that holds nothing.
Bare(pc, outcome) == [pc |-> pc, copy |-> NewRun, named |-> 0, outcome |-> outcome]

Reply == {"none", "ok", "error", "busy", "conflict", "lost"}

TypeOK ==
    /\ run \in Run
    /\ ops \in [Key -> Operation]
    /\ lock \in [{"run", "cancel"} -> Thread \cup {"free"}]
    /\ thread \in [Thread -> Frame]
    /\ reply \in [Thread -> Reply]
    /\ crashes \in 0 .. MaxCrashes

Op(r) == IF r = Turn THEN "turn" ELSE Ask[r].op
KeyOf(r) == Ask[r].key

Deciding == {"approve", "reject"}

(***************************************************************************)
(* Plumbing.                                                               *)
(***************************************************************************)
At(r, pc) == thread[r].pc = pc

Goto(r, f) == thread' = [thread EXCEPT ![r] = f]

\* The thread goes to pc and changes nothing but itself.
Move(r, f) == Goto(r, f) /\ UNCHANGED <<run, ops, lock, reply, crashes>>

\* The thread goes on to record the outcome.
Outcome(outcome) == Bare("settle", outcome)

Answer(r, answer) ==
    /\ reply' = [reply EXCEPT ![r] = answer]
    /\ Goto(r, Bare("done", "none"))

KeepLock(r) ==                       \* mutant: the lock is only released after a success
    [l \in {"run", "cancel"} |->
        IF lock[l] = r /\ thread[r].outcome = "COMPLETED" THEN "free" ELSE lock[l]]

Unlocked(r) == [l \in {"run", "cancel"} |-> IF lock[l] = r THEN "free" ELSE lock[l]]

AnySequence(copy) == TRUE            \* mutant: the save is unconditional

\* The compare-and-swap of a checkpoint save.
Unchanged(copy) == run.sequence = copy.sequence

Save(new) == run' = [new EXCEPT !.sequence = run.sequence + 1]

(***************************************************************************)
(* Rules.                                                                  *)
(***************************************************************************)
LockOf(r) == IF Op(r) = "cancel" THEN "cancel" ELSE "run"

Free(l) == lock[l] = "free"

\* _control_request, completed from the record of a key that is known.
Named(r, default) == IF Op(r) \notin Deciding THEN 0
                     ELSE IF Ask[r].named # 0 THEN Ask[r].named ELSE default

\* operation_request_hash of the request equals the stored one.
SameRequest(r, rec, named) == rec.op = Op(r) /\ rec.named = named

StatusAllows(r, copy, named) ==      \* mutant: the invocation is not compared
    IF Op(r) \in Deciding THEN copy.status = "WAITING_APPROVAL"
    ELSE copy.status \notin {"COMPLETED"}

\* allowed_operations and _validate_control_operation, on the copy.
Allowed(r, copy, named) ==
    CASE Op(r) \in Deciding -> copy.status = "WAITING_APPROVAL" /\ named = copy.pending
      [] Op(r) = "resume" -> copy.status \in {"RUNNING", "INTERRUPTED"}
      [] Op(r) = "cancel" -> copy.status \in {"RUNNING", "INTERRUPTED", "WAITING_APPROVAL", "CANCELLED"}

\* What resume writes: the decision on the pending invocation, and RUNNING.
Resumed(r, copy) ==
    [copy EXCEPT !.status = "RUNNING",
                 !.pending = 0,
                 !.decisions = IF copy.status = "WAITING_APPROVAL"
                               THEN [@ EXCEPT ![copy.pending] = Op(r)] ELSE @]

Cancelled(copy) == [copy EXCEPT !.status = "CANCELLED", !.pending = 0]

Interrupted(copy) == [copy EXCEPT !.status = "INTERRUPTED", !.pending = 0]

\* Outcomes of a step: it ends the Run, asks for the next approval, or goes on.
AfterStep(copy) ==
    {[copy EXCEPT !.status = "COMPLETED"]}
    \cup (IF copy.asked < MaxAsked
          THEN {[copy EXCEPT !.status = "WAITING_APPROVAL", !.asked = @ + 1, !.pending = copy.asked + 1]}
          ELSE {})
    \cup (IF copy.sequence < MaxSequence THEN {copy} ELSE {})

(***************************************************************************)
(* The handler of a request: _execute_control_operation.                   *)
(***************************************************************************)
Init ==
    /\ run = NewRun
    /\ ops = [k \in Key |-> Unused]
    /\ lock = [l \in {"run", "cancel"} |-> IF l = "run" THEN Turn ELSE "free"]
    /\ thread = [r \in Thread |-> Bare(IF r = Turn THEN "advance" ELSE "start", "none")]
    /\ reply = [r \in Thread |-> "none"]
    /\ crashes = 0

\* lookup; a key that is known is answered from its record, without a lock.
Lookup(r) ==
    /\ At(r, "start")
    /\ Op(r) # "interrupt"
    /\ LET rec == ops[KeyOf(r)]
       IN IF rec.status = "ABSENT"
          THEN Move(r, [thread[r] EXCEPT !.pc = "lock"])
          ELSE /\ Answer(r, CASE ~SameRequest(r, rec, Named(r, rec.named)) -> "conflict"
                              [] OTHER -> [IN_PROGRESS |-> "busy", COMPLETED |-> "ok",
                                           FAILED |-> "error"][rec.status])
               /\ UNCHANGED <<run, ops, lock, crashes>>

Lock(r) ==
    /\ At(r, "lock")
    /\ IF Free(LockOf(r))
       THEN /\ lock' = [lock EXCEPT ![LockOf(r)] = r]
            /\ Goto(r, [thread[r] EXCEPT !.pc = "load"])
            /\ UNCHANGED reply
       ELSE Answer(r, "busy") /\ UNCHANGED lock
    /\ UNCHANGED <<run, ops, crashes>>

Load(r) ==
    /\ At(r, "load")
    /\ Move(r, [thread[r] EXCEPT !.pc = "begin", !.copy = run, !.named = Named(r, run.pending)])

\* begin inserts the record or returns the one that is there; what it returned is
\* not looked at, unless it is the record of another request.
Begin(r) ==
    /\ At(r, "begin")
    /\ LET k == KeyOf(r)
           f == thread[r]
       IN IF ops[k].status = "ABSENT"
          THEN /\ ops' = [ops EXCEPT ![k] = [status |-> "IN_PROGRESS", op |-> Op(r), named |-> f.named]]
               /\ Goto(r, [f EXCEPT !.pc = "validate"])
               /\ UNCHANGED <<lock, reply>>
          ELSE /\ IF SameRequest(r, ops[k], f.named)
                  THEN Goto(r, [f EXCEPT !.pc = "validate"]) /\ UNCHANGED <<lock, reply>>
                  ELSE Answer(r, "conflict") /\ lock' = Unlocked(r)
               /\ UNCHANGED ops
    /\ UNCHANGED <<run, crashes>>

Validate(r) ==
    /\ At(r, "validate")
    /\ LET f == thread[r]
       IN IF ~Allowed(r, f.copy, f.named) THEN Move(r, Outcome("FAILED"))
          ELSE IF Op(r) = "cancel" /\ f.copy.status = "CANCELLED" THEN Move(r, Outcome("COMPLETED"))
          ELSE Move(r, [f EXCEPT !.pc = "act"])

\* cancel and resume load the Run again.  A cancel that came in between is reported
\* by resume as the result or as an error, according to which of its loads saw it.
Act(r) ==
    /\ At(r, "act")
    /\ LET f == thread[r]
           write == [f EXCEPT !.pc = "write", !.copy = run]
       IN CASE run.status = "CANCELLED" ->
                  \/ Move(r, Outcome("COMPLETED"))
                  \/ Op(r) # "cancel" /\ Move(r, Outcome("FAILED"))
            [] run.status = "COMPLETED" -> Move(r, Outcome("FAILED"))
            [] run.status = "WAITING_APPROVAL" /\ Op(r) = "resume" -> Move(r, Outcome("FAILED"))
            [] OTHER -> Move(r, write)

\* The checkpoint that carries out the operation.
Write(r) ==
    /\ At(r, "write")
    /\ Op(r) # "interrupt"
    /\ LET f == thread[r]
       IN IF Unchanged(f.copy)
          THEN /\ Save(IF Op(r) = "cancel" THEN Cancelled(f.copy) ELSE Resumed(r, f.copy))
               /\ Goto(r, IF Op(r) = "cancel" THEN Outcome("COMPLETED")
                          ELSE Bare("advance", "none"))
          ELSE /\ UNCHANGED run
               /\ Goto(r, Outcome(IF Op(r) # "cancel" /\ run.status = "CANCELLED"
                                     THEN "COMPLETED" ELSE "FAILED"))
    /\ UNCHANGED <<ops, lock, reply, crashes>>

\* _preflight_step: the step works on the Run as it is now.
StepBegin(r) ==
    /\ At(r, "advance")
    /\ LET f == thread[r]
       IN Move(r, IF run.status = "RUNNING" THEN [f EXCEPT !.pc = "step", !.copy = run]
                  ELSE Outcome("COMPLETED"))

\* The step is saved.  A Run that changed meanwhile ends the execution: cancelled,
\* as a result; interrupted, as a result or as a checkpoint conflict, according to
\* whether _apply_next_action or the save found out.
StepEnd(r) ==
    /\ At(r, "step")
    /\ LET f == thread[r]
       IN \/ /\ Unchanged(f.copy)
             /\ \E new \in AfterStep(f.copy) : Save(new)
             /\ Goto(r, Bare("advance", "none"))
          \/ /\ ~Unchanged(f.copy)
             /\ UNCHANGED run
             /\ \/ Goto(r, Outcome("COMPLETED"))
                \/ run.status # "CANCELLED" /\ Goto(r, Outcome("FAILED"))
    /\ UNCHANGED <<ops, lock, reply, crashes>>

\* complete or fail, whatever the record says by now.
Settle(r) ==
    /\ At(r, "settle")
    /\ IF r = Turn THEN UNCHANGED ops
       ELSE ops' = [ops EXCEPT ![KeyOf(r)].status = thread[r].outcome]
    /\ Goto(r, Bare("release", thread[r].outcome))
    /\ UNCHANGED <<run, lock, reply, crashes>>

Release(r) ==
    /\ At(r, "release")
    /\ lock' = Unlocked(r)
    /\ Answer(r, IF thread[r].outcome = "COMPLETED" THEN "ok" ELSE "error")
    /\ UNCHANGED <<run, ops, crashes>>

(***************************************************************************)
(* The interrupt endpoint: _set_run_status, without a lock or a record.    *)
(***************************************************************************)
InterruptLoad(r) ==
    /\ At(r, "start")
    /\ Op(r) = "interrupt"
    /\ IF run.status = "RUNNING"
       THEN Move(r, [thread[r] EXCEPT !.pc = "write", !.copy = run])
       ELSE Answer(r, "error") /\ UNCHANGED <<run, ops, lock, crashes>>

InterruptSave(r) ==
    /\ At(r, "write")
    /\ Op(r) = "interrupt"
    /\ IF Unchanged(thread[r].copy)
       THEN Save(Interrupted(thread[r].copy)) /\ Answer(r, "ok")
       ELSE UNCHANGED run /\ Answer(r, "error")
    /\ UNCHANGED <<ops, lock, crashes>>

\* The server stops: requests underway are never answered, its locks are gone.
Restart ==
    /\ crashes < MaxCrashes
    /\ crashes' = crashes + 1
    /\ lock' = [l \in {"run", "cancel"} |-> "free"]
    /\ thread' = [r \in Thread |->
                     IF thread[r].pc = "start" THEN thread[r] ELSE Bare("done", "none")]
    /\ reply' = [r \in Thread |->
                     IF thread[r].pc \notin {"start", "done"} THEN "lost" ELSE reply[r]]
    /\ UNCHANGED <<run, ops>>

Handle(r) ==
    \/ Lookup(r) \/ Lock(r) \/ Load(r) \/ Begin(r) \/ Validate(r) \/ Act(r) \/ Write(r)
    \/ Settle(r) \/ Release(r)
    \/ InterruptLoad(r) \/ InterruptSave(r)
    \/ StepBegin(r) \/ StepEnd(r)

Next ==
    \/ \E r \in Thread : Handle(r)
    \/ Restart

Spec == Init /\ [][Next]_vars

(***************************************************************************)
(* Properties.                                                             *)
(***************************************************************************)

\* "Same-process per-Run operation locks [...] prevent duplicate local advancement"
\* (docs/runtime-api.md): one thread at a time executes the Run.
AdvanceIsExclusive ==
    \A r, s \in Thread :
        thread[r].pc \in {"advance", "step"} /\ thread[s].pc \in {"advance", "step"} => r = s

\* A decision reaches only the invocation that an operation of that kind names in
\* its record (_validate_control_operation, _resume_inner).
DecisionWasAskedFor ==
    \A i \in Invocation :
        run.decisions[i] # "none" =>
            \E k \in Key : ops[k].op = run.decisions[i] /\ ops[k].named = i

\* What a client was told stays true: a cancel that was acknowledged is not undone by
\* the execution it cancelled, and an approval that was acknowledged is in the Run,
\* unless a cancel made it pointless.
AnswerStaysTrue ==
    \A r \in Request :
        reply[r] = "ok" =>
            /\ Op(r) = "cancel" => run.status = "CANCELLED"
            /\ Op(r) \in Deciding /\ Ask[r].named # 0 =>
                   run.decisions[Ask[r].named] = Op(r) \/ run.status = "CANCELLED"

\* A lock of the Run is held by a thread that still works under it, whatever failed
\* before: a lock left behind would answer operation_in_progress for ever.
LocksAreReleased ==
    \A l \in {"run", "cancel"} :
        lock[l] # "free" => thread[lock[l]].pc \notin {"start", "lock", "done"}

\* "The first completed result or structured error is persisted [...] Repeating the
\* same request returns the stored outcome" (docs/runtime-api.md).
StoredOutcomeStands ==
    [][\A k \in Key : ops[k].status \in {"COMPLETED", "FAILED"} => ops'[k] = ops[k]]_vars

\* One thread at a time advances the Run, and the lock that keeps the others out comes
\* back on every path (_operation_lock, _supervise).
LocksExclude ==
    /\ TypeOK
    /\ AdvanceIsExclusive
    /\ LocksAreReleased
=============================================================================
