-------------------------- MODULE DistributedWorker -------------------------
(***************************************************************************)
(* The clients of RunStore in distributed mode: Worker processes that      *)
(* claim, heartbeat, execute and release Runs (ownership.py), the durable  *)
(* step loop they execute (durable.py), the Plan-and-Execute parent that   *)
(* runs its Child Runs inline under its own ownership (plan_strategy.py),  *)
(* and the control operations of the API process (durable.py).             *)
(*                                                                         *)
(* frame[w][r] is the coroutine of Worker w that executes Run r: its place *)
(* in DurableAgentRuntime.resume, the sequence of its RunState copy, and   *)
(* the StepResult it is about to apply.  An await between a read and the   *)
(* write that depends on it is a step boundary.                            *)
(***************************************************************************)
EXTENDS RunStore

CONSTANTS MaxTurns,     \* max_turns: LLM turns of a Run
          MaxFaults,    \* bound: crashes, shutdowns and database outages
          MaxControls   \* bound: interrupt, cancel, resume and requeue requests

ASSUME BoundAssumption == MaxTurns \in Nat /\ MaxFaults \in Nat /\ MaxControls \in Nat

VARIABLES held,       \* RunOwnership each Worker works under
          frame,      \* coroutine of each Worker for each Run
          turn,       \* RunState.agent_turn of each Run
          task,       \* plan task of each Child Run, kept in the Parent's RunState
          resuming,   \* Runs whose queue_resume saved but has not marked runnable
          cascade,    \* Child Runs that a cancel still has to visit
          suspended,  \* history: the Run was parked since its last claim
          faults, controls

workVars    == <<held, frame>>
apiVars     == <<resuming, cascade>>
runtimeVars == <<storeVars, held, frame, turn, task, resuming, cascade, suspended,
                 faults, controls>>

(***************************************************************************)
(* Types.                                                                  *)
(***************************************************************************)
Frame == [pc : {"idle", "start", "load", "claim", "preflight", "expired", "step", "observed",
                "scan", "children", "apply", "returned"},
          base : Nat,
          next : {"NONE", "CONTINUE", "COMPLETE", "WAIT"}]

At(pc, base, next) == [pc |-> pc, base |-> base, next |-> next]
Idle == At("idle", 0, "NONE")

TaskState == {"PENDING", "ASSIGNED"} \cup Parked \cup Terminal

RuntimeTypeOK ==
    /\ TypeOK
    /\ held \in [Worker -> Ownership \cup {NoOwnership}]
    /\ frame \in [Worker -> [Run -> Frame]]
    /\ turn \in [Run -> 0 .. MaxTurns]
    /\ task \in [Run -> TaskState]
    /\ resuming \subseteq Run
    /\ cascade \subseteq Run
    /\ suspended \in [Run -> BOOLEAN]
    /\ faults \in 0 .. MaxFaults
    /\ controls \in 0 .. MaxControls

Children(r) == {c \in Run : Parent[c] = r}

RuntimeInit ==
    /\ Init
    /\ held = [w \in Worker |-> NoOwnership]
    /\ frame = [w \in Worker |-> [r \in Run |-> Idle]]
    /\ turn = [r \in Run |-> 0]
    /\ task = [r \in Run |-> "PENDING"]
    /\ resuming = {}
    /\ cascade = {}
    /\ suspended = [r \in Run |-> FALSE]
    /\ faults = 0
    /\ controls = 0

(***************************************************************************)
(* Coroutine plumbing.                                                     *)
(***************************************************************************)
Pc(w, r)   == frame[w][r].pc
Base(w, r) == frame[w][r].base

Goto(w, r, f) == frame' = [frame EXCEPT ![w][r] = f]

\* run_once ends: the Worker forgets the Run and every coroutine under it.
Drop(w) ==
    /\ held' = [held EXCEPT ![w] = NoOwnership]
    /\ frame' = [frame EXCEPT ![w] = [r \in Run |-> Idle]]

\* An exception other than CancelledError leaves run_once without a release.
Raise(w) == Drop(w) /\ UNCHANGED <<storeVars, turn, task>>

\* resume returns the RunState it read or wrote.
Return(w, r) ==
    /\ Goto(w, r, At("returned", 0, "NONE"))
    /\ UNCHANGED <<storeVars, held, turn, task>>

Move(w, r, f) == Goto(w, r, f) /\ UNCHANGED <<storeVars, held, turn, task>>

CommitUnfenced(w, r, new, f) ==      \* mutant: the runtime lost its ownership
    /\ Save(r, Base(w, r), new, NoOwnership)
    /\ Goto(w, r, f)
    /\ UNCHANGED held

\* _save_checkpoint of the coroutine's copy, which then stands at f.
Commit(w, r, new, f) ==
    /\ Save(r, Base(w, r), new, held[w])
    /\ Goto(w, r, f)
    /\ UNCHANGED held

\* _save_checkpoint raises: ownership is checked before the sequence, and
\* _supervise turns a conflict with a cancelled Run into that outcome.
Refused(w, r) ==
    \/ ~Fenced(held[w]) /\ Raise(w)
    \/ /\ Fenced(held[w])
       /\ sequence[r] # Base(w, r)
       /\ IF status[r] = "CANCELLED" THEN Return(w, r) ELSE Raise(w)

\* reconcile_run_control_state below a cancelled Parent.
ReconcileCancelled(w, r) ==
    /\ AncestorCancelled(r)
    /\ status[r] \notin Terminal
    /\ \/ /\ Save(r, sequence[r], "CANCELLED", held[w])
          /\ Goto(w, r, At("returned", 0, "NONE"))
          /\ UNCHANGED <<held, turn, task>>
       \/ ~Fenced(held[w]) /\ Raise(w)

NotReconciled(r) == ~AncestorCancelled(r) \/ status[r] \in Terminal

(***************************************************************************)
(* Claim, heartbeat and release (DistributedRunWorker).                    *)
(***************************************************************************)
ClaimRun(w, r) ==
    /\ held[w] = NoOwnership
    /\ Claim(r, w)
    /\ held' = [held EXCEPT ![w] = [run |-> r, worker |-> w, token |-> fence'[r]]]
    /\ Goto(w, r, At("load", 0, "NONE"))
    /\ UNCHANGED <<turn, task>>

\* The claim that finds the delivery allowance used up returns None.
ClaimExhausted(w, r) ==
    /\ held[w] = NoOwnership
    /\ Exhaust(r)
    /\ UNCHANGED <<workVars, turn, task>>

Heartbeat(w) ==
    /\ held[w] # NoOwnership
    /\ Pc(w, held[w].run) # "returned"
    /\ Renew(held[w])
    /\ UNCHANGED <<workVars, turn, task>>

ReleaseForgotten(w) ==               \* mutant: a cancelled execution is not requeued
    /\ Drop(w)
    /\ \/ Release(held[w], FALSE)
       \/ ~Names(held[w]) /\ UNCHANGED storeVars
    /\ UNCHANGED <<turn, task>>

\* run_once after CancelledError while the heartbeat is still running:
\* release_lease(runnable=True), which may find another owner.
ReleaseRunnable(w) ==
    /\ Drop(w)
    /\ \/ Release(held[w], TRUE)
       \/ ~Names(held[w]) /\ UNCHANGED storeVars
    /\ UNCHANGED <<turn, task>>

\* A refused renewal cancels the execution.  With a slow event sink run_once
\* sees the cancellation before the heartbeat has raised.
HeartbeatLost(w) ==
    /\ held[w] # NoOwnership
    /\ Pc(w, held[w].run) # "returned"
    /\ ~Authorised(held[w])
    /\ Raise(w) \/ ReleaseRunnable(w)

\* resume never returns a RUNNING state, so the flag of this release is FALSE.
ReleaseReturned(w) ==
    /\ held[w] # NoOwnership
    /\ Pc(w, held[w].run) = "returned"
    /\ Drop(w)
    /\ \/ Release(held[w], FALSE)
       \/ ~Names(held[w]) /\ UNCHANGED storeVars
    /\ UNCHANGED <<turn, task>>

(***************************************************************************)
(* resume and the step loop.                                               *)
(***************************************************************************)
\* resume and _resume_inner read the RunState.
Load(w, r) ==
    /\ Pc(w, r) = "load"
    /\ \/ ReconcileCancelled(w, r)
       \/ status[r] = "CANCELLED" /\ (Return(w, r) \/ Raise(w))
       \/ /\ NotReconciled(r)
          /\ status[r] \in {"COMPLETED", "FAILED", "WAITING_APPROVAL"}
          /\ Raise(w)
       \/ /\ NotReconciled(r)
          /\ status[r] \in Executing \cup {"INTERRUPTED"}
          /\ Move(w, r, At("claim", sequence[r], "NONE"))

\* _resume_inner writes "resume.claim" or "resume".
ResumeClaim(w, r) ==
    /\ Pc(w, r) = "claim"
    /\ \/ /\ Commit(w, r, "RUNNING", At("preflight", 0, "NONE"))
          /\ UNCHANGED <<turn, task>>
       \/ Refused(w, r)

\* Wall time counts for the Run itself and for the Run that owns its budget.
OutOfTime(r) == expired[r] \/ (Parent[r] # NoRun /\ expired[Parent[r]])

\* _preflight_step
Preflight(w, r) ==
    /\ Pc(w, r) = "preflight"
    /\ \/ ReconcileCancelled(w, r)
       \/ NotReconciled(r) /\ status[r] # "RUNNING" /\ Return(w, r)
       \/ /\ NotReconciled(r)
          /\ status[r] = "RUNNING"
          /\ \/ ~Authorised(held[w]) /\ Raise(w)
             \/ /\ Authorised(held[w])
                /\ Move(w, r, At(IF OutOfTime(r) THEN "expired" ELSE "step", sequence[r], "NONE"))

TurnsLeft(r) == turn[r] < MaxTurns

\* A ReAct step that saved its LLM or Tool boundary: it continues, proposes
\* completion, or parks the Run for approval.  A recovered Run whose last
\* message is already the answer proposes completion without a model call.
ReactStep(w, r) ==
    /\ Pc(w, r) = "step"
    /\ Children(r) = {}
    /\ \/ \E next \in {"CONTINUE", "COMPLETE"} :
            /\ TurnsLeft(r)
            /\ Commit(w, r, "RUNNING", At("apply", Base(w, r) + 1, next))
            /\ turn' = [turn EXCEPT ![r] = @ + 1]
            /\ UNCHANGED task
       \/ /\ Commit(w, r, "WAITING_APPROVAL", At("apply", Base(w, r) + 1, "WAIT"))
          /\ UNCHANGED <<turn, task>>
       \/ turn[r] > 0 /\ Move(w, r, At("apply", Base(w, r), "COMPLETE"))
       \/ Refused(w, r)

\* The reads of _apply_next_action, then commit.
Applying(w, r, commit) ==
    \/ status[r] \in {"CANCELLED", "INTERRUPTED"} /\ Return(w, r)
    \/ /\ status[r] \notin {"CANCELLED", "INTERRUPTED"}
       /\ \/ ~Authorised(held[w]) /\ Raise(w)
          \/ Authorised(held[w]) /\ status[r] \in Terminal /\ Return(w, r)
          \/ /\ Authorised(held[w])
             /\ status[r] \notin Terminal
             /\ IF sequence[r] = Base(w, r) THEN commit ELSE Raise(w)

\* _fail inside a step: FAIL is applied there, and the step loop then applies
\* the StepResult of the state that is already FAILED.
FailNow(w, r, then) ==
    Applying(w, r, Commit(w, r, "FAILED", then) /\ UNCHANGED <<turn, task>>)

FailInStep(w, r) == FailNow(w, r, At("apply", Base(w, r) + 1, "WAIT"))

\* ensure_wall_time failed in _preflight_step: the step loop returns the failed Run.
FailExpired(w, r) ==
    /\ Pc(w, r) = "expired"
    /\ FailNow(w, r, At("returned", 0, "NONE"))

\* max_turns reached, a fatal model error or an exhausted budget.
FailStep(w, r) ==
    /\ Pc(w, r) = "step"
    /\ Children(r) = {}
    /\ FailInStep(w, r)

\* _apply_next_action
ApplyStep(w, r) ==
    /\ Pc(w, r) = "apply"
    /\ Applying(w, r,
          CASE frame[w][r].next = "CONTINUE" -> Move(w, r, At("preflight", 0, "NONE"))
            [] frame[w][r].next = "WAIT"     -> Return(w, r)
            [] frame[w][r].next = "COMPLETE" ->
                  /\ Commit(w, r, "COMPLETED", At("returned", 0, "NONE"))
                  /\ UNCHANGED <<turn, task>>
            [] OTHER -> FALSE)

(***************************************************************************)
(* The orchestrating Parent (PlanExecuteStrategy) and its inline Children, *)
(* which run under the Parent's ownership.  Plan tasks are independent.    *)
(***************************************************************************)
Underway(c) == task[c] \notin Terminal \cup {"PENDING"}

\* The Child has a state that the Parent's plan does not show yet.
Unobserved(c) == Underway(c) /\ status[c] \notin {"ABSENT", "RUNNING", task[c]}

\* _observe_child: the Parent is read again and saved with the Child's state.
ObserveChild(w, c) ==
    LET r == Parent[c]
    IN /\ status[r] \notin Terminal
       /\ Unobserved(c)
       /\ Save(r, sequence[r], status[r], held[w])
       /\ task' = [task EXCEPT ![c] = status[c]]
       /\ UNCHANGED <<held, turn>>

\* _reconcile_children at the start of a Parent step ...
ReconcileChild(w, r, c) ==
    /\ Pc(w, r) \in {"step", "observed"}
    /\ c \in Children(r)
    /\ \/ /\ ObserveChild(w, c)
          /\ Goto(w, r, At("observed", Base(w, r), "NONE"))
       \/ Unobserved(c) /\ status[r] \notin Terminal /\ ~Fenced(held[w]) /\ Raise(w)

\* ... which ends with the Parent's state as it is now, or as it was if there was nothing
\* to observe.  Nothing is copied into a Parent that has ended.
ChildrenReconciled(w, r) ==
    /\ Pc(w, r) \in {"step", "observed"}
    /\ Children(r) # {}
    /\ LET observable == \E c \in Children(r) : Unobserved(c)
           read == IF Pc(w, r) = "observed" \/ observable THEN sequence[r] ELSE Base(w, r)
       IN /\ status[r] \in Terminal \/ ~observable
          /\ Move(w, r, At("scan", read, "NONE"))

AllEnded(r) == \A c \in Children(r) : task[c] \in Terminal     \* mutant

AllCompleted(r) == \A c \in Children(r) : task[c] = "COMPLETED"
HasFailed(r)    == \E c \in Children(r) : task[c] \in {"FAILED", "CANCELLED"}

Ready(r)      == {c \in Children(r) : task[c] = "PENDING"}
Launchable(r) == {c \in Children(r) :
                    \/ task[c] = "PENDING"
                    \/ Underway(c) /\ status[c] \in {"ABSENT", "RUNNING"}}

\* _wait_for_children; behind a failed task the tasks that never started are
\* taken back first.
WaitForChildren(w, r) ==
    \/ /\ Commit(w, r, "WAITING_CHILD", At("apply", Base(w, r) + 1, "WAIT"))
       /\ task' = [c \in Run |-> IF c \in Children(r) /\ HasFailed(r) /\ Underway(c)
                                    /\ status[c] = "ABSENT"
                                 THEN "PENDING" ELSE task[c]]
       /\ UNCHANGED turn
    \/ Refused(w, r)

\* _persist_ready_tasks and the dispatch of every launchable task.
Dispatch(w, r) ==
    LET started == [frame[w] EXCEPT ![r] = At("children", 0, "NONE")]
        spawned == [x \in Run |-> IF x \in Launchable(r) THEN At("start", 0, "NONE")
                                                         ELSE started[x]]
    IN /\ frame' = [frame EXCEPT ![w] = spawned]
       /\ task' = [c \in Run |-> IF c \in Ready(r) THEN "ASSIGNED" ELSE task[c]]
       /\ IF Ready(r) = {} THEN UNCHANGED storeVars
                           ELSE Save(r, Base(w, r), "RUNNING", held[w])
       /\ UNCHANGED <<held, turn>>

\* _advance_step after the reconciliation.  A plan with a failed task is not
\* replanned.
ParentStep(w, r) ==
    /\ Pc(w, r) = "scan"
    /\ \/ /\ AllCompleted(r)
          /\ Move(w, r, At("apply", Base(w, r), "COMPLETE"))
       \/ /\ HasFailed(r)
          /\ IF \E c \in Children(r) : Underway(c) /\ status[c] # "ABSENT"
             THEN WaitForChildren(w, r)
             ELSE FailInStep(w, r)
       \/ /\ ~AllCompleted(r) /\ ~HasFailed(r)
          /\ Launchable(r) # {}
          /\ \/ Dispatch(w, r)
             \/ Ready(r) # {} /\ Refused(w, r)
       \/ /\ ~AllCompleted(r) /\ ~HasFailed(r)
          /\ Launchable(r) = {}
          /\ WaitForChildren(w, r)

\* _start_child reads the Child, then starts or resumes it.
StartChild(w, c) ==
    /\ Pc(w, c) = "start"
    /\ CASE status[c] = "ABSENT" ->
               \/ /\ Commit(w, c, "RUNNING", At("preflight", 0, "NONE"))
                  /\ UNCHANGED <<turn, task>>
               \/ ~Fenced(held[w]) /\ Raise(w)
         [] status[c] = "RUNNING" -> Move(w, c, At("load", 0, "NONE"))
         [] OTHER -> Return(w, c)

\* _observe_scheduled_child of a Child coroutine that returned.
ChildReturned(w, c) ==
    /\ Pc(w, c) = "returned"
    /\ Parent[c] # NoRun /\ held[w].run = Parent[c]
    /\ \/ ObserveChild(w, c) /\ Goto(w, c, Idle)
       \/ /\ Unobserved(c) /\ status[Parent[c]] \notin Terminal
          /\ ~Fenced(held[w]) /\ Raise(w)
       \/ /\ ~Unobserved(c) \/ status[Parent[c]] \in Terminal
          /\ Move(w, c, Idle)

\* scheduler.execute returned: the Parent is read again and its state applied.
ChildrenReturned(w, r) ==
    /\ Pc(w, r) = "children"
    /\ \A c \in Children(r) : Pc(w, c) = "idle"
    /\ Move(w, r, At("apply", sequence[r],
                     IF status[r] = "RUNNING" THEN "CONTINUE" ELSE "WAIT"))

(***************************************************************************)
(* Faults.  A crashed or stopped Worker is started again by its operator.  *)
(***************************************************************************)
Crash(w) ==
    /\ held[w] # NoOwnership
    /\ Raise(w)

\* shutdown() cancels the execution.
Shutdown(w) ==
    /\ held[w] # NoOwnership
    /\ Pc(w, held[w].run) # "returned"
    /\ ReleaseRunnable(w)

\* A renewal that fails with a database error is treated as lost ownership.
RenewalUnavailable(w) ==
    /\ held[w] # NoOwnership
    /\ Pc(w, held[w].run) # "returned"
    /\ Raise(w) \/ ReleaseRunnable(w)

(***************************************************************************)
(* Control operations of the API process: unfenced, but versioned.  A      *)
(* request that loses the sequence race fails without an effect.           *)
(***************************************************************************)
ControlSave(r, new) == Save(r, sequence[r], new, NoOwnership)

Interrupt(r) ==
    /\ status[r] = "RUNNING"
    /\ ControlSave(r, "INTERRUPTED")
    /\ UNCHANGED <<task, apiVars>>

\* _cancel_durable: the Run, with its plan, then its Child Runs one by one.
Cancel(r) ==
    /\ status[r] \notin Terminal \cup {"ABSENT"}
    /\ ControlSave(r, "CANCELLED")
    /\ task' = [c \in Run |-> IF c \in Children(r) /\ task[c] \notin Terminal
                              THEN "CANCELLED" ELSE task[c]]
    /\ cascade' = cascade \cup Children(r)
    /\ UNCHANGED resuming

\* after_cancel
CascadeCancel(c) ==
    /\ c \in cascade
    /\ IF status[c] \in Terminal \cup {"ABSENT"}
       THEN UNCHANGED storeVars
       ELSE ControlSave(c, "CANCELLED")
    /\ cascade' = cascade \ {c}
    /\ UNCHANGED <<task, resuming>>

\* queue_resume up to its save; a rejected interrupt cancels the Run.
QueueResume(r) ==
    /\ status[r] \notin Terminal \cup {"ABSENT"}
    /\ \/ ControlSave(r, "RUNNING") /\ resuming' = resuming \cup {r}
       \/ /\ status[r] = "INTERRUPTED"
          /\ ControlSave(r, "CANCELLED")
          /\ UNCHANGED resuming
    /\ UNCHANGED <<task, cascade>>

\* queue_resume's mark_runnable, which may find the Run no longer eligible.
FinishResume(r) ==
    /\ r \in resuming
    /\ \/ MarkRunnable(r)
       \/ ~Eligible(r) /\ UNCHANGED storeVars
    /\ resuming' = resuming \ {r}
    /\ UNCHANGED <<task, cascade>>

RequeueRun(r) ==
    /\ Requeue(r)
    /\ UNCHANGED <<task, apiVars>>

(***************************************************************************)
(* Next-state relation.                                                    *)
(***************************************************************************)
ExecuteRun(w, r) ==
    \/ Load(w, r)
    \/ ResumeClaim(w, r)
    \/ Preflight(w, r)
    \/ FailExpired(w, r)
    \/ ReactStep(w, r)
    \/ FailStep(w, r)
    \/ \E c \in Children(r) : ReconcileChild(w, r, c)
    \/ ChildrenReconciled(w, r)
    \/ ParentStep(w, r)
    \/ StartChild(w, r)
    \/ ChildReturned(w, r)
    \/ ChildrenReturned(w, r)
    \/ ApplyStep(w, r)

WorkerStep(w) ==
    /\ \/ \E r \in Run : ClaimRun(w, r) \/ ClaimExhausted(w, r) \/ ExecuteRun(w, r)
       \/ Heartbeat(w)
       \/ HeartbeatLost(w)
       \/ ReleaseReturned(w)
    /\ UNCHANGED <<apiVars, faults, controls>>

Fault(w) ==
    /\ faults < MaxFaults
    /\ Crash(w) \/ Shutdown(w) \/ RenewalUnavailable(w)
    /\ faults' = faults + 1
    /\ UNCHANGED <<apiVars, controls>>

Submit(r) == Admit(r) /\ UNCHANGED <<workVars, turn, task, apiVars, faults, controls>>

Clock == Tick /\ UNCHANGED <<workVars, turn, task, apiVars, faults, controls>>

TimeOut(r) == Expire(r) /\ UNCHANGED <<workVars, turn, task, apiVars, faults, controls>>

Control(r) ==
    /\ controls < MaxControls
    /\ Interrupt(r) \/ Cancel(r) \/ QueueResume(r) \/ RequeueRun(r)
    /\ controls' = controls + 1
    /\ UNCHANGED <<workVars, turn, faults>>

Converge(r) ==
    /\ CascadeCancel(r) \/ FinishResume(r)
    /\ UNCHANGED <<workVars, turn, faults, controls>>

\* suspended is set when the Run is parked and cleared by its next claim.
RecordSuspension ==
    suspended' = [r \in Run |-> status'[r] \in Parked \/ (suspended[r] /\ fence'[r] = fence[r])]

RuntimeNext ==
    /\ \/ \E w \in Worker : WorkerStep(w) \/ Fault(w)
       \/ \E r \in Run : Submit(r) \/ Control(r) \/ Converge(r) \/ TimeOut(r)
       \/ Clock
    /\ RecordSuspension

RuntimeSpec == RuntimeInit /\ [][RuntimeNext]_runtimeVars

(***************************************************************************)
(* Fairness.  Every coroutine that can run is eventually resumed by its    *)
(* event loop, the polling loop claims what it can, the clock advances and *)
(* a request that was accepted finishes.  Timely is the purpose of the     *)
(* heartbeat interval, a third of the lease: the lease of a Worker that    *)
(* lives does not expire.  Faults stay possible and nothing makes them     *)
(* happen.                                                                 *)
(***************************************************************************)
Timely ==
    \A w \in Worker :
        /\ Authorised(held[w])
        /\ held'[w] = held[w]
        /\ status'[held[w].run] \in Executing
        => lease'[held[w].run] > 0

Progress(w) ==
    /\ \/ \E r \in Run : ClaimRun(w, r) \/ ClaimExhausted(w, r) \/ ExecuteRun(w, r)
       \/ HeartbeatLost(w)
       \/ ReleaseReturned(w)
    /\ UNCHANGED <<apiVars, faults, controls>>
    /\ RecordSuspension

Beat(w) == Heartbeat(w) /\ UNCHANGED <<apiVars, faults, controls>> /\ RecordSuspension

Fairness ==
    /\ \A w \in Worker : WF_runtimeVars(Progress(w)) /\ WF_runtimeVars(Beat(w))
    /\ \A r \in Run : WF_runtimeVars(Converge(r) /\ RecordSuspension)
    /\ WF_runtimeVars(Clock /\ RecordSuspension /\ Timely)

TimelySpec == RuntimeInit /\ [][RuntimeNext /\ Timely]_runtimeVars /\ Fairness

(***************************************************************************)
(* Properties.                                                             *)
(***************************************************************************)

\* The Workers and the API use the store only as its clients may: what holds of
\* RunStore for any client holds here (ownership.py, durable.py, plan_strategy.py).
StoreSpec == Spec

\* The coroutine of w holds Run r between a passed ownership check and the write
\* that depends on it.
Executes(w, r) ==
    /\ Pc(w, r) \in {"step", "observed", "scan", "children", "apply"}
    /\ Names(held[w])
    /\ lease[held[w].run] > 0

\* A Run is executed by one Worker at a time, also a Child that its Parent's
\* Worker runs inline: "the claimed root Run's ownership authorizes that execution
\* tree rather than claiming each Child independently"
\* (docs/architecture-current.md, Distributed worker ownership).  A resume of the
\* Child itself is the exception: it queues the Child for a Worker of its own.
ExecutionIsExclusive ==
    \A r \in Run, v, w \in Worker : Executes(v, r) /\ Executes(w, r) => v = w

\* A Parent is COMPLETED only by work of its Children that is COMPLETED, whatever
\* was observed, requeued, cancelled or resumed in between (_advance_step).
ParentCompletesLast ==
    \A r \in Run : status[r] = "COMPLETED" =>
        \A c \in Children(r) : status[c] = "COMPLETED"

\* No Child Run is born under a Parent that was cancelled, paused, lost or ended
\* while its Worker was about to start the Child (_start_child).
ChildIsBornUnderRunningParent ==
    [][\A r \in Run : Parent[r] # NoRun /\ status[r] = "ABSENT" /\ status'[r] # "ABSENT" =>
          status[Parent[r]] = "RUNNING" /\ Active(Parent[r])]_runtimeVars

InHands(r) == \E w \in Worker : held[w].run = r /\ Names(held[w])

\* No root Run is forgotten: while it is RUNNING it is in the queue, or in the
\* hands of a Worker that will release it, or queue_resume is about to queue it
\* (run_once, release_lease, queue_resume).
RunningRunIsSchedulable ==
    \A r \in Run : status[r] = "RUNNING" /\ Parent[r] = NoRun =>
        runnable[r] \/ InHands(r) \/ r \in resuming

\* "A terminal Child wakes its waiting Parent, which must compete for active
\* capacity again" (docs/architecture-current.md): a Parent that waits and is in
\* nobody's hands is queued, or still has a Child to wait for.
WaitingParentIsWoken ==
    \A r \in Run : status[r] = "WAITING_CHILD" =>
        \/ runnable[r]
        \/ InHands(r)
        \/ r \in resuming
        \/ \E c \in Children(r) : status[c] \notin Terminal

\* A user's interrupt of a root Run is left only by an explicit resume or a cancel,
\* never because an execution that loaded the Run earlier goes on: "User-intentionally
\* INTERRUPTED Runs are not automatically recovered" (docs/architecture-current.md).
\* A Child is not covered: its Parent's Worker may resume it inline (_start_child).
InterruptIsHonoured ==
    [][\A r \in Run : Parent[r] = NoRun /\ status[r] = "INTERRUPTED" =>
          \/ status'[r] \in {"INTERRUPTED", "CANCELLED"}
          \/ status'[r] = "RUNNING" /\ r \in resuming']_runtimeVars

\* Parking a Run, its approval or resume, and its next claim are no redelivery:
\* "normal wait/resume" is not a delivery failure (docs/architecture-current.md),
\* so a suspended Run that no Worker works on any more is neither charged nor
\* quarantined.
ParkingIsNotRedelivery ==
    [][\A r \in Run :
          suspended[r] /\ attempt[r] > 0 /\ (\A w \in Worker : held[w].run # r) =>
              attempt'[r] <= attempt[r] /\ (failureQueued'[r] => failureQueued[r])]_runtimeVars

\* A Run that executes ends, is parked for a person, waits for a Child that is parked,
\* runs out of wall time, or lost its Parent to the failure queue: no crash, lost
\* heartbeat, expiry or takeover leaves it executing for ever (run_once, _claim_next).
RunSettles ==
    \A r \in Run :
        status[r] \in Executing ~>
            \/ status[r] \notin Executing
            \/ OutOfTime(r)
            \/ \E c \in Children(r) : status[c] \in Parked
            \/ Parent[r] # NoRun /\ status[Parent[r]] = "FAILED"

\* A Parent outlives the work of its Children: they are born while it runs in the hands
\* of an owner, and it completes after them (_start_child, _advance_step), with every
\* Worker in a state the code has.
FamilyIsOrdered ==
    /\ [](RuntimeTypeOK /\ ParentCompletesLast)
    /\ ChildIsBornUnderRunningParent
=============================================================================
