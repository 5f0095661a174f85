------------------------------ MODULE ChildRuns -----------------------------
(***************************************************************************)
(* What the two orchestrating strategies share when a local Runtime runs   *)
(* them: one coroutine that executes a Parent Run step by step on a copy of *)
(* its RunState, the Child Runs its scheduler starts, and the control      *)
(* operations of the API that change the Parent and the Children behind    *)
(* that copy.  Strategy modules give the Parent's RunState its contents    *)
(* and the steps their meaning.                                            *)
(*                                                                         *)
(* Sequence numbers are abstracted to `fresh`: the copy still carries the  *)
(* sequence of the row, so that a save of it is accepted.                  *)
(***************************************************************************)
EXTENDS FiniteSets, Naturals

CONSTANTS Child,        \* Child Runs, by their stable identity
          MaxParallel,  \* max_parallel_workers, max_parallel_tasks
          MaxCrashes,   \* bound: crashes of the process
          MaxControls   \* bound: interrupts, cancels and requests about a Child

ASSUME ChildRunsAssumption ==
    MaxParallel \in Nat \ {0} /\ MaxCrashes \in Nat /\ MaxControls \in Nat

VARIABLES row,       \* the Parent's committed RunState
          copy,      \* the RunState the executing coroutine works on
          fresh,     \* the copy has the sequence of the row
          pc,        \* where the coroutine is, "idle" when none executes
          queue,     \* Children scheduler.execute has still to start
          batch,     \* Children whose runner or observer has not returned
          child,     \* status of each Child Run
          host,      \* who executes each Child
          cascade,   \* Children that after_cancel still visits
          signal,    \* request_cancel of the Parent's handle is under way
          crashes, controls

childVars == <<child, host>>
workVars  == <<copy, fresh, pc, queue, batch>>
apiVars   == <<cascade, signal, crashes, controls>>
orchestrationVars == <<row, workVars, childVars, apiVars>>

Terminal == {"COMPLETED", "FAILED", "CANCELLED"}
Parked   == {"WAITING_APPROVAL", "INTERRUPTED"}
NoCopy   == [status |-> "ABSENT"]

Finished(c) == child[c] \in Terminal

ChildRunsTypeOK ==
    /\ fresh \in BOOLEAN
    /\ pc \in {"idle", "preflight", "step", "observe", "decide", "skip", "ready", "launch",
               "execute", "collect", "settle", "finish", "fail", "apply"}
    /\ queue \subseteq Child
    /\ batch \subseteq Child
    /\ child \in [Child -> {"ABSENT", "RUNNING"} \cup Parked \cup Terminal]
    /\ host \in [Child -> {"nobody", "parent", "api"}]
    /\ cascade \subseteq Child
    /\ signal \in BOOLEAN
    /\ crashes \in 0 .. MaxCrashes
    /\ controls \in 0 .. MaxControls

ChildRunsInit(state) ==
    /\ row = state
    /\ copy = NoCopy
    /\ fresh = FALSE
    /\ pc = "idle"
    /\ queue = {}
    /\ batch = {}
    /\ child = [c \in Child |-> "ABSENT"]
    /\ host = [c \in Child |-> "nobody"]
    /\ cascade = {}
    /\ signal = FALSE
    /\ crashes = 0
    /\ controls = 0

(***************************************************************************)
(* The executing coroutine.                                                *)
(***************************************************************************)
\* The coroutine ends, with its result, an exception or the process: the Child
\* coroutines it awaits end with it and leave their rows as they are.
Stopped ==
    /\ copy' = NoCopy
    /\ fresh' = FALSE
    /\ pc' = "idle"
    /\ queue' = {}
    /\ batch' = {}
    /\ host' = [c \in Child |-> IF host[c] = "parent" THEN "nobody" ELSE host[c]]

Stop == Stopped /\ UNCHANGED <<row, child>>

Goto(place) == pc' = place /\ UNCHANGED <<row, copy, fresh, queue, batch, childVars>>

\* _save_checkpoint of the copy: refused, it raises out of the step.
Save(new, place) ==
    \/ /\ fresh
       /\ row' = new
       /\ copy' = new
       /\ pc' = place
       /\ UNCHANGED <<fresh, queue, batch, childVars>>
    \/ ~fresh /\ Stop

\* _apply_next_action with COMPLETE or FAIL reads the row again first.
Conclude(new, status) ==
    \/ /\ fresh
       /\ row.status \notin {"CANCELLED", "INTERRUPTED"}
       /\ row' = [new EXCEPT !.status = status]
       /\ Stopped
       /\ UNCHANGED child
    \/ /\ ~fresh \/ row.status \in {"CANCELLED", "INTERRUPTED"}
       /\ Stop

\* A client's resume of the Parent, the resume that follows the last decision about
\* a Child, and _recover_waiting_parents after a restart.
Resume ==
    /\ pc = "idle"
    /\ row.status \in {"RUNNING", "WAITING_CHILD", "INTERRUPTED"}
    /\ row' = [row EXCEPT !.status = "RUNNING"]
    /\ pc' = "preflight"
    /\ UNCHANGED <<copy, fresh, queue, batch, childVars>>

\* _preflight_step: the wall time of the Run may be used up.
Preflight ==
    /\ pc = "preflight"
    /\ \/ row.status # "RUNNING" /\ Stop
       \/ /\ row.status = "RUNNING"
          /\ row' = [row EXCEPT !.status = "FAILED"]
          /\ Stopped
          /\ UNCHANGED child
       \/ /\ row.status = "RUNNING"
          /\ copy' = row
          /\ fresh' = TRUE
          /\ pc' = "step"
          /\ UNCHANGED <<row, queue, batch, childVars>>

\* _apply_next_action after a step that proposed nothing terminal.
Apply ==
    /\ pc = "apply"
    /\ IF fresh /\ row.status = "RUNNING" THEN Goto("preflight") ELSE Stop

(***************************************************************************)
(* The scheduler and its Children.                                         *)
(***************************************************************************)
Room == Cardinality(batch) < MaxParallel

\* Of some members of a list, the one that comes first.
Position(list, x) == CHOOSE i \in DOMAIN list : list[i] = x
Earliest(list, x, chosen) == x \in chosen /\ \A y \in chosen : Position(list, x) <= Position(list, y)

\* execute takes a Child, the next of the strategy's order, and _start_child starts it,
\* resumes it when a crash left it RUNNING, or returns what it finds.  A Child that
\* another thread executes is registered there, and the registration conflict raises.
Launch(c) ==
    /\ pc = "execute"
    /\ c \in queue
    /\ Room
    /\ \/ /\ child[c] = "RUNNING" /\ host[c] = "api"
          /\ Stop
       \/ /\ ~(child[c] = "RUNNING" /\ host[c] = "api")
          /\ queue' = queue \ {c}
          /\ batch' = batch \cup {c}
          /\ child' = [child EXCEPT ![c] = IF @ = "ABSENT" THEN "RUNNING" ELSE @]
          /\ host' = [host EXCEPT ![c] = IF child[c] \in {"ABSENT", "RUNNING"}
                                         THEN "parent" ELSE @]
          /\ UNCHANGED <<row, copy, fresh, pc>>

\* A Child's own execution ends or parks; below a cancelled Parent its next
\* preflight cancels it (reconcile_run_control_state).
ChildEnds(c) ==
    /\ child[c] = "RUNNING"
    /\ host[c] # "nobody"
    /\ \E end \in {"COMPLETED", "FAILED", "WAITING_APPROVAL"} \cup
                  (IF row.status = "CANCELLED" THEN {"CANCELLED"} ELSE {}) :
          child' = [child EXCEPT ![c] = end]
    /\ host' = [host EXCEPT ![c] = "nobody"]

\* The Child's coroutine has returned to the scheduler.
Returned(c) == pc = "execute" /\ c \in batch /\ host[c] # "parent"

(***************************************************************************)
(* The API and the operator.                                               *)
(***************************************************************************)
\* _set_run_status: no lock keeps it from a Parent that executes.
Interrupt ==
    /\ row.status = "RUNNING"
    /\ row' = [row EXCEPT !.status = "INTERRUPTED"]
    /\ fresh' = FALSE
    /\ UNCHANGED <<copy, pc, queue, batch, childVars, cascade, signal>>

\* _cancel_durable, where `cancelled` is what on_cancel makes of the RunState and
\* `named` the Children that it names.
Cancel(cancelled, named) ==
    /\ row.status \notin Terminal
    /\ row' = cancelled
    /\ fresh' = FALSE
    /\ cascade' = named
    /\ signal' = TRUE
    /\ UNCHANGED <<copy, pc, queue, batch, childVars>>

\* after_cancel, one Child after the other.
CancelChild(c) ==
    /\ c \in cascade
    /\ cascade' = cascade \ {c}
    /\ child' = [child EXCEPT ![c] = IF @ \in Terminal \cup {"ABSENT"} THEN @ ELSE "CANCELLED"]
    /\ host' = [host EXCEPT ![c] = "nobody"]
    /\ UNCHANGED signal

\* ActiveRunSupervisor.request_cancel of the Parent, after the cascade.
SignalParent ==
    /\ signal
    /\ cascade = {}
    /\ signal' = FALSE
    /\ IF pc = "idle" THEN UNCHANGED <<row, workVars, childVars>> ELSE Stop
    /\ UNCHANGED cascade

\* An approval, a rejection or a resume of one Child, executed by its own thread.
ResumeChild(c) ==
    /\ row.status # "CANCELLED"
    /\ child[c] \in Parked \/ (child[c] = "RUNNING" /\ host[c] = "nobody")
    /\ child' = [child EXCEPT ![c] = "RUNNING"]
    /\ host' = [host EXCEPT ![c] = "api"]

\* A cancel or an interrupt of one Child.
StopChild(c) ==
    /\ child[c] \in {"RUNNING"} \cup Parked
    /\ \E end \in {"CANCELLED"} \cup (IF child[c] = "RUNNING" THEN {"INTERRUPTED"} ELSE {}) :
          child' = [child EXCEPT ![c] = end]
    /\ host' = [host EXCEPT ![c] = "nobody"]

Control(cancelled, named) ==
    /\ controls < MaxControls
    /\ controls' = controls + 1
    /\ \/ Interrupt
       \/ Cancel(cancelled, named)
       \/ /\ \E c \in Child : ResumeChild(c) \/ StopChild(c)
          /\ UNCHANGED <<row, workVars, cascade, signal>>
    /\ UNCHANGED crashes

Converge ==
    /\ \/ \E c \in Child : CancelChild(c) /\ UNCHANGED <<row, workVars>>
       \/ SignalParent
    /\ UNCHANGED <<crashes, controls>>

\* The process stops and is started again: every coroutine is gone.
Crash ==
    /\ crashes < MaxCrashes
    /\ crashes' = crashes + 1
    /\ copy' = NoCopy
    /\ fresh' = FALSE
    /\ pc' = "idle"
    /\ queue' = {}
    /\ batch' = {}
    /\ host' = [c \in Child |-> "nobody"]
    /\ UNCHANGED <<row, child>>
    /\ cascade' = {}
    /\ signal' = FALSE
    /\ UNCHANGED controls

ChildStep ==
    /\ \E c \in Child : ChildEnds(c)
    /\ UNCHANGED <<row, workVars, apiVars>>

\* Children end or park, and a cancel that was accepted finishes.
ChildFairness == WF_orchestrationVars(ChildStep) /\ WF_orchestrationVars(Converge)

(***************************************************************************)
(* Properties of both strategies.                                          *)
(***************************************************************************)
\* "at most multi_agent.max_parallel_workers Child Runs concurrently", and
\* max_parallel_tasks of a plan: also when a restarted Parent resumes the Children a
\* crash left behind (execute).
ParallelismIsBounded == Cardinality({c \in Child : host[c] = "parent"}) <= MaxParallel

\* A Parent completes when no Child of it, of any attempt or plan version, runs or
\* waits any more, so no result and no approval can come after the synthesis.
CompletionIsSettled ==
    row.status = "COMPLETED" => \A c \in Child : child[c] \in Terminal \cup {"ABSENT"}

\* A Parent that executes ends, parks or waits: review rounds, replans, skipped
\* dependents and dependencies nothing provides never keep its step loop running.
ExecutionEnds == pc # "idle" ~> pc = "idle"

\* "A manual interrupt requires an explicit resume" (docs/runtime-api.md): a Parent
\* leaves INTERRUPTED by a client's resume, which finds no coroutine executing it, or
\* by a cancel (_set_run_status, _wait_for_children).
InterruptNeedsResume ==
    [][row.status = "INTERRUPTED" /\ row'.status # "INTERRUPTED" =>
          pc = "idle" \/ row'.status = "CANCELLED"]_orchestrationVars

\* "cancels all non-terminal Plan Children" (docs/plan-durable-execution.md): when a
\* cancel of the Parent has been carried out, no Child is left RUNNING that nobody
\* executes (after_cancel, request_cancel).
CancelReachesEveryChild ==
    row.status = "CANCELLED" /\ cascade = {} /\ ~signal =>
        \A c \in Child : child[c] = "RUNNING" => host[c] # "nobody"

\* Both strategies bound their parallel Children, restarted ones included, and complete
\* when none is left (execute, _advance_step).
ChildrenAreSettled ==
    /\ ParallelismIsBounded
    /\ CompletionIsSettled
=============================================================================
