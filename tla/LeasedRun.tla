----------------------------- MODULE LeasedRun ------------------------------
(***************************************************************************)
(* What the store promises the rest of the Runtime about a Run, with no    *)
(* table, lease clock, queue or delivery count: a versioned register whose *)
(* outcomes are decided by one exclusive holder at a time.                 *)
(*   - every write gives the next version;                                 *)
(*   - execution outcomes and waits are written only while some Worker     *)
(*     holds the Run or its Parent; anybody may pause, cancel or resume;   *)
(*   - a terminal state is left only by reopening a FAILED Run;            *)
(*   - a holder is never replaced directly, and every new holder, closing  *)
(*     and reopening starts a new generation.                              *)
(***************************************************************************)
EXTENDS Naturals

CONSTANTS Run, Worker, NoRun, NoWorker, Parent

VARIABLES state, version, holder, generation

vars == <<state, version, holder, generation>>

Executing == {"RUNNING", "WAITING_CHILD"}
Terminal  == {"COMPLETED", "FAILED", "CANCELLED"}

\* Writes that need no holder.
Control == {"RUNNING", "INTERRUPTED", "CANCELLED"}
\* Writes that only an execution makes.
Outcome == {"WAITING_APPROVAL", "WAITING_CHILD", "COMPLETED", "FAILED"}

Held(r) == state[r] \in Executing /\ holder[r] # NoWorker

Init ==
    /\ state = [r \in Run |-> "ABSENT"]
    /\ version = [r \in Run |-> 0]
    /\ holder = [r \in Run |-> NoWorker]
    /\ generation = [r \in Run |-> 0]

NewVersion(r, new) ==
    /\ state' = [state EXCEPT ![r] = new]
    /\ version' = [version EXCEPT ![r] = @ + 1]

Grant(r, w) ==
    /\ state[r] \in Executing
    /\ holder[r] = NoWorker
    /\ holder' = [holder EXCEPT ![r] = w]
    /\ generation' = [generation EXCEPT ![r] = @ + 1]
    /\ UNCHANGED <<state, version>>

Revoke(S) ==
    /\ holder' = [r \in Run |-> IF r \in S THEN NoWorker ELSE holder[r]]
    /\ UNCHANGED <<state, version, generation>>

Write(r, new) ==
    /\ state[r] \notin Terminal
    /\ new \in Outcome =>
          \/ Held(r)
          \/ Parent[r] # NoRun /\ Held(Parent[r])
    /\ NewVersion(r, new)
    /\ holder' = holder \/ holder' = [holder EXCEPT ![r] = NoWorker]
    /\ UNCHANGED generation

Close(r) ==
    /\ state[r] \in Executing
    /\ holder[r] = NoWorker
    /\ NewVersion(r, "FAILED")
    /\ generation' = [generation EXCEPT ![r] = @ + 1]
    /\ UNCHANGED holder

Reopen(r) ==
    /\ state[r] = "FAILED"
    /\ NewVersion(r, "RUNNING")
    /\ generation' = [generation EXCEPT ![r] = @ + 1]
    /\ holder' = [holder EXCEPT ![r] = NoWorker]

Next ==
    \/ \E r \in Run :
        \/ \E w \in Worker : Grant(r, w)
        \/ \E new \in Control \cup Outcome : Write(r, new)
        \/ Close(r)
        \/ Reopen(r)
    \/ \E S \in SUBSET Run : Revoke(S)

Spec == Init /\ [][Next]_vars
=============================================================================
