------------------------------ MODULE RunStore ------------------------------
(***************************************************************************)
(* The runs table of the PostgreSQL backend and the transactions of        *)
(* PostgresCheckpointStore that schedule, fence and version a Run          *)
(* (src/axiom/runtime/postgres.py).  One action is one transaction: each   *)
(* of them locks or conditionally updates the row it decides on, so        *)
(* transactions on a row are serial.                                       *)
(*                                                                         *)
(* The clients (Worker loops, the Runtime API, durable.py) are not trusted *)
(* here: any of them may call any operation at any time, with the          *)
(* RunOwnership of any past claim and with a RunState it loaded long ago.  *)
(* DistributedWorker.tla adds the clients the repository has.              *)
(***************************************************************************)
EXTENDS Integers, FiniteSets

CONSTANTS Run,          \* run_id of every Run that may exist
          Worker,       \* worker_id of every Worker process
          NoRun,        \* parent_run_id = null
          NoWorker,     \* owner_worker_id = null
          Parent,       \* parent_run_id of each Run
          Timed,        \* Runs whose budget policy sets max_wall_time_seconds
          MaxQueued,    \* capacity.max_queued_runs
          MaxActive,    \* capacity.max_active_runs
          MaxDelivery,  \* worker.max_run_delivery_attempts
          LeaseTicks,   \* ticks of the database clock in one lease
          MaxSequence,  \* bound: checkpoints a Run may accumulate
          MaxFence      \* bound: ownership generations of a Run

ASSUME NullAssumption == NoRun \notin Run /\ NoWorker \notin Worker

\* The strategies start Child Runs with the react strategy, which starts none:
\* the lineage is one level deep.
ASSUME LineageAssumption ==
    /\ Parent \in [Run -> Run \cup {NoRun}]
    /\ \A r \in Run : Parent[r] # NoRun => Parent[Parent[r]] = NoRun

ASSUME LimitAssumption ==
    /\ MaxDelivery \in Nat \ {0}
    /\ LeaseTicks \in Nat \ {0}
    /\ MaxSequence \in Nat /\ MaxFence \in Nat
    /\ MaxQueued \in Nat /\ MaxActive \in Nat
    /\ Timed \subseteq Run

VARIABLES status,         \* runs.status, "ABSENT" before the row is inserted
          sequence,       \* runs.current_sequence
          runnable,       \* runs.runnable
          owner,          \* runs.owner_worker_id
          lease,          \* ticks left until lease_until, 0 when expired or null
          fence,          \* runs.fencing_token
          attempt,        \* runs.delivery_attempt
          failureQueued,  \* runs.failure_queued_at is not null
          expired         \* the wall-time budget of the Run has run out

leaseVars == <<owner, lease, fence, attempt>>
queueVars == <<failureQueued, expired>>
storeVars == <<status, sequence, runnable, owner, lease, fence, attempt, failureQueued, expired>>

(***************************************************************************)
(* Types.                                                                  *)
(***************************************************************************)
Executing == {"RUNNING", "WAITING_CHILD"}
Parked    == {"INTERRUPTED", "WAITING_APPROVAL"}
Terminal  == {"COMPLETED", "FAILED", "CANCELLED"}
RunStatus == Executing \cup Parked \cup Terminal

\* RunOwnership: the authority a claim hands to a Worker.
Ownership   == [run : Run, worker : Worker, token : Nat]
NoOwnership == [run |-> NoRun, worker |-> NoWorker, token |-> 0]

TypeOK ==
    /\ status \in [Run -> RunStatus \cup {"ABSENT"}]
    /\ sequence \in [Run -> Nat]
    /\ runnable \in [Run -> BOOLEAN]
    /\ owner \in [Run -> Worker \cup {NoWorker}]
    /\ lease \in [Run -> 0 .. LeaseTicks]
    /\ fence \in [Run -> Nat]
    /\ attempt \in [Run -> Nat]
    /\ failureQueued \in [Run -> BOOLEAN]
    /\ expired \in [Run -> BOOLEAN]

(***************************************************************************)
(* Predicates of the SQL statements.                                       *)
(***************************************************************************)
AncestorCancelled(r) == Parent[r] # NoRun /\ status[Parent[r]] = "CANCELLED"

ClaimableWhenReleased(r) ==          \* mutant: an expired owner keeps its Run
    /\ runnable[r]
    /\ status[r] \in Executing
    /\ owner[r] = NoWorker
    /\ ~expired[r]
    /\ ~AncestorCancelled(r)

Claimable(r) ==
    /\ runnable[r]
    /\ status[r] \in Executing
    /\ owner[r] = NoWorker \/ lease[r] = 0
    /\ ~expired[r]
    /\ ~AncestorCancelled(r)

Active(r) == status[r] \in Executing /\ owner[r] # NoWorker /\ lease[r] > 0

ActiveRuns == {r \in Run : Active(r)}

QueuedRuns == {r \in Run : Claimable(r)}

CapacityLeft == Cardinality(ActiveRuns) < MaxActive

\* The row still carries the owner and the token of ownership o.
Names(o) == owner[o.run] = o.worker /\ fence[o.run] = o.token

AuthorisedUntilReplaced(o) ==        \* mutant: the lease may have expired
    /\ o.run \in Run
    /\ Names(o)
    /\ status[o.run] \in Executing

AuthorisedInAnyStatus(o) ==          \* mutant: a paused Run keeps its authority
    /\ o.run \in Run
    /\ Names(o)
    /\ lease[o.run] > 0

\* Authority is owner, token, a live lease and an execution status.
Authorised(o) ==
    /\ o.run \in Run
    /\ Names(o)
    /\ status[o.run] \in Executing
    /\ lease[o.run] > 0

FencedByName(o) == o = NoOwnership \/ (o.run \in Run /\ Names(o))   \* mutant

\* A RuntimeStore caller without ownership is not fenced.
Fenced(o) == o = NoOwnership \/ Authorised(o)

DeliveryExhausted(r) == owner[r] # NoWorker /\ attempt[r] >= MaxDelivery

NextAttempt(r) ==
    IF owner[r] # NoWorker THEN attempt[r] + 1
    ELSE IF attempt[r] = 0 THEN 1
    ELSE attempt[r]

WakeParentOnly(r) ==                 \* mutant: the finished Run stays queued
    [x \in Run |->
        \/ runnable[x]
        \/ x = Parent[r] /\ status[x] = "WAITING_CHILD" /\ owner[x] = NoWorker]

\* runnable after Run r became terminal: r leaves the queue, a Parent that waits
\* for a Child without being owned enters it.
RunnableAfterFinish(r) ==
    [x \in Run |->
        /\ x # r
        /\ \/ runnable[x]
           \/ x = Parent[r] /\ status[x] = "WAITING_CHILD" /\ owner[x] = NoWorker]

QueueNewRun(r, new) ==               \* mutant: every inserted Run is queued
    IF new \in Terminal THEN RunnableAfterFinish(r)
    ELSE [runnable EXCEPT ![r] = @ \/ status[r] = "ABSENT"]

RunnableAfterSave(r, new) ==
    IF new \in Terminal THEN RunnableAfterFinish(r) ELSE runnable

AnyVersion(r, base) == TRUE          \* mutant: the last writer wins

SameVersion(r, base) == sequence[r] = base

(***************************************************************************)
(* Transactions.                                                           *)
(***************************************************************************)
Init ==
    /\ status = [r \in Run |-> "ABSENT"]
    /\ sequence = [r \in Run |-> 0]
    /\ runnable = [r \in Run |-> FALSE]
    /\ owner = [r \in Run |-> NoWorker]
    /\ lease = [r \in Run |-> 0]
    /\ fence = [r \in Run |-> 0]
    /\ attempt = [r \in Run |-> 0]
    /\ failureQueued = [r \in Run |-> FALSE]
    /\ expired = [r \in Run |-> FALSE]

\* _admit_run: an external root submission below the backlog limit.
Admit(r) ==
    /\ Parent[r] = NoRun
    /\ status[r] = "ABSENT"
    /\ Cardinality(QueuedRuns) < MaxQueued
    /\ status' = [status EXCEPT ![r] = "RUNNING"]
    /\ sequence' = [sequence EXCEPT ![r] = 1]
    /\ runnable' = [runnable EXCEPT ![r] = TRUE]
    /\ UNCHANGED <<leaseVars, queueVars>>

\* _save: the write of a RunState loaded at sequence base, under ownership o.
\* The insert of a new Run is the write at base 0.
Save(r, base, new, o) ==
    /\ base < MaxSequence
    /\ Fenced(o)
    /\ SameVersion(r, base)
    /\ status' = [status EXCEPT ![r] = new]
    /\ sequence' = [sequence EXCEPT ![r] = base + 1]
    /\ runnable' = RunnableAfterSave(r, new)
    /\ IF new \in Terminal /\ o.run = r
       THEN /\ owner' = [owner EXCEPT ![r] = NoWorker]
            /\ lease' = [lease EXCEPT ![r] = 0]
       ELSE UNCHANGED <<owner, lease>>
    /\ UNCHANGED <<fence, attempt, queueVars>>

Eligible(r) == status[r] \in Executing /\ ~expired[r] /\ ~AncestorCancelled(r)

\* _mark_runnable
MarkRunnable(r) ==
    /\ Eligible(r)
    /\ runnable' = [runnable EXCEPT ![r] = TRUE]
    /\ UNCHANGED <<status, sequence, leaseVars, queueVars>>

\* _claim_run and _claim_next when they grant the lease.  Any claimable Run may
\* be the candidate: the priority order of _claim_next is abstracted.
Claim(r, w) ==
    /\ Claimable(r)
    /\ ~DeliveryExhausted(r)
    /\ CapacityLeft
    /\ fence[r] < MaxFence
    /\ owner' = [owner EXCEPT ![r] = w]
    /\ lease' = [lease EXCEPT ![r] = LeaseTicks]
    /\ fence' = [fence EXCEPT ![r] = @ + 1]
    /\ attempt' = [attempt EXCEPT ![r] = NextAttempt(r)]
    /\ UNCHANGED <<status, sequence, runnable, queueVars>>

\* _mark_delivery_exhausted: the claim of a Run whose owners died too often
\* quarantines it instead.
Exhaust(r) ==
    /\ Claimable(r)
    /\ DeliveryExhausted(r)
    /\ sequence[r] < MaxSequence
    /\ fence[r] < MaxFence
    /\ status' = [status EXCEPT ![r] = "FAILED"]
    /\ sequence' = [sequence EXCEPT ![r] = @ + 1]
    /\ runnable' = RunnableAfterFinish(r)
    /\ owner' = [owner EXCEPT ![r] = NoWorker]
    /\ lease' = [lease EXCEPT ![r] = 0]
    /\ fence' = [fence EXCEPT ![r] = @ + 1]
    /\ failureQueued' = [failureQueued EXCEPT ![r] = TRUE]
    /\ UNCHANGED <<attempt, expired>>

\* _requeue_delivery_exhausted: the operator's requeue of a quarantined Run.
Requeue(r) ==
    /\ status[r] = "FAILED"
    /\ failureQueued[r]
    /\ sequence[r] < MaxSequence
    /\ fence[r] < MaxFence
    /\ status' = [status EXCEPT ![r] = "RUNNING"]
    /\ sequence' = [sequence EXCEPT ![r] = @ + 1]
    /\ runnable' = [runnable EXCEPT ![r] = TRUE]
    /\ owner' = [owner EXCEPT ![r] = NoWorker]
    /\ lease' = [lease EXCEPT ![r] = 0]
    /\ fence' = [fence EXCEPT ![r] = @ + 1]
    /\ attempt' = [attempt EXCEPT ![r] = 0]
    /\ failureQueued' = [failureQueued EXCEPT ![r] = FALSE]
    /\ UNCHANGED expired

\* _renew_lease
Renew(o) ==
    /\ Authorised(o)
    /\ lease' = [lease EXCEPT ![o.run] = LeaseTicks]
    /\ UNCHANGED <<status, sequence, runnable, owner, fence, attempt, queueVars>>

\* _release_lease: no status or lease check, the flag counts only while RUNNING.
Release(o, flag) ==
    /\ Names(o)
    /\ owner' = [owner EXCEPT ![o.run] = NoWorker]
    /\ lease' = [lease EXCEPT ![o.run] = 0]
    /\ runnable' = [runnable EXCEPT ![o.run] = flag /\ status[o.run] = "RUNNING"]
    /\ UNCHANGED <<status, sequence, fence, attempt, queueVars>>

\* The database clock advances; a lease at 0 ticks has expired.
Tick ==
    /\ \E r \in Run : lease[r] > 0
    /\ lease' = [r \in Run |-> IF lease[r] > 0 THEN lease[r] - 1 ELSE 0]
    /\ UNCHANGED <<status, sequence, runnable, owner, fence, attempt, queueVars>>

\* _DEADLINE_IS_LIVE turns false: created_at + max_wall_time_seconds has passed.
Expire(r) ==
    /\ r \in Timed
    /\ status[r] # "ABSENT"
    /\ ~expired[r]
    /\ expired' = [expired EXCEPT ![r] = TRUE]
    /\ UNCHANGED <<status, sequence, runnable, leaseVars, failureQueued>>

(***************************************************************************)
(* Any client.  The runtime derives the status it writes from the status   *)
(* of its copy of the RunState, which it never lets leave a terminal       *)
(* status; loaded is the status of that copy.  Control writes carry no     *)
(* ownership, execution writes carry that of the Run or of its Parent.     *)
(***************************************************************************)
CopyOf(r, base, loaded) ==
    /\ base \in 0 .. sequence[r]
    /\ loaded = "ABSENT" <=> base = 0
    /\ base = sequence[r] => loaded = status[r]

ControlWrite(loaded) ==
    {"RUNNING"}
        \cup (IF loaded = "RUNNING" THEN {"INTERRUPTED"} ELSE {})
        \cup (IF loaded # "ABSENT" THEN {"CANCELLED"} ELSE {})

ExecutionWrite(loaded) ==
    IF loaded = "ABSENT" THEN {"RUNNING"} ELSE RunStatus \ {"INTERRUPTED"}

ClientSave(r) ==
    \E base \in 0 .. sequence[r], loaded \in (RunStatus \ Terminal) \cup {"ABSENT"} :
        /\ SameVersion(r, base)       \* refused whatever it would write
        /\ CopyOf(r, base, loaded)
        /\ \/ \E new \in ControlWrite(loaded) : Save(r, base, new, NoOwnership)
           \/ \E new \in ExecutionWrite(loaded), x \in {r, Parent[r]} \cap Run, w \in Worker :
                \E token \in 1 .. fence[x] :
                    Save(r, base, new, [run |-> x, worker |-> w, token |-> token])

ClientLease(r) ==
    \E w \in Worker, token \in 1 .. fence[r] :
        LET o == [run |-> r, worker |-> w, token |-> token]
        IN Renew(o) \/ \E flag \in BOOLEAN : Release(o, flag)

Next ==
    \/ \E r \in Run :
        \/ Admit(r)
        \/ ClientSave(r)
        \/ MarkRunnable(r)
        \/ \E w \in Worker : Claim(r, w)
        \/ Exhaust(r)
        \/ Requeue(r)
        \/ ClientLease(r)
        \/ Expire(r)
    \/ Tick

Spec == Init /\ [][Next]_storeVars

(***************************************************************************)
(* Properties.                                                             *)
(***************************************************************************)

\* A Run that ended is never offered to a Worker again: whatever order child
\* wake-ups, releases, resumes and quarantines happen in, no terminal row stays
\* in the queue (_save, _mark_delivery_exhausted, _mark_runnable, _release_lease).
TerminalLeavesQueue == \A r \in Run : status[r] \in Terminal => ~runnable[r]

\* The failure queue holds exactly Runs that failed by delivery exhaustion: they
\* are FAILED, unowned, and used up the whole allowance (no requeue is lost and
\* no live Run is quarantined).
QuarantineConsistent ==
    \A r \in Run : failureQueued[r] =>
        /\ status[r] = "FAILED"
        /\ owner[r] = NoWorker
        /\ attempt[r] = MaxDelivery

\* No history of crashes, releases, wake-ups and resumes delivers a Run more
\* often than max_run_delivery_attempts between two requeues.
DeliveryBounded == \A r \in Run : attempt[r] <= MaxDelivery

\* An outcome is final: a stale RunState or a stale owner never overwrites it.
\* Only the operator's requeue of a quarantined Run leaves a terminal status.
OutcomeIsFinal ==
    [][\A r \in Run : status[r] \in Terminal =>
          \/ status'[r] = status[r]
          \/ failureQueued[r] /\ status'[r] = "RUNNING" /\ fence'[r] > fence[r]]_storeVars

Holds(r, w, token) == owner[r] = w /\ fence[r] = token /\ lease[r] > 0

\* Authority that was lost is not regained: once a claim's lease expired, or was
\* released or superseded, no later transaction revives that claim.
LostAuthorityStaysLost ==
    [][\A r \in Run, w \in Worker : \A token \in 1 .. fence[r] :
          Holds(r, w, token)' => Holds(r, w, token)]_storeVars

\* The store implements the exclusive, versioned Run that the rest of the Runtime
\* relies on: an unexpired lease is the holder, the fencing token the generation.
HolderOf(r) == IF lease[r] > 0 THEN owner[r] ELSE NoWorker

Leased == INSTANCE LeasedRun WITH
              state <- status, version <- sequence, generation <- fence,
              holder <- [r \in Run |-> HolderOf(r)]

LeasedRunSpec == Leased!Spec

\* What holds between two transactions, whatever the clients do: the columns keep their
\* types, an ended Run is out of the queue, the failure queue holds exactly the
\* quarantined Runs, and no Run is delivered too often (the four parts above).
StoreSafety ==
    /\ TypeOK
    /\ TerminalLeavesQueue
    /\ QuarantineConsistent
    /\ DeliveryBounded
=============================================================================
