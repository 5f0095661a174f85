----------------------- MODULE DistributedWorkerProofs -----------------------
(***************************************************************************)
(* Proofs about RunStore, for any Runs, Workers, lineage, limits and       *)
(* bounds, and then about DistributedWorker, the Workers over that store,  *)
(* for any numbers of faults and control requests.                         *)
(*                                                                         *)
(* IInv is the inductive invariant of the store.  Beyond the invariants    *)
(* that TLC checks it says that a row exists once it has a checkpoint (so  *)
(* a copy of the RunState that is still current carries the current        *)
(* status) and that a live lease has an owner (so an expired or released   *)
(* claim has no holder).                                                   *)
(*                                                                         *)
(* RuntimeInv is the inductive invariant of the Workers.  It says under    *)
(* which ownership a coroutine may stand where, and what it may believe of *)
(* the Run's row: a copy that is still current was taken from a Run that   *)
(* had not ended, and a Parent that is dispatching is not waiting while    *)
(* its lease lives.                                                        *)
(***************************************************************************)
EXTENDS DistributedWorker, TLAPS

RowExists == \A r \in Run : status[r] = "ABSENT" <=> sequence[r] = 0

LeaseHasOwner == \A r \in Run : lease[r] > 0 => owner[r] # NoWorker

IInv ==
    /\ TypeOK
    /\ RowExists
    /\ LeaseHasOwner
    /\ TerminalLeavesQueue
    /\ QuarantineConsistent
    /\ DeliveryBounded

(***************************************************************************)
(* A client's save writes a current copy: the write starts from a status   *)
(* that is not terminal, and it is fenced or a control transition.         *)
(***************************************************************************)
Write(r, base, new, o) ==
    /\ base \in Nat
    /\ new \in RunStatus
    /\ o \in Ownership \cup {NoOwnership}
    /\ o.run \in {r, Parent[r], NoRun}
    /\ status[r] \notin Terminal
    /\ o = NoOwnership => new \in {"RUNNING", "INTERRUPTED", "CANCELLED"}
    /\ Save(r, base, new, o)

\* Every ClientSave is a Write (SameVersion, CopyOf and the runtime's writes).
LEMMA ClientSaveIsWrite ==
    ASSUME IInv, NEW r \in Run, ClientSave(r)
    PROVE  \E base, new, o : Write(r, base, new, o)
<1>1. PICK base \in 0 .. sequence[r], loaded \in (RunStatus \ Terminal) \cup {"ABSENT"} :
        /\ CopyOf(r, base, loaded)
        /\ \/ \E new \in ControlWrite(loaded) : Save(r, base, new, NoOwnership)
           \/ \E new \in ExecutionWrite(loaded), x \in {r, Parent[r]} \cap Run, w \in Worker :
                \E token \in 1 .. fence[x] :
                    Save(r, base, new, [run |-> x, worker |-> w, token |-> token])
  BY DEF ClientSave
<1>2. sequence[r] \in Nat /\ base \in Nat
  BY <1>1 DEF IInv, TypeOK
<1>3. CASE \E new \in ControlWrite(loaded) : Save(r, base, new, NoOwnership)
  <2>1. PICK new \in ControlWrite(loaded) : Save(r, base, new, NoOwnership)
    BY <1>3
  <2>2. new \in {"RUNNING", "INTERRUPTED", "CANCELLED"}
    BY <2>1 DEF ControlWrite
  <2>3. status[r] \notin Terminal
    BY <1>1, <1>2, <2>1 DEF Save, SameVersion, CopyOf, Terminal, RunStatus
  <2>4. Write(r, base, new, NoOwnership)
    BY <1>2, <2>1, <2>2, <2>3
    DEF Write, NoOwnership, RunStatus, Executing, Parked, Terminal
  <2> QED BY <2>4
<1>4. CASE \E new \in ExecutionWrite(loaded), x \in {r, Parent[r]} \cap Run, w \in Worker :
             \E token \in 1 .. fence[x] :
                 Save(r, base, new, [run |-> x, worker |-> w, token |-> token])
  <2>1. PICK new \in ExecutionWrite(loaded), x \in {r, Parent[r]} \cap Run, w \in Worker :
          \E token \in 1 .. fence[x] :
              Save(r, base, new, [run |-> x, worker |-> w, token |-> token])
    BY <1>4
  <2>2. PICK token \in 1 .. fence[x] :
          Save(r, base, new, [run |-> x, worker |-> w, token |-> token])
    BY <2>1
  <2> DEFINE o == [run |-> x, worker |-> w, token |-> token]
  <2>3. new \in RunStatus
    BY <2>1 DEF ExecutionWrite, RunStatus, Executing, Parked, Terminal
  <2>4. status[r] \notin Terminal
    BY <1>1, <1>2, <2>2 DEF Save, SameVersion, CopyOf, Terminal, RunStatus
  <2>5. fence[x] \in Nat /\ token \in Nat
    BY <2>1, <2>2 DEF IInv, TypeOK
  <2>6. o \in Ownership /\ o.run \in {r, Parent[r], NoRun} /\ o # NoOwnership
    BY <2>1, <2>5, NullAssumption DEF Ownership, NoOwnership
  <2>7. Write(r, base, new, o)
    BY <1>2, <2>2, <2>3, <2>4, <2>6 DEF Write
  <2> QED BY <2>7
<1> QED BY <1>1, <1>3, <1>4

(***************************************************************************)
(* IInv is inductive: one lemma per transaction.                           *)
(***************************************************************************)
\* The statuses of models.py RunStatus fall into disjoint executing, parked and
\* terminal ones.
LEMMA StatusFacts ==
    /\ Executing \subseteq RunStatus /\ Parked \subseteq RunStatus /\ Terminal \subseteq RunStatus
    /\ Executing \cap Terminal = {} /\ Parked \cap Terminal = {}
    /\ "ABSENT" \notin RunStatus
    /\ "RUNNING" \in Executing /\ "WAITING_CHILD" \in Executing /\ "FAILED" \in Terminal
BY DEF Executing, Parked, Terminal, RunStatus

\* What a finished Run changes in the queue (RunnableAfterFinish).
LEMMA FinishQueue ==
    ASSUME TypeOK, NEW r \in Run
    PROVE  /\ RunnableAfterFinish(r) \in [Run -> BOOLEAN]
           /\ ~RunnableAfterFinish(r)[r]
           /\ \A x \in Run : RunnableAfterFinish(r)[x] => runnable[x] \/ status[x] = "WAITING_CHILD"
BY DEF TypeOK, RunnableAfterFinish

\* The submission of a new root Run (_admit_run) keeps the invariant.
LEMMA AdmitPreserves ==
    ASSUME IInv, NEW r \in Run, Admit(r)
    PROVE  IInv'
<1> USE StatusFacts DEF Admit, leaseVars, queueVars
<1>1. TypeOK' BY DEF IInv, TypeOK, RunStatus
<1>2. RowExists' BY DEF IInv, TypeOK, RowExists
<1>3. LeaseHasOwner' BY DEF IInv, LeaseHasOwner
<1>4. TerminalLeavesQueue' BY DEF IInv, TypeOK, TerminalLeavesQueue
<1>5. QuarantineConsistent' BY DEF IInv, TypeOK, QuarantineConsistent
<1>6. DeliveryBounded' BY DEF IInv, DeliveryBounded
<1> QED BY <1>1, <1>2, <1>3, <1>4, <1>5, <1>6 DEF IInv

\* A checkpoint written with or without ownership (_save) keeps the invariant.
LEMMA WritePreserves ==
    ASSUME IInv, NEW r \in Run, NEW base, NEW new, NEW o, Write(r, base, new, o)
    PROVE  IInv'
<1> USE StatusFacts DEF Write, Save, queueVars
<1>1. RunnableAfterSave(r, new) \in [Run -> BOOLEAN]
  BY FinishQueue DEF IInv, TypeOK, RunnableAfterSave
<1>2. TypeOK'
  <2>1. base + 1 \in Nat /\ new \in RunStatus
    OBVIOUS
  <2>2. owner' \in [Run -> Worker \cup {NoWorker}] /\ lease' \in [Run -> 0 .. LeaseTicks]
    BY LimitAssumption DEF IInv, TypeOK
  <2>3. status' \in [Run -> RunStatus \cup {"ABSENT"}] /\ sequence' \in [Run -> Nat]
    BY <2>1 DEF IInv, TypeOK
  <2> QED BY <1>1, <2>2, <2>3 DEF IInv, TypeOK
<1>3. RowExists' BY DEF IInv, TypeOK, RowExists
<1>4. LeaseHasOwner' BY DEF IInv, TypeOK, LeaseHasOwner
<1>5. TerminalLeavesQueue'
  <2> SUFFICES ASSUME NEW x \in Run, status'[x] \in Terminal PROVE ~runnable'[x]
    BY DEF TerminalLeavesQueue
  <2>1. CASE x = r
    BY <2>1, FinishQueue DEF IInv, TypeOK, RunnableAfterSave
  <2>2. CASE x # r
    <3>1. status'[x] = status[x] /\ ~runnable[x] /\ status[x] # "WAITING_CHILD"
      BY <2>2 DEF IInv, TypeOK, TerminalLeavesQueue
    <3> QED BY <3>1, FinishQueue DEF IInv, RunnableAfterSave
  <2> QED BY <2>1, <2>2
<1>6. QuarantineConsistent' BY DEF IInv, TypeOK, QuarantineConsistent
<1>7. DeliveryBounded' BY DEF IInv, DeliveryBounded
<1> QED BY <1>2, <1>3, <1>4, <1>5, <1>6, <1>7 DEF IInv

\* Queueing a Run (_mark_runnable) keeps the invariant.
LEMMA MarkRunnablePreserves ==
    ASSUME IInv, NEW r \in Run, MarkRunnable(r)
    PROVE  IInv'
<1> USE StatusFacts DEF MarkRunnable, Eligible, leaseVars, queueVars
<1>1. TypeOK' BY DEF IInv, TypeOK
<1>2. TerminalLeavesQueue' BY DEF IInv, TypeOK, TerminalLeavesQueue
<1>3. RowExists' /\ LeaseHasOwner' /\ QuarantineConsistent' /\ DeliveryBounded'
  BY DEF IInv, RowExists, LeaseHasOwner, QuarantineConsistent, DeliveryBounded
<1> QED BY <1>1, <1>2, <1>3 DEF IInv

\* A granted claim (_claim_locked_candidate) keeps the invariant.
LEMMA ClaimPreserves ==
    ASSUME IInv, NEW r \in Run, NEW w \in Worker, Claim(r, w)
    PROVE  IInv'
<1> USE StatusFacts, LimitAssumption, NullAssumption DEF Claim, queueVars
<1>0. status[r] \in Executing
  BY DEF Claimable
<1>1. NextAttempt(r) \in Nat /\ NextAttempt(r) <= MaxDelivery
  BY DEF IInv, TypeOK, DeliveryBounded, NextAttempt, DeliveryExhausted
<1>2. TypeOK' BY <1>1 DEF IInv, TypeOK
<1>3. RowExists' /\ TerminalLeavesQueue'
  BY DEF IInv, RowExists, TerminalLeavesQueue
<1>4. LeaseHasOwner' BY DEF IInv, TypeOK, LeaseHasOwner
<1>5. QuarantineConsistent' BY <1>0 DEF IInv, TypeOK, QuarantineConsistent
<1>6. DeliveryBounded' BY <1>1 DEF IInv, TypeOK, DeliveryBounded
<1> QED BY <1>2, <1>3, <1>4, <1>5, <1>6 DEF IInv

\* The quarantine of an exhausted Run (_mark_delivery_exhausted) keeps the invariant.
LEMMA ExhaustPreserves ==
    ASSUME IInv, NEW r \in Run, Exhaust(r)
    PROVE  IInv'
<1> USE StatusFacts, LimitAssumption DEF Exhaust
<1>1. TypeOK' BY FinishQueue DEF IInv, TypeOK
<1>2. RowExists' BY DEF IInv, TypeOK, RowExists
<1>3. LeaseHasOwner' BY DEF IInv, TypeOK, LeaseHasOwner
<1>4. TerminalLeavesQueue'
  <2> SUFFICES ASSUME NEW x \in Run, status'[x] \in Terminal PROVE ~runnable'[x]
    BY DEF TerminalLeavesQueue
  <2>1. CASE x = r BY <2>1, FinishQueue DEF IInv
  <2>2. CASE x # r
    <3>1. status'[x] = status[x] /\ ~runnable[x] /\ status[x] # "WAITING_CHILD"
      BY <2>2 DEF IInv, TypeOK, TerminalLeavesQueue
    <3> QED BY <3>1, FinishQueue DEF IInv
  <2> QED BY <2>1, <2>2
<1>5. QuarantineConsistent'
  <2>1. attempt[r] = MaxDelivery
    BY DEF IInv, TypeOK, DeliveryBounded, DeliveryExhausted
  <2> QED BY <2>1 DEF IInv, TypeOK, QuarantineConsistent
<1>6. DeliveryBounded' BY DEF IInv, DeliveryBounded
<1> QED BY <1>1, <1>2, <1>3, <1>4, <1>5, <1>6 DEF IInv

\* The operator's requeue (_requeue_delivery_exhausted) keeps the invariant.
LEMMA RequeuePreserves ==
    ASSUME IInv, NEW r \in Run, Requeue(r)
    PROVE  IInv'
<1> USE StatusFacts, LimitAssumption DEF Requeue
<1>1. TypeOK' BY DEF IInv, TypeOK
<1>2. RowExists' BY DEF IInv, TypeOK, RowExists
<1>3. LeaseHasOwner' BY DEF IInv, TypeOK, LeaseHasOwner
<1>4. TerminalLeavesQueue' BY DEF IInv, TypeOK, TerminalLeavesQueue
<1>5. QuarantineConsistent' BY DEF IInv, TypeOK, QuarantineConsistent
<1>6. DeliveryBounded' BY DEF IInv, TypeOK, DeliveryBounded
<1> QED BY <1>1, <1>2, <1>3, <1>4, <1>5, <1>6 DEF IInv

\* A renewal or a release by any owner (_renew_lease, _release_lease) keeps the
\* invariant.
LEMMA LeasePreserves ==
    ASSUME IInv, NEW o \in Ownership, NEW flag \in BOOLEAN, Renew(o) \/ Release(o, flag)
    PROVE  IInv'
<1> USE StatusFacts, LimitAssumption DEF Renew, Release, Authorised, Names, Ownership, queueVars
<1>0. o.run \in Run /\ o.worker \in Worker /\ o.worker # NoWorker
  BY NullAssumption
<1>1. TypeOK'
  <2>1. lease' \in [Run -> 0 .. LeaseTicks]
    BY <1>0 DEF IInv, TypeOK
  <2>3. runnable' \in [Run -> BOOLEAN]
    <3>1. CASE Renew(o) BY <3>1 DEF IInv, TypeOK
    <3>2. CASE Release(o, flag)
      <4>1. (flag /\ status[o.run] = "RUNNING") \in BOOLEAN
        OBVIOUS
      <4>2. runnable' = [runnable EXCEPT ![o.run] = flag /\ status[o.run] = "RUNNING"]
        BY <3>2
      <4> QED BY <4>1, <4>2, Zenon DEF IInv, TypeOK
    <3> QED BY <3>1, <3>2
  <2>2. owner' \in [Run -> Worker \cup {NoWorker}]
    BY <1>0 DEF IInv, TypeOK
  <2> QED BY <2>1, <2>2, <2>3 DEF IInv, TypeOK
<1>2. RowExists' /\ DeliveryBounded'
  BY DEF IInv, RowExists, DeliveryBounded
<1>3. LeaseHasOwner' BY <1>0 DEF IInv, TypeOK, LeaseHasOwner
<1>4. TerminalLeavesQueue' BY <1>0 DEF IInv, TypeOK, TerminalLeavesQueue
<1>5. QuarantineConsistent' BY <1>0 DEF IInv, TypeOK, QuarantineConsistent
<1> QED BY <1>1, <1>2, <1>3, <1>4, <1>5 DEF IInv

\* The passing of database time keeps the invariant.
LEMMA TickPreserves ==
    ASSUME IInv, Tick
    PROVE  IInv'
<1> USE DEF Tick, queueVars
<1>1. TypeOK' BY LimitAssumption DEF IInv, TypeOK
<1>2. LeaseHasOwner' BY DEF IInv, TypeOK, LeaseHasOwner
<1>3. RowExists' /\ TerminalLeavesQueue' /\ QuarantineConsistent' /\ DeliveryBounded'
  BY DEF IInv, RowExists, TerminalLeavesQueue, QuarantineConsistent, DeliveryBounded
<1> QED BY <1>1, <1>2, <1>3 DEF IInv

\* A wall-time budget that runs out (_DEADLINE_IS_LIVE) keeps the invariant.
LEMMA ExpirePreserves ==
    ASSUME IInv, NEW r \in Run, Expire(r)
    PROVE  IInv'
<1> USE DEF Expire, leaseVars, queueVars
<1>1. TypeOK' BY DEF IInv, TypeOK
<1>2. RowExists' /\ LeaseHasOwner' /\ TerminalLeavesQueue' /\ QuarantineConsistent' /\ DeliveryBounded'
  BY DEF IInv, RowExists, LeaseHasOwner, TerminalLeavesQueue, QuarantineConsistent, DeliveryBounded
<1> QED BY <1>1, <1>2 DEF IInv

\* The empty runs table satisfies the invariant.
LEMMA InitInvariant == Init => IInv
<1> SUFFICES ASSUME Init PROVE IInv
  OBVIOUS
<1> USE StatusFacts, LimitAssumption, NullAssumption DEF Init
<1>1. TypeOK BY DEF TypeOK
<1>2. RowExists /\ LeaseHasOwner BY DEF RowExists, LeaseHasOwner
<1>3. TerminalLeavesQueue /\ QuarantineConsistent /\ DeliveryBounded
  BY DEF TerminalLeavesQueue, QuarantineConsistent, DeliveryBounded
<1> QED BY <1>1, <1>2, <1>3 DEF IInv

\* The ownership of a ClientLease is well formed.
LEMMA ClientLeaseOwnership ==
    ASSUME IInv, NEW r \in Run, ClientLease(r)
    PROVE  \E o \in Ownership, flag \in BOOLEAN : o.run = r /\ (Renew(o) \/ Release(o, flag))
<1>1. PICK w \in Worker, token \in 1 .. fence[r] :
        LET o == [run |-> r, worker |-> w, token |-> token]
        IN Renew(o) \/ \E flag \in BOOLEAN : Release(o, flag)
  BY DEF ClientLease
<1> DEFINE o == [run |-> r, worker |-> w, token |-> token]
<1>2. o \in Ownership /\ o.run = r
  BY DEF IInv, TypeOK, Ownership
<1>3. Renew(o) \/ \E flag \in BOOLEAN : Release(o, flag)
  BY <1>1
<1> QED BY <1>2, <1>3

\* Every transaction, and a stutter, keeps the invariant.
LEMMA StepInvariant == IInv /\ [Next]_storeVars => IInv'
<1> SUFFICES ASSUME IInv, [Next]_storeVars PROVE IInv'
  OBVIOUS
<1>1. ASSUME NEW r \in Run, Admit(r) PROVE IInv'
  BY <1>1, AdmitPreserves
<1>2. ASSUME NEW r \in Run, ClientSave(r) PROVE IInv'
  BY <1>2, ClientSaveIsWrite, WritePreserves
<1>3. ASSUME NEW r \in Run, MarkRunnable(r) PROVE IInv'
  BY <1>3, MarkRunnablePreserves
<1>4. ASSUME NEW r \in Run, NEW w \in Worker, Claim(r, w) PROVE IInv'
  BY <1>4, ClaimPreserves
<1>5. ASSUME NEW r \in Run, Exhaust(r) PROVE IInv'
  BY <1>5, ExhaustPreserves
<1>6. ASSUME NEW r \in Run, Requeue(r) PROVE IInv'
  BY <1>6, RequeuePreserves
<1>7. ASSUME NEW r \in Run, ClientLease(r) PROVE IInv'
  BY <1>7, ClientLeaseOwnership, LeasePreserves
<1>8. CASE Tick
  BY <1>8, TickPreserves
<1>10. ASSUME NEW r \in Run, Expire(r) PROVE IInv'
  BY <1>10, ExpirePreserves
<1>9. CASE UNCHANGED storeVars
  BY <1>9 DEF IInv, TypeOK, RowExists, LeaseHasOwner, TerminalLeavesQueue,
              QuarantineConsistent, DeliveryBounded, storeVars
<1> QED BY <1>1, <1>2, <1>3, <1>4, <1>5, <1>6, <1>7, <1>8, <1>9, <1>10 DEF Next

\* Every reachable state of the runs table is well typed.
THEOREM TypeCorrect == Spec => []TypeOK
<1>1. Spec => []IInv
  BY InitInvariant, StepInvariant, PTL DEF Spec
<1>2. IInv => TypeOK
  BY DEF IInv
<1> QED BY <1>1, <1>2, PTL

\* The invariant holds in every reachable state of the runs table.
LEMMA Invariance == Spec => []IInv
BY InitInvariant, StepInvariant, PTL DEF Spec

\* No Run that ended is offered to a Worker again (TerminalLeavesQueue).
THEOREM EndedRunsLeaveTheQueue == Spec => []TerminalLeavesQueue
<1>1. IInv => TerminalLeavesQueue
  BY DEF IInv
<1> QED BY <1>1, Invariance, PTL

\* The failure queue holds exactly quarantined Runs (QuarantineConsistent).
THEOREM QuarantineIsConsistent == Spec => []QuarantineConsistent
<1>1. IInv => QuarantineConsistent
  BY DEF IInv
<1> QED BY <1>1, Invariance, PTL

\* No Run is delivered more often than it may be (DeliveryBounded).
THEOREM DeliveriesAreBounded == Spec => []DeliveryBounded
<1>1. IInv => DeliveryBounded
  BY DEF IInv
<1> QED BY <1>1, Invariance, PTL

\* What holds between two transactions of the runs table (StoreSafety): the four
\* theorems above together.
THEOREM StoreIsSafe == Spec => []StoreSafety
<1>1. TypeOK /\ TerminalLeavesQueue /\ QuarantineConsistent /\ DeliveryBounded => StoreSafety
  BY DEF StoreSafety
<1> QED
  BY <1>1, TypeCorrect, EndedRunsLeaveTheQueue, QuarantineIsConsistent, DeliveriesAreBounded, PTL

(***************************************************************************)
(* Action properties.                                                      *)
(***************************************************************************)

Final(r) ==
    status[r] \in Terminal =>
        \/ status'[r] = status[r]
        \/ failureQueued[r] /\ status'[r] = "RUNNING" /\ fence'[r] > fence[r]

\* No transaction changes an outcome, but the requeue of a quarantined Run: every
\* other write starts from a status that is not terminal.
LEMMA StepKeepsOutcomes ==
    ASSUME IInv, Next, NEW r \in Run
    PROVE  Final(r)
<1>0. IInv /\ TypeOK
  BY DEF IInv
<1> USE StatusFacts, <1>0 DEF TypeOK, Final
<1>1. ASSUME NEW x \in Run, Admit(x) PROVE Final(r)
  BY <1>1 DEF Admit, Terminal
<1>2. ASSUME NEW x \in Run, ClientSave(x) PROVE Final(r)
  <2>1. PICK base, new, o : Write(x, base, new, o)
    BY <1>2, ClientSaveIsWrite
  <2> QED BY <2>1 DEF Write, Save
<1>3. ASSUME NEW x \in Run, MarkRunnable(x) PROVE Final(r)
  BY <1>3 DEF MarkRunnable, Eligible
<1>4. ASSUME NEW x \in Run, NEW w \in Worker, Claim(x, w) PROVE Final(r)
  BY <1>4 DEF Claim, queueVars
<1>5. ASSUME NEW x \in Run, Exhaust(x) PROVE Final(r)
  BY <1>5 DEF Exhaust, Claimable
<1>6. ASSUME NEW x \in Run, Requeue(x) PROVE Final(r)
  BY <1>6 DEF Requeue
<1>7. ASSUME NEW x \in Run, ClientLease(x) PROVE Final(r)
  BY <1>7, ClientLeaseOwnership DEF Renew, Release
<1>8. CASE Tick
  BY <1>8 DEF Tick
<1>9. ASSUME NEW x \in Run, Expire(x) PROVE Final(r)
  BY <1>9 DEF Expire
<1> QED BY <1>1, <1>2, <1>3, <1>4, <1>5, <1>6, <1>7, <1>8, <1>9 DEF Next

\* A terminal Run stays as it is, unless it is quarantined and requeued (OutcomeIsFinal).
THEOREM OutcomesAreFinal == Spec => OutcomeIsFinal
<1>1. IInv /\ [Next]_storeVars => [\A r \in Run : Final(r)]_storeVars
  BY StepKeepsOutcomes
<1>2. Spec => [][\A r \in Run : Final(r)]_storeVars
  BY <1>1, Invariance, PTL DEF Spec
<1> QED BY <1>2 DEF OutcomeIsFinal, Final

Lost(r, w, token) == Holds(r, w, token)' => Holds(r, w, token)

\* No transaction revives a claim: only Claim gives a lease, and it takes a new token.
LEMMA StepRevivesNoClaim ==
    ASSUME IInv, Next, NEW r \in Run, NEW w \in Worker, NEW token \in 1 .. fence[r]
    PROVE  Lost(r, w, token)
<1>0. IInv /\ TypeOK
  BY DEF IInv
<1> USE StatusFacts, NullAssumption, <1>0 DEF TypeOK, Holds, Lost
<1>1. ASSUME NEW x \in Run, Admit(x) PROVE Lost(r, w, token)
  BY <1>1 DEF Admit, leaseVars, queueVars
<1>2. ASSUME NEW x \in Run, ClientSave(x) PROVE Lost(r, w, token)
  <2>1. PICK base, new, o : Write(x, base, new, o)
    BY <1>2, ClientSaveIsWrite
  <2> QED BY <2>1 DEF Write, Save
<1>3. ASSUME NEW x \in Run, MarkRunnable(x) PROVE Lost(r, w, token)
  BY <1>3 DEF MarkRunnable, Eligible, leaseVars, queueVars
<1>4. ASSUME NEW x \in Run, NEW v \in Worker, Claim(x, v) PROVE Lost(r, w, token)
  BY <1>4 DEF Claim, queueVars
<1>5. ASSUME NEW x \in Run, Exhaust(x) PROVE Lost(r, w, token)
  BY <1>5 DEF Exhaust
<1>6. ASSUME NEW x \in Run, Requeue(x) PROVE Lost(r, w, token)
  BY <1>6 DEF Requeue
<1>7. ASSUME NEW x \in Run, ClientLease(x) PROVE Lost(r, w, token)
  <2>1. PICK o \in Ownership, flag \in BOOLEAN : o.run = x /\ (Renew(o) \/ Release(o, flag))
    BY <1>7, ClientLeaseOwnership
  <2>2. CASE Renew(o)
    BY <2>1, <2>2 DEF Renew, Authorised
  <2>3. CASE Release(o, flag)
    BY <2>1, <2>3 DEF Release
  <2> QED BY <2>1, <2>2, <2>3
<1>8. CASE Tick
  BY <1>8 DEF Tick
<1>9. ASSUME NEW x \in Run, Expire(x) PROVE Lost(r, w, token)
  BY <1>9 DEF Expire, leaseVars, queueVars
<1> QED BY <1>1, <1>2, <1>3, <1>4, <1>5, <1>6, <1>7, <1>8, <1>9 DEF Next

\* A claim whose lease expired, was released or was superseded is never revived
\* (LostAuthorityStaysLost).
THEOREM AuthorityIsNotRegained == Spec => LostAuthorityStaysLost
<1>1. IInv /\ [Next]_storeVars =>
        [\A r \in Run, w \in Worker : \A token \in 1 .. fence[r] : Lost(r, w, token)]_storeVars
  BY StepRevivesNoClaim
<1>2. Spec => [][\A r \in Run, w \in Worker : \A token \in 1 .. fence[r] :
                   Lost(r, w, token)]_storeVars
  BY <1>1, Invariance, PTL DEF Spec
<1> QED BY <1>2 DEF LostAuthorityStaysLost, Lost

\* Checkpoints and generations only grow, the status changes with a checkpoint only, and
\* a generation has one owner at most.
Monotone(r) ==
    /\ sequence'[r] >= sequence[r]
    /\ sequence'[r] = sequence[r] => status'[r] = status[r]
    /\ fence'[r] >= fence[r]
    /\ fence'[r] = fence[r] => owner'[r] \in {owner[r], NoWorker}
    /\ status[r] # "ABSENT" => status'[r] # "ABSENT"

\* What a client that holds an old copy or claim may rely on (_save, _claim_run).
LEMMA StepIsMonotone ==
    ASSUME IInv, Next, NEW r \in Run
    PROVE  Monotone(r)
<1>0. IInv /\ TypeOK
  BY DEF IInv
<1> USE StatusFacts, <1>0 DEF TypeOK, Monotone
<1>1. ASSUME NEW x \in Run, Admit(x) PROVE Monotone(r)
  BY <1>1 DEF Admit, leaseVars, IInv, RowExists
<1>2. ASSUME NEW x \in Run, ClientSave(x) PROVE Monotone(r)
  <2>1. PICK base, new, o : Write(x, base, new, o)
    BY <1>2, ClientSaveIsWrite
  <2> QED BY <2>1 DEF Write, Save, SameVersion
<1>3. ASSUME NEW x \in Run, MarkRunnable(x) PROVE Monotone(r)
  BY <1>3 DEF MarkRunnable, leaseVars
<1>4. ASSUME NEW x \in Run, NEW w \in Worker, Claim(x, w) PROVE Monotone(r)
  BY <1>4 DEF Claim
<1>5. ASSUME NEW x \in Run, Exhaust(x) PROVE Monotone(r)
  BY <1>5 DEF Exhaust
<1>6. ASSUME NEW x \in Run, Requeue(x) PROVE Monotone(r)
  BY <1>6 DEF Requeue
<1>7. ASSUME NEW x \in Run, ClientLease(x) PROVE Monotone(r)
  BY <1>7, ClientLeaseOwnership DEF Renew, Release
<1>8. CASE Tick
  BY <1>8 DEF Tick
<1>9. ASSUME NEW x \in Run, Expire(x) PROVE Monotone(r)
  BY <1>9 DEF Expire, leaseVars
<1> QED BY <1>1, <1>2, <1>3, <1>4, <1>5, <1>6, <1>7, <1>8, <1>9 DEF Next

(***************************************************************************)
(* Refinement: the store implements LeasedRun.                             *)
(***************************************************************************)
Holder == [r \in Run |-> HolderOf(r)]

Mapped == <<status, sequence, Holder, fence>>

\* The abstract holder is the owner while its lease lives.
LEMMA HolderFacts ==
    ASSUME IInv, NEW r \in Run
    PROVE  /\ Holder[r] = HolderOf(r)
           /\ lease[r] > 0 => HolderOf(r) = owner[r] /\ HolderOf(r) # NoWorker
           /\ ~(lease[r] > 0) => HolderOf(r) = NoWorker
BY DEF Holder, HolderOf, IInv, LeaseHasOwner

\* A write under an authorised ownership happens while the Run or its Parent is held.
LEMMA OutcomeIsHeld ==
    ASSUME IInv, NEW r \in Run, NEW base, NEW new, NEW o, Write(r, base, new, o),
           new \in {"WAITING_APPROVAL", "WAITING_CHILD", "COMPLETED", "FAILED"}
    PROVE  \/ status[r] \in Executing /\ Holder[r] # NoWorker
           \/ /\ Parent[r] # NoRun
              /\ status[Parent[r]] \in Executing /\ Holder[Parent[r]] # NoWorker
<1>1. o # NoOwnership /\ Authorised(o)
  BY DEF Write, Save, Fenced
<1>2. o.run \in Run /\ status[o.run] \in Executing /\ lease[o.run] > 0
  BY <1>1 DEF Authorised
<1>3. Holder[o.run] # NoWorker
  BY <1>2, HolderFacts
<1>4. o.run = r \/ (o.run = Parent[r] /\ Parent[r] # NoRun)
  BY <1>2, NullAssumption DEF Write
<1> QED BY <1>2, <1>3, <1>4

\* _admit_run is an abstract write.
LEMMA AdmitRefines ==
    ASSUME IInv, NEW r \in Run, Admit(r)
    PROVE  Leased!Write(r, "RUNNING")
<1>1. sequence[r] = 0
  BY DEF Admit, IInv, RowExists
<1>2. Holder' = Holder
  BY DEF Admit, leaseVars, queueVars, Holder, HolderOf
<1>3. status[r] \notin Terminal
  BY StatusFacts DEF Admit
<1> QED BY <1>1, <1>2, <1>3, StatusFacts
        DEF Admit, leaseVars, queueVars, Holder, Leased!Write, Leased!NewVersion, Leased!Terminal,
            Leased!Outcome, Terminal, IInv, TypeOK

\* _save is an abstract write.
LEMMA WriteRefines ==
    ASSUME IInv, NEW r \in Run, NEW base, NEW new, NEW o, Write(r, base, new, o)
    PROVE  Leased!Write(r, new)
<1>1. sequence[r] = base
  BY DEF Write, Save, SameVersion
<1>2. Leased!NewVersion(r, new)
  BY <1>1 DEF Write, Save, Leased!NewVersion, IInv, TypeOK
<1>3. Holder' = Holder \/ Holder' = [Holder EXCEPT ![r] = NoWorker]
  BY DEF Write, Save, Holder, HolderOf, IInv, TypeOK
<1>4. new \in Leased!Outcome => Leased!Held(r) \/ (Parent[r] # NoRun /\ Leased!Held(Parent[r]))
  BY OutcomeIsHeld DEF Leased!Outcome, Leased!Held, Leased!Executing, Executing, Holder
<1> QED BY <1>2, <1>3, <1>4
        DEF Leased!Write, Leased!Terminal, Terminal, Write, Save, Holder

\* A claim of a Run nobody holds is an abstract grant.
LEMMA ClaimRefines ==
    ASSUME IInv, NEW r \in Run, NEW w \in Worker, Claim(r, w)
    PROVE  Leased!Grant(r, w)
<1>1. status[r] \in Executing /\ Holder[r] = NoWorker
  BY HolderFacts DEF Claim, Claimable, HolderOf
<1>2. Holder' = [Holder EXCEPT ![r] = w]
  <2>1. HolderOf(r)' = w
    BY LimitAssumption DEF Claim, HolderOf, IInv, TypeOK
  <2>2. \A x \in Run : x # r => HolderOf(x)' = HolderOf(x)
    BY DEF Claim, HolderOf, IInv, TypeOK
  <2> QED BY <2>1, <2>2 DEF Holder
<1> QED BY <1>1, <1>2 DEF Claim, Leased!Grant, Leased!Executing, Executing, Holder

\* The quarantine is an abstract closing.
LEMMA ExhaustRefines ==
    ASSUME IInv, NEW r \in Run, Exhaust(r)
    PROVE  Leased!Close(r)
<1>1. status[r] \in Executing /\ Holder[r] = NoWorker
  BY HolderFacts DEF Exhaust, Claimable, HolderOf
<1>2. Holder' = Holder
  BY <1>1 DEF Exhaust, Holder, HolderOf, IInv, TypeOK
<1> QED BY <1>1, <1>2
        DEF Exhaust, Leased!Close, Leased!NewVersion, Leased!Executing, Executing, Holder

\* The requeue is an abstract reopening.
LEMMA RequeueRefines ==
    ASSUME IInv, NEW r \in Run, Requeue(r)
    PROVE  Leased!Reopen(r)
<1>1. Holder' = [Holder EXCEPT ![r] = NoWorker]
  BY DEF Requeue, Holder, HolderOf, IInv, TypeOK
<1> QED BY <1>1 DEF Requeue, Leased!Reopen, Leased!NewVersion, Holder

\* Renewals are abstract stutters and releases abstract revocations.
LEMMA LeaseRefines ==
    ASSUME IInv, NEW o \in Ownership, NEW flag \in BOOLEAN, Renew(o) \/ Release(o, flag)
    PROVE  Leased!Revoke({o.run}) \/ UNCHANGED Mapped
<1>1. CASE Renew(o)
  <2>1. Holder' = Holder
    BY <1>1, LimitAssumption DEF Renew, Authorised, Holder, HolderOf, IInv, TypeOK
  <2> QED BY <1>1, <2>1 DEF Renew, Mapped
<1>2. CASE Release(o, flag)
  <2>1. o.run \in Run
    BY DEF Ownership
  <2>2. Holder' = [r \in Run |-> IF r \in {o.run} THEN NoWorker ELSE Holder[r]]
    BY <1>2, <2>1 DEF Release, Holder, HolderOf, IInv, TypeOK
  <2> QED BY <1>2, <2>2 DEF Release, Leased!Revoke, Holder
<1> QED BY <1>1, <1>2

\* The expiry of leases is an abstract revocation.
LEMMA TickRefines ==
    ASSUME IInv, Tick
    PROVE  Leased!Revoke({r \in Run : lease'[r] = 0})
<1>1. Holder' = [r \in Run |-> IF r \in {x \in Run : lease'[x] = 0} THEN NoWorker ELSE Holder[r]]
  BY DEF Tick, Holder, HolderOf, IInv, TypeOK
<1> QED BY <1>1 DEF Tick, Leased!Revoke, Holder

\* The runs table is an exclusive, versioned Run for its clients (LeasedRunSpec):
\* writes, claims, quarantines and requeues are the abstract ones, and a release, an
\* expiry or a renewal only revokes holders.
THEOREM StoreImplementsLeasedRun == Spec => LeasedRunSpec
<1>1. Init => Leased!Init
  BY DEF Init, Leased!Init, HolderOf
<1>2. ASSUME IInv, [Next]_storeVars PROVE [Leased!Next]_Mapped
  <2>0. IInv
    BY <1>2
  <2>1. ASSUME NEW r \in Run, Admit(r) PROVE Leased!Next
    BY <2>0, <2>1, AdmitRefines DEF Leased!Next, Leased!Control
  <2>2. ASSUME NEW r \in Run, ClientSave(r) PROVE Leased!Next
    <3>1. PICK base, new, o : Write(r, base, new, o)
      BY <2>0, <2>2, ClientSaveIsWrite
    <3>2. new \in Leased!Control \cup Leased!Outcome
      BY <3>1 DEF Write, RunStatus, Executing, Parked, Terminal, Leased!Control, Leased!Outcome
    <3> QED BY <2>0, <3>1, <3>2, WriteRefines DEF Leased!Next
  <2>3. ASSUME NEW r \in Run, MarkRunnable(r) PROVE UNCHANGED Mapped
    BY <2>3 DEF MarkRunnable, Eligible, leaseVars, queueVars, Mapped, Holder, HolderOf
  <2>4. ASSUME NEW r \in Run, NEW w \in Worker, Claim(r, w) PROVE Leased!Next
    BY <2>0, <2>4, ClaimRefines DEF Leased!Next
  <2>5. ASSUME NEW r \in Run, Exhaust(r) PROVE Leased!Next
    BY <2>0, <2>5, ExhaustRefines DEF Leased!Next
  <2>6. ASSUME NEW r \in Run, Requeue(r) PROVE Leased!Next
    BY <2>0, <2>6, RequeueRefines DEF Leased!Next
  <2>7. ASSUME NEW r \in Run, ClientLease(r) PROVE Leased!Next \/ UNCHANGED Mapped
    <3>1. PICK o \in Ownership, flag \in BOOLEAN : o.run = r /\ (Renew(o) \/ Release(o, flag))
      BY <2>0, <2>7, ClientLeaseOwnership
    <3>2. Leased!Revoke({o.run}) \/ UNCHANGED Mapped
      BY <2>0, <3>1, LeaseRefines
    <3> QED BY <3>1, <3>2 DEF Leased!Next
  <2>8. CASE Tick
    BY <2>0, <2>8, TickRefines DEF Leased!Next
  <2>10. ASSUME NEW r \in Run, Expire(r) PROVE UNCHANGED Mapped
    BY <2>10 DEF Expire, leaseVars, queueVars, Mapped, Holder, HolderOf
  <2>9. CASE UNCHANGED storeVars
    BY <2>9 DEF storeVars, Mapped, Holder, HolderOf
  <2> QED BY <1>2, <2>1, <2>2, <2>3, <2>4, <2>5, <2>6, <2>7, <2>8, <2>9, <2>10 DEF Next
<1>3. Mapped = Leased!vars /\ Mapped' = Leased!vars'
  BY DEF Mapped, Holder, Leased!vars
<1>4. IInv /\ [Next]_storeVars => [Leased!Next]_Leased!vars
  BY <1>2, <1>3
<1> QED BY <1>1, <1>4, Invariance, PTL DEF Spec, LeasedRunSpec, Leased!Spec

-----------------------------------------------------------------------------
(***************************************************************************)
(* The Workers.                                                            *)
(***************************************************************************)
\* A Worker works under the ownership one of its claims returned.
OwnershipsAreClaimed ==
    \A w \in Worker : held[w] # NoOwnership =>
        /\ held[w] \in Ownership
        /\ held[w].worker = w
        /\ held[w].token \in 1 .. fence[held[w].run]
        /\ status[held[w].run] # "ABSENT"

\* A coroutine runs under an ownership of its Run, or of the Parent that waits for it.
Placed(w, r) ==
    LET pc == Pc(w, r) IN
    /\ pc # "idle" =>
          /\ held[w] # NoOwnership
          /\ \/ held[w].run = r
             \/ Parent[r] # NoRun /\ held[w].run = Parent[r] /\ Pc(w, Parent[r]) = "children"
    /\ pc = "start" => held[w].run = Parent[r]
    /\ pc \in {"scan", "children"} => Children(r) # {}

\* What its copy of the RunState says is true if nobody saved since.
Informed(w, r) ==
    LET pc == Pc(w, r) IN
    /\ Base(w, r) <= sequence[r]
    /\ pc \notin {"idle", "start"} => status[r] # "ABSENT"
    /\ pc = "start" => Base(w, r) = 0
    /\ pc \in {"claim", "step"} /\ Base(w, r) = sequence[r] => status[r] \notin Terminal

\* A Parent on its way to dispatch Children has not been made to wait.
Dispatching(w, r) ==
    /\ Pc(w, r) \in {"step", "observed", "scan", "children"}
    /\ held[w].run = r /\ Names(held[w]) /\ lease[r] > 0
    => status[r] # "WAITING_CHILD"

\* A Parent proposes its completion only when all of its plan is.
ProposesRightly(w, r) ==
    Pc(w, r) = "apply" /\ frame[w][r].next = "COMPLETE" => AllCompleted(r)

Coroutine(w, r) ==
    /\ Placed(w, r)
    /\ Informed(w, r)
    /\ Dispatching(w, r)
    /\ ProposesRightly(w, r)

\* A plan shows only Children as completed that are.
PlansTellTheTruth ==
    \A c \in Run : task[c] = "COMPLETED" => status[c] = "COMPLETED"

\* A Child starts no Child, so it never waits for one.
OnlyParentsWait == \A r \in Run : status[r] = "WAITING_CHILD" => Parent[r] = NoRun

RuntimeInv ==
    /\ IInv
    /\ RuntimeTypeOK
    /\ OwnershipsAreClaimed
    /\ \A w \in Worker, r \in Run : Coroutine(w, r)
    /\ PlansTellTheTruth
    /\ OnlyParentsWait
    /\ ParentCompletesLast

(***************************************************************************)
(* Until a Child itself is resumed it is nobody's to claim; until anything *)
(* is resumed, what executes is in the queue, or waits in nobody's hands.  *)
(***************************************************************************)
NoChildIsResumed == \A c \in resuming : Parent[c] = NoRun

NothingIsResumed == resuming = {}

ChildrenAreUnqueued ==
    /\ \A r \in Run : Parent[r] # NoRun => ~runnable[r] /\ ~failureQueued[r]
    /\ \A w \in Worker : held[w] # NoOwnership => Parent[held[w].run] = NoRun

QueuedOrWaiting(r) ==
    Parent[r] = NoRun /\ status[r] \in Executing =>
        runnable[r] \/ (status[r] = "WAITING_CHILD" /\ owner[r] = NoWorker)

\* The coroutine is about to return the RunState it read.
Rests(w, r) ==
    Pc(w, r) = "apply" /\ frame[w][r].next = "WAIT" /\ Base(w, r) = sequence[r]

Resting(w, r) ==
    /\ held[w].run = r /\ Names(held[w])
    /\ Pc(w, r) = "returned" \/ Rests(w, r)
    => status[r] # "RUNNING"

Scheduled ==
    /\ ChildrenAreUnqueued
    /\ \A r \in Run : QueuedOrWaiting(r)
    /\ \A w \in Worker, r \in Run : Resting(w, r)

(***************************************************************************)
(* Facts about constants and rows.                                         *)
(***************************************************************************)
\* A Child starts no Child (the strategies start Children with react).
LEMMA LineageFacts ==
    ASSUME NEW r \in Run
    PROVE  /\ Parent[r] # NoRun => /\ Parent[r] \in Run /\ Parent[r] # r
                                  /\ Parent[Parent[r]] = NoRun
           /\ Children(r) # {} => Parent[r] = NoRun
           /\ \A c \in Children(r) : c \in Run /\ c # r /\ Parent[c] = r
BY LineageAssumption, NullAssumption DEF Children

\* A RunOwnership is not the absence of one.
LEMMA OwnershipFacts ==
    ASSUME NEW o \in Ownership
    PROVE  o # NoOwnership /\ o.run \in Run /\ o.worker \in Worker /\ o.token \in Nat
BY NullAssumption DEF Ownership, NoOwnership

\* What a Worker may rely on, across any transaction, about a Run it reads and a claim
\* it once made (_save, _claim_run, renew_lease).
LEMMA RowFacts ==
    ASSUME IInv, [Next]_storeVars, NEW r \in Run
    PROVE  /\ Monotone(r)
           /\ status[r] \in Terminal \ {"FAILED"} => status'[r] = status[r]
           /\ \A w \in Worker : \A token \in 1 .. fence[r] : Lost(r, w, token)
<1>0. TypeOK
  BY DEF IInv
<1>1. CASE Next
  <2>1. Monotone(r) /\ Final(r)
    BY <1>1, StepIsMonotone, StepKeepsOutcomes
  <2>2. status[r] \in Terminal \ {"FAILED"} => status'[r] = status[r]
    BY <2>1 DEF Final, IInv, QuarantineConsistent
  <2> QED BY <1>1, <2>1, <2>2, StepRevivesNoClaim
<1>2. CASE UNCHANGED storeVars
  BY <1>0, <1>2 DEF storeVars, Monotone, Lost, Holds, TypeOK
<1> QED BY <1>1, <1>2

(***************************************************************************)
(* What a step may do to the rows and to the plans.                        *)
(***************************************************************************)
\* Only the holder of a Parent makes it wait, and its coroutine has then left the step.
Waits(x) ==
    status'[x] = "WAITING_CHILD" =>
        \/ status[x] = "WAITING_CHILD"
        \/ /\ Parent[x] = NoRun
           /\ \E w \in Worker : /\ held[w].run = x /\ held[w].worker = w /\ Names(held[w])
                                /\ Pc(w, x)' = "apply"

Completes(x) == status'[x] = "COMPLETED" => status[x] = "COMPLETED" \/ AllCompleted(x)

Honours(x) ==
    Parent[x] = NoRun /\ status[x] = "INTERRUPTED" =>
        \/ status'[x] \in {"INTERRUPTED", "CANCELLED"}
        \/ status'[x] = "RUNNING" /\ x \in resuming'

IsBorn(x) ==
    Parent[x] # NoRun /\ status[x] = "ABSENT" /\ status'[x] # "ABSENT" =>
        status[Parent[x]] = "RUNNING" /\ Active(Parent[x])

RowsChangeRightly ==
    /\ [Next]_storeVars
    /\ \A x \in Run : Waits(x) /\ Completes(x) /\ Honours(x) /\ IsBorn(x)

PlansChangeRightly ==
    /\ task' \in [Run -> TaskState]
    /\ \A c \in Run : /\ task[c] = "COMPLETED" => task'[c] = "COMPLETED"
                      /\ task'[c] = "COMPLETED" => "COMPLETED" \in {task[c], status[c]}

\* A save of Run x under the ownership of Worker w, as the execution code makes it.
OwnedWrite(w, x, base, new) ==
    /\ held[w] \in Ownership
    /\ held[w].run \in {x, Parent[x]}
    /\ status[x] \notin Terminal
    /\ new \in ExecutionWrite(status[x])
    /\ new = "COMPLETED" => AllCompleted(x)
    /\ new = "WAITING_CHILD" => new = status[x] \/ (Parent[x] = NoRun /\ Pc(w, x)' = "apply")
    /\ status[x] = "ABSENT" => held[w].run = Parent[x] /\ Pc(w, Parent[x]) = "children"
    /\ Save(x, base, new, held[w])

\* A step that leaves the table alone does nothing wrong to it.
LEMMA IdleRows ==
    ASSUME UNCHANGED storeVars
    PROVE  RowsChangeRightly
BY DEF storeVars, RowsChangeRightly, Waits, Completes, Honours, IsBorn

\* A step that leaves the plans alone does nothing wrong to them.
LEMMA IdlePlans ==
    ASSUME RuntimeInv, task' = task
    PROVE  PlansChangeRightly
BY DEF PlansChangeRightly, RuntimeInv, RuntimeTypeOK

\* A fenced save by the execution code is a client's save of the store, and does to its
\* row only what the execution may do (_save_checkpoint under a RunOwnership).
LEMMA OwnedWriteIsLawful ==
    ASSUME RuntimeInv, NEW w \in Worker, NEW x \in Run, NEW base, NEW new,
           OwnedWrite(w, x, base, new)
    PROVE  RowsChangeRightly
<1> DEFINE o == held[w]
<1>1. /\ o \in Ownership /\ o # NoOwnership /\ o.run \in Run /\ o.worker = w
      /\ o.token \in 1 .. fence[o.run] /\ o = [run |-> o.run, worker |-> w, token |-> o.token]
  BY OwnershipFacts DEF OwnedWrite, RuntimeInv, OwnershipsAreClaimed, Ownership
<1>2. Authorised(o) /\ sequence[x] = base
  BY <1>1 DEF OwnedWrite, Save, Fenced, SameVersion
<1>3. status[x] \in RunStatus \cup {"ABSENT"} /\ sequence[x] \in Nat
  BY DEF RuntimeInv, IInv, TypeOK
<1>4. CopyOf(x, base, status[x]) /\ status[x] \in (RunStatus \ Terminal) \cup {"ABSENT"}
  BY <1>2, <1>3 DEF OwnedWrite, CopyOf, RuntimeInv, IInv, RowExists
<1>5. ClientSave(x)
  <2>1. o.run \in {x, Parent[x]} \cap Run
    BY <1>1 DEF OwnedWrite
  <2>2. Save(x, base, new, [run |-> o.run, worker |-> w, token |-> o.token])
    BY <1>1 DEF OwnedWrite
  <2>3. \E token \in 1 .. fence[o.run] :
           Save(x, base, new, [run |-> o.run, worker |-> w, token |-> token])
    BY <1>1, <2>2
  <2>4. new \in ExecutionWrite(status[x])
    BY DEF OwnedWrite
  <2>5. base \in 0 .. sequence[x] /\ SameVersion(x, base)
    BY <1>2, <1>3 DEF SameVersion
  <2> QED BY <1>4, <2>1, <2>3, <2>4, <2>5 DEF ClientSave
<1>6. [Next]_storeVars
  BY <1>5 DEF Next
<1>7. ASSUME NEW y \in Run PROVE Waits(y) /\ Completes(y) /\ Honours(y) /\ IsBorn(y)
  <2>1. status' = [status EXCEPT ![x] = new] /\ status \in [Run -> RunStatus \cup {"ABSENT"}]
    BY DEF OwnedWrite, Save, RuntimeInv, IInv, TypeOK
  <2>2. CASE y # x
    BY <2>1, <2>2 DEF Waits, Completes, Honours, IsBorn
  <2>3. CASE y = x
    <3>1. status'[x] = new
      BY <2>1
    <3>2. Waits(x)
      <4>1. CASE Parent[x] = NoRun /\ Pc(w, x)' = "apply"
        <5>1. o.run = x
          BY <1>1, <4>1, NullAssumption DEF OwnedWrite
        <5> QED BY <1>1, <1>2, <4>1, <5>1 DEF Waits, Authorised
      <4> QED BY <3>1, <4>1 DEF OwnedWrite, Waits
    <3>3. Completes(x)
      BY <3>1 DEF OwnedWrite, Completes
    <3>4. Honours(x)
      <4>1. ASSUME Parent[x] = NoRun, status[x] = "INTERRUPTED" PROVE FALSE
        <5>1. o.run = x
          BY <1>1, <4>1, NullAssumption DEF OwnedWrite
        <5> QED BY <1>2, <4>1, <5>1 DEF Authorised, Executing
      <4> QED BY <4>1 DEF Honours
    <3>5. IsBorn(x)
      <4> SUFFICES ASSUME Parent[x] # NoRun, status[x] = "ABSENT"
                   PROVE  status[Parent[x]] = "RUNNING" /\ Active(Parent[x])
        BY DEF IsBorn
      <4>1. o.run = Parent[x] /\ Pc(w, Parent[x]) = "children" /\ Parent[x] \in Run
        BY <1>1 DEF OwnedWrite
      <4>2. status[Parent[x]] \in Executing /\ lease[Parent[x]] > 0 /\ owner[Parent[x]] = w /\ Names(o)
        BY <1>1, <1>2, <4>1 DEF Authorised, Names
      <4>3. status[Parent[x]] # "WAITING_CHILD"
        BY <4>1, <4>2 DEF RuntimeInv, Coroutine, Dispatching
      <4> QED BY <4>2, <4>3, NullAssumption DEF Executing, Active
    <3> QED BY <2>3, <3>2, <3>3, <3>4, <3>5
  <2> QED BY <2>2, <2>3
<1> QED BY <1>6, <1>7 DEF RowsChangeRightly

(***************************************************************************)
(* Coroutines that a step leaves alone stay where they may be.             *)
(***************************************************************************)
\* The beliefs of a coroutine that does not move survive any step of anybody: rows only
\* get newer, lost claims stay lost and completed tasks stay completed.
LEMMA OthersKeepTheirBeliefs ==
    ASSUME RuntimeInv, RowsChangeRightly, PlansChangeRightly, NEW v \in Worker, NEW x \in Run,
           held'[v] = held[v], frame'[v][x] = frame[v][x]
    PROVE  Informed(v, x)' /\ Dispatching(v, x)' /\ ProposesRightly(v, x)'
<1>0. /\ IInv /\ TypeOK /\ RuntimeTypeOK /\ OwnershipsAreClaimed /\ Coroutine(v, x)
      /\ [Next]_storeVars
  BY DEF RuntimeInv, IInv, RowsChangeRightly
<1>1. Monotone(x) /\ \A token \in 1 .. fence[x] : Lost(x, v, token)
  BY <1>0, RowFacts
<1>2. Pc(v, x)' = Pc(v, x) /\ Base(v, x)' = Base(v, x) /\ Base(v, x) \in Nat
  BY <1>0 DEF Pc, Base, RuntimeTypeOK, Frame
<1>3. Informed(v, x)'
  <2>1. sequence[x] \in Nat /\ sequence'[x] \in Nat
    <3>1. IInv'
      BY <1>0, StepInvariant
    <3> QED BY <1>0, <3>1 DEF IInv, TypeOK
  <2> QED BY <1>0, <1>1, <1>2, <2>1 DEF Coroutine, Informed, Monotone
<1>4. Dispatching(v, x)'
  <2> SUFFICES ASSUME Pc(v, x) \in {"step", "observed", "scan", "children"}, held[v].run = x,
                      Names(held[v])', lease'[x] > 0, status'[x] = "WAITING_CHILD"
               PROVE  FALSE
    BY <1>2 DEF Dispatching, Names
  <2>1. held[v] \in Ownership /\ held[v].worker = v /\ held[v].token \in 1 .. fence[x]
    BY <1>0, OwnershipFacts, NullAssumption DEF OwnershipsAreClaimed, NoOwnership
  <2>2. Holds(x, v, held[v].token)'
    BY <2>1 DEF Holds, Names
  <2>3. Names(held[v]) /\ lease[x] > 0
    BY <1>1, <2>1, <2>2 DEF Lost, Holds, Names
  <2>4. status[x] # "WAITING_CHILD"
    BY <1>0, <2>3 DEF Coroutine, Dispatching
  <2>5. PICK w \in Worker : /\ held[w].run = x /\ held[w].worker = w /\ Names(held[w])
                            /\ Pc(w, x)' = "apply"
    BY <2>4 DEF RowsChangeRightly, Waits
  <2>6. w = v
    BY <2>1, <2>3, <2>5 DEF Names
  <2> QED BY <1>2, <2>5, <2>6
<1>5. ProposesRightly(v, x)'
  BY <1>0, <1>2 DEF Coroutine, ProposesRightly, AllCompleted, Children, PlansChangeRightly, Pc
<1> QED BY <1>3, <1>4, <1>5

\* Rows and plans keep agreeing: a plan shows completed Children only, and a Run
\* completes after its Children; and only Parents wait.
LEMMA PlansStayTrue ==
    ASSUME RuntimeInv, RowsChangeRightly, PlansChangeRightly
    PROVE  PlansTellTheTruth' /\ OnlyParentsWait' /\ ParentCompletesLast'
<1>0. IInv /\ [Next]_storeVars
  BY DEF RuntimeInv, RowsChangeRightly
<1>1. \A c \in Run : status[c] = "COMPLETED" => status'[c] = "COMPLETED"
  BY <1>0, RowFacts DEF Terminal
<1>2. PlansTellTheTruth'
  BY <1>1 DEF RuntimeInv, PlansTellTheTruth, PlansChangeRightly
<1>3. ASSUME NEW r \in Run, status'[r] = "COMPLETED", NEW c \in Children(r)
      PROVE  status'[c] = "COMPLETED"
  <2>1. c \in Run
    BY DEF Children
  <2>2. status[r] = "COMPLETED" \/ AllCompleted(r)
    BY <1>3 DEF RowsChangeRightly, Completes
  <2>3. status[c] = "COMPLETED"
    BY <2>1, <2>2 DEF RuntimeInv, ParentCompletesLast, AllCompleted, PlansTellTheTruth
  <2> QED BY <1>1, <2>1, <2>3
<1>4. OnlyParentsWait'
  BY DEF RuntimeInv, OnlyParentsWait, RowsChangeRightly, Waits
<1> QED BY <1>2, <1>3, <1>4 DEF ParentCompletesLast, Children

(***************************************************************************)
(* What one step of a coroutine may do.                                    *)
(***************************************************************************)
\* The coroutine of w for r arrives at f believing only what is so.
Arrives(w, r, f) ==
    /\ f \in Frame
    /\ f.pc # "start"
    /\ f.pc \in {"scan", "children"} => Children(r) # {}
    /\ Pc(w, r) = "children" => \A c \in Children(r) : Pc(w, c) = "idle"
    /\ f.base <= sequence'[r]
    /\ f.pc # "idle" => status'[r] # "ABSENT"
    /\ f.pc \in {"claim", "step"} /\ f.base = sequence'[r] => status'[r] \notin Terminal
    /\ /\ f.pc \in {"step", "observed", "scan", "children"}
       /\ held[w].run = r /\ Names(held[w])' /\ lease'[r] > 0
       => status'[r] # "WAITING_CHILD"
    /\ f.pc = "apply" /\ f.next = "COMPLETE" => \A c \in Children(r) : task'[c] = "COMPLETED"

\* What resume returns is not RUNNING, unless it was about to return something else.
Leaves(w, r, f) ==
    \/ f.pc = "returned"
    \/ f.pc = "apply" /\ f.next = "WAIT" /\ f.base = sequence'[r]
    => status'[r] # "RUNNING" \/ (Rests(w, r) /\ status'[r] = status[r])

WritesRightly(w, r) ==
    \/ UNCHANGED storeVars
    \/ \E x \in {r, Parent[r]} \cap Run : \E base, new : OwnedWrite(w, x, base, new)

Advance(w, r) ==
    \E f \in Frame :
        /\ frame' = [frame EXCEPT ![w][r] = f]
        /\ held' = held
        /\ WritesRightly(w, r)
        /\ PlansChangeRightly
        /\ turn' \in [Run -> 0 .. MaxTurns]
        /\ Arrives(w, r, f)
        /\ Leaves(w, r, f)

\* The parts of RuntimeInv that the coroutines can disturb.
Settled ==
    /\ IInv
    /\ frame \in [Worker -> [Run -> Frame]]
    /\ held \in [Worker -> Ownership \cup {NoOwnership}]
    /\ OwnershipsAreClaimed
    /\ \A w \in Worker, r \in Run : Coroutine(w, r)
    /\ PlansTellTheTruth
    /\ OnlyParentsWait
    /\ ParentCompletesLast

\* Ownerships stay those of past claims: fencing tokens only grow (_claim_run).
LEMMA OwnershipsStayClaimed ==
    ASSUME RuntimeInv, [Next]_storeVars, NEW w \in Worker, held'[w] = held[w], held[w] # NoOwnership
    PROVE  /\ held'[w] \in Ownership
           /\ held'[w].worker = w
           /\ held'[w].token \in 1 .. fence'[held'[w].run]
           /\ status'[held'[w].run] # "ABSENT"
<1>1. /\ held[w] \in Ownership /\ held[w].run \in Run /\ held[w].worker = w
      /\ held[w].token \in 1 .. fence[held[w].run] /\ status[held[w].run] # "ABSENT"
  BY OwnershipFacts DEF RuntimeInv, OwnershipsAreClaimed
<1>2. IInv /\ IInv'
  BY StepInvariant DEF RuntimeInv
<1>3. Monotone(held[w].run)
  BY <1>1, <1>2, RowFacts
<1> QED BY <1>1, <1>2, <1>3 DEF Monotone, IInv, TypeOK

\* A step of one coroutine that arrives rightly keeps the invariant.
LEMMA AdvancePreserves ==
    ASSUME RuntimeInv, NEW w \in Worker, NEW r \in Run, Pc(w, r) # "idle", Advance(w, r)
    PROVE  Settled' /\ RowsChangeRightly
<1>1. PICK f \in Frame : /\ frame' = [frame EXCEPT ![w][r] = f] /\ held' = held
                         /\ WritesRightly(w, r) /\ PlansChangeRightly
                         /\ Arrives(w, r, f)
  BY DEF Advance
<1>2. RowsChangeRightly
  BY <1>1, OwnedWriteIsLawful, IdleRows DEF WritesRightly
<1>3. [Next]_storeVars /\ IInv /\ IInv'
  BY <1>2, StepInvariant DEF RowsChangeRightly, RuntimeInv
<1>4. /\ frame \in [Worker -> [Run -> Frame]] /\ frame' \in [Worker -> [Run -> Frame]]
      /\ held \in [Worker -> Ownership \cup {NoOwnership}]
      /\ held' \in [Worker -> Ownership \cup {NoOwnership}]
      /\ frame'[w][r] = f
      /\ \A v \in Worker, x \in Run : v # w \/ x # r => frame'[v][x] = frame[v][x]
  BY <1>1 DEF RuntimeInv, RuntimeTypeOK
<1>5. OwnershipsAreClaimed'
  BY <1>1, <1>3, OwnershipsStayClaimed DEF OwnershipsAreClaimed
<1>6. ASSUME NEW v \in Worker, NEW x \in Run PROVE Coroutine(v, x)'
  <2>0. Coroutine(v, x) /\ Coroutine(w, r)
    BY DEF RuntimeInv
  <2>1. Placed(v, x)'
    <3>1. CASE v = w /\ x = r
      <4>1. Parent[r] # NoRun => frame'[w][Parent[r]] = frame[w][Parent[r]]
        BY <1>4, LineageFacts
      <4> QED BY <1>1, <1>4, <2>0, <3>1, <4>1 DEF Coroutine, Placed, Pc, Arrives
    <3>2. CASE v # w \/ x # r
      <4>1. frame'[v][x] = frame[v][x]
        BY <1>4, <3>2
      <4>2. ASSUME Parent[x] # NoRun, Pc(v, x) # "idle", Pc(v, Parent[x]) = "children"
            PROVE  Pc(v, Parent[x])' = "children"
        <5>1. Parent[x] \in Run /\ x \in Children(Parent[x])
          BY <4>2, LineageFacts DEF Children
        <5>2. CASE v = w /\ Parent[x] = r
          BY <1>1, <4>2, <5>1, <5>2 DEF Arrives
        <5>3. CASE v # w \/ Parent[x] # r
          BY <1>4, <4>2, <5>1, <5>3 DEF Pc
        <5> QED BY <5>2, <5>3
      <4> QED BY <1>1, <2>0, <4>1, <4>2 DEF Coroutine, Placed, Pc
    <3> QED BY <3>1, <3>2
  <2>2. Informed(v, x)' /\ Dispatching(v, x)' /\ ProposesRightly(v, x)'
    <3>1. CASE v = w /\ x = r
      BY <1>1, <1>4, <3>1
      DEF Arrives, Informed, Dispatching, ProposesRightly, AllCompleted, Children, Pc, Base
    <3>2. CASE v # w \/ x # r
      BY <1>1, <1>2, <1>4, <3>2, OthersKeepTheirBeliefs
    <3> QED BY <3>1, <3>2
  <2> QED BY <2>1, <2>2 DEF Coroutine
<1>7. PlansTellTheTruth' /\ OnlyParentsWait' /\ ParentCompletesLast'
  BY <1>1, <1>2, PlansStayTrue
<1> QED BY <1>2, <1>3, <1>4, <1>5, <1>6, <1>7 DEF Settled

\* A Worker that forgets its Run, while the row changes rightly, keeps the invariant.
LEMMA DropPreserves ==
    ASSUME RuntimeInv, NEW w \in Worker, Drop(w), RowsChangeRightly, PlansChangeRightly
    PROVE  Settled'
<1>1. [Next]_storeVars /\ IInv /\ IInv'
  BY StepInvariant DEF RowsChangeRightly, RuntimeInv
<1>2. Idle \in Frame
  BY DEF Idle, At, Frame
<1>3. /\ frame' \in [Worker -> [Run -> Frame]]
      /\ held' \in [Worker -> Ownership \cup {NoOwnership}]
      /\ held'[w] = NoOwnership /\ \A x \in Run : frame'[w][x] = Idle
      /\ \A v \in Worker : v # w => held'[v] = held[v] /\ frame'[v] = frame[v]
  BY <1>2 DEF Drop, RuntimeInv, RuntimeTypeOK
<1>4. OwnershipsAreClaimed'
  <2>1. \A v \in Worker : held'[v] # NoOwnership => held'[v] = held[v] /\ held[v] # NoOwnership
    BY <1>3
  <2> QED BY <1>1, <2>1, OwnershipsStayClaimed DEF OwnershipsAreClaimed
<1>5. ASSUME NEW v \in Worker, NEW x \in Run PROVE Coroutine(v, x)'
  <2>1. CASE v = w
    <3>1. frame'[v][x].pc = "idle" /\ frame'[v][x].base = 0 /\ sequence'[x] >= 0
      BY <1>1, <1>3, <2>1 DEF Idle, At, IInv, TypeOK
    <3> QED BY <3>1 DEF Coroutine, Placed, Informed, Dispatching, ProposesRightly, Pc, Base
  <2>2. CASE v # w
    <3>1. Informed(v, x)' /\ Dispatching(v, x)' /\ ProposesRightly(v, x)'
      BY <1>3, <2>2, OthersKeepTheirBeliefs
    <3>2. Placed(v, x)'
      BY <1>3, <2>2 DEF RuntimeInv, Coroutine, Placed, Pc
    <3> QED BY <3>1, <3>2 DEF Coroutine
  <2> QED BY <2>1, <2>2
<1>6. PlansTellTheTruth' /\ OnlyParentsWait' /\ ParentCompletesLast'
  BY PlansStayTrue
<1> QED BY <1>1, <1>3, <1>4, <1>5, <1>6 DEF Settled

\* A step of somebody else keeps what every coroutine relies on.
LEMMA AwayPreserves ==
    ASSUME RuntimeInv, UNCHANGED workVars, RowsChangeRightly, PlansChangeRightly
    PROVE  Settled'
<1>1. [Next]_storeVars /\ IInv /\ IInv'
  BY StepInvariant DEF RowsChangeRightly, RuntimeInv
<1>2. /\ held' = held /\ frame' = frame
      /\ frame' \in [Worker -> [Run -> Frame]]
      /\ held' \in [Worker -> Ownership \cup {NoOwnership}]
  BY DEF workVars, RuntimeInv, RuntimeTypeOK
<1>3. OwnershipsAreClaimed'
  BY <1>1, <1>2, OwnershipsStayClaimed DEF OwnershipsAreClaimed
<1>4. ASSUME NEW v \in Worker, NEW x \in Run PROVE Coroutine(v, x)'
  <2>1. Informed(v, x)' /\ Dispatching(v, x)' /\ ProposesRightly(v, x)'
    BY <1>2, OthersKeepTheirBeliefs
  <2>2. Placed(v, x)'
    BY <1>2 DEF RuntimeInv, Coroutine, Placed, Pc
  <2> QED BY <2>1, <2>2 DEF Coroutine
<1>5. PlansTellTheTruth' /\ OnlyParentsWait' /\ ParentCompletesLast'
  BY PlansStayTrue
<1> QED BY <1>1, <1>2, <1>3, <1>4, <1>5 DEF Settled

(***************************************************************************)
(* Every operation of a coroutine is such a step, or ends run_once.        *)
(***************************************************************************)
\* What the invariant says of a coroutine that runs.
LEMMA CoroutineFacts ==
    ASSUME RuntimeInv, NEW w \in Worker, NEW r \in Run, Pc(w, r) # "idle"
    PROVE  /\ held[w] \in Ownership /\ held[w] # NoOwnership /\ held[w].worker = w
           /\ held[w].run \in {r, Parent[r]} \cap Run
           /\ Base(w, r) \in Nat /\ sequence[r] \in Nat /\ Base(w, r) <= sequence[r]
           /\ status[r] \in RunStatus \cup {"ABSENT"}
           /\ Pc(w, r) # "start" => status[r] \in RunStatus
           /\ Pc(w, r) \in {"claim", "step"} /\ Base(w, r) = sequence[r] => status[r] \notin Terminal
           /\ Coroutine(w, r)
<1>1. Coroutine(w, r) /\ TypeOK
  BY DEF RuntimeInv, IInv
<1>2. held[w] # NoOwnership /\ held[w].run \in {r, Parent[r]}
  BY <1>1 DEF Coroutine, Placed
<1>3. held[w] \in Ownership /\ held[w].worker = w
  BY <1>2 DEF RuntimeInv, OwnershipsAreClaimed
<1>4. Base(w, r) \in Nat
  BY DEF RuntimeInv, RuntimeTypeOK, Frame, Base
<1> QED BY <1>1, <1>2, <1>3, <1>4, OwnershipFacts DEF Coroutine, Informed, TypeOK

\* Places in the code are frames.
LEMMA FrameFacts ==
    ASSUME NEW base \in Nat,
           NEW pc \in {"idle", "start", "load", "claim", "preflight", "expired", "step", "observed",
                       "scan", "children", "apply", "returned"},
           NEW next \in {"NONE", "CONTINUE", "COMPLETE", "WAIT"}
    PROVE  /\ At(pc, base, next) \in Frame
           /\ At(pc, base, next).pc = pc /\ At(pc, base, next).base = base
           /\ At(pc, base, next).next = next
BY DEF At, Frame

\* A coroutine that reads and goes on.
LEMMA MoveAdvances ==
    ASSUME RuntimeInv, NEW w \in Worker, NEW r \in Run, NEW f \in Frame,
           Move(w, r, f), Arrives(w, r, f), Leaves(w, r, f)
    PROVE  Advance(w, r)
BY IdlePlans DEF Move, Goto, Advance, WritesRightly, RuntimeInv, RuntimeTypeOK

\* resume returns a RunState that is not RUNNING, or the one it rested on.
LEMMA ReturnAdvances ==
    ASSUME RuntimeInv, NEW w \in Worker, NEW r \in Run, Return(w, r),
           Pc(w, r) \notin {"idle", "start", "children"} \/ (Pc(w, r) = "start" /\ status[r] # "ABSENT"),
           status[r] # "RUNNING" \/ Rests(w, r)
    PROVE  Advance(w, r)
<1> DEFINE f == At("returned", 0, "NONE")
<1>1. f \in Frame /\ f.pc = "returned" /\ f.base = 0
  BY FrameFacts
<1>2. Move(w, r, f) /\ status' = status /\ sequence' = sequence
  BY DEF Return, Move, storeVars
<1>3. status[r] # "ABSENT" /\ sequence[r] \in Nat
  BY CoroutineFacts, StatusFacts
<1>4. Arrives(w, r, f) /\ Leaves(w, r, f)
  BY <1>1, <1>2, <1>3 DEF Arrives, Leaves
<1> QED BY <1>1, <1>2, <1>4, MoveAdvances

\* A fenced checkpoint of the coroutine's own Run.
LEMMA CommitAdvances ==
    ASSUME RuntimeInv, NEW w \in Worker, NEW r \in Run, NEW f \in Frame, NEW new,
           Pc(w, r) # "idle", Commit(w, r, new, f), OwnedWrite(w, r, Base(w, r), new),
           PlansChangeRightly, turn' \in [Run -> 0 .. MaxTurns], Arrives(w, r, f), Leaves(w, r, f)
    PROVE  Advance(w, r)
<1>1. WritesRightly(w, r)
  BY DEF WritesRightly
<1>2. frame' = [frame EXCEPT ![w][r] = f] /\ held' = held
  BY DEF Commit, Goto
<1> QED BY <1>1, <1>2 DEF Advance

\* What a checkpoint of the coroutine's copy tells and does (_save).
LEMMA CommitFacts ==
    ASSUME RuntimeInv, NEW w \in Worker, NEW r \in Run, NEW f \in Frame, NEW new \in RunStatus,
           Pc(w, r) # "idle", Commit(w, r, new, f)
    PROVE  /\ Save(r, Base(w, r), new, held[w]) /\ Authorised(held[w])
           /\ sequence[r] = Base(w, r) /\ sequence'[r] = Base(w, r) + 1 /\ status'[r] = new
           /\ Pc(w, r)' = f.pc
<1>1. Save(r, Base(w, r), new, held[w]) /\ Fenced(held[w])
  BY DEF Commit, Save
<1>2. Authorised(held[w])
  BY <1>1, CoroutineFacts DEF Fenced
<1>3. status'[r] = new /\ sequence'[r] = Base(w, r) + 1
  BY <1>1 DEF Save, RuntimeInv, IInv, TypeOK
<1>4. Pc(w, r)' = f.pc
  BY DEF Commit, Goto, Pc, RuntimeInv, RuntimeTypeOK
<1> QED BY <1>1, <1>2, <1>3, <1>4 DEF Save, SameVersion

\* An execution below a cancelled Parent cancels its own Run.
LEMMA ReconcileCancelledAdvances ==
    ASSUME RuntimeInv, NEW w \in Worker, NEW r \in Run, Pc(w, r) \in {"load", "preflight"},
           ReconcileCancelled(w, r)
    PROVE  Advance(w, r) \/ Raise(w)
<1> DEFINE f == At("returned", 0, "NONE")
<1>1. CASE /\ Save(r, sequence[r], "CANCELLED", held[w])
           /\ Goto(w, r, f)
           /\ UNCHANGED <<held, turn, task>>
  <2>1. f \in Frame /\ f.pc = "returned" /\ f.base = 0
    BY FrameFacts
  <2>2. OwnedWrite(w, r, sequence[r], "CANCELLED")
    BY <1>1, CoroutineFacts, StatusFacts
    DEF OwnedWrite, ReconcileCancelled, ExecutionWrite, RunStatus, Terminal, Parked
  <2>3. status'[r] = "CANCELLED" /\ sequence'[r] = sequence[r] + 1 /\ sequence[r] \in Nat
    BY <1>1, CoroutineFacts DEF Save, RuntimeInv, IInv, TypeOK
  <2>4. Arrives(w, r, f) /\ Leaves(w, r, f)
    BY <2>1, <2>3 DEF Arrives, Leaves
  <2>5. PlansChangeRightly /\ turn' \in [Run -> 0 .. MaxTurns]
    BY <1>1, IdlePlans DEF RuntimeInv, RuntimeTypeOK
  <2> QED BY <1>1, <2>1, <2>2, <2>4, <2>5 DEF Advance, WritesRightly, Goto
<1> QED BY <1>1 DEF ReconcileCancelled

\* resume reads the RunState (_resume_inner).
LEMMA LoadAdvances ==
    ASSUME RuntimeInv, NEW w \in Worker, NEW r \in Run, Load(w, r)
    PROVE  Advance(w, r) \/ Raise(w)
<1>0. Pc(w, r) = "load"
  BY DEF Load
<1>1. CASE ReconcileCancelled(w, r)
  BY <1>0, <1>1, ReconcileCancelledAdvances
<1>2. CASE status[r] = "CANCELLED" /\ Return(w, r)
  BY <1>0, <1>2, ReturnAdvances
<1>3. CASE /\ status[r] \in Executing \cup {"INTERRUPTED"}
           /\ Move(w, r, At("claim", sequence[r], "NONE"))
  <2> DEFINE f == At("claim", sequence[r], "NONE")
  <2>1. sequence[r] \in Nat
    BY <1>0, CoroutineFacts
  <2>2. f \in Frame /\ f.pc = "claim" /\ f.base = sequence[r]
    BY <2>1, FrameFacts
  <2>3. status' = status /\ sequence' = sequence
    BY <1>3 DEF Move, storeVars
  <2>4. Arrives(w, r, f) /\ Leaves(w, r, f)
    BY <1>0, <1>3, <2>1, <2>2, <2>3, StatusFacts DEF Arrives, Leaves, Terminal
  <2> QED BY <1>3, <2>2, <2>4, MoveAdvances
<1> QED BY <1>1, <1>2, <1>3 DEF Load

\* A refused checkpoint ends run_once, or returns the cancelled Run.
LEMMA RefusedAdvances ==
    ASSUME RuntimeInv, NEW w \in Worker, NEW r \in Run, Pc(w, r) \notin {"idle", "start", "children"},
           Refused(w, r)
    PROVE  Advance(w, r) \/ Raise(w)
<1>1. CASE status[r] = "CANCELLED" /\ Return(w, r)
  BY <1>1, ReturnAdvances
<1> QED BY <1>1 DEF Refused

\* _resume_inner's "resume.claim" checkpoint.
LEMMA ResumeClaimAdvances ==
    ASSUME RuntimeInv, NEW w \in Worker, NEW r \in Run, ResumeClaim(w, r)
    PROVE  Advance(w, r) \/ Raise(w)
<1>0. Pc(w, r) = "claim"
  BY DEF ResumeClaim
<1> DEFINE f == At("preflight", 0, "NONE")
<1>1. CASE Commit(w, r, "RUNNING", f) /\ UNCHANGED <<turn, task>>
  <2>1. f \in Frame /\ f.pc = "preflight" /\ f.base = 0
    BY FrameFacts
  <2>2. /\ Save(r, Base(w, r), "RUNNING", held[w]) /\ sequence[r] = Base(w, r)
        /\ status'[r] = "RUNNING" /\ sequence'[r] = Base(w, r) + 1
    BY <1>0, <1>1, <2>1, CommitFacts, StatusFacts
  <2>3. OwnedWrite(w, r, Base(w, r), "RUNNING")
    BY <1>0, <2>2, CoroutineFacts, StatusFacts
    DEF OwnedWrite, ExecutionWrite, RunStatus, Executing
  <2>4. Arrives(w, r, f) /\ Leaves(w, r, f)
    BY <1>0, <2>1, <2>2, CoroutineFacts DEF Arrives, Leaves
  <2>5. PlansChangeRightly /\ turn' \in [Run -> 0 .. MaxTurns]
    BY <1>1, IdlePlans DEF RuntimeInv, RuntimeTypeOK
  <2> QED BY <1>0, <1>1, <2>1, <2>3, <2>4, <2>5, CommitAdvances
<1> QED BY <1>0, <1>1, RefusedAdvances DEF ResumeClaim

\* _preflight_step
LEMMA PreflightAdvances ==
    ASSUME RuntimeInv, NEW w \in Worker, NEW r \in Run, Preflight(w, r)
    PROVE  Advance(w, r) \/ Raise(w)
<1>0. Pc(w, r) = "preflight"
  BY DEF Preflight
<1>1. CASE ReconcileCancelled(w, r)
  BY <1>0, <1>1, ReconcileCancelledAdvances
<1>2. CASE status[r] # "RUNNING" /\ Return(w, r)
  BY <1>0, <1>2, ReturnAdvances
<1>3. CASE /\ status[r] = "RUNNING"
           /\ Move(w, r, At(IF OutOfTime(r) THEN "expired" ELSE "step", sequence[r], "NONE"))
  <2> DEFINE f == At(IF OutOfTime(r) THEN "expired" ELSE "step", sequence[r], "NONE")
  <2>1. sequence[r] \in Nat
    BY <1>0, CoroutineFacts
  <2>2. f \in Frame /\ f.pc \in {"expired", "step"} /\ f.base = sequence[r]
    BY <2>1, FrameFacts
  <2>3. status' = status /\ sequence' = sequence
    BY <1>3 DEF Move, storeVars
  <2>4. Arrives(w, r, f) /\ Leaves(w, r, f)
    BY <1>0, <1>3, <2>1, <2>2, <2>3, StatusFacts DEF Arrives, Leaves, Terminal
  <2> QED BY <1>3, <2>2, <2>4, MoveAdvances
<1> QED BY <1>1, <1>2, <1>3 DEF Preflight

\* A ReAct step saves its boundary and proposes what comes next (_react_step).
LEMMA ReactStepAdvances ==
    ASSUME RuntimeInv, NEW w \in Worker, NEW r \in Run, ReactStep(w, r)
    PROVE  Advance(w, r) \/ Raise(w)
<1>0. Pc(w, r) = "step" /\ Children(r) = {} /\ Base(w, r) \in Nat
  BY CoroutineFacts DEF ReactStep
<1>1. ASSUME NEW next \in {"CONTINUE", "COMPLETE", "WAIT"}, NEW new \in {"RUNNING", "WAITING_APPROVAL"},
             new = "RUNNING" => next # "WAIT",
             Commit(w, r, new, At("apply", Base(w, r) + 1, next)),
             task' = task, turn' \in [Run -> 0 .. MaxTurns]
      PROVE  Advance(w, r)
  <2> DEFINE f == At("apply", Base(w, r) + 1, next)
  <2>1. f \in Frame /\ f.pc = "apply" /\ f.base = Base(w, r) + 1 /\ f.next = next
    BY <1>0, FrameFacts
  <2>2. new \in RunStatus
    BY DEF RunStatus, Executing, Parked
  <2>3. /\ Save(r, Base(w, r), new, held[w]) /\ sequence[r] = Base(w, r)
        /\ status'[r] = new /\ sequence'[r] = Base(w, r) + 1
    BY <1>0, <1>1, <2>1, <2>2, CommitFacts
  <2>4. OwnedWrite(w, r, Base(w, r), new)
    BY <1>0, <2>2, <2>3, CoroutineFacts, StatusFacts DEF OwnedWrite, ExecutionWrite
  <2>5. Arrives(w, r, f)
    BY <1>0, <2>1, <2>3 DEF Arrives
  <2>6. Leaves(w, r, f)
    BY <1>1, <2>1, <2>3 DEF Leaves
  <2>7. PlansChangeRightly
    BY <1>1, IdlePlans
  <2> QED BY <1>0, <1>1, <2>1, <2>4, <2>5, <2>6, <2>7, CommitAdvances
<1>2. turn \in [Run -> 0 .. MaxTurns]
  BY DEF RuntimeInv, RuntimeTypeOK
<1>3. ASSUME NEW next \in {"CONTINUE", "COMPLETE"}, TurnsLeft(r),
             Commit(w, r, "RUNNING", At("apply", Base(w, r) + 1, next)),
             turn' = [turn EXCEPT ![r] = @ + 1], UNCHANGED task
      PROVE  Advance(w, r)
  <2>1. turn' \in [Run -> 0 .. MaxTurns]
    BY <1>2, <1>3, BoundAssumption DEF TurnsLeft
  <2> QED BY <1>1, <1>3, <2>1
<1>4. CASE Commit(w, r, "WAITING_APPROVAL", At("apply", Base(w, r) + 1, "WAIT")) /\ UNCHANGED <<turn, task>>
  BY <1>1, <1>2, <1>4
<1>5. CASE Move(w, r, At("apply", Base(w, r), "COMPLETE"))
  <2> DEFINE f == At("apply", Base(w, r), "COMPLETE")
  <2>1. f \in Frame /\ f.pc = "apply" /\ f.base = Base(w, r) /\ f.next = "COMPLETE"
    BY <1>0, FrameFacts
  <2>2. Arrives(w, r, f) /\ Leaves(w, r, f)
    BY <1>0, <1>5, <2>1, CoroutineFacts, StatusFacts DEF Arrives, Leaves, Move, storeVars
  <2> QED BY <1>5, <2>1, <2>2, MoveAdvances
<1> QED BY <1>0, <1>3, <1>4, <1>5, RefusedAdvances DEF ReactStep

\* _fail inside a step
LEMMA FailNowAdvances ==
    ASSUME RuntimeInv, NEW w \in Worker, NEW r \in Run, Pc(w, r) \notin {"idle", "start", "children"},
           NEW then \in Frame, then.pc \in {"apply", "returned"}, then.next # "COMPLETE",
           then.base <= Base(w, r) + 1, FailNow(w, r, then)
    PROVE  Advance(w, r) \/ Raise(w)
<1> DEFINE commit == Commit(w, r, "FAILED", then) /\ UNCHANGED <<turn, task>>
<1>1. CASE commit /\ status[r] \notin Terminal
  <2>1. /\ Save(r, Base(w, r), "FAILED", held[w]) /\ sequence[r] = Base(w, r)
        /\ status'[r] = "FAILED" /\ sequence'[r] = Base(w, r) + 1
    BY <1>1, CommitFacts, StatusFacts
  <2>2. OwnedWrite(w, r, Base(w, r), "FAILED")
    BY <1>1, <2>1, CoroutineFacts, StatusFacts
    DEF OwnedWrite, ExecutionWrite, RunStatus, Executing, Parked, Terminal
  <2>3. Arrives(w, r, then) /\ Leaves(w, r, then)
    BY <2>1, CoroutineFacts DEF Arrives, Leaves
  <2>4. PlansChangeRightly /\ turn' \in [Run -> 0 .. MaxTurns]
    BY <1>1, IdlePlans DEF RuntimeInv, RuntimeTypeOK
  <2> QED BY <1>1, <2>2, <2>3, <2>4, CommitAdvances
<1>2. status[r] \in {"CANCELLED", "INTERRUPTED"} \cup Terminal => status[r] # "RUNNING"
  BY DEF Terminal
<1>3. CASE Return(w, r) /\ status[r] # "RUNNING"
  BY <1>3, ReturnAdvances
<1> QED BY <1>1, <1>2, <1>3 DEF FailNow, Applying

\* ensure_wall_time failed in _preflight_step.
LEMMA FailExpiredAdvances ==
    ASSUME RuntimeInv, NEW w \in Worker, NEW r \in Run, FailExpired(w, r)
    PROVE  Advance(w, r) \/ Raise(w)
<1>1. Pc(w, r) = "expired" /\ Base(w, r) \in Nat /\ FailNow(w, r, At("returned", 0, "NONE"))
  BY CoroutineFacts DEF FailExpired
<1> QED BY <1>1, FrameFacts, FailNowAdvances

\* A step that fails the Run (FailInStep).
LEMMA FailInStepAdvances ==
    ASSUME RuntimeInv, NEW w \in Worker, NEW r \in Run, Pc(w, r) \in {"step", "scan"},
           FailInStep(w, r)
    PROVE  Advance(w, r) \/ Raise(w)
<1> DEFINE f == At("apply", Base(w, r) + 1, "WAIT")
<1>1. Base(w, r) \in Nat
  BY CoroutineFacts
<1>2. f \in Frame /\ f.pc = "apply" /\ f.base = Base(w, r) + 1 /\ f.next = "WAIT"
  BY <1>1, FrameFacts
<1>3. FailNow(w, r, f)
  BY DEF FailInStep
<1> QED BY <1>1, <1>2, <1>3, FailNowAdvances

\* _apply_next_action: only a Run whose plan is completed becomes COMPLETED.
LEMMA ApplyStepAdvances ==
    ASSUME RuntimeInv, NEW w \in Worker, NEW r \in Run, ApplyStep(w, r)
    PROVE  Advance(w, r) \/ Raise(w)
<1>0. Pc(w, r) = "apply"
  BY DEF ApplyStep
<1> DEFINE f == At("preflight", 0, "NONE")
           g == At("returned", 0, "NONE")
<1>1. /\ f \in Frame /\ f.pc = "preflight" /\ f.base = 0
      /\ g \in Frame /\ g.pc = "returned" /\ g.base = 0
  BY FrameFacts
<1>2. CASE Move(w, r, f)
  <2>1. Arrives(w, r, f) /\ Leaves(w, r, f)
    BY <1>0, <1>1, <1>2, CoroutineFacts, StatusFacts DEF Arrives, Leaves, Move, storeVars
  <2> QED BY <1>1, <1>2, <2>1, MoveAdvances
<1>3. CASE frame[w][r].next = "WAIT" /\ sequence[r] = Base(w, r) /\ Return(w, r)
  <2>1. Rests(w, r)
    BY <1>0, <1>3 DEF Rests
  <2> QED BY <1>0, <1>3, <2>1, ReturnAdvances
<1>4. CASE /\ frame[w][r].next = "COMPLETE" /\ status[r] \notin Terminal
           /\ Commit(w, r, "COMPLETED", g) /\ UNCHANGED <<turn, task>>
  <2>1. AllCompleted(r)
    BY <1>0, <1>4 DEF RuntimeInv, Coroutine, ProposesRightly
  <2>2. /\ Save(r, Base(w, r), "COMPLETED", held[w]) /\ sequence[r] = Base(w, r)
        /\ status'[r] = "COMPLETED" /\ sequence'[r] = Base(w, r) + 1
    BY <1>0, <1>1, <1>4, CommitFacts DEF RunStatus, Terminal
  <2>3. OwnedWrite(w, r, Base(w, r), "COMPLETED")
    BY <1>0, <1>4, <2>1, <2>2, CoroutineFacts, StatusFacts
    DEF OwnedWrite, ExecutionWrite, RunStatus, Executing, Parked, Terminal
  <2>4. Arrives(w, r, g) /\ Leaves(w, r, g)
    BY <1>0, <1>1, <2>2, CoroutineFacts DEF Arrives, Leaves
  <2>5. PlansChangeRightly /\ turn' \in [Run -> 0 .. MaxTurns]
    BY <1>4, IdlePlans DEF RuntimeInv, RuntimeTypeOK
  <2> QED BY <1>0, <1>1, <1>4, <2>3, <2>4, <2>5, CommitAdvances
<1>5. CASE Return(w, r) /\ status[r] # "RUNNING"
  BY <1>0, <1>5, ReturnAdvances
<1>6. status[r] \in {"CANCELLED", "INTERRUPTED"} \cup Terminal => status[r] # "RUNNING"
  BY DEF Terminal
<1>7. frame[w][r].next \in {"NONE", "CONTINUE", "COMPLETE", "WAIT"}
  BY DEF RuntimeInv, RuntimeTypeOK, Frame
<1> QED BY <1>2, <1>3, <1>4, <1>5, <1>6, <1>7 DEF ApplyStep, Applying

(***************************************************************************)
(* The orchestrating Parent.                                               *)
(***************************************************************************)
\* _observe_child saves the Parent with the status it has, and copies the Child's into
\* the plan.
LEMMA ObserveFacts ==
    ASSUME RuntimeInv, NEW w \in Worker, NEW c \in Run, Parent[c] \in Run,
           held[w] \in Ownership, held[w].run = Parent[c], ObserveChild(w, c)
    PROVE  /\ OwnedWrite(w, Parent[c], sequence[Parent[c]], status[Parent[c]])
           /\ status' = status
           /\ sequence' = [sequence EXCEPT ![Parent[c]] = @ + 1]
           /\ PlansChangeRightly
           /\ held' = held /\ turn' \in [Run -> 0 .. MaxTurns]
           /\ owner' = owner /\ lease' = lease /\ fence' = fence
<1> DEFINE p == Parent[c]
<1>1. /\ status[p] \notin Terminal /\ Unobserved(c)
      /\ Save(p, sequence[p], status[p], held[w])
      /\ task' = [task EXCEPT ![c] = status[c]]
      /\ held' = held /\ turn' = turn
  BY DEF ObserveChild
<1>2. held[w] # NoOwnership
  BY OwnershipFacts
<1>3. Authorised(held[w]) /\ status[p] \in Executing
  BY <1>1, <1>2 DEF Save, Fenced, Authorised
<1>4. status[p] \in ExecutionWrite(status[p])
  BY <1>3 DEF ExecutionWrite, Executing, RunStatus, Parked, Terminal
<1>5. OwnedWrite(w, p, sequence[p], status[p])
  BY <1>1, <1>3, <1>4, StatusFacts DEF OwnedWrite, Terminal, Executing
<1>6. /\ status \in [Run -> RunStatus \cup {"ABSENT"}] /\ sequence \in [Run -> Nat]
      /\ task \in [Run -> TaskState] /\ turn \in [Run -> 0 .. MaxTurns]
  BY DEF RuntimeInv, RuntimeTypeOK, IInv, TypeOK
<1>7. PlansChangeRightly
  <2>1. status[c] # "WAITING_CHILD"
    BY NullAssumption DEF RuntimeInv, OnlyParentsWait
  <2>2. task[c] # "COMPLETED" /\ status[c] \in TaskState
    BY <1>1, <1>6, <2>1 DEF Unobserved, Underway, Terminal, TaskState, RunStatus, Executing, Parked
  <2> QED BY <1>1, <1>6, <2>2 DEF PlansChangeRightly
<1>8. status' = status /\ sequence' = [sequence EXCEPT ![p] = @ + 1]
  BY <1>1, <1>6 DEF Save
<1>9. owner' = owner /\ lease' = lease /\ fence' = fence
  BY <1>1 DEF Save
<1> QED BY <1>1, <1>5, <1>6, <1>7, <1>8, <1>9

\* _reconcile_children observes one Child.
LEMMA ReconcileChildAdvances ==
    ASSUME RuntimeInv, NEW w \in Worker, NEW r \in Run, NEW c \in Children(r),
           ReconcileChild(w, r, c)
    PROVE  Advance(w, r) \/ Raise(w)
<1>0. /\ Pc(w, r) \in {"step", "observed"} /\ c \in Run /\ Parent[c] = r /\ Parent[r] = NoRun
      /\ held[w] \in Ownership /\ held[w].run = r
  BY CoroutineFacts, LineageFacts, NullAssumption DEF ReconcileChild
<1>1. CASE ObserveChild(w, c) /\ Goto(w, r, At("observed", Base(w, r), "NONE"))
  <2> DEFINE f == At("observed", Base(w, r), "NONE")
  <2>1. f \in Frame /\ f.pc = "observed" /\ f.base = Base(w, r)
    BY <1>0, CoroutineFacts, FrameFacts
  <2>2. /\ OwnedWrite(w, r, sequence[r], status[r])
        /\ status' = status /\ sequence' = [sequence EXCEPT ![r] = @ + 1]
        /\ PlansChangeRightly /\ held' = held /\ turn' \in [Run -> 0 .. MaxTurns]
        /\ owner' = owner /\ lease' = lease /\ fence' = fence
    BY <1>0, <1>1, ObserveFacts
  <2>3. sequence'[r] = sequence[r] + 1 /\ sequence[r] \in Nat /\ Base(w, r) <= sequence[r]
    BY <1>0, <2>2, CoroutineFacts DEF RuntimeInv, IInv, TypeOK
  <2>4. Names(held[w])' /\ lease'[r] > 0 => status'[r] # "WAITING_CHILD"
    BY <1>0, <2>2 DEF RuntimeInv, Coroutine, Dispatching, Names
  <2>5. status'[r] # "ABSENT"
    BY <1>0, <2>2, CoroutineFacts, StatusFacts
  <2>6. Arrives(w, r, f) /\ Leaves(w, r, f)
    BY <1>0, <2>1, <2>3, <2>4, <2>5, CoroutineFacts DEF Arrives, Leaves
  <2> QED BY <1>0, <1>1, <2>1, <2>2, <2>6 DEF Advance, WritesRightly, Goto
<1> QED BY <1>1 DEF ReconcileChild

\* _reconcile_children ends with the Parent's state as it is now, or as it was.
LEMMA ChildrenReconciledAdvances ==
    ASSUME RuntimeInv, NEW w \in Worker, NEW r \in Run, ChildrenReconciled(w, r)
    PROVE  Advance(w, r)
<1> DEFINE read == IF Pc(w, r) = "observed" \/ \E c \in Children(r) : Unobserved(c)
                   THEN sequence[r] ELSE Base(w, r)
           f == At("scan", read, "NONE")
<1>1. /\ Pc(w, r) \in {"step", "observed"} /\ Children(r) # {} /\ Move(w, r, f)
      /\ sequence[r] \in Nat /\ Base(w, r) \in Nat /\ Base(w, r) <= sequence[r] /\ status[r] # "ABSENT"
  BY CoroutineFacts, StatusFacts DEF ChildrenReconciled
<1>2. f \in Frame /\ f.pc = "scan" /\ f.base <= sequence[r]
  <2>1. read \in Nat /\ read <= sequence[r]
    BY <1>1
  <2> HIDE DEF read
  <2> QED BY <2>1, FrameFacts
<1>3. storeVars' = storeVars /\ held' = held
  BY <1>1 DEF Move
<1>4. held[w].run = r /\ Names(held[w])' /\ lease'[r] > 0 => status'[r] # "WAITING_CHILD"
  BY <1>1, <1>3 DEF RuntimeInv, Coroutine, Dispatching, Names, storeVars
<1>5. Arrives(w, r, f) /\ Leaves(w, r, f)
  BY <1>1, <1>2, <1>3, <1>4 DEF Arrives, Leaves, storeVars
<1> QED BY <1>1, <1>2, <1>5, MoveAdvances

\* _wait_for_children parks the Parent; it takes back tasks that never started.
LEMMA WaitForChildrenAdvances ==
    ASSUME RuntimeInv, NEW w \in Worker, NEW r \in Run, Pc(w, r) = "scan", WaitForChildren(w, r)
    PROVE  Advance(w, r) \/ Raise(w)
<1> DEFINE f == At("apply", Base(w, r) + 1, "WAIT")
<1>1. CASE /\ Commit(w, r, "WAITING_CHILD", f)
           /\ task' = [c \in Run |-> IF c \in Children(r) /\ HasFailed(r) /\ Underway(c)
                                        /\ status[c] = "ABSENT"
                                     THEN "PENDING" ELSE task[c]]
           /\ UNCHANGED turn
  <2>1. f \in Frame /\ f.pc = "apply" /\ f.base = Base(w, r) + 1 /\ f.next = "WAIT"
    BY CoroutineFacts, FrameFacts
  <2>2. /\ Save(r, Base(w, r), "WAITING_CHILD", held[w]) /\ sequence[r] = Base(w, r)
        /\ status'[r] = "WAITING_CHILD" /\ sequence'[r] = Base(w, r) + 1
        /\ Pc(w, r)' = "apply" /\ Authorised(held[w])
    BY <1>1, <2>1, CommitFacts, StatusFacts
  <2>3. Parent[r] = NoRun
    BY LineageFacts DEF RuntimeInv, Coroutine, Placed
  <2>4. status[r] \in Executing
    BY <2>2, <2>3, CoroutineFacts, NullAssumption DEF Authorised
  <2>5. OwnedWrite(w, r, Base(w, r), "WAITING_CHILD")
    BY <2>2, <2>3, <2>4, CoroutineFacts, StatusFacts
    DEF OwnedWrite, ExecutionWrite, RunStatus, Executing, Parked, Terminal
  <2>6. Arrives(w, r, f) /\ Leaves(w, r, f)
    BY <2>1, <2>2, CoroutineFacts DEF Arrives, Leaves
  <2>7. PlansChangeRightly
    BY <1>1 DEF PlansChangeRightly, Underway, Terminal, TaskState, RuntimeInv, RuntimeTypeOK
  <2>8. turn' \in [Run -> 0 .. MaxTurns]
    BY <1>1 DEF RuntimeInv, RuntimeTypeOK
  <2> QED BY <1>1, <2>1, <2>5, <2>6, <2>7, <2>8, CommitAdvances
<1> QED BY <1>1, RefusedAdvances DEF WaitForChildren

\* A Parent whose plan is completed proposes its own completion.
LEMMA ProposeAdvances ==
    ASSUME RuntimeInv, NEW w \in Worker, NEW r \in Run, Pc(w, r) = "scan", AllCompleted(r),
           Move(w, r, At("apply", Base(w, r), "COMPLETE"))
    PROVE  Advance(w, r)
<1> DEFINE f == At("apply", Base(w, r), "COMPLETE")
<1>1. f \in Frame /\ f.pc = "apply" /\ f.base = Base(w, r) /\ f.next = "COMPLETE"
  BY CoroutineFacts, FrameFacts
<1>2. Arrives(w, r, f) /\ Leaves(w, r, f)
  BY <1>1, CoroutineFacts, StatusFacts DEF Arrives, Leaves, Move, storeVars, AllCompleted
<1> QED BY <1>1, <1>2, MoveAdvances

\* _start_child writes the first checkpoint of the Child, or resumes or leaves it.
LEMMA StartChildAdvances ==
    ASSUME RuntimeInv, NEW w \in Worker, NEW c \in Run, StartChild(w, c)
    PROVE  Advance(w, c) \/ Raise(w)
<1>0. Pc(w, c) = "start" /\ status[c] \in RunStatus \cup {"ABSENT"}
  BY CoroutineFacts DEF StartChild
<1> DEFINE f == At("preflight", 0, "NONE")
           g == At("load", 0, "NONE")
<1>1. /\ f \in Frame /\ f.pc = "preflight" /\ f.base = 0
      /\ g \in Frame /\ g.pc = "load" /\ g.base = 0
  BY FrameFacts
<1>2. /\ Base(w, c) = 0 /\ held[w].run = Parent[c] /\ Parent[c] # c
      /\ Pc(w, Parent[c]) = "children" /\ held[w] \in Ownership
  <2>1. Base(w, c) = 0 /\ held[w].run = Parent[c] /\ held[w] \in Ownership
    BY <1>0, CoroutineFacts DEF Coroutine, Informed, Placed
  <2>2. Parent[c] # NoRun
    BY <2>1, OwnershipFacts, NullAssumption
  <2> QED BY <1>0, <2>1, <2>2, LineageFacts, CoroutineFacts DEF Coroutine, Placed
<1>3. CASE /\ status[c] = "ABSENT"
           /\ Commit(w, c, "RUNNING", f) /\ UNCHANGED <<turn, task>>
  <2>1. /\ Save(c, Base(w, c), "RUNNING", held[w]) /\ sequence[c] = Base(w, c)
        /\ status'[c] = "RUNNING" /\ sequence'[c] = Base(w, c) + 1
    BY <1>0, <1>1, <1>3, CommitFacts, StatusFacts
  <2>2. OwnedWrite(w, c, Base(w, c), "RUNNING")
    BY <1>2, <1>3, <2>1 DEF OwnedWrite, ExecutionWrite, Terminal
  <2>3. Arrives(w, c, f) /\ Leaves(w, c, f)
    BY <1>0, <1>1, <1>2, <2>1 DEF Arrives, Leaves
  <2>4. PlansChangeRightly /\ turn' \in [Run -> 0 .. MaxTurns]
    BY <1>3, IdlePlans DEF RuntimeInv, RuntimeTypeOK
  <2> QED BY <1>0, <1>1, <1>3, <2>2, <2>3, <2>4, CommitAdvances
<1>4. CASE status[c] = "RUNNING" /\ Move(w, c, g)
  <2>1. Arrives(w, c, g) /\ Leaves(w, c, g)
    BY <1>0, <1>1, <1>4, CoroutineFacts, StatusFacts DEF Arrives, Leaves, Move, storeVars
  <2> QED BY <1>1, <1>4, <2>1, MoveAdvances
<1>5. CASE status[c] \notin {"ABSENT", "RUNNING"} /\ Return(w, c)
  BY <1>0, <1>5, ReturnAdvances
<1> QED BY <1>3, <1>4, <1>5 DEF StartChild

\* _observe_scheduled_child of a Child coroutine that returned.
LEMMA ChildReturnedAdvances ==
    ASSUME RuntimeInv, NEW w \in Worker, NEW c \in Run, ChildReturned(w, c)
    PROVE  Advance(w, c) \/ Raise(w)
<1>0. /\ Pc(w, c) = "returned" /\ held[w] \in Ownership /\ held[w].run = Parent[c]
      /\ Parent[c] \in Run /\ Parent[c] # c /\ sequence[c] \in Nat
  BY CoroutineFacts, LineageFacts DEF ChildReturned
<1>1. Idle \in Frame /\ Idle.pc = "idle" /\ Idle.base = 0
  BY FrameFacts DEF Idle
<1>2. CASE ObserveChild(w, c) /\ Goto(w, c, Idle)
  <2>1. /\ OwnedWrite(w, Parent[c], sequence[Parent[c]], status[Parent[c]])
        /\ sequence' = [sequence EXCEPT ![Parent[c]] = @ + 1]
        /\ PlansChangeRightly /\ held' = held /\ turn' \in [Run -> 0 .. MaxTurns]
    BY <1>0, <1>2, ObserveFacts
  <2>2. sequence'[c] = sequence[c]
    BY <1>0, <2>1 DEF RuntimeInv, IInv, TypeOK
  <2>3. Arrives(w, c, Idle) /\ Leaves(w, c, Idle)
    BY <1>0, <1>1, <2>2 DEF Arrives, Leaves
  <2> QED BY <1>0, <1>1, <1>2, <2>1, <2>3 DEF Advance, WritesRightly, Goto
<1>3. CASE Move(w, c, Idle)
  <2>1. Arrives(w, c, Idle) /\ Leaves(w, c, Idle)
    BY <1>0, <1>1, <1>3 DEF Arrives, Leaves, Move, storeVars
  <2> QED BY <1>1, <1>3, <2>1, MoveAdvances
<1> QED BY <1>2, <1>3 DEF ChildReturned

\* scheduler.execute returned: the Parent is read again.
LEMMA ChildrenReturnedAdvances ==
    ASSUME RuntimeInv, NEW w \in Worker, NEW r \in Run, ChildrenReturned(w, r)
    PROVE  Advance(w, r)
<1> DEFINE f == At("apply", sequence[r], IF status[r] = "RUNNING" THEN "CONTINUE" ELSE "WAIT")
<1>1. /\ Pc(w, r) = "children" /\ Move(w, r, f) /\ \A c \in Children(r) : Pc(w, c) = "idle"
      /\ sequence[r] \in Nat /\ status[r] # "ABSENT"
  BY CoroutineFacts, StatusFacts DEF ChildrenReturned
<1>2. /\ f \in Frame /\ f.pc = "apply" /\ f.base = sequence[r] /\ f.next # "COMPLETE"
      /\ f.next = "WAIT" => status[r] # "RUNNING"
  BY <1>1, FrameFacts
<1>3. Arrives(w, r, f) /\ Leaves(w, r, f)
  BY <1>1, <1>2 DEF Arrives, Leaves, Move, storeVars
<1> QED BY <1>1, <1>2, <1>3, MoveAdvances

\* _persist_ready_tasks and the dispatch: the Parent is RUNNING in its row when its
\* Children are about to start, or its owner has lost it.
LEMMA DispatchPreserves ==
    ASSUME RuntimeInv, NEW w \in Worker, NEW r \in Run, Pc(w, r) = "scan", Dispatch(w, r)
    PROVE  /\ Settled' /\ RowsChangeRightly /\ PlansChangeRightly
           /\ turn' \in [Run -> 0 .. MaxTurns] /\ WritesRightly(w, r)
<1> DEFINE f == At("children", 0, "NONE")
           g == At("start", 0, "NONE")
<1>0. /\ f \in Frame /\ f.pc = "children" /\ f.base = 0
      /\ g \in Frame /\ g.pc = "start" /\ g.base = 0
  BY FrameFacts
<1>1. /\ Children(r) # {} /\ Parent[r] = NoRun /\ held[w] \in Ownership /\ held[w].run = r
      /\ status[r] # "ABSENT" /\ r \notin Launchable(r) /\ Launchable(r) \subseteq Children(r)
  BY CoroutineFacts, LineageFacts, StatusFacts, NullAssumption
  DEF RuntimeInv, Coroutine, Placed, Launchable
<1>2. /\ held' = held /\ turn' = turn
      /\ task' = [c \in Run |-> IF c \in Ready(r) THEN "ASSIGNED" ELSE task[c]]
      /\ IF Ready(r) = {} THEN UNCHANGED storeVars ELSE Save(r, Base(w, r), "RUNNING", held[w])
  BY DEF Dispatch
<1>3. /\ frame' \in [Worker -> [Run -> Frame]]
      /\ frame'[w][r] = f
      /\ \A x \in Launchable(r) : frame'[w][x] = g
      /\ \A x \in Run : x # r /\ x \notin Launchable(r) => frame'[w][x] = frame[w][x]
      /\ \A v \in Worker : v # w => frame'[v] = frame[v]
  <2> DEFINE started == [frame[w] EXCEPT ![r] = f]
             spawned == [x \in Run |-> IF x \in Launchable(r) THEN g ELSE started[x]]
  <2>1. frame' = [frame EXCEPT ![w] = spawned]
    BY DEF Dispatch
  <2>2. frame \in [Worker -> [Run -> Frame]]
    BY DEF RuntimeInv, RuntimeTypeOK
  <2>3. started \in [Run -> Frame]
    BY <1>0, <2>2
  <2>4. spawned \in [Run -> Frame]
    BY <1>0, <2>3
  <2>5. frame' \in [Worker -> [Run -> Frame]] /\ frame'[w] = spawned
        /\ \A v \in Worker : v # w => frame'[v] = frame[v]
    BY <2>1, <2>2, <2>4
  <2>6. spawned[r] = f /\ \A x \in Launchable(r) : spawned[x] = g
    BY <1>1, <2>2, LineageFacts
  <2>7. \A x \in Run : x # r /\ x \notin Launchable(r) => spawned[x] = frame[w][x]
    BY <2>2
  <2> QED BY <2>5, <2>6, <2>7
<1>4. PlansChangeRightly /\ turn' \in [Run -> 0 .. MaxTurns]
  BY <1>2 DEF PlansChangeRightly, Ready, Terminal, TaskState, RuntimeInv, RuntimeTypeOK
<1>5. ASSUME Save(r, Base(w, r), "RUNNING", held[w])
      PROVE  OwnedWrite(w, r, Base(w, r), "RUNNING") /\ status'[r] = "RUNNING"
  <2>1. status[r] \in Executing
    BY <1>1, <1>5, OwnershipFacts DEF Save, Fenced, Authorised
  <2>2. status'[r] = "RUNNING"
    BY <1>5 DEF Save, RuntimeInv, IInv, TypeOK
  <2> QED BY <1>1, <1>5, <2>1, <2>2, StatusFacts
          DEF OwnedWrite, ExecutionWrite, RunStatus, Executing, Terminal
<1>6. WritesRightly(w, r)
  BY <1>2, <1>5 DEF WritesRightly
<1>7. RowsChangeRightly
  BY <1>6, IdleRows, OwnedWriteIsLawful DEF WritesRightly
<1>8. [Next]_storeVars /\ IInv /\ IInv'
  BY <1>7, StepInvariant DEF RowsChangeRightly, RuntimeInv
<1>9. OwnershipsAreClaimed' /\ held' \in [Worker -> Ownership \cup {NoOwnership}]
  BY <1>2, <1>8, OwnershipsStayClaimed DEF OwnershipsAreClaimed, RuntimeInv, RuntimeTypeOK
<1>10. ASSUME NEW v \in Worker, NEW x \in Run PROVE Coroutine(v, x)'
  <2>0. Coroutine(v, x)
    BY DEF RuntimeInv
  <2>1. CASE v = w /\ x = r
    <3>1. status'[r] # "ABSENT" /\ 0 <= sequence'[r]
      BY <1>1, <1>8, RowFacts DEF Monotone, IInv, TypeOK
    <3>2. Dispatching(v, x)'
      <4>1. CASE Ready(r) = {}
        BY <1>1, <1>2, <1>3, <2>0, <2>1, <4>1
        DEF Coroutine, Dispatching, Names, storeVars
      <4>2. CASE Ready(r) # {}
        BY <1>2, <1>5, <2>1, <4>2 DEF Dispatching
      <4> QED BY <4>1, <4>2
    <3> QED BY <1>0, <1>1, <1>2, <1>3, <2>1, <3>1, <3>2, OwnershipFacts
            DEF Coroutine, Placed, Informed, ProposesRightly, Pc, Base
  <2>2. CASE v = w /\ x \in Launchable(r)
    <3>1. Parent[x] = r /\ r # NoRun /\ 0 <= sequence'[x]
      BY <1>1, <1>8, <2>2, LineageFacts, NullAssumption DEF IInv, TypeOK
    <3> QED BY <1>0, <1>1, <1>2, <1>3, <2>2, <3>1, OwnershipFacts
            DEF Coroutine, Placed, Informed, Dispatching, ProposesRightly, Pc, Base
  <2>3. CASE v # w \/ (x # r /\ x \notin Launchable(r))
    <3>1. frame'[v][x] = frame[v][x] /\ held'[v] = held[v]
      BY <1>2, <1>3, <2>3
    <3>2. Informed(v, x)' /\ Dispatching(v, x)' /\ ProposesRightly(v, x)'
      BY <1>4, <1>7, <3>1, OthersKeepTheirBeliefs
    <3>3. CASE v = w
      <4>1. Pc(v, x) = "idle"
        BY <1>1, <2>0, <2>3, <3>3 DEF Coroutine, Placed
      <4> QED BY <3>1, <3>2, <4>1 DEF Coroutine, Placed, Pc
    <3>4. CASE v # w
      BY <1>2, <1>3, <2>0, <3>2, <3>4 DEF Coroutine, Placed, Pc
    <3> QED BY <3>3, <3>4
  <2> QED BY <2>1, <2>2, <2>3
<1>11. PlansTellTheTruth' /\ OnlyParentsWait' /\ ParentCompletesLast'
  BY <1>4, <1>7, PlansStayTrue
<1> QED BY <1>3, <1>4, <1>6, <1>7, <1>8, <1>9, <1>10, <1>11 DEF Settled

\* What any step does that the invariant speaks of.
Behaves == /\ Settled' /\ RowsChangeRightly /\ PlansChangeRightly
           /\ turn' \in [Run -> 0 .. MaxTurns]

\* An exception that leaves run_once changes no row.
LEMMA RaiseBehaves ==
    ASSUME RuntimeInv, NEW w \in Worker, Raise(w)
    PROVE  Behaves
BY IdleRows, IdlePlans, DropPreserves DEF Raise, Behaves, RuntimeInv, RuntimeTypeOK

\* Every operation of a coroutine is such a step, a dispatch, or ends run_once (ExecuteRun).
LEMMA ExecuteRunAdvances ==
    ASSUME RuntimeInv, NEW w \in Worker, NEW r \in Run, ExecuteRun(w, r)
    PROVE  /\ Pc(w, r) # "idle"
           /\ Advance(w, r) \/ Raise(w) \/ (Pc(w, r) = "scan" /\ Dispatch(w, r))
<1> DEFINE Goal == /\ Pc(w, r) # "idle"
                   /\ Advance(w, r) \/ Raise(w) \/ (Pc(w, r) = "scan" /\ Dispatch(w, r))
<1>1. CASE Load(w, r)
  BY <1>1, LoadAdvances DEF Load
<1>2. CASE ResumeClaim(w, r)
  BY <1>2, ResumeClaimAdvances DEF ResumeClaim
<1>3. CASE Preflight(w, r)
  BY <1>3, PreflightAdvances DEF Preflight
<1>4. CASE FailExpired(w, r)
  BY <1>4, FailExpiredAdvances DEF FailExpired
<1>5. CASE ReactStep(w, r)
  BY <1>5, ReactStepAdvances DEF ReactStep
<1>6. CASE FailStep(w, r)
  BY <1>6, FailInStepAdvances DEF FailStep
<1>7. ASSUME NEW c \in Children(r), ReconcileChild(w, r, c) PROVE Goal
  BY <1>7, ReconcileChildAdvances DEF ReconcileChild
<1>8. CASE ParentStep(w, r)
  <2>1. Pc(w, r) = "scan"
    BY <1>8 DEF ParentStep
  <2> QED BY <1>8, <2>1, ProposeAdvances, WaitForChildrenAdvances, FailInStepAdvances,
             RefusedAdvances DEF ParentStep
<1>9. CASE ChildrenReconciled(w, r)
  BY <1>9, ChildrenReconciledAdvances DEF ChildrenReconciled
<1>10. CASE StartChild(w, r)
  BY <1>10, StartChildAdvances DEF StartChild
<1>11. CASE ChildReturned(w, r)
  BY <1>11, ChildReturnedAdvances DEF ChildReturned
<1>12. CASE ChildrenReturned(w, r)
  BY <1>12, ChildrenReturnedAdvances DEF ChildrenReturned
<1>13. CASE ApplyStep(w, r)
  BY <1>13, ApplyStepAdvances DEF ApplyStep
<1> QED BY <1>1, <1>2, <1>3, <1>4, <1>5, <1>6, <1>7, <1>8, <1>9, <1>10, <1>11, <1>12, <1>13
        DEF ExecuteRun

\* Every step of a coroutine keeps the invariant.
LEMMA ExecuteRunBehaves ==
    ASSUME RuntimeInv, NEW w \in Worker, NEW r \in Run, ExecuteRun(w, r)
    PROVE  Behaves
<1>1. CASE Advance(w, r)
  BY <1>1, ExecuteRunAdvances, AdvancePreserves DEF Behaves, Advance
<1>2. CASE Pc(w, r) = "scan" /\ Dispatch(w, r)
  BY <1>2, DispatchPreserves DEF Behaves
<1> QED BY <1>1, <1>2, ExecuteRunAdvances, RaiseBehaves

(***************************************************************************)
(* Claims, heartbeats, releases, faults and the API.                       *)
(***************************************************************************)
\* A transaction that leaves every status alone does nothing wrong to the rows.
LEMMA QuietRows ==
    ASSUME [Next]_storeVars, status' = status
    PROVE  RowsChangeRightly
BY DEF RowsChangeRightly, Waits, Completes, Honours, IsBorn

\* A Worker renews and releases as a client of the store.
LEMMA OwnedLease ==
    ASSUME RuntimeInv, NEW w \in Worker, held[w] # NoOwnership, NEW flag \in BOOLEAN,
           Renew(held[w]) \/ Release(held[w], flag)
    PROVE  RowsChangeRightly
<1> DEFINE o == held[w]
<1>1. /\ o.run \in Run /\ o.token \in 1 .. fence[o.run]
      /\ o = [run |-> o.run, worker |-> w, token |-> o.token]
  BY OwnershipFacts DEF RuntimeInv, OwnershipsAreClaimed, Ownership
<1>2. ClientLease(o.run)
  BY <1>1 DEF ClientLease
<1>3. status' = status
  BY DEF Renew, Release
<1> QED BY <1>1, <1>2, <1>3, QuietRows DEF Next

\* A granted claim starts the coroutine of the claimed Run.
LEMMA ClaimRunBehaves ==
    ASSUME RuntimeInv, NEW w \in Worker, NEW r \in Run, ClaimRun(w, r)
    PROVE  Behaves
<1> DEFINE f == At("load", 0, "NONE")
           o == [run |-> r, worker |-> w, token |-> fence'[r]]
<1>0. f \in Frame /\ f.pc = "load" /\ f.base = 0
  BY FrameFacts
<1>1. /\ held[w] = NoOwnership /\ Claim(r, w) /\ held' = [held EXCEPT ![w] = o]
      /\ frame' = [frame EXCEPT ![w][r] = f] /\ turn' = turn /\ task' = task
  BY DEF ClaimRun, Goto
<1>2. RowsChangeRightly /\ [Next]_storeVars
  BY <1>1, QuietRows DEF Next, Claim
<1>3. IInv /\ IInv'
  BY <1>2, StepInvariant DEF RuntimeInv
<1>4. PlansChangeRightly /\ turn' \in [Run -> 0 .. MaxTurns]
  BY <1>1, IdlePlans DEF RuntimeInv, RuntimeTypeOK
<1>5. fence'[r] = fence[r] + 1 /\ fence[r] \in Nat
  BY <1>1, <1>3 DEF Claim, IInv, TypeOK
<1>6. o \in Ownership /\ o # NoOwnership /\ o.worker = w /\ o.run = r /\ o.token \in 1 .. fence'[r]
  BY <1>5, NullAssumption DEF Ownership, NoOwnership
<1>7. /\ frame' \in [Worker -> [Run -> Frame]]
      /\ held' \in [Worker -> Ownership \cup {NoOwnership}]
      /\ held'[w] = o /\ frame'[w][r] = f
      /\ \A v \in Worker, x \in Run : v # w \/ x # r => frame'[v][x] = frame[v][x]
      /\ \A v \in Worker : v # w => held'[v] = held[v]
  BY <1>0, <1>1, <1>6 DEF RuntimeInv, RuntimeTypeOK
<1>8. status'[r] # "ABSENT"
  BY <1>1, StatusFacts DEF Claim, Claimable
<1>9. OwnershipsAreClaimed'
  BY <1>2, <1>6, <1>7, <1>8, OwnershipsStayClaimed DEF OwnershipsAreClaimed
<1>10. ASSUME NEW v \in Worker, NEW x \in Run PROVE Coroutine(v, x)'
  <2>0. Coroutine(v, x) /\ 0 <= sequence'[x]
    BY <1>3 DEF RuntimeInv, IInv, TypeOK
  <2>1. CASE v = w /\ x = r
    BY <1>0, <1>6, <1>7, <1>8, <2>0, <2>1
    DEF Coroutine, Placed, Informed, Dispatching, ProposesRightly, Pc, Base
  <2>2. CASE v = w /\ x # r
    <3>1. Pc(v, x)' = "idle" /\ Base(v, x)' = Base(v, x) /\ Base(v, x) \in Nat
      BY <1>1, <1>7, <2>0, <2>2 DEF Coroutine, Placed, Pc, Base, RuntimeInv, RuntimeTypeOK, Frame
    <3>2. Base(v, x) <= sequence'[x]
      BY <1>1, <2>0 DEF Claim, Coroutine, Informed
    <3> QED BY <3>1, <3>2 DEF Coroutine, Placed, Informed, Dispatching, ProposesRightly
  <2>3. CASE v # w
    <3>1. Informed(v, x)' /\ Dispatching(v, x)' /\ ProposesRightly(v, x)'
      BY <1>2, <1>4, <1>7, <2>3, OthersKeepTheirBeliefs
    <3>2. Placed(v, x)'
      BY <1>7, <2>0, <2>3, LineageFacts DEF Coroutine, Placed, Pc
    <3> QED BY <3>1, <3>2 DEF Coroutine
  <2> QED BY <2>1, <2>2, <2>3
<1>11. PlansTellTheTruth' /\ OnlyParentsWait' /\ ParentCompletesLast'
  BY <1>2, <1>4, PlansStayTrue
<1> QED BY <1>2, <1>3, <1>4, <1>7, <1>9, <1>10, <1>11 DEF Behaves, Settled

\* A claim of a Run whose delivery allowance is used up quarantines it.
LEMMA ClaimExhaustedBehaves ==
    ASSUME RuntimeInv, NEW w \in Worker, NEW r \in Run, ClaimExhausted(w, r)
    PROVE  Behaves
<1>1. Exhaust(r) /\ UNCHANGED <<workVars, turn, task>>
  BY DEF ClaimExhausted
<1>2. RowsChangeRightly
  <2>1. [Next]_storeVars
    BY <1>1 DEF Next
  <2>2. status' = [status EXCEPT ![r] = "FAILED"] /\ status[r] \in Executing
    BY <1>1 DEF Exhaust, Claimable
  <2> QED BY <2>1, <2>2
          DEF RowsChangeRightly, Waits, Completes, Honours, IsBorn, Executing, RuntimeInv, IInv, TypeOK
<1>3. PlansChangeRightly /\ turn' \in [Run -> 0 .. MaxTurns]
  BY <1>1, IdlePlans DEF RuntimeInv, RuntimeTypeOK
<1> QED BY <1>1, <1>2, <1>3, AwayPreserves DEF Behaves

\* run_once releases the lease it finds its own, with any flag, and forgets the Run.
LEMMA ReleaseBehaves ==
    ASSUME RuntimeInv, NEW w \in Worker, held[w] # NoOwnership, NEW flag \in BOOLEAN, Drop(w),
           Release(held[w], flag) \/ UNCHANGED storeVars, UNCHANGED <<turn, task>>
    PROVE  Behaves
<1>1. RowsChangeRightly
  BY IdleRows, OwnedLease
<1>2. PlansChangeRightly /\ turn' \in [Run -> 0 .. MaxTurns]
  BY IdlePlans DEF RuntimeInv, RuntimeTypeOK
<1> QED BY <1>1, <1>2, DropPreserves DEF Behaves

\* A renewal changes nothing that coroutines rely on.
LEMMA HeartbeatBehaves ==
    ASSUME RuntimeInv, NEW w \in Worker, Heartbeat(w)
    PROVE  Behaves
<1>1. held[w] # NoOwnership /\ Renew(held[w]) /\ UNCHANGED <<workVars, turn, task>>
  BY DEF Heartbeat
<1>2. RowsChangeRightly
  BY <1>1, OwnedLease
<1>3. PlansChangeRightly /\ turn' \in [Run -> 0 .. MaxTurns]
  BY <1>1, IdlePlans DEF RuntimeInv, RuntimeTypeOK
<1> QED BY <1>1, <1>2, <1>3, AwayPreserves DEF Behaves

\* Everything a Worker does keeps the invariant (run_once).
LEMMA WorkerStepBehaves ==
    ASSUME RuntimeInv, NEW w \in Worker, WorkerStep(w)
    PROVE  Behaves
<1>1. ASSUME NEW r \in Run, ClaimRun(w, r) \/ ClaimExhausted(w, r) \/ ExecuteRun(w, r)
      PROVE  Behaves
  BY <1>1, ClaimRunBehaves, ClaimExhaustedBehaves, ExecuteRunBehaves
<1>2. CASE Heartbeat(w)
  BY <1>2, HeartbeatBehaves
<1>3. CASE HeartbeatLost(w)
  BY <1>3, RaiseBehaves, ReleaseBehaves DEF HeartbeatLost, ReleaseRunnable
<1>4. CASE ReleaseReturned(w)
  BY <1>4, ReleaseBehaves DEF ReleaseReturned
<1> QED BY <1>1, <1>2, <1>3, <1>4 DEF WorkerStep

\* A crash, a shutdown or a database outage keeps the invariant.
LEMMA FaultBehaves ==
    ASSUME RuntimeInv, NEW w \in Worker, Fault(w)
    PROVE  Behaves
<1>1. Raise(w) \/ (held[w] # NoOwnership /\ ReleaseRunnable(w))
  BY DEF Fault, Crash, Shutdown, RenewalUnavailable
<1> QED BY <1>1, RaiseBehaves, ReleaseBehaves DEF ReleaseRunnable

\* A control save is a client's save that only reads the row it writes.
LEMMA ControlSaveRows ==
    ASSUME RuntimeInv, NEW r \in Run, NEW new \in ControlWrite(status[r]),
           status[r] \notin Terminal \cup {"ABSENT"}, ControlSave(r, new),
           new = "RUNNING" => r \in resuming'
    PROVE  RowsChangeRightly
<1>1. /\ status[r] \in (RunStatus \ Terminal) /\ sequence[r] \in Nat
      /\ status \in [Run -> RunStatus \cup {"ABSENT"}]
  BY DEF RuntimeInv, IInv, TypeOK
<1>2. CopyOf(r, sequence[r], status[r]) /\ sequence[r] \in 0 .. sequence[r]
      /\ SameVersion(r, sequence[r])
  BY <1>1 DEF CopyOf, SameVersion, RuntimeInv, IInv, RowExists
<1>3. Save(r, sequence[r], new, NoOwnership)
  BY DEF ControlSave
<1>4. ClientSave(r)
  BY <1>1, <1>2, <1>3 DEF ClientSave
<1>5. [Next]_storeVars
  BY <1>4 DEF Next
<1>6. status' = [status EXCEPT ![r] = new]
  BY <1>3 DEF Save
<1>7. new \in {"RUNNING", "INTERRUPTED", "CANCELLED"}
  BY DEF ControlWrite
<1> QED BY <1>1, <1>5, <1>6, <1>7 DEF RowsChangeRightly, Waits, Completes, Honours, IsBorn

\* Control requests of the API keep the invariant.
LEMMA ControlBehaves ==
    ASSUME RuntimeInv, NEW r \in Run, Control(r)
    PROVE  Behaves
<1>0. UNCHANGED workVars /\ turn' \in [Run -> 0 .. MaxTurns] /\ task \in [Run -> TaskState]
  BY DEF Control, RuntimeInv, RuntimeTypeOK
<1>1. CASE Interrupt(r)
  <2>1. "INTERRUPTED" \in ControlWrite(status[r]) /\ status[r] \notin Terminal \cup {"ABSENT"}
    BY <1>1 DEF Interrupt, ControlWrite, Terminal
  <2>2. ControlSave(r, "INTERRUPTED") /\ task' = task
    BY <1>1 DEF Interrupt
  <2> QED BY <1>0, <2>1, <2>2, ControlSaveRows, IdlePlans, AwayPreserves DEF Behaves
<1>2. CASE Cancel(r)
  <2>1. "CANCELLED" \in ControlWrite(status[r]) /\ status[r] \notin Terminal \cup {"ABSENT"}
    BY <1>2 DEF Cancel, ControlWrite
  <2>2. RowsChangeRightly
    BY <1>2, <2>1, ControlSaveRows DEF Cancel
  <2>3. PlansChangeRightly
    BY <1>0, <1>2 DEF Cancel, PlansChangeRightly, Terminal, TaskState
  <2> QED BY <1>0, <2>2, <2>3, AwayPreserves DEF Behaves
<1>3. CASE QueueResume(r)
  <2>1. {"RUNNING", "CANCELLED"} \subseteq ControlWrite(status[r])
        /\ status[r] \notin Terminal \cup {"ABSENT"} /\ task' = task
    BY <1>3 DEF QueueResume, ControlWrite
  <2>2. RowsChangeRightly
    BY <1>3, <2>1, ControlSaveRows DEF QueueResume
  <2> QED BY <1>0, <2>1, <2>2, IdlePlans, AwayPreserves DEF Behaves
<1>4. CASE RequeueRun(r)
  <2>1. Requeue(r) /\ task' = task
    BY <1>4 DEF RequeueRun
  <2>2. [Next]_storeVars /\ status' = [status EXCEPT ![r] = "RUNNING"] /\ status[r] = "FAILED"
    BY <2>1 DEF Next, Requeue
  <2>3. RowsChangeRightly
    BY <2>2 DEF RowsChangeRightly, Waits, Completes, Honours, IsBorn, RuntimeInv, IInv, TypeOK
  <2> QED BY <1>0, <2>1, <2>3, IdlePlans, AwayPreserves DEF Behaves
<1> QED BY <1>1, <1>2, <1>3, <1>4 DEF Control

\* The cascade of a cancel, and the second transaction of a resume, keep the invariant.
LEMMA ConvergeBehaves ==
    ASSUME RuntimeInv, NEW r \in Run, Converge(r)
    PROVE  Behaves
<1>0. UNCHANGED workVars /\ turn' \in [Run -> 0 .. MaxTurns] /\ task' = task
  BY DEF Converge, CascadeCancel, FinishResume, RuntimeInv, RuntimeTypeOK
<1>1. RowsChangeRightly
  <2>1. CASE CascadeCancel(r)
    <3>1. CASE status[r] \in Terminal \cup {"ABSENT"}
      BY <2>1, <3>1, IdleRows DEF CascadeCancel
    <3>2. CASE status[r] \notin Terminal \cup {"ABSENT"}
      <4>1. "CANCELLED" \in ControlWrite(status[r])
        BY <3>2 DEF ControlWrite
      <4> QED BY <2>1, <3>2, <4>1, ControlSaveRows DEF CascadeCancel
    <3> QED BY <3>1, <3>2
  <2>2. CASE FinishResume(r)
    BY <2>2, IdleRows, QuietRows DEF FinishResume, MarkRunnable, Next
  <2> QED BY <2>1, <2>2 DEF Converge
<1> QED BY <1>0, <1>1, IdlePlans, AwayPreserves DEF Behaves

\* A submission keeps the invariant.
LEMMA SubmitBehaves ==
    ASSUME RuntimeInv, NEW r \in Run, Submit(r)
    PROVE  Behaves
<1>1. /\ Admit(r) /\ UNCHANGED workVars /\ task' = task
      /\ turn' \in [Run -> 0 .. MaxTurns]
  BY DEF Submit, RuntimeInv, RuntimeTypeOK
<1>2. /\ [Next]_storeVars /\ status' = [status EXCEPT ![r] = "RUNNING"]
      /\ status[r] = "ABSENT" /\ Parent[r] = NoRun
  BY <1>1 DEF Next, Admit
<1>3. RowsChangeRightly
  BY <1>2 DEF RowsChangeRightly, Waits, Completes, Honours, IsBorn, RuntimeInv, IInv, TypeOK
<1> QED BY <1>1, <1>3, IdlePlans, AwayPreserves DEF Behaves

\* The passing of time keeps the invariant.
LEMMA TimeBehaves ==
    ASSUME RuntimeInv, Clock \/ \E r \in Run : TimeOut(r)
    PROVE  Behaves
<1>1. /\ UNCHANGED workVars /\ task' = task
      /\ turn' \in [Run -> 0 .. MaxTurns] /\ status' = status
  BY DEF Clock, TimeOut, Tick, Expire, RuntimeInv, RuntimeTypeOK
<1>2. [Next]_storeVars
  BY DEF Clock, TimeOut, Next
<1> QED BY <1>1, <1>2, QuietRows, IdlePlans, AwayPreserves DEF Behaves

\* Every step of the system keeps the invariant, up to the types of its counters.
LEMMA RuntimeStepBehaves ==
    ASSUME RuntimeInv, RuntimeNext
    PROVE  Behaves
BY WorkerStepBehaves, FaultBehaves, SubmitBehaves, ControlBehaves, ConvergeBehaves, TimeBehaves
DEF RuntimeNext

\* RecordSuspension keeps a flag per Run.
LEMMA SuspensionType ==
    ASSUME RuntimeNext
    PROVE  suspended' \in [Run -> BOOLEAN]
<1>1. \A r \in Run : (status'[r] \in Parked \/ (suspended[r] /\ fence'[r] = fence[r])) \in BOOLEAN
  OBVIOUS
<1> QED BY <1>1, Zenon DEF RuntimeNext, RecordSuspension

\* The requests and the counters stay within their types and bounds.
LEMMA RequestTypes ==
    ASSUME RuntimeInv, RuntimeNext
    PROVE  /\ resuming' \subseteq Run /\ cascade' \subseteq Run
           /\ faults' \in 0 .. MaxFaults /\ controls' \in 0 .. MaxControls
<1>1. /\ resuming \subseteq Run /\ cascade \subseteq Run
      /\ faults \in 0 .. MaxFaults /\ controls \in 0 .. MaxControls
      /\ MaxFaults \in Nat /\ MaxControls \in Nat
  BY BoundAssumption DEF RuntimeInv, RuntimeTypeOK
<1>2. ASSUME NEW w \in Worker, WorkerStep(w) \/ Fault(w)
      PROVE  /\ resuming' \subseteq Run /\ cascade' \subseteq Run
             /\ faults' \in 0 .. MaxFaults /\ controls' \in 0 .. MaxControls
  BY <1>1, <1>2 DEF WorkerStep, Fault, apiVars
<1>3. ASSUME NEW r \in Run, Submit(r) \/ Control(r) \/ Converge(r) \/ TimeOut(r)
      PROVE  /\ resuming' \subseteq Run /\ cascade' \subseteq Run
             /\ faults' \in 0 .. MaxFaults /\ controls' \in 0 .. MaxControls
  <2>1. CASE Submit(r) \/ TimeOut(r)
    BY <1>1, <2>1 DEF Submit, TimeOut, apiVars
  <2>2. CASE Control(r)
    BY <1>1, <2>2 DEF Control, Interrupt, Cancel, QueueResume, RequeueRun, apiVars, Children
  <2>3. CASE Converge(r)
    BY <1>1, <2>3 DEF Converge, CascadeCancel, FinishResume
  <2> QED BY <1>3, <2>1, <2>2, <2>3
<1>4. CASE Clock
  BY <1>1, <1>4 DEF Clock, apiVars
<1> QED BY <1>2, <1>3, <1>4 DEF RuntimeNext

\* RuntimeInv is inductive: every operation of a Worker, a fault, a control request and
\* the clock keep it.
LEMMA RuntimeInvariant == RuntimeInv /\ [RuntimeNext]_runtimeVars => RuntimeInv'
<1> SUFFICES ASSUME RuntimeInv, [RuntimeNext]_runtimeVars PROVE RuntimeInv'
  OBVIOUS
<1>1. CASE RuntimeNext
  <2>1. Behaves
    BY <1>1, RuntimeStepBehaves
  <2>2. /\ resuming' \subseteq Run /\ cascade' \subseteq Run
        /\ faults' \in 0 .. MaxFaults /\ controls' \in 0 .. MaxControls
    BY <1>1, RequestTypes
  <2>3. suspended' \in [Run -> BOOLEAN]
    BY <1>1, SuspensionType
  <2> QED BY <2>1, <2>2, <2>3
          DEF Behaves, Settled, PlansChangeRightly, RuntimeInv, RuntimeTypeOK, IInv
<1>2. CASE UNCHANGED runtimeVars
  <2>1. UNCHANGED <<storeVars, held, frame, turn, task, resuming, cascade, suspended,
                    faults, controls>>
    BY <1>2 DEF runtimeVars
  <2>2. UNCHANGED workVars /\ RowsChangeRightly /\ PlansChangeRightly
    BY <2>1, IdleRows, IdlePlans DEF workVars
  <2>3. Settled'
    BY <2>2, AwayPreserves
  <2> QED BY <2>1, <2>3 DEF Settled, RuntimeInv, RuntimeTypeOK, IInv
<1> QED BY <1>1, <1>2

\* The system starts in the invariant.
LEMMA RuntimeInitInvariant == RuntimeInit => RuntimeInv
<1> SUFFICES ASSUME RuntimeInit PROVE RuntimeInv
  OBVIOUS
<1>1. IInv
  BY InitInvariant DEF RuntimeInit
<1>2. Idle \in Frame /\ Idle.pc = "idle" /\ Idle.base = 0
  BY FrameFacts DEF Idle
<1>3. RuntimeTypeOK
  BY <1>1, <1>2, BoundAssumption DEF RuntimeInit, RuntimeTypeOK, IInv, TaskState
<1>4. \A w \in Worker, r \in Run :
        Pc(w, r) = "idle" /\ Base(w, r) = 0 /\ sequence[r] = 0 /\ status[r] = "ABSENT"
  BY <1>2 DEF RuntimeInit, Init, Pc, Base
<1>5. \A w \in Worker, r \in Run : Coroutine(w, r)
  BY <1>4 DEF Coroutine, Placed, Informed, Dispatching, ProposesRightly
<1>6. OwnershipsAreClaimed
  BY DEF RuntimeInit, OwnershipsAreClaimed
<1>7. PlansTellTheTruth /\ OnlyParentsWait /\ ParentCompletesLast
  BY DEF RuntimeInit, Init, PlansTellTheTruth, OnlyParentsWait, ParentCompletesLast
<1> QED BY <1>1, <1>3, <1>5, <1>6, <1>7 DEF RuntimeInv

\* RuntimeInv holds in every reachable state of the system.
LEMMA RuntimeInvariance == RuntimeSpec => []RuntimeInv
BY RuntimeInitInvariant, RuntimeInvariant, PTL DEF RuntimeSpec

(***************************************************************************)
(* What follows for the system.                                            *)
(***************************************************************************)
\* Every step of the system does to the rows what it may.
LEMMA StepsChangeRowsRightly ==
    RuntimeInv /\ [RuntimeNext]_runtimeVars => RowsChangeRightly
<1> SUFFICES ASSUME RuntimeInv, [RuntimeNext]_runtimeVars PROVE RowsChangeRightly
  OBVIOUS
<1>1. CASE UNCHANGED runtimeVars
  BY <1>1, IdleRows DEF runtimeVars
<1> QED BY <1>1, RuntimeStepBehaves DEF Behaves

\* The Workers and the API use the store as its clients may (StoreSpec): each save of a
\* coroutine writes the copy it loaded under the ownership it was claimed with or that of
\* the Parent it runs under, and a control request writes the row it just read.
THEOREM RuntimeUsesTheStore == RuntimeSpec => StoreSpec
<1>1. RuntimeInit => Init
  BY DEF RuntimeInit
<1>2. RuntimeInv /\ [RuntimeNext]_runtimeVars => [Next]_storeVars
  BY StepsChangeRowsRightly DEF RowsChangeRightly
<1> QED BY <1>1, <1>2, RuntimeInvariance, PTL DEF RuntimeSpec, StoreSpec, Spec

\* What the store promises to any client holds of the whole system: a Run that ended stays
\* out of the queue, the failure queue holds exactly quarantined Runs, no Run is delivered
\* too often, no outcome is overwritten and no lost claim is revived.
THEOREM RuntimeInheritsTheStore ==
    RuntimeSpec => []StoreSafety /\ OutcomeIsFinal /\ LostAuthorityStaysLost /\ LeasedRunSpec
BY RuntimeUsesTheStore, StoreIsSafe, OutcomesAreFinal, AuthorityIsNotRegained,
   StoreImplementsLeasedRun DEF StoreSpec

\* A Parent outlives the work of its Children (FamilyIsOrdered): they are born while it
\* runs in the hands of an owner, and it completes after them (_start_child, _advance_step).
THEOREM ParentsOutliveChildren == RuntimeSpec => FamilyIsOrdered
<1>1. RuntimeInv => RuntimeTypeOK /\ ParentCompletesLast
  BY DEF RuntimeInv
<1>2. RuntimeInv /\ [RuntimeNext]_runtimeVars =>
        [\A r \in Run : Parent[r] # NoRun /\ status[r] = "ABSENT" /\ status'[r] # "ABSENT" =>
            status[Parent[r]] = "RUNNING" /\ Active(Parent[r])]_runtimeVars
  BY StepsChangeRowsRightly DEF RowsChangeRightly, IsBorn
<1>3. RuntimeSpec => ChildIsBornUnderRunningParent
  BY <1>2, RuntimeInvariance, PTL DEF RuntimeSpec, ChildIsBornUnderRunningParent
<1> QED BY <1>1, <1>3, RuntimeInvariance, PTL DEF FamilyIsOrdered

\* An interrupt of a root Run is left only by a resume or a cancel (InterruptIsHonoured),
\* whatever execution loaded the Run before: its save is fenced by the status.
THEOREM InterruptsAreHonoured == RuntimeSpec => InterruptIsHonoured
<1>1. RuntimeInv /\ [RuntimeNext]_runtimeVars =>
        [\A r \in Run : Parent[r] = NoRun /\ status[r] = "INTERRUPTED" =>
            \/ status'[r] \in {"INTERRUPTED", "CANCELLED"}
            \/ status'[r] = "RUNNING" /\ r \in resuming']_runtimeVars
  BY StepsChangeRowsRightly DEF RowsChangeRightly, Honours
<1> QED BY <1>1, RuntimeInvariance, PTL DEF RuntimeSpec, InterruptIsHonoured

(***************************************************************************)
(* Until somebody resumes a Run.                                           *)
(***************************************************************************)
\* The end of a Run queues nobody but its Parent, and dequeues nobody else.
LEMMA FinishWakesParents ==
    ASSUME NEW x \in Run, NEW y \in Run
    PROVE  /\ RunnableAfterFinish(x)[y] /\ Parent[y] # NoRun => runnable[y]
           /\ y # x /\ runnable[y] => RunnableAfterFinish(x)[y]
<1>1. RunnableAfterFinish(x)[y] => runnable[y] \/ y = Parent[x]
  BY DEF RunnableAfterFinish
<1>2. Parent[y] # NoRun => y # Parent[x]
  BY LineageFacts, NullAssumption
<1>3. y # x /\ runnable[y] => RunnableAfterFinish(x)[y]
  BY DEF RunnableAfterFinish
<1> QED BY <1>1, <1>2, <1>3

\* What any save does to the queue (_save).
LEMMA SaveQueues ==
    ASSUME RuntimeInv, NEW x \in Run, NEW base, NEW new, NEW o, Save(x, base, new, o)
    PROVE  /\ \A y \in Run : runnable'[y] /\ Parent[y] # NoRun => runnable[y]
           /\ \A y \in Run : y # x => /\ runnable[y] => runnable'[y]
                                      /\ status'[y] = status[y]
                                      /\ owner'[y] = owner[y]
           /\ new \notin Terminal => runnable' = runnable
           /\ status'[x] = new
           /\ failureQueued' = failureQueued
<1>1. /\ status' = [status EXCEPT ![x] = new] /\ runnable' = RunnableAfterSave(x, new)
      /\ failureQueued' = failureQueued /\ TypeOK
  BY DEF Save, queueVars, RuntimeInv, IInv
<1>2. \A y \in Run : y # x => owner'[y] = owner[y]
  BY <1>1 DEF Save, TypeOK
<1> QED BY <1>1, <1>2, FinishWakesParents DEF RunnableAfterSave, TypeOK

\* A coroutine's saves queue no Child.
LEMMA WritesQueueNoChild ==
    ASSUME RuntimeInv, ChildrenAreUnqueued, NEW w \in Worker, NEW r \in Run, WritesRightly(w, r),
           \A v \in Worker : held'[v] \in {held[v], NoOwnership}
    PROVE  ChildrenAreUnqueued'
<1>1. CASE UNCHANGED storeVars
  BY <1>1 DEF storeVars, ChildrenAreUnqueued
<1>2. ASSUME NEW x \in {r, Parent[r]} \cap Run, NEW base, NEW new, OwnedWrite(w, x, base, new)
      PROVE  ChildrenAreUnqueued'
  BY <1>2, SaveQueues DEF OwnedWrite, ChildrenAreUnqueued
<1> QED BY <1>1, <1>2 DEF WritesRightly

\* A Worker that forgets its root Run queues no Child.
LEMMA DropQueuesNoChild ==
    ASSUME RuntimeInv, ChildrenAreUnqueued, NEW w \in Worker, Drop(w), NEW flag \in BOOLEAN,
           UNCHANGED storeVars \/ (held[w] # NoOwnership /\ Release(held[w], flag))
    PROVE  ChildrenAreUnqueued'
<1>1. \A v \in Worker : held'[v] \in {held[v], NoOwnership}
  BY DEF Drop, RuntimeInv, RuntimeTypeOK
<1>2. CASE UNCHANGED storeVars
  BY <1>1, <1>2 DEF storeVars, ChildrenAreUnqueued
<1>3. CASE held[w] # NoOwnership /\ Release(held[w], flag)
  <2>1. \A y \in Run : y # held[w].run => runnable'[y] = runnable[y]
    BY <1>3 DEF Release, RuntimeInv, IInv, TypeOK
  <2>2. Parent[held[w].run] = NoRun /\ failureQueued' = failureQueued
    BY <1>3 DEF ChildrenAreUnqueued, Release, queueVars
  <2> QED BY <1>1, <2>1, <2>2 DEF ChildrenAreUnqueued
<1> QED BY <1>2, <1>3

\* Until a Child itself is resumed, no step queues, quarantines or claims one.
LEMMA UnqueuedStep ==
    ASSUME RuntimeInv, ChildrenAreUnqueued, NoChildIsResumed, RuntimeNext
    PROVE  ChildrenAreUnqueued'
<1>0. TypeOK
  BY DEF RuntimeInv, IInv
<1>1. ASSUME NEW w \in Worker, NEW r \in Run, ExecuteRun(w, r) PROVE ChildrenAreUnqueued'
  <2>1. CASE Advance(w, r)
    BY <2>1, WritesQueueNoChild DEF Advance
  <2>2. CASE Pc(w, r) = "scan" /\ Dispatch(w, r)
    BY <2>2, DispatchPreserves, WritesQueueNoChild DEF Dispatch
  <2>3. CASE Raise(w)
    BY <2>3, DropQueuesNoChild DEF Raise
  <2> QED BY <1>1, <2>1, <2>2, <2>3, ExecuteRunAdvances
<1>2. ASSUME NEW w \in Worker, NEW r \in Run, ClaimRun(w, r) PROVE ChildrenAreUnqueued'
  <2>1. /\ runnable[r] /\ runnable' = runnable /\ failureQueued' = failureQueued
        /\ \A v \in Worker : held'[v] = held[v] \/ held'[v].run = r
    BY <1>2 DEF ClaimRun, Claim, Claimable, queueVars, RuntimeInv, RuntimeTypeOK
  <2> QED BY <2>1 DEF ChildrenAreUnqueued
<1>3. ASSUME NEW w \in Worker, NEW r \in Run, ClaimExhausted(w, r) PROVE ChildrenAreUnqueued'
  <2>1. /\ runnable[r] /\ runnable' = RunnableAfterFinish(r) /\ held' = held
        /\ failureQueued' = [failureQueued EXCEPT ![r] = TRUE]
    BY <1>3 DEF ClaimExhausted, Exhaust, Claimable, workVars
  <2> QED BY <1>0, <2>1, FinishWakesParents DEF ChildrenAreUnqueued, TypeOK
<1>4. ASSUME NEW w \in Worker, Heartbeat(w) PROVE ChildrenAreUnqueued'
  BY <1>4 DEF Heartbeat, Renew, workVars, queueVars, ChildrenAreUnqueued
<1>5. ASSUME NEW w \in Worker, HeartbeatLost(w) \/ ReleaseReturned(w) \/ Fault(w)
      PROVE  ChildrenAreUnqueued'
  BY <1>5, DropQueuesNoChild
  DEF HeartbeatLost, ReleaseReturned, Fault, Crash, Shutdown, RenewalUnavailable, Raise,
      ReleaseRunnable
<1>6. ASSUME NEW r \in Run, NEW new, ControlSave(r, new), held' = held PROVE ChildrenAreUnqueued'
  BY <1>6, SaveQueues DEF ControlSave, ChildrenAreUnqueued
<1>7. ASSUME NEW r \in Run, Control(r) PROVE ChildrenAreUnqueued'
  <2>1. CASE Requeue(r)
    <3>1. /\ failureQueued[r] /\ runnable' = [runnable EXCEPT ![r] = TRUE]
          /\ failureQueued' = [failureQueued EXCEPT ![r] = FALSE] /\ held' = held
      BY <1>7, <2>1 DEF Control, Requeue, workVars
    <3> QED BY <1>0, <3>1 DEF ChildrenAreUnqueued, TypeOK
  <2> QED BY <1>6, <1>7, <2>1
          DEF Control, Interrupt, Cancel, QueueResume, RequeueRun, workVars
<1>8. ASSUME NEW r \in Run, Converge(r) PROVE ChildrenAreUnqueued'
  <2>1. CASE UNCHANGED storeVars
    BY <1>8, <2>1 DEF Converge, workVars, storeVars, ChildrenAreUnqueued
  <2>2. CASE r \in resuming /\ MarkRunnable(r)
    <3>1. /\ Parent[r] = NoRun /\ runnable' = [runnable EXCEPT ![r] = TRUE]
          /\ failureQueued' = failureQueued /\ held' = held
      BY <1>8, <2>2 DEF Converge, MarkRunnable, NoChildIsResumed, workVars, queueVars
    <3> QED BY <1>0, <3>1 DEF ChildrenAreUnqueued, TypeOK
  <2> QED BY <1>6, <1>8, <2>1, <2>2 DEF Converge, CascadeCancel, FinishResume, workVars
<1>9. ASSUME NEW r \in Run, Submit(r) PROVE ChildrenAreUnqueued'
  BY <1>0, <1>9 DEF Submit, Admit, workVars, queueVars, ChildrenAreUnqueued, TypeOK
<1>10. ASSUME Clock \/ \E r \in Run : TimeOut(r) PROVE ChildrenAreUnqueued'
  BY <1>10 DEF Clock, TimeOut, Tick, Expire, workVars, queueVars, ChildrenAreUnqueued
<1> QED BY <1>1, <1>2, <1>3, <1>4, <1>5, <1>7, <1>8, <1>9, <1>10 DEF RuntimeNext, WorkerStep

\* A claim that still names its Worker named it before (_claim_run takes a new token).
LEMMA NamesWereNamed ==
    ASSUME RuntimeInv, [Next]_storeVars, NEW v \in Worker, NEW y \in Run,
           held'[v] = held[v], held[v].run = y, Names(held[v])'
    PROVE  Names(held[v]) /\ owner[y] = v /\ fence'[y] = fence[y]
<1>1. /\ held[v] \in Ownership /\ held[v].worker = v /\ held[v].token \in 1 .. fence[y]
      /\ fence[y] \in Nat
  BY NullAssumption DEF RuntimeInv, OwnershipsAreClaimed, NoOwnership, IInv, TypeOK
<1>2. owner'[y] = v /\ fence'[y] = held[v].token
  BY <1>1 DEF Names
<1>3. Monotone(y) /\ v # NoWorker
  BY RowFacts, NullAssumption DEF RuntimeInv
<1> QED BY <1>1, <1>2, <1>3 DEF Monotone, Names

\* A coroutine that does not move and whose row is not set RUNNING goes on resting.
LEMMA RestingStays ==
    ASSUME RuntimeInv, Scheduled, [Next]_storeVars, NEW v \in Worker, NEW y \in Run,
           held'[v] = held[v], frame'[v][y] = frame[v][y],
           /\ Pc(v, y) = "returned" /\ held[v].run = y /\ Names(held[v]) /\ fence'[y] = fence[y]
           /\ status'[y] = "RUNNING"
           => status[y] = "RUNNING"
    PROVE  Resting(v, y)'
<1> SUFFICES ASSUME held[v].run = y, Names(held[v])',
                    Pc(v, y) = "returned" \/ Rests(v, y)', status'[y] = "RUNNING"
             PROVE  FALSE
  BY DEF Resting, Rests, Pc
<1>1. Names(held[v]) /\ fence'[y] = fence[y]
  BY NamesWereNamed
<1>2. Monotone(y) /\ sequence[y] \in Nat /\ sequence'[y] \in Nat
  BY RowFacts, StepInvariant DEF RuntimeInv, IInv, TypeOK
<1>3. Resting(v, y) /\ Informed(v, y) /\ Base(v, y) \in Nat
  BY DEF Scheduled, RuntimeInv, Coroutine, RuntimeTypeOK, Frame, Base
<1>4. CASE Pc(v, y) = "returned"
  BY <1>1, <1>3, <1>4 DEF Resting
<1>5. CASE Rests(v, y)'
  <2>1. Pc(v, y) = "apply" /\ frame[v][y].next = "WAIT" /\ Base(v, y) = sequence'[y]
    BY <1>5 DEF Rests, Pc, Base
  <2>2. sequence'[y] = sequence[y] /\ status'[y] = status[y]
    BY <1>2, <1>3, <2>1 DEF Informed, Monotone
  <2> QED BY <1>1, <1>3, <2>1, <2>2 DEF Resting, Rests
<1> QED BY <1>4, <1>5

\* A save under the ownership of a root Run keeps what executes in the queue.
LEMMA OwnedWriteSchedules ==
    ASSUME RuntimeInv, Scheduled, NEW w \in Worker, NEW x \in Run, NEW base, NEW new,
           OwnedWrite(w, x, base, new), NEW y \in Run
    PROVE  QueuedOrWaiting(y)'
<1> SUFFICES ASSUME Parent[y] = NoRun, status'[y] \in Executing
             PROVE  runnable'[y] \/ (status'[y] = "WAITING_CHILD" /\ owner'[y] = NoWorker)
  BY DEF QueuedOrWaiting
<1>1. /\ held[w] \in Ownership /\ held[w] # NoOwnership /\ held[w].run \in Run
      /\ held[w].worker = w /\ w # NoWorker
  BY OwnershipFacts, NullAssumption DEF OwnedWrite, RuntimeInv, OwnershipsAreClaimed
<1>2. Save(x, base, new, held[w]) /\ Authorised(held[w]) /\ QueuedOrWaiting(y)
  BY <1>1 DEF OwnedWrite, Save, Fenced, Scheduled
<1>3. CASE y = x
  <2>1. held[w].run = x
    BY <1>1, <1>3, NullAssumption DEF OwnedWrite
  <2>2. status[x] \in Executing /\ owner[x] = w
    BY <1>1, <1>2, <2>1 DEF Authorised, Names
  <2>3. runnable[x] /\ new \notin Terminal
    BY <1>1, <1>2, <1>3, <2>2, SaveQueues, StatusFacts DEF QueuedOrWaiting
  <2> QED BY <1>2, <1>3, <2>3, SaveQueues
<1>4. CASE y # x
  BY <1>2, <1>4, SaveQueues DEF QueuedOrWaiting
<1> QED BY <1>3, <1>4

\* Only the coroutine of a root Run, or one of its Children, sets it RUNNING.
LEMMA OnlyTheHolderRuns ==
    ASSUME RuntimeInv, Scheduled, NEW w \in Worker, NEW r \in Run, Pc(w, r) # "idle",
           WritesRightly(w, r), NEW v \in Worker, NEW y \in Run, v # w \/ y # r,
           Pc(v, y) = "returned", Names(held[v]), held[v].run = y, status'[y] = "RUNNING"
    PROVE  status[y] = "RUNNING"
<1>1. CASE UNCHANGED storeVars
  BY <1>1 DEF storeVars
<1>2. ASSUME NEW x \in {r, Parent[r]} \cap Run, NEW base, NEW new, OwnedWrite(w, x, base, new),
             status[y] # "RUNNING"
      PROVE  FALSE
  <2>1. /\ held[w] \in Ownership /\ held[w] # NoOwnership /\ held[w].worker = w
        /\ held[v].worker = v /\ Parent[y] = NoRun
    BY <1>2, OwnershipFacts, NullAssumption
    DEF OwnedWrite, Scheduled, ChildrenAreUnqueued, RuntimeInv, OwnershipsAreClaimed, NoOwnership
  <2>2. Authorised(held[w]) /\ status' = [status EXCEPT ![x] = new]
    BY <1>2, <2>1 DEF OwnedWrite, Save, Fenced
  <2>3. x = y
    BY <1>2, <2>2 DEF RuntimeInv, IInv, TypeOK
  <2>4. held[w].run = y
    BY <1>2, <2>1, <2>3, OwnershipFacts, NullAssumption DEF OwnedWrite
  <2>5. v = w
    BY <2>1, <2>2, <2>4 DEF Authorised, Names
  <2>6. y = Parent[r] /\ y # r
    BY <2>3, <2>5, <1>2
  <2>7. Pc(w, y) = "children"
    BY <2>4, <2>6 DEF RuntimeInv, Coroutine, Placed
  <2> QED BY <2>5, <2>7
<1> QED BY <1>1, <1>2 DEF WritesRightly

\* A step of a coroutine keeps the schedule.
LEMMA AdvanceSchedules ==
    ASSUME RuntimeInv, Scheduled, NEW w \in Worker, NEW r \in Run, Pc(w, r) # "idle", Advance(w, r)
    PROVE  \A y \in Run : QueuedOrWaiting(y)' /\ \A v \in Worker : Resting(v, y)'
<1>1. PICK f \in Frame : /\ frame' = [frame EXCEPT ![w][r] = f] /\ held' = held
                         /\ WritesRightly(w, r) /\ Leaves(w, r, f)
  BY DEF Advance
<1>2. RowsChangeRightly /\ [Next]_storeVars
  BY AdvancePreserves DEF RowsChangeRightly
<1>3. ASSUME NEW y \in Run PROVE QueuedOrWaiting(y)'
  BY <1>1, OwnedWriteSchedules DEF WritesRightly, storeVars, Scheduled, QueuedOrWaiting
<1>4. ASSUME NEW v \in Worker, NEW y \in Run PROVE Resting(v, y)'
  <2>1. CASE v # w \/ y # r
    <3>1. frame'[v][y] = frame[v][y] /\ held'[v] = held[v]
      BY <1>1, <2>1 DEF RuntimeInv, RuntimeTypeOK
    <3> QED BY <1>1, <1>2, <2>1, <3>1, RestingStays, OnlyTheHolderRuns
  <2>2. CASE v = w /\ y = r
    <3> SUFFICES ASSUME held[w].run = r, Names(held[w])', status'[r] = "RUNNING",
                        Pc(w, r)' = "returned" \/ Rests(w, r)'
                 PROVE  FALSE
      BY <1>1, <2>2 DEF Resting
    <3>1. Names(held[w])
      BY <1>1, <1>2, NamesWereNamed
    <3>2. frame'[w][r] = f
      BY <1>1 DEF RuntimeInv, RuntimeTypeOK
    <3>3. Rests(w, r) /\ status[r] = "RUNNING"
      BY <1>1, <3>2 DEF Leaves, Rests, Pc, Base
    <3> QED BY <3>1, <3>3 DEF Scheduled, Resting
  <2> QED BY <2>1, <2>2
<1> QED BY <1>3, <1>4

\* The dispatch of Children keeps the schedule.
LEMMA DispatchSchedules ==
    ASSUME RuntimeInv, Scheduled, NEW w \in Worker, NEW r \in Run, Pc(w, r) = "scan",
           Dispatch(w, r)
    PROVE  \A y \in Run : QueuedOrWaiting(y)' /\ \A v \in Worker : Resting(v, y)'
<1> DEFINE f == At("children", 0, "NONE")
           g == At("start", 0, "NONE")
           started == [frame[w] EXCEPT ![r] = f]
           spawned == [x \in Run |-> IF x \in Launchable(r) THEN g ELSE started[x]]
<1>0. f.pc = "children" /\ g.pc = "start"
  BY FrameFacts
<1>1. WritesRightly(w, r) /\ [Next]_storeVars /\ held' = held
  BY DispatchPreserves DEF RowsChangeRightly, Dispatch
<1>2. ASSUME NEW y \in Run PROVE QueuedOrWaiting(y)'
  BY <1>1, OwnedWriteSchedules DEF WritesRightly, storeVars, Scheduled, QueuedOrWaiting
<1>3. frame' = [frame EXCEPT ![w] = spawned]
  BY DEF Dispatch
<1>4. /\ frame'[w][r] \in {f, g}
      /\ \A v \in Worker, y \in Run : frame'[v][y] = frame[v][y] \/ frame'[v][y] \in {f, g}
  BY <1>3 DEF RuntimeInv, RuntimeTypeOK
<1>5. ASSUME NEW v \in Worker, NEW y \in Run PROVE Resting(v, y)'
  <2>1. CASE frame'[v][y] \in {f, g}
    BY <1>0, <2>1 DEF Resting, Rests, Pc
  <2>2. CASE frame'[v][y] = frame[v][y] /\ (v # w \/ y # r)
    BY <1>1, <2>2, RestingStays, OnlyTheHolderRuns
  <2> HIDE DEF f, g
  <2> QED BY <1>4, <2>1, <2>2
<1> QED BY <1>2, <1>5

\* A Worker that forgets its Run without a release, or with one that requeues what is
\* RUNNING, keeps the schedule (run_once).
LEMMA DropSchedules ==
    ASSUME RuntimeInv, Scheduled, NEW w \in Worker, Drop(w), NEW flag \in BOOLEAN,
           \/ UNCHANGED storeVars
           \/ /\ held[w] # NoOwnership /\ Release(held[w], flag)
              /\ flag \/ Pc(w, held[w].run) = "returned"
    PROVE  \A y \in Run : QueuedOrWaiting(y)' /\ \A v \in Worker : Resting(v, y)'
<1>1. [Next]_storeVars /\ status' = status
  BY OwnedLease DEF RowsChangeRightly, Release, storeVars
<1>2. /\ held'[w] = NoOwnership
      /\ \A v \in Worker : v # w => held'[v] = held[v] /\ frame'[v] = frame[v]
  BY DEF Drop, RuntimeInv, RuntimeTypeOK
<1>3. ASSUME NEW y \in Run PROVE QueuedOrWaiting(y)'
  <2>1. CASE UNCHANGED storeVars
    BY <2>1 DEF storeVars, Scheduled, QueuedOrWaiting
  <2>2. CASE /\ held[w] # NoOwnership /\ Release(held[w], flag)
             /\ flag \/ Pc(w, held[w].run) = "returned"
    <3> DEFINE x == held[w].run
    <3>1. x \in Run /\ Names(held[w])
      BY <2>2, OwnershipFacts DEF RuntimeInv, OwnershipsAreClaimed, Release
    <3>2. flag \/ status[x] # "RUNNING"
      BY <2>2, <3>1 DEF Scheduled, Resting
    <3>3. /\ owner' = [owner EXCEPT ![x] = NoWorker]
          /\ runnable' = [runnable EXCEPT ![x] = flag /\ status[x] = "RUNNING"]
          /\ runnable \in [Run -> BOOLEAN] /\ owner \in [Run -> Worker \cup {NoWorker}]
      BY <2>2 DEF Release, RuntimeInv, IInv, TypeOK
    <3> SUFFICES ASSUME Parent[y] = NoRun, status[y] \in Executing
                 PROVE  runnable'[y] \/ (status[y] = "WAITING_CHILD" /\ owner'[y] = NoWorker)
      BY <1>1 DEF QueuedOrWaiting
    <3>4. CASE y = x
      <4>1. owner'[x] = NoWorker
        BY <3>1, <3>3
      <4>2. runnable'[x] = (flag /\ status[x] = "RUNNING")
        BY <3>1, <3>3, Zenon
      <4>3. status[x] \in {"RUNNING", "WAITING_CHILD"}
        BY <3>4 DEF Executing
      <4> QED BY <3>2, <3>4, <4>1, <4>2, <4>3
    <3>5. CASE y # x
      BY <3>3, <3>5 DEF Scheduled, QueuedOrWaiting
    <3> QED BY <3>4, <3>5
  <2> QED BY <2>1, <2>2
<1>4. ASSUME NEW v \in Worker, NEW y \in Run PROVE Resting(v, y)'
  <2>1. CASE v = w
    BY <1>2, <2>1, NullAssumption DEF Resting, NoOwnership
  <2>2. CASE v # w
    BY <1>1, <1>2, <2>2, RestingStays
  <2> QED BY <2>1, <2>2
<1> QED BY <1>3, <1>4

\* A granted claim, or one that quarantines, keeps the schedule.
LEMMA ClaimSchedules ==
    ASSUME RuntimeInv, Scheduled, NEW w \in Worker, NEW r \in Run,
           ClaimRun(w, r) \/ ClaimExhausted(w, r)
    PROVE  \A y \in Run : QueuedOrWaiting(y)' /\ \A v \in Worker : Resting(v, y)'
<1> DEFINE f == At("load", 0, "NONE")
<1>0. f.pc = "load" /\ TypeOK
  BY FrameFacts DEF RuntimeInv, IInv
<1>1. CASE ClaimRun(w, r)
  <2>1. /\ Claim(r, w) /\ runnable[r]
        /\ held' = [held EXCEPT ![w] = [run |-> r, worker |-> w, token |-> fence'[r]]]
        /\ frame' = [frame EXCEPT ![w][r] = f]
    BY <1>1 DEF ClaimRun, Claim, Claimable, Goto
  <2>2. [Next]_storeVars /\ status' = status /\ runnable' = runnable
        /\ owner' = [owner EXCEPT ![r] = w]
    BY <2>1 DEF Next, Claim
  <2>3. ASSUME NEW y \in Run PROVE QueuedOrWaiting(y)'
    BY <1>0, <2>1, <2>2 DEF Scheduled, QueuedOrWaiting, TypeOK
  <2>4. /\ held'[w].run = r /\ frame'[w][r] = f
        /\ \A v \in Worker : v # w => held'[v] = held[v] /\ frame'[v] = frame[v]
    BY <2>1 DEF RuntimeInv, RuntimeTypeOK
  <2>5. ASSUME NEW v \in Worker, NEW y \in Run PROVE Resting(v, y)'
    <3>1. CASE v = w
      BY <1>0, <2>4, <3>1 DEF Resting, Rests, Pc
    <3>2. CASE v # w
      BY <2>2, <2>4, <3>2, RestingStays
    <3> QED BY <3>1, <3>2
  <2> QED BY <2>3, <2>5
<1>2. CASE ClaimExhausted(w, r)
  <2>1. /\ held' = held /\ frame' = frame /\ [Next]_storeVars
        /\ status' = [status EXCEPT ![r] = "FAILED"] /\ runnable' = RunnableAfterFinish(r)
        /\ owner' = [owner EXCEPT ![r] = NoWorker]
    BY <1>2 DEF ClaimExhausted, Exhaust, Next, workVars
  <2>2. ASSUME NEW y \in Run PROVE QueuedOrWaiting(y)'
    BY <1>0, <2>1, FinishWakesParents, StatusFacts DEF Scheduled, QueuedOrWaiting, TypeOK
  <2>3. \A y \in Run : status'[y] = "RUNNING" => status[y] = "RUNNING"
    BY <1>0, <2>1 DEF TypeOK
  <2> QED BY <2>1, <2>2, <2>3, RestingStays
<1> QED BY <1>1, <1>2

\* A step that moves no coroutine keeps what rests, if it sets no live Run RUNNING but one
\* whose claims it revokes.
LEMMA AwayRests ==
    ASSUME RuntimeInv, Scheduled, UNCHANGED workVars, [Next]_storeVars,
           \A y \in Run : status'[y] = "RUNNING" =>
               status[y] \in {"RUNNING", "ABSENT"} \/ fence'[y] # fence[y],
           NEW v \in Worker, NEW y \in Run
    PROVE  Resting(v, y)'
<1>1. held' = held /\ frame' = frame
  BY DEF workVars
<1>2. Pc(v, y) = "returned" => status[y] # "ABSENT"
  BY DEF RuntimeInv, Coroutine, Informed
<1> QED BY <1>1, <1>2, RestingStays

\* Requests other than resumes keep the schedule.
LEMMA RequestSchedules ==
    ASSUME RuntimeInv, Scheduled, NothingIsResumed, NothingIsResumed', NEW r \in Run,
           Submit(r) \/ Control(r) \/ Converge(r)
    PROVE  \A y \in Run : QueuedOrWaiting(y)' /\ \A v \in Worker : Resting(v, y)'
<1>0. /\ TypeOK /\ UNCHANGED workVars
      /\ [Next]_storeVars
  BY SubmitBehaves, ControlBehaves, ConvergeBehaves
  DEF RuntimeInv, IInv, Submit, Control, Converge, Behaves, RowsChangeRightly
<1>1. CASE Submit(r)
  <2>1. /\ status' = [status EXCEPT ![r] = "RUNNING"] /\ runnable' = [runnable EXCEPT ![r] = TRUE]
        /\ owner' = owner /\ status[r] = "ABSENT"
    BY <1>1 DEF Submit, Admit, leaseVars
  <2>2. ASSUME NEW y \in Run PROVE QueuedOrWaiting(y)'
    BY <1>0, <2>1 DEF Scheduled, QueuedOrWaiting, TypeOK
  <2> QED BY <1>0, <2>1, <2>2, AwayRests DEF TypeOK
<1>2. ASSUME NEW new \in {"INTERRUPTED", "CANCELLED"}, ControlSave(r, new)
      PROVE  \A y \in Run : QueuedOrWaiting(y)' /\ \A v \in Worker : Resting(v, y)'
  <2>1. /\ status'[r] \notin Executing
        /\ \A y \in Run : y # r => /\ runnable[y] => runnable'[y]
                                   /\ status'[y] = status[y]
                                   /\ owner'[y] = owner[y]
    BY <1>2, SaveQueues DEF ControlSave, Executing
  <2>2. ASSUME NEW y \in Run PROVE QueuedOrWaiting(y)'
    BY <2>1 DEF Scheduled, QueuedOrWaiting
  <2>3. \A y \in Run : status'[y] = "RUNNING" => status[y] = "RUNNING"
    BY <2>1, StatusFacts
  <2> QED BY <1>0, <2>2, <2>3, AwayRests
<1>3. CASE Requeue(r)
  <2>1. /\ status' = [status EXCEPT ![r] = "RUNNING"] /\ runnable' = [runnable EXCEPT ![r] = TRUE]
        /\ owner' = [owner EXCEPT ![r] = NoWorker] /\ fence'[r] # fence[r]
    BY <1>0, <1>3 DEF Requeue, TypeOK
  <2>2. ASSUME NEW y \in Run PROVE QueuedOrWaiting(y)'
    BY <1>0, <2>1 DEF Scheduled, QueuedOrWaiting, TypeOK
  <2> QED BY <1>0, <2>1, <2>2, AwayRests DEF TypeOK
<1>4. CASE UNCHANGED storeVars
  <2>1. ASSUME NEW y \in Run PROVE QueuedOrWaiting(y)'
    BY <1>4 DEF storeVars, Scheduled, QueuedOrWaiting
  <2> QED BY <1>0, <1>4, <2>1, AwayRests DEF storeVars
<1> QED BY <1>1, <1>2, <1>3, <1>4
        DEF Control, Converge, Interrupt, Cancel, QueueResume, RequeueRun, CascadeCancel,
            FinishResume, NothingIsResumed

\* Until a Run is resumed, every step keeps the schedule.
LEMMA ScheduleStep ==
    ASSUME RuntimeInv, Scheduled, NothingIsResumed, NothingIsResumed', RuntimeNext
    PROVE  Scheduled'
<1> DEFINE Goal == \A y \in Run : QueuedOrWaiting(y)' /\ \A v \in Worker : Resting(v, y)'
<1>1. ASSUME NEW w \in Worker, NEW r \in Run,
             ClaimRun(w, r) \/ ClaimExhausted(w, r) \/ ExecuteRun(w, r)
      PROVE  Goal
  BY <1>1, ClaimSchedules, ExecuteRunAdvances, AdvanceSchedules, DispatchSchedules, DropSchedules
  DEF Raise
<1>2. ASSUME NEW w \in Worker, HeartbeatLost(w) \/ ReleaseReturned(w) \/ Fault(w) PROVE Goal
  BY <1>2, DropSchedules
  DEF HeartbeatLost, ReleaseReturned, Fault, Crash, Shutdown, RenewalUnavailable, Raise,
      ReleaseRunnable
<1>3. ASSUME \/ \E w \in Worker : Heartbeat(w)
             \/ Clock
             \/ \E r \in Run : TimeOut(r)
      PROVE  Goal
  <2>1. /\ UNCHANGED workVars /\ status' = status /\ runnable' = runnable /\ owner' = owner
    BY <1>3 DEF Heartbeat, Renew, Clock, TimeOut, Tick, Expire, leaseVars
  <2>2. [Next]_storeVars
    BY <1>3, HeartbeatBehaves, TimeBehaves DEF Behaves, RowsChangeRightly
  <2> QED BY <2>1, <2>2, AwayRests DEF Scheduled, QueuedOrWaiting
<1>4. ASSUME NEW r \in Run, Submit(r) \/ Control(r) \/ Converge(r) PROVE Goal
  BY <1>4, RequestSchedules
<1>5. Goal
  BY <1>1, <1>2, <1>3, <1>4 DEF RuntimeNext, WorkerStep
<1>6. ChildrenAreUnqueued'
  BY UnqueuedStep DEF Scheduled, NoChildIsResumed, NothingIsResumed
<1> QED BY <1>5, <1>6 DEF Scheduled

\* As long as no Child itself is resumed, no Child is queued, quarantined or claimed.
LEMMA UnqueuedInvariance == RuntimeSpec /\ []NoChildIsResumed => []ChildrenAreUnqueued
<1>1. RuntimeInit => ChildrenAreUnqueued
  BY DEF RuntimeInit, Init, ChildrenAreUnqueued
<1>2. RuntimeInv /\ NoChildIsResumed /\ ChildrenAreUnqueued /\ [RuntimeNext]_runtimeVars =>
        ChildrenAreUnqueued'
  BY UnqueuedStep DEF runtimeVars, storeVars, ChildrenAreUnqueued
<1> QED BY <1>1, <1>2, RuntimeInvariance, PTL DEF RuntimeSpec

\* As long as nothing is resumed, what executes is queued, or waits in nobody's hands.
LEMMA ScheduleInvariance == RuntimeSpec /\ []NothingIsResumed => []Scheduled
<1>1. RuntimeInit => Scheduled
  <2> SUFFICES ASSUME RuntimeInit PROVE Scheduled
    OBVIOUS
  <2>1. Idle.pc = "idle"
    BY FrameFacts DEF Idle
  <2> QED BY <2>1, StatusFacts
          DEF RuntimeInit, Init, Scheduled, ChildrenAreUnqueued, QueuedOrWaiting, Resting, Rests, Pc
<1>2. RuntimeInv /\ NothingIsResumed /\ NothingIsResumed' /\ Scheduled /\ [RuntimeNext]_runtimeVars
        => Scheduled'
  <2> SUFFICES ASSUME RuntimeInv, NothingIsResumed, NothingIsResumed', Scheduled,
                      [RuntimeNext]_runtimeVars
               PROVE  Scheduled'
    OBVIOUS
  <2>1. CASE UNCHANGED runtimeVars
    BY <2>1 DEF runtimeVars, storeVars, Scheduled, ChildrenAreUnqueued, QueuedOrWaiting, Resting,
                Rests, Names, Pc, Base
  <2> QED BY <2>1, ScheduleStep
<1> QED BY <1>1, <1>2, RuntimeInvariance, PTL DEF RuntimeSpec

\* No two Workers execute a Run under the same ownership, its own or its Parent's,
\* whatever requests are made: the row names one of them (_authorized).
THEOREM OwnershipsAreExclusive ==
    RuntimeSpec => [](\A r \in Run, v, w \in Worker :
        Executes(v, r) /\ Executes(w, r) /\ held[v].run = held[w].run => v = w)
<1>1. ASSUME RuntimeInv, NEW r \in Run, NEW v \in Worker, NEW w \in Worker,
             Executes(v, r), Executes(w, r), held[v].run = held[w].run
      PROVE  v = w
  <2>1. held[v].worker = v /\ held[w].worker = w
    BY <1>1, CoroutineFacts DEF Executes
  <2> QED BY <1>1, <2>1 DEF Executes, Names
<1>2. RuntimeInv => \A r \in Run, v, w \in Worker :
        Executes(v, r) /\ Executes(w, r) /\ held[v].run = held[w].run => v = w
  BY <1>1
<1> QED BY <1>2, RuntimeInvariance, PTL

\* A Run is executed by one Worker at a time (ExecutionIsExclusive), also a Child that its
\* Parent's Worker runs inline, whatever else is requested, as long as queue_resume is not
\* called for a Child itself: then only root Runs are queued, claimed and held.
THEOREM ExecutionsAreExclusive == RuntimeSpec /\ []NoChildIsResumed => []ExecutionIsExclusive
<1>1. ASSUME RuntimeInv, ChildrenAreUnqueued, NEW r \in Run, NEW v \in Worker, NEW w \in Worker,
             Executes(v, r), Executes(w, r)
      PROVE  v = w
  <2>1. /\ held[v].worker = v /\ held[w].worker = w
        /\ held[v].run \in {r, Parent[r]} \cap Run /\ held[w].run \in {r, Parent[r]} \cap Run
        /\ Parent[held[v].run] = NoRun /\ Parent[held[w].run] = NoRun
    BY <1>1, CoroutineFacts DEF Executes, ChildrenAreUnqueued
  <2>2. held[v].run = held[w].run
    BY <2>1, NullAssumption
  <2> QED BY <1>1, <2>1, <2>2 DEF Executes, Names
<1>2. RuntimeInv /\ ChildrenAreUnqueued => ExecutionIsExclusive
  BY <1>1 DEF ExecutionIsExclusive
<1> QED BY <1>2, RuntimeInvariance, UnqueuedInvariance, PTL

\* No root Run is forgotten (RunningRunIsSchedulable), whatever is interrupted, cancelled
\* or requeued, until a Run is resumed: a Run that is RUNNING stays in the queue, and what
\* a Worker releases without requeueing it is not RUNNING (run_once, _release_lease).
THEOREM RunningRunsAreSchedulable == RuntimeSpec /\ []NothingIsResumed => []RunningRunIsSchedulable
<1>1. Scheduled => RunningRunIsSchedulable
  BY StatusFacts DEF Scheduled, QueuedOrWaiting, RunningRunIsSchedulable
<1> QED BY <1>1, ScheduleInvariance, PTL

\* A Run is COMPLETED only after all of its Children (ParentCompletesLast): the decision
\* to complete it goes by rows of Children that ended, and that no later request revives
\* (_advance_step).
THEOREM ParentsCompleteLast == RuntimeSpec => []ParentCompletesLast
<1>1. RuntimeInv => ParentCompletesLast
  BY DEF RuntimeInv
<1> QED BY <1>1, RuntimeInvariance, PTL
=============================================================================
