----------------------------- MODULE Admission -----------------------------
(***************************************************************************)
(* The admission of root submissions by several API processes over one     *)
(* PostgreSQL store (runtime/postgres.py, runtime/api.py): the two token   *)
(* buckets, the idempotency mapping of a Thread, the queue ceilings, and   *)
(* the claims of Workers under the active quota of a principal.            *)
(*                                                                         *)
(* A transaction of admission or claim reads in one step and commits in    *)
(* another; between them others run, unless the row of                     *)
(* runtime_capacity_coordination, which both lock first, keeps them out.   *)
(* The principal of the API is always "default", so the queue quota of the *)
(* principal is a second ceiling on the same Runs.                         *)
(***************************************************************************)
EXTENDS Integers, FiniteSets

CONSTANTS Submission,    \* HTTP requests; each makes up a Run id of its own
          Wanted,        \* the key and content of each; NoKey without a key
          NoKey,
          Claimer,       \* workers that claim
          MaxQueued, MaxActive, PrincipalActive,    \* the ceilings of the configuration
          GlobalBurst, PrincipalBurst,              \* tokens; one is refilled per tick
          MaxNow         \* bound: ticks of the database clock

\* The processes have names of their own, and a Run id is no word of the protocol.
ASSUME AdmissionAssumption ==
    /\ Submission \cap Claimer = {}
    /\ {"free", "none", "queue_full"} \cap (Submission \cup Claimer) = {}
    /\ {MaxQueued, MaxActive, PrincipalActive, GlobalBurst, PrincipalBurst} \subseteq Nat \ {0}

VARIABLES request,    \* the handlers: where they are, what they read, what they answered
          submitted,  \* the rows of the Runs: "none", "queued", "active", "over"
          bound,      \* submission_idempotency: key -> content and Run
          coordinator,\* who holds the coordination row
          claimer,    \* the claim transactions
          buckets,    \* traffic_rate_buckets
          taken,      \* history: tokens that left each bucket
          dbNow       \* the database clock

admissionVars == <<request, submitted, bound, coordinator, claimer, buckets, taken, dbNow>>

Bucket  == {"global", "principal"}
Burst(b) == IF b = "global" THEN GlobalBurst ELSE PrincipalBurst
KeyIn(s) == Wanted[s].key
Keys    == {KeyIn(s) : s \in Submission} \ {NoKey}
Unbound == [content |-> "none", run |-> "none"]

AdmissionInit ==
    /\ request = [s \in Submission |-> [at |-> "idle", began |-> 0, queued |-> 0, answer |-> "none"]]
    /\ submitted = [s \in Submission |-> "none"]
    /\ bound = [k \in Keys |-> Unbound]
    /\ coordinator = "free"
    /\ claimer = [c \in Claimer |-> [at |-> "idle", run |-> "none", active |-> 0]]
    /\ buckets = [b \in Bucket |-> [tokens |-> Burst(b), refilled |-> 0]]
    /\ taken = [b \in Bucket |-> 0]
    /\ dbNow = 0

\* Root Runs that were submitted.  Children, resumes, requeues and Runs whose lease ran out count
\* as queued too; they come without the coordination row and are not modelled.
RunsIn(state) == {s \in Submission : submitted[s] = state}
Step(s, f)    == request' = [request EXCEPT ![s] = f]
Answered(s, answer) == Step(s, [at |-> "idle", began |-> 0, queued |-> 0, answer |-> answer])

(***************************************************************************)
(* The limiter: one transaction over both buckets.  current_timestamp is   *)
(* the time the transaction began.                                         *)
(***************************************************************************)
Submit(s) ==
    /\ request[s].at = "idle" /\ request[s].answer \in {"none", "lost"}
    /\ Step(s, [request[s] EXCEPT !.at = "limit", !.began = dbNow])
    /\ UNCHANGED <<submitted, bound, coordinator, claimer, buckets, taken, dbNow>>

Refilled(s, b) ==
    LET elapsed == request[s].began - buckets[b].refilled
        tokens  == buckets[b].tokens + (IF elapsed > 0 THEN elapsed ELSE 0)
    IN IF tokens > Burst(b) THEN Burst(b) ELSE tokens

\* The buckets a token is taken from: both, or none when one of them is empty.
TakeTokens(s) == IF \A b \in Bucket : Refilled(s, b) >= 1 THEN Bucket ELSE {}

ConsumeSubmissionTokens(s) ==
    /\ request[s].at = "limit"
    /\ LET from == TakeTokens(s) IN
       /\ buckets' = [b \in Bucket |-> IF b \in from
              THEN [tokens |-> Refilled(s, b) - 1, refilled |-> request[s].began] ELSE buckets[b]]
       /\ taken' = [b \in Bucket |-> taken[b] + (IF b \in from THEN 1 ELSE 0)]
       /\ IF from = Bucket THEN Step(s, [request[s] EXCEPT !.at = "admit"])
                           ELSE Answered(s, "rate_limited")
    /\ UNCHANGED <<submitted, bound, coordinator, claimer, dbNow>>

(***************************************************************************)
(* _admit_submission and _admit_run.                                       *)
(***************************************************************************)
NoRow(who) == UNCHANGED coordinator        \* mutant: the coordination row is not locked

LockRow(who) == coordinator = "free" /\ coordinator' = who

BeginAdmission(s) ==
    /\ request[s].at = "admit" /\ LockRow(s)
    /\ Step(s, [request[s] EXCEPT !.at = "commit", !.queued = Cardinality(RunsIn("queued"))])
    /\ UNCHANGED <<submitted, bound, claimer, buckets, taken, dbNow>>

Bound(s) == KeyIn(s) # NoKey /\ bound[KeyIn(s)] # Unbound

IsReplay(s) == Bound(s)

Unlock(who) == coordinator' = IF coordinator = who THEN "free" ELSE coordinator

Replay(s) ==
    /\ request[s].at = "commit" /\ IsReplay(s)
    /\ Answered(s, IF bound[KeyIn(s)].content = Wanted[s].content
                   THEN bound[KeyIn(s)].run ELSE "key_conflict")
    /\ Unlock(s) /\ UNCHANGED <<submitted, bound, claimer, buckets, taken, dbNow>>

RejectFull(s) ==
    /\ request[s].at = "commit" /\ ~IsReplay(s) /\ request[s].queued >= MaxQueued
    /\ Answered(s, "queue_full")
    /\ Unlock(s) /\ UNCHANGED <<submitted, bound, claimer, buckets, taken, dbNow>>

\* The Run and its key in one transaction; the answer may get lost on its way.
AdmitSubmission(s) ==
    /\ request[s].at = "commit" /\ ~IsReplay(s) /\ request[s].queued < MaxQueued
    /\ submitted[s] = "none"
    /\ submitted' = [submitted EXCEPT ![s] = "queued"]
    /\ bound' = IF KeyIn(s) = NoKey THEN bound
                ELSE [bound EXCEPT ![KeyIn(s)] = [content |-> Wanted[s].content, run |-> s]]
    /\ \E answer \in IF KeyIn(s) = NoKey THEN {s} ELSE {s, "lost"} : Answered(s, answer)
    /\ Unlock(s) /\ UNCHANGED <<claimer, buckets, taken, dbNow>>

\* The process stops before the commit: the transaction is rolled back.
RollBack(s) ==
    /\ request[s].at = "commit"
    /\ Answered(s, "lost")
    /\ Unlock(s) /\ UNCHANGED <<submitted, bound, claimer, buckets, taken, dbNow>>

(***************************************************************************)
(* Claims under the ceilings, and the end of a Run.                        *)
(***************************************************************************)
BeginClaim(c) ==
    /\ claimer[c].at = "idle" /\ LockRow(c)
    /\ \E s \in RunsIn("queued") :
        /\ \A d \in Claimer : claimer[d].run # s                \* for update skip locked
        /\ claimer' = [claimer EXCEPT ![c] =
               [at |-> "claim", run |-> s, active |-> Cardinality(RunsIn("active"))]]
    /\ UNCHANGED <<request, submitted, bound, buckets, taken, dbNow>>

CommitClaim(c) ==
    /\ claimer[c].at = "claim"
    /\ submitted' = [submitted EXCEPT ![claimer[c].run] =
           IF claimer[c].active < PrincipalActive /\ claimer[c].active < MaxActive
           THEN "active" ELSE @]
    /\ claimer' = [claimer EXCEPT ![c] = [at |-> "idle", run |-> "none", active |-> 0]]
    /\ Unlock(c) /\ UNCHANGED <<request, bound, buckets, taken, dbNow>>

FinishSubmitted(s) ==
    /\ submitted[s] = "active"
    /\ submitted' = [submitted EXCEPT ![s] = "over"]
    /\ UNCHANGED <<request, bound, coordinator, claimer, buckets, taken, dbNow>>

DbTick ==
    /\ dbNow < MaxNow /\ dbNow' = dbNow + 1
    /\ UNCHANGED <<request, submitted, bound, coordinator, claimer, buckets, taken>>

AdmissionNext ==
    \/ \E s \in Submission :
        \/ Submit(s) \/ ConsumeSubmissionTokens(s) \/ BeginAdmission(s) \/ Replay(s)
        \/ RejectFull(s) \/ AdmitSubmission(s) \/ RollBack(s) \/ FinishSubmitted(s)
    \/ \E c \in Claimer : BeginClaim(c) \/ CommitClaim(c)
    \/ DbTick

AdmissionSpec == AdmissionInit /\ [][AdmissionNext]_admissionVars

(***************************************************************************)
(* Properties.                                                             *)
(***************************************************************************)
(* Neither ceiling is passed by submissions that count at once:            *)
(* admission never queues more Runs than max_queued_runs and claims never  *)
(* make more of a principal's Runs active than its quota (the coordination *)
(* row; with max_active_runs configured, as here, the claim locks it too). *)
CeilingsHold ==
    /\ Cardinality(RunsIn("queued")) <= MaxQueued
    /\ Cardinality(RunsIn("active")) <= PrincipalActive

(* "Equal replays return that Run": once a submission has bound the key,   *)
(* no later request under it is refused by the full queue or admits a Run  *)
(* of its own; it gets the bound Run or, for other content, a conflict.    *)
ReplayGetsItsRun ==
    [][\A s \in Submission :
         request[s].at = "commit" /\ Bound(s) /\ request'[s].at # "commit" =>
             /\ request'[s].answer # "queue_full"
             /\ submitted'[s] = submitted[s]]_admissionVars

(* A submission that one bucket refuses takes no token out of the other,   *)
(* so both count the same submissions (_consume_submission_tokens).        *)
RefusalTakesNothing == taken["global"] = taken["principal"]

\* Concurrent submissions and claims keep the ceilings, pay in both buckets or in none,
\* and a replay gets the Run of its key (the parts above).
AdmissionIsFair ==
    /\ [](CeilingsHold /\ RefusalTakesNothing)
    /\ ReplayGetsItsRun
=============================================================================
