----------------------------- MODULE ToolBatch -----------------------------
(***************************************************************************)
(* A conversation of the plain Agent (src/axiom/agent/agent.py, query.py)  *)
(* and the tool calls of each of its turns (src/axiom/tools/executor.py):  *)
(* the read-only ones first and side by side, then the others one by one,  *)
(* each through validation, the permission policy and the approval of the  *)
(* user.  The model, the user and the tools do as they like.               *)
(***************************************************************************)
EXTENDS Integers, Sequences, FiniteSets

CONSTANTS ReadLimit,        \* tools.max_concurrent_read
          TurnLimit,        \* max_turns of a request
          MaxCalls, MaxRequests   \* bounds: calls of an answer, requests of the user

ASSUME BatchAssumption == ReadLimit \in Nat \ {0} /\ TurnLimit \in Nat \ {0} /\ MaxCalls \in Nat

Kinds == {"read", "write", "unknown"}

VARIABLES kept,      \* Agent.history
          conversation,  \* those of the request
          turns, query,
          calls,     \* the calls of the answer, in its order
          stage,     \* where each is, by its position
          refused, ran,   \* the calls of it that were refused, and those whose handler ran
          requests

batchVars == <<kept, conversation, turns, query, calls, stage, refused, ran, requests>>

BatchInit ==
    /\ kept = <<>> /\ conversation = <<>> /\ turns = 0 /\ query = "over"
    /\ calls = <<>> /\ stage = <<>> /\ refused = {} /\ ran = {} /\ requests = 0

CallPositions == DOMAIN calls
IsRead(i) == calls[i].kind = "read"
Others == {i \in CallPositions : ~IsRead(i)}
Executing(i) == stage[i] \in {"permission", "approval", "handler"}
HasResult(i) == stage[i] = "answered"

RequestSent ==
    /\ query \in {"over", "failed"} /\ requests < MaxRequests /\ requests' = requests + 1
    /\ conversation' = Append(kept, [role |-> "user", calls |-> {}])
    /\ turns' = 0 /\ query' = "model" /\ calls' = <<>> /\ stage' = <<>> /\ refused' = {} /\ ran' = {}
    /\ UNCHANGED kept

(***************************************************************************)
(* The model answers.                                                      *)
(***************************************************************************)

\* A call is named by the request, the message before it and its position.
Batch(kinds, before) == [i \in DOMAIN kinds |-> [kind |-> kinds[i], id |-> <<requests, Len(before), i>>]]

AnswerTurn(kinds) ==
    /\ query = "model" /\ turns < TurnLimit /\ turns' = turns + 1
    /\ LET batch == Batch(kinds, conversation)
       IN /\ conversation' = Append(conversation, [role |-> "assistant", calls |-> {batch[i].id : i \in DOMAIN batch}])
          /\ calls' = batch /\ stage' = [i \in DOMAIN batch |-> "waiting"]
    /\ \/ kinds = <<>> /\ query' = "finishing"    \* an answer without tools, or cut off
       \/ query' = "tools"
    /\ UNCHANGED <<kept, refused, ran, requests>>

StreamFails ==
    /\ query = "model" /\ turns < TurnLimit /\ query' = "failed"
    /\ UNCHANGED <<kept, conversation, turns, calls, stage, refused, ran, requests>>

(***************************************************************************)
(* execute_all.                                                            *)
(***************************************************************************)
To(i, where) == stage' = [stage EXCEPT ![i] = where]
InBatch == UNCHANGED <<kept, conversation, turns, calls, requests>>

StartRead(i) ==
    /\ query = "tools" /\ IsRead(i) /\ stage[i] = "waiting"
    /\ Cardinality({j \in CallPositions : IsRead(j) /\ Executing(j)}) < ReadLimit
    /\ To(i, "permission") /\ InBatch /\ UNCHANGED <<query, refused, ran>>

\* The others wait for every read, and for those before them.
StartOther(i) ==
    /\ query = "tools" /\ ~IsRead(i) /\ stage[i] = "waiting"
    /\ \A j \in CallPositions : IsRead(j) \/ j < i => HasResult(j)
    /\ To(i, IF calls[i].kind = "unknown" THEN "answered" ELSE "permission")
    /\ InBatch /\ UNCHANGED <<query, refused, ran>>

\* Validation, the evaluation of the policy or the approval callback raises: the
\* error is the result.
Invalid(i) ==
    /\ query = "tools" /\ stage[i] \in {"permission", "approval"} /\ To(i, "answered")
    /\ refused' = refused \cup {calls[i].id} /\ InBatch /\ UNCHANGED <<query, ran>>

Permit(i) ==
    /\ query = "tools" /\ stage[i] = "permission"
    /\ \/ To(i, "handler") /\ UNCHANGED refused
       \/ To(i, "approval") /\ UNCHANGED refused
       \/ To(i, "answered") /\ refused' = refused \cup {calls[i].id}
    /\ InBatch /\ UNCHANGED <<query, ran>>

\* Without a callback the answer is "deny".
Approve(i) ==
    /\ query = "tools" /\ stage[i] = "approval"
    /\ \E answer \in {"approve", "deny", "skip"} :
         IF answer = "approve" THEN To(i, "handler") /\ UNCHANGED refused
         ELSE To(i, "answered") /\ refused' = refused \cup {calls[i].id}
    /\ InBatch /\ UNCHANGED <<query, ran>>

\* It returns, raises or times out: each of these is a result.
HandlerEnds(i) ==
    /\ query = "tools" /\ stage[i] = "handler" /\ To(i, "answered")
    /\ ran' = ran \cup {calls[i].id} /\ InBatch /\ UNCHANGED <<query, refused>>

\* The audit log cannot be written: neither the first time nor in the handler of
\* that error.  The error of a call that is not read-only leaves execute_all.
AuditFails(i) ==
    /\ query = "tools" /\ Executing(i) /\ calls[i].kind = "write"
    /\ query' = "failed"
    /\ IF stage[i] = "handler" THEN ran' = ran \cup {calls[i].id} /\ UNCHANGED refused
       ELSE refused' = refused \cup {calls[i].id} /\ UNCHANGED ran
    /\ InBatch /\ UNCHANGED stage

\* The results of the reads come first, each kind's in the order of the answer.
Before(i, j) == IF IsRead(i) = IsRead(j) THEN i < j ELSE IsRead(i)

Arranged(positions) ==
    {order \in [1 .. Cardinality(positions) -> positions] :
        \A k, m \in DOMAIN order : k < m => Before(order[k], order[m])}

\* mutant: the sequential results replace those of the reads
OnlyOthers == Arranged(IF Others = {} THEN CallPositions ELSE Others)
ResultOrder == Arranged(CallPositions)

Report ==
    /\ query = "tools" /\ \A i \in CallPositions : HasResult(i)
    /\ \E order \in ResultOrder :
         conversation' = conversation \o [k \in DOMAIN order |-> [role |-> "tool", calls |-> {calls[order[k]].id}]]
    /\ query' = "model" /\ calls' = <<>> /\ stage' = <<>> /\ refused' = {} /\ ran' = {}
    /\ UNCHANGED <<kept, turns, requests>>

(***************************************************************************)
(* The end of a request.                                                   *)
(***************************************************************************)
\* The caller cancels: the reads that run are cancelled with the gather.
CancelRequest ==
    /\ query \in {"model", "tools"} /\ query' = "failed"
    /\ UNCHANGED <<kept, conversation, turns, calls, stage, refused, ran, requests>>

\* Only "done" replaces the history of the Agent; an error leaves it as it was.
Finish ==
    /\ query = "finishing" \/ (query = "model" /\ turns = TurnLimit)
    /\ query' = "over" /\ kept' = conversation
    /\ UNCHANGED <<conversation, turns, calls, stage, refused, ran, requests>>

BatchNext ==
    \/ RequestSent \/ StreamFails \/ Report \/ CancelRequest \/ Finish
    \/ \E n \in 0..MaxCalls : \E kinds \in [1..n -> Kinds] : AnswerTurn(kinds)
    \/ \E i \in CallPositions : StartRead(i) \/ StartOther(i) \/ Invalid(i) \/ Permit(i) \/ Approve(i)
                            \/ HandlerEnds(i) \/ AuditFails(i)

BatchSpec == BatchInit /\ [][BatchNext]_batchVars

(***************************************************************************)
(* What the Agent relies on.                                               *)
(***************************************************************************)

\* A call that changes something runs with no other call beside it, and no more
\* reads run at once than configured, whatever the order the model gave.
CallsDoNotCollide ==
    query = "tools" =>
        /\ \A i, j \in CallPositions : Executing(i) /\ Executing(j) /\ i # j => IsRead(i) /\ IsRead(j)
        /\ Cardinality({i \in CallPositions : IsRead(i) /\ Executing(i)}) <= ReadLimit

\* No handler ran for a call that the policy, the validation or the user refused.
NothingRefusedRan == refused \cap ran = {}

\* Each call of the history that the next request starts from has exactly one result
\* there, which follows the answer that asked for it with only other results between,
\* and no result is without a call, whichever requests failed or were cancelled.
ResultsOf(c) == {m \in DOMAIN kept : kept[m].role = "tool" /\ kept[m].calls = {c}}

KeptHistoryIsWhole ==
    /\ \A k \in DOMAIN kept : kept[k].role = "assistant" =>
          \A c \in kept[k].calls : \E m \in k + 1 .. Len(kept) :
              ResultsOf(c) = {m} /\ \A x \in k + 1 .. m : kept[x].role = "tool"
    /\ \A m \in DOMAIN kept : kept[m].role = "tool" =>
          \E k \in 1 .. m - 1 : kept[k].role = "assistant" /\ \E c \in kept[k].calls : kept[m].calls = {c}

\* The calls of one turn do not collide, those refused do not run, and every one has its
\* result in the history (the parts above).
BatchIsSound ==
    /\ CallsDoNotCollide
    /\ NothingRefusedRan
    /\ KeptHistoryIsWhole
=============================================================================
