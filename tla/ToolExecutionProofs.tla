------------------------- MODULE ToolExecutionProofs ------------------------
(***************************************************************************)
(* Proofs about ToolExecution, for any calls, permission policy, retry     *)
(* allowance and bounds.                                                   *)
(*                                                                         *)
(* The inductive invariant IInv says what the records, and the copies in   *)
(* the frames, have to do with each other.  Only the execution under the   *)
(* latest ownership can write, so only its frame is Coherent with the      *)
(* durable state; the older ones may run the tool, which Underway counts.  *)
(***************************************************************************)
EXTENDS ToolExecution, FiniteSetTheorems, TLAPS

Resting == {"idle", "preflight"}

\* The record may still be started from here.
Starting == {"permission", "create", "backoff", "charge", "start"}

\* The tool was, or may be, run for the record.
Started == {"execute", "cancelled", "record"}

Permitted(c, answer) == Policy[c] = "ALLOW" \/ answer = "approve"

\* Of every frame, stale ones included.
Sane(f) ==
    f.pc \notin Resting =>
        /\ f.at \in Call
        /\ f.answer = "approve" => approvals[f.at] >= 1

\* Of the frame under the latest ownership.
Coherent(f) ==
    f.pc \notin Resting =>
        LET c == f.at
        IN /\ c = next
           /\ live => f.answer = decision[c]
           /\ f.pc \notin {"lookup", "record"} => f.rec = record[c]
           /\ f.pc \in Starting \cup {"deny"} =>
                 /\ f.rec.status # "SUCCEEDED"
                 /\ c \in Unsafe /\ approvals[c] = 0 => f.rec.attempt = 0
           /\ f.pc \in Starting => f.rec.attempt < MaxAttempts
           /\ f.pc \in (Starting \ {"permission"}) \cup {"execute", "record"} =>
                 Permitted(c, f.answer) /\ f.answer # "reject"
           /\ f.pc \in {"create", "charge", "start", "execute", "cancelled"} => f.rec.retry # "PENDING"
           /\ f.pc = "create" => f.rec.status = "ABSENT"
           /\ f.pc = "backoff" => f.rec.retry = "PENDING"
           /\ f.pc = "start" => NextAttempt(f.rec) \in charged[c]
           /\ f.pc \in Started \cup {"exhaust"} => record[c].status = "RUNNING"
           /\ f.pc = "record" => f.rec \in AfterFailure(c, record[c].attempt) \cup {Succeeded(record[c])}
           /\ f.pc \in {"apply", "reuse"} => f.rec.status \in {"SUCCEEDED", "FAILED", "UNKNOWN"}

Underway(c) == {g \in Generation : frame[g].pc = "execute" /\ frame[g].at = c}

\* The record of a call against its history.
Recorded(c, rec) ==
    /\ rec.attempt <= MaxAttempts
    /\ rec.status \in {"ABSENT", "PENDING"} => rec.attempt = 0
    /\ rec.status = "ABSENT" => rec = NoRecord
    /\ rec.retry = "PENDING" =>
          rec.status = "FAILED" /\ rec.attempt < MaxAttempts /\ c \notin Unsafe
    /\ c \in Unsafe /\ approvals[c] = 0 =>
          /\ rec.attempt <= IF Policy[c] = "ALLOW" THEN 1 ELSE 0
          /\ rec.status \in {"FAILED", "UNKNOWN"} /\ rec.retry = "NONE" => rec.attempt = 0

\* What the attempts of a record stand for.
Counted(c) ==
    /\ IsFiniteSet(charged[c])
    /\ 1 .. record[c].attempt \subseteq charged[c]
    /\ runs[c] + Cardinality(Underway(c)) <= record[c].attempt

Asked ==
    /\ status = "WAITING_APPROVAL" => ~live
    /\ \A c \in Call :
          /\ approvals[c] <= controls
          /\ decision[c] = "approve" => approvals[c] >= 1

IInv ==
    /\ TypeOK
    /\ Asked
    /\ TranscriptMatchesRecord
    /\ \A g \in Generation : Sane(frame[g])
    /\ \A g \in Generation : g = generation => Coherent(frame[g])
    /\ \A c \in Call : Recorded(c, record[c])
    /\ \A c \in Call : Counted(c)

(***************************************************************************)
(* Steps that change one frame only.                                       *)
(***************************************************************************)
LEMMA UnderwayKept ==
    ASSUME TypeOK, NEW g \in Generation, NEW f, Goto(g, f),
           frame[g].pc # "execute", f.pc # "execute"
    PROVE  \A c \in Call : Underway(c)' = Underway(c)
  BY DEF TypeOK, Goto, Underway

\* A local step that does not enter or leave the tool preserves IInv when the frame it
\* leaves is Sane, and Coherent under the latest ownership.
LEMMA MovePreserves ==
    ASSUME IInv, NEW g \in Generation, NEW f \in Frame, Move(g, f),
           frame[g].pc # "execute", f.pc # "execute",
           Sane(f), g = generation => Coherent(f)
    PROVE  IInv'
<1> USE DEF Move, Goto, durableVars, ownerVars, historyVars
<1>1. TypeOK'
  BY DEF IInv, TypeOK
<1>2. Asked' /\ TranscriptMatchesRecord'
  BY DEF IInv, Asked, TranscriptMatchesRecord
<1>3. \A h \in Generation : Sane(frame[h])'
  <2> TAKE h \in Generation
  <2>1. frame'[h] = IF h = g THEN f ELSE frame[h]
    BY DEF IInv, TypeOK
  <2> QED
    BY <2>1 DEF IInv, Sane
<1>4. \A h \in Generation : (h = generation)' => Coherent(frame[h])'
  <2> TAKE h \in Generation
  <2> HAVE (h = generation)'
  <2>1. frame'[h] = IF h = g THEN f ELSE frame[h]
    BY DEF IInv, TypeOK
  <2>2. CASE h = g
    BY <2>1, <2>2 DEF IInv, Coherent
  <2>3. CASE h # g
    BY <2>1, <2>3 DEF IInv, Coherent
  <2> QED
    BY <2>2, <2>3
<1>5. \A c \in Call : Recorded(c, record[c])'
  BY DEF IInv, Recorded
<1>6. \A c \in Call : Counted(c)'
  <2> TAKE c \in Call
  <2>1. Underway(c)' = Underway(c)
    BY UnderwayKept DEF IInv
  <2> QED
    BY <2>1 DEF IInv, Counted
<1> QED
  BY <1>1, <1>2, <1>3, <1>4, <1>5, <1>6 DEF IInv

(***************************************************************************)
(* A save of the record that starts no attempt.                            *)
(***************************************************************************)
LEMMA SavePreserves ==
    ASSUME IInv, NEW g \in Generation, NEW rec \in Record, NEW pc,
           SaveRecord(g, rec, pc),
           pc \in {"charge", "reuse", "apply", "backoff"},
           frame[g].pc \notin Resting \cup {"execute"},
           rec.attempt = record[frame[g].at].attempt,
           Recorded(frame[g].at, rec),
           Coherent(frame[g])'
    PROVE  IInv'
<1> DEFINE c == frame[g].at
           f == [frame[g] EXCEPT !.pc = pc, !.rec = rec]
<1> USE DEF SaveRecord, Goto, ownerVars, historyVars
<1>1. g = generation /\ Authorised(g) /\ frame[g] \in Frame
  BY DEF IInv, TypeOK, Authorised
<1>2. c \in Call /\ c = next
  BY <1>1 DEF IInv, Sane, Coherent
<1>3. f \in Frame
  BY <1>1 DEF Frame
<1>4. TypeOK'
  <2>1. frame' = [frame EXCEPT ![g] = f] /\ frame' \in [Generation -> Frame]
    BY <1>3 DEF IInv, TypeOK
  <2>2. record' \in [Call -> Record]
    BY <1>2 DEF IInv, TypeOK
  <2> QED
    BY <2>1, <2>2 DEF IInv, TypeOK
<1>5. Asked'
  BY DEF IInv, Asked
<1>6. TranscriptMatchesRecord'
  <2>1. \A d \in Call : d # c => record'[d] = record[d]
    BY <1>2 DEF IInv, TypeOK
  <2>2. told[c] = "nothing"
    BY <1>2, CallAssumption DEF IInv, TypeOK, Call, TranscriptMatchesRecord
  <2> QED
    BY <2>1, <2>2 DEF IInv, TranscriptMatchesRecord
<1>7. \A h \in Generation : frame'[h] = IF h = g THEN f ELSE frame[h]
  BY DEF IInv, TypeOK
<1>8. \A h \in Generation : Sane(frame[h])'
  BY <1>2, <1>7 DEF IInv, Sane
<1>9. \A h \in Generation : (h = generation)' => Coherent(frame[h])'
  <2> TAKE h \in Generation
  <2> HAVE (h = generation)'
  <2> QED
    BY <1>1
<1>10. \A d \in Call : record'[d] = IF d = c THEN rec ELSE record[d]
  BY <1>2 DEF IInv, TypeOK
<1>11. \A d \in Call : Recorded(d, record[d])'
  BY <1>10 DEF IInv, Recorded
<1>12. \A d \in Call : Counted(d)'
  <2> TAKE d \in Call
  <2>1. f.pc # "execute" /\ frame[g].pc # "execute" /\ Goto(g, f)
    BY <1>1 DEF Frame
  <2>2. Underway(d)' = Underway(d)
    BY <2>1, UnderwayKept DEF IInv
  <2> QED
    BY <2>2, <1>10 DEF IInv, Counted
<1> QED
  BY <1>4, <1>5, <1>6, <1>8, <1>9, <1>11, <1>12 DEF IInv

(***************************************************************************)
(* The steps of the tool step, one lemma for each.                         *)
(***************************************************************************)
LEMMA PreflightPreserves ==
    ASSUME IInv, NEW g \in Generation, Preflight(g)
    PROVE  IInv'
<1> DEFINE f == IF next > Calls THEN Idle
                ELSE [pc |-> "lookup", base |-> sequence, at |-> next,
                      answer |-> decision[next], rec |-> NoRecord]
<1>1. Move(g, f) /\ frame[g].pc # "execute" /\ f.pc # "execute"
  BY DEF Preflight, At, Idle
<1>2. CASE next > Calls
  <2>1. f \in Frame /\ f.pc = "idle"
    BY <1>2 DEF Idle, Frame, Decision, Record, NoRecord
  <2> QED
    BY <1>1, <2>1, MovePreserves DEF Sane, Coherent, Resting
<1>3. CASE next \in Call
  <2>1. f = [pc |-> "lookup", base |-> sequence, at |-> next,
             answer |-> decision[next], rec |-> NoRecord]
    BY <1>3, CallAssumption DEF Call
  <2>2. f \in Frame
    BY <2>1, <1>3 DEF IInv, TypeOK, Frame, Decision, Record, NoRecord, Call
  <2>3. Sane(f)
    BY <2>1, <1>3 DEF IInv, Asked, Sane
  <2>4. Coherent(f)
    BY <2>1, <1>3 DEF Coherent, Starting, Started
  <2> HIDE DEF f
  <2> QED
    BY <1>1, <2>2, <2>3, <2>4, MovePreserves
<1> QED
  BY <1>2, <1>3, CallAssumption DEF IInv, TypeOK, Call

\* What Lookup decides to do fits the record that it found.
LEMMA LookupPreserves ==
    ASSUME IInv, NEW g \in Generation, Lookup(g)
    PROVE  IInv'
<1> DEFINE c == frame[g].at
           rec == record[c]
           pc == CASE rec.status = "SUCCEEDED" \/ Concluded(rec) -> "reuse"
                   [] rec.status = "RUNNING" /\ rec.attempt >= MaxAttempts -> "exhaust"
                   [] rec.status = "RUNNING" /\ rec.attempt < MaxAttempts
                         /\ Ambiguous(c, rec, frame[g].answer) -> "park"
                   [] OTHER -> "permission"
           f == [frame[g] EXCEPT !.rec = rec, !.pc = pc]
<1>1. Move(g, f)
  BY DEF Lookup
<1>2. frame[g] \in Frame /\ frame[g].pc = "lookup"
  BY DEF IInv, TypeOK, Lookup, At
<1>3. c \in Call /\ rec \in Record /\ (frame[g].answer = "approve" => approvals[c] >= 1)
  BY <1>2 DEF IInv, TypeOK, Sane, Resting
<1>4. pc \in {"reuse", "exhaust", "park", "permission"}
  OBVIOUS
<1>5. f \in Frame
  BY <1>2, <1>3, <1>4 DEF Frame
<1>6. Sane(f)
  BY <1>2, <1>3, <1>5 DEF Sane, Frame
<1>7. ASSUME g = generation PROVE Coherent(f)
  <2>1. c = next /\ (live => frame[g].answer = decision[c])
    BY <1>2, <1>7 DEF IInv, Coherent, Resting
  <2>2. pc \in {"reuse"} => rec.status \in {"SUCCEEDED", "FAILED", "UNKNOWN"}
    BY DEF Concluded
  <2>3. pc = "exhaust" => rec.status = "RUNNING"
    BY DEF Concluded
  <2>4. ASSUME pc = "permission"
        PROVE  /\ rec.status # "SUCCEEDED" /\ rec.attempt < MaxAttempts
               /\ c \in Unsafe /\ approvals[c] = 0 => rec.attempt = 0
    <3>1. /\ rec.status # "SUCCEEDED" /\ ~Concluded(rec)
          /\ rec.status = "RUNNING" =>
                rec.attempt < MaxAttempts /\ ~Ambiguous(c, rec, frame[g].answer)
      BY <2>4, <1>3, BoundAssumption DEF Record
    <3>2. Recorded(c, rec)
      BY <1>3 DEF IInv
    <3>3. rec.attempt < MaxAttempts
      BY <3>1, <3>2, <1>3, BoundAssumption DEF Recorded, Concluded, Record
    <3>4. ASSUME c \in Unsafe, approvals[c] = 0 PROVE rec.attempt = 0
      <4>1. rec.status # "RUNNING"
        BY <3>1, <3>4, <1>3 DEF Ambiguous
      <4> QED
        BY <4>1, <3>1, <3>2, <3>4, <1>3 DEF Recorded, Concluded, Record
    <3> QED
      BY <3>1, <3>3, <3>4
  <2>5. f.pc = pc /\ f.at = c /\ f.rec = rec /\ f.answer = frame[g].answer
    BY <1>2 DEF Frame
  <2> HIDE DEF f, pc
  <2> QED
    BY <1>4, <2>1, <2>2, <2>3, <2>4, <2>5 DEF Coherent, Starting, Started
<1> HIDE DEF f, pc
<1> QED
  BY <1>1, <1>2, <1>4, <1>5, <1>6, <1>7, MovePreserves DEF f, Frame

\* Whoever passes the permission was allowed by the policy or by an approval.
LEMMA PermitPreserves ==
    ASSUME IInv, NEW g \in Generation, Permit(g)
    PROVE  IInv'
<1> DEFINE c == frame[g].at
           permission == Permission(c, frame[g].answer)
           pc == CASE permission = "REQUIRE_APPROVAL" -> "park"
                   [] permission = "DENY" -> "deny"
                   [] permission = "ALLOW" ->
                         IF Rec(g).status = "ABSENT" THEN "create"
                         ELSE IF Rec(g).retry = "PENDING" THEN "backoff"
                         ELSE "charge"
           f == [frame[g] EXCEPT !.pc = pc]
<1>1. Move(g, f)
  BY DEF Permit
<1>2. frame[g] \in Frame /\ frame[g].pc = "permission"
  BY DEF IInv, TypeOK, Permit, At
<1>3. c \in Call /\ (frame[g].answer = "approve" => approvals[c] >= 1)
  BY <1>2 DEF IInv, TypeOK, Sane, Resting
<1>4. permission \in {"ALLOW", "REQUIRE_APPROVAL", "DENY"}
  BY <1>3, CallAssumption DEF Permission
<1>5. /\ pc \in {"park", "deny", "create", "backoff", "charge"}
      /\ pc = "create" => Rec(g).status = "ABSENT"
      /\ pc = "backoff" => Rec(g).retry = "PENDING"
      /\ pc = "charge" => Rec(g).retry # "PENDING"
      /\ pc \in {"create", "backoff", "charge"} => permission = "ALLOW"
  BY <1>4
<1>6. f \in Frame /\ f.pc = pc /\ f.at = c /\ f.rec = Rec(g) /\ f.answer = frame[g].answer
  BY <1>2, <1>5 DEF Frame, Rec
<1>7. Sane(f)
  BY <1>3, <1>6 DEF Sane
<1>8. permission = "ALLOW" => Permitted(c, frame[g].answer) /\ frame[g].answer # "reject"
  BY DEF Permission, Permitted
<1>9. ASSUME g = generation PROVE Coherent(f)
  <2>1. Coherent(frame[g]) /\ Recorded(c, record[c])
    BY <1>3, <1>9 DEF IInv
  <2>2. /\ c = next /\ (live => frame[g].answer = decision[c]) /\ Rec(g) = record[c]
        /\ Rec(g).status # "SUCCEEDED" /\ Rec(g).attempt < MaxAttempts
        /\ c \in Unsafe /\ approvals[c] = 0 => Rec(g).attempt = 0
    BY <1>2, <2>1 DEF Coherent, Resting, Starting, Rec
  <2>3. Rec(g).status = "ABSENT" => Rec(g).retry # "PENDING"
    BY <2>1, <2>2 DEF Recorded, NoRecord
  <2> HIDE DEF f, pc, permission
  <2> QED
    BY <1>5, <1>6, <1>8, <2>2, <2>3 DEF Coherent, Starting, Started
<1> HIDE DEF f, pc
<1> QED
  BY <1>1, <1>2, <1>5, <1>6, <1>7, <1>9, MovePreserves

\* An execution that finds that it lost the Run leaves nothing behind.
LEMMA StopPreserves ==
    ASSUME IInv, NEW g \in Generation, Stop(g)
    PROVE  IInv'
<1>1. Move(g, Idle) /\ frame[g].pc # "execute"
  BY DEF Stop, Writing
<1>2. Idle \in Frame /\ Idle.pc = "idle"
  BY DEF Idle, Frame, Decision, Record, NoRecord
<1> QED
  BY <1>1, <1>2, MovePreserves DEF Sane, Coherent, Resting

\* What an execution that may write knows.
LEMMA WriterFacts ==
    ASSUME IInv, NEW g \in Generation, Authorised(g), frame[g].pc \notin Resting
    PROVE  /\ g = generation /\ live /\ status = "RUNNING"
           /\ frame[g] \in Frame /\ Coherent(frame[g])
           /\ frame[g].at \in Call /\ frame[g].at = next
           /\ frame[g].answer = decision[next]
           /\ record[frame[g].at] \in Record
           /\ Recorded(frame[g].at, record[frame[g].at])
           /\ Counted(frame[g].at)
<1>1. g = generation /\ live /\ status = "RUNNING"
  BY DEF Authorised
<1>2. frame[g] \in Frame /\ Coherent(frame[g]) /\ frame[g].at \in Call
  BY <1>1 DEF IInv, TypeOK, Sane
<1> QED
  BY <1>1, <1>2 DEF IInv, TypeOK, Coherent

\* What a fenced save of the record changes.
LEMMA SaveFacts ==
    ASSUME IInv, NEW g \in Generation, NEW rec \in Record, NEW pc, SaveRecord(g, rec, pc),
           frame[g].pc \notin Resting
    PROVE  /\ frame'[g].pc = pc /\ frame'[g].rec = rec
           /\ frame'[g].at = frame[g].at /\ frame'[g].answer = frame[g].answer
           /\ record'[frame[g].at] = rec
           /\ UNCHANGED <<status, next, decision, charged, generation, live, approvals>>
<1>1. frame[g] \in Frame /\ frame[g].at \in Call /\ record \in [Call -> Record]
      /\ frame \in [Generation -> Frame]
  BY DEF IInv, TypeOK, Sane
<1>2. frame'[g] = [frame[g] EXCEPT !.pc = pc, !.rec = rec]
  BY <1>1 DEF SaveRecord, Goto
<1> QED
  BY <1>1, <1>2 DEF SaveRecord, Frame, ownerVars, historyVars

\* The record of a tool that was interrupted in its last attempt is given up.
LEMMA ExhaustedPreserves ==
    ASSUME IInv, NEW g \in Generation, Exhausted(g)
    PROVE  IInv'
<1> DEFINE c == frame[g].at
           rec == [Rec(g) EXCEPT !.status = "FAILED", !.retry = "EXHAUSTED"]
<1>1. SaveRecord(g, rec, "reuse") /\ frame[g].pc = "exhaust"
  BY DEF Exhausted, At
<1>2. Authorised(g) /\ frame[g].pc \notin Resting
  BY <1>1 DEF SaveRecord, Resting
<1>3. Rec(g) = record[c] /\ Rec(g) \in Record /\ record[c].status = "RUNNING"
  BY <1>1, <1>2, WriterFacts DEF Coherent, Rec
<1>4. rec \in Record /\ rec.attempt = record[c].attempt /\ rec.status = "FAILED"
      /\ rec.retry = "EXHAUSTED"
  BY <1>3 DEF Record
<1>5. Recorded(c, rec)
  BY <1>2, <1>4, WriterFacts DEF Recorded
<1> HIDE DEF rec
<1>6. Coherent(frame[g])'
  BY <1>1, <1>2, <1>4, WriterFacts, SaveFacts DEF Coherent, Starting, Started, Resting
<1> QED
  BY <1>1, <1>2, <1>4, <1>5, <1>6, SavePreserves

\* A denied call is marked FAILED; its attempt does not change.
LEMMA DenyPreserves ==
    ASSUME IInv, NEW g \in Generation, Deny(g)
    PROVE  IInv'
<1> DEFINE c == frame[g].at
           rec == Denied(Rec(g))
<1>1. SaveRecord(g, rec, "apply") /\ frame[g].pc = "deny"
  BY DEF Deny, At
<1>2. Authorised(g) /\ frame[g].pc \notin Resting
  BY <1>1 DEF SaveRecord, Resting
<1>3. /\ Rec(g) = record[c] /\ Rec(g) \in Record
      /\ c \in Unsafe /\ approvals[c] = 0 => Rec(g).attempt = 0
  BY <1>1, <1>2, WriterFacts DEF Coherent, Rec, Resting, Starting
<1>4. /\ rec \in Record /\ rec.attempt = record[c].attempt /\ rec.status = "FAILED"
      /\ rec.retry = record[c].retry
  BY <1>3 DEF Denied, Record
<1>5. Recorded(c, rec)
  BY <1>2, <1>3, <1>4, WriterFacts DEF Recorded
<1> HIDE DEF rec
<1>6. Coherent(frame[g])'
  BY <1>1, <1>2, <1>4, WriterFacts, SaveFacts DEF Coherent, Starting, Started, Resting
<1> QED
  BY <1>1, <1>2, <1>4, <1>5, <1>6, SavePreserves

\* A new record is PENDING and has no attempt.
LEMMA CreatePreserves ==
    ASSUME IInv, NEW g \in Generation, Create(g)
    PROVE  IInv'
<1> DEFINE c == frame[g].at
           rec == [Rec(g) EXCEPT !.status = "PENDING"]
<1>1. SaveRecord(g, rec, "charge") /\ frame[g].pc = "create"
  BY DEF Create, At
<1>2. Authorised(g) /\ frame[g].pc \notin Resting
  BY <1>1 DEF SaveRecord, Resting
<1>3. /\ Rec(g) = record[c] /\ Rec(g) \in Record
      /\ Rec(g).status = "ABSENT"
      /\ Permitted(c, frame[g].answer) /\ frame[g].answer # "reject"
  BY <1>1, <1>2, WriterFacts DEF Coherent, Rec, Resting, Starting
<1>4. rec.attempt = 0 /\ record[c].attempt = 0 /\ rec.retry = "NONE" /\ rec.status = "PENDING"
      /\ rec \in Record
  BY <1>2, <1>3, WriterFacts DEF Recorded, NoRecord, Record
<1>5. Recorded(c, rec)
  BY <1>2, <1>4, WriterFacts, BoundAssumption DEF Recorded
<1> HIDE DEF rec
<1>6. Coherent(frame[g])'
  BY <1>1, <1>2, <1>3, <1>4, WriterFacts, SaveFacts, BoundAssumption
  DEF Coherent, Starting, Started, Resting
<1> QED
  BY <1>1, <1>2, <1>4, <1>5, <1>6, SavePreserves

\* The end of the wait, or of the Run's time, withdraws the planned retry.
LEMMA BackoffPreserves ==
    ASSUME IInv, NEW g \in Generation, Backoff(g)
    PROVE  IInv'
<1> DEFINE c == frame[g].at
<1>1. frame[g].pc = "backoff" /\ Authorised(g)
  BY DEF Backoff, At, SaveRecord
<1>2. frame[g].pc \notin Resting
  BY <1>1 DEF Resting
<1>3. /\ Rec(g) = record[c] /\ Rec(g) \in Record /\ Rec(g).retry = "PENDING"
      /\ Permitted(c, frame[g].answer) /\ frame[g].answer # "reject"
      /\ Rec(g).attempt < MaxAttempts
      /\ c \in Unsafe /\ approvals[c] = 0 => Rec(g).attempt = 0
  BY <1>1, <1>2, WriterFacts DEF Coherent, Rec, Resting, Starting
<1>4. Rec(g).status = "FAILED" /\ c \notin Unsafe
  BY <1>1, <1>2, <1>3, WriterFacts DEF Recorded
<1>5. ASSUME NEW retry \in {"NONE", "SUPPRESSED"}, NEW pc,
             pc = IF retry = "NONE" THEN "charge" ELSE "apply",
             SaveRecord(g, [Rec(g) EXCEPT !.retry = retry], pc)
      PROVE  IInv'
  <2> DEFINE rec == [Rec(g) EXCEPT !.retry = retry]
  <2>1. rec \in Record /\ rec.attempt = record[c].attempt /\ rec.status = "FAILED" /\ rec.retry = retry
    BY <1>3, <1>4 DEF Record
  <2>2. Recorded(c, rec)
    BY <1>1, <1>2, <1>4, <2>1, WriterFacts DEF Recorded
  <2>3. SaveRecord(g, rec, pc)
    BY <1>5
  <2> HIDE DEF rec
  <2>4. Coherent(frame[g])'
    BY <1>1, <1>2, <1>3, <1>4, <1>5, <2>1, <2>3, WriterFacts, SaveFacts
    DEF Coherent, Starting, Started, Resting
  <2> QED
    BY <1>1, <1>2, <1>5, <2>1, <2>2, <2>3, <2>4, SavePreserves
<1> QED
  BY <1>5 DEF Backoff

\* The outcome that is saved is one that the running attempt can have.
LEMMA SaveOutcomePreserves ==
    ASSUME IInv, NEW g \in Generation, SaveOutcome(g)
    PROVE  IInv'
<1> DEFINE c == frame[g].at
           rec == Rec(g)
           pc == IF Rec(g).retry = "PENDING" THEN "backoff" ELSE "apply"
<1>1. SaveRecord(g, rec, pc) /\ frame[g].pc = "record"
  BY DEF SaveOutcome, At
<1>2. Authorised(g) /\ frame[g].pc \notin Resting
  BY <1>1 DEF SaveRecord, Resting
<1>3. /\ rec \in AfterFailure(c, record[c].attempt) \cup {Succeeded(record[c])}
      /\ record[c].status = "RUNNING" /\ rec \in Record /\ record[c] \in Record
      /\ Permitted(c, frame[g].answer) /\ frame[g].answer # "reject"
  BY <1>1, <1>2, WriterFacts DEF Coherent, Rec, Resting, Started, Frame
<1>4. /\ rec.attempt = record[c].attempt
      /\ rec.status \in {"SUCCEEDED", "FAILED", "UNKNOWN"}
      /\ rec.retry = "PENDING" =>
            rec.status = "FAILED" /\ rec.attempt < MaxAttempts /\ c \notin Unsafe
      /\ rec.status \in {"FAILED", "UNKNOWN"} => rec.retry # "NONE"
  <2> DEFINE n == record[c].attempt
  <2>1. n \in Nat
    BY <1>3 DEF Record
  <2>2. CASE rec = Succeeded(record[c])
    BY <1>3, <2>2 DEF Succeeded, Record
  <2>3. CASE rec \in AfterFailure(c, n)
    <3>1. /\ rec.attempt = n /\ rec.status \in {"FAILED", "UNKNOWN"} /\ rec.retry # "NONE"
          /\ rec.retry = "PENDING" => rec.status = "FAILED" /\ c \notin Unsafe /\ ~(n >= MaxAttempts)
      <4> HIDE DEF rec, n
      <4> QED
        BY <2>3 DEF AfterFailure
    <3> QED
      BY <2>1, <3>1, BoundAssumption
  <2> QED
    BY <1>3, <2>2, <2>3
<1>5. Recorded(c, rec)
  BY <1>2, <1>4, WriterFacts DEF Recorded
<1>6. pc = "backoff" => rec.retry = "PENDING"
  OBVIOUS
<1>7. pc \in {"backoff", "apply"}
  OBVIOUS
<1> HIDE DEF rec, pc
<1>8. Coherent(frame[g])'
  BY <1>1, <1>2, <1>3, <1>4, <1>6, <1>7, WriterFacts, SaveFacts
  DEF Coherent, Starting, Started, Resting
<1> QED
  BY <1>1, <1>2, <1>3, <1>4, <1>5, <1>7, <1>8, SavePreserves

\* The charge covers the attempt that is started next.
LEMMA ChargeCallPreserves ==
    ASSUME IInv, NEW g \in Generation, ChargeCall(g)
    PROVE  IInv'
<1> DEFINE c == frame[g].at
           n == NextAttempt(Rec(g))
<1>1. frame[g].pc = "charge" /\ frame[g].pc \notin Resting /\ Authorised(g)
  BY DEF ChargeCall, At, Resting
<1>2. PICK pc \in {"start", "fail"} :
         /\ frame' = [frame EXCEPT ![g] = [frame[g] EXCEPT !.pc = pc]]
         /\ charged' = IF pc = "start" THEN [charged EXCEPT ![c] = @ \cup {n}] ELSE charged
  BY DEF ChargeCall, To, Goto
<1>3. UNCHANGED <<status, sequence, next, decision, record, generation, live, controls,
                  runs, approvals, told>>
  BY DEF ChargeCall, ownerVars, historyVars
<1>4. frame'[g] = [frame[g] EXCEPT !.pc = pc] /\ \A h \in Generation : h # g => frame'[h] = frame[h]
  BY <1>2 DEF IInv, TypeOK
<1>5. /\ frame'[g] \in Frame /\ frame'[g].pc = pc /\ frame'[g].at = c /\ frame'[g].rec = Rec(g)
      /\ frame'[g].answer = frame[g].answer
  BY <1>1, <1>4, WriterFacts DEF Frame, Rec
<1>6. n \in Nat /\ c \in Call
  BY <1>1, WriterFacts DEF NextAttempt, Frame, Record, Rec
<1>7. /\ charged' \in [Call -> SUBSET Nat]
      /\ \A d \in Call : charged[d] \subseteq charged'[d] /\ charged'[d] \subseteq charged[d] \cup {n}
      /\ pc = "start" => n \in charged'[c]
  BY <1>2, <1>6 DEF IInv, TypeOK
<1>8. TypeOK'
  BY <1>2, <1>3, <1>5, <1>7 DEF IInv, TypeOK
<1>9. Asked' /\ TranscriptMatchesRecord' /\ \A d \in Call : Recorded(d, record[d])'
  BY <1>3 DEF IInv, Asked, TranscriptMatchesRecord, Recorded
<1>10. \A h \in Generation : Sane(frame[h])'
  BY <1>3, <1>4, <1>5, <1>1, WriterFacts DEF IInv, Sane
<1>11. Coherent(frame[g])'
  BY <1>1, <1>3, <1>5, <1>7, WriterFacts
  DEF Coherent, Starting, Started, Rec, Resting
<1>12. \A h \in Generation : (h = generation)' => Coherent(frame[h])'
  BY <1>1, <1>3, <1>11, WriterFacts
<1>13. \A d \in Call : Counted(d)'
  <2> TAKE d \in Call
  <2>1. Underway(d)' = Underway(d)
    BY <1>1, <1>2, <1>5, <1>4, UnderwayKept DEF IInv, Goto
  <2>2. IsFiniteSet(charged'[d])
    BY <1>7, FS_AddElement, FS_Subset DEF IInv, Counted
  <2> QED
    BY <1>3, <1>7, <2>1, <2>2 DEF IInv, Counted
<1> QED
  BY <1>8, <1>9, <1>10, <1>12, <1>13 DEF IInv

\* At most one stale execution per generation runs the tool.
LEMMA UnderwayFinite ==
    \A c : IsFiniteSet(Underway(c)) /\ Cardinality(Underway(c)) \in Nat
<1> TAKE c
<1>1. IsFiniteSet(Generation)
  BY FS_Interval, BoundAssumption DEF Generation
<1>2. Underway(c) \subseteq Generation
  BY DEF Underway
<1> QED
  BY <1>1, <1>2, FS_Subset, FS_CardinalityType

\* The record of an attempt that starts.
LEMMA StartedRecord ==
    ASSUME NEW r \in Record
    PROVE  LET new == [r EXCEPT !.attempt = @ + 1, !.status = "RUNNING"]
           IN /\ new \in Record
              /\ new.attempt = r.attempt + 1
              /\ new.status = "RUNNING"
              /\ new.retry = r.retry
<1> DEFINE n == r.attempt + 1
           new == [r EXCEPT !.attempt = n, !.status = "RUNNING"]
<1>1. n \in Nat
  BY DEF Record
<1> HIDE DEF n
<1>2. new \in Record
  BY <1>1 DEF Record
<1>3. new.attempt = n /\ new.status = "RUNNING" /\ new.retry = r.retry
  BY <1>1 DEF Record
<1> QED
  BY <1>2, <1>3 DEF n

\* The one step that begins an attempt: it was charged, it is within the allowance, and
\* an unsafe tool begins a second one only with an approval.
LEMMA StartCallPreserves ==
    ASSUME IInv, NEW g \in Generation, StartCall(g)
    PROVE  IInv'
<1> DEFINE c == frame[g].at
           rec == [Rec(g) EXCEPT !.attempt = @ + 1, !.status = "RUNNING"]
<1>1. SaveRecord(g, rec, "execute") /\ frame[g].pc = "start"
  BY DEF StartCall, At
<1>2. Authorised(g) /\ frame[g].pc \notin Resting
  BY <1>1 DEF SaveRecord, Resting
<1>3. /\ Rec(g) = record[c] /\ Rec(g) \in Record /\ Rec(g).attempt < MaxAttempts
      /\ Rec(g).attempt + 1 \in charged[c] /\ Rec(g).retry # "PENDING"
      /\ Permitted(c, frame[g].answer) /\ frame[g].answer # "reject"
      /\ c \in Unsafe /\ approvals[c] = 0 => Rec(g).attempt = 0 /\ Policy[c] = "ALLOW"
  <2>1. frame[g].answer = "approve" => approvals[c] >= 1
    BY <1>2 DEF IInv, Sane
  <2>2. frame[g].rec \in Record /\ c \in Call /\ approvals[c] \in Nat
    BY <1>2, WriterFacts DEF Frame, IInv, TypeOK
  <2> QED
    BY <1>1, <1>2, <2>1, <2>2, WriterFacts
    DEF Coherent, Rec, Resting, Starting, NextAttempt, Permitted
<1>4. /\ rec \in Record /\ rec.attempt = record[c].attempt + 1 /\ rec.status = "RUNNING"
      /\ rec.retry # "PENDING"
  BY <1>3, StartedRecord
<1>5. Recorded(c, rec)
  BY <1>2, <1>3, <1>4, WriterFacts, BoundAssumption DEF Recorded, Record
<1> HIDE DEF rec
<1>6. Coherent(frame[g])'
  BY <1>1, <1>2, <1>3, <1>4, WriterFacts, SaveFacts DEF Coherent, Starting, Started, Resting
<1>7. /\ frame'[g] = [frame[g] EXCEPT !.pc = "execute", !.rec = rec] /\ frame'[g] \in Frame
      /\ frame' \in [Generation -> Frame]
      /\ \A h \in Generation : h # g => frame'[h] = frame[h]
  <2>1. frame' = [frame EXCEPT ![g] = [frame[g] EXCEPT !.pc = "execute", !.rec = rec]]
    BY <1>1 DEF SaveRecord, Goto
  <2>2. [frame[g] EXCEPT !.pc = "execute", !.rec = rec] \in Frame
    BY <1>2, <1>4, WriterFacts DEF Frame
  <2> QED
    BY <2>1, <2>2 DEF IInv, TypeOK
<1>8. /\ record' \in [Call -> Record]
      /\ \A d \in Call : record'[d] = IF d = c THEN rec ELSE record[d]
      /\ UNCHANGED <<status, sequence, next, decision, charged, generation, live, controls,
                      runs, approvals, told>>
  BY <1>1, <1>2, <1>4, WriterFacts DEF SaveRecord, IInv, TypeOK, ownerVars, historyVars
<1>9. TypeOK'
  BY <1>7, <1>8 DEF IInv, TypeOK
<1>10. Asked' /\ \A d \in Call : Recorded(d, record[d])'
  BY <1>5, <1>8 DEF IInv, Asked, Recorded
<1>11. TranscriptMatchesRecord'
  <2>1. told[c] = "nothing"
    BY <1>2, WriterFacts, CallAssumption DEF IInv, TypeOK, Call, TranscriptMatchesRecord
  <2> QED
    BY <1>8, <2>1 DEF IInv, TranscriptMatchesRecord
<1>12. \A h \in Generation : Sane(frame[h])'
  <2>1. frame'[g].at = c /\ frame'[g].answer = frame[g].answer
    BY <1>1, <1>2, <1>4, SaveFacts
  <2> QED
    BY <1>2, <1>7, <1>8, <2>1 DEF IInv, Sane
<1>13. \A h \in Generation : (h = generation)' => Coherent(frame[h])'
  BY <1>2, <1>6, <1>8, WriterFacts
<1>14. \A d \in Call : Counted(d)'
  <2> TAKE d \in Call
  <2>1. CASE d = c
    <3>1. frame'[g].pc = "execute" /\ frame'[g].at = c /\ frame[g].pc # "execute"
      BY <1>1, <1>2, <1>4, SaveFacts
    <3>4. Underway(d)' = Underway(d) \cup {g} /\ g \notin Underway(d)
      BY <1>7, <2>1, <3>1 DEF Underway
    <3>2. Cardinality(Underway(d)') = Cardinality(Underway(d)) + 1
      BY <3>4, UnderwayFinite, FS_AddElement
    <3>3. 1 .. rec.attempt \subseteq charged[c]
      BY <1>2, <1>3, <1>4, WriterFacts DEF Counted, Record
    <3> QED
      BY <1>2, <1>4, <1>8, <2>1, <3>2, <3>3, UnderwayFinite, WriterFacts
      DEF Counted, IInv, TypeOK, Record
  <2>2. CASE d # c
    <3>1. Underway(d)' = Underway(d)
      BY <1>1, <1>2, <1>7, <2>2, WriterFacts DEF Underway, Frame
    <3> QED
      BY <1>8, <2>2, <3>1 DEF IInv, Counted
  <2> QED
    BY <2>1, <2>2
<1> QED
  BY <1>9, <1>10, <1>11, <1>12, <1>13, <1>14 DEF IInv

\* The outcomes of a run are records of the same attempt.
LEMMA OutcomeFacts ==
    ASSUME NEW c, NEW r \in Record, NEW new \in AfterFailure(c, r.attempt) \cup {Succeeded(r)}
    PROVE  new \in Record /\ new.attempt = r.attempt
<1>1. CASE new = Succeeded(r)
  BY <1>1 DEF Succeeded, Record
<1>2. CASE new \in AfterFailure(c, r.attempt)
  <2> DEFINE n == r.attempt
  <2>1. n \in Nat
    BY DEF Record
  <2> HIDE DEF n
  <2>2. new \in AfterFailure(c, n) => new \in Record /\ new.attempt = n
    BY <2>1 DEF AfterFailure, Record
  <2> QED
    BY <1>2, <2>2 DEF n
<1> QED
  BY <1>1, <1>2

\* A run of the tool turns an execution that was underway into a run that was done.
LEMMA ExecutePreserves ==
    ASSUME IInv, NEW g \in Generation, Execute(g)
    PROVE  IInv'
<1> DEFINE c == frame[g].at
<1>1. frame[g].pc = "execute" /\ frame[g] \in Frame /\ c \in Call /\ Sane(frame[g])
  BY DEF Execute, At, IInv, TypeOK, Sane, Resting
<1>2. PICK pc \in {"record", "cancelled"}, rec \in AfterFailure(c, Rec(g).attempt) \cup {Succeeded(Rec(g)), Rec(g)} :
         /\ frame' = [frame EXCEPT ![g] = [frame[g] EXCEPT !.pc = pc, !.rec = rec]]
         /\ pc = "record" => rec \in AfterFailure(c, Rec(g).attempt) \cup {Succeeded(Rec(g))}
         /\ pc = "cancelled" => rec = Rec(g)
  <2>1. CASE To(g, "cancelled")
    <3>1. [frame[g] EXCEPT !.pc = "cancelled"] = [frame[g] EXCEPT !.pc = "cancelled", !.rec = Rec(g)]
      BY <1>1 DEF Frame, Rec
    <3> QED
      BY <2>1, <3>1 DEF To, Goto
  <2>2. CASE \E rec \in AfterFailure(c, Rec(g).attempt) \cup {Succeeded(Rec(g))} :
                Goto(g, [frame[g] EXCEPT !.pc = "record", !.rec = rec])
    BY <2>2 DEF Goto
  <2> QED
    BY <2>1, <2>2 DEF Execute
<1>3. runs' = [runs EXCEPT ![c] = @ + 1]
      /\ UNCHANGED <<status, sequence, next, decision, record, charged, generation, live, controls,
                     approvals, told>>
  BY DEF Execute, durableVars, ownerVars
<1>4. rec \in Record /\ rec.attempt = Rec(g).attempt /\ Rec(g) \in Record
  <2>1. Rec(g) \in Record
    BY <1>1 DEF Frame, Rec
  <2>2. CASE rec \in AfterFailure(c, Rec(g).attempt) \cup {Succeeded(Rec(g))}
    BY <2>1, <2>2, OutcomeFacts
  <2> QED
    BY <2>1, <2>2
<1>5. /\ frame'[g] \in Frame /\ frame'[g].pc = pc /\ frame'[g].rec = rec
      /\ frame'[g].at = c /\ frame'[g].answer = frame[g].answer
      /\ frame' \in [Generation -> Frame]
      /\ \A h \in Generation : h # g => frame'[h] = frame[h]
  <2>1. [frame[g] EXCEPT !.pc = pc, !.rec = rec] \in Frame
    BY <1>1, <1>4 DEF Frame
  <2>2. frame'[g] = [frame[g] EXCEPT !.pc = pc, !.rec = rec]
    BY <1>2 DEF IInv, TypeOK
  <2> QED
    BY <1>1, <1>2, <2>1, <2>2 DEF IInv, TypeOK, Frame
<1>6. TypeOK'
  BY <1>1, <1>3, <1>5 DEF IInv, TypeOK
<1>7. Asked' /\ TranscriptMatchesRecord' /\ \A d \in Call : Recorded(d, record[d])'
  BY <1>3 DEF IInv, Asked, TranscriptMatchesRecord, Recorded
<1>8. \A h \in Generation : Sane(frame[h])'
  BY <1>1, <1>3, <1>5 DEF IInv, Sane, Resting
<1>9. ASSUME g = generation PROVE Coherent(frame[g])'
  <2>1. Coherent(frame[g])
    BY <1>9 DEF IInv
  <2>2. /\ c = next /\ (live => frame[g].answer = decision[c]) /\ Rec(g) = record[c]
        /\ Permitted(c, frame[g].answer) /\ frame[g].answer # "reject"
        /\ Rec(g).retry # "PENDING" /\ record[c].status = "RUNNING"
    BY <1>1, <2>1 DEF Coherent, Resting, Starting, Started, Rec
  <2> QED
    BY <1>2, <1>3, <1>5, <2>2 DEF Coherent, Starting, Started, Permitted
<1>10. \A h \in Generation : (h = generation)' => Coherent(frame[h])'
  <2> TAKE h \in Generation
  <2> HAVE (h = generation)'
  <2>1. CASE h = g
    BY <1>3, <1>9, <2>1
  <2>2. CASE h # g
    BY <1>3, <1>5, <2>2 DEF IInv, Coherent
  <2> QED
    BY <2>1, <2>2
<1>11. \A d \in Call : Counted(d)'
  <2> TAKE d \in Call
  <2>1. CASE d = c
    <3>1. Underway(d)' = Underway(d) \ {g} /\ g \in Underway(d)
      BY <1>1, <1>2, <1>5, <2>1 DEF Underway
    <3>2. Cardinality(Underway(d)') = Cardinality(Underway(d)) - 1
      BY <3>1, UnderwayFinite, FS_RemoveElement
    <3>3. runs'[d] = runs[d] + 1
      BY <1>3, <2>1 DEF IInv, TypeOK
    <3> QED
      BY <1>3, <3>2, <3>3, UnderwayFinite DEF Counted, IInv, TypeOK, Record
  <2>2. CASE d # c
    <3>1. Underway(d)' = Underway(d)
      BY <1>2, <1>5, <2>2 DEF Underway
    <3>2. runs'[d] = runs[d]
      BY <1>3, <2>2 DEF IInv, TypeOK
    <3> QED
      BY <1>3, <3>1, <3>2 DEF IInv, Counted
  <2> QED
    BY <2>1, <2>2
<1> QED
  BY <1>6, <1>7, <1>8, <1>10, <1>11 DEF IInv

(***************************************************************************)
(* Steps that end the execution, or its work on a call.                    *)
(***************************************************************************)
LEMMA RestPreserves ==
    ASSUME IInv, NEW g \in Generation, frame[g].pc # "execute", g = generation,
           NEW pc \in Resting, frame' = [frame EXCEPT ![g] = [Idle EXCEPT !.pc = pc]],
           UNCHANGED <<generation, approvals>>
    PROVE  /\ frame' \in [Generation -> Frame]
           /\ \A h \in Generation : Sane(frame[h])'
           /\ \A h \in Generation : (h = generation)' => Coherent(frame[h])'
           /\ \A d \in Call : Underway(d)' = Underway(d)
<1>1. [Idle EXCEPT !.pc = pc] \in Frame /\ [Idle EXCEPT !.pc = pc].pc = pc
  BY DEF Idle, Frame, Decision, Record, NoRecord, Resting
<1>2. /\ frame' \in [Generation -> Frame] /\ frame'[g].pc = pc
      /\ \A h \in Generation : h # g => frame'[h] = frame[h]
  BY <1>1 DEF IInv, TypeOK
<1>3. \A h \in Generation : Sane(frame[h])'
  BY <1>2 DEF IInv, Sane
<1>4. \A h \in Generation : (h = generation)' => Coherent(frame[h])'
  BY <1>2 DEF Coherent
<1>5. \A d \in Call : Underway(d)' = Underway(d)
  BY <1>2 DEF Underway, Resting
<1> QED
  BY <1>2, <1>3, <1>4, <1>5

\* Idle in the form in which RestPreserves speaks of it.
LEMMA IdleIsResting == Idle = [Idle EXCEPT !.pc = "idle"] /\ "idle" \in Resting
  BY DEF Idle, Resting

\* A cancelled attempt is marked, without another one.
LEMMA SaveCancelledPreserves ==
    ASSUME IInv, NEW g \in Generation, SaveCancelled(g)
    PROVE  IInv'
<1> DEFINE c == frame[g].at
           rec == Cancelled(c, Rec(g))
<1>1. frame[g].pc = "cancelled" /\ frame[g].pc \notin Resting /\ Authorised(g)
  BY DEF SaveCancelled, At, Resting
<1>2. /\ Rec(g) = record[c] /\ Rec(g) \in Record
  BY <1>1, WriterFacts DEF Coherent, Rec
<1>3. /\ rec \in Record /\ rec.attempt = record[c].attempt
      /\ rec.status \in {"FAILED", "UNKNOWN"} /\ rec.retry = "SUPPRESSED"
  BY <1>2 DEF Cancelled, Record
<1>4. Recorded(c, rec)
  BY <1>1, <1>3, WriterFacts DEF Recorded
<1>5. /\ frame' = [frame EXCEPT ![g] = Idle]
      /\ live' = FALSE /\ record' = [record EXCEPT ![c] = rec]
      /\ UNCHANGED <<status, sequence, next, decision, charged, generation, controls,
                     runs, approvals, told>>
  BY DEF SaveCancelled, Goto, historyVars
<1> HIDE DEF rec
<1>6. /\ record' \in [Call -> Record]
      /\ \A d \in Call : record'[d] = IF d = c THEN rec ELSE record[d]
  BY <1>1, <1>3, <1>5, WriterFacts DEF IInv, TypeOK
<1>7. /\ frame' \in [Generation -> Frame]
      /\ \A h \in Generation : Sane(frame[h])'
      /\ \A h \in Generation : (h = generation)' => Coherent(frame[h])'
      /\ \A d \in Call : Underway(d)' = Underway(d)
  BY <1>1, <1>5, WriterFacts, RestPreserves, IdleIsResting
<1>8. TypeOK'
  BY <1>5, <1>6, <1>7 DEF IInv, TypeOK
<1>9. Asked' /\ \A d \in Call : Recorded(d, record[d])'
  BY <1>4, <1>5, <1>6 DEF IInv, Asked, Recorded
<1>10. TranscriptMatchesRecord'
  <2>1. told[c] = "nothing"
    BY <1>1, WriterFacts, CallAssumption DEF IInv, TypeOK, Call, TranscriptMatchesRecord
  <2> QED
    BY <1>5, <1>6, <2>1 DEF IInv, TranscriptMatchesRecord
<1>11. \A d \in Call : Counted(d)'
  BY <1>3, <1>5, <1>6, <1>7 DEF IInv, Counted
<1> QED
  BY <1>7, <1>8, <1>9, <1>10, <1>11 DEF IInv

\* The result that enters the transcript is that of the record.
LEMMA ApplyPreserves ==
    ASSUME IInv, NEW g \in Generation, Apply(g)
    PROVE  IInv'
<1> DEFINE c == frame[g].at
<1>1. /\ frame[g].pc \in {"apply", "reuse"} /\ frame[g].pc \notin Resting /\ Authorised(g)
      /\ status' \in {"RUNNING", "FAILED"} /\ sequence' = sequence + 1
  BY DEF Apply, At, Checkpoint, Resting
<1>2. /\ c \in Call /\ c = next /\ Rec(g) = record[c]
      /\ record[c].status \in {"SUCCEEDED", "FAILED", "UNKNOWN"}
  BY <1>1, WriterFacts DEF Coherent, Rec, Starting, Started
<1>3. /\ next' = c + 1
      /\ decision' = [decision EXCEPT ![c] = "none"]
      /\ told' = [told EXCEPT ![c] = IF record[c].status = "SUCCEEDED" THEN "result" ELSE "error"]
      /\ frame' = [frame EXCEPT ![g] = [Idle EXCEPT !.pc = "preflight"]]
      /\ UNCHANGED <<record, charged, generation, live, controls, runs, approvals>>
  BY <1>2 DEF Apply, Goto, ownerVars
<1>4. /\ frame' \in [Generation -> Frame]
      /\ \A h \in Generation : Sane(frame[h])'
      /\ \A h \in Generation : (h = generation)' => Coherent(frame[h])'
      /\ \A d \in Call : Underway(d)' = Underway(d)
  <2>1. "preflight" \in Resting
    BY DEF Resting
  <2> QED
    BY <1>1, <1>3, <2>1, WriterFacts, RestPreserves
<1>5. TypeOK'
  <2>1. next' \in 1 .. Calls + 1
    BY <1>2, <1>3, CallAssumption DEF Call
  <2>2. told' \in [Call -> {"nothing", "result", "error"}] /\ decision' \in [Call -> Decision]
    BY <1>3 DEF IInv, TypeOK, Decision
  <2> QED
    BY <1>1, <1>3, <1>4, <2>1, <2>2 DEF IInv, TypeOK
<1>6. Asked'
  BY <1>1, <1>3 DEF IInv, TypeOK, Asked
<1>7. TranscriptMatchesRecord'
  <2> SUFFICES ASSUME NEW d \in Call
               PROVE  /\ d < c + 1 <=> told'[d] # "nothing"
                      /\ told'[d] = "result" => record[d].status = "SUCCEEDED"
                      /\ told'[d] = "error" => record[d].status \in {"FAILED", "UNKNOWN"}
    BY <1>3 DEF TranscriptMatchesRecord
  <2>1. d \in Int /\ c \in Int
    BY <1>2, CallAssumption DEF Call
  <2>2. CASE d = c
    <3>1. told'[c] = IF record[c].status = "SUCCEEDED" THEN "result" ELSE "error"
      BY <1>2, <1>3 DEF IInv, TypeOK
    <3> QED
      BY <1>2, <2>1, <2>2, <3>1
  <2>3. CASE d # c
    <3>1. told'[d] = told[d] /\ (d < c + 1 <=> d < next)
      BY <1>2, <1>3, <2>1, <2>3 DEF IInv, TypeOK
    <3> QED
      BY <3>1 DEF IInv, TranscriptMatchesRecord
  <2> QED
    BY <2>2, <2>3
<1>8. \A d \in Call : Recorded(d, record[d])' /\ Counted(d)'
  BY <1>3, <1>4 DEF IInv, Recorded, Counted
<1> QED
  BY <1>4, <1>5, <1>6, <1>7, <1>8 DEF IInv

\* A Run that is parked or fails is released.
LEMMA ParkOrFailPreserves ==
    ASSUME IInv, NEW g \in Generation, Park(g) \/ Fail(g)
    PROVE  IInv'
<1>1. /\ frame[g].pc # "execute" /\ Authorised(g)
      /\ status' \in {"WAITING_APPROVAL", "FAILED"} /\ sequence' = sequence + 1
      /\ live' = FALSE /\ frame' = [frame EXCEPT ![g] = Idle]
      /\ UNCHANGED <<next, decision, record, charged, generation, controls, runs, approvals, told>>
  BY DEF Park, Fail, At, Checkpoint, Goto, historyVars
<1>2. /\ frame' \in [Generation -> Frame]
      /\ \A h \in Generation : Sane(frame[h])'
      /\ \A h \in Generation : (h = generation)' => Coherent(frame[h])'
      /\ \A d \in Call : Underway(d)' = Underway(d)
  BY <1>1, RestPreserves, IdleIsResting DEF Authorised
<1>3. TypeOK'
  <2>1. sequence \in Nat
    BY DEF IInv, TypeOK
  <2>2. sequence' \in Nat
    BY <1>1, <2>1
  <2>3. live' \in BOOLEAN
    BY <1>1
  <2> QED
    BY <1>1, <1>2, <2>2, <2>3 DEF IInv, TypeOK
<1>4. Asked' /\ TranscriptMatchesRecord'
  BY <1>1 DEF IInv, Asked, TranscriptMatchesRecord
<1>5. \A d \in Call : Recorded(d, record[d])' /\ Counted(d)'
  BY <1>1, <1>2 DEF IInv, Recorded, Counted
<1> QED
  BY <1>2, <1>3, <1>4, <1>5 DEF IInv

(***************************************************************************)
(* Ownership and control operations, which touch no frame that is working. *)
(***************************************************************************)
LEMMA BesidesPreserves ==
    ASSUME IInv, TypeOK', Asked',
           UNCHANGED <<next, record, charged, generation, frame, runs, told>>,
           live' => live /\ decision' = decision,
           \A c \in Call : approvals[c] <= approvals'[c]
    PROVE  IInv'
<1>1. \A c \in Call : approvals[c] \in Nat /\ approvals'[c] \in Nat
  BY DEF IInv, TypeOK
<1>2. \A c \in Call : approvals[c] >= 1 => approvals'[c] >= 1
  BY <1>1
<1>3. \A c \in Call : approvals'[c] = 0 => approvals[c] = 0
  BY <1>1
<1>4. TranscriptMatchesRecord'
  BY DEF IInv, TranscriptMatchesRecord
<1>5. \A h \in Generation : Sane(frame[h])'
  BY <1>2 DEF IInv, Sane
<1>6. \A h \in Generation : (h = generation)' => Coherent(frame[h])'
  <2> TAKE h \in Generation
  <2> HAVE (h = generation)'
  <2>1. Coherent(frame[h]) /\ Sane(frame[h])
    BY DEF IInv
  <2> QED
    BY <1>3, <2>1 DEF Coherent, Sane
<1>7. \A d \in Call : Recorded(d, record[d])'
  BY <1>3 DEF IInv, Recorded
<1>8. \A d \in Call : Counted(d)'
  BY DEF IInv, Counted, Underway
<1> QED
  BY <1>4, <1>5, <1>6, <1>7, <1>8 DEF IInv

\* The loss of the lease changes no record and no copy.
LEMMA LosePreserves ==
    ASSUME IInv, Lose
    PROVE  IInv'
<1>1. /\ live' = FALSE
      /\ UNCHANGED <<status, sequence, next, decision, record, charged, generation, frame,
                     controls, runs, approvals, told>>
  BY DEF Lose, durableVars, historyVars
<1>2. \A c \in Call : approvals[c] <= approvals'[c]
  BY <1>1 DEF IInv, TypeOK
<1>3. live' \in BOOLEAN
  BY <1>1
<1>4. TypeOK'
  BY <1>1, <1>3 DEF IInv, TypeOK
<1>5. Asked'
  BY <1>1 DEF IInv, Asked
<1> QED
  BY <1>1, <1>2, <1>4, <1>5, BesidesPreserves

\* A person's answer changes the decision while nobody holds the Run.
LEMMA ControlPreserves ==
    ASSUME IInv, Control
    PROVE  IInv'
<1>1. /\ controls' = controls + 1 /\ controls < MaxControls
      /\ controls \in Nat /\ MaxControls \in Nat /\ sequence \in Nat
      /\ \A c \in Call : approvals[c] \in Nat /\ approvals[c] <= controls
  BY BoundAssumption DEF Control, IInv, TypeOK, Asked
<1>2. CASE \E d \in {"approve", "reject"} : Answer(d)
  <2>1. PICK d \in {"approve", "reject"} : Answer(d)
    BY <1>2
  <2>2. /\ status = "WAITING_APPROVAL" /\ ~live /\ status' = "RUNNING" /\ sequence' = sequence + 1
        /\ decision' = [decision EXCEPT ![next] = d]
        /\ approvals' = [approvals EXCEPT ![next] = IF d = "approve" THEN @ + 1 ELSE @]
        /\ UNCHANGED <<next, record, charged, generation, live, frame, runs, told>>
    BY <2>1 DEF Answer, ControlSave, ownerVars, IInv, Asked
  <2>3. \A c \in Call :
          /\ approvals'[c] = IF c = next /\ d = "approve" THEN approvals[c] + 1 ELSE approvals[c]
          /\ decision'[c] = IF c = next THEN d ELSE decision[c]
    BY <2>2 DEF IInv, TypeOK
  <2>4. \A c \in Call : approvals[c] <= approvals'[c] /\ approvals'[c] \in 0 .. controls + 1
    BY <1>1, <2>3
  <2>5. approvals' \in [Call -> 0 .. MaxControls]
    <3>1. approvals' = [c \in Call |-> approvals'[c]]
      BY <2>2 DEF IInv, TypeOK
    <3>2. \A c \in Call : approvals'[c] \in 0 .. MaxControls
      BY <1>1, <2>4
    <3> QED
      BY <3>1, <3>2
  <2>6. TypeOK'
    BY <1>1, <2>2, <2>5 DEF IInv, TypeOK, Decision
  <2>7. Asked'
    BY <1>1, <2>1, <2>2, <2>3, <2>4 DEF IInv, Asked
  <2> QED
    BY <2>2, <2>4, <2>6, <2>7, BesidesPreserves
<1>3. CASE Interrupt \/ Resume \/ Cancel
  <2>1. /\ status' \in {"INTERRUPTED", "RUNNING", "CANCELLED"} /\ sequence' = sequence + 1
        /\ UNCHANGED <<next, decision, record, charged, generation, live, frame, runs,
                       approvals, told>>
    BY <1>3 DEF Interrupt, Resume, Cancel, ControlSave, ownerVars, historyVars
  <2>2. /\ sequence' \in Nat /\ controls' \in 0 .. MaxControls
        /\ \A c \in Call : approvals'[c] = approvals[c] /\ approvals[c] <= controls'
        /\ \A c \in Call : approvals[c] <= approvals'[c]
    BY <1>1, <2>1
  <2>3. TypeOK'
    BY <1>1, <2>1, <2>2 DEF IInv, TypeOK
  <2>4. Asked'
    BY <2>1, <2>2 DEF IInv, Asked
  <2> QED
    BY <2>1, <2>2, <2>3, <2>4, BesidesPreserves
<1> QED
  BY <1>2, <1>3 DEF Control

\* A new ownership starts from the durable state; what older ones run still counts.
LEMMA ClaimPreserves ==
    ASSUME IInv, Claim
    PROVE  IInv'
<1> DEFINE g == generation + 1
           f == [Idle EXCEPT !.pc = "preflight"]
<1>1. /\ status = "RUNNING" /\ ~live /\ generation < MaxFence
      /\ generation' = g /\ live' = TRUE /\ sequence' = sequence + 1
      /\ frame' = [frame EXCEPT ![g] = f]
      /\ UNCHANGED <<status, next, decision, record, charged, controls, runs, approvals, told>>
  BY DEF Claim, Goto, historyVars
<1>2. g \in Generation /\ generation \in Nat /\ g # generation
  BY <1>1, BoundAssumption DEF IInv, TypeOK, Generation
<1>3. f \in Frame /\ f.pc = "preflight"
  BY DEF Idle, Frame, Decision, Record, NoRecord
<1> HIDE DEF f
<1>4. /\ frame' \in [Generation -> Frame] /\ frame'[g] = f
      /\ \A h \in Generation : h # g => frame'[h] = frame[h]
  BY <1>1, <1>2, <1>3 DEF IInv, TypeOK
<1>5. TypeOK'
  BY <1>1, <1>2, <1>4 DEF IInv, TypeOK, Generation
<1>6. Asked' /\ TranscriptMatchesRecord' /\ \A d \in Call : Recorded(d, record[d])'
  BY <1>1 DEF IInv, Asked, TranscriptMatchesRecord, Recorded
<1>7. \A h \in Generation : Sane(frame[h])'
  BY <1>1, <1>3, <1>4 DEF IInv, Sane, Resting
<1>8. \A h \in Generation : (h = generation)' => Coherent(frame[h])'
  BY <1>1, <1>3, <1>4 DEF Coherent, Resting
<1>9. \A d \in Call : Counted(d)'
  <2> TAKE d \in Call
  <2>1. Underway(d)' \subseteq Underway(d)
    BY <1>3, <1>4 DEF Underway
  <2>2. /\ Cardinality(Underway(d)') <= Cardinality(Underway(d))
        /\ Cardinality(Underway(d)') \in Nat /\ Cardinality(Underway(d)) \in Nat
    BY <2>1, UnderwayFinite, FS_Subset, FS_CardinalityType
  <2>3. /\ charged'[d] = charged[d] /\ record'[d] = record[d] /\ runs'[d] = runs[d]
        /\ runs[d] \in Nat /\ record[d].attempt \in Nat
    BY <1>1 DEF IInv, TypeOK, Record
  <2> QED
    BY <2>2, <2>3 DEF IInv, Counted
<1> QED
  BY <1>5, <1>6, <1>7, <1>8, <1>9 DEF IInv

(***************************************************************************)
(* The invariant.                                                          *)
(***************************************************************************)
LEMMA InitInvariant == Init => IInv
<1> SUFFICES ASSUME Init
             PROVE  IInv
  OBVIOUS
<1>1. /\ Calls \in Nat /\ MaxFence \in Nat /\ MaxControls \in Nat /\ MaxAttempts \in Nat
      /\ Unsafe \subseteq Call
  BY CallAssumption, BoundAssumption
<1>2. NoRecord \in Record /\ Idle \in Frame /\ Idle.pc = "idle" /\ NoRecord.attempt = 0
      /\ NoRecord.status = "ABSENT" /\ NoRecord.retry = "NONE"
  BY DEF NoRecord, Record, Idle, Frame, Decision
<1>3. /\ \A c \in Call : record[c] = NoRecord /\ charged[c] = {} /\ runs[c] = 0
                        /\ approvals[c] = 0 /\ decision[c] = "none" /\ told[c] = "nothing"
      /\ \A g \in Generation : frame[g] = Idle
  BY DEF Init
<1>4. TypeOK
  <2>1. next \in 1 .. Calls + 1 /\ generation \in 0 .. MaxFence /\ controls \in 0 .. MaxControls
    BY <1>1 DEF Init
  <2>2. approvals \in [Call -> 0 .. MaxControls]
    BY <1>1 DEF Init
  <2> QED
    BY <1>2, <2>1, <2>2 DEF Init, TypeOK, Decision
<1>5. Asked
  BY <1>3 DEF Init, Asked
<1>6. TranscriptMatchesRecord
  BY <1>1, <1>3 DEF Init, TranscriptMatchesRecord, Call
<1>7. \A g \in Generation : Sane(frame[g]) /\ Coherent(frame[g])
  BY <1>2, <1>3 DEF Sane, Coherent, Resting
<1>8. \A c \in Call : Recorded(c, record[c])
  BY <1>1, <1>2, <1>3 DEF Recorded
<1>9. \A c \in Call : Counted(c)
  <2> TAKE c \in Call
  <2>1. Underway(c) = {}
    BY <1>2, <1>3 DEF Underway
  <2>2. 1 .. record[c].attempt = {}
    BY <1>2, <1>3
  <2>3. Cardinality(Underway(c)) = 0 /\ IsFiniteSet(charged[c])
    BY <1>3, <2>1, FS_EmptySet
  <2>4. runs[c] + Cardinality(Underway(c)) <= record[c].attempt
    BY <1>2, <1>3, <2>3
  <2> QED
    BY <2>2, <2>3, <2>4 DEF Counted
<1> QED
  BY <1>4, <1>5, <1>6, <1>7, <1>8, <1>9 DEF IInv

\* Every step preserves IInv: one lemma per action.
LEMMA StepInvariant == IInv /\ [Next]_vars => IInv'
<1> SUFFICES ASSUME IInv, [Next]_vars
             PROVE  IInv'
  OBVIOUS
<1>1. CASE Claim
  BY <1>1, ClaimPreserves
<1>2. CASE Lose
  BY <1>2, LosePreserves
<1>3. CASE Control
  BY <1>3, ControlPreserves
<1>4. CASE \E g \in Generation : ToolStep(g)
  <2>1. PICK g \in Generation : ToolStep(g)
    BY <1>4
  <2>2. CASE Preflight(g) \/ Lookup(g) \/ Permit(g) \/ Stop(g)
    BY <2>2, PreflightPreserves, LookupPreserves, PermitPreserves, StopPreserves
  <2>3. CASE Exhausted(g) \/ Deny(g) \/ Create(g) \/ Backoff(g) \/ SaveOutcome(g)
    BY <2>3, ExhaustedPreserves, DenyPreserves, CreatePreserves, BackoffPreserves,
       SaveOutcomePreserves
  <2>4. CASE ChargeCall(g) \/ StartCall(g) \/ Execute(g) \/ SaveCancelled(g)
    BY <2>4, ChargeCallPreserves, StartCallPreserves, ExecutePreserves, SaveCancelledPreserves
  <2>5. CASE Apply(g) \/ Park(g) \/ Fail(g)
    BY <2>5, ApplyPreserves, ParkOrFailPreserves
  <2> QED
    BY <2>1, <2>2, <2>3, <2>4, <2>5 DEF ToolStep
<1>5. CASE UNCHANGED vars
  BY <1>5 DEF vars, durableVars, ownerVars, historyVars, IInv, TypeOK, Asked,
     TranscriptMatchesRecord, Sane, Coherent, Recorded, Counted, Underway
<1> QED
  BY <1>1, <1>2, <1>3, <1>4, <1>5 DEF Next

\* IInv holds in every reachable state.
LEMMA Invariant == Spec => []IInv
<1>1. Init => IInv
  BY InitInvariant
<1>2. IInv /\ [Next]_vars => IInv'
  BY StepInvariant
<1> QED
  BY <1>1, <1>2, PTL DEF Spec

(***************************************************************************)
(* Safety.                                                                 *)
(***************************************************************************)
\* The durable state and every copy of it stay within their types, through any
\* takeover, answer and crash.
THEOREM TypeCorrect == Spec => []TypeOK
<1>1. IInv => TypeOK
  BY DEF IInv
<1> QED
  BY <1>1, Invariant, PTL

\* No tool runs more often than retry_policy.max_attempts, however often the Run is
\* resumed: every run, and every run a stale execution may still do, has an attempt
\* of the record.
THEOREM AttemptsAreBounded == Spec => []AttemptsBounded
<1>1. IInv => AttemptsBounded
  <2> SUFFICES ASSUME IInv, NEW c \in Call
               PROVE  runs[c] <= MaxAttempts
    BY DEF AttemptsBounded
  <2>1. /\ runs[c] \in Nat /\ record[c].attempt \in Nat /\ MaxAttempts \in Nat
        /\ Cardinality(Underway(c)) \in Nat
    BY UnderwayFinite, BoundAssumption DEF IInv, TypeOK, Record
  <2>2. runs[c] + Cardinality(Underway(c)) <= record[c].attempt /\ record[c].attempt <= MaxAttempts
    BY DEF IInv, Counted, Recorded
  <2> QED
    BY <2>1, <2>2
<1> QED
  BY <1>1, Invariant, PTL

\* Every run of a tool was charged to the budget ledger under an identity of its own.
THEOREM RunsArePaid == Spec => []EveryRunIsPaid
<1>1. IInv => EveryRunIsPaid
  <2> SUFFICES ASSUME IInv, NEW c \in Call
               PROVE  runs[c] <= Cardinality(charged[c])
    BY DEF EveryRunIsPaid
  <2> DEFINE n == record[c].attempt
  <2>1. runs[c] \in Nat /\ n \in Nat /\ Cardinality(Underway(c)) \in Nat
    BY UnderwayFinite DEF IInv, TypeOK, Record
  <2>2. /\ runs[c] + Cardinality(Underway(c)) <= n
        /\ IsFiniteSet(charged[c]) /\ 1 .. n \subseteq charged[c]
    BY DEF IInv, Counted
  <2> HIDE DEF n
  <2>3. Cardinality(1 .. n) = n
    BY <2>1, FS_Interval
  <2>4. Cardinality(1 .. n) <= Cardinality(charged[c]) /\ Cardinality(charged[c]) \in Nat
    BY <2>2, FS_Subset, FS_CardinalityType
  <2> QED
    BY <2>1, <2>2, <2>3, <2>4
<1> QED
  BY <1>1, Invariant, PTL

\* Types, allowance and payment of the attempts together (AttemptsAreAccounted).
THEOREM RunsAreAccounted == Spec => []AttemptsAreAccounted
<1>1. TypeOK /\ AttemptsBounded /\ EveryRunIsPaid => AttemptsAreAccounted
  BY DEF AttemptsAreAccounted
<1> QED
  BY <1>1, TypeCorrect, AttemptsAreBounded, RunsArePaid, PTL

\* The model is told exactly what is persisted of each call.
THEOREM TranscriptsMatch == Spec => []TranscriptMatchesRecord
<1>1. IInv => TranscriptMatchesRecord
  BY DEF IInv
<1> QED
  BY <1>1, Invariant, PTL

\* A tool that is unsafe to repeat runs at most once when nobody was asked, and not at
\* all when the policy wants an approval.
THEOREM UnsafeToolsRunOnceUnasked == Spec => []UnsafeRunsOnceUnasked
<1>1. IInv => UnsafeRunsOnceUnasked
  <2> SUFFICES ASSUME IInv, NEW c \in Unsafe, approvals[c] = 0
               PROVE  runs[c] <= IF Policy[c] = "ALLOW" THEN 1 ELSE 0
    BY DEF UnsafeRunsOnceUnasked
  <2>1. c \in Call
    BY CallAssumption
  <2>2. runs[c] \in Nat /\ record[c].attempt \in Nat /\ Cardinality(Underway(c)) \in Nat
    BY <2>1, UnderwayFinite DEF IInv, TypeOK, Record
  <2>3. /\ runs[c] + Cardinality(Underway(c)) <= record[c].attempt
        /\ record[c].attempt <= IF Policy[c] = "ALLOW" THEN 1 ELSE 0
    BY <2>1 DEF IInv, Counted, Recorded
  <2> QED
    BY <2>2, <2>3
<1> QED
  BY <1>1, Invariant, PTL

\* Whoever saves a record found it in another state than SUCCEEDED.
LEMMA SuccessStep == IInv /\ [Next]_vars =>
    \A c \in Call : record[c].status = "SUCCEEDED" => record'[c] = record[c]
<1> SUFFICES ASSUME IInv, [Next]_vars, NEW c \in Call, record[c].status = "SUCCEEDED",
                    record' # record
             PROVE  record'[c] = record[c]
  OBVIOUS
<1>1. PICK g \in Generation : ToolStep(g)
  BY DEF Next, Claim, Lose, Control, Answer, Interrupt, Resume, Cancel, vars, durableVars
<1>2. /\ frame[g].pc \notin Resting /\ Authorised(g)
      /\ frame[g].pc \in {"exhaust", "deny", "create", "backoff", "start", "record", "cancelled"}
      /\ \E new : record' = [record EXCEPT ![frame[g].at] = new]
  <2>1. CASE Preflight(g) \/ Lookup(g) \/ Permit(g) \/ ChargeCall(g) \/ Execute(g)
              \/ Apply(g) \/ Park(g) \/ Fail(g) \/ Stop(g)
    BY <2>1 DEF Preflight, Lookup, Permit, ChargeCall, Execute, Apply, Park, Fail, Stop, Move,
       durableVars
  <2>2. CASE Exhausted(g) \/ Deny(g) \/ Create(g) \/ Backoff(g) \/ StartCall(g)
              \/ SaveOutcome(g) \/ SaveCancelled(g)
    BY <2>2 DEF Exhausted, Deny, Create, Backoff, StartCall, SaveOutcome, SaveCancelled,
       SaveRecord, At, Resting
  <2> QED
    BY <1>1, <2>1, <2>2 DEF ToolStep
<1>3. frame[g].at # c
  <2> SUFFICES ASSUME frame[g].at = c
               PROVE  FALSE
    OBVIOUS
  <2>1. Coherent(frame[g]) /\ Recorded(c, record[c])
    BY <1>2, WriterFacts DEF IInv
  <2> QED
    BY <1>2, <2>1 DEF Coherent, Recorded, Starting, Started
<1> QED
  BY <1>2, <1>3 DEF IInv, TypeOK

\* A persisted success is final: no stale or restarted execution rewrites it.
THEOREM SuccessesAreFinal == Spec => SuccessIsFinal
<1>1. IInv /\ [Next]_vars =>
          [\A c \in Call : record[c].status = "SUCCEEDED" => record'[c] = record[c]]_vars
  BY SuccessStep
<1> QED
  BY <1>1, Invariant, PTL DEF Spec, SuccessIsFinal

\* Only StartCall starts an attempt.
LEMMA AttemptStep ==
    ASSUME IInv, [Next]_vars, NEW c \in Call, record'[c].attempt # record[c].attempt
    PROVE  decision[c] # "reject"
<1>1. PICK g \in Generation : ToolStep(g)
  BY DEF Next, Claim, Lose, Control, Answer, Interrupt, Resume, Cancel, vars, durableVars
<1> DEFINE r == record[frame[g].at]
<1>2. ASSUME NEW new, record' = [record EXCEPT ![frame[g].at] = new], new.attempt = r.attempt
      PROVE  FALSE
  BY <1>2 DEF IInv, TypeOK
<1>3. CASE Preflight(g) \/ Lookup(g) \/ Permit(g) \/ ChargeCall(g) \/ Execute(g)
            \/ Apply(g) \/ Park(g) \/ Fail(g) \/ Stop(g)
  BY <1>3 DEF Preflight, Lookup, Permit, ChargeCall, Execute, Apply, Park, Fail, Stop, Move,
     durableVars
<1>4. CASE Exhausted(g) \/ Deny(g) \/ Create(g) \/ Backoff(g) \/ SaveCancelled(g)
  <2>1. frame[g].pc \in {"exhaust", "deny", "create", "backoff", "cancelled"} /\ Authorised(g)
    BY <1>4 DEF Exhausted, Deny, Create, Backoff, SaveCancelled, SaveRecord, At
  <2>2. Rec(g) = r /\ r \in Record
    BY <2>1, WriterFacts DEF Coherent, Rec, Resting
  <2> HIDE DEF r
  <2>3. PICK new \in {[r EXCEPT !.status = "FAILED", !.retry = "EXHAUSTED"], Denied(r),
                      [r EXCEPT !.status = "PENDING"], [r EXCEPT !.retry = "NONE"],
                      [r EXCEPT !.retry = "SUPPRESSED"], Cancelled(frame[g].at, r)} :
          record' = [record EXCEPT ![frame[g].at] = new]
    BY <1>4, <2>2 DEF Exhausted, Deny, Create, Backoff, SaveCancelled, SaveRecord
  <2>4. new.attempt = r.attempt
    BY <2>2, <2>3 DEF Denied, Cancelled, Record
  <2> QED
    BY <1>2, <2>3, <2>4 DEF r
<1>5. CASE SaveOutcome(g)
  <2>1. frame[g].pc = "record" /\ Authorised(g) /\ record' = [record EXCEPT ![frame[g].at] = Rec(g)]
    BY <1>5 DEF SaveOutcome, SaveRecord, At
  <2>2. r \in Record /\ Rec(g) \in AfterFailure(frame[g].at, r.attempt) \cup {Succeeded(r)}
    BY <2>1, WriterFacts DEF Coherent, Rec, Resting
  <2> HIDE DEF r
  <2>3. Rec(g).attempt = r.attempt
    <3>1. \A d, q, new : q \in Record /\ new \in AfterFailure(d, q.attempt) \cup {Succeeded(q)}
                           => new.attempt = q.attempt
      BY OutcomeFacts
    <3> QED
      BY <2>2, <3>1
  <2> QED
    BY <1>2, <2>1, <2>3 DEF r
<1>6. CASE StartCall(g)
  <2>1. /\ frame[g].pc = "start" /\ Authorised(g)
        /\ \E new : record' = [record EXCEPT ![frame[g].at] = new]
    BY <1>6 DEF StartCall, SaveRecord, At
  <2>2. frame[g].answer # "reject" /\ frame[g].at = next /\ frame[g].answer = decision[next]
    BY <2>1, WriterFacts DEF Coherent, Resting, Starting
  <2>3. frame[g].at = c
    BY <2>1 DEF IInv, TypeOK
  <2> QED
    BY <2>2, <2>3
<1> QED
  BY <1>1, <1>3, <1>4, <1>5, <1>6 DEF ToolStep

\* A call that was rejected is not started, by whatever execution resumes the Run.
THEOREM RejectedCallsStayUnstarted == Spec => RejectedIsNotStarted
<1>1. IInv /\ [Next]_vars =>
          [\A c \in Call : decision[c] = "reject" => record'[c].attempt = record[c].attempt]_vars
  BY AttemptStep
<1> QED
  BY <1>1, Invariant, PTL DEF Spec, RejectedIsNotStarted
=============================================================================
