---------------------------- MODULE ThreadMemory ----------------------------
(***************************************************************************)
(* What the Runtime remembers of a Thread (src/axiom/memory): conversation *)
(* records, one active summary, and facts the user stated, all derived     *)
(* from the Thread's events after each Turn (runtime/api.py).  Any derived *)
(* write may fail and is then skipped; a process may stop between two.     *)
(*                                                                         *)
(* One Turn of a Thread runs at a time (the Thread's lock), but not each   *)
(* to its end: one that waits for an approval, a Child or the user gives   *)
(* the lock back, others run, and its answer comes after theirs.  Such a   *)
(* Turn is resumed under the lock of its Run alone; that it then overlaps  *)
(* with another Turn is not modelled.                                      *)
(*                                                                         *)
(* Events are numbered as they are written, and only the two messages of a *)
(* Turn are kept here.  A message states at most one value, of one key.    *)
(***************************************************************************)
EXTENDS Integers, Sequences, FiniteSets

CONSTANTS Threshold, MinUnsummarized, RecentReserve,   \* SummaryPolicy, in messages
          ChunkTurns, ReducePartials,                  \* ... its token limits, in Turns and partials
          RecentLimit,                                 \* build: recent_limit
          Stated, NoValue,
          MaxMessages, MaxStatements, MaxParked, MaxFailures      \* bounds

ASSUME MemoryAssumption ==
    /\ Threshold \in Nat /\ MinUnsummarized \in Nat /\ RecentReserve \in Nat
    /\ MaxMessages \in 0 .. 1000   \* one read returns all records of the Thread (list_records)
    /\ ChunkTurns \in Nat \ {0} /\ ReducePartials \in Nat \ {0} /\ RecentLimit \in Nat \ {0}
    /\ NoValue \notin Stated

VARIABLES messages,   \* the events: role, what the user states, and whether memory holds a record
          summary,    \* the active summary: version, last event, the Turns its text was made from
          facts,      \* the fact records of the key, oldest first
          extracted,  \* fact checkpoint: the last event that was looked at
          turn,       \* the process that runs the Turn
          parked,     \* Turns that gave the Thread's lock back before they had an answer
          failures

memoryVars == <<messages, summary, facts, extracted, turn, parked, failures>>

NoSummary == [version |-> 0, end |-> 0, turns |-> {}]
AtRest == [at |-> "idle", segments |-> <<>>, pending |-> {}, upto |-> 0]

MemoryInit ==
    /\ messages = <<>> /\ summary = NoSummary /\ facts = <<>> /\ extracted = 0
    /\ turn = AtRest /\ parked = 0 /\ failures = 0

Statements == Cardinality({i \in DOMAIN messages : messages[i].says # "nothing"})

\* Spends a failure, if there is one left.
MayFail(fails) == failures' = failures + fails /\ failures' <= MaxFailures

(***************************************************************************)
(* The Turn: its two messages, and their records.                          *)
(***************************************************************************)
RecordMessage(role, says) ==
    /\ Len(messages) < MaxMessages
    /\ \E fails \in {0, 1} :
        /\ MayFail(fails)
        /\ messages' = Append(messages, [role |-> role, says |-> says, recorded |-> fails = 0])

BeginTurn ==
    /\ turn.at = "idle"
    /\ \E says \in Stated \cup {NoValue, "nothing"} :
        /\ says # "nothing" => Statements < MaxStatements
        /\ RecordMessage("user", says)
    /\ turn' = [turn EXCEPT !.at = "running"]
    /\ UNCHANGED <<summary, facts, extracted, parked>>

\* FAILED or CANCELLED: no answer, and nothing else is derived.
TurnFails ==
    /\ turn.at = "running" /\ turn' = AtRest
    /\ UNCHANGED <<messages, summary, facts, extracted, parked, failures>>

\* WAITING_APPROVAL, WAITING_CHILD or INTERRUPTED: the answer is due later.
ParkTurn ==
    /\ turn.at = "running" /\ parked < MaxParked
    /\ turn' = AtRest /\ parked' = parked + 1
    /\ UNCHANGED <<messages, summary, facts, extracted, failures>>

\* Approved, resumed, or its last Child is done.
ResumeTurn ==
    /\ turn.at = "idle" /\ parked > 0
    /\ turn' = [turn EXCEPT !.at = "running"] /\ parked' = parked - 1
    /\ UNCHANGED <<messages, summary, facts, extracted, failures>>

FinishTurn ==
    /\ turn.at = "running" /\ RecordMessage("assistant", "nothing")
    /\ turn' = [turn EXCEPT !.at = "summarize"]
    /\ UNCHANGED <<summary, facts, extracted, parked>>

Stop ==
    /\ turn.at # "idle" /\ turn' = AtRest /\ MayFail(1)
    /\ UNCHANGED <<messages, summary, facts, extracted, parked>>

(***************************************************************************)
(* The summary.                                                            *)
(***************************************************************************)
WithRecord == {i \in DOMAIN messages : messages[i].recorded}

Unsummarized == {i \in WithRecord : i > summary.end}

Newer(i) == Cardinality({j \in Unsummarized : j > i})

\* The newest records stay raw.
EligibleRecords == {i \in Unsummarized : Newer(i) >= RecentReserve}

\* A user message and the next answer: a question that got no answer before the next question is
\* passed over, and so is the answer if one comes later.
PairsOf(records) ==
    {p \in records \X records :
        /\ p[1] < p[2] /\ messages[p[1]].role = "user" /\ messages[p[2]].role = "assistant"
        /\ \A k \in records : ~(p[1] < k /\ k < p[2])}

\* The pairs in their order, ChunkTurns at a time.
SegmentMessages(pairs) ==
    LET place(p) == Cardinality({q \in pairs : q[2] <= p[2]})
        count == (Cardinality(pairs) + ChunkTurns - 1) \div ChunkTurns
    IN [k \in 1..count |-> {p \in pairs : (k - 1) * ChunkTurns < place(p) /\ place(p) <= k * ChunkTurns}]

ReadForSummary ==
    /\ turn.at = "summarize"
    /\ LET segments == SegmentMessages(PairsOf(EligibleRecords))
           enough == /\ Cardinality(WithRecord) >= Threshold
                     /\ Cardinality(EligibleRecords) >= MinUnsummarized
                     /\ segments # <<>>
       IN turn' = IF enough THEN [turn EXCEPT !.at = "reduce", !.segments = segments]
                  ELSE [turn EXCEPT !.at = "extract"]
    /\ UNCHANGED <<messages, summary, facts, extracted, parked, failures>>

TurnsOf(segments, n) == UNION {segments[k] : k \in {k \in DOMAIN segments : k <= n}}

LastAnswerIn(turns) == CHOOSE i \in {p[2] : p \in turns} : \A p \in turns : p[2] <= i

\* mutant: the previous summary is not part of the new one
ForgetPrevious ==
    [version |-> summary.version + 1, end |-> LastAnswerIn(TurnsOf(turn.segments, Len(turn.segments))),
     turns |-> TurnsOf(turn.segments, Len(turn.segments))]

\* Only the partials that fit are reduced; the range ends with the last one all the same.
NewSummary ==
    [version |-> summary.version + 1, end |-> LastAnswerIn(TurnsOf(turn.segments, Len(turn.segments))),
     turns |-> summary.turns \cup TurnsOf(turn.segments, ReducePartials)]

\* The new summary and the end of the old one are one transaction.
SaveSummary ==
    /\ turn.at = "reduce"
    /\ summary' = NewSummary
    /\ turn' = [turn EXCEPT !.at = "extract", !.segments = <<>>]
    /\ UNCHANGED <<messages, facts, extracted, parked, failures>>

\* An exception of the summarizer is swallowed: the active summary stays, facts are next.
SummarizeFails ==
    /\ turn.at = "reduce" /\ MayFail(1)
    /\ turn' = [turn EXCEPT !.at = "extract", !.segments = <<>>]
    /\ UNCHANGED <<messages, summary, facts, extracted, parked>>

(***************************************************************************)
(* The facts.                                                              *)
(***************************************************************************)
StatedAfter(n) == {i \in DOMAIN messages : i > n /\ messages[i].says # "nothing"}

ReadForFacts ==
    /\ turn.at = "extract"
    /\ turn' = [turn EXCEPT !.at = "save", !.pending = StatedAfter(extracted), !.upto = Len(messages)]
    /\ UNCHANGED <<messages, summary, facts, extracted, parked, failures>>

ActiveFacts == {k \in DOMAIN facts : facts[k].active}

\* mutant: the old value stays active
KeepOld(value, id) ==
    IF \E k \in ActiveFacts : facts[k].value = value THEN facts
    ELSE Append(facts, [value |-> value, active |-> TRUE, seen |-> {id}])

\* An equal value is merged; another one is a new version and the old ones go inactive.
SaveFactValue(value, id) ==
    IF \E k \in ActiveFacts : facts[k].value = value
    THEN [k \in DOMAIN facts |-> IF k \in ActiveFacts /\ facts[k].value = value
                                 THEN [facts[k] EXCEPT !.seen = @ \cup {id}] ELSE facts[k]]
    ELSE Append([k \in DOMAIN facts |-> [facts[k] EXCEPT !.active = FALSE]],
                [value |-> value, active |-> TRUE, seen |-> {id}])

RetractFact == [k \in DOMAIN facts |-> [facts[k] EXCEPT !.active = FALSE]]

\* The oldest first.
SaveFact ==
    /\ turn.at = "save"
    /\ \E id \in turn.pending :
        /\ \A i \in turn.pending : id <= i
        /\ facts' = IF messages[id].says = NoValue THEN RetractFact ELSE SaveFactValue(messages[id].says, id)
        /\ turn' = [turn EXCEPT !.pending = @ \ {id}]
    /\ UNCHANGED <<messages, summary, extracted, parked, failures>>

SaveCheckpoint ==
    /\ turn.at = "save" /\ turn.pending = {}
    /\ extracted' = turn.upto /\ turn' = AtRest
    /\ UNCHANGED <<messages, summary, facts, parked, failures>>

MemoryNext ==
    \/ BeginTurn \/ TurnFails \/ ParkTurn \/ ResumeTurn \/ FinishTurn \/ Stop
    \/ ReadForSummary \/ SaveSummary \/ SummarizeFails
    \/ ReadForFacts \/ SaveFact \/ SaveCheckpoint

MemorySpec == MemoryInit /\ [][MemoryNext]_memoryVars

(***************************************************************************)
(* What the next Turn is shown: the summary, then the newest raw records   *)
(* after its end (MemoryContextBuilder).                                   *)
(***************************************************************************)
RecentRecords == {i \in Unsummarized : Newer(i) < RecentLimit}

(***************************************************************************)
(* Properties.                                                             *)
(***************************************************************************)
(* The active summary was made from every answered Turn up to the event it *)
(* says it ends with, and from no later one: summarizing piece by piece,   *)
(* around Turns that failed, records that are missing and runs that were   *)
(* cut off, pairs questions and answers as one pass over everything would. *)
SummaryCoversItsRange ==
    summary.turns = {p \in PairsOf(WithRecord) : p[2] <= summary.end}

(* When a Turn has been summarized and no derived write has failed, every  *)
(* answered Turn is in the summary or in full among the recent records,    *)
(* whatever Turns failed in between: nothing falls between the two.        *)
NothingFallsBetween ==
    turn.at \in {"extract", "save"} /\ failures = 0 =>
        \A p \in PairsOf(WithRecord) :
            p \in summary.turns \/ {p[1], p[2]} \subseteq RecentRecords

\* What the user had said last when event n was written.
SaidAt(n) ==
    LET said == {i \in 1..n : messages[i].says # "nothing"}
        last == CHOOSE i \in said : \A j \in said : j <= i
    IN IF said = {} THEN {} ELSE {messages[last].says} \ {NoValue}

(* There is at most one active value, the one the user had stated last at   *)
(* some event not before the fact checkpoint: statements are applied again  *)
(* after a stop, in their order, and none is left out.                      *)
FactFollowsTheUser ==
    \E n \in extracted..Len(messages) : {facts[k].value : k \in ActiveFacts} = SaidAt(n)

\* Summary, recent records and facts together are what was said (the parts above).
MemoryFollowsTheThread ==
    /\ SummaryCoversItsRange
    /\ NothingFallsBetween
    /\ FactFollowsTheUser
=============================================================================
