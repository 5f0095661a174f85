---------------------------- MODULE ContextWindow ----------------------------
(***************************************************************************)
(* The request a model call sends (src/axiom/context.py): the messages of  *)
(* the Run, fitted into the model's window before every call of the loop   *)
(* (runtime/durable.py, agent/query.py).  A message has a size in tokens;  *)
(* a summary stands for a prefix of the messages and is kept with the Run. *)
(***************************************************************************)
EXTENDS Integers, Sequences, FiniteSets, SequencesExt

CONSTANTS HardLimit, Watermark,    \* ContextBudgetPolicy, in tokens
          RawReserve,              \* recent_message_reserve
          ToolLimit,               \* the size an old tool result is cut to
          SummarySize,
          Sizes,                   \* of a tool result
          MaxHistory, MaxLog       \* bounds: earlier Turns, messages

ASSUME WindowAssumption ==
    /\ {HardLimit, Watermark, RawReserve, ToolLimit, SummarySize, MaxHistory, MaxLog} \subseteq Nat
    /\ Sizes \subseteq Nat /\ Watermark <= HardLimit

VARIABLES log,        \* the messages of the Run: role, the call it makes or answers, size
          objective,  \* where the Run's input is in it
          compaction, \* the reusable summary: the prefix it covers, the messages its text was made from
          sent,       \* what was last sent: <<0, size>> for the summary, <<position, size>>
          asking      \* "start", "model", "tools", "done", "overflow"

windowVars == <<log, objective, compaction, sent, asking>>

Plain(role) == [role |-> role, call |-> 0, calls |-> 0, size |-> 1]

\* An earlier Turn: question and answer (a Thread's history), with an exchange of the
\* tools in between when the history is a session's (agent/query_engine.py).
EarlierTurn(start, exchange) ==
    IF exchange = 0 THEN <<Plain("user"), Plain("assistant")>>
    ELSE <<Plain("user"), [Plain("assistant") EXCEPT !.calls = 1],
           [Plain("tool") EXCEPT !.call = start + 2, !.size = exchange], Plain("assistant")>>

WindowInit ==
    /\ log = <<>> /\ objective = 0 /\ compaction = [covered |-> 0, of |-> {}]
    /\ sent = <<>> /\ asking = "start"

Positions == DOMAIN log

\* A Turn before this one.
EndEarlierTurn ==
    /\ asking = "start" /\ Cardinality({i \in Positions : log[i].role = "user"}) < MaxHistory
    /\ \E exchange \in Sizes \cup {0} : log' = log \o EarlierTurn(Len(log), exchange)
    /\ UNCHANGED <<objective, compaction, sent, asking>>

\* The input of this one, behind what it was given of the earlier Turns.
Start ==
    /\ asking = "start" /\ asking' = "model"
    /\ log' = Append(log, Plain("user")) /\ objective' = Len(log')
    /\ UNCHANGED <<compaction, sent>>

LatestUser(messages) == CHOOSE i \in DOMAIN messages :
    /\ messages[i].role = "user" /\ \A j \in DOMAIN messages : messages[j].role = "user" => j <= i

(***************************************************************************)
(* An assistant message with calls and the results that follow it are one  *)
(* unit; the units are given by where they start and end.                  *)
(***************************************************************************)
UnitEnd(messages, i) ==
    LET next == {j \in (i + 1)..Len(messages) : messages[j].role # "tool"}
    IN IF messages[i].calls = 0 THEN i
       ELSE IF next = {} THEN Len(messages) ELSE (CHOOSE j \in next : \A k \in next : j <= k) - 1

MessageUnits(messages) ==
    {<<i, UnitEnd(messages, i)>> : i \in {i \in DOMAIN messages : messages[i].role # "tool"}}

PendingProtocol(messages, unit) == messages[unit[1]].calls > unit[2] - unit[1]

Pinned(messages, unit) ==
    \/ unit[2] > Len(messages) - RawReserve
    \/ unit[1] <= LatestUser(messages) /\ LatestUser(messages) <= unit[2]
    \/ PendingProtocol(messages, unit)
    \/ unit[1] <= objective /\ objective <= unit[2]

\* mutant: everything before the objective and the newest messages
RawPrefixEnd(messages) ==
    IF objective - 1 < Len(messages) - RawReserve THEN objective - 1 ELSE Len(messages) - RawReserve

\* The longest run of units after the covered prefix none of which is pinned.
EligiblePrefixEnd(messages) ==
    LET pinned == {u[1] : u \in {u \in MessageUnits(messages) : u[2] > compaction.covered /\ Pinned(messages, u)}}
    IN (CHOOSE i \in pinned : \A j \in pinned : i <= j) - 1

(***************************************************************************)
(* Fitting.                                                                *)
(***************************************************************************)
Items(messages, from) == [k \in 1..(Len(messages) - from) |-> <<from + k, messages[from + k].size>>]

WithSummary(messages, covered) ==
    IF covered = 0 THEN Items(messages, 0) ELSE <<<<0, SummarySize>>>> \o Items(messages, covered)

\* Old tool results are cut; the newest messages of the request are not.
Project(messages, items) ==
    [k \in DOMAIN items |->
        LET p == items[k][1]
        IN IF /\ p # 0 /\ messages[p].role = "tool"
              /\ k <= Len(items) - RawReserve /\ items[k][2] > ToolLimit
           THEN <<p, ToolLimit>> ELSE items[k]]

Tokens(items) == FoldLeft(LAMBDA t, item : t + item[2], 0, items)

\* The previous summary, and the messages since: a failing summarizer has a fallback.
Summarized(previous, end) ==
    [covered |-> end, of |-> previous.of \cup (previous.covered + 1)..end]

\* The request and the summary to keep with the Run.
Fit(messages) ==
    LET candidate == Project(messages, WithSummary(messages, compaction.covered))
        end == EligiblePrefixEnd(messages)
    IN IF Tokens(candidate) < Watermark \/ end <= compaction.covered
       THEN [request |-> candidate, compaction |-> compaction]
       ELSE [request |-> Project(messages, WithSummary(messages, end)),
             compaction |-> Summarized(compaction, end)]

(***************************************************************************)
(* The loop.                                                                 *)
(***************************************************************************)
\* A progress recovery hint is the last message of the request, and of no other.
CallModel ==
    /\ asking = "model"
    /\ \E hint \in BOOLEAN :
        LET messages == IF hint THEN Append(log, Plain("user")) ELSE log
            fitted == Fit(messages)
        IN IF Tokens(fitted.request) > HardLimit
           THEN asking' = "overflow" /\ UNCHANGED <<compaction, sent, log>>
           ELSE /\ compaction' = fitted.compaction
                /\ sent' = fitted.request
                /\ \/ asking' = "done" /\ log' = Append(log, Plain("assistant"))
                   \/ \E n \in {1, 2} :
                        /\ Len(log) + n < MaxLog
                        /\ asking' = "tools" /\ log' = Append(log, [Plain("assistant") EXCEPT !.calls = n])
    /\ UNCHANGED objective

\* The results come in the order of the calls; the model is called again after the last.
AppendResult ==
    /\ asking = "tools"
    /\ LET asked == CHOOSE i \in Positions : log[i].calls # 0 /\ \A j \in Positions : log[j].calls # 0 => j <= i
           n == Len(log) - asked + 1
       IN /\ \E size \in Sizes : log' = Append(log, [Plain("tool") EXCEPT !.call = asked, !.size = size])
          /\ asking' = IF n = log[asked].calls THEN "model" ELSE "tools"
    /\ UNCHANGED <<objective, compaction, sent>>

\* The completion check rejects the answer: a correction follows it.
Correct ==
    /\ asking = "done" /\ Len(log) < MaxLog
    /\ log' = Append(log, Plain("user")) /\ asking' = "model"
    /\ UNCHANGED <<objective, compaction, sent>>

WindowNext == EndEarlierTurn \/ Start \/ CallModel \/ AppendResult \/ Correct

WindowSpec == WindowInit /\ [][WindowNext]_windowVars

(***************************************************************************)
(* Properties.                                                             *)
(***************************************************************************)
Sent == {item[1] : item \in ToSet(sent)}

\* The messages the last request was made from.
AskedAbout == LET answer == CHOOSE i \in Positions : /\ log[i].role = "assistant"
                                                    /\ \A j \in Positions : log[j].role = "assistant" => j <= i
              IN 1..(answer - 1)

(* A request never holds one side of a tool exchange: a result is sent     *)
(* with the message that made the call, and that one with all its results. *)
ExchangesAreWhole ==
    asking \in {"tools", "done"} =>
        \A i \in AskedAbout : log[i].role = "tool" => (i \in Sent <=> log[i].call \in Sent)

(* Each message before the call was in the request or is in what the       *)
(* summary was made from, never in both and never in neither; the          *)
(* objective and the newest messages are sent as they are.                 *)
EveryMessageIsThereOnce ==
    asking \in {"tools", "done"} =>
        \A i \in AskedAbout :
            /\ (i \in Sent) # (i \in compaction.of)
            /\ i = objective \/ i > Cardinality(AskedAbout) + 1 - RawReserve
               => <<i, log[i].size>> \in ToSet(sent)

(* A call is refused only when what is pinned does not fit ("If pinned     *)
(* context still exceeds the hard input limit, the Run fails"): what the    *)
(* objective, the newest messages and a summary of the rest would take.    *)
OverflowIsPinned ==
    asking = "overflow" =>
        LET kept == {i \in Positions : \E u \in MessageUnits(log) : u[1] <= i /\ i <= u[2] /\ Pinned(log, u)}
            items == SetToSeq({<<i, log[i].size>> : i \in kept})
        IN SummarySize + Tokens(items) + 1 > HardLimit

\* A compacted request has whole tool exchanges and every message once (the parts
\* above).
ContextIsWhole ==
    /\ ExchangesAreWhole
    /\ EveryMessageIsThereOnce
=============================================================================
