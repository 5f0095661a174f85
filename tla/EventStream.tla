---------------------------- MODULE EventStream ----------------------------
(***************************************************************************)
(* The durable events of a Thread (runtime/events.py, runtime/postgres.py, *)
(* PostgresEventRepository) and the server-sent stream that follows those  *)
(* of one Run (runtime/api.py, _send_events).                              *)
(*                                                                         *)
(* An id is assigned by the insert.  In SQLite there is one writer, so the *)
(* id is visible at once.  In PostgreSQL the identity column hands out the *)
(* id when the statement runs and the row shows when its transaction       *)
(* commits, so ids may appear out of order.                                *)
(***************************************************************************)
EXTENDS Integers, Sequences, FiniteSets, SequencesExt

CONSTANTS Emitter,      \* processes with an event sink on the Thread
          Executing,    \* the one that executes the followed Run, and saves its end
          OneWriter,    \* TRUE: SQLite, FALSE: PostgreSQL
          MaxEvents,    \* bound: ids
          MaxDrops      \* bound: connections lost

ASSUME StreamAssumption == Executing \in Emitter /\ OneWriter \in BOOLEAN

VARIABLES events,    \* the committed rows: of the followed Run, of others
          lastId,    \* the last id handed out
          emitting,  \* the rows inserted and not committed: emitter -> id, 0 without
          ended,     \* the checkpoint of the Run has a final status
          follower,  \* the request thread
          received,  \* what the client has read, over its connections
          early,     \* history: the Run's ids committed before it ended
          drops

streamVars == <<events, lastId, emitting, ended, follower, received, early, drops>>

Idle == [at |-> "off", cursor |-> 0, rows |-> <<>>, quiet |-> FALSE, ended |-> FALSE]

StreamInit ==
    /\ events = [run |-> {}, other |-> {}] /\ lastId = 0 /\ emitting = [p \in Emitter |-> 0]
    /\ ended = FALSE /\ follower = Idle /\ received = <<>> /\ early = {} /\ drops = 0

(***************************************************************************)
(* Appending.                                                              *)
(***************************************************************************)
InsertEvent(p) ==
    /\ emitting[p] = 0 /\ lastId < MaxEvents
    /\ OneWriter => \A q \in Emitter : emitting[q] = 0
    /\ lastId' = lastId + 1 /\ emitting' = [emitting EXCEPT ![p] = lastId + 1]
    /\ UNCHANGED <<events, ended, follower, received, early, drops>>

CommitEvent(p) ==
    /\ emitting[p] # 0
    /\ \E stream \in {"run", "other"} :
        /\ events' = [events EXCEPT ![stream] = @ \cup {emitting[p]}]
        /\ early' = IF ended \/ stream = "other" THEN early ELSE early \cup {emitting[p]}
    /\ emitting' = [emitting EXCEPT ![p] = 0]
    /\ UNCHANGED <<lastId, ended, follower, received, drops>>

\* The final checkpoint; the event that reports it is appended afterwards.
EndRun ==
    /\ ~ended /\ emitting[Executing] = 0
    /\ ended' = TRUE
    /\ UNCHANGED <<events, lastId, emitting, follower, received, early, drops>>

(***************************************************************************)
(* Following.                                                              *)
(***************************************************************************)
\* after_id or Last-Event-ID: the last id the client has read, from the start without one.
LastRead == IF received = <<>> THEN 0 ELSE Last(received)

Follow ==
    /\ follower.at = "off"
    /\ follower' = [Idle EXCEPT !.at = "poll", !.cursor = LastRead]
    /\ UNCHANGED <<events, lastId, emitting, ended, received, early, drops>>

NewEvents == {id \in events.run : id > follower.cursor}

\* ORDER BY id: the sequence of a set of ids.
InOrder(rows, ids) ==
    /\ ToSet(rows) = ids
    /\ \A i, j \in 1 .. Len(rows) : i < j => rows[i] < rows[j]

PollEvents ==
    /\ follower.at = "poll"
    /\ \E rows \in [1 .. Cardinality(NewEvents) -> NewEvents] :
        /\ InOrder(rows, NewEvents)
        /\ follower' = [follower EXCEPT !.at = "write", !.rows = rows, !.quiet = (NewEvents = {})]
    /\ UNCHANGED <<events, lastId, emitting, ended, received, early, drops>>

WriteEvent ==
    /\ follower.at = "write" /\ follower.rows # <<>>
    /\ received' = Append(received, Head(follower.rows))
    /\ follower' = [follower EXCEPT !.cursor = Head(follower.rows), !.rows = Tail(@)]
    /\ UNCHANGED <<events, lastId, emitting, ended, early, drops>>

AtOnce == follower.quiet                     \* mutant: without the final quiet poll

\* The Run was over before the poll that found nothing.
QuietAfterTheEnd == follower.ended /\ follower.quiet

CheckRunEnded ==
    /\ follower.at = "write" /\ follower.rows = <<>>
    /\ follower' = IF ended /\ QuietAfterTheEnd THEN [follower EXCEPT !.at = "closed"]
                   ELSE [follower EXCEPT !.at = "poll", !.ended = ended]
    /\ UNCHANGED <<events, lastId, emitting, ended, received, early, drops>>

LoseConnection ==
    /\ follower.at \in {"poll", "write"} /\ drops < MaxDrops
    /\ follower' = Idle /\ drops' = drops + 1
    /\ UNCHANGED <<events, lastId, emitting, ended, received, early>>

Serve == Follow \/ PollEvents \/ WriteEvent \/ CheckRunEnded

StreamNext ==
    \/ \E p \in Emitter : InsertEvent(p) \/ CommitEvent(p)
    \/ EndRun \/ Serve \/ LoseConnection

StreamFairness == WF_streamVars(Serve) /\ \A p \in Emitter : WF_streamVars(CommitEvent(p))

StreamSpec == StreamInit /\ [][StreamNext]_streamVars /\ StreamFairness

(***************************************************************************)
(* Properties.                                                             *)
(***************************************************************************)
(* What a client has read is the Run's events from the first one to the    *)
(* last it has read: in the order of their ids, none twice and none left   *)
(* out, over any number of reconnects ("Independent clients receive the    *)
(* same stream").                                                          *)
StreamHasNoGap ==
    InOrder(received, {id \in events.run : id <= LastRead})

(* A stream that was closed because the Run is over has delivered every    *)
(* event committed before the Run ended: the end must have been seen       *)
(* before the poll that found nothing.                                     *)
ClosedStreamIsComplete == follower.at = "closed" => early \subseteq ToSet(received)

(* The stream of a Run that is over is closed.                             *)
StreamEnds == ended ~> follower.at = "closed"

\* A client reads the events without a gap, reads all of them before its stream is
\* closed, and the stream of a Run that is over is closed (the parts above).
ClientsReadEverything ==
    /\ [](StreamHasNoGap /\ ClosedStreamIsComplete)
    /\ StreamEnds
=============================================================================
