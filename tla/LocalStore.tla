----------------------------- MODULE LocalStore -----------------------------
(***************************************************************************)
(* The stores without leases (src/axiom/runtime/checkpoints.py): the       *)
(* in-memory one, and the SQLite file that the threads of a server and the *)
(* processes of the command line share.  A behaviour is about one table:   *)
(* the checkpoints of a Run, the budget ledger of a tree, the record of a  *)
(* tool invocation, or - in PostgreSQL - the control operation of one key. *)
(*                                                                         *)
(* A write of the file is a job of a thread (asyncio.to_thread): it goes   *)
(* on when the task that awaits it is cancelled, waits for the file's      *)
(* write lock (begin immediate), and may be rolled back.                   *)
(***************************************************************************)
EXTENDS Integers, Sequences, FiniteSets

CONSTANTS User,
          Arguments,               \* hashes of the arguments of a tool, or of a request
          MaxWrites, MaxStops      \* bounds: writes of a user, ends of a process

ASSUME LocalStoreAssumption == "none" \notin Arguments /\ MaxWrites \in Nat /\ MaxStops \in Nat

VARIABLES store,      \* which table of which backend
          rows,       \* the checkpoints: of each, the writes its state includes
          ledger,     \* version and the charges its state includes
          record,     \* the tool execution: the arguments it is about, its last write
          operation,  \* the control operation: the request, and who created it
          writing,    \* who holds the file's write lock
          user,       \* the object each user holds, and its write
          told,       \* the writes whose success was reported
          stops

storeVars == <<store, rows, ledger, record, operation, writing, user, told, stops>>
tables == <<rows, ledger, record, operation>>

Nobody == "nobody"
Absent == [arguments |-> "none", by |-> "none"]
IdleUser == [at |-> "idle", version |-> 0, state |-> {}, arguments |-> "none", count |-> 0, awaited |-> TRUE]

StoreInit ==
    /\ store = [table |-> "none", backend |-> "none"]
    /\ rows = <<>> /\ ledger = [version |-> 0, state |-> {}] /\ record = Absent /\ operation = Absent
    /\ writing = Nobody /\ told = {} /\ stops = 0
    /\ user = [u \in User |-> IdleUser]

OpenFile(table, backend) ==
    /\ store.table = "none" /\ store' = [table |-> table, backend |-> backend]
    /\ UNCHANGED <<tables, writing, user, told, stops>>

InMemory == store.backend = "memory"
Free(u) == [IdleUser EXCEPT !.count = user[u].count]
WriteOf(u) == [by |-> u, number |-> user[u].count, arguments |-> user[u].arguments]

(***************************************************************************)
(* Reading.  The object is the user's own: a copy, or what was decoded.    *)
(***************************************************************************)
Take(u, version, state, arguments) ==
    /\ user[u].at = "idle"
    /\ user' = [user EXCEPT ![u] = [Free(u) EXCEPT !.at = "holds", !.version = version, !.state = state,
                                                   !.arguments = arguments]]
    /\ UNCHANGED <<store, tables, writing, told, stops>>

LoadRun(u) ==
    /\ store.table = "run"
    /\ Take(u, Len(rows), IF rows = <<>> THEN {} ELSE rows[Len(rows)], "none")

LoadLedger(u) == store.table = "ledger" /\ Take(u, ledger.version, ledger.state, "none")

\* A record of other arguments fails the Run instead.
LoadTool(u, arguments) ==
    /\ record = Absent \/ record.arguments = arguments
    /\ store.table = "tool" /\ Take(u, 0, {}, arguments)

Request(u, arguments) == store.table = "control" /\ Take(u, 0, {}, arguments)

(***************************************************************************)
(* Writing.                                                                *)
(***************************************************************************)
BeginWrite(u) ==
    /\ user[u].at = "holds" /\ user[u].count < MaxWrites
    /\ LET w == [WriteOf(u) EXCEPT !.number = @ + 1]
       IN user' = [user EXCEPT ![u].at = "queued", ![u].count = @ + 1, ![u].state = @ \cup {w}]
    /\ UNCHANGED <<store, tables, writing, told, stops>>

BeginImmediate(u) ==
    /\ ~InMemory /\ user[u].at = "queued" /\ writing = Nobody
    /\ writing' = u /\ user' = [user EXCEPT ![u].at = "writes"]
    /\ UNCHANGED <<store, tables, told, stops>>

\* In memory nothing awaits between the check and the write; in the file the lock is held.
MayWrite(u) == IF InMemory THEN user[u].at = "queued" ELSE user[u].at = "writes" /\ writing = u

\* The write is done: its object goes on with the new version, unless nobody awaits it.
Kept(u) == IF user[u].awaited THEN [user[u] EXCEPT !.at = "holds", !.version = @ + 1] ELSE Free(u)
Accepted(u) ==
    /\ user' = [user EXCEPT ![u] = Kept(u)]
    /\ told' = IF user[u].awaited THEN told \cup {WriteOf(u)} ELSE told
    /\ writing' = Nobody
\* It raises: whoever catches it reads again.
Refused(u) == user' = [user EXCEPT ![u] = Free(u)] /\ writing' = Nobody /\ UNCHANGED <<tables, told>>

Stale(u) == user[u].version # Len(rows)
AppendRow(u) == rows' = Append(rows, user[u].state) /\ Accepted(u) /\ UNCHANGED <<ledger, record, operation>>

SaveRunInMemory(u) ==
    /\ InMemory /\ store.table = "run" /\ MayWrite(u)
    /\ IF Stale(u) THEN Refused(u) ELSE AppendRow(u)

SaveRun(u) ==
    /\ ~InMemory /\ store.table = "run" /\ MayWrite(u)
    /\ IF Stale(u) THEN Refused(u) ELSE AppendRow(u)

StoreLedger(u) ==
    /\ ledger' = [version |-> user[u].version + 1, state |-> user[u].state]
    /\ Accepted(u) /\ UNCHANGED <<rows, record, operation>>

SaveLedgerInMemory(u) ==
    /\ InMemory /\ store.table = "ledger" /\ MayWrite(u)
    /\ IF user[u].version # ledger.version THEN Refused(u) ELSE StoreLedger(u)

\* Version 0 inserts, and the row may be there; any other updates the row of that version.
SaveLedger(u) ==
    /\ ~InMemory /\ store.table = "ledger" /\ MayWrite(u)
    /\ \/ user[u].version = 0 /\ ledger.version = 0 /\ StoreLedger(u)
       \/ user[u].version = 0 /\ ledger.version > 0 /\ Refused(u)
       \/ user[u].version > 0 /\ ledger.version = user[u].version /\ StoreLedger(u)
       \/ user[u].version > 0 /\ ledger.version # user[u].version /\ Refused(u)

Upsert(u) ==
    /\ record' = [arguments |-> user[u].arguments, by |-> u]
    /\ Accepted(u) /\ UNCHANGED <<rows, ledger, operation>>
OtherArguments(u) == record # Absent /\ record.arguments # user[u].arguments

SaveToolInMemory(u) ==
    /\ InMemory /\ store.table = "tool" /\ MayWrite(u)
    /\ IF OtherArguments(u) THEN Refused(u) ELSE Upsert(u)

\* mutant: the hash is compared when the record is loaded, and not again
UpsertAny(u) == ~InMemory /\ store.table = "tool" /\ MayWrite(u) /\ Upsert(u)

SaveTool(u) ==
    /\ ~InMemory /\ store.table = "tool" /\ MayWrite(u)
    /\ IF OtherArguments(u) THEN Refused(u) ELSE Upsert(u)

\* insert ... on conflict do nothing: the second under a key is given the first's
\* record, which it does not execute, or an error when the requests differ.
BeginOperation(u) ==
    /\ store.table = "control" /\ MayWrite(u)
    /\ IF operation = Absent
       THEN /\ operation' = [arguments |-> user[u].arguments, by |-> u]
            /\ Accepted(u) /\ UNCHANGED <<rows, ledger, record>>
       ELSE Refused(u)

\* The file is full, or cannot be written.
RollBackWrite(u) ==
    /\ ~InMemory /\ user[u].at = "writes" /\ Refused(u)
    /\ UNCHANGED <<store, stops>>

\* The task that awaits the write is cancelled.  The thread goes on; in memory there is none.
Abandon(u) ==
    /\ user[u].at \in {"queued", "writes"} /\ user[u].awaited
    /\ user' = [user EXCEPT ![u] = IF InMemory THEN Free(u) ELSE [@ EXCEPT !.awaited = FALSE]]
    /\ UNCHANGED <<store, tables, writing, told, stops>>

\* The process ends: that of the user, or the one that holds the memory.
Stop(u) ==
    /\ stops < MaxStops /\ stops' = stops + 1 /\ store.table # "none"
    /\ IF InMemory
       THEN /\ user' = [v \in User |-> Free(v)] /\ told' = {}
            /\ rows' = <<>> /\ ledger' = [version |-> 0, state |-> {}] /\ record' = Absent
            /\ UNCHANGED <<operation, writing>>
       ELSE /\ user' = [user EXCEPT ![u] = Free(u)]
            /\ writing' = IF writing = u THEN Nobody ELSE writing
            /\ UNCHANGED <<tables, told>>
    /\ UNCHANGED store

Write(u) ==
    /\ \/ SaveRunInMemory(u) \/ SaveRun(u) \/ SaveLedgerInMemory(u) \/ SaveLedger(u)
       \/ SaveToolInMemory(u) \/ SaveTool(u) \/ BeginOperation(u)
    /\ UNCHANGED <<store, stops>>

StoreNext ==
    \/ \E table \in {"run", "ledger", "tool"}, backend \in {"memory", "sqlite"} : OpenFile(table, backend)
    \/ OpenFile("control", "postgres")
    \/ \E u \in User : \/ LoadRun(u) \/ LoadLedger(u) \/ BeginWrite(u) \/ BeginImmediate(u) \/ Write(u)
                       \/ RollBackWrite(u) \/ Abandon(u) \/ Stop(u)
                       \/ \E a \in Arguments : LoadTool(u, a) \/ Request(u, a)

LocalStoreSpec == StoreInit /\ [][StoreNext]_storeVars

(***************************************************************************)
(* What the Runtime takes for granted.                                     *)
(***************************************************************************)

\* Every checkpoint was made from the one before it, so that no writer's state is
\* lost, whoever was cancelled, rolled back or stopped (the sequence check of _save).
HistoryIsLinear ==
    \A i \in 2..Len(rows) : rows[i - 1] \subseteq rows[i] /\ Cardinality(rows[i] \ rows[i - 1]) = 1

\* A charge that was reported to be in the ledger stays in it, although every
\* writer replaces the whole state (the version check of _save_budget_ledger).
ChargesAreKept == store.table = "ledger" => told \subseteq ledger.state

\* All that was reported to be recorded of an invocation is about the same
\* arguments, also when two executions of the Run record it first at once
\* (the hash check of _save_tool_execution).
OneSetOfArguments == store.table = "tool" => \A w \in told : w.arguments = record.arguments

\* One request at most is told that it created the operation of a key, and the
\* stored request is its own (PostgresControlOperationStore.begin).
OneRequestCreates ==
    store.table = "control" => \A w \in told : w.by = operation.by /\ w.arguments = operation.arguments

\* What a store reported as written stays: checkpoints, charges, the arguments of an
\* invocation and the request of a key (the parts above).
ReportedWritesStand ==
    /\ HistoryIsLinear
    /\ ChargesAreKept
    /\ OneSetOfArguments
    /\ OneRequestCreates
=============================================================================
