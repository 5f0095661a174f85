---------------------------- MODULE ServiceProofs ----------------------------
(***************************************************************************)
(* Proofs about the services around a Run, for any values of their         *)
(* constants: LocalStore, Admission, ProgressDetector, CodeIndex,          *)
(* BadCases, ToolBatch and RunTrace.  Each part has an inductive           *)
(* invariant of its own:                                                   *)
(*                                                                         *)
(*   StoreInv      what a user may rely on while it holds an object;       *)
(*   AdmissionInv  what a transaction counted while it holds the           *)
(*                 coordinator's row is no less than there is;             *)
(*   ProgressInv   how far the windows of the detectors reach back;        *)
(*   IndexInv      what an update has done for the files that nobody       *)
(*                 edits meanwhile;                                        *)
(*   BadCaseInv    what a command relies on of what it read;               *)
(*   BatchInv      how far a history is whole while calls have no result;  *)
(*   TraceInv      what each activity of a Run still closes of its trace,  *)
(*                 and which of its checkpoints were saved.                *)
(***************************************************************************)
EXTENDS LocalStore, Admission, ProgressDetector, CodeIndex, BadCases, ToolBatch, RunTrace,
        FiniteSetTheorems, SequenceTheorems, TLAPS

(***************************************************************************)
(* LocalStore.  A checkpoint or a ledger that a user holds is what was     *)
(* stored under its version, with the write underway and no other (Sound). *)
(* The write is not yet in the table (Numbered), although the task that    *)
(* began it may be gone and its thread still at work.                      *)
(***************************************************************************)

Underway == {"queued", "writes"}

WriteType == [by : User, number : Nat, arguments : Arguments \cup {"none"}]

\* The write that x, an object of u, has underway.
WriteIn(u, x) == [by |-> u, number |-> x.count, arguments |-> x.arguments]

\* The writes of the user that may be in a table are numbered up to this.
LastDone(x) == IF x.at \in Underway THEN x.count - 1 ELSE x.count

StoredUnder(rs, version) == IF version = 0 THEN {} ELSE rs[version]

Shaped(x) ==
    /\ DOMAIN x = {"at", "version", "state", "arguments", "count", "awaited"}
    /\ x.at \in {"idle", "holds"} \cup Underway
    /\ x.version \in Nat
    /\ x.state \in SUBSET WriteType
    /\ x.arguments \in Arguments \cup {"none"}
    /\ x.count \in Nat

\* What a user of table t may rely on, when the checkpoints are rs and the ledger is l.
Sound(t, rs, l, u, x) ==
    /\ Shaped(x)
    /\ t = "none" => x.at = "idle"
    /\ t = "run" /\ x.at # "idle" =>
          /\ x.version <= Len(rs)
          /\ x.state = StoredUnder(rs, x.version)
                          \cup (IF x.at \in Underway THEN {WriteIn(u, x)} ELSE {})
    /\ t = "ledger" /\ x.at # "idle" =>
          /\ x.version <= l.version
          /\ x.version = l.version => l.state \subseteq x.state
          /\ x.at \in Underway => WriteIn(u, x) \in x.state
    /\ t \in {"tool", "control"} /\ x.at # "idle" => x.arguments \in Arguments

Users ==
    /\ DOMAIN user = User
    /\ \A u \in User : Sound(store.table, rows, ledger, u, user[u])

\* A write underway is in no checkpoint: its number is above those of its user's.
Numbered ==
    /\ rows \in Seq(SUBSET WriteType)
    /\ \A i \in 1 .. Len(rows) : \A w \in rows[i] : w.number <= LastDone(user[w.by])

Versioned ==
    /\ DOMAIN ledger = {"version", "state"}
    /\ ledger.version \in Nat
    /\ ledger.state \in SUBSET WriteType

\* Nothing is reported before something is stored.
NothingToldYet ==
    /\ store.table = "none" => told = {}
    /\ store.table = "tool" /\ record = Absent => told = {}
    /\ store.table = "control" /\ operation = Absent => told = {}

StoreInv ==
    /\ store.table \in {"none", "run", "ledger", "tool", "control"}
    /\ Users
    /\ Numbered
    /\ Versioned
    /\ NothingToldYet
    /\ ReportedWritesStand

(***************************************************************************)
(* The object of a user.                                                   *)
(***************************************************************************)

\* What a user holds after a write that failed, or that nobody awaits: nothing.
LEMMA FreeFields ==
    ASSUME NEW u \in User, Shaped(user[u])
    PROVE  /\ Shaped(Free(u))
           /\ Free(u).at = "idle"
           /\ Free(u).version = 0
           /\ Free(u).state = {}
           /\ Free(u).arguments = "none"
           /\ Free(u).count = user[u].count
BY DEF Free, IdleUser, Shaped, Underway

\* An idle user relies on nothing, and its writes are as many as before.
LEMMA FreeIsSound ==
    ASSUME NEW u \in User, Shaped(user[u]), NEW t, NEW rs, NEW l
    PROVE  /\ Sound(t, rs, l, u, Free(u))
           /\ LastDone(user[u]) <= LastDone(Free(u))
<1>1. Shaped(Free(u)) /\ Free(u).at = "idle" /\ Free(u).count = user[u].count
  BY FreeFields
<1>2. user[u].count \in Nat
  BY DEF Shaped
<1>3. LastDone(user[u]) <= LastDone(Free(u))
  BY <1>1, <1>2 DEF LastDone, Underway
<1> QED BY <1>1, <1>3 DEF Sound, Underway

\* The numbers of the writes done are integers.
LEMMA LastDoneInt ==
    ASSUME NEW x, Shaped(x)
    PROVE  LastDone(x) \in Int
BY DEF Shaped, LastDone

\* A step that leaves the tables alone and gives u an object it may rely on.
LEMMA UserMoves ==
    ASSUME StoreInv, NEW u \in User, NEW x,
           user' = [user EXCEPT ![u] = x],
           UNCHANGED <<store, tables, told>>,
           Sound(store.table, rows, ledger, u, x),
           LastDone(user[u]) <= LastDone(x)
    PROVE  StoreInv'
<1>1. DOMAIN user = User /\ \A v \in User : Sound(store.table, rows, ledger, v, user[v])
  BY DEF StoreInv, Users
<1>2. /\ store' = store /\ rows' = rows /\ ledger' = ledger /\ record' = record
      /\ operation' = operation /\ told' = told
  BY DEF tables
<1>3. DOMAIN user' = User /\ user'[u] = x /\ \A v \in User \ {u} : user'[v] = user[v]
  BY <1>1
<1>4. \A v \in User : Sound(store.table, rows, ledger, v, user'[v])
  BY <1>1, <1>3
<1>5. Users'
  BY <1>2, <1>3, <1>4 DEF Users
<1>6. \A v \in User : LastDone(user[v]) <= LastDone(user'[v])
  <2>1. ASSUME NEW v \in User PROVE LastDone(user[v]) <= LastDone(user'[v])
    <3>1. LastDone(user[v]) \in Int
      BY <1>1, LastDoneInt DEF Sound
    <3> QED BY <3>1, <1>3
  <2> QED BY <2>1
<1>7. Numbered'
  <2>1. rows' \in Seq(SUBSET WriteType)
    BY <1>2 DEF StoreInv, Numbered
  <2>2. ASSUME NEW i \in 1 .. Len(rows), NEW w \in rows[i] PROVE w.number <= LastDone(user'[w.by])
    <3>1. w \in WriteType
      BY DEF StoreInv, Numbered
    <3>2. w.by \in User /\ w.number \in Nat
      BY <3>1 DEF WriteType
    <3>3. w.number <= LastDone(user[w.by]) /\ LastDone(user[w.by]) <= LastDone(user'[w.by])
      BY <1>6, <3>2 DEF StoreInv, Numbered
    <3>4. LastDone(user[w.by]) \in Int /\ LastDone(user'[w.by]) \in Int
      BY <1>1, <1>4, <3>2, LastDoneInt DEF Sound
    <3> QED BY <3>2, <3>3, <3>4
  <2> QED BY <1>2, <2>1, <2>2 DEF Numbered
<1>8. Versioned' /\ NothingToldYet'
  BY <1>2 DEF StoreInv, Versioned, NothingToldYet
<1>9. ReportedWritesStand'
  BY <1>2 DEF StoreInv, ReportedWritesStand, HistoryIsLinear, ChargesAreKept, OneSetOfArguments, OneRequestCreates
<1> QED BY <1>2, <1>5, <1>7, <1>8, <1>9 DEF StoreInv

\* A write that raises, or is rolled back, leaves its user with nothing.
LEMMA RefusedKeeps ==
    ASSUME StoreInv, NEW u \in User, user' = [user EXCEPT ![u] = Free(u)], UNCHANGED <<store, tables, told>>
    PROVE  StoreInv'
<1>1. Shaped(user[u])
  BY DEF StoreInv, Users, Sound
<1>2. Sound(store.table, rows, ledger, u, Free(u)) /\ LastDone(user[u]) <= LastDone(Free(u))
  BY <1>1, FreeIsSound
<1> QED BY <1>2, UserMoves

\* The behaviour begins with empty tables and idle users.
LEMMA InitEstablishes == StoreInit => StoreInv
<1> SUFFICES ASSUME StoreInit PROVE StoreInv
  OBVIOUS
<1>1. /\ store = [table |-> "none", backend |-> "none"] /\ rows = <<>>
      /\ ledger = [version |-> 0, state |-> {}] /\ told = {}
      /\ user = [u \in User |-> IdleUser]
  BY DEF StoreInit
<1>2. Shaped(IdleUser) /\ IdleUser.at = "idle"
  BY DEF IdleUser, Shaped
<1>3. Users
  BY <1>1, <1>2 DEF Users, Sound, Underway
<1>4. rows \in Seq(SUBSET WriteType) /\ Len(rows) = 0
  BY <1>1
<1>5. Numbered
  BY <1>4 DEF Numbered
<1>6. Versioned /\ NothingToldYet
  BY <1>1 DEF Versioned, NothingToldYet
<1>7. ReportedWritesStand
  BY <1>1, <1>4 DEF ReportedWritesStand, HistoryIsLinear, ChargesAreKept, OneSetOfArguments, OneRequestCreates
<1>8. store.table = "none"
  BY <1>1
<1> QED BY <1>3, <1>5, <1>6, <1>7, <1>8 DEF StoreInv

(***************************************************************************)
(* The steps that leave the tables alone, but for OpenFile.                *)
(***************************************************************************)

\* A table is opened once, before anything is in it.
LEMMA OpenFileKeeps ==
    ASSUME StoreInv, NEW table \in {"run", "ledger", "tool", "control"}, NEW backend, OpenFile(table, backend)
    PROVE  StoreInv'
<1>1. /\ store.table = "none" /\ store'.table = table
      /\ rows' = rows /\ ledger' = ledger /\ record' = record /\ operation' = operation
      /\ user' = user /\ told' = told
  BY DEF OpenFile, tables
<1>2. told = {}
  BY <1>1 DEF StoreInv, NothingToldYet
<1>3. \A u \in User : user[u].at = "idle" /\ Shaped(user[u])
  BY <1>1 DEF StoreInv, Users, Sound
<1>4. DOMAIN user = User
  BY DEF StoreInv, Users
<1>5. Users'
  BY <1>1, <1>3, <1>4 DEF Users, Sound, Underway
<1>6. Numbered' /\ Versioned'
  BY <1>1 DEF StoreInv, Numbered, Versioned
<1>7. NothingToldYet'
  BY <1>1, <1>2 DEF NothingToldYet
<1>8. ReportedWritesStand'
  BY <1>1, <1>2
     DEF StoreInv, ReportedWritesStand, HistoryIsLinear, ChargesAreKept, OneSetOfArguments, OneRequestCreates
<1> QED BY <1>1, <1>5, <1>6, <1>7, <1>8 DEF StoreInv

\* What a user is given when it reads.
LEMMA TakeKeeps ==
    ASSUME StoreInv, NEW u \in User, NEW version \in Nat, NEW state \in SUBSET WriteType,
           NEW arguments \in Arguments \cup {"none"},
           store.table \in {"run", "ledger", "tool", "control"},
           store.table = "run" => version <= Len(rows) /\ state = StoredUnder(rows, version),
           store.table = "ledger" => version = ledger.version /\ state = ledger.state,
           store.table \in {"tool", "control"} => arguments \in Arguments,
           Take(u, version, state, arguments)
    PROVE  StoreInv'
<1> DEFINE x == [Free(u) EXCEPT !.at = "holds", !.version = version, !.state = state, !.arguments = arguments]
<1>1. Shaped(user[u]) /\ user[u].at = "idle"
  BY DEF StoreInv, Users, Sound, Take
<1>2. Shaped(x) /\ x.at = "holds" /\ x.version = version /\ x.state = state /\ x.arguments = arguments
      /\ x.count = user[u].count
  BY <1>1, FreeFields DEF Shaped
<1>3. user' = [user EXCEPT ![u] = x] /\ UNCHANGED <<store, tables, told>>
  BY DEF Take
<1> HIDE DEF x
<1>4. Sound(store.table, rows, ledger, u, x)
  <2>1. store.table = "ledger" => x.version <= ledger.version
    BY <1>2 DEF Shaped
  <2> QED BY <1>2, <2>1 DEF Sound, Underway
<1>5. LastDone(user[u]) <= LastDone(x)
  BY <1>1, <1>2 DEF LastDone, Underway, Shaped
<1> QED BY <1>3, <1>4, <1>5, UserMoves

\* The last checkpoint.
LEMMA LoadRunKeeps == ASSUME StoreInv, NEW u \in User, LoadRun(u) PROVE StoreInv'
<1> DEFINE state == IF rows = <<>> THEN {} ELSE rows[Len(rows)]
<1>1. rows \in Seq(SUBSET WriteType)
  BY DEF StoreInv, Numbered
<1>2. Len(rows) \in Nat /\ (rows = <<>> <=> Len(rows) = 0)
  BY <1>1
<1>3. state \in SUBSET WriteType /\ state = StoredUnder(rows, Len(rows))
  BY <1>1, <1>2 DEF StoredUnder
<1>4. store.table = "run" /\ Take(u, Len(rows), state, "none")
  BY DEF LoadRun
<1> HIDE DEF state
<1>5. Len(rows) <= Len(rows)
  BY <1>2
<1> QED BY <1>2, <1>3, <1>4, <1>5, TakeKeeps

\* The ledger as it is stored.
LEMMA LoadLedgerKeeps == ASSUME StoreInv, NEW u \in User, LoadLedger(u) PROVE StoreInv'
<1>1. ledger.version \in Nat /\ ledger.state \in SUBSET WriteType
  BY DEF StoreInv, Versioned
<1>2. store.table = "ledger" /\ Take(u, ledger.version, ledger.state, "none")
  BY DEF LoadLedger
<1> QED BY <1>1, <1>2, TakeKeeps

\* The arguments of an invocation, or of a request.
LEMMA AskKeeps ==
    ASSUME StoreInv, NEW u \in User, NEW a \in Arguments, LoadTool(u, a) \/ Request(u, a)
    PROVE  StoreInv'
<1>1. store.table \in {"tool", "control"} /\ Take(u, 0, {}, a)
  BY DEF LoadTool, Request
<1>2. 0 \in Nat /\ {} \in SUBSET WriteType
  OBVIOUS
<1> QED BY <1>1, <1>2, TakeKeeps

\* The object of a write that begins includes that write, under a new number.
LEMMA BeginWriteKeeps == ASSUME StoreInv, NEW u \in User, BeginWrite(u) PROVE StoreInv'
<1> DEFINE o == user[u]
           w == [WriteOf(u) EXCEPT !.number = @ + 1]
           x == [o EXCEPT !.at = "queued", !.count = @ + 1, !.state = @ \cup {w}]
<1>1. Sound(store.table, rows, ledger, u, o) /\ Shaped(o) /\ o.at = "holds"
  BY DEF StoreInv, Users, Sound, BeginWrite
<1>2. w = [by |-> u, number |-> o.count + 1, arguments |-> o.arguments]
  BY DEF WriteOf
<1>3. w \in WriteType
  BY <1>1, <1>2 DEF WriteType, Shaped
<1>4. user' = [user EXCEPT ![u] = x] /\ UNCHANGED <<store, tables, told>>
  BY DEF BeginWrite
<1>5. x.at = "queued" /\ x.count = o.count + 1 /\ x.state = o.state \cup {w}
      /\ x.version = o.version /\ x.arguments = o.arguments /\ DOMAIN x = DOMAIN o
  BY <1>1 DEF Shaped
<1> HIDE DEF x, o, w
<1>6. Shaped(x)
  BY <1>1, <1>3, <1>5 DEF Shaped, Underway
<1>7. w = WriteIn(u, x)
  BY <1>2, <1>5 DEF WriteIn
<1>8. Sound(store.table, rows, ledger, u, x)
  BY <1>1, <1>5, <1>6, <1>7 DEF Sound, Underway
<1>9. LastDone(o) <= LastDone(x)
  BY <1>1, <1>5 DEF LastDone, Underway, Shaped
<1> QED BY <1>4, <1>8, <1>9, UserMoves DEF o

\* A write underway gets the lock of the file, or loses the task that awaits it.
LEMMA GoesOn ==
    ASSUME StoreInv, NEW u \in User, NEW x,
           user[u].at \in Underway, x.at \in Underway, DOMAIN x = DOMAIN user[u],
           \A f \in {"version", "state", "arguments", "count"} : x[f] = user[u][f],
           user' = [user EXCEPT ![u] = x], UNCHANGED <<store, tables, told>>
    PROVE  StoreInv'
<1>1. /\ x.version = user[u].version /\ x.state = user[u].state
      /\ x.arguments = user[u].arguments /\ x.count = user[u].count
  OBVIOUS
<1>2. Sound(store.table, rows, ledger, u, user[u])
  BY DEF StoreInv, Users
<1>3. WriteIn(u, x) = WriteIn(u, user[u])
  BY <1>1 DEF WriteIn
<1>4. Shaped(x)
  BY <1>1, <1>2 DEF Sound, Shaped
<1>5. Sound(store.table, rows, ledger, u, x)
  BY <1>1, <1>2, <1>3, <1>4 DEF Sound, Underway
<1>6. LastDone(user[u]) <= LastDone(x)
  BY <1>1, <1>4 DEF LastDone, Shaped
<1> QED BY <1>5, <1>6, UserMoves

\* The lock of the file.
LEMMA BeginImmediateKeeps == ASSUME StoreInv, NEW u \in User, BeginImmediate(u) PROVE StoreInv'
<1> DEFINE x == [user[u] EXCEPT !.at = "writes"]
<1>1. Shaped(user[u]) /\ user[u].at = "queued"
  BY DEF StoreInv, Users, Sound, BeginImmediate
<1>2. user' = [user EXCEPT ![u] = x] /\ UNCHANGED <<store, tables, told>>
  BY DEF BeginImmediate
<1>3. x.at = "writes" /\ DOMAIN x = DOMAIN user[u]
      /\ \A f \in {"version", "state", "arguments", "count"} : x[f] = user[u][f]
  BY <1>1 DEF Shaped
<1> HIDE DEF x
<1>4. user[u].at \in Underway /\ x.at \in Underway
  BY <1>1, <1>3 DEF Underway
<1> QED BY <1>2, <1>3, <1>4, GoesOn

\* The task that awaits a write is cancelled.
LEMMA AbandonKeeps == ASSUME StoreInv, NEW u \in User, Abandon(u) PROVE StoreInv'
<1>1. CASE InMemory
  BY <1>1, RefusedKeeps DEF Abandon
<1>2. CASE ~InMemory
  <2> DEFINE x == [user[u] EXCEPT !.awaited = FALSE]
  <2>1. Shaped(user[u]) /\ user[u].at \in Underway
    BY DEF StoreInv, Users, Sound, Abandon, Underway
  <2>2. user' = [user EXCEPT ![u] = x] /\ UNCHANGED <<store, tables, told>>
    BY <1>2 DEF Abandon
  <2>3. x.at = user[u].at /\ DOMAIN x = DOMAIN user[u]
        /\ \A f \in {"version", "state", "arguments", "count"} : x[f] = user[u][f]
    BY <2>1 DEF Shaped
  <2> HIDE DEF x
  <2> QED BY <2>1, <2>2, <2>3, GoesOn
<1> QED BY <1>1, <1>2

\* A process ends: the memory is gone, or the user of the file.
LEMMA StopKeeps == ASSUME StoreInv, NEW u \in User, Stop(u) PROVE StoreInv'
<1>1. CASE InMemory
  <2>1. /\ store' = store /\ user' = [v \in User |-> Free(v)] /\ told' = {} /\ rows' = <<>>
        /\ ledger' = [version |-> 0, state |-> {}]
    BY <1>1 DEF Stop
  <2>2. \A v \in User : Shaped(user[v])
    BY DEF StoreInv, Users, Sound
  <2>3. \A v \in User : Sound(store.table, <<>>, [version |-> 0, state |-> {}], v, Free(v))
    BY <2>2, FreeIsSound
  <2>4. Users'
    BY <2>1, <2>3 DEF Users
  <2>5. rows' \in Seq(SUBSET WriteType) /\ Len(rows') = 0
    BY <2>1
  <2>6. Numbered' /\ HistoryIsLinear'
    BY <2>5 DEF Numbered, HistoryIsLinear
  <2>7. Versioned' /\ NothingToldYet'
    BY <2>1 DEF Versioned, NothingToldYet
  <2>8. ReportedWritesStand'
    BY <2>1, <2>6 DEF ReportedWritesStand, ChargesAreKept, OneSetOfArguments, OneRequestCreates
  <2>9. store'.table \in {"none", "run", "ledger", "tool", "control"}
    BY <2>1 DEF StoreInv
  <2> QED BY <2>4, <2>6, <2>7, <2>8, <2>9 DEF StoreInv
<1>2. CASE ~InMemory
  <2>1. user' = [user EXCEPT ![u] = Free(u)] /\ UNCHANGED <<store, tables, told>>
    BY <1>2 DEF Stop
  <2> QED BY <2>1, RefusedKeeps
<1> QED BY <1>1, <1>2

(***************************************************************************)
(* The steps that write.                                                   *)
(***************************************************************************)

\* A write that is done is one of those of its user.
LEMMA KeptFields ==
    ASSUME NEW u \in User, Shaped(user[u]), user[u].at \in Underway
    PROVE  /\ Shaped(Kept(u))
           /\ Kept(u).at \in {"idle", "holds"}
           /\ Kept(u).at = "holds" =>
                 /\ Kept(u).version = user[u].version + 1
                 /\ Kept(u).state = user[u].state
                 /\ Kept(u).arguments = user[u].arguments
           /\ LastDone(Kept(u)) = user[u].count
           /\ LastDone(user[u]) <= LastDone(Kept(u))
<1> DEFINE x == [user[u] EXCEPT !.at = "holds", !.version = @ + 1]
<1>1. /\ DOMAIN x = DOMAIN user[u] /\ x.at = "holds" /\ x.version = user[u].version + 1
      /\ x.state = user[u].state /\ x.arguments = user[u].arguments /\ x.count = user[u].count
  BY DEF Shaped
<1>2. Kept(u) = IF user[u].awaited THEN x ELSE Free(u)
  BY DEF Kept
<1> HIDE DEF x
<1>3. user[u].count \in Nat
  BY DEF Shaped
<1>4. CASE user[u].awaited
  <2>1. Shaped(x)
    BY <1>1 DEF Shaped
  <2>2. LastDone(x) = user[u].count /\ LastDone(user[u]) <= LastDone(x)
    BY <1>1, <1>3 DEF LastDone, Underway
  <2> QED BY <1>1, <1>2, <1>4, <2>1, <2>2
<1>5. CASE ~user[u].awaited
  <2>1. Shaped(Free(u)) /\ Free(u).at = "idle" /\ Free(u).count = user[u].count
    BY FreeFields
  <2>2. LastDone(Free(u)) = user[u].count /\ LastDone(user[u]) <= LastDone(Free(u))
    BY <2>1, <1>3 DEF LastDone, Underway
  <2> QED BY <1>2, <1>5, <2>1, <2>2
<1> QED BY <1>4, <1>5

\* What is common to the writes that are done: the user's object and the report.
LEMMA AcceptedMoves ==
    ASSUME StoreInv, NEW u \in User, user[u].at \in Underway, Accepted(u)
    PROVE  /\ DOMAIN user' = User
           /\ user'[u] = Kept(u)
           /\ \A v \in User \ {u} : user'[v] = user[v]
           /\ told' \subseteq told \cup {WriteIn(u, user[u])}
           /\ \A v \in User : /\ LastDone(user[v]) \in Int
                              /\ LastDone(user'[v]) \in Int
                              /\ LastDone(user[v]) <= LastDone(user'[v])
<1>1. DOMAIN user = User /\ \A v \in User : Shaped(user[v])
  BY DEF StoreInv, Users, Sound
<1>2. user' = [user EXCEPT ![u] = Kept(u)]
  BY DEF Accepted
<1>3. DOMAIN user' = User /\ user'[u] = Kept(u) /\ \A v \in User \ {u} : user'[v] = user[v]
  BY <1>1, <1>2
<1>4. told' \subseteq told \cup {WriteIn(u, user[u])}
  BY DEF Accepted, WriteOf, WriteIn
<1>5. ASSUME NEW v \in User
      PROVE  /\ LastDone(user[v]) \in Int
             /\ LastDone(user'[v]) \in Int
             /\ LastDone(user[v]) <= LastDone(user'[v])
  <2>1. LastDone(user[v]) \in Int
    BY <1>1, LastDoneInt
  <2>2. CASE v = u
    <3>1. Shaped(user[u])
      BY <1>1
    <3>2. LastDone(user[u]) <= LastDone(Kept(u)) /\ Shaped(Kept(u))
      BY <3>1, KeptFields
    <3>3. LastDone(Kept(u)) \in Int
      BY <3>2, LastDoneInt
    <3> QED BY <1>3, <2>1, <2>2, <3>2, <3>3
  <2>3. CASE v # u
    BY <1>3, <2>1, <2>3
  <2> QED BY <2>2, <2>3
<1> QED BY <1>3, <1>4, <1>5

\* Checkpoints that stay keep their numbers below those of the writes underway.
LEMMA NumbersStay ==
    ASSUME StoreInv, rows' = rows,
           \A v \in User : /\ LastDone(user[v]) \in Int
                           /\ LastDone(user'[v]) \in Int
                           /\ LastDone(user[v]) <= LastDone(user'[v])
    PROVE  Numbered'
<1>1. ASSUME NEW i \in 1 .. Len(rows), NEW w \in rows[i] PROVE w.number <= LastDone(user'[w.by])
  <2>1. w \in WriteType
    BY DEF StoreInv, Numbered
  <2>2. w.by \in User /\ w.number \in Nat
    BY <2>1 DEF WriteType
  <2>3. w.number <= LastDone(user[w.by])
    BY DEF StoreInv, Numbered
  <2> QED BY <2>2, <2>3
<1> QED BY <1>1 DEF StoreInv, Numbered

\* The checkpoint that is appended was made from the last one, with one write more.
LEMMA AppendRowKeeps ==
    ASSUME StoreInv, NEW u \in User, UNCHANGED store, store.table = "run",
           user[u].at \in Underway, ~Stale(u), AppendRow(u)
    PROVE  StoreInv'
<1> DEFINE n == Len(rows)
           o == user[u]
           s == user[u].state
           new == WriteIn(u, o)
<1>1. /\ store' = store /\ rows' = Append(rows, s) /\ o.version = n /\ Accepted(u)
      /\ ledger' = ledger /\ record' = record /\ operation' = operation
  BY DEF AppendRow, Stale
<1>2. rows \in Seq(SUBSET WriteType) /\ n \in Nat
  BY DEF StoreInv, Numbered
<1>3. Shaped(o) /\ s \in SUBSET WriteType /\ o.count \in Nat /\ o.version \in Nat
  BY DEF StoreInv, Users, Sound, Shaped
<1>4. s = StoredUnder(rows, n) \cup {new}
  BY <1>1 DEF StoreInv, Users, Sound, Underway
<1>5. /\ rows' \in Seq(SUBSET WriteType) /\ Len(rows') = n + 1 /\ rows'[n + 1] = s
      /\ \A i \in 1 .. n : rows'[i] = rows[i]
  BY <1>1, <1>2, <1>3
<1>6. /\ DOMAIN user' = User /\ user'[u] = Kept(u)
      /\ \A v \in User \ {u} : user'[v] = user[v]
      /\ \A v \in User : /\ LastDone(user[v]) \in Int
                         /\ LastDone(user'[v]) \in Int
                         /\ LastDone(user[v]) <= LastDone(user'[v])
  BY <1>1, AcceptedMoves
<1>7. /\ Shaped(Kept(u)) /\ Kept(u).at \in {"idle", "holds"}
      /\ Kept(u).at = "holds" => Kept(u).version = n + 1 /\ Kept(u).state = s
      /\ LastDone(Kept(u)) = o.count
  BY <1>1, <1>3, KeptFields
<1>8. new.by = u /\ new.number = o.count /\ LastDone(o) = o.count - 1
  BY DEF WriteIn, LastDone
<1> HIDE DEF new, s, n, o
<1>9. Users'
  <2>1. ASSUME NEW v \in User \ {u}
        PROVE  Sound(store.table, rows', ledger, v, user[v])
    <3>1. Sound(store.table, rows, ledger, v, user[v])
      BY DEF StoreInv, Users
    <3>2. CASE user[v].at = "idle"
      BY <3>1, <3>2 DEF Sound, Underway
    <3>3. CASE user[v].at # "idle"
      <4>1. user[v].version \in Nat /\ user[v].version <= n
        BY <3>1, <3>3 DEF Sound, Shaped, n
      <4>2. StoredUnder(rows', user[v].version) = StoredUnder(rows, user[v].version)
        BY <4>1, <1>2, <1>5 DEF StoredUnder
      <4>3. user[v].version <= Len(rows')
        BY <4>1, <1>2, <1>5
      <4> QED BY <3>1, <3>3, <4>2, <4>3 DEF Sound
    <3> QED BY <3>2, <3>3
  <2>2. StoredUnder(rows', n + 1) = s
    BY <1>2, <1>5 DEF StoredUnder
  <2>3. Sound(store.table, rows', ledger, u, Kept(u))
    BY <1>2, <1>5, <1>7, <2>2 DEF Sound, Underway
  <2>4. \A v \in User : Sound(store.table, rows', ledger, v, user'[v])
    BY <1>6, <2>1, <2>3
  <2> QED BY <1>1, <1>6, <2>4 DEF Users
<1>10. \A w \in StoredUnder(rows, n) : w \in WriteType /\ w.number <= LastDone(user[w.by])
  BY <1>2 DEF StoreInv, Numbered, StoredUnder, n
<1>11. Numbered'
  <2>1. ASSUME NEW i \in 1 .. n, NEW w \in rows[i] PROVE w.number <= LastDone(user'[w.by])
    <3>1. w \in WriteType
      BY <1>2 DEF n
    <3>2. w.by \in User /\ w.number \in Nat
      BY <3>1 DEF WriteType
    <3>3. w.number <= LastDone(user[w.by])
      BY DEF StoreInv, Numbered, n
    <3> QED BY <1>6, <3>2, <3>3
  <2>2. ASSUME NEW w \in s PROVE w.number <= LastDone(user'[w.by])
    <3>1. CASE w = new
      BY <3>1, <1>3, <1>6, <1>7, <1>8
    <3>2. CASE w \in StoredUnder(rows, n)
      <4>1. w \in WriteType /\ w.number <= LastDone(user[w.by])
        BY <1>10, <3>2
      <4>2. w.by \in User /\ w.number \in Nat
        BY <4>1 DEF WriteType
      <4> QED BY <1>6, <4>1, <4>2
    <3> QED BY <1>4, <3>1, <3>2
  <2>3. \A i \in 1 .. n + 1 : i \in 1 .. n \/ i = n + 1
    BY <1>2
  <2> QED BY <1>5, <2>1, <2>2, <2>3 DEF Numbered
<1>12. HistoryIsLinear'
  <2>1. new \notin StoredUnder(rows, n)
    <3> SUFFICES ASSUME new \in StoredUnder(rows, n) PROVE FALSE
      OBVIOUS
    <3>1. new.number <= LastDone(user[new.by])
      BY <1>10
    <3> QED BY <3>1, <1>3, <1>8 DEF o
  <2>2. n # 0 => StoredUnder(rows, n) = rows[n]
    BY DEF StoredUnder
  <2>3. s \ StoredUnder(rows, n) = {new} /\ StoredUnder(rows, n) \subseteq s
    BY <1>4, <2>1
  <2>4. Cardinality({new}) = 1
    BY FS_Singleton
  <2>5. ASSUME NEW i \in 2 .. n + 1
        PROVE  rows'[i - 1] \subseteq rows'[i] /\ Cardinality(rows'[i] \ rows'[i - 1]) = 1
    <3>1. CASE i = n + 1
      <4>1. n \in 1 .. n /\ i - 1 = n
        BY <3>1, <1>2
      <4>2. rows'[i - 1] = StoredUnder(rows, n) /\ rows'[i] = s
        BY <4>1, <3>1, <1>5, <2>2
      <4> QED BY <4>2, <2>3, <2>4
    <3>2. CASE i # n + 1
      <4>1. i \in 2 .. n /\ i - 1 \in 1 .. n /\ i \in 1 .. n
        BY <3>2, <1>2
      <4>2. rows[i - 1] \subseteq rows[i] /\ Cardinality(rows[i] \ rows[i - 1]) = 1
        BY <4>1 DEF StoreInv, ReportedWritesStand, HistoryIsLinear, n
      <4> QED BY <4>1, <4>2, <1>5
    <3> QED BY <3>1, <3>2
  <2> QED BY <1>5, <2>5 DEF HistoryIsLinear
<1>13. Versioned' /\ NothingToldYet'
  BY <1>1 DEF StoreInv, Versioned, NothingToldYet
<1>14. ReportedWritesStand'
  BY <1>1, <1>12 DEF ReportedWritesStand, ChargesAreKept, OneSetOfArguments, OneRequestCreates
<1>15. store'.table \in {"none", "run", "ledger", "tool", "control"}
  BY <1>1 DEF StoreInv
<1> QED BY <1>9, <1>11, <1>13, <1>14, <1>15 DEF StoreInv

\* The ledger that is stored was made from the one it replaces, under the next version.
LEMMA StoreLedgerKeeps ==
    ASSUME StoreInv, NEW u \in User, UNCHANGED store, store.table = "ledger",
           user[u].at \in Underway, user[u].version = ledger.version, StoreLedger(u)
    PROVE  StoreInv'
<1> DEFINE o == user[u]
           new == WriteIn(u, o)
<1>1. /\ store' = store /\ ledger' = [version |-> o.version + 1, state |-> o.state] /\ Accepted(u)
      /\ rows' = rows /\ record' = record /\ operation' = operation
  BY DEF StoreLedger
<1>2. Shaped(o) /\ o.state \in SUBSET WriteType /\ o.version \in Nat
  BY DEF StoreInv, Users, Sound, Shaped
<1>3. ledger.state \subseteq o.state /\ new \in o.state
  BY DEF StoreInv, Users, Sound, Underway
<1>4. /\ DOMAIN user' = User /\ user'[u] = Kept(u)
      /\ \A v \in User \ {u} : user'[v] = user[v]
      /\ told' \subseteq told \cup {new}
  BY <1>1, AcceptedMoves
<1>5. \A v \in User : /\ LastDone(user[v]) \in Int
                      /\ LastDone(user'[v]) \in Int
                      /\ LastDone(user[v]) <= LastDone(user'[v])
  BY <1>1, AcceptedMoves
<1>6. /\ Shaped(Kept(u)) /\ Kept(u).at \in {"idle", "holds"}
      /\ Kept(u).at = "holds" => Kept(u).version = o.version + 1 /\ Kept(u).state = o.state
  BY <1>1, <1>2, KeptFields
<1>7. ledger'.version = o.version + 1 /\ ledger'.state = o.state /\ DOMAIN ledger' = {"version", "state"}
  BY <1>1
<1>8. o.version = ledger.version
  OBVIOUS
<1> HIDE DEF new, o
<1>9. Users'
  <2>1. ASSUME NEW v \in User \ {u}
        PROVE  Sound(store.table, rows, ledger', v, user[v])
    <3>1. Sound(store.table, rows, ledger, v, user[v])
      BY DEF StoreInv, Users
    <3>2. CASE user[v].at = "idle"
      BY <3>1, <3>2 DEF Sound, Underway
    <3>3. CASE user[v].at # "idle"
      <4>1. user[v].version \in Nat /\ user[v].version <= o.version
        BY <1>8, <3>1, <3>3 DEF Sound, Shaped
      <4>2. user[v].version <= ledger'.version /\ user[v].version # ledger'.version
        BY <4>1, <1>2, <1>7
      <4> QED BY <3>1, <3>3, <4>2 DEF Sound
    <3> QED BY <3>2, <3>3
  <2>2. Sound(store.table, rows, ledger', u, Kept(u))
    BY <1>2, <1>6, <1>7 DEF Sound, Underway
  <2>3. \A v \in User : Sound(store.table, rows, ledger', v, user'[v])
    BY <1>4, <2>1, <2>2
  <2> QED BY <1>1, <1>4, <2>3 DEF Users
<1>10. Numbered'
  BY <1>1, <1>5, NumbersStay
<1>11. Versioned'
  BY <1>2, <1>7 DEF Versioned
<1>12. ChargesAreKept'
  BY <1>1, <1>3, <1>4, <1>7 DEF StoreInv, ReportedWritesStand, ChargesAreKept
<1>13. ReportedWritesStand'
  BY <1>1, <1>12 DEF StoreInv, ReportedWritesStand, HistoryIsLinear, OneSetOfArguments, OneRequestCreates
<1>14. NothingToldYet' /\ store'.table \in {"none", "run", "ledger", "tool", "control"}
  BY <1>1 DEF StoreInv, NothingToldYet
<1> QED BY <1>9, <1>10, <1>11, <1>13, <1>14 DEF StoreInv

\* The writes that only add a report: the record or the operation is as the report says.
LEMMA RecordKeeps ==
    ASSUME StoreInv, NEW u \in User, UNCHANGED <<store, rows, ledger>>, store.table \in {"tool", "control"},
           user[u].at \in Underway, Accepted(u),
           store.table = "tool" => record' # Absent,
           store.table = "control" => operation' # Absent,
           OneSetOfArguments', OneRequestCreates'
    PROVE  StoreInv'
<1>1. store' = store /\ rows' = rows /\ ledger' = ledger
  OBVIOUS
<1>2. Sound(store.table, rows, ledger, u, user[u]) /\ Shaped(user[u])
  BY DEF StoreInv, Users, Sound
<1>3. DOMAIN user' = User /\ user'[u] = Kept(u) /\ \A v \in User \ {u} : user'[v] = user[v]
  BY AcceptedMoves
<1>4. \A v \in User : /\ LastDone(user[v]) \in Int
                      /\ LastDone(user'[v]) \in Int
                      /\ LastDone(user[v]) <= LastDone(user'[v])
  BY AcceptedMoves
<1>5. /\ Shaped(Kept(u)) /\ Kept(u).at \in {"idle", "holds"}
      /\ Kept(u).at = "holds" => Kept(u).arguments = user[u].arguments
  BY <1>2, KeptFields
<1>6. user[u].arguments \in Arguments
  BY <1>2 DEF Sound, Underway
<1>7. Sound(store.table, rows, ledger, u, Kept(u))
  BY <1>5, <1>6 DEF Sound
<1>8. \A v \in User : Sound(store.table, rows, ledger, v, user'[v])
  BY <1>3, <1>7 DEF StoreInv, Users
<1>9. Users'
  BY <1>1, <1>3, <1>8 DEF Users
<1>10. Numbered'
  BY <1>1, <1>4, NumbersStay
<1>11. Versioned' /\ HistoryIsLinear' /\ store'.table \in {"none", "run", "ledger", "tool", "control"}
  BY <1>1 DEF StoreInv, Versioned, ReportedWritesStand, HistoryIsLinear
<1>12. NothingToldYet'
  BY <1>1 DEF NothingToldYet
<1>13. ReportedWritesStand'
  BY <1>1, <1>11 DEF ReportedWritesStand, ChargesAreKept
<1> QED BY <1>9, <1>10, <1>11, <1>12, <1>13 DEF StoreInv

\* A record that may be written keeps the arguments of all that was reported of it.
LEMMA UpsertKeeps ==
    ASSUME StoreInv, NEW u \in User, UNCHANGED store, store.table = "tool",
           user[u].at \in Underway, ~OtherArguments(u), Upsert(u)
    PROVE  StoreInv'
<1>1. /\ store' = store /\ rows' = rows /\ ledger' = ledger /\ operation' = operation
      /\ Accepted(u) /\ record' = [arguments |-> user[u].arguments, by |-> u]
  BY DEF Upsert
<1>2. user[u].arguments \in Arguments
  BY DEF StoreInv, Users, Sound, Underway
<1>3. record'.arguments = user[u].arguments /\ record' # Absent
  BY <1>1, <1>2, LocalStoreAssumption DEF Absent
<1>4. told' \subseteq told \cup {WriteIn(u, user[u])}
  BY <1>1, AcceptedMoves
<1>5. \A w \in told : w.arguments = user[u].arguments
  BY DEF StoreInv, NothingToldYet, ReportedWritesStand, OneSetOfArguments, OtherArguments
<1>6. OneSetOfArguments' /\ OneRequestCreates'
  BY <1>1, <1>3, <1>4, <1>5 DEF OneSetOfArguments, OneRequestCreates, WriteIn
<1> QED BY <1>1, <1>3, <1>6, RecordKeeps

\* An operation is created once.
LEMMA CreationKeeps ==
    ASSUME StoreInv, NEW u \in User, UNCHANGED store, store.table = "control",
           user[u].at \in Underway, operation = Absent, Accepted(u), UNCHANGED <<rows, ledger, record>>,
           operation' = [arguments |-> user[u].arguments, by |-> u]
    PROVE  StoreInv'
<1>1. store' = store /\ rows' = rows /\ ledger' = ledger /\ record' = record
  OBVIOUS
<1>2. user[u].arguments \in Arguments
  BY DEF StoreInv, Users, Sound, Underway
<1>3. operation'.arguments = user[u].arguments /\ operation'.by = u /\ operation' # Absent
  BY <1>2, LocalStoreAssumption DEF Absent
<1>4. told' \subseteq told \cup {WriteIn(u, user[u])}
  BY AcceptedMoves
<1>5. told = {}
  BY DEF StoreInv, NothingToldYet
<1>6. OneSetOfArguments' /\ OneRequestCreates'
  BY <1>1, <1>3, <1>4, <1>5 DEF OneSetOfArguments, OneRequestCreates, WriteIn
<1> QED BY <1>1, <1>3, <1>6, RecordKeeps

\* The writes, whatever they come to.
LEMMA WriteKeeps == ASSUME StoreInv, NEW u \in User, Write(u) PROVE StoreInv'
<1>1. store' = store /\ stops' = stops
  BY DEF Write
<1>2. ASSUME Refused(u) PROVE StoreInv'
  BY <1>1, <1>2, RefusedKeeps DEF Refused
<1>3. ASSUME MayWrite(u) PROVE user[u].at \in Underway
  BY <1>3 DEF MayWrite, Underway
<1>4. CASE SaveRunInMemory(u) \/ SaveRun(u)
  BY <1>1, <1>2, <1>3, <1>4, AppendRowKeeps DEF SaveRunInMemory, SaveRun
<1>5. CASE SaveLedgerInMemory(u)
  BY <1>1, <1>2, <1>3, <1>5, StoreLedgerKeeps DEF SaveLedgerInMemory
<1>6. CASE SaveLedger(u)
  BY <1>1, <1>2, <1>3, <1>6, StoreLedgerKeeps DEF SaveLedger
<1>7. CASE SaveToolInMemory(u) \/ SaveTool(u)
  BY <1>1, <1>2, <1>3, <1>7, UpsertKeeps DEF SaveToolInMemory, SaveTool
<1>8. CASE BeginOperation(u)
  <2>1. CASE operation = Absent
    BY <1>1, <1>3, <1>8, <2>1, CreationKeeps DEF BeginOperation
  <2>2. CASE operation # Absent
    BY <1>2, <1>8, <2>2 DEF BeginOperation
  <2> QED BY <2>1, <2>2
<1> QED BY <1>4, <1>5, <1>6, <1>7, <1>8 DEF Write

\* The write is rolled back.
LEMMA RollBackWriteKeeps == ASSUME StoreInv, NEW u \in User, RollBackWrite(u) PROVE StoreInv'
BY RefusedKeeps DEF RollBackWrite, Refused

(***************************************************************************)
(* The behaviours.                                                         *)
(***************************************************************************)

\* One case per action.
LEMMA StepKeeps == StoreInv /\ [StoreNext]_storeVars => StoreInv'
<1> SUFFICES ASSUME StoreInv, [StoreNext]_storeVars PROVE StoreInv'
  OBVIOUS
<1>1. CASE UNCHANGED storeVars
  <2>1. UNCHANGED <<store, rows, ledger, record, operation, user, told>>
    BY <1>1 DEF storeVars
  <2> QED BY <2>1
          DEF StoreInv, Users, Numbered, Versioned, NothingToldYet, ReportedWritesStand, HistoryIsLinear,
              ChargesAreKept, OneSetOfArguments, OneRequestCreates
<1>2. ASSUME NEW table \in {"run", "ledger", "tool", "control"}, NEW backend, OpenFile(table, backend)
      PROVE  StoreInv'
  BY <1>2, OpenFileKeeps
<1>3. ASSUME NEW u \in User, LoadRun(u) PROVE StoreInv'
  BY <1>3, LoadRunKeeps
<1>4. ASSUME NEW u \in User, LoadLedger(u) PROVE StoreInv'
  BY <1>4, LoadLedgerKeeps
<1>5. ASSUME NEW u \in User, NEW a \in Arguments, LoadTool(u, a) \/ Request(u, a) PROVE StoreInv'
  BY <1>5, AskKeeps
<1>6. ASSUME NEW u \in User, BeginWrite(u) PROVE StoreInv'
  BY <1>6, BeginWriteKeeps
<1>7. ASSUME NEW u \in User, BeginImmediate(u) PROVE StoreInv'
  BY <1>7, BeginImmediateKeeps
<1>8. ASSUME NEW u \in User, Write(u) PROVE StoreInv'
  BY <1>8, WriteKeeps
<1>9. ASSUME NEW u \in User, RollBackWrite(u) PROVE StoreInv'
  BY <1>9, RollBackWriteKeeps
<1>10. ASSUME NEW u \in User, Abandon(u) PROVE StoreInv'
  BY <1>10, AbandonKeeps
<1>11. ASSUME NEW u \in User, Stop(u) PROVE StoreInv'
  BY <1>11, StopKeeps
<1> QED BY <1>1, <1>2, <1>3, <1>4, <1>5, <1>6, <1>7, <1>8, <1>9, <1>10, <1>11 DEF StoreNext

\* What a user holds between two steps can be relied on, whoever is cancelled, rolled
\* back or stopped (the save and load methods of both stores).
THEOREM Invariance == LocalStoreSpec => []StoreInv
<1>1. StoreInit => StoreInv
  BY InitEstablishes
<1>2. StoreInv /\ [StoreNext]_storeVars => StoreInv'
  BY StepKeeps
<1> QED BY <1>1, <1>2, PTL DEF LocalStoreSpec

\* What a store reported as written stays: no writer's checkpoint or charge is lost to
\* another's, an invocation has one set of arguments and a key one request.
THEOREM WritesStand == LocalStoreSpec => []ReportedWritesStand
<1>1. StoreInv => ReportedWritesStand
  BY DEF StoreInv
<1> QED BY <1>1, Invariance, PTL

(***************************************************************************)
(* Admission.  Who is between its reads and its commit holds the row of the*)
(* coordinator (RowIsHeld), so that the Runs it counted are still an upper *)
(* bound of those that are queued or active (CountsAreFresh).              *)
(***************************************************************************)

Answers == Submission \cup {"none", "lost", "rate_limited", "queue_full", "key_conflict"}

Submitting == [at : {"idle", "limit", "admit", "commit"}, began : Nat, queued : Nat, answer : Answers]

Claim == [at : {"idle", "claim"}, run : Submission \cup {"none"}, active : Nat]

Contents == {Wanted[s].content : s \in Submission} \cup {"none"}

AdmissionTypeOK ==
    /\ request \in [Submission -> Submitting]
    /\ submitted \in [Submission -> {"none", "queued", "active", "over"}]
    /\ claimer \in [Claimer -> Claim]
    /\ bound \in [Keys -> [content : Contents, run : Submission \cup {"none"}]]
    /\ taken \in [Bucket -> Nat] /\ dbNow \in Nat

\* Who is between the reads and the commit of an admission or a claim holds the row.
RowIsHeld ==
    /\ \A s \in Submission : request[s].at = "commit" => coordinator = s
    /\ \A c \in Claimer : claimer[c].at = "claim" => coordinator = c

\* What such a transaction counted is what it may still rely on.
CountsAreFresh ==
    /\ IsFiniteSet(RunsIn("queued")) /\ IsFiniteSet(RunsIn("active"))
    /\ \A s \in Submission :
          request[s].at = "commit" => Cardinality(RunsIn("queued")) <= request[s].queued
    /\ \A c \in Claimer : claimer[c].at = "claim" =>
          /\ Cardinality(RunsIn("active")) <= claimer[c].active
          /\ claimer[c].run \in Submission

\* A key is bound to the Run that was admitted under it.
KeysNameRuns == \A k \in Keys : bound[k] # Unbound => bound[k].run \in Submission

AdmissionInv ==
    /\ AdmissionTypeOK
    /\ RowIsHeld
    /\ CountsAreFresh
    /\ KeysNameRuns
    /\ CeilingsHold
    /\ RefusalTakesNothing

\* The ceilings are numbers.
LEMMA CeilingsAreNumbers ==
    /\ MaxQueued \in Nat /\ MaxQueued >= 1 /\ PrincipalActive \in Nat /\ PrincipalActive >= 1
    /\ MaxActive \in Nat
BY AdmissionAssumption

\* A handler or a claim transaction that ends or begins leaves the invariant's other parts
\* alone when no Run changes its state.
LEMMA RequestMoves ==
    ASSUME AdmissionInv, NEW s \in Submission, NEW x \in Submitting, Step(s, x),
           UNCHANGED <<submitted, bound, claimer>>,
           taken' \in [Bucket -> Nat], taken'["global"] = taken'["principal"], dbNow' = dbNow,
           x.at # "commit",
           \/ UNCHANGED coordinator
           \/ request[s].at = "commit" /\ coordinator' = "free"
    PROVE  AdmissionInv'
<1>1. /\ request' \in [Submission -> Submitting] /\ request'[s] = x
      /\ \A t \in Submission : t # s => request'[t] = request[t]
  BY DEF AdmissionInv, AdmissionTypeOK, Step
<1>2. AdmissionTypeOK'
  BY <1>1 DEF AdmissionInv, AdmissionTypeOK
<1>3. RowIsHeld'
  BY <1>1, AdmissionAssumption DEF AdmissionInv, RowIsHeld
<1>4. UNCHANGED <<RunsIn("queued"), RunsIn("active")>>
  BY DEF RunsIn
<1>5. CountsAreFresh'
  BY <1>1, <1>4 DEF AdmissionInv, CountsAreFresh
<1> QED BY <1>2, <1>3, <1>4, <1>5
        DEF AdmissionInv, KeysNameRuns, CeilingsHold, RefusalTakesNothing, Unbound

\* A submission asks for the bucket first.
LEMMA SubmitKeeps == ASSUME AdmissionInv, NEW s \in Submission, Submit(s) PROVE AdmissionInv'
<1> DEFINE x == [request[s] EXCEPT !.at = "limit", !.began = dbNow]
<1>1. x \in Submitting /\ x.at # "commit"
  BY DEF AdmissionInv, AdmissionTypeOK, Submitting
<1>2. Step(s, x)
  BY DEF Submit
<1> HIDE DEF x
<1> QED BY <1>1, <1>2, RequestMoves DEF Submit, AdmissionInv, AdmissionTypeOK, RefusalTakesNothing

\* A token leaves both buckets or none.
LEMMA ConsumeKeeps ==
    ASSUME AdmissionInv, NEW s \in Submission, ConsumeSubmissionTokens(s) PROVE AdmissionInv'
<1> DEFINE admit == [request[s] EXCEPT !.at = "admit"]
           refuse == [at |-> "idle", began |-> 0, queued |-> 0, answer |-> "rate_limited"]
<1>1. PICK x \in {admit, refuse} : Step(s, x)
  BY DEF ConsumeSubmissionTokens, Answered
<1>2. x \in Submitting /\ x.at # "commit"
  BY <1>1 DEF AdmissionInv, AdmissionTypeOK, Submitting, Answers
<1>3. PICK n \in {0, 1} : taken' = [b \in Bucket |-> taken[b] + n]
  BY DEF ConsumeSubmissionTokens, TakeTokens
<1>4. taken' \in [Bucket -> Nat] /\ taken'["global"] = taken'["principal"]
  BY <1>3 DEF AdmissionInv, AdmissionTypeOK, RefusalTakesNothing, Bucket
<1> QED BY <1>1, <1>2, <1>4, RequestMoves DEF ConsumeSubmissionTokens

\* The row is free when it is locked, so nobody else is between reads and commit.
LEMMA BeginAdmissionKeeps ==
    ASSUME AdmissionInv, NEW s \in Submission, BeginAdmission(s) PROVE AdmissionInv'
<1> DEFINE x == [request[s] EXCEPT !.at = "commit", !.queued = Cardinality(RunsIn("queued"))]
<1>1. Cardinality(RunsIn("queued")) \in Nat
  BY FS_CardinalityType DEF AdmissionInv, CountsAreFresh
<1>2. x \in Submitting /\ x.at = "commit" /\ x.queued = Cardinality(RunsIn("queued"))
  BY <1>1 DEF AdmissionInv, AdmissionTypeOK, Submitting
<1>3. /\ request' \in [Submission -> Submitting] /\ request'[s] = x
      /\ \A t \in Submission : t # s => request'[t] = request[t]
  BY <1>2 DEF BeginAdmission, AdmissionInv, AdmissionTypeOK, Step
<1>4. UNCHANGED <<RunsIn("queued"), RunsIn("active")>>
  BY DEF BeginAdmission, RunsIn
<1>5. AdmissionTypeOK'
  BY <1>3 DEF BeginAdmission, AdmissionInv, AdmissionTypeOK
<1>6. RowIsHeld'
  BY <1>3, AdmissionAssumption DEF BeginAdmission, LockRow, AdmissionInv, RowIsHeld
<1>7. \A t \in Submission : request'[t].at = "commit" =>
        Cardinality(RunsIn("queued")) <= request'[t].queued
  <2> SUFFICES ASSUME NEW t \in Submission, request'[t].at = "commit"
               PROVE  Cardinality(RunsIn("queued")) <= request'[t].queued
    OBVIOUS
  <2>1. CASE t = s
    <3>1. request'[t].queued = Cardinality(RunsIn("queued"))
      BY <1>2, <1>3, <2>1
    <3>2. Cardinality(RunsIn("queued")) <= Cardinality(RunsIn("queued"))
      BY <1>1
    <3> QED BY <3>1, <3>2
  <2>2. CASE t # s
    BY <1>3, <2>2 DEF AdmissionInv, CountsAreFresh
  <2> QED BY <2>1, <2>2
<1>8. CountsAreFresh'
  BY <1>4, <1>7 DEF BeginAdmission, AdmissionInv, CountsAreFresh
<1> QED BY <1>4, <1>5, <1>6, <1>8
        DEF BeginAdmission, AdmissionInv, KeysNameRuns, CeilingsHold, RefusalTakesNothing, Unbound

\* Who commits gives the row back.
LEMMA CommitUnlocks ==
    ASSUME AdmissionInv, NEW s \in Submission, request[s].at = "commit", Unlock(s)
    PROVE  coordinator' = "free"
BY DEF Unlock, AdmissionInv, RowIsHeld

\* An answer without a new Run.
LEMMA AnswerKeeps ==
    ASSUME AdmissionInv, NEW s \in Submission, NEW answer \in Answers,
           request[s].at = "commit", Answered(s, answer), Unlock(s),
           UNCHANGED <<submitted, bound, claimer, buckets, taken, dbNow>>
    PROVE  AdmissionInv'
<1> DEFINE x == [at |-> "idle", began |-> 0, queued |-> 0, answer |-> answer]
<1>1. x \in Submitting /\ x.at # "commit"
  BY DEF Submitting
<1>2. Step(s, x)
  BY DEF Answered
<1> HIDE DEF x
<1> QED BY <1>1, <1>2, RequestMoves, CommitUnlocks
        DEF AdmissionInv, AdmissionTypeOK, RefusalTakesNothing

\* What a bound key answers is a Run or a conflict.
LEMMA BoundAnswers ==
    ASSUME AdmissionInv, NEW s \in Submission, Bound(s)
    PROVE  bound[KeyIn(s)].run \in Submission
BY DEF Bound, KeyIn, Keys, AdmissionInv, KeysNameRuns

\* A key that is bound answers with its Run, or with a conflict.
LEMMA ReplayKeeps == ASSUME AdmissionInv, NEW s \in Submission, Replay(s) PROVE AdmissionInv'
<1> DEFINE answer == IF bound[KeyIn(s)].content = Wanted[s].content
                     THEN bound[KeyIn(s)].run ELSE "key_conflict"
<1>1. answer \in Answers
  BY BoundAnswers DEF Replay, IsReplay, Answers
<1>2. Answered(s, answer)
  BY DEF Replay
<1> HIDE DEF answer
<1> QED BY <1>1, <1>2, AnswerKeeps DEF Replay

\* A rejection inserts nothing.
LEMMA RejectKeeps == ASSUME AdmissionInv, NEW s \in Submission, RejectFull(s) PROVE AdmissionInv'
<1>1. "queue_full" \in Answers
  BY DEF Answers
<1> QED BY <1>1, AnswerKeeps DEF RejectFull

\* A rolled back admission inserts nothing and lets go of the row.
LEMMA RollBackKeeps == ASSUME AdmissionInv, NEW s \in Submission, RollBack(s) PROVE AdmissionInv'
<1>1. "lost" \in Answers
  BY DEF Answers
<1> QED BY <1>1, AnswerKeeps DEF RollBack

\* A Run that is queued is one more; the count of its transaction was below the ceiling.
LEMMA AdmitKeeps ==
    ASSUME AdmissionInv, NEW s \in Submission, AdmitSubmission(s) PROVE AdmissionInv'
<1>1. PICK answer \in Answers : Answered(s, answer)
  BY DEF AdmitSubmission, Answers
<1> DEFINE x == [at |-> "idle", began |-> 0, queued |-> 0, answer |-> answer]
<1>2. x \in Submitting /\ x.at = "idle"
  BY DEF Submitting
<1>3. /\ request' \in [Submission -> Submitting] /\ request'[s] = x
      /\ \A t \in Submission : t # s => request'[t] = request[t]
  BY <1>1, <1>2 DEF Answered, AdmissionInv, AdmissionTypeOK, Step
<1>4. /\ submitted' \in [Submission -> {"none", "queued", "active", "over"}]
      /\ RunsIn("queued")' = RunsIn("queued") \cup {s} /\ s \notin RunsIn("queued")
      /\ UNCHANGED RunsIn("active")
  BY DEF AdmitSubmission, AdmissionInv, AdmissionTypeOK, RunsIn
<1>5. IsFiniteSet(RunsIn("queued")) /\ Cardinality(RunsIn("queued")) \in Nat
  BY FS_CardinalityType DEF AdmissionInv, CountsAreFresh
<1>6. /\ IsFiniteSet(RunsIn("queued"))'
      /\ Cardinality(RunsIn("queued"))' = Cardinality(RunsIn("queued")) + 1
  BY <1>4, <1>5, FS_AddElement
<1>7. /\ \A t \in Submission : request'[t].at # "commit"
      /\ \A c \in Claimer : claimer[c].at # "claim"
  BY <1>2, <1>3, AdmissionAssumption DEF AdmitSubmission, AdmissionInv, RowIsHeld
<1>8. KeyIn(s) # NoKey => KeyIn(s) \in Keys
  BY DEF Keys
<1>9. /\ [content |-> Wanted[s].content, run |-> s] \in [content : Contents, run : Submission \cup {"none"}]
      /\ [content |-> Wanted[s].content, run |-> s].run \in Submission
  BY DEF Contents
<1>10. /\ bound' \in [Keys -> [content : Contents, run : Submission \cup {"none"}]]
       /\ \A k \in Keys : bound'[k] # Unbound => bound'[k].run \in Submission
  BY <1>8, <1>9 DEF AdmitSubmission, AdmissionInv, AdmissionTypeOK, KeysNameRuns
<1>11. Cardinality(RunsIn("queued"))' <= MaxQueued
  <2>1. Cardinality(RunsIn("queued")) <= request[s].queued /\ request[s].queued \in Nat
    BY DEF AdmitSubmission, AdmissionInv, CountsAreFresh, AdmissionTypeOK, Submitting
  <2> QED BY <1>5, <1>6, <2>1, CeilingsAreNumbers DEF AdmitSubmission
<1>12. AdmissionTypeOK'
  BY <1>3, <1>4, <1>10 DEF AdmitSubmission, AdmissionInv, AdmissionTypeOK
<1>13. RowIsHeld' /\ CountsAreFresh'
  BY <1>4, <1>6, <1>7 DEF AdmitSubmission, AdmissionInv, CountsAreFresh, RowIsHeld
<1>14. KeysNameRuns'
  BY <1>10 DEF KeysNameRuns, Unbound
<1>15. CeilingsHold'
  BY <1>4, <1>11 DEF AdmissionInv, CeilingsHold
<1> QED BY <1>12, <1>13, <1>14, <1>15 DEF AdmitSubmission, AdmissionInv, RefusalTakesNothing

\* A claimer that begins finds the row free, too.
LEMMA BeginClaimKeeps == ASSUME AdmissionInv, NEW c \in Claimer, BeginClaim(c) PROVE AdmissionInv'
<1>1. PICK s \in RunsIn("queued") : claimer' = [claimer EXCEPT ![c] =
               [at |-> "claim", run |-> s, active |-> Cardinality(RunsIn("active"))]]
  BY DEF BeginClaim
<1> DEFINE x == [at |-> "claim", run |-> s, active |-> Cardinality(RunsIn("active"))]
<1>2. s \in Submission /\ Cardinality(RunsIn("active")) \in Nat
  BY FS_CardinalityType DEF AdmissionInv, CountsAreFresh, RunsIn
<1>3. x \in Claim /\ x.at = "claim" /\ x.active = Cardinality(RunsIn("active")) /\ x.run = s
  BY <1>2 DEF Claim
<1>4. /\ claimer' \in [Claimer -> Claim] /\ claimer'[c] = x
      /\ \A d \in Claimer : d # c => claimer'[d] = claimer[d]
  BY <1>1, <1>3 DEF AdmissionInv, AdmissionTypeOK
<1>5. UNCHANGED <<RunsIn("queued"), RunsIn("active")>>
  BY DEF BeginClaim, RunsIn
<1>6. AdmissionTypeOK'
  BY <1>4 DEF BeginClaim, AdmissionInv, AdmissionTypeOK
<1>7. RowIsHeld'
  BY <1>4, AdmissionAssumption DEF BeginClaim, LockRow, AdmissionInv, RowIsHeld
<1>8. CountsAreFresh'
  BY <1>2, <1>3, <1>4, <1>5 DEF BeginClaim, AdmissionInv, CountsAreFresh
<1> QED BY <1>5, <1>6, <1>7, <1>8
        DEF BeginClaim, AdmissionInv, KeysNameRuns, CeilingsHold, RefusalTakesNothing, Unbound

\* A Run that is claimed is one more that is active; the count of the claim was below the
\* quota, and Runs may only have ended since.
LEMMA CommitClaimKeeps == ASSUME AdmissionInv, NEW c \in Claimer, CommitClaim(c) PROVE AdmissionInv'
<1> DEFINE s == claimer[c].run
           queued == RunsIn("queued")
           active == RunsIn("active")
<1>1. /\ s \in Submission /\ claimer[c].active \in Nat /\ Cardinality(active) <= claimer[c].active
      /\ IsFiniteSet(queued) /\ IsFiniteSet(active)
      /\ Cardinality(active) \in Nat /\ Cardinality(queued) \in Nat
  BY FS_CardinalityType DEF CommitClaim, AdmissionInv, CountsAreFresh, AdmissionTypeOK, Claim
<1>2. /\ submitted' \in [Submission -> {"none", "queued", "active", "over"}]
      /\ queued' \subseteq queued
      /\ \/ active' = active
         \/ active' = active \cup {s} /\ claimer[c].active < PrincipalActive
  <2>1. CASE submitted' = submitted
    BY <2>1 DEF RunsIn, AdmissionInv, AdmissionTypeOK
  <2>2. CASE /\ submitted' = [submitted EXCEPT ![s] = "active"]
             /\ claimer[c].active < PrincipalActive
    BY <1>1, <2>2 DEF RunsIn, AdmissionInv, AdmissionTypeOK
  <2> QED BY <1>1, <2>1, <2>2 DEF CommitClaim, AdmissionInv, AdmissionTypeOK
<1>3. IsFiniteSet(queued') /\ Cardinality(queued') <= Cardinality(queued)
  BY <1>1, <1>2, FS_Subset
<1>4. IsFiniteSet(active') /\ Cardinality(active') <= PrincipalActive
  <2>1. CASE active' = active
    BY <1>1, <2>1 DEF AdmissionInv, CeilingsHold
  <2>2. CASE active' = active \cup {s} /\ claimer[c].active < PrincipalActive
    <3>1. /\ IsFiniteSet(active \cup {s})
          /\ Cardinality(active \cup {s}) \in {Cardinality(active), Cardinality(active) + 1}
      BY <1>1, FS_AddElement
    <3>2. Cardinality(active \cup {s}) <= PrincipalActive
      BY <1>1, <2>2, <3>1, CeilingsAreNumbers
    <3> QED BY <2>2, <3>1, <3>2
  <2> QED BY <1>2, <2>1, <2>2
<1>5. Cardinality(queued') <= MaxQueued
  <2>1. Cardinality(queued') \in Nat /\ Cardinality(queued) <= MaxQueued
    BY <1>3, FS_CardinalityType DEF AdmissionInv, CeilingsHold
  <2> QED BY <1>1, <1>3, <2>1, CeilingsAreNumbers
<1>6. /\ claimer' \in [Claimer -> Claim] /\ claimer'[c].at = "idle"
      /\ \A d \in Claimer : d # c => claimer'[d] = claimer[d]
  BY DEF CommitClaim, AdmissionInv, AdmissionTypeOK, Claim
<1>7. /\ \A t \in Submission : request'[t].at # "commit"
      /\ \A d \in Claimer : claimer'[d].at # "claim"
  BY <1>6, AdmissionAssumption DEF CommitClaim, AdmissionInv, RowIsHeld
<1>8. AdmissionTypeOK'
  BY <1>2, <1>6 DEF CommitClaim, AdmissionInv, AdmissionTypeOK
<1>9. RowIsHeld' /\ CountsAreFresh' /\ CeilingsHold'
  BY <1>3, <1>4, <1>5, <1>7 DEF RowIsHeld, CountsAreFresh, CeilingsHold
<1> QED BY <1>8, <1>9
        DEF CommitClaim, AdmissionInv, KeysNameRuns, RefusalTakesNothing, Unbound

\* A Run that ends makes room: what a claim counted before may only be too much.
LEMMA FinishKeeps ==
    ASSUME AdmissionInv, NEW s \in Submission, FinishSubmitted(s) PROVE AdmissionInv'
<1>1. /\ submitted' \in [Submission -> {"none", "queued", "active", "over"}]
      /\ RunsIn("queued")' = RunsIn("queued") /\ RunsIn("active")' \subseteq RunsIn("active")
  BY DEF FinishSubmitted, RunsIn, AdmissionInv, AdmissionTypeOK
<1>2. /\ IsFiniteSet(RunsIn("active"))'
      /\ Cardinality(RunsIn("active"))' <= Cardinality(RunsIn("active"))
      /\ Cardinality(RunsIn("active")) \in Nat /\ Cardinality(RunsIn("active"))' \in Nat
  BY <1>1, FS_Subset, FS_CardinalityType DEF AdmissionInv, CountsAreFresh
<1>3. Cardinality(RunsIn("active"))' <= PrincipalActive
  BY <1>2, CeilingsAreNumbers DEF AdmissionInv, CeilingsHold
<1>4. \A c \in Claimer :
        claimer[c].at = "claim" => Cardinality(RunsIn("active"))' <= claimer[c].active
  <2> SUFFICES ASSUME NEW c \in Claimer, claimer[c].at = "claim"
               PROVE  Cardinality(RunsIn("active"))' <= claimer[c].active
    OBVIOUS
  <2>1. Cardinality(RunsIn("active")) <= claimer[c].active /\ claimer[c].active \in Nat
    BY DEF AdmissionInv, CountsAreFresh, AdmissionTypeOK, Claim
  <2> QED BY <1>2, <2>1
<1>5. CountsAreFresh'
  BY <1>1, <1>2, <1>4 DEF FinishSubmitted, AdmissionInv, CountsAreFresh
<1>6. CeilingsHold'
  BY <1>1, <1>3 DEF AdmissionInv, CeilingsHold
<1>7. AdmissionTypeOK' /\ RowIsHeld'
  BY <1>1 DEF FinishSubmitted, AdmissionInv, AdmissionTypeOK, RowIsHeld
<1> QED BY <1>5, <1>6, <1>7
        DEF FinishSubmitted, AdmissionInv, KeysNameRuns, RefusalTakesNothing, Unbound

\* Nothing but the clock moves.
LEMMA IdleKeeps ==
    ASSUME AdmissionInv, dbNow' \in Nat,
           UNCHANGED <<request, submitted, bound, coordinator, claimer, taken>>
    PROVE  AdmissionInv'
<1>1. UNCHANGED <<RunsIn("queued"), RunsIn("active")>>
  BY DEF RunsIn
<1> QED BY <1>1 DEF AdmissionInv, AdmissionTypeOK, RowIsHeld, CountsAreFresh, KeysNameRuns,
                    CeilingsHold, RefusalTakesNothing, Unbound

\* AdmissionInv is inductive.
LEMMA AdmissionStep == AdmissionInv /\ [AdmissionNext]_admissionVars => AdmissionInv'
<1> SUFFICES ASSUME AdmissionInv, [AdmissionNext]_admissionVars PROVE AdmissionInv'
  OBVIOUS
<1>1. ASSUME NEW s \in Submission,
             \/ Submit(s) \/ ConsumeSubmissionTokens(s) \/ BeginAdmission(s) \/ Replay(s)
             \/ RejectFull(s) \/ AdmitSubmission(s) \/ RollBack(s) \/ FinishSubmitted(s)
      PROVE  AdmissionInv'
  BY <1>1, SubmitKeeps, ConsumeKeeps, BeginAdmissionKeeps, ReplayKeeps, RejectKeeps, AdmitKeeps,
     RollBackKeeps, FinishKeeps
<1>2. ASSUME NEW c \in Claimer, BeginClaim(c) \/ CommitClaim(c) PROVE AdmissionInv'
  BY <1>2, BeginClaimKeeps, CommitClaimKeeps
<1>3. CASE DbTick
  BY <1>3, IdleKeeps DEF DbTick, AdmissionInv, AdmissionTypeOK
<1>4. CASE UNCHANGED admissionVars
  BY <1>4, IdleKeeps DEF admissionVars, AdmissionInv, AdmissionTypeOK
<1> QED BY <1>1, <1>2, <1>3, <1>4 DEF AdmissionNext

\* Nothing is submitted, claimed or counted at first.
LEMMA AdmissionInitially == AdmissionInit => AdmissionInv
<1> SUFFICES ASSUME AdmissionInit PROVE AdmissionInv
  OBVIOUS
<1>1. RunsIn("queued") = {} /\ RunsIn("active") = {}
  BY DEF AdmissionInit, RunsIn
<1>2. IsFiniteSet({}) /\ Cardinality({}) = 0
  BY FS_EmptySet
<1>4. CeilingsHold
  <2>1. 0 <= MaxQueued /\ 0 <= PrincipalActive
    BY CeilingsAreNumbers
  <2> QED BY <1>1, <1>2, <2>1 DEF CeilingsHold
<1>5. CountsAreFresh
  <2>1. /\ \A s \in Submission : request[s].at # "commit"
        /\ \A c \in Claimer : claimer[c].at # "claim"
    BY DEF AdmissionInit
  <2> QED BY <1>1, <1>2, <2>1 DEF CountsAreFresh
<1>3. AdmissionTypeOK
  BY DEF AdmissionInit, AdmissionTypeOK, Submitting, Answers, Claim, Contents, Unbound
<1> QED BY <1>3, <1>4, <1>5
        DEF AdmissionInit, AdmissionInv, RowIsHeld, KeysNameRuns, RefusalTakesNothing, Bucket

\* Every step of a submission or of a claimer preserves AdmissionInv.
LEMMA AdmissionInvariance == AdmissionSpec => []AdmissionInv
BY AdmissionInitially, AdmissionStep, PTL DEF AdmissionSpec

\* A request under a bound key leaves its commit only by replaying or by a rollback.
LEMMA ReplaysOnly ==
    ASSUME AdmissionInv, [AdmissionNext]_admissionVars, NEW s \in Submission,
           request[s].at = "commit", Bound(s), request'[s].at # "commit"
    PROVE  request'[s].answer # "queue_full" /\ submitted'[s] = submitted[s]
<1>1. Replay(s) \/ RollBack(s)
  <2>1. ASSUME NEW t \in Submission, NEW x, Step(t, x), t # s PROVE request'[s] = request[s]
    BY <2>1 DEF Step, AdmissionInv, AdmissionTypeOK
  <2>2. PICK t \in Submission : \/ Submit(t) \/ ConsumeSubmissionTokens(t) \/ BeginAdmission(t)
            \/ Replay(t) \/ RejectFull(t) \/ AdmitSubmission(t) \/ RollBack(t)
    BY DEF AdmissionNext, admissionVars, FinishSubmitted, BeginClaim, CommitClaim, DbTick
  <2>3. \E x : Step(t, x)
    BY <2>2 DEF Submit, ConsumeSubmissionTokens, BeginAdmission, Replay, RejectFull,
                AdmitSubmission, RollBack, Answered
  <2>4. t = s
    BY <2>1, <2>3
  <2> QED BY <2>2, <2>4 DEF Submit, ConsumeSubmissionTokens, BeginAdmission, RejectFull,
                            AdmitSubmission, IsReplay
<1>2. CASE RollBack(s)
  BY <1>2 DEF RollBack, Answered, Step, AdmissionInv, AdmissionTypeOK
<1>3. CASE Replay(s)
  <2>1. bound[KeyIn(s)].run # "queue_full"
    BY BoundAnswers, AdmissionAssumption
  <2> QED BY <1>3, <2>1 DEF Replay, Answered, Step, AdmissionInv, AdmissionTypeOK
<1> QED BY <1>1, <1>2, <1>3

\* Admission is fair (AdmissionIsFair), for any number of API processes and Workers.
THEOREM AdmissionIsFairAlways == AdmissionSpec => AdmissionIsFair
<1>1. AdmissionInv => CeilingsHold /\ RefusalTakesNothing
  BY DEF AdmissionInv
<1>2. AdmissionInv /\ [AdmissionNext]_admissionVars =>
        [\A s \in Submission :
            request[s].at = "commit" /\ Bound(s) /\ request'[s].at # "commit" =>
                /\ request'[s].answer # "queue_full"
                /\ submitted'[s] = submitted[s]]_admissionVars
  BY ReplaysOnly
<1>3. AdmissionSpec => ReplayGetsItsRun
  BY <1>2, AdmissionInvariance, PTL DEF AdmissionSpec, ReplayGetsItsRun
<1> QED BY <1>1, <1>3, AdmissionInvariance, PTL DEF AdmissionIsFair

(***************************************************************************)
(* ProgressDetector.  Since the last evidence, every window was at least as*)
(* long as the quickest detector needs and at most max_stagnant_steps long:*)
(* n operations hold no fewer windows than WindowsCover says.              *)
(***************************************************************************)

Detector == [actions : Seq(Action), evidence : Seq(Evidence \cup {"none"}), processed : Seq(Nat),
             repeats : Nat, errors : Nat, lastAction : Action \cup {"none"},
             lastError : {"none", "error"}, stagnant : Nat, recoveries : Nat,
             signal : BOOLEAN, terminated : BOOLEAN]

Quick == {MaxErrors, MaxIdentical - 1, 2 * MaxCycle - 1, MaxStagnant}

\* What the quickest detector needs.
Least == CHOOSE n \in Quick : \A m \in Quick : n <= m

\* What a window counts: at most the operations since it was opened (stagnant), and the one
\* whose evidence opened it.
WindowIsSound(d) ==
    /\ d.errors <= d.stagnant
    /\ d.repeats <= d.stagnant + 1
    /\ Len(d.actions) <= d.stagnant + 1

\* The windows since the last evidence, n operations ago: none was shorter than the
\* quickest detector needs, and none longer than max_stagnant_steps.
WindowsCover(d, n) ==
    /\ d.stagnant <= n
    /\ d.recoveries <= MaxRecovery
    /\ d.recoveries * Least + d.stagnant <= n
    /\ ~d.terminated => /\ d.stagnant < MaxStagnant
                        /\ n <= d.recoveries * MaxStagnant + d.stagnant
    /\ d.terminated => /\ (MaxRecovery + 1) * Least <= n
                       /\ n <= (MaxRecovery + 1) * MaxStagnant

Judged(d, n) == d \in Detector /\ WindowIsSound(d) /\ WindowsCover(d, n)

ProcessedUpTo(d, n) == \A i \in 1 .. Len(d.processed) : d.processed[i] <= n

\* Operations without evidence once the observation in progress is saved.
IdleThen == IF ~current.observed THEN idle ELSE IF current.new THEN 0 ELSE idle + 1

ProgressInv ==
    /\ idle \in Nat /\ current \in [done : Nat, observed : BOOLEAN, new : BOOLEAN]
    /\ Judged(saved, idle) /\ ProcessedUpTo(saved, current.done)
    /\ Judged(working, IdleThen)
    /\ ProcessedUpTo(working, IF current.observed THEN current.done + 1 ELSE current.done)
    /\ IF current.observed THEN ~saved.terminated ELSE working = saved

\* The ranges of the policy that the proofs use.
LEMMA PolicyFacts ==
    /\ MaxErrors \in Nat /\ MaxErrors >= 2
    /\ MaxIdentical \in Nat /\ MaxIdentical >= 2
    /\ MaxCycle \in Nat /\ MaxCycle >= 2
    /\ MaxStagnant \in Nat /\ MaxStagnant >= 2
    /\ MaxRecovery \in Nat
    /\ HistoryLimit \in Nat /\ HistoryLimit >= 8
BY PolicyAssumption

\* The quickest detector.
LEMMA LeastFacts ==
    /\ Least \in Quick /\ Least \in Nat
    /\ Least <= MaxErrors /\ Least <= MaxIdentical - 1 /\ Least <= 2 * MaxCycle - 1
    /\ Least <= MaxStagnant
<1>1. \E n \in Quick : \A m \in Quick : n <= m
  <2> DEFINE Smaller(a, b) == IF a <= b THEN a ELSE b
             n == Smaller(Smaller(MaxErrors, MaxIdentical - 1), Smaller(2 * MaxCycle - 1, MaxStagnant))
  <2>1. /\ n \in Quick /\ n <= MaxErrors /\ n <= MaxIdentical - 1 /\ n <= 2 * MaxCycle - 1
        /\ n <= MaxStagnant
    BY PolicyFacts DEF Quick
  <2> QED BY <2>1 DEF Quick
<1>2. Least \in Quick /\ \A m \in Quick : Least <= m
  BY <1>1 DEF Least
<1>3. Least \in Nat
  BY <1>2, PolicyFacts DEF Quick
<1> QED BY <1>2, <1>3 DEF Quick

\* The end of a sequence.
LEMMA EndOfSeq ==
    ASSUME NEW S, NEW seq \in Seq(S), NEW m \in 1 .. Len(seq)
    PROVE  /\ SubSeq(seq, m, Len(seq)) \in Seq(S)
           /\ Len(SubSeq(seq, m, Len(seq))) = Len(seq) - m + 1
           /\ \A i \in 1 .. Len(seq) - m + 1 : SubSeq(seq, m, Len(seq))[i] = seq[m + i - 1]
<1>1. m \in Int /\ Len(seq) \in Int /\ m <= Len(seq)
  OBVIOUS
<1>2. \A i \in m .. Len(seq) : seq[i] \in S
  OBVIOUS
<1> QED BY <1>1, <1>2, SubSeqProperties

\* _append_bounded keeps the end of a sequence, with what is appended.
LEMMA BoundedFacts ==
    ASSUME NEW S, NEW seq \in Seq(S), NEW x \in S
    PROVE  /\ Bounded(seq, x) \in Seq(S)
           /\ Len(Bounded(seq, x)) <= Len(seq) + 1
           /\ \A i \in 1 .. Len(Bounded(seq, x)) :
                 Bounded(seq, x)[i] = x \/ \E j \in 1 .. Len(seq) : Bounded(seq, x)[i] = seq[j]
<1>1. PICK longer \in Seq(S) : longer = Append(seq, x)
  <2>1. Append(seq, x) \in Seq(S)
    OBVIOUS
  <2> QED BY <2>1
<1>2. /\ Len(longer) = Len(seq) + 1 /\ Len(seq) \in Nat
      /\ \A i \in 1 .. Len(longer) : longer[i] = x \/ \E j \in 1 .. Len(seq) : longer[i] = seq[j]
  BY <1>1
<1>3. CASE Len(longer) > HistoryLimit
  <2>1. PICK m \in 1 .. Len(longer) : m = Len(longer) - HistoryLimit + 1
    <3>1. Len(longer) - HistoryLimit + 1 \in 1 .. Len(longer)
      BY <1>2, <1>3, PolicyFacts
    <3> QED BY <3>1
  <2>2. Bounded(seq, x) = SubSeq(longer, m, Len(longer))
    BY <1>1, <1>3, <2>1 DEF Bounded
  <2>3. /\ SubSeq(longer, m, Len(longer)) \in Seq(S)
        /\ Len(SubSeq(longer, m, Len(longer))) = Len(longer) - m + 1
        /\ \A i \in 1 .. Len(longer) - m + 1 : SubSeq(longer, m, Len(longer))[i] = longer[m + i - 1]
    BY EndOfSeq
  <2>4. \A i \in 1 .. Len(longer) - m + 1 : m + i - 1 \in 1 .. Len(longer)
    BY <1>2, <2>1
  <2>5. /\ Bounded(seq, x) \in Seq(S) /\ Len(Bounded(seq, x)) = Len(longer) - m + 1
        /\ \A i \in 1 .. Len(longer) - m + 1 : Bounded(seq, x)[i] = longer[m + i - 1]
    BY <2>2, <2>3
  <2>6. Len(Bounded(seq, x)) <= Len(seq) + 1
    BY <1>2, <2>1, <2>5
  <2>7. \A i \in 1 .. Len(Bounded(seq, x)) :
          Bounded(seq, x)[i] = x \/ \E j \in 1 .. Len(seq) : Bounded(seq, x)[i] = seq[j]
    BY <1>2, <2>4, <2>5
  <2> QED BY <2>5, <2>6, <2>7
<1>4. CASE ~(Len(longer) > HistoryLimit)
  <2>1. Bounded(seq, x) = longer
    BY <1>1, <1>4 DEF Bounded
  <2> QED BY <1>2, <2>1
<1> QED BY <1>3, <1>4

\* What an observation counts, and how it changes the window.
Counted(d, r, e) == [d EXCEPT !.repeats = r, !.errors = e]

Opened(c, evidence, actions, o) ==
    [c EXCEPT !.evidence = evidence, !.stagnant = 0, !.recoveries = 0, !.signal = FALSE,
              !.lastAction = o.action, !.lastError = o.error, !.actions = actions]

Prolonged(c, n, actions, o) ==
    [c EXCEPT !.stagnant = n, !.lastAction = o.action, !.lastError = o.error, !.actions = actions]

\* An operation without evidence changes the counts and nothing else.
LEMMA CountedFields ==
    ASSUME NEW d \in Detector, NEW r \in Nat, NEW e \in Nat
    PROVE  LET c == Counted(d, r, e) IN
           /\ c \in Detector /\ c.repeats = r /\ c.errors = e
           /\ c.actions = d.actions /\ c.evidence = d.evidence /\ c.processed = d.processed
           /\ c.terminated = d.terminated /\ c.stagnant = d.stagnant /\ c.recoveries = d.recoveries
BY DEF Detector, Counted

\* Evidence opens the windows again.
LEMMA OpenedFields ==
    ASSUME NEW c \in Detector, NEW evidence \in Seq(Evidence \cup {"none"}),
           NEW actions \in Seq(Action), NEW o \in Observation
    PROVE  LET e == Opened(c, evidence, actions, o) IN
           /\ e \in Detector /\ e.repeats = c.repeats /\ e.errors = c.errors
           /\ e.actions = actions /\ e.processed = c.processed /\ e.terminated = c.terminated
           /\ e.stagnant = 0 /\ e.recoveries = 0
BY DEF Detector, Opened, Observation

\* A window that goes on has one operation more.
LEMMA ProlongedFields ==
    ASSUME NEW c \in Detector, NEW n \in Nat, NEW actions \in Seq(Action), NEW o \in Observation
    PROVE  LET e == Prolonged(c, n, actions, o) IN
           /\ e \in Detector /\ e.repeats = c.repeats /\ e.errors = c.errors
           /\ e.actions = actions /\ e.processed = c.processed /\ e.terminated = c.terminated
           /\ e.stagnant = n /\ e.recoveries = c.recoveries
BY DEF Detector, Prolonged, Observation

\* New evidence opens a window with the one operation that brought it.
LEMMA EnteredNew ==
    ASSUME NEW d \in Detector, NEW o \in Observation, IsNew(d, o)
    PROVE  LET e == Entered(d, o) IN
           /\ e \in Detector /\ e.processed = d.processed /\ e.terminated = d.terminated
           /\ e.stagnant = 0 /\ e.recoveries = 0 /\ e.errors = 0 /\ e.repeats = 1
           /\ Len(e.actions) <= 1
<1>1. o.action \in Action /\ o.error = "none" /\ o.evidence \in Evidence \cup {"none"}
  BY DEF Observation, IsNew
<1>2. Count(d, o) = Counted(d, 1, 0)
  BY <1>1 DEF Count, Counted
<1>3. PICK c : c = Count(d, o)
  OBVIOUS
<1>4. /\ c \in Detector /\ c.repeats = 1 /\ c.errors = 0 /\ c.evidence = d.evidence
      /\ c.processed = d.processed /\ c.terminated = d.terminated
  BY <1>2, <1>3, CountedFields
<1>5. Bounded(d.evidence, o.evidence) \in Seq(Evidence \cup {"none"})
  <2>1. d.evidence \in Seq(Evidence \cup {"none"})
    BY DEF Detector
  <2> QED BY <1>1, <2>1, BoundedFacts
<1>6. PICK actions \in Seq(Action) : actions = Bounded(<<>>, o.action) /\ Len(actions) <= 1
  <2>1. <<>> \in Seq(Action) /\ Len(<<>>) + 1 = 1
    OBVIOUS
  <2>2. /\ Bounded(<<>>, o.action) \in Seq(Action)
        /\ Len(Bounded(<<>>, o.action)) <= Len(<<>>) + 1
    BY <1>1, <2>1, BoundedFacts
  <2> QED BY <2>1, <2>2
<1>7. Entered(d, o) = Opened(c, Bounded(d.evidence, o.evidence), actions, o)
  BY <1>3, <1>4, <1>6 DEF Entered, Opened, Detector
<1>8. LET e == Opened(c, Bounded(d.evidence, o.evidence), actions, o) IN
        /\ e \in Detector /\ e.repeats = c.repeats /\ e.errors = c.errors
        /\ e.actions = actions /\ e.processed = c.processed /\ e.terminated = c.terminated
        /\ e.stagnant = 0 /\ e.recoveries = 0
  BY <1>4, <1>5, OpenedFields
<1> QED BY <1>4, <1>6, <1>7, <1>8

\* Another operation prolongs the window by one.
LEMMA EnteredOld ==
    ASSUME NEW d \in Detector, NEW o \in Observation, ~IsNew(d, o)
    PROVE  LET e == Entered(d, o) IN
           /\ e \in Detector /\ e.processed = d.processed /\ e.terminated = d.terminated
           /\ e.stagnant = d.stagnant + 1 /\ e.recoveries = d.recoveries
           /\ e.errors \in {0, 1, d.errors + 1} /\ e.repeats \in {1, d.repeats + 1}
           /\ Len(e.actions) <= Len(d.actions) + 1
<1>1. PICK r \in {1, d.repeats + 1}, e \in {0, 1, d.errors + 1} : Count(d, o) = Counted(d, r, e)
  <2> DEFINE r == IF d.lastAction = o.action /\ ~IsNew(d, o) THEN d.repeats + 1 ELSE 1
             e == IF o.error = "none" THEN 0
                  ELSE IF d.lastError = o.error /\ ~IsNew(d, o) THEN d.errors + 1 ELSE 1
  <2>1. Count(d, o) = Counted(d, r, e)
    BY DEF Count, Counted, Detector
  <2> QED BY <2>1
<1>2. r \in Nat /\ e \in Nat
  BY DEF Detector
<1>3. PICK c : c = Count(d, o)
  OBVIOUS
<1>4. /\ c \in Detector /\ c.repeats = r /\ c.errors = e /\ c.actions = d.actions
      /\ c.processed = d.processed /\ c.terminated = d.terminated /\ c.stagnant = d.stagnant
      /\ c.recoveries = d.recoveries
  BY <1>1, <1>2, <1>3, CountedFields
<1>5. PICK actions \in Seq(Action) : /\ actions = Bounded(d.actions, o.action)
                                     /\ Len(actions) <= Len(d.actions) + 1
  <2>1. d.actions \in Seq(Action) /\ o.action \in Action
    BY DEF Detector, Observation
  <2> QED BY <2>1, BoundedFacts
<1>6. d.stagnant + 1 \in Nat
  BY DEF Detector
<1>7. Entered(d, o) = Prolonged(c, d.stagnant + 1, actions, o)
  BY <1>3, <1>4, <1>5 DEF Entered, Prolonged, Detector
<1> QED BY <1>4, <1>5, <1>6, <1>7, ProlongedFields

\* Multiples of a length.
LEMMA Multiples ==
    ASSUME NEW r \in Nat, NEW k \in Nat, NEW n \in Nat, r <= k
    PROVE  /\ r * n \in Nat /\ 0 * n = 0 /\ (r + 1) * n = r * n + n
           /\ r * n <= k * n
<1>1. r * n \in Nat /\ 0 * n = 0 /\ (r + 1) * n = r * n + n
  OBVIOUS
<1>2. PICK m \in Nat : k = r + m
  <2>1. k - r \in Nat /\ k = r + (k - r)
    OBVIOUS
  <2> QED BY <2>1
<1>3. k * n = r * n + m * n /\ m * n \in Nat
  BY <1>2
<1> QED BY <1>1, <1>3

\* A detector fires in a window that is long enough for the quickest one.
LEMMA DetectionTakesLong ==
    ASSUME NEW e \in Detector, WindowIsSound(e), Detects(e)
    PROVE  Least <= e.stagnant
<1>1. e.stagnant \in Nat /\ e.errors \in Nat /\ e.repeats \in Nat /\ Len(e.actions) \in Nat
  BY LenProperties DEF Detector
<1>2. CASE e.errors >= MaxErrors \/ e.repeats >= MaxIdentical \/ e.stagnant >= MaxStagnant
  BY <1>1, <1>2, LeastFacts, PolicyFacts DEF WindowIsSound
<1>3. CASE HasCycle(e.actions)
  <2>1. PICK length \in 2 .. 4 : Len(e.actions) - length * MaxCycle + 1 >= 1
    BY <1>3 DEF HasCycle
  <2>2. length * MaxCycle >= 2 * MaxCycle /\ length * MaxCycle \in Nat
    BY PolicyFacts
  <2>3. Len(e.actions) >= 2 * MaxCycle
    BY <1>1, <2>1, <2>2, PolicyFacts
  <2> QED BY <1>1, <2>3, LeastFacts, PolicyFacts DEF WindowIsSound
<1> QED BY <1>2, <1>3 DEF Detects

\* One operation is too little for any detector.
LEMMA OneIsNoDetection ==
    ASSUME NEW e \in Detector, e.stagnant = 0, e.errors = 0, e.repeats = 1, Len(e.actions) <= 1
    PROVE  ~Detects(e)
<1>1. Len(e.actions) \in Nat
  BY LenProperties DEF Detector
<1>2. ASSUME NEW length \in 2 .. 4 PROVE ~(Len(e.actions) - length * MaxCycle + 1 >= 1)
  <2>1. length * MaxCycle >= 2 * MaxCycle /\ length * MaxCycle \in Nat
    BY PolicyFacts
  <2> QED BY <1>1, <2>1, PolicyFacts
<1>3. ~HasCycle(e.actions)
  BY <1>2 DEF HasCycle
<1> QED BY <1>3, PolicyFacts DEF Detects

\* The detector after a detection: its window opens anew, or the Run is stopped.
Restarted(e) ==
    [e EXCEPT !.actions = <<>>, !.repeats = 0, !.errors = 0, !.stagnant = 0,
              !.lastAction = "none", !.lastError = "none", !.signal = TRUE,
              !.recoveries = e.recoveries + 1]

Stopped(e) == [e EXCEPT !.signal = FALSE, !.terminated = TRUE]

\* A recovery opens the windows again and counts itself.
LEMMA RestartedFields ==
    ASSUME NEW e \in Detector
    PROVE  LET r == Restarted(e) IN
           /\ r \in Detector /\ r.stagnant = 0 /\ r.errors = 0 /\ r.repeats = 0 /\ Len(r.actions) = 0
           /\ r.recoveries = e.recoveries + 1 /\ r.terminated = e.terminated
           /\ r.processed = e.processed
<1>1. <<>> \in Seq(Action) /\ Len(<<>>) = 0
  BY EmptySeq
<1>2. e.recoveries + 1 \in Nat
  BY DEF Detector
<1>3. Restarted(e) \in Detector
  BY <1>1, <1>2 DEF Detector, Restarted
<1>4. LET r == Restarted(e) IN
        /\ r.stagnant = 0 /\ r.errors = 0 /\ r.repeats = 0 /\ r.actions = <<>>
        /\ r.recoveries = e.recoveries + 1 /\ r.terminated = e.terminated
        /\ r.processed = e.processed
  BY DEF Detector, Restarted
<1> QED BY <1>1, <1>3, <1>4

\* Only the flag of the termination is set.
LEMMA StoppedFields ==
    ASSUME NEW e \in Detector
    PROVE  LET r == Stopped(e) IN
           /\ r \in Detector /\ r.stagnant = e.stagnant /\ r.errors = e.errors
           /\ r.repeats = e.repeats /\ r.actions = e.actions
           /\ r.recoveries = e.recoveries /\ r.terminated = TRUE /\ r.processed = e.processed
BY DEF Detector, Stopped

\* A window that was prolonged by the operation n, and is not yet judged.
Prolongs(e, n) ==
    /\ WindowIsSound(e) /\ ~e.terminated
    /\ e.stagnant <= n /\ e.stagnant <= MaxStagnant
    /\ e.recoveries <= MaxRecovery
    /\ e.recoveries * Least + e.stagnant <= n
    /\ n <= e.recoveries * MaxStagnant + e.stagnant

\* A detection judges rightly, whether it restarts the window or stops the Run.
LEMMA RecoverJudges ==
    ASSUME NEW e \in Detector, NEW n \in Nat, Prolongs(e, n), Detects(e)
    PROVE  Judged(Recover(e), n) /\ Recover(e).processed = e.processed
<1>1. /\ e.recoveries \in Nat /\ e.stagnant \in Nat /\ e.recoveries <= MaxRecovery
      /\ MaxRecovery \in Nat /\ MaxStagnant \in Nat /\ Least \in Nat /\ MaxStagnant >= 2
  BY PolicyFacts, LeastFacts DEF Detector, Prolongs
<1>2. Least <= e.stagnant
  BY DetectionTakesLong DEF Prolongs
<1>3. /\ e.recoveries * Least \in Nat
      /\ (e.recoveries + 1) * Least = e.recoveries * Least + Least
  BY <1>1, Multiples
<1>4. /\ e.recoveries * MaxStagnant \in Nat
      /\ (e.recoveries + 1) * MaxStagnant = e.recoveries * MaxStagnant + MaxStagnant
  BY <1>1, Multiples
<1>5. PICK a \in Nat, b \in Nat :
          a = (e.recoveries + 1) * Least /\ b = (e.recoveries + 1) * MaxStagnant
  <2>1. e.recoveries * Least + Least \in Nat /\ e.recoveries * MaxStagnant + MaxStagnant \in Nat
    BY <1>1, <1>3, <1>4
  <2> QED BY <1>3, <1>4, <2>1
<1>6. a <= n /\ n <= b
  <2>1. PICK p \in Nat, q \in Nat : p = e.recoveries * Least /\ q = e.recoveries * MaxStagnant
    BY <1>3, <1>4
  <2>2. p + e.stagnant <= n /\ n <= q + e.stagnant /\ e.stagnant <= MaxStagnant
    BY <2>1 DEF Prolongs
  <2>3. a = p + Least /\ b = q + MaxStagnant
    BY <1>3, <1>4, <1>5, <2>1
  <2> QED BY <1>1, <1>2, <2>2, <2>3
<1>7. CASE e.recoveries < MaxRecovery
  <2>1. Recover(e) = Restarted(e)
    BY <1>7 DEF Recover, Restarted, Detector
  <2>2. PICK r : r = Recover(e)
    OBVIOUS
  <2>3. /\ r \in Detector /\ r.stagnant = 0 /\ r.errors = 0 /\ r.repeats = 0 /\ Len(r.actions) = 0
        /\ r.recoveries = e.recoveries + 1 /\ r.terminated = e.terminated
        /\ r.processed = e.processed
    BY <2>1, <2>2, RestartedFields
  <2>4. WindowIsSound(r)
    BY <2>3 DEF WindowIsSound
  <2>5. r.recoveries * Least = a /\ r.recoveries * MaxStagnant = b
    BY <1>5, <2>3
  <2>6. a + r.stagnant <= n /\ n <= b + r.stagnant
    BY <1>6, <2>3
  <2>7. r.stagnant <= n /\ r.stagnant < MaxStagnant /\ r.recoveries <= MaxRecovery /\ ~r.terminated
    BY <1>1, <1>7, <2>3 DEF Prolongs
  <2>8. /\ r.recoveries * Least + r.stagnant <= n
        /\ n <= r.recoveries * MaxStagnant + r.stagnant
    BY <2>5, <2>6
  <2>9. WindowsCover(r, n)
    BY <2>7, <2>8 DEF WindowsCover
  <2> QED BY <2>2, <2>3, <2>4, <2>9 DEF Judged
<1>8. CASE ~(e.recoveries < MaxRecovery)
  <2>1. Recover(e) = Stopped(e) /\ e.recoveries = MaxRecovery
    BY <1>1, <1>8 DEF Recover, Stopped
  <2>2. PICK r : r = Recover(e)
    OBVIOUS
  <2>3. /\ r \in Detector /\ r.stagnant = e.stagnant /\ r.errors = e.errors
        /\ r.repeats = e.repeats /\ r.actions = e.actions
        /\ r.recoveries = e.recoveries /\ r.terminated = TRUE /\ r.processed = e.processed
    BY <2>1, <2>2, StoppedFields
  <2>4. WindowIsSound(r)
    BY <2>3 DEF WindowIsSound, Prolongs
  <2>5. (MaxRecovery + 1) * Least <= n /\ n <= (MaxRecovery + 1) * MaxStagnant
    BY <1>5, <1>6, <2>1
  <2>6. r.stagnant <= n /\ r.recoveries <= MaxRecovery /\ r.terminated
    BY <1>1, <2>3 DEF Prolongs
  <2>7. r.recoveries * Least + r.stagnant <= n
    BY <2>3 DEF Prolongs
  <2>8. WindowsCover(r, n)
    BY <2>5, <2>6, <2>7 DEF WindowsCover
  <2> QED BY <2>2, <2>3, <2>4, <2>8 DEF Judged
<1> QED BY <1>7, <1>8

\* The window after an observation, with the operation among the processed ones.
Marked(e, processed) == [e EXCEPT !.processed = processed]

\* Marking an operation changes nothing the detectors look at.
LEMMA MarkedFields ==
    ASSUME NEW e \in Detector, NEW processed \in Seq(Nat)
    PROVE  LET m == Marked(e, processed) IN
           /\ m \in Detector /\ m.processed = processed
           /\ m.actions = e.actions /\ m.repeats = e.repeats /\ m.errors = e.errors
           /\ m.stagnant = e.stagnant /\ m.recoveries = e.recoveries /\ m.terminated = e.terminated
BY DEF Detector, Marked

\* The operations that are processed after another one is.
LEMMA ProcessedFacts ==
    ASSUME NEW d \in Detector, NEW op \in Nat, NEW n \in Nat, n <= op, ProcessedUpTo(d, n)
    PROVE  /\ Bounded(d.processed, op) \in Seq(Nat)
           /\ \A i \in 1 .. Len(Bounded(d.processed, op)) : Bounded(d.processed, op)[i] <= op
<1>1. PICK seq \in Seq(Nat) : seq = d.processed
  BY DEF Detector
<1>2. PICK longer : longer = Bounded(seq, op)
  OBVIOUS
<1>3. /\ longer \in Seq(Nat)
      /\ \A i \in 1 .. Len(longer) : longer[i] = op \/ \E j \in 1 .. Len(seq) : longer[i] = seq[j]
  <2>1. PICK S, x : S = Nat /\ x = op
    OBVIOUS
  <2>2. seq \in Seq(S) /\ x \in S
    BY <2>1
  <2>3. /\ Bounded(seq, x) \in Seq(S)
        /\ \A i \in 1 .. Len(Bounded(seq, x)) :
              Bounded(seq, x)[i] = x \/ \E j \in 1 .. Len(seq) : Bounded(seq, x)[i] = seq[j]
    BY <2>2, BoundedFacts
  <2> QED BY <1>2, <2>1, <2>3
<1>4. \A j \in 1 .. Len(seq) : seq[j] \in Nat /\ seq[j] <= n
  BY <1>1, ElementOfSeq DEF ProcessedUpTo
<1>5. \A j \in 1 .. Len(seq) : seq[j] <= op
  BY <1>4
<1>6. op <= op
  OBVIOUS
<1>7. \A i \in 1 .. Len(longer) : longer[i] <= op
  BY <1>3, <1>5, <1>6
<1> QED BY <1>1, <1>2, <1>3, <1>7

\* An operation that is observed once is judged rightly (observe).
LEMMA ObserveJudges ==
    ASSUME NEW n \in Nat, NEW d, Judged(d, n), ~d.terminated, NEW o \in Observation, NEW done \in Nat,
           ProcessedUpTo(d, done)
    PROVE  /\ Judged(Observe(d, done + 1, o), IF IsNew(d, o) THEN 0 ELSE n + 1)
           /\ ProcessedUpTo(Observe(d, done + 1, o), done + 1)
<1>1. d \in Detector /\ done + 1 \in Nat /\ done <= done + 1
  BY DEF Judged
<1>2. ~Processed(d, done + 1)
  <2>1. \A i \in 1 .. Len(d.processed) : d.processed[i] \in Nat /\ d.processed[i] <= done
    BY <1>1, ElementOfSeq DEF Detector, ProcessedUpTo
  <2> QED BY <2>1 DEF Processed, InSeq
<1>3. PICK processed \in Seq(Nat) :
        /\ processed = Bounded(d.processed, done + 1)
        /\ \A i \in 1 .. Len(processed) : processed[i] <= done + 1
  BY <1>1, ProcessedFacts
<1>4. PICK e : e = Entered(d, o)
  OBVIOUS
<1>5. e \in Detector /\ e.processed = d.processed /\ e.terminated = d.terminated
  BY <1>1, <1>4, EnteredNew, EnteredOld
<1>6. PICK m : m = Marked(e, processed)
  OBVIOUS
<1>7. /\ m \in Detector /\ m.processed = processed
      /\ m.actions = e.actions /\ m.repeats = e.repeats /\ m.errors = e.errors
      /\ m.stagnant = e.stagnant /\ m.recoveries = e.recoveries /\ m.terminated = e.terminated
  BY <1>5, <1>6, MarkedFields
<1>8. Observe(d, done + 1, o) = IF Detects(m) THEN Recover(m) ELSE m
  <2>1. m = [Entered(d, o) EXCEPT !.processed = Bounded(@, done + 1)]
    BY <1>3, <1>4, <1>5, <1>6 DEF Marked
  <2> QED BY <1>2, <2>1 DEF Observe
<1>9. ProcessedUpTo(m, done + 1)
  BY <1>3, <1>7 DEF ProcessedUpTo
<1>10. CASE IsNew(d, o)
  <2>1. e.stagnant = 0 /\ e.recoveries = 0 /\ e.errors = 0 /\ e.repeats = 1 /\ Len(e.actions) <= 1
    BY <1>1, <1>4, <1>10, EnteredNew
  <2>2. ~Detects(m)
    BY <1>7, <2>1, OneIsNoDetection
  <2>3. 0 * Least = 0 /\ 0 * MaxStagnant = 0 /\ MaxStagnant >= 2 /\ MaxStagnant \in Nat /\ MaxRecovery \in Nat
    BY LeastFacts, PolicyFacts
  <2>4. Judged(m, 0)
    BY <1>5, <1>7, <2>1, <2>3 DEF Judged, WindowIsSound, WindowsCover
  <2> QED BY <1>8, <1>9, <1>10, <2>2, <2>4
<1>11. CASE ~IsNew(d, o)
  <2>1. /\ e.stagnant = d.stagnant + 1 /\ e.recoveries = d.recoveries
        /\ e.errors \in {0, 1, d.errors + 1} /\ e.repeats \in {1, d.repeats + 1}
        /\ Len(e.actions) <= Len(d.actions) + 1
    BY <1>1, <1>4, <1>11, EnteredOld
  <2>2. /\ d.stagnant \in Nat /\ d.errors \in Nat /\ d.repeats \in Nat /\ d.recoveries \in Nat
        /\ Len(d.actions) \in Nat /\ Len(e.actions) \in Nat
    BY <1>1, <1>5, LenProperties DEF Detector
  <2>8. /\ m.stagnant = d.stagnant + 1 /\ m.recoveries = d.recoveries
        /\ m.errors \in {0, 1, d.errors + 1} /\ m.repeats \in {1, d.repeats + 1}
        /\ Len(m.actions) <= Len(d.actions) + 1 /\ Len(m.actions) \in Nat /\ ~m.terminated
    BY <1>5, <1>7, <2>1, <2>2
  <2>9. /\ d.errors <= d.stagnant /\ d.repeats <= d.stagnant + 1 /\ Len(d.actions) <= d.stagnant + 1
        /\ d.stagnant <= n /\ d.recoveries <= MaxRecovery
        /\ d.recoveries * Least + d.stagnant <= n
        /\ d.stagnant < MaxStagnant /\ n <= d.recoveries * MaxStagnant + d.stagnant
    BY DEF Judged, WindowIsSound, WindowsCover
  <2>3. WindowIsSound(m)
    <3>1. m.errors <= m.stagnant /\ m.repeats <= m.stagnant + 1
      BY <2>2, <2>8, <2>9
    <3>2. Len(m.actions) <= m.stagnant + 1
      BY <2>2, <2>8, <2>9
    <3> QED BY <3>1, <3>2 DEF WindowIsSound
  <2>4. /\ d.recoveries * Least \in Nat /\ d.recoveries * MaxStagnant \in Nat
        /\ MaxStagnant \in Nat
    BY <2>2, LeastFacts, PolicyFacts
  <2>5. Prolongs(m, n + 1)
    <3>1. m.recoveries * Least = d.recoveries * Least /\ m.recoveries * MaxStagnant = d.recoveries * MaxStagnant
      BY <2>8
    <3>2. m.stagnant <= n + 1 /\ m.stagnant <= MaxStagnant /\ m.recoveries <= MaxRecovery
      BY <2>2, <2>4, <2>8, <2>9
    <3>3. /\ m.recoveries * Least + m.stagnant <= n + 1
          /\ n + 1 <= m.recoveries * MaxStagnant + m.stagnant
      <4>1. PICK a \in Nat, b \in Nat :
              a = d.recoveries * Least /\ b = d.recoveries * MaxStagnant
        BY <2>4
      <4>2. m.recoveries * Least = a /\ m.recoveries * MaxStagnant = b
        BY <3>1, <4>1
      <4>3. a + d.stagnant <= n /\ n <= b + d.stagnant
        BY <2>9, <4>1
      <4>4. a + m.stagnant <= n + 1 /\ n + 1 <= b + m.stagnant
        <5>1. d.stagnant \in Nat /\ m.stagnant = d.stagnant + 1
          BY <2>2, <2>8
        <5> QED BY <4>3, <5>1
      <4> QED BY <4>2, <4>4
    <3> QED BY <2>3, <2>8, <3>2, <3>3 DEF Prolongs
  <2>6. CASE Detects(m)
    <3>2. n + 1 \in Nat
      OBVIOUS
    <3>1. Judged(Recover(m), n + 1) /\ Recover(m).processed = m.processed
      BY <1>7, <2>5, <2>6, <3>2, RecoverJudges
    <3> QED BY <1>8, <1>9, <1>11, <2>6, <3>1 DEF ProcessedUpTo
  <2>7. CASE ~Detects(m)
    <3>1. m.stagnant < MaxStagnant
      BY <2>2, <2>4, <2>7, <2>8 DEF Detects
    <3>2. Judged(m, n + 1)
      BY <1>7, <2>3, <2>5, <3>1 DEF Judged, WindowsCover, Prolongs
    <3> QED BY <1>8, <1>9, <1>11, <2>7, <3>2
  <2> QED BY <2>6, <2>7
<1> QED BY <1>10, <1>11

\* A signal that is delivered is no matter of the detectors.
Delivered(d) == [d EXCEPT !.signal = FALSE]

\* ... whatever the windows are.
LEMMA DeliveredJudged ==
    ASSUME NEW d, NEW n, NEW k, Judged(d, n), ProcessedUpTo(d, k)
    PROVE  Judged(Delivered(d), n) /\ ProcessedUpTo(Delivered(d), k)
<1>1. /\ Delivered(d) \in Detector /\ Delivered(d).processed = d.processed
      /\ Delivered(d).actions = d.actions /\ Delivered(d).repeats = d.repeats
      /\ Delivered(d).errors = d.errors /\ Delivered(d).stagnant = d.stagnant
      /\ Delivered(d).recoveries = d.recoveries /\ Delivered(d).terminated = d.terminated
  BY DEF Judged, Detector, Delivered
<1> QED BY <1>1 DEF Judged, WindowIsSound, WindowsCover, ProcessedUpTo

\* ProgressInv is inductive: a loss takes the process back to what was saved, and an
\* operation that a reconciliation sees again is among the processed ones.
LEMMA ProgressStep == ProgressInv /\ [ProgressNext]_progressVars => ProgressInv'
<1> SUFFICES ASSUME ProgressInv, [ProgressNext]_progressVars PROVE ProgressInv'
  OBVIOUS
<1>1. /\ idle \in Nat /\ current.done \in Nat /\ current.observed \in BOOLEAN /\ current.new \in BOOLEAN
      /\ IdleThen \in Nat
  BY DEF ProgressInv, IdleThen
<1>2. CASE AskModel
  <2>1. /\ working' = Delivered(working) /\ saved' = working' /\ UNCHANGED <<current, idle>>
        /\ ~current.observed /\ working = saved
    BY <1>2 DEF AskModel, Delivered, ProgressInv
  <2>2. Judged(working', idle) /\ ProcessedUpTo(working', current.done)
    BY <2>1, DeliveredJudged DEF ProgressInv
  <2>3. IdleThen' = idle
    BY <2>1 DEF IdleThen
  <2> QED BY <1>1, <2>1, <2>2, <2>3 DEF ProgressInv
<1>3. CASE ObserveOperation
  <2>1. PICK o \in Observation :
        /\ working' = Observe(working, current.done + 1, o)
        /\ current' = [current EXCEPT !.observed = TRUE, !.new = IsNew(working, o)]
    BY <1>3 DEF ObserveOperation
  <2>2. /\ UNCHANGED <<saved, idle>> /\ ~current.observed /\ ~saved.terminated /\ working = saved
    BY <1>3 DEF ObserveOperation, Active, ProgressInv
  <2>3. /\ current' \in [done : Nat, observed : BOOLEAN, new : BOOLEAN]
        /\ current'.observed = TRUE /\ current'.done = current.done
        /\ current'.new = IsNew(working, o)
    BY <2>1 DEF ProgressInv, IsNew
  <2>4. IdleThen' = IF IsNew(working, o) THEN 0 ELSE idle + 1
    BY <2>2, <2>3 DEF IdleThen
  <2>5. /\ Judged(working', IF IsNew(working, o) THEN 0 ELSE idle + 1)
        /\ ProcessedUpTo(working', current.done + 1)
    BY <1>1, <2>1, <2>2, ObserveJudges DEF ProgressInv
  <2> QED BY <1>1, <2>2, <2>3, <2>4, <2>5 DEF ProgressInv
<1>4. CASE ObserveAgain
  <2>1. PICK o \in Observation : working' = Observe(saved, saved.processed[Len(saved.processed)], o)
    BY <1>4 DEF ObserveAgain
  <2>2. /\ saved' = working' /\ UNCHANGED <<current, idle>> /\ ~current.observed /\ working = saved
        /\ saved.processed # <<>>
    BY <1>4 DEF ObserveAgain, ProgressInv
  <2>3. Processed(saved, saved.processed[Len(saved.processed)])
    <3>1. saved.processed \in Seq(Nat)
      BY DEF ProgressInv, Judged, Detector
    <3>2. Len(saved.processed) \in 1 .. Len(saved.processed)
      BY <2>2, <3>1, EmptySeq
    <3> QED BY <3>2 DEF Processed, InSeq
  <2>4. working' = saved
    BY <2>1, <2>3 DEF Observe
  <2> QED BY <1>1, <2>2, <2>4 DEF ProgressInv, IdleThen
<1>5. CASE SaveObservation
  <2>1. /\ current.observed /\ saved' = working /\ working' = working
        /\ idle' = IdleThen /\ current' = [done |-> current.done + 1, observed |-> FALSE, new |-> FALSE]
    BY <1>5 DEF SaveObservation, IdleThen
  <2>2. IdleThen' = idle'
    BY <2>1 DEF IdleThen
  <2> QED BY <1>1, <2>1, <2>2 DEF ProgressInv
<1>6. CASE LoseObservation
  <2>1. PICK skipped \in {0, 1} :
          current' = [done |-> current.done + skipped, observed |-> FALSE, new |-> FALSE]
    BY <1>6 DEF LoseObservation
  <2>2. working' = saved /\ UNCHANGED <<saved, idle>>
    BY <1>6 DEF LoseObservation
  <2>3. /\ current'.done \in Nat /\ current.done <= current'.done /\ ~current'.observed
        /\ current' \in [done : Nat, observed : BOOLEAN, new : BOOLEAN]
    BY <1>1, <2>1
  <2>4. ProcessedUpTo(saved, current'.done)
    <3>1. \A i \in 1 .. Len(saved.processed) :
             saved.processed[i] \in Nat /\ saved.processed[i] <= current.done
      BY ElementOfSeq DEF ProgressInv, ProcessedUpTo, Judged, Detector
    <3> QED BY <1>1, <2>3, <3>1 DEF ProcessedUpTo
  <2>5. IdleThen' = idle
    BY <2>2, <2>3 DEF IdleThen
  <2> QED BY <2>2, <2>3, <2>4, <2>5 DEF ProgressInv
<1>7. CASE UNCHANGED progressVars
  BY <1>7 DEF progressVars, ProgressInv, IdleThen
<1> QED BY <1>2, <1>3, <1>4, <1>5, <1>6, <1>7 DEF ProgressNext

\* The detector starts without operations.
LEMMA ProgressInitially == ProgressInit => ProgressInv
<1> SUFFICES ASSUME ProgressInit PROVE ProgressInv
  OBVIOUS
<1>1. /\ <<>> \in Seq(Action) /\ <<>> \in Seq(Evidence \cup {"none"}) /\ <<>> \in Seq(Nat)
      /\ Len(<<>>) = 0
  BY EmptySeq
<1>2. Fresh \in Detector
  BY <1>1 DEF Fresh, Detector
<1>3. /\ Fresh.stagnant = 0 /\ Fresh.errors = 0 /\ Fresh.repeats = 0 /\ Len(Fresh.actions) = 0
      /\ Fresh.recoveries = 0 /\ ~Fresh.terminated /\ Len(Fresh.processed) = 0
  BY <1>1 DEF Fresh
<1>4. /\ 0 * Least = 0 /\ 0 * MaxStagnant = 0 /\ MaxStagnant >= 2 /\ MaxStagnant \in Nat
      /\ MaxRecovery \in Nat
  BY LeastFacts, PolicyFacts
<1>5. Judged(Fresh, 0)
  BY <1>2, <1>3, <1>4 DEF Judged, WindowIsSound, WindowsCover
<1>6. ProcessedUpTo(Fresh, 0)
  BY <1>3 DEF ProcessedUpTo
<1> QED BY <1>5, <1>6 DEF ProgressInit, ProgressInv, IdleThen

\* ProgressInv holds in every reachable state.
LEMMA ProgressInvariance == ProgressSpec => []ProgressInv
BY ProgressInitially, ProgressStep, PTL DEF ProgressSpec

\* Progress is judged rightly (ProgressIsJudgedRightly) under any policy the code accepts:
\* without new evidence a Run ends within (max_recovery_attempts + 1) * max_stagnant_steps
\* operations, and never sooner than the quickest detector allows in as many windows.
THEOREM ProgressIsJudged == ProgressSpec => []ProgressIsJudgedRightly
<1>1. ProgressInv => ProgressIsJudgedRightly
  <2> SUFFICES ASSUME ProgressInv PROVE ProgressIsJudgedRightly
    OBVIOUS
  <2>1. /\ idle \in Nat /\ saved.recoveries \in Nat /\ saved.stagnant \in Nat
        /\ saved.terminated \in BOOLEAN /\ WindowsCover(saved, idle)
    BY DEF ProgressInv, Judged, Detector
  <2>2. IdleIsBounded
    <3>1. /\ MaxStagnant \in Nat /\ MaxRecovery \in Nat
          /\ (MaxRecovery + 1) * MaxStagnant = MaxRecovery * MaxStagnant + MaxStagnant
          /\ MaxStagnant * (MaxRecovery + 1) = (MaxRecovery + 1) * MaxStagnant
          /\ MaxRecovery * MaxStagnant \in Nat
      BY PolicyFacts
    <3>2. saved.recoveries * MaxStagnant <= MaxRecovery * MaxStagnant /\ saved.recoveries * MaxStagnant \in Nat
      BY <2>1, <3>1, Multiples DEF WindowsCover
    <3>3. idle <= (MaxRecovery + 1) * MaxStagnant
      BY <2>1, <3>1, <3>2 DEF WindowsCover
    <3> QED BY <3>1, <3>3 DEF IdleIsBounded
  <2>3. StagnationIsReal
    BY <2>1 DEF WindowsCover, StagnationIsReal
  <2>4. StoppedOnlyWhenIdle
    <3>1. saved.terminated => idle >= Least * (MaxRecovery + 1)
      BY <2>1, LeastFacts, PolicyFacts DEF WindowsCover
    <3> QED BY <3>1, LeastFacts DEF StoppedOnlyWhenIdle, Quick
  <2> QED BY <2>2, <2>3, <2>4 DEF ProgressIsJudgedRightly
<1> QED BY <1>1, ProgressInvariance, PTL

(***************************************************************************)
(* CodeIndex.  A row is of a content the file has or had, its hash never   *)
(* ahead of its text; the file that is read, and those an update has passed,*)
(* are as on disk unless they were edited since it began.                  *)
(***************************************************************************)

FileOrNone == CodeFile \cup {NoFile}

FileContent == [version : Nat, defines : BOOLEAN, calls : FileOrNone]

IndexRow == [hash : Nat, text : Nat, symbols : BOOLEAN, defines : BOOLEAN, calls : FileOrNone,
             target : FileOrNone, status : {"none", "unresolved", "resolved", "ambiguous"}]

Update == [at : {"closed", "idle", "scan", "resolve", "embed"}, scope : SUBSET CodeFile,
           scanned : SUBSET CodeFile, todo : SUBSET CodeFile, reading : FileOrNone, hash : Nat,
           force : BOOLEAN, edited : SUBSET CodeFile, complete : BOOLEAN]

IndexTypeOK ==
    /\ disk \in [CodeFile -> FileContent]
    /\ indexed \in [CodeFile -> IndexRow]
    /\ vectors \in [CodeFile -> Nat]
    /\ update \in Update
    /\ upToDate \in SUBSET CodeFile
    /\ edits \in Nat

\* The row of a file is of a content it has or had, and its hash is no newer than its text:
\* a row whose hash is that of the file has its text, too.
RowIsOfThePast(f) ==
    /\ indexed[f].hash <= indexed[f].text /\ indexed[f].text <= edits + 1
    /\ disk[f].version <= edits + 1
    /\ disk[f].version # 0 => indexed[f].text <= disk[f].version

\* The index has the file as it is on disk.
IsCurrent(f) ==
    IF disk[f].version = 0 THEN indexed[f].hash = 0
    ELSE indexed[f].hash = disk[f].version /\ indexed[f].text = disk[f].version

\* The file that is read: it had the content of the hash, and still has unless it was edited.
ReadingIsSound ==
    update.reading # NoFile =>
        /\ update.at = "scan" /\ update.reading \in update.scanned \ update.todo
        /\ update.hash # 0 /\ update.hash <= edits + 1
        /\ disk[update.reading].version # 0 => update.hash <= disk[update.reading].version
        /\ update.reading \notin update.edited => update.hash = disk[update.reading].version

\* What the update in progress has done for the files nobody edits meanwhile.
ScanIsSound ==
    update.at = "scan" =>
        /\ update.todo \subseteq update.scanned /\ update.scanned \subseteq update.scope
        /\ \A f \in update.scope \ update.edited :
              /\ f \in update.scanned <=> disk[f].version # 0
              /\ f \in update.scanned \ update.todo /\ f # update.reading => IsCurrent(f)

UpdateIsSound ==
    /\ update.at = "closed" => upToDate = {} /\ ~update.complete
    /\ update.at \in {"resolve", "embed"} => \A f \in update.scope \ update.edited : IsCurrent(f)
    /\ update.at \in {"scan", "resolve", "embed"} => upToDate \cap update.edited = {}

ExactEdges == {e \in References \X Definitions :
                    \/ e[2] = e[1]
                    \/ e[1] \notin Definitions /\ e[2] = indexed[e[1]].calls}

GraphIsKept == update.at = "embed" \/ (update.at = "idle" /\ update.complete) => edges = ExactEdges

IndexInv ==
    /\ IndexTypeOK
    /\ \A f \in CodeFile : RowIsOfThePast(f)
    /\ ReadingIsSound
    /\ ScanIsSound
    /\ UpdateIsSound
    /\ \A f \in upToDate : IsCurrent(f)
    /\ GraphIsKept
    /\ VectorsMatchTheText

\* The files a caller may name are files.
LEMMA IndexConstants == Caller \in CodeFile /\ Library \in CodeFile /\ NoFile \notin CodeFile
BY CodeIndexAssumption

\* The graph is a matter of the rows alone.
LEMMA GraphOfRows == ASSUME UNCHANGED indexed PROVE ExactEdges' = ExactEdges
BY DEF ExactEdges, References, Definitions, Stored

\* Nothing was updated yet when the database is opened.
LEMMA OpenStoreKeeps == ASSUME IndexInv, OpenStore PROVE IndexInv'
<1>1. PICK migrated \in OldIndexes :
        indexed' = [f \in CodeFile |-> IF f \in migrated THEN Migrated ELSE NotIndexed]
  BY DEF OpenStore
<1>2. /\ Migrated \in IndexRow /\ Migrated.hash = 1 /\ Migrated.text = 1
      /\ NotIndexed \in IndexRow /\ NotIndexed.hash = 0 /\ NotIndexed.text = 0
  BY DEF Migrated, NotIndexed, IndexRow, FileOrNone
<1>3. /\ indexed' \in [CodeFile -> IndexRow]
      /\ \A f \in CodeFile : /\ indexed'[f].hash = indexed'[f].text
                             /\ indexed'[f].text \in {0, 1}
  BY <1>1, <1>2
<1>4. /\ vectors' \in [CodeFile -> Nat]
      /\ \A f \in CodeFile : vectors'[f] = indexed'[f].text
  BY <1>3 DEF OpenStore
<1>5. /\ update' \in Update /\ update'.at = "idle" /\ update'.reading = NoFile
      /\ update'.complete = update.complete
  BY DEF OpenStore, IndexInv, IndexTypeOK, Update, ReadingIsSound
<1>6. upToDate = {} /\ UNCHANGED <<disk, edges, upToDate, edits>>
  BY DEF OpenStore, IndexInv, UpdateIsSound
<1>7. IndexTypeOK'
  BY <1>3, <1>4, <1>5, <1>6 DEF IndexInv, IndexTypeOK
<1>8. \A f \in CodeFile : RowIsOfThePast(f)'
  <2> SUFFICES ASSUME NEW f \in CodeFile PROVE RowIsOfThePast(f)'
    OBVIOUS
  <2>1. disk[f].version \in Nat /\ disk[f].version <= edits + 1 /\ edits \in Nat
    BY DEF IndexInv, IndexTypeOK, FileContent, RowIsOfThePast
  <2> QED BY <1>3, <1>6, <2>1 DEF RowIsOfThePast
<1>9. ReadingIsSound' /\ ScanIsSound' /\ UpdateIsSound'
  BY <1>5 DEF ReadingIsSound, ScanIsSound, UpdateIsSound
<1>10. VectorsMatchTheText'
  BY <1>3, <1>4 DEF VectorsMatchTheText, Stored
<1>11. GraphIsKept'
  BY <1>5, <1>6 DEF GraphIsKept, IndexInv, UpdateIsSound, OpenStore
<1> QED BY <1>6, <1>7, <1>8, <1>9, <1>10, <1>11 DEF IndexInv

\* A content that is written is new, and its file is no longer up to date.
LEMMA EditKeeps == ASSUME IndexInv, NEW f \in CodeFile, EditFile(f) PROVE IndexInv'
<1>1. PICK content \in {Missing} \cup {Content(edits + 2, shape) : shape \in Shape(f)} :
        disk' = [disk EXCEPT ![f] = content]
  BY DEF EditFile
<1>2. content \in FileContent /\ content.version \in {0, edits + 2}
  <2>1. CASE content = Missing
    BY <2>1 DEF Missing, FileContent, FileOrNone
  <2>2. ASSUME NEW shape \in Shape(f), content = Content(edits + 2, shape)
        PROVE  content \in FileContent /\ content.version = edits + 2
    <3>1. shape.defines \in BOOLEAN /\ shape.calls \in FileOrNone
      BY <2>2, IndexConstants DEF Shape, FileOrNone
    <3>2. edits + 2 \in Nat
      BY DEF IndexInv, IndexTypeOK
    <3> QED BY <2>2, <3>1, <3>2 DEF Content, FileContent
  <2> QED BY <1>1, <2>1, <2>2 DEF Missing
<1>3. /\ disk' \in [CodeFile -> FileContent] /\ disk'[f].version \in {0, edits + 2}
      /\ \A g \in CodeFile : g # f => disk'[g] = disk[g]
  BY <1>1, <1>2 DEF IndexInv, IndexTypeOK
<1>4. edits \in Nat /\ edits' = edits + 1
  BY DEF EditFile, IndexInv, IndexTypeOK
<1>5. /\ update' \in Update /\ update'.at = update.at /\ update'.reading = update.reading
      /\ update'.scope = update.scope /\ update'.scanned = update.scanned /\ update'.todo = update.todo
      /\ update'.hash = update.hash /\ update'.complete = update.complete
      /\ update.at # "idle" => update'.edited = update.edited \cup {f}
  BY DEF EditFile, IndexInv, IndexTypeOK, Update
<1>6. /\ upToDate' = upToDate \ {f} /\ update.at # "closed"
      /\ UNCHANGED <<indexed, edges, vectors>>
  BY DEF EditFile
<1>7. IndexTypeOK'
  BY <1>3, <1>4, <1>5, <1>6 DEF IndexInv, IndexTypeOK
<1>8. \A g \in CodeFile : RowIsOfThePast(g)'
  <2> SUFFICES ASSUME NEW g \in CodeFile PROVE RowIsOfThePast(g)'
    OBVIOUS
  <2>1. RowIsOfThePast(g) /\ disk[g].version \in Nat /\ indexed[g].text \in Nat /\ indexed[g].hash \in Nat
    BY DEF IndexInv, IndexTypeOK, FileContent, IndexRow
  <2>2. CASE g = f
    BY <1>3, <1>4, <1>6, <2>1, <2>2 DEF RowIsOfThePast
  <2>3. CASE g # f
    BY <1>3, <1>4, <1>6, <2>1, <2>3 DEF RowIsOfThePast
  <2> QED BY <2>2, <2>3
<1>9. \A g \in CodeFile : g # f /\ IsCurrent(g) => IsCurrent(g)'
  BY <1>3, <1>6 DEF IsCurrent
<1>10. ReadingIsSound'
  <2> SUFFICES ASSUME update.reading # NoFile PROVE ReadingIsSound'
    BY <1>5 DEF ReadingIsSound
  <2>1. /\ update.at = "scan" /\ update.reading \in update.scanned \ update.todo
        /\ update.hash # 0 /\ update.hash <= edits + 1 /\ update.hash \in Nat
        /\ disk[update.reading].version # 0 => update.hash <= disk[update.reading].version
        /\ update.reading \notin update.edited => update.hash = disk[update.reading].version
        /\ update.reading \in CodeFile
    BY DEF IndexInv, ReadingIsSound, IndexTypeOK, Update
  <2>2. CASE update.reading = f
    BY <1>3, <1>4, <1>5, <2>1, <2>2 DEF ReadingIsSound
  <2>3. CASE update.reading # f
    BY <1>3, <1>4, <1>5, <2>1, <2>3 DEF ReadingIsSound
  <2> QED BY <2>2, <2>3
<1>11. ScanIsSound'
  BY <1>3, <1>5, <1>9 DEF IndexInv, ScanIsSound, IndexTypeOK, Update
<1>12. UpdateIsSound'
  BY <1>5, <1>6, <1>9 DEF IndexInv, UpdateIsSound, IndexTypeOK, Update
<1>13. \A g \in upToDate' : IsCurrent(g)'
  BY <1>6, <1>9 DEF IndexInv, IndexTypeOK
<1>14. GraphIsKept' /\ VectorsMatchTheText'
  BY <1>5, <1>6, GraphOfRows DEF IndexInv, GraphIsKept, VectorsMatchTheText, Stored
<1> QED BY <1>7, <1>8, <1>10, <1>11, <1>12, <1>13, <1>14 DEF IndexInv

\* What a step that leaves the files and their edits alone has to show.
LEMMA FilesStay ==
    ASSUME IndexInv, UNCHANGED <<disk, edits, indexed>>
    PROVE  /\ \A f \in CodeFile : RowIsOfThePast(f)' /\ IsCurrent(f)' = IsCurrent(f)
           /\ ExactEdges' = ExactEdges
           /\ UNCHANGED vectors => VectorsMatchTheText'
BY GraphOfRows DEF IndexInv, RowIsOfThePast, IsCurrent, VectorsMatchTheText, Stored

\* An update begins with nothing scanned, resolved or embedded.
LEMMA BeginUpdateKeeps == ASSUME IndexInv, BeginUpdate PROVE IndexInv'
<1>1. PICK scope \in Scopes, force \in BOOLEAN :
        LET found == {f \in scope : disk[f].version # 0}
        IN update' = [Closed EXCEPT !.at = "scan", !.scope = scope, !.scanned = found,
                                    !.todo = found, !.force = force]
  BY DEF BeginUpdate
<1>2. /\ update' \in Update /\ update'.at = "scan" /\ update'.reading = NoFile
      /\ update'.scanned = {f \in scope : disk[f].version # 0} /\ update'.scope = scope
      /\ update'.todo = update'.scanned /\ update'.edited = {} /\ ~update'.complete
  BY <1>1, CodeIndexAssumption DEF Closed, Update, FileOrNone
<1>3. UNCHANGED <<disk, indexed, edges, vectors, upToDate, edits>>
  BY DEF BeginUpdate
<1>4. IndexTypeOK'
  BY <1>2, <1>3 DEF IndexInv, IndexTypeOK
<1>5. ReadingIsSound' /\ ScanIsSound' /\ UpdateIsSound' /\ GraphIsKept'
  BY <1>2, <1>3 DEF ReadingIsSound, ScanIsSound, UpdateIsSound, GraphIsKept
<1>6. \A f \in upToDate' : IsCurrent(f)'
  BY <1>3, FilesStay DEF IndexInv, IndexTypeOK
<1> QED BY <1>3, <1>4, <1>5, <1>6, FilesStay DEF IndexInv

\* A file that nobody edits is skipped only when its row is current.
LEMMA HashKeeps == ASSUME IndexInv, NEW f \in CodeFile, HashFile(f) PROVE IndexInv'
<1> DEFINE skipped == \/ disk[f].version = 0
                      \/ ~update.force /\ indexed[f].hash = disk[f].version
<1>1. /\ update' \in Update /\ update'.at = "scan" /\ update'.todo = update.todo \ {f}
      /\ update'.reading = (IF skipped THEN NoFile ELSE f)
      /\ update'.hash = (IF skipped THEN 0 ELSE disk[f].version)
      /\ update'.scope = update.scope /\ update'.scanned = update.scanned
      /\ update'.edited = update.edited /\ update'.complete = update.complete
  BY DEF HashFile, IndexInv, IndexTypeOK, Update, FileContent, FileOrNone
<1>2. /\ UNCHANGED <<disk, indexed, edges, vectors, upToDate, edits>>
      /\ update.at = "scan" /\ update.reading = NoFile /\ f \in update.todo
  BY DEF HashFile
<1>3. IndexTypeOK'
  BY <1>1, <1>2 DEF IndexInv, IndexTypeOK
<1>4. /\ RowIsOfThePast(f) /\ disk[f].version \in Nat /\ indexed[f].text \in Nat /\ indexed[f].hash \in Nat
      /\ edits \in Nat /\ update.todo \subseteq update.scanned /\ update.scanned \subseteq update.scope
      /\ \A g \in update.scope \ update.edited :
              /\ g \in update.scanned <=> disk[g].version # 0
              /\ g \in update.scanned \ update.todo /\ g # NoFile => IsCurrent(g)
  BY <1>2 DEF IndexInv, ScanIsSound, IndexTypeOK, FileContent, IndexRow
<1>5. ReadingIsSound'
  BY <1>1, <1>2, <1>4 DEF ReadingIsSound, RowIsOfThePast
<1>6. f \notin update.edited /\ skipped => IsCurrent(f)
  BY <1>2, <1>4 DEF RowIsOfThePast, IsCurrent
<1>7. ScanIsSound'
  <2> SUFFICES ASSUME NEW g \in update.scope \ update.edited
               PROVE  /\ g \in update.scanned <=> disk[g].version # 0
                      /\ g \in update.scanned \ update'.todo /\ g # update'.reading => IsCurrent(g)'
    BY <1>1, <1>2, <1>4 DEF ScanIsSound
  <2>1. g \in CodeFile /\ g # NoFile
    BY IndexConstants DEF IndexInv, IndexTypeOK, Update
  <2>2. CASE g = f
    BY <1>1, <1>2, <1>4, <1>6, <2>2, FilesStay
  <2>3. CASE g # f
    BY <1>1, <1>2, <1>4, <2>1, <2>3, FilesStay
  <2> QED BY <2>2, <2>3
<1>8. UpdateIsSound' /\ GraphIsKept'
  BY <1>1, <1>2 DEF IndexInv, UpdateIsSound, GraphIsKept
<1>9. \A g \in upToDate' : IsCurrent(g)'
  BY <1>2, FilesStay DEF IndexInv, IndexTypeOK
<1> QED BY <1>2, <1>3, <1>5, <1>7, <1>8, <1>9, FilesStay DEF IndexInv

\* A stop forgets the update and nothing else.
LEMMA StopIndexerKeeps == ASSUME IndexInv, StopIndexer PROVE IndexInv'
<1>1. /\ update' \in Update /\ update'.at = "idle" /\ update'.reading = NoFile /\ ~update'.complete
  BY DEF StopIndexer, Closed, Update, FileOrNone
<1>2. UNCHANGED <<disk, indexed, edges, vectors, upToDate, edits>>
  BY DEF StopIndexer
<1>3. IndexTypeOK'
  BY <1>1, <1>2 DEF IndexInv, IndexTypeOK
<1>4. ReadingIsSound' /\ ScanIsSound' /\ UpdateIsSound' /\ GraphIsKept'
  BY <1>1 DEF ReadingIsSound, ScanIsSound, UpdateIsSound, GraphIsKept
<1>5. \A f \in upToDate' : IsCurrent(f)'
  BY <1>2, FilesStay DEF IndexInv, IndexTypeOK
<1> QED BY <1>2, <1>3, <1>4, <1>5, FilesStay DEF IndexInv

\* Whatever the provider does, the rows and the graph stay, and the files of the scope that
\* nobody edited since the update began are up to date.
LEMMA SyncKeeps == ASSUME IndexInv, SyncEmbeddings PROVE IndexInv'
<1>1. /\ update' \in Update /\ update'.at = "idle" /\ update'.reading = NoFile
  BY DEF SyncEmbeddings, Closed, Update, FileOrNone
<1>2. UNCHANGED <<disk, indexed, edges, edits>> /\ update.at = "embed"
  BY DEF SyncEmbeddings
<1>3. PICK embedded \in {{}, Pending} :
        vectors' = [f \in CodeFile |-> IF f \in embedded THEN indexed[f].text ELSE vectors[f]]
  BY DEF SyncEmbeddings
<1>4. upToDate' = upToDate \cup (update.scope \ update.edited)
  BY DEF SyncEmbeddings
<1>5. vectors' \in [CodeFile -> Nat]
  BY <1>3 DEF IndexInv, IndexTypeOK, IndexRow
<1>6. IndexTypeOK'
  BY <1>1, <1>2, <1>4, <1>5 DEF IndexInv, IndexTypeOK, Update
<1>7. ReadingIsSound' /\ ScanIsSound' /\ UpdateIsSound' /\ GraphIsKept'
  BY <1>1, <1>2, FilesStay DEF IndexInv, ReadingIsSound, ScanIsSound, UpdateIsSound, GraphIsKept
<1>8. \A f \in upToDate' : IsCurrent(f)'
  BY <1>2, <1>4, <1>6, FilesStay DEF IndexInv, IndexTypeOK, UpdateIsSound
<1>9. VectorsMatchTheText'
  BY <1>2, <1>3 DEF IndexInv, VectorsMatchTheText, Pending, Stored
<1> QED BY <1>2, <1>6, <1>7, <1>8, <1>9, FilesStay DEF IndexInv

\* The text that is stored was read after the hash was made, and is of the same content
\* unless the file was edited in between.
LEMMA ReplaceKeeps == ASSUME IndexInv, NEW f \in CodeFile, ReplaceFile(f) PROVE IndexInv'
<1>1. /\ update' \in Update /\ update'.at = "scan" /\ update'.todo = update.todo
      /\ update'.reading = NoFile
      /\ update'.scope = update.scope /\ update'.scanned = update.scanned
      /\ update'.edited = update.edited /\ update'.complete = update.complete
  BY DEF ReplaceFile, IndexInv, IndexTypeOK, Update, FileOrNone
<1>2. /\ UNCHANGED <<disk, upToDate, edits>> /\ update.at = "scan" /\ update.reading = f
      /\ f # NoFile
  BY IndexConstants DEF ReplaceFile
<1>3. /\ f \in update.scanned \ update.todo /\ update.hash # 0 /\ update.hash \in Nat
      /\ disk[f].version # 0 => update.hash <= disk[f].version
      /\ f \notin update.edited => update.hash = disk[f].version
      /\ disk[f] \in FileContent
  BY <1>2 DEF IndexInv, ReadingIsSound, IndexTypeOK, Update
<1>4. /\ RowOf(f) \in IndexRow /\ RowOf(f).hash = update.hash /\ RowOf(f).text = disk[f].version
  BY <1>3 DEF RowOf, IndexRow, FileContent, FileOrNone
<1>5. /\ indexed' \in [CodeFile -> IndexRow] /\ vectors' \in [CodeFile -> Nat]
      /\ \A g \in CodeFile : g # f => indexed'[g] = indexed[g] /\ vectors'[g] = vectors[g]
      /\ disk[f].version # 0 => /\ indexed'[f].hash = update.hash
                                /\ indexed'[f].text = disk[f].version
                                /\ vectors'[f] = 0
      /\ disk[f].version = 0 => UNCHANGED <<indexed, vectors>>
  BY <1>4 DEF ReplaceFile, IndexInv, IndexTypeOK
<1>6. IndexTypeOK'
  BY <1>1, <1>2, <1>5 DEF IndexInv, IndexTypeOK
<1>7. \A g \in CodeFile : RowIsOfThePast(g)'
  <2> SUFFICES ASSUME NEW g \in CodeFile PROVE RowIsOfThePast(g)'
    OBVIOUS
  <2>1. RowIsOfThePast(g) /\ disk[g].version \in Nat /\ edits \in Nat
    BY DEF IndexInv, IndexTypeOK, FileContent
  <2>2. CASE g # f \/ disk[f].version = 0
    BY <1>2, <1>5, <2>1, <2>2 DEF RowIsOfThePast
  <2>3. CASE g = f /\ disk[f].version # 0
    BY <1>2, <1>3, <1>5, <2>1, <2>3 DEF RowIsOfThePast
  <2> QED BY <2>2, <2>3
<1>8. \A g \in CodeFile : g # f /\ IsCurrent(g) => IsCurrent(g)'
  BY <1>2, <1>5 DEF IsCurrent
<1>9. f \in update.scope \ update.edited => disk[f].version # 0 /\ IsCurrent(f)'
  BY <1>2, <1>3, <1>5 DEF IndexInv, ScanIsSound, IsCurrent
<1>10. ScanIsSound'
  <2>1. /\ update.todo \subseteq update.scanned /\ update.scanned \subseteq update.scope
        /\ \A g \in update.scope \ update.edited :
              /\ g \in update.scanned <=> disk[g].version # 0
              /\ g \in update.scanned \ update.todo /\ g # f => IsCurrent(g)
    BY <1>2 DEF IndexInv, ScanIsSound
  <2>2. update.scope \subseteq CodeFile
    BY DEF IndexInv, IndexTypeOK, Update
  <2> QED BY <1>1, <1>2, <1>8, <1>9, <2>1, <2>2 DEF ScanIsSound
<1>11. upToDate \cap update.edited = {} /\ f \in update.scope
  BY <1>2, <1>3 DEF IndexInv, UpdateIsSound, ScanIsSound
<1>12. \A g \in upToDate' : IsCurrent(g)'
  BY <1>2, <1>8, <1>9, <1>11 DEF IndexInv, IndexTypeOK
<1>13. ReadingIsSound' /\ UpdateIsSound' /\ GraphIsKept'
  BY <1>1, <1>2, <1>11 DEF ReadingIsSound, UpdateIsSound, GraphIsKept
<1>14. VectorsMatchTheText'
  BY <1>5 DEF IndexInv, VectorsMatchTheText, Stored
<1> QED BY <1>6, <1>7, <1>10, <1>12, <1>13, <1>14 DEF IndexInv

\* A file the scan did not find is no longer there, unless it was edited since.
LEMMA RemoveKeeps == ASSUME IndexInv, RemoveMissingFiles PROVE IndexInv'
<1>1. /\ update' \in Update /\ update'.at = "resolve" /\ update'.reading = NoFile
      /\ update'.scope = update.scope /\ update'.edited = update.edited
      /\ update'.complete = update.complete
  BY DEF RemoveMissingFiles, IndexInv, IndexTypeOK, Update, FileOrNone
<1>2. /\ UNCHANGED <<disk, upToDate, edits>> /\ update.at = "scan" /\ update.reading = NoFile
      /\ update.todo = {}
  BY DEF RemoveMissingFiles
<1>3. NotIndexed \in IndexRow /\ NotIndexed.hash = 0 /\ NotIndexed.text = 0
  BY DEF NotIndexed, IndexRow, FileOrNone
<1>4. /\ indexed' \in [CodeFile -> IndexRow] /\ vectors' \in [CodeFile -> Nat]
      /\ \A g \in CodeFile \ MissingFiles : indexed'[g] = indexed[g] /\ vectors'[g] = vectors[g]
      /\ \A g \in MissingFiles : /\ g \in CodeFile
                                 /\ indexed'[g].hash = 0 /\ indexed'[g].text = 0 /\ vectors'[g] = 0
  BY <1>3 DEF RemoveMissingFiles, IndexInv, IndexTypeOK, MissingFiles, Stored
<1>5. IndexTypeOK'
  BY <1>1, <1>2, <1>4 DEF IndexInv, IndexTypeOK
<1>6. \A g \in CodeFile : RowIsOfThePast(g)'
  <2> SUFFICES ASSUME NEW g \in CodeFile PROVE RowIsOfThePast(g)'
    OBVIOUS
  <2>1. RowIsOfThePast(g) /\ disk[g].version \in Nat /\ edits \in Nat
    BY DEF IndexInv, IndexTypeOK, FileContent
  <2>2. CASE g \notin MissingFiles
    BY <1>2, <1>4, <2>1, <2>2 DEF RowIsOfThePast
  <2>3. CASE g \in MissingFiles
    BY <1>2, <1>4, <2>1, <2>3 DEF RowIsOfThePast
  <2> QED BY <2>2, <2>3
<1>7. /\ update.scope \subseteq CodeFile /\ upToDate \subseteq CodeFile
      /\ upToDate \cap update.edited = {}
      /\ \A g \in update.scope \ update.edited :
            /\ g \in update.scanned <=> disk[g].version # 0
            /\ g \in update.scanned => IsCurrent(g)
  BY <1>2, IndexConstants DEF IndexInv, IndexTypeOK, Update, ScanIsSound, UpdateIsSound
<1>8. \A g \in CodeFile \ MissingFiles : IsCurrent(g) => IsCurrent(g)'
  BY <1>2, <1>4 DEF IsCurrent
<1>9. \A g \in MissingFiles \ update.edited : IsCurrent(g)'
  BY <1>2, <1>4, <1>7 DEF IsCurrent, MissingFiles
<1>10. \A g \in update.scope \ update.edited : g \notin update.scanned /\ g \notin MissingFiles => IsCurrent(g)
  BY <1>7 DEF IsCurrent, MissingFiles, Stored
<1>11. \A g \in update.scope \ update.edited : IsCurrent(g)'
  BY <1>7, <1>8, <1>9, <1>10
<1>12. \A g \in upToDate' : IsCurrent(g)'
  BY <1>2, <1>7, <1>8, <1>9 DEF IndexInv
<1>13. ReadingIsSound' /\ ScanIsSound' /\ UpdateIsSound' /\ GraphIsKept'
  BY <1>1, <1>2, <1>7, <1>11 DEF ReadingIsSound, ScanIsSound, UpdateIsSound, GraphIsKept
<1>14. VectorsMatchTheText'
  BY <1>4 DEF IndexInv, VectorsMatchTheText, Stored
<1> QED BY <1>5, <1>6, <1>12, <1>13, <1>14 DEF IndexInv

\* A row that is resolved.
WithTarget(x, d) == [x EXCEPT !.status = "resolved", !.target = d]

\* A row that is resolved differs in its target and status only.
LEMMA RowFields ==
    ASSUME NEW x \in IndexRow, NEW d \in FileOrNone
    PROVE  /\ WithTarget(x, d) \in IndexRow
           /\ WithTarget(x, d).hash = x.hash /\ WithTarget(x, d).text = x.text
           /\ WithTarget(x, d).symbols = x.symbols /\ WithTarget(x, d).defines = x.defines
           /\ WithTarget(x, d).calls = x.calls
           /\ WithTarget(x, d).status = "resolved" /\ WithTarget(x, d).target = d
BY DEF IndexRow, WithTarget

\* A reference that keeps its target.
LEMMA RowStatus ==
    ASSUME NEW x \in IndexRow, NEW status \in {"none", "unresolved", "resolved", "ambiguous"},
           NEW y, y = [x EXCEPT !.status = status]
    PROVE  /\ y \in IndexRow /\ y.hash = x.hash /\ y.text = x.text /\ y.symbols = x.symbols
           /\ y.defines = x.defines /\ y.calls = x.calls /\ y.status = status
BY DEF IndexRow

\* A reference is resolved to the definition the file has or imports, or else to none
\* that is sure.
LEMMA ResolvesExactly ==
    ASSUME NEW f \in References, Definitions \subseteq CodeFile, indexed \in [CodeFile -> IndexRow],
           f \in CodeFile
    PROVE  /\ Resolved(f) \in IndexRow
           /\ Resolved(f).hash = indexed[f].hash /\ Resolved(f).text = indexed[f].text
           /\ Resolved(f).symbols = indexed[f].symbols /\ Resolved(f).calls = indexed[f].calls
           /\ Resolved(f).defines = indexed[f].defines
           /\ f \in Definitions =>
                 Resolved(f).status = "resolved" /\ IsExact(f) /\ Resolved(f).target = f
           /\ f \notin Definitions /\ indexed[f].calls \in Definitions =>
                 /\ Resolved(f).status = "resolved" /\ IsExact(f)
                 /\ Resolved(f).target = indexed[f].calls
           /\ f \notin Definitions /\ indexed[f].calls \notin Definitions /\ IsExact(f) =>
                 Resolved(f).status = "unresolved"
<1>1. \A d : Cardinality({d}) = 1 /\ (CHOOSE e \in {d} : TRUE) = d
  BY FS_Singleton
<1>5. indexed[f] \in IndexRow
  OBVIOUS
<1>2. CASE f \in Definitions
  <2>1. Candidates(f) = {f}
    BY <1>2 DEF Candidates
  <2>2. Resolved(f) = WithTarget(indexed[f], f)
    BY <1>1, <2>1 DEF Resolved, WithTarget
  <2>3. IsExact(f)
    BY <2>1 DEF IsExact
  <2>4. f \in FileOrNone
    BY DEF FileOrNone
  <2> QED BY <1>2, <2>2, <2>3, <2>4, <1>5, RowFields
<1>3. CASE f \notin Definitions /\ indexed[f].calls \in Definitions
  <2>1. Candidates(f) = {indexed[f].calls}
    BY <1>3 DEF Candidates
  <2>2. Resolved(f) = WithTarget(indexed[f], indexed[f].calls)
    <3>1. Candidates(f) # {} /\ Cardinality(Candidates(f)) = 1
      BY <1>1, <2>1
    <3>2. (CHOOSE d \in Candidates(f) : TRUE) = indexed[f].calls
      BY <1>1, <2>1
    <3> QED BY <3>1, <3>2 DEF Resolved, WithTarget
  <2>3. IsExact(f)
    BY <2>1 DEF IsExact
  <2>4. indexed[f].calls \in FileOrNone
    BY <1>3 DEF FileOrNone
  <2> QED BY <1>3, <2>2, <2>3, <2>4, <1>5, RowFields
<1>4. CASE f \notin Definitions /\ indexed[f].calls \notin Definitions
  <2>1. Candidates(f) = Definitions
    BY <1>4 DEF Candidates
  <2>2. CASE Definitions = {}
    <3>1. Resolved(f) = [indexed[f] EXCEPT !.status = "unresolved"]
      BY <2>1, <2>2, FS_EmptySet DEF Resolved
    <3> QED BY <1>4, <1>5, <3>1, RowStatus
  <2>3. CASE Definitions # {}
    <3>1. ~IsExact(f)
      BY <1>4, <2>1, <2>3 DEF IsExact
    <3>2. (CHOOSE d \in Definitions : TRUE) \in CodeFile
      BY <2>3
    <3>3. \/ Resolved(f) = [indexed[f] EXCEPT !.status = "ambiguous"]
          \/ Resolved(f) = WithTarget(indexed[f], CHOOSE d \in Definitions : TRUE)
      BY <2>1, <2>3 DEF Resolved, WithTarget
    <3>4. (CHOOSE d \in Definitions : TRUE) \in FileOrNone
      BY <3>2 DEF FileOrNone
    <3>5. /\ Resolved(f) \in IndexRow
          /\ Resolved(f).hash = indexed[f].hash /\ Resolved(f).text = indexed[f].text
          /\ Resolved(f).symbols = indexed[f].symbols /\ Resolved(f).calls = indexed[f].calls
          /\ Resolved(f).defines = indexed[f].defines
      <4>1. CASE Resolved(f) = [indexed[f] EXCEPT !.status = "ambiguous"]
        BY <1>5, <4>1, RowStatus
      <4>2. CASE Resolved(f) = WithTarget(indexed[f], CHOOSE d \in Definitions : TRUE)
        BY <1>5, <3>4, <4>2, RowFields
      <4> QED BY <3>3, <4>1, <4>2
    <3> QED BY <1>4, <3>1, <3>5
  <2> QED BY <2>2, <2>3
<1> QED BY <1>2, <1>3, <1>4

\* All references are resolved again, and the graph is made anew from them.
LEMMA ResolveKeeps == ASSUME IndexInv, ResolveWorkspaceSymbols PROVE IndexInv'
<1> DEFINE resolved == [f \in CodeFile |-> IF f \in References THEN Resolved(f) ELSE indexed[f]]
<1>1. /\ update' \in Update /\ update'.at = "embed" /\ update'.reading = NoFile
      /\ update'.scope = update.scope /\ update'.edited = update.edited
  BY DEF ResolveWorkspaceSymbols, IndexInv, IndexTypeOK, Update, ReadingIsSound
<1>2. /\ UNCHANGED <<disk, vectors, upToDate, edits>> /\ update.at = "resolve"
      /\ indexed' = resolved /\ edges' = CallEdges(resolved)
  BY DEF ResolveWorkspaceSymbols
<1>3. /\ Definitions \subseteq CodeFile /\ References \subseteq CodeFile
      /\ indexed \in [CodeFile -> IndexRow]
  BY DEF Definitions, References, Stored, IndexInv, IndexTypeOK
<1>4. \A f \in References : /\ resolved[f] = Resolved(f) /\ f \in CodeFile
  BY <1>3
<1>5. \A f \in CodeFile : /\ resolved[f] \in IndexRow
           /\ resolved[f].hash = indexed[f].hash /\ resolved[f].text = indexed[f].text
           /\ resolved[f].symbols = indexed[f].symbols /\ resolved[f].calls = indexed[f].calls
           /\ resolved[f].defines = indexed[f].defines
  <2> SUFFICES ASSUME NEW f \in CodeFile
               PROVE  /\ resolved[f] \in IndexRow
                      /\ resolved[f].hash = indexed[f].hash /\ resolved[f].text = indexed[f].text
                      /\ resolved[f].symbols = indexed[f].symbols /\ resolved[f].calls = indexed[f].calls
                      /\ resolved[f].defines = indexed[f].defines
    OBVIOUS
  <2>1. CASE f \in References
    BY <1>3, <2>1, ResolvesExactly
  <2>2. CASE f \notin References
    BY <1>3, <2>2
  <2> QED BY <2>1, <2>2
<1> HIDE DEF resolved
<1>6. indexed' \in [CodeFile -> IndexRow]
  <2>1. indexed' = [f \in CodeFile |-> resolved[f]]
    BY <1>2 DEF resolved
  <2> QED BY <1>5, <2>1
<1>7. /\ Stored' = Stored /\ Definitions' = Definitions /\ References' = References
      /\ \A f \in References : indexed'[f].calls = indexed[f].calls
  BY <1>2, <1>3, <1>5 DEF Stored, Definitions, References
<1>8. CallEdges(resolved) = ExactEdges
  <2>1. ASSUME NEW f \in References
        PROVE  /\ resolved[f].status = "resolved" /\ IsExact(f) /\ resolved[f].target \in Definitions =>
                     \/ f \in Definitions /\ resolved[f].target = f
                     \/ f \notin Definitions /\ resolved[f].target = indexed[f].calls
               /\ f \in Definitions =>
                     resolved[f].status = "resolved" /\ IsExact(f) /\ resolved[f].target = f
               /\ f \notin Definitions /\ indexed[f].calls \in Definitions =>
                     /\ resolved[f].status = "resolved" /\ IsExact(f)
                     /\ resolved[f].target = indexed[f].calls
    BY <1>3, <1>4, <2>1, ResolvesExactly
  <2>2. ASSUME NEW e \in CallEdges(resolved) PROVE e \in ExactEdges
    <3>1. PICK f \in References : /\ e = <<f, resolved[f].target>>
                                  /\ resolved[f].status = "resolved" /\ IsExact(f)
                                  /\ resolved[f].target \in Definitions
      BY <2>2 DEF CallEdges
    <3> QED BY <2>1, <3>1 DEF ExactEdges
  <2>3. ASSUME NEW e \in ExactEdges PROVE e \in CallEdges(resolved)
    <3>1. PICK f \in References, d \in Definitions :
            /\ e = <<f, d>>
            /\ \/ d = f
               \/ f \notin Definitions /\ d = indexed[f].calls
      BY <2>3 DEF ExactEdges
    <3>2. /\ resolved[f].status = "resolved" /\ IsExact(f) /\ resolved[f].target = d
      BY <2>1, <3>1
    <3> QED BY <3>1, <3>2 DEF CallEdges
  <2> QED BY <2>2, <2>3
<1>9. GraphIsKept'
  <2>1. ExactEdges' = ExactEdges
    BY <1>7 DEF ExactEdges
  <2> QED BY <1>2, <1>8, <2>1 DEF GraphIsKept
<1>10. IndexTypeOK'
  BY <1>1, <1>2, <1>6 DEF IndexInv, IndexTypeOK
<1>11. \A f \in CodeFile : RowIsOfThePast(f)' /\ (IsCurrent(f) => IsCurrent(f)')
  BY <1>2, <1>5 DEF IndexInv, RowIsOfThePast, IsCurrent
<1>12. ReadingIsSound' /\ ScanIsSound' /\ UpdateIsSound'
  BY <1>1, <1>2, <1>11 DEF ReadingIsSound, ScanIsSound, IndexInv, UpdateIsSound, IndexTypeOK, Update
<1>13. \A f \in upToDate' : IsCurrent(f)'
  BY <1>2, <1>11 DEF IndexInv, IndexTypeOK
<1>14. VectorsMatchTheText'
  BY <1>2, <1>5, <1>7 DEF IndexInv, VectorsMatchTheText
<1> QED BY <1>9, <1>10, <1>11, <1>12, <1>13, <1>14 DEF IndexInv

\* IndexInv is inductive.
LEMMA IndexStep == IndexInv /\ [IndexNext]_indexVars => IndexInv'
<1> SUFFICES ASSUME IndexInv, [IndexNext]_indexVars PROVE IndexInv'
  OBVIOUS
<1>1. ASSUME NEW f \in CodeFile, EditFile(f) \/ HashFile(f) \/ ReplaceFile(f) PROVE IndexInv'
  BY <1>1, EditKeeps, HashKeeps, ReplaceKeeps
<1>2. CASE UNCHANGED indexVars
  <2>1. UNCHANGED <<disk, indexed, edges, vectors, update, upToDate, edits>>
    BY <1>2 DEF indexVars
  <2>2. ReadingIsSound' /\ ScanIsSound' /\ UpdateIsSound'
    BY <2>1 DEF IndexInv, ReadingIsSound, ScanIsSound, UpdateIsSound, IsCurrent
  <2>3. \A f \in upToDate' : IsCurrent(f)'
    BY <2>1 DEF IndexInv, IsCurrent
  <2>4. IndexTypeOK' /\ GraphIsKept'
    BY <2>1, GraphOfRows DEF IndexInv, IndexTypeOK, GraphIsKept
  <2> QED BY <2>1, <2>2, <2>3, <2>4, FilesStay DEF IndexInv
<1>3. CASE \/ OpenStore \/ BeginUpdate \/ RemoveMissingFiles \/ ResolveWorkspaceSymbols
           \/ SyncEmbeddings \/ StopIndexer
  BY <1>3, OpenStoreKeeps, BeginUpdateKeeps, RemoveKeeps, ResolveKeeps, SyncKeeps, StopIndexerKeeps
<1> QED BY <1>1, <1>2, <1>3 DEF IndexNext

\* Nothing is indexed at first.
LEMMA IndexInitially == IndexInit => IndexInv
<1> SUFFICES ASSUME IndexInit PROVE IndexInv
  OBVIOUS
<1>1. /\ NotIndexed \in IndexRow /\ NotIndexed.hash = 0 /\ NotIndexed.text = 0
      /\ Missing \in FileContent /\ Missing.version = 0
      /\ Closed \in Update /\ Closed.at = "closed" /\ Closed.reading = NoFile /\ ~Closed.complete
  BY DEF NotIndexed, IndexRow, FileOrNone, Missing, FileContent, Closed, Update
<1>2. \A f \in CodeFile : Content(1, FirstShape(f)) \in FileContent
  <2> SUFFICES ASSUME NEW f \in CodeFile PROVE Content(1, FirstShape(f)) \in FileContent
    OBVIOUS
  <2>1. [defines |-> f # Caller, calls |-> IF f = Caller THEN Library ELSE NoFile] \in Shape(f)
    BY DEF Shape
  <2>2. FirstShape(f) \in Shape(f)
    BY <2>1 DEF FirstShape
  <2>3. FirstShape(f).defines \in BOOLEAN /\ FirstShape(f).calls \in FileOrNone
    BY <2>2, IndexConstants DEF Shape, FileOrNone
  <2> QED BY <2>3 DEF Content, FileContent
<1>3. /\ disk \in [CodeFile -> FileContent] /\ \A f \in CodeFile : disk[f].version \in {0, 1}
  BY <1>1, <1>2 DEF IndexInit, Content
<1>4. IndexTypeOK
  BY <1>1, <1>3 DEF IndexInit, IndexTypeOK
<1>5. \A f \in CodeFile : RowIsOfThePast(f)
  BY <1>1, <1>3 DEF IndexInit, RowIsOfThePast
<1> QED BY <1>1, <1>4, <1>5 DEF IndexInit, IndexInv, ReadingIsSound, ScanIsSound, UpdateIsSound,
                                GraphIsKept, VectorsMatchTheText

\* Every step of an update, of an edit or of a crash preserves IndexInv.
LEMMA IndexInvariance == IndexSpec => []IndexInv
BY IndexInitially, IndexStep, PTL DEF IndexSpec

\* The index is current (IndexIsCurrent) for any files, scopes, edits and stops: what is up
\* to date is in it as it is on disk, a complete update leaves the exact graph, and no
\* vector is older than its text.
THEOREM IndexStaysCurrent == IndexSpec => []IndexIsCurrent
<1>1. IndexInv => IndexIsCurrent
  <2> SUFFICES ASSUME IndexInv PROVE IndexIsCurrent
    OBVIOUS
  <2>1. IndexFollowsTheFiles
    BY DEF IndexInv, IsCurrent, IndexFollowsTheFiles, Stored
  <2>2. GraphIsExact
    BY DEF IndexInv, GraphIsKept, GraphIsExact, ExactEdges
  <2> QED BY <2>1, <2>2 DEF IndexInv, IndexIsCurrent
<1> QED BY <1>1, IndexInvariance, PTL

(***************************************************************************)
(* BadCases, with the commands of one user.  A command relies on what it   *)
(* read some steps ago (CommandIsSound): the record it was given, the      *)
(* dataset it extends, and the records it writes back.                     *)
(***************************************************************************)

\* The cases of promotions: one for each bad case.
CaseOf(b) == [id |-> CaseId(b), source |-> b]
PromotedCases == {CaseOf(b) : b \in BadCase}

WholeCases(cases) == cases \in Seq(PromotedCases) /\ IsInjective(cases)

HasCase(cases, b) == \E i \in DOMAIN cases : cases[i].source = b

\* What may take the place of a record that was reviewed.
KeepsReview(old, new) ==
    old # NoCase =>
        /\ new # NoCase
        /\ new.status = "PENDING" => old.status = "PENDING"
        /\ old.status = "PROMOTED" => new = old

\* A PROMOTED record names the dataset that has its case.
PromotionStands(entry, b) ==
    entry # NoCase /\ entry.status = "PROMOTED" =>
        entry.promoted \in Dataset /\ HasCase(datasets[entry.promoted], b)

CommandShape(c) ==
    /\ DOMAIN c = {"name", "at", "badcase", "target", "record", "records", "cases"}
    /\ c.at \in {"idle", "read", "append", "mark", "load", "write"}
    /\ c.at # "idle" => c.badcase \in BadCase /\ c.target \in Dataset

CommandIsSound(c) ==
    /\ CommandShape(c)
    /\ c.at = "read" => c.record = file[c.badcase]
    /\ c.at = "append" => c.cases = datasets[c.target]
    /\ c.at = "mark" => HasCase(datasets[c.target], c.badcase)
    /\ c.at \in {"load", "write"} =>
          /\ c.record \in Record
          /\ KeepsReview(file[c.badcase], c.record)
          /\ PromotionStands(c.record, c.badcase)
    /\ c.at = "write" => c.records = file

OneRuns == \A p, q \in Process : Running(p) /\ Running(q) => p = q

BadCaseInv ==
    /\ file \in [BadCase -> Record \cup {NoCase}]
    /\ datasets \in [Dataset -> Seq(PromotedCases)]
    /\ EachCaseOnce
    /\ \A b \in BadCase : PromotionStands(file[b], b)
    /\ DOMAIN command = Process
    /\ \A p \in Process : CommandIsSound(command[p])
    /\ OneRuns

\* A step of p that leaves the files alone, and after which p's command is c.
BadCaseMoves(p, c) ==
    /\ command' = [command EXCEPT ![p] = c]
    /\ UNCHANGED <<file, datasets>>

\* Who runs alone may take any sound step.
LEMMA MoveKeepsCases ==
    ASSUME BadCaseInv, NEW p \in Process, NEW c, BadCaseMoves(p, c),
           CommandIsSound(c),
           \A q \in Process : Running(q) => q = p
    PROVE  BadCaseInv'
<1>1. file' = file /\ datasets' = datasets /\ DOMAIN command' = Process
  BY DEF BadCaseMoves, BadCaseInv
<1>2. \A q \in Process : command'[q] = IF q = p THEN c ELSE command[q]
  BY DEF BadCaseMoves, BadCaseInv
<1>3. EachCaseOnce' /\ (\A b \in BadCase : PromotionStands(file[b], b)')
  BY <1>1 DEF BadCaseInv, EachCaseOnce, PromotionStands
<1>4. \A q \in Process : CommandIsSound(command[q])'
  BY <1>1, <1>2 DEF BadCaseInv, CommandIsSound, PromotionStands
<1>5. OneRuns'
  BY <1>2 DEF OneRuns, Running
<1> QED BY <1>1, <1>3, <1>4, <1>5 DEF BadCaseInv

\* A command that is over, or not begun, relies on nothing.
LEMMA NoCommandIsSound == CommandIsSound(NoCommand)
BY DEF CommandIsSound, CommandShape, NoCommand

\* The one that runs.
LEMMA RunsAlone ==
    ASSUME BadCaseInv, NEW p \in Process, Running(p)
    PROVE  \A q \in Process : Running(q) => q = p
BY DEF BadCaseInv, OneRuns

\* A command that is over leaves the files as they are.
LEMMA OverKeepsCases ==
    ASSUME BadCaseInv, NEW p \in Process, Running(p), Over(p), UNCHANGED <<file, datasets>>
    PROVE  BadCaseInv'
BY RunsAlone, NoCommandIsSound, MoveKeepsCases DEF BadCaseMoves, Over

\* A command begins when no other runs.
LEMMA StartKeepsCases ==
    ASSUME OneAtATime, BadCaseInv, NEW p \in Process, NEW name, NEW b \in BadCase, NEW d \in Dataset,
           StartCommand(p, name, b, d)
    PROVE  BadCaseInv'
<1> DEFINE c == [NoCommand EXCEPT !.name = name, !.at = "read", !.badcase = b, !.target = d, !.record = file[b]]
<1>1. BadCaseMoves(p, c) /\ \A q \in Process : ~Running(q)
  BY DEF StartCommand, BadCaseMoves
<1>2. CommandIsSound(c)
  BY DEF CommandIsSound, CommandShape, NoCommand
<1> QED BY <1>1, <1>2, MoveKeepsCases

\* A record that is to be written keeps the review it replaces.
LEMMA WritesKeepsCases ==
    ASSUME BadCaseInv, NEW p \in Process, Running(p), NEW entry \in Record,
           Writes(p, entry), UNCHANGED <<file, datasets>>,
           KeepsReview(file[command[p].badcase], entry),
           PromotionStands(entry, command[p].badcase)
    PROVE  BadCaseInv'
<1> DEFINE c == [Goes(p, "load") EXCEPT !.record = entry]
<1>1. BadCaseMoves(p, c)
  BY DEF Writes, BadCaseMoves
<1>2. CommandIsSound(c)
  BY DEF BadCaseInv, CommandIsSound, CommandShape, Goes, Running
<1> QED BY <1>1, <1>2, RunsAlone, MoveKeepsCases

\* A trial is collected only when no record of it is there.
LEMMA CollectKeepsCases ==
    ASSUME BadCaseInv, NEW p \in Process, Collect(p)
    PROVE  BadCaseInv'
<1>1. Running(p) /\ UNCHANGED <<file, datasets>> /\ command[p].record = file[command[p].badcase]
  BY DEF Collect, Running, BadCaseInv, CommandIsSound
<1>2. CASE command[p].record = NoCase
  <2>1. NewRecord \in Record /\ NewRecord.status = "PENDING" /\ Writes(p, NewRecord)
    BY <1>2 DEF NewRecord, Record, Collect, Save
  <2> QED BY <1>1, <1>2, <2>1, WritesKeepsCases DEF KeepsReview, PromotionStands
<1>3. CASE command[p].record # NoCase
  BY <1>1, <1>3, OverKeepsCases DEF Collect, Save
<1> QED BY <1>2, <1>3

\* A review changes the status of a record that is not promoted.
LEMMA ReviewKeepsCases ==
    ASSUME BadCaseInv, NEW p \in Process, NEW status \in {"APPROVED", "IGNORED"},
           UpdateReviewStatus(p, status)
    PROVE  BadCaseInv'
<1> DEFINE entry == command[p].record   new == [entry EXCEPT !.status = status]
<1>1. Running(p) /\ UNCHANGED <<file, datasets>> /\ entry = file[command[p].badcase]
  BY DEF UpdateReviewStatus, Running, BadCaseInv, CommandIsSound
<1>2. CASE Over(p)
  BY <1>1, <1>2, OverKeepsCases
<1>3. CASE entry # NoCase /\ status \in Allowed(entry.status) \cup {entry.status} /\ Writes(p, new)
  <2>1. command[p].badcase \in BadCase
    BY <1>1 DEF BadCaseInv, CommandIsSound, CommandShape, Running
  <2>2. entry \in Record
    BY <1>1, <1>3, <2>1 DEF BadCaseInv
  <2>3. entry.status # "PROMOTED"
    BY <1>3 DEF Allowed
  <2>4. new \in Record /\ new.status = status
    BY <2>2 DEF Record
  <2>5. new # NoCase
    BY <2>4, BadCaseAssumption
  <2>6. KeepsReview(file[command[p].badcase], new) /\ PromotionStands(new, command[p].badcase)
    BY <1>1, <2>3, <2>4, <2>5 DEF KeepsReview, PromotionStands
  <2> HIDE DEF new
  <2> QED BY <1>1, <1>3, <2>4, <2>6, WritesKeepsCases
<1> QED BY <1>2, <1>3 DEF UpdateReviewStatus

\* The dataset that a promotion extends is the one it read.
LEMMA PromoteKeepsCases ==
    ASSUME BadCaseInv, NEW p \in Process, Promote(p)
    PROVE  BadCaseInv'
<1> DEFINE c == [Goes(p, "append") EXCEPT !.cases = datasets[command[p].target]]
<1>1. Running(p) /\ UNCHANGED <<file, datasets>>
  BY DEF Promote, Running
<1>2. CASE Over(p)
  BY <1>1, <1>2, OverKeepsCases
<1>3. CASE command' = [command EXCEPT ![p] = c]
  <2>1. CommandIsSound(c)
    BY <1>1 DEF BadCaseInv, CommandIsSound, CommandShape, Goes, Running
  <2> QED BY <1>1, <1>3, <2>1, RunsAlone, MoveKeepsCases DEF BadCaseMoves
<1> QED BY <1>2, <1>3 DEF Promote

\* The records that are written back are those of the file.
LEMMA LoadKeepsCases ==
    ASSUME BadCaseInv, NEW p \in Process, LoadRecords(p)
    PROVE  BadCaseInv'
<1> DEFINE c == [Goes(p, "write") EXCEPT !.records = file]
<1>1. Running(p) /\ BadCaseMoves(p, c)
  BY DEF LoadRecords, Running, BadCaseMoves
<1>2. CommandIsSound(c)
  BY <1>1 DEF LoadRecords, BadCaseInv, CommandIsSound, CommandShape, Goes, Running
<1> QED BY <1>1, <1>2, RunsAlone, MoveKeepsCases

\* The record is marked when the case is in the dataset.
LEMMA MarkKeepsCases ==
    ASSUME BadCaseInv, NEW p \in Process, MarkPromoted(p)
    PROVE  BadCaseInv'
<1> DEFINE entry == file[command[p].badcase]
           new == [status |-> "PROMOTED", promoted |-> command[p].target]
<1>1. /\ Running(p) /\ UNCHANGED <<file, datasets>> /\ command[p].target \in Dataset
      /\ HasCase(datasets[command[p].target], command[p].badcase)
  BY DEF MarkPromoted, Running, BadCaseInv, CommandIsSound, CommandShape
<1>2. CASE Over(p)
  BY <1>1, <1>2, OverKeepsCases
<1>3. CASE entry.status = "APPROVED" /\ Writes(p, new)
  <2>1. new \in Record /\ new # NoCase
    BY <1>1, BadCaseAssumption DEF Record
  <2> QED BY <1>1, <1>3, <2>1, WritesKeepsCases DEF KeepsReview, PromotionStands
<1> QED BY <1>2, <1>3 DEF MarkPromoted

\* A case is appended once, and what was in the dataset stays there.
LEMMA AppendsOnce ==
    ASSUME NEW p \in Process, WholeCases(command[p].cases), command[p].badcase \in BadCase
    PROVE  /\ WholeCases(WithCase(p))
           /\ HasCase(WithCase(p), command[p].badcase)
           /\ \A b : HasCase(command[p].cases, b) => HasCase(WithCase(p), b)
<1> DEFINE cases == command[p].cases   b == command[p].badcase
<1>1. CASE \E i \in DOMAIN cases : cases[i].id = CaseId(b)
  <2>1. PICK i \in DOMAIN cases : cases[i].id = CaseId(b)
    BY <1>1
  <2>2. PICK x \in BadCase : cases[i] = CaseOf(x)
    BY <2>1, ElementOfSeq DEF WholeCases, PromotedCases
  <2>3. cases[i].source = b
    BY <2>1, <2>2 DEF CaseOf, CaseId
  <2> QED BY <1>1, <2>1, <2>3 DEF WithCase, HasCase
<1>2. CASE \A i \in DOMAIN cases : cases[i].id # CaseId(b)
  <2>1. NewCase(p) = CaseOf(b) /\ CaseOf(b) \in PromotedCases /\ CaseOf(b).id = CaseId(b) /\ CaseOf(b).source = b
    BY DEF NewCase, CaseOf, PromotedCases
  <2>2. WithCase(p) = Append(cases, CaseOf(b))
    BY <1>2, <2>1 DEF WithCase
  <2>3. cases \in Seq(PromotedCases) /\ Len(cases) \in Nat /\ DOMAIN cases = 1 .. Len(cases)
    BY DEF WholeCases
  <2> HIDE DEF b
  <2>4. /\ Append(cases, CaseOf(b)) \in Seq(PromotedCases)
        /\ DOMAIN Append(cases, CaseOf(b)) = 1 .. Len(cases) + 1
        /\ \A i \in 1 .. Len(cases) : Append(cases, CaseOf(b))[i] = cases[i]
        /\ Append(cases, CaseOf(b))[Len(cases) + 1] = CaseOf(b)
    BY <2>1, <2>3, AppendProperties
  <2>5. IsInjective(Append(cases, CaseOf(b)))
    <3>1. IsInjective(cases) /\ \A i \in 1 .. Len(cases) : cases[i] # CaseOf(b)
      BY <1>2, <2>1, <2>3 DEF WholeCases
    <3> QED BY <2>3, <2>4, <3>1 DEF IsInjective
  <2>6. HasCase(Append(cases, CaseOf(b)), b)
    BY <2>1, <2>3, <2>4 DEF HasCase
  <2>7. \A x : HasCase(cases, x) => HasCase(Append(cases, CaseOf(b)), x)
    BY <2>3, <2>4 DEF HasCase
  <2> QED BY <2>2, <2>4, <2>5, <2>6, <2>7 DEF WholeCases, b
<1> QED BY <1>1, <1>2

\* The dataset of the promotion is written.
LEMMA SaveKeepsCases ==
    ASSUME BadCaseInv, NEW p \in Process, SaveDataset(p)
    PROVE  BadCaseInv'
<1> DEFINE d == command[p].target
<1>1. Running(p) /\ d \in Dataset /\ command[p].badcase \in BadCase /\ command[p].cases = datasets[d]
  BY DEF SaveDataset, Running, BadCaseInv, CommandIsSound, CommandShape
<1>2. WholeCases(datasets[d]) /\ file' = file /\ DOMAIN command' = Process
  BY <1>1 DEF BadCaseInv, EachCaseOnce, WholeCases, SaveDataset
<1>3. /\ WholeCases(WithCase(p)) /\ HasCase(WithCase(p), command[p].badcase)
      /\ \A b : HasCase(datasets[d], b) => HasCase(WithCase(p), b)
  BY <1>1, <1>2, AppendsOnce
<1>4. datasets' \in [Dataset -> Seq(PromotedCases)] /\ EachCaseOnce'
  BY <1>1, <1>3 DEF BadCaseInv, SaveDataset, EachCaseOnce, WholeCases
<1>5. \A e \in Dataset, b \in BadCase : HasCase(datasets[e], b) => HasCase(datasets'[e], b)
  BY <1>1, <1>3 DEF BadCaseInv, SaveDataset
<1>6. \A b \in BadCase : PromotionStands(file[b], b)'
  BY <1>2, <1>5 DEF BadCaseInv, PromotionStands, HasCase
<1>7. \A q \in Process : command'[q] = IF q = p THEN Goes(p, "mark") ELSE command[q]
  BY DEF SaveDataset, BadCaseInv
<1>8. CommandIsSound(command[p])'
  <2>1. CommandShape(Goes(p, "mark")) /\ Goes(p, "mark").at = "mark"
        /\ Goes(p, "mark").target = d /\ Goes(p, "mark").badcase = command[p].badcase
    BY <1>1 DEF BadCaseInv, CommandIsSound, CommandShape, Goes
  <2>2. datasets'[d] = WithCase(p)
    BY <1>1 DEF BadCaseInv, SaveDataset
  <2> QED BY <1>3, <1>7, <2>1, <2>2 DEF CommandIsSound, HasCase
<1>9. \A q \in Process : q # p => command'[q].at = "idle" /\ CommandIsSound(command[q])'
  BY <1>1, <1>7, RunsAlone DEF BadCaseInv, CommandIsSound, Running
<1>10. OneRuns'
  BY <1>9 DEF OneRuns, Running
<1> QED BY <1>2, <1>4, <1>6, <1>8, <1>9, <1>10 DEF BadCaseInv

\* The file is written back with one record changed.
LEMMA WriteKeepsCases ==
    ASSUME BadCaseInv, NEW p \in Process, WriteRecords(p)
    PROVE  BadCaseInv' /\ \A b \in BadCase : KeepsReview(file[b], file'[b])
<1> DEFINE c == command[p]
<1>1. /\ Running(p) /\ c.badcase \in BadCase /\ c.record \in Record /\ c.records = file
      /\ KeepsReview(file[c.badcase], c.record) /\ PromotionStands(c.record, c.badcase)
  BY DEF WriteRecords, Running, BadCaseInv, CommandIsSound, CommandShape
<1>2. file' = [file EXCEPT ![c.badcase] = c.record] /\ datasets' = datasets
  BY <1>1 DEF WriteRecords
<1>3. /\ DOMAIN command' = Process /\ command'[p] = NoCommand
      /\ \A q \in Process : q # p => command'[q] = command[q] /\ command[q].at = "idle"
  BY <1>1, RunsAlone DEF WriteRecords, Over, BadCaseInv, Running
<1>4. OneRuns'
  BY <1>3 DEF OneRuns, Running, NoCommand
<1>5. \A q \in Process : CommandIsSound(command[q])'
  <2> SUFFICES ASSUME NEW q \in Process PROVE CommandIsSound(command[q])'
    OBVIOUS
  <2>1. CommandShape(command'[q]) /\ command'[q].at = "idle"
    BY <1>3 DEF BadCaseInv, CommandIsSound, CommandShape, NoCommand
  <2> QED BY <2>1 DEF CommandIsSound
<1>6. file' \in [BadCase -> Record \cup {NoCase}] /\ \A b \in BadCase : PromotionStands(file[b], b)'
  BY <1>1, <1>2 DEF BadCaseInv, PromotionStands
<1>7. \A b \in BadCase : KeepsReview(file[b], file'[b])
  BY <1>1, <1>2 DEF BadCaseInv, KeepsReview
<1> QED BY <1>2, <1>3, <1>4, <1>5, <1>6, <1>7 DEF BadCaseInv, EachCaseOnce

\* The files of a new installation.
LEMMA CasesInitially == BadCasesInit => BadCaseInv
<1> SUFFICES ASSUME BadCasesInit PROVE BadCaseInv
  OBVIOUS
<1>1. \A p \in Process : CommandIsSound(command[p])
  BY NoCommandIsSound DEF BadCasesInit
<1>2. EachCaseOnce /\ datasets \in [Dataset -> Seq(PromotedCases)]
  BY EmptySeq DEF BadCasesInit, EachCaseOnce, IsInjective
<1> QED BY <1>1, <1>2 DEF BadCasesInit, BadCaseInv, OneRuns, Running, PromotionStands, NoCommand

\* What every command keeps, and the one that writes the store, too.
LEMMA CasesStep ==
    ASSUME OneAtATime, BadCaseInv, [BadCasesNext]_badCaseVars
    PROVE  BadCaseInv' /\ \A b \in BadCase : KeepsReview(file[b], file'[b])
<1> DEFINE StepHolds == BadCaseInv' /\ \A b \in BadCase : KeepsReview(file[b], file'[b])
<1>1. file' = file => \A b \in BadCase : KeepsReview(file[b], file'[b])
  BY DEF KeepsReview
<1>2. ASSUME UNCHANGED badCaseVars PROVE StepHolds
  BY <1>1, <1>2 DEF badCaseVars, BadCaseInv, EachCaseOnce, PromotionStands, CommandIsSound, OneRuns, Running
<1>3. ASSUME NEW p \in Process, Collect(p) PROVE StepHolds
  BY <1>1, <1>3, CollectKeepsCases DEF Collect
<1>4. ASSUME NEW p \in Process, NEW status \in {"APPROVED", "IGNORED"}, UpdateReviewStatus(p, status) PROVE StepHolds
  BY <1>1, <1>4, ReviewKeepsCases DEF UpdateReviewStatus
<1>5. ASSUME NEW p \in Process, Promote(p) PROVE StepHolds
  BY <1>1, <1>5, PromoteKeepsCases DEF Promote
<1>6. ASSUME NEW p \in Process, SaveDataset(p) PROVE StepHolds
  BY <1>1, <1>6, SaveKeepsCases DEF SaveDataset
<1>7. ASSUME NEW p \in Process, MarkPromoted(p) PROVE StepHolds
  BY <1>1, <1>7, MarkKeepsCases DEF MarkPromoted
<1>8. ASSUME NEW p \in Process, LoadRecords(p) PROVE StepHolds
  BY <1>1, <1>8, LoadKeepsCases DEF LoadRecords
<1>9. ASSUME NEW p \in Process, WriteRecords(p) PROVE StepHolds
  BY <1>9, WriteKeepsCases
<1>10. ASSUME NEW p \in Process, EndProcess(p) PROVE StepHolds
  BY <1>1, <1>10, OverKeepsCases DEF EndProcess
<1>11. ASSUME NEW p \in Process, NEW b \in BadCase, NEW d \in Dataset,
              NEW name \in {"collect", "APPROVED", "IGNORED", "promote"}, StartCommand(p, name, b, d)
       PROVE  StepHolds
  BY <1>1, <1>11, StartKeepsCases DEF StartCommand
<1> HIDE DEF StepHolds
<1>12. StepHolds
  BY <1>2, <1>3, <1>4, <1>5, <1>6, <1>7, <1>8, <1>9, <1>10, <1>11 DEF BadCasesNext
<1> QED BY <1>12 DEF StepHolds

\* When one user's commands follow each other, a promoted case is in the dataset that
\* its record names, once, and no review is lost, wherever a process ends (CasesAreKept;
\* promote_badcase, BadCaseStore).
THEOREM CasesStayKept == OneAtATime => (BadCasesSpec => CasesAreKept)
<1>1. BadCaseInv => PromotedIsInItsDataset /\ EachCaseOnce
  BY DEF BadCaseInv, PromotedIsInItsDataset, PromotionStands, HasCase
<1>2. OneAtATime /\ BadCaseInv /\ [BadCasesNext]_badCaseVars =>
         BadCaseInv' /\ [\A b \in BadCase : file[b] # NoCase =>
          /\ file'[b] # NoCase /\ (file'[b].status = "PENDING" => file[b].status = "PENDING")
          /\ (file[b].status = "PROMOTED" => file'[b] = file[b])]_badCaseVars
  BY CasesStep DEF KeepsReview
<1> SUFFICES ASSUME OneAtATime PROVE BadCasesSpec => CasesAreKept
  OBVIOUS
<1>3. BadCaseInv /\ [BadCasesNext]_badCaseVars =>
         BadCaseInv' /\ [\A b \in BadCase : file[b] # NoCase =>
          /\ file'[b] # NoCase /\ (file'[b].status = "PENDING" => file[b].status = "PENDING")
          /\ (file[b].status = "PROMOTED" => file'[b] = file[b])]_badCaseVars
  BY <1>2
<1> QED BY <1>1, <1>3, CasesInitially, PTL DEF BadCasesSpec, CasesAreKept, ReviewIsKept

(***************************************************************************)
(* ToolBatch.  The history is whole as far as the last answer reaches      *)
(* (WholeUpTo), and the names of its calls are told from those of answers  *)
(* that come later (NamedBefore).                                          *)
(***************************************************************************)
CallIds == Nat \X Nat \X Nat

Message == [role : {"user", "assistant", "tool"}, calls : SUBSET CallIds]

CallType == [kind : Kinds, id : CallIds]

Stages == {"waiting", "permission", "approval", "handler", "answered"}

\* Where the results of a call are, in the first n messages of a history.
ResultPlaces(h, n, c) == {m \in 1 .. n : h[m].role = "tool" /\ h[m].calls = {c}}

CallsHaveResults(h, n) ==
    \A k \in 1 .. n : h[k].role = "assistant" =>
        \A c \in h[k].calls : \E m \in k + 1 .. n :
            ResultPlaces(h, n, c) = {m} /\ \A x \in k + 1 .. m : h[x].role = "tool"

ResultsHaveCalls(h, n) ==
    \A m \in 1 .. n : h[m].role = "tool" =>
        \E k \in 1 .. m - 1 : h[k].role = "assistant" /\ \E c \in h[k].calls : h[m].calls = {c}

WholeUpTo(h, n) == CallsHaveResults(h, n) /\ ResultsHaveCalls(h, n)

\* The calls of an answer of request r that comes after the first n messages have new names.
NamedBefore(h, n, r) ==
    \A k \in 1 .. n : \A c \in h[k].calls : c[1] <= r /\ (c[1] = r => c[2] < n)

NamedUpTo(h, r) == \A k \in 1 .. Len(h) : \A c \in h[k].calls : c[1] <= r

\* A call that is not read-only has begun only after those it waits for.
OthersWait ==
    \A i \in Others : stage[i] # "waiting" => \A j \in CallPositions : IsRead(j) \/ j < i => HasResult(j)

ReadsRunning == {i \in CallPositions : IsRead(i) /\ Executing(i)}

BatchTypeOK ==
    /\ kept \in Seq(Message) /\ conversation \in Seq(Message)
    /\ turns \in Nat /\ requests \in Nat
    /\ query \in {"over", "model", "tools", "finishing", "failed"}
    /\ calls \in Seq(CallType) /\ stage \in [CallPositions -> Stages]

\* The batch of the last message.
BatchIsNamed(last) ==
    /\ last > 0
    /\ conversation[last] = [role |-> "assistant", calls |-> {calls[i].id : i \in CallPositions}]
    /\ \A i \in CallPositions : calls[i].id = <<requests, last - 1, i>>

InTools ==
    /\ BatchIsNamed(Len(conversation))
    /\ WholeUpTo(conversation, Len(conversation) - 1)
    /\ NamedBefore(conversation, Len(conversation) - 1, requests)
    /\ OthersWait
    /\ Cardinality(ReadsRunning) <= ReadLimit
    /\ \A c \in refused \cup ran : \E i \in CallPositions : HasResult(i) /\ c = calls[i].id

BetweenBatches ==
    /\ WholeUpTo(conversation, Len(conversation))
    /\ NamedBefore(conversation, Len(conversation), requests)
    /\ calls = <<>> /\ refused = {} /\ ran = {}

BatchInv ==
    /\ BatchTypeOK
    /\ WholeUpTo(kept, Len(kept)) /\ NamedUpTo(kept, requests)
    /\ NothingRefusedRan
    /\ query \in {"model", "finishing"} => BetweenBatches
    /\ query = "tools" => InTools

(***************************************************************************)
(* Histories.                                                              *)
(***************************************************************************)

\* The first n messages decide whether they are whole.
LEMMA SameMessages ==
    ASSUME NEW h, NEW g, NEW n \in Nat, \A k \in 1 .. n : h[k] = g[k], WholeUpTo(h, n)
    PROVE  WholeUpTo(g, n)
<1>1. \A c : ResultPlaces(g, n, c) = ResultPlaces(h, n, c)
  BY DEF ResultPlaces
<1>2. CallsHaveResults(g, n)
  <2> SUFFICES ASSUME NEW k \in 1 .. n, g[k].role = "assistant", NEW c \in g[k].calls
               PROVE  \E m \in k + 1 .. n : ResultPlaces(g, n, c) = {m} /\ \A x \in k + 1 .. m : g[x].role = "tool"
    BY DEF CallsHaveResults
  <2>1. PICK m \in k + 1 .. n : ResultPlaces(h, n, c) = {m} /\ \A x \in k + 1 .. m : h[x].role = "tool"
    BY DEF WholeUpTo, CallsHaveResults
  <2>2. \A x \in k + 1 .. m : g[x].role = "tool"
    BY <2>1
  <2> QED BY <1>1, <2>1, <2>2
<1>3. ResultsHaveCalls(g, n)
  <2> SUFFICES ASSUME NEW m \in 1 .. n, g[m].role = "tool"
               PROVE  \E k \in 1 .. m - 1 : g[k].role = "assistant" /\ \E c \in g[k].calls : g[m].calls = {c}
    BY DEF ResultsHaveCalls
  <2>1. PICK k \in 1 .. m - 1 : h[k].role = "assistant" /\ \E c \in h[k].calls : h[m].calls = {c}
    BY DEF WholeUpTo, ResultsHaveCalls
  <2>2. k \in 1 .. n
    OBVIOUS
  <2> QED BY <2>1, <2>2
<1> QED BY <1>2, <1>3 DEF WholeUpTo

\* A message that has no calls leaves a history whole.
LEMMA MessageWithoutCalls ==
    ASSUME NEW h, NEW n \in Nat, WholeUpTo(h, n), h[n + 1].role # "tool", h[n + 1].calls = {}
    PROVE  WholeUpTo(h, n + 1)
<1>1. \A c : ResultPlaces(h, n + 1, c) = ResultPlaces(h, n, c)
  BY DEF ResultPlaces
<1>2. CallsHaveResults(h, n + 1)
  <2> SUFFICES ASSUME NEW k \in 1 .. n + 1, h[k].role = "assistant", NEW c \in h[k].calls
               PROVE  \E m \in k + 1 .. n + 1 :
                         ResultPlaces(h, n + 1, c) = {m} /\ \A x \in k + 1 .. m : h[x].role = "tool"
    BY DEF CallsHaveResults
  <2>1. k \in 1 .. n
    BY DEF WholeUpTo
  <2>2. PICK m \in k + 1 .. n : ResultPlaces(h, n, c) = {m} /\ \A x \in k + 1 .. m : h[x].role = "tool"
    BY <2>1 DEF WholeUpTo, CallsHaveResults
  <2>3. m \in k + 1 .. n + 1
    OBVIOUS
  <2> QED BY <1>1, <2>2, <2>3
<1>3. ResultsHaveCalls(h, n + 1)
  BY DEF WholeUpTo, ResultsHaveCalls
<1> QED BY <1>2, <1>3 DEF WholeUpTo

\* The answer n + 1 asks for the calls S, whose names are new, and each of the messages
\* behind it, to the last, is the result of one of them: of[m] says of which.
Answering(h, n, last, S, id, of) ==
    /\ n \in Nat /\ last \in Nat /\ n + 1 <= last /\ of \in [n + 2 .. last -> S]
    /\ h[n + 1].role = "assistant" /\ h[n + 1].calls = {id[i] : i \in S}
    /\ \A m \in n + 2 .. last : h[m].role = "tool" /\ h[m].calls = {id[of[m]]}
    /\ \A i, j \in S : id[i] = id[j] => i = j
    /\ \A k \in 1 .. n : \A i \in S : id[i] \notin h[k].calls
    /\ \A k, m \in n + 2 .. last : of[k] = of[m] => k = m
    /\ \A i \in S : \E k \in n + 2 .. last : of[k] = i

\* A batch and its results leave a history whole.
LEMMA BatchIsAnswered ==
    ASSUME NEW h, NEW n, NEW last, NEW S, NEW id, NEW of, Answering(h, n, last, S, id, of), WholeUpTo(h, n)
    PROVE  WholeUpTo(h, last)
<1>0. \A k \in 1 .. n : h[k].role = "assistant" =>
          \A c \in h[k].calls : \E m \in k + 1 .. n :
              ResultPlaces(h, n, c) = {m} /\ \A x \in k + 1 .. m : h[x].role = "tool"
  BY DEF WholeUpTo, CallsHaveResults
<1> USE DEF Answering
<1>1. \A m \in 1 .. last : m \in 1 .. n \/ m = n + 1 \/ m \in n + 2 .. last
  OBVIOUS
<1>2. \A m \in 1 .. n : m \in 1 .. last
  OBVIOUS
<1>3. CallsHaveResults(h, last)
  <2> SUFFICES ASSUME NEW k \in 1 .. last, h[k].role = "assistant", NEW c \in h[k].calls
               PROVE  \E m \in k + 1 .. last : ResultPlaces(h, last, c) = {m} /\ \A x \in k + 1 .. m : h[x].role = "tool"
    BY DEF CallsHaveResults
  <2>1. CASE k \in 1 .. n
    <3>1. PICK m \in k + 1 .. n : ResultPlaces(h, n, c) = {m} /\ \A x \in k + 1 .. m : h[x].role = "tool"
      BY <1>0, <2>1
    <3>2. ASSUME NEW q \in n + 2 .. last PROVE h[q].calls # {c}
      <4>1. of[q] \in S /\ c \in h[k].calls
        OBVIOUS
      <4>2. id[of[q]] # c
        BY <2>1, <4>1
      <4>3. h[q].calls = {id[of[q]]}
        OBVIOUS
      <4> QED BY <4>2, <4>3
    <3>3. h[n + 1].role # "tool"
      OBVIOUS
    <3>4. ResultPlaces(h, last, c) = ResultPlaces(h, n, c)
      BY <1>1, <1>2, <3>2, <3>3 DEF ResultPlaces
    <3>5. m \in k + 1 .. last
      BY <2>1
    <3> QED BY <3>1, <3>4, <3>5
  <2>2. CASE k = n + 1
    <3>1. PICK i \in S : c = id[i]
      BY <2>2
    <3>2. PICK j \in n + 2 .. last : of[j] = i
      OBVIOUS
    <3>3. h[j].role = "tool" /\ h[j].calls = {c}
      BY <3>1, <3>2
    <3>4. ASSUME NEW m \in 1 .. n, h[m].role = "tool" PROVE h[m].calls # {c}
      <4>1. PICK q \in 1 .. m - 1 : \E d \in h[q].calls : h[m].calls = {d}
        BY <3>4 DEF WholeUpTo, ResultsHaveCalls
      <4>2. q \in 1 .. n
        OBVIOUS
      <4>3. c \notin h[q].calls
        BY <3>1, <4>2
      <4> QED BY <4>1, <4>3
    <3>5. ASSUME NEW m \in n + 2 .. last, h[m].calls = {c} PROVE m = j
      <4>1. id[of[m]] = c /\ of[m] \in S
        BY <3>5
      <4>2. of[m] = i
        BY <3>1, <4>1
      <4> QED BY <3>2, <4>2
    <3>6. ResultPlaces(h, last, c) = {j}
      <4>1. j \in 1 .. last
        OBVIOUS
      <4> QED BY <1>1, <3>3, <3>4, <3>5, <4>1 DEF ResultPlaces
    <3>7. j \in k + 1 .. last /\ \A x \in k + 1 .. j : x \in n + 2 .. last
      BY <2>2
    <3>8. \A x \in k + 1 .. j : h[x].role = "tool"
      BY <3>7
    <3> QED BY <3>6, <3>7, <3>8
  <2>3. CASE k \in n + 2 .. last
    BY <2>3
  <2> QED BY <1>1, <2>1, <2>2, <2>3
<1>4. ResultsHaveCalls(h, last)
  <2> SUFFICES ASSUME NEW m \in 1 .. last, h[m].role = "tool"
               PROVE  \E k \in 1 .. m - 1 : h[k].role = "assistant" /\ \E c \in h[k].calls : h[m].calls = {c}
    BY DEF ResultsHaveCalls
  <2>1. CASE m \in 1 .. n
    BY <2>1 DEF WholeUpTo, ResultsHaveCalls
  <2>2. CASE m \in n + 2 .. last
    <3>1. h[m].calls = {id[of[m]]} /\ of[m] \in S
      BY <2>2
    <3>2. id[of[m]] \in h[n + 1].calls
      BY <3>1
    <3>3. n + 1 \in 1 .. m - 1
      BY <2>2
    <3> QED BY <3>1, <3>2, <3>3
  <2> QED BY <1>1, <2>1, <2>2
<1> QED BY <1>3, <1>4 DEF WholeUpTo

\* The order of the results has every call once.
LEMMA OrderHasEveryCall ==
    ASSUME BatchTypeOK, NEW order \in ResultOrder
    PROVE  /\ order \in [CallPositions -> CallPositions] /\ CallPositions = 1 .. Len(calls)
           /\ \A k, m \in CallPositions : order[k] = order[m] => k = m
           /\ \A i \in CallPositions : \E k \in CallPositions : order[k] = i
<1>1. CallPositions = 1 .. Len(calls) /\ Len(calls) \in Nat
  BY DEF BatchTypeOK, CallPositions
<1>2. IsFiniteSet(CallPositions) /\ Cardinality(CallPositions) = Len(calls)
  <2>1. 1 \in Int /\ Len(calls) \in Int /\ (1 > Len(calls) => Len(calls) = 0)
    BY <1>1
  <2>2. Cardinality(1 .. Len(calls)) = IF 1 > Len(calls) THEN 0 ELSE Len(calls) - 1 + 1
    BY <2>1, FS_Interval
  <2>3. Cardinality(1 .. Len(calls)) = Len(calls)
    BY <1>1, <2>1, <2>2
  <2>4. IsFiniteSet(1 .. Len(calls))
    BY <2>1, FS_Interval
  <2> QED BY <1>1, <2>3, <2>4
<1>3. /\ order \in [CallPositions -> CallPositions]
      /\ \A k, m \in CallPositions : k < m => Before(order[k], order[m])
  BY <1>1, <1>2 DEF ResultOrder, Arranged
<1>4. \A i : ~(i < i) => ~Before(i, i)
  BY DEF Before
<1>5. \A k, m \in CallPositions : order[k] = order[m] => k = m
  <2> SUFFICES ASSUME NEW k \in CallPositions, NEW m \in CallPositions, order[k] = order[m], k # m
               PROVE  FALSE
    OBVIOUS
  <2>1. order[k] \in Nat /\ ~(order[k] < order[k])
    BY <1>1, <1>3
  <2>2. k < m \/ m < k
    BY <1>1
  <2> QED BY <1>3, <1>4, <2>1, <2>2
<1>6. order \in Injection(CallPositions, CallPositions)
  BY <1>3, <1>5 DEF Injection, IsInjective
<1>7. order \in Surjection(CallPositions, CallPositions)
  BY <1>2, <1>6, FS_Injection
<1> QED BY <1>1, <1>3, <1>5, <1>7 DEF Surjection

(***************************************************************************)
(* The steps of a batch.                                                   *)
(***************************************************************************)

\* The running reads are calls, hence finitely many.
LEMMA ReadsAreFinite == BatchTypeOK => IsFiniteSet(ReadsRunning)
<1> SUFFICES ASSUME BatchTypeOK PROVE IsFiniteSet(ReadsRunning)
  OBVIOUS
<1>1. IsFiniteSet(CallPositions)
  BY FS_Interval DEF BatchTypeOK, CallPositions
<1> QED BY <1>1, FS_Subset DEF ReadsRunning

\* A call that was underway, or is no read, adds no read to those that run.
LEMMA ReadsStay ==
    ASSUME BatchTypeOK, NEW i \in CallPositions, NEW where, To(i, where), InBatch,
           Executing(i) \/ ~IsRead(i), Cardinality(ReadsRunning) <= ReadLimit
    PROVE  Cardinality(ReadsRunning') <= ReadLimit
<1>1. ReadsRunning' \subseteq ReadsRunning
  <2>1. calls' = calls /\ \A j \in CallPositions : j # i => stage'[j] = stage[j]
    BY DEF To, InBatch, BatchTypeOK
  <2> QED BY <2>1 DEF ReadsRunning, Executing, IsRead, CallPositions
<1>2. IsFiniteSet(ReadsRunning)
  BY ReadsAreFinite
<1>3. Cardinality(ReadsRunning') <= Cardinality(ReadsRunning)
  BY <1>1, <1>2, FS_Subset
<1>4. Cardinality(ReadsRunning') \in Nat /\ Cardinality(ReadsRunning) \in Nat
  BY <1>1, <1>2, FS_Subset, FS_CardinalityType
<1> QED BY <1>3, <1>4, BatchAssumption

\* What the outcomes of one call may do to a batch.
LEMMA BatchMoves ==
    ASSUME BatchInv, query = "tools", query' = "tools", NEW i \in CallPositions, InBatch,
           NEW where \in Stages \ {"waiting"}, To(i, where), ~HasResult(i),
           ~IsRead(i) => \A j \in CallPositions : IsRead(j) \/ j < i => HasResult(j),
           Cardinality(ReadsRunning') <= ReadLimit,
           \/ refused' = refused /\ ran' = ran
           \/ where = "answered" /\ refused' = refused \cup {calls[i].id} /\ ran' = ran
           \/ where = "answered" /\ refused' = refused /\ ran' = ran \cup {calls[i].id}
    PROVE  BatchInv'
<1>1. /\ kept' = kept /\ conversation' = conversation /\ calls' = calls /\ requests' = requests /\ turns' = turns
      /\ CallPositions' = CallPositions /\ Others' = Others
  BY DEF InBatch, CallPositions, Others, IsRead
<1>2. InTools /\ BatchTypeOK
  BY DEF BatchInv
<1>3. \A j \in CallPositions : stage'[j] = IF j = i THEN where ELSE stage[j]
  BY <1>2 DEF To, BatchTypeOK
<1>4. BatchTypeOK'
  BY <1>1, <1>2 DEF BatchTypeOK, To
<1>5. \A j \in CallPositions : HasResult(j) => HasResult(j)' /\ calls[j].id # calls[i].id
  <2>1. \A j \in CallPositions : calls[j].id = <<requests, Len(conversation) - 1, j>>
    BY <1>2 DEF InTools, BatchIsNamed
  <2> QED BY <1>3, <2>1 DEF HasResult
<1>6. calls[i].id \notin refused \cup ran
  BY <1>2, <1>5 DEF InTools
<1>7. NothingRefusedRan'
  BY <1>6 DEF BatchInv, NothingRefusedRan
<1>8. OthersWait'
  <2> SUFFICES ASSUME NEW j \in Others, stage'[j] # "waiting", NEW k \in CallPositions, IsRead(k) \/ k < j
               PROVE  HasResult(k)'
    BY <1>1 DEF OthersWait, IsRead
  <2>1. j \in CallPositions /\ ~IsRead(j)
    BY DEF Others
  <2>2. HasResult(k)
    BY <1>2, <1>3, <2>1 DEF InTools, OthersWait
  <2> QED BY <1>5, <2>2
<1>9. \A c \in refused' \cup ran' : \E j \in CallPositions : HasResult(j)' /\ c = calls[j].id
  <2>1. where = "answered" => HasResult(i)'
    BY <1>3 DEF HasResult
  <2>2. \A c \in refused \cup ran : \E j \in CallPositions : HasResult(j)' /\ c = calls[j].id
    BY <1>2, <1>5 DEF InTools
  <2> QED BY <2>1, <2>2
<1>10. InTools'
  BY <1>1, <1>2, <1>8, <1>9 DEF InTools, BatchIsNamed
<1> QED BY <1>1, <1>4, <1>7, <1>10 DEF BatchInv

\* A read begins while there is a place.
LEMMA StartReadKeepsBatch ==
    ASSUME BatchInv, NEW i \in CallPositions, StartRead(i)
    PROVE  BatchInv'
<1>1. BatchTypeOK /\ InTools
  BY DEF BatchInv, StartRead
<1>2. calls' = calls /\ CallPositions' = CallPositions
  BY DEF StartRead, InBatch, CallPositions
<1>3. \A j \in CallPositions : stage'[j] = IF j = i THEN "permission" ELSE stage[j]
  BY <1>1 DEF StartRead, To, BatchTypeOK
<1>4. ReadsRunning' = ReadsRunning \cup {i} /\ i \notin ReadsRunning
  BY <1>2, <1>3 DEF ReadsRunning, Executing, IsRead, StartRead
<1>5. IsFiniteSet(ReadsRunning) /\ Cardinality(ReadsRunning) \in Nat
  BY <1>1, ReadsAreFinite, FS_CardinalityType
<1>6. Cardinality(ReadsRunning') = Cardinality(ReadsRunning) + 1
  BY <1>4, <1>5, FS_AddElement
<1>7. Cardinality(ReadsRunning) < ReadLimit
  BY DEF StartRead, ReadsRunning
<1>8. Cardinality(ReadsRunning') <= ReadLimit
  BY <1>5, <1>6, <1>7, BatchAssumption
<1> QED BY <1>8, BatchMoves DEF StartRead, HasResult, Stages

\* Another call begins when it is its turn.
LEMMA StartOtherKeepsBatch ==
    ASSUME BatchInv, NEW i \in CallPositions, StartOther(i)
    PROVE  BatchInv'
<1> DEFINE where == IF calls[i].kind = "unknown" THEN "answered" ELSE "permission"
<1>1. BatchTypeOK /\ Cardinality(ReadsRunning) <= ReadLimit
  BY DEF BatchInv, InTools, StartOther
<1>2. To(i, where) /\ InBatch /\ where \in Stages \ {"waiting"}
  BY DEF StartOther, Stages
<1> HIDE DEF where
<1>3. Cardinality(ReadsRunning') <= ReadLimit
  BY <1>1, <1>2, ReadsStay DEF StartOther
<1> QED BY <1>2, <1>3, BatchMoves DEF StartOther, HasResult

\* A call that is underway goes on, or ends with a result.
LEMMA UnderwayKeepsBatch ==
    ASSUME BatchInv, query = "tools", query' = "tools", NEW i \in CallPositions, InBatch, Executing(i),
           NEW where \in Stages \ {"waiting"}, To(i, where),
           \/ refused' = refused /\ ran' = ran
           \/ where = "answered" /\ refused' = refused \cup {calls[i].id} /\ ran' = ran
           \/ where = "answered" /\ refused' = refused /\ ran' = ran \cup {calls[i].id}
    PROVE  BatchInv'
<1>1. BatchTypeOK /\ InTools
  BY DEF BatchInv
<1>2. Cardinality(ReadsRunning') <= ReadLimit
  BY <1>1, ReadsStay DEF InTools
<1>3. ~HasResult(i) /\ stage[i] # "waiting"
  BY DEF HasResult, Executing
<1>4. ~IsRead(i) => \A j \in CallPositions : IsRead(j) \/ j < i => HasResult(j)
  BY <1>1, <1>3 DEF InTools, OthersWait, Others
<1> QED BY <1>2, <1>3, <1>4, BatchMoves

\* Validation, permission, approval and handler.
LEMMA CallKeepsBatch ==
    ASSUME BatchInv, NEW i \in CallPositions,
           Invalid(i) \/ Permit(i) \/ Approve(i) \/ HandlerEnds(i)
    PROVE  BatchInv'
<1>1. CASE Invalid(i)
  BY <1>1, UnderwayKeepsBatch DEF Invalid, Executing, Stages
<1>2. CASE Permit(i)
  <2>1. query = "tools" /\ query' = "tools" /\ InBatch /\ Executing(i) /\ ran' = ran
    BY <1>2 DEF Permit, Executing
  <2>2. CASE To(i, "handler") /\ refused' = refused
    BY <2>1, <2>2, UnderwayKeepsBatch DEF Stages
  <2>3. CASE To(i, "approval") /\ refused' = refused
    BY <2>1, <2>3, UnderwayKeepsBatch DEF Stages
  <2>4. CASE To(i, "answered") /\ refused' = refused \cup {calls[i].id}
    BY <2>1, <2>4, UnderwayKeepsBatch DEF Stages
  <2> QED BY <1>2, <2>2, <2>3, <2>4 DEF Permit
<1>3. CASE Approve(i)
  <2>1. query = "tools" /\ query' = "tools" /\ InBatch /\ Executing(i) /\ ran' = ran
    BY <1>3 DEF Approve, Executing
  <2>2. CASE To(i, "handler") /\ refused' = refused
    BY <2>1, <2>2, UnderwayKeepsBatch DEF Stages
  <2>3. CASE To(i, "answered") /\ refused' = refused \cup {calls[i].id}
    BY <2>1, <2>3, UnderwayKeepsBatch DEF Stages
  <2> QED BY <1>3, <2>2, <2>3 DEF Approve
<1>4. CASE HandlerEnds(i)
  BY <1>4, UnderwayKeepsBatch DEF HandlerEnds, Executing, Stages
<1> QED BY <1>1, <1>2, <1>3, <1>4

\* What a request that fails leaves behind is not kept.
LEMMA FailureKeepsBatch ==
    ASSUME BatchInv, UNCHANGED <<kept, conversation, turns, calls, stage, requests>>, query' = "failed",
           NothingRefusedRan'
    PROVE  BatchInv'
BY DEF BatchInv, BatchTypeOK, CallPositions

\* The audit log fails a request in the middle of a call.
LEMMA AuditKeepsBatch ==
    ASSUME BatchInv, NEW i \in CallPositions, AuditFails(i)
    PROVE  BatchInv'
<1>1. InTools /\ query = "tools"
  BY DEF BatchInv, AuditFails
<1>2. \A j \in CallPositions : calls[j].id = <<requests, Len(conversation) - 1, j>>
  BY <1>1 DEF InTools, BatchIsNamed
<1>3. ~HasResult(i)
  BY DEF AuditFails, Executing, HasResult
<1>4. calls[i].id \notin refused \cup ran
  BY <1>1, <1>2, <1>3 DEF InTools
<1>5. NothingRefusedRan'
  BY <1>4 DEF AuditFails, BatchInv, NothingRefusedRan
<1> QED BY <1>5, FailureKeepsBatch DEF AuditFails, InBatch

(***************************************************************************)
(* Requests and answers.                                                   *)
(***************************************************************************)

\* A new request starts from the history that was kept.
LEMMA RequestKeepsBatch ==
    ASSUME BatchInv, RequestSent
    PROVE  BatchInv'
<1> DEFINE m == [role |-> "user", calls |-> {}]   n == Len(kept)
<1>1. kept \in Seq(Message) /\ n \in Nat /\ requests \in Nat /\ kept' = kept /\ requests' = requests + 1 /\ m \in Message
  BY DEF BatchInv, BatchTypeOK, RequestSent, Message
<1>2. /\ conversation' = Append(kept, m) /\ conversation' \in Seq(Message) /\ Len(conversation') = n + 1
      /\ conversation'[n + 1] = m /\ \A k \in 1 .. n : conversation'[k] = kept[k]
  BY <1>1, AppendProperties DEF RequestSent
<1>3. BatchTypeOK'
  BY <1>1, <1>2, EmptySeq DEF BatchInv, BatchTypeOK, RequestSent, CallPositions
<1>4. WholeUpTo(conversation', n + 1)
  <2>1. WholeUpTo(conversation', n)
    BY <1>1, <1>2, SameMessages DEF BatchInv
  <2>2. conversation'[n + 1].role # "tool" /\ conversation'[n + 1].calls = {}
    BY <1>2
  <2> QED BY <1>1, <2>1, <2>2, MessageWithoutCalls
<1>5. \A k \in 1 .. n : \A c \in kept[k].calls : c[1] \in Nat /\ c[1] <= requests
  <2> SUFFICES ASSUME NEW k \in 1 .. n, NEW c \in kept[k].calls PROVE c[1] \in Nat /\ c[1] <= requests
    OBVIOUS
  <2>1. kept[k] \in Message
    BY <1>1, ElementOfSeq
  <2> QED BY <2>1 DEF Message, CallIds, BatchInv, NamedUpTo
<1>6. NamedBefore(conversation', n + 1, requests + 1) /\ NamedUpTo(kept, requests + 1)
  BY <1>1, <1>2, <1>5 DEF NamedBefore, NamedUpTo
<1>7. BetweenBatches'
  BY <1>1, <1>2, <1>4, <1>6 DEF BetweenBatches, RequestSent
<1>8. NothingRefusedRan' /\ query' = "model"
  BY DEF RequestSent, NothingRefusedRan
<1>9. WholeUpTo(kept, Len(kept))' /\ NamedUpTo(kept, requests)'
  BY <1>1, <1>6 DEF BatchInv
<1> QED BY <1>3, <1>7, <1>8, <1>9 DEF BatchInv

\* The message of an answer is the last; its calls, if any, are the new batch.
LEMMA AnswerKeepsBatch ==
    ASSUME BatchInv, NEW size \in 0 .. MaxCalls, NEW kinds \in [1 .. size -> Kinds], AnswerTurn(kinds)
    PROVE  BatchInv'
<1> DEFINE n == Len(conversation)   asked == Batch(kinds, conversation)
           m == [role |-> "assistant", calls |-> {asked[i].id : i \in DOMAIN asked}]
<1>1. /\ BatchTypeOK /\ BetweenBatches /\ conversation \in Seq(Message) /\ n \in Nat /\ requests \in Nat
      /\ size \in Nat
  BY BatchAssumption DEF BatchInv, BatchTypeOK, AnswerTurn
<1>2. /\ DOMAIN asked = 1 .. size
      /\ \A i \in 1 .. size : asked[i] \in CallType /\ asked[i].id = <<requests, n, i>>
  BY <1>1 DEF Batch, CallType, CallIds
<1>3. asked \in Seq(CallType) /\ Len(asked) = size
  <2>1. asked = [i \in 1 .. size |-> asked[i]]
    BY <1>2 DEF Batch
  <2> HIDE DEF asked
  <2>2. asked \in [1 .. size -> CallType]
    BY <1>2, <2>1
  <2> QED BY <1>1, <2>2, LenProperties, IsASeq
<1>4. /\ kept' = kept /\ requests' = requests /\ turns' = turns + 1 /\ calls' = asked
      /\ refused' = {} /\ ran' = {} /\ stage' = [i \in 1 .. size |-> "waiting"]
  BY <1>1, <1>2 DEF AnswerTurn, BetweenBatches
<1>5. m \in Message
  <2>1. \A i \in DOMAIN asked : asked[i].id \in CallIds
    BY <1>2 DEF CallType
  <2> HIDE DEF asked
  <2> QED BY <2>1 DEF Message
<1>6. conversation' = Append(conversation, m)
  BY DEF AnswerTurn
<1> HIDE DEF asked, m
<1>7. /\ conversation' \in Seq(Message) /\ Len(conversation') = n + 1
      /\ conversation'[n + 1] = m /\ \A k \in 1 .. n : conversation'[k] = conversation[k]
  BY <1>1, <1>5, <1>6, AppendProperties
<1>8. CallPositions' = 1 .. size /\ stage' \in [1 .. size -> Stages] /\ query' \in {"finishing", "tools"}
  BY <1>2, <1>4 DEF CallPositions, Stages, AnswerTurn
<1>9. BatchTypeOK'
  <2>1. /\ kept' \in Seq(Message) /\ turns' \in Nat /\ requests' \in Nat /\ calls' \in Seq(CallType)
        /\ query' \in {"over", "model", "tools", "finishing", "failed"}
    BY <1>1, <1>3, <1>4, <1>8 DEF BatchTypeOK
  <2>2. stage' \in [CallPositions' -> Stages]
    BY <1>8
  <2> QED BY <1>7, <2>1, <2>2 DEF BatchTypeOK
<1>10. WholeUpTo(conversation', n)
  BY <1>1, <1>7, SameMessages DEF BetweenBatches
<1>11. NamedBefore(conversation', n, requests)
  BY <1>1, <1>7 DEF BetweenBatches, NamedBefore
<1>12. query' = "tools" => InTools'
  <2>1. BatchIsNamed(Len(conversation))'
    BY <1>1, <1>2, <1>4, <1>7, <1>8 DEF BatchIsNamed, m
  <2>2. OthersWait' /\ ReadsRunning' = {}
    BY <1>4, <1>8 DEF OthersWait, Others, ReadsRunning, Executing
  <2>3. Cardinality(ReadsRunning') <= ReadLimit
    BY <2>2, FS_EmptySet, BatchAssumption
  <2>4. Len(conversation') - 1 = n
    BY <1>1, <1>7
  <2> QED BY <1>4, <1>10, <1>11, <2>1, <2>2, <2>3, <2>4 DEF InTools
<1>13. query' = "finishing" => BetweenBatches'
  <2> SUFFICES ASSUME query' = "finishing" PROVE BetweenBatches'
    OBVIOUS
  <2>1. kinds = <<>>
    BY DEF AnswerTurn
  <2>2. size = 0
    BY <1>1, <2>1
  <2>3. DOMAIN asked = {} /\ Len(asked) = 0
    BY <1>2, <1>3, <2>2
  <2>4. m.role = "assistant" /\ m.calls = {} /\ calls' = <<>>
    BY <1>3, <1>4, <2>3, EmptySeq DEF m
  <2>5. WholeUpTo(conversation', n + 1)
    BY <1>1, <1>7, <1>10, <2>4, MessageWithoutCalls
  <2>6. NamedBefore(conversation', n + 1, requests)
    <3> SUFFICES ASSUME NEW k \in 1 .. n + 1, NEW c \in conversation'[k].calls
                 PROVE  c[1] <= requests /\ (c[1] = requests => c[2] < n + 1)
      BY DEF NamedBefore
    <3>1. k \in 1 .. n
      BY <1>7, <2>4
    <3>2. c \in CallIds
      <4>1. conversation'[k] \in Message
        BY <1>7, ElementOfSeq
      <4> QED BY <4>1 DEF Message
    <3> QED BY <1>1, <1>11, <3>1, <3>2 DEF NamedBefore, CallIds
  <2> QED BY <1>4, <1>7, <2>4, <2>5, <2>6 DEF BetweenBatches
<1>14. WholeUpTo(kept, Len(kept))' /\ NamedUpTo(kept, requests)'
  BY <1>4 DEF BatchInv
<1> QED BY <1>4, <1>8, <1>9, <1>12, <1>13, <1>14 DEF BatchInv, NothingRefusedRan

\* The results of a batch are behind the answer that asked for them.
LEMMA ReportKeepsBatch ==
    ASSUME BatchInv, Report
    PROVE  BatchInv'
<1>1. BatchTypeOK /\ InTools
  BY DEF BatchInv, Report
<1>2. Len(conversation) \in Nat /\ Len(conversation) > 0 /\ Len(calls) \in Nat
  BY <1>1 DEF BatchTypeOK, InTools, BatchIsNamed
<1>3. PICK n \in Nat : Len(conversation) = n + 1
  <2>1. Len(conversation) - 1 \in Nat /\ Len(conversation) = Len(conversation) - 1 + 1
    BY <1>2
  <2> QED BY <2>1
<1>4. PICK size \in Nat : Len(calls) = size
  BY <1>2
<1>5. PICK end \in Nat : end = n + 1 + size
  OBVIOUS
<1>6. /\ conversation \in Seq(Message) /\ requests \in Nat /\ CallPositions = 1 .. size
      /\ Len(conversation) - 1 = n
  BY <1>1, <1>3, <1>4 DEF BatchTypeOK, CallPositions
<1>7. PICK order \in ResultOrder :
         conversation' = conversation \o [k \in DOMAIN order |-> [role |-> "tool", calls |-> {calls[order[k]].id}]]
  BY DEF Report
<1>8. /\ order \in [1 .. size -> 1 .. size]
      /\ \A k, m \in 1 .. size : order[k] = order[m] => k = m
      /\ \A i \in 1 .. size : \E k \in 1 .. size : order[k] = i
  BY <1>1, <1>6, OrderHasEveryCall
<1>9. /\ conversation[n + 1] = [role |-> "assistant", calls |-> {calls[i].id : i \in 1 .. size}]
      /\ \A i \in 1 .. size : calls[i].id = <<requests, n, i>>
  <2>1. BatchIsNamed(n + 1)
    BY <1>1, <1>3 DEF InTools
  <2>2. n + 1 - 1 = n
    OBVIOUS
  <2> QED BY <1>6, <2>1, <2>2 DEF BatchIsNamed
<1> DEFINE results == [k \in 1 .. size |-> [role |-> "tool", calls |-> {calls[order[k]].id}]]
<1>10. results \in Seq(Message) /\ Len(results) = size
  <2>1. \A i \in 1 .. size : calls[i].id \in CallIds
    <3>1. \A i \in 1 .. size : <<requests, n, i>> \in CallIds
      BY <1>6 DEF CallIds
    <3> QED BY <1>9, <3>1
  <2>2. results \in [1 .. size -> Message]
    BY <1>8, <2>1 DEF Message
  <2> HIDE DEF results
  <2> QED BY <2>2, IsASeq, LenProperties
<1>11. conversation' = conversation \o results
  BY <1>7, <1>8
<1>12. \A k \in 1 .. size : results[k].role = "tool" /\ results[k].calls = {calls[order[k]].id}
  OBVIOUS
<1> HIDE DEF results
<1>13. /\ conversation' \in Seq(Message) /\ Len(conversation') = end
      /\ \A k \in 1 .. n + 1 : conversation'[k] = conversation[k]
      /\ \A m \in n + 2 .. end : conversation'[m] = results[m - (n + 1)]
  <2>1. /\ conversation \o results \in Seq(Message)
        /\ Len(conversation \o results) = n + 1 + size
        /\ \A k \in 1 .. n + 1 + size :
              (conversation \o results)[k] = IF k <= n + 1 THEN conversation[k] ELSE results[k - (n + 1)]
    <3>1. /\ conversation \o results \in Seq(Message)
          /\ Len(conversation \o results) = Len(conversation) + Len(results)
          /\ \A k \in 1 .. Len(conversation) + Len(results) : (conversation \o results)[k] =
                IF k <= Len(conversation) THEN conversation[k] ELSE results[k - Len(conversation)]
      BY <1>6, <1>10, ConcatProperties
    <3> QED BY <1>3, <1>10, <3>1
  <2>2. \A k \in 1 .. n + 1 : k \in 1 .. n + 1 + size /\ k <= n + 1
    OBVIOUS
  <2>3. \A m \in n + 2 .. end : m \in 1 .. n + 1 + size /\ ~(m <= n + 1)
    BY <1>5
  <2> QED BY <1>5, <1>11, <2>1, <2>2, <2>3
<1>14. \A m \in n + 2 .. end : m - (n + 1) \in 1 .. size
  BY <1>5
<1> DEFINE of == [m \in n + 2 .. end |-> order[m - (n + 1)]]
<1>15. of \in [n + 2 .. end -> 1 .. size] /\ \A m \in n + 2 .. end : of[m] = order[m - (n + 1)]
  BY <1>8, <1>14
<1> HIDE DEF of
<1>16. /\ \A k, m \in n + 2 .. end : of[k] = of[m] => k = m
       /\ \A i \in 1 .. size : \E k \in n + 2 .. end : of[k] = i
  <2>1. ASSUME NEW k \in n + 2 .. end, NEW m \in n + 2 .. end, of[k] = of[m] PROVE k = m
    <3>1. order[k - (n + 1)] = order[m - (n + 1)]
      BY <1>15, <2>1
    <3>2. k - (n + 1) = m - (n + 1)
      BY <1>8, <1>14, <3>1
    <3> QED BY <3>2
  <2>2. ASSUME NEW i \in 1 .. size PROVE \E k \in n + 2 .. end : of[k] = i
    <3>1. PICK k \in 1 .. size : order[k] = i
      BY <1>8
    <3>2. k + (n + 1) \in n + 2 .. end /\ k + (n + 1) - (n + 1) = k
      BY <1>5
    <3>3. of[k + (n + 1)] = i
      BY <1>15, <3>1, <3>2
    <3> QED BY <3>2, <3>3
  <2> QED BY <2>1, <2>2
<1> DEFINE id == [i \in 1 .. size |-> calls[i].id]
<1>17. \A i \in 1 .. size : id[i] = calls[i].id /\ id[i] = <<requests, n, i>>
  BY <1>9
<1> HIDE DEF id
<1>18. WholeUpTo(conversation', n)
  <2>1. \A k \in 1 .. n : conversation[k] = conversation'[k]
    BY <1>13
  <2>2. WholeUpTo(conversation, n)
    BY <1>1, <1>6 DEF InTools
  <2> QED BY <2>1, <2>2, SameMessages
<1>19. conversation'[n + 1].role = "assistant" /\ conversation'[n + 1].calls = {id[i] : i \in 1 .. size}
  <2>1. conversation'[n + 1] = conversation[n + 1]
    BY <1>13
  <2>2. {calls[i].id : i \in 1 .. size} = {id[i] : i \in 1 .. size}
    BY <1>17
  <2> QED BY <1>9, <2>1, <2>2
<1>20. \A i, j \in 1 .. size : id[i] = id[j] => i = j
  BY <1>17
<1>21. \A k \in 1 .. n : \A c \in conversation[k].calls : c[1] <= requests /\ (c[1] = requests => c[2] < n)
  BY <1>1, <1>6 DEF InTools, NamedBefore
<1>22. \A k \in 1 .. n : \A i \in 1 .. size : id[i] \notin conversation'[k].calls
  <2> SUFFICES ASSUME NEW k \in 1 .. n, NEW i \in 1 .. size, id[i] \in conversation[k].calls PROVE FALSE
    BY <1>13
  <2>1. id[i][1] = requests /\ id[i][2] = n
    BY <1>17
  <2>2. n < n
    BY <1>21, <2>1
  <2> QED BY <2>2
<1>23. \A m \in n + 2 .. end : conversation'[m].role = "tool" /\ conversation'[m].calls = {id[of[m]]}
  <2> SUFFICES ASSUME NEW m \in n + 2 .. end
               PROVE  conversation'[m].role = "tool" /\ conversation'[m].calls = {id[of[m]]}
    OBVIOUS
  <2> DEFINE k == m - (n + 1)
  <2>1. k \in 1 .. size /\ conversation'[m] = results[k] /\ of[m] = order[k]
    <3>1. k \in 1 .. size
      BY <1>14
    <3>2. conversation'[m] = results[k]
      BY <1>13
    <3>3. of[m] = order[k]
      BY <1>15
    <3> QED BY <3>1, <3>2, <3>3
  <2> HIDE DEF k
  <2>2. id[order[k]] = calls[order[k]].id
    BY <1>8, <1>17, <2>1
  <2> QED BY <1>12, <2>1, <2>2
<1>24. n + 1 <= end
  BY <1>5
<1>25. WholeUpTo(conversation', end)
  <2>1. Answering(conversation', n, end, 1 .. size, id, of)
    BY <1>15, <1>16, <1>19, <1>20, <1>22, <1>23, <1>24 DEF Answering
  <2> QED BY <1>18, <2>1, BatchIsAnswered
<1>26. NamedBefore(conversation', end, requests)
  <2> SUFFICES ASSUME NEW k \in 1 .. end, NEW c \in conversation'[k].calls
               PROVE  c[1] <= requests /\ (c[1] = requests => c[2] < end)
    BY DEF NamedBefore
  <2>1. CASE k \in 1 .. n
    <3>1. c \in conversation[k].calls
      BY <1>13, <2>1
    <3>2. conversation[k] \in Message
      BY <1>6, <1>3, <2>1, ElementOfSeq
    <3>3. c[2] \in Nat
      BY <3>1, <3>2 DEF Message, CallIds
    <3> QED BY <1>21, <1>24, <2>1, <3>1, <3>3
  <2>2. CASE k \in n + 1 .. end
    <3>1. k = n + 1 \/ k \in n + 2 .. end
      BY <2>2
    <3>2. \E i \in 1 .. size : c = id[i]
      <4>1. CASE k = n + 1
        BY <1>19, <4>1
      <4>2. CASE k \in n + 2 .. end
        <5>1. of[k] \in 1 .. size /\ c = id[of[k]]
          BY <1>15, <1>23, <4>2
        <5> QED BY <5>1
      <4> QED BY <3>1, <4>1, <4>2
    <3>3. c[1] = requests /\ c[2] = n
      BY <1>17, <3>2
    <3> QED BY <1>6, <1>24, <3>3
  <2> QED BY <1>6, <2>1, <2>2
<1>27. /\ kept' = kept /\ requests' = requests /\ turns' = turns /\ calls' = <<>> /\ stage' = <<>>
       /\ refused' = {} /\ ran' = {} /\ query' = "model"
  BY DEF Report
<1>28. BatchTypeOK'
  BY <1>1, <1>13, <1>27, EmptySeq DEF BatchTypeOK, CallPositions
<1>29. BetweenBatches'
  BY <1>13, <1>25, <1>26, <1>27 DEF BetweenBatches
<1>30. WholeUpTo(kept, Len(kept))' /\ NamedUpTo(kept, requests)'
  BY <1>27 DEF BatchInv
<1> QED BY <1>27, <1>28, <1>29, <1>30 DEF BatchInv, NothingRefusedRan

\* Only a request that ended replaces the history of the Agent.
LEMMA FinishKeepsBatch ==
    ASSUME BatchInv, Finish
    PROVE  BatchInv'
<1>1. BatchTypeOK /\ BetweenBatches
  BY DEF BatchInv, Finish
<1>2. /\ kept' = conversation /\ conversation' = conversation /\ requests' = requests /\ turns' = turns
      /\ calls' = calls /\ stage' = stage /\ refused' = refused /\ ran' = ran /\ query' = "over"
  BY DEF Finish
<1>3. NamedUpTo(conversation, requests)
  BY <1>1 DEF BetweenBatches, NamedBefore, NamedUpTo
<1>4. WholeUpTo(kept, Len(kept))' /\ NamedUpTo(kept, requests)'
  BY <1>1, <1>2, <1>3 DEF BetweenBatches
<1>5. BatchTypeOK'
  BY <1>1, <1>2 DEF BatchTypeOK, CallPositions
<1> QED BY <1>2, <1>4, <1>5 DEF BatchInv, NothingRefusedRan

\* A new Agent.
LEMMA BatchInitially == BatchInit => BatchInv
<1> SUFFICES ASSUME BatchInit PROVE BatchInv
  OBVIOUS
<1>1. BatchTypeOK /\ Len(kept) = 0
  BY EmptySeq DEF BatchInit, BatchTypeOK, CallPositions
<1>2. WholeUpTo(kept, Len(kept)) /\ NamedUpTo(kept, requests)
  BY <1>1 DEF WholeUpTo, CallsHaveResults, ResultsHaveCalls, NamedUpTo
<1> QED BY <1>1, <1>2 DEF BatchInit, BatchInv, NothingRefusedRan

\* Every step keeps the invariant.
LEMMA BatchStep == BatchInv /\ [BatchNext]_batchVars => BatchInv'
<1> SUFFICES ASSUME BatchInv, [BatchNext]_batchVars PROVE BatchInv'
  OBVIOUS
<1>1. ASSUME UNCHANGED batchVars PROVE BatchInv'
  BY <1>1 DEF batchVars, BatchInv, BatchTypeOK, CallPositions, NothingRefusedRan, BetweenBatches, InTools,
     BatchIsNamed, OthersWait, Others, IsRead, HasResult, ReadsRunning, Executing
<1>2. ASSUME RequestSent PROVE BatchInv'
  BY <1>2, RequestKeepsBatch
<1>3. ASSUME StreamFails \/ CancelRequest PROVE BatchInv'
  BY <1>3, FailureKeepsBatch DEF StreamFails, CancelRequest, BatchInv, NothingRefusedRan
<1>4. ASSUME Report PROVE BatchInv'
  BY <1>4, ReportKeepsBatch
<1>5. ASSUME Finish PROVE BatchInv'
  BY <1>5, FinishKeepsBatch
<1>6. ASSUME NEW size \in 0 .. MaxCalls, NEW kinds \in [1 .. size -> Kinds], AnswerTurn(kinds) PROVE BatchInv'
  BY <1>6, AnswerKeepsBatch
<1>7. ASSUME NEW i \in CallPositions, StartRead(i) PROVE BatchInv'
  BY <1>7, StartReadKeepsBatch
<1>8. ASSUME NEW i \in CallPositions, StartOther(i) PROVE BatchInv'
  BY <1>8, StartOtherKeepsBatch
<1>9. ASSUME NEW i \in CallPositions, Invalid(i) \/ Permit(i) \/ Approve(i) \/ HandlerEnds(i) PROVE BatchInv'
  BY <1>9, CallKeepsBatch
<1>10. ASSUME NEW i \in CallPositions, AuditFails(i) PROVE BatchInv'
  BY <1>10, AuditKeepsBatch
<1> QED BY <1>1, <1>2, <1>3, <1>4, <1>5, <1>6, <1>7, <1>8, <1>9, <1>10 DEF BatchNext

\* Of two calls that run at once, both are reads.
LEMMA RunningTogether == BatchInv => CallsDoNotCollide
<1> SUFFICES ASSUME BatchInv, query = "tools" PROVE CallsDoNotCollide
  BY DEF CallsDoNotCollide
<1>1. InTools /\ CallPositions = 1 .. Len(calls) /\ Len(calls) \in Nat
  BY DEF BatchInv, BatchTypeOK, CallPositions
<1>2. ASSUME NEW i \in CallPositions, NEW j \in CallPositions, Executing(i), Executing(j), i # j PROVE IsRead(i)
  <2> SUFFICES ASSUME ~IsRead(i) PROVE FALSE
    OBVIOUS
  <2>1. ~HasResult(j) /\ ~HasResult(i) /\ stage[i] # "waiting" /\ stage[j] # "waiting"
    BY <1>2 DEF Executing, HasResult
  <2>2. ~IsRead(j) /\ ~(j < i)
    BY <1>1, <2>1 DEF InTools, OthersWait, Others
  <2>3. i < j
    BY <1>1, <1>2, <2>2
  <2> QED BY <1>1, <2>1, <2>2, <2>3 DEF InTools, OthersWait, Others
<1> QED BY <1>1, <1>2 DEF CallsDoNotCollide, InTools, ReadsRunning

\* The Agent's batches are sound (BatchIsSound) for any number of requests, turns and
\* calls: a call that changes something runs alone, what was refused does not run, and
\* the history that is kept has one result for each call, behind the answer that asked.
THEOREM BatchesAreSound == BatchSpec => []BatchIsSound
<1>1. BatchInv => KeptHistoryIsWhole
  <2> SUFFICES ASSUME BatchInv PROVE KeptHistoryIsWhole
    OBVIOUS
  <2>1. DOMAIN kept = 1 .. Len(kept) /\ WholeUpTo(kept, Len(kept))
    BY DEF BatchInv, BatchTypeOK
  <2>2. \A c : ResultsOf(c) = ResultPlaces(kept, Len(kept), c)
    BY <2>1 DEF ResultsOf, ResultPlaces
  <2> QED BY <2>1, <2>2 DEF KeptHistoryIsWhole, WholeUpTo, CallsHaveResults, ResultsHaveCalls
<1>2. BatchInv => BatchIsSound
  BY <1>1, RunningTogether DEF BatchInv, BatchIsSound
<1> QED BY <1>2, BatchInitially, BatchStep, PTL DEF BatchSpec
(***************************************************************************)
(* RunTrace.  Of each activity, TraceInv says which of its spans it will   *)
(* still close (Refers), and what its copy of the state tells while nobody *)
(* saved since (Copied); of all spans, which are the checkpoints that were *)
(* saved (SpansCounted), and that an execution that recovered the Run has       *)
(* closed those before it, or is about to (Recovers).                      *)
(***************************************************************************)
RowType == [sequence : Nat, status : {"none", "RUNNING", "INTERRUPTED"} \cup Finished,
            turns : Nat, next : {"llm", "tool", "complete"}]

SpanType == [type : {"checkpoint", "resume", "interrupt", "llm", "llm step", "tool step"},
             status : {"RUNNING", "SUCCEEDED", "FAILED", "CANCELLED", "INTERRUPTED"}]

TraceRecord == [status : {"none", "RUNNING", "INTERRUPTED"} \cup Finished, ended : BOOLEAN,
                tool : {"none", "RUNNING", "SUCCEEDED", "FAILED", "CANCELLED"}]

ToolStatus == {"none", "PENDING", "RUNNING", "SUCCEEDED", "FAILED"}
ActivityKinds == {"start", "resume", "interrupt", "cancel"}

InTool == {"tool", "run", "running", "close", "cancelled", "reuse"}
InStep == {"llm", "calling", "step"} \cup InTool
InSave == {"save", "advance", "saved"}

\* Where only executions are, and where a copy may still be saved.
InExecution == {"stale", "resume", "loop", "open"} \cup InStep
BeforeSave == {"trace", "stale", "resume", "save", "advance", "open", "llm", "calling"} \cup InTool
Positions == {"idle", "ended", "trace", "conflict", "raised", "update", "note",
              "noted", "finish", "returned"} \cup InSave \cup InExecution

Thens(kind) == IF kind \in {"start", "resume"} THEN {kind, "step", "end"} ELSE {kind}

ActivityShape(x) ==
    /\ DOMAIN x = {"kind", "at", "state", "stale", "recovered", "resume", "step", "span", "then", "failed"}
    /\ x.at \in Positions
    /\ x.at = "idle" => x = NewActivity
    /\ x.at # "idle" => x.kind \in ActivityKinds
    /\ x.at \notin {"idle", "ended"} => x.state \in RowType
    /\ x.at \in InExecution => x.kind \in {"start", "resume"}
    /\ x.at \in {"stale", "resume"} => x.kind = "resume"
    /\ x.recovered => x.kind = "resume"
    /\ x.at \in InSave => x.then \in Thens(x.kind)
    /\ x.at \in InStep => x.then = "step"
    /\ x.at \in {"note", "noted"} => x.kind = "interrupt"

\* The spans s of an activity that it may still close.
HoldsSpans(x, s) ==
    /\ x.step \in Nat /\ x.resume \in Nat
    /\ x.step # 0 => x.step \in DOMAIN s /\ s[x.step].type \in {"llm step", "tool step"}
    /\ x.resume # 0 => x.resume \in DOMAIN s /\ s[x.resume].type = "resume"

Refers(x, s) ==
    /\ HoldsSpans(x, s)
    /\ x.at \in InStep \/ (x.at \in InSave /\ x.then = "step") => x.step # 0
    /\ x.at \in {"advance", "saved", "conflict"} => x.span \in DOMAIN s /\ s[x.span].type = "checkpoint"
    /\ x.at \in {"advance", "saved"} => s[x.span].status # "FAILED"
    /\ x.at = "noted" => x.span \in DOMAIN s /\ s[x.span].type = "interrupt"
    /\ x.at = "calling" => x.span \in DOMAIN s /\ s[x.span] = [type |-> "llm", status |-> "RUNNING"]

\* What the copy tells of the row r, while its sequence is that of the row.
CopiesRow(x, r) ==
    /\ x.at \notin {"idle", "ended"} => x.state.sequence <= r.sequence
    /\ x.at \in BeforeSave /\ x.state.sequence = r.sequence => r.status \notin Finished
    /\ x.at \in {"trace", "stale", "resume"} \/ (x.at \in {"save", "advance"} /\ x.kind \in {"interrupt", "cancel"}) =>
          (x.state.sequence = r.sequence => x.state.next = r.next)
    /\ x.at \in {"save", "advance"} /\ x.then \in {"cancel", "end"} => x.state.status \in Finished
    /\ x.at = "finish" \/ (x.at = "saved" /\ x.then \in {"cancel", "end"}) =>
          x.state.status \in Finished /\ r.status = x.state.status
    /\ x.at = "returned" /\ x.state.status \in Finished => r.status = x.state.status

\* Where an execution is in the turn of the Run; t is the tool's record and s its span.
FollowsTurn(x, r, t, s) ==
    /\ x.at \in {"open", "llm", "calling"} \cup InTool => x.state.next = r.next
    /\ x.at = "open" => r.next \in {"llm", "tool"}
    /\ x.at \in {"llm", "calling"} => r.next = "llm"
    /\ x.at \in InTool => r.next = "tool"
    /\ x.at \in {"run", "running"} => s = "RUNNING"
    /\ x.at = "run" => t \in {"PENDING", "RUNNING"}
    /\ x.at = "running" => t = "RUNNING"
    /\ x.at \in {"reuse", "close"} => t \in {"SUCCEEDED", "FAILED"}
    /\ x.at = "reuse" => s # "none"
    /\ x.at = "cancelled" => t = "FAILED"
    /\ x.at \in {"save", "advance"} /\ x.state.sequence = r.sequence =>
          x.state.next = "tool" \/ r.next # "tool" \/ s = t

\* The activities begin in order, and an execution when those before it have ended.
InTurn ==
    /\ \E k \in 0 .. MaxActivities : {a \in Activities : ~At(a, "idle")} = 1 .. k
    /\ \A a, b \in Execution : b < a => At(b, "ended")

\* The spans of executions before a that are open.
OpenBefore(a) == {id \in SpanIds : id[1] \in Execution /\ id[1] < a /\ Span(id).status = "RUNNING"}

\* An execution that recovers the Run closes the spans of those before it.
Recovers(a) ==
    /\ At(a, "stale") =>
          /\ OpenBefore(a) \subseteq activity[a].stale /\ activity[a].stale \subseteq SpanIds
          /\ \A id \in activity[a].stale : Span(id).type = "llm" => Span(id).status = "RUNNING"
    /\ activity[a].recovered /\ (At(a, "resume") \/ activity[a].resume # 0) => OpenBefore(a) = {}

Succeeded(type) == {id \in SpanIds : Span(id) = [type |-> type, status |-> "SUCCEEDED"]}

\* The checkpoints that were saved.
SavedCheckpoints(saves) ==
    /\ saves \subseteq {id \in SpanIds : Span(id).type = "checkpoint" /\ Span(id).status # "FAILED"}
    /\ Succeeded("checkpoint") \subseteq saves
    /\ Cardinality(saves) = row.sequence
    /\ \A a \in Activities :
          /\ At(a, "saved") => <<a, activity[a].span>> \in saves
          /\ activity[a].at \in {"advance", "conflict"} => <<a, activity[a].span>> \notin saves

SpansCounted ==
    /\ IsFiniteSet(SpanIds)
    /\ \E saves \in SUBSET SpanIds : SavedCheckpoints(saves)
    /\ row.turns <= Cardinality(Succeeded("llm"))
    /\ \A a \in Activities :
          activity[a].at \notin {"idle", "ended"} => activity[a].state.turns <= Cardinality(Succeeded("llm"))

TraceTypeOK ==
    /\ row \in RowType /\ tool \in ToolStatus
    /\ trace \in TraceRecord
    /\ spans \in [Activities -> Seq(SpanType)]
    /\ DOMAIN activity = Activities /\ \A a \in Activities : ActivityShape(activity[a])

ToolIsTraced ==
    /\ tool = "none" => trace.tool = "none"
    /\ tool = "PENDING" => trace.tool \in {"none", "RUNNING"}
    /\ tool = "SUCCEEDED" => trace.tool \in {"RUNNING", "SUCCEEDED"}

TraceInv ==
    /\ TraceTypeOK
    /\ InTurn
    /\ \A a \in Activities :
          /\ Refers(activity[a], spans[a])
          /\ CopiesRow(activity[a], row) /\ FollowsTurn(activity[a], row, tool, trace.tool)
          /\ Recovers(a)
    /\ SpansCounted
    /\ ToolIsTraced
    /\ EndedTraceIsRight /\ ToolSpanFollowsTool
(***************************************************************************)
(* What the step of an activity may do to the spans.                       *)
(***************************************************************************)
ChangesSpan(a, id, new) ==
    /\ new.type = Span(id).type
    /\ new # Span(id) =>
          /\ new.status # "RUNNING"
          /\ Span(id).type = "llm" => Span(id).status = "RUNNING" /\ activity[a].at \in {"calling", "stale"}
          /\ id[1] = a \/ (At(a, "stale") /\ new.status = "INTERRUPTED")
          /\ Span(id).type = "checkpoint" =>
                \/ new.status = "INTERRUPTED"
                \/ /\ id = <<a, activity[a].span>>
                   /\ \/ At(a, "saved") /\ new.status = "SUCCEEDED"
                      \/ At(a, "conflict") /\ new.status = "FAILED"

SpansGo(a) ==
    /\ spans' \in [Activities -> Seq(SpanType)]
    /\ SpanIds \subseteq SpanIds' /\ SpanIds' \ SpanIds \subseteq {<<a, NewSpan(a)>>}
    /\ \A id \in SpanIds' \ SpanIds : Span(id)'.status = "RUNNING"
    /\ \A id \in SpanIds : ChangesSpan(a, id, Span(id)')

\* A span is known by its activity and its number (start_span).
LEMMA SpanIdsAre ==
    /\ \A b \in Activities : \A n : <<b, n>> \in SpanIds <=> n \in DOMAIN spans[b]
    /\ \A id \in SpanIds : \E b \in Activities : \E n \in DOMAIN spans[b] : id = <<b, n>>
    /\ \A b, n : Span(<<b, n>>) = spans[b][n]
<1>1. \A b \in Activities : \A n \in DOMAIN spans[b] : <<b, n>> \in SpanIds
  BY DEF SpanIds
<1>2. \A id \in SpanIds : \E b \in Activities : \E n \in DOMAIN spans[b] : id = <<b, n>>
  BY DEF SpanIds
<1> QED BY <1>1, <1>2 DEF Span

\* The same of the spans after a step.
LEMMA SpanIdsAreAfter ==
    /\ \A b \in Activities : \A n : <<b, n>> \in SpanIds' <=> n \in DOMAIN spans'[b]
    /\ \A id \in SpanIds' : \E b \in Activities : \E n \in DOMAIN spans'[b] : id = <<b, n>>
    /\ \A b, n : Span(<<b, n>>)' = spans'[b][n]
<1>1. \A b \in Activities : \A n \in DOMAIN spans'[b] : <<b, n>> \in SpanIds'
  BY DEF SpanIds
<1>2. \A id \in SpanIds' : \E b \in Activities : \E n \in DOMAIN spans'[b] : id = <<b, n>>
  BY DEF SpanIds
<1> QED BY <1>1, <1>2 DEF Span

\* Most steps leave the spans alone.
LEMMA SpansStay ==
    ASSUME spans \in [Activities -> Seq(SpanType)], UNCHANGED spans, NEW a \in Activities
    PROVE  SpansGo(a)
<1>1. SpanIds' = SpanIds /\ \A id : Span(id)' = Span(id)
  BY DEF SpanIds, Span
<1> QED BY <1>1 DEF SpansGo, ChangesSpan

\* What Append does to the spans of an activity.
LEMMA AppendsOne ==
    ASSUME NEW S, NEW s \in Seq(S), NEW e \in S
    PROVE  /\ Append(s, e) \in Seq(S) /\ Len(s) \in Nat
           /\ DOMAIN s = 1 .. Len(s) /\ DOMAIN Append(s, e) = 1 .. Len(s) + 1
           /\ Append(s, e)[Len(s) + 1] = e
           /\ \A n \in DOMAIN s : Append(s, e)[n] = s[n]
<1>1. DOMAIN s = 1 .. Len(s) /\ Len(s) \in Nat /\ Append(s, e) \in Seq(S) /\ Len(Append(s, e)) = Len(s) + 1
  OBVIOUS
<1>2. DOMAIN Append(s, e) = 1 .. Len(s) + 1
  BY <1>1
<1>3. Append(s, e)[Len(s) + 1] = e /\ \A n \in 1 .. Len(s) : Append(s, e)[n] = s[n]
  BY <1>1
<1> QED BY <1>1, <1>2, <1>3

\* A span that is opened is the last of its activity (start_span).
LEMMA SpanIsAppended ==
    ASSUME spans \in [Activities -> Seq(SpanType)], NEW a \in Activities, NEW new \in SpanType, new.status = "RUNNING",
           spans' = [spans EXCEPT ![a] = Append(spans[a], new)]
    PROVE  /\ SpansGo(a)
           /\ <<a, NewSpan(a)>> \notin SpanIds
           /\ NewSpan(a) \in Nat \ {0} /\ NewSpan(a) \in DOMAIN spans'[a]
           /\ spans'[a][NewSpan(a)] = new
           /\ \A n \in DOMAIN spans[a] : n \in DOMAIN spans'[a] /\ spans'[a][n] = spans[a][n]
<1>1. PICK k \in Nat, more \in Seq(SpanType) :
          /\ more = Append(spans[a], new) /\ k = Len(spans[a])
          /\ DOMAIN spans[a] = 1 .. k /\ DOMAIN more = 1 .. k + 1 /\ more[k + 1] = new
          /\ \A n \in DOMAIN spans[a] : more[n] = spans[a][n]
  <2>1. PICK s \in Seq(SpanType) : s = spans[a]
    OBVIOUS
  <2>2. /\ Append(s, new) \in Seq(SpanType) /\ Len(s) \in Nat
        /\ DOMAIN s = 1 .. Len(s) /\ DOMAIN Append(s, new) = 1 .. Len(s) + 1
        /\ Append(s, new)[Len(s) + 1] = new
        /\ \A n \in DOMAIN s : Append(s, new)[n] = s[n]
    BY AppendsOne
  <2> QED BY <2>1, <2>2, Zenon
<1>2. NewSpan(a) = k + 1
  BY <1>1 DEF NewSpan
<1>3. spans' = [spans EXCEPT ![a] = more]
  BY <1>1
<1>4. /\ DOMAIN spans[a] = 1 .. k /\ DOMAIN more = 1 .. k + 1 /\ more[NewSpan(a)] = new
      /\ \A n \in DOMAIN spans[a] : more[n] = spans[a][n]
  BY <1>1, <1>2
<1>5. /\ NewSpan(a) \in Nat \ {0} /\ NewSpan(a) \in DOMAIN more /\ NewSpan(a) \notin DOMAIN spans[a]
      /\ \A n \in DOMAIN more : n \in DOMAIN spans[a] \/ n = NewSpan(a)
      /\ \A n \in DOMAIN spans[a] : n \in DOMAIN more
  BY <1>2, <1>4
<1>6. new.status = "RUNNING"
  OBVIOUS
<1>7. /\ spans' \in [Activities -> Seq(SpanType)] /\ spans'[a] = more
      /\ \A b \in Activities \ {a} : spans'[b] = spans[b]
  BY <1>3
<1>8. SpanIds \subseteq SpanIds' /\ \A id \in SpanIds : Span(id)' = Span(id)
  <2>1. ASSUME NEW b \in Activities, NEW n \in DOMAIN spans[b]
        PROVE  n \in DOMAIN spans'[b] /\ spans'[b][n] = spans[b][n]
    BY <1>4, <1>5, <1>7
  <2>2. ASSUME NEW id \in SpanIds PROVE id \in SpanIds' /\ Span(id)' = Span(id)
    <3>1. PICK b \in Activities : \E n \in DOMAIN spans[b] : id = <<b, n>>
      BY SpanIdsAre, Zenon
    <3>2. PICK n \in DOMAIN spans[b] : id = <<b, n>>
      BY <3>1, Zenon
    <3>3. n \in DOMAIN spans'[b] /\ spans'[b][n] = spans[b][n]
      BY <2>1, Zenon
    <3>4. <<b, n>> \in SpanIds'
      BY <3>3, SpanIdsAreAfter, Zenon
    <3>5. Span(<<b, n>>)' = spans'[b][n] /\ Span(<<b, n>>) = spans[b][n]
      BY SpanIdsAre, SpanIdsAreAfter, Zenon
    <3> QED BY <3>2, <3>3, <3>4, <3>5
  <2> QED BY <2>2
<1>9. <<a, NewSpan(a)>> \notin SpanIds
  BY <1>5, SpanIdsAre
<1>10. \A id \in SpanIds' \ SpanIds : id = <<a, NewSpan(a)>> /\ Span(id)' = new
  <2>1. ASSUME NEW b \in Activities, NEW n \in DOMAIN spans'[b]
        PROVE  n \in DOMAIN spans[b] \/ (b = a /\ n = NewSpan(a) /\ spans'[b][n] = new)
    BY <1>4, <1>5, <1>7
  <2>2. ASSUME NEW id \in SpanIds' \ SpanIds PROVE id = <<a, NewSpan(a)>> /\ Span(id)' = new
    <3>1. id \in SpanIds'
      OBVIOUS
    <3>2. PICK b \in Activities : \E n \in DOMAIN spans'[b] : id = <<b, n>>
      BY <3>1, SpanIdsAreAfter, Zenon
    <3>3. PICK n \in DOMAIN spans'[b] : id = <<b, n>>
      BY <3>2, Zenon
    <3>4. n \notin DOMAIN spans[b]
      BY <3>3, SpanIdsAre
    <3>5. Span(<<b, n>>)' = spans'[b][n]
      BY SpanIdsAreAfter, Zenon
    <3> QED BY <2>1, <3>3, <3>4, <3>5
  <2> QED BY <2>2
<1>11. SpansGo(a)
  BY <1>6, <1>7, <1>8, <1>10 DEF SpansGo, ChangesSpan
<1>12. \A n \in DOMAIN spans[a] : n \in DOMAIN spans'[a] /\ spans'[a][n] = spans[a][n]
  BY <1>4, <1>5, <1>7
<1> QED BY <1>4, <1>5, <1>7, <1>9, <1>11, <1>12

\* The same of start_span.
LEMMA SpanIsOpened ==
    ASSUME spans \in [Activities -> Seq(SpanType)], NEW a \in Activities,
           NEW type \in {"checkpoint", "resume", "interrupt", "llm", "llm step", "tool step"}, OpenSpan(a, type)
    PROVE  /\ SpansGo(a)
           /\ <<a, NewSpan(a)>> \notin SpanIds
           /\ NewSpan(a) \in Nat \ {0} /\ NewSpan(a) \in DOMAIN spans'[a]
           /\ spans'[a][NewSpan(a)] = [type |-> type, status |-> "RUNNING"]
           /\ \A n \in DOMAIN spans[a] : n \in DOMAIN spans'[a] /\ spans'[a][n] = spans[a][n]
<1>1. PICK new \in SpanType : new = [type |-> type, status |-> "RUNNING"]
  BY DEF SpanType
<1>2. spans' = [spans EXCEPT ![a] = Append(spans[a], new)] /\ new.status = "RUNNING"
  BY <1>1 DEF OpenSpan
<1> QED BY <1>1, <1>2, SpanIsAppended

\* A span that is closed gets its status, and the others stay (finish_span).
LEMMA SpanIsClosed ==
    ASSUME spans \in [Activities -> Seq(SpanType)], NEW a \in Activities,
           NEW b \in Activities, NEW n \in DOMAIN spans[b],
           NEW status \in {"SUCCEEDED", "FAILED", "CANCELLED", "INTERRUPTED"}, CloseSpan(b, n, status),
           ChangesSpan(a, <<b, n>>, [type |-> spans[b][n].type, status |-> status])
    PROVE  /\ SpansGo(a) /\ SpanIds' = SpanIds
           /\ spans'[b][n] = [type |-> spans[b][n].type, status |-> status]
           /\ \A c \in Activities : DOMAIN spans'[c] = DOMAIN spans[c]
           /\ \A c \in Activities : \A m \in DOMAIN spans[c] : <<c, m>> # <<b, n>> => spans'[c][m] = spans[c][m]
<1> DEFINE new == [type |-> spans[b][n].type, status |-> status]
<1>1. spans[b] \in Seq(SpanType) /\ spans[b][n] \in SpanType /\ new \in SpanType
  <2>1. spans[b] \in Seq(SpanType) /\ spans[b][n] \in SpanType
    OBVIOUS
  <2> QED BY <2>1 DEF SpanType
<1>2. [spans[b][n] EXCEPT !.status = status] = new
  BY <1>1 DEF SpanType
<1>3. spans' = [spans EXCEPT ![b] = [spans[b] EXCEPT ![n] = new]]
  BY <1>2 DEF CloseSpan
<1>4. DOMAIN spans[b] = 1 .. Len(spans[b])
  BY <1>1
<1>5. [spans[b] EXCEPT ![n] = new] \in Seq(SpanType)
  BY <1>1, <1>4
<1> HIDE DEF new
<1>6. /\ spans' \in [Activities -> Seq(SpanType)] /\ spans'[b] = [spans[b] EXCEPT ![n] = new]
      /\ \A c \in Activities \ {b} : spans'[c] = spans[c]
  BY <1>3, <1>5
<1>7. DOMAIN spans'[b] = DOMAIN spans[b] /\ spans'[b][n] = new /\ \A m \in DOMAIN spans[b] \ {n} : spans'[b][m] = spans[b][m]
  BY <1>6
<1>8. \A c \in Activities : DOMAIN spans'[c] = DOMAIN spans[c]
  BY <1>6, <1>7
<1>9. \A c \in Activities : \A m \in DOMAIN spans[c] : <<c, m>> # <<b, n>> => spans'[c][m] = spans[c][m]
  BY <1>6, <1>7
<1>10. SpanIds' = SpanIds
  BY <1>8 DEF SpanIds
<1>11. \A id \in SpanIds : id # <<b, n>> => Span(id)' = Span(id)
  BY <1>9, SpanIdsAre, SpanIdsAreAfter
<1>12. Span(<<b, n>>)' = new
  BY <1>7, SpanIdsAreAfter
<1>13. \A id \in SpanIds : ChangesSpan(a, id, Span(id)')
  <2> TAKE id \in SpanIds
  <2>1. CASE id = <<b, n>>
    BY <2>1, <1>12 DEF new
  <2>2. CASE id # <<b, n>>
    BY <2>2, <1>11 DEF ChangesSpan
  <2> QED BY <2>1, <2>2
<1>14. SpansGo(a)
  BY <1>6, <1>10, <1>13 DEF SpansGo
<1> QED BY <1>7, <1>8, <1>9, <1>10, <1>14 DEF new
(***************************************************************************)
(* The step of an activity, and what it leaves of the others.              *)
(***************************************************************************)
Runs(x) == x.at \notin {"idle", "ended"}

\* Activity a goes on as x, or stays where it is.
MovesOn(a, x) ==
    /\ Now(a, x) \/ (UNCHANGED activity /\ x = activity[a])
    /\ Runs(activity[a]) /\ x.at # "idle" /\ x.kind = activity[a].kind
    /\ ActivityShape(x)

\* One execution at a time (the claim of Begin).
LEMMA OneExecution ==
    ASSUME InTurn, NEW a \in Execution, NEW b \in Execution, Runs(activity[a]), Runs(activity[b])
    PROVE  a = b
<1>1. a \in Nat /\ b \in Nat
  BY DEF Execution, Activities
<1> QED BY <1>1 DEF InTurn, At, Runs

\* A step of an activity keeps the order of activities.
LEMMA TurnIsKept ==
    ASSUME TraceTypeOK, InTurn, NEW a \in Activities, NEW x, MovesOn(a, x)
    PROVE  /\ activity'[a] = x /\ \A b \in Activities \ {a} : activity'[b] = activity[b]
           /\ DOMAIN activity' = Activities /\ \A b \in Activities : ActivityShape(activity'[b])
           /\ Execution' = Execution /\ InTurn'
<1>1. /\ activity'[a] = x /\ \A b \in Activities \ {a} : activity'[b] = activity[b]
      /\ DOMAIN activity' = Activities
  BY DEF MovesOn, Now, TraceTypeOK
<1>2. \A b \in Activities : ActivityShape(activity'[b])
  BY <1>1 DEF MovesOn, TraceTypeOK
<1>3. Execution' = Execution
  BY <1>1 DEF MovesOn, Execution
<1>4. {b \in Activities : ~At(b, "idle")}' = {b \in Activities : ~At(b, "idle")}
  BY <1>1 DEF MovesOn, At, Runs
<1>5. ASSUME NEW b \in Execution, NEW c \in Execution, c < b PROVE activity'[c].at = "ended"
  <2>1. activity[c].at = "ended"
    BY <1>5 DEF InTurn, At
  <2>2. c # a /\ c \in Activities
    BY <2>1 DEF MovesOn, Runs, Execution
  <2> QED BY <1>1, <2>1, <2>2
<1> QED BY <1>1, <1>2, <1>3, <1>4, <1>5 DEF InTurn, At

\* What other activities refer to is as they left it, or was closed by a recovery.
LEMMA OthersRefer ==
    ASSUME TraceTypeOK, InTurn, NEW a \in Activities, Runs(activity[a]), SpansGo(a),
           NEW b \in Activities \ {a}, Refers(activity[b], spans[b])
    PROVE  Refers(activity[b], spans'[b])
<1>1. \A n \in DOMAIN spans[b] :
          n \in DOMAIN spans'[b] /\ ChangesSpan(a, <<b, n>>, spans'[b][n]) /\ Span(<<b, n>>) = spans[b][n]
  <2> TAKE n \in DOMAIN spans[b]
  <2>1. <<b, n>> \in SpanIds /\ Span(<<b, n>>) = spans[b][n] /\ Span(<<b, n>>)' = spans'[b][n]
    BY SpanIdsAre, SpanIdsAreAfter
  <2>2. n \in DOMAIN spans'[b]
    BY <2>1, SpanIdsAreAfter DEF SpansGo
  <2> QED BY <2>1, <2>2 DEF SpansGo
<1>2. \A n \in DOMAIN spans[b] :
          /\ n \in DOMAIN spans'[b] /\ spans'[b][n].type = spans[b][n].type
          /\ spans'[b][n] # spans[b][n] => spans'[b][n].status = "INTERRUPTED" /\ At(a, "stale")
  BY <1>1 DEF ChangesSpan
<1>3. ASSUME At(a, "stale") PROVE activity[b].at # "calling"
  <2>1. activity[a].at \in InExecution /\ ActivityShape(activity[a]) /\ ActivityShape(activity[b])
    BY <1>3 DEF At, InExecution, TraceTypeOK
  <2>2. a \in Execution
    BY <2>1 DEF ActivityShape, Execution
  <2>3. ASSUME activity[b].at = "calling" PROVE b \in Execution
    BY <2>1, <2>3 DEF ActivityShape, Execution, InExecution, InStep
  <2> QED BY <2>2, <2>3, OneExecution DEF Runs
<1>4. /\ activity[b].at \in {"advance", "saved"} => spans'[b][activity[b].span].status # "FAILED"
      /\ activity[b].at = "calling" => spans'[b][activity[b].span] = spans[b][activity[b].span]
  BY <1>2, <1>3 DEF Refers
<1> QED BY <1>2, <1>4 DEF Refers, HoldsSpans

\* Only a recovery closes spans of other activities: what it is to leave closed stays so.
LEMMA RecoveriesStand ==
    ASSUME TraceInv, NEW a \in Activities, NEW x, MovesOn(a, x), SpansGo(a)
    PROVE  /\ \A b \in Execution : OpenBefore(b)' \subseteq OpenBefore(b)
           /\ \A b \in Activities \ {a} : Recovers(b)'
<1>1. /\ activity'[a] = x /\ \A b \in Activities \ {a} : activity'[b] = activity[b]
      /\ Execution' = Execution /\ TraceTypeOK /\ InTurn
  BY TurnIsKept DEF TraceInv
<1>2. ASSUME NEW b \in Execution, NEW id \in OpenBefore(b)' PROVE id \in OpenBefore(b)
  <2>1. id \in SpanIds' /\ id[1] \in Execution /\ id[1] < b /\ Span(id)'.status = "RUNNING"
    BY <1>1, <1>2 DEF OpenBefore
  <2>2. activity[id[1]].at = "ended"
    BY <2>1, <1>1 DEF InTurn, At
  <2>3. id[1] # a
    BY <2>2 DEF MovesOn, Runs
  <2>4. id \in SpanIds
    <3>1. id \in {<<a, NewSpan(a)>>} => id[1] = a
      OBVIOUS
    <3> QED BY <2>1, <2>3, <3>1 DEF SpansGo
  <2>5. ChangesSpan(a, id, Span(id)')
    BY <2>4 DEF SpansGo
  <2>6. Span(id).status = "RUNNING"
    BY <2>1, <2>5 DEF ChangesSpan
  <2> QED BY <2>1, <2>4, <2>6 DEF OpenBefore
<1>3. \A b \in Execution : OpenBefore(b)' \subseteq OpenBefore(b)
  BY <1>2
<1>4. ASSUME NEW b \in Activities \ {a} PROVE Recovers(b)'
  <2>1. activity'[b] = activity[b] /\ ActivityShape(activity[b]) /\ Recovers(b)
    BY <1>1 DEF TraceInv, TraceTypeOK
  <2>2. At(b, "stale") \/ activity[b].recovered => b \in Execution
    BY <2>1 DEF ActivityShape, At, Execution
  <2>3. ASSUME At(b, "stale"), NEW id \in activity[b].stale, Span(id)'.type = "llm"
        PROVE  Span(id)'.status = "RUNNING"
    <3>1. id \in SpanIds /\ (Span(id).type = "llm" => Span(id).status = "RUNNING")
      BY <2>1, <2>3 DEF Recovers
    <3>2. ChangesSpan(a, id, Span(id)')
      BY <3>1 DEF SpansGo
    <3>3. Span(id).status = "RUNNING"
      BY <2>3, <3>1, <3>2 DEF ChangesSpan
    <3>4. ASSUME Span(id)' # Span(id) PROVE FALSE
      <4>1. activity[a].at \in {"calling", "stale"}
        BY <3>1, <3>2, <3>3, <3>4, <2>3 DEF ChangesSpan
      <4>2. a \in Execution /\ Runs(activity[a])
        BY <4>1, <1>1 DEF TraceTypeOK, ActivityShape, Execution, InExecution, InStep, Runs
      <4>3. b \in Execution /\ Runs(activity[b])
        BY <2>2, <2>3 DEF At, Runs
      <4> QED BY <4>2, <4>3, <1>1, OneExecution
    <3> QED BY <3>3, <3>4
  <2> QED BY <1>3, <2>1, <2>2, <2>3 DEF Recovers, SpansGo, At
<1> QED BY <1>3, <1>4
\* A recovery that is over stays so for what its activity does later.
LEMMA OwnRecoveryStands ==
    ASSUME TraceInv, NEW a \in Activities, NEW x, MovesOn(a, x), SpansGo(a),
           x.at \notin {"stale", "resume"}, x.recovered = activity[a].recovered, x.resume = activity[a].resume
    PROVE  Recovers(a)'
<1>1. activity'[a] = x /\ ActivityShape(activity[a]) /\ Recovers(a)
  BY TurnIsKept DEF TraceInv, TraceTypeOK
<1>2. ASSUME x.recovered, x.resume # 0 PROVE OpenBefore(a)' = {}
  <2>1. a \in Execution /\ OpenBefore(a) = {}
    BY <1>1, <1>2 DEF ActivityShape, Execution, Recovers
  <2> QED BY <2>1, RecoveriesStand
<1> QED BY <1>1, <1>2 DEF Recovers, At

\* The sets of spans that were counted are finite.
LEMMA ClosedIsFinite ==
    ASSUME IsFiniteSet(SpanIds), NEW type
    PROVE  IsFiniteSet(Succeeded(type)) /\ Cardinality(Succeeded(type)) \in Nat
<1>1. Succeeded(type) \subseteq SpanIds
  BY DEF Succeeded
<1> QED BY <1>1, FS_Subset, FS_CardinalityType

\* No model call that succeeded is closed again, so that turns stay counted.
LEMMA CallsStayClosed ==
    ASSUME SpansCounted, NEW a \in Activities, SpansGo(a)
    PROVE  /\ IsFiniteSet(SpanIds)' /\ Succeeded("llm") \subseteq Succeeded("llm")'
           /\ IsFiniteSet(Succeeded("llm")')
           /\ Cardinality(Succeeded("llm")) \in Nat /\ Cardinality(Succeeded("llm"))' \in Nat
           /\ Cardinality(Succeeded("llm")) <= Cardinality(Succeeded("llm"))'
<1>1. IsFiniteSet(SpanIds')
  <2>1. IsFiniteSet(SpanIds \cup {<<a, NewSpan(a)>>})
    BY FS_AddElement DEF SpansCounted
  <2>2. SpanIds' \subseteq SpanIds \cup {<<a, NewSpan(a)>>}
    BY DEF SpansGo
  <2> QED BY <2>1, <2>2, FS_Subset
<1>2. Succeeded("llm") \subseteq Succeeded("llm")'
  <2> SUFFICES ASSUME NEW id \in Succeeded("llm") PROVE id \in Succeeded("llm")'
    OBVIOUS
  <2>1. id \in SpanIds /\ Span(id) = [type |-> "llm", status |-> "SUCCEEDED"]
    BY DEF Succeeded
  <2>2. id \in SpanIds' /\ ChangesSpan(a, id, Span(id)')
    BY <2>1 DEF SpansGo
  <2>3. Span(id)' = Span(id)
    BY <2>1, <2>2 DEF ChangesSpan
  <2> QED BY <2>1, <2>2, <2>3 DEF Succeeded
<1>3. IsFiniteSet(Succeeded("llm")') /\ Cardinality(Succeeded("llm")') \in Nat
  <2>1. Succeeded("llm")' \subseteq SpanIds'
    BY DEF Succeeded
  <2> QED BY <1>1, <2>1, FS_Subset, FS_CardinalityType
<1>4. Cardinality(Succeeded("llm")) \in Nat
  BY ClosedIsFinite DEF SpansCounted
<1>5. Cardinality(Succeeded("llm")) <= Cardinality(Succeeded("llm")')
  BY <1>2, <1>3, FS_Subset
<1> QED BY <1>1, <1>2, <1>3, <1>4, <1>5

\* What a step that saves nothing must show for the counts.
CountsOn(a, x) ==
    /\ x.at # "saved"
    /\ x.at = "advance" => <<a, x.span>> \notin SpanIds
    /\ x.at = "conflict" => At(a, "advance") /\ x.span = activity[a].span
    /\ Runs(x) => x.state.turns <= Cardinality(Succeeded("llm"))'

\* The checkpoints and turns stay counted while none is saved (_save_checkpoint).
LEMMA CountsStay ==
    ASSUME TraceInv, NEW a \in Activities, NEW x, MovesOn(a, x), SpansGo(a), row' = row, CountsOn(a, x)
    PROVE  SpansCounted'
<1>1. /\ activity'[a] = x /\ \A b \in Activities \ {a} : activity'[b] = activity[b]
      /\ TraceTypeOK /\ SpansCounted
  BY TurnIsKept DEF TraceInv
<1>2. PICK saves \in SUBSET SpanIds : SavedCheckpoints(saves)
  BY <1>1 DEF SpansCounted
<1>3. saves \subseteq SpanIds'
  BY DEF SpansGo
<1>4. \A id \in saves : Span(id)'.type = "checkpoint" /\ Span(id)'.status # "FAILED"
  <2> TAKE id \in saves
  <2>1. Span(id).type = "checkpoint" /\ Span(id).status # "FAILED" /\ ChangesSpan(a, id, Span(id)')
    BY <1>2 DEF SavedCheckpoints, SpansGo
  <2>2. At(a, "conflict") => id # <<a, activity[a].span>>
    BY <1>2 DEF SavedCheckpoints, At
  <2> QED BY <2>1, <2>2 DEF ChangesSpan
<1>5. Succeeded("checkpoint")' \subseteq saves
  <2> SUFFICES ASSUME NEW id \in SpanIds', Span(id)' = [type |-> "checkpoint", status |-> "SUCCEEDED"]
               PROVE  id \in saves
    BY DEF Succeeded
  <2>1. id \in SpanIds
    BY DEF SpansGo
  <2>2. ChangesSpan(a, id, Span(id)')
    BY <2>1 DEF SpansGo
  <2>3. CASE Span(id)' = Span(id)
    BY <1>2, <2>1, <2>3 DEF SavedCheckpoints, Succeeded
  <2>4. CASE Span(id)' # Span(id)
    <3>1. id = <<a, activity[a].span>> /\ At(a, "saved")
      BY <2>2, <2>4 DEF ChangesSpan
    <3> QED BY <1>2, <3>1 DEF SavedCheckpoints
  <2> QED BY <2>3, <2>4
<1>6. ASSUME NEW b \in Activities
      PROVE  /\ activity'[b].at = "saved" => <<b, activity'[b].span>> \in saves
             /\ activity'[b].at \in {"advance", "conflict"} => <<b, activity'[b].span>> \notin saves
  <2>1. CASE b # a
    BY <1>1, <1>2, <2>1 DEF SavedCheckpoints, At
  <2>2. CASE b = a
    BY <1>1, <1>2, <2>2 DEF SavedCheckpoints, CountsOn, At
  <2> QED BY <2>1, <2>2
<1>7. SavedCheckpoints(saves)'
  BY <1>2, <1>3, <1>4, <1>5, <1>6 DEF SavedCheckpoints, At
<1>8. \A b \in Activities : Runs(activity'[b]) => activity'[b].state.turns <= Cardinality(Succeeded("llm"))'
  <2> TAKE b \in Activities
  <2>1. CASE b # a
    <3>1. activity'[b] = activity[b] /\ (Runs(activity[b]) => activity[b].state.turns <= Cardinality(Succeeded("llm")))
      BY <1>1, <2>1 DEF SpansCounted, Runs
    <3>2. Runs(activity[b]) => activity[b].state.turns \in Nat
      BY <1>1 DEF TraceTypeOK, ActivityShape, Runs, RowType
    <3> QED BY <1>1, <3>1, <3>2, CallsStayClosed
  <2>2. CASE b = a
    BY <1>1, <2>2 DEF CountsOn
  <2> QED BY <2>1, <2>2
<1>9. row'.turns <= Cardinality(Succeeded("llm"))'
  <2>1. row.turns \in Nat /\ row.turns <= Cardinality(Succeeded("llm"))
    BY <1>1 DEF TraceTypeOK, RowType, SpansCounted
  <2> QED BY <1>1, <2>1, CallsStayClosed
<1> QED BY <1>1, <1>3, <1>7, <1>8, <1>9, CallsStayClosed DEF SpansCounted, Runs

\* While an execution runs the tool, no other activity depends on the tool's record.
LEMMA OthersFollow ==
    ASSUME TraceInv, NEW a \in Activities, Runs(activity[a]), NEW b \in Activities \ {a},
           (tool' = tool /\ trace'.tool = trace.tool) \/ activity[a].at \in InTool
    PROVE  FollowsTurn(activity[b], row, tool', trace'.tool)
<1>1. /\ FollowsTurn(activity[b], row, tool, trace.tool) /\ CopiesRow(activity[b], row)
      /\ ActivityShape(activity[a]) /\ ActivityShape(activity[b]) /\ InTurn
      /\ FollowsTurn(activity[a], row, tool, trace.tool)
  BY DEF TraceInv, TraceTypeOK
<1>2. CASE activity[a].at \in InTool
  <2>1. row.next = "tool"
    BY <1>1, <1>2 DEF FollowsTurn
  <2>2. a \in Execution
    BY <1>1, <1>2 DEF ActivityShape, Execution, InExecution, InStep
  <2>3. Runs(activity[b]) => activity[b].kind \notin {"start", "resume"}
    BY <1>1, <2>2, OneExecution DEF Execution
  <2>4. activity[b].at \notin InExecution
    BY <1>1, <2>3 DEF ActivityShape, Runs, InExecution, InStep, InTool
  <2>5. activity[b].at \in {"save", "advance"} /\ activity[b].state.sequence = row.sequence =>
            activity[b].state.next = row.next
    BY <1>1, <2>3 DEF ActivityShape, CopiesRow, Runs, ActivityKinds
  <2> QED BY <2>1, <2>4, <2>5 DEF FollowsTurn, InExecution, InStep, InTool
<1> QED BY <1>1, <1>2

\* What a step of an activity shows that saves nothing.
Keeps(a, x) ==
    /\ MovesOn(a, x) /\ SpansGo(a) /\ row' = row
    /\ tool' \in ToolStatus /\ trace' \in TraceRecord
    /\ (tool' = tool /\ trace'.tool = trace.tool) \/ activity[a].at \in InTool
    /\ Refers(x, spans'[a]) /\ CopiesRow(x, row) /\ FollowsTurn(x, row, tool', trace'.tool)
    /\ \/ x.at \notin {"stale", "resume"} /\ x.recovered = activity[a].recovered /\ x.resume = activity[a].resume
       \/ Recovers(a)'
    /\ CountsOn(a, x)
    /\ ToolIsTraced' /\ EndedTraceIsRight' /\ ToolSpanFollowsTool'

\* Such a step keeps the invariant.
LEMMA ActivityKeeps ==
    ASSUME TraceInv, NEW a \in Activities, NEW x, Keeps(a, x)
    PROVE  TraceInv'
<1>1. MovesOn(a, x) /\ SpansGo(a) /\ row' = row /\ CountsOn(a, x)
  BY DEF Keeps
<1>2. /\ activity'[a] = x /\ \A b \in Activities \ {a} : activity'[b] = activity[b]
      /\ DOMAIN activity' = Activities /\ \A b \in Activities : ActivityShape(activity'[b])
      /\ InTurn'
  BY <1>1, TurnIsKept DEF TraceInv
<1>3. TraceTypeOK'
  BY <1>1, <1>2 DEF TraceTypeOK, TraceInv, Keeps, SpansGo
<1>4. SpansCounted'
  BY <1>1, CountsStay
<1>5. Recovers(a)'
  BY <1>1, OwnRecoveryStands DEF Keeps
<1>6. ASSUME NEW b \in Activities
      PROVE  /\ Refers(activity'[b], spans'[b]) /\ CopiesRow(activity'[b], row')
             /\ FollowsTurn(activity'[b], row', tool', trace'.tool) /\ Recovers(b)'
  <2>1. CASE b = a
    BY <1>1, <1>2, <1>5, <2>1 DEF Keeps
  <2>2. CASE b # a
    <3>1. Refers(activity[b], spans[b]) /\ CopiesRow(activity[b], row)
      BY DEF TraceInv
    <3>2. Refers(activity[b], spans'[b])
      BY <1>1, <2>2, <3>1, OthersRefer DEF TraceInv, MovesOn
    <3>3. FollowsTurn(activity[b], row, tool', trace'.tool)
      BY <1>1, <2>2, OthersFollow DEF Keeps, MovesOn
    <3>4. Recovers(b)'
      BY <1>1, <2>2, RecoveriesStand
    <3> QED BY <1>1, <1>2, <2>2, <3>1, <3>2, <3>3, <3>4
  <2> QED BY <2>1, <2>2
<1> QED BY <1>2, <1>3, <1>4, <1>6 DEF TraceInv, Keeps
\* What the invariant says of one activity.
Known(a) ==
    /\ ActivityShape(activity[a]) /\ Refers(activity[a], spans[a])
    /\ CopiesRow(activity[a], row) /\ FollowsTurn(activity[a], row, tool, trace.tool)
    /\ Recovers(a)

\* Each activity has it.
LEMMA KnownOf ==
    ASSUME TraceInv, NEW a \in Activities
    PROVE  /\ Known(a) /\ row \in RowType /\ tool \in ToolStatus /\ trace \in TraceRecord
           /\ spans \in [Activities -> Seq(SpanType)]
           /\ DOMAIN activity = Activities
           /\ DOMAIN activity[a] = DOMAIN NewActivity
BY DEF TraceInv, TraceTypeOK, Known, ActivityShape, NewActivity

\* What a step shows that leaves the checkpoint, the tool and the trace alone.
Quiet(a, x) ==
    /\ MovesOn(a, x) /\ SpansGo(a) /\ UNCHANGED <<row, tool, trace>>
    /\ Refers(x, spans'[a]) /\ CopiesRow(x, row) /\ FollowsTurn(x, row, tool, trace.tool)
    /\ \/ x.at \notin {"stale", "resume"} /\ x.recovered = activity[a].recovered /\ x.resume = activity[a].resume
       \/ Recovers(a)'
    /\ CountsOn(a, x)

\* Such a step keeps the invariant.
LEMMA QuietKeeps ==
    ASSUME TraceInv, NEW a \in Activities, NEW x, Quiet(a, x)
    PROVE  TraceInv'
<1>1. ToolIsTraced' /\ EndedTraceIsRight' /\ ToolSpanFollowsTool'
  BY DEF Quiet, TraceInv, ToolIsTraced, EndedTraceIsRight, ToolSpanFollowsTool
<1>2. tool' \in ToolStatus /\ trace' \in TraceRecord
  BY KnownOf DEF Quiet
<1>3. Keeps(a, x)
  BY <1>1, <1>2 DEF Quiet, Keeps
<1> QED BY <1>3, ActivityKeeps

\* No step changes what a span is a span of.
LEMMA TypesStay ==
    ASSUME NEW a \in Activities, SpansGo(a)
    PROVE  \A n \in DOMAIN spans[a] : n \in DOMAIN spans'[a] /\ spans'[a][n].type = spans[a][n].type
<1>1. ASSUME NEW n \in DOMAIN spans[a]
      PROVE  n \in DOMAIN spans'[a] /\ spans'[a][n].type = spans[a][n].type
  <2>1. <<a, n>> \in SpanIds /\ Span(<<a, n>>) = spans[a][n] /\ Span(<<a, n>>)' = spans'[a][n]
    BY SpanIdsAre, SpanIdsAreAfter
  <2>2. n \in DOMAIN spans'[a]
    BY <2>1, SpanIdsAreAfter DEF SpansGo
  <2>3. ChangesSpan(a, <<a, n>>, spans'[a][n])
    BY <2>1 DEF SpansGo
  <2> QED BY <2>1, <2>2, <2>3 DEF ChangesSpan
<1> QED BY <1>1

\* The spans that an activity holds stay what they are.
LEMMA HoldsStill ==
    ASSUME TraceInv, NEW a \in Activities, SpansGo(a), NEW x,
           x.step \in {activity[a].step, 0}, x.resume = activity[a].resume
    PROVE  HoldsSpans(x, spans'[a])
<1>1. \A n \in DOMAIN spans[a] : n \in DOMAIN spans'[a] /\ spans'[a][n].type = spans[a][n].type
  BY TypesStay
<1>2. HoldsSpans(activity[a], spans[a])
  BY DEF TraceInv, Refers
<1>3. x.step # 0 => x.step \in DOMAIN spans'[a] /\ spans'[a][x.step].type \in {"llm step", "tool step"}
  <2>1. x.step # 0 => x.step \in DOMAIN spans[a] /\ spans[a][x.step].type \in {"llm step", "tool step"}
    BY <1>2 DEF HoldsSpans
  <2> QED BY <1>1, <2>1
<1>4. x.resume # 0 => x.resume \in DOMAIN spans'[a] /\ spans'[a][x.resume].type = "resume"
  <2>1. x.resume # 0 => x.resume \in DOMAIN spans[a] /\ spans[a][x.resume].type = "resume"
    BY <1>2 DEF HoldsSpans
  <2> QED BY <1>1, <2>1
<1>5. x.step \in Nat /\ x.resume \in Nat
  <2>1. activity[a].step \in Nat /\ activity[a].resume \in Nat
    BY <1>2 DEF HoldsSpans
  <2>2. x.step = activity[a].step \/ x.step = 0
    OBVIOUS
  <2> QED BY <2>1, <2>2
<1> QED BY <1>1, <1>3, <1>4, <1>5 DEF HoldsSpans

\* The turns that a copy tells of are counted still.
LEMMA TurnsStay ==
    ASSUME TraceInv, NEW a \in Activities, SpansGo(a)
    PROVE  /\ row.turns <= Cardinality(Succeeded("llm"))'
           /\ Runs(activity[a]) => activity[a].state.turns <= Cardinality(Succeeded("llm"))'
<1>1. /\ row.turns \in Nat /\ row.turns <= Cardinality(Succeeded("llm"))
      /\ Runs(activity[a]) =>
            activity[a].state.turns \in Nat /\ activity[a].state.turns <= Cardinality(Succeeded("llm"))
  BY DEF TraceInv, TraceTypeOK, RowType, SpansCounted, ActivityShape, Runs
<1> QED BY <1>1, CallsStayClosed DEF TraceInv

(***************************************************************************)
(* The steps.                                                              *)
(***************************************************************************)

\* A checkpoint's span is opened before the checkpoint is saved (_save_checkpoint).
LEMMA OpenSaveKeeps == ASSUME TraceInv, NEW a \in Activities, OpenSave(a) PROVE TraceInv'
<1> DEFINE o == activity[a]
<1>1. PICK x : x = [Going(a, "advance") EXCEPT !.span = NewSpan(a)] /\ Now(a, x)
  BY DEF OpenSave
<1>2. /\ DOMAIN x = DOMAIN o /\ x.kind = o.kind /\ x.at = "advance" /\ x.state = o.state
      /\ x.recovered = o.recovered /\ x.resume = o.resume /\ x.step = o.step /\ x.span = NewSpan(a)
      /\ x.then = o.then
  BY <1>1, KnownOf DEF Going, NewActivity
<1>3. o.at = "save" /\ Known(a) /\ UNCHANGED <<row, tool, trace>>
  BY KnownOf DEF OpenSave, At
<1>4. /\ SpansGo(a) /\ <<a, x.span>> \notin SpanIds /\ x.span \in DOMAIN spans'[a]
      /\ spans'[a][x.span] = [type |-> "checkpoint", status |-> "RUNNING"]
      /\ \A n \in DOMAIN spans[a] : n \in DOMAIN spans'[a] /\ spans'[a][n] = spans[a][n]
  BY <1>2, KnownOf, SpanIsOpened DEF OpenSave
<1>5. MovesOn(a, x)
  BY <1>1, <1>2, <1>3 DEF MovesOn, Known, ActivityShape, Runs, Positions, InSave, InExecution, InStep, InTool
<1>6. Refers(x, spans'[a])
  <2>1. HoldsSpans(x, spans'[a]) /\ (x.then = "step" => x.step # 0)
    BY <1>2, <1>3, <1>4, HoldsStill DEF Known, Refers, InSave
  <2>2. spans'[a][x.span].type = "checkpoint" /\ spans'[a][x.span].status = "RUNNING"
    BY <1>4
  <2> QED BY <1>2, <1>4, <2>1, <2>2 DEF Refers, InSave, InStep, InTool
<1>7. CopiesRow(x, row)
  BY <1>2, <1>3 DEF Known, CopiesRow, BeforeSave, InTool
<1>8. FollowsTurn(x, row, tool, trace.tool)
  BY <1>2, <1>3 DEF Known, FollowsTurn, InTool
<1>9. CountsOn(a, x)
  BY <1>2, <1>3, <1>4, TurnsStay DEF CountsOn, Runs
<1> QED BY <1>2, <1>3, <1>4, <1>5, <1>6, <1>7, <1>8, <1>9, QuietKeeps DEF Quiet
\* It is closed when the checkpoint is saved; where the activity goes then is decided before.
LEMMA CloseSaveKeeps == ASSUME TraceInv, NEW a \in Activities, CloseSave(a) PROVE TraceInv'
<1> DEFINE o == activity[a]
<1>1. PICK x : x = Going(a, AfterSave(o.then)) /\ Now(a, x)
  BY DEF CloseSave
<1>2. /\ DOMAIN x = DOMAIN o /\ x.kind = o.kind /\ x.at = AfterSave(o.then) /\ x.state = o.state
      /\ x.recovered = o.recovered /\ x.resume = o.resume /\ x.step = o.step /\ x.then = o.then
  BY <1>1, KnownOf DEF Going, NewActivity
<1>3. o.at = "saved" /\ Known(a) /\ UNCHANGED <<row, tool, trace>> /\ o.then \in Thens(o.kind) /\ o.kind \in ActivityKinds
  BY KnownOf DEF CloseSave, At, Known, ActivityShape, InSave
<1>4. /\ o.then \in {"start", "resume", "step", "end", "interrupt", "cancel"}
      /\ x.at \in {"loop", "update", "step"} => o.kind \in {"start", "resume"}
      /\ x.at = "loop" => o.then = "start"
      /\ x.at = "step" => o.then = "step"
      /\ x.at = "note" => o.kind = "interrupt"
      /\ x.at = "finish" => o.then \in {"cancel", "end"}
      /\ x.at \in {"loop", "update", "note", "finish", "step"}
  BY <1>2, <1>3 DEF AfterSave, Thens, ActivityKinds
<1>5. /\ o.span \in DOMAIN spans[a] /\ spans[a][o.span].type = "checkpoint"
      /\ CloseSpan(a, o.span, "SUCCEEDED") /\ At(a, "saved")
  BY <1>3 DEF Known, Refers, CloseSave
<1>6. ChangesSpan(a, <<a, o.span>>, [type |-> spans[a][o.span].type, status |-> "SUCCEEDED"])
  BY <1>5, SpanIdsAre DEF ChangesSpan
<1>7. SpansGo(a)
  BY <1>5, <1>6, KnownOf, SpanIsClosed
<1>8. MovesOn(a, x)
  BY <1>1, <1>2, <1>3, <1>4
     DEF MovesOn, Known, ActivityShape, Runs, Positions, InSave, InExecution, InStep, InTool
<1>9. Refers(x, spans'[a])
  <2>1. HoldsSpans(x, spans'[a]) /\ (o.then = "step" => x.step # 0)
    BY <1>2, <1>3, <1>7, HoldsStill DEF Known, Refers, InSave
  <2> QED BY <1>4, <2>1 DEF Refers, InSave, InStep, InTool
<1>10. CopiesRow(x, row)
  BY <1>2, <1>3, <1>4 DEF Known, CopiesRow, BeforeSave, InTool
<1>11. FollowsTurn(x, row, tool, trace.tool)
  BY <1>4 DEF FollowsTurn, InTool
<1>12. CountsOn(a, x)
  BY <1>2, <1>3, <1>4, <1>7, TurnsStay DEF CountsOn, Runs
<1> QED BY <1>2, <1>3, <1>4, <1>7, <1>8, <1>9, <1>10, <1>11, <1>12, QuietKeeps DEF Quiet

\* A checkpoint that was not saved leaves a failed span, which is none of the counted.
LEMMA FailSaveKeeps == ASSUME TraceInv, NEW a \in Activities, FailSave(a) PROVE TraceInv'
<1> DEFINE o == activity[a]
<1>1. PICK x : x = Going(a, "raised") /\ Now(a, x)
  BY DEF FailSave
<1>2. /\ DOMAIN x = DOMAIN o /\ x.kind = o.kind /\ x.at = "raised" /\ x.state = o.state
      /\ x.recovered = o.recovered /\ x.resume = o.resume /\ x.step = o.step
  BY <1>1, KnownOf DEF Going, NewActivity
<1>3. o.at = "conflict" /\ Known(a) /\ UNCHANGED <<row, tool, trace>>
  BY KnownOf DEF FailSave, At
<1>4. /\ o.span \in DOMAIN spans[a] /\ spans[a][o.span].type = "checkpoint"
      /\ CloseSpan(a, o.span, "FAILED") /\ At(a, "conflict")
  BY <1>3 DEF Known, Refers, FailSave
<1>5. ChangesSpan(a, <<a, o.span>>, [type |-> spans[a][o.span].type, status |-> "FAILED"])
  BY <1>4, SpanIdsAre DEF ChangesSpan
<1>6. SpansGo(a)
  BY <1>4, <1>5, KnownOf, SpanIsClosed
<1>7. MovesOn(a, x)
  BY <1>1, <1>2, <1>3 DEF MovesOn, Known, ActivityShape, Runs, Positions, InSave, InExecution, InStep, InTool
<1>8. Refers(x, spans'[a])
  <2>1. HoldsSpans(x, spans'[a])
    BY <1>2, <1>6, HoldsStill
  <2> QED BY <1>2, <2>1 DEF Refers, InSave, InStep, InTool
<1>9. CopiesRow(x, row) /\ FollowsTurn(x, row, tool, trace.tool)
  BY <1>2, <1>3 DEF Known, CopiesRow, FollowsTurn, BeforeSave, InTool
<1>10. CountsOn(a, x)
  BY <1>2, <1>3, <1>6, TurnsStay DEF CountsOn, Runs
<1> QED BY <1>2, <1>3, <1>6, <1>7, <1>8, <1>9, <1>10, QuietKeeps DEF Quiet

\* What an activity leaves that is over: its spans, and that it recovered the Run.
LEMMA PastFits ==
    ASSUME TraceInv, NEW a \in Activities, Runs(activity[a]), Now(a, Past(a)), SpansGo(a), NEW t, NEW s
    PROVE  /\ MovesOn(a, Past(a)) /\ Refers(Past(a), spans'[a]) /\ CopiesRow(Past(a), row)
           /\ FollowsTurn(Past(a), row, t, s) /\ CountsOn(a, Past(a))
           /\ Past(a).at = "ended" /\ Past(a).recovered = activity[a].recovered /\ Past(a).resume = activity[a].resume
<1> DEFINE o == activity[a]
<1>1. PICK x : x = Past(a) /\ Now(a, x)
  OBVIOUS
<1>2. /\ DOMAIN x = DOMAIN o /\ x.kind = o.kind /\ x.at = "ended" /\ x.recovered = o.recovered
      /\ x.resume = o.resume /\ x.step = 0
  BY <1>1, KnownOf DEF Past, NewActivity
<1>3. Known(a)
  BY KnownOf
<1>4. MovesOn(a, x)
  BY <1>1, <1>2, <1>3 DEF MovesOn, Known, ActivityShape, Runs, Positions, InSave, InExecution, InStep, InTool
<1>5. Refers(x, spans'[a])
  <2>1. HoldsSpans(x, spans'[a])
    BY <1>2, HoldsStill
  <2> QED BY <1>2, <2>1 DEF Refers, InSave, InStep, InTool
<1>6. CopiesRow(x, row) /\ FollowsTurn(x, row, t, s) /\ CountsOn(a, x)
  BY <1>2 DEF CopiesRow, FollowsTurn, BeforeSave, InTool, CountsOn, Runs
<1> QED BY <1>1, <1>2, <1>4, <1>5, <1>6

\* An activity that ends keeps the invariant.
LEMMA PastKeeps ==
    ASSUME TraceInv, NEW a \in Activities, Runs(activity[a]), Now(a, Past(a)), SpansGo(a), UNCHANGED <<row, tool, trace>>
    PROVE  TraceInv'
<1>1. /\ MovesOn(a, Past(a)) /\ Refers(Past(a), spans'[a]) /\ CopiesRow(Past(a), row)
      /\ FollowsTurn(Past(a), row, tool, trace.tool) /\ CountsOn(a, Past(a))
      /\ Past(a).at = "ended" /\ Past(a).recovered = activity[a].recovered /\ Past(a).resume = activity[a].resume
  BY PastFits
<1> QED BY <1>1, QuietKeeps DEF Quiet

\* A step that leaves its activity where it is.
LEMMA StandsStill ==
    ASSUME TraceInv, NEW a \in Activities, Runs(activity[a]), UNCHANGED activity
    PROVE  MovesOn(a, activity[a])
<1>1. ActivityShape(activity[a])
  BY KnownOf DEF Known
<1> QED BY <1>1 DEF MovesOn, Runs

\* An exception closes the spans of its handlers, none of which the counts are of.
LEMMA RaiseKeeps == ASSUME TraceInv, NEW a \in Activities, Raise(a) PROVE TraceInv'
<1> DEFINE o == activity[a]
<1>1. o.at = "raised" /\ Runs(o) /\ Known(a) /\ UNCHANGED <<row, tool, trace>>
  BY KnownOf DEF Raise, At, Runs
<1>2. CASE Handlers(a) = {}
  <2>1. Now(a, Past(a)) /\ UNCHANGED spans
    BY <1>2 DEF Raise
  <2>2. SpansGo(a)
    BY <2>1, SpansStay, KnownOf
  <2> QED BY <1>1, <2>1, <2>2, PastKeeps
<1>3. CASE Handlers(a) # {}
  <2>1. o.step \in Nat /\ o.resume \in Nat
    BY <1>1 DEF Known, Refers, HoldsSpans
  <2>2. Handlers(a) \subseteq {o.step, o.resume} \ {0}
    BY DEF Handlers
  <2>3. \E i \in Handlers(a) : \A j \in Handlers(a) : i >= j
    <3>1. CASE o.step \in Handlers(a) /\ (o.resume \in Handlers(a) => o.step >= o.resume)
      BY <2>1, <2>2, <3>1
    <3>2. CASE o.resume \in Handlers(a) /\ (o.step \in Handlers(a) => o.resume >= o.step)
      BY <2>1, <2>2, <3>2
    <3> QED BY <1>3, <2>1, <2>2, <3>1, <3>2
  <2>4. PICK i \in Handlers(a) : i = CHOOSE last \in Handlers(a) : \A j \in Handlers(a) : last >= j
    BY <2>3
  <2>5. CloseSpan(a, i, "FAILED") /\ UNCHANGED activity
    BY <1>3, <2>4 DEF Raise
  <2>6. i \in DOMAIN spans[a] /\ spans[a][i].type \in {"llm step", "tool step", "resume"}
    BY <1>1, <2>2 DEF Known, Refers, HoldsSpans
  <2>7. ChangesSpan(a, <<a, i>>, [type |-> spans[a][i].type, status |-> "FAILED"])
    BY <2>6, SpanIdsAre DEF ChangesSpan
  <2>8. SpansGo(a)
    BY <2>5, <2>6, <2>7, KnownOf, SpanIsClosed
  <2>9. MovesOn(a, o)
    BY <1>1, <2>5, StandsStill
  <2>10. Refers(o, spans'[a])
    <3>1. HoldsSpans(o, spans'[a])
      BY <2>8, HoldsStill
    <3> QED BY <1>1, <3>1 DEF Refers, InSave, InStep, InTool
  <2>11. CountsOn(a, o)
    BY <1>1, <2>8, TurnsStay DEF CountsOn, Runs
  <2> QED BY <1>1, <2>8, <2>9, <2>10, <2>11, QuietKeeps DEF Quiet, Known
<1> QED BY <1>2, <1>3

\* The span of an interrupt is opened and closed after its checkpoint.
LEMMA RecordInterruptKeeps == ASSUME TraceInv, NEW a \in Activities, RecordInterrupt(a) PROVE TraceInv'
<1> DEFINE o == activity[a]
<1>1. Known(a) /\ UNCHANGED <<row, tool, trace>>
  BY KnownOf DEF RecordInterrupt
<1>2. CASE At(a, "note") /\ OpenSpan(a, "interrupt") /\ Now(a, [Going(a, "noted") EXCEPT !.span = NewSpan(a)])
  <2>1. PICK x : x = [Going(a, "noted") EXCEPT !.span = NewSpan(a)] /\ Now(a, x)
    BY <1>2
  <2>2. /\ DOMAIN x = DOMAIN o /\ x.kind = o.kind /\ x.at = "noted" /\ x.state = o.state
        /\ x.recovered = o.recovered /\ x.resume = o.resume /\ x.step = o.step /\ x.span = NewSpan(a)
    BY <2>1, KnownOf DEF Going, NewActivity
  <2>3. o.at = "note"
    BY <1>2 DEF At
  <2>4. /\ SpansGo(a) /\ x.span \in DOMAIN spans'[a]
        /\ spans'[a][x.span] = [type |-> "interrupt", status |-> "RUNNING"]
    BY <1>2, <2>2, KnownOf, SpanIsOpened
  <2>5. MovesOn(a, x)
    BY <1>1, <2>1, <2>2, <2>3
       DEF MovesOn, Known, ActivityShape, Runs, Positions, InSave, InExecution, InStep, InTool
  <2>6. Refers(x, spans'[a])
    <3>1. HoldsSpans(x, spans'[a]) /\ spans'[a][x.span].type = "interrupt"
      BY <2>2, <2>4, HoldsStill
    <3> QED BY <2>2, <2>4, <3>1 DEF Refers, InSave, InStep, InTool
  <2>7. CopiesRow(x, row) /\ FollowsTurn(x, row, tool, trace.tool)
    BY <1>1, <2>2, <2>3 DEF Known, CopiesRow, FollowsTurn, BeforeSave, InTool
  <2>8. CountsOn(a, x)
    BY <2>2, <2>3, <2>4, TurnsStay DEF CountsOn, Runs
  <2> QED BY <1>1, <2>2, <2>4, <2>5, <2>6, <2>7, <2>8, QuietKeeps DEF Quiet
<1>3. CASE At(a, "noted") /\ CloseSpan(a, o.span, "INTERRUPTED") /\ Now(a, Going(a, "update"))
  <2>1. PICK x : x = Going(a, "update") /\ Now(a, x)
    BY <1>3
  <2>2. /\ DOMAIN x = DOMAIN o /\ x.kind = o.kind /\ x.at = "update" /\ x.state = o.state
        /\ x.recovered = o.recovered /\ x.resume = o.resume /\ x.step = o.step
    BY <2>1, KnownOf DEF Going, NewActivity
  <2>3. o.at = "noted"
    BY <1>3 DEF At
  <2>4. o.span \in DOMAIN spans[a] /\ spans[a][o.span].type = "interrupt"
    BY <1>1, <2>3 DEF Known, Refers
  <2>5. ChangesSpan(a, <<a, o.span>>, [type |-> spans[a][o.span].type, status |-> "INTERRUPTED"])
    BY <2>4, SpanIdsAre DEF ChangesSpan
  <2>6. SpansGo(a)
    BY <1>3, <2>4, <2>5, KnownOf, SpanIsClosed
  <2>7. MovesOn(a, x)
    BY <1>1, <2>1, <2>2, <2>3
       DEF MovesOn, Known, ActivityShape, Runs, Positions, InSave, InExecution, InStep, InTool
  <2>8. Refers(x, spans'[a])
    <3>1. HoldsSpans(x, spans'[a])
      BY <2>2, <2>6, HoldsStill
    <3> QED BY <2>2, <3>1 DEF Refers, InSave, InStep, InTool
  <2>9. CopiesRow(x, row) /\ FollowsTurn(x, row, tool, trace.tool)
    BY <1>1, <2>2, <2>3 DEF Known, CopiesRow, FollowsTurn, BeforeSave, InTool
  <2>10. CountsOn(a, x)
    BY <2>2, <2>3, <2>6, TurnsStay DEF CountsOn, Runs
  <2> QED BY <1>1, <2>2, <2>6, <2>7, <2>8, <2>9, <2>10, QuietKeeps DEF Quiet
<1> QED BY <1>2, <1>3 DEF RecordInterrupt

\* A process that ends leaves its spans open, and nothing else.
LEMMA EndActivityKeeps == ASSUME TraceInv, NEW a \in Activities, EndActivity(a) PROVE TraceInv'
<1>1. Runs(activity[a]) /\ Now(a, Past(a)) /\ UNCHANGED <<row, tool, trace, spans>>
  BY DEF EndActivity, Runs, At
<1>2. SpansGo(a)
  BY <1>1, SpansStay, KnownOf
<1> QED BY <1>1, <1>2, PastKeeps

\* An execution that returns closes the span of its resume.
LEMMA ReturnKeeps == ASSUME TraceInv, NEW a \in Activities, Return(a) PROVE TraceInv'
<1> DEFINE o == activity[a]
<1>1. o.at = "returned" /\ Runs(o) /\ Known(a) /\ UNCHANGED <<row, tool, trace>> /\ o.state \in RowType
  BY KnownOf DEF Return, At, Runs, Known, ActivityShape
<1>2. CASE ~(o.resume # 0 /\ spans[a][o.resume].status = "RUNNING")
  <2>1. Now(a, Past(a)) /\ UNCHANGED spans
    BY <1>2 DEF Return
  <2>2. SpansGo(a)
    BY <2>1, SpansStay, KnownOf
  <2> QED BY <1>1, <2>1, <2>2, PastKeeps
<1>3. CASE o.resume # 0 /\ spans[a][o.resume].status = "RUNNING"
  <2>1. /\ CloseSpan(a, o.resume, Outcome(o.state.status))
        /\ Now(a, IF o.state.status \in Finished THEN Going(a, "finish") ELSE Past(a))
    BY <1>3 DEF Return
  <2>2. Outcome(o.state.status) \in {"SUCCEEDED", "FAILED", "CANCELLED", "INTERRUPTED"}
    <3>1. o.state.status \in {"none", "RUNNING", "INTERRUPTED", "COMPLETED", "FAILED", "CANCELLED"}
      BY <1>1 DEF RowType, Finished
    <3> QED BY <3>1 DEF Outcome
  <2>3. o.resume \in DOMAIN spans[a] /\ spans[a][o.resume].type = "resume"
    BY <1>1, <1>3 DEF Known, Refers, HoldsSpans
  <2>4. ChangesSpan(a, <<a, o.resume>>, [type |-> spans[a][o.resume].type, status |-> Outcome(o.state.status)])
    BY <2>2, <2>3, SpanIdsAre DEF ChangesSpan
  <2>5. SpansGo(a)
    BY <2>1, <2>2, <2>3, <2>4, KnownOf, SpanIsClosed
  <2>6. CASE o.state.status \notin Finished
    <3>1. Now(a, Past(a))
      BY <2>1, <2>6
    <3> QED BY <1>1, <2>5, <3>1, PastKeeps
  <2>7. CASE o.state.status \in Finished
    <3>1. PICK x : x = Going(a, "finish") /\ Now(a, x)
      BY <2>1, <2>7
    <3>2. /\ DOMAIN x = DOMAIN o /\ x.kind = o.kind /\ x.at = "finish" /\ x.state = o.state
          /\ x.recovered = o.recovered /\ x.resume = o.resume /\ x.step = o.step
      BY <3>1, KnownOf DEF Going, NewActivity
    <3>3. MovesOn(a, x)
      BY <1>1, <3>1, <3>2
         DEF MovesOn, Known, ActivityShape, Runs, Positions, InSave, InExecution, InStep, InTool
    <3>4. Refers(x, spans'[a])
      <4>1. HoldsSpans(x, spans'[a])
        BY <3>2, <2>5, HoldsStill
      <4> QED BY <3>2, <4>1 DEF Refers, InSave, InStep, InTool
    <3>5. CopiesRow(x, row) /\ FollowsTurn(x, row, tool, trace.tool)
      BY <1>1, <2>7, <3>2 DEF Known, CopiesRow, FollowsTurn, BeforeSave, InTool
    <3>6. CountsOn(a, x)
      BY <1>1, <2>5, <3>2, TurnsStay DEF CountsOn, Runs
    <3> QED BY <1>1, <2>5, <3>2, <3>3, <3>4, <3>5, <3>6, QuietKeeps DEF Quiet
  <2> QED BY <2>6, <2>7
<1> QED BY <1>2, <1>3
\* The loop reads the checkpoint, and saves the end of a Run that is still running.
LEMMA LoopKeeps == ASSUME TraceInv, NEW a \in Activities, Loop(a) PROVE TraceInv'
<1> DEFINE o == activity[a]
           loaded == [o EXCEPT !.state = row]
           end(status) == [loaded EXCEPT !.at = "save", !.then = "end", !.state.status = status]
           Shared(x) ==
               /\ Now(a, x) /\ DOMAIN x = DOMAIN o /\ x.kind = o.kind /\ x.recovered = o.recovered
               /\ x.resume = o.resume /\ x.step = o.step /\ x.state \in RowType
               /\ x.state.sequence = row.sequence /\ x.state.turns = row.turns /\ x.state.next = row.next
           AsLoop(x) ==
               \/ x.at = "returned" /\ x.state.status = row.status
               \/ x.at = "save" /\ x.then = "end" /\ row.status = "RUNNING" /\ x.state.status \in Finished
               \/ x.at = "open" /\ row.status = "RUNNING" /\ row.next \in {"llm", "tool"}
<1>1. o.at = "loop" /\ Known(a) /\ UNCHANGED <<row, tool, trace, spans>> /\ row \in RowType
  BY KnownOf DEF Loop, At
<1>2. o.kind \in {"start", "resume"}
  BY <1>1 DEF Known, ActivityShape, InExecution
<1>3. SpansGo(a)
  BY <1>1, SpansStay, KnownOf
<1>4. \E x : Shared(x) /\ AsLoop(x)
  <2>1. ASSUME NEW at \in {"returned", "open"}, Now(a, [loaded EXCEPT !.at = at]),
               at = "open" => row.status = "RUNNING" /\ row.next # "complete"
        PROVE  \E x : Shared(x) /\ AsLoop(x)
    <3>1. PICK x : x = [loaded EXCEPT !.at = at]
      OBVIOUS
    <3>2. /\ DOMAIN x = DOMAIN o /\ x.kind = o.kind /\ x.recovered = o.recovered
          /\ x.resume = o.resume /\ x.step = o.step /\ x.state = row /\ x.at = at
      BY <3>1, KnownOf DEF NewActivity
    <3>3. Shared(x)
      BY <1>1, <2>1, <3>1, <3>2
    <3>4. AsLoop(x)
      BY <1>1, <2>1, <3>2 DEF RowType
    <3> QED BY <3>3, <3>4
  <2>2. ASSUME NEW status \in {"FAILED", "COMPLETED"}, Now(a, end(status)), row.status = "RUNNING"
        PROVE  \E x : Shared(x) /\ AsLoop(x)
    <3>1. PICK x : x = end(status)
      OBVIOUS
    <3>2. /\ DOMAIN x = DOMAIN o /\ x.kind = o.kind /\ x.recovered = o.recovered /\ x.at = "save"
          /\ x.resume = o.resume /\ x.step = o.step /\ x.state = [row EXCEPT !.status = status] /\ x.then = "end"
      BY <3>1, KnownOf DEF NewActivity
    <3>3. /\ x.state \in RowType /\ x.state.sequence = row.sequence /\ x.state.turns = row.turns
          /\ x.state.next = row.next /\ x.state.status = status
      BY <1>1, <3>2 DEF RowType, Finished
    <3>4. Shared(x)
      BY <2>2, <3>1, <3>2, <3>3
    <3>5. AsLoop(x)
      BY <2>2, <3>2, <3>3 DEF Finished
    <3> QED BY <3>4, <3>5
  <2>3. CASE row.status # "RUNNING"
    <3>1. Now(a, [loaded EXCEPT !.at = "returned"])
      BY <2>3 DEF Loop
    <3> QED BY <2>1, <3>1
  <2>4. CASE row.status = "RUNNING" /\ o.failed
    <3>1. Now(a, end("FAILED"))
      BY <2>4 DEF Loop
    <3> QED BY <2>2, <2>4, <3>1
  <2>5. CASE row.status = "RUNNING" /\ ~o.failed /\ row.next = "complete"
    <3>1. Now(a, end("COMPLETED"))
      BY <2>5 DEF Loop
    <3> QED BY <2>2, <2>5, <3>1
  <2>6. CASE row.status = "RUNNING" /\ ~o.failed /\ row.next # "complete"
    <3>1. Now(a, [loaded EXCEPT !.at = "open"])
      BY <2>6 DEF Loop
    <3> QED BY <2>1, <2>6, <3>1
  <2> QED BY <2>3, <2>4, <2>5, <2>6
<1>5. PICK x : Shared(x) /\ AsLoop(x)
  BY <1>4
<1>6. MovesOn(a, x)
  BY <1>1, <1>2, <1>5
     DEF MovesOn, Known, ActivityShape, Runs, Positions, InSave, InExecution, InStep, InTool, Thens, ActivityKinds
<1>7. Refers(x, spans'[a])
  <2>1. HoldsSpans(x, spans'[a])
    BY <1>3, <1>5, HoldsStill
  <2> QED BY <1>5, <2>1 DEF Refers, InSave, InStep, InTool
<1>8. CopiesRow(x, row)
  BY <1>1, <1>2, <1>5 DEF CopiesRow, BeforeSave, InTool, RowType, Finished
<1>9. FollowsTurn(x, row, tool, trace.tool)
  <2>1. row.next = "tool" => x.state.next = "tool"
    BY <1>5
  <2> QED BY <1>5, <2>1 DEF FollowsTurn, InTool
<1>10. CountsOn(a, x)
  BY <1>3, <1>5, TurnsStay DEF CountsOn
<1>11. x.at \notin {"stale", "resume"}
  BY <1>5
<1> QED BY <1>1, <1>3, <1>5, <1>6, <1>7, <1>8, <1>9, <1>10, <1>11, QuietKeeps DEF Quiet

\* The span of a step is opened for what the checkpoint says comes next.
LEMMA OpenStepKeeps == ASSUME TraceInv, NEW a \in Activities, OpenStep(a) PROVE TraceInv'
<1> DEFINE o == activity[a]
<1>1. PICK x : x = [Going(a, o.state.next) EXCEPT !.step = NewSpan(a), !.then = "step"] /\ Now(a, x)
  BY DEF OpenStep
<1>2. /\ DOMAIN x = DOMAIN o /\ x.kind = o.kind /\ x.at = o.state.next /\ x.state = o.state
      /\ x.recovered = o.recovered /\ x.resume = o.resume /\ x.step = NewSpan(a) /\ x.then = "step"
  BY <1>1, KnownOf DEF Going, NewActivity
<1>3. o.at = "open" /\ Known(a) /\ UNCHANGED <<row, tool, trace>>
  BY KnownOf DEF OpenStep, At
<1>4. o.state.next = row.next /\ row.next \in {"llm", "tool"}
  BY <1>3 DEF Known, FollowsTurn
<1>5. PICK opened \in {"llm step", "tool step"} : OpenSpan(a, opened)
  BY DEF OpenStep
<1>6. /\ SpansGo(a) /\ NewSpan(a) \in Nat \ {0} /\ NewSpan(a) \in DOMAIN spans'[a]
      /\ spans'[a][NewSpan(a)] = [type |-> opened, status |-> "RUNNING"]
  BY <1>5, KnownOf, SpanIsOpened
<1>7. MovesOn(a, x)
  BY <1>1, <1>2, <1>3, <1>4 DEF MovesOn, Known, ActivityShape, Runs, Positions, InSave, InExecution, InStep, InTool
<1>8. Refers(x, spans'[a])
  <2>1. o.resume \in Nat /\ (o.resume # 0 => o.resume \in DOMAIN spans'[a] /\ spans'[a][o.resume].type = "resume")
    <3>1. o.resume \in Nat /\ (o.resume # 0 => o.resume \in DOMAIN spans[a] /\ spans[a][o.resume].type = "resume")
      BY <1>3 DEF Known, Refers, HoldsSpans
    <3>2. SpansGo(a)
      BY <1>6
    <3>3. \A n \in DOMAIN spans[a] : n \in DOMAIN spans'[a] /\ spans'[a][n].type = spans[a][n].type
      BY <3>2, TypesStay, Zenon
    <3> QED BY <3>1, <3>3
  <2>2. spans'[a][NewSpan(a)].type \in {"llm step", "tool step"}
    <3>1. [type |-> opened, status |-> "RUNNING"].type = opened
      OBVIOUS
    <3> QED BY <1>6, <3>1
  <2>3. HoldsSpans(x, spans'[a]) /\ x.step # 0
    BY <1>2, <1>6, <2>1, <2>2 DEF HoldsSpans
  <2> QED BY <1>2, <1>4, <2>3 DEF Refers, InSave, InStep, InTool
<1>9. CopiesRow(x, row)
  BY <1>2, <1>3, <1>4 DEF Known, CopiesRow, BeforeSave, InTool
<1>10. FollowsTurn(x, row, tool, trace.tool)
  BY <1>2, <1>4 DEF FollowsTurn, InTool
<1>11. CountsOn(a, x)
  BY <1>2, <1>3, <1>4, <1>6, TurnsStay DEF CountsOn, Runs
<1>12. x.at \notin {"stale", "resume"}
  BY <1>2, <1>4
<1> QED BY <1>2, <1>3, <1>6, <1>7, <1>8, <1>9, <1>10, <1>11, <1>12, QuietKeeps DEF Quiet

\* The span of a model call is its own (llm.chat).
LEMMA OpenCallKeeps == ASSUME TraceInv, NEW a \in Activities, OpenCall(a) PROVE TraceInv'
<1> DEFINE o == activity[a]
<1>1. PICK x : x = [Going(a, "calling") EXCEPT !.span = NewSpan(a)] /\ Now(a, x)
  BY DEF OpenCall
<1>2. /\ DOMAIN x = DOMAIN o /\ x.kind = o.kind /\ x.at = "calling" /\ x.state = o.state /\ x.span = NewSpan(a)
      /\ x.recovered = o.recovered /\ x.resume = o.resume /\ x.step = o.step /\ x.then = o.then
  BY <1>1, KnownOf DEF Going, NewActivity
<1>3. o.at = "llm" /\ Known(a) /\ UNCHANGED <<row, tool, trace>>
  BY KnownOf DEF OpenCall, At
<1>4. /\ SpansGo(a) /\ x.span \in DOMAIN spans'[a]
      /\ spans'[a][x.span] = [type |-> "llm", status |-> "RUNNING"]
  BY <1>2, KnownOf, SpanIsOpened DEF OpenCall
<1>5. MovesOn(a, x)
  BY <1>1, <1>2, <1>3 DEF MovesOn, Known, ActivityShape, Runs, Positions, InSave, InExecution, InStep, InTool
<1>6. Refers(x, spans'[a])
  <2>1. HoldsSpans(x, spans'[a]) /\ x.step # 0
    BY <1>2, <1>3, <1>4, HoldsStill DEF Known, Refers, InStep
  <2> QED BY <1>2, <1>4, <2>1 DEF Refers, InSave, InStep, InTool
<1>7. CopiesRow(x, row) /\ FollowsTurn(x, row, tool, trace.tool)
  BY <1>2, <1>3 DEF Known, CopiesRow, FollowsTurn, BeforeSave, InTool
<1>8. CountsOn(a, x)
  BY <1>2, <1>3, <1>4, TurnsStay DEF CountsOn, Runs
<1> QED BY <1>2, <1>3, <1>4, <1>5, <1>6, <1>7, <1>8, QuietKeeps DEF Quiet

\* What an activity that awaits its model call has.
LEMMA CallIsOpen ==
    ASSUME TraceInv, NEW a \in Activities, At(a, "calling"), NEW status \in {"SUCCEEDED", "FAILED"},
           CloseSpan(a, activity[a].span, status)
    PROVE  /\ activity[a].at = "calling" /\ activity[a].kind \in {"start", "resume"} /\ activity[a].then = "step"
           /\ activity[a].step # 0 /\ activity[a].state \in RowType /\ row.next = "llm"
           /\ SpansGo(a)
           /\ \E id \in SpanIds : /\ Span(id) = [type |-> "llm", status |-> "RUNNING"]
                                  /\ Span(id)' = [type |-> "llm", status |-> status]
<1> DEFINE o == activity[a]
<1>1. o.at = "calling" /\ Known(a)
  BY KnownOf DEF At
<1>2. /\ o.kind \in {"start", "resume"} /\ o.then = "step" /\ o.step # 0 /\ o.state \in RowType
      /\ row.next = "llm" /\ o.span \in DOMAIN spans[a] /\ spans[a][o.span] = [type |-> "llm", status |-> "RUNNING"]
  BY <1>1 DEF Known, ActivityShape, Refers, FollowsTurn, InExecution, InStep
<1>3. PICK n \in DOMAIN spans[a] : n = o.span
  BY <1>2
<1>4. spans[a][n].type = "llm" /\ spans[a][n].status = "RUNNING"
  BY <1>2, <1>3
<1>5. ChangesSpan(a, <<a, n>>, [type |-> spans[a][n].type, status |-> status])
  BY <1>1, <1>4, SpanIdsAre DEF ChangesSpan
<1>6. SpansGo(a) /\ spans'[a][n] = [type |-> spans[a][n].type, status |-> status]
  <2>1. status \in {"SUCCEEDED", "FAILED", "CANCELLED", "INTERRUPTED"}
    OBVIOUS
  <2>2. spans \in [Activities -> Seq(SpanType)] /\ CloseSpan(a, n, status)
    BY <1>3, KnownOf
  <2> QED BY <1>5, <2>1, <2>2, SpanIsClosed
<1>7. <<a, n>> \in SpanIds
  BY SpanIdsAre
<1>8. Span(<<a, n>>) = spans[a][n] /\ Span(<<a, n>>)' = spans'[a][n]
  BY SpanIdsAre, SpanIdsAreAfter, Zenon
<1>9. Span(<<a, n>>) = [type |-> "llm", status |-> "RUNNING"]
  BY <1>2, <1>3, <1>8
<1>10. Span(<<a, n>>)' = [type |-> "llm", status |-> status]
  BY <1>4, <1>6, <1>8
<1> QED BY <1>1, <1>2, <1>6, <1>7, <1>9, <1>10

\* A call that succeeded is one turn more than was counted.
LEMMA TurnIsCounted ==
    ASSUME TraceInv, NEW a \in Activities, SpansGo(a), NEW id \in SpanIds,
           Span(id) = [type |-> "llm", status |-> "RUNNING"], Span(id)' = [type |-> "llm", status |-> "SUCCEEDED"]
    PROVE  Cardinality(Succeeded("llm")) \in Nat /\ Cardinality(Succeeded("llm")) + 1 <= Cardinality(Succeeded("llm"))'
<1>1. IsFiniteSet(Succeeded("llm")) /\ Cardinality(Succeeded("llm")) \in Nat
  BY ClosedIsFinite DEF TraceInv, SpansCounted
<1>2. id \notin Succeeded("llm")
  BY DEF Succeeded
<1>3. id \in Succeeded("llm")'
  BY DEF Succeeded, SpansGo
<1>4. IsFiniteSet(Succeeded("llm")') /\ Succeeded("llm") \cup {id} \subseteq Succeeded("llm")'
  BY <1>3, CallsStayClosed DEF TraceInv
<1>5. Cardinality(Succeeded("llm") \cup {id}) = Cardinality(Succeeded("llm")) + 1
  BY <1>1, <1>2, FS_AddElement
<1>6. Cardinality(Succeeded("llm") \cup {id}) <= Cardinality(Succeeded("llm")')
  BY <1>4, FS_Subset
<1> QED BY <1>1, <1>5, <1>6
\* An answer closes its call before its checkpoint is saved.
LEMMA AnswerCallKeeps == ASSUME TraceInv, NEW a \in Activities, AnswerCall(a) PROVE TraceInv'
<1> DEFINE o == activity[a]
<1>1. /\ o.at = "calling" /\ Known(a) /\ UNCHANGED <<row, tool, trace>>
      /\ At(a, "calling") /\ CloseSpan(a, o.span, "SUCCEEDED")
  BY KnownOf DEF AnswerCall, At
<1>2. PICK id \in SpanIds : /\ Span(id) = [type |-> "llm", status |-> "RUNNING"]
                            /\ Span(id)' = [type |-> "llm", status |-> "SUCCEEDED"]
  BY <1>1, CallIsOpen
<1>3. /\ o.kind \in {"start", "resume"} /\ o.then = "step" /\ o.step # 0 /\ o.state \in RowType
      /\ row.next = "llm" /\ SpansGo(a)
  BY <1>1, CallIsOpen
<1>4. PICK next \in {"tool", "complete"} :
          Now(a, [Going(a, "save") EXCEPT !.state.turns = @ + 1, !.state.next = next])
  BY DEF AnswerCall
<1>5. PICK x : x = [Going(a, "save") EXCEPT !.state.turns = @ + 1, !.state.next = next] /\ Now(a, x)
  BY <1>4
<1>6. /\ DOMAIN x = DOMAIN o /\ x.kind = o.kind /\ x.at = "save" /\ x.recovered = o.recovered /\ x.resume = o.resume
      /\ x.step = o.step /\ x.then = o.then
      /\ x.state = [o.state EXCEPT !.turns = o.state.turns + 1, !.next = next]
  BY <1>5, KnownOf DEF Going, NewActivity
<1>7. /\ x.state \in RowType /\ x.state.sequence = o.state.sequence /\ x.state.status = o.state.status
      /\ x.state.turns = o.state.turns + 1
  <2>1. PICK t \in RowType : t = o.state
    BY <1>3
  <2>2. PICK y : y = [t EXCEPT !.turns = t.turns + 1, !.next = next]
    OBVIOUS
  <2>3. t.turns + 1 \in Nat
    BY DEF RowType
  <2>4. y \in RowType /\ y.sequence = t.sequence /\ y.status = t.status /\ y.turns = t.turns + 1
    BY <2>2, <2>3 DEF RowType
  <2>5. x.state = y
    BY <1>6, <2>1, <2>2
  <2> QED BY <2>1, <2>4, <2>5
<1>8. MovesOn(a, x)
  BY <1>1, <1>3, <1>5, <1>6, <1>7
     DEF MovesOn, Known, ActivityShape, Runs, Positions, InSave, InExecution, InStep, InTool, Thens
<1>9. Refers(x, spans'[a])
  <2>1. HoldsSpans(x, spans'[a])
    BY <1>3, <1>6, HoldsStill
  <2> QED BY <1>3, <1>6, <2>1 DEF Refers, InSave, InStep, InTool
<1>10. CopiesRow(x, row)
  BY <1>1, <1>3, <1>6, <1>7 DEF Known, CopiesRow, BeforeSave, InTool
<1>11. FollowsTurn(x, row, tool, trace.tool)
  BY <1>3, <1>6 DEF FollowsTurn, InTool
<1>12. x.state.turns <= Cardinality(Succeeded("llm"))'
  <2>1. Cardinality(Succeeded("llm")) \in Nat /\ Cardinality(Succeeded("llm")) + 1 <= Cardinality(Succeeded("llm"))'
    BY <1>2, <1>3, TurnIsCounted
  <2>2. o.state.turns <= Cardinality(Succeeded("llm")) /\ o.state.turns \in Nat
    BY <1>1, <1>3 DEF TraceInv, SpansCounted, RowType
  <2>3. Cardinality(Succeeded("llm"))' \in Nat
    BY <1>3, CallsStayClosed DEF TraceInv
  <2> QED BY <1>7, <2>1, <2>2, <2>3
<1>13. CountsOn(a, x)
  BY <1>6, <1>12 DEF CountsOn, Runs
<1> QED BY <1>1, <1>3, <1>6, <1>8, <1>9, <1>10, <1>11, <1>13, QuietKeeps DEF Quiet

\* A call that failed is saved too.
LEMMA FailCallKeeps == ASSUME TraceInv, NEW a \in Activities, FailCall(a) PROVE TraceInv'
<1> DEFINE o == activity[a]
<1>1. /\ o.at = "calling" /\ Known(a) /\ UNCHANGED <<row, tool, trace>>
      /\ At(a, "calling") /\ CloseSpan(a, o.span, "FAILED")
  BY KnownOf DEF FailCall, At
<1>2. /\ o.kind \in {"start", "resume"} /\ o.then = "step" /\ o.step # 0 /\ o.state \in RowType
      /\ row.next = "llm" /\ SpansGo(a)
  BY <1>1, CallIsOpen
<1>3. PICK x : x = [Going(a, "save") EXCEPT !.failed = TRUE] /\ Now(a, x)
  BY DEF FailCall
<1>4. /\ DOMAIN x = DOMAIN o /\ x.kind = o.kind /\ x.at = "save" /\ x.recovered = o.recovered /\ x.resume = o.resume
      /\ x.step = o.step /\ x.then = o.then /\ x.state = o.state
  BY <1>3, KnownOf DEF Going, NewActivity
<1>5. MovesOn(a, x)
  BY <1>1, <1>2, <1>3, <1>4
     DEF MovesOn, Known, ActivityShape, Runs, Positions, InSave, InExecution, InStep, InTool, Thens
<1>6. Refers(x, spans'[a])
  <2>1. HoldsSpans(x, spans'[a])
    BY <1>2, <1>4, HoldsStill
  <2> QED BY <1>2, <1>4, <2>1 DEF Refers, InSave, InStep, InTool
<1>7. CopiesRow(x, row)
  BY <1>1, <1>2, <1>4 DEF Known, CopiesRow, BeforeSave, InTool
<1>8. FollowsTurn(x, row, tool, trace.tool)
  BY <1>2, <1>4 DEF FollowsTurn, InTool
<1>9. CountsOn(a, x)
  BY <1>1, <1>2, <1>4, TurnsStay DEF CountsOn, Runs
<1> QED BY <1>1, <1>2, <1>4, <1>5, <1>6, <1>7, <1>8, <1>9, QuietKeeps DEF Quiet

\* The span of a step is closed after its checkpoint.
LEMMA CloseStepKeeps == ASSUME TraceInv, NEW a \in Activities, CloseStep(a) PROVE TraceInv'
<1> DEFINE o == activity[a]
<1>1. o.at = "step" /\ Known(a) /\ UNCHANGED <<row, tool, trace>>
  BY KnownOf DEF CloseStep, At
<1>2. PICK status \in {"FAILED", "SUCCEEDED"} : CloseSpan(a, o.step, status)
  BY DEF CloseStep
<1>3. PICK x : x = [Going(a, "loop") EXCEPT !.step = 0] /\ Now(a, x)
  BY DEF CloseStep
<1>4. /\ DOMAIN x = DOMAIN o /\ x.kind = o.kind /\ x.at = "loop" /\ x.recovered = o.recovered /\ x.resume = o.resume
      /\ x.step = 0 /\ x.state = o.state
  BY <1>3, KnownOf DEF Going, NewActivity
<1>5. o.step \in DOMAIN spans[a] /\ spans[a][o.step].type \in {"llm step", "tool step"}
  BY <1>1 DEF Known, Refers, HoldsSpans, InStep
<1>6. ChangesSpan(a, <<a, o.step>>, [type |-> spans[a][o.step].type, status |-> status])
  BY <1>5, SpanIdsAre DEF ChangesSpan
<1>7. SpansGo(a)
  BY <1>2, <1>5, <1>6, KnownOf, SpanIsClosed
<1>8. MovesOn(a, x)
  BY <1>1, <1>3, <1>4 DEF MovesOn, Known, ActivityShape, Runs, Positions, InSave, InExecution, InStep, InTool
<1>9. Refers(x, spans'[a])
  <2>1. HoldsSpans(x, spans'[a])
    BY <1>4, <1>7, HoldsStill
  <2> QED BY <1>4, <2>1 DEF Refers, InSave, InStep, InTool
<1>10. CopiesRow(x, row) /\ FollowsTurn(x, row, tool, trace.tool)
  BY <1>1, <1>4 DEF Known, CopiesRow, FollowsTurn, BeforeSave, InTool
<1>11. CountsOn(a, x)
  BY <1>1, <1>4, <1>7, TurnsStay DEF CountsOn, Runs
<1> QED BY <1>1, <1>4, <1>7, <1>8, <1>9, <1>10, <1>11, QuietKeeps DEF Quiet

\* The resume goes on when the spans of earlier executions are closed.
LEMMA OpenResumeKeeps == ASSUME TraceInv, NEW a \in Activities, OpenResume(a) PROVE TraceInv'
<1> DEFINE o == activity[a]
<1>1. o.at = "resume" /\ Known(a) /\ UNCHANGED <<row, tool, trace>>
  BY KnownOf DEF OpenResume, At
<1>2. PICK x : /\ x = [Going(a, "save") EXCEPT !.resume = NewSpan(a), !.then = "resume", !.state.status = "RUNNING"]
               /\ Now(a, x)
  BY DEF OpenResume
<1>3. /\ DOMAIN x = DOMAIN o /\ x.kind = o.kind /\ x.at = "save" /\ x.recovered = o.recovered
      /\ x.resume = NewSpan(a) /\ x.step = o.step /\ x.then = "resume" /\ x.state = [o.state EXCEPT !.status = "RUNNING"]
  BY <1>2, KnownOf DEF Going, NewActivity
<1>4. o.kind = "resume" /\ o.state \in RowType
  BY <1>1 DEF Known, ActivityShape
<1>5. /\ x.state \in RowType /\ x.state.sequence = o.state.sequence /\ x.state.turns = o.state.turns
      /\ x.state.next = o.state.next
  BY <1>3, <1>4 DEF RowType
<1>6. /\ SpansGo(a) /\ x.resume \in Nat \ {0} /\ x.resume \in DOMAIN spans'[a]
      /\ spans'[a][x.resume] = [type |-> "resume", status |-> "RUNNING"]
  BY <1>3, KnownOf, SpanIsOpened DEF OpenResume
<1>7. MovesOn(a, x)
  BY <1>1, <1>2, <1>3, <1>4, <1>5
     DEF MovesOn, Known, ActivityShape, Runs, Positions, InSave, InExecution, InStep, InTool, Thens
<1>8. Refers(x, spans'[a])
  <2>1. o.step \in Nat /\ (o.step # 0 => o.step \in DOMAIN spans[a] /\ spans[a][o.step].type \in {"llm step", "tool step"})
    BY <1>1 DEF Known, Refers, HoldsSpans
  <2>2. \A n \in DOMAIN spans[a] : n \in DOMAIN spans'[a] /\ spans'[a][n].type = spans[a][n].type
    BY <1>6, TypesStay
  <2>3. spans'[a][x.resume].type = "resume"
    BY <1>6
  <2>4. HoldsSpans(x, spans'[a])
    BY <1>3, <1>6, <2>1, <2>2, <2>3 DEF HoldsSpans
  <2> QED BY <1>3, <2>4 DEF Refers, InSave, InStep, InTool
<1>9. CopiesRow(x, row)
  BY <1>1, <1>3, <1>4, <1>5 DEF Known, CopiesRow, BeforeSave, InTool
<1>10. FollowsTurn(x, row, tool, trace.tool)
  <2>1. x.state.sequence = row.sequence => x.state.next = row.next
    BY <1>1, <1>5 DEF Known, CopiesRow
  <2> QED BY <1>3, <2>1 DEF FollowsTurn, InTool
<1>11. CountsOn(a, x)
  BY <1>1, <1>3, <1>5, <1>6, TurnsStay DEF CountsOn, Runs
<1>12. Recovers(a)'
  <2>1. activity'[a] = x /\ OpenBefore(a)' \subseteq OpenBefore(a)
    BY <1>4, <1>6, <1>7, TurnIsKept, RecoveriesStand DEF Execution, TraceInv
  <2>2. x.recovered => OpenBefore(a) = {}
    BY <1>1, <1>3 DEF Known, Recovers, At
  <2> QED BY <1>3, <2>1, <2>2 DEF Recovers, At
<1> QED BY <1>1, <1>6, <1>7, <1>8, <1>9, <1>10, <1>11, <1>12, QuietKeeps DEF Quiet
\* A recovery closes one span after another, of model calls only those that are open.
LEMMA CloseStaleSpanKeeps == ASSUME TraceInv, NEW a \in Activities, CloseStaleSpan(a) PROVE TraceInv'
<1> DEFINE o == activity[a]
<1>1. /\ o.at = "stale" /\ Known(a) /\ UNCHANGED <<row, tool, trace>> /\ o.kind = "resume" /\ o.state \in RowType
      /\ Runs(o) /\ a \in Execution
  BY KnownOf DEF CloseStaleSpan, At, Known, ActivityShape, Runs, Execution
<1>2. /\ OpenBefore(a) \subseteq o.stale /\ o.stale \subseteq SpanIds
      /\ \A id \in o.stale : Span(id).type = "llm" => Span(id).status = "RUNNING"
      /\ o.recovered /\ o.resume # 0 => OpenBefore(a) = {}
  BY <1>1 DEF Known, Recovers, At
<1>3. ASSUME NEW x, MovesOn(a, x), SpansGo(a), Recovers(a)', x.at \in {"stale", "resume"},
             x.state = o.state, x.recovered = o.recovered, x.resume = o.resume, x.step = o.step
      PROVE  TraceInv'
  <2>1. Refers(x, spans'[a])
    <3>1. HoldsSpans(x, spans'[a])
      BY <1>3, HoldsStill
    <3> QED BY <1>3, <3>1 DEF Refers, InSave, InStep, InTool
  <2>2. CopiesRow(x, row) /\ FollowsTurn(x, row, tool, trace.tool)
    BY <1>1, <1>3 DEF Known, CopiesRow, FollowsTurn, BeforeSave, InTool
  <2>3. CountsOn(a, x)
    BY <1>1, <1>3, TurnsStay DEF CountsOn, Runs
  <2> QED BY <1>1, <1>3, <2>1, <2>2, <2>3, QuietKeeps DEF Quiet
<1>4. CASE o.stale = {}
  <2>1. PICK x : x = Going(a, "resume") /\ Now(a, x)
    BY <1>4 DEF CloseStaleSpan
  <2>2. /\ DOMAIN x = DOMAIN o /\ x.kind = o.kind /\ x.at = "resume" /\ x.state = o.state
        /\ x.recovered = o.recovered /\ x.resume = o.resume /\ x.step = o.step
    BY <2>1, KnownOf DEF Going, NewActivity
  <2>3. SpansGo(a)
    BY <1>4, SpansStay, KnownOf DEF CloseStaleSpan
  <2>4. MovesOn(a, x)
    BY <1>1, <2>1, <2>2
       DEF MovesOn, Known, ActivityShape, Runs, Positions, InSave, InExecution, InStep, InTool
  <2>5. Recovers(a)'
    <3>1. activity'[a] = x /\ OpenBefore(a)' \subseteq OpenBefore(a)
      BY <1>1, <2>3, <2>4, TurnIsKept, RecoveriesStand DEF TraceInv
    <3> QED BY <1>2, <1>4, <2>2, <3>1 DEF Recovers, At
  <2> QED BY <1>3, <2>2, <2>3, <2>4, <2>5
<1>5. CASE o.stale # {}
  <2>1. PICK id \in o.stale : id = CHOOSE one \in o.stale : TRUE
    BY <1>5
  <2>2. PICK x : x = [o EXCEPT !.stale = o.stale \ {id}] /\ Now(a, x)
    BY <1>5, <2>1 DEF CloseStaleSpan
  <2>3. /\ DOMAIN x = DOMAIN o /\ x.kind = o.kind /\ x.at = "stale" /\ x.state = o.state /\ x.stale = o.stale \ {id}
        /\ x.recovered = o.recovered /\ x.resume = o.resume /\ x.step = o.step
    BY <1>1, <2>2, KnownOf DEF NewActivity
  <2>4. PICK b \in Activities : \E n \in DOMAIN spans[b] : id = <<b, n>>
    <3>1. id \in SpanIds
      BY <1>2
    <3> QED BY <3>1, SpanIdsAre, Zenon
  <2>5. PICK n \in DOMAIN spans[b] : id = <<b, n>>
    BY <2>4, Zenon
  <2>6. CloseSpan(b, n, "INTERRUPTED")
    <3>1. CloseSpan(id[1], id[2], "INTERRUPTED")
      BY <1>5, <2>1 DEF CloseStaleSpan
    <3> QED BY <2>5, <3>1
  <2>7. Span(id) = spans[b][n]
    BY <2>5, SpanIdsAre
  <2>8. ChangesSpan(a, <<b, n>>, [type |-> spans[b][n].type, status |-> "INTERRUPTED"])
    <3>1. spans[b][n].type = "llm" => spans[b][n].status = "RUNNING"
      BY <1>2, <2>7
    <3>2. [type |-> spans[b][n].type, status |-> "INTERRUPTED"].type = spans[b][n].type
      OBVIOUS
    <3>3. [type |-> spans[b][n].type, status |-> "INTERRUPTED"].status = "INTERRUPTED"
      OBVIOUS
    <3>4. At(a, "stale") /\ o.at = "stale"
      BY <1>1 DEF At
    <3> QED BY <2>5, <2>7, <3>1, <3>2, <3>3, <3>4 DEF ChangesSpan
  <2>9. /\ SpansGo(a) /\ SpanIds' = SpanIds
        /\ spans'[b][n] = [type |-> spans[b][n].type, status |-> "INTERRUPTED"]
        /\ \A c \in Activities : \A m \in DOMAIN spans[c] : <<c, m>> # <<b, n>> => spans'[c][m] = spans[c][m]
    BY <2>6, <2>8, KnownOf, SpanIsClosed
  <2>10. Span(id)'.status = "INTERRUPTED"
    <3>1. Span(<<b, n>>)' = spans'[b][n]
      BY SpanIdsAreAfter, Zenon
    <3> QED BY <2>5, <2>9, <3>1
  <2>11. ASSUME NEW i \in SpanIds, i # id PROVE Span(i)' = Span(i)
    <3>1. PICK c \in Activities : \E m \in DOMAIN spans[c] : i = <<c, m>>
      BY SpanIdsAre, Zenon
    <3>2. PICK m \in DOMAIN spans[c] : i = <<c, m>>
      BY <3>1, Zenon
    <3>3. spans'[c][m] = spans[c][m]
      BY <2>5, <2>9, <2>11, <3>2
    <3>4. Span(<<c, m>>)' = spans'[c][m] /\ Span(<<c, m>>) = spans[c][m]
      BY SpanIdsAre, SpanIdsAreAfter, Zenon
    <3> QED BY <3>2, <3>3, <3>4
  <2>12. MovesOn(a, x)
    BY <1>1, <2>2, <2>3
       DEF MovesOn, Known, ActivityShape, Runs, Positions, InSave, InExecution, InStep, InTool
  <2>13. Recovers(a)'
    <3>1. activity'[a] = x /\ OpenBefore(a)' \subseteq OpenBefore(a)
      BY <1>1, <2>9, <2>12, TurnIsKept, RecoveriesStand DEF TraceInv
    <3>2. id \notin OpenBefore(a)'
      BY <2>10 DEF OpenBefore
    <3>3. OpenBefore(a)' \subseteq x.stale /\ x.stale \subseteq SpanIds'
      BY <1>2, <2>3, <2>9, <3>1, <3>2
    <3>4. \A i \in x.stale : Span(i)'.type = "llm" => Span(i)'.status = "RUNNING"
      BY <1>2, <2>3, <2>11
    <3>5. x.recovered /\ x.resume # 0 => OpenBefore(a)' = {}
      BY <1>2, <2>3, <3>1
    <3> QED BY <2>3, <3>1, <3>3, <3>4, <3>5 DEF Recovers, At
  <2> QED BY <1>3, <2>3, <2>9, <2>12, <2>13
<1> QED BY <1>4, <1>5
\* What a step of the tool shows: only the record of the tool and its span change.
ToolGoes(a, x) ==
    /\ Now(a, x) \/ (UNCHANGED activity /\ x = activity[a])
    /\ activity[a].at \in InTool /\ UNCHANGED <<row, spans>>
    /\ DOMAIN x = DOMAIN activity[a] /\ x.kind = activity[a].kind /\ x.at \in InTool \cup {"save"}
    /\ x.recovered = activity[a].recovered /\ x.resume = activity[a].resume /\ x.step = activity[a].step
    /\ x.then = activity[a].then
    /\ x.state \in RowType /\ x.state.sequence = activity[a].state.sequence
    /\ x.state.turns = activity[a].state.turns
    /\ x.at \in InTool => x.state.next = activity[a].state.next
    /\ tool' \in ToolStatus /\ trace' \in TraceRecord
    /\ trace'.status = trace.status /\ trace'.ended = trace.ended
    /\ ToolIsTraced' /\ FollowsTurn(x, row, tool', trace'.tool)

\* Such a step keeps the invariant: the checkpoint says that the tool comes next.
LEMMA ToolGoesKeeps ==
    ASSUME TraceInv, NEW a \in Activities, NEW x, ToolGoes(a, x)
    PROVE  TraceInv'
<1> DEFINE o == activity[a]
<1>1. o.at \in InTool /\ Known(a) /\ row.next = "tool" /\ o.kind \in {"start", "resume"} /\ o.then = "step"
      /\ o.step # 0 /\ o.state \in RowType
  BY KnownOf DEF ToolGoes, Known, FollowsTurn, ActivityShape, Refers, InExecution, InStep, InTool
<1>2. SpansGo(a)
  BY SpansStay, KnownOf DEF ToolGoes
<1>3. MovesOn(a, x)
  BY <1>1 DEF ToolGoes, MovesOn, Known, ActivityShape, Runs, Positions, InSave, InExecution, InStep, InTool, Thens
<1>4. Refers(x, spans'[a])
  <2>1. HoldsSpans(x, spans'[a])
    BY <1>2, HoldsStill DEF ToolGoes
  <2> QED BY <1>1, <2>1 DEF ToolGoes, Refers, InSave, InStep, InTool
<1>5. CopiesRow(x, row)
  BY <1>1 DEF ToolGoes, Known, CopiesRow, BeforeSave, InTool
<1>6. CountsOn(a, x)
  BY <1>1, <1>2, TurnsStay DEF ToolGoes, CountsOn, Runs, InTool
<1>7. EndedTraceIsRight' /\ ToolSpanFollowsTool'
  <2>1. EndedTraceIsRight
    BY DEF TraceInv
  <2> QED BY <1>1, <2>1 DEF ToolGoes, EndedTraceIsRight, ToolSpanFollowsTool
<1>8. x.at \notin {"stale", "resume"}
  BY DEF ToolGoes, InTool
<1>9. Keeps(a, x)
  BY <1>1, <1>2, <1>3, <1>4, <1>5, <1>6, <1>7, <1>8 DEF Keeps, ToolGoes
<1> QED BY <1>9, ActivityKeeps

\* What is known where the tool is run.
LEMMA InToolKnown ==
    ASSUME TraceInv, NEW a \in Activities, activity[a].at \in InTool
    PROVE  /\ FollowsTurn(activity[a], row, tool, trace.tool) /\ activity[a].state \in RowType
           /\ activity[a].state.next = row.next /\ row.next = "tool"
           /\ DOMAIN activity[a] = DOMAIN NewActivity
           /\ tool \in ToolStatus /\ trace \in TraceRecord /\ ToolIsTraced
BY KnownOf DEF Known, FollowsTurn, ActivityShape, InTool, TraceInv

\* A step that only goes on, at the same state.
LEMMA ToolMovesOn ==
    ASSUME TraceInv, NEW a \in Activities, activity[a].at \in InTool, NEW at \in InTool, Now(a, Going(a, at)),
           UNCHANGED <<row, spans>>, tool' \in ToolStatus, trace' \in TraceRecord,
           trace'.status = trace.status, trace'.ended = trace.ended, ToolIsTraced',
           at \in {"run", "running"} => trace'.tool = "RUNNING",
           at = "run" => tool' \in {"PENDING", "RUNNING"},
           at = "running" => tool' = "RUNNING",
           at \in {"reuse", "close"} => tool' \in {"SUCCEEDED", "FAILED"},
           at = "reuse" => trace'.tool # "none",
           at = "cancelled" => tool' = "FAILED"
    PROVE  TraceInv'
<1> DEFINE o == activity[a]
<1>1. PICK x : x = Going(a, at) /\ Now(a, x)
  OBVIOUS
<1>2. /\ DOMAIN x = DOMAIN o /\ x.kind = o.kind /\ x.at = at /\ x.recovered = o.recovered /\ x.resume = o.resume
      /\ x.step = o.step /\ x.then = o.then /\ x.state = o.state
  BY <1>1, InToolKnown DEF Going, NewActivity
<1>3. o.state \in RowType /\ o.state.next = row.next /\ row.next = "tool"
  BY InToolKnown
<1>4. FollowsTurn(x, row, tool', trace'.tool)
  BY <1>2, <1>3 DEF FollowsTurn, InTool
<1>5. ToolGoes(a, x)
  BY <1>1, <1>2, <1>3, <1>4 DEF ToolGoes
<1> QED BY <1>5, ToolGoesKeeps

\* The result goes into the state that is saved next, when the span has the outcome.
LEMMA AppliedTool ==
    ASSUME TraceInv, NEW a \in Activities, activity[a].at \in InTool, Now(a, Applied(a)),
           UNCHANGED <<row, spans, tool>>, trace' \in TraceRecord,
           trace'.status = trace.status, trace'.ended = trace.ended, ToolIsTraced', trace'.tool = tool
    PROVE  TraceInv'
<1> DEFINE o == activity[a]
<1>1. PICK x : x = [Going(a, "save") EXCEPT !.state.next = "llm"] /\ Now(a, x)
  BY DEF Applied
<1>2. /\ DOMAIN x = DOMAIN o /\ x.kind = o.kind /\ x.at = "save" /\ x.recovered = o.recovered /\ x.resume = o.resume
      /\ x.step = o.step /\ x.then = o.then /\ x.state = [o.state EXCEPT !.next = "llm"]
  BY <1>1, InToolKnown DEF Going, NewActivity
<1>3. o.state \in RowType /\ tool \in ToolStatus
  BY InToolKnown
<1>4. x.state \in RowType /\ x.state.sequence = o.state.sequence /\ x.state.turns = o.state.turns
  BY <1>2, <1>3 DEF RowType
<1>5. FollowsTurn(x, row, tool', trace'.tool)
  BY <1>2 DEF FollowsTurn, InTool
<1>6. ToolGoes(a, x)
  BY <1>1, <1>2, <1>3, <1>4, <1>5 DEF ToolGoes, InTool
<1> QED BY <1>6, ToolGoesKeeps

\* A recorded result is reused, when its span has the outcome too.
LEMMA ReuseResultKeeps == ASSUME TraceInv, NEW a \in Activities, ReuseResult(a) PROVE TraceInv'
<1>1. UNCHANGED <<row, tool, spans, ends>>
  BY DEF ReuseResult
<1>2. CASE At(a, "tool") /\ tool \in {"SUCCEEDED", "FAILED"}
           /\ trace' = [trace EXCEPT !.tool = IF trace.tool = "none" THEN "RUNNING" ELSE trace.tool]
           /\ Now(a, Going(a, "reuse"))
  <2>1. activity[a].at \in InTool
    BY <1>2 DEF At, InTool
  <2>2. tool \in ToolStatus /\ trace \in TraceRecord /\ ToolIsTraced
    BY <2>1, InToolKnown
  <2>3. /\ trace' \in TraceRecord /\ trace'.status = trace.status /\ trace'.ended = trace.ended
        /\ trace'.tool = IF trace.tool = "none" THEN "RUNNING" ELSE trace.tool
    BY <1>2, <2>2 DEF TraceRecord
  <2>4. ToolIsTraced' /\ trace'.tool # "none"
    BY <1>1, <1>2, <2>2, <2>3 DEF ToolIsTraced
  <2> QED BY <1>1, <1>2, <2>1, <2>2, <2>3, <2>4, ToolMovesOn DEF InTool
<1>3. CASE At(a, "reuse")
           /\ trace' = [trace EXCEPT !.tool = IF trace.tool = "RUNNING" \/ tool = "FAILED" THEN tool ELSE trace.tool]
           /\ Now(a, Applied(a))
  <2>1. activity[a].at \in InTool
    BY <1>3 DEF At, InTool
  <2>2. /\ tool \in {"SUCCEEDED", "FAILED"} /\ trace \in TraceRecord /\ ToolIsTraced /\ trace.tool # "none"
    BY <1>3, <2>1, InToolKnown DEF FollowsTurn, At
  <2>3. /\ trace' \in TraceRecord /\ trace'.status = trace.status /\ trace'.ended = trace.ended
        /\ trace'.tool = IF trace.tool = "RUNNING" \/ tool = "FAILED" THEN tool ELSE trace.tool
    BY <1>3, <2>2 DEF TraceRecord
  <2>4. trace'.tool = tool
    BY <2>2, <2>3 DEF ToolIsTraced
  <2>5. ToolIsTraced'
    BY <1>1, <2>2, <2>4 DEF ToolIsTraced
  <2> QED BY <1>1, <1>3, <2>1, <2>3, <2>4, <2>5, AppliedTool
<1> QED BY <1>2, <1>3 DEF ReuseResult

\* Steps of the record of the tool that its activity awaits.
LEMMA ToolRecordKeeps ==
    ASSUME TraceInv, NEW a \in Activities, GiveUpTool(a) \/ RecordTool(a)
    PROVE  TraceInv'
<1> DEFINE o == activity[a]
<1>1. o.at = "tool" /\ o.at \in InTool /\ UNCHANGED <<row, trace, spans, activity>>
  BY DEF GiveUpTool, RecordTool, At, InTool
<1>2. \/ tool = "RUNNING" /\ tool' = "FAILED"
      \/ tool = "none" /\ tool' = "PENDING"
  BY DEF GiveUpTool, RecordTool
<1>3. o.state \in RowType /\ o.state.next = row.next /\ row.next = "tool" /\ trace \in TraceRecord /\ ToolIsTraced
  BY <1>1, InToolKnown
<1>4. FollowsTurn(o, row, tool', trace'.tool)
  BY <1>1, <1>3 DEF FollowsTurn, InTool
<1>5. ToolIsTraced' /\ tool' \in ToolStatus
  BY <1>1, <1>2, <1>3 DEF ToolIsTraced, ToolStatus
<1>6. ToolGoes(a, o)
  BY <1>1, <1>3, <1>4, <1>5 DEF ToolGoes
<1> QED BY <1>6, ToolGoesKeeps

\* The span of the tool is opened before its record is started.
LEMMA OpenToolKeeps == ASSUME TraceInv, NEW a \in Activities, OpenTool(a) PROVE TraceInv'
<1>1. /\ activity[a].at \in InTool /\ UNCHANGED <<row, tool, spans>> /\ Now(a, Going(a, "run"))
      /\ tool \in {"PENDING", "RUNNING"}
  BY DEF OpenTool, At, InTool
<1>2. tool \in ToolStatus /\ trace \in TraceRecord /\ ToolIsTraced
  BY <1>1, InToolKnown
<1>3. trace' = [trace EXCEPT !.tool = IF trace.tool = "none" \/ tool = "RUNNING" THEN "RUNNING" ELSE trace.tool]
  BY DEF OpenTool
<1>4. /\ trace' \in TraceRecord /\ trace'.status = trace.status /\ trace'.ended = trace.ended
      /\ trace'.tool = "RUNNING"
  BY <1>1, <1>2, <1>3 DEF TraceRecord, ToolIsTraced
<1>5. ToolIsTraced'
  BY <1>1, <1>4 DEF ToolIsTraced
<1> QED BY <1>1, <1>2, <1>4, <1>5, ToolMovesOn DEF InTool

\* The record is started, and ended, before the span is closed.
LEMMA StartToolKeeps == ASSUME TraceInv, NEW a \in Activities, StartTool(a) \/ EndTool(a) PROVE TraceInv'
<1>1. CASE StartTool(a)
  <2>1. /\ activity[a].at = "run" /\ activity[a].at \in InTool /\ UNCHANGED <<row, trace, spans>>
        /\ Now(a, Going(a, "running")) /\ tool' = "RUNNING"
    BY <1>1 DEF StartTool, At, InTool
  <2>2. trace \in TraceRecord /\ trace.tool = "RUNNING"
    BY <2>1, InToolKnown DEF FollowsTurn
  <2>3. ToolIsTraced' /\ tool' \in ToolStatus
    BY <2>1 DEF ToolIsTraced, ToolStatus
  <2> QED BY <2>1, <2>2, <2>3, ToolMovesOn DEF InTool
<1>2. CASE EndTool(a)
  <2>1. /\ activity[a].at = "running" /\ activity[a].at \in InTool /\ UNCHANGED <<row, trace, spans>>
        /\ Now(a, Going(a, "close")) /\ tool' \in {"SUCCEEDED", "FAILED"}
    BY <1>2 DEF EndTool, At, InTool
  <2>2. trace \in TraceRecord /\ trace.tool = "RUNNING"
    BY <2>1, InToolKnown DEF FollowsTurn
  <2>3. ToolIsTraced' /\ tool' \in ToolStatus
    BY <2>1, <2>2 DEF ToolIsTraced, ToolStatus
  <2> QED BY <2>1, <2>2, <2>3, ToolMovesOn DEF InTool
<1> QED BY <1>1, <1>2

\* The span gets the outcome of the record.
LEMMA CloseToolKeeps == ASSUME TraceInv, NEW a \in Activities, CloseTool(a) PROVE TraceInv'
<1>1. /\ activity[a].at = "close" /\ activity[a].at \in InTool /\ UNCHANGED <<row, tool, spans>>
      /\ Now(a, Applied(a)) /\ trace' = [trace EXCEPT !.tool = tool]
  BY DEF CloseTool, At, InTool
<1>2. tool \in {"SUCCEEDED", "FAILED"} /\ trace \in TraceRecord
  BY <1>1, InToolKnown DEF FollowsTurn
<1>3. trace' \in TraceRecord /\ trace'.status = trace.status /\ trace'.ended = trace.ended /\ trace'.tool = tool
  BY <1>1, <1>2 DEF TraceRecord
<1>4. ToolIsTraced'
  BY <1>1, <1>2, <1>3 DEF ToolIsTraced
<1> QED BY <1>1, <1>3, <1>4, AppliedTool

\* A tool that is cancelled has failed; its span is cancelled, and the Run does not go on.
LEMMA CancelToolKeeps == ASSUME TraceInv, NEW a \in Activities, CancelTool(a) PROVE TraceInv'
<1>1. UNCHANGED <<row, spans, ends>>
  BY DEF CancelTool
<1>2. CASE /\ At(a, "running") /\ tool' = "FAILED" /\ Now(a, Going(a, "cancelled")) /\ UNCHANGED trace
  <2>1. activity[a].at \in InTool /\ trace \in TraceRecord
    BY <1>2, KnownOf DEF At, InTool
  <2>2. ToolIsTraced' /\ tool' \in ToolStatus
    BY <1>2 DEF ToolIsTraced, ToolStatus
  <2> QED BY <1>1, <1>2, <2>1, <2>2, ToolMovesOn DEF InTool
<1>3. CASE /\ At(a, "cancelled") /\ trace' = [trace EXCEPT !.tool = "CANCELLED"] /\ Now(a, Past(a)) /\ UNCHANGED tool
  <2>1. activity[a].at = "cancelled" /\ activity[a].at \in InTool /\ Runs(activity[a])
    BY <1>3 DEF At, InTool, Runs
  <2>2. tool = "FAILED" /\ trace \in TraceRecord /\ row.next = "tool"
    BY <2>1, InToolKnown DEF FollowsTurn
  <2>3. trace' \in TraceRecord /\ trace'.status = trace.status /\ trace'.ended = trace.ended
    BY <1>3, <2>2 DEF TraceRecord
  <2>4. ToolIsTraced' /\ ToolSpanFollowsTool' /\ tool' \in ToolStatus
    BY <1>1, <1>3, <2>2 DEF ToolIsTraced, ToolSpanFollowsTool, ToolStatus
  <2>5. EndedTraceIsRight'
    BY <1>1, <2>3 DEF EndedTraceIsRight, TraceInv
  <2>6. SpansGo(a)
    BY <1>1, SpansStay, KnownOf
  <2>7. /\ MovesOn(a, Past(a)) /\ Refers(Past(a), spans'[a]) /\ CopiesRow(Past(a), row)
        /\ FollowsTurn(Past(a), row, tool', trace'.tool) /\ CountsOn(a, Past(a))
        /\ Past(a).at = "ended" /\ Past(a).recovered = activity[a].recovered /\ Past(a).resume = activity[a].resume
    BY <1>3, <2>1, <2>6, PastFits
  <2>8. Keeps(a, Past(a))
    BY <1>1, <2>1, <2>3, <2>4, <2>5, <2>6, <2>7 DEF Keeps
  <2> QED BY <2>8, ActivityKeeps
<1> QED BY <1>2, <1>3 DEF CancelTool
\* The trace of a Run that goes on is open (update_run).
LEMMA UpdateRunKeeps == ASSUME TraceInv, NEW a \in Activities, UpdateRun(a) PROVE TraceInv'
<1> DEFINE o == activity[a]
<1>1. o.at = "update" /\ Runs(o) /\ Known(a) /\ UNCHANGED <<row, tool, spans>> /\ o.state \in RowType
  BY KnownOf DEF UpdateRun, At, Runs, Known, ActivityShape
<1>2. trace \in TraceRecord /\ tool \in ToolStatus
  BY KnownOf
<1>3. trace' \in TraceRecord /\ ~trace'.ended /\ trace'.tool = trace.tool
  BY <1>1, <1>2 DEF UpdateRun, TraceRecord, RowType
<1>4. ToolIsTraced' /\ ToolSpanFollowsTool' /\ EndedTraceIsRight'
  <2>1. ToolIsTraced /\ ToolSpanFollowsTool
    BY DEF TraceInv
  <2> QED BY <1>1, <1>3, <2>1 DEF ToolIsTraced, ToolSpanFollowsTool, EndedTraceIsRight
<1>5. SpansGo(a)
  BY <1>1, SpansStay, KnownOf
<1>6. CASE o.kind # "resume"
  <2>1. Now(a, Past(a))
    BY <1>6 DEF UpdateRun
  <2>2. /\ MovesOn(a, Past(a)) /\ Refers(Past(a), spans'[a]) /\ CopiesRow(Past(a), row)
        /\ FollowsTurn(Past(a), row, tool', trace'.tool) /\ CountsOn(a, Past(a))
        /\ Past(a).at = "ended" /\ Past(a).recovered = o.recovered /\ Past(a).resume = o.resume
    BY <1>1, <1>5, <2>1, PastFits
  <2>3. Keeps(a, Past(a))
    BY <1>1, <1>2, <1>3, <1>4, <1>5, <2>2 DEF Keeps
  <2> QED BY <2>3, ActivityKeeps
<1>7. CASE o.kind = "resume"
  <2>1. PICK x : x = Going(a, "loop") /\ Now(a, x)
    BY <1>7 DEF UpdateRun
  <2>2. /\ DOMAIN x = DOMAIN o /\ x.kind = o.kind /\ x.at = "loop" /\ x.state = o.state
        /\ x.recovered = o.recovered /\ x.resume = o.resume /\ x.step = o.step
    BY <2>1, KnownOf DEF Going, NewActivity
  <2>3. MovesOn(a, x)
    BY <1>1, <1>7, <2>1, <2>2
       DEF MovesOn, Known, ActivityShape, Runs, Positions, InSave, InExecution, InStep, InTool
  <2>4. Refers(x, spans'[a])
    <3>1. HoldsSpans(x, spans'[a])
      BY <1>5, <2>2, HoldsStill
    <3> QED BY <2>2, <3>1 DEF Refers, InSave, InStep, InTool
  <2>5. CopiesRow(x, row) /\ FollowsTurn(x, row, tool', trace'.tool)
    BY <1>1, <2>2 DEF Known, CopiesRow, FollowsTurn, BeforeSave, InTool
  <2>6. CountsOn(a, x)
    BY <1>1, <1>5, <2>2, TurnsStay DEF CountsOn, Runs
  <2>7. Keeps(a, x)
    BY <1>1, <1>2, <1>3, <1>4, <1>5, <2>2, <2>3, <2>4, <2>5, <2>6 DEF Keeps
  <2> QED BY <2>7, ActivityKeeps
<1> QED BY <1>6, <1>7

\* A trace is finished with the status that its Run has (finish_run).
LEMMA FinishTraceKeeps == ASSUME TraceInv, NEW a \in Activities, FinishTrace(a) PROVE TraceInv'
<1> DEFINE o == activity[a]
<1>1. o.at = "finish" /\ Runs(o) /\ Known(a) /\ UNCHANGED <<row, tool, spans>> /\ o.state \in RowType
  BY KnownOf DEF FinishTrace, At, Runs, Known, ActivityShape
<1>2. trace \in TraceRecord /\ tool \in ToolStatus
  BY KnownOf
<1>3. o.state.status \in Finished /\ row.status = o.state.status
  BY <1>1 DEF Known, CopiesRow
<1>4. trace' \in TraceRecord /\ trace'.tool = trace.tool /\ trace'.status = o.state.status
  BY <1>1, <1>2 DEF FinishTrace, TraceRecord, RowType
<1>5. ToolIsTraced' /\ ToolSpanFollowsTool' /\ EndedTraceIsRight'
  <2>1. ToolIsTraced /\ ToolSpanFollowsTool
    BY DEF TraceInv
  <2> QED BY <1>1, <1>3, <1>4, <2>1 DEF ToolIsTraced, ToolSpanFollowsTool, EndedTraceIsRight
<1>6. SpansGo(a)
  BY <1>1, SpansStay, KnownOf
<1>7. PICK x : x = Going(a, "returned") /\ Now(a, x)
  BY DEF FinishTrace
<1>8. /\ DOMAIN x = DOMAIN o /\ x.kind = o.kind /\ x.at = "returned" /\ x.state = o.state
      /\ x.recovered = o.recovered /\ x.resume = o.resume /\ x.step = o.step
  BY <1>7, KnownOf DEF Going, NewActivity
<1>9. MovesOn(a, x)
  BY <1>1, <1>7, <1>8
     DEF MovesOn, Known, ActivityShape, Runs, Positions, InSave, InExecution, InStep, InTool
<1>10. Refers(x, spans'[a])
  <2>1. HoldsSpans(x, spans'[a])
    BY <1>6, <1>8, HoldsStill
  <2> QED BY <1>8, <2>1 DEF Refers, InSave, InStep, InTool
<1>11. CopiesRow(x, row) /\ FollowsTurn(x, row, tool', trace'.tool)
  BY <1>1, <1>3, <1>8 DEF Known, CopiesRow, FollowsTurn, BeforeSave, InTool
<1>12. CountsOn(a, x)
  BY <1>1, <1>6, <1>8, TurnsStay DEF CountsOn, Runs
<1>13. Keeps(a, x)
  BY <1>1, <1>2, <1>4, <1>5, <1>6, <1>8, <1>9, <1>10, <1>11, <1>12 DEF Keeps
<1> QED BY <1>13, ActivityKeeps

\* An activity opens the trace again, and a recovery collects the spans that are open (start_run).
LEMMA OpenTraceKeeps == ASSUME TraceInv, NEW a \in Activities, OpenTrace(a) PROVE TraceInv'
<1> DEFINE o == activity[a]
<1>1. /\ o.at = "trace" /\ Runs(o) /\ Known(a) /\ UNCHANGED <<row, tool, spans>> /\ o.state \in RowType
      /\ o.kind \in ActivityKinds
  BY KnownOf DEF OpenTrace, At, Runs, Known, ActivityShape
<1>2. trace \in TraceRecord /\ tool \in ToolStatus
  BY KnownOf
<1>3. trace' \in TraceRecord /\ ~trace'.ended /\ trace'.tool = trace.tool
  BY <1>1, <1>2 DEF OpenTrace, TraceRecord, RowType
<1>4. ToolIsTraced' /\ ToolSpanFollowsTool' /\ EndedTraceIsRight'
  <2>1. ToolIsTraced /\ ToolSpanFollowsTool
    BY DEF TraceInv
  <2> QED BY <1>1, <1>3, <2>1 DEF ToolIsTraced, ToolSpanFollowsTool, EndedTraceIsRight
<1>5. SpansGo(a)
  BY <1>1, SpansStay, KnownOf
<1>6. ASSUME NEW x, Now(a, x), DOMAIN x = DOMAIN o, x.kind = o.kind, x.state \in RowType,
             x.state.sequence = o.state.sequence, x.state.turns = o.state.turns, x.state.next = o.state.next,
             x.recovered = o.recovered, x.resume = o.resume, x.step = o.step,
             \/ x.at = "stale" /\ o.recovered /\ x.stale = StaleSpans
             \/ x.at = "resume" /\ o.kind = "resume" /\ ~o.recovered
             \/ x.at = "save" /\ ~o.recovered /\ x.then = o.kind /\ (o.kind = "cancel" => x.state.status = "CANCELLED")
      PROVE  TraceInv'
  <2>1. o.recovered => o.kind = "resume"
    BY <1>1 DEF Known, ActivityShape
  <2>2. MovesOn(a, x)
    BY <1>1, <1>6, <2>1
       DEF MovesOn, Known, ActivityShape, Runs, Positions, InSave, InExecution, InStep, InTool, Thens, ActivityKinds
  <2>3. Refers(x, spans'[a])
    <3>1. HoldsSpans(x, spans'[a])
      BY <1>5, <1>6, HoldsStill
    <3> QED BY <1>1, <1>6, <3>1 DEF Refers, InSave, InStep, InTool, ActivityKinds
  <2>4. CopiesRow(x, row)
    BY <1>1, <1>6 DEF Known, CopiesRow, BeforeSave, InTool, ActivityKinds, Finished
  <2>5. FollowsTurn(x, row, tool', trace'.tool)
    <3>1. x.state.sequence = row.sequence => x.state.next = row.next
      BY <1>1, <1>6 DEF Known, CopiesRow
    <3> QED BY <1>6, <3>1 DEF FollowsTurn, InTool
  <2>6. CountsOn(a, x)
    BY <1>1, <1>5, <1>6, TurnsStay DEF CountsOn, Runs
  <2>7. Recovers(a)'
    <3>1. activity'[a] = x
      BY <2>2, TurnIsKept DEF TraceInv
    <3>2. SpanIds' = SpanIds /\ \A id : Span(id)' = Span(id)
      BY <1>1 DEF SpanIds, Span
    <3>3. CASE o.recovered
      <4>1. a \in Execution /\ OpenBefore(a)' \subseteq OpenBefore(a)
        BY <1>5, <2>1, <2>2, <3>3, RecoveriesStand DEF Execution
      <4>2. OpenBefore(a) \subseteq StaleSpans /\ StaleSpans \subseteq SpanIds
            /\ \A id \in StaleSpans : Span(id).status = "RUNNING"
        BY DEF OpenBefore, StaleSpans
      <4>3. x.at = "stale" /\ x.stale = StaleSpans
        BY <1>6, <3>3
      <4>4. o.resume # 0 => OpenBefore(a) = {}
        BY <1>1, <3>3 DEF Known, Recovers
      <4> QED BY <1>6, <3>1, <3>2, <4>1, <4>2, <4>3, <4>4 DEF Recovers, At
    <3>4. CASE ~o.recovered
      BY <1>6, <3>1, <3>4 DEF Recovers, At
    <3> QED BY <3>3, <3>4
  <2>8. Keeps(a, x)
    BY <1>1, <1>2, <1>3, <1>4, <1>5, <2>2, <2>3, <2>4, <2>5, <2>6, <2>7 DEF Keeps
  <2> QED BY <2>8, ActivityKeeps
<1>7. CASE o.recovered
  <2>1. PICK x : x = [Going(a, "stale") EXCEPT !.stale = StaleSpans] /\ Now(a, x)
    BY <1>7 DEF OpenTrace
  <2>2. /\ DOMAIN x = DOMAIN o /\ x.kind = o.kind /\ x.at = "stale" /\ x.state = o.state /\ x.stale = StaleSpans
        /\ x.recovered = o.recovered /\ x.resume = o.resume /\ x.step = o.step
    BY <2>1, KnownOf DEF Going, NewActivity
  <2> QED BY <1>1, <1>6, <1>7, <2>1, <2>2
<1>8. CASE o.kind = "resume" /\ ~o.recovered
  <2>1. PICK x : x = Going(a, "resume") /\ Now(a, x)
    BY <1>8 DEF OpenTrace
  <2>2. /\ DOMAIN x = DOMAIN o /\ x.kind = o.kind /\ x.at = "resume" /\ x.state = o.state
        /\ x.recovered = o.recovered /\ x.resume = o.resume /\ x.step = o.step
    BY <2>1, KnownOf DEF Going, NewActivity
  <2> QED BY <1>1, <1>6, <1>8, <2>1, <2>2
<1>9. CASE o.kind # "resume" /\ ~o.recovered
  <2>1. PICK x : /\ x = [Going(a, "save") EXCEPT !.then = activity[a].kind, !.state.status = WithStatus(a)]
                 /\ Now(a, x)
    BY <1>9 DEF OpenTrace
  <2>2. /\ DOMAIN x = DOMAIN o /\ x.kind = o.kind /\ x.at = "save" /\ x.then = o.kind
        /\ x.state = [o.state EXCEPT !.status = WithStatus(a)]
        /\ x.recovered = o.recovered /\ x.resume = o.resume /\ x.step = o.step
    BY <2>1, KnownOf DEF Going, NewActivity
  <2>3. WithStatus(a) \in {"RUNNING", "INTERRUPTED", "CANCELLED"} /\ (o.kind = "cancel" => WithStatus(a) = "CANCELLED")
    <3>1. CASE o.kind = "interrupt"
      BY <3>1 DEF WithStatus
    <3>2. CASE o.kind = "cancel"
      BY <3>2 DEF WithStatus
    <3>3. CASE o.kind \notin {"interrupt", "cancel"}
      BY <3>3 DEF WithStatus
    <3> QED BY <3>1, <3>2, <3>3
  <2>4. /\ x.state \in RowType /\ x.state.sequence = o.state.sequence /\ x.state.turns = o.state.turns
        /\ x.state.next = o.state.next /\ x.state.status = WithStatus(a)
    BY <1>1, <2>2, <2>3 DEF RowType, Finished
  <2> QED BY <1>6, <1>9, <2>1, <2>2, <2>3, <2>4
<1> QED BY <1>7, <1>8, <1>9

\* What the others know stays true of the checkpoint that activity a saves: a copy that
\* was as new is older now, and whoever ends the Run or runs its turn has not begun to.
LEMMA OthersSeeTheSave ==
    ASSUME TraceInv, NEW a \in Activities, activity[a].at = "advance", row.sequence = activity[a].state.sequence,
           NEW r \in RowType, r = [activity[a].state EXCEPT !.sequence = row.sequence + 1],
           NEW b \in Activities \ {a}
    PROVE  CopiesRow(activity[b], r) /\ FollowsTurn(activity[b], r, tool, trace.tool)
<1> DEFINE o == activity[a]
           y == activity[b]
<1>1. Known(a) /\ Known(b) /\ row \in RowType /\ InTurn
  BY KnownOf DEF TraceInv
<1>2. o.state \in RowType /\ o.kind \in ActivityKinds /\ Runs(o) /\ ActivityShape(y)
  BY <1>1 DEF Known, ActivityShape, Runs
<1>3. row.status \notin Finished
  BY <1>1 DEF Known, CopiesRow, BeforeSave
<1>4. r.sequence = row.sequence + 1 /\ r.next = o.state.next /\ row.sequence \in Nat
  BY <1>1, <1>2 DEF RowType
<1>5. y.at \notin {"idle", "ended"} => y.state.sequence \in Nat /\ y.state.sequence <= row.sequence
  BY <1>1, <1>2 DEF Known, CopiesRow, ActivityShape, RowType
<1>6. y.at \notin {"idle", "ended"} => y.state.sequence <= r.sequence /\ y.state.sequence # r.sequence
  BY <1>4, <1>5
<1>7. y.at # "finish" /\ ~(y.at = "saved" /\ y.then \in {"cancel", "end"}) /\ ~(y.at = "returned" /\ y.state.status \in Finished)
  BY <1>1, <1>3 DEF Known, CopiesRow
<1>8. CopiesRow(y, r)
  <2>1. y.at \in {"save", "advance"} /\ y.then \in {"cancel", "end"} => y.state.status \in Finished
    BY <1>1 DEF Known, CopiesRow
  <2> QED BY <1>6, <1>7, <2>1 DEF CopiesRow, BeforeSave, InTool
<1>9. CASE y.at \in {"open", "llm", "calling"} \cup InTool
  <2>1. b \in Execution /\ Runs(y)
    BY <1>2, <1>9 DEF ActivityShape, Execution, InExecution, InStep, InTool, Runs
  <2>2. o.kind \in {"interrupt", "cancel"}
    <3>1. a \notin Execution
      BY <1>1, <1>2, <2>1, OneExecution
    <3> QED BY <1>2, <3>1 DEF Execution, ActivityKinds
  <2>3. r.next = row.next
    BY <1>1, <1>4, <2>2 DEF Known, CopiesRow
  <2>4. FollowsTurn(y, row, tool, trace.tool) /\ y.at \notin {"save", "advance"}
    BY <1>1, <1>9 DEF Known, InTool
  <2> QED BY <1>8, <2>3, <2>4 DEF FollowsTurn
<1>10. CASE y.at \notin {"open", "llm", "calling"} \cup InTool
  <2>1. y.at \in {"save", "advance"} => y.state.sequence # r.sequence
    BY <1>6
  <2>2. y.at \notin {"open", "llm", "calling", "run", "running", "reuse", "close", "cancelled"}
    BY <1>10 DEF InTool
  <2> QED BY <1>8, <1>10, <2>1, <2>2 DEF FollowsTurn
<1> QED BY <1>8, <1>9, <1>10

\* The checkpoint that is saved counts once, with the span that was opened for it.
LEMMA SaveIsCounted ==
    ASSUME TraceInv, NEW a \in Activities, activity[a].at = "advance", row.sequence = activity[a].state.sequence,
           NEW x, MovesOn(a, x), x.at = "saved", x.span = activity[a].span, x.state = row', UNCHANGED spans,
           row'.sequence = row.sequence + 1, row'.turns = activity[a].state.turns
    PROVE  SpansCounted'
<1> DEFINE o == activity[a]
<1>1. activity'[a] = x /\ SpansCounted /\ \A b \in Activities \ {a} : activity'[b] = activity[b]
  BY TurnIsKept DEF TraceInv
<1>2. SpanIds' = SpanIds /\ \A id : Span(id)' = Span(id)
  BY DEF SpanIds, Span
<1>3. \A type : Succeeded(type)' = Succeeded(type)
  BY <1>2 DEF Succeeded
<1>4. /\ <<a, o.span>> \in SpanIds /\ Span(<<a, o.span>>).type = "checkpoint"
      /\ Span(<<a, o.span>>).status # "FAILED"
  BY KnownOf, SpanIdsAre DEF Known, Refers
<1>5. PICK saves \in SUBSET SpanIds : SavedCheckpoints(saves)
  BY <1>1 DEF SpansCounted
<1>6. PICK more \in SUBSET SpanIds : more = saves \cup {<<a, o.span>>}
  BY <1>4
<1>7. Cardinality(more) = row'.sequence
  <2>1. <<a, o.span>> \notin saves /\ Cardinality(saves) = row.sequence
    BY <1>5 DEF SavedCheckpoints
  <2>2. IsFiniteSet(saves)
    BY <1>5, <1>1, FS_Subset DEF SpansCounted
  <2>3. PICK new : new = <<a, o.span>>
    OBVIOUS
  <2>4. Cardinality(saves \cup {new}) = Cardinality(saves) + 1
    BY <2>1, <2>2, <2>3, FS_AddElement
  <2> QED BY <1>6, <2>1, <2>3, <2>4
<1>8. more \subseteq {id \in SpanIds : Span(id).type = "checkpoint" /\ Span(id).status # "FAILED"}
  BY <1>4, <1>5, <1>6 DEF SavedCheckpoints
<1>9. Succeeded("checkpoint") \subseteq more
  BY <1>5, <1>6 DEF SavedCheckpoints
<1>10. ASSUME NEW b \in Activities
       PROVE  /\ activity'[b].at = "saved" => <<b, activity'[b].span>> \in more
              /\ activity'[b].at \in {"advance", "conflict"} => <<b, activity'[b].span>> \notin more
  <2>1. CASE b = a
    BY <1>1, <1>6, <2>1
  <2>2. CASE b # a
    <3>1. <<b, activity[b].span>> # <<a, o.span>>
      BY <2>2
    <3> QED BY <1>1, <1>5, <1>6, <2>2, <3>1 DEF SavedCheckpoints, At
  <2> QED BY <2>1, <2>2
<1>11. SavedCheckpoints(more)'
  <2>1. more \subseteq {id \in SpanIds : Span(id).type = "checkpoint" /\ Span(id).status # "FAILED"}'
    BY <1>2, <1>8
  <2> QED BY <1>3, <1>7, <1>9, <1>10, <2>1 DEF SavedCheckpoints, At
<1>12. ASSUME NEW b \in Activities, activity'[b].at \notin {"idle", "ended"}
       PROVE  activity'[b].state.turns <= Cardinality(Succeeded("llm"))
  <2>1. CASE b = a
    BY <1>1, <2>1 DEF SpansCounted
  <2>2. CASE b # a
    BY <1>1, <1>12, <2>2 DEF SpansCounted
  <2> QED BY <2>1, <2>2
<1>13. row'.turns <= Cardinality(Succeeded("llm"))
  BY <1>1 DEF SpansCounted
<1> QED BY <1>1, <1>2, <1>3, <1>11, <1>12, <1>13 DEF SpansCounted

\* A checkpoint is saved only over the one its copy was made of (advance_run_state).
LEMMA AdvanceRunStateKeeps == ASSUME TraceInv, NEW a \in Activities, AdvanceRunState(a) PROVE TraceInv'
<1> DEFINE o == activity[a]
<1>1. /\ o.at = "advance" /\ Runs(o) /\ Known(a) /\ UNCHANGED <<tool, trace, spans>> /\ o.state \in RowType
      /\ o.kind \in ActivityKinds /\ row \in RowType /\ trace \in TraceRecord /\ tool \in ToolStatus
  BY KnownOf DEF AdvanceRunState, At, Runs, Known, ActivityShape
<1>2. SpansGo(a)
  BY <1>1, SpansStay, KnownOf
<1>3. CASE row.sequence # o.state.sequence
  <2>1. PICK x : x = Going(a, "conflict") /\ Now(a, x)
    BY <1>3 DEF AdvanceRunState
  <2>2. /\ DOMAIN x = DOMAIN o /\ x.kind = o.kind /\ x.at = "conflict" /\ x.state = o.state
        /\ x.recovered = o.recovered /\ x.resume = o.resume /\ x.step = o.step /\ x.span = o.span
    BY <2>1, KnownOf DEF Going, NewActivity
  <2>3. MovesOn(a, x)
    BY <1>1, <2>1, <2>2
       DEF MovesOn, Known, ActivityShape, Runs, Positions, InSave, InExecution, InStep, InTool
  <2>4. Refers(x, spans'[a])
    <3>1. HoldsSpans(x, spans'[a])
      BY <1>2, <2>2, HoldsStill
    <3>2. x.span \in DOMAIN spans'[a] /\ spans'[a][x.span].type = "checkpoint"
      BY <1>1, <2>2 DEF Known, Refers
    <3> QED BY <2>2, <3>1, <3>2 DEF Refers, InSave, InStep, InTool
  <2>5. CopiesRow(x, row) /\ FollowsTurn(x, row, tool, trace.tool)
    BY <1>1, <2>2 DEF Known, CopiesRow, FollowsTurn, BeforeSave, InTool
  <2>6. CountsOn(a, x)
    BY <1>1, <1>2, <2>2, TurnsStay DEF CountsOn, Runs, At
  <2>7. row' = row
    BY <1>3 DEF AdvanceRunState
  <2> QED BY <1>1, <1>2, <2>2, <2>3, <2>4, <2>5, <2>6, <2>7, QuietKeeps DEF Quiet
<1>4. CASE row.sequence = o.state.sequence
  <2>1. PICK r \in RowType : r = [o.state EXCEPT !.sequence = row.sequence + 1] /\ row' = r
    BY <1>1, <1>4 DEF AdvanceRunState, RowType
  <2>2. PICK x : x = [Going(a, "saved") EXCEPT !.state = r] /\ Now(a, x)
    BY <1>4, <2>1 DEF AdvanceRunState
  <2>3. /\ DOMAIN x = DOMAIN o /\ x.kind = o.kind /\ x.at = "saved" /\ x.state = r /\ x.then = o.then
        /\ x.recovered = o.recovered /\ x.resume = o.resume /\ x.step = o.step /\ x.span = o.span
    BY <2>2, KnownOf DEF Going, NewActivity
  <2>4. /\ r.sequence = row.sequence + 1 /\ r.turns = o.state.turns /\ r.next = o.state.next
        /\ r.status = o.state.status
    BY <1>1, <2>1 DEF RowType
  <2>5. MovesOn(a, x)
    BY <1>1, <2>2, <2>3
       DEF MovesOn, Known, ActivityShape, Runs, Positions, InSave, InExecution, InStep, InTool
  <2>6. Refers(x, spans'[a])
    <3>1. HoldsSpans(x, spans'[a])
      BY <1>2, <2>3, HoldsStill
    <3>2. /\ x.span \in DOMAIN spans'[a] /\ spans'[a][x.span].type = "checkpoint"
          /\ spans'[a][x.span].status # "FAILED"
          /\ x.then = "step" => x.step # 0
      BY <1>1, <2>3 DEF Known, Refers, InSave
    <3> QED BY <2>3, <3>1, <3>2 DEF Refers, InSave, InStep, InTool
  <2>7. CopiesRow(x, r) /\ FollowsTurn(x, r, tool, trace.tool)
    <3>1. x.then \in {"cancel", "end"} => r.status \in Finished
      BY <1>1, <2>3, <2>4 DEF Known, CopiesRow
    <3>2. x.state.sequence <= r.sequence
      BY <2>3 DEF RowType
    <3> QED BY <2>3, <3>1, <3>2 DEF CopiesRow, FollowsTurn, BeforeSave, InTool
  <2>8. Recovers(a)'
    <3>1. x.at \notin {"stale", "resume"} /\ x.recovered = o.recovered /\ x.resume = o.resume
      BY <2>3
    <3> QED BY <1>2, <2>5, <3>1, OwnRecoveryStands
  <2>9. /\ activity'[a] = x /\ \A b \in Activities \ {a} : activity'[b] = activity[b]
        /\ DOMAIN activity' = Activities /\ \A b \in Activities : ActivityShape(activity'[b])
        /\ InTurn'
    BY <2>5, TurnIsKept DEF TraceInv
  <2>10. ASSUME NEW b \in Activities
         PROVE  /\ Refers(activity'[b], spans'[b]) /\ CopiesRow(activity'[b], row')
                /\ FollowsTurn(activity'[b], row', tool', trace'.tool) /\ Recovers(b)'
    <3>1. CASE b = a
      BY <1>1, <2>1, <2>6, <2>7, <2>8, <2>9, <3>1
    <3>2. CASE b # a
      <4>1. Refers(activity[b], spans'[b])
        BY <1>1 DEF TraceInv
      <4>2. CopiesRow(activity[b], r) /\ FollowsTurn(activity[b], r, tool, trace.tool)
        BY <1>1, <1>4, <2>1, <3>2, OthersSeeTheSave
      <4>3. Recovers(b)'
        BY <1>2, <2>5, <3>2, RecoveriesStand
      <4> QED BY <1>1, <2>1, <2>9, <3>2, <4>1, <4>2, <4>3
    <3> QED BY <3>1, <3>2
  <2>11. SpansCounted'
    <3>1. row'.sequence = row.sequence + 1 /\ row'.turns = o.state.turns /\ x.state = row'
      BY <2>1, <2>3, <2>4
    <3> QED BY <1>1, <1>4, <2>3, <2>5, <3>1, SaveIsCounted
  <2>12. EndedTraceIsRight'
    <3>1. row.status \notin Finished
      BY <1>1, <1>4 DEF Known, CopiesRow, BeforeSave
    <3>2. ~trace.ended
      BY <3>1 DEF TraceInv, EndedTraceIsRight
    <3> QED BY <1>1, <3>2 DEF EndedTraceIsRight
  <2>13. ToolSpanFollowsTool' /\ ToolIsTraced'
    <3>1. r.next = "tool" \/ row.next # "tool" \/ trace.tool = tool
      BY <1>1, <1>4, <2>4 DEF Known, FollowsTurn
    <3>2. ToolSpanFollowsTool /\ ToolIsTraced
      BY DEF TraceInv
    <3> QED BY <1>1, <2>1, <3>1, <3>2 DEF ToolSpanFollowsTool, ToolIsTraced
  <2>14. TraceTypeOK'
    BY <1>1, <1>2, <2>1, <2>9 DEF TraceTypeOK, SpansGo
  <2> QED BY <2>9, <2>10, <2>11, <2>12, <2>13, <2>14 DEF TraceInv
<1> QED BY <1>3, <1>4

\* Activities begin one after the other, and none begins at a Run that has ended.
LEMMA BeginsAsNext ==
    ASSUME TraceInv, NEW a \in Activities, NEW kind \in ActivityKinds, Begin(a, kind)
    PROVE  /\ \E k \in Nat : a = k + 1 /\ {b \in Activities : ~At(b, "idle")} = 1 .. k
           /\ At(a, "idle") /\ row.status \notin Finished
<1>1. PICK k \in 0 .. MaxActivities : {b \in Activities : ~At(b, "idle")} = 1 .. k
  BY DEF TraceInv, InTurn
<1>2. k \in Nat
  BY <1>1, RunTraceAssumption
<1>3. Cardinality(1 .. k) = k
  <2>1. 1 \in Int /\ k \in Int
    BY <1>2
  <2>2. Cardinality(1 .. k) = IF 1 > k THEN 0 ELSE k - 1 + 1
    BY <2>1, FS_Interval
  <2> QED BY <1>2, <2>2
<1>4. a = k + 1
  BY <1>1, <1>3 DEF Begin
<1>5. row.status \notin Finished
  <2>1. row.status \in Statuses(kind)
    BY DEF Begin
  <2>2. Statuses(kind) \subseteq {"none", "RUNNING", "INTERRUPTED"}
    <3>1. CASE kind = "start"
      BY <3>1 DEF Statuses
    <3>2. CASE kind = "resume"
      BY <3>2 DEF Statuses
    <3>3. CASE kind = "interrupt"
      BY <3>3 DEF Statuses
    <3>4. CASE kind = "cancel"
      BY <3>4 DEF Statuses
    <3> QED BY <3>1, <3>2, <3>3, <3>4 DEF ActivityKinds
  <2> QED BY <2>1, <2>2 DEF Finished
<1> QED BY <1>1, <1>2, <1>4, <1>5 DEF Begin

\* An activity begins with the checkpoint as it is, after those there are; an execution
\* when none is going on (start, resume, interrupt and cancel).
LEMMA BeginKeeps ==
    ASSUME TraceInv, NEW a \in Activities, NEW kind \in ActivityKinds, Begin(a, kind)
    PROVE  TraceInv'
<1>1. /\ TraceTypeOK /\ InTurn /\ SpansCounted /\ UNCHANGED <<row, tool, trace, spans>> /\ row \in RowType
      /\ DOMAIN activity = Activities /\ \A b \in Activities : ActivityShape(activity[b])
  BY KnownOf DEF TraceInv, TraceTypeOK, Begin
<1>2. PICK k \in Nat : a = k + 1 /\ {b \in Activities : ~At(b, "idle")} = 1 .. k
  BY BeginsAsNext
<1>3. At(a, "idle") /\ row.status \notin Finished
  BY BeginsAsNext
<1>4. PICK state \in RowType : state = IF kind = "start" THEN [row EXCEPT !.status = "RUNNING"] ELSE row
  BY <1>1 DEF RowType
<1>5. PICK x : /\ x = [NewActivity EXCEPT !.kind = kind, !.at = "trace",
                                          !.recovered = kind = "resume" /\ row.status = "RUNNING", !.state = state]
               /\ Now(a, x)
  BY <1>4 DEF Begin
<1>6. /\ DOMAIN x = DOMAIN NewActivity /\ x.kind = kind /\ x.at = "trace" /\ x.state = state
      /\ x.recovered = (kind = "resume" /\ row.status = "RUNNING") /\ x.resume = 0 /\ x.step = 0
  BY <1>5 DEF NewActivity
<1>7. state.sequence = row.sequence /\ state.turns = row.turns /\ state.next = row.next
  BY <1>1, <1>4 DEF RowType
<1>8. /\ activity'[a] = x /\ \A b \in Activities \ {a} : activity'[b] = activity[b]
      /\ DOMAIN activity' = Activities
  BY <1>1, <1>5 DEF Now
<1>9. ActivityShape(x)
  BY <1>6
     DEF ActivityShape, NewActivity, Positions, InSave, InExecution, InStep, InTool
<1>10. \A b \in Execution : b \in 1 .. k /\ b # a
  <2> SUFFICES ASSUME NEW b \in Execution PROVE b \in 1 .. k /\ b # a
    OBVIOUS
  <2>1. b \in Activities /\ activity[b].kind \in {"start", "resume"} /\ ActivityShape(activity[b])
    BY <1>1 DEF Execution
  <2>2. activity[b].at # "idle"
    BY <2>1 DEF ActivityShape, NewActivity
  <2> QED BY <1>2, <1>3, <2>1, <2>2 DEF At
<1>11. Execution \subseteq Execution' /\ Execution' \subseteq Execution \cup {a}
  <2>1. \A b \in Activities \ {a} : activity'[b].kind = activity[b].kind
    BY <1>8
  <2> QED BY <1>10, <2>1 DEF Execution
<1>12. InTurn'
  <2>1. {b \in Activities : ~At(b, "idle")}' = 1 .. (k + 1)
    <3>1. \A b \in Activities : activity'[b].at # "idle" <=> (b = a \/ b \in 1 .. k)
      BY <1>2, <1>6, <1>8 DEF At
    <3>2. 1 .. (k + 1) \subseteq Activities
      BY <1>2, RunTraceAssumption DEF Activities
    <3>3. \A b \in Activities : b \in 1 .. (k + 1) <=> (b = a \/ b \in 1 .. k)
      BY <1>2 DEF Activities
    <3>4. \A b \in Activities : ~At(b, "idle")' <=> b \in 1 .. (k + 1)
      BY <3>1, <3>3 DEF At
    <3> QED BY <3>2, <3>4
  <2>2. k + 1 \in 0 .. MaxActivities
    BY <1>2, RunTraceAssumption DEF Activities
  <2>3. ASSUME NEW b \in Execution', NEW c \in Execution', c < b PROVE activity'[c].at = "ended"
    <3>1. c # a
      BY <1>2, <1>10, <1>11, <2>3
    <3>2. c \in Execution /\ activity'[c] = activity[c]
      BY <1>8, <1>11, <3>1 DEF Execution
    <3>3. CASE b = a
      <4>1. kind # "start"
        BY <1>2, <1>10, <2>3, <3>2, <3>3 DEF Begin
      <4>2. kind = "resume"
        BY <1>6, <1>8, <3>3, <4>1 DEF Execution
      <4> QED BY <3>2, <4>2 DEF Begin, At
    <3>4. CASE b # a
      BY <1>1, <1>11, <2>3, <3>2, <3>4 DEF InTurn, At
    <3> QED BY <3>3, <3>4
  <2>4. \E m \in 0 .. MaxActivities : {b \in Activities : ~At(b, "idle")}' = 1 .. m
    BY <2>1, <2>2
  <2> QED BY <2>3, <2>4 DEF InTurn, At
<1>13. SpanIds' = SpanIds /\ \A id : Span(id)' = Span(id)
  BY <1>1 DEF SpanIds, Span
<1>14. \A type : Succeeded(type)' = Succeeded(type)
  BY <1>13 DEF Succeeded
<1>15. Refers(x, spans[a]) /\ CopiesRow(x, row) /\ FollowsTurn(x, row, tool, trace.tool)
  <2>1. Refers(x, spans[a])
    BY <1>6 DEF Refers, HoldsSpans, InSave, InStep, InTool
  <2>2. CopiesRow(x, row)
    BY <1>1, <1>3, <1>6, <1>7 DEF CopiesRow, BeforeSave, InTool, RowType
  <2>3. FollowsTurn(x, row, tool, trace.tool)
    BY <1>6 DEF FollowsTurn, InTool
  <2> QED BY <2>1, <2>2, <2>3
<1>16. Recovers(a)'
  BY <1>6, <1>8 DEF Recovers, At
<1>17. ASSUME NEW b \in Activities \ {a} PROVE Recovers(b)'
  <2>1. Recovers(b) /\ activity'[b] = activity[b]
    BY <1>8 DEF TraceInv
  <2>2. CASE activity[b].at = "idle"
    <3>1. activity[b] = NewActivity
      BY <1>1, <2>2 DEF ActivityShape
    <3>2. ~activity[b].recovered
      BY <3>1 DEF NewActivity
    <3> QED BY <2>1, <2>2, <3>2 DEF Recovers, At
  <2>3. CASE activity[b].at # "idle"
    <3>1. b \in 1 .. k
      BY <1>2, <2>3 DEF At
    <3>2. ~(a < b)
      BY <1>2, <3>1
    <3>3. OpenBefore(b)' \subseteq OpenBefore(b)
      <4> SUFFICES ASSUME NEW id \in OpenBefore(b)' PROVE id \in OpenBefore(b)
        OBVIOUS
      <4>1. id \in SpanIds /\ id[1] \in Execution' /\ id[1] < b /\ Span(id).status = "RUNNING"
        BY <1>13 DEF OpenBefore
      <4>2. id[1] # a
        BY <3>2, <4>1
      <4> QED BY <1>11, <4>1, <4>2 DEF OpenBefore
    <3>4. At(b, "stale") \/ activity[b].recovered => Recovers(b)'
      BY <1>13, <2>1, <3>3 DEF Recovers, At
    <3> QED BY <2>1, <3>4 DEF Recovers, At
  <2> QED BY <2>2, <2>3
<1>18. SpansCounted'
  <2>1. PICK saves \in SUBSET SpanIds : SavedCheckpoints(saves)
    BY <1>1 DEF SpansCounted
  <2>2. ASSUME NEW b \in Activities
        PROVE  /\ activity'[b].at = "saved" => <<b, activity'[b].span>> \in saves
               /\ activity'[b].at \in {"advance", "conflict"} => <<b, activity'[b].span>> \notin saves
    <3>1. CASE b = a
      BY <1>6, <1>8, <3>1
    <3>2. CASE b # a
      BY <1>8, <2>1, <3>2 DEF SavedCheckpoints, At
    <3> QED BY <3>1, <3>2
  <2>3. {id \in SpanIds : Span(id).type = "checkpoint" /\ Span(id).status # "FAILED"}' =
            {id \in SpanIds : Span(id).type = "checkpoint" /\ Span(id).status # "FAILED"}
    BY <1>13
  <2>4. SavedCheckpoints(saves)'
    BY <1>1, <1>14, <2>1, <2>2, <2>3 DEF SavedCheckpoints, At
  <2>5. ASSUME NEW b \in Activities, activity'[b].at \notin {"idle", "ended"}
        PROVE  activity'[b].state.turns <= Cardinality(Succeeded("llm"))
    <3>1. CASE b = a
      BY <1>1, <1>6, <1>7, <1>8, <3>1 DEF SpansCounted
    <3>2. CASE b # a
      BY <1>1, <1>8, <2>5, <3>2 DEF SpansCounted
    <3> QED BY <3>1, <3>2
  <2>6. row.turns <= Cardinality(Succeeded("llm"))
    BY <1>1 DEF SpansCounted
  <2> QED BY <1>1, <1>13, <1>14, <2>4, <2>5, <2>6 DEF SpansCounted
<1>19. ASSUME NEW b \in Activities
       PROVE  /\ Refers(activity'[b], spans'[b]) /\ CopiesRow(activity'[b], row')
              /\ FollowsTurn(activity'[b], row', tool', trace'.tool) /\ Recovers(b)'
  <2>1. CASE b = a
    BY <1>1, <1>8, <1>15, <1>16, <2>1
  <2>2. CASE b # a
    <3>1. /\ Refers(activity[b], spans[b]) /\ CopiesRow(activity[b], row)
          /\ FollowsTurn(activity[b], row, tool, trace.tool)
      BY DEF TraceInv
    <3> QED BY <1>1, <1>8, <1>17, <2>2, <3>1
  <2> QED BY <2>1, <2>2
<1>20. TraceTypeOK'
  <2>1. \A b \in Activities : ActivityShape(activity'[b])
    BY <1>1, <1>8, <1>9
  <2> QED BY <1>1, <1>8, <2>1 DEF TraceTypeOK
<1>21. ToolIsTraced' /\ EndedTraceIsRight' /\ ToolSpanFollowsTool'
  BY <1>1 DEF TraceInv, ToolIsTraced, EndedTraceIsRight, ToolSpanFollowsTool
<1> QED BY <1>12, <1>18, <1>19, <1>20, <1>21 DEF TraceInv

(***************************************************************************)
(* The theorem.                                                            *)
(***************************************************************************)

\* The invariant holds before anything began.
LEMMA TraceInitially == TraceInit => TraceInv
<1> SUFFICES ASSUME TraceInit PROVE TraceInv
  OBVIOUS
<1>1. /\ row = [sequence |-> 0, status |-> "none", turns |-> 0, next |-> "llm"] /\ tool = "none"
      /\ trace = [status |-> "none", ended |-> FALSE, tool |-> "none"]
      /\ spans = [a \in Activities |-> <<>>] /\ activity = [a \in Activities |-> NewActivity]
  BY DEF TraceInit
<1>2. \A a \in Activities : activity[a] = NewActivity /\ spans[a] = <<>>
  BY <1>1
<1>3. ActivityShape(NewActivity)
  BY DEF ActivityShape, NewActivity, Positions, InSave, InExecution, InStep, InTool
<1>4. TraceTypeOK
  <2>1. spans \in [Activities -> Seq(SpanType)]
    BY <1>1
  <2>2. row \in RowType /\ tool \in ToolStatus /\ trace \in TraceRecord
    BY <1>1 DEF RowType, ToolStatus, TraceRecord
  <2> QED BY <1>1, <1>2, <1>3, <2>1, <2>2 DEF TraceTypeOK
<1>5. SpanIds = {}
  <2>1. \A a \in Activities : DOMAIN spans[a] = {}
    BY <1>2
  <2> QED BY <2>1 DEF SpanIds
<1>6. \A a \in Activities : activity[a].at = "idle" /\ activity[a].kind = "none" /\ ~activity[a].recovered
                            /\ activity[a].resume = 0 /\ activity[a].step = 0
  BY <1>2 DEF NewActivity
<1>7. InTurn
  <2>1. {a \in Activities : ~At(a, "idle")} = 1 .. 0
    BY <1>6 DEF At
  <2>2. 0 \in 0 .. MaxActivities
    BY RunTraceAssumption
  <2>3. Execution = {}
    BY <1>6 DEF Execution
  <2> QED BY <2>1, <2>2, <2>3 DEF InTurn
<1>8. SpansCounted
  <2>1. IsFiniteSet(SpanIds) /\ Cardinality({}) = 0
    BY <1>5, FS_EmptySet
  <2>2. Succeeded("llm") = {} /\ Succeeded("checkpoint") = {}
    BY <1>5 DEF Succeeded
  <2>3. SavedCheckpoints({})
    BY <1>1, <1>5, <1>6, <2>1, <2>2 DEF SavedCheckpoints, At
  <2>4. \E saves \in SUBSET SpanIds : SavedCheckpoints(saves)
    BY <2>3, Zenon
  <2>5. row.turns <= Cardinality(Succeeded("llm"))
    <3>1. row.turns = 0
      BY <1>1
    <3>2. Cardinality(Succeeded("llm")) = 0
      BY <2>1, <2>2
    <3> QED BY <3>1, <3>2
  <2> QED BY <1>6, <2>1, <2>4, <2>5 DEF SpansCounted
<1>9. ASSUME NEW a \in Activities
      PROVE  /\ Refers(activity[a], spans[a]) /\ CopiesRow(activity[a], row)
             /\ FollowsTurn(activity[a], row, tool, trace.tool) /\ Recovers(a)
  <2>1. Refers(activity[a], spans[a])
    <3>1. activity[a].at = "idle" /\ activity[a].resume = 0 /\ activity[a].step = 0
      BY <1>6
    <3>2. HoldsSpans(activity[a], spans[a])
      BY <3>1 DEF HoldsSpans
    <3> QED BY <3>1, <3>2 DEF Refers, InSave, InStep, InTool
  <2>2. CopiesRow(activity[a], row) /\ FollowsTurn(activity[a], row, tool, trace.tool)
    BY <1>6 DEF CopiesRow, FollowsTurn, BeforeSave, InTool
  <2>3. Recovers(a)
    BY <1>6 DEF Recovers, At
  <2> QED BY <2>1, <2>2, <2>3
<1>10. ToolIsTraced /\ EndedTraceIsRight /\ ToolSpanFollowsTool
  BY <1>1 DEF ToolIsTraced, EndedTraceIsRight, ToolSpanFollowsTool
<1> QED BY <1>4, <1>7, <1>8, <1>9, <1>10 DEF TraceInv

\* Every step keeps it.
LEMMA TraceSteps == TraceInv /\ [TraceNext]_traceVars => TraceInv'
<1>1. ASSUME TraceInv, TraceNext PROVE TraceInv'
  <2>1. PICK a \in Activities :
            \/ \E kind \in {"start", "resume", "interrupt", "cancel"} : Begin(a, kind)
            \/ OpenTrace(a) \/ CloseStaleSpan(a) \/ OpenResume(a)
            \/ OpenSave(a) \/ AdvanceRunState(a) \/ CloseSave(a) \/ FailSave(a) \/ Raise(a)
            \/ UpdateRun(a) \/ RecordInterrupt(a)
            \/ Loop(a) \/ OpenStep(a) \/ OpenCall(a) \/ AnswerCall(a) \/ FailCall(a) \/ CloseStep(a)
            \/ ReuseResult(a) \/ GiveUpTool(a) \/ RecordTool(a) \/ OpenTool(a) \/ StartTool(a) \/ EndTool(a)
            \/ CloseTool(a) \/ CancelTool(a)
            \/ FinishTrace(a) \/ Return(a) \/ EndActivity(a)
    BY <1>1, Zenon DEF TraceNext
  <2>2. ASSUME NEW kind \in {"start", "resume", "interrupt", "cancel"}, Begin(a, kind) PROVE TraceInv'
    BY <1>1, <2>2, BeginKeeps DEF ActivityKinds
  <2>3. ASSUME OpenTrace(a) \/ CloseStaleSpan(a) \/ OpenResume(a) PROVE TraceInv'
    BY <1>1, <2>3, OpenTraceKeeps, CloseStaleSpanKeeps, OpenResumeKeeps, Zenon
  <2>4. ASSUME OpenSave(a) \/ AdvanceRunState(a) \/ CloseSave(a) \/ FailSave(a) \/ Raise(a) PROVE TraceInv'
    BY <1>1, <2>4, OpenSaveKeeps, AdvanceRunStateKeeps, CloseSaveKeeps, FailSaveKeeps, RaiseKeeps, Zenon
  <2>5. ASSUME UpdateRun(a) \/ RecordInterrupt(a) PROVE TraceInv'
    BY <1>1, <2>5, UpdateRunKeeps, RecordInterruptKeeps, Zenon
  <2>6. ASSUME Loop(a) \/ OpenStep(a) \/ OpenCall(a) \/ AnswerCall(a) \/ FailCall(a) \/ CloseStep(a) PROVE TraceInv'
    BY <1>1, <2>6, LoopKeeps, OpenStepKeeps, OpenCallKeeps, AnswerCallKeeps, FailCallKeeps, CloseStepKeeps, Zenon
  <2>7. ASSUME ReuseResult(a) \/ GiveUpTool(a) \/ RecordTool(a) \/ OpenTool(a) PROVE TraceInv'
    BY <1>1, <2>7, ReuseResultKeeps, ToolRecordKeeps, OpenToolKeeps, Zenon
  <2>8. ASSUME StartTool(a) \/ EndTool(a) \/ CloseTool(a) \/ CancelTool(a) PROVE TraceInv'
    BY <1>1, <2>8, StartToolKeeps, CloseToolKeeps, CancelToolKeeps, Zenon
  <2>9. ASSUME FinishTrace(a) \/ Return(a) \/ EndActivity(a) PROVE TraceInv'
    BY <1>1, <2>9, FinishTraceKeeps, ReturnKeeps, EndActivityKeeps, Zenon
  <2> QED BY <2>1, <2>2, <2>3, <2>4, <2>5, <2>6, <2>7, <2>8, <2>9, Zenon
<1>2. ASSUME TraceInv, UNCHANGED traceVars PROVE TraceInv'
  <2>1. UNCHANGED <<row, tool, trace, spans, activity>>
    BY <1>2 DEF traceVars
  <2>2. SpanIds' = SpanIds /\ Execution' = Execution /\ \A id : Span(id)' = Span(id)
    BY <2>1 DEF SpanIds, Execution, Span
  <2>3. \A a \in Activities : Recovers(a)'
    <3>1. \A a : OpenBefore(a)' = OpenBefore(a)
      BY <2>2 DEF OpenBefore
    <3> QED BY <1>2, <2>1, <2>2, <3>1 DEF TraceInv, Recovers, At
  <2>4. SpansCounted'
    <3>1. \A type : Succeeded(type)' = Succeeded(type)
      BY <2>2 DEF Succeeded
    <3>2. {id \in SpanIds : Span(id).type = "checkpoint" /\ Span(id).status # "FAILED"}' =
              {id \in SpanIds : Span(id).type = "checkpoint" /\ Span(id).status # "FAILED"}
      BY <2>2
    <3>3. \A saves : SavedCheckpoints(saves) => SavedCheckpoints(saves)'
      BY <2>1, <3>1, <3>2 DEF SavedCheckpoints, At
    <3> QED BY <1>2, <2>1, <2>2, <3>1, <3>3 DEF TraceInv, SpansCounted
  <2>5. TraceTypeOK' /\ InTurn'
    BY <1>2, <2>1, <2>2 DEF TraceInv, TraceTypeOK, InTurn, At
  <2>6. ToolIsTraced' /\ EndedTraceIsRight' /\ ToolSpanFollowsTool'
    BY <1>2, <2>1 DEF TraceInv, ToolIsTraced, EndedTraceIsRight, ToolSpanFollowsTool
  <2> QED BY <1>2, <2>1, <2>3, <2>4, <2>5, <2>6 DEF TraceInv
<1> QED BY <1>1, <1>2

\* The checkpoints that were saved lie between the spans that succeeded and those that did not fail.
LEMMA TraceIsRight == TraceInv => TraceFollowsTheRun
<1> SUFFICES ASSUME TraceInv PROVE TraceFollowsTheRun
  OBVIOUS
<1>1. \A type : Ones(type, "SUCCEEDED") = Cardinality(Succeeded(type))
  BY DEF Ones, Succeeded
<1>2. TurnsAreTraced
  BY <1>1 DEF TurnsAreTraced, TraceInv, SpansCounted
<1>3. CheckpointsAreCounted
  <2> DEFINE all == {id \in SpanIds : Span(id).type = "checkpoint" /\ Span(id).status # "FAILED"}
  <2>1. PICK saves \in SUBSET SpanIds : SavedCheckpoints(saves)
    BY DEF TraceInv, SpansCounted
  <2>2. saves \subseteq all /\ Succeeded("checkpoint") \subseteq saves /\ Cardinality(saves) = row.sequence
    BY <2>1 DEF SavedCheckpoints
  <2>3. IsFiniteSet(saves) /\ IsFiniteSet(all)
    <3>1. IsFiniteSet(SpanIds) /\ all \subseteq SpanIds
      BY DEF TraceInv, SpansCounted
    <3> QED BY <2>1, <3>1, FS_Subset
  <2>4. Cardinality(saves) <= Cardinality(all) /\ Cardinality(Succeeded("checkpoint")) <= Cardinality(saves)
    BY <2>2, <2>3, FS_Subset
  <2> QED BY <1>1, <2>2, <2>4 DEF CheckpointsAreCounted
<1>4. RecoveryLeavesNoneOpen
  <2> SUFFICES ASSUME NEW a \in Activities, activity[a].recovered /\ activity[a].resume # 0,
                      NEW id \in SpanIds, id[1] \in Execution /\ id[1] < a
               PROVE  Span(id).status # "RUNNING"
    BY DEF RecoveryLeavesNoneOpen
  <2>1. OpenBefore(a) = {}
    BY DEF TraceInv, Recovers
  <2> QED BY <2>1 DEF OpenBefore
<1> QED BY <1>2, <1>3, <1>4 DEF TraceFollowsTheRun, TraceInv

\* The trace says how the Run ended, its counts agree with the checkpoint, a recovery leaves
\* no span of an earlier execution open, and the tool's span has the outcome of its record,
\* for any number of activities, control requests and processes that end.
THEOREM TracesFollowRuns == TraceSpec => []TraceFollowsTheRun
BY TraceInitially, TraceSteps, TraceIsRight, PTL DEF TraceSpec
=============================================================================
