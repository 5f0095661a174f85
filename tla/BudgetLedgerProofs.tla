-------------------------- MODULE BudgetLedgerProofs --------------------------
(***************************************************************************)
(* Proofs about BudgetLedger, for any tree of Runs, limits, reports and    *)
(* ownership generations.                                                  *)
(*                                                                         *)
(* The inductive invariant IInv has three parts.  LedgerInv says what the  *)
(* ledger counts.  Sane says what an execution may rely on between two     *)
(* steps: a copy it is about to save is the ledger, or is too old to be    *)
(* saved, and its preflight holds of that copy.  TokenBound charges what a *)
(* provider reports beyond the estimate to the one call of each Run that   *)
(* is Outstanding: reserved, and able to report.                           *)
(***************************************************************************)
EXTENDS BudgetLedger, FiniteSetTheorems, TLAPS

Beyond == Max(Reports) - Estimate

(***************************************************************************)
(* The ledger.                                                             *)
(***************************************************************************)
Of(l, r, d)  == {o \in l.operations : o.run = r /\ o.kind = d}
OfTree(l, d) == {o \in l.operations : o.kind = d}

\* Every operation is a registered Run's and counts once for it, and once for the tree.
Counted(l) ==
    /\ IsFiniteSet(l.operations)
    /\ \A d \in Dimension : IsFiniteSet(Units(l, d))
    /\ l.reserved \subseteq l.operations
    /\ \A o \in l.operations : o.run \in l.runs
    /\ \A r \in Run \ l.runs, d \in Dimension : l.used[r][d] = 0
    /\ \A r \in Run, d \in Discrete : l.used[r][d] = Cardinality(Of(l, r, d))
    /\ \A d \in Discrete : Tree(l, d) = Cardinality(OfTree(l, d))

Limited(l) ==
    /\ \A r \in Run, d \in Discrete : l.used[r][d] <= Limit[r][d]
    /\ \A d \in Discrete : Tree(l, d) <= Limit[Root][d]

LedgerInv(l) == l \in Ledger /\ Counted(l) /\ Limited(l)

(***************************************************************************)
(* The executions.                                                         *)
(***************************************************************************)
Sane(l, r, f) ==
    /\ f.writing =>
          /\ f.pc \in Mutating
          /\ f.copy.version <= l.version
          /\ f.copy.version = l.version => f.copy = l
          /\ ~Refuses(f.copy, r, f)
          /\ f.pc = "reserve" => f.call # 0
    /\ f.pc \notin {"idle", "register"} => r \in l.runs
    /\ f.pc # "idle" =>
          \A n \in 0 .. f.at - 1 : [run |-> r, kind |-> "steps", no |-> n] \in l.operations
    /\ f.pc \in {"reserve", "call", "settle", "checkpoint"} => StepOp(r, f) \in l.operations
    /\ f.pc \in {"register", "step"} => f.call = 0
    /\ f.pc = "call" => CallOp(r, f) \in l.operations
    /\ f.pc = "fail" => r \in l.hard

\* Every ownership of every Run has an execution, and each can rely on the ledger.
FrameType ==
    /\ DOMAIN frame = Run
    /\ \A x \in Run : frame[x] \in [Generation(x) -> Frame]

Executions ==
    /\ FrameType
    /\ \A r \in Run : \A g \in Generation(r) : Sane(ledger, r, frame[r][g])

\* The operations of model calls have numbers that were issued, and the call that the
\* authorised execution is about to reserve is a new one.
Fresh ==
    /\ \A o \in ledger.operations : o.kind = "model_calls" => o.no <= issued[o.run]
    /\ \A r \in Run : \A g \in Generation(r) :
          /\ frame[r][g].call <= issued[r]
          /\ Authorised(r, g) /\ frame[r][g].pc = "reserve" /\ frame[r][g].call # 0 =>
                CallOp(r, frame[r][g]) \notin ledger.operations

\* f is the execution of a call that is reserved and may still report.
Reporting(l, r, f) == f.pc \in {"call", "settle"} /\ CallOp(r, f) \in l.reserved

Outstanding(r) ==
    \E g \in Generation(r) : Authorised(r, g) /\ Reporting(ledger, r, frame[r][g])

Quiet == {r \in Run : ~Outstanding(r)}

\* The Runs of S have had their reports, each at most Beyond more than its estimate.
Bounded(l, S) ==
    /\ \A r \in Run :
          Usage(l, r, "tokens") <= Limit[r]["tokens"] + (IF r \in S THEN Beyond ELSE 0)
    /\ TreeUsage(l, "tokens") <= Limit[Root]["tokens"] + Beyond * Cardinality(S)

TokenBound == Bounded(ledger, Quiet)

IInv ==
    /\ TypeOK
    /\ LedgerInv(ledger)
    /\ WorkIsPaid
    /\ FailureIsRecorded
    /\ Executions
    /\ Fresh
    /\ TokenBound

(***************************************************************************)
(* Sums.                                                                   *)
(***************************************************************************)

\* Products of natural numbers.
LEMMA TimesNat == ASSUME NEW a \in Nat, NEW b \in Nat PROVE a * b \in Nat
OBVIOUS

\* One more of a.
LEMMA TimesNext == ASSUME NEW a \in Nat, NEW b \in Nat PROVE a * (b + 1) = a * b + a
OBVIOUS

\* More of a.
LEMMA TimesMonotonic ==
    ASSUME NEW a \in Nat, NEW b \in Nat, NEW c \in Nat, b <= c
    PROVE  a * b <= a * c
<1>1. c - b \in Nat /\ a * (c - b) \in Nat
  OBVIOUS
<1>2. a * c = a * b + a * (c - b)
  OBVIOUS
<1>3. a * b \in Nat /\ a * c \in Nat
  OBVIOUS
<1> QED BY <1>1, <1>2, <1>3

\* The units of one Run between two numbers.
LEMMA UnitsOfOne ==
    ASSUME NEW r, NEW n \in Nat, NEW k \in Nat
    PROVE  /\ IsFiniteSet({r} \X (n + 1 .. n + k))
           /\ Cardinality({r} \X (n + 1 .. n + k)) = k
<1>1. IsFiniteSet(n + 1 .. n + k) /\ Cardinality(n + 1 .. n + k) = k
  BY FS_Interval
<1>2. IsFiniteSet({r}) /\ Cardinality({r}) = 1
  BY FS_Singleton
<1> QED BY <1>1, <1>2, FS_Product

\* A registered Run that uses k more of d makes the tree use k more of it.
LEMMA TreeGrows ==
    ASSUME NEW l \in Ledger, NEW m \in Ledger, NEW d \in Dimension, NEW r \in Run, NEW k \in Nat,
           IsFiniteSet(Units(l, d)), r \in l.runs, m.runs = l.runs,
           \A x \in Run : m.used[x][d] = l.used[x][d] + (IF x = r THEN k ELSE 0)
    PROVE  /\ IsFiniteSet(Units(m, d))
           /\ Tree(m, d) = Tree(l, d) + k
<1> DEFINE n == l.used[r][d]
           new == {r} \X (n + 1 .. n + k)
<1>0. n \in Nat /\ l.runs \subseteq Run /\ \A x \in Run : l.used[x][d] \in Nat
  BY DEF Ledger
<1>1. Units(m, d) = Units(l, d) \cup new
  <2>1. \A u : u \in Units(m, d) <=> \E x \in l.runs, i \in Nat :
                 u = <<x, i>> /\ 1 <= i /\ i <= m.used[x][d]
    BY <1>0 DEF Units
  <2>2. \A u : u \in Units(l, d) <=> \E x \in l.runs, i \in Nat :
                 u = <<x, i>> /\ 1 <= i /\ i <= l.used[x][d]
    BY <1>0 DEF Units
  <2>3. \A u : u \in new <=> \E i \in Nat : u = <<r, i>> /\ n + 1 <= i /\ i <= n + k
    BY <1>0
  <2>4. \A u \in Units(m, d) : u \in Units(l, d) \/ u \in new
    BY <1>0, <2>1, <2>2, <2>3
  <2>5. \A u \in Units(l, d) : u \in Units(m, d)
    BY <1>0, <2>1, <2>2
  <2>6. \A u \in new : u \in Units(m, d)
    BY <1>0, <2>1, <2>3
  <2> QED BY <2>4, <2>5, <2>6
<1>2. Units(l, d) \cap new = {}
  BY <1>0 DEF Units
<1>3. IsFiniteSet(new) /\ Cardinality(new) = k
  BY <1>0, UnitsOfOne
<1>4. Cardinality(Units(l, d)) \in Nat
  BY FS_CardinalityType
<1>5. Cardinality({}) = 0
  BY FS_EmptySet
<1> HIDE DEF new
<1>6. /\ IsFiniteSet(Units(l, d) \cup new)
      /\ Cardinality(Units(l, d) \cup new) = Cardinality(Units(l, d)) + k - 0
  BY <1>2, <1>3, <1>5, FS_Union
<1> QED BY <1>1, <1>4, <1>6 DEF Tree

\* The tree uses the same when its Runs do; a Run that registers has used nothing.
LEMMA TreeStays ==
    ASSUME NEW l \in Ledger, NEW m \in Ledger, NEW d \in Dimension,
           l.runs \subseteq m.runs,
           \A x \in m.runs \ l.runs : l.used[x][d] = 0,
           \A x \in Run : m.used[x][d] = l.used[x][d]
    PROVE  Units(m, d) = Units(l, d) /\ Tree(m, d) = Tree(l, d)
<1>0. m.runs \subseteq Run /\ \A x \in Run : l.used[x][d] \in Nat
  BY DEF Ledger
<1>1. Units(m, d) = Units(l, d)
  BY <1>0 DEF Units
<1> QED BY <1>1 DEF Tree

(***************************************************************************)
(* Mutations.                                                              *)
(***************************************************************************)
LEMMA Constants ==
    /\ Root \in Run /\ IsFiniteSet(Run)
    /\ \A r \in Run, d \in Dimension : Limit[r][d] \in Nat
    /\ Estimate \in Nat
    /\ Max(Reports) \in Nat /\ Beyond \in Nat
    /\ \A n \in Reports : n \in Nat /\ n <= Estimate + Beyond
    /\ MaxStep \in Nat
    /\ \A r \in Run : MaxFence[r] \in Nat
    /\ Discrete \subseteq Dimension /\ "tokens" \in Dimension /\ "tokens" \notin Discrete
    /\ "steps" \in Discrete /\ "model_calls" \in Discrete
<1>1. Max(Reports) \in Reports /\ \A n \in Reports : Max(Reports) >= n
  BY LimitAssumption DEF Max
<1> HIDE DEF Max
<1>2. Max(Reports) \in Nat /\ \A n \in Reports : n \in Nat
  BY <1>1, LimitAssumption
<1>3. PICK m \in Reports : m >= Estimate
  BY LimitAssumption
<1>4. Estimate \in Nat
  BY LimitAssumption
<1>5. Max(Reports) >= m
  BY <1>1
<1>6. Max(Reports) >= Estimate
  BY <1>2, <1>3, <1>4, <1>5
<1>7. Beyond \in Nat /\ Estimate + Beyond = Max(Reports)
  BY <1>2, <1>4, <1>6 DEF Beyond
<1>8. \A n \in Reports : n \in Nat /\ n <= Estimate + Beyond
  BY <1>1, <1>2, <1>7
<1>9. \A r \in Run, d \in Dimension : Limit[r][d] \in Nat
  BY LimitAssumption
<1> QED
  BY <1>2, <1>4, <1>7, <1>8, <1>9, TreeAssumption, LimitAssumption DEF Discrete, Dimension

\* No save of the ledger forgets a Run, an operation or a hard limit.
Grown(l, m) ==
    l.runs \subseteq m.runs /\ l.operations \subseteq m.operations /\ l.hard \subseteq m.hard

\* What a charge changes of a ledger.
LEMMA ChargeFields ==
    ASSUME NEW l \in Ledger, NEW o \in Operation, o \notin l.operations
    PROVE  LET m == Charge(l, o)
           IN /\ m \in Ledger
              /\ m.operations = l.operations \cup {o}
              /\ m.runs = l.runs /\ m.reserved = l.reserved /\ m.hard = l.hard
              /\ m.version = l.version
              /\ \A x \in Run, d \in Dimension :
                    m.used[x][d] = l.used[x][d] + (IF x = o.run /\ d = o.kind THEN 1 ELSE 0)
<1> DEFINE m == Charge(l, o)
           used == [l.used EXCEPT ![o.run][o.kind] = @ + 1]
<1>1. /\ o.run \in Run /\ o.kind \in Dimension
      /\ l.used \in [Run -> [Dimension -> Nat]]
  BY Constants DEF Operation, Ledger
<1>2. \A x \in Run : l.used[x] \in [Dimension -> Nat]
  BY <1>1
<1>3. \A x \in Run, d \in Dimension :
         used[x][d] = l.used[x][d] + (IF x = o.run /\ d = o.kind THEN 1 ELSE 0)
  BY <1>1, <1>2
<1>4. used \in [Run -> [Dimension -> Nat]]
  BY <1>1, <1>2
<1>5. m = [l EXCEPT !.used = used, !.operations = l.operations \cup {o}]
  BY DEF Charge, Ledger
<1>6. m = [version |-> l.version, runs |-> l.runs, used |-> used,
           operations |-> l.operations \cup {o}, reserved |-> l.reserved, hard |-> l.hard]
  BY <1>5 DEF Ledger
<1> HIDE DEF used, m
<1>7. m \in Ledger
  BY <1>4, <1>6 DEF Ledger
<1> QED BY <1>3, <1>6, <1>7 DEF m

\* What does not exceed a limit is within it.
LEMMA WithinLimit ==
    ASSUME NEW used \in Nat, NEW amount \in Nat, NEW limit \in Nat, ~Exceeds(used, amount, limit)
    PROVE  used + amount <= limit
BY DEF Exceeds

\* What fits is within the limits of the Run and of the tree.
LEMMA FitsDiscrete ==
    ASSUME NEW l \in Ledger, NEW r \in Run, NEW d \in Discrete, Tree(l, d) \in Nat, Fits(l, r, d, 1)
    PROVE  l.used[r][d] + 1 <= Limit[r][d] /\ Tree(l, d) + 1 <= Limit[Root][d]
<1>1. l.used[r][d] \in Nat
  BY Constants DEF Ledger
<1>2. Held(l, d, {r}) = 0 /\ Held(l, d, l.runs) = 0
  BY Constants DEF Held
<1> QED BY <1>1, <1>2, Constants, WithinLimit DEF Fits, Usage, TreeUsage

\* A new operation is counted once for its Run.
LEMMA NewOperationCounts ==
    ASSUME NEW l, NEW m, NEW o, IsFiniteSet(l.operations), o \notin l.operations,
           m.operations = l.operations \cup {o}, NEW r, NEW d
    PROVE  Cardinality(Of(m, r, d))
             = IF r = o.run /\ d = o.kind THEN Cardinality(Of(l, r, d)) + 1
               ELSE Cardinality(Of(l, r, d))
<1>1. IsFiniteSet(Of(l, r, d)) /\ o \notin Of(l, r, d)
  BY FS_Subset DEF Of
<1>2. Of(m, r, d) = IF r = o.run /\ d = o.kind THEN Of(l, r, d) \cup {o} ELSE Of(l, r, d)
  BY DEF Of
<1>3. Cardinality(Of(l, r, d) \cup {o}) = Cardinality(Of(l, r, d)) + 1
  BY <1>1, FS_AddElement
<1> QED BY <1>2, <1>3

\* A new operation is counted once for the tree.
LEMMA NewOperationCountsForTree ==
    ASSUME NEW l, NEW m, NEW o, IsFiniteSet(l.operations), o \notin l.operations,
           m.operations = l.operations \cup {o}, NEW d
    PROVE  Cardinality(OfTree(m, d))
             = IF d = o.kind THEN Cardinality(OfTree(l, d)) + 1 ELSE Cardinality(OfTree(l, d))
<1>1. IsFiniteSet(OfTree(l, d)) /\ o \notin OfTree(l, d)
  BY FS_Subset DEF OfTree
<1>2. OfTree(m, d) = IF d = o.kind THEN OfTree(l, d) \cup {o} ELSE OfTree(l, d)
  BY DEF OfTree
<1>3. Cardinality(OfTree(l, d) \cup {o}) = Cardinality(OfTree(l, d)) + 1
  BY <1>1, FS_AddElement
<1> QED BY <1>2, <1>3

\* The tree's use of each dimension is a number.
LEMMA TreeType ==
    ASSUME NEW l \in Ledger, Counted(l)
    PROVE  \A d \in Dimension : Tree(l, d) \in Nat
BY FS_CardinalityType DEF Counted, Tree

\* A charge that fits keeps the ledger exact and within the limits, whatever else of the
\* ledger it changes beside its reservations.
LEMMA ChargeKeeps ==
    ASSUME NEW l, LedgerInv(l), NEW m \in Ledger, NEW o \in Operation,
           o \notin l.operations, o.run \in l.runs, Fits(l, o.run, o.kind, 1),
           m.operations = l.operations \cup {o}, m.runs = l.runs,
           m.reserved \subseteq m.operations,
           \A x \in Run, d \in Dimension :
              m.used[x][d] = l.used[x][d] + (IF x = o.run /\ d = o.kind THEN 1 ELSE 0)
    PROVE  /\ LedgerInv(m)
           /\ \A d \in Dimension : Tree(m, d) = Tree(l, d) + (IF d = o.kind THEN 1 ELSE 0)
<1>0. /\ l \in Ledger /\ Counted(l) /\ Limited(l)
      /\ o.run \in Run /\ o.kind \in Discrete /\ o.kind \in Dimension
      /\ \A x \in Run, d \in Dimension : l.used[x][d] \in Nat
  BY Constants DEF LedgerInv, Operation, Ledger
<1>1. \A d \in Dimension : Tree(l, d) \in Nat
  BY <1>0, TreeType
<1>2. /\ IsFiniteSet(Units(m, o.kind))
      /\ Tree(m, o.kind) = Tree(l, o.kind) + 1
  BY <1>0, TreeGrows DEF Counted
<1>3. ASSUME NEW d \in Dimension, d # o.kind
      PROVE  IsFiniteSet(Units(m, d)) /\ Tree(m, d) = Tree(l, d)
  <2>1. \A x \in Run : m.used[x][d] = l.used[x][d]
    BY <1>0, <1>3
  <2> QED BY <1>0, <2>1, TreeStays DEF Counted
<1>4. \A d \in Dimension :
         /\ IsFiniteSet(Units(m, d))
         /\ Tree(m, d) = Tree(l, d) + (IF d = o.kind THEN 1 ELSE 0)
  BY <1>1, <1>2, <1>3
<1>5. /\ IsFiniteSet(m.operations)
      /\ \A r \in Run, d \in Discrete : m.used[r][d] = Cardinality(Of(m, r, d))
      /\ \A d \in Discrete : Tree(m, d) = Cardinality(OfTree(m, d))
  <2>1. IsFiniteSet(l.operations)
    BY <1>0 DEF Counted
  <2>2. IsFiniteSet(m.operations)
    BY <2>1, FS_AddElement
  <2>3. ASSUME NEW r \in Run, NEW d \in Discrete
        PROVE  m.used[r][d] = Cardinality(Of(m, r, d))
    <3>1. l.used[r][d] = Cardinality(Of(l, r, d)) /\ d \in Dimension /\ l.used[r][d] \in Nat
      BY <1>0, Constants DEF Counted
    <3>2. m.used[r][d] = l.used[r][d] + (IF r = o.run /\ d = o.kind THEN 1 ELSE 0)
      BY <3>1
    <3>3. Cardinality(Of(m, r, d))
             = IF r = o.run /\ d = o.kind THEN Cardinality(Of(l, r, d)) + 1
               ELSE Cardinality(Of(l, r, d))
      BY <2>1, NewOperationCounts
    <3> QED BY <3>1, <3>2, <3>3
  <2>4. ASSUME NEW d \in Discrete
        PROVE  Tree(m, d) = Cardinality(OfTree(m, d))
    <3>1. Tree(l, d) = Cardinality(OfTree(l, d)) /\ d \in Dimension /\ Tree(l, d) \in Nat
      BY <1>0, <1>1, Constants DEF Counted
    <3>2. Tree(m, d) = Tree(l, d) + (IF d = o.kind THEN 1 ELSE 0)
      BY <1>4, <3>1
    <3>3. Cardinality(OfTree(m, d))
             = IF d = o.kind THEN Cardinality(OfTree(l, d)) + 1 ELSE Cardinality(OfTree(l, d))
      BY <2>1, NewOperationCountsForTree
    <3> QED BY <3>1, <3>2, <3>3
  <2> QED BY <2>2, <2>3, <2>4
<1>6. Counted(m)
  BY <1>0, <1>4, <1>5 DEF Counted
<1>7. l.used[o.run][o.kind] + 1 <= Limit[o.run][o.kind] /\ Tree(l, o.kind) + 1 <= Limit[Root][o.kind]
  BY <1>0, <1>1, FitsDiscrete
<1>8. Limited(m)
  BY <1>0, <1>1, <1>4, <1>7, Constants DEF Limited
<1> QED BY <1>4, <1>6, <1>8 DEF LedgerInv

\* A change that charges no operation and keeps what the Runs used of steps and model
\* calls keeps the ledger exact and within the limits.
LEMMA OtherwiseKeeps ==
    ASSUME NEW l, LedgerInv(l), NEW m \in Ledger,
           m.operations = l.operations, l.runs \subseteq m.runs, m.reserved \subseteq l.reserved,
           IsFiniteSet(Units(m, "tokens")),
           \A x \in Run \ m.runs : m.used[x]["tokens"] = l.used[x]["tokens"],
           \A x \in Run, d \in Discrete : m.used[x][d] = l.used[x][d]
    PROVE  LedgerInv(m)
<1>0. l \in Ledger /\ Counted(l) /\ Limited(l)
  BY DEF LedgerInv
<1>1. \A d \in Discrete : Units(m, d) = Units(l, d) /\ Tree(m, d) = Tree(l, d)
  <2> TAKE d \in Discrete
  <2>1. m.runs \subseteq Run /\ \A x \in m.runs \ l.runs : l.used[x][d] = 0
    BY <1>0, Constants DEF Counted, Ledger
  <2> QED BY <1>0, <2>1, TreeStays, Constants
<1>2. \A d \in Dimension : IsFiniteSet(Units(m, d))
  BY <1>0, <1>1 DEF Counted, Dimension
<1>3. \A r \in Run \ m.runs, d \in Dimension : m.used[r][d] = 0
  BY <1>0, Constants DEF Counted, Dimension
<1>4. Counted(m)
  BY <1>0, <1>1, <1>2, <1>3 DEF Counted, Of, OfTree
<1>5. Limited(m)
  BY <1>0, <1>1 DEF Limited
<1> QED BY <1>4, <1>5 DEF LedgerInv

(***************************************************************************)
(* What a mutation by Run r does to the use of tokens, reserved ones       *)
(* included: k more for r and for the tree.                                *)
(***************************************************************************)
Reservations(l, R) == {o \in l.reserved : o.run \in R}

Uses(l, m, r, k) ==
    /\ \A x \in Run : Usage(m, x, "tokens") = Usage(l, x, "tokens") + (IF x = r THEN k ELSE 0)
    /\ TreeUsage(m, "tokens") = TreeUsage(l, "tokens") + k

\* What the others notice of a mutation by r.
Mutates(l, m, r, k) ==
    /\ LedgerInv(m)
    /\ m.version = l.version
    /\ Grown(l, m)
    /\ \A o \in m.operations \ l.operations : o.run = r
    /\ \A o : o.run # r => (o \in m.reserved <=> o \in l.reserved)
    /\ Uses(l, m, r, k)

\* Reserved tokens are an estimate for each reserved call.
LEMMA UsageFacts ==
    ASSUME NEW l, LedgerInv(l)
    PROVE  /\ IsFiniteSet(l.reserved) /\ Cardinality(l.reserved) \in Nat
           /\ \A x \in Run :
                 /\ l.used[x]["tokens"] \in Nat
                 /\ IsFiniteSet(Reservations(l, {x})) /\ Cardinality(Reservations(l, {x})) \in Nat
                 /\ Usage(l, x, "tokens")
                      = l.used[x]["tokens"] + Estimate * Cardinality(Reservations(l, {x}))
                 /\ Usage(l, x, "tokens") \in Nat
           /\ Tree(l, "tokens") \in Nat
           /\ TreeUsage(l, "tokens") = Tree(l, "tokens") + Estimate * Cardinality(l.reserved)
           /\ TreeUsage(l, "tokens") \in Nat
<1>0. l \in Ledger /\ Counted(l)
  BY DEF LedgerInv
<1>1. IsFiniteSet(l.reserved) /\ Cardinality(l.reserved) \in Nat
  BY <1>0, FS_Subset, FS_CardinalityType DEF Counted
<1>2. ASSUME NEW n \in Nat
      PROVE  Estimate * n \in Nat
  BY Constants
<1>3. ASSUME NEW x \in Run
      PROVE  /\ l.used[x]["tokens"] \in Nat
             /\ IsFiniteSet(Reservations(l, {x})) /\ Cardinality(Reservations(l, {x})) \in Nat
             /\ Usage(l, x, "tokens")
                  = l.used[x]["tokens"] + Estimate * Cardinality(Reservations(l, {x}))
             /\ Usage(l, x, "tokens") \in Nat
  <2>1. l.used[x]["tokens"] \in Nat
    BY <1>0, Constants DEF Ledger
  <2>2. IsFiniteSet(Reservations(l, {x}))
    BY <1>1, FS_Subset DEF Reservations
  <2>3. Cardinality(Reservations(l, {x})) \in Nat
    BY <2>2, FS_CardinalityType
  <2>4. Usage(l, x, "tokens")
          = l.used[x]["tokens"] + Estimate * Cardinality(Reservations(l, {x}))
    BY DEF Usage, Held, Reservations
  <2> QED BY <1>2, <2>1, <2>2, <2>3, <2>4
<1>4. Tree(l, "tokens") \in Nat
  BY <1>0, TreeType, Constants
<1>5. {o \in l.reserved : o.run \in l.runs} = l.reserved
  BY <1>0 DEF Counted
<1>6. TreeUsage(l, "tokens") = Tree(l, "tokens") + Estimate * Cardinality(l.reserved)
  BY <1>5 DEF TreeUsage, Held
<1> QED BY <1>1, <1>2, <1>3, <1>4, <1>6

\* No use of tokens when neither the reported nor the reserved ones change.
LEMMA TokensStay ==
    ASSUME NEW l, NEW m, LedgerInv(l), LedgerInv(m), NEW r,
           m.reserved = l.reserved, l.runs \subseteq m.runs,
           \A x \in Run : m.used[x]["tokens"] = l.used[x]["tokens"]
    PROVE  Uses(l, m, r, 0)
<1>1. \A x \in m.runs \ l.runs : l.used[x]["tokens"] = 0
  BY Constants DEF LedgerInv, Counted, Ledger
<1>2. Tree(m, "tokens") = Tree(l, "tokens")
  BY <1>1, TreeStays, Constants DEF LedgerInv
<1>3. \A x \in Run : Usage(m, x, "tokens") = Usage(l, x, "tokens")
  BY UsageFacts DEF Reservations
<1>4. TreeUsage(m, "tokens") = TreeUsage(l, "tokens")
  BY <1>2, UsageFacts
<1>5. TreeUsage(l, "tokens") \in Nat /\ \A x \in Run : Usage(l, x, "tokens") \in Nat
  BY UsageFacts
<1> QED BY <1>3, <1>4, <1>5 DEF Uses

\* A save counts the version up and nothing else.
LEMMA VersionKeeps ==
    ASSUME NEW l, LedgerInv(l)
    PROVE  LET m == [l EXCEPT !.version = @ + 1]
           IN /\ LedgerInv(m) /\ m.version = l.version + 1
              /\ m.runs = l.runs /\ m.operations = l.operations
              /\ m.reserved = l.reserved /\ m.hard = l.hard
              /\ \A r : Uses(l, m, r, 0)
<1> DEFINE m == [l EXCEPT !.version = @ + 1]
<1>1. l \in Ledger /\ Counted(l)
  BY DEF LedgerInv
<1>2. /\ m \in Ledger /\ m.version = l.version + 1
      /\ m.runs = l.runs /\ m.operations = l.operations
      /\ m.reserved = l.reserved /\ m.hard = l.hard /\ m.used = l.used
  BY <1>1 DEF Ledger
<1> HIDE DEF m
<1>3. IsFiniteSet(Units(m, "tokens"))
  BY <1>1, <1>2, Constants DEF Counted, Units
<1>4. LedgerInv(m)
  BY <1>2, <1>3, OtherwiseKeeps
<1>5. \A r : Uses(l, m, r, 0)
  BY <1>2, <1>4, TokensStay
<1> QED BY <1>2, <1>4, <1>5 DEF m

\* initialize: the Run is registered.
LEMMA RegisterMutates ==
    ASSUME NEW l, LedgerInv(l), NEW r \in Run
    PROVE  Mutates(l, Register(l, r), r, 0) /\ r \in Register(l, r).runs
<1> DEFINE m == Register(l, r)
<1>1. l \in Ledger /\ Counted(l)
  BY DEF LedgerInv
<1>2. /\ m \in Ledger /\ m.version = l.version
      /\ m.runs = l.runs \cup {r} /\ m.operations = l.operations
      /\ m.reserved = l.reserved /\ m.hard = l.hard /\ m.used = l.used
  BY <1>1 DEF Register, Ledger
<1> HIDE DEF m
<1>3. IsFiniteSet(Units(m, "tokens"))
  <2>1. \A x \in m.runs \ l.runs : l.used[x]["tokens"] = 0
    BY <1>1, <1>2, Constants DEF Counted, Ledger
  <2>2. Units(m, "tokens") = Units(l, "tokens")
    BY <1>1, <1>2, <2>1, TreeStays, Constants
  <2> QED BY <1>1, <2>2, Constants DEF Counted
<1>4. LedgerInv(m)
  BY <1>2, <1>3, OtherwiseKeeps
<1>5. Uses(l, m, r, 0)
  BY <1>2, <1>4, TokensStay
<1>6. Mutates(l, m, r, 0) /\ r \in m.runs
  BY <1>2, <1>4, <1>5 DEF Mutates, Grown
<1> QED BY <1>6 DEF m

\* record_hard_limit: the Run is marked.
LEMMA MarkHardMutates ==
    ASSUME NEW l, LedgerInv(l), NEW r \in Run
    PROVE  Mutates(l, MarkHard(l, r), r, 0) /\ r \in MarkHard(l, r).hard
<1> DEFINE m == MarkHard(l, r)
<1>1. l \in Ledger /\ Counted(l)
  BY DEF LedgerInv
<1>2. /\ m \in Ledger /\ m.version = l.version
      /\ m.runs = l.runs /\ m.operations = l.operations
      /\ m.reserved = l.reserved /\ m.hard = l.hard \cup {r} /\ m.used = l.used
  BY <1>1 DEF MarkHard, Ledger
<1> HIDE DEF m
<1>3. IsFiniteSet(Units(m, "tokens"))
  BY <1>1, <1>2, Constants DEF Counted, Units
<1>4. LedgerInv(m)
  BY <1>2, <1>3, OtherwiseKeeps
<1>5. Uses(l, m, r, 0)
  BY <1>2, <1>4, TokensStay
<1>6. Mutates(l, m, r, 0) /\ r \in m.hard
  BY <1>2, <1>4, <1>5 DEF Mutates, Grown
<1> QED BY <1>6 DEF m

\* consume_step: the step is charged unless it was, and then it fitted.
LEMMA ChargeMutates ==
    ASSUME NEW l, LedgerInv(l), NEW o \in Operation, o.kind = "steps", o.run \in l.runs,
           o \in l.operations \/ Fits(l, o.run, "steps", 1)
    PROVE  Mutates(l, Charge(l, o), o.run, 0) /\ o \in Charge(l, o).operations
<1> DEFINE m == Charge(l, o)
<1>1. l \in Ledger /\ Counted(l) /\ o.run \in Run
  BY DEF LedgerInv, Operation
<1>2. CASE o \in l.operations
  <2>1. m = l
    BY <1>2 DEF Charge
  <2>2. Uses(l, l, o.run, 0)
    BY TokensStay
  <2> HIDE DEF m
  <2>3. Mutates(l, m, o.run, 0) /\ o \in m.operations
    BY <1>2, <2>1, <2>2 DEF Mutates, Grown
  <2> QED BY <2>3 DEF m
<1>3. CASE o \notin l.operations
  <2>1. /\ m \in Ledger /\ m.operations = l.operations \cup {o}
        /\ m.runs = l.runs /\ m.reserved = l.reserved /\ m.hard = l.hard
        /\ m.version = l.version
        /\ \A x \in Run, d \in Dimension :
              m.used[x][d] = l.used[x][d] + (IF x = o.run /\ d = o.kind THEN 1 ELSE 0)
    BY <1>1, <1>3, ChargeFields
  <2> HIDE DEF m
  <2>2. m.reserved \subseteq m.operations
    BY <1>1, <2>1 DEF Counted
  <2>3. LedgerInv(m)
    BY <1>3, <2>1, <2>2, ChargeKeeps
  <2>4. \A x \in Run : m.used[x]["tokens"] = l.used[x]["tokens"]
    BY <1>1, <2>1, Constants DEF Ledger
  <2>5. Uses(l, m, o.run, 0)
    BY <2>1, <2>3, <2>4, TokensStay
  <2>6. Mutates(l, m, o.run, 0) /\ o \in m.operations
    BY <2>1, <2>3, <2>5 DEF Mutates, Grown
  <2> QED BY <2>6 DEF m
<1> QED BY <1>2, <1>3

\* One reservation more or less changes the cardinality by one, for its Run and in all.
LEMMA ReservationsGrow ==
    ASSUME NEW l, NEW m, NEW o, IsFiniteSet(l.reserved), o \notin l.reserved,
           m.reserved = l.reserved \cup {o}
    PROVE  /\ Cardinality(m.reserved) = Cardinality(l.reserved) + 1
           /\ Cardinality(Reservations(m, {o.run})) = Cardinality(Reservations(l, {o.run})) + 1
<1>1. Cardinality(m.reserved) = Cardinality(l.reserved) + 1
  BY FS_AddElement
<1>2. IsFiniteSet(Reservations(l, {o.run})) /\ o \notin Reservations(l, {o.run})
  BY FS_Subset DEF Reservations
<1>3. Reservations(m, {o.run}) = Reservations(l, {o.run}) \cup {o}
  BY DEF Reservations
<1>4. Cardinality(Reservations(m, {o.run})) = Cardinality(Reservations(l, {o.run})) + 1
  BY <1>2, <1>3, FS_AddElement
<1> QED BY <1>1, <1>4

\* reserve_model_call: a call that is new, and fits with its estimate, is reserved.
LEMMA ReserveMutates ==
    ASSUME NEW l, LedgerInv(l), NEW o \in Operation, o.kind = "model_calls", o.run \in l.runs,
           o \notin l.operations, Fits(l, o.run, "model_calls", 1)
    PROVE  /\ Mutates(l, Reserve(l, o), o.run, Estimate)
           /\ o \in Reserve(l, o).operations /\ o \in Reserve(l, o).reserved
           /\ Reserve(l, o).operations = l.operations \cup {o}
<1> DEFINE c == Charge(l, o)
           m == Reserve(l, o)
           r == o.run
<1>1. l \in Ledger /\ Counted(l) /\ r \in Run /\ o \notin l.reserved
  BY DEF LedgerInv, Operation, Counted
<1>2. /\ c \in Ledger /\ c.operations = l.operations \cup {o}
      /\ c.runs = l.runs /\ c.reserved = l.reserved /\ c.hard = l.hard
      /\ c.version = l.version
      /\ \A x \in Run, d \in Dimension :
            c.used[x][d] = l.used[x][d] + (IF x = r /\ d = o.kind THEN 1 ELSE 0)
  BY <1>1, ChargeFields
<1>3. m = [c EXCEPT !.reserved = c.reserved \cup {o}]
  BY DEF Reserve
<1> HIDE DEF c, m
<1>4. /\ m \in Ledger /\ m.operations = l.operations \cup {o}
      /\ m.runs = l.runs /\ m.reserved = l.reserved \cup {o} /\ m.hard = l.hard
      /\ m.version = l.version /\ m.used = c.used
  BY <1>2, <1>3 DEF Ledger
<1>5. m.reserved \subseteq m.operations
  BY <1>1, <1>4 DEF Counted
<1>6. /\ LedgerInv(m)
      /\ \A d \in Dimension : Tree(m, d) = Tree(l, d) + (IF d = o.kind THEN 1 ELSE 0)
  BY <1>2, <1>4, <1>5, ChargeKeeps
<1>7. /\ Cardinality(m.reserved) = Cardinality(l.reserved) + 1
      /\ Cardinality(Reservations(m, {r})) = Cardinality(Reservations(l, {r})) + 1
  <2>1. IsFiniteSet(l.reserved)
    BY UsageFacts
  <2> QED BY <1>1, <1>4, <2>1, ReservationsGrow
<1>8. \A n \in Nat : Estimate * (n + 1) = Estimate * n + Estimate /\ Estimate * n \in Nat
  BY Constants
<1>9. /\ Tree(l, "tokens") \in Nat /\ Tree(m, "tokens") = Tree(l, "tokens")
      /\ \A x \in Run : l.used[x]["tokens"] \in Nat /\ m.used[x]["tokens"] = l.used[x]["tokens"]
  <2>1. /\ Tree(l, "tokens") \in Nat
        /\ \A x \in Run : l.used[x]["tokens"] \in Nat
    BY UsageFacts
  <2>2. "tokens" \in Dimension /\ "tokens" # o.kind
    BY Constants
  <2>3. Tree(m, "tokens") = Tree(l, "tokens")
    BY <1>6, <2>1, <2>2
  <2>4. \A x \in Run : m.used[x]["tokens"] = l.used[x]["tokens"]
    BY <1>2, <1>4, <2>1, <2>2
  <2> QED BY <2>1, <2>3, <2>4
<1>10. Uses(l, m, r, Estimate)
  <2>1. Usage(m, r, "tokens") = Usage(l, r, "tokens") + Estimate
    <3>1. Usage(l, r, "tokens")
            = l.used[r]["tokens"] + Estimate * Cardinality(Reservations(l, {r}))
      BY <1>1, UsageFacts
    <3>2. Usage(m, r, "tokens")
            = m.used[r]["tokens"] + Estimate * Cardinality(Reservations(m, {r}))
      BY <1>1, <1>6, UsageFacts
    <3>3. Cardinality(Reservations(l, {r})) \in Nat
      BY <1>1, UsageFacts
    <3> QED BY <1>1, <1>7, <1>8, <1>9, <3>1, <3>2, <3>3, Constants
  <2>2. ASSUME NEW x \in Run, x # r
        PROVE  Usage(m, x, "tokens") = Usage(l, x, "tokens") + 0
    <3>1. /\ Usage(l, x, "tokens")
               = l.used[x]["tokens"] + Estimate * Cardinality(Reservations(l, {x}))
          /\ Usage(l, x, "tokens") \in Nat
      BY UsageFacts
    <3>2. Usage(m, x, "tokens")
            = m.used[x]["tokens"] + Estimate * Cardinality(Reservations(m, {x}))
      BY <1>6, UsageFacts
    <3>3. Reservations(m, {x}) = Reservations(l, {x})
      BY <1>4, <2>2 DEF Reservations
    <3> QED BY <1>9, <3>1, <3>2, <3>3
  <2>3. TreeUsage(m, "tokens") = TreeUsage(l, "tokens") + Estimate
    <3>1. TreeUsage(l, "tokens") = Tree(l, "tokens") + Estimate * Cardinality(l.reserved)
      BY UsageFacts
    <3>2. TreeUsage(m, "tokens") = Tree(m, "tokens") + Estimate * Cardinality(m.reserved)
      BY <1>6, UsageFacts
    <3>3. Cardinality(l.reserved) \in Nat
      BY UsageFacts
    <3> QED BY <1>7, <1>8, <1>9, <3>1, <3>2, <3>3, Constants
  <2> QED BY <2>1, <2>2, <2>3 DEF Uses
<1>11. Mutates(l, m, r, Estimate) /\ o \in m.operations /\ o \in m.reserved
  BY <1>4, <1>6, <1>10 DEF Mutates, Grown
<1> QED BY <1>4, <1>11 DEF m

\* complete_model_call: the report replaces the reservation of the call, if it is still
\* there; the Run is marked when that takes it, or the tree, over the limit.
LEMMA SettleMutates ==
    ASSUME NEW l, LedgerInv(l), NEW o \in Operation, o.run \in l.runs, NEW n \in Reports \cup {0}
    PROVE  \E k \in Int :
              /\ Mutates(l, Settle(l, o, n), o.run, k)
              /\ o \notin l.reserved => k = 0
              /\ k <= Beyond
              /\ o \notin Settle(l, o, n).reserved
<1> DEFINE s == Reported(l, o, n)
           m == Settle(l, o, n)
           r == o.run
<1>1. l \in Ledger /\ Counted(l) /\ r \in Run
  BY DEF LedgerInv, Operation
<1>2. n \in Nat /\ n <= Estimate + Beyond /\ Estimate \in Nat /\ Beyond \in Nat
  BY Constants
<1>3. CASE o \notin l.reserved
  <2>1. m = l
    BY <1>3 DEF Settle
  <2>2. Uses(l, l, r, 0)
    BY TokensStay
  <2> HIDE DEF m
  <2>3. Mutates(l, m, r, 0) /\ o \notin m.reserved
    BY <1>3, <2>1, <2>2 DEF Mutates, Grown
  <2> QED BY <1>2, <2>3 DEF m
<1>4. CASE o \in l.reserved
  <2> DEFINE used == [l.used EXCEPT ![r]["tokens"] = @ + n]
  <2>1. \A x \in Run : l.used[x] \in [Dimension -> Nat]
    BY <1>1 DEF Ledger
  <2>2. /\ used \in [Run -> [Dimension -> Nat]]
        /\ \A x \in Run, d \in Dimension :
              used[x][d] = l.used[x][d] + (IF x = r /\ d = "tokens" THEN n ELSE 0)
    BY <1>1, <1>2, <2>1, Constants DEF Ledger
  <2>2a. s = [l EXCEPT !.used = used, !.reserved = l.reserved \ {o}]
    BY <1>1 DEF Reported, Ledger
  <2>3. s = [version |-> l.version, runs |-> l.runs, used |-> used,
             operations |-> l.operations, reserved |-> l.reserved \ {o}, hard |-> l.hard]
    BY <1>1, <2>2a DEF Ledger
  <2>4. \/ m = s
        \/ m = [s EXCEPT !.hard = s.hard \cup {r}]
    BY <1>4 DEF Settle, MarkHard
  <2> HIDE DEF used, s, m
  <2>5. s \in Ledger
    BY <1>1, <2>2, <2>3 DEF Ledger
  <2>6. /\ m \in Ledger /\ m.version = l.version /\ m.runs = l.runs
        /\ m.operations = l.operations /\ m.reserved = l.reserved \ {o}
        /\ l.hard \subseteq m.hard /\ m.used = used
    BY <1>1, <2>3, <2>4, <2>5 DEF Ledger
  <2>7. /\ \A x \in Run : l.used[x]["tokens"] \in Nat
        /\ \A x \in Run : m.used[x]["tokens"] = l.used[x]["tokens"] + (IF x = r THEN n ELSE 0)
        /\ \A x \in Run, d \in Discrete : m.used[x][d] = l.used[x][d]
    BY <1>2, <2>1, <2>2, <2>6, Constants
  <2>8. /\ IsFiniteSet(Units(m, "tokens"))
        /\ Tree(m, "tokens") = Tree(l, "tokens") + n
    <3>1. "tokens" \in Dimension
      BY Constants
    <3>2. IsFiniteSet(Units(l, "tokens"))
      BY <1>1, <3>1 DEF Counted
    <3>3. /\ m \in Ledger /\ m.runs = l.runs /\ r \in l.runs
          /\ \A x \in Run : m.used[x]["tokens"] = l.used[x]["tokens"] + (IF x = r THEN n ELSE 0)
      BY <2>6, <2>7
    <3> QED BY <1>1, <1>2, <3>1, <3>2, <3>3, TreeGrows
  <2>9. LedgerInv(m)
    <3>1. \A x \in Run \ m.runs : m.used[x]["tokens"] = l.used[x]["tokens"]
      BY <2>6, <2>7
    <3> QED BY <2>6, <2>7, <2>8, <3>1, OtherwiseKeeps
  <2>10. /\ Cardinality(l.reserved) = Cardinality(m.reserved) + 1
         /\ Cardinality(Reservations(l, {r})) = Cardinality(Reservations(m, {r})) + 1
    <3>1. IsFiniteSet(m.reserved) /\ o \notin m.reserved /\ l.reserved = m.reserved \cup {o}
      BY <1>4, <2>6, <2>9, UsageFacts
    <3> QED BY <3>1, ReservationsGrow
  <2> DEFINE k == n - Estimate
  <2>11. \A i \in Nat : Estimate * (i + 1) = Estimate * i + Estimate /\ Estimate * i \in Nat
    BY Constants
  <2>12. Uses(l, m, r, k)
    <3>1. Usage(m, r, "tokens") = Usage(l, r, "tokens") + k
      <4>1. Usage(l, r, "tokens")
              = l.used[r]["tokens"] + Estimate * Cardinality(Reservations(l, {r}))
        BY <1>1, UsageFacts
      <4>2. /\ Usage(m, r, "tokens")
                 = m.used[r]["tokens"] + Estimate * Cardinality(Reservations(m, {r}))
            /\ Cardinality(Reservations(m, {r})) \in Nat
        BY <1>1, <2>9, UsageFacts
      <4> QED BY <1>1, <1>2, <2>7, <2>10, <2>11, <4>1, <4>2
    <3>2. ASSUME NEW x \in Run, x # r
          PROVE  Usage(m, x, "tokens") = Usage(l, x, "tokens") + 0
      <4>1. /\ Usage(l, x, "tokens")
                 = l.used[x]["tokens"] + Estimate * Cardinality(Reservations(l, {x}))
            /\ Usage(l, x, "tokens") \in Nat
        BY UsageFacts
      <4>2. Usage(m, x, "tokens")
              = m.used[x]["tokens"] + Estimate * Cardinality(Reservations(m, {x}))
        BY <2>9, UsageFacts
      <4>3. Reservations(m, {x}) = Reservations(l, {x})
        BY <2>6, <3>2 DEF Reservations
      <4> QED BY <2>7, <3>2, <4>1, <4>2, <4>3
    <3>3. TreeUsage(m, "tokens") = TreeUsage(l, "tokens") + k
      <4>1. /\ TreeUsage(l, "tokens") = Tree(l, "tokens") + Estimate * Cardinality(l.reserved)
            /\ Tree(l, "tokens") \in Nat
        BY UsageFacts
      <4>2. /\ TreeUsage(m, "tokens") = Tree(m, "tokens") + Estimate * Cardinality(m.reserved)
            /\ Cardinality(m.reserved) \in Nat
        BY <2>9, UsageFacts
      <4> QED BY <1>2, <2>8, <2>10, <2>11, <4>1, <4>2
    <3> QED BY <3>1, <3>2, <3>3 DEF Uses
  <2>13. Mutates(l, m, r, k)
    BY <2>6, <2>9, <2>12 DEF Mutates, Grown
  <2>14. k \in Int /\ k <= Beyond /\ o \notin m.reserved
    BY <1>2, <2>6
  <2> HIDE DEF k
  <2> QED BY <1>4, <2>13, <2>14 DEF m
<1> QED BY <1>3, <1>4

(***************************************************************************)
(* The bound on tokens.                                                    *)
(***************************************************************************)

\* More Runs are quiet, and the ledger uses no more than it did.
LEMMA BoundedStays ==
    ASSUME NEW l, NEW m, LedgerInv(l), LedgerInv(m), NEW r, Uses(l, m, r, 0),
           NEW S, NEW T \in SUBSET Run, S \subseteq T, Bounded(l, S)
    PROVE  Bounded(m, T)
<1>1. IsFiniteSet(T) /\ IsFiniteSet(S) /\ Cardinality(S) <= Cardinality(T)
  BY FS_Subset, Constants
<1>2. Cardinality(S) \in Nat /\ Cardinality(T) \in Nat
  BY <1>1, FS_CardinalityType
<1>3. Beyond \in Nat
  BY Constants
<1>4. Beyond * Cardinality(S) <= Beyond * Cardinality(T)
  BY <1>1, <1>2, <1>3, TimesMonotonic
<1>5. /\ TreeUsage(l, "tokens") \in Nat /\ TreeUsage(m, "tokens") = TreeUsage(l, "tokens")
      /\ \A x \in Run : Usage(l, x, "tokens") \in Nat
      /\ \A x \in Run : Usage(m, x, "tokens") = Usage(l, x, "tokens")
  <2>1. TreeUsage(l, "tokens") \in Nat /\ \A x \in Run : Usage(l, x, "tokens") \in Nat
    BY UsageFacts
  <2> QED BY <2>1 DEF Uses
<1>6. ASSUME NEW x \in Run
      PROVE  Usage(m, x, "tokens") <= Limit[x]["tokens"] + (IF x \in T THEN Beyond ELSE 0)
  <2>1. Usage(l, x, "tokens") <= Limit[x]["tokens"] + (IF x \in S THEN Beyond ELSE 0)
    BY DEF Bounded
  <2>2. Limit[x]["tokens"] \in Nat
    BY Constants
  <2> QED BY <1>3, <1>5, <2>1, <2>2
<1>7. TreeUsage(m, "tokens") <= Limit[Root]["tokens"] + Beyond * Cardinality(T)
  <2>1. TreeUsage(l, "tokens") <= Limit[Root]["tokens"] + Beyond * Cardinality(S)
    BY DEF Bounded
  <2>2. Limit[Root]["tokens"] \in Nat
    BY Constants
  <2>3. Beyond * Cardinality(S) \in Nat /\ Beyond * Cardinality(T) \in Nat
    BY <1>2, <1>3, TimesNat
  <2> QED BY <1>4, <1>5, <2>1, <2>2, <2>3
<1> QED BY <1>6, <1>7 DEF Bounded

\* A call that fits with its estimate is reserved.
LEMMA BoundedWhenReserved ==
    ASSUME NEW l, NEW m, LedgerInv(l), LedgerInv(m), NEW r \in Run,
           Fits(l, r, "tokens", Estimate), Uses(l, m, r, Estimate),
           NEW S, NEW T \in SUBSET Run, S \ {r} \subseteq T, Bounded(l, S)
    PROVE  Bounded(m, T)
<1>1. Beyond \in Nat /\ Estimate \in Nat
  BY Constants
<1>2. Usage(m, r, "tokens") <= Limit[r]["tokens"]
  <2>1. Usage(l, r, "tokens") \in Nat /\ Limit[r]["tokens"] \in Nat
    BY UsageFacts, Constants
  <2>2. ~Exceeds(Usage(l, r, "tokens"), Estimate, Limit[r]["tokens"])
    BY DEF Fits
  <2> QED BY <1>1, <2>1, <2>2, WithinLimit DEF Uses
<1>3. ASSUME NEW x \in Run
      PROVE  Usage(m, x, "tokens") <= Limit[x]["tokens"] + (IF x \in T THEN Beyond ELSE 0)
  <2>1. Limit[x]["tokens"] \in Nat /\ Usage(l, x, "tokens") \in Nat
    BY UsageFacts, Constants
  <2>2. CASE x = r
    <3>1. Usage(m, x, "tokens") <= Limit[x]["tokens"] /\ Usage(m, x, "tokens") \in Nat
      BY <1>2, <2>2, UsageFacts
    <3> QED BY <1>1, <2>1, <3>1
  <2>3. CASE x # r
    <3>1. Usage(m, x, "tokens") = Usage(l, x, "tokens")
      BY <2>1, <2>3 DEF Uses
    <3>2. Usage(l, x, "tokens") <= Limit[x]["tokens"] + (IF x \in S THEN Beyond ELSE 0)
      BY DEF Bounded
    <3>3. x \in S => x \in T
      BY <2>3
    <3> QED BY <1>1, <2>1, <3>1, <3>2, <3>3
  <2> QED BY <2>2, <2>3
<1>4. TreeUsage(m, "tokens") <= Limit[Root]["tokens"]
  <2>1. TreeUsage(l, "tokens") \in Nat /\ Limit[Root]["tokens"] \in Nat
    BY UsageFacts, Constants
  <2>2. ~Exceeds(TreeUsage(l, "tokens"), Estimate, Limit[Root]["tokens"])
    BY DEF Fits
  <2> QED BY <1>1, <2>1, <2>2, WithinLimit DEF Uses
<1>5. TreeUsage(m, "tokens") \in Nat /\ Limit[Root]["tokens"] \in Nat
  BY UsageFacts, Constants
<1>6. Beyond * Cardinality(T) \in Nat
  BY <1>1, FS_Subset, FS_CardinalityType, Constants, TimesNat
<1>7. TreeUsage(m, "tokens") <= Limit[Root]["tokens"] + Beyond * Cardinality(T)
  BY <1>4, <1>5, <1>6
<1> QED BY <1>3, <1>7 DEF Bounded

\* The outstanding call of a Run reports at most Beyond more than its estimate, and the Run
\* is quiet.
LEMMA BoundedWhenReported ==
    ASSUME NEW l, NEW m, LedgerInv(l), LedgerInv(m), NEW r \in Run,
           NEW k \in Int, k <= Beyond, Uses(l, m, r, k),
           NEW S \in SUBSET Run, NEW T \in SUBSET Run, r \notin S, S \cup {r} \subseteq T, Bounded(l, S)
    PROVE  Bounded(m, T)
<1>1. Beyond \in Nat
  BY Constants
<1>2. IsFiniteSet(T) /\ IsFiniteSet(S)
  BY FS_Subset, Constants
<1>3. Cardinality(S) \in Nat /\ Cardinality(T) \in Nat
  BY <1>2, FS_CardinalityType
<1>4. Cardinality(S) + 1 <= Cardinality(T)
  <2>1. Cardinality(S \cup {r}) = Cardinality(S) + 1
    BY <1>2, FS_AddElement
  <2>2. Cardinality(S \cup {r}) <= Cardinality(T)
    BY <1>2, FS_Subset
  <2> QED BY <2>1, <2>2
<1>5. Beyond * Cardinality(S) + Beyond <= Beyond * Cardinality(T)
  <2>1. Beyond * (Cardinality(S) + 1) <= Beyond * Cardinality(T)
    BY <1>1, <1>3, <1>4, TimesMonotonic
  <2>2. Beyond * (Cardinality(S) + 1) = Beyond * Cardinality(S) + Beyond
    BY <1>1, <1>3, TimesNext
  <2> QED BY <2>1, <2>2
<1>6. ASSUME NEW x \in Run
      PROVE  Usage(m, x, "tokens") <= Limit[x]["tokens"] + (IF x \in T THEN Beyond ELSE 0)
  <2>1. /\ Limit[x]["tokens"] \in Nat /\ Usage(l, x, "tokens") \in Nat
        /\ Usage(l, x, "tokens") <= Limit[x]["tokens"] + (IF x \in S THEN Beyond ELSE 0)
        /\ Usage(m, x, "tokens") = Usage(l, x, "tokens") + (IF x = r THEN k ELSE 0)
    BY UsageFacts, Constants DEF Bounded, Uses
  <2>2. (x \in S => x \in T) /\ (x = r => x \notin S /\ x \in T)
    OBVIOUS
  <2> QED BY <1>1, <2>1, <2>2
<1>7. TreeUsage(m, "tokens") <= Limit[Root]["tokens"] + Beyond * Cardinality(T)
  <2>1. /\ TreeUsage(l, "tokens") \in Nat
        /\ TreeUsage(l, "tokens") <= Limit[Root]["tokens"] + Beyond * Cardinality(S)
        /\ TreeUsage(m, "tokens") = TreeUsage(l, "tokens") + k
        /\ Limit[Root]["tokens"] \in Nat
    BY UsageFacts, Constants DEF Bounded, Uses
  <2>2. Beyond * Cardinality(S) \in Nat /\ Beyond * Cardinality(T) \in Nat
    BY <1>1, <1>3, TimesNat
  <2> QED BY <1>1, <1>5, <2>1, <2>2
<1> QED BY <1>6, <1>7 DEF Bounded

(***************************************************************************)
(* A save.                                                                 *)
(***************************************************************************)

\* Run r saves a ledger in the place of l: what the others notice of it.
Saves(l, m, r, k) ==
    /\ LedgerInv(m)
    /\ m.version = l.version + 1
    /\ Grown(l, m)
    /\ \A o \in m.operations \ l.operations : o.run = r
    /\ \A o : o.run # r => (o \in m.reserved <=> o \in l.reserved)
    /\ Uses(l, m, r, k)

\* A mutation is saved under the next version.
LEMMA MutationIsSaved ==
    ASSUME NEW l, LedgerInv(l), NEW c, NEW r, NEW k \in Int, Mutates(l, c, r, k)
    PROVE  LET m == [c EXCEPT !.version = @ + 1]
           IN /\ Saves(l, m, r, k)
              /\ m.runs = c.runs /\ m.operations = c.operations
              /\ m.reserved = c.reserved /\ m.hard = c.hard
<1> DEFINE m == [c EXCEPT !.version = @ + 1]
<1>1. LedgerInv(c) /\ c.version = l.version
  BY DEF Mutates
<1>2. /\ LedgerInv(m) /\ m.version = c.version + 1
      /\ m.runs = c.runs /\ m.operations = c.operations
      /\ m.reserved = c.reserved /\ m.hard = c.hard
      /\ Uses(c, m, r, 0)
  BY <1>1, VersionKeeps
<1> HIDE DEF m
<1>3. Uses(l, m, r, k)
  <2>1. /\ \A x \in Run : Usage(c, x, "tokens") = Usage(l, x, "tokens") + (IF x = r THEN k ELSE 0)
        /\ TreeUsage(c, "tokens") = TreeUsage(l, "tokens") + k
    BY DEF Mutates, Uses
  <2>2. /\ \A x \in Run : Usage(m, x, "tokens") = Usage(c, x, "tokens") + (IF x = r THEN 0 ELSE 0)
        /\ TreeUsage(m, "tokens") = TreeUsage(c, "tokens") + 0
    BY <1>2 DEF Uses
  <2>3. TreeUsage(c, "tokens") \in Nat /\ \A x \in Run : Usage(c, x, "tokens") \in Nat
    BY <1>1, UsageFacts
  <2>4. \A x \in Run : Usage(m, x, "tokens") = Usage(c, x, "tokens")
    BY <2>2, <2>3
  <2> QED BY <2>1, <2>2, <2>3, <2>4 DEF Uses
<1>4. Saves(l, m, r, k)
  BY <1>1, <1>2, <1>3 DEF Mutates, Grown, Saves
<1> QED BY <1>2, <1>4 DEF m

\* What the execution of another Run, or another execution of the same Run, relies on is
\* still true after a save.
LEMMA OthersStaySane ==
    ASSUME NEW l, NEW m, NEW r, NEW f \in Frame, Sane(l, r, f), Grown(l, m),
           l.version \in Nat, m = l \/ m.version = l.version + 1
    PROVE  Sane(m, r, f)
<1>1. CASE m = l
  BY <1>1
<1>2. CASE m.version = l.version + 1
  <2>1. f.copy.version \in Nat
    BY DEF Frame, Ledger
  <2>2. f.writing =>
          /\ f.pc \in Mutating
          /\ f.copy.version <= m.version
          /\ f.copy.version # m.version
          /\ ~Refuses(f.copy, r, f)
          /\ f.pc = "reserve" => f.call # 0
    BY <1>2, <2>1 DEF Sane
  <2>3. /\ f.pc \notin {"idle", "register"} => r \in m.runs
        /\ f.pc # "idle" =>
              \A n \in 0 .. f.at - 1 : [run |-> r, kind |-> "steps", no |-> n] \in m.operations
        /\ f.pc \in {"reserve", "call", "settle", "checkpoint"} => StepOp(r, f) \in m.operations
        /\ f.pc \in {"register", "step"} => f.call = 0
        /\ f.pc = "call" => CallOp(r, f) \in m.operations
        /\ f.pc = "fail" => r \in m.hard
    BY DEF Sane, Grown
  <2> QED BY <2>2, <2>3 DEF Sane
<1> QED BY <1>1, <1>2

\* One execution moves, the others stay.
LEMMA OneFrameMoves ==
    ASSUME FrameType, NEW r \in Run, NEW g \in Generation(r), NEW new \in Frame, Goto(r, g, new)
    PROVE  /\ DOMAIN frame' = Run
           /\ \A x \in Run : frame'[x] \in [Generation(x) -> Frame]
           /\ \A x \in Run : \A h \in Generation(x) :
                 frame'[x][h] = IF x = r /\ h = g THEN new ELSE frame[x][h]
<1>1. frame' = [frame EXCEPT ![r] = [frame[r] EXCEPT ![g] = new]]
  BY DEF Goto
<1>2. /\ DOMAIN frame = Run
      /\ \A x \in Run : frame[x] \in [Generation(x) -> Frame]
  BY DEF FrameType
<1>3. \A x \in Run : frame'[x] = IF x = r THEN [frame[r] EXCEPT ![g] = new] ELSE frame[x]
  BY <1>1, <1>2
<1>4. /\ [frame[r] EXCEPT ![g] = new] \in [Generation(r) -> Frame]
      /\ \A h \in Generation(r) :
            [frame[r] EXCEPT ![g] = new][h] = IF h = g THEN new ELSE frame[r][h]
  BY <1>2
<1>5. DOMAIN frame' = Run
  BY <1>1, <1>2
<1> QED BY <1>2, <1>3, <1>4, <1>5

\* The Runs with a call underway after an authorised execution moved: r has one if its
\* execution reports, the others as before.
LEMMA QuietAfter ==
    ASSUME FrameType, NEW r \in Run, NEW g \in Generation(r), NEW new \in Frame, Goto(r, g, new),
           Authorised(r, g), UNCHANGED <<generation, live>>,
           \A o : o.run # r => (o \in ledger'.reserved <=> o \in ledger.reserved)
    PROVE  /\ Quiet' \in SUBSET Run /\ Quiet \in SUBSET Run
           /\ Quiet' \ {r} = Quiet \ {r}
           /\ r \in Quiet <=> ~Reporting(ledger, r, frame[r][g])
           /\ r \in Quiet' <=> ~Reporting(ledger', r, new)
<1>1. \A x \in Run : \A h \in Generation(x) :
         frame'[x][h] = IF x = r /\ h = g THEN new ELSE frame[x][h]
  BY OneFrameMoves
<1>2. \A h \in Generation(r) : Authorised(r, h) => h = g
  BY DEF Authorised
<1>3. \A x \in Run : \A h : Authorised(x, h)' <=> Authorised(x, h)
  BY Zenon DEF Authorised
<1>4. Outstanding(r) <=> Reporting(ledger, r, frame[r][g])
  BY <1>2 DEF Outstanding
<1>5. Outstanding(r)' <=> Reporting(ledger', r, new)
  <2>1. Outstanding(r)' <=>
           \E h \in Generation(r) : Authorised(r, h)' /\ Reporting(ledger', r, frame'[r][h])
    BY Zenon DEF Outstanding, Reporting, CallOp, Generation
  <2> QED BY <1>1, <1>2, <1>3, <2>1
<1>6. ASSUME NEW x \in Run, x # r
      PROVE  Outstanding(x)' <=> Outstanding(x)
  <2>1. Outstanding(x)' <=>
           \E h \in Generation(x) : Authorised(x, h)' /\ Reporting(ledger', x, frame'[x][h])
    BY Zenon DEF Outstanding, Reporting, CallOp, Generation
  <2>2. \A h \in Generation(x) : frame'[x][h] = frame[x][h]
    BY <1>1, <1>6
  <2>3. ASSUME NEW f
        PROVE  Reporting(ledger', x, f) <=> Reporting(ledger, x, f)
    BY <1>6 DEF Reporting, CallOp
  <2> QED BY <1>3, <2>1, <2>2, <2>3 DEF Outstanding
<1>7. Quiet' = {x \in Run : ~Outstanding(x)'}
  BY DEF Quiet
<1> QED BY <1>4, <1>5, <1>6, <1>7 DEF Quiet

\* One execution moves, if need be with the ledger, and can rely on the new one.
LEMMA ExecutionsMove ==
    ASSUME Executions, NEW r \in Run, NEW g \in Generation(r), NEW new \in Frame, Goto(r, g, new),
           ledger.version \in Nat, Grown(ledger, ledger'),
           ledger' = ledger \/ ledger'.version = ledger.version + 1,
           Sane(ledger', r, new)
    PROVE  Executions'
<1>1. /\ DOMAIN frame' = Run
      /\ \A x \in Run : frame'[x] \in [Generation(x) -> Frame]
      /\ \A x \in Run : \A h \in Generation(x) :
            frame'[x][h] = IF x = r /\ h = g THEN new ELSE frame[x][h]
  BY OneFrameMoves DEF Executions
<1>2. ASSUME NEW x \in Run, NEW h \in Generation(x)
      PROVE  Sane(ledger', x, frame'[x][h])
  <2>1. CASE x = r /\ h = g
    BY <1>1, <2>1
  <2>2. CASE ~(x = r /\ h = g)
    <3>1. frame'[x][h] = frame[x][h]
      BY <1>1, <2>2
    <3>2. frame[x][h] \in Frame /\ Sane(ledger, x, frame[x][h])
      BY DEF Executions, FrameType
    <3>3. Sane(ledger', x, frame[x][h])
      BY <3>2, OthersStaySane
    <3> QED BY <3>1, <3>3
  <2> QED BY <2>1, <2>2
<1>3. FrameType'
  <2>1. FrameType' <=> /\ DOMAIN frame' = Run
                       /\ \A x \in Run : frame'[x] \in [Generation(x) -> Frame]
    BY Zenon DEF FrameType, Generation, Frame, Ledger, Operation
  <2> QED BY <1>1, <2>1
<1>4. (\A x \in Run : \A h \in Generation(x) : Sane(ledger, x, frame[x][h]))'
  BY <1>2
<1> QED BY <1>3, <1>4 DEF Executions

\* Calls underway are paid for because their executions rely on it.
LEMMA WorkStaysPaid ==
    ASSUME Executions',
           \A r \in Run : \A n \in 0 .. step'[r] - 1 :
              [run |-> r, kind |-> "steps", no |-> n] \in ledger'.operations
    PROVE  WorkIsPaid'
<1>1. ASSUME NEW r \in Run, NEW g \in Generation(r), frame'[r][g].pc = "call"
      PROVE  CallOp(r, frame'[r][g]) \in ledger'.operations
  <2>1. Sane(ledger', r, frame'[r][g])
    BY Zenon DEF Executions, Generation, Sane, Refuses, Fits, Exceeds, Usage, TreeUsage, Held, Tree, Units, StepOp, CallOp
  <2> QED BY <1>1, <2>1 DEF Sane
<1> QED BY <1>1 DEF WorkIsPaid, CallOp, Generation

\* An authorised execution saves.
LEMMA SaveKeeps ==
    ASSUME IInv, NEW r \in Run, NEW g \in Generation(r), NEW new \in Frame, Goto(r, g, new),
           Authorised(r, g), UNCHANGED <<step, outcome, issued, generation, live>>,
           NEW k \in Int, Saves(ledger, ledger', r, k), Sane(ledger', r, new),
           new.call = frame[r][g].call,
           new.pc = "reserve" => new.call = 0,
           \A o \in ledger'.operations \ ledger.operations :
              o.kind = "model_calls" => o.no <= issued[r],
           Bounded(ledger', Quiet')
    PROVE  IInv'
<1>0. /\ TypeOK /\ LedgerInv(ledger) /\ WorkIsPaid /\ FailureIsRecorded /\ Executions /\ Fresh
      /\ ledger \in Ledger /\ ledger.version \in Nat
  BY DEF IInv, LedgerInv, Ledger
<1>1. /\ LedgerInv(ledger') /\ ledger'.version = ledger.version + 1 /\ Grown(ledger, ledger')
      /\ \A o \in ledger'.operations \ ledger.operations : o.run = r
  BY DEF Saves
<1>2. Executions'
  BY <1>0, <1>1, ExecutionsMove
<1>3. /\ DOMAIN frame' = Run
      /\ \A x \in Run : frame'[x] \in [Generation(x) -> Frame]
      /\ \A x \in Run : \A h \in Generation(x) :
            frame'[x][h] = IF x = r /\ h = g THEN new ELSE frame[x][h]
  BY <1>0, OneFrameMoves DEF Executions
<1>4. TypeOK'
  <2>1. /\ step' \in [Run -> 0 .. MaxStep] /\ outcome' \in [Run -> {"RUNNING", "FAILED"}]
        /\ issued' \in [Run -> Nat] /\ generation' \in [Run -> Nat]
    BY <1>0 DEF TypeOK
  <2>2. live' \in [Run -> BOOLEAN]
    BY <1>0, Zenon DEF TypeOK
  <2>3. ledger' \in Ledger
    BY <1>1 DEF LedgerInv
  <2> QED BY <1>3, <2>1, <2>2, <2>3, Zenon DEF TypeOK, Generation, Frame, Ledger, Operation
<1>5. WorkIsPaid'
  <2>1. \A x \in Run : \A n \in 0 .. step'[x] - 1 :
           [run |-> x, kind |-> "steps", no |-> n] \in ledger'.operations
    BY <1>0, <1>1 DEF WorkIsPaid, Grown
  <2> QED BY <1>2, <2>1, WorkStaysPaid
<1>6. FailureIsRecorded'
  BY <1>0, <1>1 DEF FailureIsRecorded, Grown
<1>7. Fresh'
  <2>1. \A o \in ledger'.operations : o.kind = "model_calls" => o.no <= issued[o.run]
    BY <1>0, <1>1 DEF Fresh
  <2>2. ASSUME NEW x \in Run, NEW h \in Generation(x)
        PROVE  /\ frame'[x][h].call <= issued[x]
               /\ Authorised(x, h) /\ frame'[x][h].pc = "reserve" /\ frame'[x][h].call # 0 =>
                     CallOp(x, frame'[x][h]) \notin ledger'.operations
    <3>1. CASE x = r /\ h = g
      BY <1>0, <1>3, <3>1 DEF Fresh
    <3>2. CASE ~(x = r /\ h = g)
      <4>1. frame'[x][h] = frame[x][h]
        BY <1>3, <3>2
      <4>2. CASE x = r
        <5>1. ~Authorised(x, h)
          BY <3>2, <4>2 DEF Authorised
        <5> QED BY <1>0, <4>1, <5>1 DEF Fresh
      <4>3. CASE x # r
        <5>1. CallOp(x, frame[x][h]) \in ledger'.operations
                 => CallOp(x, frame[x][h]) \in ledger.operations
          BY <1>1, <4>3 DEF CallOp
        <5> QED BY <1>0, <4>1, <5>1 DEF Fresh
      <4> QED BY <4>2, <4>3
    <3> QED BY <3>1, <3>2
  <2>3. \A x \in Run : \A h : Authorised(x, h)' <=> Authorised(x, h)
    BY Zenon DEF Authorised
  <2> QED BY <2>1, <2>2, <2>3 DEF Fresh, Generation, CallOp
<1>8. TokenBound'
  BY Zenon DEF TokenBound, Bounded, Usage, TreeUsage, Held, Tree, Units, Beyond, Max
<1> QED BY <1>1, <1>2, <1>4, <1>5, <1>6, <1>7, <1>8, Zenon
        DEF IInv, LedgerInv, Counted, Limited, Ledger, Units, Tree, Of, OfTree, Operation

(***************************************************************************)
(* The saves, one by one.                                                  *)
(***************************************************************************)

\* What the execution that saves knows.
LEMMA SavingFacts ==
    ASSUME IInv, NEW r \in Run, NEW g \in Generation(r), SaveLedger(r, g)
    PROVE  LET f == frame[r][g]
           IN /\ LedgerInv(ledger) /\ f \in Frame /\ Sane(ledger, r, f) /\ Bounded(ledger, Quiet)
              /\ FrameType /\ Authorised(r, g) /\ UNCHANGED <<step, outcome, issued, generation, live>>
              /\ f.pc \in Mutating /\ f.writing
              /\ f.call \in Nat /\ f.call <= issued[r] /\ issued[r] \in Nat
              /\ StepOp(r, f) \in Operation /\ CallOp(r, f) \in Operation
              /\ f.pc = "reserve" => f.call # 0 /\ CallOp(r, f) \notin ledger.operations
              /\ Current(f.copy) => f.copy = ledger
<1> DEFINE f == frame[r][g]
<1>1. /\ LedgerInv(ledger) /\ Executions /\ Fresh /\ Bounded(ledger, Quiet)
      /\ FrameType /\ Sane(ledger, r, f) /\ f \in Frame
  BY DEF IInv, TokenBound, Executions, FrameType
<1>2. /\ Authorised(r, g) /\ UNCHANGED <<step, outcome, issued, generation, live>>
      /\ f.pc \in Mutating /\ f.writing
  BY DEF SaveLedger
<1> HIDE DEF f
<1>3. f.call \in Nat /\ f.at \in Nat /\ issued[r] \in Nat
  <2>1. f.call \in Nat /\ f.at \in 0 .. MaxStep
    BY <1>1 DEF Frame
  <2>2. issued \in [Run -> Nat]
    BY DEF IInv, TypeOK
  <2> QED BY <2>1, <2>2, Constants
<1>4. StepOp(r, f) \in Operation /\ CallOp(r, f) \in Operation
  BY <1>3, Constants DEF StepOp, CallOp, Operation
<1>5. f.pc = "reserve" => f.call # 0
  BY <1>1, <1>2 DEF Sane
<1>6. f.call <= issued[r] /\ (f.pc = "reserve" /\ f.call # 0 => CallOp(r, f) \notin ledger.operations)
  BY <1>1, <1>2 DEF Fresh, f
<1>7. Current(f.copy) => f.copy = ledger
  BY <1>1, <1>2 DEF Sane, Current
<1> QED BY <1>1, <1>2, <1>3, <1>4, <1>5, <1>6, <1>7 DEF f

\* The ledger before the first Run registers.
LEMMA NoLedgerIsLedger == NoLedger \in Ledger
<1>1. [x \in Run |-> [d \in Dimension |-> 0]] \in [Run -> [Dimension -> Nat]]
  OBVIOUS
<1> QED BY <1>1 DEF NoLedger, Ledger

\* The execution after its save.
LEMMA SavedFrame ==
    ASSUME NEW f \in Frame, NEW pc \in Mutating \cup {"call", "checkpoint", "fail"}
    PROVE  LET new == [f EXCEPT !.pc = pc, !.writing = FALSE, !.copy = NoLedger]
           IN /\ new \in Frame /\ new.pc = pc /\ ~new.writing /\ new.call = f.call /\ new.at = f.at
              /\ new.tokens = f.tokens
<1> DEFINE new == [f EXCEPT !.pc = pc, !.writing = FALSE, !.copy = NoLedger]
<1>1. NoLedger \in Ledger
  BY NoLedgerIsLedger
<1>2. new \in Frame
  BY <1>1, Zenon DEF Frame
<1>3. DOMAIN f = {"pc", "writing", "copy", "at", "call", "tokens"}
  BY Zenon DEF Frame
<1>4. new.pc = pc /\ ~new.writing /\ new.call = f.call /\ new.at = f.at /\ new.tokens = f.tokens
  BY <1>3
<1> QED BY <1>2, <1>4

\* The execution goes on after its save.
Saved(r, f) == [f EXCEPT !.pc = After(r, f), !.writing = FALSE, !.copy = NoLedger]

\* A current copy is mutated and saved, and the execution goes on.
LEMMA SavedFacts ==
    ASSUME IInv, NEW r \in Run, NEW g \in Generation(r), SaveLedger(r, g),
           Current(frame[r][g].copy),
           NEW k \in Int, Mutates(ledger, Mutated(ledger, r, frame[r][g]), r, k)
    PROVE  LET f == frame[r][g]
               m == Mutated(ledger, r, f)
               new == Saved(r, f)
           IN /\ Saves(ledger, ledger', r, k)
              /\ ledger'.runs = m.runs /\ ledger'.operations = m.operations
              /\ ledger'.reserved = m.reserved /\ ledger'.hard = m.hard
              /\ Goto(r, g, new)
              /\ new \in Frame /\ new.pc = After(r, f) /\ ~new.writing
              /\ new.call = f.call /\ new.at = f.at /\ new.tokens = f.tokens
<1> DEFINE f == frame[r][g]
           m == Mutated(ledger, r, f)
           new == Saved(r, f)
<1>1. /\ LedgerInv(ledger) /\ f \in Frame /\ f.pc \in Mutating /\ f.copy = ledger
  BY SavingFacts
<1>2. ledger' = [m EXCEPT !.version = @ + 1] /\ Goto(r, g, new)
  BY <1>1 DEF SaveLedger, Saved
<1> HIDE DEF f, m
<1>3. /\ Saves(ledger, ledger', r, k)
      /\ ledger'.runs = m.runs /\ ledger'.operations = m.operations
      /\ ledger'.reserved = m.reserved /\ ledger'.hard = m.hard
  BY <1>1, <1>2, MutationIsSaved DEF m, f
<1>4. After(r, f) \in Mutating \cup {"call", "checkpoint", "fail"}
  BY <1>1 DEF After, Mutating
<1>5. /\ new \in Frame /\ new.pc = After(r, f) /\ ~new.writing
      /\ new.call = f.call /\ new.at = f.at /\ new.tokens = f.tokens
  BY <1>1, <1>4, SavedFrame DEF Saved
<1> HIDE DEF new
<1> QED BY <1>2, <1>3, <1>5 DEF new, f, m

\* The save of an execution with no call underway that reports nothing.
LEMMA PlainSaveIsBounded ==
    ASSUME IInv, NEW r \in Run, NEW g \in Generation(r), NEW new \in Frame, Goto(r, g, new),
           Authorised(r, g), UNCHANGED <<generation, live>>,
           Saves(ledger, ledger', r, 0), new.pc \notin {"call", "settle"}
    PROVE  Bounded(ledger', Quiet')
<1>1. LedgerInv(ledger) /\ Bounded(ledger, Quiet) /\ FrameType
  BY DEF IInv, TokenBound, Executions
<1>2. /\ LedgerInv(ledger') /\ Uses(ledger, ledger', r, 0)
      /\ \A o : o.run # r => (o \in ledger'.reserved <=> o \in ledger.reserved)
  BY DEF Saves
<1>3. /\ Quiet' \in SUBSET Run /\ Quiet \in SUBSET Run
      /\ Quiet' \ {r} = Quiet \ {r}
      /\ r \in Quiet' <=> ~Reporting(ledger', r, new)
  BY <1>1, <1>2, QuietAfter
<1>4. Quiet \subseteq Quiet'
  BY <1>3 DEF Reporting
<1> QED BY <1>1, <1>2, <1>3, <1>4, BoundedStays

\* initialize
LEMMA RegisterSaves ==
    ASSUME IInv, NEW r \in Run, NEW g \in Generation(r), SaveLedger(r, g),
           Current(frame[r][g].copy), frame[r][g].pc = "register"
    PROVE  IInv'
<1> DEFINE f == frame[r][g]
           m == Mutated(ledger, r, f)
           new == Saved(r, f)
<1>1. /\ LedgerInv(ledger) /\ f \in Frame /\ Sane(ledger, r, f)
      /\ Authorised(r, g) /\ UNCHANGED <<step, outcome, issued, generation, live>>
  BY SavingFacts
<1>2. m = Register(ledger, r) /\ After(r, f) = "step"
  BY DEF Mutated, After
<1>3. Mutates(ledger, m, r, 0) /\ r \in m.runs /\ m.operations = ledger.operations
  BY <1>1, <1>2, RegisterMutates DEF Register
<1>4. /\ Saves(ledger, ledger', r, 0)
      /\ ledger'.runs = m.runs /\ ledger'.operations = m.operations
      /\ Goto(r, g, new)
      /\ new \in Frame /\ new.pc = After(r, f) /\ ~new.writing
      /\ new.call = f.call /\ new.at = f.at
  BY <1>3, SavedFacts
<1> HIDE DEF new, m
<1>5. Sane(ledger', r, new)
  BY <1>1, <1>2, <1>3, <1>4 DEF Sane
<1>6. Bounded(ledger', Quiet')
  BY <1>1, <1>2, <1>4, PlainSaveIsBounded
<1> QED BY <1>1, <1>2, <1>3, <1>4, <1>5, <1>6, SaveKeeps

\* consume_step
LEMMA StepSaves ==
    ASSUME IInv, NEW r \in Run, NEW g \in Generation(r), SaveLedger(r, g),
           Current(frame[r][g].copy), frame[r][g].pc = "step"
    PROVE  IInv'
<1> DEFINE f == frame[r][g]
           o == StepOp(r, f)
           m == Mutated(ledger, r, f)
           new == Saved(r, f)
<1>1. /\ LedgerInv(ledger) /\ f \in Frame /\ Sane(ledger, r, f) /\ f.writing /\ f.copy = ledger
      /\ Authorised(r, g) /\ UNCHANGED <<step, outcome, issued, generation, live>>
      /\ o \in Operation
  BY SavingFacts
<1>2. m = Charge(ledger, o) /\ After(r, f) = "reserve"
  BY DEF Mutated, After
<1>3. /\ o.kind = "steps" /\ o.run = r /\ r \in ledger.runs
      /\ o \in ledger.operations \/ Fits(ledger, r, "steps", 1)
  BY <1>1 DEF Sane, StepOp, Refuses
<1>4. Mutates(ledger, m, r, 0) /\ o \in m.operations
  <2> HIDE DEF o
  <2>1. Mutates(ledger, Charge(ledger, o), r, 0) /\ o \in Charge(ledger, o).operations
    BY <1>1, <1>3, ChargeMutates
  <2> QED BY <1>2, <2>1
<1>5. m.operations \subseteq ledger.operations \cup {o}
  <2> HIDE DEF o
  <2>1. o \notin ledger.operations =>
           Charge(ledger, o).operations = ledger.operations \cup {o}
    BY <1>1, ChargeFields DEF LedgerInv
  <2>2. o \in ledger.operations => Charge(ledger, o) = ledger
    BY DEF Charge
  <2> QED BY <1>2, <2>1, <2>2
<1>6. /\ Saves(ledger, ledger', r, 0) /\ Grown(ledger, ledger')
      /\ ledger'.operations = m.operations
      /\ Goto(r, g, new)
      /\ new \in Frame /\ new.pc = After(r, f) /\ ~new.writing
      /\ new.call = f.call /\ new.at = f.at
  BY <1>4, SavedFacts DEF Saves
<1>7. StepOp(r, new) = o
  BY <1>6 DEF StepOp
<1> HIDE DEF new, m, o
<1>8. Sane(ledger', r, new)
  BY <1>1, <1>2, <1>3, <1>4, <1>6, <1>7 DEF Sane, Grown
<1>9. Bounded(ledger', Quiet')
  BY <1>1, <1>2, <1>6, PlainSaveIsBounded
<1>10. new.call = 0
  BY <1>1, <1>6 DEF Sane
<1>11. \A x \in ledger'.operations \ ledger.operations :
          x.kind = "model_calls" => x.no <= issued[r]
  BY <1>3, <1>5, <1>6
<1>12. /\ new.call = f.call
       /\ new.pc = "reserve" => new.call = 0
  BY <1>6, <1>10
<1> HIDE DEF f
<1> QED BY <1>1, <1>6, <1>8, <1>9, <1>11, <1>12, SaveKeeps DEF f

\* reserve_model_call
LEMMA ReserveSaves ==
    ASSUME IInv, NEW r \in Run, NEW g \in Generation(r), SaveLedger(r, g),
           Current(frame[r][g].copy), frame[r][g].pc = "reserve"
    PROVE  IInv'
<1> DEFINE f == frame[r][g]
           o == CallOp(r, f)
           m == Mutated(ledger, r, f)
           new == Saved(r, f)
<1>1. /\ LedgerInv(ledger) /\ f \in Frame /\ Sane(ledger, r, f) /\ f.writing /\ f.copy = ledger
      /\ FrameType /\ Bounded(ledger, Quiet)
      /\ Authorised(r, g) /\ UNCHANGED <<step, outcome, issued, generation, live>>
      /\ o \in Operation /\ o \notin ledger.operations
      /\ f.call <= issued[r]
  BY SavingFacts
<1>2. m = Reserve(ledger, o) /\ After(r, f) = "call"
  BY DEF Mutated, After
<1>3. /\ o.kind = "model_calls" /\ o.run = r /\ o.no = f.call /\ r \in ledger.runs
      /\ Fits(ledger, r, "model_calls", 1) /\ Fits(ledger, r, "tokens", Estimate)
  BY <1>1 DEF Sane, CallOp, Refuses
<1>4. /\ Mutates(ledger, m, r, Estimate)
      /\ o \in m.operations /\ o \in m.reserved /\ m.operations = ledger.operations \cup {o}
  <2> HIDE DEF o
  <2>1. /\ Mutates(ledger, Reserve(ledger, o), r, Estimate)
        /\ o \in Reserve(ledger, o).operations /\ o \in Reserve(ledger, o).reserved
        /\ Reserve(ledger, o).operations = ledger.operations \cup {o}
    BY <1>1, <1>3, ReserveMutates
  <2> QED BY <1>2, <2>1
<1>5. Estimate \in Int
  BY Constants
<1>6. /\ Saves(ledger, ledger', r, Estimate) /\ Grown(ledger, ledger')
      /\ ledger'.operations = m.operations /\ ledger'.reserved = m.reserved
      /\ Goto(r, g, new)
      /\ new \in Frame /\ new.pc = After(r, f) /\ ~new.writing
      /\ new.call = f.call /\ new.at = f.at
  BY <1>4, <1>5, SavedFacts DEF Saves
<1>7. CallOp(r, new) = o /\ StepOp(r, new) = StepOp(r, f)
  BY <1>6 DEF StepOp, CallOp
<1> HIDE DEF new, m, o
<1>8. Sane(ledger', r, new)
  BY <1>1, <1>2, <1>3, <1>4, <1>6, <1>7 DEF Sane, Grown
<1>9. Bounded(ledger', Quiet')
  <2>1. /\ LedgerInv(ledger') /\ Uses(ledger, ledger', r, Estimate)
        /\ \A x : x.run # r => (x \in ledger'.reserved <=> x \in ledger.reserved)
    BY <1>6 DEF Saves
  <2>2. Quiet' \in SUBSET Run /\ Quiet' \ {r} = Quiet \ {r}
    BY <1>1, <1>6, <2>1, QuietAfter
  <2>3. Quiet \ {r} \subseteq Quiet'
    BY <2>2
  <2> QED BY <1>1, <1>3, <2>1, <2>2, <2>3, BoundedWhenReserved
<1>10. \A x \in ledger'.operations \ ledger.operations : x.no <= issued[r]
  BY <1>1, <1>3, <1>4, <1>6
<1> QED BY <1>1, <1>2, <1>5, <1>6, <1>8, <1>9, <1>10, SaveKeeps

\* complete_model_call
LEMMA SettleSaves ==
    ASSUME IInv, NEW r \in Run, NEW g \in Generation(r), SaveLedger(r, g),
           Current(frame[r][g].copy), frame[r][g].pc = "settle"
    PROVE  IInv'
<1> DEFINE f == frame[r][g]
           o == CallOp(r, f)
           m == Mutated(ledger, r, f)
           new == Saved(r, f)
<1>1. /\ LedgerInv(ledger) /\ f \in Frame /\ Sane(ledger, r, f) /\ f.writing /\ f.copy = ledger
      /\ FrameType /\ Bounded(ledger, Quiet)
      /\ Authorised(r, g) /\ UNCHANGED <<step, outcome, issued, generation, live>>
      /\ o \in Operation
  BY SavingFacts
<1>2. m = Settle(ledger, o, f.tokens) /\ After(r, f) \in {"exceeded", "checkpoint"}
  BY DEF Mutated, After
<1>3. /\ o.run = r /\ r \in ledger.runs /\ f.tokens \in Reports \cup {0}
  BY <1>1 DEF Sane, CallOp, Frame
<1>4. PICK k \in Int :
         /\ Mutates(ledger, m, r, k)
         /\ o \notin ledger.reserved => k = 0
         /\ k <= Beyond
         /\ m.operations = ledger.operations
  <2> HIDE DEF o
  <2>1. PICK k \in Int :
           /\ Mutates(ledger, Settle(ledger, o, f.tokens), r, k)
           /\ o \notin ledger.reserved => k = 0
           /\ k <= Beyond
    BY <1>1, <1>3, SettleMutates
  <2>2. Settle(ledger, o, f.tokens).operations = ledger.operations
    <3> DEFINE s == Reported(ledger, o, f.tokens)
    <3>1. s.operations = ledger.operations /\ "hard" \in DOMAIN s /\ DOMAIN s = DOMAIN ledger
      BY <1>1 DEF Reported, LedgerInv, Ledger
    <3> HIDE DEF s
    <3>2. MarkHard(s, o.run).operations = ledger.operations
      BY <1>1, <3>1 DEF MarkHard, LedgerInv, Ledger
    <3> QED BY <3>1, <3>2 DEF Settle, s
  <2> QED BY <1>2, <2>1, <2>2
<1>5. /\ Saves(ledger, ledger', r, k) /\ Grown(ledger, ledger')
      /\ ledger'.operations = m.operations
      /\ Goto(r, g, new)
      /\ new \in Frame /\ new.pc = After(r, f) /\ ~new.writing
      /\ new.call = f.call /\ new.at = f.at
  BY <1>4, SavedFacts DEF Saves
<1>6. StepOp(r, new) = StepOp(r, f)
  BY <1>5 DEF StepOp
<1> HIDE DEF new, m, o
<1>7. Sane(ledger', r, new)
  BY <1>1, <1>2, <1>3, <1>5, <1>6 DEF Sane, Grown
<1>8. Bounded(ledger', Quiet')
  <2>1. /\ LedgerInv(ledger') /\ Uses(ledger, ledger', r, k)
        /\ \A x : x.run # r => (x \in ledger'.reserved <=> x \in ledger.reserved)
    BY <1>5 DEF Saves
  <2>2. CASE o \notin ledger.reserved
    BY <1>1, <1>2, <1>4, <1>5, <2>2, PlainSaveIsBounded
  <2>3. CASE o \in ledger.reserved
    <3>1. /\ Quiet' \in SUBSET Run /\ Quiet \in SUBSET Run
          /\ Quiet' \ {r} = Quiet \ {r}
          /\ r \in Quiet <=> ~Reporting(ledger, r, f)
          /\ r \in Quiet' <=> ~Reporting(ledger', r, new)
      BY <1>1, <1>5, <2>1, QuietAfter
    <3>2. r \notin Quiet /\ Quiet \cup {r} \subseteq Quiet'
      BY <1>2, <1>5, <2>3, <3>1 DEF Reporting, o
    <3> QED BY <1>1, <1>4, <2>1, <3>1, <3>2, BoundedWhenReported
  <2> QED BY <2>2, <2>3
<1> QED BY <1>1, <1>2, <1>4, <1>5, <1>7, <1>8, SaveKeeps

\* record_hard_limit
LEMMA ExceededSaves ==
    ASSUME IInv, NEW r \in Run, NEW g \in Generation(r), SaveLedger(r, g),
           Current(frame[r][g].copy), frame[r][g].pc = "exceeded"
    PROVE  IInv'
<1> DEFINE f == frame[r][g]
           m == Mutated(ledger, r, f)
           new == Saved(r, f)
<1>1. /\ LedgerInv(ledger) /\ f \in Frame /\ Sane(ledger, r, f)
      /\ Authorised(r, g) /\ UNCHANGED <<step, outcome, issued, generation, live>>
  BY SavingFacts
<1>2. m = MarkHard(ledger, r) /\ After(r, f) = "fail"
  BY DEF Mutated, After
<1>3. Mutates(ledger, m, r, 0) /\ r \in m.hard /\ m.operations = ledger.operations
  BY <1>1, <1>2, MarkHardMutates DEF MarkHard
<1>4. /\ Saves(ledger, ledger', r, 0)
      /\ ledger'.hard = m.hard /\ ledger'.operations = m.operations
      /\ Goto(r, g, new)
      /\ new \in Frame /\ new.pc = After(r, f) /\ ~new.writing
      /\ new.call = f.call /\ new.at = f.at
  BY <1>3, SavedFacts
<1> HIDE DEF new, m
<1>5. Sane(ledger', r, new)
  <2>1. Grown(ledger, ledger')
    BY <1>4 DEF Saves
  <2>2. r \in ledger'.runs /\ r \in ledger'.hard
    BY <1>1, <1>3, <1>4, <2>1 DEF Sane, Grown
  <2> QED BY <1>1, <1>2, <1>4, <2>1, <2>2 DEF Sane, Grown
<1>6. Bounded(ledger', Quiet')
  BY <1>1, <1>2, <1>4, PlainSaveIsBounded
<1> QED BY <1>1, <1>2, <1>3, <1>4, <1>5, <1>6, SaveKeeps

(***************************************************************************)
(* The steps that leave the ledger alone.                                  *)
(***************************************************************************)

\* Fewer calls are underway, of a ledger that stays.
LEMMA BoundStands ==
    ASSUME IInv, ledger' = ledger, Quiet \subseteq Quiet'
    PROVE  TokenBound'
<1>1. LedgerInv(ledger) /\ Bounded(ledger, Quiet)
  BY DEF IInv, TokenBound
<1>2. \A x : Uses(ledger, ledger, x, 0)
  BY <1>1, TokensStay
<1>3. Quiet' \in SUBSET Run
  BY DEF Quiet
<1>4. Bounded(ledger, Quiet')
  BY <1>1, <1>2, <1>3, BoundedStays
<1> QED BY <1>4, Zenon DEF TokenBound, Bounded, Usage, TreeUsage, Held, Tree, Units, Beyond, Max

\* One execution moves.  It may give up its authority, name an operation, or have finished
\* a step that is paid for.
LEMMA LocalKeeps ==
    ASSUME IInv, NEW r \in Run, NEW g \in Generation(r), NEW new \in Frame, Goto(r, g, new),
           UNCHANGED <<ledger, generation>>,
           step' \in [Run -> 0 .. MaxStep], outcome' \in [Run -> {"RUNNING", "FAILED"}],
           issued' \in [Run -> Nat], live' \in [Run -> BOOLEAN],
           \A x \in Run : live'[x] => live[x],
           \A x \in Run : issued[x] <= issued'[x],
           \A x \in Run : \A n \in 0 .. step'[x] - 1 :
              [run |-> x, kind |-> "steps", no |-> n] \in ledger.operations,
           \A x \in Run : outcome'[x] = "FAILED" => x \in ledger.hard,
           Sane(ledger, r, new),
           new.call <= issued'[r],
           Authorised(r, g) /\ new.pc = "reserve" /\ new.call # 0 =>
              CallOp(r, new) \notin ledger.operations,
           Authorised(r, g) /\ Reporting(ledger, r, new) => Reporting(ledger, r, frame[r][g])
    PROVE  IInv'
<1>0. /\ TypeOK /\ LedgerInv(ledger) /\ WorkIsPaid /\ FailureIsRecorded /\ Executions /\ Fresh
      /\ ledger \in Ledger /\ ledger.version \in Nat /\ issued \in [Run -> Nat]
      /\ generation \in [Run -> Nat]
  BY DEF IInv, LedgerInv, Ledger, TypeOK
<1>1. Executions'
  <2>1. Grown(ledger, ledger')
    BY DEF Grown
  <2> QED BY <1>0, <2>1, ExecutionsMove
<1>2. /\ DOMAIN frame' = Run
      /\ \A x \in Run : frame'[x] \in [Generation(x) -> Frame]
      /\ \A x \in Run : \A h \in Generation(x) :
            frame'[x][h] = IF x = r /\ h = g THEN new ELSE frame[x][h]
  BY <1>0, OneFrameMoves DEF Executions
<1>3. \A x \in Run : \A h : Authorised(x, h)' => Authorised(x, h)
  BY Zenon DEF Authorised
<1>4. TypeOK'
  <2>1. ledger' \in Ledger /\ generation' \in [Run -> Nat]
    BY <1>0
  <2> QED BY <1>2, <2>1, Zenon DEF TypeOK, Generation, Frame, Ledger, Operation
<1>5. WorkIsPaid'
  BY <1>1, WorkStaysPaid
<1>6. FailureIsRecorded'
  BY DEF FailureIsRecorded
<1>7. Fresh'
  <2>1. \A o \in ledger.operations : o.kind = "model_calls" => o.no <= issued'[o.run]
    <3>1. \A o \in ledger.operations : o.run \in Run /\ o.no \in Nat
      BY <1>0 DEF Ledger, Operation
    <3>2. \A o \in ledger.operations : o.kind = "model_calls" => o.no <= issued[o.run]
      BY <1>0 DEF Fresh
    <3>3. \A x \in Run : issued[x] \in Nat /\ issued'[x] \in Nat
      BY <1>0
    <3> QED BY <3>1, <3>2, <3>3
  <2>2. ASSUME NEW x \in Run, NEW h \in Generation(x)
        PROVE  /\ frame'[x][h].call <= issued'[x]
               /\ Authorised(x, h) /\ frame'[x][h].pc = "reserve" /\ frame'[x][h].call # 0 =>
                     CallOp(x, frame'[x][h]) \notin ledger.operations
    <3>1. CASE x = r /\ h = g
      BY <1>2, <3>1
    <3>2. CASE ~(x = r /\ h = g)
      <4>1. frame'[x][h] = frame[x][h] /\ frame[x][h] \in Frame
        BY <1>0, <1>2, <3>2 DEF Executions, FrameType
      <4>2. frame[x][h].call \in Nat /\ issued[x] \in Nat /\ issued'[x] \in Nat
        BY <1>0, <4>1 DEF Frame
      <4>3. frame[x][h].call <= issued[x] /\ issued[x] <= issued'[x]
        BY <1>0 DEF Fresh
      <4>4. frame[x][h].call <= issued'[x]
        BY <4>2, <4>3
      <4> QED BY <1>0, <4>1, <4>4 DEF Fresh
    <3> QED BY <3>1, <3>2
  <2> QED BY <1>3, <2>1, <2>2 DEF Fresh, Generation, CallOp
<1>8. Quiet \subseteq Quiet'
  <2>1. ASSUME NEW x \in Run, Outstanding(x)'
        PROVE  Outstanding(x)
    <3>1. PICK h \in Generation(x) : Authorised(x, h)' /\ Reporting(ledger, x, frame'[x][h])
      BY <2>1, Zenon DEF Outstanding, Reporting, CallOp, Generation
    <3>2. Authorised(x, h)
      BY <1>3, <3>1
    <3>3. Reporting(ledger, x, frame[x][h])
      BY <1>2, <3>1, <3>2
    <3> QED BY <3>2, <3>3 DEF Outstanding
  <2>2. Quiet' = {x \in Run : ~Outstanding(x)'}
    BY DEF Quiet
  <2> QED BY <2>1, <2>2 DEF Quiet
<1>9. TokenBound'
  BY <1>8, BoundStands
<1>10. LedgerInv(ledger')
  BY <1>0
<1> QED BY <1>1, <1>4, <1>5, <1>6, <1>7, <1>9, <1>10, Zenon
        DEF IInv, LedgerInv, Counted, Limited, Ledger, Units, Tree, Of, OfTree, Operation

\* What an execution knows of itself.
LEMMA FrameFacts ==
    ASSUME IInv, NEW r \in Run, NEW g \in Generation(r)
    PROVE  LET f == frame[r][g]
           IN /\ f \in Frame /\ Sane(ledger, r, f)
              /\ f.pc \in Mutating \cup {"idle", "call", "checkpoint", "fail"}
              /\ f.call \in Nat /\ f.at \in 0 .. MaxStep /\ f.at \in Nat
              /\ f.tokens \in Reports \cup {0}
              /\ DOMAIN f = {"pc", "writing", "copy", "at", "call", "tokens"}
              /\ f.call <= issued[r] /\ issued[r] \in Nat
              /\ Authorised(r, g) /\ f.pc = "reserve" /\ f.call # 0 =>
                    CallOp(r, f) \notin ledger.operations
<1> DEFINE f == frame[r][g]
<1>1. f \in Frame /\ Sane(ledger, r, f)
  BY DEF IInv, Executions, FrameType
<1>2. /\ f.call <= issued[r]
      /\ Authorised(r, g) /\ f.pc = "reserve" /\ f.call # 0 =>
            CallOp(r, f) \notin ledger.operations
  BY DEF IInv, Fresh
<1>3. issued[r] \in Nat
  BY DEF IInv, TypeOK
<1> HIDE DEF f
<1>4. /\ f.pc \in Mutating \cup {"idle", "call", "checkpoint", "fail"}
      /\ f.call \in Nat /\ f.at \in 0 .. MaxStep
      /\ f.tokens \in Reports \cup {0}
  BY <1>1 DEF Frame
<1>5. f.at \in Nat
  BY <1>4, Constants
<1>6. DOMAIN f = {"pc", "writing", "copy", "at", "call", "tokens"}
  BY <1>1, Zenon DEF Frame
<1> QED BY <1>1, <1>2, <1>3, <1>4, <1>5, <1>6 DEF f

\* An execution moves and nothing else changes.
LEMMA MoveKeeps ==
    ASSUME IInv, NEW r \in Run, NEW g \in Generation(r), NEW new \in Frame, Goto(r, g, new),
           UNCHANGED <<ledger, step, outcome, issued, generation, live>>,
           Sane(ledger, r, new),
           new.call <= issued[r],
           Authorised(r, g) /\ new.pc = "reserve" /\ new.call # 0 =>
              CallOp(r, new) \notin ledger.operations,
           Authorised(r, g) /\ Reporting(ledger, r, new) => Reporting(ledger, r, frame[r][g])
    PROVE  IInv'
<1>1. TypeOK /\ WorkIsPaid /\ FailureIsRecorded
  BY DEF IInv
<1>2. /\ step' \in [Run -> 0 .. MaxStep] /\ outcome' \in [Run -> {"RUNNING", "FAILED"}]
      /\ issued' \in [Run -> Nat]
      /\ \A x \in Run : issued[x] <= issued'[x]
  BY <1>1 DEF TypeOK
<1>3. live' \in [Run -> BOOLEAN]
  BY <1>1, Zenon DEF TypeOK
<1>4. \A x \in Run : live'[x] => live[x]
  BY Zenon
<1>5. \A x \in Run : \A n \in 0 .. step'[x] - 1 :
         [run |-> x, kind |-> "steps", no |-> n] \in ledger.operations
  BY <1>1 DEF WorkIsPaid
<1>6. \A x \in Run : outcome'[x] = "FAILED" => x \in ledger.hard
  BY <1>1 DEF FailureIsRecorded
<1> QED BY <1>2, <1>3, <1>4, <1>5, <1>6, LocalKeeps

\* An execution that is given up or has ended.
LEMMA IdleIsSane ==
    /\ Idle \in Frame /\ Idle.call = 0 /\ Idle.pc = "idle"
    /\ \A l, r : Sane(l, r, Idle)
<1>1. NoLedger \in Ledger
  BY NoLedgerIsLedger
<1>2. Idle \in Frame
  <2>1. 0 \in 0 .. MaxStep /\ 0 \in Nat
    BY Constants
  <2> QED BY <1>1, <2>1, Zenon DEF Idle, Start, Frame
<1>3. Idle.call = 0 /\ Idle.pc = "idle" /\ ~Idle.writing
  BY DEF Idle, Start
<1>4. \A l, r : Sane(l, r, Idle)
  BY <1>3 DEF Sane
<1> QED BY <1>2, <1>3, <1>4

\* A new start: registering, the next step, or the next call of the step.
LEMMA StartFields ==
    ASSUME NEW pc \in {"register", "step", "reserve"}, NEW at \in 0 .. MaxStep
    PROVE  LET new == Start(pc, at)
           IN new \in Frame /\ new.pc = pc /\ new.at = at /\ new.call = 0 /\ ~new.writing
<1>1. NoLedger \in Ledger
  BY NoLedgerIsLedger
<1>2. pc \in Mutating /\ 0 \in Nat
  BY DEF Mutating
<1>3. Start(pc, at) \in Frame
  BY <1>1, <1>2, Zenon DEF Start, Frame
<1>4. /\ Start(pc, at).pc = pc /\ Start(pc, at).at = at /\ Start(pc, at).call = 0
      /\ ~Start(pc, at).writing
  BY DEF Start
<1> QED BY <1>3, <1>4

\* load_budget_ledger and the preflight
LEMMA LoadLedgerKeeps ==
    ASSUME IInv, NEW r \in Run, NEW g \in Generation(r), LoadLedger(r, g)
    PROVE  IInv'
<1> DEFINE f == frame[r][g]
<1>1. /\ f \in Frame /\ Sane(ledger, r, f)
      /\ DOMAIN f = {"pc", "writing", "copy", "at", "call", "tokens"}
      /\ f.call <= issued[r]
      /\ Authorised(r, g) /\ f.pc = "reserve" /\ f.call # 0 =>
            CallOp(r, f) \notin ledger.operations
  BY FrameFacts
<1>2. /\ f.pc \in Mutating /\ ~f.writing /\ (f.pc = "reserve" => f.call # 0)
      /\ UNCHANGED <<ledger, step, outcome, issued, generation, live>>
  BY DEF LoadLedger
<1>3. ledger \in Ledger /\ ledger.version \in Nat
  BY DEF IInv, TypeOK, Ledger
<1>4. CASE Refuses(ledger, r, f)
  <2> DEFINE new == [f EXCEPT !.pc = "exceeded"]
  <2>1. Goto(r, g, new)
    BY <1>4 DEF LoadLedger
  <2> HIDE DEF f
  <2>2. new \in Frame
    BY <1>1, Zenon DEF Frame, Mutating
  <2>3. new.pc = "exceeded" /\ new.call = f.call /\ new.at = f.at /\ (new.writing <=> f.writing)
    BY <1>1
  <2> HIDE DEF new
  <2>4. f.pc # "register"
    BY <1>4 DEF Refuses
  <2>5. Sane(ledger, r, new)
    BY <1>1, <1>2, <2>3, <2>4 DEF Sane, Mutating
  <2> QED BY <1>1, <1>2, <2>1, <2>2, <2>3, <2>5, MoveKeeps DEF Reporting
<1>5. CASE ~Refuses(ledger, r, f)
  <2> DEFINE new == [f EXCEPT !.writing = TRUE, !.copy = ledger]
  <2>1. Goto(r, g, new)
    BY <1>5 DEF LoadLedger
  <2> HIDE DEF f
  <2>2. new \in Frame
    BY <1>1, <1>3, Zenon DEF Frame
  <2>3. /\ new.pc = f.pc /\ new.call = f.call /\ new.at = f.at
        /\ new.writing /\ new.copy = ledger
    BY <1>1
  <2> HIDE DEF new
  <2>4. StepOp(r, new) = StepOp(r, f) /\ CallOp(r, new) = CallOp(r, f)
    BY <2>3 DEF StepOp, CallOp
  <2>5. ~Refuses(ledger, r, new)
    BY <1>5, <2>3, <2>4 DEF Refuses
  <2>6. Sane(ledger, r, new)
    BY <1>1, <1>2, <1>3, <2>3, <2>4, <2>5 DEF Sane
  <2>7. Reporting(ledger, r, new) => Reporting(ledger, r, f)
    BY <2>3, <2>4 DEF Reporting
  <2> QED BY <1>1, <1>2, <2>1, <2>2, <2>3, <2>4, <2>6, <2>7, MoveKeeps DEF f
<1> QED BY <1>4, <1>5

\* save_budget_ledger: the save of a current copy, or a conflict
LEMMA SaveLedgerKeeps ==
    ASSUME IInv, NEW r \in Run, NEW g \in Generation(r), SaveLedger(r, g)
    PROVE  IInv'
<1> DEFINE f == frame[r][g]
<1>1. CASE Current(f.copy)
  <2>1. f.pc \in Mutating
    BY DEF SaveLedger
  <2> QED BY <1>1, <2>1, RegisterSaves, StepSaves, ReserveSaves, SettleSaves, ExceededSaves
          DEF Mutating
<1>2. CASE ~Current(f.copy)
  <2> DEFINE new == [f EXCEPT !.writing = FALSE, !.copy = NoLedger]
  <2>1. /\ f \in Frame /\ Sane(ledger, r, f)
        /\ DOMAIN f = {"pc", "writing", "copy", "at", "call", "tokens"}
        /\ f.call <= issued[r]
        /\ Authorised(r, g) /\ f.pc = "reserve" /\ f.call # 0 =>
              CallOp(r, f) \notin ledger.operations
    BY FrameFacts
  <2>2. /\ Goto(r, g, new)
        /\ UNCHANGED <<ledger, step, outcome, issued, generation, live>>
    BY <1>2 DEF SaveLedger
  <2> HIDE DEF f
  <2>3. new \in Frame
    BY <2>1, NoLedgerIsLedger, Zenon DEF Frame
  <2>4. new.pc = f.pc /\ new.call = f.call /\ new.at = f.at /\ ~new.writing
    BY <2>1
  <2> HIDE DEF new
  <2>5. StepOp(r, new) = StepOp(r, f) /\ CallOp(r, new) = CallOp(r, f)
    BY <2>4 DEF StepOp, CallOp
  <2>6. Sane(ledger, r, new)
    BY <2>1, <2>4, <2>5 DEF Sane
  <2>7. Reporting(ledger, r, new) => Reporting(ledger, r, f)
    BY <2>4, <2>5 DEF Reporting
  <2> QED BY <2>1, <2>2, <2>3, <2>4, <2>5, <2>6, <2>7, MoveKeeps DEF f
<1> QED BY <1>1, <1>2

\* OwnershipLost
LEMMA StopKeeps ==
    ASSUME IInv, NEW r \in Run, NEW g \in Generation(r), Stop(r, g)
    PROVE  IInv'
<1>1. Goto(r, g, Idle) /\ UNCHANGED <<ledger, step, outcome, issued, generation, live>>
  BY DEF Stop
<1>2. Idle \in Frame /\ Idle.call = 0 /\ Idle.pc = "idle" /\ Sane(ledger, r, Idle)
  BY IdleIsSane
<1>3. issued[r] \in Nat
  BY FrameFacts
<1> QED BY <1>1, <1>2, <1>3, MoveKeeps DEF Reporting

\* A new model operation.  Its number was never issued, so no operation has it.
LEMMA NameCallKeeps ==
    ASSUME IInv, NEW r \in Run, NEW g \in Generation(r), NameCall(r, g)
    PROVE  IInv'
<1> DEFINE f == frame[r][g]
           new == [f EXCEPT !.call = issued[r] + 1]
<1>1. /\ f \in Frame /\ Sane(ledger, r, f)
      /\ DOMAIN f = {"pc", "writing", "copy", "at", "call", "tokens"}
      /\ issued[r] \in Nat
  BY FrameFacts
<1>2. /\ f.pc = "reserve" /\ ~f.writing /\ issued' = [issued EXCEPT ![r] = @ + 1]
      /\ Goto(r, g, new)
      /\ UNCHANGED <<ledger, step, outcome, generation, live>>
  BY DEF NameCall
<1>3. TypeOK /\ WorkIsPaid /\ FailureIsRecorded /\ issued \in [Run -> Nat]
  BY DEF IInv, TypeOK
<1> HIDE DEF f
<1>4. new \in Frame
  <2>1. issued[r] + 1 \in Nat
    BY <1>1
  <2> QED BY <1>1, <2>1, Zenon DEF Frame
<1>5. new.pc = "reserve" /\ new.call = issued[r] + 1 /\ new.at = f.at /\ ~new.writing
  BY <1>1, <1>2
<1> HIDE DEF new
<1>6. StepOp(r, new) = StepOp(r, f)
  BY <1>5 DEF StepOp
<1>7. Sane(ledger, r, new)
  BY <1>1, <1>2, <1>5, <1>6 DEF Sane
<1>8. CallOp(r, new) \notin ledger.operations
  <2>1. \A o \in ledger.operations : o.kind = "model_calls" => o.no <= issued[o.run]
    BY DEF IInv, Fresh
  <2> QED BY <1>1, <1>5, <2>1 DEF CallOp
<1>9. /\ step' \in [Run -> 0 .. MaxStep] /\ outcome' \in [Run -> {"RUNNING", "FAILED"}]
      /\ issued' \in [Run -> Nat] /\ new.call <= issued'[r]
      /\ \A x \in Run : issued[x] <= issued'[x]
  <2>1. \A x \in Run : issued[x] \in Nat /\ issued'[x] = IF x = r THEN issued[r] + 1 ELSE issued[x]
    BY <1>2, <1>3
  <2>2. issued' \in [Run -> Nat]
    BY <1>2, <1>3
  <2> QED BY <1>2, <1>3, <1>5, <2>1, <2>2 DEF TypeOK
<1>10. live' \in [Run -> BOOLEAN]
  BY <1>2, <1>3, Zenon DEF TypeOK
<1>11. \A x \in Run : live'[x] => live[x]
  BY <1>2, Zenon
<1>12. \A x \in Run : \A n \in 0 .. step'[x] - 1 :
         [run |-> x, kind |-> "steps", no |-> n] \in ledger.operations
  BY <1>2, <1>3 DEF WorkIsPaid
<1>13. \A x \in Run : outcome'[x] = "FAILED" => x \in ledger.hard
  BY <1>2, <1>3 DEF FailureIsRecorded
<1>14. ~Reporting(ledger, r, new)
  BY <1>5 DEF Reporting
<1> QED BY <1>2, <1>4, <1>7, <1>8, <1>9, <1>10, <1>11, <1>12, <1>13, <1>14, LocalKeeps

\* The provider's answer
LEMMA ModelCallKeeps ==
    ASSUME IInv, NEW r \in Run, NEW g \in Generation(r), ModelCall(r, g)
    PROVE  IInv'
<1> DEFINE f == frame[r][g]
<1>1. /\ f \in Frame /\ Sane(ledger, r, f)
      /\ DOMAIN f = {"pc", "writing", "copy", "at", "call", "tokens"}
      /\ f.call <= issued[r]
  BY FrameFacts
<1>2. PICK n \in Reports : Goto(r, g, [f EXCEPT !.pc = "settle", !.tokens = n])
  BY DEF ModelCall
<1>3. f.pc = "call" /\ UNCHANGED <<ledger, step, outcome, issued, generation, live>>
  BY DEF ModelCall
<1> DEFINE new == [f EXCEPT !.pc = "settle", !.tokens = n]
<1>4. Goto(r, g, new)
  BY <1>2
<1> HIDE DEF f
<1>5. new \in Frame
  BY <1>1, Zenon DEF Frame, Mutating
<1>6. new.pc = "settle" /\ new.call = f.call /\ new.at = f.at /\ (new.writing <=> f.writing)
  BY <1>1
<1> HIDE DEF new
<1>7. StepOp(r, new) = StepOp(r, f) /\ CallOp(r, new) = CallOp(r, f)
  BY <1>6 DEF StepOp, CallOp
<1>8. Sane(ledger, r, new)
  <2>1. ~f.writing
    BY <1>1, <1>3 DEF Sane, Mutating
  <2> QED BY <1>1, <1>3, <1>6, <1>7, <2>1 DEF Sane
<1>9. Reporting(ledger, r, new) => Reporting(ledger, r, f)
  BY <1>3, <1>7 DEF Reporting
<1> QED BY <1>1, <1>3, <1>4, <1>5, <1>6, <1>8, <1>9, MoveKeeps DEF f

\* A retry after a failed request: another call of the same step
LEMMA RetryCallKeeps ==
    ASSUME IInv, NEW r \in Run, NEW g \in Generation(r), RetryCall(r, g)
    PROVE  IInv'
<1> DEFINE f == frame[r][g]
           new == Start("reserve", f.at)
<1>1. f \in Frame /\ Sane(ledger, r, f) /\ f.at \in 0 .. MaxStep /\ issued[r] \in Nat
  BY FrameFacts
<1>2. /\ f.pc = "checkpoint" /\ Goto(r, g, new)
      /\ UNCHANGED <<ledger, step, outcome, issued, generation, live>>
  BY DEF RetryCall
<1> HIDE DEF f
<1>3. new \in Frame /\ new.pc = "reserve" /\ new.at = f.at /\ new.call = 0 /\ ~new.writing
  BY <1>1, StartFields
<1> HIDE DEF new
<1>4. StepOp(r, new) = StepOp(r, f)
  BY <1>3 DEF StepOp
<1>5. Sane(ledger, r, new)
  BY <1>1, <1>2, <1>3, <1>4 DEF Sane
<1> QED BY <1>1, <1>2, <1>3, <1>5, MoveKeeps DEF Reporting

\* The step at hand is durable; it was paid for.
LEMMA CheckpointKeeps ==
    ASSUME IInv, NEW r \in Run, NEW g \in Generation(r), Checkpoint(r, g)
    PROVE  IInv'
<1> DEFINE f == frame[r][g]
           new == Start("step", f.at + 1)
<1>1. /\ f \in Frame /\ Sane(ledger, r, f) /\ f.at \in 0 .. MaxStep /\ f.at \in Nat
      /\ issued[r] \in Nat
  BY FrameFacts
<1>2. /\ f.pc = "checkpoint" /\ f.at < MaxStep /\ Goto(r, g, new)
      /\ step' = [step EXCEPT ![r] = f.at + 1]
      /\ UNCHANGED <<ledger, outcome, issued, generation, live>>
  BY DEF Checkpoint
<1>3. TypeOK /\ WorkIsPaid /\ FailureIsRecorded
  BY DEF IInv
<1> HIDE DEF f
<1>4. f.at + 1 \in 0 .. MaxStep
  BY <1>1, <1>2, Constants
<1>5. new \in Frame /\ new.pc = "step" /\ new.at = f.at + 1 /\ new.call = 0 /\ ~new.writing
  BY <1>4, StartFields
<1> HIDE DEF new
<1>6. \A n \in 0 .. f.at : [run |-> r, kind |-> "steps", no |-> n] \in ledger.operations
  <2>1. \A n \in 0 .. f.at - 1 : [run |-> r, kind |-> "steps", no |-> n] \in ledger.operations
    BY <1>1, <1>2 DEF Sane
  <2>2. [run |-> r, kind |-> "steps", no |-> f.at] \in ledger.operations
    BY <1>1, <1>2 DEF Sane, StepOp
  <2>3. \A n \in 0 .. f.at : n \in 0 .. f.at - 1 \/ n = f.at
    BY <1>1
  <2> QED BY <2>1, <2>2, <2>3
<1>7. Sane(ledger, r, new)
  <2>1. r \in ledger.runs
    BY <1>1, <1>2 DEF Sane
  <2>2. \A n \in 0 .. new.at - 1 : [run |-> r, kind |-> "steps", no |-> n] \in ledger.operations
    BY <1>1, <1>5, <1>6
  <2> QED BY <1>5, <2>1, <2>2 DEF Sane
<1>8. /\ step' \in [Run -> 0 .. MaxStep] /\ outcome' \in [Run -> {"RUNNING", "FAILED"}]
      /\ issued' \in [Run -> Nat] /\ new.call <= issued'[r]
      /\ \A x \in Run : issued[x] <= issued'[x]
  BY <1>1, <1>2, <1>3, <1>4, <1>5 DEF TypeOK
<1>9. live' \in [Run -> BOOLEAN]
  BY <1>2, <1>3, Zenon DEF TypeOK
<1>10. \A x \in Run : live'[x] => live[x]
  BY <1>2, Zenon
<1>11. \A x \in Run : \A n \in 0 .. step'[x] - 1 :
          [run |-> x, kind |-> "steps", no |-> n] \in ledger.operations
  <2> TAKE x \in Run
  <2>1. CASE x = r
    <3>1. step'[x] - 1 = f.at
      BY <1>1, <1>2, <1>3, <2>1 DEF TypeOK
    <3> QED BY <1>6, <2>1, <3>1
  <2>2. CASE x # r
    <3>1. step'[x] = step[x]
      BY <1>2, <1>3, <2>2 DEF TypeOK
    <3> QED BY <1>3, <3>1 DEF WorkIsPaid
  <2> QED BY <2>1, <2>2
<1>12. \A x \in Run : outcome'[x] = "FAILED" => x \in ledger.hard
  BY <1>2, <1>3 DEF FailureIsRecorded
<1>13. ~Reporting(ledger, r, new)
  BY <1>5 DEF Reporting
<1> QED BY <1>2, <1>5, <1>7, <1>8, <1>9, <1>10, <1>11, <1>12, <1>13, LocalKeeps

\* _fail: the hard limit was recorded before.
LEMMA FailKeeps ==
    ASSUME IInv, NEW r \in Run, NEW g \in Generation(r), Fail(r, g)
    PROVE  IInv'
<1>1. /\ frame[r][g].pc = "fail" /\ Goto(r, g, Idle)
      /\ outcome' = [outcome EXCEPT ![r] = "FAILED"]
      /\ live' = [live EXCEPT ![r] = FALSE]
      /\ UNCHANGED <<ledger, step, issued, generation>>
  BY DEF Fail
<1>2. Idle \in Frame /\ Idle.call = 0 /\ Idle.pc = "idle" /\ Sane(ledger, r, Idle)
  BY IdleIsSane
<1>3. issued[r] \in Nat /\ Sane(ledger, r, frame[r][g])
  BY FrameFacts
<1>4. TypeOK /\ WorkIsPaid /\ FailureIsRecorded
  BY DEF IInv
<1>5. /\ step' \in [Run -> 0 .. MaxStep] /\ outcome' \in [Run -> {"RUNNING", "FAILED"}]
      /\ issued' \in [Run -> Nat] /\ Idle.call <= issued'[r]
      /\ \A x \in Run : issued[x] <= issued'[x]
  BY <1>1, <1>2, <1>3, <1>4 DEF TypeOK
<1>6. live' \in [Run -> BOOLEAN]
  BY <1>1, <1>4, Zenon DEF TypeOK
<1>7. \A x \in Run : live'[x] => live[x]
  <2>1. live \in [Run -> BOOLEAN]
    BY <1>4, Zenon DEF TypeOK
  <2>2. \A x \in Run : live'[x] = IF x = r THEN FALSE ELSE live[x]
    BY <1>1, <2>1, Zenon
  <2> QED BY <2>2, Zenon
<1>8. \A x \in Run : \A n \in 0 .. step'[x] - 1 :
         [run |-> x, kind |-> "steps", no |-> n] \in ledger.operations
  BY <1>1, <1>4 DEF WorkIsPaid
<1>9. \A x \in Run : outcome'[x] = "FAILED" => x \in ledger.hard
  <2>1. r \in ledger.hard
    BY <1>1, <1>3 DEF Sane
  <2>2. \A x \in Run : outcome'[x] = IF x = r THEN "FAILED" ELSE outcome[x]
    BY <1>1, <1>4 DEF TypeOK
  <2> QED BY <1>4, <2>1, <2>2 DEF FailureIsRecorded
<1> QED BY <1>1, <1>2, <1>5, <1>6, <1>7, <1>8, <1>9, LocalKeeps DEF Reporting

\* The ownership is lost; a call of it no longer reports.
LEMMA LoseKeeps ==
    ASSUME IInv, NEW r \in Run, Lose(r)
    PROVE  IInv'
<1>0. /\ TypeOK /\ LedgerInv(ledger) /\ WorkIsPaid /\ FailureIsRecorded /\ Executions /\ Fresh
  BY DEF IInv
<1>1. /\ live' = [live EXCEPT ![r] = FALSE]
      /\ UNCHANGED <<ledger, step, outcome, issued, generation, frame>>
  BY DEF Lose
<1>2. live \in [Run -> BOOLEAN]
  BY <1>0, Zenon DEF TypeOK
<1>3. live' \in [Run -> BOOLEAN] /\ \A x \in Run : live'[x] => live[x]
  <2>1. live' \in [Run -> BOOLEAN]
    BY <1>1, <1>2, Zenon
  <2>2. \A x \in Run : live'[x] = IF x = r THEN FALSE ELSE live[x]
    BY <1>1, <1>2, Zenon
  <2> QED BY <2>1, <2>2, Zenon
<1>4. \A x \in Run : \A h : Authorised(x, h)' => Authorised(x, h)
  BY <1>1, <1>3, Zenon DEF Authorised
<1>5. TypeOK'
  BY <1>0, <1>1, <1>3, Zenon DEF TypeOK, Generation
<1>6. WorkIsPaid' /\ FailureIsRecorded' /\ LedgerInv(ledger')
  BY <1>0, <1>1 DEF WorkIsPaid, FailureIsRecorded, CallOp, Generation
<1>7. Executions'
  BY <1>0, <1>1, Zenon DEF Executions, FrameType, Generation
<1>8. Fresh'
  BY <1>0, <1>1, <1>4, Zenon DEF Fresh, Generation
<1>9. Quiet \subseteq Quiet'
  <2>1. ASSUME NEW x \in Run, Outstanding(x)'
        PROVE  Outstanding(x)
    BY <1>1, <1>4, <2>1, Zenon DEF Outstanding, Generation
  <2>2. Quiet' = {x \in Run : ~Outstanding(x)'}
    BY DEF Quiet
  <2> QED BY <2>1, <2>2 DEF Quiet
<1>10. TokenBound'
  BY <1>1, <1>9, BoundStands
<1> QED BY <1>5, <1>6, <1>7, <1>8, <1>10, Zenon
        DEF IInv, LedgerInv, Counted, Limited, Ledger, Units, Tree, Of, OfTree, Operation

\* A new ownership begins at the step that is durable.
LEMMA ClaimKeeps ==
    ASSUME IInv, NEW r \in Run, Claim(r)
    PROVE  IInv'
<1> DEFINE g == generation[r] + 1
           new == Start("register", step[r])
<1>0. /\ TypeOK /\ LedgerInv(ledger) /\ WorkIsPaid /\ FailureIsRecorded /\ Executions /\ Fresh
      /\ FrameType /\ ledger.version \in Nat
      /\ generation \in [Run -> Nat] /\ step \in [Run -> 0 .. MaxStep] /\ issued \in [Run -> Nat]
  BY DEF IInv, TypeOK, Ledger, Executions
<1>1. /\ ~live[r] /\ generation[r] < MaxFence[r]
      /\ generation' = [generation EXCEPT ![r] = @ + 1]
      /\ live' = [live EXCEPT ![r] = TRUE]
      /\ Goto(r, g, new)
      /\ UNCHANGED <<ledger, step, outcome, issued>>
  BY DEF Claim
<1>2. g \in Generation(r) /\ g \in Nat
  <2>1. generation[r] \in Nat /\ MaxFence[r] \in Nat
    BY <1>0, Constants
  <2> QED BY <1>1, <2>1 DEF Generation
<1>3. new \in Frame /\ new.pc = "register" /\ new.at = step[r] /\ new.call = 0 /\ ~new.writing
  <2>1. step[r] \in 0 .. MaxStep
    BY <1>0
  <2> QED BY <2>1, StartFields
<1>4. \A x \in Run : generation'[x] = IF x = r THEN g ELSE generation[x]
  BY <1>0, <1>1
<1>5. generation' \in [Run -> Nat]
  BY <1>0, <1>1
<1> HIDE DEF new, g
<1>6. live \in [Run -> BOOLEAN] /\ live' \in [Run -> BOOLEAN]
  <2>1. live \in [Run -> BOOLEAN]
    BY <1>0, Zenon DEF TypeOK
  <2> QED BY <1>1, <2>1, Zenon
<1>7. \A x \in Run : live'[x] = IF x = r THEN TRUE ELSE live[x]
  BY <1>1, <1>6, Zenon
<1>8. Sane(ledger, r, new)
  BY <1>0, <1>3 DEF Sane, WorkIsPaid
<1>9. /\ DOMAIN frame' = Run
      /\ \A x \in Run : frame'[x] \in [Generation(x) -> Frame]
      /\ \A x \in Run : \A h \in Generation(x) :
            frame'[x][h] = IF x = r /\ h = g THEN new ELSE frame[x][h]
  BY <1>0, <1>1, <1>2, <1>3, OneFrameMoves
<1>10. Executions'
  <2>1. Grown(ledger, ledger') /\ ledger' = ledger
    BY <1>1 DEF Grown
  <2>2. Sane(ledger', r, new)
    BY <1>1, <1>8
  <2> QED BY <1>0, <1>1, <1>2, <1>3, <2>1, <2>2, ExecutionsMove
<1>11. \A h : Authorised(r, h)' => h = g
  <2>1. \A h : Authorised(r, h)' => generation'[r] = h
    BY Zenon DEF Authorised
  <2> QED BY <1>4, <2>1
<1>12. \A x \in Run : \A h : x # r => (Authorised(x, h)' <=> Authorised(x, h))
  <2> TAKE x \in Run
  <2> TAKE h
  <2> SUFFICES ASSUME x # r PROVE Authorised(x, h)' <=> Authorised(x, h)
    OBVIOUS
  <2>1. generation'[x] = generation[x]
    BY <1>4
  <2>2. live'[x] = live[x]
    BY <1>7, Zenon
  <2> QED BY <2>1, <2>2, Zenon DEF Authorised
<1>13. TypeOK'
  <2>1. /\ ledger' \in Ledger /\ step' \in [Run -> 0 .. MaxStep]
        /\ outcome' \in [Run -> {"RUNNING", "FAILED"}]
        /\ issued' \in [Run -> Nat]
    BY <1>0, <1>1 DEF TypeOK
  <2> QED BY <1>5, <1>6, <1>9, <2>1, Zenon DEF TypeOK, Generation, Frame, Ledger, Operation
<1>14. WorkIsPaid'
  <2>1. \A x \in Run : \A n \in 0 .. step'[x] - 1 :
           [run |-> x, kind |-> "steps", no |-> n] \in ledger'.operations
    BY <1>0, <1>1 DEF WorkIsPaid
  <2> QED BY <1>10, <2>1, WorkStaysPaid
<1>15. FailureIsRecorded' /\ LedgerInv(ledger')
  BY <1>0, <1>1 DEF FailureIsRecorded
<1>16. Fresh'
  <2>1. ASSUME NEW x \in Run, NEW h \in Generation(x)
        PROVE  /\ frame'[x][h].call <= issued[x]
               /\ Authorised(x, h)' /\ frame'[x][h].pc = "reserve" /\ frame'[x][h].call # 0 =>
                     CallOp(x, frame'[x][h]) \notin ledger.operations
    <3>1. CASE x = r /\ h = g
      <4>1. issued[r] \in Nat
        BY <1>0
      <4> QED BY <1>3, <1>9, <3>1, <4>1
    <3>2. CASE ~(x = r /\ h = g)
      <4>1. frame'[x][h] = frame[x][h]
        BY <1>9, <3>2
      <4>2. x = r => ~Authorised(x, h)'
        BY <1>11, <3>2
      <4>3. x # r => (Authorised(x, h)' <=> Authorised(x, h))
        BY <1>12
      <4> QED BY <1>0, <4>1, <4>2, <4>3 DEF Fresh
    <3> QED BY <3>1, <3>2
  <2>2. \A o \in ledger'.operations : o.kind = "model_calls" => o.no <= issued'[o.run]
    BY <1>0, <1>1 DEF Fresh
  <2> QED BY <1>1, <2>1, <2>2 DEF Fresh, Generation, CallOp
<1>17. Quiet \subseteq Quiet'
  <2>1. ASSUME NEW x \in Run, Outstanding(x)'
        PROVE  Outstanding(x)
    <3>1. PICK h \in Generation(x) : Authorised(x, h)' /\ Reporting(ledger', x, frame'[x][h])
      BY <2>1, Zenon DEF Outstanding, Reporting, CallOp, Generation
    <3>2. x # r
      BY <1>3, <1>9, <1>11, <3>1 DEF Reporting
    <3>3. Authorised(x, h) /\ frame'[x][h] = frame[x][h]
      BY <1>9, <1>12, <3>1, <3>2
    <3> QED BY <1>1, <3>1, <3>3 DEF Outstanding
  <2>2. Quiet' = {x \in Run : ~Outstanding(x)'}
    BY DEF Quiet
  <2> QED BY <2>1, <2>2 DEF Quiet
<1>18. TokenBound'
  BY <1>1, <1>17, BoundStands
<1> QED BY <1>10, <1>13, <1>14, <1>15, <1>16, <1>18, Zenon
        DEF IInv, LedgerInv, Counted, Limited, Ledger, Units, Tree, Of, OfTree, Operation

(***************************************************************************)
(* The invariant.                                                          *)
(***************************************************************************)

\* Nothing is used of a ledger that no Run has registered in.
LEMMA NoLedgerIsExact ==
    /\ LedgerInv(NoLedger)
    /\ \A r \in Run : Usage(NoLedger, r, "tokens") = 0
    /\ TreeUsage(NoLedger, "tokens") = 0
<1> DEFINE l == NoLedger
<1>1. /\ l \in Ledger /\ l.runs = {} /\ l.operations = {} /\ l.reserved = {}
      /\ \A r \in Run, d \in Dimension : l.used[r][d] = 0
  BY NoLedgerIsLedger DEF NoLedger
<1> HIDE DEF l
<1>2. IsFiniteSet({}) /\ Cardinality({}) = 0
  BY FS_EmptySet
<1>3. \A d : Units(l, d) = {}
  BY <1>1 DEF Units
<1>4. \A d : Tree(l, d) = 0
  BY <1>2, <1>3 DEF Tree
<1>5. /\ \A r, d : Of(l, r, d) = {}
      /\ \A d : OfTree(l, d) = {}
  BY <1>1 DEF Of, OfTree
<1>6. Counted(l)
  BY <1>1, <1>2, <1>3, <1>4, <1>5, Constants DEF Counted
<1>7. Limited(l)
  BY <1>1, <1>4, Constants DEF Limited
<1>8. \A R : {o \in l.reserved : o.run \in R} = {}
  BY <1>1
<1>9. \A R : Held(l, "tokens", R) = 0
  <2>1. Estimate * 0 = 0
    BY Constants
  <2> QED BY <1>2, <1>8, <2>1 DEF Held
<1>10. \A r \in Run : Usage(l, r, "tokens") = 0
  BY <1>1, <1>9, Constants DEF Usage
<1>11. TreeUsage(l, "tokens") = 0
  BY <1>4, <1>9 DEF TreeUsage
<1> QED BY <1>1, <1>6, <1>7, <1>10, <1>11 DEF LedgerInv, l

\* The invariant holds before the first Run is claimed.
LEMMA InitEstablishes == Init => IInv
<1> SUFFICES ASSUME Init PROVE IInv
  OBVIOUS
<1>1. /\ ledger = NoLedger /\ step = [r \in Run |-> 0]
      /\ outcome = [r \in Run |-> "RUNNING"] /\ issued = [r \in Run |-> 0]
      /\ generation = [r \in Run |-> 0]
      /\ frame = [r \in Run |-> [g \in Generation(r) |-> Idle]]
  BY DEF Init
<1>2. LedgerInv(ledger) /\ ledger \in Ledger
  BY <1>1, NoLedgerIsExact DEF LedgerInv
<1>3. /\ Idle \in Frame /\ Idle.call = 0 /\ Idle.pc = "idle"
      /\ \A l, r : Sane(l, r, Idle)
  BY IdleIsSane
<1>4. \A r \in Run : \A g \in Generation(r) : frame[r][g] = Idle
  BY <1>1
<1>5. FrameType
  BY <1>1, <1>3 DEF FrameType
<1>6. TypeOK
  <2>1. live \in [Run -> BOOLEAN]
    BY Zenon DEF Init
  <2>2. /\ step \in [Run -> 0 .. MaxStep] /\ outcome \in [Run -> {"RUNNING", "FAILED"}]
        /\ issued \in [Run -> Nat] /\ generation \in [Run -> Nat]
    BY <1>1, Constants
  <2>3. \A r \in Run : frame[r] \in [Generation(r) -> Frame]
    BY <1>5 DEF FrameType
  <2> QED BY <1>2, <2>1, <2>2, <2>3, Zenon DEF TypeOK
<1>7. WorkIsPaid
  BY <1>1, <1>3, <1>4 DEF WorkIsPaid
<1>8. FailureIsRecorded
  BY <1>1 DEF FailureIsRecorded
<1>9. Executions
  BY <1>3, <1>4, <1>5 DEF Executions
<1>10. Fresh
  <2>1. ledger.operations = {}
    BY <1>1 DEF NoLedger
  <2> QED BY <1>1, <1>3, <1>4, <2>1 DEF Fresh
<1>11. TokenBound
  <2>1. /\ \A r \in Run : Usage(ledger, r, "tokens") = 0
        /\ TreeUsage(ledger, "tokens") = 0
    BY <1>1, NoLedgerIsExact
  <2>2. Beyond * Cardinality(Quiet) \in Nat
    <3>1. Quiet \subseteq Run
      BY DEF Quiet
    <3> QED BY <3>1, FS_Subset, FS_CardinalityType, TimesNat, Constants
  <2>3. Beyond \in Nat /\ Limit[Root]["tokens"] \in Nat
    BY Constants
  <2>4. \A r \in Run : Limit[r]["tokens"] \in Nat
    BY Constants
  <2> QED BY <2>1, <2>2, <2>3, <2>4 DEF TokenBound, Bounded
<1> QED BY <1>2, <1>6, <1>7, <1>8, <1>9, <1>10, <1>11 DEF IInv

\* Every step of every execution keeps the invariant.
LEMMA NextKeeps == IInv /\ [Next]_vars => IInv'
<1> SUFFICES ASSUME IInv, [Next]_vars PROVE IInv'
  OBVIOUS
<1>1. CASE Next
  <2>1. PICK r \in Run :
           \/ Claim(r)
           \/ Lose(r)
           \/ \E g \in Generation(r) :
               \/ LoadLedger(r, g)
               \/ SaveLedger(r, g)
               \/ Stop(r, g)
               \/ NameCall(r, g)
               \/ ModelCall(r, g)
               \/ Checkpoint(r, g)
               \/ RetryCall(r, g)
               \/ Fail(r, g)
    BY <1>1 DEF Next
  <2> QED BY <2>1, ClaimKeeps, LoseKeeps, LoadLedgerKeeps, SaveLedgerKeeps, StopKeeps,
             NameCallKeeps, ModelCallKeeps, CheckpointKeeps, RetryCallKeeps, FailKeeps
<1>2. CASE UNCHANGED vars
  <2>1. UNCHANGED <<ledger, step, outcome, issued, generation, live, frame>>
    BY <1>2 DEF vars
  <2>2. Executions'
    BY <2>1, Zenon DEF IInv, Executions, FrameType, Generation
  <2>3. TypeOK'
    BY <2>1, Zenon DEF IInv, TypeOK, Generation
  <2>4. LedgerInv(ledger')
    BY <2>1 DEF IInv
  <2>5. WorkIsPaid' /\ FailureIsRecorded'
    BY <2>1 DEF IInv, WorkIsPaid, FailureIsRecorded, CallOp, Generation
  <2>6. Fresh'
    BY <2>1, Zenon DEF IInv, Fresh, Authorised, CallOp, Generation
  <2>7. Quiet' = Quiet
    BY <2>1, Zenon DEF Quiet, Outstanding, Authorised, Reporting, CallOp, Generation
  <2>8. TokenBound'
    BY <2>1, <2>7, BoundStands
  <2> QED BY <2>2, <2>3, <2>4, <2>5, <2>6, <2>8, Zenon
          DEF IInv, LedgerInv, Counted, Limited, Ledger, Units, Tree, Of, OfTree, Operation
<1> QED BY <1>1, <1>2

\* The inductive invariant of the budget.
THEOREM Invariance == Spec => []IInv
<1>1. Init => IInv
  BY InitEstablishes
<1>2. IInv /\ [Next]_vars => IInv'
  BY NextKeeps
<1> QED BY <1>1, <1>2, PTL DEF Spec

(***************************************************************************)
(* The limits.                                                             *)
(***************************************************************************)

\* The limits follow: every call underway reports at most Beyond more than its estimate.
LEMMA LimitsFollow == IInv => LimitsHold
<1> SUFFICES ASSUME IInv PROVE LimitsHold
  OBVIOUS
<1>1. LedgerInv(ledger) /\ Counted(ledger) /\ Limited(ledger) /\ ledger \in Ledger
      /\ Bounded(ledger, Quiet)
  BY DEF IInv, LedgerInv, TokenBound
<1>2. RunLimitsHold /\ TreeLimitsHold
  BY <1>1 DEF Limited, RunLimitsHold, TreeLimitsHold
<1>3. Beyond \in Nat /\ \A r \in Run : Limit[r]["tokens"] \in Nat
  BY Constants
<1>4. ASSUME NEW r \in Run
      PROVE  ledger.used[r]["tokens"] + ReservedTokens({r}) <= Limit[r]["tokens"] + Beyond
  <2>1. Usage(ledger, r, "tokens") = ledger.used[r]["tokens"] + ReservedTokens({r})
    BY DEF Usage, Held, ReservedTokens
  <2>2. /\ Usage(ledger, r, "tokens") <= Limit[r]["tokens"] + (IF r \in Quiet THEN Beyond ELSE 0)
        /\ Usage(ledger, r, "tokens") \in Nat
    BY <1>1, UsageFacts DEF Bounded
  <2>3. Limit[r]["tokens"] \in Nat
    BY <1>3
  <2> QED BY <1>3, <2>1, <2>2, <2>3
<1>5. Tree(ledger, "tokens") + ReservedTokens(Run)
         <= Limit[Root]["tokens"] + Cardinality(Run) * Beyond
  <2>1. {o \in ledger.reserved : o.run \in Run} = ledger.reserved
    BY <1>1 DEF Ledger, Operation
  <2>2. ReservedTokens(Run) = Estimate * Cardinality(ledger.reserved)
    BY <2>1 DEF ReservedTokens
  <2>3. /\ TreeUsage(ledger, "tokens") = Tree(ledger, "tokens") + ReservedTokens(Run)
        /\ TreeUsage(ledger, "tokens") \in Nat
    BY <1>1, <2>2, UsageFacts
  <2>4. TreeUsage(ledger, "tokens") <= Limit[Root]["tokens"] + Beyond * Cardinality(Quiet)
    BY <1>1 DEF Bounded
  <2>5. /\ Cardinality(Quiet) \in Nat /\ Cardinality(Run) \in Nat
        /\ Cardinality(Quiet) <= Cardinality(Run)
    <3>1. Quiet \subseteq Run /\ IsFiniteSet(Run)
      BY Constants DEF Quiet
    <3>2. IsFiniteSet(Quiet) /\ Cardinality(Quiet) <= Cardinality(Run)
      BY <3>1, FS_Subset
    <3> QED BY <3>1, <3>2, FS_CardinalityType
  <2>6. Beyond * Cardinality(Quiet) <= Beyond * Cardinality(Run)
    BY <1>3, <2>5, TimesMonotonic
  <2>7. /\ Beyond * Cardinality(Quiet) \in Nat /\ Beyond * Cardinality(Run) \in Nat
        /\ Beyond * Cardinality(Run) = Cardinality(Run) * Beyond
    BY <1>3, <2>5, TimesNat
  <2>8. Limit[Root]["tokens"] \in Nat
    BY Constants
  <2> QED BY <2>3, <2>4, <2>6, <2>7, <2>8
<1>6. OverrunIsBounded
  BY <1>4, <1>5 DEF OverrunIsBounded, Beyond
<1> QED BY <1>2, <1>6 DEF LimitsHold

\* No Run takes more steps or model calls than its limit, no tree more than its root's, and
\* tokens are overrun only by what the calls underway, one per Run, report beyond their
\* estimates (_preflight, _mutate, complete_model_call).
THEOREM LimitsAlwaysHold == Spec => []LimitsHold
BY Invariance, LimitsFollow, PTL

\* The ledger counts each operation once, has all work that was begun, and each hard limit
\* that ended a Run (_consume_discrete, record_hard_limit).
THEOREM LedgerIsAlwaysExact == Spec => []LedgerIsExact
<1>1. IInv => LedgerIsExact
  BY DEF IInv, LedgerInv, Counted, LedgerIsExact, EachOperationCountsOnce, Charges, Of
<1> QED BY <1>1, Invariance, PTL

(***************************************************************************)
(* The refinement.                                                         *)
(***************************************************************************)

\* The sizes that AtomicBudget speaks of are those of this module.
LEMMA SameCardinality == ASSUME NEW S PROVE Atomic!Cardinality(S) = Cardinality(S)
BY DEF Cardinality, Atomic!Cardinality

\* A new operation that fits is a charge of the atomic budget.
LEMMA ChargesAtomically ==
    ASSUME LedgerInv(ledger), NEW o \in Operation, o \notin ledger.operations,
           Fits(ledger, o.run, o.kind, 1),
           ledger'.operations = ledger.operations \cup {o}
    PROVE  Atomic!Next
<1>1. ledger \in Ledger /\ Counted(ledger) /\ o.run \in Run /\ o.kind \in Discrete
  BY DEF LedgerInv, Operation
<1>2. Tree(ledger, o.kind) \in Nat /\ ledger.used[o.run][o.kind] \in Nat
      /\ Limit[o.run][o.kind] \in Nat /\ Limit[Root][o.kind] \in Nat
  BY <1>1, TreeType, Constants DEF Ledger
<1>3. /\ ledger.used[o.run][o.kind] + 1 <= Limit[o.run][o.kind]
      /\ Tree(ledger, o.kind) + 1 <= Limit[Root][o.kind]
  BY <1>1, <1>2, FitsDiscrete
<1>4. /\ Atomic!Cardinality(Atomic!Charges(o.run, o.kind)) = ledger.used[o.run][o.kind]
      /\ Atomic!Cardinality(Atomic!TreeCharges(o.kind)) = Tree(ledger, o.kind)
  <2>1. /\ Cardinality(Atomic!Charges(o.run, o.kind)) = ledger.used[o.run][o.kind]
        /\ Cardinality(Atomic!TreeCharges(o.kind)) = Tree(ledger, o.kind)
    BY <1>1 DEF Counted, Of, OfTree, Atomic!Charges, Atomic!TreeCharges
  <2> QED BY <2>1, SameCardinality
<1>5. Atomic!Charge(o)
  BY <1>2, <1>3, <1>4 DEF Atomic!Charge
<1> QED BY <1>5 DEF Atomic!Next

\* A mutation charges at most the operation at hand.
LEMMA MutatedOperations ==
    ASSUME NEW l, LedgerInv(l), NEW r \in Run, NEW f \in Frame, f.pc \in Mutating,
           r \in l.runs \/ f.pc = "register",
           StepOp(r, f) \in Operation, CallOp(r, f) \in Operation
    PROVE  LET m == Mutated(l, r, f)
           IN /\ m \in Ledger
              /\ \/ m.operations = l.operations
                 \/ /\ f.pc = "step" /\ StepOp(r, f) \notin l.operations
                    /\ m.operations = l.operations \cup {StepOp(r, f)}
                 \/ /\ f.pc = "reserve" /\ CallOp(r, f) \notin l.operations
                    /\ m.operations = l.operations \cup {CallOp(r, f)}
<1> DEFINE m == Mutated(l, r, f)
<1>0. l \in Ledger
  BY DEF LedgerInv
<1>1. CASE f.pc = "register"
  <2>1. m = Register(l, r)
    BY <1>1 DEF Mutated
  <2>2. Register(l, r) \in Ledger
    BY RegisterMutates DEF Mutates, LedgerInv
  <2>3. Register(l, r).operations = l.operations
    BY <1>0 DEF Register, Ledger
  <2> QED BY <2>1, <2>2, <2>3
<1>2. CASE f.pc = "exceeded"
  <2>1. m = MarkHard(l, r)
    BY <1>2 DEF Mutated
  <2>2. MarkHard(l, r) \in Ledger
    BY MarkHardMutates DEF Mutates, LedgerInv
  <2>3. MarkHard(l, r).operations = l.operations
    BY <1>0 DEF MarkHard, Ledger
  <2> QED BY <2>1, <2>2, <2>3
<1>3. CASE f.pc = "step"
  <2>1. m = Charge(l, StepOp(r, f))
    BY <1>3 DEF Mutated
  <2>2. StepOp(r, f) \in l.operations => Charge(l, StepOp(r, f)) = l
    BY DEF Charge
  <2>3. StepOp(r, f) \notin l.operations =>
           /\ Charge(l, StepOp(r, f)) \in Ledger
           /\ Charge(l, StepOp(r, f)).operations = l.operations \cup {StepOp(r, f)}
    BY <1>0, ChargeFields
  <2> QED BY <1>0, <1>3, <2>1, <2>2, <2>3
<1>4. CASE f.pc = "reserve"
  <2> DEFINE o == CallOp(r, f)
             c == Charge(l, o)
  <2>1. m = Reserve(l, o)
    BY <1>4 DEF Mutated
  <2>2. CASE o \in l.operations
    <3>1. m = l
      BY <2>1, <2>2 DEF Reserve
    <3> QED BY <1>0, <3>1
  <2>3. CASE o \notin l.operations
    <3>1. c \in Ledger /\ c.operations = l.operations \cup {o}
      BY <1>0, <2>3, ChargeFields
    <3>2. m = [c EXCEPT !.reserved = c.reserved \cup {o}]
      BY <2>1, <2>3 DEF Reserve
    <3> HIDE DEF c, o, m
    <3>3. m \in Ledger /\ m.operations = c.operations
      BY <3>1, <3>2 DEF Ledger, o
    <3> QED BY <1>4, <2>3, <3>1, <3>3 DEF o, m
  <2> QED BY <2>2, <2>3
<1>5. CASE f.pc = "settle"
  <2> DEFINE o == CallOp(r, f)
             s == Reported(l, o, f.tokens)
  <2>1. m = Settle(l, o, f.tokens)
    BY <1>5 DEF Mutated
  <2>2. o.run \in l.runs /\ f.tokens \in Reports \cup {0}
    BY <1>5 DEF CallOp, Frame
  <2>3. m \in Ledger
    <3> HIDE DEF o, m
    <3> QED BY <2>1, <2>2, SettleMutates DEF Mutates, LedgerInv, o
  <2>4. m.operations = l.operations
    <3>1. s.operations = l.operations /\ DOMAIN s = DOMAIN l
      BY <1>0 DEF Reported, Ledger
    <3> HIDE DEF s, o
    <3>2. MarkHard(s, o.run).operations = l.operations
      BY <1>0, <3>1 DEF MarkHard, Ledger
    <3> QED BY <2>1, <3>1, <3>2 DEF Settle, s
  <2> QED BY <2>3, <2>4
<1> QED BY <1>1, <1>2, <1>3, <1>4, <1>5 DEF Mutating

\* A save charges at most the one operation that its preflight admitted.
LEMMA SaveIsAtomic ==
    ASSUME IInv, NEW r \in Run, NEW g \in Generation(r), SaveLedger(r, g)
    PROVE  Atomic!Next \/ ledger'.operations = ledger.operations
<1> DEFINE f == frame[r][g]
           m == Mutated(ledger, r, f)
<1>1. /\ LedgerInv(ledger) /\ f \in Frame /\ Sane(ledger, r, f) /\ f.pc \in Mutating /\ f.writing
      /\ StepOp(r, f) \in Operation /\ CallOp(r, f) \in Operation
      /\ Current(f.copy) => f.copy = ledger
  BY SavingFacts
<1>2. r \in ledger.runs \/ f.pc = "register"
  BY <1>1 DEF Sane, Mutating
<1>3. CASE ~Current(f.copy)
  BY <1>3 DEF SaveLedger
<1>4. CASE Current(f.copy)
  <2>1. f.copy = ledger /\ ~Refuses(ledger, r, f)
    BY <1>1, <1>4 DEF Sane
  <2>2. ledger' = [m EXCEPT !.version = @ + 1]
    <3>1. ledger' = [Mutated(f.copy, r, f) EXCEPT !.version = Mutated(f.copy, r, f).version + 1]
      BY <1>4 DEF SaveLedger
    <3> HIDE DEF f
    <3> QED BY <2>1, <3>1
  <2> HIDE DEF f
  <2>3. /\ m \in Ledger
        /\ \/ m.operations = ledger.operations
           \/ /\ f.pc = "step" /\ StepOp(r, f) \notin ledger.operations
              /\ m.operations = ledger.operations \cup {StepOp(r, f)}
           \/ /\ f.pc = "reserve" /\ CallOp(r, f) \notin ledger.operations
              /\ m.operations = ledger.operations \cup {CallOp(r, f)}
    BY <1>1, <1>2, MutatedOperations
  <2> HIDE DEF m
  <2>4. ledger'.operations = m.operations
    BY <2>2, <2>3 DEF Ledger
  <2>5. CASE m.operations = ledger.operations
    BY <2>4, <2>5
  <2>6. CASE /\ f.pc = "step" /\ StepOp(r, f) \notin ledger.operations
             /\ m.operations = ledger.operations \cup {StepOp(r, f)}
    <3>1. Fits(ledger, r, "steps", 1)
      BY <2>1, <2>6 DEF Refuses
    <3>2. StepOp(r, f).run = r /\ StepOp(r, f).kind = "steps"
      BY DEF StepOp
    <3> QED BY <1>1, <2>4, <2>6, <3>1, <3>2, ChargesAtomically
  <2>7. CASE /\ f.pc = "reserve" /\ CallOp(r, f) \notin ledger.operations
             /\ m.operations = ledger.operations \cup {CallOp(r, f)}
    <3>1. Fits(ledger, r, "model_calls", 1)
      BY <2>1, <2>7 DEF Refuses
    <3>2. CallOp(r, f).run = r /\ CallOp(r, f).kind = "model_calls"
      BY DEF CallOp
    <3> QED BY <1>1, <2>4, <2>7, <3>1, <3>2, ChargesAtomically
  <2> QED BY <2>3, <2>5, <2>6, <2>7
<1> QED BY <1>3, <1>4

\* Every step of the compare-and-swap ledger is a charge of the atomic budget, or leaves
\* what was charged as it is.
LEMMA StepsAreAtomic ==
    IInv /\ [Next]_vars => [Atomic!Next]_(ledger.operations)
<1> SUFFICES ASSUME IInv, [Next]_vars
             PROVE  Atomic!Next \/ ledger'.operations = ledger.operations
  OBVIOUS
<1>1. CASE UNCHANGED vars
  BY <1>1 DEF vars
<1>2. CASE Next
  <2>1. PICK r \in Run :
           \/ Claim(r)
           \/ Lose(r)
           \/ \E g \in Generation(r) :
               \/ LoadLedger(r, g)
               \/ SaveLedger(r, g)
               \/ Stop(r, g)
               \/ NameCall(r, g)
               \/ ModelCall(r, g)
               \/ Checkpoint(r, g)
               \/ RetryCall(r, g)
               \/ Fail(r, g)
    BY <1>2 DEF Next
  <2>2. CASE \E g \in Generation(r) : SaveLedger(r, g)
    BY <2>2, SaveIsAtomic
  <2>3. CASE ~ \E g \in Generation(r) : SaveLedger(r, g)
    <3>1. ledger' = ledger
      BY <2>1, <2>3 DEF Claim, Lose, LoadLedger, Stop, NameCall, ModelCall, Checkpoint, RetryCall, Fail
    <3> QED BY <3>1
  <2> QED BY <2>2, <2>3
<1> QED BY <1>1, <1>2

\* The ledger that executions read, change and save in separate steps, over conflicts,
\* restarts and lost ownerships, is the atomic budget: one step checks the limits of the
\* Run and of its tree and charges (_mutate, save_budget_ledger).
THEOREM LedgerImplementsAtomicBudget == Spec => AtomicBudgetSpec
<1>1. Init => Atomic!Init
  BY DEF Init, NoLedger, Atomic!Init
<1>2. IInv /\ [Next]_vars => [Atomic!Next]_(ledger.operations)
  BY StepsAreAtomic
<1> QED BY <1>1, <1>2, Invariance, PTL DEF Spec, AtomicBudgetSpec, Atomic!Spec
=============================================================================
