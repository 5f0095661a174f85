---------------------------- MODULE AtomicBudget ----------------------------
(***************************************************************************)
(* What the budget ledger promises: "Every resource-consuming durable      *)
(* boundary atomically checks and records the Run/tree ledger before       *)
(* proceeding" (docs/architecture-current.md).  One step checks both       *)
(* limits and charges an operation that was not charged before; no charge  *)
(* is ever taken back.                                                     *)
(***************************************************************************)
EXTENDS Integers, FiniteSets

CONSTANTS Root,        \* the Run whose limits bound the tree
          Limit,       \* limits of each Run
          Operation    \* what can be charged: [run, kind, no]

VARIABLE charged       \* the operations charged so far

Charges(r, d)  == {o \in charged : o.run = r /\ o.kind = d}
TreeCharges(d) == {o \in charged : o.kind = d}

Init == charged = {}

Charge(o) ==
    /\ o \in Operation \ charged
    /\ Cardinality(Charges(o.run, o.kind)) < Limit[o.run][o.kind]
    /\ Cardinality(TreeCharges(o.kind)) < Limit[Root][o.kind]
    /\ charged' = charged \cup {o}

\* The operation is one of those charged afterwards; there is no bound on their numbers.
Next == \E o \in charged' : Charge(o)

Spec == Init /\ [][Next]_charged
=============================================================================
