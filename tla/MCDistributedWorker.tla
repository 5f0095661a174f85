------------------------- MODULE MCDistributedWorker ------------------------
(***************************************************************************)
(* Small instances of DistributedWorker: one Run that starts no Child      *)
(* (Leaf) and a Parent with one Child Run (Tree), with two interchangeable *)
(* Workers.                                                                *)
(***************************************************************************)
EXTENDS DistributedWorker, TLC

CONSTANTS p, c

Leaf      == p :> NoRun
Tree      == c :> p @@ p :> NoRun

Symmetric == Permutations(Worker)
=============================================================================
