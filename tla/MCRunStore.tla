----------------------------- MODULE MCRunStore -----------------------------
(***************************************************************************)
(* A small instance of RunStore: a Parent with one Child, and two          *)
(* interchangeable Workers.                                                *)
(***************************************************************************)
EXTENDS RunStore, TLC

CONSTANTS p, c

Tree      == c :> p @@ p :> NoRun

Symmetric == Permutations(Worker)
=============================================================================
