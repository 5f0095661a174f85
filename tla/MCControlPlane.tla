--------------------------- MODULE MCControlPlane ---------------------------
(***************************************************************************)
(* Mixed: two approvals of the first invocation under one key, a resume,   *)
(* a cancel and an interrupt.                                              *)
(***************************************************************************)
EXTENDS ControlPlane

ask(op, key, named) == [op |-> op, key |-> key, named |-> named]

Mixed == [first   |-> ask("approve", "a", 1),
          again   |-> ask("approve", "a", 1),
          resume  |-> ask("resume", "c", 0),
          cancel  |-> ask("cancel", "d", 0),
          pause   |-> ask("interrupt", "e", 0)]
=============================================================================
