--------------------------- MODULE MCToolExecution --------------------------
(***************************************************************************)
(* Mixed: an answer with a safe call that needs an approval and an unsafe  *)
(* call that is allowed.  Single: one unsafe call that needs an approval.  *)
(***************************************************************************)
EXTENDS ToolExecution

Mixed  == <<"REQUIRE_APPROVAL", "ALLOW">>
Single == <<"REQUIRE_APPROVAL">>
=============================================================================
