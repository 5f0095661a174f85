--------------------------- MODULE MCBudgetLedger ---------------------------
(***************************************************************************)
(* BudgetLedger with a root Run p and one Child Run c.                     *)
(***************************************************************************)
EXTENDS BudgetLedger, TLC

CONSTANTS p, c

Policy(steps, calls, tokens) == "steps" :> steps @@ "model_calls" :> calls @@ "tokens" :> tokens

Fences == p :> 1 @@ c :> 2

Limits == p :> Policy(2, 2, 2) @@ c :> Policy(1, 2, 1)
=============================================================================
