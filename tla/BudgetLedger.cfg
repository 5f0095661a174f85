SPECIFICATION Spec
CONSTANTS
  p = p
  c = c
  Run = {p, c}
  Root = p
  Limit <- Limits
  Estimate = 1
  Reports = {0, 2}
  MaxStep = 1
  MaxFence <- Fences
INVARIANTS
  LimitsHold
  LedgerIsExact
PROPERTIES
  AtomicBudgetSpec
CHECK_DEADLOCK FALSE
