SPECIFICATION Spec
CONSTANTS
  Budgets <- MCBudgets
  InitialBackoff = 1
  MaxBackoff = 30
  Jitters <- MCJitters
  Width = 20
  Second = 1000
  AttemptBound = 18
INVARIANT
  BackoffNeverVanishes
