SPECIFICATION Spec
CONSTANTS
  Budgets <- MCBudgets
  InitialBackoff = 1
  MaxBackoff = 30
  Jitters <- MCJitters
  Width = 20
  Second = 1000
  AttemptBound = 18
INVARIANTS
  TypeOK
  OneConnection
  StatusTruthful
  GivesUpAtBudget
  BackoffAsDesigned
PROPERTIES
  StopsAfterCancel
  KeepsTrying
