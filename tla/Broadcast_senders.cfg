SPECIFICATION Spec
CONSTANTS
  Modes = {"bounded", "rebuild"}
  MaxAttempts = 3
  MaxBlockhash = 3
  None = none
CHECK_DEADLOCK FALSE
INVARIANTS OneTransactionAtRisk BudgetEscalates
PROPERTY BroadcastEnds
