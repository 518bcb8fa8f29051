SPECIFICATION BudgetSpec
CONSTANTS
  r1 = r1
  Room <- OneRoom
  MAX_ATTEMPTS_PER_ROOM = 2
  ATTEMPT_WINDOW = 2
  MaxTime = 8
  MaxRefusals = 2
INVARIANTS
  BudgetTypeOK
  AttemptsThrottled
  RefusedForBudget
CHECK_DEADLOCK FALSE
