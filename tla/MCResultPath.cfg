CONSTANTS
  BackendLimits = {1, 2}
  MaxBody = 4
  MaxOutput = 3
  ResultLimits = {6, 9}
  Notice = 5
  BackendNotice = 2
  MaxDepth = 2
  MaxText = 10
  MaxWrap = 1
CHECK_DEADLOCK FALSE
SPECIFICATION Spec
INVARIANTS
  ResponseIsHonest
  ExecIsHonest
  BudgetIsKept
  RetentionIsBounded
