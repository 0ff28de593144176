SPECIFICATION Spec
CONSTANTS
  a = a
  b = b
  s0 = s0
  e1 = e1
  e2 = e2
  Candidates <- Panel
  QueryOrder <- Order
  EvaluationSeeds <- Seeds
  Screen = s0
  DonorWithin <- Panel
  DonorRoomy = {b}
  MaxReplacements = 1
  Budgets = {0, 1, 2, 3}
  OpenSlots <- Collected
SYMMETRY Symmetry
INVARIANTS
  BudgetKept
PROPERTIES
  ScreensOnlyExtend
  OutcomesOnlyNarrow
CHECK_DEADLOCK FALSE
