SPECIFICATION MCSpec
CONSTANTS
  Parts = {"labels", "costs", "control"}
  Blocks = {b1, b2}
  MaxTime = 2
  MaxEvents = 2
  NotYet = NotYet
  Off = Off
  NPairs = 2
  TwoFirst <- MCTwoFirst
  Jobs = {j1, j2}
  NoJob = NoJob
  Cancelled <- MCCancelled
  MaxGrowth = 1
  Verdicts <- MCVerdicts
SYMMETRY Symmetry
INVARIANTS
  ReportIsSnapshot
  LabelIsTruth
  CostsNest
PROPERTIES  CostCovers
CHECK_DEADLOCK FALSE
