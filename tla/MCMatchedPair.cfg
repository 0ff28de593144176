SPECIFICATION Spec
SYMMETRY Symmetry
CONSTANTS
  Jobs = {j1, j2}
  NoJob = NoJob
  MaxSignals = 0
INVARIANTS LaunchedAtMostOnce

CHECK_DEADLOCK FALSE
