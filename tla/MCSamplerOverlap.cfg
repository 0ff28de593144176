SPECIFICATION Spec
CONSTANTS
  Jobs = {j1}
  NoJob = NoJob
  MaxSignals = 0
INVARIANTS SamplerNeverOverlaps
CHECK_DEADLOCK FALSE
