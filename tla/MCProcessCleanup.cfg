SPECIFICATION Spec
CONSTANTS
  Leader = leader
  Smi = smi
  Procs = {leader, a, b}
SYMMETRY Symmetry
CHECK_DEADLOCK FALSE
INVARIANTS OnlyLateSurvivors QueriesUnharmed OwnNeverForeign
