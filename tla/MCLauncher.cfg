SPECIFICATION Spec
CHECK_DEADLOCK FALSE
INVARIANTS
  TrialCovered
  NoOrphans
  LogsKept
PROPERTIES
  StallEnds
  LauncherEnds
