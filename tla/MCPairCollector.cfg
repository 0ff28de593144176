SPECIFICATION Spec
CONSTANTS
  Jobs = {j1}
  NoJob = NoJob
  MaxSignals = 1
INVARIANTS
  Accounted
  VerdictsTrue
  VerdictsAgree
PROPERTIES ImplementsOneShot ClaimEnds
CHECK_DEADLOCK FALSE
