SPECIFICATION MCSpec
CONSTANTS
  Off = Off
  Planners = {p1, p2}
  Freezers = {f1, f2}
  Runs = {r1}
  NoFile = NoFile
  MaxEdits = 1
  a = a
  s0 = s0
  e1 = e1
  Candidates <- MCCandidates
  QueryOrder <- MCOrder
  EvaluationSeeds <- MCSeeds
  Screen = s0
  DonorWithin <- MCCandidates
  DonorRoomy = {}
  MaxReplacements = 1
  Budgets = {1}
  OpenSlots <- MCOpen
  Collectors = {c1, c2}
  NoOutput = NoOutput
  MaxAttempts = 2
  Makers = {m1, m2}
  Pairs = {q1}
SYMMETRY Symmetry
INVARIANTS
  AcceptedMeansSealedInputs
  PredictedBeforeClaimed
  NothingOverlooked
  InheritsSealed
PROPERTIES PublishedWhole
CHECK_DEADLOCK FALSE
