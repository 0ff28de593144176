SPECIFICATION MCSpec
CONSTANTS
  g = g
  s = s
  Trained = {g}
  Served = {s}
  Jobs = {1, 2}
  ActorBatches = {1, 8}
  RolloutBatches = {1, 3}
  RefBatches = {1, 4}
  Utilizations = {10}
  Offloads = {FALSE}
  GlobalBatch = 13
  WorldSize = 3
  ka = 1
  kb = 2
  p1 = p1
  p2 = p2
  Cases = {1, 2, 3, 4, 5}
  Configurations = {1, 2}
  Phases = {p1, p2}
  Total = Total
  None = None
  Limit = 3
  Hits = 1
  Of = 2
  MinCalibration = 2
  MinFit = 2
  MinConfigurations = 1
  Off = Off
  MaxNodes = 3
  Elsewhere = Elsewhere
  Nodes <- MCNodes
  Corpora <- MCCorpora
  Models <- MCModels
  Allocation = {d1, d2, d3}
  Expected <- MCExpected
  Nvml <- MCNvml
  Masks <- MCMasks
  Key <- MCKey
  Nothing = Nothing
  Refused = Refused
  Ranks = {r1, r2}
  MiniBatches = 2
  MaxVersion = 4
  d1 = d1
  d2 = d2
  d3 = d3
  Nowhere = Nowhere
  Trials = {t1, t2}
  Locked = {t1}
  MaxEdits = 2
  MaxBuilds = 2
  MaxReleases = 1
  NoTable = NoTable
  MaxStray = 1
INVARIANT TracesKept
CHECK_DEADLOCK FALSE
