SPECIFICATION Spec
CONSTANTS
  Deadline = 30
  PayloadTimeout = 4
  Reserve = 13
  IdleTimeout = 3
  Query = 2
  Pause = 1
  Nap = 1
  Join = 2
  Grace = 1
  Wait = 1
  WaitFloor = 1
  Settle = 1
  Work = 3
  Lag = 1
CHECK_DEADLOCK FALSE
INVARIANT TimeoutNotShortened
