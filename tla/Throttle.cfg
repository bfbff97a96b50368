SPECIFICATION Spec
CONSTANTS
  t1 = t1
  t2 = t2
  t3 = t3
  c1 = c1
  c2 = c2
  Throttles <- ThreeThrottles
  max_limit <- Limits
  min_limit <- Minima
  Matching <- Files
  Clients <- TwoClients
  Size = 30
  THROTTLE_TIME = 1
  IDLE_SEND_TIMELIMIT = 2
  MaxTime = 6
  MaxStarts = 2
SYMMETRY Symmetric
INVARIANTS NeverDividesByZero  MinimumNeverMet
PROPERTY SharesFit
