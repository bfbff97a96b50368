SPECIFICATION FairSpec
CONSTANTS
  s1 = s1
  s2 = s2
  u1 = u1
  u2 = u2
  Servers <- TwoServers
  Users <- TwoUsers
  TRESHOLD_TRIES = 2
  CONST_A = 1
  CONST_B = 1
  MaxTime = 2
  MaxAttempts = 3
INVARIANTS SemaphoreKept CountsExact
PROPERTIES TurnedAwayWhenDue AttemptsEnd
