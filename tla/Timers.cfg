CONSTANTS
  MaxConnects = 2
  HASH_SIZE = 2
  OCCASIONAL_TIME = 3
  IDLE_TIME = 2
  LINGER_TIME = 1
  Delays <- ShortDelays
  ShouldLinger <- MayLinger
  MaxTime = 4
SPECIFICATION FairSpec
CHECK_DEADLOCK FALSE
 
PROPERTIES PausesEnd 
