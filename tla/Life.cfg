SPECIFICATION FairSpec
CONSTANTS
  max_connects = 1
  MaxCalls = 2
INVARIANTS  WatchdogInTime 
PROPERTY SignalsTakeEffect
