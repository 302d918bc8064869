SPECIFICATION Spec
CONSTANTS
  None = None
  Lead = 9
  Grace = 1
  MaxLive = 21
  FinalWindow = 2
  Behind = 12
  Ahead = 1008
  Every <- Intervals
  Ttl <- Lifetimes
  EmptyTtl = 1
  Kickoffs <- TwoKickoffs
  MinMatch = 10
  MaxMatch = 11
  MaxDelay = 1
  Latency = 1
  Horizon = 56
  MaxFaults = 1
INVARIANT FinalIsPolled
CHECK_DEADLOCK FALSE
