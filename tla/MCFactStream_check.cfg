SPECIFICATION FairSpec
CONSTANTS
  w1 = w1
  w2 = w2
  r1 = r1
  r2 = r2
  None = None
  Consumers = {w1}
  Ratings = {r1, r2}
  RatingOf <- Mixed
  Undecodable = {6}
  Malformed = {7}
  Throwing = {1, 2}
  MaxRetries = 2
  MaxAttempts = 2
  DedupeSize = 1
  MaxBuried = 1
  BatchCount = 2
  MaxFaults = 2
  MaxCrashes = 1
INVARIANTS
  
  RepeatsAccounted
PROPERTIES
  ReadIsFinished
CHECK_DEADLOCK FALSE
