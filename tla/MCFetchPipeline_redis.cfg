SPECIFICATION FairSpec
CONSTANTS
  c1 = c1
  c2 = c2
  c3 = c3
  k1 = k1
  k2 = k2
  a = a
  r = r
  None = None
  Clients = {c1, c2, c3}
  Workers = {a, r}
  Host <- Replaying
  Replay = {r}
  Backend = "redis"
  HardCap = 1
  SoftCap = 1
  LastWindow = 1
  MaxCrashes = 1
  Keys = {k1}
  MaxAnswers = 1
  MaxExpiries = 0
  MaxRejects = 1
INVARIANTS
  HardCapExcused
  ReservationsInHand
  MeterConserved
PROPERTIES
  CallersReturn
CHECK_DEADLOCK FALSE
