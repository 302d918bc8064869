SPECIFICATION Spec
CONSTANTS
  c1 = c1
  c2 = c2
  c3 = c3
  k1 = k1
  k2 = k2
  a = a
  r = r
  None = None
  Clients = {c1, c2}
  Workers = {a}
  Host <- Alone
  Replay = {}
  Backend = "memory"
  HardCap = 2
  SoftCap = 1
  LastWindow = 1
  MaxCrashes = 1
  Keys = {k1, k2}
  MaxAnswers = 2
  MaxExpiries = 1
  MaxRejects = 0
INVARIANTS HardCapExcused OneCallPerKey CallsAccounted
PROPERTIES FlightsBridgeInOrder
SYMMETRY Symmetry
CHECK_DEADLOCK FALSE
