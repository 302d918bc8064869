SPECIFICATION Spec
CONSTANTS
  r1 = r1
  None = None
  Runs = {r1}
  LastTarget = 2
  Season <- TwoSeasons
  MaxCalls = 3
  Observed = {"normal", "hard_cap_reached"}
  MaxBreaks = 1
  MaxExpiries = 1
  MaxResets = 1
INVARIANTS
  CheckpointWhole
CHECK_DEADLOCK FALSE
