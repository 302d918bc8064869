SPECIFICATION FairSpec
CONSTANTS
  r1 = r1
  None = None
  Runs = {r1}
  LastTarget = 2
  Season <- TwoSeasons
  MaxCalls = 3
  Observed = {"normal", "hard_cap_reached"}
  MaxBreaks = 1
  MaxExpiries = 1
  MaxResets = 1
INVARIANTS
  CheckpointWalked
  CompleteExplained
  BreakLosesOne
  OverrunBounded
PROPERTIES
  InvokedCompletes
CHECK_DEADLOCK FALSE
