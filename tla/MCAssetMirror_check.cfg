SPECIFICATION Spec
CONSTANTS
  l1 = l1
  l2 = l2
  png1 = png1
  svg1 = svg1
  png2 = png2
  e1 = e1
  e2 = e2
  None = None
  Lanes = {l1, l2}
  Images = {png1, svg1, png2}
  EntityOf <- Shown
  MaxFaults = 1
  MaxCrashes = 1
  MaxTouches = 2
INVARIANTS
  CoverageBacked
  CoverageExplained
  BespokeKept
  PutsBounded
CHECK_DEADLOCK FALSE
