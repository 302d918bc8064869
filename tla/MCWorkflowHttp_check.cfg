CONSTANTS
  always = always
  pending = pending
  s1 = s1
  s2 = s2
  Always = always
  Pending = pending
  Runs = {s1}
  Catalogue <- MCCatalogue
  Calendar <- MCCalendar
  Window <- MCWindow
  Moments <- MCMoments
  OtherRoutes <- Others
  Heartbeats = 1
SPECIFICATION FairSpec
INVARIANT Reconciled
PROPERTY HeedsHardCap
PROPERTY StreamsProgress
PROPERTY ResponsesEnd
CHECK_DEADLOCK FALSE
