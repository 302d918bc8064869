SPECIFICATION FairSpec
CONSTANTS
  l1 = l1
  l2 = l2
  f1 = f1
  player = player
  NoPayload = NoPayload
  Lanes = {l1, l2}
  Fixtures = {f1}
  Entities = {player}
  Resources = {"events"}
  Keys = {"list", "detail", "events"}
  WorkloadOf <- OwnKey
  Mentions <- NamedPlayer
  LookupAttempts = 2
  MaxPayloads = 3
  MaxFaults = 1
INVARIANTS
  GameComesFirst
  LossExplained
  GameIsNewest
PROPERTIES
  CallbacksReturn
CHECK_DEADLOCK FALSE
