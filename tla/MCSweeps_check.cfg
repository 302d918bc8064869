SPECIFICATION MCSpec
CONSTANTS
  cup = cup
  liga = liga
  tA = tA
  tB = tB
  f1 = f1
  f2 = f2
  f3 = f3
  f4 = f4
  NoRow = NoRow
  Games <- GamesValue
  Content <- ContentValue
  Own <- OwnValue
  Page = 2
  WidePage = 2
  MaxPages = 2
  DefaultLimit = 3
  MaxLimit = 3
  Inputs <- InputsValue
  Listed <- ListedValue
  Years <- YearsValue
  Matches <- MatchesValue
  SquadRuns = {"s1", "s2"}
  Duties <- DutiesValue
  Caps = {1, 5}
  Budgets = {2, 9}
INVARIANTS
  SweepHonest
  SweepWithin
  RowsUnderOwnIds
  ReportsHold
CHECK_DEADLOCK FALSE
