SPECIFICATION FairSpec
CONSTANTS
  i1 = i1
  i2 = i2
  Id = {i1, i2}
  NoId = NoId
  Home = i1
  Admin = {a1}
  MaxSize = 1
  MaxMade = 4
  Budget <- Budgets
INVARIANTS ReleasedOnce HandleKept
PROPERTIES ReportIsTrue ReleaseEnds
CHECK_DEADLOCK FALSE
