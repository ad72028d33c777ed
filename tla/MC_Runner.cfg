CONSTANTS
  R = R
  S = S
  Q = Q
  E = E
  a = a
  b = b
  c = c
  q = q
  Root = R
  Group = {R, S, Q}
  Test <- MC_Test
  Parent <- MC_Parent
  Above <- MC_Above
  Name <- MC_Name
  CanRun <- MC_CanRun
  Concurrency = {0, 2}
  FilterText <- MC_FilterText
  MaxFilters = 1
SPECIFICATION FairRunnerSpec
CHECK_DEADLOCK FALSE
INVARIANTS
  RunnerTypeOK
  NoPanic
  Accounted
  ExclusiveTests
  WithinLimit
  GroupSpansContent
  TeardownForEverySetup
PROPERTY RunEnds
