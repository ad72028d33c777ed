CONSTANTS
  R = R
  S = S
  a = a
  b = b
  c = c
  FR = FR
  FS = FS
  FT = FT
  A = A
  B = B
  NoUser = NoUser
  NoFixture = NoFixture
  Root = R
  Group = {R, S}
  Test = {a, b, c}
  Parent <- MC_Parent
  Above <- MC_Above
  Name <- MC_Name
  CanRun <- MC_CanRun
  Concurrency = {2}
  FilterText <- MC_FilterText
  MaxFilters = 1
  Fixture = {FR, FS, FT, A, B}
  Want <- MC_Want
  Deps <- MC_Deps
  Keeps <- MC_Keeps
  Depth <- MC_Depth
  Permanent = {}
SPECIFICATION FairSpec
CHECK_DEADLOCK FALSE
INVARIANTS
  GroupFixturesUp
  NothingOutlivesItsUsers
  RootTeardownSweeps
PROPERTY RunReturns
