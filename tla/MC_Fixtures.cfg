CONSTANTS
  g = g
  t1 = t1
  t2 = t2
  G = G
  T1 = T1
  T2 = T2
  A = A
  B = B
  C = C
  P = P
  NoUser = NoUser
  NoFixture = NoFixture
  Fixture <- MC_Fixture
  User <- MC_User
  Want <- MC_Want
  Deps <- MC_Deps
  Keeps <- MC_Keeps
  Depth <- MC_Depth
  Permanent = {P}
SPECIFICATION FairSpec
INVARIANTS
  TypeOK
  InUseLive
  SetupOnce
  NoLeak
PROPERTIES
  LeasePromise
  TasksEnd
