CONSTANTS
  g = g
  t1 = t1
  t2 = t2
  G = G
  T1 = T1
  T2 = T2
  A = A
  B = B
  NoUser = NoUser
  NoFixture = NoFixture
  Fixture = {G, T1, T2, A, B}
  User = {g, t1, t2}
  Want <- MC_Want
  Deps <- MC_Deps
  Keeps <- MC_Keeps
  Depth <- MC_Depth
  Permanent = {}
  Test = {t1, t2}
  Generated = {G, T1, T2}
  DeclaredSetup <- MC_Declared
  DeclaredTeardown <- MC_NoneDeclared
  DeclaredBody <- MC_Body
  default_timeout = 2
  NoTimeout = NoTimeout
SPECIFICATION TimedSpec
INVARIANT DeclaredTimeoutHolds
