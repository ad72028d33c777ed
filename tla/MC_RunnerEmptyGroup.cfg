CONSTANTS
  R = R
  S = S
  Q = Q
  E = E
  a = a
  b = b
  c = c
  q = q
  Root = R
  Group = {R, E, Q}
  Test = {q}
  Parent <- MC_Parent
  Above <- MC_Above
  Name <- MC_Name
  CanRun <- MC_CanRun
  Concurrency = {2}
  FilterText = {}
  MaxFilters = 0
SPECIFICATION RunnerSpec
CHECK_DEADLOCK FALSE
INVARIANT NoPanicEver
