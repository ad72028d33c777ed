CONSTANTS
  c1 = c1
  c2 = c2
  n1 = n1
  n2 = n2
  NoClient = NoClient
  Client = {c1, c2}
  Self = "db"
  Actors = {"db"}
  IP = {n1, n2}
  Plans <- MC_Shared
  Cleanup <- MC_Cleanup
  Impatient = {c1, c2}
  MayFail = FALSE
  Capacity = 2
SPECIFICATION Spec
CHECK_DEADLOCK FALSE
INVARIANT ActorSurvives
