CONSTANTS
  c1 = c1
  c2 = c2
  n1 = n1
  n2 = n2
  NoClient = NoClient
  Client = {c1, c2}
  Self = "db"
  Actors = {"db"}
  IP = {n1, n2}
  Plans <- MC_Waited
  Cleanup <- MC_Cleanup
  Impatient = {}
  MayFail = FALSE
  Capacity = 2
SPECIFICATION FairSpec
CHECK_DEADLOCK FALSE
PROPERTY NobodyHangs
