CONSTANTS
  c1 = c1
  c2 = c2
  n1 = n1
  n2 = n2
  good = good
  bad = bad
  NoClient = NoClient
  Actors = {"vs", "fw", "px", "dns", "tls"}
  Client = {c1, c2}
  IP = {n1, n2}
  Name = {good}
  Plans <- MC_Plans
  Cleanup <- MC_Cleanup
  Impatient = {c1}
  MayFail = TRUE
  Capacity = 2
SPECIFICATION FairSpec
CHECK_DEADLOCK FALSE
INVARIANTS
  TypeOK
  DiesOnlyOfFaults
  StoresNotStartedTwice
  NothingLeftBehind
  BlockedAsAsked
  MapIsServed
  PathsLead
PROPERTIES
  AnswersFollowCalls
  StoresReady
  UpdatesTakeEffect
  NobodyHangs
