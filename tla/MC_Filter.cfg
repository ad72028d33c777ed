CONSTANTS
  R = R
  A = A
  B = B
  C = C
  r1 = r1
  a1 = a1
  b1 = b1
  b2 = b2
  c1 = c1
  Root = R
  Group <- MC_Group
  Test <- MC_Test
  Parent <- MC_Parent
  Above <- MC_Above
  Name <- MC_Name
  FilterText <- MC_FilterText
  MaxFilters = 2
SPECIFICATION FilterSpec
CHECK_DEADLOCK FALSE
INVARIANTS
  SelectionCoherent
  SelectsOnlyMatches
  OneFilterIsExact
