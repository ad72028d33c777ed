---------------------------- MODULE FilterProofs ----------------------------
(***************************************************************************)
(* Theorems about Filter, for every tree of groups and tests and every set *)
(* of filters.  Nothing is inductive here: what the two collections select *)
(* is a matter of their contents, for whatever filters there are.          *)
(***************************************************************************)
EXTENDS Filter, TLAPS

\* The path of a test goes through its group (TestTree).
LEMMA TestsInGroups ==
  ASSUME NEW t \in Test
  PROVE  /\ t # Root /\ Parent[t] \in Group
         /\ Above[t] = Above[Parent[t]] \cup {Parent[t]}
BY TreeAssumption DEF Node

\* What is matched, and the entries of the map (Filter::new).
LEMMA Entries ==
  ASSUME NEW F
  PROVE  /\ \A t : t \in MatchedBy(F) <=> \E f \in F : t \in Matched(f)
         /\ \A g : g \in DOMAIN filter_map(F) <=> \E t \in MatchedBy(F) : g = Parent[t]
         /\ \A g \in DOMAIN filter_map(F) : \A x :
              x \in filter_map(F)[g] <=>
                \E s \in Listed : Parent[s] = g /\ x = Name[s] /\ \E f \in F : TakesTest(f, s)
<1>1. \A t : t \in MatchedBy(F) <=> \E f \in F : t \in Matched(f)
  BY DEF MatchedBy
<1>2. \A g : g \in DOMAIN filter_map(F) <=> \E t \in MatchedBy(F) : g = Parent[t]
  BY DEF filter_map
<1>3. \A s : s \in Listed => s \in Test
  BY DEF Listed
<1>4. \A g \in DOMAIN filter_map(F) :
        filter_map(F)[g] = {Name[t] : t \in {s \in tests(g) \cap Listed : \E f \in F : TakesTest(f, s)}}
  BY DEF filter_map
<1>5. \A g : tests(g) \cap Listed = {s \in Listed : Parent[s] = g}
  BY <1>3 DEF tests
<1> QED  BY <1>1, <1>2, <1>4, <1>5

\* What consider_test lets through is matched, when something is
\* (Filter::consider_test).
LEMMA OnlyMatches ==
  ASSUME NEW F, MatchedBy(F) # {}, NEW t \in Included(F)
  PROVE  t \in MatchedBy(F)
<1>1. t \in Test /\ Parent[t] \in DOMAIN filter_map(F)
      /\ (filter_map(F)[Parent[t]] = {} \/ Name[t] \in filter_map(F)[Parent[t]])
  <2>1. DOMAIN filter_map(F) # {}
    <3>1. PICK s : s \in MatchedBy(F)
      OBVIOUS
    <3>2. Parent[s] \in DOMAIN filter_map(F)
      BY <3>1, Entries
    <3> QED  BY <3>2
  <2> QED  BY <2>1 DEF Included, consider_test
<1>2. CASE Name[t] \in filter_map(F)[Parent[t]]
  <2>1. PICK s \in Listed, f \in F : Parent[s] = Parent[t] /\ Name[s] = Name[t] /\ TakesTest(f, s)
    BY <1>1, <1>2, Entries
  <2>2. s = t
    BY <1>1, <2>1, FilterAssumption DEF Listed
  <2> QED  BY <2>1, <2>2, Entries DEF Matched
<1>3. CASE filter_map(F)[Parent[t]] = {}
  <2>1. PICK s \in MatchedBy(F) : Parent[s] = Parent[t]
    BY <1>1, Entries
  <2>2. PICK f \in F : s \in Matched(f)
    BY <2>1, Entries
  <2>3. s \in Listed /\ ~ TakesTest(f, s)
    BY <1>1, <1>3, <2>1, <2>2, Entries DEF Matched
  <2>4. TakesGroup(f, s)
    BY <2>2, <2>3 DEF Matched
  <2>5. TakesGroup(f, t) /\ t \in Listed
    BY <1>1, <2>1, <2>3, <2>4 DEF TakesGroup, Listed
  <2> QED  BY <2>2, <2>5, Entries DEF Matched
<1> QED  BY <1>1, <1>2, <1>3

\* In a group with a match some test is let through: the ones named if there are
\* any, else all of them (Filter::consider_test).
LEMMA GroupsHaveTests ==
  ASSUME NEW F, NEW t \in MatchedBy(F)
  PROVE  \E s \in Included(F) : Parent[s] = Parent[t]
<1>1. Parent[t] \in DOMAIN filter_map(F)
  BY Entries
<1>2. t \in Test
  BY Entries DEF Matched, Listed
<1>3. CASE filter_map(F)[Parent[t]] = {}
  BY <1>1, <1>2, <1>3 DEF Included, consider_test
<1>4. CASE filter_map(F)[Parent[t]] # {}
  <2>1. PICK x : x \in filter_map(F)[Parent[t]]
    BY <1>4
  <2>2. PICK s \in Listed : Parent[s] = Parent[t] /\ x = Name[s]
    BY <1>1, <2>1, Entries
  <2>3. s \in Test
    BY DEF Listed
  <2> QED  BY <1>1, <2>1, <2>2, <2>3 DEF Included, consider_test
<1> QED  BY <1>3, <1>4

\* The groups above a test that runs are all considered (Filter::consider_group).
LEMMA OnTheWay ==
  ASSUME NEW F, NEW t \in Included(F), NEW g \in Above[t] \ {Root}
  PROVE  consider_group(F, g)
<1>1. t \in Test
  BY DEF Included
<1>2. CASE DOMAIN filter_map(F) = {}
  <2>1. MatchedBy(F) = {}
    <3>1. ASSUME NEW s \in MatchedBy(F) PROVE FALSE
      <4>1. Parent[s] \in DOMAIN filter_map(F)
        BY Entries
      <4> QED  BY <1>2, <4>1
    <3> QED  BY <3>1
  <2> QED  BY <2>1 DEF consider_group, group_set
<1>3. CASE Parent[t] \in DOMAIN filter_map(F)
  <2>1. PICK s \in MatchedBy(F) : Parent[s] = Parent[t]
    BY <1>3, Entries
  <2>2. g \in ({Parent[s]} \cup Above[Parent[s]]) \ {Root}
    BY <1>1, <2>1, TestsInGroups
  <2> QED  BY <2>2 DEF consider_group, group_set
<1> QED  BY <1>2, <1>3 DEF Included, consider_test

\* A group in the set has a test below it that runs (Filter::consider_group).
LEMMA Selected ==
  ASSUME NEW F, NEW g \in group_set(F)
  PROVE  \E t \in Included(F) : g \in Above[t]
<1>1. PICK t \in MatchedBy(F) : g \in {Parent[t]} \cup Above[Parent[t]]
  BY DEF group_set
<1>2. PICK s \in Included(F) : Parent[s] = Parent[t]
  BY GroupsHaveTests
<1>3. s \in Test
  BY DEF Included
<1> QED  BY <1>1, <1>2, <1>3, TestsInGroups

-----------------------------------------------------------------------------
\* The walk and the count of tests agree for every set of filters: no filters can
\* make run_group skip an included test or enter a group without one, on which
\* Statistics::record would panic (filter.rs).
THEOREM SelectionCoherentHolds == FilterSpec => []SelectionCoherent
<1>1. SelectionCoherent
  <2>1. \A t \in Included(filters) : \A g \in Above[t] \ {Root} : consider_group(filters, g)
    BY OnTheWay
  <2>2. ASSUME NEW g \in group_set(filters)
        PROVE  test_names(g) \cap Included(filters) # {}
    <3>1. PICK t \in Included(filters) : g \in Above[t]
      BY Selected
    <3> QED  BY <3>1 DEF test_names, Included
  <2> QED  BY <2>1, <2>2 DEF SelectionCoherent
<1> QED  BY <1>1, PTL

\* However many filters there are, no test runs that none of them matches, if they
\* match any (filter.rs).
THEOREM SelectsOnlyMatchesHolds == FilterSpec => []SelectsOnlyMatches
<1>1. SelectsOnlyMatches
  BY OnlyMatches DEF SelectsOnlyMatches
<1> QED  BY <1>1, PTL

\* One filter alone selects all it matches: it takes a group as a whole or tests by
\* name, never both in one group (filter.rs).
THEOREM OneFilterIsExactHolds == FilterSpec => []OneFilterIsExact
<1>1. OneFilterIsExact
  <2> SUFFICES ASSUME NEW f \in FilterText, filters = {f}, Matched(f) # {}
               PROVE  Included(filters) = Matched(f)
    BY DEF OneFilterIsExact
  <2>1. \A t : t \in MatchedBy(filters) <=> t \in Matched(f)
    BY Entries
  <2>2. Included(filters) \subseteq Matched(f)
    BY <2>1, OnlyMatches
  <2>3. ASSUME NEW t \in Matched(f) PROVE t \in Included(filters)
    <3>1. t \in Listed /\ t \in Test /\ (TakesGroup(f, t) \/ TakesTest(f, t))
      BY DEF Matched, Listed
    <3>2. Parent[t] \in DOMAIN filter_map(filters)
      BY <2>1, Entries
    <3>3. CASE TakesTest(f, t)
      <4>1. Name[t] \in filter_map(filters)[Parent[t]]
        BY <3>1, <3>2, <3>3, Entries
      <4> QED  BY <3>1, <3>2, <4>1 DEF Included, consider_test
    <3>4. CASE TakesGroup(f, t)
      <4>1. ASSUME NEW s \in Listed, Parent[s] = Parent[t], TakesTest(f, s) PROVE FALSE
        <5>1. f.colons \in BOOLEAN
          BY FilterAssumption
        <5> QED  BY <3>4, <4>1, <5>1 DEF TakesGroup, TakesTest
      <4>2. filter_map(filters)[Parent[t]] = {}
        BY <3>2, <4>1, Entries
      <4> QED  BY <3>1, <3>2, <4>2 DEF Included, consider_test
    <3> QED  BY <3>1, <3>3, <3>4
  <2> QED  BY <2>2, <2>3
<1> QED  BY <1>1, PTL
=============================================================================
