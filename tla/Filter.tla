------------------------------- MODULE Filter -------------------------------
(***************************************************************************)
(* Test selection: crates/e2etest/src/filter.rs and Config::with_filter.   *)
(*                                                                         *)
(* A filter string is kept as what its matchers match, since nothing else  *)
(* of it is used: whether it has the form <group>::<test>, the groups whose *)
(* path its group part matches, whether its test part is empty, and the    *)
(* test names its test part matches.  Without "::" the whole string plays  *)
(* both parts.  Filter::new folds the filters into two collections, whose  *)
(* contents do not depend on the order of the filters or of the tests.     *)
(***************************************************************************)
EXTENDS TestTree, Naturals, FiniteSets

CONSTANTS
  Name,        \* Name[t]: the last component of the path of t
  FilterText,  \* the filters a caller may give
  MaxFilters   \* bound on the filters of one run

ASSUME FilterAssumption ==
  /\ Name \in [Test -> {Name[t] : t \in Test}]
  /\ \A s, t \in Test : (Parent[s] = Parent[t] /\ Name[s] = Name[t]) => s = t
  /\ FilterText \subseteq [colons : BOOLEAN,
                           groups : SUBSET (Group \ {Root}),
                           any    : BOOLEAN,
                           names  : SUBSET {Name[t] : t \in Test}]

VARIABLE filters    \* Config::filters

-----------------------------------------------------------------------------
\* rsplit_once drops the names without "::", those of the root group's tests.
Listed == {t \in Test : Parent[t] # Root}

\* A filter that takes every test of the group of t ("<group>::", or a plain
\* filter that matches the group).
TakesGroup(f, t) == Parent[t] \in f.groups /\ (f.colons => f.any)

\* Mutant: the plain form also inserts the tests of a group it takes.
TakesTestOfTakenGroup(f, t) ==
  /\ Name[t] \in f.names
  /\ f.colons => (Parent[t] \in f.groups /\ ~f.any)

\* A filter that takes the test t by name.
TakesTest(f, t) ==
  /\ Name[t] \in f.names
  /\ f.colons <=> Parent[t] \in f.groups
  /\ f.colons => ~f.any

Matched(f) == {t \in Listed : TakesGroup(f, t) \/ TakesTest(f, t)}

MatchedBy(F) == UNION {Matched(f) : f \in F}

\* Filter::new: the groups with a match, each with the tests taken by name.
filter_map(F) ==
  [g \in {Parent[t] : t \in MatchedBy(F)} |->
     {Name[t] : t \in {s \in tests(g) \cap Listed : \E f \in F : TakesTest(f, s)}}]

\* Mutant: only the innermost group is entered into the set.
group_set_leaves(F) == {Parent[t] : t \in MatchedBy(F)}

\* Filter::new: the groups with a match and all groups on the way to them.
group_set(F) ==
  UNION {({Parent[t]} \cup Above[Parent[t]]) \ {Root} : t \in MatchedBy(F)}

\* Mutant: groups are not filtered.
consider_every_group(F, g) == g \in Group

consider_group(F, g) == group_set(F) = {} \/ g \in group_set(F)

\* Mutant: the name is not looked up in the group's entry.
consider_test_of_group(F, t) ==
  \/ DOMAIN filter_map(F) = {}
  \/ Parent[t] \in DOMAIN filter_map(F)

consider_test(F, t) ==
  \/ DOMAIN filter_map(F) = {}
  \/ /\ Parent[t] \in DOMAIN filter_map(F)
     /\ filter_map(F)[Parent[t]] = {} \/ Name[t] \in filter_map(F)[Parent[t]]

-----------------------------------------------------------------------------
\* The tests of a run (run.rs records TestIncluded for them).
Included(F) == {t \in Test : consider_test(F, t)}

FilterInit == filters = {}

\* Config::with_filter
with_filter(f) ==
  /\ Cardinality(filters) < MaxFilters
  /\ filters' = filters \cup {f}

FilterNext == \E f \in FilterText : with_filter(f)

FilterSpec == FilterInit /\ [][FilterNext]_filters

-----------------------------------------------------------------------------
\* The two collections of Filter::new agree: the walk of run_group reaches
\* every test that is counted as included, and enters only groups with such a
\* test below (otherwise Statistics::record panics on the group's setup).
SelectionCoherent ==
  /\ \A t \in Included(filters) : \A g \in Above[t] \ {Root} : consider_group(filters, g)
  /\ \A g \in group_set(filters) : test_names(g) \cap Included(filters) # {}

\* When some filter matches something, no test runs that no filter matches.
SelectsOnlyMatches ==
  MatchedBy(filters) # {} => Included(filters) \subseteq MatchedBy(filters)

\* A single filter that matches something selects exactly what it matches among the
\* tests that are in a group; those of the root group no filter selects (Listed).
OneFilterIsExact ==
  \A f \in FilterText :
    (filters = {f} /\ Matched(f) # {}) => Included(filters) = Matched(f)

\* "Add a filter to select which tests to run" (lib.rs:164): a run with filters
\* runs only tests that one of them matches.  Not so when none matches.
RunsOnlyWhatFiltersMatch ==
  filters # {} => Included(filters) \subseteq MatchedBy(filters)
=============================================================================
