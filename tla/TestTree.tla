------------------------------ MODULE TestTree ------------------------------
(***************************************************************************)
(* The tree of groups and tests that the traits Group and Test of          *)
(* crates/e2etest describe.  A node stands for its full path               *)
(* ("root::group::test"): siblings have different names, as the items of a *)
(* Rust module that the macros turn into groups and tests have.            *)
(***************************************************************************)

CONSTANTS
  Group,    \* RunGroup objects
  Test,     \* RunTest objects
  Root,     \* the group given to e2etest::run
  Parent,   \* Parent[n]: the group whose groups() or tests() lists n
  Above     \* Above[n]: the parent_names of n, without n itself

Node == Group \cup Test

ASSUME TreeAssumption ==
  /\ Group \cap Test = {}
  /\ Root \in Group
  /\ Parent \in [Node \ {Root} -> Group]
  /\ Above \in [Node -> SUBSET Group]
  /\ Above[Root] = {}
  /\ \A n \in Node \ {Root} : Above[n] = Above[Parent[n]] \cup {Parent[n]}
  /\ \A n \in Node : n \notin Above[n]
  /\ \A n \in Node \ {Root} : Root \in Above[n]

\* Group::tests and Group::groups.
tests(g) == {t \in Test : Parent[t] = g}

groups(g) == {h \in Group \ {Root} : Parent[h] = g}

\* RunGroup::test_names: all tests below g.
test_names(g) == {t \in Test : g \in Above[t]}
=============================================================================
