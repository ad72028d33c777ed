----------------------------- MODULE Statistics -----------------------------
(***************************************************************************)
(* The record of a run: crates/e2etest/src/statistics.rs.                  *)
(*                                                                         *)
(* No query depends on the order of the recorded events, so the vector of  *)
(* entries is kept as the number of times each event was recorded for each *)
(* node.  The task carried by SetupSkipped and SetupFailed is the kind of  *)
(* the node.                                                               *)
(***************************************************************************)
EXTENDS TestTree, Naturals, FiniteSets, FiniteSetsExt

VARIABLES
  defined,    \* Inner::defined
  included,   \* Inner::included
  events,     \* events[n][e]: entries of Inner::events
  panicked    \* an assertion of Statistics::record failed

statVars == <<defined, included, events, panicked>>

TestEvent == {"TestLaunched", "TestPassed", "TestFailed"}

Event == TestEvent \cup
  {"SetupLaunched", "SetupPassed", "SetupSkipped", "SetupFailed",
   "TeardownLaunched", "TeardownPassed", "TeardownFailed"}

FailedEvent == {"SetupFailed", "TestFailed", "TeardownFailed"}

\* Inner::iter_included: the included tests at or below a path.
iter_included(n) == {t \in included : t = n \/ n \in Above[t]}

StatisticsInit ==
  /\ defined = {}
  /\ included = {}
  /\ events = [n \in Node |-> [e \in Event |-> 0]]
  /\ panicked = FALSE

\* Statistics::record of TestDefined for all tests of the run and then of
\* TestIncluded for those of I.
record_tests(I) ==
  /\ defined' = Test
  /\ included' = I
  /\ UNCHANGED <<events, panicked>>

\* The assertions of Statistics::record.
Recordable(n, e) ==
  IF e \in TestEvent THEN n \in included ELSE iter_included(n) # {}

\* Statistics::record of the events of E, one after the other, by one task that
\* does not yield in between.
record(n, E) ==
  /\ events' = [events EXCEPT ![n] =
                  [e \in Event |-> IF e \in E /\ Recordable(n, e) THEN @[e] + 1 ELSE @[e]]]
  /\ panicked' = (panicked \/ \E e \in E : ~Recordable(n, e))
  /\ UNCHANGED <<defined, included>>

-----------------------------------------------------------------------------
Total(f, S) == MapThenSumSet(LAMBDA x : f[x], S)

\* How often the events of E were recorded for the nodes of N.
Count(N, E) == Total([n \in N |-> Total(events[n], E)], N)

is_success == included # {} /\ Count(Node, FailedEvent) = 0

\* Mutant: a group counts as one test.
TestsStoppedByNode(e) == Count(Node, {e})

\* Tests stopped by the event e of their own setup or of a group's: the fold
\* of tests_skipped and tests_skipped_by_fixture_err.
TestsStoppedBy(e) ==
  Count(Test, {e})
  + Total([g \in Group |-> events[g][e] * Cardinality(iter_included(g))], Group)

tests_skipped == TestsStoppedBy("SetupSkipped")

tests_skipped_by_fixture_err == TestsStoppedBy("SetupFailed")

tests_launched == Count(Node, {"TestLaunched"})

tests_passed == Count(Node, {"TestPassed"})

tests_failed == Count(Node, {"TestFailed"})
=============================================================================
