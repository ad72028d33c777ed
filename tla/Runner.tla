------------------------------- MODULE Runner -------------------------------
(***************************************************************************)
(* The walk over the tree of groups and tests: run.rs, group.rs, test.rs   *)
(* and task.rs of crates/e2etest.                                          *)
(*                                                                         *)
(* A step is what a node does between two awaits of a spawned task: it     *)
(* records the outcome of the task that ended, launches the next one and   *)
(* records that.  Setup, test body and teardown end in any way and at any  *)
(* time; a panic and a timeout both end the spawned task with an error.    *)
(* Siblings are taken in any order: the slices of tests() and groups() are *)
(* in registration order, which nothing relies on.                         *)
(***************************************************************************)
EXTENDS Filter, Statistics

CONSTANTS
  CanRun,       \* CanRun[n]: test_can_run_concurrently of the fixture of n
  Concurrency   \* the values a caller may give to Config::with_concurrency

ASSUME RunnerAssumption ==
  /\ IsFiniteSet(Node)
  /\ CanRun \in [Node -> BOOLEAN]
  /\ Concurrency \subseteq Nat

VARIABLES
  concurrency,   \* Config::concurrency
  status,        \* "config", "running", "finished"
  pc             \* pc[n]: the await at which run_group / run_test of n stands

runVars == <<filters, concurrency, statVars, status, pc>>

GroupPc == {"idle", "setup", "groups", "concurrent", "sequential", "teardown", "done"}

TestPc == {"idle", "setup", "run", "teardown", "done"}

\* The variables have their types; a group is never where only a test can be, nor
\* a test where only a group can be (group.rs:79, test.rs:63).
RunnerTypeOK ==
  /\ filters \subseteq FilterText
  /\ concurrency \in Nat
  /\ defined \in SUBSET Test
  /\ included \in SUBSET Test
  /\ events \in [Node -> [Event -> Nat]]
  /\ panicked \in BOOLEAN
  /\ status \in {"config", "running", "finished"}
  /\ pc \in [Node -> GroupPc \cup TestPc]
  /\ \A g \in Group : pc[g] \in GroupPc
  /\ \A t \in Test : pc[t] \in TestPc

\* RunContext::with_concurrency
Limit == IF concurrency > 0 THEN concurrency ELSE 1

\* Mutant: the groups above are not asked.
is_concurrency_enabled_here(t) == CanRun[t]

\* RunContext::is_concurrency_enabled for t in the context of its group, which
\* update_concurrency_enabled has narrowed at every level on the way down.
is_concurrency_enabled(t) == CanRun[t] /\ \A g \in Above[t] : CanRun[g]

Active(n) == pc[n] \notin {"idle", "done"}

\* What run_group of g has still to launch in its current stage.
PendingGroups(g) == {h \in groups(g) : pc[h] = "idle" /\ consider_group(filters, h)}

\* The tests of g that one of its two streams runs.
stream(g, concurrent) ==
  {t \in tests(g) : consider_test(filters, t) /\ is_concurrency_enabled(t) = concurrent}

PendingTests(g, concurrent) == {t \in stream(g, concurrent) : pc[t] = "idle"}

ActiveIn(S) == {n \in S : Active(n)}

RunnerInit ==
  /\ FilterInit
  /\ concurrency = 1
  /\ StatisticsInit
  /\ status = "config"
  /\ pc = [n \in Node |-> "idle"]

-----------------------------------------------------------------------------
\* Config::with_concurrency
with_concurrency(n) ==
  /\ concurrency' = n
  /\ UNCHANGED filters

\* The caller builds its Config.
Configure ==
  /\ status = "config"
  /\ \/ \E f \in FilterText : with_filter(f) /\ UNCHANGED concurrency
     \/ \E n \in Concurrency : with_concurrency(n)
  /\ UNCHANGED <<statVars, status, pc>>

\* run: the tests are recorded and the root group is started, if any is left.
Start ==
  /\ status = "config"
  /\ record_tests(Included(filters))
  /\ status' = IF Included(filters) = {} THEN "finished" ELSE "running"
  /\ UNCHANGED <<filters, concurrency, pc>>

\* The node n can go on: record has not panicked, which ends run.
Going(n, at) == status = "running" /\ ~panicked /\ pc[n] = at

\* task::setup spawns the setup of n.
Launch(n) ==
  /\ Going(n, "idle")
  /\ pc' = [pc EXCEPT ![n] = "setup"]
  /\ record(n, {"SetupLaunched"})
  /\ UNCHANGED <<filters, concurrency, status>>

LaunchRoot == Launch(Root)

\* The loop over the subgroups: one at a time.
LaunchGroup(g) ==
  /\ pc[Parent[g]] = "groups"
  /\ g \in PendingGroups(Parent[g])
  /\ ActiveIn(groups(Parent[g])) = {}
  /\ Launch(g)

\* Mutant: the limit is exceeded by one.
LaunchConcurrentBeyond(t) ==
  /\ pc[Parent[t]] = "concurrent"
  /\ t \in PendingTests(Parent[t], TRUE)
  /\ Cardinality(ActiveIn(stream(Parent[t], TRUE))) <= Limit
  /\ Launch(t)

\* for_each_concurrent: at most Limit tests of the group at a time.
LaunchConcurrent(t) ==
  /\ pc[Parent[t]] = "concurrent"
  /\ t \in PendingTests(Parent[t], TRUE)
  /\ Cardinality(ActiveIn(stream(Parent[t], TRUE))) < Limit
  /\ Launch(t)

\* for_each: one test at a time.
LaunchSequential(t) ==
  /\ pc[Parent[t]] = "sequential"
  /\ t \in PendingTests(Parent[t], FALSE)
  /\ ActiveIn(stream(Parent[t], FALSE)) = {}
  /\ Launch(t)

\* Mutant: a test is treated like a group.
SetupPassedAsGroup(n) ==
  /\ Going(n, "setup")
  /\ record(n, {"SetupPassed"})
  /\ pc' = [pc EXCEPT ![n] = "groups"]
  /\ UNCHANGED <<filters, concurrency, status>>

\* The setup of n returned Some: a test is launched, a group runs its content.
SetupPassed(n) ==
  /\ Going(n, "setup")
  /\ IF n \in Test
     THEN record(n, {"SetupPassed", "TestLaunched"}) /\ pc' = [pc EXCEPT ![n] = "run"]
     ELSE record(n, {"SetupPassed"}) /\ pc' = [pc EXCEPT ![n] = "groups"]
  /\ UNCHANGED <<filters, concurrency, status>>

\* Mutant: a skipped setup leaves its dependencies to somebody else.
SetupFailedNoTeardown(n, event) ==
  /\ Going(n, "setup")
  /\ record(n, {event})
  /\ pc' = [pc EXCEPT ![n] = "done"]
  /\ UNCHANGED <<filters, concurrency, status>>

\* The setup of n returned None ("SetupSkipped") or its task failed
\* ("SetupFailed"): a teardown follows for what it may have created.
SetupFailed(n, event) ==
  /\ Going(n, "setup")
  /\ record(n, {event, "TeardownLaunched"})
  /\ pc' = [pc EXCEPT ![n] = "teardown"]
  /\ UNCHANGED <<filters, concurrency, status>>

\* Mutant: a subgroup is spawned and not awaited.
GroupsLaunched(g) ==
  /\ Going(g, "groups")
  /\ PendingGroups(g) = {}
  /\ pc' = [pc EXCEPT ![g] = "concurrent"]
  /\ UNCHANGED <<filters, concurrency, statVars, status>>

\* Mutant: the subgroups that the filter leaves out are awaited too.
GroupsAllDone(g) ==
  /\ Going(g, "groups")
  /\ \A h \in groups(g) : pc[h] = "done"
  /\ pc' = [pc EXCEPT ![g] = "concurrent"]
  /\ UNCHANGED <<filters, concurrency, statVars, status>>

\* The loop over the subgroups ends.
GroupsDone(g) ==
  /\ Going(g, "groups")
  /\ PendingGroups(g) = {}
  /\ ActiveIn(groups(g)) = {}
  /\ pc' = [pc EXCEPT ![g] = "concurrent"]
  /\ UNCHANGED <<filters, concurrency, statVars, status>>

\* Mutant: the sequential tests start before the concurrent ones have ended.
ConcurrentLaunched(g) ==
  /\ Going(g, "concurrent")
  /\ PendingTests(g, TRUE) = {}
  /\ pc' = [pc EXCEPT ![g] = "sequential"]
  /\ UNCHANGED <<filters, concurrency, statVars, status>>

\* for_each_concurrent has polled every test to its end.
ConcurrentDone(g) ==
  /\ Going(g, "concurrent")
  /\ PendingTests(g, TRUE) = {}
  /\ ActiveIn(stream(g, TRUE)) = {}
  /\ pc' = [pc EXCEPT ![g] = "sequential"]
  /\ UNCHANGED <<filters, concurrency, statVars, status>>

\* The last test has ended: the group drops its fixture and launches its
\* teardown.
SequentialDone(g) ==
  /\ Going(g, "sequential")
  /\ PendingTests(g, FALSE) = {}
  /\ ActiveIn(stream(g, FALSE)) = {}
  /\ record(g, {"TeardownLaunched"})
  /\ pc' = [pc EXCEPT ![g] = "teardown"]
  /\ UNCHANGED <<filters, concurrency, status>>

\* The body of t ended ("TestPassed", "TestFailed"): its fixture is dropped and
\* its teardown launched.
TestDone(t, event) ==
  /\ Going(t, "run")
  /\ record(t, {event, "TeardownLaunched"})
  /\ pc' = [pc EXCEPT ![t] = "teardown"]
  /\ UNCHANGED <<filters, concurrency, status>>

\* The teardown of n ended ("TeardownPassed", "TeardownFailed"); run returns
\* after that of the root group.
TeardownDone(n, event) ==
  /\ Going(n, "teardown")
  /\ record(n, {event})
  /\ pc' = [pc EXCEPT ![n] = "done"]
  /\ status' = IF n = Root THEN "finished" ELSE "running"
  /\ UNCHANGED <<filters, concurrency>>

-----------------------------------------------------------------------------
Launching ==
  \/ LaunchRoot
  \/ \E g \in Group \ {Root} : LaunchGroup(g)
  \/ \E t \in Test : LaunchConcurrent(t) \/ LaunchSequential(t)

SetupEnds ==
  \E n \in Node :
    \/ SetupPassed(n)
    \/ \E event \in {"SetupSkipped", "SetupFailed"} : SetupFailed(n, event)

BodyEnds ==
  \/ \E g \in Group : GroupsDone(g) \/ ConcurrentDone(g) \/ SequentialDone(g)
  \/ \E t \in Test, event \in {"TestPassed", "TestFailed"} : TestDone(t, event)

TeardownEnds ==
  \E n \in Node, event \in {"TeardownPassed", "TeardownFailed"} : TeardownDone(n, event)

Running == Start \/ Launching \/ SetupEnds \/ BodyEnds \/ TeardownEnds

RunnerNext == Configure \/ Running

RunnerSpec == RunnerInit /\ [][RunnerNext]_runVars

\* Every spawned task ends, if need be by its timeout (task.rs:88), and the
\* executor polls the walk again when it does.
FairRunnerSpec == RunnerSpec /\ WF_runVars(Running)

-----------------------------------------------------------------------------
(***************************************************************************)
(* Properties                                                              *)
(***************************************************************************)

\* No assertion of Statistics::record fails (statistics.rs:127, 133): the walk
\* enters only nodes with an included test, whatever the filters.  The trees
\* have no group without a test below it; see NoPanicEver.
NoPanic == (\A g \in Group : test_names(g) # {}) => ~panicked

\* The same without the condition on the tree.
NoPanicEver == ~panicked

\* What ended the test t: its own outcome, or a setup above it that did not pass.
Outcomes(t) ==
  Count({t}, {"TestPassed", "TestFailed", "SetupSkipped", "SetupFailed"})
  + Count(Above[t], {"SetupSkipped", "SetupFailed"})

\* When run returns, every included test has exactly one outcome, its own or
\* that of a group above it whose setup did not pass, nothing is recorded for
\* the other tests, and the counters of Statistics add up to the number of
\* included tests; a run that is_success has no test that did not run for a
\* reason other than being skipped.
Accounted ==
  status = "finished" =>
    /\ \A t \in included : Outcomes(t) = 1
    /\ Count(Test \ included, Event) = 0
    /\ tests_launched = tests_passed + tests_failed
    /\ Cardinality(included)
         = tests_launched + tests_skipped + tests_skipped_by_fixture_err
    /\ is_success => Cardinality(included) = tests_passed + tests_skipped

\* A test that is not enabled for concurrency at every level runs alone: from
\* its setup to the end of its teardown no other test is between its own.
ExclusiveTests ==
  \A s, t \in Test :
    (Active(s) /\ Active(t) /\ s # t) =>
      is_concurrency_enabled(s) /\ is_concurrency_enabled(t)

\* Never more tests at a time than Config::with_concurrency says, in the whole
\* tree and not only in one group.
WithinLimit == Cardinality(ActiveIn(Test)) <= Limit

\* While a test or a subgroup is between its setup and the end of its teardown,
\* every group above has passed its setup and not yet launched its teardown.
GroupSpansContent ==
  \A n \in Node : Active(n) =>
    \A g \in Above[n] : pc[g] \in {"groups", "concurrent", "sequential"}

\* When run returns, every setup that was launched has been followed by exactly
\* one teardown, the failed and the skipped ones included (test.rs:79).
TeardownForEverySetup ==
  status = "finished" =>
    \A n \in Node :
      /\ events[n]["SetupLaunched"] <= 1
      /\ events[n]["SetupLaunched"] = Count({n}, {"SetupPassed", "SetupSkipped", "SetupFailed"})
      /\ events[n]["SetupLaunched"] = events[n]["TeardownLaunched"]
      /\ events[n]["SetupLaunched"] = Count({n}, {"TeardownPassed", "TeardownFailed"})

\* A run that has started returns, with whatever selection of the filters.
RunEnds == status = "running" ~> (status = "finished" \/ panicked)
=============================================================================
