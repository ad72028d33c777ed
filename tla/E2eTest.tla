------------------------------ MODULE E2eTest ------------------------------
(***************************************************************************)
(* A whole run: the walk of Runner and the fixture manager of Fixtures,    *)
(* with the groups and tests as the users of the manager.  A step of the   *)
(* walk that launches or awaits a setup or a teardown is one step with the *)
(* corresponding step of the manager; inside a setup or a teardown the     *)
(* manager moves alone.                                                    *)
(***************************************************************************)
EXTENDS Runner, Sequences

CONSTANTS Fixture, Want, Deps, Keeps, Depth, Permanent, NoUser, NoFixture

VARIABLES phase, held, lock, stack, cache, todo, found_any, tearing, aborted

Manager == INSTANCE Fixtures WITH User <- Node

\* The associated types of the groups and tests satisfy what Fixtures assumes.
ASSUME E2eTestAssumption == Manager!FixturesAssumption

managerVars == <<phase, held, lock, stack, cache, todo, found_any, tearing, aborted>>

vars == <<runVars, managerVars>>

Init == RunnerInit /\ Manager!Init

-----------------------------------------------------------------------------
\* task::setup spawns Fixtures::setup for the node.
Launches ==
  \E n \in Node :
    /\ Manager!SetupLaunched(n)
    /\ \/ n = Root /\ LaunchRoot
       \/ n \in Group \ {Root} /\ LaunchGroup(n)
       \/ n \in Test /\ (LaunchConcurrent(n) \/ LaunchSequential(n))

\* The manager moves inside a setup or a teardown, the walk waits.
ManagerAlone ==
  /\ status = "running" /\ ~panicked
  /\ UNCHANGED runVars
  /\ \E n \in Node :
       \/ Manager!SetupEnter(n)
       \/ Manager!SetupDep(n)
       \/ Manager!SetupSome(n) /\ phase' = phase
       \/ Manager!TeardownEnter(n)
       \/ \E f \in Fixture : Manager!Visit(n, f)
       \/ Manager!TornDown(n)
       \/ Manager!NextPass(n)

\* The spawned setup ends, with Some, with None or with an error.
SetupJoined ==
  \E n \in Node :
    \/ SetupPassed(n) /\ Manager!SetupGet(n)
    \/ SetupPassed(n) /\ Manager!SetupSome(n) /\ phase' # phase
    \/ SetupFailed(n, "SetupSkipped") /\ Manager!SetupFails(n, "none")
    \/ SetupFailed(n, "SetupFailed") /\ Manager!SetupFails(n, "err")

\* The body ends: the fixture is dropped and the teardown launched.
BodyJoined ==
  \/ \E g \in Group : SequentialDone(g) /\ Manager!Drop(g)
  \/ \E t \in Test, event \in {"TestPassed", "TestFailed"} :
       TestDone(t, event) /\ Manager!Drop(t)

TeardownJoined ==
  \E n \in Node :
    \/ TeardownDone(n, "TeardownPassed") /\ Manager!TeardownReturns(n)
    \/ TeardownDone(n, "TeardownFailed") /\ Manager!TeardownFails(n)

\* The walk moves alone, between two tasks.
WalkAlone ==
  /\ UNCHANGED managerVars
  /\ Start \/ \E g \in Group : GroupsDone(g) \/ ConcurrentDone(g)

Next ==
  \/ UNCHANGED managerVars /\ Configure
  \/ WalkAlone
  \/ Launches
  \/ ManagerAlone
  \/ SetupJoined
  \/ BodyJoined
  \/ TeardownJoined

Spec == Init /\ [][Next]_vars

\* The walk goes on, the code of fixtures and tests returns, and a task gets the mutex
\* of the manager if it stays free: every node takes it twice at most, so the FIFO
\* order of tokio is not needed.  Steps that a timeout or a panic takes (SetupFails,
\* TeardownFails) carry no fairness.
FairSpec ==
  /\ Spec
  /\ WF_vars(WalkAlone \/ Launches)
  /\ \A n \in Node : /\ WF_vars(Manager!Queue(n) /\ Next)
                      /\ WF_vars(Manager!Work(n) /\ Next)

-----------------------------------------------------------------------------
(***************************************************************************)
(* Properties                                                              *)
(***************************************************************************)

\* S contains the dependencies of its members.
Closed(S) == \A f \in S : \A i \in DOMAIN Deps[f] : Deps[f][i] \in S

\* All fixtures that the setup of f may create: the least closed set with f.
Needs ==
  [f \in Fixture |->
     {g \in Fixture : \A S \in SUBSET Fixture : (f \in S /\ Closed(S)) => g \in S}]

\* While a test or a subgroup runs, the fixtures of all groups above are up,
\* whatever teardown its siblings run at the same time.
GroupFixturesUp ==
  \A n \in Node : Active(n) => \A g \in Above[n] : Want[g] \in cache \cup Permanent

\* As long as no teardown has failed, a fixture lives only while a group or a
\* test that asked for it, directly or not, is between the launch of its setup
\* and the end of its teardown: a sequential test never meets the fixtures of
\* an earlier test.
NothingOutlivesItsUsers ==
  ~aborted => \A f \in Manager!Instances : \E n \in Node : Active(n) /\ f \in Needs[Want[n]]

\* The teardown of the root group also removes what failed teardowns of other
\* nodes have left in the cache.
RootTeardownSweeps == events[Root]["TeardownPassed"] > 0 => cache = {}

\* A run returns without the help of any timeout, as long as the code of fixtures and
\* tests does: no node waits for ever for the mutex of the manager, no holder waits for
\* what only another task could do, and no teardown loop goes on for ever
\* (fixture.rs:31, 171).
RunReturns == status = "running" ~> (status = "finished" \/ panicked)
=============================================================================
