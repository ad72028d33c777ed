# TLA+ specification of e2etest-rs

`e2etest` is an asynchronous test framework: a tree of groups and tests, each with
a fixture that is set up before it and torn down after it, run by tokio tasks under
timeouts, some tests concurrently. Around it the repository has actors that manage
the processes and resources end-to-end tests need (ScyllaDB and Vector Store clusters,
a proxy, a firewall, a DNS server, TLS files). This directory holds TLA+ models of the
parts that carry the logic, TLC configurations that check them on small instances, and
TLAPS proofs: every safety invariant and action property that a passing run checks is also
a theorem for all values of the constants; those that depend on what callers do, for all
callers of which one starts processes and stops them before it starts them again.

Paths below are relative to `src/crates/`.

## Inventory

| Component | State | Operations | What is hard | What makes it correct |
|---|---|---|---|---|
| Fixture manager, `e2etest/src/fixture.rs` | `permanent`, `cache` of `Arc`s, behind one tokio mutex | `setup::<F>` (recursive through `F::setup`), `get`, `teardown` (loop of `extract_if` passes) | all groups and tests share it; a setup or teardown may be cut short by a panic or timeout at any await | nothing in use is torn down, nothing is set up twice, everything unused goes, every call returns |
| Timeouts, `e2etest/src/task.rs`, `test.rs`, `group.rs` | one clock per spawned task | `task::single` around every setup, test body and teardown | the clock runs while the task waits for the mutex; fixture code may hang with the mutex | every task ends; nobody pays for the hang of another while that one still has time |
| Filter, `e2etest/src/filter.rs` | map group -> names, set of groups | `new`, `consider_group`, `consider_test` | two collections used at different places; empty has a meaning of its own | the collections agree; exactly what is matched runs |
| Statistics, `e2etest/src/statistics.rs` | `defined`, `included`, `events` | `record` (with assertions), counters | the assertions panic the run when walk and selection disagree | no assertion fails; every included test is accounted for once |
| Runner, `run.rs`, `group.rs`, `test.rs`, `task.rs` | the position of each group and test | `run`, `run_group`, `run_test`, `task::{setup,test,teardown,single}` | concurrency flag inherited over cloned contexts, limit per group, every outcome of every task | exclusive tests run alone, the limit holds, a group spans its content, a teardown for every setup, the run ends |
| Config, `e2etest/src/lib.rs` | filters, permanent fixtures, limits | builders, `run` | - | part of the above |
| Backtrace, `e2etest/src/backtrace.rs` | process-wide panic hook | set, clear | shared by runs | log output only |
| Macros, `e2etest-macros` | none (compile time) | `#[group]`, `#[test]` | the generated fixtures ignore the timeouts of what they list | - |
| ScyllaDB cluster, `e2etest-scylla-cluster` | `nodes` with a `Child` each; a mailbox of 10 | ten calls, a final stop | clients are cancelled, calls of several clients interleave, a wait blocks the actor, spawning fails half way | no process is lost, no client hangs, ready means ready |
| Vector Store cluster, `e2etest-vector-store-cluster` | the same with an HTTP client per node | seven calls, a final stop | as above, plus a readiness timeout asserted inside the actor | as above |
| Proxy cluster, `e2etest-scylla-proxy-cluster` | an optional running proxy | five calls, a final stop | start over a running proxy at the same addresses, a proxy that fails to start | the translation map leads to a running proxy |
| Firewall, `e2etest-firewall` | list of blocked addresses, routes in the kernel | `DropTraffic`, `TurnOffRules` | one of several routes fails, while another client changes them; nothing is undone at the end | list and routes agree |
| DNS, `e2etest-dns` | zone, serial | `Upsert`, `Remove`, queries | calls are not acknowledged; a bad name panics the actor | what is answered follows what was sent |
| TLS, `e2etest-tls` | two temporary files | three queries | the files go with the actor, the paths stay with clients | paths stay valid |

Interactions: `run_group` and `run_test` call the fixture manager through tasks spawned by
`task::single`, ask the filter what to enter and record every outcome in the statistics.
Fixtures and test bodies call the actors over `mpsc` channels with `oneshot` replies; when
a test or fixture times out, its task is dropped and with it the receiver of a pending
reply. The hazards are listed with their lines in `PROJECT.json`.

## Modules

| Module | Models | Correspondence |
|---|---|---|
| `Lease` | what the fixture manager promises | abstract: fixtures are created on top of what they keep, leased, closed only when nobody can reach them |
| `Fixtures` | `fixture.rs` and its use by `test.rs`/`group.rs` | `lock` is the mutex, `stack` the nested `F::setup` futures of its holder, `cache` is `Inner::cache`, `todo` the entries the current `extract_if` pass has not reached, `tearing` the fixture whose teardown is awaited, `held` the `Arc`s of users. Reference counts are the set `Owners(f)` |
| `FixturesProofs` | theorems about `Fixtures` | |
| `TestTree` | the traits `Group` and `Test` | nodes stand for paths |
| `Filter` | `filter.rs`, `Config::with_filter` | a filter string is kept as the groups and names its matchers accept; `filter_map`, `group_set`, `consider_group`, `consider_test` keep their names |
| `FilterProofs` | theorems about `Filter` | |
| `Statistics` | `statistics.rs` | events are counted per node, as no query uses their order |
| `Runner` | `run.rs`, `group.rs`, `test.rs`, `task.rs` | `pc[n]` is the await at which `run_group`/`run_test` stands; a step is what happens between two awaits of spawned tasks, recording included |
| `RunnerProofs` | theorems about `Runner` and `Statistics` | |
| `E2eTest` | a whole run | composes `Runner` with an `INSTANCE` of `Fixtures` whose users are the nodes; launching and joining a task are joint steps |
| `E2eTestProofs` | theorems about `E2eTest` | |
| `Timeouts` | `task.rs` and who chooses the duration | `Fixtures` with `age[u]`, the clock of the task of `u`, and `begun`, when each nested setup was called; every action is one of `Fixtures` with clocks, and the mutex is FIFO |
| `TimeoutsProofs` | theorems about `Timeouts` | |
| `Actor` | what the six actors share | `mailbox[a]` is the mpsc channel, `current[a]` the message in `process`, `call[c]` where a client stands; `Reply` and `ExpectReply` are `tx.send(..)` without and with `expect` |
| `Processes` | `State::nodes` of the two clusters and their `Child`s | `orphans` counts processes no `Child` stands for; `Finish` and `Crash` end a call |
| `ScyllaCluster` | `e2etest-scylla-cluster` | one action per message and per `await` on a process inside it |
| `VectorStoreCluster` | `e2etest-vector-store-cluster` | the same; `WaitTimesOut` is the assertion on the 30 seconds |
| `Firewall` | `e2etest-firewall` | `phase` and `left` are where `process` stands between two requests to the kernel |
| `ScyllaProxyCluster` | `e2etest-scylla-proxy-cluster` | `listening` is what the proxy library holds, `proxy` what the actor knows |
| `Dns` | `e2etest-dns` | `zone` is the in-memory zone |
| `Tls` | `e2etest-tls` | `files` are the `NamedTempFile`s |
| `TestBed` | the five actors around a test | composes five `INSTANCE`s over one set of clients and mailboxes |
| `ActorProofs` | lemmas about every system of actors | |
| `TestBedProofs` | theorems about `TestBed` | |
| `ScyllaClusterProofs` | theorems about `ScyllaCluster` | |
| `MC_*` | instances for TLC | |

Abstractions worth knowing:

- A fixture's setup asks for a fixed list of dependencies (`Deps`), keeps some of their
  `Arc`s (`Keeps`) and passes on a `None`. That is what the macros generate; hand-written
  fixtures that ask for different dependencies at different times are covered only through
  different instances. `Setup::get` called by a fixture on its own is not modelled.
- In `Fixtures` a user starts over after its teardown: it stands for the tests that take
  turns in one slot of the runner. In `E2eTest` each node runs once.
- In `Fixtures` a panic and a timeout end a spawned task in the same way, at any time. A task
  that needs only free resources does not time out in the queue of the mutex: it can time out
  there only while somebody else holds the mutex. `Timeouts` takes this back: there a task
  times out when its clock says so and never otherwise, and it shows (`NotInQueue`) when the
  queue is no danger.
- Time in `Timeouts` is in ticks of any length. Steps take no time unless a tick happens in
  between; a task that is overdue ends, one way or the other, before the next tick.
- A test body may leave a task of its own behind that still owns an `Arc` of the fixture;
  the models assume that the body's `Arc`s go with the body.
- `panicked` in `Statistics` stops the walk: the assertion is in the task of `run` itself,
  outside of any spawned task.
- Processes end only when the actor kills them, and a paused or new process becomes ready at
  any later time, or never. How a node is configured (files, environment, command line, user)
  is left out. A Vector Store node has an HTTP client exactly when it has a process.
- A client of an actor is a task: it makes the calls of a plan, in order, and is cancelled
  (if it is `Impatient`) only while a call is under way. After that its cleanup is called, as
  the teardown of a fixture would.
- The kernel's routes, the proxy library's sockets and the zone handler are external and kept as
  sets. Killing a process and waiting for its end do not fail (`start_kill` and `wait` of the
  clusters), nor does opening the netlink socket (`NlRouter::connect` of the firewall), nor what
  an actor does as it starts: binding the DNS server, writing the TLS files. The code has an
  `unwrap` or `expect` at each of them. A proxy fails to run when another listens on one of its
  addresses, or for no reason the model knows. An upsert of another address replaces the record
  or adds one.
- Proxy rules are kept as present or absent per kind, serial numbers of the zone are left out.

## Runs

All bounds are constants of the `MC_*` modules and configurations.

| Run | Shows |
|---|---|
| `fixtures` | three users, seven fixtures (shared, nested up to three deep, read but not kept, permanent): `InUseLive`, `SetupOnce`, `NoLeak`, the refinement `LeasePromise` and the liveness `TasksEnd`. Three users are one that holds, one that sets up and one that tears down; the graph makes a teardown take up to four passes |
| `filter` | all filter matches over groups nested two deep, two filters at a time: `SelectionCoherent`, `SelectsOnlyMatches`, `OneFilterIsExact`. What two filters do to each other in one group already happens with two |
| `runner` | root, a group with two concurrent tests and an exclusive one, a group that disallows the concurrency its test asks for; limits 0, 1 and 2; no filter, one by name, one by group: `NoPanic`, `Accounted`, `ExclusiveTests`, `WithinLimit`, `GroupSpansContent`, `TeardownForEverySetup`, `RunEnds` |
| `e2etest` | root, subgroup, two concurrent and one sequential test over five fixtures: `GroupFixturesUp`, `NothingOutlivesItsUsers`, `RootTeardownSweeps`, `RunReturns`. Setups and teardowns may fail at any time, but `RunReturns` counts on none of it: the mutex is passed on, and the last teardown ends |
| `timeouts` | a group and two tests whose generated fixtures meet at a fixture A, one of them through a fixture B built on A; default timeout two ticks, one test body declares one: `TimedTypeOK`, `NotInQueue`, `HangsEnd`. Two ticks are the least with which two tasks in the queue can differ in age |
| `scylla` | two nodes, two clients, a mailbox of two; one client starts, takes down and restarts nodes; the other asks about them, stops the cluster, or takes a node or the cluster down in between; either may be cancelled and any command may fail to start: `ProcessesOwned`, `DiesOnlyOfFaults`, `ReadyMeansReady`, `NobodyHangs`, and `CallsFit`, what the first three take for granted of callers. A mailbox of two is full while the actor works, as ten slots would be with more clients |
| `testbed` | the other five actors, two nodes, two names (one cannot be parsed), two clients, the first of which may be cancelled at any call and in its cleanup; any process, route or proxy may fail. Four pairs of plans make the two clients meet at the Vector Store (one of them stops a node that the other restarts), the firewall, the proxy and the zone, and leave the DNS actor dead to the other: `TypeOK`, `DiesOnlyOfFaults`, `StoresNotStartedTwice`, `StoresReady`, `NothingLeftBehind`, `BlockedAsAsked`, `MapIsServed`, `UpdatesTakeEffect`, `PathsLead`, `AnswersFollowCalls`, `NobodyHangs`. In one pair the cleanup of a client removes the DNS name that the other has upserted: an update is in effect unless another client has changed the name since, which `changer` remembers |

`CHECK_DEADLOCK FALSE` is set where the system really ends (a finished run, a stopped actor,
a complete list of filters); the fixture manager is checked for deadlock.

### Disagreements between the code and what it says

Five further runs end in a counterexample; `PROJECT.json` quotes the lines.

- `filter_no_match`: a filter that matches nothing runs every test.
- `timeouts_declared`: the timeout that a fixture declares does not apply when a generated
  fixture lists it, which is the only way the macros use fixtures.
- `runner_empty_group`: a group without a test below it panics the run.
- `scylla_timeout`: a client that is cancelled during a call kills the actor. The other actors
  but TLS do the same. Besides that an actor dies when the system fails it (a process, nodetool,
  a proxy that cannot be run), the DNS actor also of a name it cannot parse, and the Vector
  Store's of a node that does not serve within 30 seconds. `DiesOnlyOfFaults` says that there
  is no other way. For these three the model marks the actor as `disturbed` in the step in
  which it dies, so the property does not judge them; what a death does to the clients and to
  what the actor holds is for `NobodyHangs` and `NothingLeftBehind`.
- `scylla_wait`: a `wait_for_ready` between another client's `down` and `up` blocks the actor
  for ever.

Four behaviours of the code shape what the other runs state, and have no run of their own:

- A filter that names a test of a group drops the other tests of that group that another
  filter selects as a whole: `SelectsOnlyMatches` says that what runs is matched, and
  `OneFilterIsExact` the converse for one filter only.
- A test directly under the root group is selected by no filter, not even by its own name:
  `Filter::new` takes the group off the path of a test before it looks, and such a path has
  none. The test runs only if there is no filter or no filter matches anything.
  `OneFilterIsExact` and the other properties of `Filter` are about tests in a group
  (`Listed`).
- When the teardown of the root group is cut short, fixtures behind the failing one are never
  torn down: `RootTeardownSweeps` speaks of a teardown that returns.
- Two clients that interleave `restart`, `down` and `up` of a ScyllaDB node overwrite a `Child`
  that runs, and its process is lost. The actor takes it for granted that nobody does
  (`CallsFit`), and its `wait_for_ready` asks an address, not a `Child`: with a lost process
  there, or two nodes at one address, it may say true of a node that is down. The plans of
  the run `scylla` keep to `CallsFit`: only one client starts processes. What the other may do
  to it is to stop or take down nodes.

## Fairness

- `Fixtures!FairSpec`: weak fairness of the steps of the holder of the mutex (fixture code
  and test bodies return) and strong fairness for getting the mutex, which is FIFO in tokio.
  Failing steps carry none, so `TasksEnd` does not rest on timeouts.
- `FairRunnerSpec`: weak fairness of the walk as a whole; every spawned task ends, if need be
  by its timeout, and the walk is finite.
- `E2eTest!FairSpec`: weak fairness of the walk, and for each node of getting the mutex and of
  its work in the manager. Failing setups and teardowns, which include those that time out,
  carry none, so `RunReturns` does not rest on them. Weak fairness of getting the mutex is
  enough, as a node asks for it twice and every other node does, too: it is free for good in
  the end.
- `FairTimedSpec`: weak fairness of time, and of each task for what needs no fixture code:
  getting the mutex when it is first in line, the manager's own steps, being ended by its
  timer. The code of fixtures and tests has none: `HangsEnd` rests on timeouts alone.
- `ScyllaCluster!FairSpec`: the actor and each client go on when they can, and a running
  process becomes ready. Cancelling and failing carry none.
- `TestBed!FairSpec`: each actor and each client go on when they can. Nothing is assumed of
  the processes: `wait_for_node` of the Vector Store cluster gives up after 30 seconds.

## Proofs

`FixturesProofs` proves, for every set of users and fixtures, every acyclic graph of
dependencies and every choice of permanent fixtures:

| Theorem | States |
|---|---|
| `TypeCorrect` | `Spec => []TypeOK` |
| `InUseLiveHolds` | `Spec => []InUseLive` |
| `SetupOnceHolds` | `Spec => []SetupOnce` |
| `ImplementsLease` | `Spec => LeasePromise` |
| `NoLeakHolds` | `Spec => []NoLeak` |

and `TimeoutsProofs`, for every choice of timeouts besides:

| Theorem | States |
|---|---|
| `TimedImplements` | `TimedSpec => Spec`: all of the above holds whatever times out |
| `TimedTypeCorrect` | `TimedSpec => []TimedTypeOK`: no task outlives its timeout |
| `NotInQueueHolds` | `TimedSpec => []NotInQueue` if all groups and tests have generated fixtures |

and `FilterProofs`, for every tree of groups and tests and every set of filters, however many:

| Theorem | States |
|---|---|
| `SelectionCoherentHolds` | `FilterSpec => []SelectionCoherent` |
| `SelectsOnlyMatchesHolds` | `FilterSpec => []SelectsOnlyMatches` |
| `OneFilterIsExactHolds` | `FilterSpec => []OneFilterIsExact` |

and `TestBedProofs`, for every set of clients, whatever they call in whatever order, whichever
of them are cancelled and whatever is called for them then, and mailboxes of any size:

| Theorem | States |
|---|---|
| `OnlyFaultsKill` | `Spec => []DiesOnlyOfFaults` |
| `CallsAreFollowed` | `Spec => AnswersFollowCalls` |
| `ReadyIsReady` | `Spec => StoresReady` |
| `BlockedIsAsked` | `Spec => []BlockedAsAsked` |
| `MapServed` | `Spec => []MapIsServed` |
| `PathsLeadHolds` | `Spec => []PathsLead` |
| `UpdatesTakeEffectHolds` | `Spec => UpdatesTakeEffect` |
| `TypeOKHolds` | `Spec => []TypeOK` |
| `ServersGoneHolds` | `Spec => []ServersGone`: the parts of `NothingLeftBehind` about proxy, DNS server and files |
| `NothingLeftBehindHolds` | `Spec /\ []StoresNotStartedTwice => []NothingLeftBehind` |
| `StoresNotStartedTwiceHolds` | `Spec => []StoresNotStartedTwice` if one client starts nodes, in turn (`OneStarts`) |
| `OneStarterLeavesNothing` | `Spec => []NothingLeftBehind` for such clients |

and `ScyllaClusterProofs`, for any number of nodes besides, whichever processes and commands
fail:

| Theorem | States |
|---|---|
| `OnlyFaultsKill` | `Spec /\ []CallsFit => []DiesOnlyOfFaults` |
| `ProcessesOwnedHolds` | `Spec /\ []CallsFit => []ProcessesOwned` |
| `ReadyIsReady` | `Spec /\ []CallsFit => ReadyMeansReady` |
| `CallsFitHolds` | `Spec => []CallsFit` if one client starts processes, in turn (`OneStarts`) |
| `ServesOneStarter` | the first three, for such clients, with no premise about states |
| `ReadyMeansAnswering` | `Spec` alone: `wait_for_ready` is true only if there are nodes and something answers at the address of each |
| `CallsAreFollowed` | `Spec => AnswersFollowCalls` |
| `TypesHold` | `Spec => [](ActorTypeOK /\ ProcessesTypeOK)` |

and `RunnerProofs`, for every finite tree, all filters and limits, whatever setups, tests and
teardowns fail:

| Theorem | States |
|---|---|
| `RunnerTypeOKHolds` | `RunnerSpec => []RunnerTypeOK` |
| `NoPanicHolds` | `RunnerSpec => []NoPanic` |
| `GroupSpansContentHolds` | `RunnerSpec => []GroupSpansContent` |
| `WithinLimitHolds` | `RunnerSpec => []WithinLimit` |
| `ExclusiveTestsHolds` | `RunnerSpec => []ExclusiveTests` |
| `TeardownForEverySetupHolds` | `RunnerSpec => []TeardownForEverySetup` |
| `AccountedHolds` | `RunnerSpec => []Accounted` |

and `E2eTestProofs`, for every such tree with every acyclic graph of fixtures:

| Theorem | States |
|---|---|
| `ImplementsParts` | `Spec => RunnerSpec /\ FP!Spec`: a run is one of the walk and one of the manager, and all of the above holds in it |
| `GroupFixturesUpHolds` | `Spec => []GroupFixturesUp` |
| `NothingOutlivesItsUsersHolds` | `Spec => []NothingOutlivesItsUsers` |
| `RootTeardownSweepsHolds` | `Spec => []RootTeardownSweeps` |

### Assumptions

`FixturesAssumption` in `Fixtures`. It types the constants and gives every fixture a `Depth`
greater than that of whatever is built on it, that is, dependencies have no cycle; with a
cycle the future of `F::setup` would have infinite size. TLC evaluates it in the run
`fixtures`. `TimeoutsAssumption` in `Timeouts` types the timeouts: they are positive.
`ActorAssumption` says that clients make calls to actors, `TestBedAssumption` and
`ScyllaClusterAssumption` that the arguments of calls are what the traits make them:
sequences or sets of addresses, and no reply for an update of the zone. `RunnerAssumption`
says that the tree is finite, and `E2eTestAssumption` that the fixtures of a run meet
`FixturesAssumption`. `TreeAssumption` and `FilterAssumption` say what a tree and a filter
are: paths of parents, different names for the tests of one group. TLC evaluates all of them
in the runs of their modules.

The two hypotheses `CallsFit` and `StoresNotStartedTwice` are about callers. `up_node`, `up` and
`start_node` replace a `Child` without looking whether its process runs, and `up` indexes the
configurations it is given by the positions of the nodes; the theorems are false without.
Both are invariants of the runs `scylla` and `testbed`, cancelled clients included, and a
mutant of the code breaks each of them there.

Both follow from `OneStarts`, which speaks of the plans of the clients and of no state: one
client starts processes, each after it has stopped the last one; no cleanup starts any; and,
for ScyllaDB, no cluster has an address twice and each `up` has a configuration for each of
its nodes. The other clients may stop what they like, and anyone may be cancelled anywhere.
`restart` meets it, as it calls `down_node` before `up_node`, and so does a fixture that
starts a cluster in its setup and stops it in its teardown. TLC evaluates `OneStarts` for
the plans of both runs (`PlansInTurn`), so the runs are instances of `ServesOneStarter` and
`OneStarterLeavesNothing`.

### Arguments

The inductive invariant `IInv` is needed because none of the properties is inductive:

- `MutexInv`: the holder of the mutex is in a setup or a teardown; `stack` is non-empty exactly
  during a setup, `todo` and `tearing` are in use only during a teardown. So no setup runs
  while the cache is scanned.
- `ChainInv`: each frame of `stack` waits for the dependency that the next frame sets up;
  with `Depth` growing along the chain no fixture appears in it twice.
- `CacheInv`: `todo` is part of `cache`, and permanent fixtures are never cached.
- `HeldInv`: a user owns an `Arc` only while it uses its fixture.

with `TypeOK`, `InUseLive` and `SetupOnce` themselves. For the refinement each step maps to a
step of `Lease` or to a stutter (`StepLease`); what makes it true is `InUseLive`.

`NoLeak` needs a second invariant, `PassInv`, about the scan: in a pass that has found nothing
so far, every entry already passed is excused, by a user that holds it, by another user that
is about to run its own teardown, or by a cached fixture that is built on it. When the last
teardown returns, only the last reason is left, and by well-founded minimality of `Depth` a
non-empty cache has an entry on which no other is built (`Uppermost`): the cache is empty.

`NotInQueue` follows from three facts. `HolderOldest`: whoever waits for the mutex was spawned
no earlier than its holder, as the mutex is FIFO and a holder keeps its task until it lets go
(`HolderKeepsTask`). `ClockInv`: the clocks of all tasks advance together and never pass a
deadline. And with generated fixtures no setup or teardown has a timeout of its own, so the
deadlines of holder and waiter are both the default. The last is a hypothesis of the theorem:
a hand-written fixture of a test with a longer timeout can hold the mutex past the deadlines
of those behind it.

For the actors, `ActorProofs` gathers what holds of every system of actors, whatever they do
with their messages: `ProtocolInv` is kept by every `ProtocolStep`, and each step of `TestBed`
is one (`NextIsProtocolStep`; every way a `process` function ends is a reply or a panic,
`Serves`). With a message's place counted from the one in `process`, it says that a client
awaits at most one reply (`OneCall`) and as long as it is coming (`Awaited`), that behind that
call there is no message of the same client (`LastCall`), and that a message without a client
is at an actor that is `disturbed` (`UnheardDisturbed`). On top of it `BedInv` has an invariant
per actor: `VsInv`, the nodes that `wait_for_ready` has passed still run, as only it counts
them; `FwInv`, what the two loops of the firewall have left; `PxInv`; and `TlsInv`, the files
are there until all clients have gone, and no client comes back (`ClosedStays`).

`UpdatesTakeEffect` relates an answer to calls that nobody acknowledged. `ZoneInv` follows the
last change of a name that a client has called: either it is the last one of this client in
the mailbox, or none of this client is there, and the record is as that change left it,
unless another client has changed it since. It rests on the type invariant: what a client
has still to call is a suffix of its plan, so the last change called is known. At an answer
nothing of the client is left in front (`LastCall`) or behind.

`NothingLeftBehind` has a part per actor. As long as the Vector Store actor has not panicked
it has the `Child` of every process (`StoresKept`): a call either takes the `Child` of what it
kills, or gives one to a node without. So what answers at the end is in `nodes`, and the
final stop reaches it (`StoresEmptied`). A panic drops `State`, and the processes with it go on.

The same holds of the ScyllaDB actor (`OwnedInv`), whose panic on an `up` with too few
configurations (`Abandons`) is the only one that is no step of the protocol. Its
`wait_for_ready` needs more: `NodesInv` says that the addresses it has passed still answer, and
only because every process has its `Child` (`Answered`) and no two nodes share an address does
that mean the nodes run. The Vector Store's asks an address, too, that of the node's HTTP
client, and is not told who answers. It needs no hypothesis because it asks only nodes that
have a client, and the client comes and goes with the `Child`: `StoresReady` says that each
node has a process of its own and that its address serves.

`ReadyMeansAnswering` needs neither `CallsFit` nor the invariant about the `Child`s: `NodesInv`
alone says that the addresses passed so far still answer, as only a call to the actor kills a
process that is ready. A process that was lost may be the one that answers.

That plans in which each start follows a stop make calls that fit (`TurnInv`) is an argument
about the order in which calls arrive. For an actor and a client, `Line` has the places of
the calls of some kind: first the one in `process`, then those in the mailbox, whoever made
them, then those that the client has still to make. `Fit` says that between any two calls
that start a process of an address there is one that stops it, and that there is one before
the first start, too, if the process runs now. What steps do to a line is proved once in
`ActorProofs` for all actors. Taking a call and sending one move places and keep their
order, as the mailbox is FIFO. A cancellation takes away the end of the line, and puts a
cleanup there that starts nothing; the call that was cancelled keeps its place, without its
client. When the call in front is served, either it was a stop and nothing runs, or it was a
start, and the next start has a stop before it. Calls of others only add stops (`Quiet`). So
a start that is in front finds its process stopped, which is what `CallsFit` says.

For the walk, `RInv` has five parts, as none of the properties is inductive. `EnteredInv`:
what is entered was selected. `WalkInv` says how active nodes stand to each other: each is
where the stage of its group launches it (`StageInv`), the groups above it are active
(`GroupSpansContent`, which needs `PathInv`: below each of them something active leads to
it), and any two active nodes are on one path or concurrent tests of one group (`OnePath`);
that is why the limit of one group is the limit of the run, and why an exclusive test is
alone. `RecordInv` says that what was recorded for a node tells where it stands, that groups
above an entered node have passed their setup, and that a group past a stage has nothing of
it left to do (`DoneInv`). With `NoPanic` and `WithinLimit` themselves it is inductive.

`Accounted` and `TeardownForEverySetup` then speak of the end of the run, when everything is
done or was never entered: a test that was not entered is below exactly one group whose setup
did not pass (the walk went down to it and no further), and that group counts it. The
counters are sums over nodes, computed by a fold; what a sum does when a summand is taken out
(`Total`) is proved by induction over subsets of a finite set, stated with sets in place of
the operators that the library's induction theorems take (`NatSet`).

For a whole run, a step is one of the walk and one of the manager, so `RInv` and the
invariants of `Fixtures` hold in it. `TaskInv` relates the two: where the walk stands with a
node is what the manager does for it. `GroupFixturesUp` follows from `GroupSpansContent` and
`InUseLive`: a group between setup and teardown owns its fixture, and that owns what it
keeps. For `NothingOutlivesItsUsers`, an instance is needed by a node that is not idle
(`UsersInv`): a setup creates only what its task needs (`FrameInv`), and a teardown that
returns has found nothing to take (`PassInv`), so that an uppermost cached fixture is held
or about to be asked for by somebody else. The teardown of the root group is alone
(`RootAlone`), so what it leaves is empty whatever failed before, and as nothing follows it
stays so (`SweepInv`). `Needs` is there the least set of fixtures that is closed under
dependencies: what a recursive walk from the fixture computes, in a form that can be
reasoned about.

The theorems about `Filter` need no invariant: the two collections are functions of the
filters, and `Entries` says what is in them. `OnlyMatches` and `GroupsHaveTests` then speak of
one test at a time; names that are unique in a group are what makes a name in the map stand
for one test.

### Only model-checked

The liveness properties (`TasksEnd`, `RunEnds`, `RunReturns`, `HangsEnd`, `NobodyHangs`) are
out of the prover's reach, as is what a recursive definition computes for every input.
The five disagreements are counterexamples of single instances.

## Plan

What would extend the project most is `TestBed` and `E2eTest` together: the plans of the
clients as the bodies of tests and fixtures, the cancellation as the timeout of `Timeouts`.
`OneStarts` would then be a property of the tree of tests.

## Not modelled

`backtrace.rs` (log output), the macros' code generation, command lines and configuration
files of the processes, key and certificate generation, the rendering of statistics, log
messages, the integration tests.
