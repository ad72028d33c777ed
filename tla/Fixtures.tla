------------------------------ MODULE Fixtures ------------------------------
(***************************************************************************)
(* The fixture manager of crates/e2etest/src/fixture.rs: a mutex-protected *)
(* cache of reference-counted fixtures, used concurrently by the groups    *)
(* and tests of a run.                                                     *)
(*                                                                         *)
(* A user (a group or a test) launches the setup of its fixture type, uses *)
(* the Arc it gets, drops it and launches a teardown.  A user starts again *)
(* after that: it stands for the tests that take their turns in one slot   *)
(* of the runner, with a common fixture type.  Setup and teardown run as   *)
(* spawned tasks under a timeout, so each may end at any await: in the     *)
(* queue of the mutex, inside a fixture's own setup, inside a fixture's    *)
(* own teardown.  A fixture passes on the None of a dependency, as the     *)
(* generated fixtures do with `?`.                                         *)
(*                                                                         *)
(* Reference counts are not numbers here.  The owners of a cached fixture  *)
(* besides the cache are listed by Owners; Arc::strong_count is 1 exactly  *)
(* when that set is empty.                                                 *)
(***************************************************************************)
EXTENDS Naturals, Sequences

CONSTANTS
  Fixture,     \* fixture types (TypeId)
  User,        \* groups and tests
  Want,        \* Want[u]: the associated type Fixture of the group or test u
  Deps,        \* Deps[f]: what F::setup asks the manager to set up, in order
  Keeps,       \* Keeps[f]: the dependencies whose Arc the fixture stores
  Depth,       \* a depth of each fixture below what is built on it
  Permanent,   \* fixtures given to Config::with_permanent_fixture
  NoUser,      \* the mutex is free
  NoFixture    \* no fixture's teardown is running

\* Deps has no cycle: F::setup awaits Setup::setup::<D> with D::setup inlined in
\* its own future, so a cycle of fixtures is a future of infinite size, which
\* rustc refuses (and which, boxed, would not end).
ASSUME FixturesAssumption ==
  /\ Want \in [User -> Fixture]
  /\ Deps \in [Fixture -> Seq(Fixture)]
  /\ Keeps \in [Fixture -> SUBSET Fixture]
  /\ \A f \in Fixture : \A d \in Keeps[f] : \E i \in DOMAIN Deps[f] : Deps[f][i] = d
  /\ Depth \in [Fixture -> Nat]
  /\ \A f \in Fixture : \A i \in DOMAIN Deps[f] : Depth[Deps[f][i]] > Depth[f]
  /\ Permanent \subseteq Fixture
  /\ NoUser \notin User
  /\ NoFixture \notin Fixture

VARIABLES
  phase,       \* phase[u]: where run_test / run_group of u stands
  held,        \* held[u]: fixtures whose Arc the user u has in its hands
  lock,        \* holder of the mutex around Inner
  stack,       \* nested F::setup calls of the holder, outermost first
  cache,       \* Inner::cache
  todo,        \* entries the current extract_if pass has not reached yet
  found_any,   \* the loop flag of Inner::teardown
  tearing,     \* the extracted fixture whose teardown is awaited
  aborted      \* history: some teardown task panicked or timed out

vars == <<phase, held, lock, stack, cache, todo, found_any, tearing, aborted>>

Phase == {"idle", "setup", "using", "teardown"}

\* One F::setup in progress: `got` of its dependencies are already acquired.
Frame == [fixture : Fixture, got : Nat]

\* The variables have their types, and no F::setup has acquired more than it
\* asks for (fixture.rs:119).
TypeOK ==
  /\ phase \in [User -> Phase]
  /\ held \in [User -> SUBSET Fixture]
  /\ lock \in User \cup {NoUser}
  /\ stack \in Seq(Frame)
  /\ \A i \in DOMAIN stack : stack[i].got <= Len(Deps[stack[i].fixture])
  /\ cache \in SUBSET Fixture
  /\ todo \in SUBSET Fixture
  /\ found_any \in BOOLEAN
  /\ tearing \in Fixture \cup {NoFixture}
  /\ aborted \in BOOLEAN

-----------------------------------------------------------------------------
\* Instances that exist: cached ones and the one being torn down.
Instances == cache \cup ({tearing} \ {NoFixture})

\* Mutant: the lookup misses the cache.
AvailableButCache == Permanent

\* What Inner::get finds.
Available == cache \cup Permanent

\* Mutants: the count misses the Arcs of other fixtures, or those of users.
OwnersButFixtures(f) == {u \in User : f \in held[u]}

OwnersButUsers(f) == {g \in Instances : f \in Keeps[g]}

\* Everything but the cache that owns an Arc of f while the cache is scanned.
Owners(f) == {u \in User : f \in held[u]} \cup {g \in Instances : f \in Keeps[g]}

Top == stack[Len(stack)]

\* The innermost call returned Some: its caller has one dependency more.
PopFrame(s) ==
  [SubSeq(s, 1, Len(s) - 1) EXCEPT ![Len(s) - 1].got = @ + 1]

Init ==
  /\ phase = [u \in User |-> "idle"]
  /\ held = [u \in User |-> {}]
  /\ lock = NoUser
  /\ stack = <<>>
  /\ cache = {}
  /\ todo = {}
  /\ found_any = FALSE
  /\ tearing = NoFixture
  /\ aborted = FALSE

-----------------------------------------------------------------------------
(***************************************************************************)
(* Setup                                                                   *)
(***************************************************************************)

\* task::setup spawns Fixtures::setup::<F>; the task queues for the mutex.
SetupLaunched(u) ==
  /\ phase[u] = "idle"
  /\ phase' = [phase EXCEPT ![u] = "setup"]
  /\ UNCHANGED <<held, lock, stack, cache, todo, found_any, tearing, aborted>>

\* Inner::setup finds the fixture: one uninterrupted visit of the mutex.
SetupGet(u) ==
  /\ phase[u] = "setup"
  /\ lock = NoUser
  /\ Want[u] \in Available
  /\ phase' = [phase EXCEPT ![u] = "using"]
  /\ held' = [held EXCEPT ![u] = {Want[u]}]
  /\ UNCHANGED <<lock, stack, cache, todo, found_any, tearing, aborted>>

\* Inner::setup calls F::setup, keeping the mutex for as long as it runs.
SetupEnter(u) ==
  /\ phase[u] = "setup"
  /\ lock = NoUser
  /\ Want[u] \notin Available
  /\ lock' = u
  /\ stack' = <<[fixture |-> Want[u], got |-> 0]>>
  /\ UNCHANGED <<phase, held, cache, todo, found_any, tearing, aborted>>

\* Mutant: a dependency is counted when it is asked for and when it arrives.
SetupDepCountsTwice(u) ==
  /\ phase[u] = "setup"
  /\ lock = u
  /\ Top.got < Len(Deps[Top.fixture])
  /\ LET d == Deps[Top.fixture][Top.got + 1]
         asked == [stack EXCEPT ![Len(stack)].got = @ + 1]
     IN stack' = IF d \in Available
                 THEN asked
                 ELSE Append(asked, [fixture |-> d, got |-> 0])
  /\ UNCHANGED <<phase, held, lock, cache, todo, found_any, tearing, aborted>>

\* Mutant: F::setup asks for its dependency by way of Fixtures::setup, which locks the
\* mutex that the task holds already.
SetupDepLocks(u) ==
  /\ phase[u] = "setup"
  /\ lock = NoUser /\ stack # <<>>
  /\ Top.got < Len(Deps[Top.fixture])
  /\ lock' = u
  /\ stack' = Append(stack, [fixture |-> Deps[Top.fixture][Top.got + 1], got |-> 0])
  /\ UNCHANGED <<phase, held, cache, todo, found_any, tearing, aborted>>

\* The innermost F::setup asks for its next dependency.
SetupDep(u) ==
  /\ phase[u] = "setup"
  /\ lock = u
  /\ Top.got < Len(Deps[Top.fixture])
  /\ LET d == Deps[Top.fixture][Top.got + 1]
     IN stack' = IF d \in Available
                 THEN [stack EXCEPT ![Len(stack)].got = @ + 1]
                 ELSE Append(stack, [fixture |-> d, got |-> 0])
  /\ UNCHANGED <<phase, held, lock, cache, todo, found_any, tearing, aborted>>

\* The innermost F::setup returns Some: the instance enters the cache and a
\* clone of its Arc goes to the calling frame or, from the outermost one, to
\* the user, which releases the mutex.
SetupSome(u) ==
  /\ phase[u] = "setup"
  /\ lock = u
  /\ Top.got = Len(Deps[Top.fixture])
  /\ cache' = cache \cup {Top.fixture}
  /\ IF Len(stack) = 1
     THEN /\ phase' = [phase EXCEPT ![u] = "using"]
          /\ held' = [held EXCEPT ![u] = {Top.fixture}]
          /\ lock' = NoUser
          /\ stack' = <<>>
     ELSE /\ stack' = PopFrame(stack)
          /\ UNCHANGED <<phase, held, lock>>
  /\ UNCHANGED <<todo, found_any, tearing, aborted>>

\* Some F::setup returns None, which the callers pass on ("none"), or the
\* spawned task panics or times out, possibly still queued behind another
\* holder of the mutex ("err").  The frames are dropped with the Arcs they own,
\* the fixtures they set up stay cached, and the user launches a teardown.
SetupFails(u, result) ==
  /\ phase[u] = "setup"
  /\ lock # NoUser
  /\ result = "none" => lock = u
  /\ phase' = [phase EXCEPT ![u] = "teardown"]
  /\ lock' = IF lock = u THEN NoUser ELSE lock
  /\ stack' = IF lock = u THEN <<>> ELSE stack
  /\ UNCHANGED <<held, cache, todo, found_any, tearing, aborted>>

-----------------------------------------------------------------------------
(***************************************************************************)
(* Teardown                                                                *)
(***************************************************************************)

\* drop(fixture), without the mutex, then task::teardown spawns the teardown.
Drop(u) ==
  /\ phase[u] = "using"
  /\ phase' = [phase EXCEPT ![u] = "teardown"]
  /\ held' = [held EXCEPT ![u] = {}]
  /\ UNCHANGED <<lock, stack, cache, todo, found_any, tearing, aborted>>

TeardownEnter(u) ==
  /\ phase[u] = "teardown"
  /\ lock = NoUser
  /\ lock' = u
  /\ todo' = cache
  /\ found_any' = FALSE
  /\ UNCHANGED <<phase, held, stack, cache, tearing, aborted>>

\* extract_if reaches the entry of f, in the order of the hash map, and
\* evaluates its predicate at that moment.
Visit(u, f) ==
  /\ phase[u] = "teardown"
  /\ lock = u
  /\ tearing = NoFixture
  /\ f \in todo
  /\ todo' = todo \ {f}
  /\ IF Owners(f) = {}
     THEN /\ cache' = cache \ {f}
          /\ tearing' = f
          /\ found_any' = TRUE
     ELSE UNCHANGED <<cache, tearing, found_any>>
  /\ UNCHANGED <<phase, held, lock, stack, aborted>>

\* The awaited teardown of the extracted fixture returns; the instance is
\* gone and with it the Arcs it kept.
TornDown(u) ==
  /\ phase[u] = "teardown"
  /\ lock = u
  /\ tearing # NoFixture
  /\ tearing' = NoFixture
  /\ UNCHANGED <<phase, held, lock, stack, cache, todo, found_any, aborted>>

\* Mutant: found_any is not cleared before the next pass.
NextPassStale(u) ==
  /\ phase[u] = "teardown"
  /\ lock = u
  /\ tearing = NoFixture
  /\ todo = {}
  /\ found_any
  /\ todo' = cache
  /\ UNCHANGED <<phase, held, lock, stack, cache, found_any, tearing, aborted>>

\* The pass tore something down, which may have released something else.
NextPass(u) ==
  /\ phase[u] = "teardown"
  /\ lock = u
  /\ tearing = NoFixture
  /\ todo = {}
  /\ found_any
  /\ todo' = cache
  /\ found_any' = FALSE
  /\ UNCHANGED <<phase, held, lock, stack, cache, tearing, aborted>>

\* Mutant: one pass only.
TeardownReturnsAfterOnePass(u) ==
  /\ phase[u] = "teardown"
  /\ lock = u
  /\ tearing = NoFixture
  /\ todo = {}
  /\ lock' = NoUser
  /\ phase' = [phase EXCEPT ![u] = "idle"]
  /\ UNCHANGED <<held, stack, cache, todo, found_any, tearing, aborted>>

\* A pass found nothing to tear down: the loop ends and the mutex is free.
TeardownReturns(u) ==
  /\ phase[u] = "teardown"
  /\ lock = u
  /\ tearing = NoFixture
  /\ todo = {}
  /\ ~found_any
  /\ lock' = NoUser
  /\ phase' = [phase EXCEPT ![u] = "idle"]
  /\ UNCHANGED <<held, stack, cache, todo, found_any, tearing, aborted>>

\* The teardown task times out behind another holder of the mutex, or a fixture's
\* teardown panics or outlasts the timeout.  The extracted fixture is dropped,
\* the entries not reached stay cached.
TeardownFails(u) ==
  /\ phase[u] = "teardown"
  /\ lock # NoUser
  /\ lock = u => tearing # NoFixture
  /\ phase' = [phase EXCEPT ![u] = "idle"]
  /\ aborted' = TRUE
  /\ IF lock = u
     THEN /\ lock' = NoUser
          /\ todo' = {}
          /\ found_any' = FALSE
          /\ tearing' = NoFixture
     ELSE UNCHANGED <<lock, todo, found_any, tearing>>
  /\ UNCHANGED <<held, stack, cache>>

-----------------------------------------------------------------------------
Setup(u) ==
  \/ SetupLaunched(u)
  \/ SetupGet(u)
  \/ SetupEnter(u)
  \/ SetupDep(u)
  \/ SetupSome(u)
  \/ \E result \in {"none", "err"} : SetupFails(u, result)

Teardown(u) ==
  \/ Drop(u)
  \/ TeardownEnter(u)
  \/ \E f \in Fixture : Visit(u, f)
  \/ TornDown(u)
  \/ NextPass(u)
  \/ TeardownReturns(u)
  \/ TeardownFails(u)

Next == \E u \in User : Setup(u) \/ Teardown(u)

Spec == Init /\ [][Next]_vars

-----------------------------------------------------------------------------
(***************************************************************************)
(* Safety                                                                  *)
(***************************************************************************)

\* The dependencies the frame fr has acquired.
Acquired(fr) == {Deps[fr.fixture][i] : i \in 1 .. fr.got}

\* Whatever a group, a test, a running F::setup or another fixture has an Arc
\* of is neither torn down nor being torn down: the strong_count test of
\* extract_if (fixture.rs:175) sees every owner, whatever the interleaving.
InUseLive ==
  /\ \A u \in User : held[u] \subseteq Available
  /\ \A g \in Instances : Keeps[g] \subseteq Available
  /\ \A i \in DOMAIN stack : Acquired(stack[i]) \subseteq Available
  /\ tearing \notin Available

\* A fixture is never set up while an instance of it exists or is being set
\* up by an outer frame: the insert of fixture.rs:127 replaces nothing.
SetupOnce ==
  \A i \in DOMAIN stack :
    /\ stack[i].fixture \notin Available \cup Instances
    /\ \A j \in DOMAIN stack : stack[j].fixture = stack[i].fixture => i = j

\* When every group and test has finished and no teardown task panicked or
\* timed out, nothing is left in the cache: a setup that failed half way has
\* its dependencies torn down by the teardown that follows it (test.rs:79).
NoLeak ==
  (~aborted /\ \A u \in User : phase[u] = "idle") => cache = {}

\* The manager provides what Lease promises.
LeaseView == INSTANCE Lease WITH
  up <- cache, closing <- {tearing} \ {NoFixture}, lease <- held

LeasePromise == LeaseView!LeaseSpec

-----------------------------------------------------------------------------
(***************************************************************************)
(* Liveness: the fixtures' own code and the test bodies return; the tokio  *)
(* mutex is FIFO, so a queued task is not overtaken for ever.  Nothing     *)
(* here relies on a timeout: the failing steps carry no fairness.          *)
(***************************************************************************)
Queue(u) == SetupGet(u) \/ SetupEnter(u) \/ TeardownEnter(u)

Work(u) ==
  \/ SetupDep(u)
  \/ SetupSome(u)
  \/ \E f \in Fixture : Visit(u, f)
  \/ TornDown(u)
  \/ NextPass(u)
  \/ TeardownReturns(u)
  \/ Drop(u)

FairSpec == Spec /\ \A u \in User : SF_vars(Queue(u)) /\ WF_vars(Work(u))

\* Every setup and every teardown that is launched ends: the loop of
\* Inner::teardown (fixture.rs:171) reaches a pass that finds nothing, and the
\* mutex is always given back.
TasksEnd == \A u \in User : phase[u] \in {"setup", "teardown"} ~>
                              phase[u] \in {"using", "idle"}
=============================================================================
