--------------------------- MODULE E2eTestProofs ---------------------------
(***************************************************************************)
(* Proofs about a whole run: what the walk of Runner and the manager of    *)
(* Fixtures guarantee together, for every tree, selection and acyclic      *)
(* dependency relation.                                                    *)
(*                                                                         *)
(* A step of the run is a step of the walk and a step of the manager, so   *)
(* RInv and IInv hold in it as they are.  TaskInv relates the two: where   *)
(* the walk stands with a node is what the manager is asked to do for it.  *)
(***************************************************************************)
EXTENDS E2eTest, RunnerProofs, SequenceTheorems

FP == INSTANCE FixturesProofs WITH User <- Node

-----------------------------------------------------------------------------
(***************************************************************************)
(* A step of the run, seen by the walk and by the manager.                 *)
(***************************************************************************)

\* The walk never does anything that Runner does not allow.
LEMMA StepOfWalk == [Next]_vars => [RunnerNext]_runVars
<1> SUFFICES ASSUME Next \/ UNCHANGED vars PROVE RunnerNext \/ UNCHANGED runVars
  OBVIOUS
<1>1. CASE Launches
  BY <1>1 DEF Launches, RunnerNext, Running, Launching
<1>2. CASE ManagerAlone
  BY <1>2 DEF ManagerAlone
<1>3. CASE SetupJoined
  BY <1>3 DEF SetupJoined, RunnerNext, Running, SetupEnds
<1>4. CASE BodyJoined
  BY <1>4 DEF BodyJoined, RunnerNext, Running, BodyEnds
<1>5. CASE TeardownJoined
  BY <1>5 DEF TeardownJoined, RunnerNext, Running, TeardownEnds
<1>6. CASE WalkAlone
  BY <1>6 DEF WalkAlone, RunnerNext, Running, BodyEnds
<1>7. CASE Configure
  BY <1>7 DEF RunnerNext
<1>8. CASE UNCHANGED vars
  BY <1>8 DEF vars
<1> QED  BY <1>1, <1>2, <1>3, <1>4, <1>5, <1>6, <1>7, <1>8 DEF Next

\* Manager and FP instantiate the same module.
LEMMA SameSetup ==
  ASSUME NEW n \in Node
  PROVE  /\ Manager!SetupLaunched(n) => FP!Setup(n)
         /\ Manager!SetupGet(n) => FP!Setup(n)
         /\ Manager!SetupEnter(n) => FP!Setup(n)
         /\ Manager!SetupDep(n) => FP!Setup(n)
         /\ Manager!SetupSome(n) => FP!Setup(n)
         /\ \A r \in {"none", "err"} : Manager!SetupFails(n, r) => FP!Setup(n)
<1>1. Manager!SetupLaunched(n) => FP!SetupLaunched(n)
  BY DEF Manager!SetupLaunched, FP!SetupLaunched
<1>2. Manager!SetupGet(n) => FP!SetupGet(n)
  BY DEF Manager!SetupGet, FP!SetupGet, Manager!Available, FP!Available
<1>3. Manager!SetupEnter(n) => FP!SetupEnter(n)
  BY DEF Manager!SetupEnter, FP!SetupEnter, Manager!Available, FP!Available
<1>4. Manager!SetupDep(n) => FP!SetupDep(n)
  BY Zenon DEF Manager!SetupDep, FP!SetupDep, Manager!Top, FP!Top, Manager!Available,
     FP!Available
<1>5. Manager!SetupSome(n) => FP!SetupSome(n)
  BY Zenon DEF Manager!SetupSome, FP!SetupSome, Manager!Top, FP!Top, Manager!PopFrame,
     FP!PopFrame
<1>6. ASSUME NEW r \in {"none", "err"} PROVE Manager!SetupFails(n, r) => FP!SetupFails(n, r)
  BY DEF Manager!SetupFails, FP!SetupFails
<1> QED  BY <1>1, <1>2, <1>3, <1>4, <1>5, <1>6 DEF FP!Setup

\* The same for a teardown.
LEMMA SameTeardown ==
  ASSUME NEW n \in Node
  PROVE  /\ Manager!Drop(n) => FP!Teardown(n)
         /\ Manager!TeardownEnter(n) => FP!Teardown(n)
         /\ \A f \in Fixture : Manager!Visit(n, f) => FP!Teardown(n)
         /\ Manager!TornDown(n) => FP!Teardown(n)
         /\ Manager!NextPass(n) => FP!Teardown(n)
         /\ Manager!TeardownReturns(n) => FP!Teardown(n)
         /\ Manager!TeardownFails(n) => FP!Teardown(n)
<1>1. Manager!Drop(n) => FP!Drop(n)
  BY DEF Manager!Drop, FP!Drop
<1>2. Manager!TeardownEnter(n) => FP!TeardownEnter(n)
  BY DEF Manager!TeardownEnter, FP!TeardownEnter
<1>3. ASSUME NEW f \in Fixture PROVE Manager!Visit(n, f) => FP!Visit(n, f)
  BY DEF Manager!Visit, FP!Visit, Manager!Owners, FP!Owners, Manager!Instances, FP!Instances
<1>4. Manager!TornDown(n) => FP!TornDown(n)
  BY DEF Manager!TornDown, FP!TornDown
<1>5. Manager!NextPass(n) => FP!NextPass(n)
  BY DEF Manager!NextPass, FP!NextPass
<1>6. Manager!TeardownReturns(n) => FP!TeardownReturns(n)
  BY DEF Manager!TeardownReturns, FP!TeardownReturns
<1>7. Manager!TeardownFails(n) => FP!TeardownFails(n)
  BY DEF Manager!TeardownFails, FP!TeardownFails
<1> QED  BY <1>1, <1>2, <1>3, <1>4, <1>5, <1>6, <1>7 DEF FP!Teardown

\* The manager never does anything that Fixtures does not allow.
LEMMA StepOfManager == [Next]_vars => [FP!Next]_(FP!vars)
<1> SUFFICES ASSUME Next \/ UNCHANGED vars PROVE FP!Next \/ UNCHANGED FP!vars
  OBVIOUS
<1>1. ASSUME NEW n \in Node, FP!Setup(n) \/ FP!Teardown(n) PROVE FP!Next
  BY <1>1 DEF FP!Next
<1>2. CASE Launches
  BY <1>1, <1>2, SameSetup DEF Launches
<1>3. CASE ManagerAlone
  BY <1>1, <1>3, SameSetup, SameTeardown DEF ManagerAlone
<1>4. CASE SetupJoined
  BY <1>1, <1>4, SameSetup DEF SetupJoined
<1>5. CASE BodyJoined
  BY <1>1, <1>5, SameTeardown DEF BodyJoined, Node
<1>6. CASE TeardownJoined
  BY <1>1, <1>6, SameTeardown DEF TeardownJoined
<1>7. CASE UNCHANGED managerVars
  BY <1>7 DEF managerVars, FP!vars
<1> QED
  BY <1>2, <1>3, <1>4, <1>5, <1>6, <1>7 DEF Next, WalkAlone, vars

-----------------------------------------------------------------------------
(***************************************************************************)
(* The tasks of the walk: the setup and the teardown that a node awaits    *)
(* are those that the manager runs for it.                                 *)
(***************************************************************************)

\* What the manager does for n where the walk stands with n (task.rs).
TaskOf(n) ==
  IF pc[n] \in {"setup", "teardown"} THEN pc[n]
  ELSE IF Active(n) THEN "using" ELSE "idle"

TaskInv == \A n \in Node : phase[n] = TaskOf(n)

\* The manager has no task for a node exactly as long as the node is not active.
LEMMA IdleOrActive ==
  ASSUME TaskInv, NEW n \in Node
  PROVE  Active(n) <=> phase[n] # "idle"
BY DEF TaskInv, TaskOf, Active

\* A step that sends n to p, with the task that belongs to p.
LEMMA TaskMoves ==
  ASSUME TaskInv, RunnerTypeOK, FP!TypeOK, NEW n \in Node, NEW p, NEW q,
         pc' = [pc EXCEPT ![n] = p], phase' = [phase EXCEPT ![n] = q],
         q = IF p \in {"setup", "teardown"} THEN p
             ELSE IF p \in {"idle", "done"} THEN "idle" ELSE "using"
  PROVE  TaskInv'
BY DEF TaskInv, TaskOf, Active, RunnerTypeOK, FP!TypeOK

\* Each outcome of a setup or a teardown in the walk is that of its task.
LEMMA TaskStep ==
  ASSUME TaskInv, RunnerTypeOK, FP!TypeOK, [Next]_vars
  PROVE  TaskInv'
<1>1. CASE Launches
  <2>1. PICK n \in Node : Manager!SetupLaunched(n) /\ Launch(n)
    BY <1>1 DEF Launches, LaunchRoot, LaunchGroup, LaunchConcurrent, LaunchSequential
  <2> QED  BY <2>1, TaskMoves DEF Manager!SetupLaunched, Launch
<1>2. CASE ManagerAlone
  <2>1. phase' = phase /\ pc' = pc
    BY <1>2 DEF ManagerAlone, runVars, Manager!SetupEnter, Manager!SetupDep, Manager!TeardownEnter,
       Manager!Visit, Manager!TornDown, Manager!NextPass
  <2> QED  BY <2>1 DEF TaskInv, TaskOf, Active
<1>3. ASSUME NEW n \in Node, SetupPassed(n), phase' = [phase EXCEPT ![n] = "using"] PROVE TaskInv'
  <2>1. PICK p \in {"run", "groups"} : pc' = [pc EXCEPT ![n] = p]
    BY <1>3 DEF SetupPassed
  <2> QED  BY <1>3, <2>1, TaskMoves
<1>4. ASSUME NEW n \in Node, NEW e, NEW r, SetupFailed(n, e), Manager!SetupFails(n, r) PROVE TaskInv'
  BY <1>4, TaskMoves DEF SetupFailed, Manager!SetupFails
<1>5. CASE SetupJoined
  <2>1. ASSUME NEW n \in Node, Manager!SetupGet(n) \/ (Manager!SetupSome(n) /\ phase' # phase)
        PROVE  phase' = [phase EXCEPT ![n] = "using"]
    BY <2>1 DEF Manager!SetupGet, Manager!SetupSome
  <2> QED  BY <1>3, <1>4, <1>5, <2>1 DEF SetupJoined
<1>6. CASE BodyJoined
  <2>1. PICK n \in Node : pc' = [pc EXCEPT ![n] = "teardown"] /\ Manager!Drop(n)
    BY <1>6 DEF BodyJoined, SequentialDone, TestDone, Node
  <2> QED  BY <2>1, TaskMoves DEF Manager!Drop
<1>7. CASE TeardownJoined
  <2>1. PICK n \in Node : pc' = [pc EXCEPT ![n] = "done"] /\ phase' = [phase EXCEPT ![n] = "idle"]
    BY <1>7 DEF TeardownJoined, TeardownDone, Manager!TeardownReturns, Manager!TeardownFails
  <2> QED  BY <2>1, TaskMoves
<1>8. CASE WalkAlone
  <2>1. phase' = phase
    BY <1>8 DEF WalkAlone, managerVars
  <2>2. ASSUME NEW g \in Group, GroupsDone(g) \/ ConcurrentDone(g) PROVE TaskInv'
    BY <2>1, <2>2 DEF GroupsDone, ConcurrentDone, Going, TaskInv, TaskOf, Active, RunnerTypeOK
  <2>3. CASE Start
    BY <2>1, <2>3 DEF Start, TaskInv, TaskOf, Active
  <2> QED  BY <1>8, <2>2, <2>3 DEF WalkAlone
<1>9. CASE (UNCHANGED managerVars /\ Configure) \/ UNCHANGED vars
  BY <1>9 DEF Configure, vars, runVars, managerVars, TaskInv, TaskOf, Active
<1> QED  BY <1>1, <1>2, <1>5, <1>6, <1>7, <1>8, <1>9 DEF Next

\* Once the root group has launched its teardown, nothing else goes on (GroupSpansContent).
RootAlone == phase[Root] = "teardown" => \A n \in Node \ {Root} : phase[n] = "idle"

\* While the root group is torn down, the manager has nobody else to serve.
LEMMA RootIsAlone == RInv /\ TaskInv => RootAlone
<1> SUFFICES ASSUME RInv, TaskInv, phase[Root] = "teardown", NEW n \in Child
             PROVE  phase[n] = "idle"
  BY DEF RootAlone, Child
<1>1. pc[Root] = "teardown" /\ Root \in Node /\ n \in Node /\ Root \in Above[n]
  BY Tree DEF TaskInv, TaskOf
<1>2. ~Active(n)
  BY <1>1 DEF RInv, WalkInv, GroupSpansContent
<1> QED  BY <1>1, <1>2, IdleOrActive

-----------------------------------------------------------------------------
(***************************************************************************)
(* What the manager sets up is what the fixture of the node needs.         *)
(***************************************************************************)

\* The assumptions on the fixtures, for the nodes of the tree.
LEMMA Fixtures ==
  /\ Want \in [Node -> Fixture]
  /\ NoUser \notin Node /\ NoFixture \notin Fixture
  /\ \A f \in Fixture : \A i \in DOMAIN Deps[f] : Deps[f][i] \in Fixture
  /\ \A f \in Fixture : \A d \in Keeps[f] : \E i \in DOMAIN Deps[f] : Deps[f][i] = d
<1>1. ASSUME NEW f \in Fixture, NEW i \in DOMAIN Deps[f] PROVE Deps[f][i] \in Fixture
  <2>1. Deps[f] \in Seq(Fixture)
    BY E2eTestAssumption
  <2> QED  BY <2>1, LenProperties, ElementOfSeq
<1> QED  BY <1>1, E2eTestAssumption

\* A fixture needs itself, and the dependencies of all that it needs.
LEMMA NeedsClosed ==
  ASSUME NEW f \in Fixture
  PROVE  /\ f \in Needs[f] /\ Needs[f] \subseteq Fixture
         /\ \A g \in Needs[f] : \A i \in DOMAIN Deps[g] : Deps[g][i] \in Needs[f]
         /\ \A g \in Needs[f] : Keeps[g] \subseteq Needs[f]
<1>1. f \in Needs[f] /\ Needs[f] \subseteq Fixture
  BY DEF Needs
<1>2. ASSUME NEW g \in Needs[f], NEW i \in DOMAIN Deps[g] PROVE Deps[g][i] \in Needs[f]
  <2>1. ASSUME NEW S \in SUBSET Fixture, f \in S, Closed(S) PROVE Deps[g][i] \in S
    <3>1. g \in S
      BY <2>1 DEF Needs
    <3> QED  BY <2>1, <3>1 DEF Closed
  <2>2. Deps[g][i] \in Fixture
    BY <1>1, Fixtures
  <2> QED  BY <2>1, <2>2 DEF Needs
<1> QED  BY <1>1, <1>2, Fixtures

\* A node that runs has the fixture it asked for; the setup under way is that of
\* the holder of the mutex and of what it needs.
HasWant == \A n \in Node : phase[n] = "using" => held[n] = {Want[n]}

FrameInv ==
  /\ stack # <<>> => stack[1].fixture = Want[lock]
  /\ \A i \in 1 .. Len(stack) : stack[i].fixture \in Needs[Want[lock]]

\* A step of the manager keeps what its holder and its stack have to do with Want.
LEMMA WantStep ==
  ASSUME FP!IInv, HasWant, FrameInv, [FP!Next]_(FP!vars)
  PROVE  HasWant'
<1> USE DEF FP!IInv, FP!TypeOK
<1>1. ASSUME NEW u \in Node, FP!SetupSome(u), Len(stack) = 1 PROVE HasWant'
  <2>1. phase[u] = "setup" /\ lock = u /\ phase' = [phase EXCEPT ![u] = "using"]
        /\ held' = [held EXCEPT ![u] = {stack[1].fixture}]
    BY <1>1 DEF FP!SetupSome, FP!Top
  <2>2. stack # <<>>
    BY <2>1 DEF FP!MutexInv
  <2>3. held' = [held EXCEPT ![u] = {Want[u]}]
    BY <2>1, <2>2 DEF FrameInv
  <2> QED  BY <2>1, <2>3 DEF HasWant
<1>2. ASSUME NEW u \in Node, FP!SetupSome(u), Len(stack) # 1 PROVE HasWant'
  BY <1>2 DEF FP!SetupSome, HasWant
<1>3. ASSUME NEW u \in Node, FP!SetupGet(u) PROVE HasWant'
  BY <1>3 DEF FP!SetupGet, HasWant
<1>4. ASSUME NEW u \in Node, FP!SetupDep(u) PROVE HasWant'
  BY <1>4 DEF FP!SetupDep, HasWant
<1>5. ASSUME NEW u \in Node, FP!SetupLaunched(u) \/ FP!SetupEnter(u) \/ FP!SetupFails(u, "none")
             \/ FP!SetupFails(u, "err")
      PROVE  HasWant'
  BY <1>5 DEF FP!SetupLaunched, FP!SetupEnter, FP!SetupFails, HasWant
<1>6. ASSUME NEW u \in Node, FP!Drop(u) \/ FP!TeardownEnter(u) \/ FP!TornDown(u) \/ FP!NextPass(u)
             \/ FP!TeardownReturns(u) \/ FP!TeardownFails(u)
      PROVE  HasWant'
  BY <1>6 DEF FP!Drop, FP!TeardownEnter, FP!TornDown, FP!NextPass, FP!TeardownReturns,
     FP!TeardownFails, HasWant
<1>7. ASSUME NEW u \in Node, NEW f \in Fixture, FP!Visit(u, f) PROVE HasWant'
  BY <1>7 DEF FP!Visit, HasWant
<1>8. CASE UNCHANGED FP!vars
  BY <1>8 DEF FP!vars, HasWant
<1> QED
  BY <1>1, <1>2, <1>3, <1>4, <1>5, <1>6, <1>7, <1>8 DEF FP!Next, FP!Setup, FP!Teardown

\* A setup asks for a dependency, which is needed too, or returns to its caller.
LEMMA FrameStep ==
  ASSUME FP!IInv, FrameInv, [FP!Next]_(FP!vars)
  PROVE  FrameInv'
<1>1. FP!TypeOK /\ FP!MutexInv /\ stack \in Seq(FP!Frame)
  BY DEF FP!IInv, FP!TypeOK
<1>2. CASE stack' = <<>>
  BY <1>2 DEF FrameInv
<1>3. CASE stack' = stack /\ lock' = lock
  BY <1>3 DEF FrameInv
<1>4. ASSUME stack = <<>>, stack' = stack PROVE FrameInv'
  BY <1>4 DEF FrameInv
<1>5. ASSUME NEW u \in Node, FP!SetupEnter(u) PROVE FrameInv'
  <2>1. stack' = <<[fixture |-> Want[u], got |-> 0]>> /\ lock' = u
    BY <1>5 DEF FP!SetupEnter
  <2>2. Want[u] \in Needs[Want[u]]
    BY Fixtures, NeedsClosed
  <2> QED  BY <2>1, <2>2 DEF FrameInv
<1>6. ASSUME NEW u \in Node, FP!SetupDep(u) PROVE FrameInv'
  <2> DEFINE m == Len(stack)
             d == Deps[FP!Top.fixture][FP!Top.got + 1]
  <2>1. /\ phase[u] = "setup" /\ lock = u /\ lock' = lock
        /\ FP!Top.got < Len(Deps[FP!Top.fixture])
        /\ \/ stack' = [stack EXCEPT ![m].got = @ + 1]
           \/ stack' = Append(stack, [fixture |-> d, got |-> 0])
    BY <1>6 DEF FP!SetupDep
  <2>2. /\ m \in 1 .. m /\ m \in Nat /\ stack # <<>>
        /\ FP!Top.fixture \in Fixture /\ FP!Top.got \in Nat /\ FP!Top = stack[m]
    BY <1>1, <2>1, E2eTestAssumption, FP!TopProperties, LenProperties DEF FP!MutexInv, FP!Top
  <2>3. d \in Needs[Want[lock]] /\ d \in Fixture
    <3>1. FP!Top.got + 1 \in DOMAIN Deps[FP!Top.fixture]
      <4>1. DOMAIN Deps[FP!Top.fixture] = 1 .. Len(Deps[FP!Top.fixture])
            /\ Len(Deps[FP!Top.fixture]) \in Nat
        BY <2>2, E2eTestAssumption, FP!DepsProperties
      <4> QED  BY <2>1, <2>2, <4>1
    <3>2. FP!Top.fixture \in Needs[Want[lock]]
      BY <2>2 DEF FrameInv
    <3> QED  BY <2>1, <2>2, <3>1, <3>2, Fixtures, NeedsClosed
  <2>4. CASE stack' = [stack EXCEPT ![m].got = @ + 1]
    <3>1. Len(stack') = m /\ \A j \in 1 .. m : stack'[j].fixture = stack[j].fixture
      BY <1>1, <2>2, <2>4, E2eTestAssumption, FP!BumpFrame
    <3> QED  BY <2>1, <2>2, <3>1, EmptySeq DEF FrameInv
  <2>5. CASE stack' = Append(stack, [fixture |-> d, got |-> 0])
    <3>1. /\ Len(stack') = m + 1 /\ \A j \in 1 .. m : stack'[j] = stack[j]
          /\ stack'[m + 1].fixture = d
      BY <1>1, <2>3, <2>5, E2eTestAssumption, FP!PushFrame
    <3> QED  BY <2>1, <2>2, <2>3, <3>1 DEF FrameInv
  <2> QED  BY <2>1, <2>4, <2>5
<1>7. ASSUME NEW u \in Node, FP!SetupSome(u), Len(stack) # 1 PROVE FrameInv'
  <2> DEFINE m == Len(stack)
  <2>1. phase[u] = "setup" /\ lock = u /\ lock' = lock /\ stack' = FP!PopFrame(stack)
    BY <1>7 DEF FP!SetupSome
  <2>2. m \in 1 .. m /\ m \in Nat /\ m > 1 /\ stack # <<>>
    <3>1. m \in Nat /\ stack # <<>>
      BY <1>1, <2>1, LenProperties DEF FP!MutexInv
    <3>2. m \in 1 .. m
      BY <1>1, <2>1, E2eTestAssumption, FP!TopProperties
    <3>3. m # 1
      BY <1>7
    <3> HIDE DEF m
    <3>4. m > 1
      BY <3>1, <3>2, <3>3
    <3> QED  BY <3>1, <3>2, <3>4
  <2>3. Len(stack') = m - 1 /\ \A j \in 1 .. m - 1 : stack'[j].fixture = stack[j].fixture
    BY <1>1, <2>1, <2>2, E2eTestAssumption, FP!PopFrameProperties
  <2> QED  BY <2>1, <2>2, <2>3 DEF FrameInv
<1>8. ASSUME NEW u \in Node, FP!SetupSome(u), Len(stack) = 1 PROVE stack' = <<>>
  BY <1>8 DEF FP!SetupSome
<1>9. ASSUME NEW u \in Node, NEW r, FP!SetupFails(u, r) PROVE FrameInv'
  BY <1>2, <1>3, <1>9 DEF FP!SetupFails
<1>10. ASSUME NEW u \in Node, FP!Setup(u) PROVE FrameInv'
  <2>1. CASE FP!SetupLaunched(u) \/ FP!SetupGet(u)
    BY <1>3, <2>1 DEF FP!SetupLaunched, FP!SetupGet
  <2> QED  BY <1>2, <1>5, <1>6, <1>7, <1>8, <1>9, <1>10, <2>1 DEF FP!Setup
<1>11. ASSUME NEW u \in Node, FP!Teardown(u) PROVE FrameInv'
  <2>1. stack' = stack
    BY <1>11 DEF FP!Teardown, FP!Drop, FP!TeardownEnter, FP!Visit, FP!TornDown, FP!NextPass,
       FP!TeardownReturns, FP!TeardownFails
  <2>2. CASE lock' = lock
    BY <1>3, <2>1, <2>2
  <2>3. CASE lock' # lock
    <3>1. lock = NoUser \/ (lock \in Node /\ phase[lock] # "setup")
      BY <1>11, <2>3 DEF FP!Teardown, FP!Drop, FP!TeardownEnter, FP!Visit, FP!TornDown, FP!NextPass,
         FP!TeardownReturns, FP!TeardownFails
    <3>2. stack = <<>>
      BY <1>1, <3>1, E2eTestAssumption, FP!NoFrames
    <3> QED  BY <1>4, <2>1, <3>2
  <2> QED  BY <2>2, <2>3
<1> QED  BY <1>3, <1>10, <1>11 DEF FP!Next, FP!vars

-----------------------------------------------------------------------------
(***************************************************************************)
(* Nothing outlives its users.  PassInv sharpens that of FixturesProofs: a *)
(* pass that has found nothing leaves behind only what another node needs, *)
(* or what a cached fixture is built on.  A node stops to need anything    *)
(* when its teardown returns, after such a pass, or fails.                 *)
(***************************************************************************)

\* A node other than the holder of the mutex has a task that needs f.
NeededElsewhere(f) == \E n \in Node : n # lock /\ phase[n] # "idle" /\ f \in Needs[Want[n]]

\* Nobody else can fail while the root group has its teardown.
PassInv ==
  ((~aborted \/ lock = Root) /\ ~found_any /\ lock \in Node /\ phase[lock] = "teardown") =>
    /\ tearing = NoFixture
    /\ \A f \in cache \ todo : NeededElsewhere(f) \/ \E g \in cache : f \in Keeps[g]

Needed(f) == \E n \in Node : phase[n] # "idle" /\ f \in Needs[Want[n]]

UsersInv == ~aborted => \A f \in FP!Instances : Needed(f)

\* What is left after the last pass of the holder of the mutex is needed by others.
LEMMA PassEnds ==
  ASSUME FP!IInv, PassInv, NEW n \in Node, FP!TeardownReturns(n), ~aborted \/ n = Root
  PROVE  \A f \in cache : NeededElsewhere(f)
<1>1. \A f \in cache : NeededElsewhere(f) \/ \E g \in cache : f \in Keeps[g]
  BY DEF FP!TeardownReturns, PassInv
<1> DEFINE S == {f \in cache : ~NeededElsewhere(f)}
<1>2. SUFFICES ASSUME S # {} PROVE FALSE
  OBVIOUS
<1>3. cache \subseteq Fixture /\ S \in SUBSET Fixture
  BY DEF FP!IInv, FP!TypeOK
<1>4. PICK f \in S : \A g \in S : f \notin Keeps[g]
  <2> HIDE DEF S
  <2> QED  BY <1>2, <1>3, E2eTestAssumption, FP!Uppermost
<1>5. PICK g \in cache : f \in Keeps[g]
  BY <1>1, <1>4
<1>6. PICK v \in Node : v # lock /\ phase[v] # "idle" /\ g \in Needs[Want[v]]
  BY <1>4, <1>5 DEF NeededElsewhere
<1>7. f \in Needs[Want[v]]
  <2>1. Want[v] \in Fixture
    BY Fixtures
  <2> QED  BY <1>5, <1>6, <2>1, NeedsClosed
<1> QED  BY <1>4, <1>6, <1>7 DEF NeededElsewhere

\* While the root group has its teardown, only that moves.
LEMMA OnlyRootMoves ==
  ASSUME RootAlone, RootAlone', phase[Root] = "teardown", phase'[Root] = "teardown",
         NEW n \in Node, FP!Setup(n) \/ FP!Teardown(n), FP!TypeOK
  PROVE  n = Root
<1>1. phase[n] # "idle" \/ phase'[n] # "idle"
  BY DEF FP!Setup, FP!SetupLaunched, FP!SetupGet, FP!SetupEnter, FP!SetupDep, FP!SetupSome,
     FP!SetupFails, FP!Teardown, FP!Drop, FP!TeardownEnter, FP!Visit, FP!TornDown, FP!NextPass,
     FP!TeardownReturns, FP!TeardownFails, FP!TypeOK
<1> QED  BY <1>1 DEF RootAlone

\* What an entry that the pass leaves behind is needed for stays.
LEMMA PassStep ==
  ASSUME FP!IInv, HasWant, PassInv, RootAlone, RootAlone', [FP!Next]_(FP!vars)
  PROVE  PassInv'
<1> DEFINE Kept == /\ tearing = NoFixture
                   /\ \A f \in cache \ todo : NeededElsewhere(f) \/ \E g \in cache : f \in Keeps[g]
<1> SUFFICES ASSUME ~aborted' \/ lock' = Root, ~found_any', lock' \in Node, phase'[lock'] = "teardown"
             PROVE  Kept'
  BY DEF PassInv
<1> USE DEF FP!IInv, FP!TypeOK
<1>1. ASSUME lock' = lock, phase[lock] = "teardown", aborted' = aborted,
             UNCHANGED <<cache, todo, found_any, tearing>>,
             \A n \in Node : phase[n] # "idle" => phase'[n] # "idle"
      PROVE  Kept'
  BY <1>1 DEF PassInv, NeededElsewhere
<1>2. ASSUME NEW n \in Node, FP!Setup(n) PROVE Kept'
  <2>1. lock' = lock /\ phase[lock] = "teardown" /\ lock # n
    BY <1>2, Fixtures DEF FP!Setup, FP!SetupLaunched, FP!SetupGet, FP!SetupEnter, FP!SetupDep,
       FP!SetupSome, FP!SetupFails
  <2>2. UNCHANGED <<cache, todo, tearing, found_any, aborted>>
    BY <1>2, <2>1 DEF FP!Setup, FP!SetupLaunched, FP!SetupGet, FP!SetupEnter, FP!SetupDep,
       FP!SetupSome, FP!SetupFails
  <2>3. \A v \in Node : phase[v] # "idle" => phase'[v] # "idle"
    BY <1>2, <2>1 DEF FP!Setup, FP!SetupLaunched, FP!SetupGet, FP!SetupEnter, FP!SetupDep,
       FP!SetupSome, FP!SetupFails
  <2> QED  BY <1>1, <2>1, <2>2, <2>3
<1>3. ASSUME NEW n \in Node, FP!Drop(n) PROVE Kept'
  <2>1. lock # n
    BY <1>3 DEF FP!Drop, FP!MutexInv
  <2>2. /\ lock' = lock /\ phase[lock] = "teardown"
        /\ UNCHANGED <<cache, todo, tearing, found_any, aborted>>
        /\ \A v \in Node : phase[v] # "idle" => phase'[v] # "idle"
    BY <1>3, <2>1 DEF FP!Drop
  <2> QED  BY <1>1, <2>2
<1>4. ASSUME NEW n \in Node, FP!TeardownEnter(n) \/ FP!NextPass(n) PROVE Kept'
  BY <1>4, Fixtures DEF FP!TeardownEnter, FP!NextPass, FP!MutexInv
<1>5. ASSUME NEW n \in Node, NEW f \in Fixture, FP!Visit(n, f) PROVE Kept'
  <2>1. /\ lock = n /\ phase[n] = "teardown" /\ FP!Owners(f) # {}
        /\ todo' = todo \ {f} /\ tearing = NoFixture /\ f \in todo
        /\ UNCHANGED <<phase, held, lock, cache, found_any, tearing, aborted>>
    BY <1>5 DEF FP!Visit
  <2>2. NeededElsewhere(f) \/ \E g \in cache : f \in Keeps[g]
    <3>1. ASSUME NEW v \in Node, f \in held[v] PROVE NeededElsewhere(f)
      <4>1. phase[v] = "using" /\ f = Want[v]
        BY <3>1 DEF FP!HeldInv, HasWant
      <4>2. f \in Needs[Want[v]]
        BY <4>1, Fixtures, NeedsClosed
      <4> QED  BY <2>1, <4>1, <4>2 DEF NeededElsewhere
    <3>2. FP!Instances = cache
      BY <2>1 DEF FP!Instances
    <3> QED  BY <2>1, <3>1, <3>2 DEF FP!Owners
  <2>3. \A g \in cache \ todo : NeededElsewhere(g) \/ \E h \in cache : g \in Keeps[h]
    BY <2>1 DEF PassInv
  <2>4. \A g : NeededElsewhere(g) => NeededElsewhere(g)'
    BY <2>1 DEF NeededElsewhere
  <2> QED  BY <2>1, <2>2, <2>3, <2>4
<1>6. ASSUME NEW n \in Node, FP!TornDown(n) \/ FP!TeardownReturns(n) PROVE Kept'
  BY <1>6, Fixtures DEF FP!TornDown, FP!TeardownReturns, PassInv
<1>7. ASSUME NEW n \in Node, FP!TeardownFails(n) PROVE Kept'
  <2>1. lock' = Root /\ lock = Root /\ lock # n /\ phase[Root] = "teardown" /\ phase'[Root] = "teardown"
    BY <1>7, Fixtures DEF FP!TeardownFails
  <2>2. n = Root
    BY <1>7, <2>1, OnlyRootMoves DEF FP!Teardown
  <2> QED  BY <2>1, <2>2
<1>8. CASE UNCHANGED FP!vars
  BY <1>1, <1>8 DEF FP!vars
<1>9. ASSUME NEW n \in Node, FP!Teardown(n) PROVE Kept'
  BY <1>3, <1>4, <1>5, <1>6, <1>7, <1>9 DEF FP!Teardown
<1> QED  BY <1>2, <1>8, <1>9 DEF FP!Next

\* A fixture is set up for a node that needs it, and the last node that needs it leaves
\* after a pass that would have found it.
LEMMA UsersStep ==
  ASSUME FP!IInv, FrameInv, PassInv, UsersInv, [FP!Next]_(FP!vars)
  PROVE  UsersInv'
<1> SUFFICES ASSUME ~aborted' PROVE \A f \in FP!Instances' : Needed(f)'
  BY DEF UsersInv
<1> USE DEF FP!IInv, FP!TypeOK
<1>1. ASSUME aborted' = aborted, FP!Instances' \subseteq FP!Instances,
             \A n \in Node : phase[n] # "idle" => phase'[n] # "idle"
      PROVE  \A f \in FP!Instances' : Needed(f)'
  BY <1>1 DEF UsersInv, Needed
<1>2. ASSUME NEW n \in Node, FP!SetupSome(n) PROVE \A f \in FP!Instances' : Needed(f)'
  <2>1. /\ phase[n] = "setup" /\ lock = n /\ cache' = cache \cup {FP!Top.fixture}
        /\ UNCHANGED <<tearing, aborted>>
        /\ \A v \in Node : phase[v] # "idle" => phase'[v] # "idle"
    BY <1>2 DEF FP!SetupSome
  <2>2. FP!Top.fixture \in Needs[Want[n]]
    <3>1. Len(stack) \in 1 .. Len(stack)
      BY <2>1, E2eTestAssumption, FP!TopProperties
    <3> QED  BY <2>1, <3>1 DEF FrameInv, FP!Top
  <2>3. FP!Instances' = FP!Instances \cup {FP!Top.fixture}
    BY <2>1 DEF FP!Instances
  <2> QED  BY <2>1, <2>2, <2>3 DEF UsersInv, Needed
<1>3. ASSUME NEW n \in Node, FP!Setup(n), ~FP!SetupSome(n)
      PROVE  \A f \in FP!Instances' : Needed(f)'
  <2>1. /\ UNCHANGED <<cache, tearing, aborted>>
        /\ \A v \in Node : phase[v] # "idle" => phase'[v] # "idle"
    BY <1>3 DEF FP!Setup, FP!SetupLaunched, FP!SetupGet, FP!SetupEnter, FP!SetupDep, FP!SetupFails
  <2> QED  BY <1>1, <2>1 DEF FP!Instances
<1>4. ASSUME NEW n \in Node, FP!TeardownReturns(n) PROVE \A f \in FP!Instances' : Needed(f)'
  <2>1. /\ lock = n /\ FP!Instances' = cache /\ ~aborted
        /\ \A v \in Node \ {n} : phase'[v] = phase[v]
    BY <1>4 DEF FP!TeardownReturns, FP!Instances
  <2>2. \A f \in cache : NeededElsewhere(f)
    BY <1>4, <2>1, PassEnds
  <2> QED  BY <2>1, <2>2 DEF NeededElsewhere, Needed
<1>5. ASSUME NEW n \in Node, NEW f \in Fixture, FP!Visit(n, f)
      PROVE  \A g \in FP!Instances' : Needed(g)'
  <2>1. UNCHANGED <<phase, aborted>> /\ FP!Instances' \subseteq FP!Instances
    BY <1>5 DEF FP!Visit, FP!Instances, FP!CacheInv
  <2> QED  BY <1>1, <2>1
<1>6. ASSUME NEW n \in Node, FP!Drop(n) \/ FP!TeardownEnter(n) \/ FP!TornDown(n) \/ FP!NextPass(n)
      PROVE  \A f \in FP!Instances' : Needed(f)'
  <2>1. /\ aborted' = aborted /\ FP!Instances' \subseteq FP!Instances
        /\ \A v \in Node : phase[v] # "idle" => phase'[v] # "idle"
    BY <1>6 DEF FP!Drop, FP!TeardownEnter, FP!TornDown, FP!NextPass, FP!Instances
  <2> QED  BY <1>1, <2>1
<1>7. ASSUME NEW n \in Node, FP!TeardownFails(n) PROVE FALSE
  BY <1>7 DEF FP!TeardownFails
<1>8. CASE UNCHANGED FP!vars
  BY <1>1, <1>8 DEF FP!vars, FP!Instances
<1> QED
  BY <1>2, <1>3, <1>4, <1>5, <1>6, <1>7, <1>8 DEF FP!Next, FP!Teardown

-----------------------------------------------------------------------------
(***************************************************************************)
(* The end of the run.  The last step of the walk is the teardown of the   *)
(* root group, and what it leaves in the cache stays there.                *)
(***************************************************************************)
SweepInv == events[Root]["TeardownPassed"] > 0 => status = "finished" /\ cache = {}

\* Recording other events, or for other nodes, leaves this count alone.
LEMMA NotRecorded ==
  ASSUME RunnerTypeOK, NEW n \in Node, NEW E, record(n, E), n # Root \/ "TeardownPassed" \notin E
  PROVE  events'[Root]["TeardownPassed"] = events[Root]["TeardownPassed"]
<1>1. Root \in Node /\ "TeardownPassed" \in Event
  BY Tree DEF Event
<1>2. events' = [events EXCEPT ![n] =
        [e \in Event |-> IF e \in E /\ Recordable(n, e) THEN events[n][e] + 1 ELSE events[n][e]]]
  BY DEF record
<1> QED  BY <1>1, <1>2 DEF RunnerTypeOK

\* Only the teardown of the root group counts here; it ends the run with an empty cache.
LEMMA SweepStep ==
  ASSUME RInv, FP!IInv, TaskInv, PassInv, SweepInv, [Next]_vars
  PROVE  SweepInv'
<1> DEFINE k == events[Root]["TeardownPassed"]
<1>1. RunnerTypeOK /\ Root \in Node /\ RootAlone
  BY RootIsAlone, Tree DEF RInv
<1>2. ASSUME NEW n \in Node, NEW E, record(n, E), n # Root \/ "TeardownPassed" \notin E,
             status = "running"
      PROVE  SweepInv'
  <2>1. events'[Root]["TeardownPassed"] = k
    BY <1>1, <1>2, NotRecorded
  <2>2. ~(k > 0)
    BY <1>2 DEF SweepInv
  <2> QED  BY <2>1, <2>2 DEF SweepInv
<1>3. ASSUME UNCHANGED <<events, cache>>, status = "finished" => status' = "finished" PROVE SweepInv'
  BY <1>3 DEF SweepInv
<1>4. ASSUME UNCHANGED events, status = "running" PROVE SweepInv'
  BY <1>4 DEF SweepInv
<1>5. CASE Launches
  <2>1. PICK n \in Node : Launch(n)
    BY <1>5 DEF Launches, LaunchRoot, LaunchGroup, LaunchConcurrent, LaunchSequential
  <2> QED  BY <1>2, <2>1 DEF Launch, Going
<1>6. CASE ManagerAlone
  BY <1>4, <1>6 DEF ManagerAlone, runVars, statVars
<1>7. CASE SetupJoined
  <2>1. ASSUME NEW n \in Node, SetupPassed(n) PROVE SweepInv'
    BY <1>2, <2>1 DEF SetupPassed, Going
  <2>2. ASSUME NEW n \in Node, NEW e \in {"SetupSkipped", "SetupFailed"}, SetupFailed(n, e)
        PROVE  SweepInv'
    BY <1>2, <2>2 DEF SetupFailed, Going
  <2> QED  BY <1>7, <2>1, <2>2 DEF SetupJoined
<1>8. CASE BodyJoined
  <2>1. ASSUME NEW g \in Group, SequentialDone(g) PROVE SweepInv'
    BY <1>2, <2>1 DEF SequentialDone, Going, Node
  <2>2. ASSUME NEW t \in Test, NEW e \in {"TestPassed", "TestFailed"}, TestDone(t, e) PROVE SweepInv'
    BY <1>2, <2>2 DEF TestDone, Going, Node
  <2> QED  BY <1>8, <2>1, <2>2 DEF BodyJoined
<1>9. ASSUME NEW n \in Node, TeardownDone(n, "TeardownFailed") PROVE SweepInv'
  BY <1>2, <1>9 DEF TeardownDone, Going
<1>10. ASSUME NEW n \in Node, n # Root, TeardownDone(n, "TeardownPassed") PROVE SweepInv'
  BY <1>2, <1>10 DEF TeardownDone, Going
<1>11. ASSUME TeardownDone(Root, "TeardownPassed"), Manager!TeardownReturns(Root) PROVE SweepInv'
  <2>1. status' = "finished" /\ cache' = cache
    BY <1>11 DEF TeardownDone, Manager!TeardownReturns
  <2>2. FP!TeardownReturns(Root) /\ lock = Root /\ phase[Root] = "teardown"
    BY <1>11 DEF Manager!TeardownReturns, FP!TeardownReturns
  <2>3. \A f \in cache : NeededElsewhere(f)
    BY <1>1, <2>2, PassEnds
  <2>4. \A f \in cache : FALSE
    BY <1>1, <2>2, <2>3 DEF NeededElsewhere, RootAlone
  <2>5. cache = {}
    BY <2>4
  <2> QED  BY <2>1, <2>5 DEF SweepInv
<1>12. CASE TeardownJoined
  BY <1>9, <1>10, <1>11, <1>12 DEF TeardownJoined
<1>13. CASE WalkAlone
  BY <1>3, <1>13 DEF WalkAlone, managerVars, Start, record_tests, GroupsDone, ConcurrentDone, statVars
<1>14. CASE (UNCHANGED managerVars /\ Configure) \/ UNCHANGED vars
  BY <1>3, <1>14 DEF vars, managerVars, Configure, statVars, runVars
<1> QED  BY <1>5, <1>6, <1>7, <1>8, <1>12, <1>13, <1>14 DEF Next

-----------------------------------------------------------------------------
(***************************************************************************)
(* The theorems about a run.                                               *)
(***************************************************************************)
JInv ==
  /\ RInv /\ FP!IInv /\ TaskInv /\ HasWant /\ FrameInv
  /\ PassInv /\ UsersInv /\ SweepInv

\* A run starts with nothing recorded, nothing cached and no task.
LEMMA JInvInit == Init => JInv
<1> SUFFICES ASSUME Init PROVE JInv
  OBVIOUS
<1>1. RInv /\ RunnerInit
  BY RInvInit DEF Init
<1>2. FP!Init
  BY DEF Init, Manager!Init, FP!Init
<1>3. FP!IInv
  BY <1>2, E2eTestAssumption, FP!InitIInv
<1>4. TaskInv /\ HasWant /\ PassInv /\ UsersInv
  BY <1>1, <1>2, Fixtures DEF RunnerInit, FP!Init, TaskInv, TaskOf, Active, HasWant, PassInv,
     UsersInv, FP!Instances
<1>5. FrameInv
  BY <1>2 DEF FP!Init, FrameInv
<1>6. SweepInv
  <2>1. events[Root]["TeardownPassed"] = 0
    BY <1>1, Tree DEF RunnerInit, StatisticsInit, Event
  <2> QED  BY <2>1 DEF SweepInv
<1> QED  BY <1>1, <1>3, <1>4, <1>5, <1>6 DEF JInv

\* The invariants of the walk and of the manager hold together, with what relates them.
LEMMA JInvStep == JInv /\ [Next]_vars => JInv'
<1> SUFFICES ASSUME JInv, [Next]_vars PROVE JInv'
  OBVIOUS
<1> USE DEF JInv
<1>1. RInv'
  BY StepOfWalk, RInvStep
<1>2. [FP!Next]_(FP!vars)
  BY StepOfManager
<1>3. FP!IInv'
  BY <1>2, E2eTestAssumption, FP!NextIInv
<1>4. TaskInv'
  BY TaskStep DEF RInv, FP!IInv
<1>5. HasWant' /\ FrameInv'
  BY <1>2, WantStep, FrameStep
<1>6. RInv /\ TaskInv => RootAlone
  BY RootIsAlone
<1>7. RootAlone'
  BY <1>1, <1>4, RootIsAlone, PTL
<1>8. PassInv'
  BY <1>2, <1>6, <1>7, PassStep
<1>9. UsersInv' /\ SweepInv'
  BY <1>2, UsersStep, SweepStep
<1> QED  BY <1>1, <1>3, <1>4, <1>5, <1>8, <1>9

\* All of it, in every state of a run.
LEMMA JInvHolds == Spec => []JInv
BY JInvInit, JInvStep, PTL DEF Spec

\* While a test or a subgroup runs, no teardown of a sibling takes a fixture of a group
\* above it: the group has passed its setup and holds the Arc until its content has ended
\* (group.rs), and Inner::teardown takes only what nobody holds (fixture.rs).
THEOREM GroupFixturesUpHolds == Spec => []GroupFixturesUp
<1>1. JInv => GroupFixturesUp
  <2> SUFFICES ASSUME JInv, NEW n \in Node, Active(n), NEW g \in Above[n]
               PROVE  Want[g] \in cache \cup Permanent
    BY DEF GroupFixturesUp
  <2>1. g \in Node /\ pc[g] \in {"groups", "concurrent", "sequential"}
    BY Tree DEF JInv, RInv, WalkInv, GroupSpansContent
  <2>2. phase[g] = "using"
    BY <2>1 DEF JInv, TaskInv, TaskOf, Active
  <2>3. Want[g] \in held[g]
    BY <2>1, <2>2 DEF JInv, HasWant
  <2> QED  BY <2>1, <2>3 DEF JInv, FP!IInv, FP!InUseLive, FP!Available
<1> QED  BY <1>1, JInvHolds, PTL

\* As long as no teardown has failed, each fixture that exists is needed by a group or a
\* test that is between the launch of its setup and the end of its teardown: the loop of
\* Inner::teardown (fixture.rs) leaves nothing for the tests that follow.
THEOREM NothingOutlivesItsUsersHolds == Spec => []NothingOutlivesItsUsers
<1>1. JInv => NothingOutlivesItsUsers
  <2> SUFFICES ASSUME JInv, ~aborted, NEW f \in Manager!Instances
               PROVE  \E n \in Node : Active(n) /\ f \in Needs[Want[n]]
    BY DEF NothingOutlivesItsUsers
  <2>1. f \in FP!Instances
    BY DEF Manager!Instances, FP!Instances
  <2>2. PICK n \in Node : phase[n] # "idle" /\ f \in Needs[Want[n]]
    BY <2>1 DEF JInv, UsersInv, Needed
  <2> QED  BY <2>2, IdleOrActive DEF JInv
<1> QED  BY <1>1, JInvHolds, PTL

\* When the teardown of the root group has passed, the cache is empty, also after teardowns
\* of other nodes that failed: at that time nobody else holds or needs anything.
THEOREM RootTeardownSweepsHolds == Spec => []RootTeardownSweeps
<1>1. JInv => RootTeardownSweeps
  BY DEF JInv, SweepInv, RootTeardownSweeps
<1> QED  BY <1>1, JInvHolds, PTL

\* A run does with the walk what Runner says and with the manager what Fixtures says, so
\* that all that holds in every behaviour of these modules holds in a run: the accounts of
\* Accounted and the promise of Lease, for instance.
THEOREM ImplementsParts == Spec => RunnerSpec /\ FP!Spec
<1>1. Init => RunnerInit /\ FP!Init
  BY DEF Init, Manager!Init, FP!Init
<1> QED  BY <1>1, StepOfWalk, StepOfManager, PTL DEF Spec, RunnerSpec, FP!Spec
=============================================================================
