--------------------------- MODULE FixturesProofs ---------------------------
(***************************************************************************)
(* Proofs about the fixture manager, for every set of users and fixtures   *)
(* and every acyclic dependency relation.                                  *)
(*                                                                         *)
(* The safety properties rest on one inductive invariant: the mutex keeps  *)
(* setup and teardown apart (MutexInv), the frames of a nested setup form  *)
(* a chain of dependencies (ChainInv), and a user owns Arcs only while it  *)
(* uses them (HeldInv).                                                    *)
(***************************************************************************)
EXTENDS Fixtures, SequenceTheorems, WellFoundedInduction, TLAPS

MutexInv ==
  /\ (stack # <<>>) <=> (lock \in User /\ phase[lock] = "setup")
  /\ lock \in User => phase[lock] \in {"setup", "teardown"}
  /\ (todo # {} \/ tearing # NoFixture) => (lock \in User /\ phase[lock] = "teardown")

\* Each frame waits for the next one, which lies deeper.
ChainInv ==
  /\ \A i \in 1 .. Len(stack) - 1 :
       /\ stack[i].got < Len(Deps[stack[i].fixture])
       /\ Deps[stack[i].fixture][stack[i].got + 1] = stack[i + 1].fixture
  /\ \A i, j \in 1 .. Len(stack) :
       i < j => Depth[stack[i].fixture] < Depth[stack[j].fixture]

\* A permanent fixture is never cached; a pass visits cached entries only.
CacheInv ==
  /\ cache \cap Permanent = {}
  /\ todo \subseteq cache

HeldInv == \A u \in User : phase[u] # "using" => held[u] = {}

IInv ==
  /\ TypeOK
  /\ MutexInv
  /\ ChainInv
  /\ CacheInv
  /\ HeldInv
  /\ InUseLive
  /\ SetupOnce

-----------------------------------------------------------------------------
(***************************************************************************)
(* The three ways the stack of setup calls changes.                        *)
(***************************************************************************)

\* Counting one more acquired dependency of the frame i changes nothing else
\* (the lookup of Inner::setup succeeds).
LEMMA BumpFrame ==
  ASSUME NEW s \in Seq(Frame), NEW i \in 1 .. Len(s)
  PROVE  LET t == [s EXCEPT ![i].got = @ + 1]
         IN /\ t \in Seq(Frame)
            /\ Len(t) = Len(s)
            /\ \A j \in 1 .. Len(s) :
                 /\ t[j].fixture = s[j].fixture
                 /\ t[j].got = IF j = i THEN s[j].got + 1 ELSE s[j].got
<1> DEFINE e == [s[i] EXCEPT !.got = @ + 1]
<1>1. s[i] \in Frame
  BY ElementOfSeq
<1>2. e \in Frame /\ e.fixture = s[i].fixture /\ e.got = s[i].got + 1
  BY <1>1 DEF Frame
<1>3. [s EXCEPT ![i].got = @ + 1] = [s EXCEPT ![i] = e]
  OBVIOUS
<1> QED
  BY <1>2, <1>3, ExceptSeq

\* A nested F::setup call starts with nothing acquired.
LEMMA PushFrame ==
  ASSUME NEW s \in Seq(Frame), NEW d \in Fixture
  PROVE  LET t == Append(s, [fixture |-> d, got |-> 0])
         IN /\ t \in Seq(Frame)
            /\ Len(t) = Len(s) + 1
            /\ \A j \in 1 .. Len(s) : t[j] = s[j]
            /\ t[Len(s) + 1] = [fixture |-> d, got |-> 0]
BY DEF Frame

\* The innermost call returns Some to the frame that made it.
LEMMA PopFrameProperties ==
  ASSUME NEW s \in Seq(Frame), Len(s) > 1
  PROVE  /\ PopFrame(s) \in Seq(Frame)
         /\ Len(PopFrame(s)) = Len(s) - 1
         /\ \A j \in 1 .. Len(s) - 1 :
              /\ PopFrame(s)[j].fixture = s[j].fixture
              /\ PopFrame(s)[j].got = IF j = Len(s) - 1 THEN s[j].got + 1 ELSE s[j].got
<1> DEFINE r == SubSeq(s, 1, Len(s) - 1)
<1>1. Len(s) \in Nat /\ Len(s) - 1 \in 1 .. Len(s)
  BY LenProperties
<1>2. \A j \in 1 .. Len(s) - 1 : s[j] \in Frame
  BY ElementOfSeq, <1>1
<1>3. /\ r \in Seq(Frame)
      /\ Len(r) = Len(s) - 1
      /\ \A j \in 1 .. Len(s) - 1 : r[j] = s[j]
  BY <1>1, <1>2, SubSeqProperties
<1> HIDE DEF r
<1>4. Len(s) - 1 \in 1 .. Len(r)
  BY <1>1, <1>3
<1> DEFINE t == [r EXCEPT ![Len(s) - 1].got = @ + 1]
<1>5. /\ t \in Seq(Frame)
      /\ Len(t) = Len(r)
      /\ \A j \in 1 .. Len(r) :
           /\ t[j].fixture = r[j].fixture
           /\ t[j].got = IF j = Len(s) - 1 THEN r[j].got + 1 ELSE r[j].got
  BY <1>3, <1>4, BumpFrame
<1>6. PopFrame(s) = t
  BY DEF PopFrame, r
<1> HIDE DEF t
<1> QED
  BY <1>3, <1>5, <1>6

-----------------------------------------------------------------------------
(***************************************************************************)
(* What the types of the constants and of the stack give.                  *)
(***************************************************************************)

\* The dependencies of a fixture are fixtures that lie deeper.
LEMMA DepsProperties ==
  ASSUME NEW f \in Fixture
  PROVE  /\ Len(Deps[f]) \in Nat
         /\ DOMAIN Deps[f] = 1 .. Len(Deps[f])
         /\ \A i \in 1 .. Len(Deps[f]) :
              Deps[f][i] \in Fixture /\ Depth[f] < Depth[Deps[f][i]]
         /\ \A d \in Keeps[f] : \E i \in 1 .. Len(Deps[f]) : Deps[f][i] = d
<1>1. Deps[f] \in Seq(Fixture)
  BY FixturesAssumption
<1>2. Len(Deps[f]) \in Nat /\ DOMAIN Deps[f] = 1 .. Len(Deps[f])
  BY <1>1, LenProperties
<1>3. \A i \in 1 .. Len(Deps[f]) : Deps[f][i] \in Fixture
  BY <1>1, ElementOfSeq
<1> QED
  BY <1>2, <1>3, FixturesAssumption

\* Depth is a number.
LEMMA DepthNat == \A f \in Fixture : Depth[f] \in Nat
BY FixturesAssumption

\* The frames of the stack are well typed.
LEMMA StackProperties ==
  ASSUME TypeOK
  PROVE  /\ stack \in Seq(Frame)
         /\ Len(stack) \in Nat
         /\ DOMAIN stack = 1 .. Len(stack)
         /\ \A j \in 1 .. Len(stack) :
              /\ stack[j].fixture \in Fixture
              /\ stack[j].got \in Nat
              /\ stack[j].got <= Len(Deps[stack[j].fixture])
              /\ Depth[stack[j].fixture] \in Nat
<1>1. stack \in Seq(Frame)
  BY DEF TypeOK
<1>2. Len(stack) \in Nat /\ DOMAIN stack = 1 .. Len(stack)
  BY <1>1, LenProperties
<1>3. \A j \in 1 .. Len(stack) : stack[j] \in Frame
  BY <1>1, ElementOfSeq
<1>4. \A j \in 1 .. Len(stack) : stack[j].fixture \in Fixture /\ stack[j].got \in Nat
  BY <1>3 DEF Frame
<1> QED
  BY <1>1, <1>2, <1>4, DepthNat DEF TypeOK

-----------------------------------------------------------------------------
(***************************************************************************)
(* The inductive invariant.                                                *)
(***************************************************************************)

\* Everything starts empty and unlocked.
LEMMA InitIInv == Init => IInv
<1> SUFFICES ASSUME Init PROVE IInv
  OBVIOUS
<1> USE FixturesAssumption DEF Init
<1>1. TypeOK
  <2>1. stack \in Seq(Frame) /\ DOMAIN stack = {}
    BY EmptySeq
  <2>2. phase \in [User -> Phase] /\ held \in [User -> SUBSET Fixture]
    BY DEF Phase
  <2> QED
    BY <2>1, <2>2 DEF TypeOK
<1>2. MutexInv /\ HeldInv /\ CacheInv
  BY DEF MutexInv, CacheInv, HeldInv
<1>3. ChainInv /\ SetupOnce
  BY DEF ChainInv, SetupOnce
<1>4. InUseLive
  BY DEF InUseLive, Available, Instances
<1> QED
  BY <1>1, <1>2, <1>3, <1>4 DEF IInv

\* Inside the mutex, in the phase "setup", the stack has an innermost frame.
LEMMA TopProperties ==
  ASSUME TypeOK, MutexInv, NEW u \in User, lock = u, phase[u] = "setup"
  PROVE  /\ Len(stack) \in 1 .. Len(stack)
         /\ Top \in Frame
         /\ Top.fixture \in Fixture
         /\ Top.got \in Nat
         /\ Top.got <= Len(Deps[Top.fixture])
         /\ todo = {}
         /\ tearing = NoFixture
<1>1. stack # <<>> /\ stack \in Seq(Frame)
  BY DEF MutexInv, TypeOK
<1>2. Len(stack) \in 1 .. Len(stack)
  BY <1>1, EmptySeq
<1>3. Top \in Frame
  BY <1>1, <1>2, ElementOfSeq DEF Top
<1>4. Top.got <= Len(Deps[Top.fixture])
  BY <1>1, <1>2, LenProperties DEF TypeOK, Top
<1>5. todo = {} /\ tearing = NoFixture
  BY DEF MutexInv
<1> QED
  BY <1>2, <1>3, <1>4, <1>5 DEF Frame

\* Outside a setup that holds the mutex there is no frame.
LEMMA NoFrames ==
  ASSUME TypeOK, MutexInv,
         lock = NoUser \/ (lock \in User /\ phase[lock] # "setup")
  PROVE  stack = <<>> /\ Len(stack) = 0 /\ DOMAIN stack = {}
BY FixturesAssumption DEF MutexInv

\* A step that leaves the stack, the cache and the fixture being torn down
\* alone, takes no Arc and gives none away, keeps what the Arcs reach alive.
LEMMA SameCache ==
  ASSUME IInv, UNCHANGED <<stack, cache, tearing>>,
         \A v \in User : held'[v] \subseteq held[v]
  PROVE  ChainInv' /\ InUseLive' /\ SetupOnce'
<1> USE DEF IInv
<1>1. ChainInv'
  BY DEF ChainInv
<1>2. InUseLive'
  BY DEF InUseLive, Available, Instances, Acquired
<1>3. SetupOnce'
  BY DEF SetupOnce, Available, Instances
<1> QED
  BY <1>1, <1>2, <1>3

\* Queueing for the mutex, dropping an Arc and finding a fixture in the cache.
LEMMA OutsideTheMutex ==
  ASSUME IInv, NEW u \in User,
         SetupLaunched(u) \/ SetupGet(u) \/ Drop(u)
  PROVE  IInv'
<1> USE FixturesAssumption DEF IInv
<1>1. CASE SetupLaunched(u)
  <2> USE <1>1 DEF SetupLaunched
  <2>1. TypeOK'
    BY DEF TypeOK, Phase
  <2>2. MutexInv' /\ HeldInv' /\ CacheInv'
    BY DEF MutexInv, CacheInv, HeldInv, TypeOK, Phase
  <2> QED
    BY <2>1, <2>2, SameCache
<1>2. CASE Drop(u)
  <2> USE <1>2 DEF Drop
  <2>1. TypeOK'
    BY DEF TypeOK, Phase
  <2>2. MutexInv' /\ HeldInv' /\ CacheInv'
    BY DEF MutexInv, CacheInv, HeldInv, TypeOK, Phase
  <2>3. \A v \in User : held'[v] \subseteq held[v]
    BY DEF TypeOK
  <2> QED
    BY <2>1, <2>2, <2>3, SameCache
<1>3. CASE SetupGet(u)
  <2> USE <1>3 DEF SetupGet
  <2>1. TypeOK'
    BY DEF TypeOK, Phase
  <2>2. MutexInv' /\ HeldInv' /\ CacheInv'
    BY DEF MutexInv, CacheInv, HeldInv, TypeOK, Phase
  <2>3. ChainInv' /\ SetupOnce'
    BY DEF ChainInv, SetupOnce, Available, Instances
  <2>4. InUseLive'
    BY DEF InUseLive, Available, Instances, Acquired, TypeOK
  <2> QED
    BY <2>1, <2>2, <2>3, <2>4
<1> QED
  BY <1>1, <1>2, <1>3

\* The first F::setup call takes the mutex.
LEMMA SetupEnterIInv ==
  ASSUME IInv, NEW u \in User, SetupEnter(u)
  PROVE  IInv'
<1> USE FixturesAssumption DEF IInv, SetupEnter
<1>1. stack' \in Seq(Frame) /\ Len(stack') = 1 /\ DOMAIN stack' = {1}
      /\ stack'[1] = [fixture |-> Want[u], got |-> 0]
  BY DEF Frame
<1>2. todo = {} /\ tearing = NoFixture
  BY DEF MutexInv
<1>3. TypeOK'
  <2>1. Len(Deps[Want[u]]) \in Nat
    BY LenProperties
  <2> QED
    BY <1>1, <2>1 DEF TypeOK
<1>4. MutexInv' /\ HeldInv' /\ CacheInv'
  BY <1>1, <1>2 DEF MutexInv, CacheInv, HeldInv
<1>5. ChainInv'
  BY <1>1 DEF ChainInv
<1>6. SetupOnce'
  BY <1>1, <1>2 DEF SetupOnce, Available, Instances
<1>7. InUseLive'
  <2>1. Acquired(stack'[1]) = {}
    BY <1>1 DEF Acquired
  <2> QED
    BY <1>1, <2>1 DEF InUseLive, Available, Instances, Acquired
<1> QED
  BY <1>3, <1>4, <1>5, <1>6, <1>7

\* The innermost F::setup finds its next dependency, or sets it up.
LEMMA SetupDepIInv ==
  ASSUME IInv, NEW u \in User, SetupDep(u)
  PROVE  IInv'
<1> DEFINE n == Len(stack)
           d == Deps[Top.fixture][Top.got + 1]
<1>0. TypeOK /\ MutexInv /\ ChainInv /\ CacheInv /\ HeldInv /\ InUseLive /\ SetupOnce
  BY DEF IInv
<1>1. /\ phase[u] = "setup" /\ lock = u
      /\ Top.got < Len(Deps[Top.fixture])
      /\ stack' = IF d \in Available
                  THEN [stack EXCEPT ![n].got = @ + 1]
                  ELSE Append(stack, [fixture |-> d, got |-> 0])
      /\ UNCHANGED <<phase, held, lock, cache, todo, found_any, tearing, aborted>>
  BY DEF SetupDep
<1>2. /\ n \in 1 .. n
      /\ Top.fixture \in Fixture
      /\ Top.got \in Nat
      /\ todo = {} /\ tearing = NoFixture
  BY <1>0, <1>1, TopProperties
<1>3. /\ n \in Nat /\ DOMAIN stack = 1 .. n /\ stack \in Seq(Frame)
      /\ \A j \in 1 .. n : /\ stack[j].fixture \in Fixture
                           /\ stack[j].got \in Nat
                           /\ stack[j].got <= Len(Deps[stack[j].fixture])
                           /\ Depth[stack[j].fixture] \in Nat
  BY <1>0, StackProperties
<1>4. /\ Top.got + 1 \in 1 .. Len(Deps[Top.fixture])
      /\ Len(Deps[Top.fixture]) \in Nat
      /\ d \in Fixture
      /\ Depth[Top.fixture] < Depth[d]
      /\ Depth[d] \in Nat /\ Depth[Top.fixture] \in Nat
  BY <1>1, <1>2, DepsProperties, DepthNat
<1>5. Top = stack[n]
  BY DEF Top
<1>6. /\ \A i \in 1 .. n - 1 :
           /\ stack[i].got < Len(Deps[stack[i].fixture])
           /\ Deps[stack[i].fixture][stack[i].got + 1] = stack[i + 1].fixture
      /\ \A i, j \in 1 .. n :
           i < j => Depth[stack[i].fixture] < Depth[stack[j].fixture]
  BY <1>0 DEF ChainInv
<1>7. stack # <<>> /\ Len(stack) = n
  BY <1>0, <1>1 DEF MutexInv
<1> HIDE DEF n, d
<1>8. CASE d \in Available
  <2>1. /\ stack' \in Seq(Frame)
        /\ Len(stack') = n
        /\ \A j \in 1 .. n :
             /\ stack'[j].fixture = stack[j].fixture
             /\ stack'[j].got = IF j = n THEN stack[j].got + 1 ELSE stack[j].got
    BY <1>1, <1>2, <1>3, <1>7, <1>8, BumpFrame
  <2>2. DOMAIN stack' = 1 .. n
    BY <2>1, LenProperties
  <2>3. TypeOK'
    <3>1. \A i \in 1 .. n : stack'[i].got <= Len(Deps[stack'[i].fixture])
      BY <1>1, <1>3, <1>4, <1>5, <2>1
    <3> QED
      BY <1>0, <1>1, <2>1, <2>2, <3>1 DEF TypeOK
  <2>4. MutexInv' /\ HeldInv' /\ CacheInv'
    <3>1. stack' # <<>>
      BY <1>2, <2>1
    <3> QED
      BY <1>0, <1>1, <1>2, <1>7, <3>1 DEF MutexInv, CacheInv, HeldInv
  <2>5. ChainInv'
    <3>1. \A i \in 1 .. n - 1 : i \in 1 .. n /\ i + 1 \in 1 .. n /\ i # n
      BY <1>3
    <3> QED
      BY <1>3, <1>6, <2>1, <3>1 DEF ChainInv
  <2>6. SetupOnce'
    BY <1>0, <1>1, <1>3, <2>1, <2>2 DEF SetupOnce, Available, Instances
  <2>7. InUseLive'
    <3>1. ASSUME NEW j \in 1 .. n, NEW i \in 1 .. stack'[j].got
          PROVE  Deps[stack'[j].fixture][i] \in Available
      <4>1. CASE i \in 1 .. stack[j].got
        BY <1>0, <1>3, <2>1, <4>1 DEF InUseLive, Acquired
      <4>2. CASE j = n /\ i = stack[n].got + 1
        BY <1>5, <1>8, <2>1, <4>2 DEF d
      <4> QED
        BY <1>3, <2>1, <4>1, <4>2
    <3>2. Available' = Available /\ Instances' = Instances /\ UNCHANGED <<held, tearing>>
      BY <1>0, <1>1 DEF Available, Instances
    <3>3. \A j \in 1 .. n : Acquired(stack'[j]) \subseteq Available
      BY <3>1 DEF Acquired
    <3> QED
      BY <1>0, <2>2, <3>2, <3>3 DEF InUseLive
  <2> QED
    BY <2>3, <2>4, <2>5, <2>6, <2>7 DEF IInv
<1>9. CASE d \notin Available
  <2>1. /\ stack' \in Seq(Frame)
        /\ Len(stack') = n + 1
        /\ \A j \in 1 .. n : stack'[j] = stack[j]
        /\ stack'[n + 1].fixture = d /\ stack'[n + 1].got = 0
    BY <1>1, <1>3, <1>4, <1>7, <1>9, PushFrame
  <2>2. DOMAIN stack' = 1 .. n + 1
    BY <2>1, LenProperties
  <2>3. \A j \in 1 .. n + 1 : j \in 1 .. n \/ j = n + 1
    BY <1>3
  <2>4. TypeOK'
    <3>1. \A i \in 1 .. n + 1 : stack'[i].got <= Len(Deps[stack'[i].fixture])
      BY <1>3, <1>4, <2>1, <2>3, DepsProperties
    <3> QED
      BY <1>0, <1>1, <2>1, <2>2, <3>1 DEF TypeOK
  <2>5. MutexInv' /\ HeldInv' /\ CacheInv'
    <3>1. stack' # <<>>
      BY <1>3, <2>1
    <3> QED
      BY <1>0, <1>1, <1>2, <1>7, <3>1 DEF MutexInv, CacheInv, HeldInv
  <2>6. ChainInv'
    <3>1. ASSUME NEW i \in 1 .. n
          PROVE  /\ stack'[i].got < Len(Deps[stack'[i].fixture])
                 /\ Deps[stack'[i].fixture][stack'[i].got + 1] = stack'[i + 1].fixture
      <4>1. CASE i = n
        BY <1>1, <1>5, <2>1, <4>1 DEF d
      <4>2. CASE i # n
        <5>1. i \in 1 .. n - 1 /\ i + 1 \in 1 .. n
          BY <1>3, <4>2
        <5> QED
          BY <1>6, <2>1, <5>1
      <4> QED
        BY <4>1, <4>2
    <3>2. ASSUME NEW i \in 1 .. n + 1, NEW j \in 1 .. n + 1, i < j
          PROVE  Depth[stack'[i].fixture] < Depth[stack'[j].fixture]
      <4>1. i \in 1 .. n
        BY <3>2, <1>3
      <4>2. CASE j \in 1 .. n
        BY <3>2, <4>1, <4>2, <1>6, <2>1
      <4>3. CASE j = n + 1
        <5>1. Depth[stack[i].fixture] <= Depth[Top.fixture]
          <6>1. CASE i = n
            BY <1>4, <1>5, <6>1
          <6>2. CASE i # n
            <7>1. i < n /\ n \in 1 .. n
              BY <1>2, <1>3, <4>1, <6>2
            <7>2. Depth[stack[i].fixture] < Depth[stack[n].fixture]
              BY <1>6, <4>1, <7>1
            <7> QED
              BY <1>3, <1>4, <1>5, <4>1, <7>2
          <6> QED
            BY <6>1, <6>2
        <5> QED
          BY <1>3, <1>4, <2>1, <4>1, <4>3, <5>1
      <4> QED
        BY <2>3, <4>2, <4>3
    <3>3. (n + 1) - 1 = n
      BY <1>3
    <3> QED
      BY <2>1, <3>1, <3>2, <3>3 DEF ChainInv
  <2>7. SetupOnce'
    <3>1. \A j \in 1 .. n : stack[j].fixture # d
      BY <1>2, <1>3, <1>4, <1>5, <1>6
    <3>2. d \notin Available \cup Instances
      BY <1>2, <1>9 DEF Instances, Available
    <3>3. \A j \in 1 .. n + 1 : stack'[j].fixture \notin Available \cup Instances
      BY <1>0, <1>3, <2>1, <2>3, <3>2 DEF SetupOnce
    <3>4. \A i, j \in 1 .. n + 1 : stack'[j].fixture = stack'[i].fixture => i = j
      BY <1>0, <1>3, <2>1, <2>3, <3>1 DEF SetupOnce
    <3>5. Available' = Available /\ Instances' = Instances
      BY <1>1 DEF Available, Instances
    <3> QED
      BY <2>2, <3>3, <3>4, <3>5 DEF SetupOnce
  <2>8. InUseLive'
    <3>1. \A i \in 1 .. stack'[n + 1].got : FALSE
      BY <2>1
    <3>2. \A j \in 1 .. n + 1 : \A i \in 1 .. stack'[j].got :
             Deps[stack'[j].fixture][i] \in Available
      BY <1>0, <1>3, <2>1, <2>3, <3>1 DEF InUseLive, Acquired
    <3>3. Available' = Available /\ Instances' = Instances /\ UNCHANGED <<held, tearing>>
      BY <1>1 DEF Available, Instances
    <3>4. \A j \in DOMAIN stack' : Acquired(stack'[j]) \subseteq Available'
      BY <2>2, <3>2, <3>3 DEF Acquired
    <3> QED
      BY <1>0, <3>3, <3>4 DEF InUseLive, Acquired
  <2> QED
    BY <2>4, <2>5, <2>6, <2>7, <2>8 DEF IInv
<1> QED
  BY <1>8, <1>9

\* A fixture whose dependencies are all acquired keeps only available ones.
LEMMA CompleteFrame ==
  ASSUME TypeOK, InUseLive, NEW j \in 1 .. Len(stack),
         stack[j].got = Len(Deps[stack[j].fixture])
  PROVE  Keeps[stack[j].fixture] \subseteq Available
<1>1. stack[j].fixture \in Fixture /\ j \in DOMAIN stack
  BY StackProperties
<1>2. \A i \in 1 .. stack[j].got : Deps[stack[j].fixture][i] \in Available
  BY <1>1 DEF InUseLive, Acquired
<1> QED
  BY <1>1, <1>2, DepsProperties

\* The innermost F::setup returns Some: its fixture is cached and handed over.
LEMMA SetupSomeIInv ==
  ASSUME IInv, NEW u \in User, SetupSome(u)
  PROVE  IInv'
<1> DEFINE n == Len(stack)
           f == Top.fixture
<1>0. TypeOK /\ MutexInv /\ ChainInv /\ CacheInv /\ HeldInv /\ InUseLive /\ SetupOnce
  BY DEF IInv
<1>1. /\ phase[u] = "setup" /\ lock = u
      /\ Top.got = Len(Deps[f])
      /\ cache' = cache \cup {f}
      /\ IF n = 1
         THEN /\ phase' = [phase EXCEPT ![u] = "using"]
              /\ held' = [held EXCEPT ![u] = {f}]
              /\ lock' = NoUser
              /\ stack' = <<>>
         ELSE /\ stack' = PopFrame(stack)
              /\ UNCHANGED <<phase, held, lock>>
      /\ UNCHANGED <<todo, found_any, tearing, aborted>>
  BY DEF SetupSome
<1>2. n \in 1 .. n /\ f \in Fixture /\ todo = {} /\ tearing = NoFixture
  BY <1>0, <1>1, TopProperties
<1>3. /\ n \in Nat /\ DOMAIN stack = 1 .. n /\ stack \in Seq(Frame)
      /\ \A j \in 1 .. n : /\ stack[j].fixture \in Fixture
                           /\ stack[j].got \in Nat
                           /\ stack[j].got <= Len(Deps[stack[j].fixture])
                           /\ Depth[stack[j].fixture] \in Nat
  BY <1>0, StackProperties
<1>4. Top = stack[n] /\ f = stack[n].fixture
  BY DEF Top
<1>5. /\ \A i \in 1 .. n - 1 :
           /\ stack[i].got < Len(Deps[stack[i].fixture])
           /\ Deps[stack[i].fixture][stack[i].got + 1] = stack[i + 1].fixture
      /\ \A i, j \in 1 .. n :
           i < j => Depth[stack[i].fixture] < Depth[stack[j].fixture]
  BY <1>0 DEF ChainInv
<1>6. stack # <<>> /\ Len(stack) = n
  BY <1>0, <1>1 DEF MutexInv
<1>7. Keeps[f] \subseteq Available
  BY <1>0, <1>1, <1>2, <1>4, CompleteFrame
<1>8. /\ f \notin Available \cup Instances
      /\ \A j \in 1 .. n : stack[j].fixture = f => j = n
      /\ \A j \in 1 .. n : stack[j].fixture \notin Available \cup Instances
  BY <1>0, <1>2, <1>3, <1>4 DEF SetupOnce
<1> HIDE DEF n, f
<1>9. Available' = Available \cup {f} /\ Instances' = Instances \cup {f}
  BY <1>1 DEF Available, Instances
<1>10. tearing' \notin Available'
  BY <1>1, <1>2, FixturesAssumption, <1>9, <1>0 DEF InUseLive
<1>11. \A g \in Instances' : Keeps[g] \subseteq Available'
  BY <1>0, <1>7, <1>9 DEF InUseLive
<1>12. CASE n = 1
  <2>1. stack' = <<>> /\ DOMAIN stack' = {} /\ Len(stack') = 0 /\ stack' \in Seq(Frame)
    BY <1>1, <1>12, EmptySeq
  <2>2. TypeOK'
    BY <1>0, <1>1, <1>2, <1>12, <2>1 DEF TypeOK, Phase
  <2>3. MutexInv'
    BY <1>1, <1>2, <1>12, <2>1, FixturesAssumption DEF MutexInv
  <2>4. HeldInv' /\ CacheInv'
    BY <1>0, <1>1, <1>2, <1>8, <1>12 DEF HeldInv, CacheInv, Available, TypeOK
  <2>5. ChainInv' /\ SetupOnce'
    BY <2>1 DEF ChainInv, SetupOnce
  <2>6. InUseLive'
    <3>1. \A v \in User : held'[v] \subseteq Available'
      BY <1>0, <1>1, <1>9, <1>12 DEF InUseLive, TypeOK
    <3> QED
      BY <1>10, <1>11, <2>1, <3>1 DEF InUseLive
  <2> QED
    BY <2>2, <2>3, <2>4, <2>5, <2>6 DEF IInv
<1>13. CASE n # 1
  <2>1. n > 1 /\ n - 1 \in 1 .. n /\ n - 1 \in Nat
    BY <1>2, <1>3, <1>13
  <2>2. /\ stack' \in Seq(Frame)
        /\ Len(stack') = n - 1
        /\ \A j \in 1 .. n - 1 :
             /\ stack'[j].fixture = stack[j].fixture
             /\ stack'[j].got = IF j = n - 1 THEN stack[j].got + 1 ELSE stack[j].got
    BY <1>1, <1>3, <1>6, <1>13, <2>1, PopFrameProperties
  <2>3. DOMAIN stack' = 1 .. n - 1 /\ stack' # <<>>
    BY <2>1, <2>2, LenProperties
  <2>4. \A j \in 1 .. n - 1 : j \in 1 .. n /\ j # n
    BY <1>3
  <2>5. TypeOK'
    <3>1. \A i \in 1 .. n - 1 : stack'[i].got <= Len(Deps[stack'[i].fixture])
      <4> TAKE i \in 1 .. n - 1
      <4>1. /\ stack[i].got \in Nat /\ stack[i].fixture \in Fixture
            /\ stack[i].got < Len(Deps[stack[i].fixture])
        BY <1>3, <1>5, <2>4
      <4>2. Len(Deps[stack[i].fixture]) \in Nat
        BY <4>1, DepsProperties
      <4>3. stack'[i].fixture = stack[i].fixture /\ stack'[i].got <= stack[i].got + 1
        BY <2>2, <4>1
      <4>4. stack'[i].got \in {stack[i].got, stack[i].got + 1}
        BY <2>2
      <4> QED
        BY <4>1, <4>2, <4>3, <4>4
    <3> QED
      BY <1>0, <1>1, <1>2, <1>13, <2>2, <2>3, <3>1 DEF TypeOK
  <2>6. MutexInv' /\ HeldInv' /\ CacheInv'
    BY <1>0, <1>1, <1>2, <1>6, <1>8, <1>13, <2>3 DEF MutexInv, CacheInv, HeldInv, Available
  <2>7. ChainInv'
    <3>1. \A i \in 1 .. (n - 1) - 1 : i \in 1 .. n - 1 /\ i + 1 \in 1 .. n - 1 /\ i # n - 1
      BY <2>1
    <3>2. \A i \in 1 .. (n - 1) - 1 :
             /\ stack'[i].got < Len(Deps[stack'[i].fixture])
             /\ Deps[stack'[i].fixture][stack'[i].got + 1] = stack'[i + 1].fixture
      BY <1>5, <2>2, <3>1
    <3>3. \A i, j \in 1 .. n - 1 :
             i < j => Depth[stack'[i].fixture] < Depth[stack'[j].fixture]
      BY <1>5, <2>2, <2>4
    <3> QED
      BY <2>2, <3>2, <3>3 DEF ChainInv
  <2>8. SetupOnce'
    <3>1. \A j \in 1 .. n - 1 : stack'[j].fixture \notin Available' \cup Instances'
      BY <1>8, <1>9, <2>2, <2>4
    <3>2. \A i, j \in 1 .. n - 1 : stack'[j].fixture = stack'[i].fixture => i = j
      BY <1>0, <1>3, <2>2, <2>4 DEF SetupOnce
    <3> QED
      BY <2>3, <3>1, <3>2 DEF SetupOnce
  <2>9. InUseLive'
    <3>1. ASSUME NEW j \in 1 .. n - 1, NEW i \in 1 .. stack'[j].got
          PROVE  Deps[stack'[j].fixture][i] \in Available'
      <4>1. CASE i \in 1 .. stack[j].got
        BY <1>0, <1>3, <1>9, <2>2, <2>4, <4>1 DEF InUseLive, Acquired
      <4>2. CASE j = n - 1 /\ i = stack[j].got + 1
        <5>1. (n - 1) + 1 = n
          BY <1>3
        <5>2. Deps[stack[j].fixture][i] = f
          BY <1>4, <1>5, <4>2, <5>1
        <5> QED
          BY <1>9, <2>2, <5>2
      <4> QED
        BY <1>3, <2>2, <2>4, <4>1, <4>2
    <3>2. \A v \in User : held'[v] \subseteq Available'
      BY <1>0, <1>1, <1>9, <1>13 DEF InUseLive
    <3> QED
      BY <1>10, <1>11, <2>3, <3>1, <3>2 DEF InUseLive, Acquired
  <2> QED
    BY <2>5, <2>6, <2>7, <2>8, <2>9 DEF IInv
<1> QED
  BY <1>12, <1>13

\* A setup ends without a fixture; its frames vanish, the cache stays.
LEMMA SetupFailsIInv ==
  ASSUME IInv, NEW u \in User, NEW result, SetupFails(u, result)
  PROVE  IInv'
<1> USE FixturesAssumption DEF IInv, SetupFails
<1>1. CASE lock = u
  <2>1. stack' = <<>> /\ DOMAIN stack' = {} /\ Len(stack') = 0 /\ stack' \in Seq(Frame)
    BY <1>1, EmptySeq
  <2>2. TypeOK'
    BY <1>1, <2>1 DEF TypeOK, Phase
  <2>3. MutexInv' /\ HeldInv' /\ CacheInv'
    BY <1>1, <2>1 DEF MutexInv, CacheInv, HeldInv, TypeOK, Phase
  <2>4. ChainInv' /\ SetupOnce'
    BY <2>1 DEF ChainInv, SetupOnce
  <2>5. InUseLive'
    BY <2>1 DEF InUseLive, Available, Instances
  <2> QED
    BY <2>2, <2>3, <2>4, <2>5
<1>2. CASE lock # u
  <2>1. TypeOK'
    BY <1>2 DEF TypeOK, Phase
  <2>2. MutexInv' /\ HeldInv' /\ CacheInv'
    BY <1>2 DEF MutexInv, CacheInv, HeldInv, TypeOK, Phase
  <2>3. ChainInv' /\ InUseLive' /\ SetupOnce'
    BY <1>2, SameCache
  <2> QED
    BY <2>1, <2>2, <2>3
<1> QED
  BY <1>1, <1>2

\* The bookkeeping steps of Inner::teardown, which touch no fixture.
LEMMA TeardownLoopIInv ==
  ASSUME IInv, NEW u \in User,
         TeardownEnter(u) \/ NextPass(u) \/ TeardownReturns(u)
  PROVE  IInv'
<1> USE FixturesAssumption DEF IInv, TeardownEnter, NextPass, TeardownReturns
<1>1. TypeOK'
  BY DEF TypeOK, Phase
<1>2. MutexInv'
  BY DEF MutexInv, TypeOK, Phase
<1>3. HeldInv' /\ CacheInv'
  BY DEF HeldInv, CacheInv, TypeOK, Phase
<1>4. ChainInv' /\ InUseLive' /\ SetupOnce'
  BY SameCache
<1> QED
  BY <1>1, <1>2, <1>3, <1>4

\* A teardown that ends in a panic or a timeout, and one that returns, both
\* leave without the extracted fixture.
LEMMA TeardownEndsIInv ==
  ASSUME IInv, NEW u \in User, TornDown(u) \/ TeardownFails(u)
  PROVE  IInv'
<1> USE FixturesAssumption DEF IInv, TornDown, TeardownFails
<1>1. TypeOK'
  BY DEF TypeOK, Phase
<1>2. MutexInv'
  BY DEF MutexInv, TypeOK, Phase
<1>3. HeldInv' /\ CacheInv'
  BY DEF HeldInv, CacheInv, TypeOK, Phase
<1>4. ChainInv'
  BY DEF ChainInv
<1>5. Available' = Available /\ Instances' \subseteq Instances
      /\ tearing' \in {tearing, NoFixture}
  BY DEF Available, Instances
<1>6. NoFixture \notin Available
  BY DEF Available, TypeOK
<1>7. InUseLive'
  BY <1>5, <1>6 DEF InUseLive, Acquired
<1>8. SetupOnce'
  BY <1>5 DEF SetupOnce
<1> QED
  BY <1>1, <1>2, <1>3, <1>4, <1>7, <1>8

\* extract_if takes a fixture out of the cache only when nothing reaches it.
LEMMA VisitIInv ==
  ASSUME IInv, NEW u \in User, NEW f \in Fixture, Visit(u, f)
  PROVE  IInv'
<1> USE FixturesAssumption DEF IInv
<1>1. /\ phase[u] = "teardown" /\ lock = u /\ tearing = NoFixture
      /\ UNCHANGED <<phase, held, lock, stack, aborted>>
  BY DEF Visit
<1>2. TypeOK'
  BY DEF TypeOK, Visit
<1>3. MutexInv' /\ HeldInv' /\ CacheInv'
  BY <1>1 DEF MutexInv, CacheInv, HeldInv, Visit
<1>4. stack' = stack /\ DOMAIN stack = {} /\ Len(stack) = 0
  BY <1>1, NoFrames
<1>5. ChainInv' /\ SetupOnce'
  BY <1>4 DEF ChainInv, SetupOnce
<1>6. InUseLive'
  <2>1. CASE Owners(f) # {}
    BY <1>1, <1>4, <2>1 DEF Visit, InUseLive, Available, Instances, Acquired
  <2>2. CASE Owners(f) = {}
    <3>1. cache' = cache \ {f} /\ tearing' = f /\ f # NoFixture
      BY <2>2 DEF Visit
    <3>2. f \in cache /\ f \notin Permanent
      BY DEF Visit, CacheInv
    <3>3. Available' = Available \ {f} /\ Instances' = Instances
      BY <1>1, <3>1, <3>2 DEF Instances, Available
    <3>4. \A v \in User : f \notin held[v]
      BY <2>2 DEF Owners
    <3>5. \A g \in Instances : f \notin Keeps[g]
      BY <2>2 DEF Owners
    <3> QED
      BY <1>1, <1>4, <3>1, <3>3, <3>4, <3>5 DEF InUseLive
  <2> QED
    BY <2>1, <2>2
<1> QED
  BY <1>2, <1>3, <1>5, <1>6

\* Every step of a group or a test, and every stuttering step, preserves IInv.
LEMMA NextIInv == IInv /\ [Next]_vars => IInv'
<1> SUFFICES ASSUME IInv, [Next]_vars PROVE IInv'
  OBVIOUS
<1>1. ASSUME NEW u \in User, Setup(u) PROVE IInv'
  BY <1>1, OutsideTheMutex, SetupEnterIInv, SetupDepIInv, SetupSomeIInv,
     SetupFailsIInv DEF Setup
<1>2. ASSUME NEW u \in User, Teardown(u) PROVE IInv'
  BY <1>2, OutsideTheMutex, TeardownLoopIInv, TeardownEndsIInv, VisitIInv
  DEF Teardown
<1>3. CASE UNCHANGED vars
  <2> USE <1>3 DEF vars, IInv
  <2>1. TypeOK'
    BY DEF TypeOK
  <2>2. MutexInv' /\ HeldInv' /\ CacheInv'
    BY DEF MutexInv, CacheInv, HeldInv
  <2> QED
    BY <2>1, <2>2, SameCache
<1> QED
  BY <1>1, <1>2, <1>3 DEF Next

LEMMA Invariance == Spec => []IInv
BY InitIInv, NextIInv, PTL DEF Spec

-----------------------------------------------------------------------------
(***************************************************************************)
(* The safety theorems.                                                    *)
(***************************************************************************)

\* The manager's state is well formed in every behaviour.
THEOREM TypeCorrect == Spec => []TypeOK
BY Invariance, PTL DEF IInv

\* No Arc that anybody holds belongs to a fixture that is torn down or being
\* torn down.
THEOREM InUseLiveHolds == Spec => []InUseLive
BY Invariance, PTL DEF IInv

\* No fixture is set up twice at a time.
THEOREM SetupOnceHolds == Spec => []SetupOnce
BY Invariance, PTL DEF IInv

-----------------------------------------------------------------------------
(***************************************************************************)
(* Refinement: the manager implements Lease.                               *)
(***************************************************************************)

\* A step inside the mutex either creates the innermost fixture or changes
\* nothing that Lease sees.
LEMMA SetupSomeLease ==
  ASSUME IInv, NEW u \in User, SetupSome(u)
  PROVE  \E f \in Fixture : /\ LeaseView!Create(f)
                            /\ UNCHANGED held \/ LeaseView!Take(u, f)
<1> USE DEF IInv
<1>1. phase[u] = "setup" /\ lock = u /\ Top.got = Len(Deps[Top.fixture])
      /\ cache' = cache \cup {Top.fixture} /\ tearing' = tearing
  BY DEF SetupSome
<1>2. Len(stack) \in 1 .. Len(stack) /\ Top.fixture \in Fixture /\ tearing = NoFixture
      /\ Len(stack) \in DOMAIN stack
  BY <1>1, TopProperties, StackProperties
<1>3. Top.fixture \notin Available \cup Instances
  BY <1>2 DEF SetupOnce, Top
<1>4. Keeps[Top.fixture] \subseteq Available
  BY <1>1, <1>2, CompleteFrame DEF Top
<1>5. LeaseView!Create(Top.fixture)
  BY <1>1, <1>2, <1>3, <1>4 DEF LeaseView!Create, Available, Instances
<1>6. held[u] = {}
  BY <1>1 DEF HeldInv
<1>7. UNCHANGED held \/ LeaseView!Take(u, Top.fixture)
  BY <1>1, <1>6 DEF SetupSome, LeaseView!Take
<1> QED
  BY <1>2, <1>5, <1>7

\* Every step of the manager is a step of Lease or leaves its view unchanged.
LEMMA StepLease == IInv /\ [Next]_vars => [LeaseView!LeaseNext]_(LeaseView!leaseVars)
<1> SUFFICES ASSUME IInv, [Next]_vars
             PROVE  LeaseView!LeaseNext \/ UNCHANGED <<held, cache, tearing>>
  BY DEF LeaseView!leaseVars
<1> USE FixturesAssumption DEF IInv
<1>1. ASSUME NEW u \in User, SetupSome(u) PROVE LeaseView!LeaseNext
  BY <1>1, SetupSomeLease DEF LeaseView!LeaseNext
<1>2. ASSUME NEW u \in User, SetupGet(u) PROVE LeaseView!LeaseNext
  <2>1. held[u] = {}
    BY <1>2 DEF HeldInv, SetupGet
  <2>2. LeaseView!Take(u, Want[u])
    BY <1>2, <2>1 DEF SetupGet, LeaseView!Take, Available
  <2>3. UNCHANGED <<cache, {tearing} \ {NoFixture}>> /\ Want[u] \in Fixture
    BY <1>2 DEF SetupGet
  <2> QED
    BY <2>2, <2>3 DEF LeaseView!LeaseNext
<1>3. ASSUME NEW u \in User, Drop(u) PROVE LeaseView!LeaseNext
  BY <1>3 DEF Drop, LeaseView!LeaseNext, LeaseView!Give
<1>4. ASSUME NEW u \in User, NEW f \in Fixture, Visit(u, f)
      PROVE  LeaseView!LeaseNext \/ UNCHANGED <<held, cache, tearing>>
  <2>1. CASE Owners(f) # {}
    BY <1>4, <2>1 DEF Visit
  <2>2. CASE Owners(f) = {}
    <3>1. f \in cache /\ tearing = NoFixture /\ tearing' = f /\ cache' = cache \ {f}
          /\ held' = held /\ f # NoFixture
      BY <1>4, <2>2 DEF Visit, CacheInv
    <3>2. LeaseView!Unreachable(f)
      BY <2>2, <3>1 DEF LeaseView!Unreachable, Owners, Instances
    <3>3. LeaseView!Close(f)
      BY <3>1, <3>2 DEF LeaseView!Close
    <3> QED
      BY <3>3 DEF LeaseView!LeaseNext
  <2> QED
    BY <2>1, <2>2
<1>5. ASSUME NEW u \in User, TornDown(u) \/ TeardownFails(u)
      PROVE  LeaseView!LeaseNext \/ UNCHANGED <<held, cache, tearing>>
  <2>1. CASE tearing' = tearing
    BY <1>5, <2>1 DEF TornDown, TeardownFails
  <2>2. CASE tearing' # tearing
    <3>1. tearing \in Fixture /\ tearing' = NoFixture /\ UNCHANGED <<held, cache>>
      BY <1>5, <2>2 DEF TornDown, TeardownFails, TypeOK
    <3>2. LeaseView!Gone(tearing)
      BY <3>1 DEF LeaseView!Gone
    <3> QED
      BY <3>1, <3>2 DEF LeaseView!LeaseNext
  <2> QED
    BY <2>1, <2>2
<1>6. ASSUME NEW u \in User, Setup(u)
      PROVE  LeaseView!LeaseNext \/ UNCHANGED <<held, cache, tearing>>
  BY <1>1, <1>2, <1>6 DEF Setup, SetupLaunched, SetupEnter, SetupDep, SetupFails
<1>7. ASSUME NEW u \in User, Teardown(u)
      PROVE  LeaseView!LeaseNext \/ UNCHANGED <<held, cache, tearing>>
  BY <1>3, <1>4, <1>5, <1>7 DEF Teardown, TeardownEnter, NextPass, TeardownReturns
<1> QED
  BY <1>6, <1>7 DEF Next, vars

\* The manager, with its mutex, its nested setups and its scan of the cache,
\* implements the leases its users rely on.
THEOREM ImplementsLease == Spec => LeasePromise
<1>1. Init => LeaseView!LeaseInit
  BY DEF Init, LeaseView!LeaseInit
<1> QED
  BY <1>1, StepLease, Invariance, PTL DEF Spec, LeasePromise, LeaseView!LeaseSpec

-----------------------------------------------------------------------------
(***************************************************************************)
(* Nothing is left over.  A pass that has found nothing yet knows why each *)
(* entry it has passed stays: a user holds it, a user is about to run its  *)
(* own teardown, or a cached fixture is built on it.                       *)
(***************************************************************************)
Excused(f) ==
  \/ \E v \in User : f \in held[v]
  \/ \E v \in User : v # lock /\ phase[v] = "teardown"
  \/ \E g \in cache : f \in Keeps[g]

PassInv ==
  (~aborted /\ ~found_any /\ lock \in User /\ phase[lock] = "teardown") =>
    /\ tearing = NoFixture
    /\ \A f \in cache \ todo : Excused(f)

\* A cache of fixtures has one on which no other cached fixture is built.
LEMMA Uppermost ==
  ASSUME NEW S \in SUBSET Fixture, S # {}
  PROVE  \E f \in S : \A g \in S : f \notin Keeps[g]
<1> DEFINE T == {Depth[f] : f \in S}
           R == OpToRel(<, Nat)
<1>1. T \subseteq Nat /\ T # {}
  BY DepthNat
<1>2. PICK m \in T : \A y \in T : ~ (<<y, m>> \in R)
  <2> HIDE DEF T, R
  <2>1. IsWellFoundedOn(R, Nat)
    BY NatLessThanWellFounded DEF R
  <2> QED
    BY <1>1, <2>1, WFMin
<1>3. \A y \in T : ~ (y < m)
  <2> SUFFICES ASSUME NEW y \in T, y < m PROVE FALSE
    OBVIOUS
  <2>1. y \in Nat /\ m \in Nat
    BY <1>1
  <2>2. <<y, m>> \in R
    BY <2>1 DEF OpToRel
  <2> QED
    BY <1>2, <2>2
<1>4. PICK f \in S : Depth[f] = m
  BY <1>2
<1>5. ASSUME NEW g \in S, f \in Keeps[g] PROVE FALSE
  <2>1. Depth[g] < Depth[f]
    BY <1>5, DepsProperties
  <2> QED
    BY <1>3, <1>4, <2>1
<1> QED
  BY <1>5

LEMMA PassStep == IInv /\ PassInv /\ [Next]_vars => PassInv'
<1> SUFFICES ASSUME IInv, PassInv, [Next]_vars,
                    ~aborted', ~found_any', lock' \in User, phase'[lock'] = "teardown"
             PROVE  tearing' = NoFixture /\ \A f \in cache' \ todo' : Excused(f)'
  BY DEF PassInv
<1> USE FixturesAssumption DEF IInv
<1>1. ASSUME NEW u \in User, Setup(u)
      PROVE  tearing' = NoFixture /\ \A f \in cache' \ todo' : Excused(f)'
  <2>1. lock' = lock /\ phase[lock] = "teardown" /\ lock # u
    BY <1>1 DEF Setup, SetupLaunched, SetupGet, SetupEnter, SetupDep, SetupSome,
       SetupFails, TypeOK, MutexInv
  <2>2. UNCHANGED <<cache, todo, tearing, found_any, aborted>>
    BY <1>1, <2>1 DEF Setup, SetupLaunched, SetupGet, SetupEnter, SetupDep, SetupSome,
       SetupFails
  <2>3. \A v \in User : /\ held[v] \subseteq held'[v]
                        /\ phase[v] = "teardown" => phase'[v] = "teardown"
    BY <1>1, <2>1 DEF Setup, SetupLaunched, SetupGet, SetupEnter, SetupDep, SetupSome,
       SetupFails, TypeOK, HeldInv
  <2> QED
    BY <2>1, <2>2, <2>3 DEF PassInv, Excused
<1>2. ASSUME NEW u \in User, Drop(u)
      PROVE  tearing' = NoFixture /\ \A f \in cache' \ todo' : Excused(f)'
  <2>1. phase[u] = "using" /\ phase' = [phase EXCEPT ![u] = "teardown"]
        /\ held' = [held EXCEPT ![u] = {}]
        /\ UNCHANGED <<lock, cache, todo, found_any, tearing, aborted>>
    BY <1>2 DEF Drop
  <2>2. lock # u
    BY <2>1 DEF MutexInv
  <2>3. phase'[u] = "teardown" /\ lock' # u
    BY <2>1, <2>2 DEF TypeOK
  <2>4. phase[lock] = "teardown"
    BY <2>1, <2>2 DEF TypeOK
  <2> QED
    BY <2>1, <2>3, <2>4 DEF PassInv, Excused
<1>3. ASSUME NEW u \in User, TeardownEnter(u) \/ NextPass(u)
      PROVE  tearing' = NoFixture /\ \A f \in cache' \ todo' : Excused(f)'
  BY <1>3 DEF TeardownEnter, NextPass, MutexInv
<1>4. ASSUME NEW u \in User, NEW f \in Fixture, Visit(u, f)
      PROVE  tearing' = NoFixture /\ \A g \in cache' \ todo' : Excused(g)'
  <2>1. /\ lock = u /\ phase[u] = "teardown" /\ Owners(f) # {}
        /\ todo' = todo \ {f} /\ tearing = NoFixture /\ f \in todo
        /\ UNCHANGED <<phase, held, lock, cache, found_any, tearing, aborted>>
    BY <1>4 DEF Visit
  <2>2. Excused(f)
    BY <2>1 DEF Owners, Excused, Instances
  <2>3. \A g \in cache \ todo : Excused(g)
    BY <2>1 DEF PassInv
  <2>4. \A g : Excused(g) => Excused(g)'
    BY <2>1 DEF Excused
  <2> QED
    BY <2>1, <2>2, <2>3, <2>4
<1>5. ASSUME NEW u \in User, TornDown(u) \/ TeardownReturns(u) \/ TeardownFails(u)
      PROVE  tearing' = NoFixture /\ \A f \in cache' \ todo' : Excused(f)'
  BY <1>5 DEF TornDown, TeardownReturns, TeardownFails, PassInv, MutexInv
<1>6. CASE UNCHANGED vars
  BY <1>6 DEF vars, PassInv, Excused
<1>7. ASSUME NEW u \in User, Teardown(u)
      PROVE  tearing' = NoFixture /\ \A f \in cache' \ todo' : Excused(f)'
  BY <1>2, <1>3, <1>4, <1>5, <1>7 DEF Teardown
<1> QED
  BY <1>1, <1>6, <1>7 DEF Next

LEMMA NoLeakStep == IInv /\ PassInv /\ NoLeak /\ [Next]_vars => NoLeak'
<1> SUFFICES ASSUME IInv, PassInv, NoLeak, [Next]_vars,
                    ~aborted', \A u \in User : phase'[u] = "idle"
             PROVE  cache' = {}
  BY DEF NoLeak
<1> USE FixturesAssumption DEF IInv
<1>1. ASSUME NEW u \in User, TeardownReturns(u) PROVE cache' = {}
  <2>1. /\ lock = u /\ phase[u] = "teardown" /\ ~found_any /\ ~aborted /\ todo = {}
        /\ phase' = [phase EXCEPT ![u] = "idle"] /\ cache' = cache
    BY <1>1 DEF TeardownReturns
  <2>2. \A v \in User : v # u => phase[v] = "idle"
    BY <2>1 DEF TypeOK
  <2>3. \A v \in User : held[v] = {}
    BY <2>1, <2>2 DEF HeldInv
  <2>4. \A f \in cache : \E g \in cache : f \in Keeps[g]
    BY <2>1, <2>2, <2>3 DEF PassInv, Excused
  <2>5. cache \in SUBSET Fixture
    BY DEF TypeOK
  <2> QED
    BY <2>1, <2>4, <2>5, Uppermost
<1>2. ASSUME NEW u \in User, Setup(u) PROVE FALSE
  BY <1>2 DEF Setup, SetupLaunched, SetupGet, SetupEnter, SetupDep, SetupSome,
     SetupFails, TypeOK
<1>3. ASSUME NEW u \in User, Teardown(u), ~TeardownReturns(u) PROVE FALSE
  BY <1>3 DEF Teardown, Drop, TeardownEnter, Visit, TornDown, NextPass, TeardownFails,
     TypeOK
<1>4. CASE UNCHANGED vars
  BY <1>4 DEF vars, NoLeak
<1> QED
  BY <1>1, <1>2, <1>3, <1>4 DEF Next

\* After the last group and test, the cache is empty, unless a teardown task
\* panicked or timed out: the loop of Inner::teardown stops only when nothing
\* it could tear down is left, in whatever order the hash map is scanned.
THEOREM NoLeakHolds == Spec => []NoLeak
<1>1. Init => PassInv /\ NoLeak
  BY FixturesAssumption DEF Init, PassInv, NoLeak
<1> QED
  BY <1>1, PassStep, NoLeakStep, Invariance, PTL DEF Spec
=============================================================================
