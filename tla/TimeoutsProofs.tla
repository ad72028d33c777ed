--------------------------- MODULE TimeoutsProofs ---------------------------
(***************************************************************************)
(* Proofs about the fixture manager with its timeouts, for every set of    *)
(* users and fixtures and every choice of timeouts.                        *)
(*                                                                         *)
(* The clocks restrict the manager and add nothing to it, so all that is   *)
(* proved of Fixtures holds.  What is new rests on one fact: the holder of *)
(* the mutex was spawned before everybody who waits for it (HolderOldest). *)
(***************************************************************************)
EXTENDS Timeouts, FixturesProofs

\* The mutex is FIFO, seen from the holder.
HolderOldest ==
  \A u \in User : (lock # NoUser /\ Queued(u)) => age[u] <= age[lock]

ClockInv == TimedTypeOK /\ HolderOldest

-----------------------------------------------------------------------------
\* A timed step that is not a tick is a step of the manager with Clocks.
LEMMA TimedStep ==
  ASSUME NEW u \in User, Launch(u) \/ Acquire(u) \/ Manage(u) \/ Return(u) \/ TimesOut(u)
  PROVE  Clocks /\ Next
<1>1. Clocks
  BY DEF Launch, Acquire, Manage, Return, TimesOut
<1>2. Setup(u) \/ Teardown(u)
  <2>1. CASE Launch(u)
    BY <2>1 DEF Launch, Setup
  <2>2. CASE Acquire(u)
    BY <2>2 DEF Acquire, Queue, Setup, Teardown
  <2>3. CASE Manage(u)
    BY <2>3 DEF Manage, Setup, Teardown
  <2>4. CASE Return(u)
    BY <2>4 DEF Return, Setup, Teardown
  <2>5. CASE TimesOut(u)
    BY <2>5 DEF TimesOut, Setup, Teardown
  <2> QED
    BY <2>1, <2>2, <2>3, <2>4, <2>5
<1> QED
  BY <1>1, <1>2 DEF Next

LEMMA TimedStepIsStep == [TimedNext]_timedVars => [Next]_vars
<1> SUFFICES ASSUME [TimedNext]_timedVars PROVE Next \/ UNCHANGED vars
  OBVIOUS
<1>1. CASE UNCHANGED timedVars
  BY <1>1 DEF timedVars
<1>2. CASE Tick
  BY <1>2 DEF Tick
<1>3. ASSUME NEW u \in User,
             Launch(u) \/ Acquire(u) \/ Manage(u) \/ Return(u) \/ TimesOut(u)
      PROVE  Next
  BY <1>3, TimedStep
<1> QED
  BY <1>1, <1>2, <1>3 DEF TimedNext

\* The manager with clocks implements the manager without.
THEOREM TimedImplements == TimedSpec => Spec
<1>1. TimedInit => Init
  BY DEF TimedInit
<1> QED
  BY <1>1, TimedStepIsStep, PTL DEF TimedSpec, Spec

\* No fixture is torn down in use, whatever times out.
THEOREM TimedInUseLive == TimedSpec => []InUseLive
BY TimedImplements, InUseLiveHolds, PTL

LEMMA TimedIInv == TimedSpec => []IInv
BY TimedImplements, Invariance, PTL

-----------------------------------------------------------------------------
(***************************************************************************)
(* The holder of the mutex.                                                *)
(***************************************************************************)

\* The mutex is not handed over without being free in between.
LEMMA LockStep == [Next]_vars => lock' = lock \/ lock = NoUser \/ lock' = NoUser
<1> SUFFICES ASSUME [Next]_vars PROVE lock' = lock \/ lock = NoUser \/ lock' = NoUser
  OBVIOUS
<1>1. ASSUME NEW u \in User, Setup(u)
      PROVE  lock' = lock \/ lock = NoUser \/ lock' = NoUser
  BY <1>1 DEF Setup, SetupLaunched, SetupGet, SetupEnter, SetupDep, SetupSome, SetupFails
<1>2. ASSUME NEW u \in User, Teardown(u)
      PROVE  lock' = lock \/ lock = NoUser \/ lock' = NoUser
  BY <1>2 DEF Teardown, Drop, TeardownEnter, Visit, TornDown, NextPass, TeardownReturns,
     TeardownFails
<1> QED
  BY <1>1, <1>2 DEF Next, vars

\* Whoever keeps the mutex is in the same task as before.
LEMMA HolderKeepsTask ==
  ASSUME IInv, [Next]_vars, lock \in User, lock' = lock
  PROVE  phase'[lock] = phase[lock]
<1> USE FixturesAssumption DEF IInv, MutexInv, TypeOK
<1>1. ASSUME NEW u \in User, Setup(u)
      PROVE  phase'[lock] = phase[lock]
  BY <1>1 DEF Setup, SetupLaunched, SetupGet, SetupEnter, SetupDep, SetupSome, SetupFails
<1>2. ASSUME NEW u \in User, Teardown(u)
      PROVE  phase'[lock] = phase[lock]
  BY <1>2 DEF Teardown, Drop, TeardownEnter, Visit, TornDown, NextPass, TeardownReturns,
     TeardownFails
<1> QED
  BY <1>1, <1>2 DEF Next, vars

\* Only Acquire takes the mutex, and leaves the phases as they are then.
LEMMA LockTaken ==
  ASSUME NEW u \in User, Launch(u) \/ Acquire(u) \/ Manage(u) \/ Return(u) \/ TimesOut(u),
         IInv, lock = NoUser, lock' # NoUser
  PROVE  /\ Acquire(u)
         /\ lock' = u /\ phase' = phase
<1> USE FixturesAssumption DEF IInv, MutexInv, TypeOK
<1>1. ~Launch(u)
  BY DEF Launch, SetupLaunched
<1>2. ~Manage(u)
  BY DEF Manage, SetupDep, NextPass, TeardownReturns, Visit
<1>3. ~Return(u)
  BY DEF Return, SetupSome, TornDown, Drop, SetupFails, TeardownFails
<1>4. ~TimesOut(u)
  BY DEF TimesOut, SetupFails, TeardownFails, Drop
<1>5. Acquire(u)
  BY <1>1, <1>2, <1>3, <1>4
<1> QED
  BY <1>5 DEF Acquire, Queue, SetupGet, SetupEnter, TeardownEnter

-----------------------------------------------------------------------------
(***************************************************************************)
(* The clocks.                                                             *)
(***************************************************************************)

\* Every timeout is a positive number of ticks.
LEMMA TimeoutsPositive ==
  /\ \A f \in Fixture : /\ OrDefault(timeout_setup(f)) \in Nat \ {0}
                        /\ OrDefault(timeout_teardown(f)) \in Nat \ {0}
  /\ \A u \in Test : OrDefault(DeclaredBody[u]) \in Nat \ {0}
<1> USE TimeoutsAssumption
<1>1. \A t \in (Nat \ {0}) \cup {NoTimeout} : OrDefault(t) \in Nat \ {0}
  BY DEF OrDefault
<1>2. \A f \in Fixture : /\ timeout_setup(f) \in (Nat \ {0}) \cup {NoTimeout}
                         /\ timeout_teardown(f) \in (Nat \ {0}) \cup {NoTimeout}
  BY DEF timeout_setup, timeout_teardown
<1>3. \A u \in Test : DeclaredBody[u] \in (Nat \ {0}) \cup {NoTimeout}
  OBVIOUS
<1> QED
  BY <1>1, <1>2, <1>3

LEMMA DeadlinePositive ==
  ASSUME NEW u \in User, InTask(u)
  PROVE  Deadline(u) \in Nat \ {0}
<1>1. Want[u] \in Fixture
  BY FixturesAssumption
<1>2. CASE phase[u] = "setup"
  BY <1>1, <1>2, TimeoutsPositive DEF Deadline
<1>3. CASE phase[u] = "teardown"
  BY <1>1, <1>3, TimeoutsPositive DEF Deadline
<1>4. CASE phase[u] = "using" /\ u \in Test
  BY <1>4, TimeoutsPositive DEF Deadline
<1> QED
  BY <1>2, <1>3, <1>4 DEF InTask

LEMMA InitClockInv == TimedInit => ClockInv
<1> SUFFICES ASSUME TimedInit PROVE ClockInv
  OBVIOUS
<1>1. \A u \in User : age[u] = 0 /\ ~InTask(u)
  BY DEF TimedInit, Init, InTask
<1>2. DOMAIN begun = {} /\ DOMAIN stack = {} /\ lock = NoUser
  BY DEF TimedInit, Init
<1> QED
  BY <1>1, <1>2 DEF ClockInv, TimedTypeOK, HolderOldest

\* A tick adds the same to everybody who waits and to whom they wait for.
LEMMA TickClockInv ==
  ASSUME IInv, ClockInv, Tick
  PROVE  ClockInv'
<1> USE FixturesAssumption DEF IInv, MutexInv, ClockInv, TimedTypeOK
<1>1. UNCHANGED <<vars, begun>>
      /\ age' = [u \in User |-> IF InTask(u) THEN age[u] + 1 ELSE age[u]]
      /\ \A u \in User : ~Overdue(u)
  BY DEF Tick
<1>2. UNCHANGED <<phase, lock, stack, begun>>
  BY <1>1 DEF vars
<1>3. \A u \in User : (InTask(u) <=> InTask(u)') /\ Deadline(u)' = Deadline(u)
                      /\ (Queued(u) <=> Queued(u)')
  BY <1>2 DEF InTask, Deadline, Queued
<1>4. \A u \in User : age'[u] \in Nat /\ (InTask(u)' => age'[u] <= Deadline(u)')
  <2> TAKE u \in User
  <2>1. InTask(u) => Deadline(u) \in Nat
    BY DeadlinePositive
  <2> QED
    BY <1>1, <1>3, <2>1 DEF Overdue
<1>5. HolderOldest'
  <2> SUFFICES ASSUME NEW u \in User, lock # NoUser, Queued(u)
               PROVE  age'[u] <= age'[lock]
    BY <1>2, <1>3 DEF HolderOldest
  <2>1. lock \in User /\ InTask(lock)
    BY DEF TypeOK, InTask
  <2>2. InTask(u)
    BY DEF Queued, InTask
  <2>3. age[u] <= age[lock]
    BY DEF HolderOldest
  <2> QED
    BY <1>1, <2>1, <2>2, <2>3
<1>6. \A i \in DOMAIN begun' : begun'[i] \in 0 .. age'[lock']
  <2> SUFFICES ASSUME NEW i \in DOMAIN begun PROVE begun[i] \in 0 .. age'[lock]
    BY <1>2
  <2>1. begun[i] \in 0 .. age[lock]
    OBVIOUS
  <2>2. stack # <<>>
    OBVIOUS
  <2>3. lock \in User
    BY <2>2
  <2> QED
    BY <1>1, <2>1, <2>3
<1> QED
  BY <1>2, <1>4, <1>5, <1>6

\* A user that enters a phase starts with a clock at zero.
LEMMA StepAge ==
  ASSUME IInv, ClockInv, Clocks, NEW u \in User
  PROVE  /\ age'[u] \in Nat
         /\ phase'[u] = phase[u] => age'[u] = age[u]
         /\ phase'[u] # phase[u] => age'[u] = 0
         /\ InTask(u)' => age'[u] <= Deadline(u)'
<1> USE DEF ClockInv, TimedTypeOK
<1>1. age'[u] = IF phase'[u] = phase[u] THEN age[u] ELSE 0
  BY DEF Clocks
<1>2. ASSUME InTask(u)', phase'[u] = phase[u]
      PROVE  age'[u] <= Deadline(u)'
  <2>1. InTask(u) /\ Deadline(u)' = Deadline(u)
    BY <1>2 DEF InTask, Deadline
  <2> QED
    BY <1>1, <1>2, <2>1
<1>3. ASSUME InTask(u)', phase'[u] # phase[u]
      PROVE  age'[u] <= Deadline(u)'
  <2>1. Want[u] \in Fixture
    BY FixturesAssumption
  <2>2. Deadline(u)' \in Nat \ {0}
    <3>1. CASE phase'[u] = "setup"
      BY <2>1, <3>1, TimeoutsPositive DEF Deadline
    <3>2. CASE phase'[u] = "teardown"
      BY <2>1, <3>2, TimeoutsPositive DEF Deadline
    <3>3. CASE phase'[u] = "using" /\ u \in Test
      BY <3>3, TimeoutsPositive DEF Deadline
    <3> QED
      BY <1>3, <3>1, <3>2, <3>3 DEF InTask
  <2> QED
    BY <1>1, <1>3, <2>2
<1> QED
  BY <1>1, <1>2, <1>3

\* As long as somebody waits, the clock of the holder is that of one task, spawned
\* first: it got the mutex before them, or they were spawned after it did.
LEMMA StepHolderOldest ==
  ASSUME IInv, IInv', ClockInv, NEW u \in User,
         Launch(u) \/ Acquire(u) \/ Manage(u) \/ Return(u) \/ TimesOut(u)
  PROVE  HolderOldest'
<1> SUFFICES ASSUME NEW v \in User, lock' # NoUser, Queued(v)'
             PROVE  age'[v] <= age'[lock']
  BY DEF HolderOldest
<1> USE FixturesAssumption
<1>1. Clocks /\ [Next]_vars
  BY TimedStep
<1>2. lock' \in User /\ lock \in User \cup {NoUser}
  BY DEF IInv, TypeOK
<1>3. /\ age'[v] \in Nat /\ age'[lock'] \in Nat
      /\ phase'[v] = phase[v] => age'[v] = age[v]
      /\ phase'[v] # phase[v] => age'[v] = 0
      /\ phase'[lock'] = phase[lock'] => age'[lock'] = age[lock']
  BY <1>1, <1>2, StepAge
<1>4. CASE lock = NoUser
  <2>1. Acquire(u) /\ lock' = u /\ phase' = phase
    BY <1>4, LockTaken
  <2>2. Queued(v)
    BY <1>2, <1>4, <2>1 DEF Queued
  <2>3. age[v] <= age[u]
    BY <2>1, <2>2 DEF Acquire
  <2> QED
    BY <1>3, <2>1, <2>3
<1>5. CASE lock # NoUser
  <2>1. lock' = lock
    BY <1>1, <1>5, LockStep
  <2>2. phase'[lock] = phase[lock]
    BY <1>1, <1>2, <2>1, HolderKeepsTask
  <2>3. CASE phase'[v] = phase[v]
    <3>1. Queued(v)
      BY <2>1, <2>3 DEF Queued
    <3> QED
      BY <1>3, <1>5, <2>1, <2>2, <2>3, <3>1 DEF ClockInv, HolderOldest
  <2>4. CASE phase'[v] # phase[v]
    BY <1>3, <2>4
  <2> QED
    BY <2>3, <2>4
<1> QED
  BY <1>4, <1>5

\* The frames of a nested setup belong to one task.
LEMMA StepBegun ==
  ASSUME IInv, IInv', ClockInv, NEW u \in User,
         Launch(u) \/ Acquire(u) \/ Manage(u) \/ Return(u) \/ TimesOut(u)
  PROVE  /\ DOMAIN begun' = DOMAIN stack'
         /\ \A i \in DOMAIN begun' : begun'[i] \in 0 .. age'[lock']
<1>1. Clocks /\ [Next]_vars
  BY TimedStep
<1>2. begun' = [i \in DOMAIN stack' |-> IF i \in DOMAIN begun THEN begun[i] ELSE age[lock']]
  BY <1>1 DEF Clocks
<1> SUFFICES ASSUME NEW i \in DOMAIN stack' PROVE begun'[i] \in 0 .. age'[lock']
  BY <1>2
<1> USE FixturesAssumption
<1>3. lock' \in User
  <2>1. stack' # <<>>
    OBVIOUS
  <2> QED
    BY <2>1 DEF IInv, MutexInv
<1>4. phase'[lock'] = phase[lock']
  <2>1. CASE lock = NoUser
    BY <1>3, <2>1, LockTaken
  <2>2. CASE lock # NoUser
    BY <1>1, <1>3, <2>2, LockStep, HolderKeepsTask
  <2> QED
    BY <2>1, <2>2
<1>5. age[lock'] \in Nat /\ age'[lock'] = age[lock']
  BY <1>1, <1>3, <1>4, StepAge DEF ClockInv, TimedTypeOK
<1>6. CASE i \in DOMAIN begun
  <2>1. stack # <<>> /\ begun[i] \in 0 .. age[lock]
    BY <1>6 DEF ClockInv, TimedTypeOK
  <2>2. lock \in User
    BY <2>1 DEF IInv, MutexInv
  <2>3. lock' = lock
    BY <1>1, <1>3, <2>2, LockStep
  <2> QED
    BY <1>2, <1>5, <1>6, <2>1, <2>3
<1>7. CASE i \notin DOMAIN begun
  BY <1>2, <1>5, <1>7
<1> QED
  BY <1>6, <1>7

LEMMA StepClockInv == IInv /\ IInv' /\ ClockInv /\ [TimedNext]_timedVars => ClockInv'
<1> SUFFICES ASSUME IInv, IInv', ClockInv, [TimedNext]_timedVars
             PROVE  ClockInv'
  OBVIOUS
<1>1. CASE UNCHANGED timedVars
  BY <1>1 DEF timedVars, vars, ClockInv, TimedTypeOK, HolderOldest, InTask, Deadline, Queued
<1>2. CASE Tick
  BY <1>2, TickClockInv
<1>3. ASSUME NEW u \in User,
             Launch(u) \/ Acquire(u) \/ Manage(u) \/ Return(u) \/ TimesOut(u)
      PROVE  ClockInv'
  <2>1. Clocks
    BY <1>3, TimedStep
  <2>2. \A v \in User : age'[v] \in Nat /\ (InTask(v)' => age'[v] <= Deadline(v)')
    BY <2>1, StepAge
  <2>3. HolderOldest'
    BY <1>3, StepHolderOldest
  <2>4. /\ DOMAIN begun' = DOMAIN stack'
        /\ \A i \in DOMAIN begun' : begun'[i] \in 0 .. age'[lock']
    BY <1>3, StepBegun
  <2> QED
    BY <2>2, <2>3, <2>4 DEF ClockInv, TimedTypeOK
<1> QED
  BY <1>1, <1>2, <1>3 DEF TimedNext

LEMMA ClockInvariance == TimedSpec => [](IInv /\ ClockInv)
BY InitClockInv, StepClockInv, TimedIInv, PTL DEF TimedSpec

\* No task outlives its timeout, in the queue or with the mutex.
THEOREM TimedTypeCorrect == TimedSpec => []TimedTypeOK
BY ClockInvariance, PTL DEF ClockInv

-----------------------------------------------------------------------------
(***************************************************************************)
(* The queue.                                                              *)
(***************************************************************************)

AllGenerated == \A u \in User : Want[u] \in Generated

\* Setups and teardowns of generated fixtures have one timeout, and the holder's
\* clock is ahead of those in the queue.
LEMMA QueueSafe ==
  ASSUME AllGenerated, IInv, ClockInv
  PROVE  NotInQueue
<1> SUFFICES ASSUME NEW u \in User, Queued(u), Overdue(u), lock # NoUser
             PROVE  Overdue(lock)
  BY DEF NotInQueue
<1>1. \A v \in User : phase[v] \in {"setup", "teardown"} => Deadline(v) = default_timeout
  BY DEF AllGenerated, Deadline, OrDefault, timeout_setup, timeout_teardown
<1>2. lock \in User /\ phase[lock] \in {"setup", "teardown"}
  BY DEF IInv, TypeOK, MutexInv
<1>3. age[u] >= default_timeout
  BY <1>1 DEF Queued, Overdue
<1>4. age[u] <= age[lock] /\ age[u] \in Nat /\ age[lock] \in Nat
  BY <1>2 DEF ClockInv, HolderOldest, TimedTypeOK
<1>5. default_timeout \in Nat
  BY TimeoutsAssumption
<1> QED
  BY <1>1, <1>2, <1>3, <1>4, <1>5 DEF Overdue, InTask

\* With generated fixtures only, whatever other fixtures declare, nobody's time is
\* up in the queue of the mutex before the holder's is.
THEOREM NotInQueueHolds == AllGenerated => (TimedSpec => []NotInQueue)
<1> SUFFICES ASSUME AllGenerated PROVE TimedSpec => []NotInQueue
  OBVIOUS
<1>1. IInv /\ ClockInv => NotInQueue
  BY QueueSafe
<1> QED
  BY <1>1, ClockInvariance, PTL
=============================================================================
