------------------------------ MODULE Timeouts ------------------------------
(***************************************************************************)
(* Time in the fixture manager.  task::single runs every setup, teardown   *)
(* and test body under tokio's timeout; the clock starts when the task is  *)
(* spawned, so waiting for the mutex of the manager counts.  Here fixtures *)
(* and test bodies may take any time and may hang; what ends them then is  *)
(* the timeout alone.                                                      *)
(*                                                                         *)
(* Every step is one of Fixtures, with clocks added.  The timer fires when *)
(* it is due, so time does not pass while a task is overdue; a result that *)
(* is there at that moment still counts, as the inner future is polled     *)
(* first.                                                                  *)
(***************************************************************************)
EXTENDS Fixtures

CONSTANTS
  Test,             \* users whose fixture is used by one task, under a timeout
  Generated,        \* fixtures written by #[e2etest::group] and #[e2etest::test]
  DeclaredSetup,    \* DeclaredSetup[f]: ticks that a written fixture declares, or NoTimeout
  DeclaredTeardown,
  DeclaredBody,     \* DeclaredBody[u]: the timeout of a test's attribute, or NoTimeout
  default_timeout,  \* RunContext::default_timeout, in ticks
  NoTimeout         \* the function returns None

ASSUME TimeoutsAssumption ==
  /\ Test \subseteq User
  /\ Generated \subseteq Fixture
  /\ default_timeout \in Nat \ {0}
  /\ NoTimeout \notin Nat \ {0}
  /\ DeclaredSetup \in [Fixture -> (Nat \ {0}) \cup {NoTimeout}]
  /\ DeclaredTeardown \in [Fixture -> (Nat \ {0}) \cup {NoTimeout}]
  /\ DeclaredBody \in [Test -> (Nat \ {0}) \cup {NoTimeout}]

VARIABLES
  age,    \* age[u]: ticks since the current task of u was spawned
  begun   \* begun[i]: the age of the holder's task when stack[i] was called

timedVars == <<vars, age, begun>>

OrDefault(t) == IF t = NoTimeout THEN default_timeout ELSE t

\* A generated fixture keeps the provided methods of the trait.
timeout_setup(f) == IF f \in Generated THEN NoTimeout ELSE DeclaredSetup[f]

timeout_teardown(f) == IF f \in Generated THEN NoTimeout ELSE DeclaredTeardown[f]

\* Mutant: a teardown is given twice the time.
DeadlineLongTeardown(u) ==
  CASE phase[u] = "setup" -> OrDefault(timeout_setup(Want[u]))
    [] phase[u] = "teardown" -> 2 * OrDefault(timeout_teardown(Want[u]))
    [] phase[u] = "using" -> OrDefault(DeclaredBody[u])

\* The timeout that run_test and run_group pass to task::single.
Deadline(u) ==
  CASE phase[u] = "setup" -> OrDefault(timeout_setup(Want[u]))
    [] phase[u] = "teardown" -> OrDefault(timeout_teardown(Want[u]))
    [] phase[u] = "using" -> OrDefault(DeclaredBody[u])

\* u has a spawned task; while a group uses its fixture it has none of its own.
InTask(u) == phase[u] \in {"setup", "teardown"} \/ (phase[u] = "using" /\ u \in Test)

Overdue(u) == InTask(u) /\ age[u] >= Deadline(u)

Queued(u) == phase[u] \in {"setup", "teardown"} /\ lock # u

TimedInit ==
  /\ Init
  /\ age = [u \in User |-> 0]
  /\ begun = <<>>

\* Mutant: the clock of a task runs on in the next task of the same user.
ClocksRunOn ==
  /\ age' = age
  /\ begun' = [i \in DOMAIN stack' |-> IF i \in DOMAIN begun THEN begun[i] ELSE age[lock']]

\* A new phase is a new task; the frames of nested setups get the time of their call.
Clocks ==
  /\ age' = [u \in User |-> IF phase'[u] = phase[u] THEN age[u] ELSE 0]
  /\ begun' = [i \in DOMAIN stack' |-> IF i \in DOMAIN begun THEN begun[i] ELSE age[lock']]

-----------------------------------------------------------------------------
Launch(u) == SetupLaunched(u) /\ Clocks

\* The mutex is FIFO: whoever was spawned first gets it first.
Acquire(u) ==
  /\ \A v \in User : Queued(v) => age[v] <= age[u]
  /\ Queue(u)
  /\ Clocks

\* The part of setup and teardown that awaits no fixture.
Manage(u) ==
  /\ \/ SetupDep(u) \/ NextPass(u) \/ TeardownReturns(u)
     \/ \E f \in Fixture : Visit(u, f)
  /\ Clocks

\* Code of fixtures and tests returns, or panics.
Return(u) ==
  /\ \/ SetupSome(u) \/ TornDown(u) \/ Drop(u)
     \/ lock = u /\ (\E result \in {"none", "err"} : SetupFails(u, result))
     \/ lock = u /\ TeardownFails(u)
  /\ Clocks

\* Mutant: teardowns run without a timeout.
TimesOutButTeardown(u) ==
  /\ Overdue(u)
  /\ SetupFails(u, "err") \/ Drop(u)
  /\ Clocks

\* time::timeout gives up on the future: "timed out".
TimesOut(u) ==
  /\ Overdue(u)
  /\ SetupFails(u, "err") \/ TeardownFails(u) \/ Drop(u)
  /\ Clocks

Tick ==
  /\ \E u \in User : InTask(u)
  /\ \A u \in User : ~Overdue(u)
  /\ age' = [u \in User |-> IF InTask(u) THEN age[u] + 1 ELSE age[u]]
  /\ UNCHANGED <<vars, begun>>

TimedNext ==
  \/ \E u \in User : Launch(u) \/ Acquire(u) \/ Manage(u) \/ Return(u) \/ TimesOut(u)
  \/ Tick

TimedSpec == TimedInit /\ [][TimedNext]_timedVars

\* Time passes, and a task that can go on is polled: it gets the mutex, does what
\* awaits no fixture, or is ended by its timer.  The code of fixtures and tests
\* carries no fairness: it may hang.
Polled(u) == Acquire(u) \/ Manage(u) \/ TimesOut(u)

FairTimedSpec ==
  /\ TimedSpec
  /\ WF_timedVars(Tick)
  /\ \A u \in User : WF_timedVars(Polled(u))

-----------------------------------------------------------------------------
\* The clocks have their types: no task outlives its timeout, nor the nested setups
\* of the holder the task they run in (task.rs:88).
TimedTypeOK ==
  /\ \A u \in User : age[u] \in Nat /\ (InTask(u) => age[u] <= Deadline(u))
  /\ DOMAIN begun = DOMAIN stack
  /\ \A i \in DOMAIN begun : begun[i] \in 0 .. age[lock]

\* Every setup, teardown and test body that is spawned ends, even when the code of
\* some fixture or test hangs for ever while it holds the mutex of the manager
\* (fixture.rs:31), and although the teardown that follows needs the same mutex.
HangsEnd ==
  \A u \in User :
    /\ phase[u] \in {"setup", "teardown"} ~> phase[u] \in {"using", "idle"}
    /\ u \in Test => (phase[u] = "using" ~> phase[u] # "using")

\* With generated fixtures nobody's time is up in the queue of the mutex while the
\* holder still has time: the timeouts are the same for all and run from the spawn,
\* so a fixture that hangs is given up before those who wait behind it.
NotInQueue ==
  \A u \in User : (Queued(u) /\ Overdue(u) /\ lock # NoUser) => Overdue(lock)

\* "The timeout for setting up this fixture. If the setup takes longer than this,
\* the test will fail" (fixture.rs:46): no F::setup runs longer than its type's
\* timeout_setup allows.
DeclaredTimeoutHolds ==
  \A i \in DOMAIN stack :
    DeclaredSetup[stack[i].fixture] # NoTimeout =>
      age[lock] - begun[i] <= DeclaredSetup[stack[i].fixture]
=============================================================================
