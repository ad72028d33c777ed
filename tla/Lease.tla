-------------------------------- MODULE Lease --------------------------------
(***************************************************************************)
(* What the fixture manager promises to its users, without its mutex, its  *)
(* recursion and its scan: a fixture is created once, on top of what it    *)
(* keeps; a user leases it as long as it is up; it is closed only when     *)
(* nobody can reach it any more.                                           *)
(***************************************************************************)

CONSTANTS Fixture, User, Keeps, Permanent

VARIABLES
  up,        \* fixtures that can be leased, besides the permanent ones
  closing,   \* fixtures whose teardown is running
  lease      \* lease[u]: fixtures the user u may touch

leaseVars == <<up, closing, lease>>

LeaseInit ==
  /\ up = {}
  /\ closing = {}
  /\ lease = [u \in User |-> {}]

\* Nobody leases f and no existing fixture was built on it.
Unreachable(f) ==
  /\ \A u \in User : f \notin lease[u]
  /\ \A g \in up \cup closing : f \notin Keeps[g]

Create(f) ==
  /\ f \notin up \cup closing \cup Permanent
  /\ Keeps[f] \subseteq up \cup Permanent
  /\ up' = up \cup {f}
  /\ UNCHANGED closing

Take(u, f) ==
  /\ lease[u] = {}
  /\ f \in up' \cup Permanent
  /\ lease' = [lease EXCEPT ![u] = {f}]

Give(u) ==
  /\ lease' = [lease EXCEPT ![u] = {}]
  /\ UNCHANGED <<up, closing>>

Close(f) ==
  /\ f \in up
  /\ Unreachable(f)
  /\ up' = up \ {f}
  /\ closing' = closing \cup {f}
  /\ UNCHANGED lease

Gone(f) ==
  /\ closing' = closing \ {f}
  /\ UNCHANGED <<up, lease>>

LeaseNext ==
  \/ \E f \in Fixture : Create(f) /\ UNCHANGED lease
  \/ \E f \in Fixture, u \in User : Create(f) /\ Take(u, f)
  \/ \E f \in Fixture, u \in User : UNCHANGED <<up, closing>> /\ Take(u, f)
  \/ \E u \in User : Give(u)
  \/ \E f \in Fixture : Close(f)
  \/ \E f \in Fixture : Gone(f)

LeaseSpec == LeaseInit /\ [][LeaseNext]_leaseVars
=============================================================================
