----------------------------- MODULE MC_Runner ------------------------------
(***************************************************************************)
(* A root with two subgroups: S with two tests that may run concurrently   *)
(* (a, b) and one that may not (c), and Q, whose only test q asks for      *)
(* concurrency that its group does not allow.  E has no test at all and is *)
(* part of the tree in MC_RunnerEmptyGroup.cfg only.                       *)
(***************************************************************************)
EXTENDS Runner, TLC

CONSTANTS R, S, Q, E, a, b, c, q

MC_Test == {a, b, c, q}

MC_Parent ==
  [n \in Node \ {R} |-> IF n \in {a, b, c} THEN S ELSE IF n = q THEN Q ELSE R]

MC_Above ==
  [n \in Node |-> IF n = R THEN {}
                  ELSE IF n \in {a, b, c} THEN {R, S} ELSE IF n = q THEN {R, Q} ELSE {R}]

MC_Name == [t \in Test |-> IF t \in {a, q} THEN "x" ELSE IF t = b THEN "y" ELSE "z"]

MC_CanRun == [n \in Node |-> n \in {R, S, a, b, q}]

\* Two tests in one group by name; a whole group.
MC_FilterText ==
  { [colons |-> TRUE, groups |-> {S}, any |-> FALSE, names |-> {"y", "z"}],
    [colons |-> FALSE, groups |-> {Q}, any |-> FALSE, names |-> {}] }
=============================================================================
