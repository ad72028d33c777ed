---------------------------- MODULE MC_Timeouts ----------------------------
(***************************************************************************)
(* A group and two tests with generated fixtures over A, which the first   *)
(* test's B is built on; A declares a timeout of one tick, the default is  *)
(* two.  Whoever comes first sets A up, the others queue.                  *)
(***************************************************************************)
EXTENDS Timeouts, TLC

CONSTANTS g, t1, t2, G, T1, T2, A, B

MC_Want == (g :> G) @@ (t1 :> T1) @@ (t2 :> T2)

MC_Deps == (G :> <<A>>) @@ (T1 :> <<B>>) @@ (T2 :> <<A>>) @@ (A :> <<>>) @@ (B :> <<A>>)

MC_Keeps == (G :> {A}) @@ (T1 :> {B}) @@ (T2 :> {A}) @@ (A :> {}) @@ (B :> {A})

MC_Depth == (G :> 0) @@ (T1 :> 0) @@ (T2 :> 0) @@ (B :> 1) @@ (A :> 2)

MC_Declared == [f \in Fixture |-> IF f = A THEN 1 ELSE NoTimeout]

MC_NoneDeclared == [f \in Fixture |-> NoTimeout]

MC_Body == (t1 :> 1) @@ (t2 :> NoTimeout)
=============================================================================
