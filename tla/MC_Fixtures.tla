----------------------------- MODULE MC_Fixtures -----------------------------
(***************************************************************************)
(* A group g and two tests t1, t2 at once.  G and T1 share A; T1 also owns *)
(* B, which is built on A; T2 owns B and reads C without keeping it; A is  *)
(* built on the permanent fixture P.  A setup thus has up to three nested  *)
(* calls, and tearing down what T1 leaves takes up to four passes.         *)
(***************************************************************************)
EXTENDS Fixtures, TLC

CONSTANTS g, t1, t2, G, T1, T2, A, B, C, P

MC_Fixture == {G, T1, T2, A, B, C, P}

MC_User == {g, t1, t2}

MC_Want == (g :> G) @@ (t1 :> T1) @@ (t2 :> T2)

MC_Deps ==
  (G :> <<A>>) @@ (T1 :> <<A, B>>) @@ (T2 :> <<C, B>>)
  @@ (A :> <<P>>) @@ (B :> <<A>>) @@ (C :> <<>>) @@ (P :> <<>>)

MC_Keeps ==
  (G :> {A}) @@ (T1 :> {A, B}) @@ (T2 :> {B})
  @@ (A :> {P}) @@ (B :> {A}) @@ (C :> {}) @@ (P :> {})

MC_Depth ==
  (G :> 0) @@ (T1 :> 0) @@ (T2 :> 0) @@ (B :> 1) @@ (A :> 2) @@ (C :> 1) @@ (P :> 3)
=============================================================================
