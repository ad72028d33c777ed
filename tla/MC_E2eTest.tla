----------------------------- MODULE MC_E2eTest -----------------------------
(***************************************************************************)
(* The root R with a sequential test c and a subgroup S with two           *)
(* concurrent tests a and b.  All fixtures share A; a, b and c use B,      *)
(* which is built on A, and b and c have the same fixture type.            *)
(***************************************************************************)
EXTENDS E2eTest, TLC

CONSTANTS R, S, a, b, c, FR, FS, FT, A, B

MC_Parent == (S :> R) @@ (a :> S) @@ (b :> S) @@ (c :> R)

MC_Above == (R :> {}) @@ (S :> {R}) @@ (a :> {R, S}) @@ (b :> {R, S}) @@ (c :> {R})

MC_Name == [t \in Test |-> t]

\* A plain filter that matches the group S.
MC_FilterText == {[colons |-> FALSE, groups |-> {S}, any |-> FALSE, names |-> {}]}

MC_CanRun == [n \in Node |-> n # c]

MC_Want == (R :> FR) @@ (S :> FS) @@ (a :> B) @@ (b :> FT) @@ (c :> FT)

MC_Deps ==
  (FR :> <<>>) @@ (FS :> <<A>>) @@ (FT :> <<B>>) @@ (A :> <<>>) @@ (B :> <<A>>)

MC_Keeps == [f \in Fixture |-> {Deps[f][i] : i \in DOMAIN Deps[f]}]

MC_Depth == (FR :> 0) @@ (FS :> 0) @@ (FT :> 0) @@ (B :> 1) @@ (A :> 2)
=============================================================================
