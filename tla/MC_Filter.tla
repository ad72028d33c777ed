----------------------------- MODULE MC_Filter ------------------------------
(***************************************************************************)
(* Groups A, A::B and C below the root, five tests of which one is in the  *)
(* root group, two test names.  The filters are all the combinations of    *)
(* matches that a string can have: a partial match of a path also matches  *)
(* the longer paths, an exact match is a match of one path or name.        *)
(***************************************************************************)
EXTENDS Filter, TLC

CONSTANTS R, A, B, C, r1, a1, b1, b2, c1

MC_Group == {R, A, B, C}

MC_Test == {r1, a1, b1, b2, c1}

MC_Parent ==
  (A :> R) @@ (B :> A) @@ (C :> R)
  @@ (r1 :> R) @@ (a1 :> A) @@ (b1 :> B) @@ (b2 :> B) @@ (c1 :> C)

MC_Above ==
  (R :> {}) @@ (A :> {R}) @@ (B :> {R, A}) @@ (C :> {R})
  @@ (r1 :> {R}) @@ (a1 :> {R, A}) @@ (b1 :> {R, A, B}) @@ (b2 :> {R, A, B})
  @@ (c1 :> {R, C})

MC_Name ==
  (r1 :> "x") @@ (a1 :> "x") @@ (b1 :> "x") @@ (b2 :> "y") @@ (c1 :> "y")

PartialGroups == {{}, {B}, {C}, {B, C}, {A, B}, {A, B, C}}

Names == {"x", "y"}

MC_FilterText ==
  [colons : {TRUE}, groups : PartialGroups \cup {{A}}, any : {FALSE}, names : SUBSET Names]
  \cup [colons : {TRUE}, groups : PartialGroups \cup {{A}}, any : {TRUE}, names : {Names}]
  \cup [colons : {FALSE}, groups : PartialGroups, any : {FALSE}, names : SUBSET Names]
  \cup [colons : {FALSE}, groups : {{A}}, any : {FALSE}, names : {{}, {"x"}, {"y"}}]
  \cup [colons : {FALSE}, groups : {{A, B, C}}, any : {TRUE}, names : {Names}]
=============================================================================
