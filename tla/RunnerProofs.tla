---------------------------- MODULE RunnerProofs ----------------------------
(***************************************************************************)
(* Proofs about Runner, for every finite tree of groups and tests, every   *)
(* set of filters and every limit: the walk keeps tests apart as it should *)
(* (RInv), and what was recorded at its end adds up (Accounted).           *)
(***************************************************************************)
EXTENDS Runner, FilterProofs, FiniteSetTheorems, WellFoundedInduction, TLAPS

\* Induction: a set with 0 that is closed under successor has every number.
LEMMA NatSet ==
  ASSUME NEW T, 0 \in T, \A n \in Nat : n \in T => n + 1 \in T
  PROVE  \A n \in Nat : n \in T
<1> DEFINE R == OpToRel(<, Nat)
           B == Nat \ T
<1> SUFFICES ASSUME B # {} PROVE FALSE
  OBVIOUS
<1>1. PICK n \in B : \A y \in B : ~ (<<y, n>> \in R)
  <2> HIDE DEF B, R
  <2>1. IsWellFoundedOn(R, Nat)
    BY NatLessThanWellFounded DEF R
  <2>2. B \subseteq Nat
    BY DEF B
  <2> QED  BY <2>1, <2>2, WFMin
<1>2. n # 0 /\ n \in Nat /\ n - 1 \in Nat
  OBVIOUS
<1>3. n - 1 \notin B
  <2> SUFFICES ASSUME n - 1 \in B PROVE FALSE
    OBVIOUS
  <2>1. <<n - 1, n>> \in R
    BY <1>2 DEF OpToRel
  <2> QED  BY <1>1, <2>1
<1>4. n \in T
  BY <1>2, <1>3
<1> QED  BY <1>4

-----------------------------------------------------------------------------
\* What Total computes: the totals of the subsets of S, by taking one element
\* after the other.
Pick(s) == CHOOSE x \in s : TRUE

Adds(it, f, S) ==
  it = [s \in SUBSET S |-> IF s = {} THEN 0 ELSE f[Pick(s)] + it[s \ {Pick(s)}]]

\* Total takes its definition from the folds.
LEMMA TotalDef ==
  ASSUME NEW f, NEW S
  PROVE  Total(f, S) = (CHOOSE it : Adds(it, f, S))[S]
BY DEF Total, MapThenSumSet, MapThenFoldSet, Adds, Pick

\* An element of a finite set that is taken leaves one element less.
LEMMA PickProperties ==
  ASSUME NEW s, IsFiniteSet(s), s # {}
  PROVE  /\ Pick(s) \in s
         /\ IsFiniteSet(s \ {Pick(s)})
         /\ Cardinality(s) \in Nat /\ Cardinality(s \ {Pick(s)}) \in Nat
         /\ Cardinality(s) = Cardinality(s \ {Pick(s)}) + 1
<1>1. Pick(s) \in s
  BY DEF Pick
<1>2. /\ IsFiniteSet(s \ {Pick(s)})
      /\ Cardinality(s \ {Pick(s)}) = Cardinality(s) - 1
  BY <1>1, FS_RemoveElement
<1> QED  BY <1>1, <1>2, FS_CardinalityType

\* Induction over the subsets of a finite set, from those with one element less.
LEMMA SubsetInduction ==
  ASSUME NEW S, IsFiniteSet(S), NEW T, {} \in T,
         \A s \in SUBSET S : s # {} /\ IsFiniteSet(s) /\ (\A x \in s : s \ {x} \in T) => s \in T
  PROVE  S \in T
<1> DEFINE U == {n \in Nat : \A s \in SUBSET S : Cardinality(s) = n => s \in T}
<1>1. \A s \in SUBSET S : IsFiniteSet(s)
  BY FS_Subset
<1>2. 0 \in U
  BY <1>1, FS_EmptySet
<1>3. ASSUME NEW n \in Nat, n \in U PROVE n + 1 \in U
  <2> SUFFICES ASSUME NEW s \in SUBSET S, Cardinality(s) = n + 1 PROVE s \in T
    OBVIOUS
  <2>1. s # {} /\ IsFiniteSet(s)
    BY <1>1, FS_EmptySet
  <2>2. ASSUME NEW x \in s PROVE s \ {x} \in T
    <3>1. Cardinality(s \ {x}) = Cardinality(s) - 1
      BY <2>1, FS_RemoveElement
    <3> QED  BY <1>3, <3>1
  <2> QED  BY <2>1, <2>2
<1>4. \A n \in Nat : n \in U
  <2> HIDE DEF U
  <2> QED  BY <1>2, <1>3, NatSet
<1>5. Cardinality(S) \in Nat
  BY FS_CardinalityType
<1> QED  BY <1>4, <1>5

\* There is such a function for the subsets of a finite set.
LEMMA AddsExists ==
  ASSUME NEW f, NEW S, IsFiniteSet(S)
  PROVE  \E it : Adds(it, f, S)
<1> DEFINE Upto(n) == {s \in SUBSET S : Cardinality(s) <= n}
           Step(it, n) == [s \in Upto(n) |-> IF s = {} THEN 0 ELSE f[Pick(s)] + it[s \ {Pick(s)}]]
           T == {n \in Nat : \E it : it = Step(it, n)}
<1>0. \A s \in SUBSET S : IsFiniteSet(s)
  BY FS_Subset
<1>1. \A s \in SUBSET S, n \in Nat : s \in Upto(n + 1) /\ s # {} => s \ {Pick(s)} \in Upto(n)
  <2> SUFFICES ASSUME NEW s \in SUBSET S, NEW n \in Nat, s \in Upto(n + 1), s # {}
               PROVE  s \ {Pick(s)} \in Upto(n)
    OBVIOUS
  <2> QED  BY <1>0, PickProperties
<1>2. 0 \in T
  <2>1. Upto(0) \subseteq {{}}
    BY <1>0, FS_EmptySet, FS_CardinalityType
  <2>2. [s \in Upto(0) |-> 0] = Step([s \in Upto(0) |-> 0], 0)
    BY <2>1
  <2> QED  BY <2>2
<1>3. ASSUME NEW n \in Nat, n \in T PROVE n + 1 \in T
  <2>1. PICK it : it = Step(it, n)
    BY <1>3
  <2> DEFINE jt == Step(it, n + 1)
  <2>2. \A s \in Upto(n) : s \in Upto(n + 1)
    BY <1>0, FS_CardinalityType
  <2>3. \A s \in Upto(n) : jt[s] = it[s]
    BY <2>1, <2>2
  <2>4. \A s \in Upto(n + 1) :
          (IF s = {} THEN 0 ELSE f[Pick(s)] + it[s \ {Pick(s)}])
            = (IF s = {} THEN 0 ELSE f[Pick(s)] + jt[s \ {Pick(s)}])
    BY <1>1, <2>3
  <2>5. jt = Step(jt, n + 1)
    BY <2>4
  <2>6. \E kt : kt = Step(kt, n + 1)
    <3> WITNESS jt
    <3> QED  BY <2>5
  <2> HIDE DEF Step, jt
  <2> QED  BY <2>6
<1>4. \A n \in Nat : n \in T
  <2> HIDE DEF T
  <2> QED  BY <1>2, <1>3, NatSet
<1>5. Cardinality(S) \in Nat /\ Upto(Cardinality(S)) = SUBSET S
  BY <1>0, FS_CardinalityType, FS_Subset
<1>6. PICK it : it = Step(it, Cardinality(S))
  BY <1>4, <1>5
<1> QED  BY <1>5, <1>6 DEF Adds

\* Two such functions agree on a part of a set, where what is added agrees.
LEMMA AddsAgree ==
  ASSUME NEW f, NEW g, NEW S, NEW W \in SUBSET S, IsFiniteSet(W), \A x \in W : f[x] = g[x],
         NEW it, Adds(it, f, S), NEW jt, Adds(jt, g, W)
  PROVE  it[W] = jt[W]
<1> DEFINE T == {s \in SUBSET W : it[s] = jt[s]}
<1>1. /\ \A s \in SUBSET W : it[s] = IF s = {} THEN 0 ELSE f[Pick(s)] + it[s \ {Pick(s)}]
      /\ \A s \in SUBSET W : jt[s] = IF s = {} THEN 0 ELSE g[Pick(s)] + jt[s \ {Pick(s)}]
  <2>1. \A s \in SUBSET W : s \in SUBSET S
    OBVIOUS
  <2> QED  BY <2>1 DEF Adds
<1>2. {} \in T
  BY <1>1
<1>3. ASSUME NEW s \in SUBSET W, s # {}, IsFiniteSet(s), \A x \in s : s \ {x} \in T PROVE s \in T
  <2>1. Pick(s) \in s /\ Pick(s) \in W
    BY <1>3, PickProperties
  <2> QED  BY <1>1, <1>3, <2>1
<1> HIDE DEF T
<1>4. W \in T
  BY <1>2, <1>3, SubsetInduction
<1> QED  BY <1>4 DEF T

\* Taking one element from the front.
LEMMA TotalPick ==
  ASSUME NEW f, NEW S, IsFiniteSet(S)
  PROVE  /\ S = {} => Total(f, S) = 0
         /\ S # {} => Total(f, S) = f[Pick(S)] + Total(f, S \ {Pick(S)})
<1> DEFINE it == CHOOSE k : Adds(k, f, S)
           jt == CHOOSE k : Adds(k, f, S \ {Pick(S)})
<1>1. Adds(it, f, S)
  BY AddsExists
<1>2. it[S] = IF S = {} THEN 0 ELSE f[Pick(S)] + it[S \ {Pick(S)}]
  <2> HIDE DEF it
  <2> QED  BY <1>1 DEF Adds
<1>3. CASE S = {}
  BY <1>2, <1>3, TotalDef
<1>4. CASE S # {}
  <2>1. IsFiniteSet(S \ {Pick(S)})
    BY <1>4, PickProperties
  <2>2. Adds(jt, f, S \ {Pick(S)})
    BY <2>1, AddsExists
  <2>3. it[S \ {Pick(S)}] = jt[S \ {Pick(S)}]
    <3> DEFINE W == S \ {Pick(S)}
    <3>1. W \in SUBSET S /\ IsFiniteSet(W) /\ Adds(jt, f, W)
      BY <2>1, <2>2
    <3>2. \A x \in W : f[x] = f[x]
      OBVIOUS
    <3>3. it[W] = jt[W]
      <4> HIDE DEF it, jt, W
      <4> QED  BY <1>1, <3>1, <3>2, AddsAgree
    <3> QED  BY <3>3
  <2>4. Total(f, S \ {Pick(S)}) = jt[S \ {Pick(S)}] /\ Total(f, S) = it[S]
    BY TotalDef
  <2> QED  BY <1>2, <1>4, <2>3, <2>4
<1> QED  BY <1>3, <1>4

\* Only what is added counts.
LEMMA TotalAgrees ==
  ASSUME NEW f, NEW g, NEW S, IsFiniteSet(S), \A x \in S : f[x] = g[x]
  PROVE  Total(f, S) = Total(g, S)
<1> DEFINE it == CHOOSE k : Adds(k, f, S)
           jt == CHOOSE k : Adds(k, g, S)
<1>1. Adds(it, f, S) /\ Adds(jt, g, S)
  BY AddsExists
<1>2. Total(f, S) = it[S] /\ Total(g, S) = jt[S]
  BY TotalDef
<1> HIDE DEF it, jt
<1>3. S \in SUBSET S
  OBVIOUS
<1>4. it[S] = jt[S]
  BY <1>1, <1>3, AddsAgree
<1> QED  BY <1>2, <1>4

\* A total of numbers is a number.
LEMMA TotalNat ==
  ASSUME NEW f, NEW S, IsFiniteSet(S), \A x \in S : f[x] \in Nat
  PROVE  Total(f, S) \in Nat
<1> DEFINE T == {s \in SUBSET S : Total(f, s) \in Nat}
<1>1. {} \in T
  <2>1. Total(f, {}) = 0
    BY TotalPick, FS_EmptySet
  <2> QED  BY <2>1
<1>2. ASSUME NEW s \in SUBSET S, s # {}, IsFiniteSet(s), \A x \in s : s \ {x} \in T PROVE s \in T
  <2>1. Pick(s) \in s /\ f[Pick(s)] \in Nat
    BY <1>2, PickProperties
  <2>2. Total(f, s \ {Pick(s)}) \in Nat
    BY <1>2, <2>1
  <2>3. Total(f, s) = f[Pick(s)] + Total(f, s \ {Pick(s)})
    BY <1>2, TotalPick
  <2> QED  BY <2>1, <2>2, <2>3
<1> HIDE DEF T
<1>3. S \in T
  BY <1>1, <1>2, SubsetInduction
<1> QED  BY <1>3 DEF T

\* Any element may be counted before the others.
LEMMA TotalElement ==
  ASSUME NEW f, NEW S, IsFiniteSet(S), \A x \in S : f[x] \in Nat, NEW y \in S
  PROVE  Total(f, S) = f[y] + Total(f, S \ {y})
<1> DEFINE T == {s \in SUBSET S : \A x \in s : Total(f, s) = f[x] + Total(f, s \ {x})}
<1>1. {} \in T
  OBVIOUS
<1>2. ASSUME NEW s \in SUBSET S, s # {}, IsFiniteSet(s), \A x \in s : s \ {x} \in T PROVE s \in T
  <2> SUFFICES ASSUME NEW x \in s PROVE Total(f, s) = f[x] + Total(f, s \ {x})
    OBVIOUS
  <2> DEFINE p == Pick(s)
             r == s \ {p}
             q == s \ {x}
  <2>1. Total(f, s) = f[p] + Total(f, r) /\ p \in s
    BY <1>2, TotalPick, PickProperties
  <2>2. CASE x = p
    BY <2>1, <2>2
  <2>3. CASE x # p
    <3>1. IsFiniteSet(r \ {x}) /\ x \in r /\ q \ {p} = r \ {x} /\ p \in q
      BY <1>2, <2>1, <2>3, FS_Subset
    <3>2. Total(f, r) = f[x] + Total(f, r \ {x})
      BY <1>2, <2>1, <3>1
    <3>3. Total(f, q) = f[p] + Total(f, r \ {x})
      BY <1>2, <3>1
    <3>4. Total(f, r \ {x}) \in Nat /\ f[p] \in Nat /\ f[x] \in Nat
      BY <2>1, <3>1, TotalNat
    <3> QED  BY <2>1, <3>2, <3>3, <3>4
  <2> QED  BY <2>2, <2>3
<1> HIDE DEF T
<1>3. S \in T
  BY <1>1, <1>2, SubsetInduction
<1> QED  BY <1>3 DEF T

\* Totals of one element and of two.
LEMMA FewFinite ==
  \A x, y, z : IsFiniteSet({x}) /\ IsFiniteSet({x, y}) /\ IsFiniteSet({x, y, z})
<1> SUFFICES ASSUME NEW x, NEW y, NEW z
             PROVE  IsFiniteSet({x}) /\ IsFiniteSet({x, y}) /\ IsFiniteSet({x, y, z})
  OBVIOUS
<1>1. IsFiniteSet({x}) /\ IsFiniteSet({y}) /\ IsFiniteSet({z})
  BY FS_Singleton
<1>2. IsFiniteSet({x} \cup {y})
  BY ONLY <1>1, FS_Union
<1>3. IsFiniteSet(({x} \cup {y}) \cup {z})
  BY ONLY <1>1, <1>2, FS_Union
<1>4. {x, y} = {x} \cup {y} /\ {x, y, z} = ({x} \cup {y}) \cup {z}
  OBVIOUS
<1> QED  BY <1>1, <1>2, <1>3, <1>4

\* A total of one element.
LEMMA TotalOne ==
  ASSUME NEW f, NEW x, f[x] \in Nat
  PROVE  Total(f, {x}) = f[x]
<1>1. Total(f, {x}) = f[x] + Total(f, {x} \ {x})
  BY FewFinite, TotalElement
<1>2. {x} \ {x} = {}
  OBVIOUS
<1>3. Total(f, {x} \ {x}) = 0
  BY <1>2, FS_EmptySet, TotalPick
<1> QED  BY <1>1, <1>3

\* A total of two elements.
LEMMA TotalTwo ==
  ASSUME NEW f, NEW x, NEW y, f[x] \in Nat, f[y] \in Nat, x # y
  PROVE  Total(f, {x, y}) = f[x] + f[y]
<1>1. Total(f, {x, y}) = f[y] + Total(f, {x, y} \ {y})
  BY FewFinite, TotalElement
<1>2. {x, y} \ {y} = {x}
  OBVIOUS
<1>3. Total(f, {x, y}) = f[y] + f[x]
  BY <1>1, <1>2, TotalOne
<1> QED  BY <1>3

\* A total of sums is the sum of the totals.
LEMMA TotalSum ==
  ASSUME NEW f, NEW g, NEW h, NEW S, IsFiniteSet(S),
         \A x \in S : g[x] \in Nat /\ h[x] \in Nat /\ f[x] = g[x] + h[x]
  PROVE  Total(f, S) = Total(g, S) + Total(h, S)
<1> DEFINE T == {s \in SUBSET S : Total(f, s) = Total(g, s) + Total(h, s)}
<1>1. {} \in T
  <2>1. Total(f, {}) = 0 /\ Total(g, {}) = 0 /\ Total(h, {}) = 0
    BY TotalPick, FS_EmptySet
  <2> QED  BY <2>1
<1>2. ASSUME NEW s \in SUBSET S, s # {}, IsFiniteSet(s), \A x \in s : s \ {x} \in T PROVE s \in T
  <2> DEFINE p == Pick(s)
             r == s \ {p}
  <2>1. p \in s /\ p \in S /\ IsFiniteSet(r)
    BY <1>2, PickProperties
  <2>2. Total(f, r) = Total(g, r) + Total(h, r)
    BY <1>2, <2>1
  <2>3. /\ Total(f, s) = f[p] + Total(f, r) /\ Total(g, s) = g[p] + Total(g, r)
        /\ Total(h, s) = h[p] + Total(h, r)
    BY <1>2, TotalPick
  <2>4. Total(g, r) \in Nat /\ Total(h, r) \in Nat
    BY <2>1, TotalNat
  <2>5. g[p] \in Nat /\ h[p] \in Nat /\ f[p] = g[p] + h[p]
    BY <2>1
  <2> HIDE DEF p, r
  <2>6. Total(f, s) = Total(g, s) + Total(h, s)
    BY <2>2, <2>3, <2>4, <2>5
  <2> QED  BY <2>6
<1> HIDE DEF T
<1>3. S \in T
  BY <1>1, <1>2, SubsetInduction
<1> QED  BY <1>3 DEF T

\* A total is zero exactly when everything that is counted is.
LEMMA TotalZero ==
  ASSUME NEW f, NEW S, IsFiniteSet(S), \A x \in S : f[x] \in Nat
  PROVE  Total(f, S) = 0 <=> \A x \in S : f[x] = 0
<1>1. ASSUME \A x \in S : f[x] = 0 PROVE Total(f, S) = 0
  <2>1. Total(f, S) = Total(f, S) + Total(f, S)
    BY <1>1, TotalSum
  <2> QED  BY <2>1, TotalNat
<1>2. ASSUME Total(f, S) = 0, NEW x \in S PROVE f[x] = 0
  <2>1. Total(f, S) = f[x] + Total(f, S \ {x})
    BY TotalElement
  <2>2. Total(f, S \ {x}) \in Nat
    BY TotalNat, FS_Subset
  <2> QED  BY <1>2, <2>1, <2>2
<1> QED  BY <1>1, <1>2

\* Two disjoint sets are counted one after the other.
LEMMA TotalSplit ==
  ASSUME NEW f, NEW A, NEW B, IsFiniteSet(A), IsFiniteSet(B), A \cap B = {},
         \A x \in A \cup B : f[x] \in Nat
  PROVE  Total(f, A \cup B) = Total(f, A) + Total(f, B)
<1> DEFINE T == {s \in SUBSET A : Total(f, s \cup B) = Total(f, s) + Total(f, B)}
<1>0. Total(f, B) \in Nat
  BY TotalNat
<1>1. {} \in T
  <2>1. Total(f, {}) = 0 /\ {} \cup B = B
    BY TotalPick, FS_EmptySet
  <2> QED  BY <1>0, <2>1
<1>2. ASSUME NEW s \in SUBSET A, s # {}, IsFiniteSet(s), \A x \in s : s \ {x} \in T PROVE s \in T
  <2>1. PICK p \in s : TRUE
    BY <1>2
  <2> DEFINE r == s \ {p}
  <2>2. Total(f, r \cup B) = Total(f, r) + Total(f, B)
    BY <1>2
  <2>3. /\ (s \cup B) \ {p} = r \cup B /\ IsFiniteSet(s \cup B) /\ IsFiniteSet(r)
        /\ p \in s \cup B
    <3>1. (s \cup B) \ {p} = r \cup B /\ p \in s \cup B /\ r \subseteq s
      BY <1>2
    <3>2. IsFiniteSet(s \cup B)
      BY <1>2, FS_Union
    <3>3. IsFiniteSet(r)
      BY <1>2, <3>1, FS_Subset
    <3> QED  BY <3>1, <3>2, <3>3
  <2>4. Total(f, s \cup B) = f[p] + Total(f, (s \cup B) \ {p})
    BY <2>3, TotalElement
  <2>5. Total(f, s) = f[p] + Total(f, r)
    BY <1>2, TotalElement
  <2>6. Total(f, r) \in Nat /\ f[p] \in Nat
    BY <2>3, TotalNat
  <2> HIDE DEF r
  <2>7. Total(f, s \cup B) = Total(f, s) + Total(f, B)
    BY <1>0, <2>2, <2>3, <2>4, <2>5, <2>6
  <2> QED  BY <2>7
<1> HIDE DEF T
<1>3. A \in T
  BY <1>1, <1>2, SubsetInduction
<1> QED  BY <1>3 DEF T

\* The sizes of disjoint sets add up to the size of their union.
LEMMA TotalUnion ==
  ASSUME NEW f, NEW S, IsFiniteSet(S), NEW B,
         \A x \in S : IsFiniteSet(B[x]) /\ f[x] = Cardinality(B[x]),
         \A x, y \in S : x # y => B[x] \cap B[y] = {}
  PROVE  Total(f, S) = Cardinality(UNION {B[x] : x \in S})
<1> DEFINE U(s) == UNION {B[x] : x \in s}
           T == {s \in SUBSET S : IsFiniteSet(U(s)) /\ Total(f, s) = Cardinality(U(s))}
<1>1. {} \in T
  <2>1. Total(f, {}) = 0 /\ U({}) = {}
    BY TotalPick, FS_EmptySet
  <2> QED  BY <2>1, FS_EmptySet
<1>2. ASSUME NEW s \in SUBSET S, s # {}, IsFiniteSet(s), \A x \in s : s \ {x} \in T PROVE s \in T
  <2>1. PICK p \in s : TRUE
    BY <1>2
  <2> DEFINE r == s \ {p}
  <2>2. IsFiniteSet(U(r)) /\ Total(f, r) = Cardinality(U(r))
    BY <1>2
  <2>3. U(s) = U(r) \cup B[p] /\ U(r) \cap B[p] = {}
    OBVIOUS
  <2>4. \A x \in s : f[x] \in Nat
    BY FS_CardinalityType
  <2>5. Total(f, s) = f[p] + Total(f, r)
    <3> HIDE DEF U
    <3> QED  BY <1>2, <2>4, TotalElement
  <2>6. IsFiniteSet(B[p]) /\ f[p] = Cardinality(B[p]) /\ f[p] \in Nat
    BY <2>4
  <2> HIDE DEF r, U
  <2>7. IsFiniteSet(U(s)) /\ Total(f, s) = Cardinality(U(s))
    <3>1. /\ IsFiniteSet(U(r) \cup B[p])
          /\ Cardinality(U(r) \cup B[p]) = Cardinality(U(r)) + Cardinality(B[p]) - Cardinality(U(r) \cap B[p])
      BY <2>2, <2>6, FS_Union
    <3>2. Cardinality(U(r) \cap B[p]) = 0 /\ Cardinality(U(r)) \in Nat
      BY <2>2, <2>3, FS_EmptySet, FS_CardinalityType
    <3> QED  BY <2>2, <2>3, <2>5, <2>6, <3>1, <3>2
  <2> QED  BY <2>7
<1> HIDE DEF T
<1>3. S \in T
  BY <1>1, <1>2, SubsetInduction
<1> QED  BY <1>3 DEF T

-----------------------------------------------------------------------------
(***************************************************************************)
(* The inductive invariant: what may be entered at all (EnteredInv), where *)
(* the nodes of the tree stand to each other (WalkInv), and what was       *)
(* recorded for each of them and left behind by the walk (RecordInv).      *)
(***************************************************************************)
Content == {"groups", "concurrent", "sequential"}

Child == Node \ {Root}

\* The stage of its group in which run_group launches m.
StageOf(m) ==
  IF m \in Group THEN "groups"
  ELSE IF is_concurrency_enabled(m) THEN "concurrent" ELSE "sequential"

StageInv == \A m \in Child : Active(m) => pc[Parent[m]] = StageOf(m)

\* Below each group above an active node there is an active one on the way to it.
PathInv ==
  \A n \in Node : Active(n) => \A g \in Above[n] :
    \E h \in Child : Active(h) /\ Parent[h] = g /\ (h = n \/ h \in Above[n])

\* Tests that may run with each other.
Together(m, n) ==
  /\ m \in Test /\ n \in Test /\ Parent[m] = Parent[n]
  /\ is_concurrency_enabled(m) /\ is_concurrency_enabled(n)

\* All that is active is on one path, but for concurrent tests of one group.
OnePath ==
  \A m, n \in Node : Active(m) /\ Active(n) =>
    m = n \/ m \in Above[n] \/ n \in Above[m] \/ Together(m, n)

WalkInv == StageInv /\ PathInv /\ OnePath /\ GroupSpansContent

\* n may be entered (group.rs:58, 79).
ToRun(n) ==
  /\ n \in Test => n \in included
  /\ n \in Group \ {Root} => consider_group(filters, n)

\* run enters only what the filters consider, and only when there is a test.
EnteredInv ==
  /\ status = "config" =>
       ~panicked /\ \A n \in Node : pc[n] = "idle" /\ \A e \in Event : events[n][e] = 0
  /\ status # "config" => included = Included(filters)
  /\ status = "running" => included # {}
  /\ status = "finished" =>
       /\ ~panicked
       /\ pc[Root] = "done" \/ (included = {} /\ \A n \in Node : pc[n] = "idle")
  /\ \A n \in Node : pc[n] # "idle" => ToRun(n)

Flag(b) == IF b THEN 1 ELSE 0

\* What is recorded for n says where n stands.
Recorded(n) ==
  /\ events[n]["SetupLaunched"] = Flag(pc[n] # "idle")
  /\ events[n]["SetupPassed"] + events[n]["SetupSkipped"] + events[n]["SetupFailed"]
       = Flag(pc[n] \notin {"idle", "setup"})
  /\ pc[n] \in Content \cup {"run"} => events[n]["SetupPassed"] = 1
  /\ events[n]["TestLaunched"] = IF n \in Test THEN events[n]["SetupPassed"] ELSE 0
  /\ events[n]["TestPassed"] + events[n]["TestFailed"]
       = IF pc[n] \in {"teardown", "done"} THEN events[n]["TestLaunched"] ELSE 0
  /\ events[n]["TeardownLaunched"] = Flag(pc[n] \in {"teardown", "done"})
  /\ events[n]["TeardownPassed"] + events[n]["TeardownFailed"] = Flag(pc[n] = "done")

\* What is below a group is entered only when the setup of the group has passed.
PassedAbove ==
  \A n \in Node : pc[n] # "idle" => \A g \in Above[n] : events[g]["SetupPassed"] = 1

\* A group at the await q has no more to launch in the stage of its child m.
Behind(q, m) ==
  \/ q \in {"teardown", "done"}
  \/ q = "concurrent" /\ StageOf(m) = "groups"
  \/ q = "sequential" /\ StageOf(m) # "sequential"

\* In a group that was set up and has passed the stage of m, m is done, if it is to
\* run at all.
DoneInv ==
  \A m \in Child :
    events[Parent[m]]["SetupPassed"] = 1 /\ Behind(pc[Parent[m]], m) /\ ToRun(m) => pc[m] = "done"

RecordInv == ~panicked => PassedAbove /\ DoneInv /\ \A n \in Node : Recorded(n)

RInv == RunnerTypeOK /\ EnteredInv /\ WalkInv /\ NoPanic /\ WithinLimit /\ RecordInv

-----------------------------------------------------------------------------
(***************************************************************************)
(* WalkInv depends on pc alone.  A node that has no active child may go on *)
(* in any way, and a child may be launched in its stage.                   *)
(***************************************************************************)

\* The tree (TestTree).
LEMMA Tree ==
  /\ Child \subseteq Node /\ Group \subseteq Node /\ Test \subseteq Child
  /\ Root \in Group /\ Above[Root] = {}
  /\ \A n \in Child : /\ Parent[n] \in Group
                      /\ Root \in Above[n]
                      /\ Above[n] = Above[Parent[n]] \cup {Parent[n]}
  /\ \A n \in Node : n \notin Above[n] /\ Above[n] \subseteq Group
BY TreeAssumption DEF Node, Child

NoActiveChild(n) == \A m \in Child : Active(m) => Parent[m] # n

\* Above an active node everything is active, and below a node without an active
\* child nothing is.
LEMMA Below ==
  ASSUME PathInv, NEW n \in Node, NoActiveChild(n)
  PROVE  \A m \in Node : Active(m) => n \notin Above[m]
BY DEF PathInv, NoActiveChild

\* n goes on to another await, or ends.
LEMMA WalkMoves ==
  ASSUME WalkInv, pc \in [Node -> GroupPc \cup TestPc],
         NEW n \in Node, Active(n), NoActiveChild(n),
         NEW b, b # "idle", pc' = [pc EXCEPT ![n] = b]
  PROVE  WalkInv'
<1>1. \A m \in Node : m # n => pc'[m] = pc[m] /\ (Active(m)' <=> Active(m))
  BY DEF Active
<1>2. \A m \in Node : Active(m)' => Active(m)
  BY <1>1
<1>3. \A m \in Node : Active(m) => n \notin Above[m]
  BY Below DEF WalkInv
<1>4. StageInv'
  <2> SUFFICES ASSUME NEW m \in Child, Active(m)' PROVE pc'[Parent[m]] = StageOf(m)
    BY DEF StageInv, StageOf, is_concurrency_enabled
  <2>1. m \in Node /\ Parent[m] \in Node /\ Active(m)
    BY <1>2, Tree
  <2>2. Parent[m] # n /\ pc[Parent[m]] = StageOf(m)
    BY <2>1 DEF NoActiveChild, WalkInv, StageInv
  <2> QED  BY <1>1, <2>1, <2>2
<1>5. PathInv'
  <2> SUFFICES ASSUME NEW m \in Node, Active(m)', NEW g \in Above[m]
               PROVE  \E h \in Child : Active(h)' /\ Parent[h] = g /\ (h = m \/ h \in Above[m])
    BY DEF PathInv
  <2>1. PICK h \in Child : Active(h) /\ Parent[h] = g /\ (h = m \/ h \in Above[m])
    BY <1>2 DEF WalkInv, PathInv
  <2>2. h \in Node /\ Active(m)
    BY <1>2, Tree
  <2>3. h # m => h # n
    BY <1>3, <2>1, <2>2
  <2> QED  BY <1>1, <2>1, <2>2, <2>3
<1>6. OnePath'
  BY <1>2 DEF WalkInv, OnePath, Together, is_concurrency_enabled
<1>7. GroupSpansContent'
  <2> SUFFICES ASSUME NEW m \in Node, Active(m)', NEW g \in Above[m]
               PROVE  pc'[g] \in {"groups", "concurrent", "sequential"}
    BY DEF GroupSpansContent
  <2>1. Active(m) /\ g # n /\ g \in Node
    BY <1>2, <1>3, Tree
  <2> QED  BY <1>1, <2>1 DEF WalkInv, GroupSpansContent
<1> QED  BY <1>4, <1>5, <1>6, <1>7 DEF WalkInv

\* Nothing is active before the root group.
LEMMA RootFirst ==
  ASSUME WalkInv, pc[Root] \in {"idle", "done"}
  PROVE  \A m \in Node : m # Root => ~ Active(m)
<1> SUFFICES ASSUME NEW m \in Node, m # Root, Active(m) PROVE FALSE
  OBVIOUS
<1>1. Root \in Above[m]
  BY Tree DEF Child
<1> QED  BY <1>1 DEF WalkInv, GroupSpansContent

\* The root group is launched.
LEMMA WalkStarts ==
  ASSUME WalkInv, pc \in [Node -> GroupPc \cup TestPc], pc[Root] = "idle",
         pc' = [pc EXCEPT ![Root] = "setup"]
  PROVE  WalkInv'
<1>1. \A m \in Node : Active(m)' => m = Root
  BY RootFirst DEF Active
<1>2. \A m \in Child : ~ Active(m)'
  BY <1>1, Tree DEF Child
<1>3. \A m \in Node : Active(m)' => Above[m] = {}
  BY <1>1, Tree
<1> QED  BY <1>1, <1>2, <1>3 DEF WalkInv, StageInv, PathInv, OnePath, GroupSpansContent

\* A child is launched in its stage, next to tests only that it may run with.
LEMMA WalkLaunches ==
  ASSUME WalkInv, pc \in [Node -> GroupPc \cup TestPc],
         NEW n \in Child, pc[n] = "idle", pc[Parent[n]] = StageOf(n),
         \A m \in Child : Active(m) /\ Parent[m] = Parent[n] => Together(m, n),
         pc' = [pc EXCEPT ![n] = "setup"]
  PROVE  WalkInv'
<1> DEFINE p == Parent[n]
<1>0. n \in Node /\ p \in Node /\ p # n /\ Above[n] = Above[p] \cup {p} /\ n \notin Above[n]
      /\ Above[n] \subseteq Node
  BY Tree
<1>1. \A m \in Node : m # n => pc'[m] = pc[m] /\ (Active(m)' <=> Active(m))
  BY DEF Active
<1>2. Active(n)' /\ ~ Active(n)
  BY <1>0 DEF Active
<1>3. Active(p) /\ pc[p] \in {"groups", "concurrent", "sequential"}
  BY DEF Active, StageOf
<1>4. \A m \in Node : Active(m) => n \notin Above[m]
  BY DEF WalkInv, GroupSpansContent
<1>5. StageInv'
  <2> SUFFICES ASSUME NEW m \in Child, Active(m)' PROVE pc'[Parent[m]] = StageOf(m)
    BY DEF StageInv, StageOf, is_concurrency_enabled
  <2>1. m \in Node /\ Parent[m] \in Node /\ Parent[m] \in Above[m]
    BY Tree
  <2>2. CASE m = n
    BY <1>0, <1>1, <2>2
  <2>3. CASE m # n
    <3>1. Active(m) /\ Parent[m] # n
      BY <1>1, <1>4, <2>1, <2>3
    <3> QED  BY <1>1, <2>1, <3>1 DEF WalkInv, StageInv
  <2> QED  BY <2>2, <2>3
<1>6. PathInv'
  <2> SUFFICES ASSUME NEW m \in Node, Active(m)', NEW g \in Above[m]
               PROVE  \E h \in Child : Active(h)' /\ Parent[h] = g /\ (h = m \/ h \in Above[m])
    BY DEF PathInv
  <2>1. \A h \in Child : Active(h) => Active(h)'
    BY <1>1, <1>2, Tree
  <2>2. CASE m # n
    <3>1. Active(m)
      BY <1>1, <2>2
    <3> QED  BY <2>1, <3>1 DEF WalkInv, PathInv
  <2>3. CASE m = n /\ g = p
    BY <1>2, <2>3
  <2>4. CASE m = n /\ g # p
    <3>1. g \in Above[p]
      BY <1>0, <2>4
    <3>2. PICK h \in Child : Active(h) /\ Parent[h] = g /\ (h = p \/ h \in Above[p])
      BY <1>0, <1>3, <3>1 DEF WalkInv, PathInv
    <3> QED  BY <1>0, <2>1, <2>4, <3>2
  <2> QED  BY <2>2, <2>3, <2>4
<1>7. OnePath'
  <2>1. ASSUME NEW m \in Node, Active(m), m # n
        PROVE  m \in Above[n] \/ Together(m, n)
    <3>1. m = p \/ m \in Above[p] \/ p \in Above[m] \/ Together(m, p)
      BY <1>0, <1>3, <2>1 DEF WalkInv, OnePath
    <3>2. ~ Together(m, p)
      BY Tree, TreeAssumption DEF Together
    <3>3. CASE p \in Above[m]
      <4>1. PICK h \in Child : Active(h) /\ Parent[h] = p /\ (h = m \/ h \in Above[m])
        BY <2>1, <3>3 DEF WalkInv, PathInv
      <4>2. Together(h, n)
        BY <4>1
      <4>3. h \notin Above[m]
        BY <4>2, Tree, TreeAssumption DEF Together
      <4> QED  BY <4>1, <4>2, <4>3
    <3> QED  BY <1>0, <3>1, <3>2, <3>3
  <2>2. \A m \in Node : Together(m, n) => Together(n, m)
    BY DEF Together
  <2> SUFFICES ASSUME NEW k \in Node, NEW m \in Node, Active(k)', Active(m)'
               PROVE  k = m \/ k \in Above[m] \/ m \in Above[k] \/ Together(k, m)
    BY DEF OnePath, Together, is_concurrency_enabled
  <2>3. CASE k # n /\ m # n
    BY <1>1, <2>3 DEF WalkInv, OnePath
  <2>4. CASE k = n \/ m = n
    BY <1>1, <2>1, <2>2, <2>4
  <2> QED  BY <2>3, <2>4
<1>8. GroupSpansContent'
  <2> SUFFICES ASSUME NEW m \in Node, Active(m)', NEW g \in Above[m]
               PROVE  pc'[g] \in {"groups", "concurrent", "sequential"}
    BY DEF GroupSpansContent
  <2>1. g \in Node
    BY Tree
  <2>2. CASE m # n
    <3>1. Active(m) /\ g # n
      BY <1>1, <1>4, <2>2
    <3> QED  BY <1>1, <2>1, <3>1 DEF WalkInv, GroupSpansContent
  <2>3. CASE m = n
    <3>1. g # n /\ (g = p \/ g \in Above[p])
      BY <1>0, <2>3
    <3>2. pc[g] \in {"groups", "concurrent", "sequential"}
      BY <1>0, <1>3, <3>1 DEF WalkInv, GroupSpansContent
    <3> QED  BY <1>1, <2>1, <3>1, <3>2
  <2> QED  BY <2>2, <2>3
<1> QED  BY <1>5, <1>6, <1>7, <1>8 DEF WalkInv

-----------------------------------------------------------------------------
(***************************************************************************)
(* What a step at one node keeps, whatever it records for it and wherever  *)
(* the node goes.                                                          *)
(***************************************************************************)
StepAt(n, E, b) ==
  /\ status = "running" /\ ~panicked
  /\ pc' = [pc EXCEPT ![n] = b]
  /\ record(n, E)
  /\ UNCHANGED <<filters, concurrency>>

\* Statistics::record, when its assertions hold.
LEMMA RecordEffect ==
  ASSUME RunnerTypeOK, NEW n \in Node, NEW E \in SUBSET Event, record(n, E)
  PROVE  /\ events' \in [Node -> [Event -> Nat]] /\ panicked' \in BOOLEAN
         /\ \A m \in Node : m # n => events'[m] = events[m]
         /\ ~panicked' => /\ ~panicked
                          /\ \A e \in Event : events'[n][e] = events[n][e] + Flag(e \in E)
         /\ UNCHANGED <<defined, included>>
<1>1. events \in [Node -> [Event -> Nat]] /\ panicked \in BOOLEAN
  BY DEF RunnerTypeOK
<1>2. events[n] \in [Event -> Nat]
  BY <1>1
<1> DEFINE r == [e \in Event |-> IF e \in E /\ Recordable(n, e) THEN events[n][e] + 1 ELSE events[n][e]]
<1>3. r \in [Event -> Nat]
  BY <1>2
<1>4. events' = [events EXCEPT ![n] = r]
  BY DEF record
<1>5. panicked' = (panicked \/ \E e \in E : ~Recordable(n, e))
  BY DEF record
<1>6. ASSUME ~panicked', NEW e \in Event PROVE r[e] = events[n][e] + Flag(e \in E)
  <2>1. events[n][e] \in Nat
    BY <1>2
  <2>2. CASE e \in E
    BY <1>5, <1>6, <2>1, <2>2 DEF Flag
  <2>3. CASE e \notin E
    BY <1>6, <2>1, <2>3 DEF Flag
  <2> QED  BY <2>2, <2>3
<1>7. UNCHANGED <<defined, included>>
  BY DEF record
<1> HIDE DEF r
<1> QED  BY <1>1, <1>3, <1>4, <1>5, <1>6, <1>7

\* A step at one node keeps the types (Statistics::record).
LEMMA TypeStep ==
  ASSUME RunnerTypeOK, NEW n \in Node, NEW E \in SUBSET Event,
         NEW b \in GroupPc \cup TestPc, n \in Group => b \in GroupPc, n \in Test => b \in TestPc,
         StepAt(n, E, b), status' \in {"running", "finished"}
  PROVE  RunnerTypeOK'
<1>1. /\ events' \in [Node -> [Event -> Nat]] /\ panicked' \in BOOLEAN
      /\ UNCHANGED <<defined, included>>
  BY RecordEffect DEF StepAt
<1>2. /\ pc \in [Node -> GroupPc \cup TestPc]
      /\ pc' = [pc EXCEPT ![n] = b]
      /\ \A g \in Group : g \in Node /\ pc[g] \in GroupPc
      /\ \A t \in Test : t \in Node /\ pc[t] \in TestPc
  BY Tree DEF StepAt, RunnerTypeOK, Node
<1>3. /\ pc' \in [Node -> GroupPc \cup TestPc]
      /\ \A g \in Group : pc'[g] \in GroupPc
      /\ \A t \in Test : pc'[t] \in TestPc
  <2>1. /\ pc' \in [Node -> GroupPc \cup TestPc]
        /\ \A m \in Node : pc'[m] = IF m = n THEN b ELSE pc[m]
    BY <1>2
  <2>2. ASSUME NEW g \in Group PROVE pc'[g] \in GroupPc
    BY <1>2, <2>1
  <2>3. ASSUME NEW t \in Test PROVE pc'[t] \in TestPc
    BY <1>2, <2>1
  <2> QED  BY <2>1, <2>2, <2>3
<1>4. filters' = filters /\ concurrency' = concurrency
  BY DEF StepAt
<1> QED  BY <1>1, <1>3, <1>4 DEF RunnerTypeOK

\* The assertions of Statistics::record hold for the root group in any tree, and
\* for what the filters consider in a tree without empty groups.
LEMMA CanRecord ==
  ASSUME EnteredInv, status = "running", NEW n \in Node, ToRun(n),
         n = Root \/ \A g \in Group : test_names(g) # {},
         NEW e \in Event, e \in TestEvent => n \in Test
  PROVE  Recordable(n, e)
<1>1. included = Included(filters) /\ included # {} /\ \A t \in included : t \in Test
  BY DEF EnteredInv, Included
<1>2. CASE n \in Test
  BY <1>1, <1>2 DEF ToRun, Recordable, iter_included
<1>3. CASE n \in Group
  <2>1. e \notin TestEvent
    BY <1>3, TreeAssumption
  <2>2. \E t \in included : n \in Above[t]
    <3>1. CASE n = Root
      BY <1>1, <3>1, Tree
    <3>2. CASE n # Root /\ group_set(filters) = {}
      <4>1. MatchedBy(filters) = {}
        <5>1. ASSUME NEW s \in MatchedBy(filters) PROVE FALSE
          <6>1. Parent[s] # Root
            BY Entries DEF Matched, Listed
          <6>2. Parent[s] \in group_set(filters)
            BY <6>1 DEF group_set
          <6> QED  BY <3>2, <6>2
        <5> QED  BY <5>1
      <4>2. DOMAIN filter_map(filters) = {}
        BY <4>1, Entries
      <4>3. included = Test
        BY <1>1, <4>2 DEF Included, consider_test
      <4> QED  BY <1>3, <3>2, <4>3 DEF test_names
    <3>3. CASE n # Root /\ group_set(filters) # {}
      <4>1. n \in group_set(filters)
        BY <1>3, <3>3 DEF ToRun, consider_group
      <4> QED  BY <1>1, <4>1, Selected DEF test_names
    <3> QED  BY <3>1, <3>2, <3>3
  <2> QED  BY <2>1, <2>2 DEF Recordable, iter_included
<1> QED  BY <1>2, <1>3 DEF Node

\* A step at a node that the filters consider records what may be recorded.
LEMMA NoPanicStep ==
  ASSUME EnteredInv, NEW n \in Node, ToRun(n), NEW E \in SUBSET Event,
         n \in Group => E \cap TestEvent = {}, NEW b, StepAt(n, E, b)
  PROVE  NoPanic' /\ (n = Root => ~panicked')
<1>1. panicked' = (panicked \/ \E e \in E : ~Recordable(n, e)) /\ ~panicked /\ status = "running"
  BY DEF StepAt, record
<1>2. \A e \in E : e \in TestEvent => n \in Test
  BY DEF Node
<1>3. ASSUME n = Root \/ \A g \in Group : test_names(g) # {} PROVE ~panicked'
  BY <1>1, <1>2, <1>3, CanRecord
<1> QED  BY <1>3 DEF NoPanic, test_names

\* A step at a node that is to run keeps EnteredInv; only that of the root group may end
\* the run.
LEMMA EnteredStep ==
  ASSUME EnteredInv, RunnerTypeOK, NEW n \in Node, ToRun(n), NEW E \in SUBSET Event,
         NEW b, StepAt(n, E, b),
         status' = "running" \/ (status' = "finished" /\ n = Root /\ b = "done" /\ ~panicked')
  PROVE  EnteredInv'
<1>1. UNCHANGED <<included, filters>> /\ pc \in [Node -> GroupPc \cup TestPc]
      /\ pc' = [pc EXCEPT ![n] = b] /\ status = "running"
  BY DEF StepAt, record, RunnerTypeOK
<1>2. Included(filters)' = Included(filters) /\ \A m : consider_group(filters, m)' = consider_group(filters, m)
  BY <1>1 DEF Included, consider_test, consider_group, filter_map, group_set, MatchedBy
<1>3. \A m \in Node : pc'[m] # "idle" => ToRun(m)
  BY <1>1 DEF EnteredInv, ToRun
<1>4. included = Included(filters) /\ included # {}
  BY <1>1 DEF EnteredInv
<1> QED  BY <1>1, <1>2, <1>3, <1>4, Tree DEF EnteredInv, ToRun

\* The tests at work, when no test is launched.
LEMMA WithinStep ==
  ASSUME WithinLimit, RunnerTypeOK, NEW n \in Node, n \in Test => Active(n),
         NEW E, NEW b, StepAt(n, E, b)
  PROVE  WithinLimit'
<1>1. pc \in [Node -> GroupPc \cup TestPc] /\ pc' = [pc EXCEPT ![n] = b] /\ Limit' = Limit
  BY DEF StepAt, RunnerTypeOK, Limit
<1>2. \A t \in Test : Active(t)' => Active(t)
  BY <1>1, Tree DEF Active
<1>3. ActiveIn(Test)' \subseteq ActiveIn(Test)
  BY <1>2 DEF ActiveIn
<1>4. IsFiniteSet(ActiveIn(Test))
  <2>1. ActiveIn(Test) \in SUBSET Node
    BY Tree DEF ActiveIn
  <2> QED  BY <2>1, RunnerAssumption, FS_Subset
<1>5. Cardinality(ActiveIn(Test)') <= Cardinality(ActiveIn(Test))
      /\ Cardinality(ActiveIn(Test)') \in Nat /\ Cardinality(ActiveIn(Test)) \in Nat
  BY <1>3, <1>4, FS_Subset, FS_CardinalityType
<1>6. Limit \in Nat
  BY DEF Limit, RunnerTypeOK
<1> QED  BY <1>1, <1>5, <1>6 DEF WithinLimit

\* The record of n keeps up with it, and nothing that is done is undone.
LEMMA RecordStep ==
  ASSUME RecordInv, RunnerTypeOK, NEW n \in Node, pc[n] # "done",
         NEW E \in SUBSET Event, NEW b, b # "idle", StepAt(n, E, b),
         ~panicked' => Recorded(n)',
         pc[n] = "idle" => \A g \in Above[n] : events[g]["SetupPassed"] = 1,
         ~panicked' /\ events'[n]["SetupPassed"] = 1 =>
           \A m \in Child : Parent[m] = n /\ Behind(b, m) /\ ToRun(m) => pc[m] = "done"
  PROVE  RecordInv'
<1> SUFFICES ASSUME ~panicked' PROVE (PassedAbove /\ DoneInv /\ \A m \in Node : Recorded(m))'
  BY DEF RecordInv
<1>1. /\ pc \in [Node -> GroupPc \cup TestPc] /\ pc' = [pc EXCEPT ![n] = b]
      /\ UNCHANGED <<included, filters>> /\ ~panicked
  BY DEF StepAt, record, RunnerTypeOK
<1>2. /\ \A m \in Node : m # n => events'[m] = events[m]
      /\ \A e \in Event : events'[n][e] = events[n][e] + Flag(e \in E)
      /\ events \in [Node -> [Event -> Nat]]
  BY RecordEffect DEF StepAt, RunnerTypeOK
<1>3. PassedAbove /\ DoneInv /\ \A m \in Node : Recorded(m)
  BY <1>1 DEF RecordInv
<1>4. \A m \in Node : m # n => pc'[m] = pc[m]
  BY <1>1
<1>5. ASSUME NEW m \in Node PROVE Recorded(m)'
  <2>1. CASE m = n
    BY <2>1
  <2>2. CASE m # n
    <3>1. Recorded(m) /\ events'[m] = events[m] /\ pc'[m] = pc[m]
      BY <1>2, <1>3, <1>4, <2>2
    <3> QED  BY <3>1 DEF Recorded
  <2> QED  BY <2>1, <2>2
<1>6. PassedAbove'
  <2> SUFFICES ASSUME NEW m \in Node, pc'[m] # "idle", NEW g \in Above[m]
               PROVE  events'[g]["SetupPassed"] = 1
    BY DEF PassedAbove
  <2>1. g \in Node
    BY Tree
  <2>2. events[g]["SetupPassed"] = 1
    BY <1>3, <1>4 DEF PassedAbove
  <2>3. CASE g # n
    BY <1>2, <2>1, <2>2, <2>3
  <2>4. CASE g = n
    <3>1. events'[n]["SetupPassed"] \in {1, 2} /\ "SetupPassed" \in Event
      BY <1>2, <2>2, <2>4 DEF Flag, Event
    <3>2. Recorded(n)' /\ events'[n] \in [Event -> Nat]
      BY <1>5, RecordEffect DEF StepAt
    <3>3. /\ events'[n]["SetupSkipped"] \in Nat /\ events'[n]["SetupFailed"] \in Nat
          /\ events'[n]["SetupPassed"] + events'[n]["SetupSkipped"] + events'[n]["SetupFailed"] \in {0, 1}
      BY <3>2 DEF Recorded, Flag, Event
    <3> QED  BY <2>4, <3>1, <3>3
  <2> QED  BY <2>3, <2>4
<1>7. DoneInv'
  <2> SUFFICES ASSUME NEW m \in Child, events'[Parent[m]]["SetupPassed"] = 1,
                      Behind(pc'[Parent[m]], m), ToRun(m)
               PROVE  pc'[m] = "done"
    <3>1. \A m \in Child : /\ ToRun(m)' <=> ToRun(m)
                           /\ Behind(pc[Parent[m]], m)' <=> Behind(pc'[Parent[m]], m)
      BY <1>1 DEF ToRun, Behind, StageOf, is_concurrency_enabled, consider_group, group_set, MatchedBy
    <3> QED  BY <3>1 DEF DoneInv
  <2>1. m \in Node /\ Parent[m] \in Node /\ Parent[m] # m
    BY Tree
  <2>2. pc[m] = "done"
    <3>1. CASE Parent[m] = n
      BY <1>1, <2>1, <3>1
    <3>2. CASE Parent[m] # n
      BY <1>2, <1>3, <1>4, <2>1, <3>2 DEF DoneInv
    <3> QED  BY <3>1, <3>2
  <2> QED  BY <1>4, <2>1, <2>2
<1> QED  BY <1>5, <1>6, <1>7

-----------------------------------------------------------------------------
(***************************************************************************)
(* The steps of the walk.                                                  *)
(***************************************************************************)

\* What may be counted is a number.
LEMMA Counts ==
  ASSUME RunnerTypeOK, NEW n \in Node
  PROVE  /\ \A e \in Event : events[n][e] \in Nat
         /\ "SetupLaunched" \in Event /\ "SetupPassed" \in Event /\ "SetupSkipped" \in Event
         /\ "SetupFailed" \in Event /\ "TestLaunched" \in Event /\ "TestPassed" \in Event
         /\ "TestFailed" \in Event /\ "TeardownLaunched" \in Event
         /\ "TeardownPassed" \in Event /\ "TeardownFailed" \in Event
BY DEF RunnerTypeOK, Event, TestEvent

\* Before the walk nothing is active and nothing recorded.
Untouched ==
  \A n \in Node : pc[n] = "idle" /\ \A e \in Event : events[n][e] = 0

\* Before the walk starts nobody is active and nothing is recorded.
LEMMA AllIdle ==
  RunnerTypeOK /\ Untouched => WalkInv /\ WithinLimit /\ RecordInv
<1> SUFFICES ASSUME RunnerTypeOK, Untouched PROVE WalkInv /\ WithinLimit /\ RecordInv
  OBVIOUS
<1>0. /\ \A n \in Node : pc[n] = "idle"
      /\ \A n \in Node : \A e \in Event : events[n][e] = 0
  BY DEF Untouched
<1>1. \A n \in Node : ~ Active(n)
  BY <1>0 DEF Active
<1>2. WalkInv
  BY <1>1, Tree DEF WalkInv, StageInv, PathInv, OnePath, GroupSpansContent
<1>3. WithinLimit
  <2>1. ActiveIn(Test) = {}
    BY <1>1, Tree DEF ActiveIn
  <2> QED  BY <2>1, FS_EmptySet DEF WithinLimit, Limit, RunnerTypeOK
<1>4. RecordInv
  <2>1. ASSUME NEW n \in Node PROVE Recorded(n)
    BY <1>0, <2>1, Counts DEF Recorded, Flag, Content
  <2>2. DoneInv
    <3>1. \A m \in Child : events[Parent[m]]["SetupPassed"] = 0
      BY <1>0, Tree, Counts
    <3> QED  BY <3>1 DEF DoneInv
  <2> QED  BY <1>0, <2>1, <2>2 DEF RecordInv, PassedAbove
<1> QED  BY <1>2, <1>3, <1>4

\* RInv holds before run is called.
LEMMA RInvInit ==
  ASSUME RunnerInit PROVE RInv
<1>1. RunnerTypeOK
  BY Tree DEF RunnerInit, FilterInit, StatisticsInit, RunnerTypeOK, GroupPc, TestPc, Node
<1>2. Untouched /\ status = "config" /\ ~panicked
  BY DEF RunnerInit, StatisticsInit, Untouched
<1>3. EnteredInv /\ NoPanic
  BY <1>2 DEF EnteredInv, NoPanic, Untouched
<1> QED  BY <1>1, <1>2, <1>3, AllIdle DEF RInv

\* with_filter and with_concurrency change nothing that RInv is about.
LEMMA ConfigureKeeps ==
  ASSUME RInv, Configure PROVE RInv'
<1>1. /\ filters' \subseteq FilterText /\ concurrency' \in Nat
      /\ UNCHANGED <<defined, included, events, panicked, status, pc>> /\ status = "config"
  BY RunnerAssumption DEF Configure, with_filter, with_concurrency, statVars, RInv, RunnerTypeOK
<1>2. RunnerTypeOK'
  BY <1>1 DEF RInv, RunnerTypeOK
<1>3. EnteredInv' /\ NoPanic'
  BY <1>1 DEF RInv, EnteredInv, ToRun, NoPanic
<1>4. Untouched'
  BY <1>1 DEF RInv, EnteredInv, Untouched
<1>5. (RunnerTypeOK /\ Untouched => WalkInv /\ WithinLimit /\ RecordInv)'
  BY AllIdle, PTL
<1> QED  BY <1>2, <1>3, <1>4, <1>5 DEF RInv

\* The call of run selects the tests.
LEMMA StartKeeps ==
  ASSUME RInv, Start PROVE RInv'
<1>1. /\ status = "config" /\ defined' = Test /\ included' = Included(filters)
      /\ UNCHANGED <<events, panicked, filters, concurrency, pc>>
      /\ status' = IF Included(filters) = {} THEN "finished" ELSE "running"
  BY DEF Start, record_tests
<1>2. RunnerTypeOK'
  BY <1>1 DEF RInv, RunnerTypeOK, Included
<1>3. EnteredInv' /\ NoPanic'
  <2>1. Included(filters)' = Included(filters)
    BY <1>1 DEF Included, consider_test, filter_map, MatchedBy
  <2> QED  BY <1>1, <2>1 DEF RInv, EnteredInv, ToRun, NoPanic
<1>4. Untouched'
  BY <1>1 DEF RInv, EnteredInv, Untouched
<1>5. (RunnerTypeOK /\ Untouched => WalkInv /\ WithinLimit /\ RecordInv)'
  BY AllIdle, PTL
<1> QED  BY <1>2, <1>3, <1>4, <1>5 DEF RInv

\* RInv is about the variables of the walk alone.
LEMMA StutterKeeps ==
  ASSUME RInv, UNCHANGED runVars PROVE RInv'
<1>1. UNCHANGED <<filters, concurrency, defined, included, events, panicked, status, pc>>
  BY DEF runVars, statVars
<1>2. RunnerTypeOK' /\ NoPanic'
  BY <1>1 DEF RInv, RunnerTypeOK, NoPanic
<1>3. EnteredInv'
  <2>1. Included(filters)' = Included(filters)
    BY <1>1 DEF Included, consider_test, filter_map, MatchedBy
  <2>2. \A n \in Node : ToRun(n)' <=> ToRun(n)
    BY <1>1 DEF ToRun, consider_group, group_set, MatchedBy
  <2> QED  BY <1>1, <2>1, <2>2 DEF RInv, EnteredInv
<1>4. WalkInv'
  BY <1>1 DEF RInv, WalkInv, StageInv, PathInv, OnePath, GroupSpansContent, Active, StageOf,
              Together, is_concurrency_enabled
<1>5. WithinLimit'
  BY <1>1 DEF RInv, WithinLimit, ActiveIn, Active, Limit
<1>6. RecordInv'
  BY <1>1 DEF RInv, RecordInv, PassedAbove, DoneInv, Recorded, Behind, StageOf, ToRun,
              is_concurrency_enabled, consider_group, group_set, MatchedBy
<1> QED  BY <1>2, <1>3, <1>4, <1>5, <1>6 DEF RInv

\* A node that has no active child goes on, or ends.
LEMMA MoveKeeps ==
  ASSUME RInv, NEW n \in Node, Active(n), NoActiveChild(n),
         NEW E \in SUBSET Event, n \in Group => E \cap TestEvent = {},
         NEW b \in GroupPc \cup TestPc, b # "idle",
         n \in Group => b \in GroupPc, n \in Test => b \in TestPc,
         StepAt(n, E, b),
         status' = "running" \/ (status' = "finished" /\ n = Root /\ b = "done"),
         ~panicked' => Recorded(n)',
         ~panicked' /\ events'[n]["SetupPassed"] = 1 =>
           \A m \in Child : Parent[m] = n /\ Behind(b, m) /\ ToRun(m) => pc[m] = "done"
  PROVE  RInv'
<1>1. /\ RunnerTypeOK /\ EnteredInv /\ WalkInv /\ NoPanic /\ WithinLimit /\ RecordInv
      /\ pc[n] # "idle" /\ pc[n] # "done" /\ pc \in [Node -> GroupPc \cup TestPc]
  BY DEF RInv, Active, RunnerTypeOK
<1>2. ToRun(n)
  BY <1>1 DEF EnteredInv
<1>3. RunnerTypeOK'
  BY <1>1, TypeStep
<1>4. NoPanic' /\ (n = Root => ~panicked')
  BY <1>1, <1>2, NoPanicStep
<1>5. EnteredInv'
  BY <1>1, <1>2, <1>4, EnteredStep
<1>6. WalkInv'
  BY <1>1, WalkMoves DEF StepAt
<1>7. WithinLimit'
  BY <1>1, WithinStep
<1>8. RecordInv'
  BY <1>1, RecordStep
<1> QED  BY <1>3, <1>4, <1>5, <1>6, <1>7, <1>8 DEF RInv

\* What is known of a node that stands at the await q.
LEMMA AtAwait ==
  ASSUME RInv, NEW n \in Node, NEW q, Going(n, q), q \notin {"idle", "done"}
  PROVE  /\ RunnerTypeOK /\ EnteredInv /\ WalkInv /\ PassedAbove /\ DoneInv /\ Recorded(n)
         /\ status = "running" /\ ~panicked /\ Active(n)
         /\ \A m \in Child : Active(m) /\ Parent[m] = n => q = StageOf(m)
BY DEF RInv, RecordInv, Going, Active, WalkInv, StageInv

\* What is recorded for a node in its setup, and for a test in its body.
AtSetup(n) ==
  /\ events[n]["SetupLaunched"] = 1 /\ events[n]["TeardownLaunched"] = 0
  /\ events[n]["SetupPassed"] = 0 /\ events[n]["SetupSkipped"] = 0
  /\ events[n]["SetupFailed"] = 0 /\ events[n]["TestLaunched"] = 0
  /\ events[n]["TestPassed"] = 0 /\ events[n]["TestFailed"] = 0
  /\ events[n]["TeardownPassed"] = 0 /\ events[n]["TeardownFailed"] = 0

InRun(n) ==
  /\ events[n]["SetupLaunched"] = 1 /\ events[n]["TeardownLaunched"] = 0
  /\ events[n]["SetupPassed"] = 1 /\ events[n]["SetupSkipped"] = 0
  /\ events[n]["SetupFailed"] = 0 /\ events[n]["TestLaunched"] = 1
  /\ events[n]["TestPassed"] = 0 /\ events[n]["TestFailed"] = 0
  /\ events[n]["TeardownPassed"] = 0 /\ events[n]["TeardownFailed"] = 0

\* What is recorded of a node whose setup is awaited.
LEMMA RecordedAtSetup ==
  ASSUME RunnerTypeOK, NEW n \in Node, Recorded(n), pc[n] = "setup" PROVE AtSetup(n)
<1>1. /\ events[n]["SetupLaunched"] = 1
      /\ events[n]["SetupPassed"] + events[n]["SetupSkipped"] + events[n]["SetupFailed"] = 0
      /\ events[n]["TestLaunched"] = IF n \in Test THEN events[n]["SetupPassed"] ELSE 0
      /\ events[n]["TestPassed"] + events[n]["TestFailed"] = 0
      /\ events[n]["TeardownLaunched"] = 0
      /\ events[n]["TeardownPassed"] + events[n]["TeardownFailed"] = 0
  BY DEF Recorded, Flag
<1>2. /\ events[n]["SetupPassed"] \in Nat /\ events[n]["SetupSkipped"] \in Nat
      /\ events[n]["SetupFailed"] \in Nat /\ events[n]["TestPassed"] \in Nat
      /\ events[n]["TestFailed"] \in Nat /\ events[n]["TeardownPassed"] \in Nat
      /\ events[n]["TeardownFailed"] \in Nat
  BY Counts
<1>3. ASSUME NEW a \in Nat, NEW b \in Nat, a + b = 0 PROVE a = 0 /\ b = 0
  BY <1>3
<1>4. events[n]["SetupPassed"] = 0 /\ events[n]["SetupSkipped"] = 0 /\ events[n]["SetupFailed"] = 0
  <2>1. ASSUME NEW a \in Nat, NEW b \in Nat, NEW k \in Nat, a + b + k = 0 PROVE a = 0 /\ b = 0 /\ k = 0
    BY <2>1
  <2>2. /\ events[n]["SetupPassed"] \in Nat /\ events[n]["SetupSkipped"] \in Nat
        /\ events[n]["SetupFailed"] \in Nat
        /\ events[n]["SetupPassed"] + events[n]["SetupSkipped"] + events[n]["SetupFailed"] = 0
    BY <1>1, <1>2
  <2> QED  BY <2>1, <2>2
<1>5. events[n]["TestLaunched"] = 0
  BY <1>1, <1>4
<1> QED  BY <1>1, <1>2, <1>3, <1>4, <1>5 DEF AtSetup

\* What is recorded of a test that runs.
LEMMA RecordedInRun ==
  ASSUME RunnerTypeOK, NEW t \in Test, Recorded(t), pc[t] = "run" PROVE InRun(t)
<1>1. /\ events[t]["SetupLaunched"] = 1
      /\ events[t]["SetupPassed"] + events[t]["SetupSkipped"] + events[t]["SetupFailed"] = 1
      /\ events[t]["SetupPassed"] = 1
      /\ events[t]["TestLaunched"] = events[t]["SetupPassed"]
      /\ events[t]["TestPassed"] + events[t]["TestFailed"] = 0
      /\ events[t]["TeardownLaunched"] = 0
      /\ events[t]["TeardownPassed"] + events[t]["TeardownFailed"] = 0
  BY DEF Recorded, Flag
<1>2. /\ events[t]["SetupSkipped"] \in Nat
      /\ events[t]["SetupFailed"] \in Nat /\ events[t]["TestPassed"] \in Nat
      /\ events[t]["TestFailed"] \in Nat /\ events[t]["TeardownPassed"] \in Nat
      /\ events[t]["TeardownFailed"] \in Nat
  BY Counts, Tree DEF Child
<1>3. /\ \A a, b \in Nat : a + b = 0 => a = 0 /\ b = 0
      /\ \A b, c \in Nat : 1 + b + c = 1 => b = 0 /\ c = 0
  OBVIOUS
<1> QED  BY <1>1, <1>2, <1>3 DEF InRun

\* run_group, run_test: the setup has passed.
LEMMA SetupPassedKeeps ==
  ASSUME RInv, NEW n \in Node, SetupPassed(n) PROVE RInv'
<1> DEFINE E == IF n \in Test THEN {"SetupPassed", "TestLaunched"} ELSE {"SetupPassed"}
           b == IF n \in Test THEN "run" ELSE "groups"
<1>1. Going(n, "setup") /\ StepAt(n, E, b) /\ status' = "running"
  BY DEF SetupPassed, StepAt, Going
<1>2. /\ RunnerTypeOK /\ Recorded(n) /\ Active(n)
      /\ \A m \in Child : Active(m) /\ Parent[m] = n => "setup" = StageOf(m)
  BY <1>1, AtAwait
<1>3. NoActiveChild(n)
  BY <1>2 DEF NoActiveChild, StageOf
<1>4. /\ E \in SUBSET Event /\ b \in GroupPc \cup TestPc /\ b # "idle"
      /\ n \in Group => E \cap TestEvent = {} /\ b \in GroupPc
      /\ n \in Test => b \in TestPc
  BY Counts, TreeAssumption, <1>2 DEF GroupPc, TestPc, TestEvent
<1>5. pc'[n] = b /\ pc[n] = "setup"
  BY <1>1 DEF StepAt, RInv, RunnerTypeOK, Going
<1>6. ASSUME ~panicked' PROVE Recorded(n)'
  <2>1. \A e \in Event : events'[n][e] = events[n][e] + Flag(e \in E)
    BY <1>1, <1>2, <1>4, <1>6, RecordEffect DEF StepAt
  <2>2. AtSetup(n)
    BY <1>2, <1>5, RecordedAtSetup
  <2>3. CASE n \in Test
    BY <1>5, <2>1, <2>2, <2>3, <1>2, Counts DEF Recorded, Flag, Content, AtSetup
  <2>4. CASE n \notin Test
    BY <1>5, <2>1, <2>2, <2>4, <1>2, Counts DEF Recorded, Flag, Content, AtSetup
  <2> QED  BY <2>3, <2>4
<1>7. \A m \in Child : ~ Behind(b, m)
  BY DEF Behind
<1> HIDE DEF E, b
<1> QED  BY <1>1, <1>2, <1>3, <1>4, <1>6, <1>7, MoveKeeps

\* run_group, run_test: the setup was skipped or failed.
LEMMA SetupFailedKeeps ==
  ASSUME RInv, NEW n \in Node, NEW event \in {"SetupSkipped", "SetupFailed"}, SetupFailed(n, event)
  PROVE  RInv'
<1> DEFINE E == {event, "TeardownLaunched"}
<1>1. Going(n, "setup") /\ StepAt(n, E, "teardown") /\ status' = "running"
  BY DEF SetupFailed, StepAt, Going
<1>2. /\ RunnerTypeOK /\ Recorded(n) /\ Active(n)
      /\ \A m \in Child : Active(m) /\ Parent[m] = n => "setup" = StageOf(m)
  BY <1>1, AtAwait
<1>3. NoActiveChild(n)
  BY <1>2 DEF NoActiveChild, StageOf
<1>4. /\ E \in SUBSET Event
      /\ E \cap TestEvent = {}
      /\ "teardown" \in GroupPc /\ "teardown" \in TestPc
  BY Counts, <1>2 DEF GroupPc, TestPc, TestEvent
<1>5. pc'[n] = "teardown" /\ pc[n] = "setup"
  BY <1>1 DEF StepAt, RInv, RunnerTypeOK, Going
<1>6. ASSUME ~panicked' PROVE Recorded(n)' /\ events'[n]["SetupPassed"] = 0
  <2>1. \A e \in Event : events'[n][e] = events[n][e] + Flag(e \in E)
    BY <1>1, <1>2, <1>4, <1>6, RecordEffect DEF StepAt
  <2>2. AtSetup(n)
    BY <1>2, <1>5, RecordedAtSetup
  <2> QED  BY <1>5, <2>1, <2>2, <1>2, Counts DEF Recorded, Flag, Content, AtSetup
<1> HIDE DEF E
<1> QED  BY <1>1, <1>2, <1>3, <1>4, <1>6, MoveKeeps

\* run_test: the body of the test has ended.
LEMMA TestDoneKeeps ==
  ASSUME RInv, NEW t \in Test, NEW event \in {"TestPassed", "TestFailed"}, TestDone(t, event)
  PROVE  RInv'
<1> DEFINE E == {event, "TeardownLaunched"}
<1>0. t \in Node /\ t \notin Group
  BY TreeAssumption DEF Node
<1>1. Going(t, "run") /\ StepAt(t, E, "teardown") /\ status' = "running"
  BY DEF TestDone, StepAt, Going
<1>2. /\ RunnerTypeOK /\ Recorded(t) /\ Active(t)
  BY <1>0, <1>1, AtAwait
<1>3. \A m \in Child : Parent[m] # t
  BY <1>0, Tree
<1>4. E \in SUBSET Event /\ "teardown" \in TestPc
  BY Counts, <1>0, <1>2 DEF TestPc
<1>5. pc'[t] = "teardown" /\ pc[t] = "run"
  BY <1>0, <1>1 DEF StepAt, RInv, RunnerTypeOK, Going
<1>6. ASSUME ~panicked' PROVE Recorded(t)'
  <2>1. \A e \in Event : events'[t][e] = events[t][e] + Flag(e \in E)
    BY <1>0, <1>1, <1>2, <1>4, <1>6, RecordEffect DEF StepAt
  <2>2. InRun(t)
    BY <1>0, <1>2, <1>5, RecordedInRun
  <2> QED  BY <1>0, <1>5, <2>1, <2>2, <1>2, Counts DEF Recorded, Flag, Content, InRun
<1> HIDE DEF E
<1> QED  BY <1>0, <1>1, <1>2, <1>3, <1>4, <1>6, MoveKeeps DEF NoActiveChild

\* run_group, run_test: the teardown has ended, whether it passed or not.
LEMMA TeardownDoneKeeps ==
  ASSUME RInv, NEW n \in Node, NEW event \in {"TeardownPassed", "TeardownFailed"},
         TeardownDone(n, event)
  PROVE  RInv'
<1> DEFINE E == {event}
<1>1. Going(n, "teardown") /\ StepAt(n, E, "done")
  BY DEF TeardownDone, StepAt, Going
<1>2. /\ RunnerTypeOK /\ Recorded(n) /\ Active(n) /\ DoneInv
      /\ \A m \in Child : Active(m) /\ Parent[m] = n => "teardown" = StageOf(m)
  BY <1>1, AtAwait
<1>3. NoActiveChild(n)
  BY <1>2 DEF NoActiveChild, StageOf
<1>4. /\ E \in SUBSET Event /\ E \cap TestEvent = {}
      /\ "done" \in GroupPc /\ "done" \in TestPc
  BY Counts, <1>2 DEF GroupPc, TestPc, TestEvent
<1>5. pc'[n] = "done" /\ pc[n] = "teardown"
  BY <1>1 DEF StepAt, RInv, RunnerTypeOK, Going
<1>6. ASSUME ~panicked' PROVE Recorded(n)' /\ events'[n]["SetupPassed"] = events[n]["SetupPassed"]
  <2>1. \A e \in Event : events'[n][e] = events[n][e] + Flag(e \in E)
    BY <1>1, <1>2, <1>4, <1>6, RecordEffect DEF StepAt
  <2>2. events[n]["TeardownPassed"] = 0 /\ events[n]["TeardownFailed"] = 0
    <3>1. events[n]["TeardownPassed"] + events[n]["TeardownFailed"] = 0
      BY <1>2, <1>5 DEF Recorded, Flag
    <3>2. \A a, b \in Nat : a + b = 0 => a = 0 /\ b = 0
      OBVIOUS
    <3> QED  BY <1>2, <3>1, <3>2, Counts
  <2>3. events'[n]["TeardownPassed"] + events'[n]["TeardownFailed"] = 1
    BY <1>2, <2>1, <2>2, Counts DEF Flag
  <2>4. \A e \in Event : e \notin {"TeardownPassed", "TeardownFailed"} => events'[n][e] = events[n][e]
    BY <1>2, <2>1, Counts DEF Flag
  <2> QED  BY <1>2, <1>5, <2>3, <2>4, Counts DEF Recorded, Flag, Content
<1>7. ASSUME ~panicked', events'[n]["SetupPassed"] = 1, NEW m \in Child,
             Parent[m] = n, Behind("done", m), ToRun(m)
      PROVE  pc[m] = "done"
  BY <1>2, <1>5, <1>6, <1>7 DEF DoneInv, Behind
<1>8. status' = "running" \/ (status' = "finished" /\ n = Root)
  BY DEF TeardownDone
<1> HIDE DEF E
<1> QED  BY <1>1, <1>2, <1>3, <1>4, <1>6, <1>7, <1>8, MoveKeeps

\* Recording nothing.
LEMMA RecordNothing ==
  ASSUME RunnerTypeOK, NEW n \in Node, UNCHANGED statVars PROVE record(n, {})
<1>1. events \in [Node -> [Event -> Nat]]
  BY DEF RunnerTypeOK
<1>2. events = [events EXCEPT ![n] = [e \in Event |-> events[n][e]]]
  BY <1>1
<1>3. [e \in Event |-> IF e \in {} /\ Recordable(n, e) THEN events[n][e] + 1 ELSE events[n][e]]
        = [e \in Event |-> events[n][e]]
  OBVIOUS
<1>4. events' = [events EXCEPT ![n] =
        [e \in Event |-> IF e \in {} /\ Recordable(n, e) THEN events[n][e] + 1 ELSE events[n][e]]]
  BY <1>2, <1>3 DEF statVars
<1>5. panicked' = (panicked \/ \E e \in {} : ~Recordable(n, e)) /\ UNCHANGED <<defined, included>>
  <2>1. panicked \in BOOLEAN /\ panicked' = panicked
    BY DEF RunnerTypeOK, statVars
  <2> QED  BY <2>1 DEF statVars
<1> QED  BY <1>4, <1>5, Zenon DEF record

\* What has been entered of the content of g, and has ended, is done: what there is
\* to run of the stage when nothing of it is pending or active.
LEMMA StageEnds ==
  ASSUME RInv, status = "running", NEW g \in Group, NEW m \in Child, Parent[m] = g, ToRun(m)
  PROVE  /\ m \in Group /\ PendingGroups(g) = {} /\ ActiveIn(groups(g)) = {} => pc[m] = "done"
         /\ \A c \in BOOLEAN :
              m \in Test /\ is_concurrency_enabled(m) = c
                /\ PendingTests(g, c) = {} /\ ActiveIn(stream(g, c)) = {} => pc[m] = "done"
<1>1. included = Included(filters)
  BY DEF RInv, EnteredInv
<1>2. m \in Node /\ m # Root
  BY DEF Child
<1>3. ASSUME m \in Group, PendingGroups(g) = {}, ActiveIn(groups(g)) = {} PROVE pc[m] = "done"
  <2>1. m \in groups(g) /\ consider_group(filters, m)
    BY <1>2, <1>3 DEF groups, ToRun
  <2> QED  BY <1>3, <2>1 DEF PendingGroups, ActiveIn, Active
<1>4. ASSUME NEW c \in BOOLEAN, m \in Test, is_concurrency_enabled(m) = c,
             PendingTests(g, c) = {}, ActiveIn(stream(g, c)) = {}
      PROVE  pc[m] = "done"
  <2>1. m \in stream(g, c)
    BY <1>1, <1>4 DEF stream, tests, ToRun, Included
  <2> QED  BY <1>4, <2>1 DEF PendingTests, ActiveIn, Active
<1> QED  BY <1>3, <1>4

\* A stage of g with nothing active has no active child of g.
LEMMA StageQuiet ==
  ASSUME RInv, NEW g \in Group,
         \/ Going(g, "groups") /\ ActiveIn(groups(g)) = {}
         \/ Going(g, "concurrent") /\ ActiveIn(stream(g, TRUE)) = {}
         \/ Going(g, "sequential") /\ ActiveIn(stream(g, FALSE)) = {}
  PROVE  NoActiveChild(g)
<1> SUFFICES ASSUME NEW m \in Child, Active(m), Parent[m] = g PROVE FALSE
  BY DEF NoActiveChild
<1>1. /\ pc[g] = StageOf(m) /\ ToRun(m) /\ included = Included(filters)
      /\ m \in Node /\ m # Root
  BY DEF RInv, WalkInv, StageInv, EnteredInv, Going, Child, Active
<1>2. CASE m \in Group
  BY <1>1, <1>2 DEF StageOf, Going, ActiveIn, groups
<1>3. CASE m \in Test
  <2>1. consider_test(filters, m) /\ m \in tests(g) /\ m \notin Group
    BY <1>1, <1>3, TreeAssumption DEF ToRun, Included, tests
  <2> QED  BY <1>1, <2>1 DEF StageOf, Going, ActiveIn, stream, is_concurrency_enabled
<1> QED  BY <1>1, <1>2, <1>3 DEF Node

\* run_group: all subgroups were run.
LEMMA GroupsDoneKeeps ==
  ASSUME RInv, NEW g \in Group, GroupsDone(g) PROVE RInv'
<1>0. g \in Node /\ Going(g, "groups") /\ status' = "running" /\ UNCHANGED statVars
  BY Tree DEF GroupsDone, Going
<1>1. RunnerTypeOK /\ Recorded(g) /\ Active(g) /\ pc[g] = "groups"
  BY <1>0, AtAwait DEF Going
<1>2. StepAt(g, {}, "concurrent")
  BY <1>0, <1>1, RecordNothing DEF GroupsDone, StepAt, Going
<1>3. NoActiveChild(g)
  BY <1>0, StageQuiet DEF GroupsDone
<1>4. "concurrent" \in GroupPc
  BY DEF GroupPc
<1>5. pc'[g] = "concurrent" /\ events' = events
  BY <1>0, <1>1 DEF GroupsDone, RunnerTypeOK, statVars
<1>6. Recorded(g)'
  BY <1>1, <1>5 DEF Recorded, Flag, Content
<1>7. \A m \in Child : Parent[m] = g /\ Behind("concurrent", m) /\ ToRun(m) => pc[m] = "done"
  <2> SUFFICES ASSUME NEW m \in Child, Parent[m] = g, Behind("concurrent", m), ToRun(m)
               PROVE  pc[m] = "done"
    OBVIOUS
  <2>1. m \in Group
    BY DEF Behind, StageOf
  <2> QED  BY <1>0, <2>1, StageEnds DEF GroupsDone, Going
<1>8. g \notin Test
  BY TreeAssumption
<1> QED  BY <1>0, <1>1, <1>2, <1>3, <1>4, <1>6, <1>7, <1>8, MoveKeeps

\* run_group: the stream of concurrent tests has ended.
LEMMA ConcurrentDoneKeeps ==
  ASSUME RInv, NEW g \in Group, ConcurrentDone(g) PROVE RInv'
<1>0. g \in Node /\ Going(g, "concurrent") /\ status' = "running" /\ UNCHANGED statVars
  BY Tree DEF ConcurrentDone, Going
<1>1. RunnerTypeOK /\ Recorded(g) /\ Active(g) /\ DoneInv /\ pc[g] = "concurrent"
  BY <1>0, AtAwait DEF Going
<1>2. StepAt(g, {}, "sequential")
  BY <1>0, <1>1, RecordNothing DEF ConcurrentDone, StepAt, Going
<1>3. NoActiveChild(g)
  BY <1>0, StageQuiet DEF ConcurrentDone
<1>4. "sequential" \in GroupPc
  BY DEF GroupPc
<1>5. pc'[g] = "sequential" /\ events' = events
  BY <1>0, <1>1 DEF ConcurrentDone, RunnerTypeOK, statVars
<1>6. Recorded(g)'
  BY <1>1, <1>5 DEF Recorded, Flag, Content
<1>7. ASSUME events'[g]["SetupPassed"] = 1, NEW m \in Child, Parent[m] = g,
             Behind("sequential", m), ToRun(m)
      PROVE  pc[m] = "done"
  <2>1. CASE m \in Group
    BY <1>1, <1>5, <1>7, <2>1 DEF DoneInv, Behind, StageOf
  <2>2. CASE m \in Test
    <3>1. is_concurrency_enabled(m) = TRUE
      BY <1>7, <2>2, TreeAssumption DEF Behind, StageOf, is_concurrency_enabled
    <3> QED  BY <1>0, <1>7, <2>2, <3>1, StageEnds DEF ConcurrentDone, Going
  <2> QED  BY <2>1, <2>2 DEF Child, Node
<1>8. g \notin Test
  BY TreeAssumption
<1> QED  BY <1>0, <1>1, <1>2, <1>3, <1>4, <1>6, <1>7, <1>8, MoveKeeps

\* run_group: the last test was run.
LEMMA SequentialDoneKeeps ==
  ASSUME RInv, NEW g \in Group, SequentialDone(g) PROVE RInv'
<1> DEFINE E == {"TeardownLaunched"}
<1>0. g \in Node /\ Going(g, "sequential") /\ status' = "running" /\ g \notin Test
  BY Tree, TreeAssumption DEF SequentialDone, Going
<1>1. RunnerTypeOK /\ Recorded(g) /\ Active(g) /\ DoneInv /\ pc[g] = "sequential" /\ ~panicked
  BY <1>0, AtAwait DEF Going
<1>2. StepAt(g, E, "teardown")
  BY <1>0, <1>1 DEF SequentialDone, StepAt, Going
<1>3. NoActiveChild(g)
  BY <1>0, StageQuiet DEF SequentialDone
<1>4. "teardown" \in GroupPc /\ E \in SUBSET Event /\ E \cap TestEvent = {}
  BY <1>0, <1>1, Counts DEF GroupPc, TestEvent
<1>5. pc'[g] = "teardown"
  BY <1>0, <1>1 DEF SequentialDone, RunnerTypeOK
<1>6. ASSUME ~panicked' PROVE Recorded(g)' /\ events'[g]["SetupPassed"] = events[g]["SetupPassed"]
  <2>1. \A e \in Event : events'[g][e] = events[g][e] + Flag(e \in E)
    BY <1>0, <1>1, <1>2, <1>4, <1>6, RecordEffect DEF StepAt
  <2>2. \A e \in Event : e # "TeardownLaunched" => events'[g][e] = events[g][e]
    BY <1>0, <1>1, <2>1, Counts DEF Flag
  <2>3. events'[g]["TeardownLaunched"] = 1
    BY <1>0, <1>1, <2>1, Counts DEF Recorded, Flag
  <2> QED  BY <1>0, <1>1, <1>5, <2>2, <2>3, Counts DEF Recorded, Flag, Content
<1>7. ASSUME ~panicked', events'[g]["SetupPassed"] = 1, NEW m \in Child, Parent[m] = g, ToRun(m)
      PROVE  pc[m] = "done"
  <2>1. CASE Behind("sequential", m)
    BY <1>1, <1>6, <1>7, <2>1 DEF DoneInv
  <2>2. CASE ~ Behind("sequential", m)
    <3>1. m \in Test /\ is_concurrency_enabled(m) = FALSE
      BY <2>2 DEF Behind, StageOf, Child, Node, is_concurrency_enabled
    <3> QED  BY <1>0, <1>7, <3>1, StageEnds DEF SequentialDone, Going
  <2> QED  BY <2>1, <2>2
<1> HIDE DEF E
<1> QED  BY <1>0, <1>1, <1>2, <1>3, <1>4, <1>6, <1>7, MoveKeeps

\* A node is launched.
LEMMA LaunchKeeps ==
  ASSUME RInv, NEW n \in Node, Launch(n), ToRun(n), WalkInv', WithinLimit',
         \A g \in Above[n] : events[g]["SetupPassed"] = 1
  PROVE  RInv'
<1> DEFINE E == {"SetupLaunched"}
<1>1. /\ StepAt(n, E, "setup") /\ status' = "running" /\ status = "running" /\ ~panicked
      /\ pc[n] = "idle"
  BY DEF Launch, Going, StepAt
<1>2. RunnerTypeOK /\ EnteredInv /\ NoPanic /\ RecordInv /\ Recorded(n)
  BY <1>1 DEF RInv, RecordInv
<1>3. /\ E \in SUBSET Event /\ E \cap TestEvent = {}
      /\ "setup" \in GroupPc /\ "setup" \in TestPc
  BY Counts, <1>2 DEF GroupPc, TestPc, TestEvent
<1>4. RunnerTypeOK'
  <2> HIDE DEF E
  <2> QED  BY <1>1, <1>2, <1>3, TypeStep
<1>5. NoPanic'
  <2> HIDE DEF E
  <2> QED  BY <1>1, <1>2, <1>3, NoPanicStep
<1>6. EnteredInv'
  <2> HIDE DEF E
  <2> QED  BY <1>1, <1>2, <1>3, EnteredStep
<1>7. pc'[n] = "setup"
  BY <1>1, <1>2 DEF StepAt, RunnerTypeOK
<1>8. ASSUME ~panicked' PROVE Recorded(n)'
  <2>1. \A e \in Event : events'[n][e] = events[n][e] + Flag(e \in E)
    BY <1>1, <1>2, <1>3, <1>8, RecordEffect DEF StepAt
  <2>2. \A e \in Event : e # "SetupLaunched" => events'[n][e] = events[n][e]
    BY <1>2, <2>1, Counts DEF Flag
  <2>3. events'[n]["SetupLaunched"] = 1
    BY <1>1, <1>2, <2>1, Counts DEF Recorded, Flag
  <2> QED  BY <1>1, <1>2, <1>7, <2>2, <2>3, Counts DEF Recorded, Flag, Content
<1>9. \A m \in Child : ~ Behind("setup", m)
  BY DEF Behind
<1>10. RecordInv'
  <2> HIDE DEF E
  <2> QED  BY <1>1, <1>2, <1>3, <1>8, <1>9, RecordStep
<1> QED  BY <1>4, <1>5, <1>6, <1>10 DEF RInv

\* Nobody is at work before the root group is.
LEMMA LaunchRootKeeps ==
  ASSUME RInv, LaunchRoot PROVE RInv'
<1>1. /\ Root \in Node /\ Launch(Root) /\ pc[Root] = "idle" /\ pc' = [pc EXCEPT ![Root] = "setup"]
      /\ concurrency' = concurrency /\ Root \notin Test
      /\ RunnerTypeOK /\ WalkInv /\ WithinLimit /\ EnteredInv
  BY Tree, TreeAssumption DEF LaunchRoot, Launch, Going, RInv
<1>2. WalkInv'
  BY <1>1, WalkStarts DEF RunnerTypeOK
<1>3. WithinLimit'
  <2>1. \A t \in Test : t # Root /\ t \in Node
    BY Tree DEF Child
  <2>2. ActiveIn(Test)' = ActiveIn(Test)
    BY <1>1, <2>1 DEF ActiveIn, Active, RunnerTypeOK
  <2> QED  BY <1>1, <2>2 DEF WithinLimit, Limit
<1>4. ToRun(Root)
  BY <1>1 DEF ToRun
<1> QED  BY <1>1, <1>2, <1>3, <1>4, Tree, LaunchKeeps

\* Above a node whose parent runs its content every setup has passed.
LEMMA ContentPassed ==
  ASSUME RInv, ~panicked, NEW n \in Child, pc[Parent[n]] \in Content
  PROVE  \A g \in Above[n] : events[g]["SetupPassed"] = 1
<1>1. Parent[n] \in Node /\ Above[n] = Above[Parent[n]] \cup {Parent[n]}
  BY Tree
<1>2. PassedAbove /\ Recorded(Parent[n]) /\ pc[Parent[n]] # "idle"
  BY <1>1 DEF RInv, RecordInv, Content
<1> QED  BY <1>1, <1>2 DEF PassedAbove, Recorded

\* run_group launches a subgroup.
LEMMA LaunchGroupKeeps ==
  ASSUME RInv, NEW g \in Group \ {Root}, LaunchGroup(g) PROVE RInv'
<1> DEFINE p == Parent[g]
<1>1. /\ g \in Child /\ g \in Node /\ p \in Group /\ Launch(g) /\ Going(g, "idle")
      /\ pc[p] = "groups" /\ g \in PendingGroups(p) /\ ActiveIn(groups(p)) = {}
      /\ pc' = [pc EXCEPT ![g] = "setup"] /\ concurrency' = concurrency /\ g \notin Test
  BY Tree, TreeAssumption DEF LaunchGroup, Launch, Child
<1>2. RunnerTypeOK /\ WalkInv /\ WithinLimit /\ EnteredInv
  BY DEF RInv
<1>3. NoActiveChild(p)
  BY <1>1, StageQuiet DEF Going
<1>4. WalkInv'
  BY <1>1, <1>2, <1>3, WalkLaunches DEF RunnerTypeOK, NoActiveChild, StageOf, Going
<1>5. WithinLimit'
  <2>1. \A t \in Test : t # g /\ t \in Node
    BY <1>1, Tree DEF Child
  <2>2. ActiveIn(Test)' = ActiveIn(Test)
    BY <1>1, <1>2, <2>1 DEF ActiveIn, Active, RunnerTypeOK
  <2> QED  BY <1>1, <1>2, <2>2 DEF WithinLimit, Limit
<1>6. ToRun(g)
  BY <1>1 DEF ToRun, PendingGroups
<1>7. \A h \in Above[g] : events[h]["SetupPassed"] = 1
  BY <1>1, ContentPassed DEF Going, Content
<1> QED  BY <1>1, <1>4, <1>5, <1>6, <1>7, LaunchKeeps

\* While a group runs tests, no others are active than those of its stream.
LEMMA AtWork ==
  ASSUME RInv, status = "running", NEW p \in Group, NEW c \in BOOLEAN,
         pc[p] = IF c THEN "concurrent" ELSE "sequential"
  PROVE  ActiveIn(Test) \subseteq ActiveIn(stream(p, c))
<1> SUFFICES ASSUME NEW s \in Test, Active(s) PROVE s \in stream(p, c)
  BY DEF ActiveIn
<1>1. /\ p \in Node /\ s \in Node /\ Active(p) /\ p # s /\ s \notin Above[p] /\ p \notin Test
      /\ WalkInv /\ included = Included(filters) /\ ToRun(s)
  BY Tree, TreeAssumption DEF Child, Active, RInv, EnteredInv
<1>2. p \in Above[s]
  BY <1>1 DEF WalkInv, OnePath, Together
<1>3. PICK h \in Child : Active(h) /\ Parent[h] = p /\ (h = s \/ h \in Above[s])
  BY <1>1, <1>2 DEF WalkInv, PathInv
<1>4. StageOf(h) = pc[p]
  BY <1>1, <1>3 DEF WalkInv, StageInv
<1>5. h \notin Group /\ is_concurrency_enabled(h) = c
  BY <1>4 DEF StageOf, is_concurrency_enabled
<1>6. h = s
  BY <1>1, <1>3, <1>5, Tree
<1> QED  BY <1>1, <1>3, <1>5, <1>6 DEF stream, tests, ToRun, Included

\* One test more.
LEMMA WithinLaunch ==
  ASSUME RInv, NEW t \in Test, Launch(t), Cardinality(ActiveIn(Test)) < Limit
  PROVE  WithinLimit'
<1>1. /\ RunnerTypeOK /\ concurrency' = concurrency /\ pc' = [pc EXCEPT ![t] = "setup"]
      /\ pc[t] = "idle" /\ \A s \in Test : s \in Node
  BY Tree DEF RInv, Launch, Going, Child
<1>2. ActiveIn(Test)' \subseteq ActiveIn(Test) \cup {t} /\ t \notin ActiveIn(Test)
  BY <1>1 DEF ActiveIn, Active, RunnerTypeOK
<1>3. IsFiniteSet(ActiveIn(Test))
  <2>1. ActiveIn(Test) \in SUBSET Node
    BY <1>1 DEF ActiveIn
  <2> QED  BY <2>1, RunnerAssumption, FS_Subset
<1>4. /\ IsFiniteSet(ActiveIn(Test) \cup {t})
      /\ Cardinality(ActiveIn(Test) \cup {t}) = Cardinality(ActiveIn(Test)) + 1
      /\ Cardinality(ActiveIn(Test)) \in Nat
  BY <1>2, <1>3, FS_AddElement, FS_CardinalityType
<1>5. /\ Cardinality(ActiveIn(Test)') <= Cardinality(ActiveIn(Test) \cup {t})
      /\ Cardinality(ActiveIn(Test)') \in Nat
  BY <1>2, <1>4, FS_Subset, FS_CardinalityType
<1>6. Limit \in Nat /\ Limit' = Limit
  BY <1>1 DEF Limit, RunnerTypeOK
<1> QED  BY <1>4, <1>5, <1>6 DEF WithinLimit

\* run_group launches a test of the stream.
LEMMA LaunchConcurrentKeeps ==
  ASSUME RInv, NEW t \in Test, LaunchConcurrent(t) PROVE RInv'
<1> DEFINE p == Parent[t]
<1>1. /\ t \in Child /\ t \in Node /\ p \in Group /\ Launch(t) /\ Going(t, "idle")
      /\ pc[p] = "concurrent" /\ t \in PendingTests(p, TRUE)
      /\ Cardinality(ActiveIn(stream(p, TRUE))) < Limit
      /\ pc' = [pc EXCEPT ![t] = "setup"] /\ t \notin Group
  BY Tree, TreeAssumption DEF LaunchConcurrent, Launch, Child
<1>2. RunnerTypeOK /\ WalkInv /\ included = Included(filters)
  BY <1>1 DEF RInv, EnteredInv, Going
<1>3. is_concurrency_enabled(t)
  BY <1>1 DEF PendingTests, stream
<1>4. ASSUME NEW m \in Child, Active(m), Parent[m] = p PROVE Together(m, t)
  <2>1. StageOf(m) = "concurrent"
    BY <1>1, <1>2, <1>4 DEF WalkInv, StageInv
  <2> QED  BY <1>3, <1>4, <2>1 DEF Together, StageOf, Child, Node
<1>5. WalkInv'
  BY <1>1, <1>2, <1>3, <1>4, WalkLaunches DEF RunnerTypeOK, StageOf, Going
<1>6. WithinLimit'
  <2>1. ActiveIn(Test) \subseteq ActiveIn(stream(p, TRUE))
    BY <1>1, AtWork DEF Going
  <2>2. ActiveIn(stream(p, TRUE)) \subseteq ActiveIn(Test)
    BY DEF ActiveIn, stream, tests
  <2>3. ActiveIn(Test) = ActiveIn(stream(p, TRUE))
    BY <2>1, <2>2
  <2>4. Cardinality(ActiveIn(Test)) < Limit
    BY <1>1, <2>3
  <2> QED  BY <1>1, <2>4, WithinLaunch
<1>7. ToRun(t)
  BY <1>1, <1>2 DEF ToRun, PendingTests, stream, Included
<1>8. \A h \in Above[t] : events[h]["SetupPassed"] = 1
  BY <1>1, ContentPassed DEF Going, Content
<1> QED  BY <1>1, <1>5, <1>6, <1>7, <1>8, LaunchKeeps

\* run_group launches a test that runs alone.
LEMMA LaunchSequentialKeeps ==
  ASSUME RInv, NEW t \in Test, LaunchSequential(t) PROVE RInv'
<1> DEFINE p == Parent[t]
<1>1. /\ t \in Child /\ t \in Node /\ p \in Group /\ Launch(t) /\ Going(t, "idle")
      /\ pc[p] = "sequential" /\ t \in PendingTests(p, FALSE)
      /\ ActiveIn(stream(p, FALSE)) = {}
      /\ pc' = [pc EXCEPT ![t] = "setup"] /\ t \notin Group
  BY Tree, TreeAssumption DEF LaunchSequential, Launch, Child
<1>2. RunnerTypeOK /\ WalkInv /\ included = Included(filters)
  BY <1>1 DEF RInv, EnteredInv, Going
<1>3. is_concurrency_enabled(t) = FALSE
  BY <1>1 DEF PendingTests, stream
<1>4. NoActiveChild(p)
  BY <1>1, StageQuiet DEF Going
<1>5. WalkInv'
  BY <1>1, <1>2, <1>3, <1>4, WalkLaunches DEF RunnerTypeOK, StageOf, Going, NoActiveChild
<1>6. WithinLimit'
  <2>1. ActiveIn(Test) = {}
    BY <1>1, AtWork DEF Going
  <2>2. Cardinality(ActiveIn(Test)) < Limit
    BY <1>2, <2>1, FS_EmptySet DEF Limit, RunnerTypeOK
  <2> QED  BY <1>1, <2>2, WithinLaunch
<1>7. ToRun(t)
  BY <1>1, <1>2 DEF ToRun, PendingTests, stream, Included
<1>8. \A h \in Above[t] : events[h]["SetupPassed"] = 1
  BY <1>1, ContentPassed DEF Going, Content
<1> QED  BY <1>1, <1>5, <1>6, <1>7, <1>8, LaunchKeeps

\* RInv is inductive.
LEMMA RInvStep ==
  RInv /\ [RunnerNext]_runVars => RInv'
<1> SUFFICES ASSUME RInv, [RunnerNext]_runVars PROVE RInv'
  OBVIOUS
<1>1. CASE Configure \/ Start
  BY <1>1, ConfigureKeeps, StartKeeps
<1>2. CASE Launching
  BY <1>2, LaunchRootKeeps, LaunchGroupKeeps, LaunchConcurrentKeeps, LaunchSequentialKeeps
  DEF Launching
<1>3. CASE SetupEnds
  BY <1>3, SetupPassedKeeps, SetupFailedKeeps DEF SetupEnds
<1>4. CASE BodyEnds
  BY <1>4, GroupsDoneKeeps, ConcurrentDoneKeeps, SequentialDoneKeeps, TestDoneKeeps DEF BodyEnds
<1>5. CASE TeardownEnds
  BY <1>5, TeardownDoneKeeps DEF TeardownEnds
<1>6. CASE UNCHANGED runVars
  BY <1>6, StutterKeeps
<1> QED  BY <1>1, <1>2, <1>3, <1>4, <1>5, <1>6 DEF RunnerNext, Running

\* The walk keeps RInv, whatever setups, tests and teardowns pass or fail (run.rs,
\* group.rs, test.rs).
THEOREM RInvHolds == RunnerSpec => []RInv
<1>1. RunnerInit => RInv
  BY RInvInit
<1> QED  BY <1>1, RInvStep, PTL DEF RunnerSpec

-----------------------------------------------------------------------------
\* The variables of a run have their types: a group is never where only a test can
\* be, nor a test where only a group can be (group.rs, test.rs).
THEOREM RunnerTypeOKHolds == RunnerSpec => []RunnerTypeOK
BY RInvHolds, PTL DEF RInv

\* The walk enters only nodes with an included test below, so that no assertion of
\* Statistics::record fails, in a tree without empty groups (statistics.rs).
THEOREM NoPanicHolds == RunnerSpec => []NoPanic
BY RInvHolds, PTL DEF RInv

\* A group's fixture lives as long as anything below the group (group.rs).
THEOREM GroupSpansContentHolds == RunnerSpec => []GroupSpansContent
BY RInvHolds, PTL DEF RInv, WalkInv

\* Never more tests at a time than with_concurrency says, in the whole tree
\* (group.rs).
THEOREM WithinLimitHolds == RunnerSpec => []WithinLimit
BY RInvHolds, PTL DEF RInv

\* A test that is not enabled for concurrency runs alone, in the whole tree
\* (group.rs, run.rs).
THEOREM ExclusiveTestsHolds == RunnerSpec => []ExclusiveTests
<1>1. RInv => ExclusiveTests
  <2> SUFFICES ASSUME RInv, NEW s \in Test, NEW t \in Test, Active(s), Active(t), s # t
               PROVE  is_concurrency_enabled(s) /\ is_concurrency_enabled(t)
    BY DEF ExclusiveTests
  <2>1. s \in Node /\ t \in Node /\ s \notin Above[t] /\ t \notin Above[s]
    BY Tree, TreeAssumption DEF Child
  <2>2. Together(s, t)
    BY <2>1 DEF RInv, WalkInv, OnePath
  <2> QED  BY <2>2 DEF Together
<1> QED  BY <1>1, RInvHolds, PTL

-----------------------------------------------------------------------------
(***************************************************************************)
(* The end of a run.                                                       *)
(***************************************************************************)

\* There are finitely many events.
LEMMA EventFinite == IsFiniteSet(Event)
<1> DEFINE A == {"SetupLaunched", "SetupPassed", "SetupSkipped"}
           B == {"SetupFailed", "TeardownLaunched", "TeardownPassed"}
           C == {"TeardownFailed"}
<1>1. IsFiniteSet(TestEvent) /\ IsFiniteSet(A) /\ IsFiniteSet(B) /\ IsFiniteSet(C)
  BY FewFinite DEF TestEvent
<1>2. Event = TestEvent \cup (A \cup (B \cup C))
  BY DEF Event
<1> HIDE DEF A, B, C
<1>3. IsFiniteSet(B \cup C)
  BY <1>1, FS_Union
<1>4. IsFiniteSet(A \cup (B \cup C))
  BY <1>1, <1>3, FS_Union
<1> QED  BY <1>1, <1>2, <1>4, FS_Union

\* Statistics::count for one node.
LEMMA CountOne ==
  ASSUME RunnerTypeOK, NEW n \in Node, NEW E \in SUBSET Event
  PROVE  Count({n}, E) = Total(events[n], E)
<1> DEFINE f == [m \in {n} |-> Total(events[m], E)]
<1>1. f[n] = Total(events[n], E)
  OBVIOUS
<1>2. f[n] \in Nat
  BY EventFinite, FS_Subset, TotalNat, Counts
<1> HIDE DEF f
<1> QED  BY <1>1, <1>2, TotalOne DEF Count, f

\* Statistics::count of one event for a set of nodes.
LEMMA CountEvent ==
  ASSUME RunnerTypeOK, NEW N \in SUBSET Node, NEW e \in Event
  PROVE  Count(N, {e}) = Total([n \in N |-> events[n][e]], N)
<1>1. IsFiniteSet(N)
  BY RunnerAssumption, FS_Subset
<1>2. ASSUME NEW n \in N PROVE Total(events[n], {e}) = events[n][e]
  BY <1>2, Counts, TotalOne
<1> DEFINE f == [n \in N |-> Total(events[n], {e})]
           g == [n \in N |-> events[n][e]]
<1>3. \A n \in N : f[n] = g[n]
  BY <1>2
<1> HIDE DEF f, g
<1>4. Total(f, N) = Total(g, N)
  BY <1>1, <1>3, TotalAgrees
<1> QED  BY <1>4 DEF Count, f, g

\* Nothing counted is nothing recorded.
LEMMA CountZero ==
  ASSUME RunnerTypeOK, NEW N \in SUBSET Node, NEW E \in SUBSET Event
  PROVE  Count(N, E) = 0 <=> \A n \in N : \A e \in E : events[n][e] = 0
<1> DEFINE f == [n \in N |-> Total(events[n], E)]
<1>1. IsFiniteSet(N) /\ IsFiniteSet(E)
  BY RunnerAssumption, EventFinite, FS_Subset
<1>2. \A n \in N : f[n] \in Nat /\ (f[n] = 0 <=> \A e \in E : events[n][e] = 0)
  BY <1>1, Counts, TotalNat, TotalZero
<1> HIDE DEF f
<1>3. Total(f, N) = 0 <=> \A n \in N : f[n] = 0
  BY <1>1, <1>2, TotalZero
<1> QED  BY <1>2, <1>3 DEF Count, f

\* When run has returned no node is at an await, and what is recorded for a node is
\* complete or nothing.
Complete(n) ==
  /\ events[n]["SetupLaunched"] = 1
  /\ events[n]["SetupPassed"] + events[n]["SetupSkipped"] + events[n]["SetupFailed"] = 1
  /\ events[n]["TestLaunched"] = IF n \in Test THEN events[n]["SetupPassed"] ELSE 0
  /\ events[n]["TestPassed"] + events[n]["TestFailed"] = events[n]["TestLaunched"]
  /\ events[n]["TeardownLaunched"] = 1
  /\ events[n]["TeardownPassed"] + events[n]["TeardownFailed"] = 1

\* At the end of the run every node that was entered is done.
LEMMA Ended ==
  ASSUME RInv, status = "finished"
  PROVE  /\ RunnerTypeOK /\ PassedAbove /\ DoneInv /\ included = Included(filters)
         /\ included # {} => pc[Root] = "done"
         /\ \A n \in Node : \/ pc[n] = "done" /\ Complete(n) /\ ToRun(n)
                            \/ pc[n] = "idle" /\ \A e \in Event : events[n][e] = 0
<1>1. /\ RunnerTypeOK /\ PassedAbove /\ DoneInv /\ included = Included(filters)
      /\ pc[Root] = "done" \/ (included = {} /\ \A n \in Node : pc[n] = "idle")
      /\ \A n \in Node : Recorded(n)
  BY DEF RInv, EnteredInv, RecordInv
<1>2. ASSUME NEW n \in Node PROVE pc[n] \in {"idle", "done"}
  <2> SUFFICES ASSUME Active(n) PROVE FALSE
    BY DEF Active
  <2>1. pc[Root] = "done" /\ n # Root /\ Root \in Above[n]
    BY <1>1, Tree DEF Active, Child
  <2> QED  BY <2>1 DEF RInv, WalkInv, GroupSpansContent
<1>3. ASSUME NEW n \in Node, pc[n] = "done" PROVE Complete(n) /\ ToRun(n)
  BY <1>1, <1>3 DEF Recorded, Flag, Complete, RInv, EnteredInv
<1>4. ASSUME NEW n \in Node, pc[n] = "idle" PROVE \A e \in Event : events[n][e] = 0
  <2>1. /\ events[n]["SetupLaunched"] = 0
        /\ events[n]["SetupPassed"] + events[n]["SetupSkipped"] + events[n]["SetupFailed"] = 0
        /\ events[n]["TestLaunched"] = IF n \in Test THEN events[n]["SetupPassed"] ELSE 0
        /\ events[n]["TestPassed"] + events[n]["TestFailed"] = 0
        /\ events[n]["TeardownLaunched"] = 0
        /\ events[n]["TeardownPassed"] + events[n]["TeardownFailed"] = 0
    BY <1>1, <1>4 DEF Recorded, Flag
  <2>2. \A a, b \in Nat : a + b = 0 => a = 0 /\ b = 0
    OBVIOUS
  <2>3. /\ events[n]["SetupPassed"] \in Nat /\ events[n]["SetupSkipped"] \in Nat
        /\ events[n]["SetupFailed"] \in Nat /\ events[n]["TestPassed"] \in Nat
        /\ events[n]["TestFailed"] \in Nat /\ events[n]["TeardownPassed"] \in Nat
        /\ events[n]["TeardownFailed"] \in Nat
    BY <1>1, Counts
  <2>4. /\ events[n]["SetupPassed"] = 0 /\ events[n]["SetupSkipped"] = 0
        /\ events[n]["SetupFailed"] = 0
    <3>1. \A a, b, c \in Nat : a + b + c = 0 => a = 0 /\ b = 0 /\ c = 0
      OBVIOUS
    <3>2. events[n]["SetupPassed"] + events[n]["SetupSkipped"] + events[n]["SetupFailed"] = 0
      BY <2>1
    <3>3. /\ events[n]["SetupPassed"] \in Nat /\ events[n]["SetupSkipped"] \in Nat
          /\ events[n]["SetupFailed"] \in Nat
      BY <2>3
    <3> QED  BY ONLY <3>1, <3>2, <3>3
  <2>6. /\ events[n]["TestPassed"] = 0 /\ events[n]["TestFailed"] = 0
        /\ events[n]["TeardownPassed"] = 0 /\ events[n]["TeardownFailed"] = 0
    BY <2>1, <2>2, <2>3
  <2>5. events[n]["TestLaunched"] = 0
    BY <2>1, <2>4
  <2> QED  BY <2>1, <2>4, <2>5, <2>6 DEF Event, TestEvent
<1> QED  BY <1>1, <1>2, <1>3, <1>4

\* When run returns every setup launched has had its one teardown (test.rs, group.rs).
THEOREM TeardownForEverySetupHolds == RunnerSpec => []TeardownForEverySetup
<1>1. RInv => TeardownForEverySetup
  <2> SUFFICES ASSUME RInv, status = "finished", NEW n \in Node
               PROVE  /\ events[n]["SetupLaunched"] <= 1
                      /\ events[n]["SetupLaunched"]
                           = Count({n}, {"SetupPassed", "SetupSkipped", "SetupFailed"})
                      /\ events[n]["SetupLaunched"] = events[n]["TeardownLaunched"]
                      /\ events[n]["SetupLaunched"] = Count({n}, {"TeardownPassed", "TeardownFailed"})
    BY DEF TeardownForEverySetup
  <2> DEFINE k == events[n]
  <2>1. RunnerTypeOK
    BY DEF RInv
  <2>2. \A e \in Event : k[e] \in Nat
    BY <2>1, Counts
  <2>3. /\ Total(k, {"SetupPassed", "SetupSkipped", "SetupFailed"})
             = k["SetupPassed"] + k["SetupSkipped"] + k["SetupFailed"]
        /\ Total(k, {"TeardownPassed", "TeardownFailed"}) = k["TeardownPassed"] + k["TeardownFailed"]
    <3> HIDE DEF k
    <3>1. /\ k["SetupPassed"] \in Nat /\ k["SetupSkipped"] \in Nat /\ k["SetupFailed"] \in Nat
          /\ k["TeardownPassed"] \in Nat /\ k["TeardownFailed"] \in Nat
      BY <2>1, <2>2, Counts
    <3>2. Total(k, {"TeardownPassed", "TeardownFailed"}) = k["TeardownPassed"] + k["TeardownFailed"]
      <4>1. "TeardownPassed" # "TeardownFailed"
        OBVIOUS
      <4> QED  BY <3>1, <4>1, TotalTwo, Zenon
    <3>3. Total(k, {"SetupPassed", "SetupSkipped", "SetupFailed"})
            = k["SetupPassed"] + k["SetupSkipped"] + k["SetupFailed"]
      <4> DEFINE S == {"SetupPassed", "SetupSkipped", "SetupFailed"}
      <4>1. IsFiniteSet(S) /\ "SetupFailed" \in S /\ \A x \in S : k[x] \in Nat
        BY <3>1, FewFinite
      <4>2. S \ {"SetupFailed"} = {"SetupPassed", "SetupSkipped"} /\ "SetupPassed" # "SetupSkipped"
        OBVIOUS
      <4> HIDE DEF S
      <4>3. Total(k, S) = k["SetupFailed"] + Total(k, S \ {"SetupFailed"})
        BY <4>1, TotalElement
      <4>4. Total(k, S \ {"SetupFailed"}) = k["SetupPassed"] + k["SetupSkipped"]
        BY <3>1, <4>2, TotalTwo, Zenon
      <4> QED  BY <3>1, <4>3, <4>4 DEF S
    <3> QED  BY <3>2, <3>3
  <2>4. /\ Count({n}, {"SetupPassed", "SetupSkipped", "SetupFailed"})
             = Total(k, {"SetupPassed", "SetupSkipped", "SetupFailed"})
        /\ Count({n}, {"TeardownPassed", "TeardownFailed"}) = Total(k, {"TeardownPassed", "TeardownFailed"})
    BY <2>1, CountOne, Counts
  <2>5. Complete(n) \/ \A e \in Event : k[e] = 0
    BY Ended
  <2> QED  BY <2>1, <2>3, <2>4, <2>5, Counts DEF Complete
<1> QED  BY <1>1, RInvHolds, PTL

-----------------------------------------------------------------------------
(***************************************************************************)
(* Every included test has one outcome: the path from the root to it.      *)
(***************************************************************************)

\* The depth of a node and of its parent.
LEMMA StepsToRoot ==
  /\ \A n \in Node : IsFiniteSet(Above[n]) /\ Cardinality(Above[n]) \in Nat
  /\ \A n \in Child : Cardinality(Above[n]) = Cardinality(Above[Parent[n]]) + 1
  /\ \A n \in Node : Cardinality(Above[n]) = 0 => n = Root
<1>1. ASSUME NEW n \in Node PROVE IsFiniteSet(Above[n]) /\ Cardinality(Above[n]) \in Nat
  <2>1. Above[n] \in SUBSET Node
    BY Tree
  <2> QED  BY <2>1, RunnerAssumption, FS_Subset, FS_CardinalityType
<1>2. ASSUME NEW n \in Child PROVE Cardinality(Above[n]) = Cardinality(Above[Parent[n]]) + 1
  <2>1. /\ Parent[n] \in Node /\ Above[n] = Above[Parent[n]] \cup {Parent[n]}
        /\ Parent[n] \notin Above[Parent[n]]
    BY Tree
  <2> QED  BY <1>1, <2>1, FS_AddElement
<1>3. ASSUME NEW n \in Node, Cardinality(Above[n]) = 0 PROVE n = Root
  <2>1. Above[n] = {}
    BY <1>1, <1>3, FS_EmptySet
  <2> QED  BY <2>1, Tree DEF Child
<1> QED  BY <1>1, <1>2, <1>3

\* What is above a node is a path: everything above what is above it is above it,
\* and of any two one is above the other.
LEMMA AboveIsPath ==
  ASSUME NEW t \in Node
  PROVE  /\ \A g \in Above[t] : Above[g] \subseteq Above[t]
         /\ \A g, h \in Above[t] : g = h \/ g \in Above[h] \/ h \in Above[g]
<1> DEFINE P(n) == /\ \A g \in Above[n] : Above[g] \subseteq Above[n]
                   /\ \A g, h \in Above[n] : g = h \/ g \in Above[h] \/ h \in Above[g]
           T == {k \in Nat : \A n \in Node : Cardinality(Above[n]) = k => P(n)}
<1>1. 0 \in T
  BY StepsToRoot, Tree
<1>2. ASSUME NEW k \in Nat, k \in T PROVE k + 1 \in T
  <2> SUFFICES ASSUME NEW n \in Node, Cardinality(Above[n]) = k + 1 PROVE P(n)
    OBVIOUS
  <2>1. n \in Child
    <3>1. Cardinality(Above[Root]) = 0
      BY Tree, FS_EmptySet
    <3> QED  BY <3>1 DEF Child
  <2>2. /\ Parent[n] \in Node /\ Above[n] = Above[Parent[n]] \cup {Parent[n]}
        /\ Cardinality(Above[Parent[n]]) = k
    BY <2>1, StepsToRoot, Tree
  <2>3. P(Parent[n])
    BY <1>2, <2>2
  <2> QED  BY <2>2, <2>3
<1>3. \A k \in Nat : k \in T
  <2> HIDE DEF T
  <2> QED  BY <1>1, <1>2, NatSet
<1> QED  BY <1>3, StepsToRoot

\* On the path from the root to t there is a first node of I, if t is one and the
\* root is not.
LEMMA FirstOnPath ==
  ASSUME NEW I, Root \notin I, NEW t \in Node, t \in I
  PROVE  \E m \in Child : m \in I /\ Parent[m] \notin I /\ (m = t \/ m \in Above[t])
<1> DEFINE P(n) == \E m \in Child : m \in I /\ Parent[m] \notin I /\ (m = n \/ m \in Above[n])
           T == {k \in Nat : \A n \in Node \cap I : Cardinality(Above[n]) = k => P(n)}
<1>1. 0 \in T
  BY StepsToRoot
<1>2. ASSUME NEW k \in Nat, k \in T PROVE k + 1 \in T
  <2> SUFFICES ASSUME NEW n \in Node \cap I, Cardinality(Above[n]) = k + 1 PROVE P(n)
    OBVIOUS
  <2>1. n \in Child
    BY DEF Child
  <2>2. /\ Parent[n] \in Node /\ Above[n] = Above[Parent[n]] \cup {Parent[n]}
        /\ Cardinality(Above[Parent[n]]) = k
    BY <2>1, StepsToRoot, Tree
  <2>3. Parent[n] \in I => P(Parent[n])
    BY <1>2, <2>2
  <2> QED  BY <2>1, <2>2, <2>3
<1>3. \A k \in Nat : k \in T
  <2> HIDE DEF T
  <2> QED  BY <1>1, <1>2, NatSet
<1> QED  BY <1>3, StepsToRoot

\* The setup of n did not pass.
Stopped(n) == events[n]["SetupSkipped"] + events[n]["SetupFailed"]

\* A node that has ended was stopped at its own setup, or passed it and, if it is a
\* test, had its body run.
LEMMA StoppedOrPassed ==
  ASSUME RInv, status = "finished", NEW n \in Node
  PROVE  /\ Stopped(n) \in {0, 1}
         /\ pc[n] = "idle" => Stopped(n) = 0
         /\ events[n]["SetupPassed"] = 1 => Stopped(n) = 0
         /\ pc[n] = "done" /\ events[n]["SetupPassed"] # 1 =>
              events[n]["SetupPassed"] = 0 /\ Stopped(n) = 1
<1>1. /\ \A e \in Event : events[n][e] \in Nat
      /\ \/ pc[n] = "done" /\ Complete(n)
         \/ pc[n] = "idle" /\ \A e \in Event : events[n][e] = 0
      /\ RunnerTypeOK
  BY Ended, Counts
<1>2. events[n]["SetupPassed"] \in Nat /\ events[n]["SetupSkipped"] \in Nat /\ events[n]["SetupFailed"] \in Nat
  BY <1>1, Counts
<1>3. CASE pc[n] = "idle"
  <2>1. Stopped(n) = 0 /\ events[n]["SetupPassed"] = 0
    BY <1>1, <1>3, Counts DEF Stopped
  <2> QED  BY <1>3, <2>1
<1>4. CASE pc[n] = "done"
  <2>1. events[n]["SetupPassed"] + events[n]["SetupSkipped"] + events[n]["SetupFailed"] = 1
    BY <1>1, <1>4 DEF Complete
  <2> QED  BY <1>2, <1>4, <2>1 DEF Stopped
<1> QED  BY <1>1, <1>3, <1>4

\* An included test has run, or exactly one setup above it has stopped it.
LEMMA OneStop ==
  ASSUME RInv, status = "finished", NEW t \in included
  PROVE  \/ pc[t] = "done" /\ \A g \in Above[t] : Stopped(g) = 0
         \/ pc[t] = "idle" /\ \E g \in Above[t] :
              Stopped(g) = 1 /\ \A h \in Above[t] \ {g} : Stopped(h) = 0
<1>1. /\ t \in Test /\ t \in Node /\ t \in Included(filters) /\ PassedAbove /\ DoneInv
      /\ pc[Root] = "done" /\ Above[t] \subseteq Node
      /\ \A n \in Node : pc[n] = "done" \/ pc[n] = "idle"
  BY Ended, Tree DEF Included, Child
<1>2. CASE pc[t] = "done"
  BY <1>1, <1>2, StoppedOrPassed DEF PassedAbove
<1>3. CASE pc[t] = "idle"
  <2> DEFINE I == {n \in Node : pc[n] = "idle"}
  <2>1. PICK m \in Child : m \in I /\ Parent[m] \notin I /\ (m = t \/ m \in Above[t])
    <3>1. Root \notin I /\ t \in I
      BY <1>1, <1>3
    <3> QED  BY <1>1, <3>1, FirstOnPath
  <2> DEFINE g == Parent[m]
  <2>2. g \in Node /\ pc[g] = "done" /\ pc[m] = "idle" /\ g \in Above[t]
    BY <1>1, <2>1, Tree, AboveIsPath
  <2>3. ToRun(m)
    <3>1. CASE m = t
      BY <1>1, <3>1, TreeAssumption DEF ToRun
    <3>2. CASE m \in Above[t]
      BY <1>1, <2>1, <3>2, OnTheWay, Tree, TreeAssumption DEF ToRun, Child
    <3> QED  BY <2>1, <3>1, <3>2
  <2>4. events[g]["SetupPassed"] # 1
    BY <1>1, <2>2, <2>3 DEF DoneInv, Behind
  <2>5. Stopped(g) = 1
    BY <2>2, <2>4, StoppedOrPassed
  <2>6. ASSUME NEW h \in Above[t] \ {g} PROVE Stopped(h) = 0
    <3>1. h \in Above[g] \/ g \in Above[h]
      BY <1>1, <2>2, AboveIsPath
    <3>2. CASE h \in Above[g]
      BY <1>1, <2>2, <3>2, StoppedOrPassed DEF PassedAbove
    <3>3. CASE g \in Above[h]
      BY <1>1, <2>4, <3>3, StoppedOrPassed DEF PassedAbove
    <3> QED  BY <3>1, <3>2, <3>3
  <2> QED  BY <1>3, <2>2, <2>5, <2>6
<1> QED  BY <1>1, <1>2, <1>3

\* An included test has one outcome in the end.
LEMMA OneOutcome ==
  ASSUME RInv, status = "finished", NEW t \in included
  PROVE  Outcomes(t) = 1
<1> DEFINE E == {"SetupSkipped", "SetupFailed"}
           S == {"TestPassed", "TestFailed", "SetupSkipped", "SetupFailed"}
           f == [g \in Above[t] |-> Total(events[g], E)]
<1>1. /\ t \in Test /\ t \in Node /\ RunnerTypeOK /\ Above[t] \subseteq Node
      /\ pc[t] = "done" => Complete(t)
      /\ pc[t] = "idle" => \A e \in Event : events[t][e] = 0
  BY Ended, Tree DEF Included, Child
<1>2. ASSUME NEW g \in Node PROVE Total(events[g], E) = Stopped(g)
  <2>1. events[g]["SetupSkipped"] \in Nat /\ events[g]["SetupFailed"] \in Nat
    BY <1>1, Counts
  <2>2. "SetupSkipped" # "SetupFailed"
    OBVIOUS
  <2>3. Total(events[g], E) = events[g]["SetupSkipped"] + events[g]["SetupFailed"]
    BY <2>1, <2>2, TotalTwo, Zenon
  <2> QED  BY <2>3 DEF Stopped
<1>3. Count({t}, S) = events[t]["TestPassed"] + events[t]["TestFailed"] + Stopped(t)
  <2>1. /\ events[t]["TestPassed"] \in Nat /\ events[t]["TestFailed"] \in Nat
        /\ events[t]["SetupSkipped"] \in Nat /\ events[t]["SetupFailed"] \in Nat
        /\ S \in SUBSET Event /\ \A e \in Event : events[t][e] \in Nat
    BY <1>1, Counts
  <2>2. /\ "TestPassed" \in S /\ "TestFailed" \in S \ {"TestPassed"}
        /\ (S \ {"TestPassed"}) \ {"TestFailed"} = E
    OBVIOUS
  <2> HIDE DEF S, E
  <2>3. IsFiniteSet(S) /\ IsFiniteSet(S \ {"TestPassed"}) /\ \A e \in S : events[t][e] \in Nat
    BY <2>1, EventFinite, FS_Subset
  <2>4. Total(events[t], S) = events[t]["TestPassed"] + Total(events[t], S \ {"TestPassed"})
    BY <2>2, <2>3, TotalElement
  <2>5. Total(events[t], S \ {"TestPassed"})
          = events[t]["TestFailed"] + Total(events[t], (S \ {"TestPassed"}) \ {"TestFailed"})
    BY <2>2, <2>3, TotalElement
  <2>6. Total(events[t], (S \ {"TestPassed"}) \ {"TestFailed"}) = Stopped(t)
    BY <1>1, <1>2, <2>2
  <2>7. Count({t}, S) = Total(events[t], S)
    BY <1>1, <2>1, CountOne
  <2> QED  BY <2>1, <2>4, <2>5, <2>6, <2>7 DEF Stopped
<1>4. Count(Above[t], E) = Total(f, Above[t])
  BY DEF Count
<1>5. /\ IsFiniteSet(Above[t])
      /\ \A g \in Above[t] : f[g] = Stopped(g) /\ f[g] \in Nat
  BY <1>1, <1>2, StepsToRoot, StoppedOrPassed
<1>6. Outcomes(t) = events[t]["TestPassed"] + events[t]["TestFailed"] + Stopped(t) + Total(f, Above[t])
  BY <1>3, <1>4 DEF Outcomes
<1>7. /\ events[t]["TestPassed"] \in Nat /\ events[t]["TestFailed"] \in Nat
      /\ events[t]["SetupPassed"] \in Nat
      /\ events[t]["SetupSkipped"] \in Nat /\ events[t]["SetupFailed"] \in Nat
  BY <1>1, Counts
<1> HIDE DEF f
<1>8. CASE pc[t] = "done" /\ \A g \in Above[t] : Stopped(g) = 0
  <2>1. Total(f, Above[t]) = 0
    BY <1>5, <1>8, TotalZero
  <2>2. /\ events[t]["SetupPassed"] + events[t]["SetupSkipped"] + events[t]["SetupFailed"] = 1
        /\ events[t]["TestPassed"] + events[t]["TestFailed"] = events[t]["SetupPassed"]
    BY <1>1, <1>8 DEF Complete
  <2> QED  BY <1>6, <1>7, <2>1, <2>2 DEF Stopped
<1>9. CASE pc[t] = "idle" /\ \E g \in Above[t] :
             Stopped(g) = 1 /\ \A h \in Above[t] \ {g} : Stopped(h) = 0
  <2>1. PICK g \in Above[t] : Stopped(g) = 1 /\ \A h \in Above[t] \ {g} : Stopped(h) = 0
    BY <1>9
  <2>2. Total(f, Above[t]) = f[g] + Total(f, Above[t] \ {g})
    BY <1>5, TotalElement
  <2>3. Total(f, Above[t] \ {g}) = 0
    <3>1. IsFiniteSet(Above[t] \ {g}) /\ \A h \in Above[t] \ {g} : f[h] \in Nat /\ f[h] = 0
      BY <1>5, <2>1, FS_Subset
    <3> QED  BY <3>1, TotalZero
  <2>4. /\ events[t]["TestPassed"] = 0 /\ events[t]["TestFailed"] = 0
        /\ events[t]["SetupSkipped"] = 0 /\ events[t]["SetupFailed"] = 0
    BY <1>1, <1>9, Counts
  <2> QED  BY <1>5, <1>6, <2>1, <2>2, <2>3, <2>4 DEF Stopped
<1> QED  BY <1>8, <1>9, OneStop

\* The tests that the record of n accounts for: n itself, if it is a test that was
\* entered, and all included tests below a group that was stopped.
Covers(n) ==
  IF n \in Test THEN (IF pc[n] = "done" THEN {n} ELSE {})
  ELSE (IF Stopped(n) = 1 THEN iter_included(n) ELSE {})

\* Nodes that stop tests stop different ones.
LEMMA CoversOnce ==
  ASSUME RInv, status = "finished"
  PROVE  /\ UNION {Covers(n) : n \in Node} = included
         /\ \A m, n \in Node : m # n => Covers(m) \cap Covers(n) = {}
<1>1. /\ \A n \in Node : pc[n] = "done" => ToRun(n)
      /\ \A t \in included : t \in Test /\ t \in Node /\ Above[t] \subseteq Node /\ Above[t] \cap Test = {}
      /\ \A n \in Node : n \in Group <=> n \notin Test
  BY Ended, Tree, TreeAssumption DEF Included, Child, Node
<1>2. ASSUME NEW n \in Node PROVE Covers(n) \subseteq included
  BY <1>1 DEF Covers, ToRun, iter_included
<1>3. ASSUME NEW t \in included PROVE \E n \in Node : t \in Covers(n)
  <2>1. CASE pc[t] = "done"
    BY <1>1, <2>1 DEF Covers
  <2>2. CASE pc[t] # "done"
    <3>1. PICK g \in Above[t] : Stopped(g) = 1
      BY <2>2, OneStop
    <3> QED  BY <1>1, <3>1 DEF Covers, iter_included
  <2> QED  BY <2>1, <2>2
<1>4. ASSUME NEW m \in Node, NEW n \in Node, m # n, NEW t \in Covers(m) \cap Covers(n) PROVE FALSE
  <2>1. t \in included
    BY <1>2
  <2>2. /\ m \in Test => m = t /\ pc[t] = "done"
        /\ n \in Test => n = t /\ pc[t] = "done"
        /\ m \notin Test => Stopped(m) = 1 /\ m \in Above[t]
        /\ n \notin Test => Stopped(n) = 1 /\ n \in Above[t]
    BY <1>1, <2>1 DEF Covers, iter_included
  <2> QED  BY <1>4, <2>1, <2>2, OneStop
<1>5. UNION {Covers(n) : n \in Node} = included
  BY <1>2, <1>3
<1> QED  BY <1>4, <1>5

\* What is counted of a setup that did not pass, test by test.
Stops(e) ==
  [n \in Node |-> IF n \in Test THEN events[n][e] ELSE events[n][e] * Cardinality(iter_included(n))]

\* The tests below a node that stopped them.
LEMMA StoppedBy ==
  ASSUME RunnerTypeOK, NEW e \in Event
  PROVE  /\ \A n \in Node : Stops(e)[n] \in Nat
         /\ TestsStoppedBy(e) = Total(Stops(e), Node)
<1> DEFINE f == Stops(e)
           g == [t \in Test |-> events[t][e]]
           h == [n \in Group |-> events[n][e] * Cardinality(iter_included(n))]
<1>1. IsFiniteSet(Test) /\ IsFiniteSet(Group) /\ Node = Test \cup Group /\ Test \cap Group = {}
  BY RunnerAssumption, TreeAssumption, FS_Subset DEF Node
<1>2. ASSUME NEW n \in Node PROVE f[n] \in Nat
  <2>1. iter_included(n) \in SUBSET Test
    BY DEF iter_included, RunnerTypeOK
  <2>2. Cardinality(iter_included(n)) \in Nat /\ events[n][e] \in Nat
    BY <1>1, <2>1, FS_Subset, FS_CardinalityType, Counts
  <2>3. \A a, b \in Nat : a * b \in Nat
    OBVIOUS
  <2> QED  BY <2>2, <2>3 DEF Stops
<1>3. /\ \A t \in Test : f[t] = g[t]
      /\ \A n \in Group : f[n] = h[n]
  BY <1>1 DEF Stops
<1> HIDE DEF f
<1>4. Total(f, Test) = Total(g, Test) /\ Total(f, Group) = Total(h, Group)
  <2> HIDE DEF g, h
  <2> QED  BY <1>1, <1>3, TotalAgrees
<1>5. Total(f, Node) = Total(f, Test) + Total(f, Group)
  BY <1>1, <1>2, TotalSplit
<1>6. Count(Test, {e}) = Total(g, Test)
  BY <1>1, CountEvent
<1> QED  BY <1>2, <1>4, <1>5, <1>6 DEF TestsStoppedBy, f

\* The counters of Statistics are totals over the nodes.
LEMMA Counters ==
  ASSUME RunnerTypeOK
  PROVE  /\ tests_launched = Total([n \in Node |-> events[n]["TestLaunched"]], Node)
         /\ tests_passed = Total([n \in Node |-> events[n]["TestPassed"]], Node)
         /\ tests_failed = Total([n \in Node |-> events[n]["TestFailed"]], Node)
         /\ tests_skipped = Total(Stops("SetupSkipped"), Node)
         /\ tests_skipped_by_fixture_err = Total(Stops("SetupFailed"), Node)
         /\ tests_passed \in Nat /\ tests_failed \in Nat /\ tests_skipped \in Nat
<1>1. IsFiniteSet(Node) /\ Node \in SUBSET Node
  BY RunnerAssumption
<1>2. ASSUME NEW e \in Event
      PROVE  /\ Count(Node, {e}) = Total([n \in Node |-> events[n][e]], Node)
             /\ Count(Node, {e}) \in Nat
  <2>1. \A n \in Node : [m \in Node |-> events[m][e]][n] \in Nat
    BY Counts
  <2>2. Total([n \in Node |-> events[n][e]], Node) \in Nat
    BY <1>1, <2>1, TotalNat
  <2> QED  BY <1>1, <2>2, CountEvent
<1>3. \A e \in Event : TestsStoppedBy(e) = Total(Stops(e), Node) /\ Total(Stops(e), Node) \in Nat
  BY <1>1, StoppedBy, TotalNat
<1>4. /\ "TestLaunched" \in Event /\ "TestPassed" \in Event /\ "TestFailed" \in Event
      /\ "SetupSkipped" \in Event /\ "SetupFailed" \in Event
  BY DEF Event, TestEvent
<1> QED  BY <1>2, <1>3, <1>4, Zenon
         DEF tests_launched, tests_passed, tests_failed, tests_skipped, tests_skipped_by_fixture_err

\* The counters add up to the number of included tests.
LEMMA CountersAddUp ==
  ASSUME RInv, status = "finished"
  PROVE  Cardinality(included) = tests_launched + tests_skipped + tests_skipped_by_fixture_err
<1> DEFINE w == [n \in Node |-> Cardinality(Covers(n))]
           B == [n \in Node |-> Covers(n)]
           l == [n \in Node |-> events[n]["TestLaunched"]]
           s == Stops("SetupSkipped")
           f == Stops("SetupFailed")
           r == [n \in Node |-> s[n] + f[n]]
<1>1. /\ RunnerTypeOK /\ IsFiniteSet(Node)
      /\ \A n \in Node : \/ pc[n] = "done" /\ Complete(n)
                         \/ pc[n] = "idle" /\ \A e \in Event : events[n][e] = 0
  BY Ended, RunnerAssumption
<1>2. \A n \in Node : IsFiniteSet(Covers(n)) /\ IsFiniteSet(iter_included(n))
  <2>1. \A n \in Node : iter_included(n) \subseteq Node /\ Covers(n) \subseteq Node
    BY <1>1, Tree DEF RunnerTypeOK, iter_included, Covers, Child
  <2> QED  BY <1>1, <2>1, FS_Subset
<1>3. Total(w, Node) = Cardinality(included)
  <2>1. \A n \in Node : IsFiniteSet(B[n]) /\ w[n] = Cardinality(B[n])
    BY <1>2
  <2>2. \A m, n \in Node : m # n => B[m] \cap B[n] = {}
    BY CoversOnce
  <2>3. UNION {B[n] : n \in Node} = included
    BY CoversOnce
  <2> HIDE DEF w, B
  <2> QED  BY <1>1, <2>1, <2>2, <2>3, TotalUnion
<1>4. \A n \in Node : s[n] \in Nat /\ f[n] \in Nat /\ l[n] \in Nat /\ r[n] = s[n] + f[n] /\ r[n] \in Nat
  BY <1>1, Counts, StoppedBy
<1>5. ASSUME NEW n \in Node PROVE w[n] = l[n] + r[n]
  <2>1. /\ events[n]["SetupPassed"] \in Nat /\ events[n]["SetupSkipped"] \in Nat
        /\ events[n]["SetupFailed"] \in Nat
        /\ Stopped(n) \in {0, 1} /\ Stopped(n) = events[n]["SetupSkipped"] + events[n]["SetupFailed"]
    BY <1>1, Counts, StoppedOrPassed DEF Stopped
  <2>2. CASE n \in Test
    <3>1. w[n] = IF pc[n] = "done" THEN 1 ELSE 0
      BY <2>2, FS_Singleton, FS_EmptySet DEF Covers
    <3>2. l[n] = events[n]["TestLaunched"] /\ r[n] = events[n]["SetupSkipped"] + events[n]["SetupFailed"]
      BY <2>2 DEF Stops
    <3>3. CASE pc[n] = "done"
      <4>1. /\ events[n]["TestLaunched"] = events[n]["SetupPassed"]
            /\ events[n]["SetupPassed"] + events[n]["SetupSkipped"] + events[n]["SetupFailed"] = 1
        BY <1>1, <2>2, <3>3 DEF Complete
      <4> QED  BY <2>1, <3>1, <3>2, <3>3, <4>1
    <3>4. CASE pc[n] # "done"
      <4>1. events[n]["TestLaunched"] = 0 /\ events[n]["SetupSkipped"] = 0 /\ events[n]["SetupFailed"] = 0
        BY <1>1, <3>4, Counts
      <4> QED  BY <3>1, <3>2, <3>4, <4>1
    <3> QED  BY <3>3, <3>4
  <2>3. CASE n \notin Test
    <3> DEFINE c == Cardinality(iter_included(n))
    <3>1. c \in Nat
      BY <1>2, FS_CardinalityType
    <3>2. w[n] = IF Stopped(n) = 1 THEN c ELSE 0
      BY <2>3, FS_EmptySet DEF Covers
    <3>3. s[n] = events[n]["SetupSkipped"] * c /\ f[n] = events[n]["SetupFailed"] * c
      BY <2>3 DEF Stops
    <3>4. l[n] = 0
      BY <1>1, <2>3, Counts DEF Complete
    <3> HIDE DEF c, s, f, w, l
    <3>5. \/ events[n]["SetupSkipped"] = 0 /\ events[n]["SetupFailed"] = 0 /\ Stopped(n) = 0
          \/ events[n]["SetupSkipped"] = 1 /\ events[n]["SetupFailed"] = 0 /\ Stopped(n) = 1
          \/ events[n]["SetupSkipped"] = 0 /\ events[n]["SetupFailed"] = 1 /\ Stopped(n) = 1
      BY <2>1
    <3>6. 0 * c = 0 /\ 1 * c = c
      BY <3>1
    <3> QED  BY <3>1, <3>2, <3>3, <3>4, <3>5, <3>6
  <2> QED  BY <2>2, <2>3
<1> HIDE DEF w, l, s, f, r
<1>6. Total(w, Node) = Total(l, Node) + Total(r, Node)
  BY <1>1, <1>4, <1>5, TotalSum
<1>7. Total(r, Node) = Total(s, Node) + Total(f, Node)
  BY <1>1, <1>4, TotalSum
<1>8. /\ tests_launched = Total(l, Node)
      /\ tests_skipped = Total(s, Node) /\ tests_skipped_by_fixture_err = Total(f, Node)
  BY <1>1, Counters DEF l, s, f
<1>9. Total(l, Node) \in Nat /\ Total(s, Node) \in Nat /\ Total(f, Node) \in Nat
  BY <1>1, <1>4, TotalNat
<1> QED  BY <1>3, <1>6, <1>7, <1>8, <1>9

\* When run returns every included test has exactly one outcome, and the counters
\* of Statistics add up (statistics.rs).
THEOREM AccountedHolds == RunnerSpec => []Accounted
<1>1. RInv => Accounted
  <2> SUFFICES ASSUME RInv, status = "finished"
               PROVE  /\ \A t \in included : Outcomes(t) = 1
                      /\ Count(Test \ included, Event) = 0
                      /\ tests_launched = tests_passed + tests_failed
                      /\ Cardinality(included)
                           = tests_launched + tests_skipped + tests_skipped_by_fixture_err
                      /\ is_success => Cardinality(included) = tests_passed + tests_skipped
    BY DEF Accounted
  <2>1. /\ RunnerTypeOK /\ IsFiniteSet(Node)
        /\ \A n \in Node : \/ pc[n] = "done" /\ Complete(n) /\ ToRun(n)
                           \/ pc[n] = "idle" /\ \A e \in Event : events[n][e] = 0
    BY Ended, RunnerAssumption
  <2>2. \A t \in included : Outcomes(t) = 1
    BY OneOutcome
  <2>3. Count(Test \ included, Event) = 0
    <3>1. Test \ included \in SUBSET Node
      BY DEF Node
    <3>2. \A t \in Test \ included : \A e \in Event : events[t][e] = 0
      BY <2>1, <3>1 DEF ToRun
    <3> QED  BY <2>1, <3>1, <3>2, CountZero
  <2>4. tests_launched = tests_passed + tests_failed
    <3> DEFINE l == [n \in Node |-> events[n]["TestLaunched"]]
               p == [n \in Node |-> events[n]["TestPassed"]]
               f == [n \in Node |-> events[n]["TestFailed"]]
    <3>1. \A n \in Node : p[n] \in Nat /\ f[n] \in Nat /\ l[n] = p[n] + f[n]
      BY <2>1, Counts DEF Complete
    <3>2. tests_launched = Total(l, Node) /\ tests_passed = Total(p, Node) /\ tests_failed = Total(f, Node)
      BY <2>1, Counters
    <3> HIDE DEF l, p, f
    <3> QED  BY <2>1, <3>1, <3>2, TotalSum
  <2>5. Cardinality(included) = tests_launched + tests_skipped + tests_skipped_by_fixture_err
    BY CountersAddUp
  <2>6. ASSUME is_success PROVE Cardinality(included) = tests_passed + tests_skipped
    <3>1. \A n \in Node : events[n]["SetupFailed"] = 0 /\ events[n]["TestFailed"] = 0
      <4>1. FailedEvent \in SUBSET Event /\ "SetupFailed" \in FailedEvent /\ "TestFailed" \in FailedEvent
        BY DEF FailedEvent, Event, TestEvent
      <4>2. Count(Node, FailedEvent) = 0
        BY <2>6 DEF is_success
      <4> QED  BY <2>1, <4>1, <4>2, CountZero
    <3>2. tests_failed = 0
      <4> DEFINE f == [n \in Node |-> events[n]["TestFailed"]]
      <4>1. tests_failed = Total(f, Node) /\ \A n \in Node : f[n] \in Nat /\ f[n] = 0
        BY <2>1, <3>1, Counters
      <4> HIDE DEF f
      <4> QED  BY <2>1, <4>1, TotalZero
    <3>3. tests_skipped_by_fixture_err = 0
      <4> DEFINE f == Stops("SetupFailed")
      <4>1. tests_skipped_by_fixture_err = Total(f, Node) /\ \A n \in Node : f[n] \in Nat
        BY <2>1, Counts, Counters, StoppedBy
      <4>2. \A n \in Node : f[n] = 0
        <5>1. ASSUME NEW n \in Node PROVE 0 * Cardinality(iter_included(n)) = 0
          <6>1. iter_included(n) \in SUBSET Node
            BY <2>1, Tree DEF iter_included, RunnerTypeOK, Child
          <6>2. Cardinality(iter_included(n)) \in Nat
            BY <2>1, <6>1, FS_Subset, FS_CardinalityType
          <6> QED  BY <6>2
        <5> QED  BY <3>1, <5>1 DEF Stops
      <4> HIDE DEF f
      <4> QED  BY <2>1, <4>1, <4>2, TotalZero
    <3>4. tests_passed \in Nat /\ tests_skipped \in Nat
      BY <2>1, Counters
    <3> QED  BY <2>4, <2>5, <3>2, <3>3, <3>4
  <2> QED  BY <2>2, <2>3, <2>4, <2>5, <2>6
<1> QED  BY <1>1, RInvHolds, PTL
=============================================================================
