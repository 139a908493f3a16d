--------------------------- MODULE YgmFoldProofs ---------------------------
(***************************************************************************)
(* Induction over the natural numbers, as a statement about sets; what     *)
(* Descent amounts to, in which the contents of the containers are stated; *)
(* and what FoldFunction(+, 0, f) does: the sum that all_reduce_sum()      *)
(* returns, and the totals that the invariants are about.                  *)
(***************************************************************************)
EXTENDS YgmLineage, Integers, FiniteSets, Functions, FiniteSetTheorems, SequenceTheorems, WellFoundedInduction, TLAPS

(* A set of natural numbers has a least element.                           *)
LEMMA LeastNat ==
  ASSUME NEW T, T \subseteq Nat, T # {}
  PROVE  \E n \in T : \A k \in T : n <= k
<1> DEFINE R == OpToRel(<, Nat)
<1>1. PICK x \in T : \A y \in T : ~(<<y, x>> \in R)
  BY NatLessThanWellFounded, WFMin
<1>2. ASSUME NEW y \in T PROVE x <= y
  <2>1. x \in Nat /\ y \in Nat
    OBVIOUS
  <2>2. y < x => <<y, x>> \in R
    BY <2>1, Zenon DEF OpToRel
  <2> HIDE DEF R
  <2>3. ~(y < x)
    BY <1>1, <2>2
  <2> QED
    BY <2>1, <2>3
<1> QED
  BY <1>2

(* Induction: a set that has 0 and the successor of each of its members has
   all natural numbers.                                                    *)
LEMMA SetInduction ==
  ASSUME NEW T, 0 \in T, \A n \in Nat : n \in T => n + 1 \in T
  PROVE  Nat \subseteq T
<1> SUFFICES ASSUME Nat \ T # {} PROVE FALSE
  OBVIOUS
<1>1. PICK n \in Nat \ T : \A k \in Nat \ T : n <= k
  BY LeastNat
<1>2. n # 0 /\ n - 1 \in Nat /\ n - 1 + 1 = n
  BY <1>1
<1>3. n - 1 \in T
  BY <1>1, <1>2
<1> QED
  BY <1>1, <1>2, <1>3

(* What is defined from one number to the next exists.                     *)
Follows(f, n, V, v, G) == /\ f \in [0 .. n -> V] /\ f[0] = v
                          /\ \A i \in 1 .. n : f[i] = G[i][f[i - 1]]

LEMMA Recursion ==
  ASSUME NEW n \in Nat, NEW V, NEW v \in V, NEW G \in [1 .. n -> [V -> V]]
  PROVE  \E f : Follows(f, n, V, v, G)
<1> DEFINE Solves(f, m) == /\ f \in [0 .. m -> V] /\ f[0] = v
                           /\ \A i \in 1 .. m : f[i] = G[i][f[i - 1]]
           T == {m \in Nat : m <= n => \E f : Solves(f, m)}
<1>1. 0 \in T
  <2>1. Solves([i \in 0 .. 0 |-> v], 0)
    OBVIOUS
  <2> QED
    BY <2>1
<1>2. ASSUME NEW m \in Nat, m \in T PROVE m + 1 \in T
  <2>1. ASSUME m + 1 <= n PROVE \E f : Solves(f, m + 1)
    <3>1. PICK f : Solves(f, m)
      BY <1>2, <2>1
    <3> DEFINE new == G[m + 1][f[m]]
               g == [i \in 0 .. m + 1 |-> IF i = m + 1 THEN new ELSE f[i]]
    <3>2. new \in V
      <4>1. f[m] \in V /\ m + 1 \in 1 .. n
        BY <2>1, <3>1
      <4> QED
        BY <4>1
    <3>3. g[m + 1] = new /\ \A i \in 0 .. m : g[i] = f[i]
      OBVIOUS
    <3>4. g \in [0 .. m + 1 -> V]
      <4>1. \A i \in 0 .. m : f[i] \in V
        BY <3>1
      <4> HIDE DEF new
      <4> QED
        BY <3>2, <4>1
    <3> HIDE DEF g
    <3>5. ASSUME NEW i \in 1 .. m + 1 PROVE g[i] = G[i][g[i - 1]]
      <4>1. CASE i = m + 1
        <5>1. i - 1 = m /\ m \in 0 .. m
          BY <4>1
        <5> QED
          BY <3>3, <4>1, <5>1
      <4>2. CASE i \in 1 .. m
        <5>1. i \in 0 .. m /\ i - 1 \in 0 .. m
          BY <4>2
        <5> QED
          BY <3>1, <3>3, <4>2, <5>1
      <4> QED
        BY <4>1, <4>2
    <3>6. g[0] = v
      BY <3>1, <3>3
    <3> QED
      BY <3>4, <3>5, <3>6
  <2> QED
    BY <2>1
<1>3. n \in T
  <2> HIDE DEF T
  <2> QED
    BY <1>1, <1>2, SetInduction
<1>4. PICK f : Solves(f, n)
  BY <1>3
<1> QED
  BY <1>4 DEF Follows
-----------------------------------------------------------------------------
(* The function that Descent chooses exists: it follows the moves.          *)
Moving(H, none, mv)       == Len(mv) \in Nat /\ mv \in [1 .. Len(mv) -> [H -> H \cup {none}]]
OriginsTo(H, e)           == [H -> SUBSET (H \X (0 .. e))]
Newborn(H)                == [h \in H |-> {<<h, 0>>}]
Inherit(H, none, L, v, e) == [h \in H |-> {<<h, e>>} \cup IF v[h] = none THEN {} ELSE L[v[h]]]

LEMMA InheritType ==
  ASSUME NEW H, NEW none, NEW v \in [H -> H \cup {none}], NEW e \in Nat, NEW d \in Nat, d <= e,
         NEW L \in OriginsTo(H, d)
  PROVE  Inherit(H, none, L, v, e) \in OriginsTo(H, e)
<1>1. ASSUME NEW h \in H
      PROVE  ({<<h, e>>} \cup IF v[h] = none THEN {} ELSE L[v[h]]) \subseteq H \X (0 .. e)
  <2>1. v[h] # none => v[h] \in H /\ L[v[h]] \subseteq H \X (0 .. d)
    BY DEF OriginsTo
  <2>2. H \X (0 .. d) \subseteq H \X (0 .. e) /\ <<h, e>> \in H \X (0 .. e)
    OBVIOUS
  <2> QED
    BY <2>1, <2>2
<1> QED
  BY <1>1 DEF Inherit, OriginsTo

IsDescent(L, H, none, mv) ==
  L = [e \in 0 .. Len(mv) |->
        IF e = 0 THEN [h \in H |-> {<<h, 0>>}]
        ELSE [h \in H |-> {<<h, e>>} \cup IF mv[e][h] = none THEN {} ELSE L[e - 1][mv[e][h]]]]

LEMMA DescentExists ==
  ASSUME NEW H, NEW none, NEW mv, Moving(H, none, mv)
  PROVE  IsDescent(Descent(H, none, mv), H, none, mv)
<1> DEFINE n == Len(mv)
           all == [H -> SUBSET (H \X Nat)]
           F == [i \in 1 .. n |-> [L \in all |-> Inherit(H, none, L, mv[i], i)]]
<1>1. n \in Nat /\ \A i \in 1 .. n : mv[i] \in [H -> H \cup {none}]
  BY DEF Moving
<1>2. Newborn(H) \in all
  BY DEF Newborn
<1>3. F \in [1 .. n -> [all -> all]]
  <2>1. ASSUME NEW i \in 1 .. n, NEW L \in all PROVE Inherit(H, none, L, mv[i], i) \in all
    <3>1. ASSUME NEW h \in H
          PROVE  ({<<h, i>>} \cup IF mv[i][h] = none THEN {} ELSE L[mv[i][h]]) \subseteq H \X Nat
      <4>1. mv[i][h] # none => mv[i][h] \in H /\ L[mv[i][h]] \subseteq H \X Nat
        BY <1>1
      <4>2. <<h, i>> \in H \X Nat
        BY <1>1
      <4> QED
        BY <4>1, <4>2
    <3> QED
      BY <3>1 DEF Inherit
  <2> QED
    BY <2>1
<1>4. \A L \in all, i \in 1 .. n : F[i][L] = Inherit(H, none, L, mv[i], i)
  OBVIOUS
<1> HIDE DEF F, n, all
<1>5. PICK f : Follows(f, n, all, Newborn(H), F)
  BY <1>1, <1>2, <1>3, Recursion
<1>6. ASSUME NEW i \in 1 .. n PROVE f[i] = Inherit(H, none, f[i - 1], mv[i], i)
  <2>1. i - 1 \in 0 .. n
    BY <1>1
  <2>2. f[i - 1] \in all /\ f[i] = F[i][f[i - 1]]
    BY <1>5, <2>1 DEF Follows
  <2> QED
    BY <1>4, <2>2
<1>7. IsDescent(f, H, none, mv)
  <2>1. f = [e \in 0 .. n |-> f[e]] /\ f[0] = Newborn(H)
    BY <1>5 DEF Follows
  <2>2. ASSUME NEW e \in 0 .. n
        PROVE  f[e] = IF e = 0 THEN [h \in H |-> {<<h, 0>>}]
                      ELSE [h \in H |-> {<<h, e>>} \cup IF mv[e][h] = none THEN {}
                                                      ELSE f[e - 1][mv[e][h]]]
    <3>1. CASE e = 0
      BY <2>1, <3>1 DEF Newborn
    <3>2. CASE e # 0
      <4>1. e \in 1 .. n
        BY <1>1, <3>2
      <4> QED
        BY <1>6, <3>2, <4>1 DEF Inherit
    <3> QED
      BY <3>1, <3>2
  <2> QED
    BY <2>1, <2>2 DEF IsDescent, n
<1> QED
  BY <1>7 DEF IsDescent, Descent

LEMMA DescentAt ==
  ASSUME NEW H, NEW none, NEW mv, Moving(H, none, mv)
  PROVE  /\ Descent(H, none, mv)[0] = Newborn(H)
         /\ \A e \in 1 .. Len(mv) : Descent(H, none, mv)[e] = Inherit(H, none, Descent(H, none, mv)[e - 1], mv[e], e)
<1> DEFINE L == Descent(H, none, mv)
<1>1. IsDescent(L, H, none, mv) /\ Len(mv) \in Nat
  BY DescentExists DEF Moving
<1> HIDE DEF L
<1>2. \A e \in 0 .. Len(mv) :
        L[e] = IF e = 0 THEN [h \in H |-> {<<h, 0>>}]
               ELSE [h \in H |-> {<<h, e>>} \cup IF mv[e][h] = none THEN {} ELSE L[e - 1][mv[e][h]]]
  BY <1>1 DEF IsDescent
<1>3. L[0] = Newborn(H)
  <2>1. 0 \in 0 .. Len(mv)
    BY <1>1
  <2>2. L[0] = [h \in H |-> {<<h, 0>>}]
    BY <1>2, <2>1
  <2> QED
    BY <2>2 DEF Newborn
<1>4. ASSUME NEW e \in 1 .. Len(mv) PROVE L[e] = Inherit(H, none, L[e - 1], mv[e], e)
  <2>1. e \in 0 .. Len(mv) /\ e # 0
    BY <1>1
  <2> QED
    BY <1>2, <2>1 DEF Inherit
<1> QED
  BY <1>3, <1>4 DEF L

(* It names no epoch that is still to come ...                             *)
LEMMA DescentAged ==
  ASSUME NEW H, NEW none, NEW mv, Moving(H, none, mv)
  PROVE  \A e \in 0 .. Len(mv) : Descent(H, none, mv)[e] \in OriginsTo(H, e)
<1> DEFINE L == Descent(H, none, mv)
           n == Len(mv)
           T == {e \in Nat : e <= n => L[e] \in OriginsTo(H, e)}
<1>1. /\ n \in Nat /\ L[0] = Newborn(H) /\ \A e \in 1 .. n : mv[e] \in [H -> H \cup {none}]
      /\ \A e \in 1 .. n : L[e] = Inherit(H, none, L[e - 1], mv[e], e)
  BY DescentAt DEF Moving
<1> HIDE DEF L, n
<1>2. 0 \in T
  BY <1>1 DEF Newborn, OriginsTo
<1>3. ASSUME NEW e \in Nat, e \in T PROVE e + 1 \in T
  <2>1. ASSUME e + 1 <= n PROVE L[e + 1] \in OriginsTo(H, e + 1)
    <3>1. e + 1 \in 1 .. n /\ e + 1 - 1 = e /\ L[e] \in OriginsTo(H, e) /\ e <= e + 1
      BY <1>1, <1>3, <2>1
    <3>2. PICK M, v : M = L[e] /\ v = mv[e + 1]
      OBVIOUS
    <3>3. L[e + 1] = Inherit(H, none, M, v, e + 1)
      BY <1>1, <3>1, <3>2
    <3>4. M \in OriginsTo(H, e) /\ v \in [H -> H \cup {none}]
      BY <1>1, <3>1, <3>2
    <3>5. Inherit(H, none, M, v, e + 1) \in OriginsTo(H, e + 1)
      BY <3>1, <3>4, InheritType
    <3> QED
      BY <3>3, <3>5
  <2> QED
    BY <2>1
<1> HIDE DEF T
<1>4. Nat \subseteq T
  BY <1>2, <1>3, SetInduction
<1>5. \A e \in 0 .. n : L[e] \in OriginsTo(H, e)
  BY <1>1, <1>4 DEF T
<1> QED
  BY <1>5 DEF L, n

(* ... and up to an epoch depends on the moves up to then only.             *)
LEMMA DescentKept ==
  ASSUME NEW H, NEW none, NEW mv, Moving(H, none, mv), NEW mw, Moving(H, none, mw),
         NEW n \in Nat, n <= Len(mv), n <= Len(mw), \A i \in 1 .. n : mv[i] = mw[i]
  PROVE  \A i \in 0 .. n : Descent(H, none, mv)[i] = Descent(H, none, mw)[i]
<1> DEFINE L == Descent(H, none, mv)
           M == Descent(H, none, mw)
           T == {i \in Nat : i <= n => L[i] = M[i]}
<1>1. /\ Len(mv) \in Nat /\ L[0] = Newborn(H)
      /\ \A e \in 1 .. Len(mv) : L[e] = Inherit(H, none, L[e - 1], mv[e], e)
  BY DescentAt DEF Moving
<1>2. /\ Len(mw) \in Nat /\ M[0] = Newborn(H)
      /\ \A e \in 1 .. Len(mw) : M[e] = Inherit(H, none, M[e - 1], mw[e], e)
  BY DescentAt DEF Moving
<1> HIDE DEF L, M
<1>3. 0 \in T
  BY <1>1, <1>2
<1>4. ASSUME NEW i \in Nat, i \in T PROVE i + 1 \in T
  <2>1. ASSUME i + 1 <= n PROVE L[i + 1] = M[i + 1]
    <3>1. /\ i + 1 \in 1 .. n /\ i + 1 \in 1 .. Len(mv) /\ i + 1 \in 1 .. Len(mw) /\ i + 1 - 1 = i
          /\ L[i] = M[i]
      BY <1>1, <1>2, <1>4, <2>1
    <3> QED
      BY <1>1, <1>2, <3>1
  <2> QED
    BY <2>1
<1> HIDE DEF T
<1>5. Nat \subseteq T
  BY <1>3, <1>4, SetInduction
<1>6. \A i \in 0 .. n : L[i] = M[i]
  BY <1>5 DEF T
<1> QED
  BY <1>6 DEF L, M

(* What is put in a holder during an epoch belongs in it, and nowhere else
   yet.                                                                    *)
LEMMA DescentOwn ==
  ASSUME NEW H, NEW none, NEW mv, Moving(H, none, mv), NEW e \in 0 .. Len(mv), NEW b \in H, NEW h \in H
  PROVE  <<b, e>> \in Descent(H, none, mv)[e][h] <=> h = b
<1> DEFINE L == Descent(H, none, mv)
<1>1. /\ Len(mv) \in Nat /\ L[0] = Newborn(H) /\ \A i \in 1 .. Len(mv) : mv[i] \in [H -> H \cup {none}]
      /\ \A i \in 1 .. Len(mv) : L[i] = Inherit(H, none, L[i - 1], mv[i], i)
  BY DescentAt DEF Moving
<1>2. \A i \in 0 .. Len(mv) : L[i] \in OriginsTo(H, i)
  BY DescentAged
<1> HIDE DEF L
<1>3. CASE e = 0
  BY <1>1, <1>3 DEF Newborn, L
<1>4. CASE e # 0
  <2>1. e \in 1 .. Len(mv) /\ e - 1 \in 0 .. Len(mv)
    BY <1>1, <1>4
  <2>2. PICK M, v : M = L[e - 1] /\ v = mv[e]
    OBVIOUS
  <2>3. M \in OriginsTo(H, e - 1) /\ v \in [H -> H \cup {none}]
    BY <1>1, <1>2, <2>1, <2>2
  <2>4. L[e][h] = {<<h, e>>} \cup IF v[h] = none THEN {} ELSE M[v[h]]
    <3>1. L[e] = Inherit(H, none, M, v, e)
      BY <1>1, <2>1, <2>2
    <3> QED
      BY <3>1 DEF Inherit
  <2>5. v[h] # none => M[v[h]] \subseteq H \X (0 .. e - 1)
    BY <2>3 DEF OriginsTo
  <2>6. <<b, e>> \notin H \X (0 .. e - 1)
    BY <2>1
  <2> QED
    BY <2>4, <2>5, <2>6 DEF L
<1> QED
  BY <1>3, <1>4
-----------------------------------------------------------------------------
SumOf(f) == FoldFunction(+, 0, f)

(* The recursion of the fold: its value at a subset of the domain, from that
   at a subset with an element less.                                       *)
Any(s)           == CHOOSE x \in s : TRUE
SumFrom(f, g, s) == IF s = {} THEN 0 ELSE f[Any(s)] + g[s \ {Any(s)}]
IsSums(g, f, S)  == g = [s \in SUBSET S |-> SumFrom(f, g, s)]
Sums(f, S)       == CHOOSE g : IsSums(g, f, S)

LEMMA SumIsSums ==
  ASSUME NEW f
  PROVE  SumOf(f) = Sums(f, DOMAIN f)[DOMAIN f]
BY DEF SumOf, FoldFunction, FoldFunctionOnSet, MapThenFoldSet, Sums, IsSums, SumFrom, Any

LEMMA AnyIn ==
  ASSUME NEW s, s # {}
  PROVE  Any(s) \in s
BY DEF Any

(* A subset with an element less is smaller.                               *)
LEMMA Smaller ==
  ASSUME NEW S, IsFiniteSet(S), NEW s \in SUBSET S, NEW x \in s
  PROVE  /\ s \ {x} \in SUBSET S /\ IsFiniteSet(s) /\ IsFiniteSet(s \ {x})
         /\ Cardinality(s) \in Nat /\ Cardinality(s \ {x}) \in Nat
         /\ Cardinality(s \ {x}) = Cardinality(s) - 1
<1>1. IsFiniteSet(s)
  BY FS_Subset
<1>2. Cardinality(s) \in Nat
  BY <1>1, FS_CardinalityType
<1>3. IsFiniteSet(s \ {x}) /\ Cardinality(s \ {x}) = Cardinality(s) - 1
  BY <1>1, FS_RemoveElement
<1>4. Cardinality(s \ {x}) \in Nat
  BY <1>3, FS_CardinalityType
<1> QED
  BY <1>1, <1>2, <1>3, <1>4

LEMMA Small ==
  ASSUME NEW S, IsFiniteSet(S), NEW s \in SUBSET S
  PROVE  /\ IsFiniteSet(s) /\ Cardinality(s) \in Nat
         /\ Cardinality(s) = 0 <=> s = {}
<1>1. IsFiniteSet(s)
  BY FS_Subset
<1> QED
  BY <1>1, FS_CardinalityType, FS_EmptySet

(* A property of the empty set that a finite set has when it has it
   whenever an element is taken out holds of all finite sets.              *)
LEMMA SubsetInduction ==
  ASSUME NEW S, IsFiniteSet(S), NEW T, {} \in T,
         \A s \in SUBSET S : s # {} /\ (\A x \in s : s \ {x} \in T) => s \in T
  PROVE  \A s \in SUBSET S : s \in T
<1> DEFINE N == {n \in Nat : \A s \in SUBSET S : Cardinality(s) = n => s \in T}
<1>1. 0 \in N
  BY Small
<1>2. ASSUME NEW n \in Nat, n \in N PROVE n + 1 \in N
  <2>1. ASSUME NEW s \in SUBSET S, Cardinality(s) = n + 1 PROVE s \in T
    <3>1. s # {}
      BY <2>1, Small
    <3>2. ASSUME NEW x \in s PROVE s \ {x} \in T
      <4>1. s \ {x} \in SUBSET S /\ Cardinality(s \ {x}) = Cardinality(s) - 1
        BY Smaller
      <4> QED
        BY <1>2, <2>1, <4>1
    <3> QED
      BY <3>1, <3>2
  <2> QED
    BY <2>1
<1>3. Nat \subseteq N
  <2> HIDE DEF N
  <2> QED
    BY <1>1, <1>2, SetInduction
<1>4. ASSUME NEW s \in SUBSET S PROVE s \in T
  <2>1. Cardinality(s) \in Nat
    BY Small
  <2> QED
    BY <1>3, <2>1
<1> QED
  BY <1>4

(* The recursion has a solution on the subsets of a finite set.            *)
LEMMA SumsExist ==
  ASSUME NEW S, IsFiniteSet(S), NEW f
  PROVE  IsSums(Sums(f, S), f, S)
<1> DEFINE Solves(g, n) == \A s \in SUBSET S : Cardinality(s) <= n => g[s] = SumFrom(f, g, s)
           T == {n \in Nat : \E g : Solves(g, n)}
<1>1. 0 \in T
  <2> DEFINE g == [s \in SUBSET S |-> 0]
  <2>1. ASSUME NEW s \in SUBSET S, Cardinality(s) <= 0 PROVE g[s] = SumFrom(f, g, s)
    <3>1. s = {}
      BY <2>1, Small
    <3> QED
      BY <3>1 DEF SumFrom
  <2> QED
    BY <2>1
<1>2. ASSUME NEW n \in Nat, n \in T PROVE n + 1 \in T
  <2>1. PICK g : Solves(g, n)
    BY <1>2
  <2> DEFINE h == [s \in SUBSET S |-> IF Cardinality(s) <= n THEN g[s] ELSE SumFrom(f, g, s)]
  <2>2. ASSUME NEW s \in SUBSET S, Cardinality(s) <= n + 1 PROVE h[s] = SumFrom(f, h, s)
    <3>1. h[s] = SumFrom(f, g, s)
      BY <2>1
    <3>2. CASE s = {}
      BY <3>1, <3>2 DEF SumFrom
    <3>3. CASE s # {}
      <4> DEFINE t == s \ {Any(s)}
      <4>1. t \in SUBSET S /\ Cardinality(t) <= n
        <5>1. Any(s) \in s
          BY <3>3, AnyIn
        <5>2. /\ t \in SUBSET S /\ Cardinality(s) \in Nat
              /\ Cardinality(t) = Cardinality(s) - 1
          BY <5>1, Smaller
        <5> QED
          BY <2>2, <5>2
      <4>2. h[t] = g[t]
        BY <4>1
      <4> QED
        BY <3>1, <3>3, <4>2 DEF SumFrom
    <3> QED
      BY <3>2, <3>3
  <2> HIDE DEF h
  <2>3. Solves(h, n + 1)
    BY <2>2
  <2> HIDE DEF Solves
  <2> QED
    BY <2>3
<1>3. Cardinality(S) \in T
  <2>1. Nat \subseteq T
    BY <1>1, <1>2, SetInduction
  <2> QED
    BY <2>1, FS_CardinalityType
<1>4. PICK g : Solves(g, Cardinality(S))
  BY <1>3
<1> DEFINE h == [s \in SUBSET S |-> g[s]]
<1>5. ASSUME NEW s \in SUBSET S PROVE h[s] = SumFrom(f, h, s)
  <2>1. g[s] = SumFrom(f, g, s)
    BY <1>4, FS_Subset
  <2>2. CASE s = {}
    BY <2>1, <2>2 DEF SumFrom
  <2>3. CASE s # {}
    <3>1. h[s \ {Any(s)}] = g[s \ {Any(s)}]
      OBVIOUS
    <3> QED
      BY <2>1, <2>3, <3>1 DEF SumFrom
  <2> QED
    BY <2>2, <2>3
<1>6. IsSums(h, f, S)
  BY <1>5 DEF IsSums
<1> QED
  BY <1>6 DEF Sums
(* What the recursion says at a subset.                                    *)
LEMMA SumsAt ==
  ASSUME NEW S, IsFiniteSet(S), NEW f, NEW s \in SUBSET S
  PROVE  /\ s = {} => Sums(f, S)[s] = 0
         /\ s # {} => /\ Any(s) \in s /\ s \ {Any(s)} \in SUBSET S
                      /\ Sums(f, S)[s] = f[Any(s)] + Sums(f, S)[s \ {Any(s)}]
<1>1. Sums(f, S) = [t \in SUBSET S |-> SumFrom(f, Sums(f, S), t)]
  BY SumsExist DEF IsSums
<1>2. Sums(f, S)[s] = SumFrom(f, Sums(f, S), s)
  BY <1>1
<1>3. s # {} => Any(s) \in s
  BY AnyIn
<1> QED
  BY <1>2, <1>3 DEF SumFrom

(* The sum over a set depends only on the values there.                    *)
LEMMA SumsAgree ==
  ASSUME NEW S, IsFiniteSet(S), NEW f, NEW U, IsFiniteSet(U), NEW g,
         NEW s, s \subseteq S, s \subseteq U, \A x \in s : f[x] = g[x]
  PROVE  Sums(f, S)[s] = Sums(g, U)[s]
<1> DEFINE F == Sums(f, S)
           G == Sums(g, U)
           T == {t \in SUBSET s : F[t] = G[t]}
<1>1. ASSUME NEW t \in SUBSET s
      PROVE  /\ t = {} => F[t] = 0 /\ G[t] = 0
             /\ t # {} => /\ Any(t) \in t
                          /\ F[t] = f[Any(t)] + F[t \ {Any(t)}]
                          /\ G[t] = g[Any(t)] + G[t \ {Any(t)}]
  <2>1. t \in SUBSET S /\ t \in SUBSET U
    OBVIOUS
  <2>2. /\ t = {} => F[t] = 0
        /\ t # {} => Any(t) \in t /\ F[t] = f[Any(t)] + F[t \ {Any(t)}]
    BY <2>1, SumsAt
  <2>3. /\ t = {} => G[t] = 0
        /\ t # {} => G[t] = g[Any(t)] + G[t \ {Any(t)}]
    BY <2>1, SumsAt
  <2> QED
    BY <2>2, <2>3
<1> HIDE DEF F, G
<1>2. {} \in T
  BY <1>1
<1>3. ASSUME NEW t \in SUBSET s, t # {}, \A x \in t : t \ {x} \in T PROVE t \in T
  <2>1. CASE t # {}
    <3>1. Any(t) \in t /\ t \ {Any(t)} \in T /\ f[Any(t)] = g[Any(t)]
      BY <1>1, <1>3
    <3>2. F[t \ {Any(t)}] = G[t \ {Any(t)}]
      BY <3>1
    <3> QED
      BY <1>1, <1>3, <3>1, <3>2
  <2> QED
    BY <1>3, <2>1
<1>4. IsFiniteSet(s)
  BY FS_Subset
<1> HIDE DEF T
<1>5. \A t \in SUBSET s : t \in T
  BY <1>2, <1>3, <1>4, SubsetInduction
<1> QED
  BY <1>5 DEF T, F, G

LEMMA SumsType ==
  ASSUME NEW S, IsFiniteSet(S), NEW f \in [S -> Int], NEW s \in SUBSET S
  PROVE  Sums(f, S)[s] \in Int
<1> DEFINE F == Sums(f, S)
           T == {t \in SUBSET S : F[t] \in Int}
<1>1. ASSUME NEW t \in SUBSET S
      PROVE  /\ t = {} => F[t] = 0
             /\ t # {} => /\ Any(t) \in t
                          /\ F[t] = f[Any(t)] + F[t \ {Any(t)}]
  BY SumsAt
<1> HIDE DEF F
<1>2. {} \in T
  <2>1. F[{}] = 0
    BY <1>1
  <2> QED
    BY <2>1
<1>3. ASSUME NEW t \in SUBSET S, t # {}, \A x \in t : t \ {x} \in T PROVE t \in T
  <2>0. Any(t) \in t
    BY <1>1, <1>3
  <2>1. F[t \ {Any(t)}] \in Int /\ f[Any(t)] \in Int
    BY <1>3, <2>0
  <2>2. F[t] = f[Any(t)] + F[t \ {Any(t)}]
    BY <1>1, <1>3
  <2>3. F[t] \in Int
    BY <2>1, <2>2
  <2> QED
    BY <2>3
<1> HIDE DEF T
<1>4. s \in T
  BY <1>2, <1>3, SubsetInduction
<1> QED
  BY <1>4 DEF T, F

(* Any element may be taken out first.                                     *)
LEMMA SumsSplit ==
  ASSUME NEW S, IsFiniteSet(S), NEW f \in [S -> Int], NEW s \in SUBSET S, NEW x \in s
  PROVE  Sums(f, S)[s] = f[x] + Sums(f, S)[s \ {x}]
<1> DEFINE F == Sums(f, S)
           T == {t \in SUBSET S : \A y \in t : F[t] = f[y] + F[t \ {y}]}
<1>1. ASSUME NEW t \in SUBSET S
      PROVE  F[t] \in Int /\ (t # {} => Any(t) \in t /\ F[t] = f[Any(t)] + F[t \ {Any(t)}])
  BY SumsAt, SumsType
<1> HIDE DEF F
<1>2. {} \in T
  OBVIOUS
<1>3. ASSUME NEW t \in SUBSET S, t # {}, \A y \in t : t \ {y} \in T PROVE t \in T
  <2>1. ASSUME NEW y \in t PROVE F[t] = f[y] + F[t \ {y}]
    <3> DEFINE a == Any(t)
    <3>1. a \in t /\ F[t] = f[a] + F[t \ {a}]
      BY <1>1, <1>3
    <3> HIDE DEF a
    <3>2. CASE y = a
      BY <3>1, <3>2
    <3>3. CASE y # a
      <4>1. F[t \ {a}] = f[y] + F[(t \ {a}) \ {y}]
        BY <1>3, <3>1, <3>3
      <4>2. F[t \ {y}] = f[a] + F[(t \ {y}) \ {a}]
        BY <1>3, <3>1, <3>3
      <4>3. (t \ {a}) \ {y} = (t \ {y}) \ {a}
        OBVIOUS
      <4>4. f[a] \in Int /\ f[y] \in Int
        BY <3>1
      <4>5. F[(t \ {a}) \ {y}] \in Int
        <5>1. (t \ {a}) \ {y} \in SUBSET S
          OBVIOUS
        <5> QED
          BY <1>1, <5>1
      <4> QED
        <5>1. PICK c \in Int : c = F[(t \ {a}) \ {y}]
          BY <4>5
        <5>2. F[t \ {a}] = f[y] + c
          BY <4>1, <5>1
        <5>3. F[t \ {y}] = f[a] + c
          BY <4>2, <4>3, <5>1
        <5> QED
          BY <3>1, <4>4, <5>1, <5>2, <5>3
    <3> QED
      BY <3>2, <3>3
  <2> QED
    BY <2>1
<1>4. s \in T
  <2> HIDE DEF T
  <2> QED
    BY <1>2, <1>3, SubsetInduction
<1> QED
  BY <1>4 DEF T, F
-----------------------------------------------------------------------------
(* The same of FoldFunction.                                               *)
LEMMA SumType ==
  ASSUME NEW S, IsFiniteSet(S), NEW f \in [S -> Int]
  PROVE  SumOf(f) \in Int
<1>1. SumOf(f) = Sums(f, S)[S]
  BY SumIsSums
<1> QED
  BY <1>1, SumsType

LEMMA SumSplit ==
  ASSUME NEW S, IsFiniteSet(S), NEW f \in [S -> Int], NEW x \in S
  PROVE  /\ SumOf([y \in S \ {x} |-> f[y]]) \in Int
         /\ SumOf(f) = f[x] + SumOf([y \in S \ {x} |-> f[y]])
<1> DEFINE U == S \ {x}
           g == [y \in U |-> f[y]]
<1>1. IsFiniteSet(U) /\ g \in [U -> Int]
  BY FS_Subset
<1>2. SumOf(f) = Sums(f, S)[S] /\ SumOf(g) = Sums(g, U)[U]
  BY SumIsSums
<1>3. Sums(f, S)[U] = Sums(g, U)[U]
  <2>1. U \subseteq S /\ U \subseteq U /\ \A y \in U : f[y] = g[y]
    OBVIOUS
  <2> HIDE DEF U, g
  <2> QED
    BY <1>1, <2>1, SumsAgree
<1>4. Sums(f, S)[S] = f[x] + Sums(f, S)[U]
  BY SumsSplit
<1>5. SumOf(g) \in Int
  BY <1>1, SumType
<1>6. SumOf(f) = f[x] + SumOf(g)
  BY <1>2, <1>3, <1>4
<1> QED
  BY <1>5, <1>6

LEMMA SumEmpty ==
  ASSUME NEW f, DOMAIN f = {}
  PROVE  SumOf(f) = 0
<1>1. SumOf(f) = Sums(f, {})[{}]
  BY SumIsSums
<1> QED
  BY <1>1, SumsAt, FS_EmptySet

(* One value of the function changes.                                      *)
Differ(f, g, S, x) == /\ f \in [S -> Int] /\ g \in [S -> Int] /\ x \in S
                      /\ \A y \in S \ {x} : g[y] = f[y]

LEMMA SumUpdate ==
  ASSUME NEW S, IsFiniteSet(S), NEW f, NEW g, NEW x, Differ(f, g, S, x)
  PROVE  SumOf(g) = SumOf(f) - f[x] + g[x]
<1> USE DEF Differ
<1> DEFINE h == [y \in S \ {x} |-> f[y]]
<1>1. h = [y \in S \ {x} |-> g[y]]
  OBVIOUS
<1>2. SumOf(h) \in Int /\ SumOf(f) = f[x] + SumOf(h)
  BY SumSplit
<1>3. SumOf(g) = g[x] + SumOf(h)
  <2>1. SumOf(g) = g[x] + SumOf([y \in S \ {x} |-> g[y]])
    BY SumSplit
  <2> QED
    BY <1>1, <2>1
<1>4. f[x] \in Int /\ g[x] \in Int
  OBVIOUS
<1> HIDE DEF h
<1> QED
  BY <1>2, <1>3, <1>4

(* A value more.                                                           *)
Extends(f, g, S, x) == /\ f \in [S -> Int] /\ x \notin S /\ g \in [S \cup {x} -> Int]
                       /\ \A y \in S : g[y] = f[y]

LEMMA SumExtend ==
  ASSUME NEW S, IsFiniteSet(S), NEW f, NEW g, NEW x, Extends(f, g, S, x)
  PROVE  SumOf(g) = SumOf(f) + g[x]
<1> USE DEF Extends
<1> DEFINE U == S \cup {x}
<1>1. IsFiniteSet(U) /\ x \in U /\ U \ {x} = S
  BY FS_AddElement
<1>2. [y \in U \ {x} |-> g[y]] = f
  BY <1>1
<1>3. SumOf(g) = g[x] + SumOf([y \in U \ {x} |-> g[y]])
  BY <1>1, SumSplit
<1>4. SumOf(f) \in Int /\ g[x] \in Int
  BY <1>1, SumType
<1> QED
  BY <1>2, <1>3, <1>4

LEMMA SumZero ==
  ASSUME NEW S, IsFiniteSet(S), NEW f \in [S -> Int], \A x \in S : f[x] = 0
  PROVE  SumOf(f) = 0
<1> DEFINE F == Sums(f, S)
           T == {t \in SUBSET S : F[t] = 0}
<1>1. ASSUME NEW t \in SUBSET S
      PROVE  /\ t = {} => F[t] = 0
             /\ t # {} => /\ Any(t) \in t
                          /\ F[t] = f[Any(t)] + F[t \ {Any(t)}]
  <2>1. t = {} => Sums(f, S)[t] = 0
    BY SumsAt
  <2>2. t # {} => Any(t) \in t /\ Sums(f, S)[t] = f[Any(t)] + Sums(f, S)[t \ {Any(t)}]
    BY SumsAt
  <2> QED
    BY <2>1, <2>2
<1>2. SumOf(f) = F[S]
  BY SumIsSums
<1> HIDE DEF F
<1>3. {} \in T
  BY <1>1
<1>4. ASSUME NEW t \in SUBSET S, t # {}, \A x \in t : t \ {x} \in T PROVE t \in T
  <2>1. Any(t) \in t /\ F[t] = f[Any(t)] + F[t \ {Any(t)}]
    BY <1>1, <1>4
  <2>2. f[Any(t)] = 0 /\ F[t \ {Any(t)}] = 0
    BY <1>4, <2>1
  <2> QED
    BY <2>1, <2>2
<1> HIDE DEF T
<1>5. S \in T
  BY <1>3, <1>4, SubsetInduction
<1> QED
  BY <1>2, <1>5 DEF T

LEMMA SumNat ==
  ASSUME NEW S, IsFiniteSet(S), NEW f \in [S -> Nat]
  PROVE  SumOf(f) \in Nat
<1> DEFINE F == Sums(f, S)
           T == {t \in SUBSET S : F[t] \in Nat}
<1>1. ASSUME NEW t \in SUBSET S
      PROVE  /\ t = {} => F[t] = 0
             /\ t # {} => /\ Any(t) \in t
                          /\ F[t] = f[Any(t)] + F[t \ {Any(t)}]
  BY SumsAt
<1>2. SumOf(f) = F[S]
  BY SumIsSums
<1> HIDE DEF F
<1>3. {} \in T
  <2>1. F[{}] = 0
    BY <1>1
  <2> QED
    BY <2>1
<1>4. ASSUME NEW t \in SUBSET S, t # {}, \A x \in t : t \ {x} \in T PROVE t \in T
  <2>1. Any(t) \in t /\ F[t] = f[Any(t)] + F[t \ {Any(t)}]
    BY <1>1, <1>4
  <2>2. F[t \ {Any(t)}] \in Nat /\ f[Any(t)] \in Nat
    BY <1>4, <2>1
  <2>3. F[t] \in Nat
    BY <2>1, <2>2
  <2> QED
    BY <2>3
<1> HIDE DEF T
<1>5. S \in T
  BY <1>3, <1>4, SubsetInduction
<1> QED
  BY <1>2, <1>5 DEF T

(* A function that is zero but at one place.                               *)
LEMMA SumAlone ==
  ASSUME NEW S, IsFiniteSet(S), NEW f \in [S -> Int], NEW x \in S, \A y \in S \ {x} : f[y] = 0
  PROVE  SumOf(f) = f[x]
<1> DEFINE h == [y \in S \ {x} |-> f[y]]
<1>1. SumOf(f) = f[x] + SumOf(h)
  BY SumSplit
<1>2. SumOf(h) = 0
  <2>1. IsFiniteSet(S \ {x}) /\ h \in [S \ {x} -> Int] /\ \A y \in S \ {x} : h[y] = 0
    BY FS_Subset
  <2> HIDE DEF h
  <2> QED
    BY <2>1, SumZero
<1>3. f[x] \in Int
  OBVIOUS
<1> HIDE DEF h
<1> QED
  BY <1>1, <1>2, <1>3

LEMMA SumOne ==
  ASSUME NEW x, NEW f \in [{x} -> Int]
  PROVE  SumOf(f) = f[x]
<1>1. IsFiniteSet({x}) /\ x \in {x} /\ \A y \in {x} \ {x} : f[y] = 0
  BY FS_Singleton
<1> QED
  BY <1>1, SumAlone
=============================================================================
