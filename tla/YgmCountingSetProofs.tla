------------------------ MODULE YgmCountingSetProofs ------------------------
(***************************************************************************)
(* Theorems about YgmCountingSet, for every number of ranks, keys, slots,  *)
(* insertions and barriers, and any largest cached count: increments are   *)
(* conserved on their way to the map, and count() returns the insertions   *)
(* of all ranks.                                                           *)
(***************************************************************************)
EXTENDS YgmCountingSet, SequenceTheorems, YgmFoldProofs

SetIInv == SetInv /\ CountsConserved /\ CountExact

Counts  == [Key -> Nat]
Ending  == [before : Counts, counts : Counts, file : Counts]
AddCall == [kind : {"add"}, key : Key, n : Nat]
-----------------------------------------------------------------------------
(* What the map amounts to at the end of each epoch: the function that
   DueOf chooses exists, and is determined by what it is computed from.    *)
LEMMA AfterType ==
  ASSUME NEW d \in Ending, NEW c, NEW ins \in Counts
  PROVE  /\ After(d, c, ins) \in Ending
         /\ \A k \in Key : After(d, c, ins).before[k] = d.counts[k] + ins[k]
         /\ c = "clear" => After(d, c, ins).counts = Nothing
         /\ c = "load" => After(d, c, ins).counts = d.file
         /\ c \notin {"clear", "load"} => After(d, c, ins).counts = After(d, c, ins).before
         /\ After(d, c, ins).file = IF c = "save" THEN After(d, c, ins).before ELSE d.file
<1> DEFINE all == [k \in Key |-> d.counts[k] + ins[k]]
<1>1. d.counts \in Counts /\ d.file \in Counts /\ Nothing \in Counts
  BY DEF Ending, Counts, Nothing
<1>2. all \in Counts /\ \A k \in Key : all[k] = d.counts[k] + ins[k]
  BY <1>1 DEF Counts
<1>3. After(d, c, ins) =
        [before |-> all,
         counts |-> CASE c = "clear" -> Nothing [] c = "load" -> d.file [] OTHER -> all,
         file   |-> IF c = "save" THEN all ELSE d.file]
  BY DEF After
<1> HIDE DEF all
<1> QED
  BY <1>1, <1>2, <1>3 DEF Ending

IsDue(d, p, ins) ==
  d = [e \in 0 .. Len(p) |-> IF e = 0 THEN Start ELSE After(d[e - 1], p[e], ins[e - 1])]

LEMMA DueExists ==
  ASSUME NEW p \in Seq(Colls), Len(p) <= MaxEpoch, NEW ins \in [0 .. MaxEpoch -> Counts]
  PROVE  /\ IsDue(DueOf(p, ins), p, ins)
         /\ DueOf(p, ins) \in [0 .. Len(p) -> Ending]
<1> DEFINE n == Len(p)
           G == [i \in 1 .. n |-> [d \in Ending |-> After(d, p[i], ins[i - 1])]]
<1>1. n \in Nat /\ MaxEpoch \in Nat
  BY SlotAssumption
<1>2. Start \in Ending
  BY DEF Start, Ending, Counts, Nothing
<1>3. ASSUME NEW i \in 1 .. n PROVE ins[i - 1] \in Counts
  BY <1>1
<1>4. G \in [1 .. n -> [Ending -> Ending]]
  <2>1. ASSUME NEW i \in 1 .. n, NEW d \in Ending PROVE After(d, p[i], ins[i - 1]) \in Ending
    BY <1>3, AfterType
  <2> QED
    BY <2>1
<1>5. \A d \in Ending, i \in 1 .. n : G[i][d] = After(d, p[i], ins[i - 1])
  OBVIOUS
<1> HIDE DEF G, n
<1>6. PICK f : Follows(f, n, Ending, Start, G)
  BY <1>1, <1>2, <1>4, Recursion
<1>7. ASSUME NEW i \in 1 .. n PROVE f[i] = After(f[i - 1], p[i], ins[i - 1])
  <2>1. i - 1 \in 0 .. n
    BY <1>1
  <2>2. f[i - 1] \in Ending /\ f[i] = G[i][f[i - 1]]
    BY <1>6, <2>1 DEF Follows
  <2> QED
    BY <1>5, <2>2
<1>8. IsDue(f, p, ins)
  <2>1. f = [e \in 0 .. n |-> f[e]] /\ f[0] = Start
    BY <1>6 DEF Follows
  <2>2. ASSUME NEW e \in 0 .. n
        PROVE  f[e] = IF e = 0 THEN Start ELSE After(f[e - 1], p[e], ins[e - 1])
    <3>1. e # 0 => e \in 1 .. n
      BY <1>1
    <3> QED
      BY <1>7, <2>1, <3>1
  <2> QED
    BY <2>1, <2>2 DEF IsDue, n
<1>9. IsDue(DueOf(p, ins), p, ins)
  BY <1>8 DEF IsDue, DueOf
<1>10. ASSUME NEW D, IsDue(D, p, ins) PROVE D \in [0 .. n -> Ending]
  <2> DEFINE T == {e \in Nat : e <= n => D[e] \in Ending}
  <2>1. D = [e \in 0 .. n |-> D[e]]
    BY <1>10 DEF IsDue, n
  <2>2. D[0] = Start /\ \A e \in 1 .. n : D[e] = After(D[e - 1], p[e], ins[e - 1])
    <3>1. \A e \in 0 .. n : D[e] = IF e = 0 THEN Start ELSE After(D[e - 1], p[e], ins[e - 1])
      BY <1>10 DEF IsDue, n
    <3>2. 0 \in 0 .. n /\ \A e \in 1 .. n : e \in 0 .. n /\ e # 0
      BY <1>1
    <3> QED
      BY <3>1, <3>2
  <2>3. 0 \in T
    BY <1>2, <2>2
  <2>4. ASSUME NEW e \in Nat, e \in T PROVE e + 1 \in T
    <3>1. ASSUME e + 1 <= n PROVE D[e + 1] \in Ending
      <4>1. e + 1 \in 1 .. n /\ e + 1 - 1 = e /\ D[e] \in Ending
        BY <1>1, <2>4, <3>1
      <4>2. D[e + 1] = After(D[e], p[e + 1], ins[e])
        BY <2>2, <4>1
      <4>3. ins[e] \in Counts
        BY <1>3, <4>1
      <4> QED
        BY <4>1, <4>2, <4>3, AfterType
    <3> QED
      BY <3>1
  <2> HIDE DEF T
  <2>5. Nat \subseteq T
    BY <2>3, <2>4, SetInduction
  <2>6. \A e \in 0 .. n : D[e] \in Ending
    BY <1>1, <2>5 DEF T
  <2> QED
    BY <2>1, <2>6
<1> QED
  BY <1>9, <1>10 DEF n

LEMMA DueAt ==
  ASSUME NEW p \in Seq(Colls), Len(p) <= MaxEpoch, NEW ins \in [0 .. MaxEpoch -> Counts]
  PROVE  /\ DueOf(p, ins)[0] = Start
         /\ \A e \in 1 .. Len(p) : DueOf(p, ins)[e] = After(DueOf(p, ins)[e - 1], p[e], ins[e - 1])
         /\ \A e \in 0 .. Len(p) : DueOf(p, ins)[e] \in Ending
<1> DEFINE D == DueOf(p, ins)
<1>1. IsDue(D, p, ins) /\ D \in [0 .. Len(p) -> Ending] /\ Len(p) \in Nat
  BY DueExists
<1> HIDE DEF D
<1>2. \A e \in 0 .. Len(p) : D[e] = IF e = 0 THEN Start ELSE After(D[e - 1], p[e], ins[e - 1])
  BY <1>1 DEF IsDue
<1>3. 0 \in 0 .. Len(p) /\ \A e \in 1 .. Len(p) : e \in 0 .. Len(p) /\ e # 0
  BY <1>1
<1>4. D[0] = Start /\ \A e \in 1 .. Len(p) : D[e] = After(D[e - 1], p[e], ins[e - 1])
  BY <1>2, <1>3
<1>5. \A e \in 0 .. Len(p) : D[e] \in Ending
  BY <1>1
<1> QED
  BY <1>4, <1>5 DEF D

LEMMA DueKept ==
  ASSUME NEW p \in Seq(Colls), Len(p) <= MaxEpoch, NEW ins \in [0 .. MaxEpoch -> Counts],
         NEW q \in Seq(Colls), Len(q) <= MaxEpoch, NEW jns \in [0 .. MaxEpoch -> Counts],
         NEW n \in Nat, n <= Len(p), n <= Len(q),
         \A i \in 1 .. n : p[i] = q[i] /\ ins[i - 1] = jns[i - 1]
  PROVE  \A i \in 0 .. n : DueOf(p, ins)[i] = DueOf(q, jns)[i]
<1> DEFINE D == DueOf(p, ins)
           E == DueOf(q, jns)
           T == {i \in Nat : i <= n => D[i] = E[i]}
<1>1. /\ D[0] = Start
      /\ \A e \in 1 .. Len(p) : D[e] = After(D[e - 1], p[e], ins[e - 1])
  BY DueAt
<1>2. /\ E[0] = Start
      /\ \A e \in 1 .. Len(q) : E[e] = After(E[e - 1], q[e], jns[e - 1])
  BY DueAt
<1> HIDE DEF D, E
<1>3. 0 \in T
  BY <1>1, <1>2
<1>4. ASSUME NEW i \in Nat, i \in T PROVE i + 1 \in T
  <2>1. ASSUME i + 1 <= n PROVE D[i + 1] = E[i + 1]
    <3>1. i + 1 \in 1 .. n /\ i + 1 \in 1 .. Len(p) /\ i + 1 \in 1 .. Len(q) /\ i + 1 - 1 = i /\ D[i] = E[i]
      BY <1>4, <2>1
    <3>2. D[i + 1] = After(D[i], p[i + 1], ins[i]) /\ E[i + 1] = After(E[i], q[i + 1], jns[i])
      BY <1>1, <1>2, <3>1
    <3>3. p[i + 1] = q[i + 1] /\ ins[i] = jns[i]
      BY <3>1
    <3> QED
      BY <3>1, <3>2, <3>3
  <2> QED
    BY <2>1
<1> HIDE DEF T
<1>5. Nat \subseteq T
  BY <1>3, <1>4, SetInduction
<1>6. \A i \in 0 .. n : D[i] = E[i]
  BY <1>5 DEF T
<1> QED
  BY <1>6 DEF D, E
-----------------------------------------------------------------------------
(* The sums: insertions since an epoch, increments on their way to their
   owner, as functions of what they are computed from.                     *)
TailOf(ins, k, e)   == FoldFunction(+, 0, [f \in e .. MaxEpoch |-> ins[f][k]])
Carried(P, cl, k)   == {c \in P : cl[c.id].kind = "add" /\ cl[c.id].key = k}
CarriedOf(P, cl, k) == FoldFunction(+, 0, [m \in Carried(P, cl, k) |-> cl[m.id].n])

Summed == /\ \A k, e : Since(k, e) = TailOf(inserted, k, e)
          /\ \A k : Sending(k) = CarriedOf(Pending, calls, k)

LEMMA SumsAre == Summed
BY DEF Summed, Since, TailOf, Sending, CarriedOf, Carried

LEMMA TailFacts ==
  ASSUME NEW ins \in [0 .. MaxEpoch -> Counts], NEW k \in Key, NEW e \in Nat
  PROVE  /\ IsFiniteSet(e .. MaxEpoch)
         /\ [f \in e .. MaxEpoch |-> ins[f][k]] \in [e .. MaxEpoch -> Int]
<1>1. MaxEpoch \in Nat
  BY SlotAssumption
<1>2. ASSUME NEW f \in e .. MaxEpoch PROVE ins[f][k] \in Int
  <2>1. f \in 0 .. MaxEpoch
    BY <1>1
  <2> QED
    BY <2>1 DEF Counts
<1>3. IsFiniteSet(e .. MaxEpoch)
  BY <1>1, FS_Interval
<1> QED
  BY <1>2, <1>3

LEMMA TailType ==
  ASSUME NEW ins \in [0 .. MaxEpoch -> Counts], NEW k \in Key, NEW e \in Nat
  PROVE  TailOf(ins, k, e) \in Int
<1> DEFINE v == [f \in e .. MaxEpoch |-> ins[f][k]]
<1>1. IsFiniteSet(e .. MaxEpoch) /\ v \in [e .. MaxEpoch -> Int]
  BY TailFacts
<1>2. TailOf(ins, k, e) = SumOf(v)
  BY DEF TailOf, SumOf
<1> HIDE DEF v
<1> QED
  BY <1>1, <1>2, SumType

LEMMA TailSplit ==
  ASSUME NEW ins \in [0 .. MaxEpoch -> Counts], NEW k \in Key, NEW e \in 0 .. MaxEpoch
  PROVE  TailOf(ins, k, e) = ins[e][k] + TailOf(ins, k, e + 1)
<1> DEFINE v == [f \in e .. MaxEpoch |-> ins[f][k]]
           w == [f \in (e .. MaxEpoch) \ {e} |-> v[f]]
<1>1. MaxEpoch \in Nat /\ e \in Nat /\ e \in e .. MaxEpoch
  BY SlotAssumption
<1>2. (e .. MaxEpoch) \ {e} = (e + 1) .. MaxEpoch
  BY <1>1
<1>3. w = [f \in (e + 1) .. MaxEpoch |-> ins[f][k]]
  BY <1>1, <1>2
<1>4. TailOf(ins, k, e) = SumOf(v) /\ TailOf(ins, k, e + 1) = SumOf(w) /\ v[e] = ins[e][k]
  BY <1>1, <1>3 DEF TailOf, SumOf
<1>5. IsFiniteSet(e .. MaxEpoch) /\ v \in [e .. MaxEpoch -> Int]
  BY <1>1, TailFacts
<1>6. SumOf(v) = v[e] + SumOf(w)
  <2>1. PICK S : S = e .. MaxEpoch
    OBVIOUS
  <2>2. IsFiniteSet(S) /\ v \in [S -> Int] /\ e \in S
    BY <1>1, <1>5, <2>1
  <2>3. w = [y \in S \ {e} |-> v[y]]
    BY <2>1
  <2> HIDE DEF v, w
  <2>4. SumOf(v) = v[e] + SumOf([y \in S \ {e} |-> v[y]])
    BY <2>2, SumSplit, ZenonT(60)
  <2> QED
    BY <2>3, <2>4
<1> HIDE DEF v, w
<1> QED
  BY <1>4, <1>6

LEMMA TailZero ==
  ASSUME NEW ins \in [0 .. MaxEpoch -> Counts], NEW k \in Key, NEW e \in Nat,
         \A f \in e .. MaxEpoch : ins[f] = Nothing
  PROVE  TailOf(ins, k, e) = 0
<1> DEFINE v == [f \in e .. MaxEpoch |-> ins[f][k]]
<1>1. IsFiniteSet(e .. MaxEpoch) /\ v \in [e .. MaxEpoch -> Int]
  BY TailFacts
<1>2. TailOf(ins, k, e) = SumOf(v)
  BY DEF TailOf, SumOf
<1>3. \A f \in e .. MaxEpoch : v[f] = 0
  BY DEF Nothing
<1> HIDE DEF v
<1> QED
  BY <1>1, <1>2, <1>3, SumZero

(* x more in one epoch are x more since any earlier one.                   *)
LEMMA TailMore ==
  ASSUME NEW ins \in [0 .. MaxEpoch -> Counts], NEW jns \in [0 .. MaxEpoch -> Counts],
         NEW k \in Key, NEW e \in Nat, NEW F \in 0 .. MaxEpoch, e <= F, NEW x \in Nat,
         \A f \in 0 .. MaxEpoch : jns[f][k] = ins[f][k] + (IF f = F THEN x ELSE 0)
  PROVE  TailOf(jns, k, e) = TailOf(ins, k, e) + x
<1> DEFINE v == [f \in e .. MaxEpoch |-> ins[f][k]]
           w == [f \in e .. MaxEpoch |-> jns[f][k]]
<1>1. MaxEpoch \in Nat /\ F \in e .. MaxEpoch /\ e .. MaxEpoch \subseteq 0 .. MaxEpoch
  BY SlotAssumption
<1>2. IsFiniteSet(e .. MaxEpoch) /\ v \in [e .. MaxEpoch -> Int] /\ w \in [e .. MaxEpoch -> Int]
  BY TailFacts
<1>3. TailOf(ins, k, e) = SumOf(v) /\ TailOf(jns, k, e) = SumOf(w)
  BY DEF TailOf, SumOf
<1>4. \A f \in (e .. MaxEpoch) \ {F} : w[f] = v[f]
  <2>1. ASSUME NEW f \in (e .. MaxEpoch) \ {F} PROVE jns[f][k] = ins[f][k]
    <3>1. f \in 0 .. MaxEpoch /\ f # F
      BY <1>1
    <3>2. ins[f][k] \in Nat
      BY <3>1 DEF Counts
    <3> QED
      BY <3>1, <3>2
  <2> QED
    BY <2>1
<1>5. w[F] = v[F] + x /\ v[F] \in Int
  <2>1. ins[F][k] \in Nat
    BY DEF Counts
  <2> QED
    BY <1>1, <2>1
<1> DEFINE I == e .. MaxEpoch
<1>6. SumOf(w) = SumOf(v) - v[F] + w[F]
  <2>1. IsFiniteSet(I) /\ Differ(v, w, I, F)
    BY <1>1, <1>2, <1>4 DEF Differ
  <2> HIDE DEF v, w, I
  <2> QED
    BY <2>1, SumUpdate
<1> HIDE DEF v, w
<1>7. SumOf(v) \in Int
  BY <1>2, SumType
<1> QED
  BY <1>3, <1>5, <1>6, <1>7

LEMMA CarriedFacts ==
  ASSUME NEW P, IsFiniteSet(P), NEW cl \in Seq(AddCall), \A m \in P : m.id \in DOMAIN cl, NEW k
  PROVE  /\ IsFiniteSet(Carried(P, cl, k))
         /\ [m \in Carried(P, cl, k) |-> cl[m.id].n] \in [Carried(P, cl, k) -> Int]
<1>1. Carried(P, cl, k) \subseteq P
  BY DEF Carried
<1>2. IsFiniteSet(Carried(P, cl, k))
  BY <1>1, FS_Subset
<1>3. ASSUME NEW m \in Carried(P, cl, k) PROVE cl[m.id].n \in Int
  <2>1. m.id \in DOMAIN cl
    BY <1>1
  <2>2. cl[m.id] \in AddCall
    BY <2>1
  <2> QED
    BY <2>2 DEF AddCall
<1> QED
  BY <1>2, <1>3

LEMMA CarriedType ==
  ASSUME NEW P, IsFiniteSet(P), NEW cl \in Seq(AddCall), \A m \in P : m.id \in DOMAIN cl, NEW k
  PROVE  CarriedOf(P, cl, k) \in Int
<1> DEFINE S == Carried(P, cl, k)
           v == [m \in S |-> cl[m.id].n]
<1>1. IsFiniteSet(S) /\ v \in [S -> Int]
  BY CarriedFacts
<1>2. CarriedOf(P, cl, k) = SumOf(v)
  BY DEF CarriedOf, SumOf
<1> HIDE DEF v, S
<1> QED
  BY <1>1, <1>2, SumType

LEMMA CarriedKept ==
  ASSUME NEW P, NEW cl, NEW dl, \A m \in P : dl[m.id] = cl[m.id], NEW k
  PROVE  CarriedOf(P, dl, k) = CarriedOf(P, cl, k)
<1>1. Carried(P, dl, k) = Carried(P, cl, k) /\ Carried(P, cl, k) \subseteq P
  BY DEF Carried
<1>2. [m \in Carried(P, dl, k) |-> dl[m.id].n] = [m \in Carried(P, cl, k) |-> cl[m.id].n]
  BY <1>1
<1> QED
  BY <1>2 DEF CarriedOf

LEMMA CarriedMore ==
  ASSUME NEW P, IsFiniteSet(P), NEW cl \in Seq(AddCall), \A m \in P : m.id \in DOMAIN cl,
         NEW m, m \notin P, m.id \in DOMAIN cl, NEW k
  PROVE  CarriedOf(P \cup {m}, cl, k)
           = CarriedOf(P, cl, k) + (IF cl[m.id].key = k THEN cl[m.id].n ELSE 0)
<1> DEFINE S == Carried(P, cl, k)
           Q == P \cup {m}
           T == Carried(Q, cl, k)
           v == [c \in S |-> cl[c.id].n]
           w == [c \in T |-> cl[c.id].n]
<1>1. \A c \in Q : c.id \in DOMAIN cl
  OBVIOUS
<1>2. IsFiniteSet(Q)
  BY FS_AddElement
<1>3. IsFiniteSet(S) /\ v \in [S -> Int]
  BY CarriedFacts
<1>4. IsFiniteSet(T) /\ w \in [T -> Int]
  <2> HIDE DEF Q
  <2> QED
    BY <1>1, <1>2, CarriedFacts
<1>5. CarriedOf(P, cl, k) = SumOf(v) /\ CarriedOf(Q, cl, k) = SumOf(w)
  BY DEF CarriedOf, SumOf
<1>6. cl[m.id].kind = "add" /\ m \notin S
  <2>1. cl[m.id] \in AddCall
    OBVIOUS
  <2> QED
    BY <2>1 DEF AddCall, Carried
<1>7. CASE cl[m.id].key = k
  <2>1. T = S \cup {m}
    BY <1>6, <1>7 DEF Carried
  <2>2. \A c \in S : w[c] = v[c]
    BY <2>1
  <2>3. w[m] = cl[m.id].n
    BY <2>1
  <2>4. w \in [S \cup {m} -> Int]
    BY <1>4, <2>1
  <2> HIDE DEF v, w, S, T
  <2>5. m \notin S
    BY <1>6
  <2>6. Extends(v, w, S, m)
    BY <1>3, <2>2, <2>4, <2>5 DEF Extends
  <2>7. SumOf(w) = SumOf(v) + w[m]
    BY <1>3, <2>6, SumExtend
  <2> QED
    BY <1>5, <1>7, <2>3, <2>7
<1>8. CASE cl[m.id].key # k
  <2>1. T = S
    BY <1>8 DEF Carried
  <2>2. SumOf(w) = SumOf(v)
    BY <2>1
  <2>3. SumOf(v) \in Int
    <3> HIDE DEF v, S
    <3> QED
      BY <1>3, SumType
  <2> HIDE DEF v, w, S, T
  <2> QED
    BY <1>5, <1>8, <2>2, <2>3
<1> QED
  BY <1>7, <1>8

Carries(P, cl) == IsFiniteSet(P) /\ cl \in Seq(AddCall) /\ \A m \in P : m.id \in DOMAIN cl

LEMMA CarriedLess ==
  ASSUME NEW P, NEW cl, Carries(P, cl), NEW m \in P, NEW k
  PROVE  CarriedOf(P, cl, k) = CarriedOf(P \ {m}, cl, k) + (IF cl[m.id].key = k THEN cl[m.id].n ELSE 0)
<1>1. PICK Q : Q = P \ {m}
  OBVIOUS
<1>2. IsFiniteSet(Q) /\ m \notin Q /\ P = Q \cup {m}
  BY <1>1, FS_Subset DEF Carries
<1>3. cl \in Seq(AddCall) /\ m.id \in DOMAIN cl /\ \A c \in Q : c.id \in DOMAIN cl
  BY <1>1 DEF Carries
<1>4. CarriedOf(Q \cup {m}, cl, k) = CarriedOf(Q, cl, k) + (IF cl[m.id].key = k THEN cl[m.id].n ELSE 0)
  <2>1. IsFiniteSet(Q) /\ m \notin Q
    BY <1>2
  <2> QED
    BY <1>3, <2>1, CarriedMore, SMTT(30)
<1> QED
  BY <1>1, <1>2, <1>4
-----------------------------------------------------------------------------
(* The increments of k in a cache c, and about to be put there by the main
   thread whose frames are st.                                             *)
Slots(st)  == IF st # <<>> /\ st[1].kind = "flush" THEN {st[1].slot} ELSE {}
Adding(st) == IF st # <<>> THEN st[1].fill ELSE {}
Share(c, st, k) ==
  (IF Slot[k] \notin Slots(st) /\ c[Slot[k]].key = {k} THEN c[Slot[k]].n ELSE 0)
    + (IF Adding(st) = {k} THEN 1 ELSE 0)
CachesOf(ca, sk, k) == FoldFunction(+, 0, [r \in Rank |-> Share(ca[r], sk[r], k)])

Row(c, st) == StackForm(st) /\ \A s \in 1 .. Size : c[s] \in Entry(s)

LEMMA EntryFacts ==
  ASSUME NEW s \in 1 .. Size, NEW e \in Entry(s)
  PROVE  /\ e.n \in Int /\ e.n # 0
         /\ e = Free <=> e.n = -1
         /\ ~(e.n > 0) <=> e = Free
         /\ \A k \in Key : e.key = {k} => Slot[k] = s /\ e = Cached(k, e.n) /\ e.n \in 1 .. MaxCached
         /\ e # Free => \E k \in Key : Slot[k] = s /\ e.n \in 1 .. MaxCached /\ e = Cached(k, e.n)
<1>1. MaxCached \in Nat
  BY SlotAssumption
<1>2. CASE e = Free
  <2>1. e.n = -1 /\ e.key = {}
    BY <1>2 DEF Free
  <2> QED
    BY <1>2, <2>1
<1>3. CASE e # Free
  <2>1. PICK k \in Key, n \in 1 .. MaxCached : Slot[k] = s /\ e = Cached(k, n)
    BY <1>3 DEF Entry
  <2>2. e.n = n /\ e.key = {k} /\ n > 0 /\ n \in Int
    BY <1>1, <2>1 DEF Cached
  <2> QED
    BY <1>3, <2>1, <2>2
<1> QED
  BY <1>2, <1>3

LEMMA EntryOf ==
  ASSUME NEW k \in Key, NEW n \in 1 .. MaxCached
  PROVE  Free \in Entry(Slot[k]) /\ Cached(k, n) \in Entry(Slot[k]) /\ Slot[k] \in 1 .. Size
BY SlotAssumption DEF Entry

LEMMA FrameFacts ==
  ASSUME NEW s, NEW K
  PROVE  /\ FlushFrame(s, K).kind = "flush" /\ FlushFrame(s, K).slot = s /\ FlushFrame(s, K).fill = K
         /\ AllFrame(s).kind = "all" /\ AllFrame(s).slot = s /\ AllFrame(s).fill = {}
BY DEF FlushFrame, AllFrame

(* The frames of one rank: those of the flush that is at work, if any, come
   first, and only they have a key to put into the slot.                   *)
FlushedSlots(st)   == {st[i].slot : i \in {j \in DOMAIN st : st[j].kind = "flush"}}
FillingFrames(st, k) == {i \in DOMAIN st : st[i].fill = {k}}

LEMMA FormFacts ==
  ASSUME NEW st, StackForm(st), NEW k
  PROVE  /\ FlushedSlots(st) = Slots(st)
         /\ FillingFrames(st, k) = IF Adding(st) = {k} THEN {1} ELSE {}
<1>1. CASE st = <<>>
  BY <1>1 DEF FlushedSlots, Slots, FillingFrames, Adding
<1>2. CASE \E s \in 1 .. Size + 1 : st = <<AllFrame(s)>>
  <2>1. PICK s \in 1 .. Size + 1 : st = <<AllFrame(s)>>
    BY <1>2
  <2>2. DOMAIN st = {1} /\ st # <<>> /\ st[1].kind = "all" /\ st[1].fill = {}
    BY <2>1, FrameFacts
  <2> QED
    BY <2>2 DEF FlushedSlots, Slots, FillingFrames, Adding
<1>3. CASE \E s \in 1 .. Size : \E K : st = <<FlushFrame(s, K)>>
  <2>1. PICK s \in 1 .. Size : \E K : st = <<FlushFrame(s, K)>>
    BY <1>3
  <2>2. PICK K : st = <<FlushFrame(s, K)>>
    BY <2>1
  <2>3. DOMAIN st = {1} /\ st # <<>> /\ st[1].kind = "flush" /\ st[1].fill = K /\ st[1].slot = s
    BY <2>2, FrameFacts
  <2> QED
    BY <2>3 DEF FlushedSlots, Slots, FillingFrames, Adding
<1>4. CASE \E s \in 1 .. Size : st = <<FlushFrame(s, {}), AllFrame(s + 1)>>
  <2>1. PICK s \in 1 .. Size : st = <<FlushFrame(s, {}), AllFrame(s + 1)>>
    BY <1>4
  <2>2. /\ DOMAIN st = {1, 2} /\ st # <<>> /\ st[1].kind = "flush" /\ st[1].fill = {} /\ st[1].slot = s
        /\ st[2].kind = "all" /\ st[2].fill = {}
    BY <2>1, FrameFacts
  <2> QED
    BY <2>2 DEF FlushedSlots, Slots, FillingFrames, Adding
<1> QED
  BY <1>1, <1>2, <1>3, <1>4 DEF StackForm

HeldOf(c, st, k) ==
  FoldFunction(+, 0, [s \in {u \in (1 .. Size) \ Slots(st) : c[u].key = {k}} |-> c[s].n])

LEMMA ShareIs ==
  ASSUME NEW c, NEW st, Row(c, st), NEW k \in Key
  PROVE  /\ Share(c, st, k) \in Nat
         /\ Share(c, st, k) = HeldOf(c, st, k) + Cardinality(FillingFrames(st, k))
<1> DEFINE held == {u \in (1 .. Size) \ Slots(st) : c[u].key = {k}}
           v == [s \in held |-> c[s].n]
           a == IF Adding(st) = {k} THEN 1 ELSE 0
           z == Slot[k]
<1>1. Cardinality(FillingFrames(st, k)) = a
  <2>1. FillingFrames(st, k) = IF Adding(st) = {k} THEN {1} ELSE {}
    BY FormFacts DEF Row
  <2> QED
    BY <2>1, FS_EmptySet, FS_Singleton
<1>2. \A u \in held : u = z /\ c[u].n \in 1 .. MaxCached
  BY EntryFacts DEF Row
<1>3. z \in 1 .. Size /\ MaxCached \in Nat /\ a \in Nat
  BY SlotAssumption
<1>4. HeldOf(c, st, k) = SumOf(v)
  BY DEF HeldOf, SumOf
<1>5. CASE z \in held
  <2>1. held = {z} /\ c[z].n \in Nat
    BY <1>2, <1>3, <1>5
  <2>2. v \in [{z} -> Int] /\ v[z] = c[z].n
    BY <2>1
  <2>3. SumOf(v) = c[z].n
    <3> HIDE DEF v, held, z
    <3> QED
      BY <2>2, SumOne
  <2>4. Share(c, st, k) = c[z].n + a
    BY <1>5 DEF Share
  <2> HIDE DEF v, a, z
  <2> QED
    BY <1>1, <1>3, <1>4, <2>1, <2>3, <2>4
<1>6. CASE z \notin held
  <2>1. held = {}
    BY <1>2, <1>6
  <2>2. SumOf(v) = 0
    BY <2>1, SumEmpty
  <2>3. Share(c, st, k) = 0 + a
    BY <1>3, <1>6 DEF Share
  <2> HIDE DEF v, a, z
  <2> QED
    BY <1>1, <1>3, <1>4, <2>2, <2>3
<1> QED
  BY <1>5, <1>6

RowsOK == \A r \in Rank : Row(cache[r], stack[r])

RowSums == /\ \A r \in Rank : Flushing(r) = Slots(stack[r])
           /\ \A k \in Key : InCaches(k) = CachesOf(cache, stack, k)

LEMMA RowsMean == RowsOK => RowSums
<1> SUFFICES ASSUME RowsOK
             PROVE  /\ \A r \in Rank : Flushing(r) = Slots(stack[r])
                    /\ \A k \in Key : InCaches(k) = CachesOf(cache, stack, k)
  BY DEF RowSums
<1>1. ASSUME NEW r \in Rank PROVE Flushing(r) = Slots(stack[r])
  BY FormFacts DEF Flushing, FlushedSlots, RowsOK, Row
<1>2. ASSUME NEW k \in Key, NEW r \in Rank PROVE InCache(r, k) = Share(cache[r], stack[r], k)
  <2>1. InCache(r, k) =
          HeldOf(cache[r], stack[r], k) + Cardinality(FillingFrames(stack[r], k))
    BY <1>1, Zenon DEF InCache, FillingFrames, HeldOf
  <2>2. Row(cache[r], stack[r])
    BY DEF RowsOK
  <2> QED
    BY <2>1, <2>2, ShareIs
<1>3. ASSUME NEW k \in Key PROVE InCaches(k) = CachesOf(cache, stack, k)
  BY <1>2 DEF InCaches, CachesOf
<1> QED
  BY <1>1, <1>3

LEMMA CachesType ==
  ASSUME NEW ca, NEW sk, \A r \in Rank : Row(ca[r], sk[r]), NEW k \in Key
  PROVE  CachesOf(ca, sk, k) \in Int
<1> DEFINE v == [r \in Rank |-> Share(ca[r], sk[r], k)]
<1>1. v \in [Rank -> Int]
  <2>1. \A r \in Rank : Share(ca[r], sk[r], k) \in Nat
    BY ShareIs
  <2> QED
    BY <2>1
<1>2. CachesOf(ca, sk, k) = SumOf(v)
  BY DEF CachesOf, SumOf
<1> HIDE DEF v
<1> QED
  BY <1>1, <1>2, SumType, SlotAssumption

(* The cache of one rank changes.                                          *)
LEMMA CachesChange ==
  ASSUME NEW ca, NEW sk, \A r \in Rank : Row(ca[r], sk[r]),
         NEW cb, NEW sl, \A r \in Rank : Row(cb[r], sl[r]), NEW k \in Key,
         NEW r \in Rank, \A s \in Rank \ {r} : cb[s] = ca[s] /\ sl[s] = sk[s]
  PROVE  CachesOf(cb, sl, k) = CachesOf(ca, sk, k) - Share(ca[r], sk[r], k) + Share(cb[r], sl[r], k)
<1> DEFINE v == [s \in Rank |-> Share(ca[s], sk[s], k)]
           w == [s \in Rank |-> Share(cb[s], sl[s], k)]
<1>1. v \in [Rank -> Int] /\ w \in [Rank -> Int]
  <2>1. \A s \in Rank : Share(ca[s], sk[s], k) \in Nat /\ Share(cb[s], sl[s], k) \in Nat
    BY ShareIs
  <2> QED
    BY <2>1
<1>2. CachesOf(ca, sk, k) = SumOf(v) /\ CachesOf(cb, sl, k) = SumOf(w)
  BY DEF CachesOf, SumOf
<1>3. \A s \in Rank \ {r} : w[s] = v[s]
  OBVIOUS
<1>4. v[r] = Share(ca[r], sk[r], k) /\ w[r] = Share(cb[r], sl[r], k)
  OBVIOUS
<1> HIDE DEF v, w
<1>5. Differ(v, w, Rank, r)
  BY <1>1, <1>3 DEF Differ
<1>6. SumOf(w) = SumOf(v) - v[r] + w[r]
  BY <1>5, SumUpdate, SlotAssumption
<1> QED
  BY <1>2, <1>4, <1>6

(* All caches are empty and nothing is being put there.                    *)
LEMMA CachesEmpty ==
  ASSUME NEW ca, NEW sk, \A r \in Rank : sk[r] = <<>> /\ \A s \in 1 .. Size : ca[r][s] = Free,
         NEW k \in Key
  PROVE  CachesOf(ca, sk, k) = 0
<1> DEFINE v == [r \in Rank |-> Share(ca[r], sk[r], k)]
<1>1. CachesOf(ca, sk, k) = SumOf(v)
  BY DEF CachesOf, SumOf
<1>2. ASSUME NEW r \in Rank PROVE Share(ca[r], sk[r], k) = 0
  <2>1. Slot[k] \in 1 .. Size
    BY SlotAssumption
  <2>2. ca[r][Slot[k]].key = {} /\ Adding(sk[r]) = {}
    BY <2>1 DEF Free, Adding
  <2> QED
    BY <2>2 DEF Share
<1>3. v \in [Rank -> Int] /\ \A r \in Rank : v[r] = 0
  BY <1>2
<1> HIDE DEF v
<1> QED
  BY <1>1, <1>3, SumZero, SlotAssumption
-----------------------------------------------------------------------------
(* The parts of the invariant as the steps need them.                      *)
TypesOK ==
  /\ issued \subseteq Call /\ IsFiniteSet(issued) /\ executed \subseteq issued
  /\ inside \subseteq Rank /\ counting \subseteq Rank
  /\ epoch \in [Rank -> Nat]
  /\ calls \in Seq(AddCall)
  /\ counts \in Counts /\ file \in Counts
  /\ inserted \in [0 .. MaxEpoch -> Counts]
  /\ plan \in Seq(Colls) /\ Len(plan) <= MaxEpoch
  /\ part \in [Rank -> Counts] /\ answer \in [Rank -> Counts]

SlotOK(c, st) ==
  \A s \in (1 .. Size) \ Slots(st) :
    /\ c[s].n < MaxCached
    /\ \A i \in DOMAIN st : st[i].kind = "all" /\ s < st[i].slot => c[s] = Free

CachesOK ==
  /\ stack = [r \in Rank |-> stack[r]]
  /\ cache = [r \in Rank |-> [s \in 1 .. Size |-> cache[r][s]]]
  /\ RowsOK
  /\ \A r \in Rank : SlotOK(cache[r], stack[r])
  /\ \A r \in Rank : stack[r] # <<>> => r \notin inside \cup counting /\ epoch[r] < MaxEpoch
  /\ \A r \in Rank : r \in inside => \A s \in 1 .. Size : cache[r][s] = Free

Conserved ==
  LET D == Due
  IN  \A k \in Key :
        LET e == epoch[Owner[k]]
        IN  D[e].counts[k] + Since(k, e) = counts[k] + Sending(k) + InCaches(k)

LEMMA PartsMean ==
  /\ SetTypeOK /\ CacheInv <=> TypesOK /\ CachesOK
  /\ CachesOK => (CountsConserved <=> Conserved)
<1>1. SetTypeOK <=> /\ TypesOK
                    /\ stack = [r \in Rank |-> stack[r]]
                    /\ cache = [r \in Rank |-> [s \in 1 .. Size |-> cache[r][s]]]
                    /\ \A r \in Rank : \A s \in 1 .. Size : cache[r][s] \in Entry(s)
  BY DEF SetTypeOK, TypesOK, AddCall, Counts
<1>2. ASSUME \A r \in Rank : StackForm(stack[r]) PROVE \A r \in Rank : Flushing(r) = Slots(stack[r])
  BY <1>2, FormFacts DEF Flushing, FlushedSlots
<1>3. ASSUME SetTypeOK, CacheInv PROVE CachesOK
  <2>1. RowsOK
    BY <1>1, <1>3 DEF CacheInv, RowsOK, Row
  <2>2. \A r \in Rank : Flushing(r) = Slots(stack[r])
    BY <1>2, <1>3 DEF CacheInv
  <2>3. \A r \in Rank : SlotOK(cache[r], stack[r])
    BY <1>3, <2>2 DEF CacheInv, SlotOK
  <2>4. ASSUME NEW r \in Rank, r \in inside, NEW s \in 1 .. Size PROVE cache[r][s] = Free
    <3>1. stack[r] = <<>>
      BY <1>3, <2>4 DEF CacheInv
    <3>2. Slots(stack[r]) = {}
      BY <3>1 DEF Slots
    <3> QED
      BY <1>3, <2>2, <2>4, <3>2 DEF CacheInv
  <2>5. \A r \in Rank : stack[r] # <<>> => r \notin inside \cup counting /\ epoch[r] < MaxEpoch
    BY <1>3 DEF CacheInv
  <2> QED
    BY <1>1, <1>3, <2>1, <2>3, <2>4, <2>5 DEF CachesOK
<1>4. ASSUME TypesOK, CachesOK PROVE SetTypeOK /\ CacheInv
  <2>1. SetTypeOK
    BY <1>1, <1>4 DEF CachesOK, RowsOK, Row
  <2>2. \A r \in Rank : Flushing(r) = Slots(stack[r])
    BY <1>4, RowsMean DEF CachesOK, RowSums
  <2>3. \A r \in Rank : SlotOK(cache[r], stack[r]) /\ StackForm(stack[r])
    BY <1>4 DEF CachesOK, RowsOK, Row
  <2>4. CacheInv
    BY <1>4, <2>2, <2>3 DEF CachesOK, CacheInv, SlotOK
  <2> QED
    BY <2>1, <2>4
<1>5. ASSUME CachesOK
      PROVE  \A r \in Rank : \A s \in (1 .. Size) \ Flushing(r) : cache[r][s].n # 0 /\ cache[r][s].n < MaxCached
  <2>1. \A r \in Rank : Flushing(r) = Slots(stack[r])
    BY <1>5, RowsMean DEF CachesOK, RowSums
  <2>2. \A r \in Rank : SlotOK(cache[r], stack[r]) /\ Row(cache[r], stack[r])
    BY <1>5 DEF CachesOK, RowsOK
  <2>3. \A r \in Rank : \A s \in 1 .. Size : cache[r][s].n # 0
    BY <2>2, EntryFacts DEF Row
  <2> QED
    BY <2>1, <2>2, <2>3 DEF SlotOK
<1>6. ASSUME CachesOK PROVE CountsConserved <=> Conserved
  BY <1>5, <1>6 DEF CountsConserved, Conserved
<1> QED
  BY <1>1, <1>3, <1>4, <1>6

LEMMA IInvMeans ==
  SetIInv <=> /\ TypesOK /\ CachesOK /\ LockstepInv /\ CallInv /\ FlowInv /\ DueInv
              /\ Conserved /\ CountExact
BY PartsMean DEF SetIInv, SetInv

LEMMA TypeFacts ==
  TypesOK /\ LockstepInv =>
    /\ IsFiniteSet(Pending) /\ Pending \subseteq issued /\ MaxEpoch \in Nat
    /\ Len(calls) \in Nat /\ DOMAIN calls = 1 .. Len(calls)
    /\ Len(plan) \in Nat /\ DOMAIN plan = 1 .. Len(plan)
    /\ \A r \in Rank : epoch[r] \in Nat /\ epoch[r] <= Len(plan) /\ epoch[r] <= MaxEpoch
    /\ \A k \in Key : Owner[k] \in Rank
<1> SUFFICES ASSUME TypesOK, LockstepInv
             PROVE  /\ IsFiniteSet(Pending) /\ Pending \subseteq issued /\ MaxEpoch \in Nat
                    /\ Len(calls) \in Nat /\ DOMAIN calls = 1 .. Len(calls)
                    /\ Len(plan) \in Nat /\ DOMAIN plan = 1 .. Len(plan)
                    /\ \A r \in Rank : epoch[r] \in Nat /\ epoch[r] <= Len(plan) /\ epoch[r] <= MaxEpoch
                    /\ \A k \in Key : Owner[k] \in Rank
  OBVIOUS
<1>1. IsFiniteSet(Pending) /\ Pending \subseteq issued
  BY FS_Subset DEF TypesOK, Pending
<1>2. MaxEpoch \in Nat /\ \A k \in Key : Owner[k] \in Rank
  BY SlotAssumption
<1>3. /\ Len(calls) \in Nat /\ DOMAIN calls = 1 .. Len(calls)
      /\ Len(plan) \in Nat /\ DOMAIN plan = 1 .. Len(plan) /\ Len(plan) <= MaxEpoch
  BY LenProperties DEF TypesOK
<1>4. ASSUME NEW r \in Rank PROVE epoch[r] \in Nat /\ epoch[r] <= Len(plan) /\ epoch[r] <= MaxEpoch
  <2>1. epoch[r] \in Nat /\ epoch[r] <= Len(plan)
    BY <1>3 DEF TypesOK, LockstepInv
  <2> QED
    BY <1>2, <1>3, <2>1
<1> QED
  BY <1>1, <1>2, <1>3, <1>4

\* What is added up are integers.
Sound  == TypesOK /\ LockstepInv /\ CallInv /\ RowsOK
SumsOK == \A k \in Key : /\ counts[k] \in Nat /\ Sending(k) \in Int /\ InCaches(k) \in Int
                         /\ \A e \in Nat : Since(k, e) \in Int

LEMMA SumTypes == Sound => SumsOK
<1> SUFFICES ASSUME TypesOK, LockstepInv, CallInv, RowsOK, NEW k \in Key
             PROVE  /\ counts[k] \in Nat /\ Sending(k) \in Int /\ InCaches(k) \in Int
                    /\ \A e \in Nat : Since(k, e) \in Int
  BY DEF Sound, SumsOK
<1>1. counts[k] \in Nat
  BY DEF TypesOK, Counts
<1>2. Sending(k) \in Int
  <2>1. IsFiniteSet(Pending) /\ calls \in Seq(AddCall) /\ \A m \in Pending : m.id \in DOMAIN calls
    BY TypeFacts DEF TypesOK, CallInv
  <2> QED
    BY <2>1, CarriedType, SumsAre DEF Summed
<1>3. InCaches(k) \in Int
  <2>1. \A r \in Rank : Row(cache[r], stack[r])
    BY DEF RowsOK
  <2>2. CachesOf(cache, stack, k) \in Int
    BY <2>1, CachesType
  <2> QED
    BY <2>2, RowsMean DEF RowSums
<1>4. \A e \in Nat : Since(k, e) \in Int
  BY TailType, SumsAre DEF TypesOK, Summed
<1> QED
  BY <1>1, <1>2, <1>3, <1>4

\* A rank that is not in a barrier has gone through as many as any other.
LEMMA AtFront ==
  ASSUME TypesOK, LockstepInv, NEW r \in Rank, r \notin inside
  PROVE  \A s \in Rank : epoch[s] <= epoch[r]
BY TypeFacts DEF LockstepInv

\* Neither the end of an epoch that is over nor what led to it changes.
LEMMA DueFrame ==
  ASSUME TypesOK, TypesOK', NEW n \in Nat, n <= Len(plan), n <= Len(plan'),
         \A i \in 1 .. n : plan'[i] = plan[i] /\ inserted'[i - 1] = inserted[i - 1]
  PROVE  \A i \in 0 .. n : Due'[i] = Due[i]
<1>1. /\ plan \in Seq(Colls) /\ Len(plan) <= MaxEpoch /\ inserted \in [0 .. MaxEpoch -> Counts]
      /\ plan' \in Seq(Colls) /\ Len(plan') <= MaxEpoch /\ inserted' \in [0 .. MaxEpoch -> Counts]
  BY DEF TypesOK
<1>2. Due = DueOf(plan, inserted) /\ Due' = DueOf(plan', inserted')
  BY DEF Due
<1>3. PICK p, ins, q, jns : p = plan /\ ins = inserted /\ q = plan' /\ jns = inserted'
  OBVIOUS
<1>4. \A i \in 0 .. n : DueOf(p, ins)[i] = DueOf(q, jns)[i]
  <2>1. /\ p \in Seq(Colls) /\ Len(p) <= MaxEpoch /\ ins \in [0 .. MaxEpoch -> Counts]
        /\ q \in Seq(Colls) /\ Len(q) <= MaxEpoch /\ jns \in [0 .. MaxEpoch -> Counts]
    BY <1>1, <1>3
  <2>2. n <= Len(p) /\ n <= Len(q) /\ \A i \in 1 .. n : p[i] = q[i] /\ ins[i - 1] = jns[i - 1]
    BY <1>3
  <2> QED
    BY <2>1, <2>2, DueKept
<1> QED
  BY <1>2, <1>3, <1>4

LEMMA DueTypes ==
  TypesOK => /\ Due[0] = Start
             /\ \A e \in 1 .. Len(plan) : Due[e] = After(Due[e - 1], plan[e], inserted[e - 1])
             /\ \A e \in 0 .. Len(plan) : Due[e] \in Ending
BY DueAt DEF Due, TypesOK
-----------------------------------------------------------------------------
(* A step that moves increments without loss, by a rank r that no other is
   ahead of.  g: what it inserts in r's epoch.                             *)
Balance(r, g) ==
  /\ \A s \in Rank : epoch[s] <= epoch[r]
  /\ UNCHANGED <<epoch, inside, plan, file, counting, part, answer>>
  /\ \A f \in 0 .. MaxEpoch, k \in Key :
       inserted'[f][k] = inserted[f][k] + (IF f = epoch[r] THEN g[k] ELSE 0)
  /\ \A k \in Key :
       /\ counts'[k] + Sending(k)' + InCaches(k)' = counts[k] + Sending(k) + InCaches(k) + g[k]
       /\ counts'[k] # counts[k] => Owner[k] = r

LEMMA SinceMore ==
  ASSUME TypesOK, TypesOK', NEW k \in Key, NEW F \in 0 .. MaxEpoch, NEW e \in Nat, e <= F, NEW x \in Nat,
         \A f \in 0 .. MaxEpoch : inserted'[f][k] = inserted[f][k] + (IF f = F THEN x ELSE 0)
  PROVE  Since(k, e)' = Since(k, e) + x
<1>1. PICK ins, jns : ins = inserted /\ jns = inserted'
  OBVIOUS
<1>2. Since(k, e) = TailOf(ins, k, e)
  BY <1>1, SumsAre DEF Summed
<1>3. Since(k, e)' = TailOf(jns, k, e)
  <2>1. Summed'
    BY SumsAre, PTL
  <2> QED
    BY <1>1, <2>1 DEF Summed
<1>4. ins \in [0 .. MaxEpoch -> Counts] /\ jns \in [0 .. MaxEpoch -> Counts]
  BY <1>1 DEF TypesOK
<1>5. TailOf(jns, k, e) = TailOf(ins, k, e) + x
  <2>1. \A f \in 0 .. MaxEpoch : jns[f][k] = ins[f][k] + (IF f = F THEN x ELSE 0)
    BY <1>1
  <2> QED
    BY <1>4, <2>1, TailMore
<1> QED
  BY <1>2, <1>3, <1>5

LEMMA FlowStep ==
  ASSUME SetIInv, TypesOK', LockstepInv', CallInv', RowsOK',
         NEW r \in Rank, NEW g \in Counts, Balance(r, g)
  PROVE  Conserved' /\ FlowInv' /\ DueInv' /\ CountExact'
<1> DEFINE D == Due
<1>0. PICK F : F = epoch[r]
  OBVIOUS
<1>1. TypesOK /\ RowsOK /\ LockstepInv /\ CallInv /\ FlowInv /\ DueInv /\ Conserved /\ CountExact
  BY IInvMeans DEF CachesOK
<1>2. /\ \A s \in Rank : epoch[s] <= F
      /\ UNCHANGED <<epoch, inside, plan, file, counting, part, answer>>
  BY <1>0 DEF Balance
<1>3. \A k \in Key : g[k] \in Nat
  BY DEF Counts
<1>4. F \in Nat /\ F <= Len(plan) /\ F \in 0 .. MaxEpoch /\ MaxEpoch \in Nat
  BY <1>0, <1>1, TypeFacts
<1>5. ASSUME NEW f \in 0 .. MaxEpoch, f # F PROVE inserted'[f] = inserted[f]
  <2>1. inserted[f] \in Counts /\ inserted'[f] \in Counts
    BY <1>1 DEF TypesOK
  <2>2. \A k \in Key : inserted'[f][k] = inserted[f][k] + 0 /\ inserted[f][k] \in Nat
    BY <1>0, <1>5, <2>1 DEF Balance, Counts
  <2> QED
    BY <2>1, <2>2 DEF Counts
<1>6. \A i \in 0 .. F : D'[i] = D[i]
  <2>1. ASSUME NEW i \in 1 .. F PROVE plan'[i] = plan[i] /\ inserted'[i - 1] = inserted[i - 1]
    <3>1. i - 1 \in 0 .. MaxEpoch /\ i - 1 # F
      BY <1>4
    <3> QED
      BY <1>2, <1>5, <3>1
  <2> QED
    BY <1>1, <1>2, <1>4, <2>1, DueFrame
<1>7. ASSUME NEW k \in Key, NEW e \in 0 .. F PROVE Since(k, e)' = Since(k, e) + g[k]
  <2>1. \A f \in 0 .. MaxEpoch : inserted'[f][k] = inserted[f][k] + (IF f = F THEN g[k] ELSE 0)
    BY <1>0 DEF Balance
  <2> QED
    <3>1. g[k] \in Nat /\ e \in Nat /\ e <= F
      BY <1>3, <1>4
    <3>2. PICK x \in Nat : x = g[k]
      BY <3>1
    <3>3. \A f \in 0 .. MaxEpoch : inserted'[f][k] = inserted[f][k] + (IF f = F THEN x ELSE 0)
      BY <2>1, <3>2
    <3>4. TypesOK /\ TypesOK' /\ F \in 0 .. MaxEpoch
      BY <1>1, <1>4
    <3>5. Since(k, e)' = Since(k, e) + x
      BY <3>1, <3>3, <3>4, SinceMore
    <3> QED
      BY <3>2, <3>5
<1>8. ASSUME NEW k \in Key
      PROVE  /\ counts[k] \in Nat /\ Sending(k) \in Int /\ InCaches(k) \in Int
             /\ \A e \in Nat : Since(k, e) \in Int
             /\ counts'[k] \in Nat /\ Sending(k)' \in Int /\ InCaches(k)' \in Int
             /\ counts'[k] + Sending(k)' + InCaches(k)' = counts[k] + Sending(k) + InCaches(k) + g[k]
             /\ counts'[k] # counts[k] => Owner[k] = r
  <2>1. Sound' => SumsOK'
    BY SumTypes, PTL
  <2>2. counts'[k] \in Nat /\ Sending(k)' \in Int /\ InCaches(k)' \in Int
    BY <2>1 DEF Sound, SumsOK
  <2>3. counts[k] \in Nat /\ Sending(k) \in Int /\ InCaches(k) \in Int /\ \A e \in Nat : Since(k, e) \in Int
    BY <1>1, SumTypes DEF Sound, SumsOK
  <2> QED
    BY <2>2, <2>3 DEF Balance
<1>9. ASSUME NEW k \in Key
      PROVE  /\ epoch'[Owner[k]] = epoch[Owner[k]] /\ epoch[Owner[k]] \in 0 .. F
             /\ Owner[k] \in Rank
  BY <1>1, <1>2, <1>4, TypeFacts
<1>10. Conserved'
  <2>1. ASSUME NEW k \in Key, NEW e, e = epoch[Owner[k]]
        PROVE  D'[e].counts[k] + Since(k, e)' = counts'[k] + Sending(k)' + InCaches(k)'
    <3>1. D[e].counts[k] + Since(k, e) = counts[k] + Sending(k) + InCaches(k)
      BY <1>1, <2>1 DEF Conserved
    <3>2. e \in 0 .. F
      BY <1>9, <2>1
    <3>3. D'[e] = D[e] /\ Since(k, e)' = Since(k, e) + g[k] /\ Since(k, e) \in Int
      <4>1. Since(k, e)' = Since(k, e) + g[k]
        BY <1>7, <3>2
      <4>2. Since(k, e) \in Int
        BY <1>4, <1>8, <3>2
      <4> HIDE DEF D
      <4>3. D'[e] = D[e]
        BY <1>6, <3>2
      <4> QED
        BY <4>1, <4>2, <4>3
    <3>4. D[e].counts[k] \in Int
      <4>1. e \in 0 .. Len(plan)
        BY <1>4, <3>2
      <4>2. D[e] \in Ending
        BY <1>1, <4>1, DueTypes
      <4> QED
        BY <4>2 DEF Ending, Counts
    <3> HIDE DEF D
    <3> QED
      BY <1>3, <1>8, <3>1, <3>3, <3>4
  <2>2. \A k \in Key : \A e : e = epoch[Owner[k]] =>
           D'[e].counts[k] + Since(k, e)' = counts'[k] + Sending(k)' + InCaches(k)'
    BY <2>1
  <2> QED
    BY <1>9, <2>2 DEF Conserved
<1>11. FlowInv'
  <2>1. ASSUME NEW e \in 0 .. MaxEpoch, \A s \in Rank : epoch[s] < e PROVE inserted'[e] = Nothing
    <3>1. e # F
      BY <1>0, <1>4, <2>1
    <3> QED
      BY <1>1, <1>5, <2>1, <3>1 DEF FlowInv
  <2>2. ASSUME NEW k \in Key, NEW s \in Rank, epoch[s] = epoch[Owner[k]] + 1, NEW e, e = epoch[s]
        PROVE  Since(k, e)' = Sending(k)' + InCaches(k)'
    <3>1. epoch[s] <= F /\ epoch[s] \in Nat /\ epoch[Owner[k]] \in Nat
      BY <1>1, <1>2, <1>9, TypeFacts
    <3>2. Owner[k] # r
      BY <1>0, <2>2, <3>1
    <3>3. counts'[k] = counts[k] /\ Since(k, e) = Sending(k) + InCaches(k)
      BY <1>1, <1>8, <2>2, <3>2 DEF FlowInv
    <3>4. Since(k, e)' = Since(k, e) + g[k]
      BY <1>4, <1>7, <2>2, <3>1
    <3> QED
      BY <1>3, <1>8, <3>3, <3>4
  <2>3. \A k \in Key, s \in Rank : epoch[s] = epoch[Owner[k]] + 1 =>
           \A e : e = epoch[s] => Since(k, e)' = Sending(k)' + InCaches(k)'
    BY <2>2
  <2> QED
    BY <1>2, <2>1, <2>3 DEF FlowInv
<1>12. DueInv' /\ CountExact'
  <2>1. ASSUME NEW s \in Rank PROVE epoch'[s] = epoch[s] /\ D'[epoch[s]] = D[epoch[s]]
    BY <1>1, <1>2, <1>4, <1>6, TypeFacts
  <2>2. DueInv'
    BY <1>1, <1>2, <1>9, <2>1 DEF DueInv, AtOwner
  <2>3. CountExact'
    BY <1>1, <1>2, <2>1 DEF CountExact
  <2> QED
    BY <2>2, <2>3
<1> QED
  BY <1>10, <1>11, <1>12
-----------------------------------------------------------------------------
(* What a flush does to the map and to the calls: of every key k, x[k]
   increments more have been sent or have arrived.                         *)
One(q, n) == [k \in Key |-> IF k = q THEN n ELSE 0]

Moves(r, x) ==
  /\ UNCHANGED <<executed, epoch, inside>>
  /\ issued' \subseteq Call /\ IsFiniteSet(issued') /\ issued \subseteq issued'
  /\ calls' \in Seq(AddCall) /\ counts' \in Counts /\ CallInv'
  /\ \A k \in Key : /\ counts'[k] + Sending(k)' = counts[k] + Sending(k) + x[k]
                    /\ counts'[k] # counts[k] => Owner[k] = r

LEMMA CallsKept ==
  ASSUME UNCHANGED <<bsVars, calls>>
  PROVE  /\ CallInv <=> CallInv'
         /\ \A k : Sending(k)' = Sending(k)
<1>1. UNCHANGED <<issued, executed, epoch, inside, calls>>
  BY DEF bsVars
<1>2. CallInv <=> CallInv'
  BY <1>1 DEF CallInv, Pending
<1>3. Summed'
  BY SumsAre, PTL
<1>4. Pending' = Pending
  BY <1>1 DEF Pending
<1> QED
  BY <1>1, <1>2, <1>3, <1>4, SumsAre DEF Summed

LEMMA StillMoves ==
  ASSUME SetIInv, NEW r, UNCHANGED <<bsVars, calls, counts>>
  PROVE  Moves(r, Nothing)
<1>1. TypesOK /\ LockstepInv /\ CallInv /\ RowsOK
  BY IInvMeans DEF CachesOK
<1>2. CallInv' /\ \A k : Sending(k)' = Sending(k)
  BY <1>1, CallsKept
<1>3. UNCHANGED <<issued, executed, epoch, inside, calls, counts>>
  BY DEF bsVars
<1>4. ASSUME NEW k \in Key PROVE counts'[k] + Sending(k)' = counts[k] + Sending(k) + Nothing[k]
  <2>1. counts[k] \in Nat /\ Sending(k) \in Int
    BY <1>1, SumTypes DEF Sound, SumsOK
  <2> QED
    BY <1>2, <1>3, <2>1 DEF Nothing
<1> QED
  BY <1>1, <1>2, <1>3, <1>4 DEF Moves, TypesOK

LEMMA FlushMoves ==
  ASSUME SetIInv, NEW r \in Rank, r \notin inside, NEW q \in Key, NEW n \in 1 .. MaxCached,
         NEW s, NEW slots, slots[s] = Cached(q, n), NEW K, NEW fs, NEW p, Flush(r, s, slots, K, fs, p)
  PROVE  /\ Moves(r, One(q, n))
         /\ cache' = [cache EXCEPT ![r] = slots]
         /\ stack' = [stack EXCEPT ![r] = <<FlushFrame(s, K)>> \o fs]
<1>1. TypesOK /\ LockstepInv /\ CallInv /\ RowsOK
  BY IInvMeans DEF CachesOK
<1>2. slots[s].n = n /\ (CHOOSE k \in slots[s].key : TRUE) = q
  BY DEF Cached
<1>3. /\ cache' = [cache EXCEPT ![r] = slots]
      /\ stack' = [stack EXCEPT ![r] = <<FlushFrame(s, K)>> \o fs]
      /\ \/ Owner[q] = r /\ counts' = [counts EXCEPT ![q] = @ + n] /\ UNCHANGED <<calls, bsVars>>
         \/ /\ Owner[q] # r
            /\ BSIssue(NewCall(r, Owner[q], p))
            /\ calls' = Append(calls, [kind |-> "add", key |-> q, n |-> n])
            /\ UNCHANGED counts
  BY <1>2 DEF Flush
<1>4. \A k \in Key : counts[k] \in Nat /\ Sending(k) \in Int
  BY <1>1, SumTypes DEF Sound, SumsOK
<1>5. n \in Nat /\ counts \in Counts
  BY <1>1, SlotAssumption DEF TypesOK
<1>6. CASE Owner[q] = r /\ counts' = [counts EXCEPT ![q] = @ + n] /\ UNCHANGED <<calls, bsVars>>
  <2>1. CallInv' /\ \A k : Sending(k)' = Sending(k)
    BY <1>1, <1>6, CallsKept
  <2>2. UNCHANGED <<issued, executed, epoch, inside, calls>>
    BY <1>6 DEF bsVars
  <2>3. counts' \in Counts /\ \A k \in Key : counts'[k] = counts[k] + One(q, n)[k]
    <3>1. \A k \in Key : counts'[k] = IF k = q THEN counts[k] + n ELSE counts[k]
      BY <1>5, <1>6 DEF Counts
    <3>2. counts' = [k \in Key |-> counts'[k]]
      BY <1>5, <1>6 DEF Counts
    <3>3. \A k \in Key : counts'[k] \in Nat
      BY <1>4, <1>5, <3>1
    <3> QED
      BY <1>4, <1>5, <3>1, <3>2, <3>3 DEF Counts, One
  <2>4. ASSUME NEW k \in Key
        PROVE  /\ counts'[k] + Sending(k)' = counts[k] + Sending(k) + One(q, n)[k]
               /\ counts'[k] # counts[k] => Owner[k] = r
    BY <1>4, <1>5, <1>6, <2>1, <2>3 DEF One
  <2>5. Moves(r, One(q, n))
    BY <1>1, <2>1, <2>2, <2>3, <2>4 DEF Moves, TypesOK
  <2> QED
    BY <1>3, <2>5
<1>7. CASE /\ Owner[q] # r
           /\ BSIssue(NewCall(r, Owner[q], p))
           /\ calls' = Append(calls, [kind |-> "add", key |-> q, n |-> n])
           /\ UNCHANGED counts
  <2> DEFINE rec == [kind |-> "add", key |-> q, n |-> n]
  <2>1. PICK m : m = NewCall(r, Owner[q], p)
    OBVIOUS
  <2>2. /\ m \in Call /\ m \notin issued /\ issued' = issued \cup {m}
        /\ UNCHANGED <<executed, epoch, inside>>
        /\ m.id = Len(calls) + 1 /\ m.src = r /\ m.dst = Owner[q] /\ m.epoch = epoch[r]
    BY <1>7, <2>1 DEF BSIssue, NewCall
  <2>3. /\ IsFiniteSet(Pending) /\ Pending \subseteq issued
        /\ Len(calls) \in Nat /\ DOMAIN calls = 1 .. Len(calls) /\ calls \in Seq(AddCall)
    BY <1>1, TypeFacts DEF TypesOK
  <2>4. rec \in AddCall
    BY <1>5 DEF AddCall
  <2>5. /\ calls' \in Seq(AddCall) /\ DOMAIN calls' = 1 .. Len(calls) + 1
        /\ calls'[Len(calls) + 1] = rec /\ \A i \in DOMAIN calls : calls'[i] = calls[i]
    <3>1. calls' = Append(calls, rec)
      BY <1>7
    <3> HIDE DEF rec
    <3>2. calls' \in Seq(AddCall) /\ Len(calls') = Len(calls) + 1
      BY <2>3, <2>4, <3>1, AppendProperties
    <3>3. calls'[Len(calls) + 1] = rec /\ \A i \in 1 .. Len(calls) : calls'[i] = calls[i]
      BY <2>3, <2>4, <3>1, AppendProperties
    <3>4. DOMAIN calls' = 1 .. Len(calls')
      BY <3>2, LenProperties
    <3> QED
      BY <2>3, <3>2, <3>3, <3>4
  <2>6. \A c \in issued : c.id \in DOMAIN calls /\ c.id # m.id /\ calls'[c.id] = calls[c.id]
    BY <1>1, <2>2, <2>3, <2>5 DEF CallInv
  <2>7. Pending' = Pending \cup {m} /\ m \notin Pending
    <3>1. m \notin executed
      BY <1>1, <2>2 DEF TypesOK
    <3> QED
      BY <2>2, <3>1 DEF Pending
  <2>8. CallInv'
    <3>1. \A c \in issued' : c.id \in DOMAIN calls'
      BY <2>2, <2>3, <2>5, <2>6
    <3>2. \A c, d \in issued' : c.id = d.id => c = d
      BY <1>1, <2>2, <2>6 DEF CallInv
    <3>3. ASSUME NEW c \in Pending'
          PROVE  /\ epoch'[c.src] = c.epoch /\ \A t \in Rank : epoch'[t] <= c.epoch
                 /\ c.dst = Owner[calls'[c.id].key]
      <4>1. CASE c \in Pending
        BY <1>1, <2>2, <2>3, <2>6, <4>1 DEF CallInv
      <4>2. CASE c = m
        <5>1. \A t \in Rank : epoch[t] <= epoch[r]
          BY <1>1, AtFront
        <5> QED
          BY <2>2, <2>5, <4>2, <5>1
      <4> QED
        BY <2>7, <4>1, <4>2
    <3> QED
      BY <3>1, <3>2, <3>3 DEF CallInv
  <2>9. ASSUME NEW k \in Key PROVE Sending(k)' = Sending(k) + One(q, n)[k]
    <3>1. PICK P, Q, cl, dl : P = Pending /\ Q = Pending' /\ cl = calls /\ dl = calls'
      OBVIOUS
    <3>2. Sending(k) = CarriedOf(P, cl, k)
      BY <3>1, SumsAre DEF Summed
    <3>3. Sending(k)' = CarriedOf(Q, dl, k)
      <4>1. Summed'
        BY SumsAre, PTL
      <4> QED
        BY <3>1, <4>1 DEF Summed
    <3>4. CarriedOf(P, dl, k) = CarriedOf(P, cl, k)
      <4>1. \A c \in P : dl[c.id] = cl[c.id]
        BY <2>3, <2>6, <3>1
      <4> QED
        BY <4>1, CarriedKept
    <3>5. CarriedOf(Q, dl, k) = CarriedOf(P, dl, k) + (IF dl[m.id].key = k THEN dl[m.id].n ELSE 0)
      <4>1. /\ IsFiniteSet(P) /\ dl \in Seq(AddCall) /\ m \notin P /\ Q = P \cup {m}
            /\ m.id \in DOMAIN dl /\ \A c \in P : c.id \in DOMAIN dl
        BY <2>2, <2>3, <2>5, <2>6, <2>7, <3>1
      <4> QED
        BY <4>1, CarriedMore
    <3>6. dl[m.id].key = q /\ dl[m.id].n = n
      BY <2>2, <2>5, <3>1
    <3> QED
      BY <3>2, <3>3, <3>4, <3>5, <3>6 DEF One
  <2>10. ASSUME NEW k \in Key PROVE counts'[k] + Sending(k)' = counts[k] + Sending(k) + One(q, n)[k]
    BY <1>4, <1>5, <1>7, <2>9 DEF One
  <2>11. issued' \subseteq Call /\ IsFiniteSet(issued') /\ issued \subseteq issued'
    <3>1. issued \subseteq Call /\ IsFiniteSet(issued)
      BY <1>1 DEF TypesOK
    <3>2. IsFiniteSet(issued \cup {m})
      BY <3>1, FS_AddElement
    <3> QED
      BY <2>2, <3>1, <3>2
  <2>12. Moves(r, One(q, n))
    BY <1>5, <1>7, <2>2, <2>5, <2>8, <2>10, <2>11 DEF Moves
  <2> QED
    BY <1>3, <2>12
<1> QED
  BY <1>3, <1>6, <1>7
-----------------------------------------------------------------------------
(* A step of the main thread of r in its program: its cache becomes c and
   its frames st; x is sent, g inserted.                                   *)
Working(r, c, st, x, g) ==
  /\ r \notin inside \cup counting /\ epoch[r] < MaxEpoch
  /\ UNCHANGED collVars
  /\ Moves(r, x)
  /\ inserted' \in [0 .. MaxEpoch -> Counts]
  /\ \A f \in 0 .. MaxEpoch, k \in Key :
       inserted'[f][k] = inserted[f][k] + (IF f = epoch[r] THEN g[k] ELSE 0)
  /\ cache' = [cache EXCEPT ![r] = c] /\ stack' = [stack EXCEPT ![r] = st]
  /\ c = [s \in 1 .. Size |-> c[s]] /\ Row(c, st) /\ SlotOK(c, st)
  /\ \A k \in Key : Share(cache[r], stack[r], k) + g[k] = Share(c, st, k) + x[k]

LEMMA InCachesChange ==
  ASSUME RowsOK, RowsOK', NEW r \in Rank,
         \A s \in Rank \ {r} : cache'[s] = cache[s] /\ stack'[s] = stack[s], NEW k \in Key
  PROVE  InCaches(k)' = InCaches(k) - Share(cache[r], stack[r], k) + Share(cache'[r], stack'[r], k)
<1>1. PICK ca, sk, cb, sl : ca = cache /\ sk = stack /\ cb = cache' /\ sl = stack'
  OBVIOUS
<1>2. (\A s \in Rank : Row(ca[s], sk[s])) /\ (\A s \in Rank : Row(cb[s], sl[s]))
  BY <1>1 DEF RowsOK
<1>3. InCaches(k) = CachesOf(ca, sk, k)
  BY <1>1, RowsMean DEF RowSums
<1>4. InCaches(k)' = CachesOf(cb, sl, k)
  <2>1. RowsOK' => RowSums'
    BY RowsMean, PTL
  <2> QED
    BY <1>1, <2>1 DEF RowSums
<1>5. \A s \in Rank \ {r} : cb[s] = ca[s] /\ sl[s] = sk[s]
  BY <1>1
<1>6. CachesOf(cb, sl, k) = CachesOf(ca, sk, k) - Share(ca[r], sk[r], k) + Share(cb[r], sl[r], k)
  BY <1>2, <1>5, CachesChange
<1> QED
  BY <1>1, <1>3, <1>4, <1>6

LEMMA LockstepKept ==
  ASSUME LockstepInv, UNCHANGED <<epoch, inside, plan, counting>>
  PROVE  LockstepInv'
BY DEF LockstepInv

\* In the order in which Work adds them up.
LEMMA Exchange ==
  ASSUME NEW a \in Int, NEW b \in Int, NEW i \in Int, NEW o \in Int, NEW n \in Int, NEW x \in Int,
         NEW g \in Int, NEW a1 \in Int, NEW b1 \in Int, NEW i1,
         i1 = i - o + n, a1 + b1 = a + b + x, o + g = n + x
  PROVE  a1 + b1 + i1 = a + b + i + g
OBVIOUS

LEMMA Work ==
  ASSUME SetIInv, NEW r \in Rank, NEW c, NEW st, NEW x \in Counts, NEW g \in Counts,
         Working(r, c, st, x, g)
  PROVE  SetIInv'
<1>1. TypesOK /\ CachesOK /\ LockstepInv /\ CallInv /\ RowsOK
  BY IInvMeans DEF CachesOK
<1>2. /\ r \notin inside /\ r \notin counting /\ epoch[r] < MaxEpoch
      /\ UNCHANGED <<plan, file, counting, part, answer>> /\ UNCHANGED <<executed, epoch, inside>>
      /\ cache' = [cache EXCEPT ![r] = c] /\ stack' = [stack EXCEPT ![r] = st]
      /\ c = [s \in 1 .. Size |-> c[s]] /\ Row(c, st) /\ SlotOK(c, st)
  BY DEF Working, collVars, Moves
<1>3. TypesOK'
  <2>1. /\ issued' \subseteq Call /\ IsFiniteSet(issued') /\ issued \subseteq issued'
        /\ calls' \in Seq(AddCall) /\ counts' \in Counts
        /\ inserted' \in [0 .. MaxEpoch -> Counts]
    BY DEF Working, Moves
  <2> QED
    BY <1>1, <1>2, <2>1 DEF TypesOK
<1>4. CallInv' /\ LockstepInv'
  <2>1. CallInv'
    BY DEF Working, Moves
  <2> QED
    BY <1>1, <1>2, <2>1, LockstepKept
<1>5. /\ cache'[r] = c /\ stack'[r] = st
      /\ \A s \in Rank \ {r} : cache'[s] = cache[s] /\ stack'[s] = stack[s]
      /\ DOMAIN cache = Rank /\ DOMAIN stack = Rank
  <2>1. DOMAIN cache = Rank /\ DOMAIN stack = Rank
    BY <1>1 DEF CachesOK
  <2> QED
    BY <1>2, <2>1
<1>6. CachesOK'
  <2>1. RowsOK'
    BY <1>1, <1>2, <1>5 DEF RowsOK
  <2>2. stack' = [s \in Rank |-> stack'[s]]
    BY <1>1, <1>2 DEF CachesOK
  <2>3. cache' = [s \in Rank |-> [t \in 1 .. Size |-> cache'[s][t]]]
    <3>1. \A s \in Rank : cache'[s] = [t \in 1 .. Size |-> cache'[s][t]]
      <4>1. \A s \in Rank : cache[s] = [t \in 1 .. Size |-> cache[s][t]]
        BY <1>1 DEF CachesOK
      <4> QED
        BY <1>2, <1>5, <4>1
    <3>2. cache' = [s \in Rank |-> cache'[s]]
      BY <1>2, <1>5
    <3> QED
      BY <3>1, <3>2
  <2>4. \A s \in Rank : SlotOK(cache'[s], stack'[s])
    BY <1>1, <1>2, <1>5 DEF CachesOK
  <2>5. \A s \in Rank : stack'[s] # <<>> => s \notin inside \cup counting /\ epoch[s] < MaxEpoch
    BY <1>1, <1>2, <1>5 DEF CachesOK
  <2>6. \A s \in Rank : s \in inside => \A t \in 1 .. Size : cache'[s][t] = Free
    BY <1>1, <1>2, <1>5 DEF CachesOK
  <2> QED
    BY <1>2, <2>1, <2>2, <2>3, <2>4, <2>5, <2>6 DEF CachesOK
<1>7. Balance(r, g)
  <2>1. \A s \in Rank : epoch[s] <= epoch[r]
    BY <1>1, <1>2, AtFront
  <2>2. ASSUME NEW k \in Key
        PROVE  /\ counts'[k] + Sending(k)' + InCaches(k)' = counts[k] + Sending(k) + InCaches(k) + g[k]
               /\ counts'[k] # counts[k] => Owner[k] = r
    <3>1. InCaches(k)' = InCaches(k) - Share(cache[r], stack[r], k) + Share(c, st, k)
      <4>1. RowsOK'
        BY <1>6 DEF CachesOK
      <4> QED
        BY <1>1, <1>5, <4>1, InCachesChange
    <3>2. counts'[k] + Sending(k)' = counts[k] + Sending(k) + x[k]
      BY DEF Working, Moves
    <3>6. Share(cache[r], stack[r], k) + g[k] = Share(c, st, k) + x[k]
      BY DEF Working
    <3>7. counts'[k] # counts[k] => Owner[k] = r
      BY DEF Working, Moves
    <3>3. Share(cache[r], stack[r], k) \in Nat /\ Share(c, st, k) \in Nat
      BY <1>1, <1>2, ShareIs DEF RowsOK
    <3>4. x[k] \in Nat /\ g[k] \in Nat /\ counts[k] \in Nat /\ Sending(k) \in Int /\ InCaches(k) \in Int
      BY <1>1, SumTypes DEF Sound, SumsOK, Counts
    <3>5. counts'[k] \in Nat /\ Sending(k)' \in Int
      <4>1. Sound' => SumsOK'
        BY SumTypes, PTL
      <4> QED
        BY <1>3, <1>4, <1>6, <4>1 DEF Sound, SumsOK, CachesOK
    <3>8. counts'[k] + Sending(k)' + InCaches(k)' = counts[k] + Sending(k) + InCaches(k) + g[k]
      <4>1. PICK a, b, i, o, n, a1, b1, i1 :
               /\ a = counts[k] /\ b = Sending(k) /\ i = InCaches(k)
               /\ o = Share(cache[r], stack[r], k) /\ n = Share(c, st, k)
               /\ a1 = counts'[k] /\ b1 = Sending(k)' /\ i1 = InCaches(k)'
        OBVIOUS
      <4>2. /\ a \in Int /\ b \in Int /\ i \in Int /\ o \in Int /\ n \in Int
            /\ x[k] \in Int /\ g[k] \in Int /\ a1 \in Int /\ b1 \in Int
        BY <3>3, <3>4, <3>5, <4>1
      <4>3. i1 = i - o + n /\ a1 + b1 = a + b + x[k] /\ o + g[k] = n + x[k]
        BY <3>1, <3>2, <3>6, <4>1
      <4>4. a1 + b1 + i1 = a + b + i + g[k]
        BY <4>2, <4>3, Exchange
      <4> QED
        BY <4>1, <4>4
    <3> QED
      BY <3>7, <3>8
  <2>3. \A f \in 0 .. MaxEpoch, k \in Key :
           inserted'[f][k] = inserted[f][k] + (IF f = epoch[r] THEN g[k] ELSE 0)
    BY DEF Working
  <2> QED
    BY <1>2, <2>1, <2>2, <2>3 DEF Balance
<1>8. Conserved' /\ FlowInv' /\ DueInv' /\ CountExact'
  <2>1. RowsOK'
    BY <1>6 DEF CachesOK
  <2> QED
    BY <1>3, <1>4, <1>7, <2>1, FlowStep
<1>9. SetIInv' <=> /\ TypesOK' /\ CachesOK' /\ LockstepInv' /\ CallInv' /\ FlowInv' /\ DueInv'
                   /\ Conserved' /\ CountExact'
  BY IInvMeans, PTL
<1> QED
  BY <1>3, <1>4, <1>6, <1>8, <1>9
-----------------------------------------------------------------------------
(* What the frames mean for the slots.                                     *)
LEMMA SlotForms ==
  ASSUME NEW c
  PROVE  /\ Slots(<<>>) = {} /\ Adding(<<>>) = {} /\ StackForm(<<>>)
         /\ SlotOK(c, <<>>) <=> \A t \in 1 .. Size : c[t].n < MaxCached
BY DEF Slots, Adding, SlotOK, StackForm

LEMMA AllForms ==
  ASSUME NEW c, NEW s \in 1 .. Size + 1
  PROVE  /\ Slots(<<AllFrame(s)>>) = {} /\ Adding(<<AllFrame(s)>>) = {} /\ StackForm(<<AllFrame(s)>>)
         /\ SlotOK(c, <<AllFrame(s)>>)
              <=> \A t \in 1 .. Size : c[t].n < MaxCached /\ (t < s => c[t] = Free)
<1>1. PICK st : st = <<AllFrame(s)>>
  OBVIOUS
<1>2. DOMAIN st = {1} /\ st # <<>> /\ st[1].kind = "all" /\ st[1].slot = s /\ st[1].fill = {}
  BY <1>1, FrameFacts
<1>3. Slots(st) = {} /\ Adding(st) = {}
  BY <1>2 DEF Slots, Adding
<1>4. SlotOK(c, st) <=> \A t \in 1 .. Size : c[t].n < MaxCached /\ (t < s => c[t] = Free)
  BY <1>2, <1>3 DEF SlotOK
<1> QED
  BY <1>1, <1>3, <1>4 DEF StackForm

LEMMA FlushForms ==
  ASSUME NEW c, NEW s, NEW K
  PROVE  /\ Slots(<<FlushFrame(s, K)>>) = {s} /\ Adding(<<FlushFrame(s, K)>>) = K
         /\ SlotOK(c, <<FlushFrame(s, K)>>) <=> \A t \in (1 .. Size) \ {s} : c[t].n < MaxCached
<1>1. PICK st : st = <<FlushFrame(s, K)>>
  OBVIOUS
<1>2. DOMAIN st = {1} /\ st # <<>> /\ st[1].kind = "flush" /\ st[1].slot = s /\ st[1].fill = K
  BY <1>1, FrameFacts
<1>3. Slots(st) = {s} /\ Adding(st) = K
  BY <1>2 DEF Slots, Adding
<1>4. SlotOK(c, st) <=> \A t \in (1 .. Size) \ {s} : c[t].n < MaxCached
  BY <1>2, <1>3 DEF SlotOK
<1> QED
  BY <1>1, <1>3, <1>4

LEMMA LoopForms ==
  ASSUME NEW c, NEW s \in 1 .. Size
  PROVE  LET st == <<FlushFrame(s, {}), AllFrame(s + 1)>>
         IN  /\ Slots(st) = {s} /\ Adding(st) = {}
             /\ SlotOK(c, st) <=> \A t \in (1 .. Size) \ {s} : c[t].n < MaxCached /\ (t < s => c[t] = Free)
<1>1. PICK st : st = <<FlushFrame(s, {}), AllFrame(s + 1)>>
  OBVIOUS
<1>2. /\ DOMAIN st = {1, 2} /\ st # <<>> /\ st[1].kind = "flush" /\ st[1].slot = s /\ st[1].fill = {}
      /\ st[2].kind = "all" /\ st[2].slot = s + 1
  BY <1>1, FrameFacts
<1>3. Slots(st) = {s} /\ Adding(st) = {}
  BY <1>2 DEF Slots, Adding
<1>4. \A t \in (1 .. Size) \ {s} : t < s + 1 <=> t < s
  BY SlotAssumption
<1>5. SlotOK(c, st) <=> \A t \in (1 .. Size) \ {s} : c[t].n < MaxCached /\ (t < s + 1 => c[t] = Free)
  BY <1>2, <1>3 DEF SlotOK
<1> QED
  BY <1>1, <1>3, <1>4, <1>5

LEMMA ShareAt ==
  ASSUME NEW c, NEW st, Slots(st) = {}, Adding(st) = {}, NEW k \in Key
  PROVE  Share(c, st, k) = IF c[Slot[k]].key = {k} THEN c[Slot[k]].n + 0 ELSE 0
BY DEF Share

LEMMA ShareFlushing ==
  ASSUME NEW c, NEW st, NEW s, Slots(st) = {s}, NEW k \in Key
  PROVE  Share(c, st, k) = (IF Slot[k] # s /\ c[Slot[k]].key = {k} THEN c[Slot[k]].n ELSE 0)
                             + (IF Adding(st) = {k} THEN 1 ELSE 0)
BY DEF Share

LEMMA RankFacts ==
  ASSUME SetIInv, NEW r \in Rank
  PROVE  /\ Row(cache[r], stack[r]) /\ SlotOK(cache[r], stack[r])
         /\ cache[r] = [t \in 1 .. Size |-> cache[r][t]]
         /\ stack[r] # <<>> => r \notin inside \cup counting /\ epoch[r] < MaxEpoch
         /\ r \in inside => \A t \in 1 .. Size : cache[r][t] = Free
         /\ cache = [s \in Rank |-> cache[s]] /\ stack = [s \in Rank |-> stack[s]]
<1>1. CachesOK
  BY IInvMeans
<1> QED
  BY <1>1 DEF CachesOK, RowsOK

LEMMA InsertedKept ==
  ASSUME SetIInv, NEW r, UNCHANGED inserted
  PROVE  /\ inserted' \in [0 .. MaxEpoch -> Counts]
         /\ \A f \in 0 .. MaxEpoch, k \in Key :
              inserted'[f][k] = inserted[f][k] + (IF f = epoch[r] THEN Nothing[k] ELSE 0)
<1>1. inserted \in [0 .. MaxEpoch -> Counts]
  BY IInvMeans DEF TypesOK
<1>2. \A f \in 0 .. MaxEpoch, k \in Key : inserted[f][k] \in Nat /\ Nothing[k] = 0
  BY <1>1 DEF Counts, Nothing
<1> QED
  BY <1>1, <1>2

LEMMA InsertedMore ==
  ASSUME SetIInv, NEW r \in Rank, NEW q \in Key,
         inserted' = [inserted EXCEPT ![epoch[r]][q] = @ + 1]
  PROVE  /\ inserted' \in [0 .. MaxEpoch -> Counts]
         /\ \A f \in 0 .. MaxEpoch, k \in Key :
              inserted'[f][k] = inserted[f][k] + (IF f = epoch[r] THEN One(q, 1)[k] ELSE 0)
<1>1. inserted \in [0 .. MaxEpoch -> Counts] /\ epoch[r] \in 0 .. MaxEpoch
  BY IInvMeans, TypeFacts DEF TypesOK
<1> DEFINE new == [inserted[epoch[r]] EXCEPT ![q] = inserted[epoch[r]][q] + 1]
<1>2. inserted' = [inserted EXCEPT ![epoch[r]] = new]
  BY <1>1
<1>3. new \in Counts /\ \A k \in Key : new[k] = inserted[epoch[r]][k] + One(q, 1)[k]
  <2>1. inserted[epoch[r]] \in [Key -> Nat]
    BY <1>1 DEF Counts
  <2> QED
    BY <2>1 DEF Counts, One
<1> HIDE DEF new
<1>4. \A f \in 0 .. MaxEpoch : inserted'[f] = IF f = epoch[r] THEN new ELSE inserted[f]
  BY <1>1, <1>2
<1>5. \A f \in 0 .. MaxEpoch, k \in Key : inserted[f][k] \in Nat
  BY <1>1 DEF Counts
<1>6. inserted' \in [0 .. MaxEpoch -> Counts]
  BY <1>1, <1>2, <1>3
<1>7. ASSUME NEW f \in 0 .. MaxEpoch, NEW k \in Key
      PROVE  inserted'[f][k] = inserted[f][k] + (IF f = epoch[r] THEN One(q, 1)[k] ELSE 0)
  <2>1. CASE f = epoch[r]
    BY <1>3, <1>4, <2>1
  <2>2. CASE f # epoch[r]
    BY <1>4, <1>5, <2>2
  <2> QED
    BY <2>1, <2>2
<1> QED
  BY <1>6, <1>7

LEMMA CountsTypes ==
  /\ Nothing \in Counts /\ \A k \in Key : Nothing[k] = 0
  /\ \A q \in Key, n \in 1 .. MaxCached : One(q, n) \in Counts
  /\ \A q \in Key : One(q, 1) \in Counts
  /\ \A q, n : \A k \in Key : One(q, n)[k] = IF k = q THEN n ELSE 0
BY SlotAssumption DEF Nothing, One, Counts

LEMMA Pair ==
  ASSUME NEW x, NEW y
  PROVE  <<x>> \o <<y>> = <<x, y>>
<1> DEFINE t == <<x>> \o <<y>>
<1>1. <<x>> \in Seq({x, y}) /\ <<y>> \in Seq({x, y}) /\ Len(<<x>>) = 1 /\ Len(<<y>>) = 1
  OBVIOUS
<1>2. t \in Seq({x, y}) /\ Len(t) = 2 /\ t[1] = x /\ t[2] = y
  BY <1>1, ConcatProperties
<1> HIDE DEF t
<1>3. t = <<x, y>>
  BY <1>2
<1> QED
  BY <1>3 DEF t

LEMMA CollectiveStep ==
  ASSUME SetIInv, NEW r \in Rank, Collective(r)
  PROVE  SetIInv'
<1>1. /\ stack[r] = <<>> /\ r \notin inside \cup counting /\ epoch[r] < MaxEpoch
      /\ stack' = [stack EXCEPT ![r] = <<AllFrame(1)>>]
      /\ UNCHANGED <<calls, cache, counts, inserted, collVars, bsVars>>
  BY DEF Collective, Program
<1>2. PICK c, st : c = cache[r] /\ st = <<AllFrame(1)>>
  OBVIOUS
<1>3. /\ Row(c, <<>>) /\ SlotOK(c, <<>>) /\ c = [t \in 1 .. Size |-> c[t]]
      /\ cache' = [cache EXCEPT ![r] = c]
  <2>1. Row(c, <<>>) /\ SlotOK(c, <<>>) /\ c = [t \in 1 .. Size |-> c[t]]
    BY <1>1, <1>2, RankFacts
  <2>2. cache = [s \in Rank |-> cache[s]]
    BY RankFacts
  <2> QED
    BY <1>1, <1>2, <2>1, <2>2
<1>4. Slots(st) = {} /\ Adding(st) = {} /\ StackForm(st) /\ SlotOK(c, st)
  <2>1. 1 \in 1 .. Size + 1 /\ \A t \in 1 .. Size : ~(t < 1)
    BY SlotAssumption
  <2>2. \A t \in 1 .. Size : c[t].n < MaxCached
    BY <1>3, SlotForms
  <2> QED
    BY <1>2, <2>1, <2>2, AllForms
<1>5. Row(c, st)
  BY <1>3, <1>4 DEF Row
<1>6. Moves(r, Nothing)
  BY <1>1, StillMoves
<1>7. ASSUME NEW k \in Key PROVE Share(cache[r], stack[r], k) + Nothing[k] = Share(c, st, k) + Nothing[k]
  <2>1. Slots(stack[r]) = {} /\ Adding(stack[r]) = {}
    BY <1>1, SlotForms
  <2>2. Share(cache[r], stack[r], k) = Share(c, st, k)
    BY <1>2, <1>4, <2>1, ShareAt
  <2> QED
    BY <2>2
<1>8. /\ inserted' \in [0 .. MaxEpoch -> Counts]
      /\ \A f \in 0 .. MaxEpoch, k \in Key :
           inserted'[f][k] = inserted[f][k] + (IF f = epoch[r] THEN Nothing[k] ELSE 0)
  BY <1>1, InsertedKept
<1>9. Working(r, c, st, Nothing, Nothing)
  BY <1>1, <1>2, <1>3, <1>4, <1>5, <1>6, <1>7, <1>8 DEF Working
<1> QED
  BY <1>9, Work, CountsTypes

LEMMA InsertStep ==
  ASSUME SetIInv, NEW r \in Rank, NEW k \in Key, Insert(r, k)
  PROVE  SetIInv'
<1> DEFINE s == Slot[k]
<1>1. /\ stack[r] = <<>> /\ r \notin inside \cup counting /\ epoch[r] < MaxEpoch
      /\ UNCHANGED collVars
      /\ inserted' = [inserted EXCEPT ![epoch[r]][k] = @ + 1]
  BY DEF Insert, Program, CacheInsert
<1>2. PICK b, e, n, full :
         /\ b = cache[r] /\ e = b[s] /\ n = (IF e.n = -1 THEN 1 ELSE e.n + 1)
         /\ full = [b EXCEPT ![s] = Cached(k, n)]
  OBVIOUS
<1>3. \/ e.n # -1 /\ e.key # {k} /\ Flush(r, s, b, {k}, <<>>, 0)
      \/ /\ e.n = -1 \/ e.key = {k}
         /\ n = MaxCached
         /\ Flush(r, s, full, {}, <<>>, 0)
      \/ /\ e.n = -1 \/ e.key = {k}
         /\ n # MaxCached
         /\ cache' = [cache EXCEPT ![r] = full] /\ stack' = [stack EXCEPT ![r] = <<>>]
         /\ UNCHANGED <<calls, counts, bsVars>>
  BY <1>2 DEF Insert, CacheInsert
<1>4. /\ Row(b, <<>>) /\ SlotOK(b, <<>>) /\ b = [t \in 1 .. Size |-> b[t]]
      /\ s \in 1 .. Size /\ e \in Entry(s) /\ MaxCached \in Nat /\ MaxCached > 1
      /\ \A t \in 1 .. Size : b[t].n < MaxCached /\ b[t] \in Entry(t)
  <2>1. Row(b, <<>>) /\ SlotOK(b, <<>>) /\ b = [t \in 1 .. Size |-> b[t]]
    BY <1>1, <1>2, RankFacts
  <2>2. s \in 1 .. Size /\ MaxCached \in Nat /\ MaxCached > 1
    BY SlotAssumption
  <2>3. \A t \in 1 .. Size : b[t].n < MaxCached /\ b[t] \in Entry(t)
    BY <2>1, SlotForms DEF Row
  <2> QED
    BY <1>2, <2>1, <2>2, <2>3
<1>5. /\ inserted' \in [0 .. MaxEpoch -> Counts]
      /\ \A f \in 0 .. MaxEpoch, j \in Key :
           inserted'[f][j] = inserted[f][j] + (IF f = epoch[r] THEN One(k, 1)[j] ELSE 0)
  BY <1>1, InsertedMore
<1>6. \A j \in Key : Share(cache[r], stack[r], j) = IF b[Slot[j]].key = {j} THEN b[Slot[j]].n + 0 ELSE 0
  BY <1>1, <1>2, SlotForms, ShareAt
<1>7. \A t \in 1 .. Size, j \in Key :
         b[t].n \in Int /\ (b[t].key = {j} => Slot[j] = t /\ b[t] = Cached(j, b[t].n) /\ b[t].n \in 1 .. MaxCached)
  BY <1>4, EntryFacts
<1>8. \A j \in Key : Slot[j] \in 1 .. Size
  BY SlotAssumption
<1>9. e = Free \/ e.key = {k} => /\ n \in 1 .. MaxCached /\ full = [t \in 1 .. Size |-> full[t]]
                                 /\ full[s] = Cached(k, n) /\ \A t \in (1 .. Size) \ {s} : full[t] = b[t]
                                 /\ Cached(k, n).key = {k} /\ Cached(k, n).n = n
  <2>1. e = Free => e.n = -1
    BY DEF Free
  <2>2. ASSUME e = Free \/ e.key = {k} PROVE n \in 1 .. MaxCached
    <3>1. CASE e = Free
      BY <1>2, <1>4, <2>1, <3>1
    <3>2. CASE e.key = {k}
      <4>1. e.n \in 1 .. MaxCached /\ e.n < MaxCached
        BY <1>2, <1>4, <1>7, <3>2
      <4> QED
        BY <1>2, <1>4, <4>1
    <3> QED
      BY <2>2, <3>1, <3>2
  <2>3. full[s] = Cached(k, n) /\ \A t \in (1 .. Size) \ {s} : full[t] = b[t]
    BY <1>2, <1>4
  <2>4. full = [t \in 1 .. Size |-> full[t]]
    BY <1>2, <1>4
  <2> QED
    BY <2>2, <2>3, <2>4 DEF Cached
<1>10. e.n = -1 <=> e = Free
  BY <1>4, EntryFacts
\* Another key is in the slot: its count is flushed, k will take its place.
<1>11. CASE e.n # -1 /\ e.key # {k} /\ Flush(r, s, b, {k}, <<>>, 0)
  <2>1. PICK q \in Key : Slot[q] = s /\ e.n \in 1 .. MaxCached /\ e = Cached(q, e.n)
    BY <1>4, <1>10, <1>11, EntryFacts
  <2>2. e.key = {q} /\ q # k
    BY <1>11, <2>1 DEF Cached
  <2>3. PICK st : st = <<FlushFrame(s, {k})>>
    OBVIOUS
  <2>4. /\ Moves(r, One(q, e.n))
        /\ cache' = [cache EXCEPT ![r] = b] /\ stack' = [stack EXCEPT ![r] = st]
    <3>1. b[s] = Cached(q, e.n) /\ r \notin inside /\ e.n \in 1 .. MaxCached
      BY <1>1, <1>2, <2>1
    <3>2. <<FlushFrame(s, {k})>> \o <<>> = st
      BY <2>3
    <3> HIDE DEF s
    <3> QED
      BY <1>11, <3>1, <3>2, FlushMoves
  <2>5. Slots(st) = {s} /\ Adding(st) = {k} /\ SlotOK(b, st)
    BY <1>4, <2>3, FlushForms
  <2>6. Row(b, st)
    <3>1. StackForm(st)
      BY <1>4, <2>3 DEF StackForm
    <3> QED
      BY <1>4, <3>1 DEF Row
  <2>7. ASSUME NEW j \in Key
        PROVE  Share(cache[r], stack[r], j) + One(k, 1)[j] = Share(b, st, j) + One(q, e.n)[j]
    <3>1. Share(b, st, j) = (IF Slot[j] # s /\ b[Slot[j]].key = {j} THEN b[Slot[j]].n ELSE 0)
                              + (IF {k} = {j} THEN 1 ELSE 0)
      <4>1. Share(b, st, j) = (IF Slot[j] # s /\ b[Slot[j]].key = {j} THEN b[Slot[j]].n ELSE 0)
                                + (IF Adding(st) = {j} THEN 1 ELSE 0)
        BY <2>5, ShareFlushing
      <4> QED
        BY <2>5, <4>1
    <3>2. CASE j = q
      BY <1>2, <1>6, <2>1, <2>2, <3>1, <3>2, CountsTypes
    <3>3. CASE j = k
      <4>1. b[Slot[j]].key # {j}
        BY <1>2, <1>11, <3>3
      <4> QED
        BY <1>6, <2>2, <3>1, <3>3, <4>1, CountsTypes
    <3>4. CASE j # q /\ j # k
      <4>1. {k} # {j} /\ (Slot[j] = s => b[Slot[j]].key # {j})
        BY <1>2, <2>2, <3>4
      <4>2. b[Slot[j]].n \in Int
        BY <1>7, <1>8
      <4>3. One(k, 1)[j] = 0 /\ One(q, e.n)[j] = 0
        BY <3>4, CountsTypes
      <4> QED
        BY <1>6, <3>1, <4>1, <4>2, <4>3
    <3> QED
      BY <3>2, <3>3, <3>4
  <2>8. Working(r, b, st, One(q, e.n), One(k, 1))
    BY <1>1, <1>4, <1>5, <2>4, <2>5, <2>6, <2>7 DEF Working
  <2>9. One(q, e.n) \in Counts /\ One(k, 1) \in Counts
    BY <2>1, CountsTypes
  <2> QED
    BY <2>8, <2>9, Work
\* The count of k has reached its maximum and is flushed.
<1>12. CASE /\ e.n = -1 \/ e.key = {k}
            /\ n = MaxCached
            /\ Flush(r, s, full, {}, <<>>, 0)
  <2>1. e.key = {k} /\ n = e.n + 1 /\ e.n \in 1 .. MaxCached
    <3>1. e.n # -1
      BY <1>2, <1>4, <1>12
    <3> QED
      BY <1>2, <1>4, <1>7, <1>12, <3>1
  <2>2. PICK st : st = <<FlushFrame(s, {})>>
    OBVIOUS
  <2>3. /\ Moves(r, One(k, n))
        /\ cache' = [cache EXCEPT ![r] = full] /\ stack' = [stack EXCEPT ![r] = st]
    <3>1. full[s] = Cached(k, n) /\ r \notin inside /\ n \in 1 .. MaxCached
      BY <1>1, <1>9, <2>1
    <3>2. <<FlushFrame(s, {})>> \o <<>> = st
      BY <2>2
    <3> HIDE DEF s
    <3> QED
      BY <1>12, <3>1, <3>2, FlushMoves
  <2>4. Slots(st) = {s} /\ Adding(st) = {} /\ SlotOK(full, st)
    <3>1. \A t \in (1 .. Size) \ {s} : full[t].n < MaxCached
      BY <1>4, <1>9, <2>1
    <3> QED
      BY <2>2, <3>1, FlushForms
  <2>5. Row(full, st)
    <3>1. StackForm(st)
      BY <1>4, <2>2 DEF StackForm
    <3>2. \A t \in 1 .. Size : full[t] \in Entry(t)
      BY <1>4, <1>9, <2>1, EntryOf
    <3> QED
      BY <3>1, <3>2 DEF Row
  <2>6. ASSUME NEW j \in Key
        PROVE  Share(cache[r], stack[r], j) + One(k, 1)[j] = Share(full, st, j) + One(k, n)[j]
    <3>1. Share(full, st, j) = (IF Slot[j] # s /\ full[Slot[j]].key = {j} THEN full[Slot[j]].n ELSE 0)
                                 + (IF {} = {j} THEN 1 ELSE 0)
      <4>1. Share(full, st, j) = (IF Slot[j] # s /\ full[Slot[j]].key = {j} THEN full[Slot[j]].n ELSE 0)
                                   + (IF Adding(st) = {j} THEN 1 ELSE 0)
        BY <2>4, ShareFlushing
      <4> QED
        BY <2>4, <4>1
    <3>2. CASE j = k
      BY <1>2, <1>6, <2>1, <3>1, <3>2, CountsTypes
    <3>3. CASE j # k
      <4>1. Slot[j] = s => b[Slot[j]].key # {j}
        BY <1>2, <2>1, <3>3
      <4>2. b[Slot[j]].n \in Int /\ (Slot[j] # s => full[Slot[j]] = b[Slot[j]])
        BY <1>7, <1>8, <1>9, <2>1
      <4>3. One(k, 1)[j] = 0 /\ One(k, n)[j] = 0
        BY <3>3, CountsTypes
      <4> QED
        BY <1>6, <3>1, <4>1, <4>2, <4>3
    <3> QED
      BY <3>2, <3>3
  <2>7. Working(r, full, st, One(k, n), One(k, 1))
    BY <1>1, <1>5, <1>9, <2>1, <2>3, <2>4, <2>5, <2>6 DEF Working
  <2>8. One(k, n) \in Counts /\ One(k, 1) \in Counts
    BY <1>9, <2>1, CountsTypes
  <2> QED
    BY <2>7, <2>8, Work
\* The count of k stays in the cache.
<1>13. CASE /\ e.n = -1 \/ e.key = {k}
            /\ n # MaxCached
            /\ cache' = [cache EXCEPT ![r] = full] /\ stack' = [stack EXCEPT ![r] = <<>>]
            /\ UNCHANGED <<calls, counts, bsVars>>
  <2>1. e = Free \/ e.key = {k}
    BY <1>10, <1>13
  <2>2. Moves(r, Nothing)
    BY <1>13, StillMoves
  <2>3. SlotOK(full, <<>>)
    <3>1. \A t \in 1 .. Size : full[t].n < MaxCached
      BY <1>4, <1>9, <1>13, <2>1
    <3> QED
      BY <3>1, SlotForms
  <2>4. Row(full, <<>>)
    <3>1. \A t \in 1 .. Size : full[t] \in Entry(t)
      BY <1>4, <1>9, <2>1, EntryOf
    <3> QED
      BY <3>1, SlotForms DEF Row
  <2>5. ASSUME NEW j \in Key
        PROVE  Share(cache[r], stack[r], j) + One(k, 1)[j] = Share(full, <<>>, j) + Nothing[j]
    <3>1. Share(full, <<>>, j) = IF full[Slot[j]].key = {j} THEN full[Slot[j]].n + 0 ELSE 0
      BY SlotForms, ShareAt
    <3>2. CASE j = k
      <4>1. Share(full, <<>>, j) = n + 0 /\ n \in Nat /\ One(k, 1)[j] = 1 /\ Nothing[j] = 0
        BY <1>4, <1>9, <2>1, <3>1, <3>2, CountsTypes
      <4>2. Share(cache[r], stack[r], j) = IF e.key = {j} THEN e.n + 0 ELSE 0
        BY <1>2, <1>6, <3>2
      <4>3. CASE e = Free
        <5>1. e.key # {j} /\ n = 1
          BY <1>2, <1>10, <4>3 DEF Free
        <5> QED
          BY <4>1, <4>2, <5>1
      <4>4. CASE e # Free
        <5>1. e.key = {j} /\ n = e.n + 1 /\ e.n \in Int
          BY <1>2, <1>4, <1>7, <1>10, <2>1, <3>2, <4>4
        <5> QED
          BY <4>1, <4>2, <5>1
      <4> QED
        BY <4>3, <4>4
    <3>3. CASE j # k
      <4>1. One(k, 1)[j] = 0 /\ Nothing[j] = 0
        BY <3>3, CountsTypes
      <4>2. CASE Slot[j] = s
        <5>1. b[Slot[j]].key # {j}
          BY <1>2, <2>1, <3>3, <4>2 DEF Free
        <5>2. full[Slot[j]].key # {j}
          BY <1>9, <2>1, <3>3, <4>2
        <5> QED
          BY <1>6, <3>1, <4>1, <5>1, <5>2
      <4>3. CASE Slot[j] # s
        <5>1. full[Slot[j]] = b[Slot[j]] /\ b[Slot[j]].n \in Int
          BY <1>7, <1>8, <1>9, <2>1, <4>3
        <5> QED
          BY <1>6, <3>1, <4>1, <5>1
      <4> QED
        BY <4>2, <4>3
    <3> QED
      BY <3>2, <3>3
  <2>6. Working(r, full, <<>>, Nothing, One(k, 1))
    BY <1>1, <1>5, <1>9, <1>13, <2>1, <2>2, <2>3, <2>4, <2>5 DEF Working
  <2> QED
    BY <2>6, Work, CountsTypes
<1> QED
  BY <1>3, <1>11, <1>12, <1>13

\* What the frames of a rank are when a flush, or the loop, is innermost.
LEMMA FlushTop ==
  ASSUME NEW st, StackForm(st), st # <<>>, st[1].kind = "flush"
  PROVE  \E s \in 1 .. Size :
           /\ st[1].slot = s /\ Slots(st) = {s}
           /\ \/ \E k \in Key : Slot[k] = s /\ st = <<FlushFrame(s, {k})>> /\ st[1].fill = {k} /\ Tail(st) = <<>>
              \/ st = <<FlushFrame(s, {})>> /\ st[1].fill = {} /\ Tail(st) = <<>>
              \/ st = <<FlushFrame(s, {}), AllFrame(s + 1)>> /\ st[1].fill = {} /\ Tail(st) = <<AllFrame(s + 1)>>
<1>1. ASSUME NEW s, st = <<AllFrame(s)>> PROVE FALSE
  BY <1>1, FrameFacts
<1>2. PICK s \in 1 .. Size : \/ \E k \in Key : Slot[k] = s /\ st = <<FlushFrame(s, {k})>>
                             \/ st = <<FlushFrame(s, {})>>
                             \/ st = <<FlushFrame(s, {}), AllFrame(s + 1)>>
  BY <1>1 DEF StackForm
<1>3. Slots(st) = {st[1].slot}
  BY DEF Slots
<1>4. CASE \E k \in Key : Slot[k] = s /\ st = <<FlushFrame(s, {k})>>
  <2>1. PICK k \in Key : Slot[k] = s /\ st = <<FlushFrame(s, {k})>>
    BY <1>4
  <2>2. st[1].slot = s /\ st[1].fill = {k} /\ Tail(st) = <<>>
    BY <2>1, FrameFacts
  <2> QED
    BY <1>3, <2>1, <2>2
<1>5. CASE st = <<FlushFrame(s, {})>>
  <2>1. st[1].slot = s /\ st[1].fill = {} /\ Tail(st) = <<>>
    BY <1>5, FrameFacts
  <2> QED
    BY <1>5, <1>3, <2>1
<1>6. CASE st = <<FlushFrame(s, {}), AllFrame(s + 1)>>
  <2>1. st[1].slot = s /\ st[1].fill = {} /\ Tail(st) = <<AllFrame(s + 1)>>
    BY <1>6, FrameFacts
  <2> QED
    BY <1>6, <1>3, <2>1
<1> QED
  BY <1>2, <1>4, <1>5, <1>6

LEMMA AllTop ==
  ASSUME NEW st, StackForm(st), st # <<>>, st[1].kind = "all"
  PROVE  \E s \in 1 .. Size + 1 : st = <<AllFrame(s)>> /\ st[1].slot = s
<1>1. ASSUME NEW s, NEW K, st = <<FlushFrame(s, K)>> PROVE FALSE
  BY <1>1, FrameFacts
<1>2. ASSUME NEW s, st = <<FlushFrame(s, {}), AllFrame(s + 1)>> PROVE FALSE
  BY <1>2, FrameFacts
<1>3. PICK s \in 1 .. Size + 1 : st = <<AllFrame(s)>>
  BY <1>1, <1>2 DEF StackForm
<1> QED
  BY <1>3, FrameFacts

LEMMA FlushedStep ==
  ASSUME SetIInv, NEW r \in Rank, Flushed(r)
  PROVE  SetIInv'
<1>1. PICK st, b : st = stack[r] /\ b = cache[r]
  OBVIOUS
<1>2. st # <<>> /\ st[1].kind = "flush"
  BY <1>1 DEF Flushed, Top
<1>3. /\ Row(b, st) /\ SlotOK(b, st) /\ b = [t \in 1 .. Size |-> b[t]] /\ StackForm(st)
      /\ r \notin inside \cup counting /\ epoch[r] < MaxEpoch
  <2>1. Row(b, st) /\ SlotOK(b, st) /\ b = [t \in 1 .. Size |-> b[t]]
    BY <1>1, RankFacts
  <2>2. r \notin inside \cup counting /\ epoch[r] < MaxEpoch
    BY <1>1, <1>2, RankFacts
  <2> QED
    BY <2>1, <2>2 DEF Row
<1>4. PICK s \in 1 .. Size :
         /\ st[1].slot = s /\ Slots(st) = {s}
         /\ \/ \E k \in Key : Slot[k] = s /\ st = <<FlushFrame(s, {k})>> /\ st[1].fill = {k} /\ Tail(st) = <<>>
            \/ st = <<FlushFrame(s, {})>> /\ st[1].fill = {} /\ Tail(st) = <<>>
            \/ st = <<FlushFrame(s, {}), AllFrame(s + 1)>> /\ st[1].fill = {} /\ Tail(st) = <<AllFrame(s + 1)>>
  BY <1>2, <1>3, FlushTop
<1>5. PICK K, new, c : /\ K = st[1].fill
                       /\ new = (IF K = {} THEN Free ELSE [key |-> K, n |-> 1])
                       /\ c = [b EXCEPT ![s] = new]
  OBVIOUS
<1>6. /\ cache' = [cache EXCEPT ![r] = c] /\ stack' = [stack EXCEPT ![r] = Tail(st)]
      /\ UNCHANGED <<calls, counts, inserted, collVars, bsVars>>
  BY <1>1, <1>4, <1>5 DEF Flushed, Top
<1>7. /\ c[s] = new /\ \A t \in (1 .. Size) \ {s} : c[t] = b[t]
      /\ c = [t \in 1 .. Size |-> c[t]]
  BY <1>3, <1>5
<1>8. \/ K = {} /\ new = Free
      \/ \E k \in Key : K = {k} /\ Slot[k] = s /\ new = Cached(k, 1)
  BY <1>4, <1>5 DEF Cached
<1>9. new \in Entry(s) /\ new.n < MaxCached /\ (K = {} => new = Free)
  <2>1. MaxCached \in Nat /\ MaxCached > 1 /\ 1 \in 1 .. MaxCached
    BY SlotAssumption
  <2>2. Free \in Entry(s) /\ Free.n < MaxCached
    BY <2>1 DEF Entry, Free
  <2>3. \A k \in Key : Slot[k] = s => Cached(k, 1) \in Entry(s) /\ Cached(k, 1).n < MaxCached
    BY <2>1, EntryOf DEF Cached
  <2> QED
    BY <1>5, <1>8, <2>2, <2>3
<1>10. /\ StackForm(Tail(st)) /\ SlotOK(c, Tail(st))
       /\ Slots(Tail(st)) = {} /\ Adding(Tail(st)) = {}
  <2>1. CASE Tail(st) = <<>> /\ SlotOK(b, st) /\ \E k : st = <<FlushFrame(s, k)>>
    <3>1. \A t \in (1 .. Size) \ {s} : b[t].n < MaxCached
      BY <2>1, FlushForms
    <3>2. \A t \in 1 .. Size : c[t].n < MaxCached
      BY <1>7, <1>9, <3>1
    <3> QED
      BY <2>1, <3>2, SlotForms
  <2>2. CASE st = <<FlushFrame(s, {}), AllFrame(s + 1)>> /\ st[1].fill = {} /\ Tail(st) = <<AllFrame(s + 1)>>
    <3>1. \A t \in (1 .. Size) \ {s} : b[t].n < MaxCached /\ (t < s => b[t] = Free)
      BY <1>3, <2>2, LoopForms
    <3>2. \A t \in 1 .. Size : c[t].n < MaxCached /\ (t < s + 1 => c[t] = Free)
      <4>1. c[s] = Free /\ c[s].n < MaxCached
        BY <1>5, <1>7, <1>9, <2>2
      <4>2. \A t \in (1 .. Size) \ {s} : t < s + 1 => t < s
        BY SlotAssumption
      <4> QED
        BY <1>7, <3>1, <4>1, <4>2
    <3>3. s + 1 \in 1 .. Size + 1
      BY SlotAssumption
    <3> QED
      BY <2>2, <3>2, <3>3, AllForms
  <2> QED
    BY <1>3, <1>4, <2>1, <2>2
<1>11. Row(c, Tail(st))
  <2>1. \A t \in 1 .. Size : c[t] \in Entry(t)
    BY <1>3, <1>7, <1>9 DEF Row
  <2> QED
    BY <1>10, <2>1 DEF Row
<1>12. Moves(r, Nothing)
  BY <1>6, StillMoves
<1>13. ASSUME NEW k \in Key PROVE Share(cache[r], stack[r], k) + Nothing[k] = Share(c, Tail(st), k) + Nothing[k]
  <2>1. Share(c, Tail(st), k) = IF c[Slot[k]].key = {k} THEN c[Slot[k]].n + 0 ELSE 0
    BY <1>10, ShareAt
  <2>2. Share(b, st, k) = (IF Slot[k] # s /\ b[Slot[k]].key = {k} THEN b[Slot[k]].n ELSE 0)
                            + (IF K = {k} THEN 1 ELSE 0)
    <3>1. Adding(st) = K
      BY <1>2, <1>5 DEF Adding
    <3>2. Share(b, st, k) = (IF Slot[k] # s /\ b[Slot[k]].key = {k} THEN b[Slot[k]].n ELSE 0)
                              + (IF Adding(st) = {k} THEN 1 ELSE 0)
      <4>1. Slots(st) = {s}
        BY <1>4
      <4> QED
        BY <4>1, ShareFlushing
    <3> QED
      BY <3>1, <3>2
  <2>3. Slot[k] \in 1 .. Size
    BY SlotAssumption
  <2>4. b[Slot[k]].n \in Int
    BY <1>3, <2>3, EntryFacts DEF Row
  <2>5. CASE Slot[k] # s
    <3>1. K # {k}
      BY <1>8, <2>5
    <3>2. c[Slot[k]] = b[Slot[k]]
      BY <1>7, <2>3, <2>5
    <3>3. Share(c, Tail(st), k) = Share(b, st, k)
      BY <2>1, <2>2, <2>4, <2>5, <3>1, <3>2
    <3> QED
      BY <1>1, <3>3
  <2>6. CASE Slot[k] = s
    <3>1. new.key = K /\ (K # {} => new.n = 1)
      BY <1>5 DEF Free
    <3>2. Share(c, Tail(st), k) = Share(b, st, k)
      BY <1>7, <2>1, <2>2, <2>6, <3>1
    <3> QED
      BY <1>1, <3>2
  <2> QED
    BY <2>5, <2>6
<1>14. /\ inserted' \in [0 .. MaxEpoch -> Counts]
       /\ \A f \in 0 .. MaxEpoch, k \in Key :
            inserted'[f][k] = inserted[f][k] + (IF f = epoch[r] THEN Nothing[k] ELSE 0)
  BY <1>6, InsertedKept
<1>15. PICK sr : sr = Tail(st)
  OBVIOUS
<1>16. Working(r, c, sr, Nothing, Nothing)
  BY <1>3, <1>6, <1>7, <1>10, <1>11, <1>12, <1>13, <1>14, <1>15 DEF Working
<1> QED
  BY <1>16, Work, CountsTypes

\* The loop over the slots flushes the next one that is not empty.
LEMMA LoopStep ==
  ASSUME SetIInv, NEW r \in Rank, stack[r] # <<>>, stack[r][1].kind = "all",
         NEW s \in stack[r][1].slot .. Size, cache[r][s].n > 0,
         \A t \in stack[r][1].slot .. Size : cache[r][t].n > 0 => s <= t,
         Flush(r, s, cache[r], {}, <<AllFrame(s + 1)>>, 0), UNCHANGED <<inserted, collVars>>
  PROVE  SetIInv'
<1>1. PICK b, st, sr : b = cache[r] /\ st = stack[r] /\ sr = <<FlushFrame(s, {}), AllFrame(s + 1)>>
  OBVIOUS
<1>2. /\ Row(b, st) /\ SlotOK(b, st) /\ b = [t \in 1 .. Size |-> b[t]] /\ StackForm(st)
      /\ r \notin inside \cup counting /\ epoch[r] < MaxEpoch
  <2>1. Row(b, st) /\ SlotOK(b, st) /\ b = [t \in 1 .. Size |-> b[t]]
    BY <1>1, RankFacts
  <2>2. r \notin inside \cup counting /\ epoch[r] < MaxEpoch
    BY RankFacts
  <2> QED
    BY <2>1, <2>2 DEF Row
<1>3. PICK u \in 1 .. Size + 1 : st = <<AllFrame(u)>> /\ st[1].slot = u
  BY <1>1, <1>2, AllTop
<1>4. /\ \A t \in 1 .. Size : b[t].n < MaxCached /\ (t < u => b[t] = Free)
      /\ Slots(st) = {} /\ Adding(st) = {}
  BY <1>2, <1>3, AllForms
<1>5. s \in 1 .. Size /\ Size \in Nat /\ s >= u /\ b[s].n > 0 /\ \A t \in u .. Size : b[t].n > 0 => s <= t
  BY <1>1, <1>3, SlotAssumption
<1>6. \A t \in 1 .. Size : b[t] \in Entry(t)
  BY <1>2 DEF Row
<1>7. PICK q \in Key : Slot[q] = s /\ b[s].n \in 1 .. MaxCached /\ b[s] = Cached(q, b[s].n)
  BY <1>5, <1>6, EntryFacts
<1>8. PICK n : n = b[s].n /\ n \in 1 .. MaxCached /\ b[s] = Cached(q, n)
  BY <1>7
<1>9. b[s].key = {q} /\ b[s].n = n /\ Slot[q] = s /\ n \in Nat
  BY <1>7, <1>8, SlotAssumption DEF Cached
<1>10. cache[r] = b /\ stack[r] = st
  BY <1>1
<1>11. /\ Moves(r, One(q, n))
      /\ cache' = [cache EXCEPT ![r] = b] /\ stack' = [stack EXCEPT ![r] = sr]
  <2>1. r \notin inside /\ Flush(r, s, b, {}, <<AllFrame(s + 1)>>, 0)
    BY <1>1, <1>2
  <2>2. PICK K, x, y, fs : K = {} /\ x = FlushFrame(s, K) /\ y = AllFrame(s + 1) /\ fs = <<y>>
    OBVIOUS
  <2>3. /\ Flush(r, s, b, K, fs, 0) /\ r \notin inside
        /\ n \in 1 .. MaxCached /\ b[s] = Cached(q, n)
    BY <1>8, <2>1, <2>2
  <2>4. /\ Moves(r, One(q, n))
        /\ cache' = [cache EXCEPT ![r] = b]
        /\ stack' = [stack EXCEPT ![r] = <<FlushFrame(s, K)>> \o fs]
    <3>1. Moves(r, One(q, n))
      BY <2>3, FlushMoves
    <3>2. cache' = [cache EXCEPT ![r] = b]
      BY <2>3 DEF Flush
    <3>3. stack' = [stack EXCEPT ![r] = <<FlushFrame(s, K)>> \o fs]
      BY <2>3, FlushMoves
    <3> QED
      BY <3>1, <3>2, <3>3
  <2>5. <<x>> \o <<y>> = <<x, y>>
    BY Pair
  <2>6. sr = <<x, y>>
    BY <1>1, <2>2
  <2> QED
    BY <2>2, <2>4, <2>5, <2>6
<1>12. Slots(sr) = {s} /\ Adding(sr) = {} /\ SlotOK(b, sr)
  <2>1. ASSUME NEW t \in (1 .. Size) \ {s} PROVE b[t].n < MaxCached /\ (t < s => b[t] = Free)
    <3>1. CASE t < u
      BY <1>4, <3>1
    <3>2. CASE t >= u /\ t < s
      <4>1. ~(b[t].n > 0)
        BY <1>5, <3>2
      <4> QED
        BY <1>4, <1>6, <4>1, EntryFacts
    <3> QED
      BY <1>4, <1>5, <3>1, <3>2
  <2> QED
    BY <1>1, <1>5, <2>1, LoopForms
<1>13. Row(b, sr)
  <2>1. StackForm(sr)
    BY <1>1, <1>5 DEF StackForm
  <2> QED
    BY <1>6, <2>1 DEF Row
<1>14. ASSUME NEW k \in Key PROVE Share(cache[r], stack[r], k) + Nothing[k] = Share(b, sr, k) + One(q, n)[k]
  <2>1. Share(b, st, k) = IF b[Slot[k]].key = {k} THEN b[Slot[k]].n + 0 ELSE 0
    BY <1>4, ShareAt
  <2>2. Share(b, sr, k) = (IF Slot[k] # s /\ b[Slot[k]].key = {k} THEN b[Slot[k]].n ELSE 0) + 0
    <3>1. Share(b, sr, k) = (IF Slot[k] # s /\ b[Slot[k]].key = {k} THEN b[Slot[k]].n ELSE 0)
                              + (IF Adding(sr) = {k} THEN 1 ELSE 0)
      BY <1>12, ShareFlushing
    <3>2. Adding(sr) # {k}
      BY <1>12
    <3> QED
      BY <3>1, <3>2
  <2>3. Slot[k] \in 1 .. Size /\ Nothing[k] = 0 /\ One(q, n)[k] = IF k = q THEN n ELSE 0
    BY SlotAssumption, CountsTypes
  <2>4. b[Slot[k]].n \in Int
    BY <1>6, <2>3, EntryFacts
  <2>5. CASE k = q
    <3>1. Share(b, st, k) = n + 0 /\ Share(b, sr, k) = 0 + 0 /\ One(q, n)[k] = n /\ Nothing[k] = 0
      BY <1>9, <2>1, <2>2, <2>3, <2>5
    <3> QED
      BY <1>9, <1>10, <3>1
  <2>6. CASE k # q
    <3>1. Slot[k] = s => b[Slot[k]].key # {k}
      BY <1>9, <2>6
    <3>2. Share(b, st, k) = Share(b, sr, k) /\ One(q, n)[k] = 0 /\ Nothing[k] = 0
      BY <2>1, <2>2, <2>3, <2>4, <2>6, <3>1
    <3> QED
      BY <1>10, <3>2
  <2> QED
    BY <2>5, <2>6
<1>15. /\ inserted' \in [0 .. MaxEpoch -> Counts]
       /\ \A f \in 0 .. MaxEpoch, k \in Key :
            inserted'[f][k] = inserted[f][k] + (IF f = epoch[r] THEN Nothing[k] ELSE 0)
  BY InsertedKept
<1>16. Working(r, b, sr, One(q, n), Nothing)
  BY <1>2, <1>11, <1>12, <1>13, <1>14, <1>15 DEF Working
<1>17. One(q, n) \in Counts /\ Nothing \in Counts
  BY <1>8, CountsTypes
<1> QED
  BY <1>16, <1>17, Work
-----------------------------------------------------------------------------
\* The visit of a flush arrives at the owner.
LEMMA AddStep ==
  ASSUME SetIInv, NEW m \in Pending, Add(m)
  PROVE  SetIInv'
<1>1. TypesOK /\ CachesOK /\ LockstepInv /\ CallInv /\ RowsOK
  BY IInvMeans DEF CachesOK
<1>2. PICK q, n : q = calls[m.id].key /\ n = calls[m.id].n
  OBVIOUS
<1>3. /\ m.epoch = epoch[m.dst] /\ executed' = executed \cup {m} /\ UNCHANGED <<issued, epoch, inside>>
      /\ counts' = [counts EXCEPT ![q] = @ + n]
      /\ UNCHANGED <<calls, cache, stack, inserted, plan, file, counting, part, answer>>
  BY <1>2 DEF Add, BSExecute, collVars
<1>4. /\ IsFiniteSet(Pending) /\ Pending \subseteq issued /\ calls \in Seq(AddCall) /\ issued \subseteq Call
      /\ \A c \in issued : c.id \in DOMAIN calls
  BY <1>1, TypeFacts DEF TypesOK, CallInv
<1>5. m \in issued /\ m.dst \in Rank /\ m.dst = Owner[q] /\ \A s \in Rank : epoch[s] <= m.epoch
  BY <1>1, <1>2, <1>4 DEF CallInv, Call
<1>6. q \in Key /\ n \in Nat
  <2>1. calls[m.id] \in AddCall
    BY <1>4, <1>5
  <2> QED
    BY <1>2, <2>1 DEF AddCall
<1>7. Pending' = Pending \ {m}
  BY <1>3 DEF Pending
<1>8. counts' \in Counts /\ \A k \in Key : counts'[k] = IF k = q THEN counts[k] + n ELSE counts[k]
  BY <1>1, <1>3, <1>6 DEF TypesOK, Counts
<1>9. TypesOK' /\ LockstepInv' /\ CallInv' /\ RowsOK' /\ CachesOK'
  <2>1. TypesOK'
    BY <1>1, <1>3, <1>5, <1>8 DEF TypesOK
  <2>2. LockstepInv'
    BY <1>1, <1>3, LockstepKept
  <2>3. CallInv'
    BY <1>1, <1>3, <1>7 DEF CallInv
  <2>4. RowsOK' /\ CachesOK'
    BY <1>1, <1>3 DEF CachesOK, RowsOK
  <2> QED
    BY <2>1, <2>2, <2>3, <2>4
<1>10. ASSUME NEW k \in Key PROVE Sending(k) = Sending(k)' + (IF k = q THEN n ELSE 0)
  <2>1. PICK P, Q, cl : P = Pending /\ Q = Pending' /\ cl = calls
    OBVIOUS
  <2>2. Sending(k) = CarriedOf(P, cl, k)
    BY <2>1, SumsAre DEF Summed
  <2>3. Sending(k)' = CarriedOf(Q, cl, k)
    <3>1. Summed'
      BY SumsAre, PTL
    <3> QED
      BY <1>3, <2>1, <3>1 DEF Summed
  <2>4. CarriedOf(P, cl, k) = CarriedOf(Q, cl, k) + (IF cl[m.id].key = k THEN cl[m.id].n ELSE 0)
    <3>1. Carries(P, cl) /\ m \in P /\ Q = P \ {m}
      BY <1>4, <1>5, <1>7, <2>1 DEF Carries
    <3> QED
      BY <3>1, CarriedLess
  <2> QED
    BY <1>2, <2>1, <2>2, <2>3, <2>4
<1>11. PICK r \in Rank : r = m.dst
  BY <1>5
<1>12. Balance(r, Nothing)
  <2>1. ASSUME NEW k \in Key
        PROVE  /\ counts'[k] + Sending(k)' + InCaches(k)' = counts[k] + Sending(k) + InCaches(k) + Nothing[k]
               /\ counts'[k] # counts[k] => Owner[k] = r
    <3>1. counts[k] \in Nat /\ Sending(k) \in Int /\ InCaches(k) \in Int
      BY <1>1, SumTypes DEF Sound, SumsOK
    <3>2. Sending(k)' \in Int
      <4>1. Sound' => SumsOK'
        BY SumTypes, PTL
      <4> QED
        BY <1>9, <4>1 DEF Sound, SumsOK
    <3>3. InCaches(k)' = InCaches(k)
      <4>1. RowSums /\ RowSums'
        <5>1. RowsOK' => RowSums'
          BY RowsMean, PTL
        <5> QED
          BY <1>1, <1>9, <5>1, RowsMean
      <4> QED
        BY <1>3, <4>1 DEF RowSums
    <3>4. Nothing[k] = 0
      BY CountsTypes
    <3>5. CASE k = q
      BY <1>5, <1>6, <1>8, <1>10, <1>11, <3>1, <3>2, <3>3, <3>4, <3>5
    <3>6. CASE k # q
      BY <1>8, <1>10, <3>1, <3>2, <3>3, <3>4, <3>6
    <3> QED
      BY <3>5, <3>6
  <2>2. \A f \in 0 .. MaxEpoch, k \in Key :
          inserted'[f][k] = inserted[f][k] + (IF f = epoch[r] THEN Nothing[k] ELSE 0)
    BY <1>3, InsertedKept
  <2>3. \A s \in Rank : epoch[s] <= epoch[r]
    BY <1>3, <1>5, <1>11
  <2> QED
    BY <1>3, <2>1, <2>2, <2>3 DEF Balance
<1>13. Conserved' /\ FlowInv' /\ DueInv' /\ CountExact'
  BY <1>9, <1>12, FlowStep, CountsTypes
<1>14. SetIInv' <=> /\ TypesOK' /\ CachesOK' /\ LockstepInv' /\ CallInv' /\ FlowInv' /\ DueInv'
                    /\ Conserved' /\ CountExact'
  BY IInvMeans, PTL
<1> QED
  BY <1>9, <1>13, <1>14
-----------------------------------------------------------------------------
\* Sums that a step does not change.
LEMMA SumsKept ==
  /\ UNCHANGED <<issued, executed, calls>> => \A k : Sending(k)' = Sending(k)
  /\ UNCHANGED inserted => \A k, e : Since(k, e)' = Since(k, e)
  /\ RowsOK /\ UNCHANGED <<cache, stack>> => \A k \in Key : InCaches(k)' = InCaches(k)
<1>1. Summed /\ Summed'
  BY SumsAre, PTL
<1>2. ASSUME UNCHANGED <<issued, executed, calls>> PROVE \A k : Sending(k)' = Sending(k)
  <2>1. Pending' = Pending /\ calls' = calls
    BY <1>2 DEF Pending
  <2> QED
    BY <1>1, <2>1 DEF Summed
<1>3. ASSUME UNCHANGED inserted PROVE \A k, e : Since(k, e)' = Since(k, e)
  BY <1>1, <1>3 DEF Summed
<1>4. ASSUME RowsOK, UNCHANGED <<cache, stack>> PROVE \A k \in Key : InCaches(k)' = InCaches(k)
  <2>1. RowsOK'
    BY <1>4 DEF RowsOK
  <2>2. RowsOK' => RowSums'
    BY RowsMean, PTL
  <2> QED
    BY <1>4, <2>1, <2>2, RowsMean DEF RowSums
<1> QED
  BY <1>2, <1>3, <1>4

\* A step that moves no increments and ends no epoch; the plan may go on.
LEMMA FlowKept ==
  ASSUME SetIInv, TypesOK', UNCHANGED <<issued, executed, epoch, calls, counts, inserted, file, part>>,
         Len(plan) <= Len(plan'), \A i \in 1 .. Len(plan) : plan'[i] = plan[i],
         \A k \in Key : InCaches(k)' = InCaches(k)
  PROVE  /\ Conserved' /\ FlowInv' /\ DueInv'
         /\ \A i \in 0 .. Len(plan) : Due'[i] = Due[i]
<1> DEFINE D == Due
<1>1. TypesOK /\ LockstepInv /\ FlowInv /\ DueInv /\ Conserved
  BY IInvMeans
<1>2. PICK n \in Nat : n = Len(plan)
  BY <1>1, TypeFacts
<1>3. \A i \in 0 .. n : D'[i] = D[i]
  <2>1. \A i \in 1 .. n : plan'[i] = plan[i] /\ inserted'[i - 1] = inserted[i - 1]
    BY <1>2
  <2> QED
    BY <1>1, <1>2, <2>1, DueFrame
<1>4. /\ \A s \in Rank : epoch'[s] = epoch[s] /\ epoch[s] \in 0 .. n
      /\ \A k \in Key : Owner[k] \in Rank
  BY <1>1, <1>2, TypeFacts
<1>5. /\ \A k \in Key : counts'[k] = counts[k] /\ Sending(k)' = Sending(k) /\ InCaches(k)' = InCaches(k)
      /\ \A k, e : Since(k, e)' = Since(k, e)
  BY SumsKept
<1>6. Conserved'
  <2>1. ASSUME NEW k \in Key, NEW e, e = epoch[Owner[k]]
        PROVE  D'[e].counts[k] + Since(k, e)' = counts'[k] + Sending(k)' + InCaches(k)'
    <3>1. D[e].counts[k] + Since(k, e) = counts[k] + Sending(k) + InCaches(k)
      BY <1>1, <2>1 DEF Conserved
    <3>2. e \in 0 .. n
      BY <1>4, <2>1
    <3> HIDE DEF D
    <3>3. D'[e] = D[e]
      BY <1>3, <3>2
    <3> QED
      BY <1>5, <3>1, <3>3
  <2>2. \A k \in Key : \A e : e = epoch[Owner[k]] =>
           D'[e].counts[k] + Since(k, e)' = counts'[k] + Sending(k)' + InCaches(k)'
    BY <2>1
  <2> QED
    BY <1>4, <2>2 DEF Conserved
<1>7. FlowInv'
  <2>1. \A e \in 0 .. MaxEpoch : (\A s \in Rank : epoch'[s] < e) => inserted'[e] = Nothing
    BY <1>1 DEF FlowInv
  <2>2. ASSUME NEW k \in Key, NEW s \in Rank, epoch[s] = epoch[Owner[k]] + 1, NEW e, e = epoch[s]
        PROVE  Since(k, e)' = Sending(k)' + InCaches(k)'
    <3>1. Since(k, e) = Sending(k) + InCaches(k)
      BY <1>1, <2>2 DEF FlowInv
    <3> QED
      BY <1>5, <3>1
  <2>3. \A k \in Key, s \in Rank : epoch[s] = epoch[Owner[k]] + 1 =>
           \A e : e = epoch[s] => Since(k, e)' = Sending(k)' + InCaches(k)'
    BY <2>2
  <2> QED
    BY <2>1, <2>3 DEF FlowInv
<1>8. DueInv'
  <2>1. ASSUME NEW s \in Rank PROVE epoch'[s] = epoch[s] /\ D'[epoch[s]] = D[epoch[s]]
    BY <1>3, <1>4
  <2>2. \A s \in Rank : epoch[s] > 0 => plan'[epoch[s]] = plan[epoch[s]]
    <3>1. \A s \in Rank : epoch[s] > 0 => epoch[s] \in 1 .. Len(plan)
      BY <1>2, <1>4
    <3> QED
      BY <3>1
  <2> QED
    BY <1>1, <1>4, <2>1, <2>2 DEF DueInv, AtOwner
<1> QED
  BY <1>2, <1>3, <1>6, <1>7, <1>8

LEMMA ChooseFacts ==
  ASSUME TypesOK, LockstepInv, NEW r \in Rank, epoch[r] < MaxEpoch, Choose(r)
  PROVE  /\ plan' \in Seq(Colls) /\ Len(plan') \in Nat /\ Len(plan') <= MaxEpoch
         /\ Len(plan) <= Len(plan') /\ epoch[r] + 1 <= Len(plan')
         /\ \A i \in 1 .. Len(plan) : plan'[i] = plan[i]
<1>1. /\ plan \in Seq(Colls) /\ Len(plan) \in Nat /\ Len(plan) <= MaxEpoch /\ MaxEpoch \in Nat
      /\ epoch[r] \in Nat /\ epoch[r] <= Len(plan)
  BY TypeFacts DEF TypesOK
<1>2. CASE epoch[r] < Len(plan)
  <2>1. plan' = plan
    BY <1>2 DEF Choose
  <2> QED
    BY <1>1, <1>2, <2>1
<1>3. CASE ~(epoch[r] < Len(plan))
  <2>1. PICK c \in Colls : plan' = Append(plan, c)
    BY <1>3 DEF Choose
  <2>2. /\ plan' \in Seq(Colls) /\ Len(plan') = Len(plan) + 1
        /\ \A i \in 1 .. Len(plan) : plan'[i] = plan[i]
    BY <1>1, <2>1, AppendProperties
  <2> QED
    BY <1>1, <1>3, <2>2
<1> QED
  BY <1>2, <1>3

\* The loop over the slots is done, and the barrier begins.
LEMMA EnterStep ==
  ASSUME SetIInv, NEW r \in Rank, stack[r] # <<>>, stack[r][1].kind = "all",
         \A s \in stack[r][1].slot .. Size : ~(cache[r][s].n > 0),
         BSEnter(r), Choose(r), stack' = [stack EXCEPT ![r] = <<>>],
         UNCHANGED <<calls, cache, counts, inserted, file, counting, part, answer>>
  PROVE  SetIInv'
<1>1. TypesOK /\ CachesOK /\ LockstepInv /\ CallInv /\ RowsOK /\ CountExact
  BY IInvMeans DEF CachesOK
<1>2. r \notin inside /\ inside' = inside \cup {r} /\ UNCHANGED <<issued, executed, epoch>>
  BY DEF BSEnter
<1>3. PICK b, st : b = cache[r] /\ st = stack[r]
  OBVIOUS
<1>4. Row(b, st) /\ SlotOK(b, st) /\ StackForm(st) /\ r \notin inside \cup counting /\ epoch[r] < MaxEpoch
  <2>1. Row(b, st) /\ SlotOK(b, st)
    BY <1>3, RankFacts
  <2>2. r \notin inside \cup counting /\ epoch[r] < MaxEpoch
    BY RankFacts
  <2> QED
    BY <2>1, <2>2 DEF Row
<1>5. PICK u \in 1 .. Size + 1 : st = <<AllFrame(u)>> /\ st[1].slot = u
  BY <1>3, <1>4, AllTop
<1>6. /\ \A t \in 1 .. Size : b[t].n < MaxCached /\ (t < u => b[t] = Free)
      /\ Slots(st) = {} /\ Adding(st) = {}
  BY <1>4, <1>5, AllForms
<1>7. ASSUME NEW t \in 1 .. Size PROVE b[t] = Free
  <2>1. t >= u => ~(b[t].n > 0)
    BY <1>3, <1>5, SlotAssumption
  <2>2. b[t] \in Entry(t)
    BY <1>4 DEF Row
  <2> QED
    BY <1>6, <2>1, <2>2, EntryFacts, SlotAssumption
<1>8. stack'[r] = <<>> /\ \A s \in Rank \ {r} : stack'[s] = stack[s]
  BY <1>1 DEF CachesOK
<1>9. /\ plan' \in Seq(Colls) /\ Len(plan') \in Nat /\ Len(plan') <= MaxEpoch
      /\ Len(plan) <= Len(plan') /\ epoch[r] + 1 <= Len(plan')
      /\ \A i \in 1 .. Len(plan) : plan'[i] = plan[i]
  BY <1>1, <1>4, ChooseFacts
<1>10. TypesOK'
  BY <1>1, <1>2, <1>9 DEF TypesOK
<1>11. Row(b, <<>>) /\ SlotOK(b, <<>>)
  BY <1>4, <1>6, SlotForms DEF Row
<1>12. RowsOK'
  BY <1>1, <1>3, <1>8, <1>11 DEF RowsOK
<1>13. CachesOK'
  <2>1. stack' = [s \in Rank |-> stack'[s]]
    BY <1>1 DEF CachesOK
  <2>2. cache' = [s \in Rank |-> [t \in 1 .. Size |-> cache'[s][t]]]
    BY <1>1 DEF CachesOK
  <2>3. \A s \in Rank : SlotOK(cache'[s], stack'[s])
    BY <1>1, <1>3, <1>8, <1>11 DEF CachesOK
  <2>4. \A s \in Rank : stack'[s] # <<>> => s \notin inside' \cup counting' /\ epoch'[s] < MaxEpoch
    BY <1>1, <1>2, <1>8 DEF CachesOK
  <2>5. \A s \in Rank : s \in inside' => \A t \in 1 .. Size : cache'[s][t] = Free
    BY <1>1, <1>2, <1>3, <1>7 DEF CachesOK
  <2> QED
    BY <1>12, <2>1, <2>2, <2>3, <2>4, <2>5 DEF CachesOK
<1>14. LockstepInv'
  <2>1. \A s \in Rank : epoch[s] \in Nat /\ epoch[s] <= Len(plan)
    BY <1>1, TypeFacts
  <2>2. Len(plan) \in Nat
    BY <1>1, TypeFacts
  <2> QED
    BY <1>1, <1>2, <1>4, <1>9, <2>1, <2>2 DEF LockstepInv
<1>15. CallInv'
  BY <1>1, <1>2 DEF CallInv, Pending
<1>16. ASSUME NEW k \in Key PROVE InCaches(k)' = InCaches(k)
  <2>1. InCaches(k)' = InCaches(k) - Share(cache[r], stack[r], k) + Share(cache'[r], stack'[r], k)
    BY <1>1, <1>8, <1>12, InCachesChange
  <2>2. Share(b, st, k) = Share(b, <<>>, k)
    BY <1>6, SlotForms, ShareAt
  <2>3. Share(b, st, k) \in Nat
    BY <1>4, ShareIs
  <2>4. InCaches(k) \in Int
    BY <1>1, SumTypes DEF Sound, SumsOK
  <2> QED
    BY <1>3, <1>8, <2>1, <2>2, <2>3, <2>4
<1>17. /\ Conserved' /\ FlowInv' /\ DueInv'
       /\ \A i \in 0 .. Len(plan) : Due'[i] = Due[i]
  BY <1>2, <1>9, <1>10, <1>16, FlowKept
<1>18. CountExact'
  <2>1. ASSUME NEW s \in Rank, s \notin counting, epoch[s] > 0, plan'[epoch[s]] = "count"
        PROVE  answer[s] = Due'[epoch[s]].before
    <3>1. epoch[s] \in 1 .. Len(plan) /\ epoch[s] \in 0 .. Len(plan)
      BY <1>1, <2>1, TypeFacts
    <3>2. plan[epoch[s]] = "count"
      BY <1>9, <2>1, <3>1
    <3>3. answer[s] = Due[epoch[s]].before
      BY <1>1, <2>1, <3>2 DEF CountExact
    <3> QED
      BY <1>17, <3>1, <3>3
  <2> QED
    BY <1>2, <2>1 DEF CountExact
<1>19. SetIInv' <=> /\ TypesOK' /\ CachesOK' /\ LockstepInv' /\ CallInv' /\ FlowInv' /\ DueInv'
                    /\ Conserved' /\ CountExact'
  BY IInvMeans, PTL
<1> QED
  BY <1>10, <1>13, <1>14, <1>15, <1>17, <1>18, <1>19

LEMMA FlushAllStep ==
  ASSUME SetIInv, NEW r \in Rank, FlushAll(r)
  PROVE  SetIInv'
<1> DEFINE full == {s \in LoopFrom(Top(r).slot) : cache[r][s].n > 0}
<1>1. stack[r] # <<>> /\ stack[r][1].kind = "all"
  BY DEF FlushAll, Top
<1>2. full = {s \in stack[r][1].slot .. Size : cache[r][s].n > 0}
  BY DEF LoopFrom, Top
<1>3. \/ \E s \in full : /\ \A t \in full : s <= t
                         /\ Flush(r, s, cache[r], {}, <<AllFrame(s + 1)>>, 0)
                         /\ UNCHANGED <<inserted, collVars>>
      \/ /\ full = {}
         /\ BSEnter(r) /\ Choose(r)
         /\ stack' = [stack EXCEPT ![r] = <<>>]
         /\ UNCHANGED <<calls, cache, counts, inserted, file, counting, part, answer>>
  BY DEF FlushAll
<1> HIDE DEF full
<1>4. CASE \E s \in full : /\ \A t \in full : s <= t
                           /\ Flush(r, s, cache[r], {}, <<AllFrame(s + 1)>>, 0)
                           /\ UNCHANGED <<inserted, collVars>>
  <2>1. PICK s \in full : /\ \A t \in full : s <= t
                          /\ Flush(r, s, cache[r], {}, <<AllFrame(s + 1)>>, 0)
                          /\ UNCHANGED <<inserted, collVars>>
    BY <1>4
  <2>2. /\ s \in stack[r][1].slot .. Size /\ cache[r][s].n > 0
        /\ \A t \in stack[r][1].slot .. Size : cache[r][t].n > 0 => s <= t
    BY <1>2, <2>1
  <2> QED
    BY <1>1, <2>1, <2>2, LoopStep
<1>5. CASE /\ full = {}
           /\ BSEnter(r) /\ Choose(r)
           /\ stack' = [stack EXCEPT ![r] = <<>>]
           /\ UNCHANGED <<calls, cache, counts, inserted, file, counting, part, answer>>
  <2>1. \A s \in stack[r][1].slot .. Size : ~(cache[r][s].n > 0)
    BY <1>2, <1>5
  <2> QED
    BY <1>1, <1>5, <2>1, EnterStep
<1> QED
  BY <1>3, <1>4, <1>5
-----------------------------------------------------------------------------
(* When a rank may leave the barrier, all that the keys of the ranks still in
   it have on their way was inserted in the epoch that begins.             *)
CanLeave(r) ==
  /\ r \in inside
  /\ \A s \in Rank : \/ epoch[s] = epoch[r] /\ s \in inside
                     \/ epoch[s] = epoch[r] + 1
  /\ \A m \in Pending : m.epoch # epoch[r]

LEMMA NothingSent ==
  ASSUME TypesOK, LockstepInv, Pending = {}, NEW k
  PROVE  Sending(k) = 0
<1>1. PICK P, cl : P = Pending /\ cl = calls
  OBVIOUS
<1>2. Sending(k) = CarriedOf(P, cl, k)
  BY <1>1, SumsAre DEF Summed
<1> DEFINE v == [m \in Carried(P, cl, k) |-> cl[m.id].n]
<1>3. CarriedOf(P, cl, k) = SumOf(v)
  BY DEF CarriedOf, SumOf
<1>4. DOMAIN v = {}
  BY <1>1 DEF Carried
<1> HIDE DEF v
<1> QED
  BY <1>2, <1>3, <1>4, SumEmpty

LEMMA Arrived ==
  ASSUME SetIInv, NEW r \in Rank, CanLeave(r), NEW k \in Key, epoch[Owner[k]] = epoch[r]
  PROVE  Since(k, epoch[r] + 1) = Sending(k) + InCaches(k)
<1>1. TypesOK /\ CachesOK /\ LockstepInv /\ CallInv /\ RowsOK /\ FlowInv
  BY IInvMeans DEF CachesOK
<1>2. PICK F : F = epoch[r] + 1
  OBVIOUS
<1>3. epoch[r] \in Nat /\ F \in Nat /\ MaxEpoch \in Nat /\ Pending \subseteq issued /\ issued \subseteq Call
  BY <1>1, <1>2, TypeFacts DEF TypesOK
<1>4. CASE \E s \in Rank : epoch[s] = F
  <2>1. PICK s \in Rank : epoch[s] = F
    BY <1>4
  <2>2. Since(k, epoch[s]) = Sending(k) + InCaches(k)
    BY <1>1, <1>2, <2>1 DEF FlowInv
  <2> QED
    BY <1>2, <2>1, <2>2
<1>5. CASE ~\E s \in Rank : epoch[s] = F
  <2>1. \A s \in Rank : epoch[s] = epoch[r] /\ s \in inside
    BY <1>2, <1>5 DEF CanLeave
  <2>2. Pending = {}
    <3>1. ASSUME NEW m \in Pending PROVE FALSE
      <4>1. m.src \in Rank /\ epoch[m.src] = m.epoch
        BY <1>1, <1>3 DEF CallInv, Call
      <4> QED
        BY <2>1, <4>1 DEF CanLeave
    <3> QED
      BY <3>1
  <2>3. Sending(k) = 0
    BY <1>1, <2>2, NothingSent
  <2>4. InCaches(k) = 0
    <3>1. PICK ca, sk : ca = cache /\ sk = stack
      OBVIOUS
    <3>2. InCaches(k) = CachesOf(ca, sk, k)
      BY <1>1, <3>1, RowsMean DEF RowSums
    <3>3. \A s \in Rank : sk[s] = <<>> /\ \A t \in 1 .. Size : ca[s][t] = Free
      BY <1>1, <2>1, <3>1 DEF CachesOK
    <3> QED
      BY <3>2, <3>3, CachesEmpty
  <2>5. Since(k, F) = 0
    <3>1. PICK ins : ins = inserted
      OBVIOUS
    <3>2. Since(k, F) = TailOf(ins, k, F)
      BY <3>1, SumsAre DEF Summed
    <3>3. \A f \in F .. MaxEpoch : ins[f] = Nothing
      <4>1. ASSUME NEW f \in F .. MaxEpoch PROVE f \in 0 .. MaxEpoch /\ \A s \in Rank : epoch[s] < f
        BY <1>2, <1>3, <2>1
      <4> QED
        BY <1>1, <3>1, <4>1 DEF FlowInv
    <3>4. ins \in [0 .. MaxEpoch -> Counts]
      BY <1>1, <3>1 DEF TypesOK
    <3> QED
      BY <1>3, <3>2, <3>3, <3>4, TailZero
  <2> QED
    BY <1>2, <2>3, <2>4, <2>5
<1> QED
  BY <1>4, <1>5

(* What the map holds at a rank that may leave is what is due by then.     *)
LEMMA Settled ==
  ASSUME SetIInv, NEW r \in Rank, CanLeave(r), NEW k \in Key, Owner[k] = r
  PROVE  counts[k] = Due[epoch[r] + 1].before[k]
<1>1. TypesOK /\ LockstepInv /\ CallInv /\ RowsOK /\ Conserved
  BY IInvMeans DEF CachesOK
<1>2. PICK e, F : e = epoch[r] /\ F = e + 1
  OBVIOUS
<1>3. e \in Nat /\ F \in 1 .. Len(plan) /\ F - 1 = e /\ e \in 0 .. MaxEpoch /\ e \in 0 .. Len(plan)
  <2>1. epoch[r] \in Nat /\ epoch[r] <= Len(plan) /\ epoch[r] <= MaxEpoch
    BY <1>1, TypeFacts
  <2>2. epoch[r] + 1 <= Len(plan)
    BY <1>1 DEF CanLeave, LockstepInv
  <2>3. MaxEpoch \in Nat /\ Len(plan) \in Nat
    BY <1>1, TypeFacts
  <2> QED
    BY <1>2, <2>1, <2>2, <2>3
<1>4. inserted \in [0 .. MaxEpoch -> Counts] /\ inserted[e] \in Counts
  BY <1>1, <1>3 DEF TypesOK
<1>5. PICK d, x, c : d = Due[e] /\ x = inserted[e] /\ c = plan[F]
  OBVIOUS
<1>6. d \in Ending /\ x \in Counts /\ Due[F] = After(d, c, x)
  <2>1. Due[F] = After(Due[F - 1], plan[F], inserted[F - 1])
    BY <1>1, <1>3, DueTypes
  <2>2. Due[e] \in Ending
    BY <1>1, <1>3, DueTypes
  <2> QED
    BY <1>3, <1>4, <1>5, <2>1, <2>2
<1>7. Due[F].before[k] = d.counts[k] + x[k]
  <2>1. After(d, c, x).before[k] = d.counts[k] + x[k]
    BY <1>6, AfterType
  <2> QED
    BY <1>6, <2>1
<1>8. Since(k, e) = x[k] + Since(k, F)
  <2>1. PICK ins : ins = inserted
    OBVIOUS
  <2>2. Since(k, e) = TailOf(ins, k, e) /\ Since(k, F) = TailOf(ins, k, F)
    BY <2>1, SumsAre DEF Summed
  <2>3. TailOf(ins, k, e) = ins[e][k] + TailOf(ins, k, e + 1)
    BY <1>3, <1>4, <2>1, TailSplit
  <2> QED
    BY <1>2, <1>5, <2>1, <2>2, <2>3
<1>9. Since(k, F) = Sending(k) + InCaches(k)
  BY <1>2, Arrived
<1>10. d.counts[k] + Since(k, e) = counts[k] + Sending(k) + InCaches(k)
  BY <1>1, <1>2, <1>5 DEF Conserved
<1>11. counts[k] \in Nat /\ Sending(k) \in Int /\ InCaches(k) \in Int /\ Since(k, F) \in Int
  <2>1. F \in Nat
    BY <1>2, <1>3
  <2> QED
    BY <1>1, <2>1, SumTypes DEF Sound, SumsOK
<1>12. d.counts[k] \in Int /\ x[k] \in Int
  BY <1>6 DEF Ending, Counts
<1>13. counts[k] = d.counts[k] + x[k]
  <2>1. PICK a, b, i, o, n, z : /\ a = counts[k] /\ b = Sending(k) /\ i = InCaches(k) /\ o = d.counts[k]
                                /\ n = x[k] /\ z = Since(k, F)
    OBVIOUS
  <2>2. a \in Int /\ b \in Int /\ i \in Int /\ o \in Int /\ n \in Int /\ z \in Int
    BY <1>11, <1>12, <2>1
  <2>3. o + (n + z) = a + b + i /\ z = b + i
    BY <1>8, <1>9, <1>10, <2>1
  <2>4. a = o + n
    BY <2>2, <2>3
  <2> QED
    BY <2>1, <2>4
<1> QED
  BY <1>2, <1>7, <1>13

(* What leaving the barrier does: at the keys of r the map and the file
   become what is due at the end of the epoch.                             *)
Left(r) ==
  LET F == epoch[r] + 1
  IN  /\ inside' = inside \ {r} /\ epoch' = [epoch EXCEPT ![r] = @ + 1]
      /\ UNCHANGED <<issued, executed, calls, cache, stack, inserted, plan, answer>>
      /\ counts' \in Counts /\ file' \in Counts
      /\ \A k \in Key : IF Owner[k] = r
                        THEN counts'[k] = Due[F].counts[k] /\ file'[k] = Due[F].file[k]
                        ELSE counts'[k] = counts[k] /\ file'[k] = file[k]
      /\ IF plan[F] = "count"
         THEN part' = [part EXCEPT ![r] = AtOwner(r, Nothing, Due[F].before)] /\ counting' = counting \cup {r}
         ELSE UNCHANGED <<part, counting>>

LEMMA AtOwnerFacts ==
  ASSUME NEW r, NEW f \in Counts, NEW g \in Counts
  PROVE  /\ AtOwner(r, f, g) \in Counts
         /\ \A k \in Key : AtOwner(r, f, g)[k] = IF Owner[k] = r THEN g[k] ELSE f[k]
BY DEF AtOwner, Counts

LEMMA LeaveFacts ==
  ASSUME SetIInv, NEW r \in Rank, Leave(r)
  PROVE  CanLeave(r) /\ Left(r)
<1>1. TypesOK /\ LockstepInv /\ DueInv
  BY IInvMeans
<1>2. PICK e, F, c : e = epoch[r] /\ F = e + 1 /\ c = plan[F]
  OBVIOUS
<1>3. /\ CanLeave(r) /\ BSLeave(r)
      /\ counts' = CASE c = "clear" -> AtOwner(r, counts, Nothing)
                     [] c = "load"  -> AtOwner(r, counts, file)
                     [] OTHER       -> counts
      /\ file' = IF c = "save" THEN AtOwner(r, file, counts) ELSE file
      /\ IF c = "count" THEN /\ part' = [part EXCEPT ![r] = AtOwner(r, Nothing, counts)]
                             /\ counting' = counting \cup {r}
                        ELSE UNCHANGED <<part, counting>>
      /\ UNCHANGED <<calls, cache, stack, inserted, plan, answer>>
  BY <1>2 DEF Leave, BSLeave, CanLeave
<1>4. counts \in Counts /\ file \in Counts /\ Nothing \in Counts
  BY <1>1, CountsTypes DEF TypesOK
<1>5. e \in 0 .. Len(plan) /\ F \in 1 .. Len(plan) /\ F - 1 = e
  <2>1. epoch[r] \in Nat /\ epoch[r] + 1 <= Len(plan) /\ Len(plan) \in Nat
    BY <1>1, <1>3, TypeFacts DEF CanLeave, LockstepInv
  <2> QED
    BY <1>2, <2>1
<1>6. PICK d, x, D : d = Due[e] /\ x = inserted[e] /\ D = Due[F]
  OBVIOUS
<1>7. d \in Ending /\ x \in Counts /\ D = After(d, c, x) /\ D \in Ending
  <2>1. Due[F] = After(Due[F - 1], plan[F], inserted[F - 1])
    BY <1>1, <1>5, DueTypes
  <2>2. Due[e] \in Ending /\ Due[F] \in Ending
    BY <1>1, <1>5, DueTypes
  <2>3. inserted[e] \in Counts
    <3>1. e \in 0 .. MaxEpoch
      BY <1>1, <1>2, TypeFacts
    <3> QED
      BY <1>1, <3>1 DEF TypesOK
  <2> QED
    BY <1>2, <1>5, <1>6, <2>1, <2>2, <2>3
<1>8. /\ c = "clear" => D.counts = Nothing
      /\ c = "load" => D.counts = d.file
      /\ c \notin {"clear", "load"} => D.counts = D.before
      /\ D.file = IF c = "save" THEN D.before ELSE d.file
      /\ D.before \in Counts
  <2>1. D.before \in Counts
    BY <1>7 DEF Ending
  <2> QED
    BY <1>7, <2>1, AfterType
<1>9. ASSUME NEW k \in Key, Owner[k] = r
      PROVE  counts[k] = D.before[k] /\ file[k] = d.file[k]
  <2>1. counts[k] = D.before[k]
    BY <1>2, <1>3, <1>6, <1>9, Settled
  <2>2. file[k] = d.file[k]
    BY <1>1, <1>2, <1>6, <1>9 DEF DueInv
  <2> QED
    BY <2>1, <2>2
<1>10. /\ counts' \in Counts
       /\ \A k \in Key : counts'[k] = IF Owner[k] = r THEN D.counts[k] ELSE counts[k]
  <2>1. CASE c = "clear"
    <3>1. counts' = AtOwner(r, counts, Nothing)
      BY <1>3, <2>1
    <3> QED
      BY <1>4, <1>8, <2>1, <3>1, AtOwnerFacts
  <2>2. CASE c = "load"
    <3>1. counts' = AtOwner(r, counts, file)
      BY <1>3, <2>2
    <3> QED
      BY <1>4, <1>8, <1>9, <2>2, <3>1, AtOwnerFacts
  <2>3. CASE c \notin {"clear", "load"}
    <3>1. counts' = counts
      BY <1>3, <2>3
    <3> QED
      BY <1>4, <1>8, <1>9, <2>3, <3>1
  <2> QED
    BY <2>1, <2>2, <2>3
<1>11. /\ file' \in Counts
       /\ \A k \in Key : file'[k] = IF Owner[k] = r THEN D.file[k] ELSE file[k]
  <2>1. CASE c = "save"
    <3>1. file' = AtOwner(r, file, counts)
      BY <1>3, <2>1
    <3> QED
      BY <1>4, <1>8, <1>9, <2>1, <3>1, AtOwnerFacts
  <2>2. CASE c # "save"
    <3>1. file' = file
      BY <1>3, <2>2
    <3> QED
      BY <1>4, <1>8, <1>9, <2>2, <3>1
  <2> QED
    BY <2>1, <2>2
<1>12. AtOwner(r, Nothing, counts) = AtOwner(r, Nothing, D.before)
  BY <1>9 DEF AtOwner
<1>13. UNCHANGED <<issued, executed>> /\ inside' = inside \ {r} /\ epoch' = [epoch EXCEPT ![r] = @ + 1]
  BY <1>3 DEF BSLeave
<1> QED
  BY <1>2, <1>3, <1>6, <1>10, <1>11, <1>12, <1>13 DEF Left

LEMMA LeaveStep ==
  ASSUME SetIInv, NEW r \in Rank, Leave(r)
  PROVE  SetIInv'
<1>1. TypesOK /\ CachesOK /\ LockstepInv /\ CallInv /\ RowsOK /\ FlowInv /\ DueInv /\ Conserved /\ CountExact
  BY IInvMeans DEF CachesOK
<1>2. CanLeave(r) /\ Left(r)
  BY LeaveFacts
<1>3. PICK e, F, D : e = epoch[r] /\ F = e + 1 /\ D = Due
  OBVIOUS
<1>4. /\ inside' = inside \ {r} /\ epoch' = [epoch EXCEPT ![r] = @ + 1]
      /\ UNCHANGED <<issued, executed, calls, cache, stack, inserted, plan, answer>>
      /\ counts' \in Counts /\ file' \in Counts
      /\ \A k \in Key : IF Owner[k] = r
                        THEN counts'[k] = D[F].counts[k] /\ file'[k] = D[F].file[k]
                        ELSE counts'[k] = counts[k] /\ file'[k] = file[k]
      /\ IF plan[F] = "count"
         THEN part' = [part EXCEPT ![r] = AtOwner(r, Nothing, D[F].before)] /\ counting' = counting \cup {r}
         ELSE UNCHANGED <<part, counting>>
  BY <1>2, <1>3 DEF Left
<1>5. /\ e \in Nat /\ F \in Nat /\ F <= Len(plan) /\ F \in 0 .. Len(plan)
      /\ epoch'[r] = F /\ \A s \in Rank \ {r} : epoch'[s] = epoch[s]
      /\ r \in inside /\ \A s \in Rank : (epoch[s] = e /\ s \in inside) \/ epoch[s] = F
      /\ \A k \in Key : Owner[k] \in Rank
  <2>1. epoch[r] \in Nat /\ epoch[r] + 1 <= Len(plan) /\ Len(plan) \in Nat /\ \A k \in Key : Owner[k] \in Rank
    BY <1>1, <1>2, TypeFacts DEF CanLeave, LockstepInv
  <2>2. epoch \in [Rank -> Nat]
    BY <1>1 DEF TypesOK
  <2> QED
    BY <1>2, <1>3, <1>4, <2>1, <2>2 DEF CanLeave
<1>6. Due' = D
  BY <1>3, <1>4 DEF Due
<1>7. TypesOK'
  <2>1. epoch' \in [Rank -> Nat] /\ inside' \subseteq Rank /\ counting' \subseteq Rank
    BY <1>1, <1>4, <1>5 DEF TypesOK
  <2>2. part' \in [Rank -> Counts]
    <3>1. D[F].before \in Counts
      BY <1>1, <1>3, <1>5, DueTypes DEF Ending
    <3>2. AtOwner(r, Nothing, D[F].before) \in Counts
      BY <3>1, AtOwnerFacts, CountsTypes
    <3>3. part \in [Rank -> Counts]
      BY <1>1 DEF TypesOK
    <3> QED
      BY <1>4, <3>2, <3>3
  <2> QED
    BY <1>1, <1>4, <2>1, <2>2 DEF TypesOK
<1>8. CachesOK'
  <2>1. stack[r] = <<>>
    BY <1>1, <1>5 DEF CachesOK
  <2>2. counting' \subseteq counting \cup {r}
    BY <1>4
  <2>3. \A s \in Rank : stack'[s] # <<>> => s \notin inside' \cup counting' /\ epoch'[s] < MaxEpoch
    BY <1>1, <1>4, <1>5, <2>1, <2>2 DEF CachesOK
  <2>4. RowsOK'
    BY <1>1, <1>4 DEF RowsOK
  <2> QED
    BY <1>1, <1>4, <2>3, <2>4 DEF CachesOK
<1>9. LockstepInv'
  <2>1. ASSUME NEW a \in Rank, NEW b \in Rank, epoch'[b] < epoch'[a]
        PROVE  b \in inside' /\ epoch'[a] = epoch'[b] + 1
    <3>1. epoch'[a] \in {e, F} /\ epoch'[b] \in {e, F}
      BY <1>5
    <3>2. epoch'[b] = e /\ epoch'[a] = F
      BY <1>3, <1>5, <2>1, <3>1
    <3> QED
      BY <1>3, <1>4, <1>5, <3>2
  <2>2. \A s \in Rank : (IF s \in inside' THEN epoch'[s] + 1 ELSE epoch'[s]) <= Len(plan')
    BY <1>1, <1>4, <1>5 DEF LockstepInv
  <2>3. inside' \cap counting' = {}
    <3>1. inside' = inside \ {r} /\ (counting' = counting \/ counting' = counting \cup {r})
      BY <1>4
    <3> QED
      BY <1>1, <3>1 DEF LockstepInv
  <2> QED
    BY <2>1, <2>2, <2>3 DEF LockstepInv
<1>10. CallInv'
  <2>1. Pending' = Pending /\ Pending \subseteq issued /\ issued \subseteq Call
    BY <1>1, <1>4, TypeFacts DEF Pending, TypesOK
  <2>2. ASSUME NEW m \in Pending
        PROVE  epoch'[m.src] = m.epoch /\ \A s \in Rank : epoch'[s] <= m.epoch
    <3>1. m.src \in Rank /\ epoch[m.src] = m.epoch /\ m.epoch # e
      BY <1>1, <1>2, <1>3, <2>1 DEF CallInv, CanLeave, Call
    <3>2. m.epoch = F /\ m.src # r
      BY <1>3, <1>5, <3>1
    <3> QED
      BY <1>3, <1>5, <3>1, <3>2
  <2> QED
    BY <1>1, <1>4, <2>1, <2>2 DEF CallInv
<1>11. /\ \A k \in Key : Sending(k)' = Sending(k) /\ InCaches(k)' = InCaches(k)
       /\ \A k, f : Since(k, f)' = Since(k, f)
  BY <1>1, <1>4, SumsKept
<1>12. \A k \in Key : epoch[Owner[k]] = e => Since(k, F) = Sending(k) + InCaches(k)
  BY <1>2, <1>3, Arrived
<1>13. Conserved'
  <2>1. ASSUME NEW k \in Key, NEW f, f = epoch'[Owner[k]]
        PROVE  D[f].counts[k] + Since(k, f)' = counts'[k] + Sending(k)' + InCaches(k)'
    <3>1. CASE Owner[k] = r
      <4>1. f = F /\ counts'[k] = D[F].counts[k] /\ Since(k, F) = Sending(k) + InCaches(k)
        BY <1>3, <1>4, <1>5, <1>12, <2>1, <3>1
      <4>2. counts'[k] \in Int /\ Sending(k) \in Int /\ InCaches(k) \in Int
        BY <1>1, <1>4, SumTypes DEF Sound, SumsOK, Counts
      <4>3. PICK a, b, i : a = counts'[k] /\ b = Sending(k) /\ i = InCaches(k)
        OBVIOUS
      <4>4. a + (b + i) = a + b + i
        BY <4>2, <4>3
      <4> QED
        BY <1>11, <4>1, <4>3, <4>4
    <3>2. CASE Owner[k] # r
      <4>1. f = epoch[Owner[k]] /\ counts'[k] = counts[k]
        BY <1>4, <1>5, <2>1, <3>2
      <4>2. D[f].counts[k] + Since(k, f) = counts[k] + Sending(k) + InCaches(k)
        BY <1>1, <1>3, <4>1 DEF Conserved
      <4> QED
        BY <1>11, <4>1, <4>2
    <3> QED
      BY <3>1, <3>2
  <2>2. \A k \in Key : \A f : f = epoch'[Owner[k]] =>
           D[f].counts[k] + Since(k, f)' = counts'[k] + Sending(k)' + InCaches(k)'
    BY <2>1
  <2> QED
    BY <1>6, <2>2 DEF Conserved
<1>14. FlowInv'
  <2>1. ASSUME NEW f \in 0 .. MaxEpoch, \A s \in Rank : epoch'[s] < f PROVE inserted'[f] = Nothing
    <3>1. \A s \in Rank : epoch[s] < f
      <4>1. f \in Nat
        BY SlotAssumption
      <4> QED
        BY <1>3, <1>5, <2>1, <4>1
    <3> QED
      BY <1>1, <1>4, <3>1 DEF FlowInv
  <2>2. ASSUME NEW k \in Key, NEW s \in Rank, NEW f, f = epoch'[s], f = epoch'[Owner[k]] + 1
        PROVE  Since(k, f)' = Sending(k)' + InCaches(k)'
    <3>1. f \in {e, F} /\ epoch'[Owner[k]] \in {e, F}
      BY <1>5, <2>2
    <3>2. f = F /\ epoch'[Owner[k]] = e
      BY <1>3, <1>5, <2>2, <3>1
    <3>3. epoch[Owner[k]] = e
      BY <1>3, <1>5, <3>2
    <3> QED
      BY <1>11, <1>12, <3>2, <3>3
  <2>3. \A k \in Key, s \in Rank : \A f : f = epoch'[s] /\ f = epoch'[Owner[k]] + 1 =>
           Since(k, f)' = Sending(k)' + InCaches(k)'
    BY <2>2
  <2> QED
    BY <2>1, <2>3 DEF FlowInv
<1>15. DueInv'
  <2>1. \A k \in Key : file'[k] = D[epoch'[Owner[k]]].file[k]
    BY <1>1, <1>3, <1>4, <1>5 DEF DueInv
  <2>2. ASSUME NEW s \in Rank, epoch'[s] > 0, plan[epoch'[s]] = "count"
        PROVE  part'[s] = AtOwner(s, Nothing, D[epoch'[s]].before)
    <3>1. CASE s = r
      <4>1. part' = [part EXCEPT ![r] = AtOwner(r, Nothing, D[F].before)] /\ DOMAIN part = Rank
        BY <1>1, <1>4, <1>5, <2>2, <3>1 DEF TypesOK
      <4> QED
        BY <1>5, <3>1, <4>1
    <3>2. CASE s # r
      <4>1. part'[s] = part[s] /\ epoch'[s] = epoch[s]
        <5>1. DOMAIN part = Rank
          BY <1>1 DEF TypesOK
        <5>2. part' = part \/ part' = [part EXCEPT ![r] = AtOwner(r, Nothing, D[F].before)]
          BY <1>4
        <5> QED
          BY <1>5, <3>2, <5>1, <5>2
      <4> QED
        BY <1>1, <1>3, <2>2, <4>1 DEF DueInv
    <3> QED
      BY <3>1, <3>2
  <2> QED
    BY <1>4, <1>6, <2>1, <2>2 DEF DueInv
<1>16. CountExact'
  <2>1. ASSUME NEW s \in Rank, s \notin counting', epoch'[s] > 0, plan[epoch'[s]] = "count"
        PROVE  answer[s] = D[epoch'[s]].before
    <3>1. s # r /\ s \notin counting
      BY <1>4, <1>5, <2>1
    <3>2. epoch'[s] = epoch[s]
      BY <1>5, <3>1
    <3> QED
      BY <1>1, <1>3, <2>1, <3>1, <3>2 DEF CountExact
  <2> QED
    BY <1>4, <1>6, <2>1 DEF CountExact
<1>17. SetIInv' <=> /\ TypesOK' /\ CachesOK' /\ LockstepInv' /\ CallInv' /\ FlowInv' /\ DueInv'
                    /\ Conserved' /\ CountExact'
  BY IInvMeans, PTL
<1> QED
  BY <1>7, <1>8, <1>9, <1>10, <1>13, <1>14, <1>15, <1>16, <1>17
-----------------------------------------------------------------------------
(* What a rank that is counting adds up: at each key the contribution of the
   owner, which is what is due, and 0 of all others.                       *)
LEMMA Contributions ==
  ASSUME NEW pt, NEW b \in Counts, \A s \in Rank : pt[s] = AtOwner(s, Nothing, b), NEW k \in Key
  PROVE  FoldFunction(+, 0, [s \in Rank |-> pt[s][k]]) = b[k]
<1> DEFINE v == [s \in Rank |-> pt[s][k]]
           o == Owner[k]
<1>1. o \in Rank /\ IsFiniteSet(Rank) /\ b[k] \in Int
  BY SlotAssumption DEF Counts
<1>2. ASSUME NEW s \in Rank PROVE v[s] = IF o = s THEN b[k] ELSE 0
  <2>1. v[s] = pt[s][k] /\ pt[s] = AtOwner(s, Nothing, b)
    OBVIOUS
  <2>2. Nothing \in Counts /\ Nothing[k] = 0
    BY CountsTypes
  <2>3. AtOwner(s, Nothing, b)[k] = IF o = s THEN b[k] ELSE Nothing[k]
    BY <2>2, AtOwnerFacts
  <2> HIDE DEF v, o
  <2> QED
    BY <2>1, <2>2, <2>3
<1>3. v \in [Rank -> Int] /\ v[o] = b[k] /\ \A s \in Rank \ {o} : v[s] = 0
  <2>1. DOMAIN v = Rank /\ v = [s \in Rank |-> v[s]]
    OBVIOUS
  <2> HIDE DEF v, o
  <2> QED
    BY <1>1, <1>2, <2>1
<1>4. FoldFunction(+, 0, [s \in Rank |-> pt[s][k]]) = SumOf(v)
  BY DEF SumOf
<1> HIDE DEF v, o
<1>5. SumOf(v) = v[o]
  BY <1>1, <1>3, SumAlone
<1> QED
  BY <1>3, <1>4, <1>5

LEMMA CountedStep ==
  ASSUME SetIInv, NEW r \in Rank, Counted(r)
  PROVE  SetIInv'
<1>1. TypesOK /\ CachesOK /\ LockstepInv /\ CallInv /\ RowsOK /\ DueInv /\ CountExact
  BY IInvMeans DEF CachesOK
<1>2. /\ r \in counting /\ \A s \in Rank : epoch[s] >= epoch[r]
      /\ answer' = [answer EXCEPT ![r] =
           [k \in Key |-> FoldFunction(+, 0, [s \in Rank |-> part[s][k]])]]
      /\ counting' = counting \ {r}
      /\ UNCHANGED <<issued, executed, epoch, inside, calls, cache, counts, stack, inserted, plan, file, part>>
  BY DEF Counted, bsVars
<1>3. PICK e, D : e = epoch[r] /\ D = Due
  OBVIOUS
<1>4. /\ e \in 0 .. Len(plan) /\ \A s \in Rank : epoch[s] = e
      /\ \A s \in Rank : epoch[s] \in 0 .. Len(plan)
  <2>1. r \notin inside
    BY <1>1, <1>2 DEF LockstepInv
  <2>2. \A s \in Rank : epoch[s] \in Nat /\ epoch[s] <= epoch[r] /\ epoch[s] <= Len(plan)
    BY <1>1, <2>1, TypeFacts, AtFront
  <2>3. Len(plan) \in Nat
    BY <1>1, TypeFacts
  <2>4. ASSUME NEW s \in Rank PROVE epoch[s] \in 0 .. Len(plan)
    <3>1. epoch[s] \in Nat /\ epoch[s] <= Len(plan)
      BY <2>2
    <3> QED
      BY <2>3, <3>1
  <2>5. ASSUME NEW s \in Rank PROVE epoch[s] = epoch[r]
    <3>1. epoch[s] \in Nat /\ epoch[r] \in Nat /\ epoch[s] <= epoch[r]
      BY <2>2
    <3>2. epoch[s] >= epoch[r]
      BY <1>2
    <3> QED
      BY <3>1, <3>2
  <2> QED
    BY <1>3, <2>4, <2>5
<1>5. \A s \in Rank : D[epoch[s]].before \in Counts
  BY <1>1, <1>3, <1>4, DueTypes DEF Ending
<1>6. ASSUME e > 0, plan[e] = "count" PROVE answer'[r] = D[e].before
  <2>1. PICK pt, b : pt = part /\ b = D[e].before
    OBVIOUS
  <2>2. b \in Counts /\ \A s \in Rank : pt[s] = AtOwner(s, Nothing, b)
    BY <1>1, <1>3, <1>4, <1>5, <1>6, <2>1 DEF DueInv
  <2>3. \A k \in Key : FoldFunction(+, 0, [s \in Rank |-> pt[s][k]]) = b[k]
    BY <2>2, Contributions
  <2>4. answer'[r] = [k \in Key |-> FoldFunction(+, 0, [s \in Rank |-> pt[s][k]])]
    BY <1>1, <1>2, <2>1 DEF TypesOK
  <2>5. b = [k \in Key |-> b[k]]
    BY <2>2 DEF Counts
  <2> QED
    BY <2>1, <2>3, <2>4, <2>5
<1>7. TypesOK'
  <2>1. ASSUME NEW k \in Key PROVE FoldFunction(+, 0, [s \in Rank |-> part[s][k]]) \in Nat
    <3> DEFINE v == [s \in Rank |-> part[s][k]]
    <3>1. v \in [Rank -> Nat] /\ IsFiniteSet(Rank)
      BY <1>1, SlotAssumption DEF TypesOK, Counts
    <3>2. FoldFunction(+, 0, [s \in Rank |-> part[s][k]]) = SumOf(v)
      BY DEF SumOf
    <3> HIDE DEF v
    <3> QED
      BY <3>1, <3>2, SumNat
  <2>2. answer' \in [Rank -> Counts]
    <3> DEFINE w == [k \in Key |-> FoldFunction(+, 0, [s \in Rank |-> part[s][k]])]
    <3>1. w \in Counts
      BY <2>1 DEF Counts
    <3>2. answer' = [answer EXCEPT ![r] = w] /\ answer \in [Rank -> Counts]
      BY <1>1, <1>2 DEF TypesOK
    <3> HIDE DEF w
    <3> QED
      BY <3>1, <3>2
  <2> QED
    BY <1>1, <1>2, <2>2 DEF TypesOK
<1>8. LockstepInv'
  BY <1>1, <1>2 DEF LockstepInv
<1>9. CallInv'
  BY <1>1, <1>2 DEF CallInv, Pending
<1>10. CachesOK'
  <2>1. RowsOK'
    BY <1>1, <1>2 DEF RowsOK
  <2> QED
    BY <1>1, <1>2, <2>1 DEF CachesOK
<1>11. Conserved' /\ FlowInv' /\ DueInv' /\ Due' = D
  <2>1. \A k \in Key : InCaches(k)' = InCaches(k)
    BY <1>1, <1>2, SumsKept
  <2>2. Len(plan) <= Len(plan') /\ \A i \in 1 .. Len(plan) : plan'[i] = plan[i]
    <3>1. Len(plan) \in Nat
      BY <1>1, TypeFacts
    <3>2. plan' = plan
      BY <1>2
    <3>3. Len(plan) <= Len(plan)
      BY <3>1
    <3> QED
      BY <3>2, <3>3
  <2>3. Due' = D
    BY <1>2, <1>3 DEF Due
  <2>4. UNCHANGED <<issued, executed, epoch, calls, counts, inserted, file, part>>
    BY <1>2
  <2> QED
    BY <1>7, <2>1, <2>2, <2>3, <2>4, FlowKept
<1>12. CountExact'
  <2>1. ASSUME NEW s \in Rank, s \notin counting', epoch[s] > 0, plan[epoch[s]] = "count"
        PROVE  answer'[s] = D[epoch[s]].before
    <3>1. CASE s = r
      BY <1>3, <1>6, <2>1, <3>1
    <3>2. CASE s # r
      <4>1. s \notin counting /\ answer'[s] = answer[s]
        BY <1>1, <1>2, <2>1, <3>2 DEF TypesOK
      <4> QED
        BY <1>1, <1>3, <2>1, <4>1 DEF CountExact
    <3> QED
      BY <3>1, <3>2
  <2> QED
    BY <1>2, <1>11, <2>1 DEF CountExact
<1>13. SetIInv' <=> /\ TypesOK' /\ CachesOK' /\ LockstepInv' /\ CallInv' /\ FlowInv' /\ DueInv'
                    /\ Conserved' /\ CountExact'
  BY IInvMeans, PTL
<1> QED
  BY <1>7, <1>8, <1>9, <1>10, <1>11, <1>12, <1>13
-----------------------------------------------------------------------------
LEMMA SetStart == SetInit => SetIInv
<1> SUFFICES ASSUME SetInit PROVE SetIInv
  OBVIOUS
<1>1. /\ issued = {} /\ executed = {} /\ inside = {} /\ epoch = [r \in Rank |-> 0]
      /\ calls = <<>> /\ cache = [r \in Rank |-> [s \in 1 .. Size |-> Free]]
      /\ counts = Nothing /\ stack = [r \in Rank |-> <<>>] /\ plan = <<>> /\ file = Nothing
      /\ inserted = [e \in 0 .. MaxEpoch |-> Nothing]
      /\ counting = {} /\ part = [r \in Rank |-> Nothing] /\ answer = [r \in Rank |-> Nothing]
  BY DEF SetInit, BSInit
<1>2. MaxEpoch \in Nat /\ Size \in Nat /\ MaxCached \in Nat /\ Nothing \in Counts /\ \A k \in Key : Owner[k] \in Rank
  BY SlotAssumption, CountsTypes
<1>3. Pending = {}
  BY <1>1 DEF Pending
<1>4. TypesOK
  <2>1. IsFiniteSet(issued)
    BY <1>1, FS_EmptySet
  <2>2. plan \in Seq(Colls) /\ Len(plan) = 0 /\ calls \in Seq(AddCall)
    BY <1>1
  <2>3. inserted \in [0 .. MaxEpoch -> Counts] /\ part \in [Rank -> Counts] /\ answer \in [Rank -> Counts]
    BY <1>1, <1>2
  <2> QED
    BY <1>1, <1>2, <2>1, <2>2, <2>3 DEF TypesOK
<1>5. CachesOK
  <2>1. ASSUME NEW r \in Rank, NEW s \in 1 .. Size
        PROVE  cache[r][s] = Free /\ Free \in Entry(s) /\ Free.n < MaxCached
    BY <1>1, <1>2 DEF Entry, Free
  <2>2. ASSUME NEW r \in Rank
        PROVE  stack[r] = <<>> /\ Row(cache[r], stack[r]) /\ SlotOK(cache[r], stack[r])
    <3>1. stack[r] = <<>>
      BY <1>1
    <3> QED
      BY <2>1, <3>1, SlotForms DEF Row
  <2>3. RowsOK
    BY <2>2 DEF RowsOK
  <2>4. stack = [r \in Rank |-> stack[r]]
    BY <1>1
  <2>5. cache = [r \in Rank |-> [s \in 1 .. Size |-> cache[r][s]]]
    BY <1>1
  <2> QED
    BY <1>1, <2>2, <2>3, <2>4, <2>5 DEF CachesOK
<1>6. LockstepInv
  BY <1>1 DEF LockstepInv
<1>7. CallInv
  BY <1>1, <1>3 DEF CallInv
<1>8. ASSUME NEW k \in Key PROVE Sending(k) = 0 /\ InCaches(k) = 0 /\ Since(k, 0) = 0
  <2>1. Sending(k) = 0
    BY <1>3, <1>4, <1>6, NothingSent
  <2>2. InCaches(k) = 0
    <3>1. PICK ca, sk : ca = cache /\ sk = stack
      OBVIOUS
    <3>2. InCaches(k) = CachesOf(ca, sk, k)
      BY <1>5, <3>1, RowsMean DEF RowSums, CachesOK
    <3>3. \A s \in Rank : sk[s] = <<>> /\ \A t \in 1 .. Size : ca[s][t] = Free
      BY <1>1, <3>1
    <3> QED
      BY <3>2, <3>3, CachesEmpty
  <2>3. Since(k, 0) = 0
    <3>1. PICK ins : ins = inserted
      OBVIOUS
    <3>2. Since(k, 0) = TailOf(ins, k, 0)
      BY <3>1, SumsAre DEF Summed
    <3>3. ins \in [0 .. MaxEpoch -> Counts] /\ \A f \in 0 .. MaxEpoch : ins[f] = Nothing
      BY <1>1, <1>4, <3>1 DEF TypesOK
    <3> QED
      BY <3>2, <3>3, TailZero
  <2> QED
    BY <2>1, <2>2, <2>3
<1>9. Due[0] = Start /\ Start.counts = Nothing /\ Start.file = Nothing
  BY <1>4, DueTypes DEF Start
<1>10. \A k \in Key : Nothing[k] = 0 /\ epoch[Owner[k]] = 0
  BY <1>1, <1>2, CountsTypes
<1>11. Conserved
  <2>1. ASSUME NEW k \in Key
        PROVE  Due[0].counts[k] + Since(k, 0) = counts[k] + Sending(k) + InCaches(k)
    BY <1>1, <1>8, <1>9, <1>10
  <2> QED
    BY <1>10, <2>1 DEF Conserved
<1>12. FlowInv
  BY <1>1, <1>2 DEF FlowInv
<1>13. DueInv
  BY <1>1, <1>9, <1>10 DEF DueInv
<1>14. CountExact
  BY <1>1 DEF CountExact
<1> QED
  BY <1>4, <1>5, <1>6, <1>7, <1>11, <1>12, <1>13, <1>14, IInvMeans

LEMMA SetStutter ==
  ASSUME SetIInv, UNCHANGED allVars
  PROVE  SetIInv'
<1>1. TypesOK /\ CachesOK /\ LockstepInv /\ CallInv /\ RowsOK /\ CountExact
  BY IInvMeans DEF CachesOK
<1>2. UNCHANGED <<issued, executed, epoch, inside, calls, cache, counts, stack, inserted,
                  plan, file, counting, part, answer>>
  BY DEF allVars, bsVars, setVars, collVars
<1>3. TypesOK'
  BY <1>1, <1>2 DEF TypesOK
<1>4. LockstepInv'
  BY <1>1, <1>2, LockstepKept
<1>5. CallInv'
  BY <1>1, <1>2 DEF CallInv, Pending
<1>6. CachesOK'
  <2>1. RowsOK'
    BY <1>1, <1>2 DEF RowsOK
  <2> QED
    BY <1>1, <1>2, <2>1 DEF CachesOK
<1>7. Conserved' /\ FlowInv' /\ DueInv'
  <2>1. \A k \in Key : InCaches(k)' = InCaches(k)
    BY <1>1, <1>2, SumsKept
  <2>2. Len(plan) <= Len(plan') /\ \A i \in 1 .. Len(plan) : plan'[i] = plan[i]
    <3>1. Len(plan) \in Nat
      BY <1>1, TypeFacts
    <3>2. plan' = plan
      BY <1>2
    <3>3. Len(plan) <= Len(plan)
      BY <3>1
    <3> QED
      BY <3>2, <3>3
  <2>3. UNCHANGED <<issued, executed, epoch, calls, counts, inserted, file, part>>
    BY <1>2
  <2> QED
    BY <1>3, <2>1, <2>2, <2>3, FlowKept
<1>8. CountExact'
  <2>1. Due' = Due
    BY <1>2 DEF Due
  <2> QED
    BY <1>1, <1>2, <2>1 DEF CountExact
<1>9. SetIInv' <=> /\ TypesOK' /\ CachesOK' /\ LockstepInv' /\ CallInv' /\ FlowInv' /\ DueInv'
                   /\ Conserved' /\ CountExact'
  BY IInvMeans, PTL
<1> QED
  BY <1>3, <1>4, <1>5, <1>6, <1>7, <1>8, <1>9

LEMMA SetStep == SetIInv /\ [SetNext]_allVars => SetIInv'
<1> SUFFICES ASSUME SetIInv, [SetNext]_allVars PROVE SetIInv'
  OBVIOUS
<1>1. ASSUME NEW r \in Rank, NEW k \in Key, Insert(r, k) PROVE SetIInv'
  BY <1>1, InsertStep
<1>2. ASSUME NEW r \in Rank, Flushed(r) PROVE SetIInv'
  BY <1>2, FlushedStep
<1>3. ASSUME NEW r \in Rank, Collective(r) PROVE SetIInv'
  BY <1>3, CollectiveStep
<1>4. ASSUME NEW r \in Rank, FlushAll(r) PROVE SetIInv'
  BY <1>4, FlushAllStep
<1>5. ASSUME NEW r \in Rank, Leave(r) PROVE SetIInv'
  BY <1>5, LeaveStep
<1>6. ASSUME NEW r \in Rank, Counted(r) PROVE SetIInv'
  BY <1>6, CountedStep
<1>7. ASSUME NEW m \in Pending, Add(m) PROVE SetIInv'
  BY <1>7, AddStep
<1>8. CASE Ended \/ UNCHANGED allVars
  <2>1. UNCHANGED allVars
    BY <1>8 DEF Ended
  <2> QED
    BY <2>1, SetStutter
<1> QED
  BY <1>1, <1>2, <1>3, <1>4, <1>5, <1>6, <1>7, <1>8 DEF SetNext

(* Insertions are conserved and counted exactly in every reachable state:
   the three parts are inductive only together.                            *)
THEOREM SetIInvariant == SetSpec => []SetIInv
<1> QED
  BY SetStart, SetStep, PTL DEF SetSpec

(* The invariant that the theorems below rest on: the main thread of a rank
   is in the middle of nothing but a flush, the loop over the slots, or a
   flush of that loop; slots that are not being flushed stay below the
   maximum and are empty behind the loop and inside the barrier; ranks are
   at most an epoch apart, and what is on its way belongs to the latest one
   (async_insert, count_cache_flush and count_cache_flush_all).            *)
THEOREM SetInvariant == SetSpec => []SetInv
<1>1. SetIInv => SetInv
  BY DEF SetIInv
<1> QED
  BY <1>1, SetIInvariant, PTL

(* No insertion is lost or counted twice on its way from async_insert()
   through the cache, the flush and the visit at the owner, whatever calls
   run while a flush is in its async(), and whatever clear() or deserialize()
   take away at the end of an epoch.                                       *)
THEOREM CountsAreConserved == SetSpec => []CountsConserved
<1>1. SetIInv => CountsConserved
  BY DEF SetIInv
<1> QED
  BY <1>1, SetIInvariant, PTL

(* count(k), the all_reduce_sum() over all ranks, returns on every rank the
   number of insertions of k made by all ranks before it, since the last
   clear() or since that of the last file that was read.                   *)
THEOREM CountIsExact == SetSpec => []CountExact
<1>1. SetIInv => CountExact
  BY DEF SetIInv
<1> QED
  BY <1>1, SetIInvariant, PTL
=============================================================================
