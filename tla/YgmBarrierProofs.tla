-------------------------- MODULE YgmBarrierProofs --------------------------
(***************************************************************************)
(* Theorems about YgmBarrier, for every number of ranks, calls, barriers   *)
(* and every fan-out.                                                      *)
(***************************************************************************)
EXTENDS YgmBarrier, FiniteSetTheorems, SequenceTheorems, TLAPS

(* Starting a handler pushes its call on a stack of handlers.              *)
LEMMA PushLemma ==
  ASSUME NEW S, NEW s \in Seq(S), NEW m \in S
  PROVE  /\ <<m>> \o s \in Seq(S) /\ <<m>> \o s # <<>>
         /\ DOMAIN (<<m>> \o s) = 1 .. Len(s) + 1
         /\ (<<m>> \o s)[1] = m
         /\ \A i \in 2 .. Len(s) + 1 : (<<m>> \o s)[i] = s[i - 1]
         /\ DOMAIN s = 1 .. Len(s) /\ Len(s) \in Nat
<1>1. <<m>> \in Seq(S) /\ Len(<<m>>) = 1 /\ <<m>>[1] = m
  OBVIOUS
<1>2. /\ <<m>> \o s \in Seq(S)
      /\ Len(<<m>> \o s) = Len(s) + 1
      /\ \A i \in 1 .. Len(s) + 1 : (<<m>> \o s)[i] =
            IF i <= 1 THEN <<m>>[i] ELSE s[i - 1]
  <2>1. Len(s) \in Nat
    BY LenProperties
  <2> QED
    BY <1>1, <2>1, ConcatProperties
<1>3. DOMAIN s = 1 .. Len(s) /\ Len(s) \in Nat
  BY LenProperties
<1>4. DOMAIN (<<m>> \o s) = 1 .. Len(s) + 1
  BY <1>2, LenProperties
<1>5. <<m>> \o s # <<>>
  BY <1>2, <1>3, EmptySeq
<1> QED
  BY <1>1, <1>2, <1>3, <1>4, <1>5

(* A handler that returns is popped.                                       *)
LEMMA PopLemma ==
  ASSUME NEW S, NEW s \in Seq(S), s # <<>>
  PROVE  /\ Tail(s) \in Seq(S) /\ Head(s) \in S /\ Head(s) = s[1]
         /\ DOMAIN s = 1 .. Len(s) /\ Len(s) \in Nat \ {0}
         /\ DOMAIN Tail(s) = 1 .. Len(s) - 1
         /\ \A i \in 1 .. Len(s) - 1 : Tail(s)[i] = s[i + 1]
<1>1. Tail(s) \in Seq(S) /\ Head(s) \in S /\ Len(Tail(s)) = Len(s) - 1
      /\ \A i \in 1 .. Len(Tail(s)) : Tail(s)[i] = s[i + 1]
  BY HeadTailProperties
<1>2. Head(s) = s[1]
  OBVIOUS
<1>3. DOMAIN s = 1 .. Len(s) /\ Len(s) \in Nat \ {0}
  BY LenProperties, EmptySeq
<1>4. DOMAIN Tail(s) = 1 .. Len(s) - 1
  BY <1>1, LenProperties
<1> QED
  BY <1>1, <1>2, <1>3, <1>4
-----------------------------------------------------------------------------
(* Every state of every behaviour is well typed: TypeOK is inductive.      *)
LEMMA TypeStep == TypeOK /\ [Next]_vars => TypeOK'
<1> SUFFICES ASSUME TypeOK, [Next]_vars PROVE TypeOK'
  OBVIOUS
<1> USE DEF TypeOK
<1>1. ASSUME NEW r \in Rank, NEW d \in Rank \ {r}, Async(r, d)
      PROVE  TypeOK'
  <2> DEFINE m == NewCall(r, d)
  <2>1. Parent(r) \in Nat
    <3>1. CASE stack[r] = <<>>
      BY <3>1 DEF Parent
    <3>2. CASE stack[r] # <<>>
      <4>1. Head(stack[r]) \in Call
        BY <3>2, PopLemma
      <4> QED
        BY <3>2, <4>1 DEF Parent, Call
    <3> QED
      BY <3>1, <3>2
  <2>2. Cardinality(issued) + 1 \in Nat \ {0}
    BY FS_CardinalityType
  <2>3. m \in Call
    BY <2>1, <2>2 DEF Call, NewCall
  <2>4. IsFiniteSet(issued \cup {m})
    BY FS_AddElement
  <2> QED
    BY <1>1, <2>3, <2>4, SMTT(30) DEF Async, collVars
<1>2. ASSUME NEW m \in issued, Begin(m)
      PROVE  TypeOK'
  <2>1. m \in Call /\ m.dst \in Rank
    BY DEF Call
  <2>2. <<m>> \o stack[m.dst] \in Seq(Call)
    BY <2>1, PushLemma
  <2> QED
    BY <1>2, <2>1, <2>2 DEF Begin, collVars
<1>3. ASSUME NEW r \in Rank, End(r)
      PROVE  TypeOK'
  <2>1. Tail(stack[r]) \in Seq(Call) /\ Head(stack[r]) \in Call
    BY <1>3, PopLemma DEF End
  <2> QED
    BY <1>3, <2>1 DEF End, collVars
<1>4. ASSUME NEW r \in Rank, Enter(r)
      PROVE  TypeOK'
  BY <1>4 DEF Enter, callVars, Place
<1>5. ASSUME NEW r \in Rank, Contribute(r)
      PROVE  arSum' \in Int /\ result' \in [Rank -> Int \cup {None}]
  <2> DEFINE total == arSum + LocalCount(r)
  <2>1. total \in Int
    BY DEF LocalCount
  <2> HIDE DEF total
  <2>2. CASE Gathered = Rank \ {r}
    BY <1>5, <2>1, <2>2 DEF Contribute, total
  <2>3. CASE Gathered # Rank \ {r}
    BY <1>5, <2>1, <2>3 DEF Contribute, total
  <2> QED
    BY <2>2, <2>3
<1>6. ASSUME NEW r \in Rank, First(r)
      PROVE  TypeOK'
  <2>1. LocalCount(r) \in Int
    BY DEF LocalCount
  <2> QED
    BY <1>5, <1>6, <2>1 DEF First, callVars, Place
<1>7. ASSUME NEW r \in Rank, Second(r)
      PROVE  TypeOK'
  BY <1>5, <1>7 DEF Second, callVars, Place
<1>8. ASSUME NEW r \in Rank, Restart(r)
      PROVE  TypeOK'
  BY <1>8 DEF Restart, callVars, Place
<1>9. ASSUME NEW r \in Rank, Leave(r)
      PROVE  TypeOK'
  BY <1>9 DEF Leave, callVars, Place
<1>10. ASSUME NEW r \in Rank, Throw(r)
       PROVE  TypeOK'
  BY <1>10 DEF Throw, callVars, Place
<1>11. CASE UNCHANGED vars
  BY <1>11 DEF vars
<1> QED
  BY <1>1, <1>2, <1>3, <1>4, <1>6, <1>7, <1>8, <1>9, <1>10, <1>11
     DEF Next, RankStep, Stop

LEMMA TypeInit == Init => TypeOK
<1> SUFFICES ASSUME Init PROVE TypeOK
  OBVIOUS
<1>1. IsFiniteSet(issued)
  BY FS_EmptySet DEF Init
<1>2. <<>> \in Seq(Call)
  OBVIOUS
<1> QED
  BY <1>1, <1>2 DEF Init, TypeOK, Place

THEOREM TypeCorrect == Spec => []TypeOK
<1> QED
  BY TypeInit, TypeStep, PTL DEF Spec
-----------------------------------------------------------------------------
(* The steps of a rank are of two kinds: those that make, start or end a
   call, and those of barrier(), which leave the calls alone.              *)
LEMMA StepKinds ==
  ASSUME [Next]_vars
  PROVE  \/ \E r \in Rank : \E d \in Rank \ {r} : Async(r, d)
         \/ \E m \in issued : Begin(m)
         \/ \E r \in Rank : End(r)
         \/ /\ UNCHANGED callVars
            /\ \/ \E r \in Rank : \/ Enter(r) \/ First(r) \/ Second(r)
                                  \/ Restart(r) \/ Leave(r) \/ Throw(r)
               \/ UNCHANGED vars
  BY DEF Next, RankStep, Stop, vars, callVars, Enter, First, Second, Restart,
         Leave, Throw

(* Making, starting or ending a call leaves the barrier alone.             *)
LEMMA CallKinds ==
  /\ \A r, d : Async(r, d) => UNCHANGED collVars
  /\ \A m : Begin(m) => UNCHANGED collVars
  /\ \A r : End(r) => UNCHANGED collVars
  BY DEF Async, Begin, End

(* Calls are numbered in the order they are made.                          *)
LEMMA IdsStep == TypeOK /\ IdsInv /\ [Next]_vars => IdsInv'
<1> SUFFICES ASSUME TypeOK, IdsInv, [Next]_vars PROVE IdsInv'
  OBVIOUS
<1>1. ASSUME NEW r \in Rank, NEW d \in Rank \ {r}, Async(r, d)
      PROVE  IdsInv'
  <2> DEFINE m == NewCall(r, d)
  <2>1. issued' = issued \cup {m} /\ m.id = Cardinality(issued) + 1
    BY <1>1 DEF Async, NewCall
  <2>2. m \notin issued /\ Cardinality(issued) \in Nat
    BY <2>1, FS_CardinalityType DEF IdsInv, TypeOK
  <2> HIDE DEF m
  <2>3. Cardinality(issued') = Cardinality(issued) + 1
    BY <2>1, <2>2, FS_AddElement DEF TypeOK
  <2>4. \A x \in issued : x.id \in Nat /\ x.id <= Cardinality(issued)
    BY DEF IdsInv, TypeOK, Call
  <2> QED
    BY <2>1, <2>2, <2>3, <2>4 DEF IdsInv
<1>2. CASE UNCHANGED issued
  BY <1>2 DEF IdsInv
<1> QED
  BY <1>1, <1>2, StepKinds DEF Begin, End, callVars

(* The stacks hold distinct pending calls, and are empty while a rank is
   blocked in the second reduction.                                        *)
LEMMA StackStep == TypeOK /\ StackInv /\ [Next]_vars => StackInv'
<1> SUFFICES ASSUME TypeOK, StackInv, [Next]_vars PROVE StackInv'
  OBVIOUS
<1> USE DEF StackInv
<1>1. ASSUME NEW r \in Rank, NEW d \in Rank \ {r}, Async(r, d)
      PROVE  StackInv'
  BY <1>1 DEF Async, collVars
<1>2. ASSUME NEW m \in issued, Begin(m)
      PROVE  StackInv'
  <2> DEFINE r == m.dst
             s == stack[r]
  <2>1. m \in Call /\ r \in Rank /\ s \in Seq(Call)
    BY DEF Call, TypeOK
  <2>2. /\ m \in issued \ executed
        /\ \A i \in DOMAIN s : s[i] # m
        /\ s # <<>> \/ pc[r] \in {"app", "idle", "wait1"}
    BY <1>2, <2>1 DEF Begin, InFlight, Running, Elems
  <2>3. stack' = [stack EXCEPT ![r] = <<m>> \o s]
        /\ pc' = pc /\ issued' = issued /\ executed' = executed
    BY <1>2 DEF Begin, collVars
  <2>4. /\ DOMAIN s = 1 .. Len(s) /\ Len(s) \in Nat
        /\ DOMAIN (<<m>> \o s) = 1 .. Len(s) + 1
        /\ (<<m>> \o s)[1] = m
        /\ \A i \in 2 .. Len(s) + 1 : (<<m>> \o s)[i] = s[i - 1]
    BY <2>1, PushLemma
  <2>5. \A i \in DOMAIN (<<m>> \o s) :
          /\ (<<m>> \o s)[i] \in issued \ executed
          /\ (<<m>> \o s)[i].dst = r
          /\ \A j \in DOMAIN (<<m>> \o s) :
                (<<m>> \o s)[i] = (<<m>> \o s)[j] => i = j
    <3> DEFINE t == <<m>> \o s
    <3> HIDE DEF t
    <3>1. \A i \in DOMAIN t : \/ i = 1 /\ t[i] = m
                              \/ i - 1 \in DOMAIN s /\ t[i] = s[i - 1]
      <4> DEFINE n == Len(s)
      <4> HIDE DEF n
      <4>1. \A i \in 1 .. n + 1 : i = 1 \/ (i \in 2 .. n + 1 /\ i - 1 \in 1 .. n)
        BY <2>4 DEF n
      <4>2. /\ DOMAIN t = 1 .. n + 1 /\ DOMAIN s = 1 .. n /\ t[1] = m
            /\ \A i \in 2 .. n + 1 : t[i] = s[i - 1]
        BY <2>4 DEF n, t
      <4> QED
        BY <4>1, <4>2
    <3>2. \A i \in DOMAIN t : i \in Int
      BY <2>4 DEF t
    <3>3. t[1] = m
      BY <2>4 DEF t
    <3> QED
      BY <2>1, <2>2, <3>1, <3>2, <3>3 DEF t
  <2>6. stack \in [Rank -> Seq(Call)]
    BY DEF TypeOK
  <2> HIDE DEF r, s
  <2>7. stack'[r] = <<m>> \o s /\ \A q \in Rank \ {r} : stack'[q] = stack[q]
    BY <2>1, <2>3, <2>6
  <2>8. ASSUME NEW q \in Rank, NEW i \in DOMAIN stack'[q]
        PROVE  /\ stack'[q][i] \in issued \ executed
               /\ stack'[q][i].dst = q
               /\ \A j \in DOMAIN stack'[q] :
                    stack'[q][i] = stack'[q][j] => i = j
    <3>1. CASE q = r
      BY <3>1, <2>5, <2>7
    <3>2. CASE q # r
      BY <3>2, <2>7
    <3> QED
      BY <3>1, <3>2
  <2>9. ASSUME NEW q \in Rank, pc[q] \in {"wait2", "thrown"}
        PROVE  stack'[q] = <<>>
    BY <2>2, <2>7, <2>9 DEF r, s
  <2> QED
    BY <2>3, <2>8, <2>9
<1>3. ASSUME NEW r \in Rank, End(r)
      PROVE  StackInv'
  <2> DEFINE s == stack[r]
             h == Head(s)
  <2>1. /\ s # <<>> /\ executed' = executed \cup {h}
        /\ stack' = [stack EXCEPT ![r] = Tail(s)]
        /\ issued' = issued /\ pc' = pc
    BY <1>3 DEF End, collVars
  <2>2. s \in Seq(Call) /\ stack \in [Rank -> Seq(Call)]
    BY DEF TypeOK
  <2>3. /\ h = s[1]
        /\ DOMAIN s = 1 .. Len(s) /\ Len(s) \in Nat \ {0}
        /\ DOMAIN Tail(s) = 1 .. Len(s) - 1
        /\ \A i \in 1 .. Len(s) - 1 : Tail(s)[i] = s[i + 1]
    BY <2>1, <2>2, PopLemma
  <2>4. h \in issued \ executed /\ h.dst = r
    BY <2>3
  <2>5. \A i \in DOMAIN Tail(s) :
          /\ i \in Int /\ i + 1 \in DOMAIN s /\ Tail(s)[i] = s[i + 1]
          /\ Tail(s)[i] # h
    <3>1. \A i \in DOMAIN Tail(s) :
             /\ i \in Int /\ i + 1 \in DOMAIN s /\ i + 1 # 1
             /\ Tail(s)[i] = s[i + 1] /\ 1 \in DOMAIN s
      BY <2>3
    <3> QED
      BY <3>1, <2>3
  <2> HIDE DEF s, h
  <2>6. stack'[r] = Tail(s) /\ \A q \in Rank \ {r} : stack'[q] = stack[q]
    BY <2>1, <2>2
  <2>7. ASSUME NEW q \in Rank, NEW i \in DOMAIN stack'[q]
        PROVE  /\ stack'[q][i] \in issued \ executed'
               /\ stack'[q][i].dst = q
               /\ \A j \in DOMAIN stack'[q] :
                    stack'[q][i] = stack'[q][j] => i = j
    <3>1. CASE q = r
      <4>1. \A j \in DOMAIN Tail(s) : Tail(s)[i] = Tail(s)[j] => i + 1 = j + 1
        BY <3>1, <2>5, <2>6 DEF s
      <4>2. \A j \in DOMAIN Tail(s) : Tail(s)[i] = Tail(s)[j] => i = j
        BY <3>1, <2>5, <2>6, <4>1
      <4>3. Tail(s)[i] \in issued \ executed' /\ Tail(s)[i].dst = r
        <5>1. i + 1 \in DOMAIN s /\ Tail(s)[i] = s[i + 1] /\ Tail(s)[i] # h
          BY <3>1, <2>5, <2>6
        <5>2. s[i + 1] \in issued \ executed /\ s[i + 1].dst = r
          BY <5>1 DEF s
        <5> QED
          BY <5>1, <5>2, <2>1
      <4> QED
        BY <3>1, <2>6, <4>2, <4>3
    <3>2. CASE q # r
      BY <3>2, <2>1, <2>4, <2>6
    <3> QED
      BY <3>1, <3>2
  <2>8. ASSUME NEW q \in Rank, pc[q] \in {"wait2", "thrown"}
        PROVE  stack'[q] = <<>>
    BY <2>1, <2>6, <2>8 DEF s
  <2> QED
    BY <2>1, <2>4, <2>7, <2>8
<1>4. ASSUME UNCHANGED callVars,
             NEW r \in Rank,
             Enter(r) \/ First(r) \/ Second(r) \/ Restart(r) \/ Leave(r) \/ Throw(r)
      PROVE  StackInv'
  <2>1. /\ issued' = issued /\ executed' = executed /\ stack' = stack
    BY <1>4 DEF callVars
  <2>2. \A q \in Rank : pc'[q] \in {"wait2", "thrown"} => stack[q] = <<>>
    BY <1>4 DEF TypeOK, Enter, First, Second, Restart, Leave, Throw, AtAssert
  <2> QED
    BY <2>1, <2>2
<1>5. CASE UNCHANGED vars
  BY <1>5 DEF vars
<1> QED
  BY <1>1, <1>2, <1>3, <1>4, <1>5, StepKinds
-----------------------------------------------------------------------------
(* The sets that the counters count are finite.                            *)
LEMMA FiniteCalls ==
  ASSUME TypeOK, StackInv
  PROVE  /\ IsFiniteSet(issued) /\ IsFiniteSet(executed)
         /\ \A S : /\ IsFiniteSet(SentBy(S)) /\ IsFiniteSet(RunAt(S))
                   /\ Cardinality(SentBy(S)) \in Nat
                   /\ Cardinality(RunAt(S)) \in Nat
<1>1. IsFiniteSet(issued) /\ IsFiniteSet(executed)
  BY FS_Subset DEF TypeOK, StackInv
<1>2. ASSUME NEW S
      PROVE  /\ IsFiniteSet(SentBy(S)) /\ IsFiniteSet(RunAt(S))
             /\ Cardinality(SentBy(S)) \in Nat
             /\ Cardinality(RunAt(S)) \in Nat
  <2>1. SentBy(S) \subseteq issued /\ RunAt(S) \subseteq executed
    BY DEF SentBy, RunAt
  <2>2. IsFiniteSet(SentBy(S)) /\ IsFiniteSet(RunAt(S))
    BY <1>1, <2>1, FS_Subset
  <2> QED
    BY <2>2, FS_CardinalityType
<1> QED
  BY <1>1, <1>2

(* The sizes of disjoint finite sets add up.                               *)
LEMMA DisjointUnion ==
  ASSUME NEW A, IsFiniteSet(A), NEW B, IsFiniteSet(B), A \cap B = {}
  PROVE  Cardinality(A \cup B) = Cardinality(A) + Cardinality(B)
<1>1. Cardinality(A \cup B) = Cardinality(A) + Cardinality(B) - Cardinality(A \cap B)
  BY FS_Union
<1>2. Cardinality(A \cap B) = 0
  BY FS_EmptySet
<1>3. Cardinality(A) \in Nat /\ Cardinality(B) \in Nat
  BY FS_CardinalityType
<1> QED
  BY <1>1, <1>2, <1>3

(* The calls counted for a set of ranks and one more rank add up.          *)
LEMMA AddRank ==
  ASSUME TypeOK, StackInv, NEW G \in SUBSET Rank, NEW r \in Rank \ G
  PROVE  /\ Cardinality(SentBy(G \cup {r})) =
              Cardinality(SentBy(G)) + Cardinality(SentBy({r}))
         /\ Cardinality(RunAt(G \cup {r})) =
              Cardinality(RunAt(G)) + Cardinality(RunAt({r}))
<1>1. /\ SentBy(G \cup {r}) = SentBy(G) \cup SentBy({r})
      /\ SentBy(G) \cap SentBy({r}) = {}
  BY DEF SentBy
<1>2. /\ RunAt(G \cup {r}) = RunAt(G) \cup RunAt({r})
      /\ RunAt(G) \cap RunAt({r}) = {}
  BY DEF RunAt
<1>3. /\ IsFiniteSet(SentBy(G)) /\ IsFiniteSet(SentBy({r}))
      /\ IsFiniteSet(RunAt(G)) /\ IsFiniteSet(RunAt({r}))
      /\ Cardinality(SentBy(G)) \in Nat /\ Cardinality(SentBy({r})) \in Nat
      /\ Cardinality(RunAt(G)) \in Nat /\ Cardinality(RunAt({r})) \in Nat
  BY FiniteCalls
<1>4. Cardinality(SentBy(G \cup {r})) =
        Cardinality(SentBy(G)) + Cardinality(SentBy({r}))
  BY <1>1, <1>3, DisjointUnion
<1>5. Cardinality(RunAt(G \cup {r})) =
        Cardinality(RunAt(G)) + Cardinality(RunAt({r}))
  BY <1>2, <1>3, DisjointUnion
<1> QED
  BY <1>4, <1>5

(* m_send_count and m_recv_count count the rank's calls and the handlers it
   has finished.                                                           *)
LEMMA CountStep ==
  TypeOK /\ IdsInv /\ StackInv /\ CountInv /\ [Next]_vars => CountInv'
<1> SUFFICES ASSUME TypeOK, IdsInv, StackInv, CountInv, [Next]_vars
             PROVE  CountInv'
  OBVIOUS
<1>1. ASSUME NEW r \in Rank, NEW d \in Rank \ {r}, Async(r, d)
      PROVE  CountInv'
  <2> DEFINE m == NewCall(r, d)
  <2>1. /\ issued' = issued \cup {m} /\ executed' = executed
        /\ sendCount' = [sendCount EXCEPT ![r] = @ + 1] /\ recvCount' = recvCount
        /\ m.id = Cardinality(issued) + 1 /\ m.src = r
    BY <1>1 DEF Async, NewCall
  <2>2. m \notin issued
    BY <2>1, FS_CardinalityType DEF IdsInv, TypeOK
  <2> HIDE DEF m
  <2>3. /\ SentBy({r})' = SentBy({r}) \cup {m} /\ m \notin SentBy({r})
        /\ \A q \in Rank \ {r} : SentBy({q})' = SentBy({q})
        /\ \A q \in Rank : RunAt({q})' = RunAt({q})
    BY <2>1, <2>2 DEF SentBy, RunAt
  <2>4. Cardinality(SentBy({r}) \cup {m}) = Cardinality(SentBy({r})) + 1
    BY <2>3, FiniteCalls, FS_AddElement
  <2> QED
    BY <2>1, <2>3, <2>4 DEF CountInv, TypeOK
<1>2. ASSUME NEW r \in Rank, End(r)
      PROVE  CountInv'
  <2> DEFINE h == Head(stack[r])
  <2>1. /\ executed' = executed \cup {h} /\ issued' = issued
        /\ recvCount' = [recvCount EXCEPT ![r] = @ + 1] /\ sendCount' = sendCount
        /\ stack[r] # <<>>
    BY <1>2 DEF End
  <2>2. h = stack[r][1] /\ 1 \in DOMAIN stack[r]
    BY <2>1, PopLemma DEF TypeOK
  <2>3. h \notin executed /\ h.dst = r
    BY <2>2 DEF StackInv
  <2> HIDE DEF h
  <2>4. /\ RunAt({r})' = RunAt({r}) \cup {h} /\ h \notin RunAt({r})
        /\ \A q \in Rank \ {r} : RunAt({q})' = RunAt({q})
        /\ \A q \in Rank : SentBy({q})' = SentBy({q})
    BY <2>1, <2>3 DEF SentBy, RunAt
  <2>5. Cardinality(RunAt({r}) \cup {h}) = Cardinality(RunAt({r})) + 1
    BY <2>4, FiniteCalls, FS_AddElement
  <2> QED
    BY <2>1, <2>4, <2>5 DEF CountInv, TypeOK
<1>3. CASE UNCHANGED <<issued, executed, sendCount, recvCount>>
  BY <1>3 DEF CountInv, SentBy, RunAt
<1> QED
  BY <1>1, <1>2, <1>3, StepKinds DEF Begin, callVars
-----------------------------------------------------------------------------
(* What contributing to a reduction does to the results.                   *)
LEMMA ContributeLemma ==
  ASSUME TypeOK, NEW r \in Rank, Contribute(r)
  PROVE  /\ arSum + LocalCount(r) \in Int
         /\ \/ /\ Gathered = Rank \ {r}
               /\ arSum' = 0
               /\ \A s \in Rank : result'[s] = arSum + LocalCount(r)
            \/ /\ Gathered # Rank \ {r}
               /\ arSum' = arSum + LocalCount(r)
               /\ result'[r] = None
               /\ \A s \in Rank \ {r} : result'[s] = result[s]
<1>1. arSum + LocalCount(r) \in Int
  BY DEF LocalCount, TypeOK
<1> DEFINE total == arSum + LocalCount(r)
<1> HIDE DEF total
<1>2. CASE Gathered = Rank \ {r}
  <2>1. arSum' = 0 /\ result' = [s \in Rank |-> total]
    BY <1>2 DEF Contribute, total
  <2> QED
    BY <1>1, <1>2, <2>1 DEF total
<1>3. CASE Gathered # Rank \ {r}
  <2>1. arSum' = total /\ result' = [result EXCEPT ![r] = None]
    BY <1>3 DEF Contribute, total
  <2> QED
    BY <1>1, <1>3, <2>1 DEF total, TypeOK
<1> QED
  BY <1>2, <1>3

(* In the first reduction nobody is already in the second, and a rank that
   enters the second finds every other rank there or on its way.           *)
LEMMA FirstFacts ==
  ASSUME ResultInv, DoubtInv, NEW r \in Rank, First(r)
  PROVE  /\ result[r] = None
         /\ \A s \in Rank : ~Doubting(s)
         /\ \A s \in Gathered : pc[s] = "wait1"
<1>1. pc[r] = "idle"
  BY DEF First
<1>2. ~Doubting(r) /\ result[r] = None
  BY <1>1 DEF Doubting, ResultInv, Waiting
<1>3. \A s \in Rank : ~Doubting(s)
  BY <1>2 DEF DoubtInv
<1> QED
  BY <1>2, <1>3 DEF Doubting, Gathered, Waiting

LEMMA SecondFacts ==
  ASSUME DoubtInv, NEW r \in Rank, Second(r)
  PROVE  /\ \A s \in Rank : Doubting(s)
         /\ r \notin Gathered
         /\ \A s \in Gathered : pc[s] = "wait2"
         /\ arSum = Cardinality(SentBy(Gathered)) - Cardinality(RunAt(Gathered))
<1>1. pc[r] = "wait1" /\ result[r] = 0 /\ 0 # None
  BY NoneAssumption DEF Second
<1>2. Doubting(r)
  BY <1>1 DEF Doubting
<1>3. \A s \in Rank : Doubting(s)
  BY <1>2 DEF DoubtInv
<1> QED
  BY <1>1, <1>2, <1>3, NoneAssumption DEF DoubtInv, Doubting, Gathered

(* The results that ranks hold are those of one and the same reduction.    *)
LEMMA ResultStep ==
  TypeOK /\ ResultInv /\ DoubtInv /\ [Next]_vars => ResultInv'
<1> SUFFICES ASSUME TypeOK, ResultInv, DoubtInv, [Next]_vars
             PROVE  ResultInv'
  OBVIOUS
<1>1. CASE UNCHANGED collVars
  BY <1>1 DEF ResultInv, collVars
<1>2. ASSUME NEW r \in Rank, Enter(r)
      PROVE  ResultInv'
  BY <1>2 DEF Enter, ResultInv, TypeOK, Waiting
<1>3. ASSUME NEW r \in Rank, First(r)
      PROVE  ResultInv'
  <2>1. Contribute(r) /\ pc' = [pc EXCEPT ![r] = "wait1"]
    BY <1>3 DEF First
  <2>2. CASE Gathered = Rank \ {r}
    <3>1. \A s \in Rank : pc'[s] = "wait1"
      BY <1>3, <2>1, <2>2, FirstFacts DEF TypeOK
    <3>2. \A s, t \in Rank : result'[s] = result'[t]
      BY <2>1, <2>2, ContributeLemma
    <3> QED
      BY <3>1, <3>2 DEF ResultInv, Waiting
  <2>3. CASE Gathered # Rank \ {r}
    <3>1. result'[r] = None /\ \A s \in Rank \ {r} : result'[s] = result[s]
      BY <2>1, <2>3, ContributeLemma
    <3> QED
      BY <2>1, <3>1 DEF ResultInv, TypeOK
  <2> QED
    BY <2>2, <2>3
<1>4. ASSUME NEW r \in Rank, Second(r)
      PROVE  ResultInv'
  <2>1. Contribute(r) /\ pc' = [pc EXCEPT ![r] = "wait2"]
    BY <1>4 DEF Second
  <2>2. CASE Gathered = Rank \ {r}
    <3>1. \A s \in Rank : pc'[s] = "wait2"
      BY <1>4, <2>1, <2>2, SecondFacts DEF TypeOK
    <3>2. \A s, t \in Rank : result'[s] = result'[t]
      BY <2>1, <2>2, ContributeLemma
    <3> QED
      BY <3>1, <3>2 DEF ResultInv, Waiting
  <2>3. CASE Gathered # Rank \ {r}
    <3>1. result'[r] = None /\ \A s \in Rank \ {r} : result'[s] = result[s]
      BY <2>1, <2>3, ContributeLemma
    <3> QED
      BY <2>1, <3>1 DEF ResultInv, TypeOK
  <2> QED
    BY <2>2, <2>3
<1>5. ASSUME NEW r \in Rank, Restart(r) \/ Leave(r) \/ Throw(r)
      PROVE  ResultInv'
  <2>1. /\ result' = [result EXCEPT ![r] = None]
        /\ \A s \in Rank \ {r} : pc'[s] = pc[s]
    BY <1>5 DEF Restart, Leave, Throw, TypeOK
  <2> QED
    BY <2>1 DEF ResultInv, TypeOK
<1> QED
  BY <1>1, <1>2, <1>3, <1>4, <1>5, StepKinds, CallKinds DEF vars, collVars

(* Only the main thread of a rank that is not blocked in the second
   reduction makes calls or finishes handlers.                             *)
LEMMA CallerFacts ==
  ASSUME TypeOK, StackInv, NEW r \in Rank, MayCall(r) \/ End(r)
  PROVE  /\ pc[r] \notin {"wait2", "thrown"}
         /\ stack[r] = <<>> => pc[r] = "app"
  BY DEF MayCall, End, StackInv

(* The second reduction sums the counts of ranks that have stopped moving. *)
LEMMA DoubtStep ==
  /\ TypeOK /\ StackInv /\ CountInv /\ ResultInv /\ DoubtInv /\ [Next]_vars
  => DoubtInv'
<1> SUFFICES ASSUME TypeOK, StackInv, CountInv, ResultInv, DoubtInv, [Next]_vars
             PROVE  DoubtInv'
  OBVIOUS
<1>1. ASSUME UNCHANGED collVars,
             (\E s \in Rank : Doubting(s)) =>
                SentBy(Gathered)' = SentBy(Gathered) /\ RunAt(Gathered)' = RunAt(Gathered)
      PROVE  DoubtInv'
  <2>1. Gathered' = Gathered /\ arSum' = arSum /\ \A s : Doubting(s)' <=> Doubting(s)
    BY <1>1 DEF collVars, Gathered, Doubting
  <2> QED
    BY <1>1, <2>1 DEF DoubtInv
<1>2. ASSUME NEW r \in Rank, pc[r] \notin {"wait2", "thrown"}, \E s \in Rank : Doubting(s)
      PROVE  r \notin Gathered
  BY <1>2, NoneAssumption DEF DoubtInv, Doubting, Gathered
<1>3. ASSUME NEW r \in Rank, NEW d \in Rank \ {r}, Async(r, d)
      PROVE  DoubtInv'
  <2>1. MayCall(r) /\ UNCHANGED collVars /\ executed' = executed
    BY <1>3 DEF Async
  <2>2. PICK m : issued' = issued \cup {m} /\ m.src = r
    <3> DEFINE m == NewCall(r, d)
    <3>1. issued' = issued \cup {m} /\ m.src = r
      BY <1>3 DEF Async, NewCall
    <3> QED
      BY <3>1
  <2>3. ASSUME \E s \in Rank : Doubting(s)
        PROVE  SentBy(Gathered)' = SentBy(Gathered) /\ RunAt(Gathered)' = RunAt(Gathered)
    <3>1. Gathered' = Gathered
      BY <2>1 DEF collVars, Gathered
    <3>2. r \notin Gathered
      BY <1>2, <2>1, <2>3, CallerFacts
    <3> QED
      BY <2>1, <2>2, <3>1, <3>2 DEF SentBy, RunAt
  <2> QED
    BY <1>1, <2>1, <2>3
<1>4. ASSUME NEW m \in issued, Begin(m)
      PROVE  DoubtInv'
  <2>1. UNCHANGED collVars /\ issued' = issued /\ executed' = executed
    BY <1>4 DEF Begin
  <2>2. Gathered' = Gathered
    BY <2>1 DEF collVars, Gathered
  <2>3. SentBy(Gathered)' = SentBy(Gathered) /\ RunAt(Gathered)' = RunAt(Gathered)
    BY <2>1, <2>2 DEF SentBy, RunAt
  <2> QED
    BY <1>1, <2>1, <2>3
<1>5. ASSUME NEW r \in Rank, End(r)
      PROVE  DoubtInv'
  <2>1. /\ UNCHANGED collVars /\ issued' = issued
        /\ executed' = executed \cup {Head(stack[r])} /\ stack[r] # <<>>
    BY <1>5 DEF End
  <2>2. Head(stack[r]) = stack[r][1] /\ 1 \in DOMAIN stack[r]
    BY <2>1, PopLemma DEF TypeOK
  <2>3. Head(stack[r]).dst = r
    BY <2>2 DEF StackInv
  <2>4. ASSUME \E s \in Rank : Doubting(s)
        PROVE  SentBy(Gathered)' = SentBy(Gathered) /\ RunAt(Gathered)' = RunAt(Gathered)
    <3>1. Gathered' = Gathered
      BY <2>1 DEF collVars, Gathered
    <3>2. r \notin Gathered
      BY <1>2, <1>5, <2>4, CallerFacts
    <3> QED
      BY <2>1, <2>3, <3>1, <3>2 DEF SentBy, RunAt
  <2> QED
    BY <1>1, <2>1, <2>4
<1>6. ASSUME NEW r \in Rank, Enter(r) \/ Restart(r) \/ Leave(r) \/ Throw(r)
      PROVE  DoubtInv'
  <2>1. ~Doubting(r)
    BY <1>6, NoneAssumption
       DEF Enter, Restart, Leave, Throw, Doubting, AtAssert, ResultInv, Waiting
  <2>2. \A s \in Rank : ~Doubting(s)
    BY <2>1 DEF DoubtInv
  <2>3. /\ pc'[r] \in {"app", "idle", "thrown"}
        /\ \A s \in Rank \ {r} : pc'[s] = pc[s] /\ result'[s] = result[s]
    BY <1>6 DEF Enter, Restart, Leave, Throw, TypeOK
  <2>4. \A s \in Rank : ~Doubting(s)'
    BY <2>2, <2>3 DEF Doubting
  <2> QED
    BY <2>4 DEF DoubtInv
<1>7. ASSUME NEW r \in Rank, First(r)
      PROVE  DoubtInv'
  <2>1. /\ Contribute(r) /\ pc' = [pc EXCEPT ![r] = "wait1"] /\ UNCHANGED callVars
    BY <1>7 DEF First
  <2>2. CASE Gathered = Rank \ {r}
    <3>1. \A s \in Rank : pc'[s] = "wait1"
      BY <1>7, <2>1, <2>2, FirstFacts DEF TypeOK
    <3>2. /\ arSum' = 0 /\ arSum + LocalCount(r) \in Int
          /\ \A s \in Rank : result'[s] = arSum + LocalCount(r)
      BY <2>1, <2>2, ContributeLemma
    <3>3. Gathered' = {}
      BY <3>2, NoneAssumption DEF Gathered
    <3>4. Cardinality(SentBy(Gathered)') = 0 /\ Cardinality(RunAt(Gathered)') = 0
      BY <3>3, FS_EmptySet DEF SentBy, RunAt
    <3>5. (\E s \in Rank : Doubting(s)') => \A s \in Rank : Doubting(s)'
      BY <3>1, <3>2 DEF Doubting
    <3> QED
      BY <3>2, <3>4, <3>5 DEF DoubtInv
  <2>3. CASE Gathered # Rank \ {r}
    <3>1. result'[r] = None /\ \A s \in Rank \ {r} : result'[s] = result[s]
      BY <2>1, <2>3, ContributeLemma
    <3>2. \A s \in Rank : ~Doubting(s)'
      BY <1>7, <2>1, <3>1, FirstFacts, NoneAssumption DEF Doubting, TypeOK
    <3> QED
      BY <3>2 DEF DoubtInv
  <2> QED
    BY <2>2, <2>3
<1>8. ASSUME NEW r \in Rank, Second(r)
      PROVE  DoubtInv'
  <2>1. Contribute(r) /\ pc' = [pc EXCEPT ![r] = "wait2"] /\ UNCHANGED callVars
    BY <1>8 DEF Second
  <2>2. CASE Gathered = Rank \ {r}
    <3>1. \A s \in Rank : pc'[s] = "wait2"
      BY <1>8, <2>1, <2>2, SecondFacts DEF TypeOK
    <3>2. \A s \in Rank : result'[s] # None
      BY <2>1, <2>2, ContributeLemma, NoneAssumption
    <3> QED
      BY <3>1, <3>2 DEF DoubtInv, Doubting
  <2>3. CASE Gathered # Rank \ {r}
    <3>1. /\ result'[r] = None /\ \A s \in Rank \ {r} : result'[s] = result[s]
          /\ arSum' = arSum + LocalCount(r)
      BY <2>1, <2>3, ContributeLemma
    <3>2. /\ \A s \in Rank : Doubting(s) /\ r \notin Gathered
          /\ arSum = Cardinality(SentBy(Gathered)) - Cardinality(RunAt(Gathered))
      BY <1>8, SecondFacts
    <3>3. \A s \in Rank : Doubting(s)'
      BY <2>1, <3>1, <3>2 DEF Doubting, TypeOK
    <3>4. Gathered' = Gathered \cup {r} /\ Gathered \in SUBSET Rank
      BY <2>1, <3>1 DEF Gathered, Waiting, TypeOK
    <3>5. /\ SentBy(Gathered)' = SentBy(Gathered \cup {r})
          /\ RunAt(Gathered)' = RunAt(Gathered \cup {r})
      BY <2>1, <3>4 DEF SentBy, RunAt, callVars
    <3>6. LocalCount(r) = Cardinality(SentBy({r})) - Cardinality(RunAt({r}))
      BY DEF CountInv, LocalCount
    <3>7. /\ Cardinality(SentBy(Gathered \cup {r})) =
               Cardinality(SentBy(Gathered)) + Cardinality(SentBy({r}))
          /\ Cardinality(RunAt(Gathered \cup {r})) =
               Cardinality(RunAt(Gathered)) + Cardinality(RunAt({r}))
      BY <3>2, <3>4, AddRank
    <3>8. /\ Cardinality(SentBy(Gathered)) \in Nat /\ Cardinality(RunAt(Gathered)) \in Nat
          /\ Cardinality(SentBy({r})) \in Nat /\ Cardinality(RunAt({r})) \in Nat
      BY FiniteCalls
    <3>9. arSum' = Cardinality(SentBy(Gathered)') - Cardinality(RunAt(Gathered)')
      BY <3>1, <3>2, <3>5, <3>6, <3>7, <3>8
    <3> QED
      BY <3>3, <3>9 DEF DoubtInv
  <2> QED
    BY <2>2, <2>3
<1>9. CASE UNCHANGED vars
  BY <1>1, <1>9 DEF vars, collVars, SentBy, RunAt, Gathered
<1> QED
  BY <1>3, <1>4, <1>5, <1>6, <1>7, <1>8, <1>9, StepKinds

(* Ranks are at most one epoch apart, and only while some of them are still
   returning from the barrier the others have left.                        *)
LEMMA EpochStep ==
  TypeOK /\ ResultInv /\ DoubtInv /\ EpochInv /\ [Next]_vars => EpochInv'
<1> SUFFICES ASSUME TypeOK, ResultInv, DoubtInv, EpochInv, [Next]_vars
             PROVE  EpochInv'
  OBVIOUS
<1>1. ASSUME UNCHANGED epoch,
             \A s \in Rank : Closed(s)' <=> Closed(s),
             \A s \in Rank : Ahead(s) => Ahead(s)'
      PROVE  EpochInv'
  BY <1>1 DEF EpochInv
<1>2. ASSUME UNCHANGED epoch,
             \A s \in Rank : ~Closed(s), \A s \in Rank : ~Closed(s)'
      PROVE  EpochInv'
  BY <1>2 DEF EpochInv
<1>3. CASE UNCHANGED collVars
  BY <1>1, <1>3 DEF collVars, Closed, Ahead, AtAssert
<1>4. ASSUME NEW r \in Rank, Enter(r)
      PROVE  EpochInv'
  BY <1>1, <1>4 DEF Enter, Closed, Ahead, AtAssert, TypeOK
<1>5. ASSUME NEW r \in Rank, First(r)
      PROVE  EpochInv'
  <2>1. /\ Contribute(r) /\ UNCHANGED epoch
        /\ pc[r] = "idle" /\ pc' = [pc EXCEPT ![r] = "wait1"]
    BY <1>5 DEF First
  <2>2. CASE Gathered = Rank \ {r}
    <3>1. \A s \in Rank : ~Closed(s)
      BY <2>1, <2>2, NoneAssumption DEF Closed, AtAssert, Gathered, Waiting
    <3>2. \A s \in Rank : pc'[s] = "wait1"
      BY <1>5, <2>1, <2>2, FirstFacts DEF TypeOK
    <3> QED
      BY <1>2, <2>1, <3>1, <3>2 DEF Closed, AtAssert
  <2>3. CASE Gathered # Rank \ {r}
    <3>1. result'[r] = None /\ \A s \in Rank \ {r} : result'[s] = result[s]
      BY <2>1, <2>3, ContributeLemma
    <3> QED
      BY <1>1, <2>1, <3>1, NoneAssumption DEF Closed, AtAssert, Ahead, TypeOK
  <2> QED
    BY <2>2, <2>3
<1>6. ASSUME NEW r \in Rank, Second(r)
      PROVE  EpochInv'
  <2>1. Contribute(r) /\ UNCHANGED epoch /\ pc' = [pc EXCEPT ![r] = "wait2"]
    BY <1>6 DEF Second
  <2>2. \A s \in Rank : Doubting(s)
    BY <1>6, SecondFacts
  <2>3. \A s \in Rank : ~Closed(s)
    BY <2>2, NoneAssumption DEF Doubting, Closed, AtAssert
  <2>4. CASE Gathered = Rank \ {r}
    <3>1. \A s \in Rank : pc'[s] = "wait2"
      BY <1>6, <2>1, <2>4, SecondFacts DEF TypeOK
    <3>2. \A s, t \in Rank : result'[s] = result'[t]
      BY <2>1, <2>4, ContributeLemma
    <3>3. \A s, t \in Rank : epoch'[s] = epoch'[t]
      BY <2>1, <2>3 DEF EpochInv
    <3> QED
      BY <3>1, <3>2, <3>3 DEF EpochInv, Closed, AtAssert
  <2>5. CASE Gathered # Rank \ {r}
    <3>1. result'[r] = None /\ \A s \in Rank \ {r} : result'[s] = result[s]
      BY <2>1, <2>5, ContributeLemma
    <3>2. \A s \in Rank : ~Closed(s)'
      BY <2>1, <2>3, <3>1, NoneAssumption DEF Closed, AtAssert, TypeOK
    <3> QED
      BY <1>2, <2>1, <2>3, <3>2
  <2> QED
    BY <2>4, <2>5
<1>7. ASSUME NEW r \in Rank, Restart(r)
      PROVE  EpochInv'
  <2>1. ~Closed(r) /\ ~Ahead(r)
    BY <1>7 DEF Restart, Closed, AtAssert, Ahead, Waiting
  <2>2. \A s \in Rank : ~Closed(s)
    BY <2>1 DEF EpochInv
  <2>3. /\ UNCHANGED epoch /\ pc'[r] = "idle"
        /\ \A s \in Rank \ {r} : pc'[s] = pc[s] /\ result'[s] = result[s]
    BY <1>7 DEF Restart, TypeOK
  <2>4. \A s \in Rank : ~Closed(s)'
    BY <2>2, <2>3 DEF Closed, AtAssert
  <2> QED
    BY <1>2, <2>2, <2>3, <2>4
<1>8. ASSUME NEW r \in Rank, Leave(r)
      PROVE  EpochInv'
  <2>1. Closed(r)
    BY <1>8 DEF Leave, Closed
  <2>2. /\ pc'[r] = "app" /\ result'[r] = None /\ epoch'[r] = epoch[r] + 1
        /\ \A s \in Rank \ {r} : /\ pc'[s] = pc[s] /\ result'[s] = result[s]
                                 /\ epoch'[s] = epoch[s]
        /\ \A s \in Rank : epoch[s] \in Nat
    BY <1>8 DEF Leave, TypeOK
  <2>3. /\ Ahead(r)' /\ ~Closed(r)'
        /\ \A s \in Rank \ {r} : /\ Closed(s)' <=> Closed(s)
                                 /\ Ahead(s)' <=> Ahead(s)
    BY <2>2 DEF Ahead, Closed, AtAssert
  <2>4. \A s \in Rank \ {r} : \/ Closed(s)' /\ epoch'[s] = epoch[r]
                              \/ Ahead(s)' /\ ~Closed(s)' /\ epoch'[s] = epoch[r] + 1
    <3>1. \A s \in Rank : ~(Ahead(s) /\ Closed(s))
      BY DEF Ahead, Closed, AtAssert
    <3> QED
      BY <2>1, <2>2, <2>3, <3>1 DEF EpochInv
  <2> QED
    BY <2>2, <2>3, <2>4 DEF EpochInv
<1>9. ASSUME NEW r \in Rank, Throw(r)
      PROVE  EpochInv'
  <2>1. /\ UNCHANGED epoch /\ Closed(r) /\ pc'[r] = "thrown"
        /\ \A s \in Rank \ {r} : pc'[s] = pc[s] /\ result'[s] = result[s]
    BY <1>9 DEF Throw, Closed, TypeOK
  <2>2. ~Ahead(r)
    BY <1>9, NoneAssumption DEF Throw, Ahead, AtAssert
  <2>3. /\ \A s \in Rank : Closed(s)' <=> Closed(s)
        /\ \A s \in Rank : Ahead(s) => Ahead(s)'
    BY <2>1, <2>2 DEF Closed, Ahead, AtAssert
  <2> QED
    BY <1>1, <2>1, <2>3
<1> QED
  BY <1>3, <1>4, <1>5, <1>6, <1>7, <1>8, <1>9, StepKinds, CallKinds
     DEF vars, collVars

(* A rank that is not closed is as far as any rank.                        *)
LEMMA FrontFacts ==
  ASSUME TypeOK, EpochInv, NEW r \in Rank, ~Closed(r)
  PROVE  \A s \in Rank : /\ epoch[s] <= epoch[r]
                         /\ Closed(s) => epoch[s] # epoch[r]
<1>1. \A s \in Rank : epoch[s] \in Nat
  BY DEF TypeOK
<1>2. CASE \A s \in Rank : ~Closed(s)
  BY <1>1, <1>2 DEF EpochInv
<1>3. CASE \E s \in Rank : Closed(s)
  <2>1. PICK q \in Rank : Closed(q)
    BY <1>3
  <2>2. epoch[r] = epoch[q] + 1
    BY <2>1 DEF EpochInv
  <2>3. \A s \in Rank : \/ Closed(s) /\ epoch[s] = epoch[q]
                        \/ Ahead(s) /\ epoch[s] = epoch[q] + 1
    BY <2>1 DEF EpochInv
  <2>4. \A s \in Rank : ~(Ahead(s) /\ Closed(s))
    BY DEF Ahead, Closed, AtAssert
  <2> QED
    BY <1>1, <2>2, <2>3, <2>4
<1> QED
  BY <1>2, <1>3

(* When the second sum is zero every call made has been run.               *)
LEMMA ZeroMeansDone ==
  ASSUME TypeOK, StackInv, CountInv, DoubtInv, NEW r \in Rank, Second(r),
         Gathered = Rank \ {r}, arSum + LocalCount(r) = 0
  PROVE  issued = executed
<1>1. arSum = Cardinality(SentBy(Rank \ {r})) - Cardinality(RunAt(Rank \ {r}))
  BY SecondFacts
<1>2. LocalCount(r) = Cardinality(SentBy({r})) - Cardinality(RunAt({r}))
  BY DEF CountInv, LocalCount
<1>3. (Rank \ {r}) \cup {r} = Rank /\ r \in Rank \ (Rank \ {r})
  OBVIOUS
<1>4. /\ Cardinality(SentBy(Rank)) =
           Cardinality(SentBy(Rank \ {r})) + Cardinality(SentBy({r}))
      /\ Cardinality(RunAt(Rank)) =
           Cardinality(RunAt(Rank \ {r})) + Cardinality(RunAt({r}))
  <2> DEFINE G == Rank \ {r}
  <2>1. G \in SUBSET Rank /\ r \in Rank \ G /\ G \cup {r} = Rank
    OBVIOUS
  <2> HIDE DEF G
  <2>2. /\ Cardinality(SentBy(G \cup {r})) =
             Cardinality(SentBy(G)) + Cardinality(SentBy({r}))
        /\ Cardinality(RunAt(G \cup {r})) =
             Cardinality(RunAt(G)) + Cardinality(RunAt({r}))
    BY <2>1, AddRank
  <2> QED
    BY <2>1, <2>2 DEF G
<1>5. SentBy(Rank) = issued /\ RunAt(Rank) = executed
  BY DEF SentBy, RunAt, TypeOK, Call
<1>6. /\ Cardinality(SentBy(Rank \ {r})) \in Nat /\ Cardinality(SentBy({r})) \in Nat
      /\ Cardinality(RunAt(Rank \ {r})) \in Nat /\ Cardinality(RunAt({r})) \in Nat
  BY FiniteCalls
<1>7. Cardinality(issued) = Cardinality(executed)
  BY <1>1, <1>2, <1>4, <1>5, <1>6
<1> QED
  BY <1>7, FiniteCalls, FS_Subset DEF StackInv

(* Pending calls belong to the present epoch of their issuer; once a rank's
   barrier has closed an epoch, no call of that epoch is pending.          *)
LEMMA PendingStep ==
  /\ TypeOK /\ StackInv /\ CountInv /\ ResultInv /\ DoubtInv /\ EpochInv
  /\ PendingInv /\ [Next]_vars
  => PendingInv'
<1> SUFFICES ASSUME TypeOK, StackInv, CountInv, ResultInv, DoubtInv, EpochInv,
                    PendingInv, [Next]_vars
             PROVE  PendingInv'
  OBVIOUS
<1>0. \A r \in Rank : epoch[r] \in Nat
  BY DEF TypeOK
<1>1. ASSUME UNCHANGED epoch, UNCHANGED callVars,
             \A s \in Rank : Closed(s)' => Closed(s)
      PROVE  PendingInv'
  BY <1>1 DEF PendingInv, EpochIsolation, callVars
<1>2. ASSUME NEW r \in Rank, NEW d \in Rank \ {r}, Async(r, d)
      PROVE  PendingInv'
  <2>1. MayCall(r) /\ UNCHANGED collVars /\ executed' = executed /\ stack' = stack
    BY <1>2 DEF Async
  <2>2. PICK m : issued' = issued \cup {m} /\ m.src = r /\ m.epoch = epoch[r]
    <3> DEFINE m == NewCall(r, d)
    <3>1. issued' = issued \cup {m} /\ m.src = r /\ m.epoch = epoch[r]
      BY <1>2 DEF Async, NewCall
    <3> QED
      BY <3>1
  <2>3. ~Closed(r)
    BY <2>1, CallerFacts DEF Closed, AtAssert
  <2>4. \A s \in Rank : epoch[s] <= epoch[r] /\ (Closed(s) => epoch[r] # epoch[s])
    BY <2>3, FrontFacts
  <2>5. epoch' = epoch /\ \A s \in Rank : Closed(s)' <=> Closed(s)
    BY <2>1 DEF collVars, Closed, AtAssert
  <2> QED
    BY <1>0, <2>1, <2>2, <2>4, <2>5 DEF PendingInv, EpochIsolation
<1>3. ASSUME NEW m \in issued, Begin(m)
      PROVE  PendingInv'
  <2> DEFINE r == m.dst
             s == stack[r]
  <2>1. m \in Call /\ r \in Rank /\ m.src \in Rank /\ m.epoch \in Nat /\ s \in Seq(Call)
    BY DEF Call, TypeOK
  <2>2. /\ m \in issued \ executed
        /\ s # <<>> \/ pc[r] \in {"app", "idle", "wait1"}
        /\ stack' = [stack EXCEPT ![r] = <<m>> \o s]
        /\ issued' = issued /\ executed' = executed /\ UNCHANGED collVars
    BY <1>3 DEF Begin, InFlight
  <2>3. ~Closed(r)
    BY <2>1, <2>2 DEF StackInv, Closed, AtAssert
  <2>4. epoch[m.src] <= epoch[r]
    BY <2>1, <2>3, FrontFacts
  <2>5. epoch[r] <= m.epoch /\ m.epoch <= epoch[m.src]
    BY <2>1, <2>2 DEF PendingInv
  <2>6. m.epoch = epoch[r]
    BY <1>0, <2>1, <2>4, <2>5
  <2>7. epoch' = epoch /\ \A q \in Rank : Closed(q)' <=> Closed(q)
    BY <2>2 DEF collVars, Closed, AtAssert
  <2>8. /\ DOMAIN s = 1 .. Len(s) /\ Len(s) \in Nat
        /\ DOMAIN (<<m>> \o s) = 1 .. Len(s) + 1
        /\ (<<m>> \o s)[1] = m
        /\ \A i \in 2 .. Len(s) + 1 : (<<m>> \o s)[i] = s[i - 1]
    BY <2>1, PushLemma
  <2>9. \A i \in DOMAIN (<<m>> \o s) : (<<m>> \o s)[i].epoch = epoch[r]
    <3> DEFINE t == <<m>> \o s
               n == Len(s)
    <3> HIDE DEF t, n
    <3>1. \A i \in 1 .. n + 1 : i = 1 \/ (i \in 2 .. n + 1 /\ i - 1 \in 1 .. n)
      BY <2>8 DEF n
    <3>2. /\ DOMAIN t = 1 .. n + 1 /\ DOMAIN s = 1 .. n /\ t[1] = m
          /\ \A i \in 2 .. n + 1 : t[i] = s[i - 1]
      BY <2>8 DEF n, t
    <3>3. \A i \in DOMAIN s : s[i].epoch = epoch[r]
      BY <2>1 DEF PendingInv, EpochIsolation
    <3>4. \A i \in DOMAIN t : t[i].epoch = epoch[r]
      BY <2>6, <3>1, <3>2, <3>3
    <3> QED
      BY <3>4 DEF t
  <2> HIDE DEF s, r
  <2>10. /\ stack'[r] = <<m>> \o s
         /\ \A q \in Rank \ {r} : stack'[q] = stack[q]
    BY <2>1, <2>2 DEF TypeOK
  <2>11. EpochIsolation'
    BY <2>7, <2>9, <2>10 DEF PendingInv, EpochIsolation
  <2> QED
    BY <2>2, <2>7, <2>11 DEF PendingInv
<1>4. ASSUME NEW r \in Rank, End(r)
      PROVE  PendingInv'
  <2> DEFINE s == stack[r]
  <2>1. /\ s # <<>> /\ issued' = issued /\ executed \subseteq executed'
        /\ stack' = [stack EXCEPT ![r] = Tail(s)] /\ UNCHANGED collVars
        /\ s \in Seq(Call)
    BY <1>4 DEF End, TypeOK
  <2>2. \A i \in DOMAIN Tail(s) : i + 1 \in DOMAIN s /\ Tail(s)[i] = s[i + 1]
    <3>1. /\ DOMAIN s = 1 .. Len(s) /\ Len(s) \in Nat \ {0}
          /\ DOMAIN Tail(s) = 1 .. Len(s) - 1
          /\ \A i \in 1 .. Len(s) - 1 : Tail(s)[i] = s[i + 1]
      BY <2>1, PopLemma
    <3> QED
      BY <3>1
  <2>3. \A i \in DOMAIN s : s[i].epoch = epoch[r]
    BY DEF PendingInv, EpochIsolation
  <2>4. epoch' = epoch /\ \A q \in Rank : Closed(q)' <=> Closed(q)
    BY <2>1 DEF collVars, Closed, AtAssert
  <2> HIDE DEF s
  <2>5. stack'[r] = Tail(s) /\ \A q \in Rank \ {r} : stack'[q] = stack[q]
    BY <2>1 DEF TypeOK
  <2>6. EpochIsolation'
    <3>1. ASSUME NEW q \in Rank, NEW i \in DOMAIN stack'[q]
          PROVE  stack'[q][i].epoch = epoch[q]
      <4>1. CASE q = r
        BY <2>2, <2>3, <2>5, <4>1, ZenonT(40)
      <4>2. CASE q # r
        BY <2>5, <4>2 DEF PendingInv, EpochIsolation
      <4> QED
        BY <4>1, <4>2
    <3> QED
      BY <2>4, <3>1 DEF EpochIsolation
  <2> QED
    BY <2>1, <2>4, <2>6 DEF PendingInv
<1>5. ASSUME NEW r \in Rank, Enter(r) \/ Restart(r) \/ Throw(r)
      PROVE  PendingInv'
  <2>1. /\ UNCHANGED epoch /\ UNCHANGED callVars
        /\ pc'[r] = "idle" \/ (pc'[r] = "thrown" /\ Closed(r))
        /\ \A s \in Rank \ {r} : pc'[s] = pc[s] /\ result'[s] = result[s]
    BY <1>5 DEF Enter, Restart, Throw, TypeOK, Closed
  <2> QED
    BY <1>1, <2>1 DEF Closed, AtAssert
<1>6. ASSUME NEW r \in Rank, First(r)
      PROVE  PendingInv'
  <2>1. /\ Contribute(r) /\ UNCHANGED epoch /\ UNCHANGED callVars
        /\ pc' = [pc EXCEPT ![r] = "wait1"]
    BY <1>6 DEF First
  <2>2. CASE Gathered = Rank \ {r}
    <3>1. \A s \in Rank : pc'[s] = "wait1"
      BY <1>6, <2>1, <2>2, FirstFacts DEF TypeOK
    <3> QED
      BY <1>1, <2>1, <3>1 DEF Closed, AtAssert
  <2>3. CASE Gathered # Rank \ {r}
    <3>1. \A s \in Rank \ {r} : result'[s] = result[s]
      BY <2>1, <2>3, ContributeLemma
    <3> QED
      BY <1>1, <2>1, <3>1 DEF Closed, AtAssert, TypeOK
  <2> QED
    BY <2>2, <2>3
<1>7. ASSUME NEW r \in Rank, Second(r)
      PROVE  PendingInv'
  <2>1. /\ Contribute(r) /\ UNCHANGED epoch /\ UNCHANGED callVars
        /\ pc' = [pc EXCEPT ![r] = "wait2"]
    BY <1>7 DEF Second
  <2>2. CASE Gathered = Rank \ {r}
    <3>1. \A s \in Rank : result'[s] = arSum + LocalCount(r) /\ pc'[s] = "wait2"
      BY <1>7, <2>1, <2>2, ContributeLemma, SecondFacts DEF TypeOK
    <3>2. CASE arSum + LocalCount(r) = 0
      <4>1. issued = executed
        BY <1>7, <2>2, <3>2, ZeroMeansDone
      <4>2. EpochIsolation'
        BY <2>1 DEF PendingInv, EpochIsolation, callVars
      <4> QED
        BY <2>1, <4>1, <4>2 DEF PendingInv, callVars
    <3>3. CASE arSum + LocalCount(r) # 0
      BY <1>1, <2>1, <3>1, <3>3 DEF Closed, AtAssert
    <3> QED
      BY <3>2, <3>3
  <2>3. CASE Gathered # Rank \ {r}
    <3>1. result'[r] = None /\ \A s \in Rank \ {r} : result'[s] = result[s]
      BY <2>1, <2>3, ContributeLemma
    <3> QED
      BY <1>1, <2>1, <3>1, NoneAssumption DEF Closed, AtAssert, TypeOK
  <2> QED
    BY <2>2, <2>3
<1>8. ASSUME NEW r \in Rank, Leave(r)
      PROVE  PendingInv'
  <2>1. Closed(r) /\ stack[r] = <<>>
    BY <1>8 DEF Leave, Closed, AtAssert, StackInv
  <2>2. /\ UNCHANGED callVars
        /\ pc'[r] = "app" /\ epoch'[r] = epoch[r] + 1
        /\ \A s \in Rank \ {r} : /\ pc'[s] = pc[s] /\ result'[s] = result[s]
                                 /\ epoch'[s] = epoch[s]
    BY <1>8 DEF Leave, TypeOK
  <2>3. \A s \in Rank : (s = r /\ ~Closed(s)') \/ (s # r /\ (Closed(s)' <=> Closed(s)))
    BY <2>2 DEF Closed, AtAssert
  <2>4. EpochIsolation'
    BY <2>1, <2>2 DEF PendingInv, EpochIsolation, callVars
  <2>5. ASSUME NEW m \in issued \ executed
        PROVE  /\ m.epoch <= epoch'[m.src]
               /\ \A s \in Rank : /\ epoch'[s] <= m.epoch
                                  /\ Closed(s)' => m.epoch # epoch'[s]
    <3>1. m.src \in Rank /\ m.epoch \in Nat
      BY DEF TypeOK, Call
    <3>2. /\ m.epoch <= epoch[m.src]
          /\ \A s \in Rank : epoch[s] <= m.epoch /\ (Closed(s) => m.epoch # epoch[s])
      BY DEF PendingInv
    <3> QED
      BY <1>0, <2>1, <2>2, <2>3, <3>1, <3>2
  <2>6. issued' = issued /\ executed' = executed
    BY <2>2 DEF callVars
  <2>7. \A m \in (issued \ executed)' :
          /\ m.epoch <= epoch'[m.src]
          /\ \A s \in Rank : /\ epoch'[s] <= m.epoch
                             /\ Closed(s)' => m.epoch # epoch'[s]
    BY <2>5, <2>6
  <2> QED
    BY <2>4, <2>7 DEF PendingInv
<1>9. CASE UNCHANGED vars
  BY <1>1, <1>9 DEF vars, callVars, Closed, AtAssert
<1> QED
  BY <1>2, <1>3, <1>4, <1>5, <1>6, <1>7, <1>8, <1>9, StepKinds
-----------------------------------------------------------------------------
(* If no handler has made more than one call, then a rank's count has not
   moved between the two sums of zero: every call it made since was made by
   another handler that has returned since, and there are as many of both. *)
LEMMA MovedEvenly ==
  ASSUME TypeOK, StackInv, Chains, issued = executed,
         NEW S \in SUBSET issued, NEW T \in SUBSET issued,
         Cardinality(S) = Cardinality(T),
         \A c \in issued \ S : \E p \in issued \ T : p.dst = c.src /\ p.id = c.parent,
         NEW r \in Rank
  PROVE  Cardinality(SentBy({r})) - Cardinality(RunAt({r}))
           = Cardinality({c \in S : c.src = r}) - Cardinality({c \in T : c.dst = r})
<1> DEFINE A == issued \ S
           B == issued \ T
           f == [c \in A |-> CHOOSE p \in B : p.dst = c.src /\ p.id = c.parent]
           Ar == {c \in A : c.src = r}
           Br == {p \in B : p.dst = r}
           g == [c \in Ar |-> f[c]]
<1>1. IsFiniteSet(issued)
  BY DEF TypeOK
<1>2. /\ IsFiniteSet(A) /\ IsFiniteSet(B) /\ IsFiniteSet(S) /\ IsFiniteSet(T)
      /\ IsFiniteSet(Ar) /\ IsFiniteSet(Br)
      /\ IsFiniteSet({c \in S : c.src = r}) /\ IsFiniteSet({c \in T : c.dst = r})
  <2>1. /\ A \subseteq issued /\ B \subseteq issued /\ S \subseteq issued /\ T \subseteq issued
        /\ Ar \subseteq issued /\ Br \subseteq issued
        /\ {c \in S : c.src = r} \subseteq issued /\ {c \in T : c.dst = r} \subseteq issued
    OBVIOUS
  <2> QED
    BY <1>1, <2>1, FS_Subset
<1>3. Cardinality(A) = Cardinality(B)
  <2>1. S \cap A = {} /\ S \cup A = issued /\ T \cap B = {} /\ T \cup B = issued
    OBVIOUS
  <2>2. /\ Cardinality(issued) = Cardinality(S) + Cardinality(A)
        /\ Cardinality(issued) = Cardinality(T) + Cardinality(B)
    <3> HIDE DEF A, B
    <3> QED
      BY <1>2, <2>1, DisjointUnion
  <2>3. /\ Cardinality(S) \in Nat /\ Cardinality(A) \in Nat
        /\ Cardinality(T) \in Nat /\ Cardinality(B) \in Nat
    BY <1>2, FS_CardinalityType
  <2> QED
    BY <2>2, <2>3
<1>4. \A c \in A : f[c] \in B /\ f[c].dst = c.src /\ f[c].id = c.parent
  <2> SUFFICES ASSUME NEW c \in A
               PROVE  f[c] \in B /\ f[c].dst = c.src /\ f[c].id = c.parent
    OBVIOUS
  <2>1. \E p \in B : p.dst = c.src /\ p.id = c.parent
    OBVIOUS
  <2>2. f[c] = CHOOSE p \in B : p.dst = c.src /\ p.id = c.parent
    OBVIOUS
  <2> QED
    BY <2>1, <2>2
<1>5. \A c, e \in A : f[c] = f[e] => c = e
  <2> SUFFICES ASSUME NEW c \in A, NEW e \in A, f[c] = f[e], c # e
               PROVE  FALSE
    OBVIOUS
  <2> DEFINE p == f[c]
             K == {x \in issued : x.parent = p.id}
  <2>1. p \in issued /\ c \in K /\ e \in K
    BY <1>4
  <2>2. Cardinality(K) <= 1
    BY <2>1 DEF Chains
  <2> HIDE DEF K, p, f, A
  <2>3. {c, e} \subseteq K
    BY <2>1
  <2>4. IsFiniteSet(K)
    BY <1>1, FS_Subset DEF K
  <2>5. Cardinality({c, e}) = 2
    <3>1. IsFiniteSet({c}) /\ Cardinality({c}) = 1
      BY FS_Singleton
    <3>2. Cardinality({c} \cup {e}) = Cardinality({c}) + 1
      BY <3>1, FS_AddElement
    <3>3. {c} \cup {e} = {c, e}
      OBVIOUS
    <3> QED
      BY <3>1, <3>2, <3>3
  <2>6. Cardinality({c, e}) <= Cardinality(K) /\ Cardinality(K) \in Nat
    BY <2>3, <2>4, FS_Subset, FS_CardinalityType
  <2> QED
    BY <2>2, <2>5, <2>6
<1> HIDE DEF A, B, f
<1>6. \A p \in B : \E c \in A : f[c] = p
  <2>1. f \in [A -> B]
    BY <1>4 DEF f
  <2>2. f \in Injection(A, B)
    BY <1>5, <2>1 DEF Injection, IsInjective
  <2>3. f \in Surjection(A, B)
    BY <1>2, <1>3, <2>2, FS_Injection
  <2> QED
    BY <2>3 DEF Surjection
<1>7. g \in Bijection(Ar, Br)
  <2>1. g \in [Ar -> Br]
    BY <1>4
  <2>2. \A p \in Br : \E c \in Ar : g[c] = p
    BY <1>4, <1>6
  <2>3. \A c, e \in Ar : g[c] = g[e] => c = e
    BY <1>5
  <2> QED
    BY <2>1, <2>2, <2>3 DEF Bijection, Injection, Surjection, IsInjective
<1>8. Cardinality(Ar) = Cardinality(Br)
  <2> HIDE DEF g, Ar, Br
  <2>1. ExistsBijection(Ar, Br)
    BY <1>7 DEF ExistsBijection
  <2> QED
    BY <1>2, <2>1, FS_Bijection
<1>9. /\ Cardinality(SentBy({r})) = Cardinality({c \in S : c.src = r}) + Cardinality(Ar)
      /\ Cardinality(RunAt({r})) = Cardinality({c \in T : c.dst = r}) + Cardinality(Br)
  <2> DEFINE Sr == {c \in S : c.src = r}
             Tr == {c \in T : c.dst = r}
  <2>1. /\ SentBy({r}) = Sr \cup Ar /\ Sr \cap Ar = {}
        /\ RunAt({r}) = Tr \cup Br /\ Tr \cap Br = {}
    BY DEF SentBy, RunAt, A, B
  <2> HIDE DEF Sr, Tr, Ar, Br
  <2>2. IsFiniteSet(Sr) /\ IsFiniteSet(Tr)
    BY <1>2 DEF Sr, Tr
  <2>3. /\ Cardinality(SentBy({r})) = Cardinality(Sr) + Cardinality(Ar)
        /\ Cardinality(RunAt({r})) = Cardinality(Tr) + Cardinality(Br)
    BY <1>2, <2>1, <2>2, DisjointUnion
  <2> QED
    BY <2>3 DEF Sr, Tr
<1>10. /\ Cardinality(Ar) \in Nat /\ Cardinality({c \in S : c.src = r}) \in Nat
       /\ Cardinality(Br) \in Nat /\ Cardinality({c \in T : c.dst = r}) \in Nat
  BY <1>2, FS_CardinalityType
<1> QED
  BY <1>8, <1>9, <1>10

(* A step that neither makes nor finishes a call and leaves the reduction
   alone leaves the snapshot alone.                                        *)
LEMMA SnapshotKept ==
  ASSUME NEW S, NEW T, Snapshot(S, T),
         issued' = issued, Snapped' = Snapped, arSum' = arSum,
         \A q \in Snapped : firstLocal'[q] = firstLocal[q],
         (\E q \in Rank : Doubting(q))' <=> \E q \in Rank : Doubting(q)
  PROVE  Snapshot(S, T)'
BY DEF Snapshot

(* Without ranks whose count is part of a sum there is nothing to say.     *)
LEMMA SnapshotEmptyNext ==
  ASSUME Snapped' = {}, arSum' = 0 PROVE Snapshot({}, {})'
<1>1. Cardinality({}) = 0
  BY FS_EmptySet
<1> QED
  BY <1>1 DEF Snapshot

(* First(r) adds the calls that r has made, and those that it has run.     *)
LEMMA FirstSnapshot ==
  ASSUME TypeOK, TypeOK', StackInv, CountInv, ResultInv, DoubtInv,
         NEW r \in Rank, First(r),
         NEW S \in SUBSET issued, NEW T \in SUBSET executed, Snapshot(S, T)
  PROVE  HasSnapshot'
<1>4. PICK S1 \in SUBSET issued, T1 \in SUBSET executed :
        S1 = S \cup SentBy({r}) /\ T1 = T \cup RunAt({r})
  BY DEF SentBy, RunAt
<1>1. /\ pc[r] = "idle" /\ pc' = [pc EXCEPT ![r] = "wait1"]
      /\ firstLocal' = [firstLocal EXCEPT ![r] = LocalCount(r)]
      /\ Contribute(r) /\ issued' = issued /\ executed' = executed
  BY DEF First, callVars
<1>2. \A s \in Rank : ~Doubting(s)
  BY FirstFacts
<1>3. r \notin Snapped /\ Snapped = Gathered /\ \A s \in Gathered : pc[s] = "wait1"
  BY <1>1, <1>2, FirstFacts DEF Snapped, Gathered, Waiting, Doubting
<1>5. \A q : /\ {c \in S1 : c.src = q} = IF q = r THEN SentBy({r}) ELSE {c \in S : c.src = q}
             /\ {c \in T1 : c.dst = q} = IF q = r THEN RunAt({r}) ELSE {c \in T : c.dst = q}
  BY <1>3, <1>4 DEF SentBy, RunAt, Snapshot
<1>6. /\ Cardinality(S1) = Cardinality(S) + Cardinality(SentBy({r}))
      /\ Cardinality(T1) = Cardinality(T) + Cardinality(RunAt({r}))
  <2>1. S \cap SentBy({r}) = {} /\ T \cap RunAt({r}) = {}
    BY <1>3 DEF SentBy, RunAt, Snapshot
  <2>2. IsFiniteSet(S) /\ IsFiniteSet(T)
    BY FiniteCalls, FS_Subset
  <2> QED
    BY <1>4, <2>1, <2>2, FiniteCalls, DisjointUnion
<1>7. LocalCount(r) = Cardinality(SentBy({r})) - Cardinality(RunAt({r}))
  BY DEF CountInv, LocalCount
<1>8. Cardinality(S) - Cardinality(T) = arSum
  BY <1>2 DEF Snapshot
<1>9. /\ Cardinality(S) \in Nat /\ Cardinality(SentBy({r})) \in Nat
      /\ Cardinality(T) \in Nat /\ Cardinality(RunAt({r})) \in Nat
  BY FiniteCalls, FS_Subset, FS_CardinalityType
<1>10. Cardinality(S1) - Cardinality(T1) = arSum + LocalCount(r)
  BY <1>6, <1>7, <1>8, <1>9
<1>11. ASSUME Snapped' = Snapped \cup {r},
              arSum + LocalCount(r) = IF (\E s \in Rank : Doubting(s))' THEN 0 ELSE arSum'
       PROVE  Snapshot(S1, T1)'
  <2>1. (\A c \in S1 : c.src \in Snapped') /\ (\A c \in T1 : c.dst \in Snapped')
    BY <1>4, <1>11 DEF Snapshot, SentBy, RunAt
  <2>2. ASSUME NEW q \in Snapped'
        PROVE  firstLocal'[q] = Cardinality({c \in S1 : c.src = q})
                                  - Cardinality({c \in T1 : c.dst = q})
    <3>1. CASE q = r
      <4>1. firstLocal'[r] = LocalCount(r)
        BY <1>1 DEF TypeOK
      <4> QED
        BY <3>1, <4>1, <1>5, <1>7
    <3>2. CASE q # r
      <4>1. q \in Snapped /\ firstLocal'[q] = firstLocal[q]
        BY <3>2, <2>2, <1>1, <1>11 DEF TypeOK
      <4> QED
        BY <3>2, <4>1, <1>5 DEF Snapshot
    <3> QED
      BY <3>1, <3>2
  <2>3. ASSUME NEW c \in issued' \ S1, c.src \in Snapped'
        PROVE  \E p \in issued' \ T1 : p.dst = c.src /\ p.id = c.parent
    <3>1. c \in issued \ S /\ c.src # r
      BY <1>1, <1>4, <2>3 DEF SentBy
    <3>2. PICK p \in issued \ T : p.dst = c.src /\ p.id = c.parent
      BY <3>1, <1>11, <2>3 DEF Snapshot
    <3> QED
      BY <3>1, <3>2, <1>1, <1>4 DEF RunAt
  <2> QED
    BY <1>10, <1>11, <2>1, <2>2, <2>3 DEF Snapshot
<1>14. \A s \in Rank : pc'[s] = IF s = r THEN "wait1" ELSE pc[s]
  BY <1>1 DEF TypeOK
<1>15. ASSUME NEW S2 \in SUBSET issued, NEW T2 \in SUBSET executed, Snapshot(S2, T2)'
       PROVE  HasSnapshot'
  BY <1>1, <1>15 DEF HasSnapshot, Snapshot
<1>12. CASE Gathered # Rank \ {r}
  <2>1. /\ arSum' = arSum + LocalCount(r)
        /\ result'[r] = None
        /\ \A s \in Rank \ {r} : result'[s] = result[s]
    BY <1>1, <1>12, ContributeLemma
  <2>2. \A s \in Rank : ~Doubting(s)'
    BY <1>14, <1>2, <2>1, NoneAssumption DEF Doubting
  <2>3. Snapped' = Snapped \cup {r}
    BY <1>14, <1>2, <2>1 DEF Snapped
  <2>4. Snapshot(S1, T1)'
    BY <1>11, <2>1, <2>2, <2>3
  <2> QED
    BY <1>15, <2>4
<1>13. CASE Gathered = Rank \ {r}
  <2>1. arSum' = 0 /\ \A s \in Rank : result'[s] = arSum + LocalCount(r) /\ pc'[s] = "wait1"
    <3>1. arSum' = 0 /\ \A s \in Rank : result'[s] = arSum + LocalCount(r)
      BY <1>1, <1>13, ContributeLemma
    <3> QED
      BY <3>1, <1>14, <1>3, <1>13
  <2>2. arSum + LocalCount(r) \in Int
    BY <1>1, ContributeLemma
  <2>3. CASE arSum + LocalCount(r) = 0
    <3>1. Snapped' = Rank /\ (\E s \in Rank : Doubting(s))'
      BY <2>1, <2>3 DEF Snapped, Doubting
    <3>2. Snapped \cup {r} = Rank
      BY <1>3, <1>13
    <3>3. Snapshot(S1, T1)'
      BY <1>11, <2>3, <3>1, <3>2
    <3> QED
      BY <1>15, <3>3
  <2>4. CASE arSum + LocalCount(r) # 0
    <3>1. Snapped' = {}
      BY <2>1, <2>2, <2>4, NoneAssumption DEF Snapped
    <3>2. Snapshot({}, {})'
      BY <2>1, <3>1, SnapshotEmptyNext
    <3> QED
      BY <1>15, <3>2
  <2> QED
    BY <2>3, <2>4
<1> QED
  BY <1>12, <1>13

(* Nobody leaves a barrier with a count that has moved.                    *)
LEMMA ChainStep ==
  /\ TypeOK /\ IdsInv /\ StackInv /\ CountInv /\ ResultInv /\ DoubtInv /\ ChainInv
  /\ TypeOK' /\ [Next]_vars
  => ChainInv'
<1> SUFFICES ASSUME TypeOK, IdsInv, StackInv, CountInv, ResultInv, DoubtInv, ChainInv,
                    TypeOK', [Next]_vars, Chains'
             PROVE  /\ HasSnapshot'
                    /\ \A q \in Rank : AtAssert(q)' => firstLocal'[q] = LocalCount(q)'
                    /\ NoFalseAssert'
  BY DEF ChainInv
<1> DEFINE Kept == /\ HasSnapshot'
                   /\ \A q \in Rank : AtAssert(q)' => firstLocal'[q] = LocalCount(q)'
                   /\ NoFalseAssert'
<1>1. issued \subseteq issued'
  BY StepKinds DEF Async, Begin, End, callVars
<1>2. Chains
  <2> SUFFICES ASSUME NEW m \in issued
               PROVE  Cardinality({c \in issued : c.parent = m.id}) <= 1
    BY DEF Chains
  <2> DEFINE K == {c \in issued : c.parent = m.id}
             L == {c \in issued' : c.parent = m.id}
  <2>1. Cardinality(L) <= 1
    BY <1>1 DEF Chains
  <2>2. IsFiniteSet(L) /\ K \in SUBSET L
    BY <1>1, FS_Subset DEF TypeOK
  <2> HIDE DEF K, L
  <2>3. Cardinality(K) <= Cardinality(L) /\ Cardinality(K) \in Nat /\ Cardinality(L) \in Nat
    BY <2>2, FS_Subset, FS_CardinalityType
  <2> QED
    BY <2>1, <2>3 DEF K
<1>3. /\ HasSnapshot /\ NoFalseAssert
      /\ \A q \in Rank : AtAssert(q) => firstLocal[q] = LocalCount(q)
  BY <1>2 DEF ChainInv
<1>4. PICK S \in SUBSET issued, T \in SUBSET executed : Snapshot(S, T)
  BY <1>3 DEF HasSnapshot
<1>5. ASSUME NEW X \in SUBSET issued', NEW Y \in SUBSET executed', Snapshot(X, Y)'
      PROVE  HasSnapshot'
  BY <1>5 DEF HasSnapshot, Snapshot
<1>6. ASSUME UNCHANGED collVars
      PROVE  Snapped' = Snapped /\ \A q : Doubting(q)' <=> Doubting(q)
  BY <1>6 DEF collVars, Snapped, Doubting
<1>7. ASSUME NEW r \in Rank, pc[r] # "wait2", UNCHANGED collVars,
             \A q \in Rank \ {r} : LocalCount(q)' = LocalCount(q)
      PROVE  /\ \A q \in Rank : AtAssert(q)' => firstLocal'[q] = LocalCount(q)'
             /\ NoFalseAssert'
  BY <1>3, <1>7 DEF collVars, AtAssert, NoFalseAssert
<1>8. ASSUME NEW r \in Rank, NEW d \in Rank \ {r}, Async(r, d)
      PROVE  Kept
  <2>1. PICK m : m = NewCall(r, d)
    OBVIOUS
  <2>2. /\ issued' = issued \cup {m} /\ executed' = executed
        /\ m.src = r /\ m.parent = Parent(r)
        /\ MayCall(r) /\ UNCHANGED collVars
        /\ sendCount' = [sendCount EXCEPT ![r] = @ + 1] /\ recvCount' = recvCount
    BY <1>8, <2>1 DEF Async, NewCall
  <2>3. r \in Snapped => \E p \in issued \ T : p.dst = r /\ p.id = m.parent
    <3> SUFFICES ASSUME r \in Snapped
                 PROVE  \E p \in issued \ T : p.dst = r /\ p.id = m.parent
      OBVIOUS
    <3>1. stack[r] # <<>>
      BY <2>2, CallerFacts DEF Snapped
    <3>2. Head(stack[r]) = stack[r][1] /\ 1 \in DOMAIN stack[r]
      <4>1. stack[r] \in Seq(Call)
        BY DEF TypeOK
      <4>2. Head(stack[r]) = stack[r][1] /\ DOMAIN stack[r] = 1 .. Len(stack[r])
            /\ Len(stack[r]) \in Nat \ {0}
        BY <3>1, <4>1, PopLemma
      <4> QED
        BY <4>2
    <3>3. Head(stack[r]) \in issued \ executed /\ Head(stack[r]).dst = r
      BY <3>2 DEF StackInv
    <3> QED
      BY <2>2, <3>1, <3>3 DEF Parent
  <2>4. Snapshot(S, T)'
    BY <1>4, <1>6, <2>2, <2>3 DEF Snapshot, collVars
  <2>5. HasSnapshot'
    BY <1>1, <1>5, <2>2, <2>4
  <2>6. \A q \in Rank \ {r} : LocalCount(q)' = LocalCount(q)
    BY <2>2 DEF LocalCount, TypeOK
  <2> QED
    BY <1>7, <2>2, <2>5, <2>6, CallerFacts
<1>9. ASSUME NEW r \in Rank, End(r)
      PROVE  Kept
  <2>1. /\ issued' = issued /\ executed \subseteq executed'
        /\ UNCHANGED collVars /\ sendCount' = sendCount
        /\ recvCount' = [recvCount EXCEPT ![r] = @ + 1]
    BY <1>9 DEF End
  <2>2. Snapshot(S, T)'
    BY <1>4, <1>6, <2>1 DEF Snapshot, collVars
  <2>3. HasSnapshot'
    BY <1>5, <2>1, <2>2
  <2>4. \A q \in Rank \ {r} : LocalCount(q)' = LocalCount(q)
    BY <2>1 DEF LocalCount, TypeOK
  <2> QED
    BY <1>7, <1>9, <2>1, <2>3, <2>4, CallerFacts
<1>10. ASSUME NEW r \in Rank, UNCHANGED callVars, r \notin Snapped,
              \A q \in Rank \ {r} : /\ pc'[q] = pc[q] /\ result'[q] = result[q]
                                    /\ firstLocal'[q] = firstLocal[q],
              pc'[r] \in {"app", "idle"}, pc[r] \notin {"thrown"}, arSum' = arSum,
              ~Doubting(r)
       PROVE  Kept
  <2>1. Snapped' = Snapped /\ \A q \in Rank : Doubting(q)' <=> Doubting(q)
    BY <1>10 DEF Snapped, Doubting
  <2>2. issued' = issued /\ executed' = executed
    BY <1>10 DEF callVars
  <2>3. Snapshot(S, T)'
    BY <1>4, <1>10, <2>1, <2>2, SnapshotKept DEF Snapped
  <2>4. HasSnapshot'
    BY <1>5, <2>2, <2>3
  <2>5. \A q \in Rank : LocalCount(q)' = LocalCount(q)
    BY <1>10 DEF callVars, LocalCount
  <2> QED
    BY <1>3, <1>10, <2>4, <2>5 DEF AtAssert, NoFalseAssert
<1>11. ASSUME NEW r \in Rank, UNCHANGED callVars, Enter(r) \/ Restart(r) \/ Leave(r)
       PROVE  Kept
  <2>1. /\ \A q \in Rank \ {r} : /\ pc'[q] = pc[q] /\ result'[q] = result[q]
                                 /\ firstLocal'[q] = firstLocal[q]
        /\ pc'[r] \in {"app", "idle"} /\ pc[r] \notin {"thrown"} /\ arSum' = arSum
    BY <1>11 DEF TypeOK, Enter, Restart, Leave, AtAssert, Waiting
  <2>2. r \notin Snapped /\ ~Doubting(r)
    BY <1>11, NoneAssumption DEF Enter, Restart, Leave, AtAssert, Waiting, Snapped, Doubting
  <2> QED
    BY <1>10, <1>11, <2>1, <2>2
<1>12. ASSUME NEW r \in Rank, First(r)
       PROVE  Kept
  <2>1. HasSnapshot'
    BY <1>4, <1>12, FirstSnapshot
  <2>2. /\ Contribute(r) /\ pc' = [pc EXCEPT ![r] = "wait1"]
        /\ firstLocal' = [firstLocal EXCEPT ![r] = LocalCount(r)]
        /\ UNCHANGED callVars
    BY <1>12 DEF First
  <2>3. \A q \in Rank : pc'[q] = IF q = r THEN "wait1" ELSE pc[q]
    BY <2>2 DEF TypeOK
  <2>4. ASSUME NEW q \in Rank, AtAssert(q)'
        PROVE  q # r /\ AtAssert(q)
    <3>1. q # r /\ pc[q] = "wait2" /\ result'[q] = 0
      BY <2>3, <2>4 DEF AtAssert
    <3>2. CASE Gathered # Rank \ {r}
      BY <2>2, <3>1, <3>2, ContributeLemma DEF AtAssert
    <3>3. CASE Gathered = Rank \ {r}
      BY <1>12, <3>1, <3>3, FirstFacts
    <3> QED
      BY <3>2, <3>3
  <2>5. \A q \in Rank : LocalCount(q)' = LocalCount(q)
    BY <2>2 DEF callVars, LocalCount
  <2>6. \A q \in Rank \ {r} : firstLocal'[q] = firstLocal[q]
    BY <2>2 DEF TypeOK
  <2> QED
    BY <1>3, <2>1, <2>3, <2>4, <2>5, <2>6 DEF NoFalseAssert
<1>13. ASSUME NEW r \in Rank, Second(r)
       PROVE  Kept
  <2>1. /\ Contribute(r) /\ pc' = [pc EXCEPT ![r] = "wait2"] /\ pc[r] = "wait1"
        /\ firstLocal' = firstLocal /\ UNCHANGED callVars
    BY <1>13 DEF Second
  <2>2. /\ \A q \in Rank : pc'[q] = IF q = r THEN "wait2" ELSE pc[q]
        /\ \A q \in Rank : LocalCount(q)' = LocalCount(q)
        /\ issued' = issued /\ executed' = executed
    BY <2>1 DEF TypeOK, callVars, LocalCount
  <2>3. /\ \A q \in Rank : Doubting(q)
        /\ \A q \in Gathered : pc[q] = "wait2"
    BY <1>13, SecondFacts
  <2>4. Snapped = Rank /\ \A q \in Rank : ~AtAssert(q)
    BY <2>3, NoneAssumption DEF Snapped, Doubting, AtAssert
  <2>5. NoFalseAssert'
    BY <1>3, <2>2 DEF NoFalseAssert
  <2>6. CASE Gathered # Rank \ {r}
    <3>1. /\ result'[r] = None /\ \A q \in Rank \ {r} : result'[q] = result[q]
      BY <2>1, <2>6, ContributeLemma
    <3>2. Snapped' = Rank /\ \A q \in Rank : Doubting(q)'
      BY <2>2, <2>3, <3>1, NoneAssumption DEF Snapped, Doubting
    <3>3. Snapshot(S, T)'
      <4>1. \E q \in Rank : Doubting(q)'
        BY <3>2
      <4>2. \E q \in Rank : Doubting(q)
        BY <2>3
      <4> QED
        BY <1>4, <2>1, <2>2, <2>4, <3>2, <4>1, <4>2 DEF Snapshot
    <3>4. HasSnapshot'
      BY <1>5, <2>2, <3>3
    <3>5. \A q \in Rank : ~AtAssert(q)'
      BY <3>2, NoneAssumption DEF AtAssert, Doubting
    <3> QED
      BY <2>5, <3>4, <3>5
  <2>7. CASE Gathered = Rank \ {r}
    <3>1. /\ arSum + LocalCount(r) \in Int
          /\ arSum' = 0 /\ \A q \in Rank : result'[q] = arSum + LocalCount(r)
      BY <2>1, <2>7, ContributeLemma
    <3>2. \A q \in Rank : pc'[q] = "wait2"
      BY <2>2, <2>3, <2>7
    <3>3. Snapped' = {}
      BY <3>1, <3>2, NoneAssumption DEF Snapped
    <3>4. HasSnapshot'
      <4>1. Snapshot({}, {})'
        BY <3>1, <3>3, SnapshotEmptyNext
      <4> QED
        BY <1>5, <4>1
    <3>5. ASSUME NEW q \in Rank, AtAssert(q)'
          PROVE  firstLocal'[q] = LocalCount(q)'
      <4>1. arSum + LocalCount(r) = 0
        BY <3>1, <3>5 DEF AtAssert
      <4>2. issued = executed
        BY <1>13, <2>7, <4>1, ZeroMeansDone
      <4>3. Cardinality(S) - Cardinality(T) = 0
        BY <1>4, <2>3 DEF Snapshot
      <4>4. Cardinality(S) = Cardinality(T)
        <5>1. Cardinality(S) \in Nat /\ Cardinality(T) \in Nat
          BY FiniteCalls, FS_Subset, FS_CardinalityType
        <5> QED
          BY <4>3, <5>1
      <4>5. \A c \in issued \ S : \E p \in issued \ T : p.dst = c.src /\ p.id = c.parent
        BY <1>4, <2>4 DEF Snapshot, TypeOK, Call
      <4>6. Cardinality(SentBy({q})) - Cardinality(RunAt({q}))
              = Cardinality({c \in S : c.src = q}) - Cardinality({c \in T : c.dst = q})
        BY <1>2, <4>2, <4>4, <4>5, MovedEvenly
      <4>7. firstLocal[q] = Cardinality({c \in S : c.src = q}) - Cardinality({c \in T : c.dst = q})
        BY <1>4, <2>4 DEF Snapshot
      <4>8. LocalCount(q) = Cardinality(SentBy({q})) - Cardinality(RunAt({q}))
        BY DEF CountInv, LocalCount
      <4> QED
        BY <2>1, <2>2, <4>6, <4>7, <4>8
    <3> QED
      BY <2>5, <3>4, <3>5
  <2> QED
    BY <2>6, <2>7
<1>14. ASSUME NEW r \in Rank, Throw(r)
       PROVE  FALSE
  BY <1>3, <1>14 DEF Throw
<1>15. ASSUME UNCHANGED collVars, UNCHANGED <<issued, executed, sendCount, recvCount>>
       PROVE  Kept
  <2>1. Snapshot(S, T)'
    BY <1>4, <1>6, <1>15, SnapshotKept DEF collVars
  <2>2. HasSnapshot'
    BY <1>5, <1>15, <2>1
  <2> QED
    BY <1>3, <1>15, <2>2 DEF collVars, AtAssert, LocalCount, NoFalseAssert
<1> QED
  BY <1>8, <1>9, <1>11, <1>12, <1>13, <1>14, <1>15, StepKinds DEF Begin, vars, collVars, callVars
-----------------------------------------------------------------------------
(* IInv is an invariant: it holds initially and every step preserves it.   *)
LEMMA IInvInit == Init => IInv
<1> SUFFICES ASSUME Init PROVE IInv
  OBVIOUS
<1>1. TypeOK
  BY TypeInit
<1>2. Cardinality({}) = 0
  BY FS_EmptySet
<1>3. IdsInv /\ StackInv
  BY DEF Init, IdsInv, StackInv
<1>4. CountInv
  <2>1. \A r : SentBy({r}) = {} /\ RunAt({r}) = {}
    BY DEF Init, SentBy, RunAt
  <2> QED
    BY <1>2, <2>1 DEF Init, CountInv
<1>5. ResultInv /\ DoubtInv
  BY NoneAssumption DEF Init, ResultInv, DoubtInv, Doubting
<1>6. EpochInv /\ PendingInv
  BY DEF Init, EpochInv, PendingInv, EpochIsolation, Closed, AtAssert
<1>7. ChainInv
  <2>1. HasSnapshot
    BY <1>2 DEF Init, HasSnapshot, Snapshot, Snapped, Doubting
  <2> QED
    BY <2>1 DEF Init, ChainInv, AtAssert, NoFalseAssert
<1> QED
  BY <1>1, <1>3, <1>4, <1>5, <1>6, <1>7 DEF IInv

THEOREM Inductive == Spec => []IInv
<1>1. IInv /\ [Next]_vars => IInv'
  BY TypeStep, IdsStep, StackStep, CountStep, ResultStep, DoubtStep, EpochStep,
     PendingStep, ChainStep DEF IInv
<1> QED
  BY IInvInit, <1>1, PTL DEF Spec

(* barrier() keeps its promise: once any rank has left its e-th barrier, no
   call of the first e epochs is pending anywhere.                         *)
THEOREM BarrierKeepsPromise == Spec => []BarrierPromise
<1>1. IInv => BarrierPromise
  BY DEF IInv, PendingInv, BarrierPromise
<1> QED
  BY <1>1, Inductive, PTL

(* The release assertion of barrier() never throws in a program none of whose
   handlers makes more than one call.                                      *)
THEOREM ChainsAreSafe == Spec => []ChainsPassAssert
<1>1. IInv => ChainsPassAssert
  BY DEF IInv, ChainInv, ChainsPassAssert
<1> QED
  BY <1>1, Inductive, PTL

(* Every handler runs in the epoch in which its call was issued.           *)
THEOREM HandlersKeepEpoch == Spec => []EpochIsolation
<1>1. IInv => EpochIsolation
  BY DEF IInv, PendingInv
<1> QED
  BY <1>1, Inductive, PTL

(* Ranks never mix the two reductions of the barrier.                      *)
THEOREM ReductionsMatch == Spec => []CollectivesMatch
<1>1. ASSUME IInv PROVE CollectivesMatch
  <2>1. ASSUME NEW r \in Gathered, NEW s \in Gathered PROVE pc[r] = pc[s]
    <3>1. CASE pc[r] = "wait2" \/ pc[s] = "wait2"
      BY <1>1, <2>1, <3>1, NoneAssumption DEF IInv, DoubtInv, Doubting, Gathered
    <3>2. CASE pc[r] # "wait2" /\ pc[s] # "wait2"
      BY <2>1, <3>2 DEF Gathered, Waiting
    <3> QED
      BY <3>1, <3>2
  <2> QED
    BY <1>1, <2>1 DEF IInv, ResultInv, CollectivesMatch
<1> QED
  BY <1>1, Inductive, PTL
-----------------------------------------------------------------------------
(* The barrier implements the bulk-synchronous promise: making a call,
   finishing a handler, entering and leaving barrier() are the abstract
   steps; the rest of the protocol is invisible.                           *)
LEMMA BulkStep ==
  ASSUME IInv, [Next]_vars
  PROVE  BS!BSNext \/ UNCHANGED BS!bsVars
<1> USE DEF BS!bsVars
<1>0. TypeOK /\ StackInv /\ EpochInv /\ PendingInv /\ ResultInv
  BY DEF IInv
<1>1. BS!Call = Call /\ BS!Pending = issued \ executed
  BY DEF BS!Call, Call, BS!Pending
<1>2. ASSUME NEW r \in Rank, NEW d \in Rank \ {r}, Async(r, d)
      PROVE  BS!BSNext
  <2> DEFINE m == NewCall(r, d)
  <2>1. /\ issued' = issued \cup {m} /\ executed' = executed /\ UNCHANGED collVars
        /\ MayCall(r) /\ stack' = stack
        /\ m.id = Cardinality(issued) + 1 /\ m.src = r /\ m.epoch = epoch[r]
    BY <1>2 DEF Async, NewCall
  <2>2. m \notin issued
    BY <2>1, FS_CardinalityType DEF IInv, IdsInv, TypeOK
  <2>3. m \in Call
    <3>1. TypeOK'
      BY <1>0, TypeStep
    <3> QED
      BY <2>1, <3>1 DEF TypeOK
  <2> HIDE DEF m
  <2>4. UNCHANGED <<epoch, Inside>>
    BY <2>1 DEF collVars, Inside
  <2>5. r \in Inside => \E c \in BS!Pending : c.dst = r /\ c.epoch = epoch[r]
    <3>1. ASSUME r \in Inside PROVE stack[r] # <<>>
      BY <2>1, <3>1 DEF Inside, MayCall
    <3>2. ASSUME stack[r] # <<>>
          PROVE  \E c \in BS!Pending : c.dst = r /\ c.epoch = epoch[r]
      <4>1. 1 \in DOMAIN stack[r]
        BY <1>0, <3>2, PopLemma DEF TypeOK
      <4>2. /\ stack[r][1] \in issued \ executed /\ stack[r][1].dst = r
            /\ stack[r][1].epoch = epoch[r]
        BY <1>0, <4>1 DEF StackInv, PendingInv, EpochIsolation
      <4> QED
        BY <1>1, <4>2
    <3> QED
      BY <3>1, <3>2
  <2>6. BS!BSIssue(m)
    BY <1>1, <2>1, <2>2, <2>3, <2>4, <2>5 DEF BS!BSIssue
  <2> QED
    BY <2>1, <2>6 DEF BS!BSNext
<1>3. ASSUME NEW m \in issued, Begin(m)
      PROVE  UNCHANGED BS!bsVars
  BY <1>3 DEF Begin, collVars, Inside
<1>4. ASSUME NEW r \in Rank, End(r)
      PROVE  BS!BSNext
  <2> DEFINE h == Head(stack[r])
  <2>1. /\ executed' = executed \cup {h} /\ issued' = issued /\ UNCHANGED collVars
        /\ stack[r] # <<>>
    BY <1>4 DEF End
  <2>2. h = stack[r][1] /\ 1 \in DOMAIN stack[r]
    BY <1>0, <2>1, PopLemma DEF TypeOK
  <2>3. h \in BS!Pending /\ h.dst = r /\ h.epoch = epoch[r]
    BY <1>0, <1>1, <2>2 DEF StackInv, PendingInv, EpochIsolation
  <2> HIDE DEF h
  <2>4. UNCHANGED <<epoch, Inside>>
    BY <2>1 DEF collVars, Inside
  <2>5. BS!BSExecute(h)
    BY <2>1, <2>3, <2>4 DEF BS!BSExecute
  <2> QED
    BY <2>3, <2>5 DEF BS!BSNext
<1>5. ASSUME NEW r \in Rank, Enter(r)
      PROVE  BS!BSNext
  <2>1. /\ pc[r] = "app" /\ pc' = [pc EXCEPT ![r] = "idle"]
        /\ UNCHANGED <<issued, executed, epoch>>
    BY <1>5 DEF Enter, callVars
  <2>2. r \notin Inside /\ Inside' = Inside \cup {r}
    BY <1>0, <2>1 DEF Inside, TypeOK
  <2>3. BS!BSEnter(r)
    BY <2>1, <2>2 DEF BS!BSEnter
  <2> QED
    BY <2>3 DEF BS!BSNext
<1>6. ASSUME NEW r \in Rank, First(r) \/ Second(r) \/ Restart(r) \/ Throw(r)
      PROVE  UNCHANGED BS!bsVars
  <2>1. /\ pc[r] # "app" /\ pc'[r] # "app"
        /\ \A s \in Rank \ {r} : pc'[s] = pc[s]
        /\ UNCHANGED <<issued, executed, epoch>>
    BY <1>0, <1>6 DEF First, Second, Restart, Throw, AtAssert, Waiting, TypeOK, callVars
  <2>2. Inside' = Inside
    BY <2>1 DEF Inside
  <2> QED
    BY <2>1, <2>2
<1>7. ASSUME NEW r \in Rank, Leave(r)
      PROVE  BS!BSNext
  <2>1. /\ Closed(r) /\ pc[r] = "wait2" /\ pc' = [pc EXCEPT ![r] = "app"]
        /\ epoch' = [epoch EXCEPT ![r] = @ + 1] /\ UNCHANGED <<issued, executed>>
    BY <1>7 DEF Leave, Closed, AtAssert, callVars
  <2>2. r \in Inside /\ Inside' = Inside \ {r}
    BY <1>0, <2>1 DEF Inside, TypeOK
  <2>3. \A s \in Rank : Closed(s) => s \in Inside
    BY DEF Closed, AtAssert, Inside
  <2>4. \A s \in Rank : \/ epoch[s] = epoch[r] /\ s \in Inside
                        \/ epoch[s] = epoch[r] + 1
    BY <1>0, <2>1, <2>3 DEF EpochInv
  <2>5. \A m \in BS!Pending : m.epoch # epoch[r]
    BY <1>0, <1>1, <2>1 DEF PendingInv
  <2>6. BS!BSLeave(r)
    BY <2>1, <2>2, <2>4, <2>5 DEF BS!BSLeave
  <2> QED
    BY <2>6 DEF BS!BSNext
<1>8. CASE UNCHANGED vars
  BY <1>8 DEF vars, Inside
<1> QED
  BY <1>2, <1>3, <1>4, <1>5, <1>6, <1>7, <1>8, StepKinds

(* The protocol of comm::impl gives the program the bulk-synchronous
   execution YgmBulkSync describes.                                        *)
THEOREM ImplementsBulkSync == Spec => BulkSync
<1>1. Init => BS!BSInit
  BY DEF Init, BS!BSInit, Inside
<1>2. IInv /\ [Next]_vars => [BS!BSNext]_(BS!bsVars)
  BY BulkStep
<1> QED
  BY <1>1, <1>2, Inductive, PTL DEF Spec, BulkSync, BS!BSSpec
=============================================================================
