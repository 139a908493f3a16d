------------------------- MODULE YgmTransportProofs -------------------------
(***************************************************************************)
(* The steps of YgmComm preserve where calls, messages, handlers and main  *)
(* threads are: every part of the invariant TInv but the one about the way *)
(* of a call, which is that of YgmDeliveryProofs.                          *)
(* First, what may be done with the buffers between two ranks (Way in      *)
(* YgmComm): passing a buffer on, adding a call at the end, taking the     *)
(* first call of the innermost buffer away keep the calls there, each once *)
(* and in order.                                                           *)
(***************************************************************************)
EXTENDS YgmComm, YgmBarrierProofs

IsWay(W) == W \in [1 .. 5 -> Seq(Seq(Call))]

(* The places P of the way W hold the calls S, each once, and those not in B in
   the order they were made, except that some of those in stretch 1 may have
   been overtaken by the calls X.                                          *)
HoldsAt(W, P, S, B, X) ==
  /\ \A p, q \in P : At(W, p) = At(W, q) => p = q
  /\ {At(W, p) : p \in P} = S
  /\ \A p, q \in P :
       At(W, p) \notin B /\ At(W, q) \notin B /\ Before(p, q) => At(W, p).id < At(W, q).id
  /\ \A c \in X \ B : \A p \in P :
       At(W, p) \notin B /\ At(W, p).id < c.id => p[1] = 1

\* All the calls from s on the way W.
Holds(W, s, S, B, X) == HoldsAt(W, Places(W, s), S, B, X)

\* F leads from the places P of V back to those, Q, of W that they come from.
Carries(F, V, P, W, Q) ==
  /\ \A p \in P : F[p] \in Q /\ At(W, F[p]) = At(V, p) /\ (F[p][1] = 1 => p[1] = 1)
  /\ \A q \in Q : \E p \in P : F[p] = q
  /\ \A p, q \in P : Before(p, q) => Before(F[p], F[q])
-----------------------------------------------------------------------------
LEMMA PlaceFacts ==
  ASSUME NEW W, IsWay(W), NEW s
  PROVE  /\ \A p \in Places(W, s) :
              /\ p[1] \in 1 .. 5 /\ p[2] \in 1 .. Len(W[p[1]])
              /\ p[3] \in 1 .. Len(W[p[1]][p[2]])
              /\ p = <<p[1], p[2], p[3]>>
              /\ At(W, p) \in Call /\ At(W, p).src = s
         /\ \A t \in 1 .. 5 : \A i \in 1 .. Len(W[t]) : \A j \in 1 .. Len(W[t][i]) :
              /\ <<t, i, j>> \in Places(W, s) <=> W[t][i][j].src = s
              /\ At(W, <<t, i, j>>) = W[t][i][j]
         /\ \A t \in 1 .. 5 : /\ W[t] \in Seq(Seq(Call)) /\ Len(W[t]) \in Nat
                              /\ \A i \in 1 .. Len(W[t]) : /\ W[t][i] \in Seq(Call)
                                                           /\ Len(W[t][i]) \in Nat
<1>1. ASSUME NEW t \in 1 .. 5
      PROVE  /\ W[t] \in Seq(Seq(Call)) /\ Len(W[t]) \in Nat /\ DOMAIN W[t] = 1 .. Len(W[t])
             /\ \A i \in 1 .. Len(W[t]) :
                  /\ W[t][i] \in Seq(Call) /\ Len(W[t][i]) \in Nat
                  /\ DOMAIN W[t][i] = 1 .. Len(W[t][i])
                  /\ \A j \in 1 .. Len(W[t][i]) : W[t][i][j] \in Call
  <2>1. W[t] \in Seq(Seq(Call))
    BY DEF IsWay
  <2> QED
    BY <2>1
<1>2. ASSUME NEW p
      PROVE  p \in Places(W, s) <=>
               \E t \in 1 .. 5 : \E i \in DOMAIN W[t] : \E j \in DOMAIN W[t][i] :
                 p = <<t, i, j>> /\ At(W, p).src = s
  BY DEF Places
<1>3. \A t, i, j : At(W, <<t, i, j>>) = W[t][i][j]
  BY DEF At
<1>4. ASSUME NEW p \in Places(W, s)
      PROVE  /\ p[1] \in 1 .. 5 /\ p[2] \in 1 .. Len(W[p[1]])
             /\ p[3] \in 1 .. Len(W[p[1]][p[2]])
             /\ p = <<p[1], p[2], p[3]>>
             /\ At(W, p) \in Call /\ At(W, p).src = s
  <2>3. PICK t \in 1 .. 5 : \E i \in DOMAIN W[t] : \E j \in DOMAIN W[t][i] :
          p = <<t, i, j>> /\ At(W, p).src = s
    BY <1>2
  <2>4. PICK i \in DOMAIN W[t] : \E j \in DOMAIN W[t][i] :
          p = <<t, i, j>> /\ At(W, p).src = s
    BY <2>3
  <2>1. PICK j \in DOMAIN W[t][i] : p = <<t, i, j>> /\ At(W, p).src = s
    BY <2>4
  <2>2. p[1] = t /\ p[2] = i /\ p[3] = j
    BY <2>1
  <2>5. i \in 1 .. Len(W[t]) /\ j \in 1 .. Len(W[t][i]) /\ W[t][i][j] \in Call
    BY <1>1
  <2>6. At(W, p) = W[t][i][j]
    BY <2>1, <1>3
  <2>7. p = <<p[1], p[2], p[3]>>
    BY <2>1, <2>2
  <2> QED
    BY <2>1, <2>2, <2>5, <2>6, <2>7
<1>5. ASSUME NEW t \in 1 .. 5, NEW i \in 1 .. Len(W[t]), NEW j \in 1 .. Len(W[t][i])
      PROVE  <<t, i, j>> \in Places(W, s) <=> W[t][i][j].src = s
  <2> DEFINE p == <<t, i, j>>
  <2>1. i \in DOMAIN W[t] /\ j \in DOMAIN W[t][i]
    BY <1>1
  <2>2. At(W, p) = W[t][i][j]
    BY <1>3
  <2>3. p \in Places(W, s) => At(W, p).src = s
    BY <1>2
  <2>4. At(W, p).src = s => p \in Places(W, s)
    BY <2>1, <1>2
  <2> QED
    BY <2>2, <2>3, <2>4
<1>6. \A t \in 1 .. 5 : \A i \in 1 .. Len(W[t]) : \A j \in 1 .. Len(W[t][i]) :
        /\ <<t, i, j>> \in Places(W, s) <=> W[t][i][j].src = s
        /\ At(W, <<t, i, j>>) = W[t][i][j]
  <2> TAKE t \in 1 .. 5
  <2> TAKE i \in 1 .. Len(W[t])
  <2> TAKE j \in 1 .. Len(W[t][i])
  <2>1. <<t, i, j>> \in Places(W, s) <=> W[t][i][j].src = s
    BY <1>5
  <2>2. At(W, <<t, i, j>>) = W[t][i][j]
    BY <1>3
  <2> QED
    BY <2>1, <2>2
<1>7. \A t \in 1 .. 5 : /\ W[t] \in Seq(Seq(Call)) /\ Len(W[t]) \in Nat
                        /\ \A i \in 1 .. Len(W[t]) : /\ W[t][i] \in Seq(Call)
                                                     /\ Len(W[t][i]) \in Nat
  BY <1>1
<1>8. \A p \in Places(W, s) :
        /\ p[1] \in 1 .. 5 /\ p[2] \in 1 .. Len(W[p[1]])
        /\ p[3] \in 1 .. Len(W[p[1]][p[2]])
        /\ p = <<p[1], p[2], p[3]>>
        /\ At(W, p) \in Call /\ At(W, p).src = s
  BY <1>4, Zenon
<1> QED
  BY <1>6, <1>7, <1>8, Zenon

LEMMA InPlaces ==
  ASSUME NEW W, IsWay(W), NEW s, NEW t \in 1 .. 5, NEW i \in 1 .. Len(W[t]),
         NEW j \in 1 .. Len(W[t][i]), W[t][i][j].src = s
  PROVE  <<t, i, j>> \in Places(W, s)
BY PlaceFacts, Zenon

LEMMA BeforeTotal ==
  ASSUME NEW W, IsWay(W), NEW s, NEW p \in Places(W, s), NEW q \in Places(W, s)
  PROVE  /\ p = q \/ Before(p, q) \/ Before(q, p)
         /\ ~(Before(p, q) /\ Before(q, p))
<1>1. /\ p[1] \in Int /\ p[2] \in Int /\ p[3] \in Int /\ p = <<p[1], p[2], p[3]>>
      /\ q[1] \in Int /\ q[2] \in Int /\ q[3] \in Int /\ q = <<q[1], q[2], q[3]>>
  <2>1. \A n : \A i \in 1 .. n : i \in Int
    OBVIOUS
  <2> QED
    BY <2>1, PlaceFacts
<1>2. p[1] = q[1] /\ p[2] = q[2] /\ p[3] = q[3] => p = q
  BY <1>1
<1> QED
  BY <1>1, <1>2 DEF Before

(* Places keep their calls and their order.                                *)
LEMMA CarriedOver ==
  ASSUME NEW W, IsWay(W), NEW V, IsWay(V), NEW s, NEW F, NEW S, NEW B, NEW X,
         NEW P \in SUBSET Places(V, s), NEW Q \in SUBSET Places(W, s),
         Carries(F, V, P, W, Q),
         HoldsAt(W, Q, S, B, X)
  PROVE  HoldsAt(V, P, S, B, X)
<1>1. /\ \A p \in P : F[p] \in Q /\ At(W, F[p]) = At(V, p) /\ (F[p][1] = 1 => p[1] = 1)
      /\ \A q \in Q : \E p \in P : F[p] = q
      /\ \A p, q \in P : Before(p, q) => Before(F[p], F[q])
  BY DEF Carries
<1>2. /\ \A p, q \in Q : At(W, p) = At(W, q) => p = q
      /\ {At(W, p) : p \in Q} = S
      /\ \A p, q \in Q :
           At(W, p) \notin B /\ At(W, q) \notin B /\ Before(p, q) => At(W, p).id < At(W, q).id
      /\ \A c \in X \ B : \A p \in Q : At(W, p) \notin B /\ At(W, p).id < c.id => p[1] = 1
  BY DEF HoldsAt
<1>3. \A p, q \in P : p = q \/ Before(p, q) \/ Before(q, p)
  BY BeforeTotal
<1>4. \A q \in Q : ~Before(q, q)
  BY BeforeTotal
<1>5. \A p, q \in P : At(V, p) = At(V, q) => p = q
  BY <1>1, <1>2, <1>3, <1>4
<1>6. {At(V, p) : p \in P} = S
  BY <1>1, <1>2
<1>7. \A p, q \in P :
        At(V, p) \notin B /\ At(V, q) \notin B /\ Before(p, q) => At(V, p).id < At(V, q).id
  <2> SUFFICES ASSUME NEW p \in P, NEW q \in P, At(V, p) \notin B, At(V, q) \notin B,
                      Before(p, q)
               PROVE  At(V, p).id < At(V, q).id
    OBVIOUS
  <2>1. F[p] \in Q /\ F[q] \in Q /\ Before(F[p], F[q])
    BY <1>1
  <2>2. At(W, F[p]) = At(V, p) /\ At(W, F[q]) = At(V, q)
    BY <1>1
  <2> QED
    BY <2>1, <2>2, <1>2
<1>8. \A c \in X \ B : \A p \in P : At(V, p) \notin B /\ At(V, p).id < c.id => p[1] = 1
  BY <1>1, <1>2
<1> QED
  BY <1>5, <1>6, <1>7, <1>8 DEF HoldsAt
-----------------------------------------------------------------------------
(* The first buffer of stretch t becomes the last one of stretch u, nearer
   to the destination, with nothing in between.                            *)
Passed(W, V, t, u) ==
  /\ W[t] # <<>> /\ V[u] = Append(W[u], W[t][1])
  /\ \A k \in 1 .. 5 : k # t /\ k # u => V[k] = W[k]
  /\ \A k \in 1 .. 5 : u < k /\ k < t => \A i \in 1 .. Len(W[k]) : W[k][i] = <<>>
  /\ \A i \in 1 .. Len(V[t]) :
       V[t][i] # <<>> => i + 1 \in 1 .. Len(W[t]) /\ V[t][i] = W[t][i + 1]
  /\ \A i \in 2 .. Len(W[t]) : i - 1 \in 1 .. Len(V[t]) /\ V[t][i - 1] = W[t][i]

LEMMA PassOn ==
  ASSUME NEW W, IsWay(W), NEW V, IsWay(V), NEW s, NEW S, NEW B, NEW X,
         NEW t \in 2 .. 5, NEW u \in 1 .. t - 1, Passed(W, V, t, u), Holds(W, s, S, B, X)
  PROVE  Holds(V, s, S, B, X)
<1> DEFINE n == Len(W[u]) + 1
           F == [p \in Places(V, s) |->
                   IF p[1] = u /\ p[2] = n THEN <<t, 1, p[3]>>
                   ELSE IF p[1] = t THEN <<t, p[2] + 1, p[3]>> ELSE p]
<1>1. t \in 1 .. 5 /\ u \in 1 .. 5 /\ t \in Int /\ u \in Int /\ u < t /\ u # t
  OBVIOUS
<1>2. /\ Len(W[t]) \in Nat \ {0} /\ n \in Nat \ {0} /\ Len(W[u]) = n - 1
      /\ Len(V[u]) = n /\ V[u][n] = W[t][1]
      /\ \A i \in 1 .. n - 1 : V[u][i] = W[u][i]
  <2>1. /\ W[t] \in Seq(Seq(Call)) /\ W[u] \in Seq(Seq(Call)) /\ Len(W[u]) \in Nat
        /\ W[t] # <<>> /\ V[u] = Append(W[u], W[t][1])
    BY <1>1, PlaceFacts DEF Passed
  <2>2. Len(W[t]) \in Nat \ {0}
    BY <2>1, EmptySeq
  <2>3. W[t][1] \in Seq(Call)
    BY <2>1, <2>2, ElementOfSeq
  <2> QED
    BY <2>1, <2>2, <2>3, AppendProperties
<1>3. \A k \in 1 .. 5 : k # t /\ k # u => V[k] = W[k]
  BY DEF Passed
<1>13. \A k \in 1 .. 5 : u < k /\ k < t => \A i \in 1 .. Len(W[k]) : W[k][i] = <<>>
  BY DEF Passed
<1>4. /\ \A i \in 1 .. Len(V[t]) :
       V[t][i] # <<>> => i + 1 \in 1 .. Len(W[t]) /\ V[t][i] = W[t][i + 1]
      /\ \A i \in 2 .. Len(W[t]) : i - 1 \in 1 .. Len(V[t]) /\ V[t][i - 1] = W[t][i]
  BY DEF Passed
<1>5. \A x \in Places(V, s) :
        /\ x[1] = u /\ x[2] = n => F[x] = <<t, 1, x[3]>>
        /\ x[1] = t => F[x] = <<t, x[2] + 1, x[3]>>
        /\ x[1] # t /\ ~(x[1] = u /\ x[2] = n) => F[x] = x
  BY <1>1
<1>6. /\ \A x \in Places(V, s) :
           /\ x[1] \in 1 .. 5 /\ x[2] \in 1 .. Len(V[x[1]]) /\ x[3] \in 1 .. Len(V[x[1]][x[2]])
           /\ V[x[1]][x[2]][x[3]].src = s /\ At(V, x) = V[x[1]][x[2]][x[3]]
           /\ x = <<x[1], x[2], x[3]>>
      /\ \A x \in Places(W, s) :
           /\ x[1] \in 1 .. 5 /\ x[2] \in 1 .. Len(W[x[1]]) /\ x[3] \in 1 .. Len(W[x[1]][x[2]])
           /\ W[x[1]][x[2]][x[3]].src = s /\ At(W, x) = W[x[1]][x[2]][x[3]]
           /\ x = <<x[1], x[2], x[3]>>
  BY PlaceFacts DEF At
<1>7. /\ \A k \in 1 .. 5 : \A i \in 1 .. Len(V[k]) : \A j \in 1 .. Len(V[k][i]) :
           V[k][i][j].src = s => <<k, i, j>> \in Places(V, s)
      /\ \A k \in 1 .. 5 : \A i \in 1 .. Len(W[k]) : \A j \in 1 .. Len(W[k][i]) :
           W[k][i][j].src = s =>
             <<k, i, j>> \in Places(W, s) /\ At(W, <<k, i, j>>) = W[k][i][j]
  <2>1. ASSUME NEW k \in 1 .. 5, NEW i \in 1 .. Len(V[k]), NEW j \in 1 .. Len(V[k][i]),
               V[k][i][j].src = s
        PROVE  <<k, i, j>> \in Places(V, s)
    BY <2>1, InPlaces, Zenon
  <2>2. ASSUME NEW k \in 1 .. 5, NEW i \in 1 .. Len(W[k]), NEW j \in 1 .. Len(W[k][i]),
               W[k][i][j].src = s
        PROVE  <<k, i, j>> \in Places(W, s) /\ At(W, <<k, i, j>>) = W[k][i][j]
    <3>1. <<k, i, j>> \in Places(W, s)
      BY <2>2, InPlaces, Zenon
    <3>2. At(W, <<k, i, j>>) = W[k][i][j]
      BY DEF At
    <3> QED
      BY <3>1, <3>2
  <2> QED
    BY <2>1, <2>2, Zenon
<1>8. \A k, i, j : <<k, i, j>>[1] = k /\ <<k, i, j>>[2] = i /\ <<k, i, j>>[3] = j
  OBVIOUS
<1> HIDE DEF n, F
<1>9. ASSUME NEW p \in Places(V, s)
      PROVE  /\ F[p] \in Places(W, s) /\ At(W, F[p]) = At(V, p)
             /\ F[p][1] = 1 => p[1] = 1
  <2>1. CASE p[1] = u /\ p[2] = n
    <3>1. F[p] = <<t, 1, p[3]>> /\ V[p[1]][p[2]] = W[t][1]
      BY <2>1, <1>2, <1>5
    <3>2. 1 \in 1 .. Len(W[t]) /\ p[3] \in 1 .. Len(W[t][1]) /\ W[t][1][p[3]].src = s
      <4>1. p[3] \in 1 .. Len(V[p[1]][p[2]]) /\ V[p[1]][p[2]][p[3]].src = s
        BY <1>6
      <4> QED
        BY <3>1, <4>1, <1>2
    <3>3. F[p] \in Places(W, s) /\ At(W, F[p]) = W[t][1][p[3]]
      BY <3>1, <3>2, <1>1, <1>7, SMTT(30)
    <3>4. F[p][1] = t
      BY <3>1, <1>8
    <3> QED
      BY <3>1, <3>3, <3>4, <1>6, SMTT(30)
  <2>2. CASE p[1] = t
    <3>1. p[2] + 1 \in 1 .. Len(W[t]) /\ V[p[1]][p[2]] = W[t][p[2] + 1]
      <4>1. V[t][p[2]] # <<>>
        BY <2>2, <1>6
      <4> QED
        BY <4>1, <2>2, <1>4, <1>6
    <3>2. F[p] = <<t, p[2] + 1, p[3]>>
      BY <2>2, <1>5
    <3>3. p[3] \in 1 .. Len(W[t][p[2] + 1]) /\ W[t][p[2] + 1][p[3]].src = s
      BY <3>1, <1>6
    <3>4. F[p] \in Places(W, s) /\ At(W, F[p]) = W[t][p[2] + 1][p[3]]
      <4>1. /\ <<t, p[2] + 1, p[3]>> \in Places(W, s)
            /\ At(W, <<t, p[2] + 1, p[3]>>) = W[t][p[2] + 1][p[3]]
        BY <3>1, <3>3, <1>1, <1>7, Zenon
      <4> QED
        BY <4>1, <3>2
    <3>5. F[p][1] = t
      BY <3>2, <1>8
    <3> QED
      BY <3>1, <3>4, <3>5, <2>2, <1>6
  <2>3. CASE p[1] # t /\ ~(p[1] = u /\ p[2] = n)
    <3>1. F[p] = p
      BY <2>3, <1>5
    <3>2. p[2] \in 1 .. Len(W[p[1]]) /\ V[p[1]][p[2]] = W[p[1]][p[2]]
      <4>1. CASE p[1] = u
        BY <4>1, <2>3, <1>2, <1>6, SMTT(30)
      <4>2. CASE p[1] # u
        BY <4>2, <2>3, <1>3, <1>6
      <4> QED
        BY <4>1, <4>2
    <3>3. /\ p[1] \in 1 .. 5 /\ p[3] \in 1 .. Len(W[p[1]][p[2]])
          /\ W[p[1]][p[2]][p[3]].src = s /\ p = <<p[1], p[2], p[3]>>
      <4>1. /\ p[1] \in 1 .. 5 /\ p[3] \in 1 .. Len(V[p[1]][p[2]])
            /\ V[p[1]][p[2]][p[3]].src = s /\ p = <<p[1], p[2], p[3]>>
        BY ONLY <1>6, p \in Places(V, s), Zenon
      <4>2. p[3] \in 1 .. Len(W[p[1]][p[2]]) /\ W[p[1]][p[2]][p[3]].src = s
        BY ONLY <3>2, <4>1
      <4> QED
        BY ONLY <4>1, <4>2, Zenon
    <3>4. p \in Places(W, s) /\ At(W, p) = W[p[1]][p[2]][p[3]]
      BY <3>2, <3>3, <1>7, SMTT(30)
    <3> QED
      BY <3>1, <3>2, <3>4, <1>6
  <2> QED
    BY <2>1, <2>2, <2>3
<1>10. ASSUME NEW q \in Places(W, s)
       PROVE  \E p \in Places(V, s) : F[p] = q
  <2>1. CASE q[1] = t /\ q[2] = 1
    <3> DEFINE p == <<u, n, q[3]>>
    <3>1. n \in 1 .. Len(V[u]) /\ q[3] \in 1 .. Len(V[u][n]) /\ V[u][n][q[3]].src = s
      BY <2>1, <1>2, <1>6
    <3>2. p \in Places(V, s)
      BY <3>1, <1>1, <1>7
    <3>3. F[p] = <<t, 1, q[3]>>
      BY <3>2, <1>5, <1>8
    <3> QED
      BY <3>2, <3>3, <2>1, <1>6
  <2>2. CASE q[1] = t /\ q[2] # 1
    <3> DEFINE p == <<t, q[2] - 1, q[3]>>
    <3>1. q[2] \in 2 .. Len(W[t]) /\ (q[2] - 1) + 1 = q[2]
      BY <2>2, <1>2, <1>6
    <3>2. /\ q[2] - 1 \in 1 .. Len(V[t]) /\ q[3] \in 1 .. Len(V[t][q[2] - 1])
          /\ V[t][q[2] - 1][q[3]].src = s
      BY <3>1, <2>2, <1>4, <1>6
    <3>3. p \in Places(V, s)
      BY <3>2, <1>1, <1>7
    <3>4. F[p] = <<t, (q[2] - 1) + 1, q[3]>>
      BY <3>3, <1>5, <1>8
    <3> QED
      BY <3>1, <3>3, <3>4, <2>2, <1>6
  <2>3. CASE q[1] # t
    <3>1. q[2] \in 1 .. Len(V[q[1]]) /\ V[q[1]][q[2]] = W[q[1]][q[2]] /\ ~(q[1] = u /\ q[2] = n)
      <4>1. CASE q[1] = u
        BY <4>1, <2>3, <1>2, <1>6
      <4>2. CASE q[1] # u
        BY <4>2, <2>3, <1>3, <1>6
      <4> QED
        BY <4>1, <4>2
    <3>4. /\ q[1] \in 1 .. 5 /\ q[3] \in 1 .. Len(V[q[1]][q[2]])
          /\ V[q[1]][q[2]][q[3]].src = s /\ q = <<q[1], q[2], q[3]>>
      BY <3>1, <1>6
    <3>2. q \in Places(V, s)
      <4>1. <<q[1], q[2], q[3]>> \in Places(V, s)
        BY <3>1, <3>4, InPlaces
      <4> QED
        BY <4>1, <3>4
    <3>3. F[q] = q
      BY <3>1, <3>2, <2>3, <1>5
    <3> QED
      BY <3>2, <3>3
  <2> QED
    BY <2>1, <2>2, <2>3
<1>11. ASSUME NEW p \in Places(V, s), NEW q \in Places(V, s), Before(p, q)
       PROVE  Before(F[p], F[q])
  <2>1. \A x \in {p, q} :
          /\ x[1] \in Int /\ x[2] \in Int /\ x[3] \in Int /\ x[2] >= 1
          /\ x[1] = u => x[2] <= n
    <3>1. \A m : \A i \in 1 .. m : i \in Int /\ i >= 1
      OBVIOUS
    <3>2. ASSUME NEW x \in Places(V, s), x[1] = u PROVE x[2] <= n
      BY <3>2, <1>2, <1>6
    <3> QED
      BY <3>1, <3>2, <1>6
  <2>2. \A x \in {p, q} : ~(u < x[1] /\ x[1] < t)
    <3>1. ASSUME NEW x \in {p, q}, u < x[1], x[1] < t PROVE FALSE
      <4>1. x \in Places(V, s) /\ x[1] # t /\ x[1] # u
        BY <3>1, <1>1, <1>6
      <4>2. x[1] \in 1 .. 5 /\ x[2] \in 1 .. Len(V[x[1]]) /\ x[3] \in 1 .. Len(V[x[1]][x[2]])
        BY <4>1, <1>6
      <4>3. V[x[1]] = W[x[1]]
        BY <4>1, <4>2, <1>3
      <4>4. V[x[1]][x[2]] = <<>>
        BY <3>1, <4>2, <4>3, <1>13
      <4> QED
        BY <4>2, <4>4
    <3> QED
      BY <3>1
  <2>3. \A x \in {p, q} :
          /\ x[1] = u /\ x[2] = n => F[x][1] = t /\ F[x][2] = 1 /\ F[x][3] = x[3]
          /\ x[1] = t => F[x][1] = t /\ F[x][2] = x[2] + 1 /\ F[x][3] = x[3]
          /\ x[1] # t /\ ~(x[1] = u /\ x[2] = n) =>
               F[x][1] = x[1] /\ F[x][2] = x[2] /\ F[x][3] = x[3]
    BY <1>5, <1>8
  <2>4. n \in Int
    BY <1>2
  <2> QED
    BY <2>1, <2>2, <2>3, <2>4, <1>1, <1>11 DEF Before
<1>12. Carries(F, V, Places(V, s), W, Places(W, s))
  BY <1>9, <1>10, <1>11 DEF Carries
<1> QED
  BY <1>12, CarriedOver DEF Holds

(* Buffers without calls do not matter.                                    *)
LEMMA SamePlaces ==
  ASSUME NEW W, IsWay(W), NEW V, IsWay(V), NEW s,
         \A t \in 1 .. 5 : \A i \in 1 .. Len(V[t]) :
            V[t][i] # <<>> => i \in 1 .. Len(W[t]) /\ W[t][i] = V[t][i],
         \A t \in 1 .. 5 : \A i \in 1 .. Len(W[t]) :
            W[t][i] # <<>> => i \in 1 .. Len(V[t]) /\ V[t][i] = W[t][i]
  PROVE  /\ Places(V, s) = Places(W, s)
         /\ \A p \in Places(W, s) : At(V, p) = At(W, p)
<1>1. ASSUME NEW U, IsWay(U), NEW Z, IsWay(Z),
             \A t \in 1 .. 5 : \A i \in 1 .. Len(U[t]) :
               U[t][i] # <<>> => i \in 1 .. Len(Z[t]) /\ Z[t][i] = U[t][i],
             NEW p \in Places(U, s)
      PROVE  p \in Places(Z, s) /\ At(U, p) = At(Z, p)
  <2>1. /\ p[1] \in 1 .. 5 /\ p[2] \in 1 .. Len(U[p[1]]) /\ p[3] \in 1 .. Len(U[p[1]][p[2]])
        /\ U[p[1]][p[2]][p[3]].src = s /\ p = <<p[1], p[2], p[3]>>
    BY <1>1, PlaceFacts DEF At
  <2>2. p[2] \in 1 .. Len(Z[p[1]]) /\ Z[p[1]][p[2]] = U[p[1]][p[2]]
    BY <1>1, <2>1, SMTT(30)
  <2>3. p[3] \in 1 .. Len(Z[p[1]][p[2]]) /\ Z[p[1]][p[2]][p[3]].src = s
    BY <2>1, <2>2
  <2>4. <<p[1], p[2], p[3]>> \in Places(Z, s)
    BY <1>1, <2>1, <2>2, <2>3, InPlaces, Zenon
  <2> QED
    BY <2>1, <2>2, <2>4 DEF At
<1>2. \A p \in Places(V, s) : p \in Places(W, s)
  BY <1>1
<1>3. \A p \in Places(W, s) : p \in Places(V, s) /\ At(V, p) = At(W, p)
  BY <1>1
<1> QED
  BY <1>2, <1>3

LEMMA Padded ==
  ASSUME NEW W, IsWay(W), NEW V, IsWay(V), NEW s, NEW S, NEW B, NEW X,
         \A t \in 1 .. 5 : \/ V[t] = W[t]
                           \/ V[t] = Append(W[t], <<>>) \/ W[t] = Append(V[t], <<>>),
         Holds(W, s, S, B, X)
  PROVE  Holds(V, s, S, B, X)
<1>1. ASSUME NEW f \in Seq(Seq(Call)), NEW g \in Seq(Seq(Call)),
             f = g \/ f = Append(g, <<>>) \/ g = Append(f, <<>>),
             NEW i \in 1 .. Len(f), f[i] # <<>>
      PROVE  i \in 1 .. Len(g) /\ g[i] = f[i]
  <2>1. <<>> \in Seq(Call)
    OBVIOUS
  <2>2. Len(f) \in Nat /\ Len(g) \in Nat
    BY SMTT(30)
  <2>3. CASE f = Append(g, <<>>)
    BY <1>1, <2>1, <2>2, <2>3, AppendProperties
  <2>4. CASE g = Append(f, <<>>)
    BY <1>1, <2>1, <2>2, <2>4, AppendProperties
  <2> QED
    BY <1>1, <2>3, <2>4
<1>2. \A t \in 1 .. 5 : W[t] \in Seq(Seq(Call)) /\ V[t] \in Seq(Seq(Call))
  BY DEF IsWay
<1>3. /\ \A t \in 1 .. 5 : \A i \in 1 .. Len(V[t]) :
            V[t][i] # <<>> => i \in 1 .. Len(W[t]) /\ W[t][i] = V[t][i]
      /\ \A t \in 1 .. 5 : \A i \in 1 .. Len(W[t]) :
            W[t][i] # <<>> => i \in 1 .. Len(V[t]) /\ V[t][i] = W[t][i]
  BY <1>1, <1>2
<1>4. /\ Places(V, s) = Places(W, s)
      /\ \A p \in Places(W, s) : At(V, p) = At(W, p)
  BY <1>3, SamePlaces
<1> QED
  BY <1>4 DEF Holds, HoldsAt
-----------------------------------------------------------------------------
(* One more call, made after all the others, at the end or in B.           *)
LEMMA OneMore ==
  ASSUME NEW W, IsWay(W), NEW V, IsWay(V), NEW s, NEW S, NEW B, NEW X, NEW c, NEW z,
         Places(V, s) = Places(W, s) \cup {z}, At(V, z) = c,
         \A p \in Places(W, s) : At(V, p) = At(W, p),
         c \in B \/ \A p \in Places(W, s) : Before(p, z),
         c.id \in Int, \A e \in S \cup X : e.id \in Int /\ e.id < c.id,
         Holds(W, s, S, B, X)
  PROVE  Holds(V, s, S \cup {c}, B, X)
<1> DEFINE P == Places(W, s)
<1>1. /\ \A p, q \in P : At(W, p) = At(W, q) => p = q
      /\ {At(W, p) : p \in P} = S
      /\ \A p, q \in P :
           At(W, p) \notin B /\ At(W, q) \notin B /\ Before(p, q) => At(W, p).id < At(W, q).id
      /\ \A e \in X \ B : \A p \in P : At(W, p) \notin B /\ At(W, p).id < e.id => p[1] = 1
  BY DEF Holds, HoldsAt
<1>2. \A p \in P : At(V, p) = At(W, p) /\ At(V, p) \in S /\ At(V, p).id < c.id
  BY <1>1
<1>3. c \notin S
  OBVIOUS
<1>4. \A p, q \in P \cup {z} : ~(Before(p, q) /\ Before(q, p))
  BY BeforeTotal
<1> HIDE DEF P
<1>5. \A p, q \in P \cup {z} : At(V, p) = At(V, q) => p = q
  BY <1>1, <1>2, <1>3
<1>6. {At(V, p) : p \in P \cup {z}} = S \cup {c}
  BY <1>1, <1>2
<1>7. \A p, q \in P \cup {z} :
        At(V, p) \notin B /\ At(V, q) \notin B /\ Before(p, q) => At(V, p).id < At(V, q).id
  <2> SUFFICES ASSUME NEW p \in P \cup {z}, NEW q \in P \cup {z},
                      At(V, p) \notin B, At(V, q) \notin B, Before(p, q)
               PROVE  At(V, p).id < At(V, q).id
    OBVIOUS
  <2>1. CASE p \in P /\ q \in P
    BY <2>1, <1>1, <1>2
  <2>2. CASE q = z /\ p \in P
    BY <2>2, <1>2
  <2>3. CASE p = z
    <3>1. \A x \in P : Before(x, z)
      BY <2>3 DEF P
    <3>2. ~Before(z, z)
      BY <1>4
    <3> QED
      BY <3>1, <3>2, <2>3, <1>4
  <2> QED
    BY <2>1, <2>2, <2>3
<1>8. \A e \in X \ B : \A p \in P \cup {z} :
        At(V, p) \notin B /\ At(V, p).id < e.id => p[1] = 1
  <2> SUFFICES ASSUME NEW e \in X \ B, NEW p \in P \cup {z}, At(V, p) \notin B,
                      At(V, p).id < e.id
               PROVE  p[1] = 1
    OBVIOUS
  <2>1. p \in P
    OBVIOUS
  <2> QED
    BY <2>1, <1>1, <1>2
<1> QED
  BY <1>5, <1>6, <1>7, <1>8 DEF Holds, HoldsAt, P

\* V is W with the call c added at the end of the only buffer of stretch t.
Extended(W, V, t, c) ==
  /\ Len(W[t]) = 1 /\ V[t] = <<Append(W[t][1], c)>>
  /\ \A k \in 1 .. 5 : k # t => V[k] = W[k]

(* A small call is added behind all the others, a large one anywhere.      *)
LEMMA Added ==
  ASSUME NEW W, IsWay(W), NEW V, IsWay(V), NEW s, NEW S, NEW B, NEW X,
         NEW c \in Call, c.src = s, NEW t \in 1 .. 5, Extended(W, V, t, c), t = 5 \/ c \in B,
         \A e \in S \cup X : e.id \in Int /\ e.id < c.id,
         Holds(W, s, S, B, X)
  PROVE  Holds(V, s, S \cup {c}, B, X)
<1> DEFINE n == Len(W[t][1]) + 1
           z == <<t, 1, n>>
<1>1. /\ Len(W[t]) = 1 /\ Len(V[t]) = 1 /\ n \in Nat \ {0} /\ Len(W[t][1]) = n - 1
      /\ Len(V[t][1]) = n /\ V[t][1][n] = c
      /\ \A j \in 1 .. n - 1 : V[t][1][j] = W[t][1][j]
  <2>1. Len(W[t]) = 1 /\ V[t] = <<Append(W[t][1], c)>>
    BY DEF Extended
  <2>2. W[t][1] \in Seq(Call) /\ Len(W[t][1]) \in Nat
    <3>1. 1 \in 1 .. Len(W[t])
      BY <2>1
    <3> QED
      BY <3>1, PlaceFacts
  <2>3. V[t][1] = Append(W[t][1], c) /\ Len(V[t]) = 1
    BY <2>1
  <2> QED
    BY <2>1, <2>2, <2>3, AppendProperties
<1>2. \A k \in 1 .. 5 : k # t => V[k] = W[k]
  BY DEF Extended
<1>3. /\ \A x \in Places(V, s) :
           /\ x[1] \in 1 .. 5 /\ x[2] \in 1 .. Len(V[x[1]]) /\ x[3] \in 1 .. Len(V[x[1]][x[2]])
           /\ V[x[1]][x[2]][x[3]].src = s /\ x = <<x[1], x[2], x[3]>>
      /\ \A x \in Places(W, s) :
           /\ x[1] \in 1 .. 5 /\ x[2] \in 1 .. Len(W[x[1]]) /\ x[3] \in 1 .. Len(W[x[1]][x[2]])
           /\ W[x[1]][x[2]][x[3]].src = s /\ x = <<x[1], x[2], x[3]>>
  BY PlaceFacts DEF At
<1>4. z \in Places(V, s) /\ At(V, z) = c
  <2>1. 1 \in 1 .. Len(V[t]) /\ n \in 1 .. Len(V[t][1]) /\ V[t][1][n].src = s
    BY <1>1
  <2>2. z \in Places(V, s)
    BY <2>1, InPlaces, Zenon
  <2> QED
    BY <2>2, <1>1 DEF At
<1>5. ASSUME NEW p \in Places(W, s)
      PROVE  p \in Places(V, s) /\ At(V, p) = At(W, p) /\ (t = 5 => Before(p, z))
  <2>1. /\ p[1] \in 1 .. 5 /\ p[2] \in 1 .. Len(V[p[1]]) /\ p[3] \in 1 .. Len(V[p[1]][p[2]])
        /\ V[p[1]][p[2]][p[3]] = W[p[1]][p[2]][p[3]]
        /\ p[1] = t => p[2] = 1 /\ p[3] < n
    <3>1. CASE p[1] = t
      <4>1. p[2] = 1 /\ p[3] \in 1 .. n - 1
        BY <3>1, <1>1, <1>3
      <4> QED
        BY <3>1, <4>1, <1>1, <1>3
    <3>2. CASE p[1] # t
      BY <3>2, <1>2, <1>3
    <3> QED
      BY <3>1, <3>2
  <2>2. p = <<p[1], p[2], p[3]>> /\ V[p[1]][p[2]][p[3]].src = s
    <3>1. p = <<p[1], p[2], p[3]>> /\ W[p[1]][p[2]][p[3]].src = s
      BY ONLY <1>3, p \in Places(W, s), Zenon
    <3> QED
      BY ONLY <2>1, <3>1
  <2>3. <<p[1], p[2], p[3]>> \in Places(V, s)
    BY <2>1, <2>2, InPlaces, Zenon
  <2>4. t = 5 => Before(p, z)
    <3>1. z[1] = t /\ z[2] = 1 /\ z[3] = n
      OBVIOUS
    <3> QED
      BY <2>1, <3>1 DEF Before
  <2> QED
    BY <2>1, <2>2, <2>3, <2>4 DEF At
<1>6. ASSUME NEW p \in Places(V, s), p # z PROVE p \in Places(W, s)
  <2>1. /\ p[1] \in 1 .. 5 /\ p[2] \in 1 .. Len(W[p[1]]) /\ p[3] \in 1 .. Len(W[p[1]][p[2]])
        /\ W[p[1]][p[2]][p[3]].src = s
    <3>1. CASE p[1] = t
      <4>1. p[2] = 1 /\ p[3] \in 1 .. n
        BY <3>1, <1>1, <1>3
      <4>2. p[3] # n
        BY <3>1, <4>1, <1>3, <1>6
      <4> QED
        BY <3>1, <4>1, <4>2, <1>1, <1>3
    <3>2. CASE p[1] # t
      BY <3>2, <1>2, <1>3
    <3> QED
      BY <3>1, <3>2
  <2>2. <<p[1], p[2], p[3]>> \in Places(W, s)
    BY <2>1, InPlaces, Zenon
  <2> QED
    BY <2>2, <1>3
<1>7. Places(V, s) = Places(W, s) \cup {z}
  BY <1>4, <1>5, <1>6
<1>8. c.id \in Int
  BY DEF Call
<1> HIDE DEF z
<1> QED
  BY <1>4, <1>5, <1>7, <1>8, OneMore

\* V is W without the first call of the last buffer of stretch 1.
Shortened(W, V, n) ==
  /\ n = Len(W[1]) /\ n >= 1 /\ W[1][n] # <<>>
  /\ Len(V[1]) = n /\ V[1][n] = Tail(W[1][n])
  /\ \A i \in 1 .. n - 1 : V[1][i] = W[1][i]
  /\ \A k \in 2 .. 5 : V[k] = W[k]

(* That call is run: it overtakes none but calls of stretch 1.             *)
LEMMA Taken ==
  ASSUME NEW W, IsWay(W), NEW V, IsWay(V), NEW s, NEW S, NEW B, NEW X, NEW n \in Nat,
         Shortened(W, V, n), NEW m, m = W[1][n][1],
         Holds(W, s, S, B, X)
  PROVE  Holds(V, s, S \ {m}, B, IF m.src = s THEN X \cup {m} ELSE X)
<1> DEFINE Y == IF m.src = s THEN X \cup {m} ELSE X
           z == <<1, n, 1>>
           Q == Places(W, s) \ {z}
           F == [p \in Places(V, s) |->
                   IF p[1] = 1 /\ p[2] = n THEN <<1, n, p[3] + 1>> ELSE p]
<1>1. /\ Len(W[1]) = n /\ Len(V[1]) = n /\ n \in Nat \ {0} /\ n \in 1 .. n
      /\ Len(W[1][n]) \in Nat \ {0} /\ Len(V[1][n]) = Len(W[1][n]) - 1
      /\ \A j \in 1 .. Len(V[1][n]) : V[1][n][j] = W[1][n][j + 1]
      /\ \A i \in 1 .. n - 1 : V[1][i] = W[1][i]
      /\ m \in Call
  <2>1. /\ Len(W[1]) = n /\ Len(V[1]) = n /\ n >= 1 /\ W[1][n] # <<>>
        /\ V[1][n] = Tail(W[1][n]) /\ \A i \in 1 .. n - 1 : V[1][i] = W[1][i]
    BY DEF Shortened
  <2>2. W[1][n] \in Seq(Call)
    <3>1. n \in 1 .. Len(W[1]) /\ 1 \in 1 .. 5
      BY <2>1
    <3> QED
      BY <3>1, PlaceFacts
  <2>3. /\ Len(W[1][n]) \in Nat \ {0} /\ Len(Tail(W[1][n])) = Len(W[1][n]) - 1
        /\ \A j \in 1 .. Len(Tail(W[1][n])) : Tail(W[1][n])[j] = W[1][n][j + 1]
    BY <2>1, <2>2, EmptySeq, HeadTailProperties
  <2>4. m \in Call
    BY <2>2, <2>3, ElementOfSeq
  <2> QED
    BY <2>1, <2>3, <2>4
<1>2. \A k \in 1 .. 5 : k # 1 => V[k] = W[k]
  BY DEF Shortened
<1>3. /\ \A x \in Places(V, s) :
           /\ x[1] \in 1 .. 5 /\ x[2] \in 1 .. Len(V[x[1]]) /\ x[3] \in 1 .. Len(V[x[1]][x[2]])
           /\ V[x[1]][x[2]][x[3]].src = s /\ x = <<x[1], x[2], x[3]>>
           /\ At(V, x) = V[x[1]][x[2]][x[3]]
      /\ \A x \in Places(W, s) :
           /\ x[1] \in 1 .. 5 /\ x[2] \in 1 .. Len(W[x[1]]) /\ x[3] \in 1 .. Len(W[x[1]][x[2]])
           /\ W[x[1]][x[2]][x[3]].src = s /\ x = <<x[1], x[2], x[3]>>
           /\ At(W, x) = W[x[1]][x[2]][x[3]]
  BY PlaceFacts DEF At
<1>4. \A x \in Places(V, s) :
        F[x] = IF x[1] = 1 /\ x[2] = n THEN <<1, n, x[3] + 1>> ELSE x
  OBVIOUS
<1>5. /\ z[1] = 1 /\ z[2] = n /\ z[3] = 1 /\ At(W, z) = m
      /\ \A j : <<1, n, j>>[1] = 1 /\ <<1, n, j>>[2] = n /\ <<1, n, j>>[3] = j
      /\ \A j : At(W, <<1, n, j>>) = W[1][n][j]
  BY DEF At
<1> HIDE DEF F, z
<1>6. ASSUME NEW p \in Places(V, s)
      PROVE  /\ F[p] \in Q /\ At(W, F[p]) = At(V, p)
             /\ F[p][1] = 1 => p[1] = 1
  <2>1. CASE p[1] = 1 /\ p[2] = n
    <3>1. F[p] = <<1, n, p[3] + 1>> /\ p[3] + 1 \in 2 .. Len(W[1][n])
          /\ V[1][n][p[3]] = W[1][n][p[3] + 1] /\ V[1][n][p[3]].src = s
      <4>1. p[3] \in 1 .. Len(V[1][n]) /\ V[1][n][p[3]].src = s
        BY <2>1, <1>3
      <4>2. F[p] = <<1, n, p[3] + 1>>
        BY <2>1, <1>4
      <4> QED
        BY <4>1, <4>2, <1>1, SMTT(30)
    <3>2. F[p] \in Places(W, s)
      <4>1. /\ n \in 1 .. Len(W[1]) /\ 1 \in 1 .. 5 /\ p[3] + 1 \in 1 .. Len(W[1][n])
            /\ W[1][n][p[3] + 1].src = s
        BY <3>1, <1>1
      <4>2. <<1, n, p[3] + 1>> \in Places(W, s)
        BY <4>1, InPlaces, Zenon
      <4> QED
        BY <3>1, <4>2
    <3>3. F[p][3] # z[3] /\ At(W, F[p]) = W[1][n][p[3] + 1]
      BY <3>1, <1>5
    <3> QED
      BY <2>1, <3>1, <3>2, <3>3, <1>3
  <2>2. CASE ~(p[1] = 1 /\ p[2] = n)
    <3>1. F[p] = p
      BY <2>2, <1>4
    <3>2. p[2] \in 1 .. Len(W[p[1]]) /\ V[p[1]][p[2]] = W[p[1]][p[2]]
      <4>1. CASE p[1] = 1
        BY <4>1, <2>2, <1>1, <1>3
      <4>2. CASE p[1] # 1
        BY <4>2, <1>2, <1>3
      <4> QED
        BY <4>1, <4>2
    <3>3. /\ p[1] \in 1 .. 5 /\ p[3] \in 1 .. Len(W[p[1]][p[2]])
          /\ W[p[1]][p[2]][p[3]].src = s
      BY <3>2, <1>3
    <3>4. <<p[1], p[2], p[3]>> \in Places(W, s)
      BY <3>2, <3>3, InPlaces, Zenon
    <3>5. p \in Places(W, s) /\ p # z
      BY <3>4, <2>2, <1>3, <1>5
    <3> QED
      BY <3>1, <3>2, <3>5, <1>3
  <2> QED
    BY <2>1, <2>2
<1>7. ASSUME NEW q \in Q
      PROVE  \E p \in Places(V, s) : F[p] = q
  <2>1. CASE q[1] = 1 /\ q[2] = n
    <3> DEFINE p == <<1, n, q[3] - 1>>
    <3>1. q[3] \in 2 .. Len(W[1][n]) /\ (q[3] - 1) + 1 = q[3]
      <4>1. q[3] # 1 /\ q[3] \in 1 .. Len(W[1][n])
        BY <2>1, <1>3, <1>5 DEF z
      <4> QED
        BY <4>1, <1>1
    <3>2. /\ q[3] - 1 \in 1 .. Len(V[1][n]) /\ V[1][n][q[3] - 1].src = s
          /\ n \in 1 .. Len(V[1]) /\ 1 \in 1 .. 5
      <4>1. W[1][n][q[3]].src = s
        BY <2>1, <1>3
      <4>2. q[3] - 1 \in 1 .. Len(V[1][n])
        BY <3>1, <1>1
      <4>3. V[1][n][q[3] - 1] = W[1][n][(q[3] - 1) + 1]
        BY <4>2, <1>1
      <4> QED
        BY <3>1, <4>1, <4>2, <4>3, <1>1, SMTT(30)
    <3>3. p \in Places(V, s)
      BY <3>2, InPlaces, Zenon
    <3>4. F[p] = <<1, n, (q[3] - 1) + 1>>
      BY <3>3, <1>4, <1>5
    <3> QED
      BY <3>1, <3>3, <3>4, <2>1, <1>3
  <2>2. CASE ~(q[1] = 1 /\ q[2] = n)
    <3>1. q[2] \in 1 .. Len(V[q[1]]) /\ V[q[1]][q[2]] = W[q[1]][q[2]]
      <4>1. CASE q[1] = 1
        BY <4>1, <2>2, <1>1, <1>3
      <4>2. CASE q[1] # 1
        BY <4>2, <1>2, <1>3
      <4> QED
        BY <4>1, <4>2
    <3>2. /\ q[1] \in 1 .. 5 /\ q[3] \in 1 .. Len(V[q[1]][q[2]])
          /\ V[q[1]][q[2]][q[3]].src = s /\ q = <<q[1], q[2], q[3]>>
      BY <3>1, <1>3
    <3>3. <<q[1], q[2], q[3]>> \in Places(V, s)
      BY <3>1, <3>2, InPlaces, Zenon
    <3>4. q \in Places(V, s)
      BY <3>2, <3>3
    <3>5. F[q] = q
      BY <3>4, <2>2, <1>4
    <3> QED
      BY <3>4, <3>5
  <2> QED
    BY <2>1, <2>2
<1>8. ASSUME NEW p \in Places(V, s), NEW q \in Places(V, s), Before(p, q)
      PROVE  Before(F[p], F[q])
  <2>1. \A x \in {p, q} : x[1] \in Int /\ x[2] \in Int /\ x[3] \in Int
    <3>1. \A k : \A i \in 1 .. k : i \in Int
      OBVIOUS
    <3> QED
      BY <3>1, <1>3
  <2>2. \A x \in {p, q} :
          /\ x[1] = 1 /\ x[2] = n => F[x][1] = 1 /\ F[x][2] = n /\ F[x][3] = x[3] + 1
          /\ ~(x[1] = 1 /\ x[2] = n) =>
               F[x][1] = x[1] /\ F[x][2] = x[2] /\ F[x][3] = x[3]
    <3>1. ASSUME NEW x \in Places(V, s), x[1] = 1, x[2] = n
          PROVE  F[x][1] = 1 /\ F[x][2] = n /\ F[x][3] = x[3] + 1
      <4>1. F[x] = <<1, n, x[3] + 1>>
        BY <3>1, <1>4
      <4> QED
        BY <4>1, <1>5
    <3>2. ASSUME NEW x \in Places(V, s), ~(x[1] = 1 /\ x[2] = n) PROVE F[x] = x
      BY <3>2, <1>4
    <3> QED
      BY <3>1, <3>2
  <2> QED
    BY <2>1, <2>2, <1>8 DEF Before
<1>9. Carries(F, V, Places(V, s), W, Q)
  BY <1>6, <1>7, <1>8 DEF Carries
<1>10. HoldsAt(W, Q, S \ {m}, B, Y)
  <2>1. /\ \A p, q \in Places(W, s) : At(W, p) = At(W, q) => p = q
        /\ {At(W, p) : p \in Places(W, s)} = S
        /\ \A p, q \in Places(W, s) :
             At(W, p) \notin B /\ At(W, q) \notin B /\ Before(p, q) => At(W, p).id < At(W, q).id
        /\ \A c \in X \ B : \A p \in Places(W, s) :
             At(W, p) \notin B /\ At(W, p).id < c.id => p[1] = 1
    BY DEF Holds, HoldsAt
  <2>2. z \in Places(W, s) <=> m.src = s
    <3>1. CASE m.src = s
      <4>1. 1 \in 1 .. 5 /\ n \in 1 .. Len(W[1]) /\ 1 \in 1 .. Len(W[1][n]) /\ W[1][n][1].src = s
        BY <3>1, <1>1
      <4> QED
        BY <3>1, <4>1, InPlaces, Zenon DEF z
    <3>2. CASE m.src # s
      BY <3>2, <1>5, PlaceFacts, SMTT(30)
    <3> QED
      BY <3>1, <3>2
  <2>3. {At(W, p) : p \in Q} = S \ {m}
    <3>1. ASSUME NEW c \in S, c # m PROVE \E p \in Q : At(W, p) = c
      <4>1. PICK p \in Places(W, s) : At(W, p) = c
        BY <2>1
      <4> QED
        BY <3>1, <4>1, <1>5
    <3>2. ASSUME NEW p \in Q PROVE At(W, p) \in S \ {m}
      <4>1. ASSUME At(W, p) = m PROVE FALSE
        <5>1. m.src = s
          BY <4>1, PlaceFacts, SMTT(30)
        <5>2. p = z
          BY <4>1, <5>1, <2>1, <2>2, <1>5
        <5> QED
          BY <5>2
      <4> QED
        BY <4>1, <2>1
    <3> QED
      BY <3>1, <3>2
  <2>4. \A c \in Y \ B : \A p \in Q : At(W, p) \notin B /\ At(W, p).id < c.id => p[1] = 1
    <3> SUFFICES ASSUME NEW c \in Y \ B, NEW p \in Q, At(W, p) \notin B, At(W, p).id < c.id
                 PROVE  p[1] = 1
      OBVIOUS
    <3>1. CASE c \in X
      BY <3>1, <2>1
    <3>2. CASE c \notin X
      <4>1. c = m /\ m.src = s
        BY <3>2
      <4>2. z \in Places(W, s) /\ At(W, z) = m
        BY <4>1, <2>2, <1>5
      <4>3. ~Before(z, p)
        <5>1. At(W, p) \in Call /\ m \in Call
          BY PlaceFacts, <1>1
        <5>2. At(W, p).id \in Int /\ m.id \in Int
          BY <5>1 DEF Call
        <5> QED
          BY <4>1, <4>2, <5>2, <2>1
      <4>4. p[1] \in 1 .. 5
        BY <1>3
      <4> QED
        BY <4>3, <4>4, <1>5 DEF Before
    <3> QED
      BY <3>1, <3>2
  <2> QED
    BY <2>1, <2>3, <2>4 DEF HoldsAt
<1>11. HoldsAt(V, Places(V, s), S \ {m}, B, Y)
  <2> HIDE DEF Y
  <2> QED
    BY <1>9, <1>10, CarriedOver
<1> QED
  BY <1>11 DEF Holds
-----------------------------------------------------------------------------
(* The order of messages, as they are sent ...                             *)
LEMMA SentInOrder ==
  ASSUME NEW C \in Seq(Message), NEW m \in Message, NEW coming, NEW coming2, NEW awaited,
         InOrder(C, coming, awaited), Len(m.calls) <= Cap,
         \/ m.tag = "data" /\ m.calls # <<>> /\ ~coming /\ ~coming2
         \/ m.tag = "announce" /\ m.calls = <<>> /\ ~coming /\ coming2
         \/ m.tag = "body" /\ m.calls # <<>> /\ coming /\ ~coming2
  PROVE  InOrder(Append(C, m), coming2, awaited)
<1> DEFINE n == Len(C) + 1
           D == Append(C, m)
<1>1. /\ n \in Nat \ {0} /\ Len(C) = n - 1 /\ DOMAIN C = 1 .. n - 1
      /\ DOMAIN D = 1 .. n /\ Len(D) = n /\ D[n] = m
      /\ \A i \in 1 .. n - 1 : D[i] = C[i]
      /\ D # <<>> /\ (C = <<>> <=> n = 1)
  <2>1. Len(C) \in Nat /\ DOMAIN C = 1 .. Len(C) /\ D \in Seq(Message)
    BY AppendProperties
  <2>2. DOMAIN D = 1 .. Len(D)
    BY <2>1
  <2> QED
    BY <2>1, <2>2, AppendProperties, EmptySeq
<1> HIDE DEF n, D
<1>2. ASSUME NEW i \in 1 .. n - 1
      PROVE  /\ C[i].tag # "kill" /\ Len(C[i].calls) <= Cap
             /\ C[i].tag = "announce" <=> C[i].calls = <<>>
             /\ C[i].tag = "announce" => IF i = n - 1 THEN coming ELSE C[i + 1].tag = "body"
             /\ C[i].tag = "body" => IF i = 1 THEN awaited ELSE C[i - 1].tag = "announce"
  BY <1>1, SMTT(30) DEF InOrder
<1>3. /\ coming => IF n = 1 THEN awaited ELSE C[n - 1].tag = "announce"
      /\ awaited => IF n = 1 THEN coming ELSE C[1].tag = "body"
  BY <1>1 DEF InOrder
<1>4. ASSUME NEW i \in 1 .. n
      PROVE  /\ D[i].tag # "kill" /\ Len(D[i].calls) <= Cap
             /\ D[i].tag = "announce" <=> D[i].calls = <<>>
             /\ D[i].tag = "announce" => IF i = n THEN coming2 ELSE D[i + 1].tag = "body"
             /\ D[i].tag = "body" => IF i = 1 THEN awaited ELSE D[i - 1].tag = "announce"
  <2>1. CASE i = n
    <3>1. n # 1 => D[n - 1] = C[n - 1]
      BY <1>1
    <3> QED
      BY <2>1, <3>1, <1>1, <1>3
  <2>2. CASE i = n - 1
    <3>1. i \in 1 .. n - 1 /\ i + 1 = n /\ D[i] = C[i] /\ (i # 1 => D[i - 1] = C[i - 1])
      BY <2>2, <1>1
    <3> QED
      BY <2>2, <3>1, <1>1, <1>2
  <2>3. CASE i < n - 1
    <3>1. /\ i \in 1 .. n - 1 /\ i # n - 1 /\ D[i] = C[i] /\ D[i + 1] = C[i + 1]
          /\ i # 1 => D[i - 1] = C[i - 1]
      BY <2>3, <1>1
    <3> QED
      BY <2>3, <3>1, <1>2
  <2> QED
    BY <2>1, <2>2, <2>3, <1>1
<1>5. coming2 => D[n].tag = "announce"
  BY <1>1
<1>6. awaited => D[1].tag = "body"
  <2>1. CASE n = 1
    BY <2>1, <1>1, <1>3
  <2>2. CASE n # 1
    BY <2>2, <1>1, <1>3
  <2> QED
    BY <2>1, <2>2
<1>7. InOrder(D, coming2, awaited)
  BY <1>1, <1>4, <1>5, <1>6 DEF InOrder
<1> QED
  BY <1>7 DEF D

(* ... and received.                                                       *)
LEMMA ReceivedInOrder ==
  ASSUME NEW C \in Seq(Message), C # <<>>, NEW coming, NEW awaited, NEW awaited2,
         InOrder(C, coming, awaited), awaited \/ C[1].tag # "body",
         awaited2 <=> C[1].tag = "announce"
  PROVE  InOrder(Tail(C), coming, awaited2)
<1> DEFINE n == Len(C)
           D == Tail(C)
<1>1. /\ n \in Nat \ {0} /\ DOMAIN C = 1 .. n
      /\ DOMAIN D = 1 .. n - 1 /\ Len(D) = n - 1
      /\ \A i \in 1 .. n - 1 : D[i] = C[i + 1]
      /\ D = <<>> <=> n = 1
  <2>1. /\ Len(C) \in Nat \ {0} /\ DOMAIN C = 1 .. Len(C) /\ D \in Seq(Message)
        /\ Len(D) = n - 1 /\ \A i \in 1 .. Len(D) : D[i] = C[i + 1]
    BY EmptySeq, HeadTailProperties
  <2>2. DOMAIN D = 1 .. Len(D)
    BY <2>1
  <2>3. D = <<>> <=> Len(D) = 0
    <3>1. D # <<>> => Len(D) \in Nat \ {0}
      BY <2>1, EmptySeq
    <3> QED
      BY <3>1, EmptySeq
  <2> QED
    BY <2>1, <2>2, <2>3
<1> HIDE DEF n, D
<1>2. ASSUME NEW i \in 1 .. n
      PROVE  /\ C[i].tag # "kill" /\ Len(C[i].calls) <= Cap
             /\ C[i].tag = "announce" <=> C[i].calls = <<>>
             /\ C[i].tag = "announce" => IF i = n THEN coming ELSE C[i + 1].tag = "body"
             /\ C[i].tag = "body" => IF i = 1 THEN awaited ELSE C[i - 1].tag = "announce"
  BY <1>1 DEF InOrder, n
<1>3. coming => C[n].tag = "announce"
  BY <1>1 DEF InOrder, n
<1>4. ASSUME NEW i \in 1 .. n - 1
      PROVE  /\ D[i].tag # "kill" /\ Len(D[i].calls) <= Cap
             /\ D[i].tag = "announce" <=> D[i].calls = <<>>
             /\ D[i].tag = "announce" => IF i = n - 1 THEN coming ELSE D[i + 1].tag = "body"
             /\ D[i].tag = "body" => IF i = 1 THEN awaited2 ELSE D[i - 1].tag = "announce"
  <2>1. /\ i + 1 \in 1 .. n /\ D[i] = C[i + 1] /\ i + 1 # 1
        /\ i # n - 1 => D[i + 1] = C[(i + 1) + 1] /\ i + 1 # n
        /\ i # 1 => D[i - 1] = C[(i + 1) - 1]
        /\ i = n - 1 => i + 1 = n
        /\ i = 1 => (i + 1) - 1 = 1
    BY <1>1
  <2>2. /\ C[i + 1].tag # "kill" /\ Len(C[i + 1].calls) <= Cap
        /\ C[i + 1].tag = "announce" <=> C[i + 1].calls = <<>>
        /\ C[i + 1].tag = "announce" =>
             IF i + 1 = n THEN coming ELSE C[(i + 1) + 1].tag = "body"
        /\ C[i + 1].tag = "body" => C[(i + 1) - 1].tag = "announce"
    BY <2>1, <1>2
  <2> QED
    BY <2>1, <2>2
<1>5. coming => IF n = 1 THEN awaited2 ELSE D[n - 1].tag = "announce"
  BY <1>1, <1>3
<1>6. awaited2 => IF n = 1 THEN coming ELSE D[1].tag = "body"
  <2>1. C[1].tag = "announce" => IF 1 = n THEN coming ELSE C[1 + 1].tag = "body"
    <3>1. 1 \in 1 .. n
      BY <1>1
    <3> QED
      BY <3>1, <1>2
  <2> QED
    BY <2>1, <1>1
<1>7. InOrder(D, coming, awaited2)
  BY <1>1, <1>4, <1>5, <1>6 DEF InOrder
<1> QED
  BY <1>7 DEF D

-----------------------------------------------------------------------------

Pend(s, d) == {c \in issued \ executed : c.src = s /\ c.dst = d}
Done(s, d) == {c \in executed : c.src = s /\ c.dst = d}

\* ExactlyOnce and OrderUnlessNested, in the terms of IsWay and Holds.
WaysInv == \A s, d \in Rank :
             s # d => Holds(Way(s, d), s, Pend(s, d), big, Done(s, d))

LimitInv == \A c \in issued : c.epoch < MaxEpoch

TInv == /\ CommTypeOK /\ AddressInv /\ MessageInv /\ HandlerInv /\ PlaceInv
        /\ WaysInv /\ LimitInv

LEMMA RankFacts == /\ AnySource \notin Rank /\ Off \notin Rank /\ AnySource # Off
                   /\ \A r \in Rank : r \in Int
<1>1. Cardinality(Rank) \in Nat
  BY RankAssumption, FS_CardinalityType
<1> QED
  BY <1>1, TransportAssumption DEF AnySource, Off

LEMMA WayFacts ==
  ASSUME CommTypeOK, NEW s \in Rank, NEW d \in Rank
  PROVE  /\ IsWay(Way(s, d))
         /\ Way(s, d)[1] = [k \in DOMAIN act[d] |-> act[d][Len(act[d]) + 1 - k].buf]
         /\ Way(s, d)[2] = queue[d]
         /\ Way(s, d)[3] = [i \in DOMAIN chan[s][d] |-> chan[s][d][i].calls]
         /\ Way(s, d)[4] = << IF Coming(s, d) THEN body[s] ELSE <<>> >>
         /\ Way(s, d)[5] = << sendBuf[s][d] >>
<1>1. act[d] \in Seq([buf : Seq(Call), received : BOOLEAN])
  BY DEF CommTypeOK
<1>2. [k \in DOMAIN act[d] |-> act[d][Len(act[d]) + 1 - k].buf] \in Seq(Seq(Call))
  <2>1. Len(act[d]) \in Nat /\ DOMAIN act[d] = 1 .. Len(act[d])
    BY <1>1
  <2>2. ASSUME NEW k \in 1 .. Len(act[d]) PROVE act[d][Len(act[d]) + 1 - k].buf \in Seq(Call)
    <3>1. Len(act[d]) + 1 - k \in 1 .. Len(act[d])
      BY <2>1
    <3>2. act[d][Len(act[d]) + 1 - k] \in [buf : Seq(Call), received : BOOLEAN]
      BY <1>1, <3>1, ElementOfSeq
    <3> QED
      BY <3>2
  <2> QED
    BY <2>1, <2>2
<1>3. queue[d] \in Seq(Seq(Call))
  BY DEF CommTypeOK
<1>4. [i \in DOMAIN chan[s][d] |-> chan[s][d][i].calls] \in Seq(Seq(Call))
  <2>1. chan[s][d] \in Seq(Message)
    BY DEF CommTypeOK
  <2>2. Len(chan[s][d]) \in Nat /\ DOMAIN chan[s][d] = 1 .. Len(chan[s][d])
    BY <2>1
  <2>3. ASSUME NEW i \in 1 .. Len(chan[s][d]) PROVE chan[s][d][i].calls \in Seq(Call)
    <3>1. chan[s][d][i] \in Message
      BY <2>1, ElementOfSeq
    <3> QED
      BY <3>1 DEF Message
  <2> QED
    BY <2>2, <2>3
<1>5. << IF Coming(s, d) THEN body[s] ELSE <<>> >> \in Seq(Seq(Call))
  <2>1. body[s] \in Seq(Call) /\ <<>> \in Seq(Call)
    BY DEF CommTypeOK
  <2> QED
    BY <2>1
<1>6. << sendBuf[s][d] >> \in Seq(Seq(Call))
  <2>1. sendBuf[s][d] \in Seq(Call)
    BY DEF CommTypeOK
  <2> QED
    BY <2>1
<1> DEFINE a == [k \in DOMAIN act[d] |-> act[d][Len(act[d]) + 1 - k].buf]
           c == [i \in DOMAIN chan[s][d] |-> chan[s][d][i].calls]
           b == << IF Coming(s, d) THEN body[s] ELSE <<>> >>
           e == << sendBuf[s][d] >>
<1>7. Way(s, d) = <<a, queue[d], c, b, e>>
  BY DEF Way
<1> HIDE DEF a, b, c, e
<1>8. /\ Way(s, d)[1] = a /\ Way(s, d)[2] = queue[d] /\ Way(s, d)[3] = c
      /\ Way(s, d)[4] = b /\ Way(s, d)[5] = e
  BY <1>7
<1>9. IsWay(Way(s, d))
  <2>1. a \in Seq(Seq(Call)) /\ b \in Seq(Seq(Call)) /\ c \in Seq(Seq(Call)) /\ e \in Seq(Seq(Call))
    BY <1>2, <1>4, <1>5, <1>6 DEF a, b, c, e
  <2> QED
    BY <1>3, <1>7, <2>1 DEF IsWay
<1> QED
  BY <1>8, <1>9 DEF a, b, c, e
-----------------------------------------------------------------------------
Frame == [buf : Seq(Call), received : BOOLEAN]

LEMMA TypeFacts ==
  ASSUME CommTypeOK
  PROVE  \A r \in Rank :
           /\ body[r] \in Seq(Call) /\ queue[r] \in Seq(Seq(Call)) /\ act[r] \in Seq(Frame)
           /\ \A d \in Rank : sendBuf[r][d] \in Seq(Call) /\ chan[r][d] \in Seq(Message)
<1> SUFFICES ASSUME NEW r \in Rank
             PROVE  /\ body[r] \in Seq(Call) /\ queue[r] \in Seq(Seq(Call))
                    /\ act[r] \in Seq(Frame)
                    /\ \A d \in Rank : /\ sendBuf[r][d] \in Seq(Call)
                                       /\ chan[r][d] \in Seq(Message)
  BY Zenon
<1>1. body[r] \in Seq(Call) /\ queue[r] \in Seq(Seq(Call))
  BY DEF CommTypeOK
<1>2. act[r] \in Seq(Frame)
  BY DEF CommTypeOK, Frame
<1>3. \A d \in Rank : sendBuf[r][d] \in Seq(Call) /\ chan[r][d] \in Seq(Message)
  BY DEF CommTypeOK
<1> QED
  BY <1>1, <1>2, <1>3

LEMMA SentEffect ==
  ASSUME CommTypeOK, NEW s \in Rank, NEW d \in Rank, NEW m \in Message, chan' = Sent(s, d, m)
  PROVE  /\ chan' \in [Rank -> [Rank -> Seq(Message)]]
         /\ \A x, y \in Rank :
              chan'[x][y] = IF x = s /\ y = d THEN Append(chan[s][d], m) ELSE chan[x][y]
<1>1. Append(chan[s][d], m) \in Seq(Message)
  BY AppendProperties DEF CommTypeOK
<1>2. chan \in [Rank -> [Rank -> Seq(Message)]]
  BY DEF CommTypeOK
<1>3. chan' = [chan EXCEPT ![s][d] = Append(chan[s][d], m)]
  BY DEF Sent
<1>4. chan' \in [Rank -> [Rank -> Seq(Message)]]
  BY <1>1, <1>2, <1>3
<1>5. ASSUME NEW x \in Rank, NEW y \in Rank
      PROVE  chan'[x][y] = IF x = s /\ y = d THEN Append(chan[s][d], m) ELSE chan[x][y]
  BY <1>2, <1>3, SMTT(30)
<1> QED
  BY <1>4, <1>5

\* What the listener thread of d does with the oldest message from s.
Received(s, d) ==
  /\ chan[s][d] # <<>>
  /\ chan' = [chan EXCEPT ![s][d] = Tail(@)]
  /\ UNCHANGED <<sendBuf, body>>
  /\ \/ /\ s # d /\ chan[s][d][1].tag = "announce"
        /\ listener[d] = AnySource /\ listener' = [listener EXCEPT ![d] = s]
        /\ UNCHANGED queue
     \/ /\ s = d /\ listener[d] = AnySource /\ listener' = [listener EXCEPT ![d] = Off]
        /\ UNCHANGED queue
     \/ /\ s # d /\ chan[s][d][1].tag \in {"data", "body"}
        /\ listener[d] = IF chan[s][d][1].tag = "data" THEN AnySource ELSE s
        /\ listener' = [listener EXCEPT ![d] = AnySource]
        /\ queue' = [queue EXCEPT ![d] = Append(@, chan[s][d][1].calls)]

(* A listener always takes the oldest message of a sender, the body that it
   waits for included.                                                     *)
LEMMA ListenEffect ==
  ASSUME CommTypeOK, MessageInv, NEW d \in Rank, Listen(d)
  PROVE  \E s \in Rank : Received(s, d)
<1>1. ASSUME NEW s \in Rank
      PROVE  /\ chan[s][d] \in Seq(Message) /\ Len(chan[s][d]) \in Nat
             /\ DOMAIN chan[s][d] = 1 .. Len(chan[s][d])
             /\ \A i \in 1 .. Len(chan[s][d]) : chan[s][d][i] \in Message
             /\ chan[s][d] # <<>> => Len(chan[s][d]) >= 1 /\ Head(chan[s][d]) = chan[s][d][1]
  <2>1. chan[s][d] \in Seq(Message)
    BY DEF CommTypeOK
  <2> QED
    BY <2>1, PopLemma
<1>2. listener \in [Rank -> Rank \cup {AnySource, Off}]
  BY DEF CommTypeOK
<1>3. ASSUME NEW s \in Rank, ReceiveAny(d, s) PROVE Received(s, d)
  <2>1. /\ listener[d] = AnySource /\ chan[s][d] # <<>>
        /\ chan' = [chan EXCEPT ![s][d] = Tail(@)] /\ UNCHANGED <<sendBuf, body>>
        /\ Head(chan[s][d]) = chan[s][d][1] /\ Len(chan[s][d]) >= 1
    BY <1>1, <1>3 DEF ReceiveAny
  <2>2. \/ /\ chan[s][d][1].tag = "announce"
           /\ listener' = [listener EXCEPT ![d] = s] /\ UNCHANGED queue
        \/ /\ chan[s][d][1].tag # "announce" /\ s = d
           /\ listener' = [listener EXCEPT ![d] = Off] /\ UNCHANGED queue
        \/ /\ chan[s][d][1].tag # "announce" /\ s # d
           /\ queue' = [queue EXCEPT ![d] = Append(@, chan[s][d][1].calls)]
           /\ UNCHANGED listener
    BY <2>1, <1>3 DEF ReceiveAny
  <2>3. CASE s = d
    <3>1. chan[d][d] = <<Msg("kill", <<>>)>>
      BY <2>1, <2>3 DEF MessageInv
    <3>2. chan[s][d][1].tag = "kill"
      BY <3>1, <2>3 DEF Msg
    <3> QED
      BY <2>1, <2>2, <2>3, <3>2 DEF Received
  <2>4. CASE s # d
    <3>1. InOrder(chan[s][d], Coming(s, d), listener[d] = s)
      BY <2>4 DEF MessageInv
    <3>2. 1 \in DOMAIN chan[s][d] /\ listener[d] # s
      BY <2>1, <1>1, RankFacts
    <3>3. chan[s][d][1].tag # "kill" /\ chan[s][d][1].tag # "body"
      BY <3>1, <3>2 DEF InOrder
    <3>4. chan[s][d][1].tag \in {"data", "announce"}
      BY <3>2, <3>3, <1>1 DEF Message
    <3>5. CASE chan[s][d][1].tag = "announce"
      BY <3>5, <2>1, <2>2, <2>4 DEF Received
    <3>6. CASE chan[s][d][1].tag = "data"
      <4>1. listener' = [listener EXCEPT ![d] = AnySource]
        <5>1. listener' = listener /\ listener[d] = AnySource
          BY <3>6, <2>1, <2>2, <2>4
        <5> QED
          BY <5>1, <1>2
      <4> QED
        BY <3>6, <4>1, <2>1, <2>2, <2>4 DEF Received
    <3> QED
      BY <3>4, <3>5, <3>6
  <2> QED
    BY <2>3, <2>4
<1>4. ASSUME ReceiveBody(d) PROVE \E s \in Rank : Received(s, d)
  <2>1. PICK s \in Rank : s = listener[d]
    BY <1>4 DEF ReceiveBody
  <2>2. PICK i \in DOMAIN chan[s][d] :
          /\ chan[s][d][i].tag = "body"
          /\ \A j \in 1 .. i - 1 : chan[s][d][j].tag # "body"
          /\ chan' = [chan EXCEPT ![s][d] = RemoveAt(@, i)]
          /\ queue' = [queue EXCEPT ![d] = Append(@, chan[s][d][i].calls)]
    BY <1>4, <2>1 DEF ReceiveBody
  <2>3. s # d /\ chan[s][d] # <<>> /\ i \in Nat \ {0} /\ Len(chan[s][d]) >= 1
    BY <2>1, <1>1 DEF MessageInv
  <2>4. InOrder(chan[s][d], Coming(s, d), listener[d] = s)
    BY <2>3 DEF MessageInv
  <2>5. chan[s][d][1].tag = "body"
    BY <2>1, <2>3, <2>4 DEF InOrder
  <2>6. i = 1
    BY <2>2, <2>3, <2>5
  <2>7. RemoveAt(chan[s][d], 1) = Tail(chan[s][d])
    <3> DEFINE C == chan[s][d]
    <3>1. RemoveAt(C, 1) = SubSeq(C, 1, 0) \o SubSeq(C, 2, Len(C))
      BY DEF RemoveAt
    <3>2. SubSeq(C, 1, 0) = <<>>
      BY SubSeqEmpty
    <3>3. Tail(C) = SubSeq(C, 2, Len(C)) /\ Tail(C) \in Seq(Message)
      BY <2>3, <1>1, TailIsSubSeq, HeadTailProperties
    <3> QED
      BY <3>1, <3>2, <3>3, ConcatEmptySeq
  <2>8. chan' = [chan EXCEPT ![s][d] = Tail(@)]
    BY <2>2, <2>6, <2>7
  <2>9. listener' = [listener EXCEPT ![d] = AnySource] /\ UNCHANGED <<sendBuf, body>>
    BY <1>4 DEF ReceiveBody
  <2> QED
    BY <2>1, <2>2, <2>3, <2>5, <2>6, <2>8, <2>9 DEF Received
<1> QED
  BY <1>3, <1>4 DEF Listen

LEMMA BufferEffect ==
  ASSUME CommTypeOK, NEW s \in Rank, NEW d \in Rank, NEW b \in Seq(Call),
         sendBuf' = [sendBuf EXCEPT ![s][d] = b]
  PROVE  /\ sendBuf' \in [Rank -> [Rank -> Seq(Call)]]
         /\ \A x, y \in Rank :
              sendBuf'[x][y] = IF x = s /\ y = d THEN b ELSE sendBuf[x][y]
<1>1. sendBuf \in [Rank -> [Rank -> Seq(Call)]]
  BY DEF CommTypeOK
<1>2. sendBuf' \in [Rank -> [Rank -> Seq(Call)]]
  BY <1>1
<1>3. ASSUME NEW x \in Rank, NEW y \in Rank
      PROVE  sendBuf'[x][y] = IF x = s /\ y = d THEN b ELSE sendBuf[x][y]
  BY <1>1
<1> QED
  BY <1>2, <1>3

LEMMA ReceivedEffect ==
  ASSUME CommTypeOK, NEW s \in Rank, NEW d \in Rank, Received(s, d)
  PROVE  /\ chan' \in [Rank -> [Rank -> Seq(Message)]]
         /\ \A x, y \in Rank :
              chan'[x][y] = IF x = s /\ y = d THEN Tail(chan[s][d]) ELSE chan[x][y]
         /\ chan[s][d][1] \in Message
<1>1. /\ chan \in [Rank -> [Rank -> Seq(Message)]] /\ chan[s][d] # <<>>
      /\ chan' = [chan EXCEPT ![s][d] = Tail(chan[s][d])]
  BY DEF CommTypeOK, Received
<1>2. Tail(chan[s][d]) \in Seq(Message) /\ chan[s][d][1] \in Message
  BY <1>1, PopLemma
<1>3. chan' \in [Rank -> [Rank -> Seq(Message)]]
  BY <1>1, <1>2
<1>4. ASSUME NEW x \in Rank, NEW y \in Rank
      PROVE  chan'[x][y] = IF x = s /\ y = d THEN Tail(chan[s][d]) ELSE chan[x][y]
  BY <1>1
<1> QED
  BY <1>2, <1>3, <1>4

(* receive_queue_process() is called, ...                                  *)
LEMMA PushEffect ==
  ASSUME CommTypeOK, NEW r \in Rank, act' = [act EXCEPT ![r] = <<Activation>> \o act[r]]
  PROVE  /\ act' \in [Rank -> Seq(Frame)] /\ act'[r] \in Seq(Frame)
         /\ \A x \in Rank : x # r => act'[x] = act[x]
         /\ Len(act[r]) \in Nat /\ Len(act'[r]) = Len(act[r]) + 1
         /\ act'[r][1] = Activation
         /\ \A i \in 2 .. Len(act[r]) + 1 : act'[r][i] = act[r][i - 1]
<1>8. <<>> \in Seq(Call)
  OBVIOUS
<1>9. Activation \in Frame
  BY <1>8 DEF Frame, Activation
<1>10. act \in [Rank -> Seq(Frame)]
  BY DEF CommTypeOK, Frame
<1>1. act \in [Rank -> Seq(Frame)] /\ Activation \in Frame
  BY <1>9, <1>10
<1>2. act[r] \in Seq(Frame)
  BY <1>1
<1> DEFINE b == <<Activation>> \o act[r]
<1>3. /\ b \in Seq(Frame) /\ DOMAIN b = 1 .. Len(act[r]) + 1 /\ b[1] = Activation
      /\ \A i \in 2 .. Len(act[r]) + 1 : b[i] = act[r][i - 1]
      /\ Len(act[r]) \in Nat
  BY <1>1, <1>2, PushLemma
<1>4. Len(b) = Len(act[r]) + 1
  BY <1>3, LenProperties
<1>5. act' = [act EXCEPT ![r] = b]
  OBVIOUS
<1> HIDE DEF b
<1>6. act'[r] = b /\ act' \in [Rank -> Seq(Frame)]
  BY <1>1, <1>3, <1>5
<1>7. \A x \in Rank : x # r => act'[x] = act[x]
  BY <1>1, <1>5
<1> QED
  BY <1>3, <1>4, <1>6, <1>7

(* ... takes a buffer, ...                                                 *)
LEMMA TakeEffect ==
  ASSUME CommTypeOK, NEW r \in Rank, TakeBuffer(r)
  PROVE  /\ act' \in [Rank -> Seq(Frame)] /\ queue' \in [Rank -> Seq(Seq(Call))]
         /\ act'[r] \in Seq(Frame) /\ act[r] \in Seq(Frame)
         /\ queue[r] \in Seq(Seq(Call)) /\ queue[r] # <<>> /\ queue'[r] = Tail(queue[r])
         /\ Head(queue[r]) = queue[r][1]
         /\ \A x \in Rank : x # r => act'[x] = act[x] /\ queue'[x] = queue[x]
         /\ Len(act[r]) \in Nat \ {0} /\ Len(act'[r]) = Len(act[r])
         /\ act[r][1].buf = <<>>
         /\ act'[r][1] = [buf |-> Head(queue[r]), received |-> TRUE]
         /\ \A i \in 2 .. Len(act[r]) : act'[r][i] = act[r][i]
<1> DEFINE f == [buf |-> Head(queue[r]), received |-> TRUE]
<1>1. /\ act \in [Rank -> Seq(Frame)] /\ queue \in [Rank -> Seq(Seq(Call))]
      /\ act[r] \in Seq(Frame) /\ act[r] # <<>> /\ act[r][1].buf = <<>>
      /\ queue[r] \in Seq(Seq(Call)) /\ queue[r] # <<>>
      /\ queue' = [queue EXCEPT ![r] = Tail(queue[r])]
      /\ act' = [act EXCEPT ![r] = [act[r] EXCEPT ![1] = f]]
  <2>1. /\ act \in [Rank -> Seq(Frame)] /\ queue \in [Rank -> Seq(Seq(Call))]
    BY DEF CommTypeOK, Frame
  <2>2. /\ act[r] # <<>> /\ act[r][1].buf = <<>> /\ queue[r] # <<>>
        /\ queue' = [queue EXCEPT ![r] = Tail(queue[r])]
        /\ act' = [act EXCEPT ![r] = [act[r] EXCEPT ![1] = f]]
    BY DEF TakeBuffer, Pop, Buf
  <2> QED
    BY <2>1, <2>2
<1>2. Head(queue[r]) \in Seq(Call) /\ Head(queue[r]) = queue[r][1] /\ Tail(queue[r]) \in Seq(Seq(Call))
  BY <1>1, PopLemma
<1>3. f \in Frame
  BY <1>2 DEF Frame
<1>4. Len(act[r]) \in Nat \ {0} /\ 1 \in 1 .. Len(act[r])
  BY <1>1, PopLemma
<1> DEFINE b == [act[r] EXCEPT ![1] = f]
<1> HIDE DEF f
<1>5. /\ b \in Seq(Frame) /\ Len(b) = Len(act[r])
      /\ \A i \in 1 .. Len(act[r]) : b[i] = IF i = 1 THEN f ELSE act[r][i]
  BY <1>1, <1>3, <1>4, ExceptSeq
<1>6. act' = [act EXCEPT ![r] = b]
  BY <1>1
<1> HIDE DEF b
<1>7. act'[r] = b /\ act' \in [Rank -> Seq(Frame)]
  BY <1>1, <1>5, <1>6
<1> QED
  BY <1>1, <1>2, <1>4, <1>5, <1>6, <1>7 DEF f

(* ... runs its calls one by one, ...                                      *)
LEMMA ReturnEffect ==
  ASSUME CommTypeOK, NEW r \in Rank, act[r] # <<>>, act[r][1].buf # <<>>,
         act' = [act EXCEPT ![r][1].buf = Tail(@)]
  PROVE  /\ act' \in [Rank -> Seq(Frame)] /\ act'[r] \in Seq(Frame) /\ act[r] \in Seq(Frame)
         /\ \A x \in Rank : x # r => act'[x] = act[x]
         /\ Len(act[r]) \in Nat \ {0} /\ Len(act'[r]) = Len(act[r])
         /\ act[r][1] \in Frame
         /\ act'[r][1].buf = Tail(act[r][1].buf) /\ act'[r][1].received = act[r][1].received
         /\ \A i \in 2 .. Len(act[r]) : act'[r][i] = act[r][i]
<1>1. /\ act \in [Rank -> Seq(Frame)] /\ act[r] \in Seq(Frame)
      /\ act' = [act EXCEPT ![r] = [act[r] EXCEPT ![1] =
                                     [act[r][1] EXCEPT !.buf = Tail(act[r][1].buf)]]]
  BY DEF CommTypeOK, Frame
<1>2. Len(act[r]) \in Nat \ {0} /\ 1 \in 1 .. Len(act[r]) /\ act[r][1] \in Frame
  BY <1>1, PopLemma
<1> DEFINE f == [act[r][1] EXCEPT !.buf = Tail(act[r][1].buf)]
           b == [act[r] EXCEPT ![1] = f]
<1>3. /\ f \in Frame /\ f.buf = Tail(act[r][1].buf) /\ f.received = act[r][1].received
  <2>1. Tail(act[r][1].buf) \in Seq(Call)
    BY <1>2, HeadTailProperties DEF Frame
  <2> QED
    BY <1>2, <2>1 DEF Frame
<1>4. act' = [act EXCEPT ![r] = b]
  BY <1>1
<1> HIDE DEF f
<1>5. /\ b \in Seq(Frame) /\ Len(b) = Len(act[r])
      /\ \A i \in 1 .. Len(act[r]) : b[i] = IF i = 1 THEN f ELSE act[r][i]
  BY <1>1, <1>2, <1>3, ExceptSeq
<1> HIDE DEF b
<1>7. act'[r] = b /\ act' \in [Rank -> Seq(Frame)]
  BY <1>1, <1>4, <1>5
<1> QED
  BY <1>1, <1>2, <1>3, <1>4, <1>5, <1>7

(* ... and returns.                                                        *)
LEMMA PopEffect ==
  ASSUME CommTypeOK, NEW r \in Rank, act[r] # <<>>, act' = [act EXCEPT ![r] = Tail(@)]
  PROVE  /\ act' \in [Rank -> Seq(Frame)] /\ act'[r] \in Seq(Frame) /\ act[r] \in Seq(Frame)
         /\ \A x \in Rank : x # r => act'[x] = act[x]
         /\ Len(act[r]) \in Nat \ {0} /\ Len(act'[r]) = Len(act[r]) - 1
         /\ act[r][1] \in Frame
         /\ \A i \in 1 .. Len(act[r]) - 1 : act'[r][i] = act[r][i + 1]
<1>1. /\ act \in [Rank -> Seq(Frame)] /\ act[r] \in Seq(Frame)
  BY DEF CommTypeOK, Frame
<1>2. /\ Tail(act[r]) \in Seq(Frame) /\ Len(act[r]) \in Nat \ {0}
      /\ DOMAIN Tail(act[r]) = 1 .. Len(act[r]) - 1
      /\ \A i \in 1 .. Len(act[r]) - 1 : Tail(act[r])[i] = act[r][i + 1]
      /\ act[r][1] \in Frame
  BY <1>1, PopLemma
<1>3. Len(Tail(act[r])) = Len(act[r]) - 1
  BY <1>1, HeadTailProperties
<1>4. act'[r] = Tail(act[r])
  BY <1>1
<1> QED
  BY <1>1, <1>2, <1>3, <1>4
-----------------------------------------------------------------------------
(* The steps of comm::impl by what they do to the calls on their way.      *)
Settled == <<wireVars, big, issued, executed, stack>>

\* A buffer is sent: not while the rank has a large call in its hands.
Flushes(r, d) == /\ AsyncFlush(r, d) /\ body[r] = <<>>
                 /\ UNCHANGED <<vars, big, act, wli, life>>

\* receive_queue_process() is called.
Opens(r) == /\ act' = [act EXCEPT ![r] = <<Activation>> \o act[r]]
            /\ Len(stack[r]) = Len(act[r])
            /\ UNCHANGED Settled

Takes(s, d) == Received(s, d) /\ UNCHANGED <<vars, big, act, wli, life>>

OpenSteps(r)  == Peek(r) \/ Barrier(r) \/ Poll(r) \/ Reduce(r) \/ LastBarrier(r) \/ Flush(r)
QuietSteps(r) == Reduce(r) \/ Destroy(r) \/ Join(r) \/ Free(r)

LEMMA IdleStack ==
  ASSUME TInv, IInv, NEW r \in Rank
  PROVE  /\ Len(act[r]) \in Nat /\ Len(stack[r]) \in Nat /\ stack[r] \in Seq(Call)
         /\ act[r] = <<>> <=> Len(act[r]) = 0
         /\ stack[r] = <<>> <=> Len(stack[r]) = 0
         /\ Len(act[r]) = Len(stack[r]) \/ Len(act[r]) = Len(stack[r]) + 1
<1>1. act[r] \in Seq(Frame) /\ stack[r] \in Seq(Call)
  BY TypeFacts DEF TInv, IInv, TypeOK
<1>2. Len(act[r]) \in Nat /\ Len(stack[r]) \in Nat
  BY <1>1
<1>3. Len(act[r]) - Len(stack[r]) \in {0, 1}
  BY DEF TInv, HandlerInv
<1>4. act[r] # <<>> => Len(act[r]) \in Nat \ {0}
  BY <1>1, EmptySeq
<1>5. stack[r] # <<>> => Len(stack[r]) \in Nat \ {0}
  BY <1>1, EmptySeq
<1> QED
  BY <1>1, <1>2, <1>3, <1>4, <1>5, EmptySeq

LEMMA OpensLemma ==
  ASSUME TInv, IInv, NEW r \in Rank, act[r] = <<>>, act' = [act EXCEPT ![r] = <<Activation>>],
         UNCHANGED Settled
  PROVE  Opens(r)
<1>1. Len(act[r]) = 0 /\ Len(stack[r]) = Len(act[r])
  BY IdleStack
<1>2. <<Activation>> \o act[r] = <<Activation>>
  <2>1. <<Activation>> \in Seq({Activation})
    OBVIOUS
  <2> QED
    BY <2>1, ConcatEmptySeq
<1> QED
  BY <1>1, <1>2 DEF Opens

LEMMA Kinds ==
  ASSUME TInv, IInv, [CommNext]_commVars
  PROVE  \/ \E r \in Rank : \E d \in Rank \ {r} : CallSmall(r, d) \/ CallLarge(r, d)
         \/ \E r \in Rank : \E d \in Rank \ {r} : Flushes(r, d)
         \/ \E r \in Rank : \/ FinishLarge(r) \/ TakeBuffer(r) \/ Drained(r)
                             \/ StartHandler(r) \/ HandlerReturns(r) \/ Kill(r)
         \/ \E r \in Rank : Opens(r) /\ OpenSteps(r)
         \/ \E r \in Rank : UNCHANGED Settled /\ UNCHANGED act /\ QuietSteps(r)
         \/ \E s, d \in Rank : Takes(s, d)
         \/ UNCHANGED commVars
<1>1. ASSUME NEW r \in Rank, NEW d \in Rank, AsyncFlush(r, d) PROVE d # r
  BY <1>1 DEF TInv, AddressInv, AsyncFlush, Unsent
<1>2. ASSUME NEW r \in Rank, NEW d \in Rank \ {r}, CallFlush(r, d) PROVE Flushes(r, d)
  BY <1>2 DEF CallFlush, UserCode, Flushes
<1>3. ASSUME NEW r \in Rank, Flush(r)
      PROVE  \/ \E d \in Rank \ {r} : Flushes(r, d)
             \/ Opens(r)
  <2>1. wli[r] = "flush" /\ act[r] = <<>> /\ pc[r] # "app"
    BY <1>3 DEF Flush, TInv, PlaceInv
  <2>2. ASSUME FlushNext(r), UNCHANGED <<act, wli>>
        PROVE  \E d \in Rank \ {r} : Flushes(r, d)
    <3>1. PICK d \in Unsent(r) : AsyncFlush(r, d)
      BY <2>2 DEF FlushNext
    <3>2. d \in Rank \ {r}
      BY <3>1, <1>1 DEF Unsent
    <3>3. body[r] = <<>>
      BY <2>1 DEF TInv, HandlerInv, InHandler, InProgram
    <3>4. UNCHANGED <<vars, big, act, wli, life>>
      BY <1>3, <2>2 DEF Flush
    <3> QED
      BY <3>1, <3>2, <3>3, <3>4 DEF Flushes
  <2>3. ASSUME UNCHANGED wireVars, act' = [act EXCEPT ![r] = <<Activation>>]
        PROVE  Opens(r)
    <3>1. UNCHANGED Settled
      BY <1>3, <2>3 DEF Flush, Settled, vars
    <3> QED
      BY <2>1, <2>3, <3>1, OpensLemma
  <2> QED
    BY <1>3, <2>2, <2>3 DEF Flush
<1>4. ASSUME NEW r \in Rank, Peek(r) PROVE Opens(r)
  <2>1. Len(stack[r]) = Len(act[r])
    <3>1. CASE InHandler(r)
      BY <3>1 DEF InHandler
    <3>2. CASE InProgram(r)
      BY <3>2, IdleStack DEF InProgram
    <3> QED
      BY <1>4, <3>1, <3>2 DEF Peek, UserCode
  <2>2. UNCHANGED Settled /\ act' = [act EXCEPT ![r] = <<Activation>> \o act[r]]
    BY <1>4 DEF Peek, Settled, vars
  <2> QED
    BY <2>1, <2>2 DEF Opens
<1>5. ASSUME NEW r \in Rank, Barrier(r) \/ Poll(r) \/ LastBarrier(r) PROVE Opens(r)
  <2>1. act[r] = <<>>
    <3>1. CASE LastBarrier(r)
      <4>1. life[r] = "world" /\ pc[r] = "app"
        BY <3>1 DEF LastBarrier, Enter
      <4> QED
        BY <4>1 DEF TInv, PlaceInv
    <3> QED
      BY <1>5, <3>1 DEF Barrier, Poll, InProgram, Idle
  <2>2. act' = [act EXCEPT ![r] = <<Activation>>] /\ UNCHANGED Settled
    BY <1>5 DEF Barrier, Poll, LastBarrier, StartIdle, Enter, callVars, Settled, vars
  <2> QED
    BY <2>1, <2>2, OpensLemma
<1>6. ASSUME NEW r \in Rank, Reduce(r)
      PROVE  Opens(r) \/ (UNCHANGED Settled /\ UNCHANGED act)
  <2>1. act[r] = <<>> /\ UNCHANGED <<wireVars, big>>
    BY <1>6 DEF Reduce, Idle
  <2>2. CASE (First(r) \/ Second(r) \/ Leave(r) \/ Throw(r)) /\ UNCHANGED <<act, wli>>
    BY <2>1, <2>2 DEF First, Second, Leave, Throw, callVars, Settled
  <2>3. CASE Restart(r) /\ StartIdle(r)
    <3>1. act' = [act EXCEPT ![r] = <<Activation>>] /\ UNCHANGED Settled
      BY <2>1, <2>3 DEF Restart, StartIdle, callVars, Settled
    <3> QED
      BY <2>1, <3>1, OpensLemma
  <2> QED
    BY <1>6, <2>2, <2>3 DEF Reduce
<1>7. ASSUME NEW r \in Rank, Destroy(r) \/ Join(r) \/ Free(r)
      PROVE  UNCHANGED Settled /\ UNCHANGED act
  BY <1>7 DEF Destroy, Join, Free, Settled, vars
<1>8. ASSUME NEW d \in Rank, Listener(d) PROVE \E s \in Rank : Takes(s, d)
  <2>1. PICK s \in Rank : Received(s, d)
    BY <1>8, ListenEffect DEF Listener, TInv
  <2> QED
    BY <2>1, <1>8 DEF Takes, Listener
<1>9. CASE Ended \/ UNCHANGED commVars
  BY <1>9 DEF Ended
<1>10. ASSUME NEW r \in Rank, Progress(r)
       PROVE  \/ \E d \in Rank \ {r} : Flushes(r, d)
              \/ FinishLarge(r) \/ TakeBuffer(r) \/ Drained(r)
              \/ StartHandler(r) \/ HandlerReturns(r) \/ Kill(r)
              \/ Opens(r) /\ OpenSteps(r)
              \/ UNCHANGED Settled /\ UNCHANGED act /\ QuietSteps(r)
  BY <1>10, <1>3, <1>5, <1>6, <1>7 DEF Progress, OpenSteps, QuietSteps
<1>11. ASSUME NEW r \in Rank, Program(r)
       PROVE  \/ \E d \in Rank \ {r} : CallSmall(r, d) \/ CallLarge(r, d) \/ Flushes(r, d)
              \/ Opens(r) /\ OpenSteps(r)
              \/ UNCHANGED Settled /\ UNCHANGED act /\ QuietSteps(r)
  BY <1>11, <1>2, <1>4, <1>5, <1>7 DEF Program, OpenSteps, QuietSteps
<1> QED
  BY <1>8, <1>9, <1>10, <1>11 DEF CommNext

LEMMA NewCallFacts ==
  ASSUME TInv, IInv, IInv', NEW r \in Rank, NEW d \in Rank \ {r}, UserCode(r), Async(r, d),
         NEW c, c = NewCall(r, d)
  PROVE  /\ c \in Call /\ c.src = r /\ c.dst = d /\ c \notin issued
         /\ issued' = issued \cup {c} /\ executed' = executed /\ stack' = stack
         /\ body[r] = <<>> /\ UNCHANGED collVars
         /\ \A e \in issued : e.id \in Int /\ e.id < c.id
         /\ c.epoch = epoch[r]
<1>1. /\ c.src = r /\ c.dst = d /\ c.id = Cardinality(issued) + 1 /\ c.epoch = epoch[r]
  BY DEF NewCall
<1>2. /\ issued' = issued \cup {c} /\ executed' = executed /\ stack' = stack
      /\ body[r] = <<>> /\ UNCHANGED collVars
  BY DEF Async, UserCode
<1>3. issued' \subseteq Call
  BY DEF IInv, TypeOK
<1>4. c \in Call
  BY <1>2, <1>3
<1>5. Cardinality(issued) \in Nat
  BY FS_CardinalityType DEF IInv, TypeOK
<1>6. ASSUME NEW e \in issued PROVE e.id \in Int /\ e.id < c.id
  <2>1. e.id \in Nat \ {0}
    BY DEF IInv, TypeOK, Call
  <2>2. e.id <= Cardinality(issued)
    BY DEF IInv, IdsInv
  <2> QED
    BY <2>1, <2>2, <1>1, <1>5
<1>7. c \notin issued
  BY <1>6
<1> QED
  BY <1>1, <1>2, <1>4, <1>6, <1>7

\* CommTypeOK but for wli and life.
WireTypeOK == /\ sendBuf \in [Rank -> [Rank -> Seq(Call)]] /\ body \in [Rank -> Seq(Call)]
              /\ chan \in [Rank -> [Rank -> Seq(Message)]]
              /\ listener \in [Rank -> Rank \cup {AnySource, Off}]
              /\ queue \in [Rank -> Seq(Seq(Call))]
              /\ big \subseteq Call
              /\ act \in [Rank -> Seq(Frame)]

LEMMA WireTypeStep ==
  ASSUME TInv, IInv, IInv', [CommNext]_commVars
  PROVE  WireTypeOK'
<1> USE DEF WireTypeOK
<1>1. /\ sendBuf \in [Rank -> [Rank -> Seq(Call)]] /\ body \in [Rank -> Seq(Call)]
      /\ chan \in [Rank -> [Rank -> Seq(Message)]]
      /\ listener \in [Rank -> Rank \cup {AnySource, Off}]
      /\ queue \in [Rank -> Seq(Seq(Call))]
      /\ big \subseteq Call
      /\ act \in [Rank -> Seq(Frame)]
      /\ CommTypeOK
  BY DEF TInv, CommTypeOK, Frame
<1>2. \A b \in Seq(Call) : \A t \in {"data", "announce", "body", "kill"} : Msg(t, b) \in Message
  BY DEF Msg, Message
<1>3. \A c \in Call : <<c>> \in Seq(Call)
  OBVIOUS
<1>4. <<>> \in Seq(Call)
  OBVIOUS
<1>5. ASSUME NEW r \in Rank, NEW d \in Rank \ {r}, CallSmall(r, d) PROVE WireTypeOK'
  <2>1. PICK c : c = NewCall(r, d)
    OBVIOUS
  <2>2. c \in Call /\ c.src = r /\ c.dst = d
    BY <1>5, <2>1, NewCallFacts DEF CallSmall
  <2>3. UNCHANGED <<body, listener, queue, big, act>>
    BY <1>5 DEF CallSmall, PutSmall
  <2>4. CASE sendBuf' = [sendBuf EXCEPT ![r][d] = Append(sendBuf[r][d], c)] /\ UNCHANGED chan
    <3>1. Append(sendBuf[r][d], c) \in Seq(Call)
      BY <2>2, <1>1, AppendProperties
    <3> QED
      BY <2>3, <2>4, <3>1, <1>1, BufferEffect
  <2>5. CASE /\ chan' = Sent(r, d, Msg("data", sendBuf[r][d]))
             /\ sendBuf' = [sendBuf EXCEPT ![r][d] = <<c>>]
    <3>1. Msg("data", sendBuf[r][d]) \in Message /\ <<c>> \in Seq(Call)
      BY <2>2, <1>1, <1>2, <1>3
    <3>2. chan' \in [Rank -> [Rank -> Seq(Message)]]
      BY <2>5, <3>1, <1>1, SentEffect
    <3>3. sendBuf' \in [Rank -> [Rank -> Seq(Call)]]
      BY <2>5, <3>1, <1>1, BufferEffect
    <3> QED
      BY <2>3, <3>2, <3>3, <1>1
  <2> QED
    BY <1>5, <2>1, <2>2, <2>4, <2>5 DEF CallSmall, PutSmall
<1>6. ASSUME NEW r \in Rank, NEW d \in Rank \ {r}, CallLarge(r, d) PROVE WireTypeOK'
  <2>1. PICK c : c = NewCall(r, d)
    OBVIOUS
  <2>2. c \in Call /\ c.src = r /\ c.dst = d
    BY <1>6, <2>1, NewCallFacts DEF CallLarge
  <2>3. /\ UNCHANGED <<sendBuf, listener, queue, act>> /\ big' = big \cup {c}
        /\ chan' = Sent(r, d, Msg("announce", <<>>)) /\ body' = [body EXCEPT ![r] = <<c>>]
    BY <1>6, <2>1, <2>2 DEF CallLarge, Announce
  <2>4. chan' \in [Rank -> [Rank -> Seq(Message)]]
    BY <2>3, <1>1, <1>2, <1>4, SentEffect
  <2> QED
    BY <2>2, <2>3, <2>4, <1>1, <1>3
<1>7. ASSUME NEW r \in Rank, NEW d \in Rank \ {r}, Flushes(r, d) PROVE WireTypeOK'
  <2>1. /\ UNCHANGED <<body, listener, queue, big, act>>
        /\ chan' = Sent(r, d, Msg("data", sendBuf[r][d]))
        /\ sendBuf' = [sendBuf EXCEPT ![r][d] = <<>>]
    BY <1>7 DEF Flushes, AsyncFlush
  <2>2. Msg("data", sendBuf[r][d]) \in Message
    BY <1>1, <1>2
  <2>3. chan' \in [Rank -> [Rank -> Seq(Message)]]
    BY <2>1, <2>2, <1>1, SentEffect
  <2>4. sendBuf' \in [Rank -> [Rank -> Seq(Call)]]
    BY <2>1, <1>1, <1>4, BufferEffect
  <2> QED
    BY <2>1, <2>3, <2>4, <1>1
<1>8. ASSUME NEW r \in Rank, FinishLarge(r) PROVE WireTypeOK'
  <2> DEFINE d == Head(body[r]).dst
  <2>1. /\ body[r] # <<>> /\ chan' = Sent(r, d, Msg("body", body[r]))
        /\ body' = [body EXCEPT ![r] = <<>>] /\ UNCHANGED <<sendBuf, listener, queue, big, act>>
    BY <1>8 DEF FinishLarge, SendBody
  <2>2. d \in Rank
    <3>1. body[r] \in Seq(Call)
      BY <1>1
    <3>2. Head(body[r]) \in Call
      BY <2>1, <3>1, PopLemma
    <3> QED
      BY <3>2 DEF Call
  <2>3. Msg("body", body[r]) \in Message
    BY <1>1, <1>2
  <2>4. chan' \in [Rank -> [Rank -> Seq(Message)]]
    BY <2>1, <2>2, <2>3, <1>1, SentEffect
  <2> QED
    BY <2>1, <2>4, <1>1, <1>4
<1>9. ASSUME NEW r \in Rank, TakeBuffer(r) PROVE WireTypeOK'
  <2>1. UNCHANGED <<sendBuf, body, chan, listener, big>>
    BY <1>9 DEF TakeBuffer, Pop
  <2> QED
    BY <2>1, <1>1, <1>9, TakeEffect
<1>10. ASSUME NEW r \in Rank, Drained(r) PROVE WireTypeOK'
  BY <1>10, <1>1, PopEffect DEF Drained, wireVars
<1>11. ASSUME NEW r \in Rank, StartHandler(r) PROVE WireTypeOK'
  BY <1>11, <1>1 DEF StartHandler, wireVars
<1>12. ASSUME NEW r \in Rank, HandlerReturns(r) PROVE WireTypeOK'
  <2>1. act[r] # <<>> /\ act[r][1].buf # <<>>
    <3>1. Len(stack[r]) = Len(act[r]) /\ act[r] # <<>> /\ 1 \in DOMAIN stack[r]
      BY <1>12, IdleStack DEF HandlerReturns, InHandler
    <3> QED
      BY <3>1, IdleStack, SMTT(30) DEF TInv, HandlerInv
  <2>2. act' = [act EXCEPT ![r][1].buf = Tail(@)] /\ UNCHANGED <<wireVars, big>>
    BY <1>12 DEF HandlerReturns
  <2> QED
    BY <2>1, <2>2, <1>1, ReturnEffect DEF wireVars
<1>13. ASSUME NEW r \in Rank, Kill(r) PROVE WireTypeOK'
  <2>1. /\ chan' = Sent(r, r, Msg("kill", <<>>))
        /\ UNCHANGED <<sendBuf, body, listener, queue, big, act>>
    BY <1>13 DEF Kill, SendKill
  <2>2. chan' \in [Rank -> [Rank -> Seq(Message)]]
    BY <2>1, <1>1, <1>2, <1>4, SentEffect
  <2> QED
    BY <2>1, <2>2, <1>1
<1>14. ASSUME NEW r \in Rank, Opens(r) PROVE WireTypeOK'
  BY <1>14, <1>1, PushEffect DEF Opens, Settled, wireVars
<1>15. CASE UNCHANGED Settled /\ UNCHANGED act
  BY <1>15, <1>1 DEF Settled, wireVars
<1>16. ASSUME NEW s \in Rank, NEW d \in Rank, Takes(s, d) PROVE WireTypeOK'
  <2>1. /\ chan' \in [Rank -> [Rank -> Seq(Message)]] /\ chan[s][d][1] \in Message
    BY <1>1, <1>16, ReceivedEffect DEF Takes
  <2>2. UNCHANGED <<sendBuf, body, big, act>>
    BY <1>16 DEF Takes, Received
  <2>3. chan[s][d][1].calls \in Seq(Call) /\ queue[d] \in Seq(Seq(Call))
    BY <2>1, <1>1 DEF Message
  <2>4. Append(queue[d], chan[s][d][1].calls) \in Seq(Seq(Call))
    BY <2>3, AppendProperties
  <2>5. listener' \in [Rank -> Rank \cup {AnySource, Off}]
    <3>1. PICK v \in Rank \cup {AnySource, Off} : listener' = [listener EXCEPT ![d] = v]
      BY <1>16 DEF Takes, Received
    <3> QED
      BY <3>1, <1>1
  <2>6. queue' \in [Rank -> Seq(Seq(Call))]
    <3>1. CASE UNCHANGED queue
      BY <3>1, <1>1
    <3>2. CASE queue' = [queue EXCEPT ![d] = Append(queue[d], chan[s][d][1].calls)]
      BY <3>2, <2>4, <1>1
    <3> QED
      BY <3>1, <3>2, <1>16 DEF Takes, Received
  <2> QED
    BY <2>1, <2>2, <2>5, <2>6, <1>1
<1>17. CASE UNCHANGED commVars
  BY <1>17, <1>1 DEF commVars, wireVars
<1> HIDE DEF WireTypeOK
<1>18. \/ \E r \in Rank : \E d \in Rank \ {r} : CallSmall(r, d) \/ CallLarge(r, d)
       \/ \E r \in Rank : \E d \in Rank \ {r} : Flushes(r, d)
       \/ \E r \in Rank : \/ FinishLarge(r) \/ TakeBuffer(r) \/ Drained(r)
                           \/ StartHandler(r) \/ HandlerReturns(r) \/ Kill(r)
       \/ \E r \in Rank : Opens(r) /\ OpenSteps(r)
       \/ \E r \in Rank : UNCHANGED Settled /\ UNCHANGED act /\ QuietSteps(r)
       \/ \E s, d \in Rank : Takes(s, d)
       \/ UNCHANGED commVars
  BY Kinds
<1> QED
  BY <1>18, <1>5, <1>6, <1>7, <1>8, <1>9, <1>10, <1>11, <1>12, <1>13, <1>14, <1>15, <1>16, <1>17
LEMMA CommTypeStep == TInv /\ IInv /\ IInv' /\ [CommNext]_commVars => CommTypeOK'
<1> SUFFICES ASSUME TInv, IInv, IInv', [CommNext]_commVars PROVE CommTypeOK'
  OBVIOUS
<1> DEFINE W == {"first", "flush", "again", "out"}
<1>1. wli \in [Rank -> W] /\ life \in [Rank -> Life]
  BY DEF TInv, CommTypeOK
<1>2. wli' \in [Rank -> W] /\ life' \in [Rank -> Life]
  <2>1. ASSUME NEW r \in Rank, Progress(r)
        PROVE  /\ UNCHANGED wli \/ \E w \in W : wli' = [wli EXCEPT ![r] = w]
               /\ UNCHANGED life \/ \E v \in Life : life' = [life EXCEPT ![r] = v]
    <3>1. CASE Drained(r)
      <4> DEFINE w == IF Len(act[r]) > 1 \/ wli[r] = "out" THEN wli[r]
                      ELSE IF wli[r] = "first" \/ act[r][1].received THEN "flush" ELSE "out"
      <4>1. wli' = [wli EXCEPT ![r] = w] /\ UNCHANGED life
        BY <3>1 DEF Drained
      <4>2. w \in W
        BY <1>1
      <4> QED
        BY <4>1, <4>2
    <3>2. CASE FinishLarge(r) \/ TakeBuffer(r) \/ StartHandler(r) \/ HandlerReturns(r)
      BY <3>2 DEF FinishLarge, TakeBuffer, StartHandler, HandlerReturns
    <3>3. CASE Flush(r) \/ Reduce(r) \/ LastBarrier(r)
      BY <3>3 DEF Flush, Reduce, LastBarrier, StartIdle, Life
    <3>4. CASE Kill(r) \/ Join(r) \/ Free(r)
      BY <3>4 DEF Kill, Join, Free, Life
    <3> QED
      BY <2>1, <3>1, <3>2, <3>3, <3>4 DEF Progress
  <2>2. ASSUME NEW r \in Rank, Program(r)
        PROVE  /\ UNCHANGED wli \/ \E w \in W : wli' = [wli EXCEPT ![r] = w]
               /\ UNCHANGED life \/ \E v \in Life : life' = [life EXCEPT ![r] = v]
    BY <2>2 DEF Program, CallSmall, CallLarge, CallFlush, Peek, Poll, Barrier, Destroy,
                StartIdle, Life
  <2>3. ASSUME NEW r \in Rank, Listener(r) PROVE UNCHANGED <<wli, life>>
    BY <2>3 DEF Listener
  <2>4. CASE Ended \/ UNCHANGED commVars
    BY <2>4, <1>1 DEF Ended, commVars
  <2>5. ASSUME NEW r \in Rank,
               UNCHANGED wli \/ \E w \in W : wli' = [wli EXCEPT ![r] = w],
               UNCHANGED life \/ \E v \in Life : life' = [life EXCEPT ![r] = v]
        PROVE  wli' \in [Rank -> W] /\ life' \in [Rank -> Life]
    <3>1. wli' \in [Rank -> W]
      BY <2>5, <1>1
    <3>2. life' \in [Rank -> Life]
      BY <2>5, <1>1
    <3> QED
      BY <3>1, <3>2
  <2> HIDE DEF W
  <2> QED
    BY <2>1, <2>2, <2>3, <2>4, <2>5, <1>1 DEF CommNext
<1>3. WireTypeOK'
  BY WireTypeStep
<1> QED
  BY <1>2, <1>3 DEF WireTypeOK, CommTypeOK, Frame
-----------------------------------------------------------------------------
(* A message is sent: a buffer that is full or flushed, the two parts of a
   large call, the kill message.                                           *)
Sends(s, d, m) ==
  /\ chan' = Sent(s, d, m) /\ UNCHANGED <<listener, queue>>
  /\ \/ /\ s # d /\ m = Msg("data", sendBuf[s][d]) /\ sendBuf[s][d] # <<>>
        /\ body[s] = <<>> /\ UNCHANGED body
     \/ /\ s # d /\ m = Msg("announce", <<>>) /\ body[s] = <<>>
        /\ \E c \in Call : c.src = s /\ c.dst = d /\ body' = [body EXCEPT ![s] = <<c>>]
     \/ /\ m = Msg("body", body[s]) /\ body[s] # <<>> /\ d = Head(body[s]).dst
        /\ body' = [body EXCEPT ![s] = <<>>]
     \/ s = d /\ m = Msg("kill", <<>>) /\ Kill(s) /\ UNCHANGED body

\* The calls in the send buffer to d are replaced.
Refills(s, d) ==
  \E b \in Seq(Call) :
    /\ sendBuf' = [sendBuf EXCEPT ![s][d] = b] /\ UNCHANGED <<body, act>>
    /\ \/ b = <<>>
       \/ \E c \in Call : /\ c.src = s /\ c.dst = d
                          /\ \/ b = <<c>>
                             \/ b = Append(sendBuf[s][d], c) /\ Len(sendBuf[s][d]) + 1 <= Cap

LEMMA WireSteps ==
  ASSUME TInv, IInv, IInv', [CommNext]_commVars
  PROVE  /\ \/ \E s, d \in Rank : \E m \in Message : Sends(s, d, m)
            \/ \E s, d \in Rank : Takes(s, d)
            \/ \E r \in Rank : TakeBuffer(r) /\ UNCHANGED <<chan, body, listener>>
            \/ UNCHANGED <<chan, body, listener, queue>>
         /\ \/ \E s \in Rank : \E d \in Rank \ {s} : Refills(s, d)
            \/ UNCHANGED sendBuf
         /\ \/ \E r \in Rank : TakeBuffer(r) \/ Drained(r) \/ HandlerReturns(r) \/ Opens(r)
            \/ UNCHANGED act
<1> DEFINE Sending == \E s, d \in Rank : \E m \in Message : Sends(s, d, m)
           Taking == \E s, d \in Rank : Takes(s, d)
           Popping == \E r \in Rank : TakeBuffer(r) /\ UNCHANGED <<chan, body, listener>>
           Refilling == \E s \in Rank : \E d \in Rank \ {s} : Refills(s, d)
           Acting == \E r \in Rank : TakeBuffer(r) \/ Drained(r) \/ HandlerReturns(r) \/ Opens(r)
           Goal == /\ Sending \/ Taking \/ Popping \/ UNCHANGED <<chan, body, listener, queue>>
                   /\ Refilling \/ UNCHANGED sendBuf
                   /\ Acting \/ UNCHANGED act
<1>1. CommTypeOK
  BY DEF TInv
<1>2. \A b \in Seq(Call) : \A t \in {"data", "announce", "body", "kill"} : Msg(t, b) \in Message
  BY DEF Msg, Message
<1>3. <<>> \in Seq(Call) /\ \A c \in Call : <<c>> \in Seq(Call)
  OBVIOUS
<1>4. \A s, d \in Rank : sendBuf[s][d] \in Seq(Call) /\ body[s] \in Seq(Call)
  BY <1>1, TypeFacts
<1>5. ASSUME NEW r \in Rank, NEW d \in Rank \ {r}, CallSmall(r, d) PROVE Goal
  <2>1. PICK c : c = NewCall(r, d)
    OBVIOUS
  <2>2. c \in Call /\ c.src = r /\ c.dst = d /\ body[r] = <<>>
    BY <1>5, <2>1, NewCallFacts DEF CallSmall
  <2>3. UNCHANGED <<body, listener, queue, big, act>>
    BY <1>5 DEF CallSmall, PutSmall
  <2> DEFINE old == sendBuf[r][d]
  <2>4. CASE /\ sendBuf' = [sendBuf EXCEPT ![r][d] = Append(old, c)] /\ UNCHANGED chan
             /\ Len(old) + 1 <= Cap
    <3>1. Append(old, c) \in Seq(Call)
      BY <2>2, <1>4, AppendProperties
    <3>2. Refills(r, d)
      BY <3>1, <2>2, <2>3, <2>4 DEF Refills
    <3> QED
      BY <2>3, <2>4, <3>2
  <2>5. CASE /\ chan' = Sent(r, d, Msg("data", old)) /\ Len(old) + 1 > Cap
             /\ sendBuf' = [sendBuf EXCEPT ![r][d] = <<c>>]
    <3>1. Refills(r, d)
      BY <1>3, <2>2, <2>3, <2>5 DEF Refills
    <3>2. old # <<>>
      <4>1. Len(old) > 0
        BY <2>5, <1>4, TransportAssumption
      <4> QED
        BY <4>1
    <3>3. Msg("data", old) \in Message
      BY <1>2, <1>4
    <3>4. Sends(r, d, Msg("data", old))
      BY <2>2, <2>3, <2>5, <3>2 DEF Sends
    <3> QED
      BY <3>1, <3>3, <3>4, <2>3
  <2> QED
    BY <1>5, <2>1, <2>2, <2>4, <2>5 DEF CallSmall, PutSmall
<1>6. ASSUME NEW r \in Rank, NEW d \in Rank \ {r}, CallLarge(r, d) PROVE Goal
  <2>1. PICK c : c = NewCall(r, d)
    OBVIOUS
  <2>2. c \in Call /\ c.src = r /\ c.dst = d /\ body[r] = <<>>
    BY <1>6, <2>1, NewCallFacts DEF CallLarge
  <2>3. /\ UNCHANGED <<sendBuf, listener, queue, act>>
        /\ chan' = Sent(r, d, Msg("announce", <<>>)) /\ body' = [body EXCEPT ![r] = <<c>>]
    BY <1>6, <2>1, <2>2 DEF CallLarge, Announce
  <2>4. Sends(r, d, Msg("announce", <<>>)) /\ Msg("announce", <<>>) \in Message
    BY <2>2, <2>3, <1>2, <1>3 DEF Sends
  <2> QED
    BY <2>3, <2>4
<1>7. ASSUME NEW r \in Rank, NEW d \in Rank \ {r}, Flushes(r, d) PROVE Goal
  <2>1. /\ UNCHANGED <<body, listener, queue, act>> /\ body[r] = <<>>
        /\ chan' = Sent(r, d, Msg("data", sendBuf[r][d])) /\ sendBuf[r][d] # <<>>
        /\ sendBuf' = [sendBuf EXCEPT ![r][d] = <<>>]
    BY <1>7 DEF Flushes, AsyncFlush, Unsent
  <2>2. Refills(r, d)
    BY <2>1, <1>3 DEF Refills
  <2>3. Sends(r, d, Msg("data", sendBuf[r][d])) /\ Msg("data", sendBuf[r][d]) \in Message
    BY <2>1, <1>2, <1>4 DEF Sends
  <2> QED
    BY <2>1, <2>2, <2>3
<1>8. ASSUME NEW r \in Rank, FinishLarge(r) PROVE Goal
  <2> DEFINE d == Head(body[r]).dst
  <2>1. /\ body[r] # <<>> /\ chan' = Sent(r, d, Msg("body", body[r]))
        /\ body' = [body EXCEPT ![r] = <<>>] /\ UNCHANGED <<sendBuf, listener, queue, act>>
    BY <1>8 DEF FinishLarge, SendBody
  <2>2. d \in Rank
    <3>1. Head(body[r]) \in Call
      BY <2>1, <1>4, PopLemma
    <3> QED
      BY <3>1 DEF Call
  <2>3. Sends(r, d, Msg("body", body[r])) /\ Msg("body", body[r]) \in Message
    BY <2>1, <1>2, <1>4 DEF Sends
  <2> QED
    BY <2>1, <2>2, <2>3
<1>9. ASSUME NEW r \in Rank, TakeBuffer(r) PROVE Goal
  BY <1>9 DEF TakeBuffer, Pop
<1>10. ASSUME NEW r \in Rank, Drained(r) \/ StartHandler(r) \/ HandlerReturns(r) PROVE Goal
  BY <1>10 DEF Drained, StartHandler, HandlerReturns, wireVars
<1>11. ASSUME NEW r \in Rank, Kill(r) PROVE Goal
  <2>1. Sends(r, r, Msg("kill", <<>>)) /\ Msg("kill", <<>>) \in Message
    BY <1>11, <1>2, <1>3 DEF Sends, Kill, SendKill
  <2>2. UNCHANGED <<sendBuf, act>>
    BY <1>11 DEF Kill, SendKill
  <2> QED
    BY <2>1, <2>2
<1>12. ASSUME NEW r \in Rank, Opens(r) PROVE Goal
  BY <1>12 DEF Opens, Settled, wireVars
<1>13. ASSUME UNCHANGED Settled, UNCHANGED act PROVE Goal
  BY <1>13 DEF Settled, wireVars
<1>14. ASSUME NEW s \in Rank, NEW d \in Rank, Takes(s, d) PROVE Goal
  BY <1>14 DEF Takes, Received
<1>15. ASSUME UNCHANGED commVars PROVE Goal
  BY <1>15 DEF commVars, wireVars
<1>16. Goal
  <2> HIDE DEF Goal
  <2>1. \/ \E r \in Rank : \E d \in Rank \ {r} : CallSmall(r, d) \/ CallLarge(r, d)
        \/ \E r \in Rank : \E d \in Rank \ {r} : Flushes(r, d)
        \/ \E r \in Rank : \/ FinishLarge(r) \/ TakeBuffer(r) \/ Drained(r)
                            \/ StartHandler(r) \/ HandlerReturns(r) \/ Kill(r)
        \/ \E r \in Rank : Opens(r) /\ OpenSteps(r)
        \/ \E r \in Rank : UNCHANGED Settled /\ UNCHANGED act /\ QuietSteps(r)
        \/ \E s, d \in Rank : Takes(s, d)
        \/ UNCHANGED commVars
    BY Kinds
  <2> QED
    BY <2>1, <1>5, <1>6, <1>7, <1>8, <1>9, <1>10, <1>11, <1>12, <1>13, <1>14, <1>15
<1> QED
  BY <1>16
-----------------------------------------------------------------------------
LEMMA AppendedTo ==
  ASSUME NEW S, NEW q \in Seq(S), NEW e \in S
  PROVE  /\ Append(q, e) \in Seq(S) /\ Len(q) \in Nat /\ Len(Append(q, e)) = Len(q) + 1
         /\ DOMAIN q = 1 .. Len(q) /\ DOMAIN Append(q, e) = 1 .. Len(q) + 1
         /\ \A i \in 1 .. Len(q) : Append(q, e)[i] = q[i]
         /\ Append(q, e)[Len(q) + 1] = e
  BY AppendProperties

LEMMA RunningFrame ==
  ASSUME TInv, IInv, NEW r \in Rank, InHandler(r)
  PROVE  /\ act[r] # <<>> /\ act[r][1].buf # <<>> /\ stack[r] # <<>>
         /\ Head(stack[r]) = Head(act[r][1].buf) /\ Head(stack[r]) = stack[r][1]
         /\ act[r][1].buf \in Seq(Call) /\ Head(act[r][1].buf) = act[r][1].buf[1]
<1>1. act[r] # <<>> /\ stack[r] # <<>> /\ Len(stack[r]) = Len(act[r])
  BY IdleStack DEF InHandler
<1>2. act[r] \in Seq(Frame) /\ stack[r] \in Seq(Call)
  BY TypeFacts, IdleStack DEF TInv
<1>3. 1 \in DOMAIN stack[r] /\ Head(stack[r]) = stack[r][1] /\ Len(act[r]) \in Nat
  BY <1>1, <1>2, PopLemma
<1>4. act[r][1] \in Frame
  BY <1>1, <1>2, PopLemma
<1>5. /\ act[r][1 + 0].buf # <<>> /\ stack[r][1] = Head(act[r][1 + 0].buf)
  <2>1. Len(act[r]) - Len(stack[r]) = 0
    BY <1>1, <1>3
  <2> QED
    BY <1>3, <2>1 DEF TInv, HandlerInv
<1>6. act[r][1].buf \in Seq(Call)
  BY <1>4 DEF Frame
<1>7. Head(act[r][1].buf) = act[r][1].buf[1]
  BY <1>5, <1>6, PopLemma
<1> QED
  BY <1>1, <1>3, <1>5, <1>6, <1>7

LEMMA AddressStep == TInv /\ IInv /\ IInv' /\ [CommNext]_commVars => AddressInv'
<1> SUFFICES ASSUME TInv, IInv, IInv', [CommNext]_commVars PROVE AddressInv'
  OBVIOUS
<1>1. CommTypeOK /\ AddressInv /\ MessageInv /\ HandlerInv
  BY DEF TInv
<1>2. /\ \/ \E s, d \in Rank : \E m \in Message : Sends(s, d, m)
         \/ \E s, d \in Rank : Takes(s, d)
         \/ \E r \in Rank : TakeBuffer(r) /\ UNCHANGED <<chan, body, listener>>
         \/ UNCHANGED <<chan, body, listener, queue>>
      /\ \/ \E s \in Rank : \E d \in Rank \ {s} : Refills(s, d)
         \/ UNCHANGED sendBuf
      /\ \/ \E r \in Rank : TakeBuffer(r) \/ Drained(r) \/ HandlerReturns(r) \/ Opens(r)
         \/ UNCHANGED act
  BY WireSteps
<1>3. \A s, d \in Rank : sendBuf[s][d] \in Seq(Call) /\ chan[s][d] \in Seq(Message)
                         /\ body[s] \in Seq(Call)
  BY <1>1, TypeFacts
<1>4. \A s, d \in Rank : /\ Between(sendBuf'[s][d], s, d) /\ Len(sendBuf'[s][d]) <= Cap
                         /\ sendBuf'[s][s] = <<>>
  <2>1. \A s, d \in Rank : /\ Between(sendBuf[s][d], s, d) /\ Len(sendBuf[s][d]) <= Cap
                           /\ sendBuf[s][s] = <<>>
    BY <1>1 DEF AddressInv
  <2>2. ASSUME NEW x \in Rank, NEW y \in Rank \ {x}, Refills(x, y),
               NEW s \in Rank, NEW d \in Rank
        PROVE  /\ Between(sendBuf'[s][d], s, d) /\ Len(sendBuf'[s][d]) <= Cap
               /\ sendBuf'[s][s] = <<>>
    <3>1. PICK b \in Seq(Call) :
            /\ sendBuf' = [sendBuf EXCEPT ![x][y] = b]
            /\ \/ b = <<>>
               \/ \E c \in Call : /\ c.src = x /\ c.dst = y
                                  /\ \/ b = <<c>>
                                     \/ /\ b = Append(sendBuf[x][y], c)
                                        /\ Len(sendBuf[x][y]) + 1 <= Cap
      BY <2>2 DEF Refills
    <3>4. sendBuf' = [sendBuf EXCEPT ![x][y] = b]
      BY <3>1
    <3>2. \A u, v \in Rank : sendBuf'[u][v] = IF u = x /\ v = y THEN b ELSE sendBuf[u][v]
      <4>1. sendBuf \in [Rank -> [Rank -> Seq(Call)]]
        BY <1>1 DEF CommTypeOK
      <4> QED
        BY <3>4, <4>1
    <3>3. Between(b, x, y) /\ Len(b) <= Cap
      <4>1. CASE b = <<>>
        BY <4>1, TransportAssumption DEF Between
      <4>2. ASSUME NEW c \in Call, c.src = x, c.dst = y, b = <<c>>
            PROVE  Between(b, x, y) /\ Len(b) <= Cap
        BY <4>2, TransportAssumption DEF Between
      <4>3. ASSUME NEW c \in Call, c.src = x, c.dst = y, b = Append(sendBuf[x][y], c),
                   Len(sendBuf[x][y]) + 1 <= Cap
            PROVE  Between(b, x, y) /\ Len(b) <= Cap
        <5>1. /\ Len(b) = Len(sendBuf[x][y]) + 1 /\ DOMAIN b = 1 .. Len(sendBuf[x][y]) + 1
              /\ Len(sendBuf[x][y]) \in Nat /\ DOMAIN sendBuf[x][y] = 1 .. Len(sendBuf[x][y])
              /\ \A i \in 1 .. Len(sendBuf[x][y]) : b[i] = sendBuf[x][y][i]
              /\ b[Len(sendBuf[x][y]) + 1] = c
          BY <1>3, <4>3, AppendedTo
        <5>2. Between(sendBuf[x][y], x, y)
          BY <2>1
        <5>3. ASSUME NEW i \in DOMAIN b PROVE b[i].src = x /\ b[i].dst = y
          <6>1. CASE i = Len(sendBuf[x][y]) + 1
            BY <4>3, <5>1, <6>1
          <6>2. CASE i \in 1 .. Len(sendBuf[x][y])
            BY <5>1, <5>2, <6>2 DEF Between
          <6> QED
            BY <5>1, <6>1, <6>2
        <5> QED
          BY <4>3, <5>1, <5>3 DEF Between
      <4> QED
        BY <3>1, <4>1, <4>2, <4>3
    <3> QED
      BY <2>1, <3>2, <3>3
  <2>3. CASE UNCHANGED sendBuf
    BY <2>1, <2>3
  <2> QED
    BY <1>2, <2>2, <2>3
<1>5. \A s, d \in Rank : \A i \in DOMAIN chan'[s][d] : Between(chan'[s][d][i].calls, s, d)
  <2>1. \A s, d \in Rank : \A i \in DOMAIN chan[s][d] : Between(chan[s][d][i].calls, s, d)
    BY <1>1 DEF AddressInv
  <2>2. ASSUME NEW x \in Rank, NEW y \in Rank, NEW m \in Message, Sends(x, y, m),
               NEW s \in Rank, NEW d \in Rank, NEW i \in DOMAIN chan'[s][d]
        PROVE  Between(chan'[s][d][i].calls, s, d)
    <3>1. \A u, v \in Rank :
            chan'[u][v] = IF u = x /\ v = y THEN Append(chan[x][y], m) ELSE chan[u][v]
      BY <1>1, <2>2, SentEffect DEF Sends
    <3>2. Between(m.calls, x, y)
      <4>1. CASE m.calls = <<>>
        BY <4>1 DEF Between
      <4>2. CASE m.calls = sendBuf[x][y]
        BY <4>2, <1>1 DEF AddressInv
      <4>3. CASE m.calls = body[x] /\ body[x] # <<>> /\ y = Head(body[x]).dst
        <5>1. Len(body[x]) = 1 /\ Head(body[x]).src = x /\ Head(body[x]) = body[x][1]
              /\ DOMAIN body[x] = 1 .. 1
          <6>1. Len(body[x]) = 1 /\ Head(body[x]).src = x
            BY <1>1, <4>3 DEF AddressInv
          <6>2. Head(body[x]) = body[x][1] /\ DOMAIN body[x] = 1 .. Len(body[x])
            BY <1>3, <4>3, PopLemma
          <6> QED
            BY <6>1, <6>2
        <5> QED
          BY <4>3, <5>1 DEF Between
      <4> QED
        BY <2>2, <4>1, <4>2, <4>3 DEF Sends, Msg
    <3>3. CASE s = x /\ d = y
      <4>1. /\ DOMAIN chan'[s][d] = 1 .. Len(chan[x][y]) + 1 /\ Len(chan[x][y]) \in Nat
            /\ DOMAIN chan[x][y] = 1 .. Len(chan[x][y])
            /\ \A j \in 1 .. Len(chan[x][y]) : chan'[s][d][j] = chan[x][y][j]
            /\ chan'[s][d][Len(chan[x][y]) + 1] = m
        <5>1. chan'[s][d] = Append(chan[x][y], m) /\ chan[x][y] \in Seq(Message)
          BY <1>3, <3>1, <3>3
        <5> QED
          BY <5>1, AppendedTo
      <4>2. CASE i = Len(chan[x][y]) + 1
        BY <3>2, <3>3, <4>1, <4>2
      <4>3. CASE i \in 1 .. Len(chan[x][y])
        BY <2>1, <3>3, <4>1, <4>3
      <4> QED
        BY <4>1, <4>2, <4>3
    <3> QED
      BY <2>1, <3>1, <3>3
  <2>3. ASSUME NEW x \in Rank, NEW y \in Rank, Takes(x, y),
               NEW s \in Rank, NEW d \in Rank, NEW i \in DOMAIN chan'[s][d]
        PROVE  Between(chan'[s][d][i].calls, s, d)
    <3>1. /\ \A u, v \in Rank :
               chan'[u][v] = IF u = x /\ v = y THEN Tail(chan[x][y]) ELSE chan[u][v]
          /\ chan[x][y] # <<>>
      <4>1. Received(x, y) /\ chan[x][y] # <<>>
        BY <2>3 DEF Takes, Received
      <4> QED
        BY <1>1, <4>1, ReceivedEffect
    <3>2. CASE s = x /\ d = y
      <4>1. chan[x][y] \in Seq(Message)
        BY <1>3
      <4>2. /\ DOMAIN Tail(chan[x][y]) = 1 .. Len(chan[x][y]) - 1
            /\ DOMAIN chan[x][y] = 1 .. Len(chan[x][y]) /\ Len(chan[x][y]) \in Nat \ {0}
            /\ \A j \in 1 .. Len(chan[x][y]) - 1 : Tail(chan[x][y])[j] = chan[x][y][j + 1]
        BY <3>1, <4>1, PopLemma
      <4>3. i \in 1 .. Len(chan[x][y]) - 1 /\ chan'[s][d][i] = chan[x][y][i + 1]
            /\ i + 1 \in DOMAIN chan[x][y]
        <5>1. chan'[s][d] = Tail(chan[x][y])
          BY <3>1, <3>2
        <5>2. i \in 1 .. Len(chan[x][y]) - 1
          BY <4>2, <5>1
        <5> QED
          BY <4>2, <5>1, <5>2
      <4> QED
        BY <2>1, <3>2, <4>3
    <3> QED
      BY <2>1, <3>1, <3>2
  <2>4. CASE UNCHANGED chan
    BY <2>1, <2>4
  <2> QED
    BY <1>2, <2>2, <2>3, <2>4
<1>6. \A r \in Rank : body'[r] # <<>> => /\ Len(body'[r]) = 1
                                         /\ Head(body'[r]).src = r /\ Head(body'[r]).dst # r
  <2>1. \A r \in Rank : body[r] # <<>> => /\ Len(body[r]) = 1
                                          /\ Head(body[r]).src = r /\ Head(body[r]).dst # r
    BY <1>1 DEF AddressInv
  <2>2. body \in [Rank -> Seq(Call)]
    BY <1>1 DEF CommTypeOK
  <2>3. ASSUME NEW x \in Rank, NEW y \in Rank, NEW m \in Message, Sends(x, y, m), NEW r \in Rank
        PROVE  body'[r] # <<>> => /\ Len(body'[r]) = 1
                                  /\ Head(body'[r]).src = r /\ Head(body'[r]).dst # r
    <3>1. CASE UNCHANGED body
      BY <2>1, <3>1
    <3>2. CASE body' = [body EXCEPT ![x] = <<>>]
      BY <2>1, <2>2, <3>2
    <3>3. ASSUME x # y, NEW c \in Call, c.src = x, c.dst = y, body' = [body EXCEPT ![x] = <<c>>]
          PROVE  body'[r] # <<>> => /\ Len(body'[r]) = 1
                                    /\ Head(body'[r]).src = r /\ Head(body'[r]).dst # r
      <4>1. Len(<<c>>) = 1 /\ Head(<<c>>) = c
        OBVIOUS
      <4>2. body'[r] = IF r = x THEN <<c>> ELSE body[r]
        BY <2>2, <3>3
      <4> QED
        BY <2>1, <3>3, <4>1, <4>2
    <3> QED
      BY <2>3, <3>1, <3>2, <3>3 DEF Sends
  <2>4. CASE UNCHANGED body
    BY <2>1, <2>4
  <2> QED
    BY <1>2, <2>3, <2>4 DEF Takes, Received
<1> DEFINE Queued(b, r) == b # <<>> /\ \A j \in DOMAIN b : b[j].dst = r /\ b[j].src # r
<1>7. \A r \in Rank : \A i \in DOMAIN queue'[r] : Queued(queue'[r][i], r)
  <2>1. \A r \in Rank : \A i \in DOMAIN queue[r] : Queued(queue[r][i], r)
    BY <1>1 DEF AddressInv
  <2>2. queue \in [Rank -> Seq(Seq(Call))]
    BY <1>1 DEF CommTypeOK
  <2>3. CASE UNCHANGED queue
    BY <2>1, <2>3
  <2>4. ASSUME NEW x \in Rank, TakeBuffer(x), NEW r \in Rank, NEW i \in DOMAIN queue'[r]
        PROVE  Queued(queue'[r][i], r)
    <3>1. /\ queue[x] \in Seq(Seq(Call)) /\ queue[x] # <<>> /\ queue'[x] = Tail(queue[x])
          /\ \A z \in Rank : z # x => queue'[z] = queue[z]
      BY <1>1, <2>4, TakeEffect
    <3>2. CASE r = x
      <4>1. /\ DOMAIN Tail(queue[x]) = 1 .. Len(queue[x]) - 1
            /\ DOMAIN queue[x] = 1 .. Len(queue[x]) /\ Len(queue[x]) \in Nat \ {0}
            /\ \A j \in 1 .. Len(queue[x]) - 1 : Tail(queue[x])[j] = queue[x][j + 1]
        BY <3>1, PopLemma
      <4>2. queue'[r][i] = queue[x][i + 1] /\ i + 1 \in DOMAIN queue[x]
        <5>1. queue'[r] = Tail(queue[x])
          BY <3>1, <3>2
        <5>2. i \in 1 .. Len(queue[x]) - 1
          BY <4>1, <5>1
        <5> QED
          BY <4>1, <5>1, <5>2
      <4> QED
        BY <2>1, <3>2, <4>2
    <3> QED
      BY <2>1, <3>1, <3>2
  <2>5. ASSUME NEW x \in Rank, NEW y \in Rank, Takes(x, y), NEW r \in Rank, NEW i \in DOMAIN queue'[r]
        PROVE  Queued(queue'[r][i], r)
    <3> DEFINE b == chan[x][y][1].calls
    <3>1. CASE queue' = [queue EXCEPT ![y] = Append(queue[y], b)] /\ x # y
                 /\ chan[x][y][1].tag \in {"data", "body"} /\ chan[x][y] # <<>>
      <4>1. chan[x][y] \in Seq(Message)
        BY <1>3
      <4>2. 1 \in DOMAIN chan[x][y] /\ chan[x][y][1] \in Message
        BY <3>1, <4>1, PopLemma
      <4>3. InOrder(chan[x][y], Coming(x, y), listener[y] = x)
        BY <1>1, <3>1 DEF MessageInv
      <4>4. b # <<>>
        BY <3>1, <4>2, <4>3 DEF InOrder
      <4>5. Between(b, x, y) /\ b \in Seq(Call)
        BY <1>1, <4>2 DEF AddressInv, Message
      <4>6. queue[y] \in Seq(Seq(Call))
        BY <2>2
      <4>7. /\ DOMAIN Append(queue[y], b) = 1 .. Len(queue[y]) + 1 /\ Len(queue[y]) \in Nat
            /\ DOMAIN queue[y] = 1 .. Len(queue[y])
            /\ \A j \in 1 .. Len(queue[y]) : Append(queue[y], b)[j] = queue[y][j]
            /\ Append(queue[y], b)[Len(queue[y]) + 1] = b
        BY <4>5, <4>6, AppendedTo
      <4>8. queue'[r] = IF r = y THEN Append(queue[y], b) ELSE queue[r]
        BY <2>2, <3>1
      <4>9. CASE r = y /\ i = Len(queue[y]) + 1
        <5>1. Queued(b, y)
          BY <3>1, <4>4, <4>5 DEF Between
        <5>2. queue'[r][i] = b
          BY <4>7, <4>8, <4>9
        <5> QED
          BY <4>9, <5>1, <5>2
      <4>10. CASE r = y /\ i \in 1 .. Len(queue[y])
        BY <2>1, <4>7, <4>8, <4>10, SMTT(30)
      <4>11. CASE r # y
        BY <2>1, <4>8, <4>11
      <4>12. r = y => i \in 1 .. Len(queue[y]) \/ i = Len(queue[y]) + 1
        BY <4>7, <4>8
      <4> HIDE DEF Queued
      <4> QED
        BY <4>9, <4>10, <4>11, <4>12
    <3>2. CASE UNCHANGED queue
      BY <2>1, <3>2
    <3> QED
      BY <2>5, <3>1, <3>2 DEF Takes, Received
  <2> QED
    BY <1>2, <2>3, <2>4, <2>5 DEF Sends
<1>8. \A r \in Rank : \A a \in DOMAIN act'[r] :
        \A j \in DOMAIN act'[r][a].buf : act'[r][a].buf[j].dst = r
  <2>1. \A r \in Rank : \A a \in DOMAIN act[r] :
          \A j \in DOMAIN act[r][a].buf : act[r][a].buf[j].dst = r
    BY <1>1 DEF AddressInv
  <2>2. CASE UNCHANGED act
    BY <2>1, <2>2
  <2>3. ASSUME NEW x \in Rank, \A r \in Rank : r # x => act'[r] = act[r],
               NEW r \in Rank, r # x, NEW a \in DOMAIN act'[r], NEW j \in DOMAIN act'[r][a].buf
        PROVE  act'[r][a].buf[j].dst = r
    BY <2>1, <2>3
  <2>4. ASSUME NEW x \in Rank, Opens(x) PROVE \A r \in Rank : r # x => act'[r] = act[r]
    <3>1. act' = [act EXCEPT ![x] = <<Activation>> \o act[x]]
      BY <2>4 DEF Opens
    <3> QED
      BY <1>1, <3>1, PushEffect
  <2>5. ASSUME NEW x \in Rank, Opens(x), NEW a \in DOMAIN act'[x], NEW j \in DOMAIN act'[x][a].buf
        PROVE  act'[x][a].buf[j].dst = x
    <3>1. act' = [act EXCEPT ![x] = <<Activation>> \o act[x]]
      BY <2>5 DEF Opens
    <3>2. /\ act'[x] \in Seq(Frame) /\ Len(act[x]) \in Nat /\ Len(act'[x]) = Len(act[x]) + 1
          /\ act'[x][1] = Activation
          /\ \A i \in 2 .. Len(act[x]) + 1 : act'[x][i] = act[x][i - 1]
      BY <1>1, <3>1, PushEffect
    <3>3. a \in 1 .. Len(act[x]) + 1
      BY <3>2
    <3>4. a # 1
      BY <3>2 DEF Activation
    <3>5. act'[x][a] = act[x][a - 1] /\ a - 1 \in 1 .. Len(act[x])
      BY <3>2, <3>3, <3>4
    <3>6. DOMAIN act[x] = 1 .. Len(act[x])
      BY <1>1, TypeFacts
    <3> QED
      BY <2>1, <3>5, <3>6
  <2>6. ASSUME NEW x \in Rank, Drained(x)
        PROVE  /\ \A r \in Rank : r # x => act'[r] = act[r]
               /\ \A a \in DOMAIN act'[x] : \A j \in DOMAIN act'[x][a].buf :
                    act'[x][a].buf[j].dst = x
    <3>1. act[x] # <<>> /\ act' = [act EXCEPT ![x] = Tail(@)]
      BY <2>6 DEF Drained
    <3>2. /\ act'[x] \in Seq(Frame) /\ act[x] \in Seq(Frame)
          /\ \A r \in Rank : r # x => act'[r] = act[r]
          /\ Len(act[x]) \in Nat \ {0} /\ Len(act'[x]) = Len(act[x]) - 1
          /\ \A i \in 1 .. Len(act[x]) - 1 : act'[x][i] = act[x][i + 1]
      BY <1>1, <3>1, PopEffect
    <3>3. ASSUME NEW a \in DOMAIN act'[x], NEW j \in DOMAIN act'[x][a].buf
          PROVE  act'[x][a].buf[j].dst = x
      <4>1. a \in 1 .. Len(act[x]) - 1
        BY <3>2
      <4>2. act'[x][a] = act[x][a + 1] /\ a + 1 \in DOMAIN act[x]
        BY <3>2, <4>1
      <4> QED
        BY <2>1, <4>2
    <3> QED
      BY <3>2, <3>3
  <2>7. ASSUME NEW x \in Rank, HandlerReturns(x)
        PROVE  /\ \A r \in Rank : r # x => act'[r] = act[r]
               /\ \A a \in DOMAIN act'[x] : \A j \in DOMAIN act'[x][a].buf :
                    act'[x][a].buf[j].dst = x
    <3>1. /\ act[x] # <<>> /\ act[x][1].buf # <<>>
          /\ act' = [act EXCEPT ![x][1].buf = Tail(@)]
      BY <2>7, RunningFrame DEF HandlerReturns
    <3>2. /\ act'[x] \in Seq(Frame) /\ act[x] \in Seq(Frame) /\ act[x][1] \in Frame
          /\ \A r \in Rank : r # x => act'[r] = act[r]
          /\ Len(act[x]) \in Nat \ {0} /\ Len(act'[x]) = Len(act[x])
          /\ act'[x][1].buf = Tail(act[x][1].buf)
          /\ \A i \in 2 .. Len(act[x]) : act'[x][i] = act[x][i]
      BY <1>1, <3>1, ReturnEffect
    <3>3. ASSUME NEW a \in DOMAIN act'[x], NEW j \in DOMAIN act'[x][a].buf
          PROVE  act'[x][a].buf[j].dst = x
      <4>1. a \in 1 .. Len(act[x]) /\ a \in DOMAIN act[x] /\ 1 \in DOMAIN act[x]
        BY <3>2
      <4>2. CASE a = 1
        <5>1. act[x][1].buf \in Seq(Call)
          BY <3>2 DEF Frame
        <5>2. /\ DOMAIN Tail(act[x][1].buf) = 1 .. Len(act[x][1].buf) - 1
              /\ DOMAIN act[x][1].buf = 1 .. Len(act[x][1].buf)
              /\ Len(act[x][1].buf) \in Nat \ {0}
              /\ \A i \in 1 .. Len(act[x][1].buf) - 1 :
                   Tail(act[x][1].buf)[i] = act[x][1].buf[i + 1]
          BY <3>1, <5>1, PopLemma
        <5>3. j \in 1 .. Len(act[x][1].buf) - 1
          BY <3>2, <4>2, <5>2
        <5>5. act'[x][a].buf = Tail(act[x][1].buf)
          BY <3>2, <4>2
        <5>4. act'[x][a].buf[j] = act[x][1].buf[j + 1] /\ j + 1 \in DOMAIN act[x][1].buf
          BY <5>2, <5>3, <5>5
        <5> QED
          BY <2>1, <4>1, <5>4
      <4>3. CASE a # 1
        BY <2>1, <3>2, <4>1, <4>3
      <4> QED
        BY <4>2, <4>3
    <3> QED
      BY <3>2, <3>3
  <2>8. ASSUME NEW x \in Rank, TakeBuffer(x)
        PROVE  /\ \A r \in Rank : r # x => act'[r] = act[r]
               /\ \A a \in DOMAIN act'[x] : \A j \in DOMAIN act'[x][a].buf :
                    act'[x][a].buf[j].dst = x
    <3>1. /\ act'[x] \in Seq(Frame) /\ act[x] \in Seq(Frame)
          /\ queue[x] \in Seq(Seq(Call)) /\ queue[x] # <<>> /\ Head(queue[x]) = queue[x][1]
          /\ \A r \in Rank : r # x => act'[r] = act[r]
          /\ Len(act[x]) \in Nat \ {0} /\ Len(act'[x]) = Len(act[x])
          /\ act'[x][1] = [buf |-> Head(queue[x]), received |-> TRUE]
          /\ \A i \in 2 .. Len(act[x]) : act'[x][i] = act[x][i]
      BY <1>1, <2>8, TakeEffect
    <3>2. 1 \in DOMAIN queue[x]
      BY <3>1, PopLemma
    <3>3. \A j \in DOMAIN queue[x][1] : queue[x][1][j].dst = x
      BY <1>1, <3>2 DEF AddressInv
    <3>4. act'[x][1].buf = queue[x][1]
      BY <3>1
    <3>5. ASSUME NEW a \in DOMAIN act'[x], NEW j \in DOMAIN act'[x][a].buf
          PROVE  act'[x][a].buf[j].dst = x
      <4>1. a \in 1 .. Len(act[x]) /\ a \in DOMAIN act[x]
        BY <3>1
      <4>2. CASE a = 1
        BY <3>3, <3>4, <4>2
      <4>3. CASE a # 1
        BY <2>1, <3>1, <4>1, <4>3
      <4> QED
        BY <4>2, <4>3
    <3> QED
      BY <3>1, <3>5
  <2>9. ASSUME NEW x \in Rank, TakeBuffer(x) \/ Drained(x) \/ HandlerReturns(x) \/ Opens(x)
        PROVE  \A r \in Rank : \A a \in DOMAIN act'[r] :
                 \A j \in DOMAIN act'[r][a].buf : act'[r][a].buf[j].dst = r
    <3>1. \A r \in Rank : r # x => act'[r] = act[r]
      BY <2>4, <2>6, <2>7, <2>8, <2>9
    <3>2. \A a \in DOMAIN act'[x] : \A j \in DOMAIN act'[x][a].buf : act'[x][a].buf[j].dst = x
      BY <2>5, <2>6, <2>7, <2>8, <2>9
    <3> QED
      BY <2>1, <3>1, <3>2
  <2> QED
    BY <1>2, <2>2, <2>9
<1> QED
  BY <1>4, <1>5, <1>6, <1>7, <1>8 DEF AddressInv
-----------------------------------------------------------------------------
Late == {"join", "sync", "freed"}

LEMMA LateStays == TInv /\ [CommNext]_commVars => \A r \in Rank : life[r] \in Late => life'[r] \in Late
<1> SUFFICES ASSUME TInv, [CommNext]_commVars, NEW r \in Rank, life[r] \in Late
             PROVE  life'[r] \in Late
  OBVIOUS
<1>1. life \in [Rank -> Life] /\ life[r] \notin {"up", "world", "barrier"}
  BY DEF TInv, CommTypeOK, Late
<1>2. ASSUME NEW x \in Rank, Progress(x) PROVE life'[r] \in Late
  <2>1. CASE \/ FinishLarge(x) \/ TakeBuffer(x) \/ Drained(x) \/ StartHandler(x)
             \/ HandlerReturns(x) \/ Flush(x) \/ Reduce(x)
    BY <2>1 DEF FinishLarge, TakeBuffer, Drained, StartHandler, HandlerReturns, Flush, Reduce
  <2>2. CASE LastBarrier(x) \/ Kill(x) \/ Join(x) \/ Free(x)
    BY <2>2, <1>1 DEF LastBarrier, Kill, Join, Free, Late
  <2> QED
    BY <1>2, <2>1, <2>2 DEF Progress
<1>3. ASSUME NEW x \in Rank, Program(x) PROVE life'[r] \in Late
  <2>1. CASE Destroy(x)
    BY <2>1, <1>1 DEF Destroy, InProgram, Late
  <2>2. CASE Peek(x) \/ Poll(x) \/ Barrier(x)
    BY <2>2 DEF Peek, Poll, Barrier
  <2>3. ASSUME NEW d \in Rank \ {x}, CallSmall(x, d) \/ CallLarge(x, d) \/ CallFlush(x, d)
        PROVE  life'[r] \in Late
    BY <2>3 DEF CallSmall, CallLarge, CallFlush
  <2> QED
    BY <1>3, <2>1, <2>2, <2>3 DEF Program
<1>4. ASSUME NEW x \in Rank, Listener(x) PROVE life'[r] \in Late
  BY <1>4 DEF Listener
<1>5. CASE Ended \/ UNCHANGED commVars
  BY <1>5 DEF Ended, commVars
<1> QED
  BY <1>2, <1>3, <1>4, <1>5 DEF CommNext

LEMMA SendsComing ==
  ASSUME TInv, NEW x \in Rank, NEW y \in Rank, NEW m \in Message, Sends(x, y, m),
         NEW s \in Rank, NEW d \in Rank, s # d
  PROVE  /\ s # x \/ d # y => (Coming(s, d)' <=> Coming(s, d))
         /\ s = x /\ d = y =>
              /\ Len(m.calls) <= Cap
              /\ \/ m.tag = "data" /\ m.calls # <<>> /\ ~Coming(s, d) /\ ~Coming(s, d)'
                 \/ m.tag = "announce" /\ m.calls = <<>> /\ ~Coming(s, d) /\ Coming(s, d)'
                 \/ m.tag = "body" /\ m.calls # <<>> /\ Coming(s, d) /\ ~Coming(s, d)'
<1>1. body \in [Rank -> Seq(Call)]
  BY DEF TInv, CommTypeOK
<1>2. CASE /\ m = Msg("data", sendBuf[x][y]) /\ sendBuf[x][y] # <<>> /\ body[x] = <<>>
           /\ UNCHANGED body
  <2>1. Len(sendBuf[x][y]) <= Cap
    BY DEF TInv, AddressInv
  <2> QED
    BY <1>2, <2>1 DEF Coming, Msg
<1>3. ASSUME x # y, m = Msg("announce", <<>>), body[x] = <<>>, NEW c \in Call,
             c.src = x, c.dst = y, body' = [body EXCEPT ![x] = <<c>>]
      PROVE  /\ s # x \/ d # y => (Coming(s, d)' <=> Coming(s, d))
             /\ s = x /\ d = y =>
                  /\ Len(m.calls) <= Cap
                  /\ m.tag = "announce" /\ m.calls = <<>> /\ ~Coming(s, d) /\ Coming(s, d)'
  <2>1. Len(<<>>) <= Cap /\ <<c>> # <<>> /\ Head(<<c>>) = c
    BY TransportAssumption
  <2>2. body'[s] = IF s = x THEN <<c>> ELSE body[s]
    BY <1>1, <1>3
  <2>3. m.tag = "announce" /\ m.calls = <<>>
    BY <1>3 DEF Msg
  <2> QED
    BY <1>3, <2>1, <2>2, <2>3 DEF Coming
<1>4. CASE /\ m = Msg("body", body[x]) /\ body[x] # <<>> /\ y = Head(body[x]).dst
           /\ body' = [body EXCEPT ![x] = <<>>]
  <2>1. Len(body[x]) <= Cap
    <3>1. Len(body[x]) = 1
      BY <1>4 DEF TInv, AddressInv
    <3> QED
      BY <3>1, TransportAssumption
  <2>2. body'[s] = IF s = x THEN <<>> ELSE body[s]
    BY <1>1, <1>4
  <2> QED
    BY <1>4, <2>1, <2>2 DEF Coming, Msg
<1>5. CASE x = y /\ UNCHANGED body
  BY <1>5 DEF Coming
<1> QED
  BY <1>2, <1>3, <1>4, <1>5 DEF Sends

LEMMA MessageStep == TInv /\ IInv /\ IInv' /\ [CommNext]_commVars => MessageInv'
<1> SUFFICES ASSUME TInv, IInv, IInv', [CommNext]_commVars PROVE MessageInv'
  OBVIOUS
<1>1. CommTypeOK /\ AddressInv /\ MessageInv
  BY DEF TInv
<1>2. /\ \/ \E s, d \in Rank : \E m \in Message : Sends(s, d, m)
         \/ \E s, d \in Rank : Takes(s, d)
         \/ \E r \in Rank : TakeBuffer(r) /\ UNCHANGED <<chan, body, listener>>
         \/ UNCHANGED <<chan, body, listener, queue>>
  BY WireSteps
<1>3. \A s, d \in Rank : chan[s][d] \in Seq(Message)
  BY <1>1, TypeFacts
<1>4. listener \in [Rank -> Rank \cup {AnySource, Off}]
  BY <1>1 DEF CommTypeOK
<1>5. \A r \in Rank : life[r] \in Late => life'[r] \in Late
  BY LateStays
<1>6. \A s, d \in Rank : s # d => InOrder(chan[s][d], Coming(s, d), listener[d] = s)
  BY <1>1 DEF MessageInv
<1>7. \A r \in Rank :
       /\ chan[r][r] = <<>> \/ chan[r][r] = <<Msg("kill", <<>>)>>
       /\ chan[r][r] # <<>> \/ listener[r] = Off => life[r] \in Late
       /\ listener[r] = Off => chan[r][r] = <<>>
       /\ listener[r] # r
  BY <1>1 DEF MessageInv, Late
<1> DEFINE Own(r) ==
       /\ chan'[r][r] = <<>> \/ chan'[r][r] = <<Msg("kill", <<>>)>>
       /\ chan'[r][r] # <<>> \/ listener'[r] = Off => life'[r] \in Late
       /\ listener'[r] = Off => chan'[r][r] = <<>>
       /\ listener'[r] # r
<1>8. ASSUME UNCHANGED <<chan, body, listener>>
      PROVE  /\ \A s, d \in Rank : s # d => InOrder(chan'[s][d], Coming(s, d)', listener'[d] = s)
             /\ \A r \in Rank : Own(r)
  BY <1>5, <1>6, <1>7, <1>8 DEF Coming
<1>9. ASSUME NEW x \in Rank, NEW y \in Rank, NEW m \in Message, Sends(x, y, m)
      PROVE  /\ \A s, d \in Rank : s # d => InOrder(chan'[s][d], Coming(s, d)', listener'[d] = s)
             /\ \A r \in Rank : Own(r)
  <2>1. \A u, v \in Rank :
          chan'[u][v] = IF u = x /\ v = y THEN Append(chan[x][y], m) ELSE chan[u][v]
    BY <1>1, <1>9, SentEffect DEF Sends
  <2>2. UNCHANGED listener
    BY <1>9 DEF Sends
  <2>3. ASSUME NEW s \in Rank, NEW d \in Rank, s # d
        PROVE  InOrder(chan'[s][d], Coming(s, d)', listener'[d] = s)
    <3>1. CASE s = x /\ d = y
      <4> DEFINE C == chan[x][y]
                 coming == Coming(x, y)
                 coming2 == Coming(x, y)'
                 awaited == listener[y] = x
      <4>1. C \in Seq(Message)
        BY <1>3
      <4>2. InOrder(C, coming, awaited)
        BY <1>6, <2>3, <3>1
      <4>3. /\ Len(m.calls) <= Cap
            /\ \/ m.tag = "data" /\ m.calls # <<>> /\ ~coming /\ ~coming2
               \/ m.tag = "announce" /\ m.calls = <<>> /\ ~coming /\ coming2
               \/ m.tag = "body" /\ m.calls # <<>> /\ coming /\ ~coming2
        BY <1>9, <2>3, <3>1, SendsComing
      <4>5. InOrder(Append(C, m), coming2, awaited)
        <5> HIDE DEF C, coming, coming2, awaited
        <5> QED
          BY <4>1, <4>2, <4>3, SentInOrder
      <4> QED
        BY <2>1, <2>2, <3>1, <4>5
    <3>2. CASE s # x \/ d # y
      <4>1. Coming(s, d)' <=> Coming(s, d)
        BY <1>9, <2>3, <3>2, SendsComing
      <4>2. chan'[s][d] = chan[s][d]
        BY <2>1, <3>2
      <4>3. InOrder(chan[s][d], Coming(s, d), listener[d] = s)
        BY <1>6, <2>3
      <4> QED
        BY <2>2, <4>1, <4>2, <4>3 DEF InOrder
    <3> QED
      BY <3>1, <3>2
  <2>4. ASSUME NEW r \in Rank PROVE Own(r)
    <3>1. CASE r = x /\ r = y
      <4>1. m = Msg("kill", <<>>) /\ Kill(r)
        <5>1. CASE m = Msg("body", body[x]) /\ body[x] # <<>> /\ y = Head(body[x]).dst
          BY <5>1, <3>1, <1>1 DEF AddressInv
        <5> QED
          BY <1>9, <3>1, <5>1 DEF Sends
      <4>2. life[r] \notin Late /\ life' = [life EXCEPT ![r] = "join"]
        BY <4>1 DEF Kill, Late
      <4>3. chan[r][r] = <<>> /\ listener[r] # Off
        BY <1>7, <4>2
      <4>4. chan'[r][r] = <<Msg("kill", <<>>)>>
        <5>1. chan'[r][r] = Append(<<>>, m)
          BY <2>1, <3>1, <4>3
        <5> QED
          BY <4>1, <5>1
      <4>5. life'[r] \in Late
        BY <4>2, <1>1 DEF CommTypeOK, Late
      <4> QED
        BY <1>7, <2>2, <4>3, <4>4, <4>5
    <3>2. CASE r # x \/ r # y
      <4>1. chan'[r][r] = chan[r][r]
        BY <2>1, <3>2
      <4> QED
        BY <1>5, <1>7, <2>2, <4>1
    <3> QED
      BY <3>1, <3>2
  <2> QED
    BY <2>3, <2>4
<1>10. ASSUME NEW x \in Rank, NEW y \in Rank, Takes(x, y)
       PROVE  /\ \A s, d \in Rank : s # d => InOrder(chan'[s][d], Coming(s, d)', listener'[d] = s)
              /\ \A r \in Rank : Own(r)
  <2>1. Received(x, y)
    BY <1>10 DEF Takes
  <2>2. \A u, v \in Rank :
          chan'[u][v] = IF u = x /\ v = y THEN Tail(chan[x][y]) ELSE chan[u][v]
    BY <1>1, <2>1, ReceivedEffect
  <2>3. chan[x][y] # <<>> /\ UNCHANGED body
    BY <2>1 DEF Received
  <2>4. \A s, d : Coming(s, d)' <=> Coming(s, d)
    BY <2>3 DEF Coming
  <2>5. /\ \A d \in Rank : d # y => listener'[d] = listener[d]
        /\ \/ /\ x # y /\ chan[x][y][1].tag = "announce" /\ listener[y] = AnySource
              /\ listener'[y] = x
           \/ x = y /\ listener[y] = AnySource /\ listener'[y] = Off
           \/ /\ x # y /\ chan[x][y][1].tag \in {"data", "body"}
              /\ listener[y] = IF chan[x][y][1].tag = "data" THEN AnySource ELSE x
              /\ listener'[y] = AnySource
    BY <1>4, <2>1 DEF Received
  <2>6. ASSUME NEW s \in Rank, NEW d \in Rank, s # d
        PROVE  InOrder(chan'[s][d], Coming(s, d)', listener'[d] = s)
    <3>1. CASE s = x /\ d = y
      <4> DEFINE C == chan[x][y]
                 coming == Coming(x, y)
                 awaited == listener[y] = x
                 awaited2 == listener'[y] = x
      <4>1. C \in Seq(Message) /\ C # <<>>
        BY <1>3, <2>3
      <4>2. InOrder(C, coming, awaited)
        BY <1>6, <2>6, <3>1
      <4>3. awaited \/ C[1].tag # "body"
        BY <2>5, <2>6, <3>1
      <4>4. awaited2 <=> C[1].tag = "announce"
        BY <2>5, <2>6, <3>1, RankFacts
      <4>5. InOrder(Tail(C), coming, awaited2)
        <5> HIDE DEF C, coming, awaited, awaited2
        <5> QED
          BY <4>1, <4>2, <4>3, <4>4, ReceivedInOrder
      <4>6. chan'[s][d] = Tail(C)
        BY <2>2, <3>1
      <4> QED
        BY <2>4, <3>1, <4>5, <4>6, SMTT(30) DEF InOrder
    <3>2. CASE s # x \/ d # y
      <4>1. listener'[d] = s <=> listener[d] = s
        BY <2>5, <3>2, RankFacts
      <4>2. chan'[s][d] = chan[s][d]
        BY <2>2, <3>2
      <4>3. InOrder(chan[s][d], Coming(s, d), listener[d] = s)
        BY <1>6, <2>6
      <4> QED
        BY <2>4, <4>1, <4>2, <4>3 DEF InOrder
    <3> QED
      BY <3>1, <3>2
  <2>7. ASSUME NEW r \in Rank PROVE Own(r)
    <3>1. CASE r = x /\ r = y
      <4>1. chan[r][r] = <<Msg("kill", <<>>)>>
        BY <1>7, <2>3, <3>1
      <4>2. chan'[r][r] = <<>>
        <5>1. chan'[r][r] = Tail(<<Msg("kill", <<>>)>>)
          BY <2>2, <3>1, <4>1
        <5> QED
          BY <5>1
      <4>3. listener'[r] = Off /\ life'[r] \in Late
        BY <1>5, <1>7, <2>3, <2>5, <3>1
      <4> QED
        BY <4>2, <4>3, RankFacts
    <3>2. CASE r # x \/ r # y
      <4>1. chan'[r][r] = chan[r][r]
        BY <2>2, <3>2
      <4>2. CASE r # y
        BY <1>5, <1>7, <2>5, <4>1, <4>2
      <4>3. CASE r = y /\ x # y
        BY <1>5, <1>7, <2>5, <4>1, <4>3, RankFacts
      <4> QED
        BY <3>2, <4>2, <4>3
    <3> QED
      BY <3>1, <3>2
  <2> QED
    BY <2>6, <2>7
<1>11. /\ \A s, d \in Rank : s # d => InOrder(chan'[s][d], Coming(s, d)', listener'[d] = s)
       /\ \A r \in Rank : Own(r)
  <2> HIDE DEF Own
  <2> QED
    BY <1>2, <1>8, <1>9, <1>10
<1>12. \A s, d \in Rank : s # d => InOrder(chan[s][d], Coming(s, d), listener[d] = s)'
  BY <1>11 DEF InOrder
<1> QED
  BY <1>11, <1>12 DEF MessageInv, Late
-----------------------------------------------------------------------------
LEMMA OthersStay ==
  ASSUME TInv, IInv, NEW r \in Rank, OpenSteps(r) \/ QuietSteps(r) \/ Kill(r),
         NEW x \in Rank, x # r
  PROVE  pc'[x] = pc[x] /\ life'[x] = life[x] /\ wli'[x] = wli[x] /\ epoch'[x] = epoch[x]
<1>1. pc \in [Rank -> Place] /\ epoch \in [Rank -> Nat]
  BY DEF IInv, TypeOK
<1>2. life \in [Rank -> Life] /\ wli \in [Rank -> {"first", "flush", "again", "out"}]
  BY DEF TInv, CommTypeOK
<1>3. CASE Reduce(r)
  BY <1>1, <1>2, <1>3 DEF Reduce, First, Second, Leave, Throw, Restart, StartIdle, callVars
<1>4. CASE Peek(r) \/ Poll(r) \/ Flush(r)
  BY <1>1, <1>2, <1>4 DEF Peek, Poll, Flush, StartIdle, vars
<1>5. CASE Barrier(r) \/ LastBarrier(r)
  BY <1>1, <1>2, <1>5 DEF Barrier, LastBarrier, Enter, StartIdle
<1>6. CASE Kill(r) \/ Destroy(r) \/ Join(r) \/ Free(r)
  BY <1>1, <1>2, <1>6 DEF Kill, Destroy, Join, Free, vars
<1> QED
  BY <1>3, <1>4, <1>5, <1>6 DEF OpenSteps, QuietSteps

\* No large call is in the hands of a rank that does these.
LEMMA EmptyHands ==
  ASSUME TInv, IInv, NEW r \in Rank
  PROVE  /\ act[r] # <<>> /\ act[r][1].buf = <<>> => body[r] = <<>> /\ Len(act[r]) = Len(stack[r]) + 1
         /\ act[r] # <<>> /\ ~InHandler(r) => body[r] = <<>> /\ Len(act[r]) = Len(stack[r]) + 1
         /\ act[r] = <<>> /\ (pc[r] # "app" \/ life[r] # "up") => body[r] = <<>>
<1>1. body[r] # <<>> => InHandler(r) \/ InProgram(r)
  BY DEF TInv, HandlerInv
<1>2. InHandler(r) => act[r][1].buf # <<>>
  BY RunningFrame
<1>3. ~InHandler(r) /\ act[r] # <<>> => Len(act[r]) = Len(stack[r]) + 1
  BY IdleStack DEF InHandler
<1>4. InHandler(r) => act[r] # <<>>
  BY DEF InHandler
<1>5. InProgram(r) => act[r] = <<>> /\ pc[r] = "app" /\ life[r] = "up"
  BY DEF InProgram
<1> QED
  BY <1>1, <1>2, <1>3, <1>4, <1>5

LEMMA OpensQuiet == ASSUME TInv, IInv, NEW r \in Rank, OpenSteps(r) PROVE body[r] = <<>>
<1>1. CASE Peek(r) \/ Barrier(r)
  BY <1>1 DEF Peek, UserCode, Barrier
<1>2. CASE Poll(r)
  BY <1>2, EmptyHands DEF Poll, Idle
<1>3. CASE Reduce(r)
  <2>1. act[r] = <<>> /\ pc[r] # "app"
    BY <1>3 DEF Reduce, Idle, First, Second, Leave, Throw, Restart, AtAssert, Waiting
  <2> QED
    BY <2>1, EmptyHands
<1>4. CASE LastBarrier(r)
  <2>1. life[r] = "world" /\ pc[r] = "app"
    BY <1>4 DEF LastBarrier, Enter
  <2>2. act[r] = <<>>
    BY <2>1 DEF TInv, PlaceInv
  <2> QED
    BY <2>1, <2>2, EmptyHands
<1>5. CASE Flush(r)
  <2>1. wli[r] = "flush"
    BY <1>5 DEF Flush
  <2>2. act[r] = <<>> /\ pc[r] # "app"
    BY <2>1 DEF TInv, PlaceInv
  <2> QED
    BY <2>2, EmptyHands
<1> QED
  BY <1>1, <1>2, <1>3, <1>4, <1>5 DEF OpenSteps

\* HandlerInv of one rank.
HandlerAt(r) ==
  /\ Len(act[r]) - Len(stack[r]) \in {0, 1}
  /\ \A i \in DOMAIN stack[r] :
       /\ act[r][i + (Len(act[r]) - Len(stack[r]))].buf # <<>>
       /\ stack[r][i] = Head(act[r][i + (Len(act[r]) - Len(stack[r]))].buf)
  /\ \A a \in DOMAIN act[r] : act[r][a].buf # <<>> => act[r][a].received
  /\ body[r] # <<>> => InHandler(r) \/ InProgram(r)

LEMMA HandlerStep == TInv /\ IInv /\ IInv' /\ [CommNext]_commVars => HandlerInv'
<1> SUFFICES ASSUME TInv, IInv, IInv', [CommNext]_commVars PROVE \A x \in Rank : HandlerAt(x)'
  BY DEF HandlerAt, HandlerInv
<1>1. CommTypeOK /\ \A x \in Rank : HandlerAt(x)
  BY DEF TInv, HandlerInv, HandlerAt
<1>2. ASSUME NEW x \in Rank
      PROVE  /\ act[x] \in Seq(Frame) /\ stack[x] \in Seq(Call)
             /\ Len(act[x]) \in Nat /\ Len(stack[x]) \in Nat
             /\ DOMAIN act[x] = 1 .. Len(act[x]) /\ DOMAIN stack[x] = 1 .. Len(stack[x])
  <2>1. act[x] \in Seq(Frame) /\ stack[x] \in Seq(Call)
    BY <1>1, TypeFacts, IdleStack
  <2> QED
    BY <2>1
<1>3. ASSUME NEW x \in Rank, act'[x] = act[x], stack'[x] = stack[x],
             body'[x] = body[x] \/ body'[x] = <<>>,
             body'[x] # <<>> /\ InProgram(x) => InProgram(x)'
      PROVE  HandlerAt(x)'
  <2>1. InHandler(x)' <=> InHandler(x)
    BY <1>3 DEF InHandler
  <2> QED
    BY <1>1, <1>3, <2>1 DEF HandlerAt
<1>4. ASSUME UNCHANGED <<act, stack, body, pc, life>>, NEW x \in Rank PROVE HandlerAt(x)'
  BY <1>3, <1>4 DEF InProgram
<1>5. ASSUME NEW r \in Rank, NEW d \in Rank \ {r}, CallSmall(r, d) \/ CallLarge(r, d),
             NEW x \in Rank
      PROVE  HandlerAt(x)'
  <2>1. UNCHANGED <<act, stack, pc, life>> /\ (InHandler(r) \/ InProgram(r))
    BY <1>5 DEF CallSmall, CallLarge, Async, UserCode, collVars
  <2>2. InProgram(x)' <=> InProgram(x)
    BY <2>1 DEF InProgram
  <2>3. CASE body'[x] = body[x]
    BY <1>3, <2>1, <2>2, <2>3
  <2>4. CASE x = r
    <3>1. InHandler(x)' \/ InProgram(x)'
      BY <2>1, <2>2, <2>4 DEF InHandler
    <3> QED
      BY <1>1, <2>1, <3>1 DEF HandlerAt
  <2>5. x # r => body'[x] = body[x]
    <3>1. body \in [Rank -> Seq(Call)]
      BY <1>1 DEF CommTypeOK
    <3>2. CASE UNCHANGED body
      BY <3>2
    <3>3. CASE body' = [body EXCEPT ![r] = <<NewCall(r, d)>>]
      BY <3>1, <3>3
    <3> QED
      BY <1>5, <3>2, <3>3 DEF CallSmall, CallLarge, PutSmall, Announce, NewCall
  <2> QED
    BY <2>3, <2>4, <2>5
<1>6. ASSUME NEW r \in Rank, NEW d \in Rank \ {r}, Flushes(r, d), NEW x \in Rank
      PROVE  HandlerAt(x)'
  BY <1>4, <1>6 DEF Flushes, AsyncFlush, vars
<1>7. ASSUME NEW r \in Rank, FinishLarge(r), NEW x \in Rank PROVE HandlerAt(x)'
  <2>1. UNCHANGED <<act, stack, pc, life>> /\ body' = [body EXCEPT ![r] = <<>>]
    BY <1>7 DEF FinishLarge, SendBody, vars
  <2>2. body'[x] = body[x] \/ body'[x] = <<>>
    BY <1>1, <2>1 DEF CommTypeOK
  <2> QED
    BY <1>3, <2>1, <2>2 DEF InProgram
<1>8. ASSUME NEW r \in Rank, TakeBuffer(r), NEW x \in Rank PROVE HandlerAt(x)'
  <2>1. UNCHANGED <<stack, body, pc, life>>
    BY <1>8 DEF TakeBuffer, Pop, vars
  <2>2. /\ \A z \in Rank : z # r => act'[z] = act[z]
        /\ act'[r] \in Seq(Frame) /\ Len(act[r]) \in Nat \ {0} /\ Len(act'[r]) = Len(act[r])
        /\ act[r][1].buf = <<>>
        /\ act'[r][1].received = TRUE
        /\ \A i \in 2 .. Len(act[r]) : act'[r][i] = act[r][i]
    <3>1. /\ \A z \in Rank : z # r => act'[z] = act[z]
          /\ act'[r] \in Seq(Frame) /\ Len(act[r]) \in Nat \ {0} /\ Len(act'[r]) = Len(act[r])
          /\ act[r][1].buf = <<>>
          /\ act'[r][1] = [buf |-> Head(queue[r]), received |-> TRUE]
          /\ \A i \in 2 .. Len(act[r]) : act'[r][i] = act[r][i]
      BY <1>1, <1>8, TakeEffect
    <3> QED
      BY <3>1
  <2>3. CASE x # r
    <3>1. act'[x] = act[x]
      BY <2>2, <2>3
    <3> QED
      BY <1>3, <2>1, <3>1 DEF InProgram
  <2>4. CASE x = r
    <3>1. act[r] # <<>>
      BY <1>8 DEF TakeBuffer
    <3>2. body[r] = <<>> /\ Len(act[r]) = Len(stack[r]) + 1
      BY <2>2, <3>1, EmptyHands
    <3>3. ASSUME NEW i \in DOMAIN stack[r]
          PROVE  act'[r][i + 1].buf # <<>> /\ stack[r][i] = Head(act'[r][i + 1].buf)
      <4>1. i + 1 \in 2 .. Len(act[r])
        BY <1>2, <3>2
      <4>2. act[r][i + 1].buf # <<>> /\ stack[r][i] = Head(act[r][i + 1].buf)
        <5>1. Len(act[r]) - Len(stack[r]) = 1
          BY <1>2, <3>2
        <5> QED
          BY <1>1, <5>1 DEF HandlerAt
      <4> QED
        BY <2>2, <4>1, <4>2
    <3>4. ASSUME NEW a \in DOMAIN act'[r], act'[r][a].buf # <<>> PROVE act'[r][a].received
      <4>1. a \in 1 .. Len(act[r])
        BY <2>2
      <4>2. CASE a = 1
        BY <2>2, <4>2
      <4>3. CASE a # 1
        <5>1. act'[r][a] = act[r][a] /\ a \in DOMAIN act[r]
          BY <1>2, <2>2, <4>1, <4>3
        <5> QED
          BY <1>1, <3>4, <5>1 DEF HandlerAt
      <4> QED
        BY <4>2, <4>3
    <3>5. Len(act'[r]) - Len(stack'[r]) = 1
      BY <1>2, <2>1, <2>2, <3>2
    <3> QED
      BY <2>1, <2>4, <3>2, <3>3, <3>4, <3>5 DEF HandlerAt
  <2> QED
    BY <2>3, <2>4
<1>9. ASSUME NEW r \in Rank, Drained(r), NEW x \in Rank PROVE HandlerAt(x)'
  <2>1. UNCHANGED <<stack, body, pc, life>> /\ act[r] # <<>> /\ act[r][1].buf = <<>>
        /\ act' = [act EXCEPT ![r] = Tail(@)]
    BY <1>9 DEF Drained, vars, wireVars, Buf
  <2>2. /\ \A z \in Rank : z # r => act'[z] = act[z]
        /\ act'[r] \in Seq(Frame) /\ Len(act[r]) \in Nat \ {0}
        /\ Len(act'[r]) = Len(act[r]) - 1
        /\ \A i \in 1 .. Len(act[r]) - 1 : act'[r][i] = act[r][i + 1]
    BY <1>1, <2>1, PopEffect
  <2>3. CASE x # r
    <3>1. act'[x] = act[x]
      BY <2>2, <2>3
    <3> QED
      BY <1>3, <2>1, <3>1 DEF InProgram
  <2>4. CASE x = r
    <3>2. body[r] = <<>> /\ Len(act[r]) = Len(stack[r]) + 1
      BY <2>1, EmptyHands
    <3>3. ASSUME NEW i \in DOMAIN stack[r]
          PROVE  act'[r][i].buf # <<>> /\ stack[r][i] = Head(act'[r][i].buf)
      <4>1. i \in 1 .. Len(act[r]) - 1
        BY <1>2, <3>2
      <4>2. act[r][i + 1].buf # <<>> /\ stack[r][i] = Head(act[r][i + 1].buf)
        <5>1. Len(act[r]) - Len(stack[r]) = 1
          BY <1>2, <3>2
        <5> QED
          BY <1>1, <5>1 DEF HandlerAt
      <4> QED
        BY <2>2, <4>1, <4>2
    <3>4. ASSUME NEW a \in DOMAIN act'[r], act'[r][a].buf # <<>> PROVE act'[r][a].received
      <4>1. a \in 1 .. Len(act[r]) - 1
        BY <2>2
      <4>2. act'[r][a] = act[r][a + 1] /\ a + 1 \in DOMAIN act[r]
        BY <1>2, <2>2, <4>1
      <4> QED
        BY <1>1, <3>4, <4>2 DEF HandlerAt
    <3>5. Len(act'[r]) - Len(stack'[r]) = 0
      BY <1>2, <2>1, <2>2, <3>2
    <3>6. \A i \in DOMAIN stack[r] : i + 0 = i
      BY <1>2
    <3>7. stack'[r] = stack[r] /\ body'[r] = <<>>
      BY <2>1, <3>2
    <3>8. \A i \in DOMAIN stack'[r] :
            /\ act'[r][i + (Len(act'[r]) - Len(stack'[r]))].buf # <<>>
            /\ stack'[r][i] = Head(act'[r][i + (Len(act'[r]) - Len(stack'[r]))].buf)
      BY <3>3, <3>5, <3>6, <3>7
    <3>9. Len(act'[r]) - Len(stack'[r]) \in {0, 1}
      BY <3>5
    <3> QED
      BY <2>4, <3>4, <3>7, <3>8, <3>9, Zenon DEF HandlerAt
  <2> QED
    BY <2>3, <2>4
<1>10. ASSUME NEW r \in Rank, StartHandler(r), NEW x \in Rank PROVE HandlerAt(x)'
  <2> DEFINE m == Head(act[r][1].buf)
  <2>1. UNCHANGED <<act, body, pc, life>> /\ act[r] # <<>> /\ act[r][1].buf # <<>>
        /\ ~InHandler(r) /\ Begin(m)
    BY <1>10 DEF StartHandler, wireVars, Buf, Begin, collVars
  <2>2. /\ act[r][1] \in Frame /\ 1 \in DOMAIN act[r]
    BY <1>2, <2>1, PopLemma
  <2>3. m = act[r][1].buf[1] /\ 1 \in DOMAIN act[r][1].buf /\ m \in Call
    <3>1. act[r][1].buf \in Seq(Call)
      BY <2>2 DEF Frame
    <3> QED
      BY <2>1, <3>1, PopLemma
  <2>4. m.dst = r
    BY <2>2, <2>3 DEF TInv, AddressInv
  <2>5. stack' = [stack EXCEPT ![r] = <<m>> \o stack[r]]
    BY <2>1, <2>4 DEF Begin
  <2>6. stack \in [Rank -> Seq(Call)]
    BY DEF IInv, TypeOK
  <2> HIDE DEF m
  <2>7. CASE x # r
    <3>1. stack'[x] = stack[x]
      BY <2>5, <2>6, <2>7
    <3> QED
      BY <1>3, <2>1, <3>1 DEF InProgram
  <2>8. CASE x = r
    <3>1. body[r] = <<>> /\ Len(act[r]) = Len(stack[r]) + 1
      BY <2>1, EmptyHands
    <3> DEFINE b == <<m>> \o stack[r]
    <3>2. /\ b \in Seq(Call) /\ DOMAIN b = 1 .. Len(stack[r]) + 1 /\ b[1] = m
          /\ \A i \in 2 .. Len(stack[r]) + 1 : b[i] = stack[r][i - 1]
      BY <1>2, <2>3, PushLemma
    <3>3. stack'[r] = b /\ Len(b) = Len(stack[r]) + 1
      BY <1>2, <2>5, <2>6, <3>2, LenProperties
    <3> HIDE DEF b
    <3>4. ASSUME NEW i \in DOMAIN b
          PROVE  act[r][i].buf # <<>> /\ b[i] = Head(act[r][i].buf)
      <4>1. CASE i = 1
        BY <2>1, <3>2, <4>1 DEF m
      <4>2. CASE i # 1
        <5>1. i \in 2 .. Len(stack[r]) + 1 /\ i - 1 \in DOMAIN stack[r]
          BY <1>2, <3>2, <4>2
        <5>2. Len(act[r]) - Len(stack[r]) = 1 /\ (i - 1) + 1 = i
          BY <1>2, <3>1, <5>1
        <5>3. act[r][i].buf # <<>> /\ stack[r][i - 1] = Head(act[r][i].buf)
          <6>1. PICK k \in DOMAIN stack[r] : k = i - 1
            BY <5>1
          <6>2. k + (Len(act[r]) - Len(stack[r])) = i
            BY <1>2, <5>1, <5>2, <6>1
          <6>3. act[r][i].buf # <<>> /\ stack[r][k] = Head(act[r][i].buf)
            BY <1>1, <6>2 DEF HandlerAt
          <6> QED
            BY <6>1, <6>3
        <5> QED
          BY <3>2, <5>1, <5>3
      <4> QED
        BY <4>1, <4>2
    <3>5. Len(act'[r]) - Len(stack'[r]) = 0
      BY <1>2, <2>1, <3>1, <3>3
    <3>6. \A i \in DOMAIN b : i + 0 = i
      BY <1>2, <3>2
    <3>7. \A a \in DOMAIN act[r] : act[r][a].buf # <<>> => act[r][a].received
      BY <1>1 DEF HandlerAt
    <3> QED
      BY <2>1, <2>8, <3>1, <3>3, <3>4, <3>5, <3>6, <3>7 DEF HandlerAt
  <2> QED
    BY <2>7, <2>8
<1>11. ASSUME NEW r \in Rank, HandlerReturns(r), NEW x \in Rank PROVE HandlerAt(x)'
  <2>1. /\ UNCHANGED <<body, pc, life>> /\ body[r] = <<>> /\ InHandler(r)
        /\ act' = [act EXCEPT ![r][1].buf = Tail(@)]
        /\ stack' = [stack EXCEPT ![r] = Tail(@)]
    BY <1>11 DEF HandlerReturns, End, wireVars, collVars
  <2>2. /\ act[r] # <<>> /\ act[r][1].buf # <<>> /\ stack[r] # <<>>
    BY <2>1, RunningFrame
  <2>3. /\ \A z \in Rank : z # r => act'[z] = act[z]
        /\ act'[r] \in Seq(Frame) /\ Len(act[r]) \in Nat \ {0} /\ Len(act'[r]) = Len(act[r])
        /\ act'[r][1].received = act[r][1].received
        /\ \A i \in 2 .. Len(act[r]) : act'[r][i] = act[r][i]
    BY <1>1, <2>1, <2>2, ReturnEffect
  <2>4. stack \in [Rank -> Seq(Call)]
    BY DEF IInv, TypeOK
  <2>5. CASE x # r
    <3>1. act'[x] = act[x] /\ stack'[x] = stack[x]
      BY <2>1, <2>3, <2>4, <2>5
    <3> QED
      BY <1>3, <2>1, <3>1 DEF InProgram
  <2>6. CASE x = r
    <3>1. Len(act[r]) = Len(stack[r]) /\ stack[r] \in Seq(Call)
      BY <1>2, <2>1 DEF InHandler
    <3>2. stack'[r] = Tail(stack[r])
      BY <2>1, <2>4
    <3>3. /\ DOMAIN Tail(stack[r]) = 1 .. Len(stack[r]) - 1
          /\ \A i \in 1 .. Len(stack[r]) - 1 : Tail(stack[r])[i] = stack[r][i + 1]
      BY <2>2, <3>1, PopLemma
    <3>4. Len(Tail(stack[r])) = Len(stack[r]) - 1
      BY <2>2, <3>1, HeadTailProperties
    <3>5. ASSUME NEW i \in DOMAIN stack'[r]
          PROVE  act'[r][i + 1].buf # <<>> /\ stack'[r][i] = Head(act'[r][i + 1].buf)
      <4>1. i \in 1 .. Len(stack[r]) - 1
        BY <3>2, <3>3
      <4>2. i + 1 \in 2 .. Len(act[r]) /\ i + 1 \in DOMAIN stack[r]
        BY <1>2, <3>1, <4>1
      <4>3. Len(act[r]) - Len(stack[r]) = 0 /\ (i + 1) + 0 = i + 1
        BY <1>2, <3>1, <4>1
      <4>4. act[r][i + 1].buf # <<>> /\ stack[r][i + 1] = Head(act[r][i + 1].buf)
        BY <1>1, <4>2, <4>3 DEF HandlerAt
      <4> QED
        BY <2>3, <3>2, <3>3, <4>1, <4>2, <4>4
    <3>6. ASSUME NEW a \in DOMAIN act'[r], act'[r][a].buf # <<>> PROVE act'[r][a].received
      <4>1. a \in 1 .. Len(act[r]) /\ 1 \in DOMAIN act[r] /\ a \in DOMAIN act[r]
        BY <1>2, <2>3
      <4>2. CASE a = 1
        <5>1. act[r][1].received
          BY <1>1, <2>2, <4>1 DEF HandlerAt
        <5> QED
          BY <2>3, <4>2, <5>1
      <4>3. CASE a # 1
        <5>1. act'[r][a] = act[r][a]
          BY <2>3, <4>1, <4>3
        <5> QED
          BY <1>1, <3>6, <4>1, <5>1 DEF HandlerAt
      <4> QED
        BY <4>2, <4>3
    <3>7. Len(act'[r]) - Len(stack'[r]) = 1
      BY <1>2, <2>3, <3>1, <3>2, <3>4
    <3> QED
      BY <2>1, <2>6, <3>5, <3>6, <3>7 DEF HandlerAt
  <2> QED
    BY <2>5, <2>6
<1>12. ASSUME NEW r \in Rank, Kill(r), NEW x \in Rank PROVE HandlerAt(x)'
  <2>1. UNCHANGED <<act, stack, body, pc>> /\ life[r] # "up"
    BY <1>12 DEF Kill, SendKill, vars
  <2>2. x # r => life'[x] = life[x]
    BY <1>12, OthersStay
  <2>3. InProgram(x) => InProgram(x)'
    BY <2>1, <2>2 DEF InProgram
  <2> QED
    BY <1>3, <2>1, <2>3
<1>13. ASSUME NEW r \in Rank, Opens(r), OpenSteps(r), NEW x \in Rank PROVE HandlerAt(x)'
  <2>1. /\ UNCHANGED <<stack, body>> /\ Len(stack[r]) = Len(act[r])
        /\ act' = [act EXCEPT ![r] = <<Activation>> \o act[r]]
    BY <1>13 DEF Opens, Settled, wireVars
  <2>2. /\ act'[r] \in Seq(Frame) /\ \A z \in Rank : z # r => act'[z] = act[z]
        /\ Len(act'[r]) = Len(act[r]) + 1 /\ act'[r][1] = Activation
        /\ \A i \in 2 .. Len(act[r]) + 1 : act'[r][i] = act[r][i - 1]
    BY <1>1, <2>1, PushEffect
  <2>3. CASE x # r
    <3>1. act'[x] = act[x] /\ pc'[x] = pc[x] /\ life'[x] = life[x]
      BY <1>13, <2>2, <2>3, OthersStay
    <3> QED
      BY <1>3, <2>1, <3>1 DEF InProgram
  <2>4. CASE x = r
    <3>1. body[r] = <<>>
      BY <1>13, OpensQuiet
    <3>2. ASSUME NEW i \in DOMAIN stack[r]
          PROVE  act'[r][i + 1].buf # <<>> /\ stack[r][i] = Head(act'[r][i + 1].buf)
      <4>1. i + 1 \in 2 .. Len(act[r]) + 1 /\ (i + 1) - 1 = i
        BY <1>2, <2>1
      <4>2. Len(act[r]) - Len(stack[r]) = 0 /\ i + 0 = i
        BY <1>2, <2>1
      <4>3. act[r][i].buf # <<>> /\ stack[r][i] = Head(act[r][i].buf)
        BY <1>1, <4>2 DEF HandlerAt
      <4> QED
        BY <2>2, <4>1, <4>3
    <3>3. ASSUME NEW a \in DOMAIN act'[r], act'[r][a].buf # <<>> PROVE act'[r][a].received
      <4>1. a \in 1 .. Len(act[r]) + 1
        BY <1>2, <2>2
      <4>2. a # 1
        BY <2>2, <3>3 DEF Activation
      <4>3. act'[r][a] = act[r][a - 1] /\ a - 1 \in DOMAIN act[r]
        BY <1>2, <2>2, <4>1, <4>2
      <4> QED
        BY <1>1, <3>3, <4>3 DEF HandlerAt
    <3>4. Len(act'[r]) - Len(stack'[r]) = 1
      BY <1>2, <2>1, <2>2
    <3> QED
      BY <2>1, <2>4, <3>1, <3>2, <3>3, <3>4 DEF HandlerAt
  <2> QED
    BY <2>3, <2>4
<1>14. ASSUME NEW r \in Rank, UNCHANGED Settled, UNCHANGED act, QuietSteps(r), NEW x \in Rank
       PROVE  HandlerAt(x)'
  <2>1. UNCHANGED <<act, stack, body>>
    BY <1>14 DEF Settled, wireVars
  <2>2. x # r => pc'[x] = pc[x] /\ life'[x] = life[x]
    BY <1>14, OthersStay
  <2>3. body[r] # <<>> /\ InProgram(r) => InProgram(r)'
    BY <1>14 DEF QuietSteps, Destroy, Join, Free, Reduce, First, Second, Leave, Throw, Restart,
                 AtAssert, Waiting, InProgram
  <2>4. body'[x] # <<>> /\ InProgram(x) => InProgram(x)'
    BY <2>1, <2>2, <2>3 DEF InProgram
  <2> QED
    BY <1>3, <2>1, <2>4
<1>15. ASSUME NEW s \in Rank, NEW d \in Rank, Takes(s, d), NEW x \in Rank PROVE HandlerAt(x)'
  BY <1>4, <1>15 DEF Takes, Received, vars
<1>16. ASSUME UNCHANGED commVars, NEW x \in Rank PROVE HandlerAt(x)'
  BY <1>4, <1>16 DEF commVars, vars, wireVars
<1>17. \/ \E r \in Rank : \E d \in Rank \ {r} : CallSmall(r, d) \/ CallLarge(r, d)
       \/ \E r \in Rank : \E d \in Rank \ {r} : Flushes(r, d)
       \/ \E r \in Rank : \/ FinishLarge(r) \/ TakeBuffer(r) \/ Drained(r)
                           \/ StartHandler(r) \/ HandlerReturns(r) \/ Kill(r)
       \/ \E r \in Rank : Opens(r) /\ OpenSteps(r)
       \/ \E r \in Rank : UNCHANGED Settled /\ UNCHANGED act /\ QuietSteps(r)
       \/ \E s, d \in Rank : Takes(s, d)
       \/ UNCHANGED commVars
  BY Kinds
<1> QED
  BY <1>5, <1>6, <1>7, <1>8, <1>9, <1>10, <1>11, <1>12, <1>13, <1>14, <1>15, <1>16, <1>17
-----------------------------------------------------------------------------
\* The outermost buffer of a rank that runs a handler has been received.
LEMMA OutermostReceived ==
  ASSUME TInv, IInv, NEW r \in Rank, InHandler(r)
  PROVE  act[r] # <<>> /\ act[r][Len(act[r])].received
<1>1. act[r] # <<>> /\ Len(stack[r]) = Len(act[r]) /\ Len(act[r]) \in Nat /\ Len(act[r]) # 0
  BY IdleStack DEF InHandler
<1>2. act[r] \in Seq(Frame) /\ stack[r] \in Seq(Call)
  BY TypeFacts, IdleStack DEF TInv
<1>3. PICK n : n = Len(act[r])
  OBVIOUS
<1>4. n \in DOMAIN stack[r] /\ n \in DOMAIN act[r] /\ n + (Len(act[r]) - Len(stack[r])) = n
  BY <1>1, <1>2, <1>3
<1>5. act[r][n].buf # <<>>
  <2>1. HandlerAt(r)
    BY DEF TInv, HandlerInv, HandlerAt
  <2> QED
    BY <1>4, <2>1 DEF HandlerAt
<1> QED
  BY <1>1, <1>3, <1>4, <1>5 DEF TInv, HandlerInv

LEMMA FirstOfBuffer ==
  ASSUME TInv, NEW r \in Rank, act[r] # <<>>, act[r][1].buf # <<>>
  PROVE  /\ Head(act[r][1].buf).dst = r /\ Head(act[r][1].buf) = act[r][1].buf[1]
         /\ act[r][1].buf \in Seq(Call)
<1>1. act[r] \in Seq(Frame)
  BY TypeFacts DEF TInv
<1>2. act[r][1] \in Frame /\ 1 \in DOMAIN act[r]
  BY <1>1, PopLemma
<1>3. act[r][1].buf \in Seq(Call)
  BY <1>2 DEF Frame
<1>4. Head(act[r][1].buf) = act[r][1].buf[1] /\ 1 \in DOMAIN act[r][1].buf
  BY <1>3, PopLemma
<1>5. Head(act[r][1].buf).dst = r
  BY <1>2, <1>4 DEF TInv, AddressInv
<1> QED
  BY <1>3, <1>4, <1>5

\* PlaceInv of one rank.
PlaceAt(r) ==
  /\ wli[r] # "out" => pc[r] \in {"idle", "wait1"} /\ (wli[r] = "flush" <=> act[r] = <<>>)
  /\ wli[r] = "out" /\ pc[r] # "app" => act[r] = <<>> /\ Unsent(r) = {}
  /\ wli[r] = "again" /\ ~act[r][Len(act[r])].received => Unsent(r) = {}
  /\ life[r] # "up" => pc[r] # "app" \/ (act[r] = <<>> /\ stack[r] = <<>>)
  /\ life[r] = "world" => pc[r] = "app" /\ epoch[r] = MaxEpoch - 1
  /\ life[r] = "barrier" => epoch[r] = IF pc[r] = "app" THEN MaxEpoch ELSE MaxEpoch - 1
  /\ life[r] \in Late => pc[r] = "app" /\ epoch[r] = MaxEpoch

LEMMA PlaceStep == TInv /\ IInv /\ IInv' /\ [CommNext]_commVars => PlaceInv'
<1> SUFFICES ASSUME TInv, IInv, IInv', [CommNext]_commVars PROVE \A x \in Rank : PlaceAt(x)'
  BY DEF PlaceAt, PlaceInv, Late
<1>1. CommTypeOK /\ \A x \in Rank : PlaceAt(x)
  BY DEF TInv, PlaceInv, PlaceAt, Late
<1>2. /\ sendBuf \in [Rank -> [Rank -> Seq(Call)]]
      /\ wli \in [Rank -> {"first", "flush", "again", "out"}] /\ life \in [Rank -> Life]
      /\ act \in [Rank -> Seq(Frame)]
  BY <1>1 DEF CommTypeOK, Frame
<1>3. pc \in [Rank -> Place] /\ epoch \in [Rank -> Nat] /\ stack \in [Rank -> Seq(Call)]
  BY DEF IInv, TypeOK
<1> DEFINE Rest(x) == /\ pc'[x] = pc[x] /\ life'[x] = life[x] /\ wli'[x] = wli[x]
                      /\ epoch'[x] = epoch[x]
<1>4. ASSUME NEW x \in Rank, Rest(x), act'[x] = act[x], stack'[x] = stack[x],
             Unsent(x) = {} => Unsent(x)' = {}
      PROVE  PlaceAt(x)'
  BY <1>1, <1>4 DEF PlaceAt
<1>5. ASSUME UNCHANGED sendBuf PROVE \A x : Unsent(x)' = Unsent(x)
  BY <1>5 DEF Unsent
<1>6. ASSUME NEW s \in Rank, NEW d \in Rank, NEW b, sendBuf' = [sendBuf EXCEPT ![s][d] = b],
             NEW x \in Rank, x # s \/ b = <<>>
      PROVE  Unsent(x) = {} => Unsent(x)' = {}
  <2>1. ASSUME NEW e \in Rank, sendBuf[x][e] = <<>> PROVE sendBuf'[x][e] = <<>>
    BY <1>2, <1>6, <2>1
  <2> QED
    BY <2>1 DEF Unsent
<1>7. ASSUME NEW r \in Rank, NEW d \in Rank \ {r}, CallSmall(r, d), NEW x \in Rank PROVE PlaceAt(x)'
  <2>1. UNCHANGED <<act, stack, pc, life, wli, epoch>> /\ UserCode(r)
    BY <1>7 DEF CallSmall, Async, collVars
  <2>2. CASE x # r
    <3>1. \E b : sendBuf' = [sendBuf EXCEPT ![r][d] = b]
      BY <1>7 DEF CallSmall, PutSmall, NewCall
    <3>2. Unsent(x) = {} => Unsent(x)' = {}
      BY <1>6, <2>2, <3>1
    <3> QED
      BY <1>4, <2>1, <3>2
  <2>3. CASE x = r
    <3>1. CASE InProgram(r)
      <4>1. pc[r] = "app" /\ life[r] = "up" /\ wli[r] = "out"
        BY <1>1, <3>1 DEF InProgram, PlaceAt
      <4> QED
        BY <2>1, <2>3, <4>1 DEF PlaceAt, Late
    <3>2. CASE InHandler(r)
      <4>1. act[r] # <<>> /\ act[r][Len(act[r])].received
        BY <3>2, OutermostReceived DEF InHandler
      <4> QED
        BY <1>1, <2>1, <2>3, <4>1 DEF PlaceAt
    <3> QED
      BY <2>1, <3>1, <3>2 DEF UserCode
  <2> QED
    BY <2>2, <2>3
<1>8. ASSUME NEW r \in Rank, NEW d \in Rank \ {r}, CallLarge(r, d), NEW x \in Rank PROVE PlaceAt(x)'
  BY <1>4, <1>5, <1>8 DEF CallLarge, Announce, Async, collVars
<1>9. ASSUME NEW r \in Rank, NEW d \in Rank \ {r}, Flushes(r, d), NEW x \in Rank PROVE PlaceAt(x)'
  <2>1. UNCHANGED <<act, stack, pc, life, wli, epoch>>
        /\ sendBuf' = [sendBuf EXCEPT ![r][d] = <<>>]
    BY <1>9 DEF Flushes, AsyncFlush, vars
  <2>2. Unsent(x) = {} => Unsent(x)' = {}
    BY <1>6, <2>1
  <2> QED
    BY <1>4, <2>1, <2>2
<1>10. ASSUME NEW r \in Rank, FinishLarge(r), NEW x \in Rank PROVE PlaceAt(x)'
  BY <1>4, <1>5, <1>10 DEF FinishLarge, SendBody, vars
<1>11. ASSUME NEW r \in Rank, TakeBuffer(r), NEW x \in Rank PROVE PlaceAt(x)'
  <2>1. UNCHANGED <<sendBuf, stack, pc, life, wli, epoch>> /\ act[r] # <<>>
    BY <1>11 DEF TakeBuffer, Pop, vars
  <2>2. /\ \A z \in Rank : z # r => act'[z] = act[z]
        /\ Len(act[r]) \in Nat \ {0} /\ Len(act'[r]) = Len(act[r])
        /\ act'[r][1].received /\ act'[r] # <<>>
        /\ \A i \in 2 .. Len(act[r]) : act'[r][i] = act[r][i]
    <3>1. /\ \A z \in Rank : z # r => act'[z] = act[z]
          /\ Len(act[r]) \in Nat \ {0} /\ Len(act'[r]) = Len(act[r]) /\ act'[r] \in Seq(Frame)
          /\ act'[r][1] = [buf |-> Head(queue[r]), received |-> TRUE]
          /\ \A i \in 2 .. Len(act[r]) : act'[r][i] = act[r][i]
      BY <1>1, <1>11, TakeEffect
    <3>2. act'[r] # <<>>
      BY <3>1
    <3> QED
      BY <3>1, <3>2
  <2>3. CASE x # r
    BY <1>4, <1>5, <2>1, <2>2, <2>3
  <2>4. CASE x = r
    <3>1. act'[r][Len(act'[r])].received \/ act'[r][Len(act'[r])] = act[r][Len(act[r])]
      BY <2>2
    <3> QED
      BY <1>1, <1>5, <2>1, <2>2, <2>4, <3>1 DEF PlaceAt
  <2> QED
    BY <2>3, <2>4
<1>12. ASSUME NEW r \in Rank, Drained(r), NEW x \in Rank PROVE PlaceAt(x)'
  <2>1. /\ UNCHANGED <<sendBuf, stack, pc, life, epoch>> /\ act[r] # <<>>
        /\ act' = [act EXCEPT ![r] = Tail(@)]
    BY <1>12 DEF Drained, vars, wireVars
  <2>2. /\ \A z \in Rank : z # r => act'[z] = act[z]
        /\ act'[r] \in Seq(Frame) /\ Len(act[r]) \in Nat \ {0}
        /\ Len(act'[r]) = Len(act[r]) - 1
        /\ \A i \in 1 .. Len(act[r]) - 1 : act'[r][i] = act[r][i + 1]
    BY <1>1, <2>1, PopEffect
  <2>3. wli' = [wli EXCEPT ![r] = IF Len(act[r]) > 1 \/ wli[r] = "out" THEN wli[r]
                                   ELSE IF wli[r] = "first" \/ act[r][1].received
                                        THEN "flush" ELSE "out"]
    BY <1>12 DEF Drained
  <2>4. CASE x # r
    <3>1. wli'[x] = wli[x]
      BY <1>2, <2>3, <2>4
    <3> QED
      BY <1>4, <1>5, <2>1, <2>2, <2>4, <3>1
  <2>5. wli[r] # "flush"
    BY <1>1, <2>1 DEF PlaceAt
  <2>6. CASE x = r /\ Len(act[r]) > 1
    <3>1. wli'[r] = wli[r]
      BY <1>2, <2>3, <2>6
    <3>2. act'[r] # <<>> /\ act'[r][Len(act'[r])] = act[r][Len(act[r])]
      BY <2>2, <2>6
    <3> QED
      BY <1>1, <1>5, <2>1, <2>6, <3>1, <3>2 DEF PlaceAt
  <2>7. CASE x = r /\ Len(act[r]) = 1
    <3>1. act'[r] = <<>>
      BY <2>2, <2>7, EmptySeq
    <3>2. CASE wli[r] = "out"
      <4>1. wli'[r] = "out" /\ pc[r] = "app" /\ life[r] = "up"
        BY <1>1, <1>2, <2>1, <2>3, <3>2 DEF PlaceAt
      <4> QED
        BY <2>1, <2>7, <4>1 DEF PlaceAt, Late
    <3>3. CASE wli[r] = "first" \/ (act[r][1].received /\ wli[r] # "out")
      <4>1. wli'[r] = "flush"
        BY <1>2, <2>3, <2>7, <3>3
      <4> QED
        BY <1>1, <2>1, <2>7, <3>1, <3>3, <4>1 DEF PlaceAt
    <3>4. CASE wli[r] = "again" /\ ~act[r][1].received
      <4>1. wli'[r] = "out"
        BY <1>2, <2>3, <2>7, <3>4
      <4>2. Unsent(r)' = {}
        BY <1>1, <1>5, <2>1, <2>7, <3>4 DEF PlaceAt
      <4> QED
        BY <1>1, <2>1, <2>7, <3>1, <3>4, <4>1, <4>2 DEF PlaceAt
    <3> QED
      BY <1>2, <2>5, <3>2, <3>3, <3>4
  <2>8. Len(act[r]) > 1 \/ Len(act[r]) = 1
    <3>1. Len(act[r]) \in Nat /\ Len(act[r]) # 0
      BY <2>1, IdleStack
    <3>2. \A n \in Nat : n # 0 => n > 1 \/ n = 1
      OBVIOUS
    <3> QED
      BY <3>1, <3>2
  <2> QED
    BY <2>4, <2>6, <2>7, <2>8
<1>13. ASSUME NEW r \in Rank, StartHandler(r) \/ HandlerReturns(r), NEW x \in Rank PROVE PlaceAt(x)'
  <2>1. UNCHANGED <<sendBuf, pc, life, wli, epoch>> /\ act[r] # <<>>
    BY <1>13 DEF StartHandler, HandlerReturns, Begin, End, collVars, wireVars, InHandler
  <2>2. /\ x # r => act'[x] = act[x]
        /\ act'[r] # <<>>
        /\ act'[r][Len(act'[r])].received = act[r][Len(act[r])].received
    <3>1. CASE StartHandler(r)
      BY <2>1, <3>1 DEF StartHandler
    <3>2. CASE HandlerReturns(r)
      <4>1. /\ act[r] # <<>> /\ act[r][1].buf # <<>>
            /\ act' = [act EXCEPT ![r][1].buf = Tail(@)]
        BY <3>2, RunningFrame DEF HandlerReturns
      <4>2. /\ act'[r] \in Seq(Frame) /\ \A z \in Rank : z # r => act'[z] = act[z]
            /\ Len(act[r]) \in Nat \ {0} /\ Len(act'[r]) = Len(act[r])
            /\ act'[r][1].received = act[r][1].received
            /\ \A i \in 2 .. Len(act[r]) : act'[r][i] = act[r][i]
        BY <1>1, <4>1, ReturnEffect
      <4>3. act'[r] # <<>>
        BY <4>2
      <4> QED
        BY <4>2, <4>3
    <3> QED
      BY <1>13, <3>1, <3>2
  <2>3. x # r => stack'[x] = stack[x]
    <3>1. CASE StartHandler(r)
      <4>1. Begin(Head(Buf(r))) /\ Head(Buf(r)).dst = r
        BY <3>1, FirstOfBuffer DEF StartHandler, Buf
      <4> QED
        BY <1>3, <4>1 DEF Begin
    <3>2. CASE HandlerReturns(r)
      BY <1>3, <3>2 DEF HandlerReturns, End
    <3> QED
      BY <1>13, <3>1, <3>2
  <2>4. CASE x # r
    BY <1>4, <1>5, <2>1, <2>2, <2>3, <2>4
  <2>5. CASE x = r
    BY <1>1, <1>5, <2>1, <2>2, <2>5 DEF PlaceAt, Late
  <2> QED
    BY <2>4, <2>5
<1>14. ASSUME NEW r \in Rank, Kill(r), NEW x \in Rank PROVE PlaceAt(x)'
  <2>1. /\ UNCHANGED <<act, stack, pc, wli, epoch, sendBuf>>
        /\ life[r] = "barrier" /\ pc[r] = "app" /\ life' = [life EXCEPT ![r] = "join"]
    BY <1>14 DEF Kill, SendKill, vars
  <2>2. CASE x # r
    BY <1>2, <1>4, <1>5, <2>1, <2>2
  <2>3. CASE x = r
    <3>1. life'[r] = "join"
      BY <1>2, <2>1
    <3> QED
      BY <1>1, <1>5, <2>1, <2>3, <3>1 DEF PlaceAt, Late
  <2> QED
    BY <2>2, <2>3
<1>15. ASSUME NEW r \in Rank, Opens(r), OpenSteps(r), NEW x \in Rank PROVE PlaceAt(x)'
  <2>1. /\ UNCHANGED <<stack, sendBuf>> /\ act' = [act EXCEPT ![r] = <<Activation>> \o act[r]]
        /\ Len(stack[r]) = Len(act[r])
    BY <1>15 DEF Opens, Settled, wireVars
  <2>2. /\ act'[r] \in Seq(Frame) /\ \A z \in Rank : z # r => act'[z] = act[z]
        /\ Len(act[r]) \in Nat /\ Len(act'[r]) = Len(act[r]) + 1
        /\ \A i \in 2 .. Len(act[r]) + 1 : act'[r][i] = act[r][i - 1]
    BY <1>1, <2>1, PushEffect
  <2>3. act'[r] # <<>>
    BY <2>2
  <2>4. CASE x # r
    <3>1. Rest(x)
      BY <1>15, <2>4, OthersStay
    <3> QED
      BY <1>4, <1>5, <2>1, <2>2, <2>4, <3>1
  <2>5. CASE x = r /\ Peek(r)
    <3>1. UNCHANGED <<pc, life, wli, epoch>> /\ UserCode(r)
      BY <2>5 DEF Peek, vars
    <3>2. CASE InProgram(r)
      <4>1. pc[r] = "app" /\ life[r] = "up" /\ wli[r] = "out"
        BY <1>1, <3>2 DEF InProgram, PlaceAt
      <4> QED
        BY <2>5, <3>1, <4>1 DEF PlaceAt, Late
    <3>3. CASE InHandler(r)
      <4>1. act[r] # <<>> /\ Len(act[r]) # 0
        BY <3>3, IdleStack DEF InHandler
      <4>2. act'[r][Len(act'[r])] = act[r][Len(act[r])]
        BY <2>2, <4>1
      <4> QED
        BY <1>1, <1>5, <2>1, <2>3, <2>5, <3>1, <4>1, <4>2 DEF PlaceAt
    <3> QED
      BY <3>1, <3>2, <3>3 DEF UserCode
  <2>6. CASE x = r /\ (Barrier(r) \/ Poll(r) \/ (Reduce(r) /\ UNCHANGED life) \/ LastBarrier(r))
    <3>1. wli'[r] = "first" /\ pc'[r] \in {"idle", "wait1"} /\ epoch'[r] = epoch[r]
      <4>1. CASE Barrier(r) \/ Poll(r) \/ LastBarrier(r)
        BY <1>2, <1>3, <4>1 DEF Barrier, Poll, LastBarrier, StartIdle, Enter, vars
      <4>2. CASE Reduce(r)
        <5>1. act[r] = <<>> /\ ((Restart(r) /\ StartIdle(r)) \/ UNCHANGED act)
          BY <4>2 DEF Reduce, Idle
        <5>2. Restart(r) /\ StartIdle(r)
          BY <2>3, <5>1
        <5> QED
          BY <1>2, <1>3, <5>2 DEF Restart, StartIdle
      <4> QED
        BY <2>6, <4>1, <4>2
    <3>2. \/ life'[r] = "up"
          \/ life'[r] = "barrier" /\ epoch[r] = MaxEpoch - 1
          \/ life'[r] = life[r] /\ pc[r] # "app"
      <4>1. CASE Barrier(r)
        BY <4>1 DEF Barrier, InProgram
      <4>2. CASE Poll(r)
        BY <4>2 DEF Poll
      <4>3. CASE Reduce(r) /\ UNCHANGED life
        BY <4>3 DEF Reduce, First, Second, Leave, Throw, Restart, AtAssert, Waiting
      <4>4. CASE LastBarrier(r)
        BY <1>1, <1>2, <4>4 DEF LastBarrier, PlaceAt
      <4> QED
        BY <2>6, <4>1, <4>2, <4>3, <4>4
    <3> QED
      BY <1>1, <2>3, <2>6, <3>1, <3>2 DEF PlaceAt, Late
  <2>7. CASE x = r /\ Flush(r)
    <3>1. UNCHANGED <<pc, life, epoch>> /\ wli[r] = "flush"
      BY <2>7 DEF Flush, vars
    <3>2. act[r] = <<>>
      BY <1>1, <3>1 DEF PlaceAt
    <3>3. Unsent(r) = {} /\ wli'[r] = "again"
      BY <1>2, <2>3, <2>7, <3>2 DEF Flush
    <3> QED
      BY <1>1, <1>5, <2>1, <2>3, <2>7, <3>1, <3>3 DEF PlaceAt
  <2>8. Reduce(r) => UNCHANGED life
    BY DEF Reduce
  <2> QED
    BY <1>15, <2>4, <2>5, <2>6, <2>7, <2>8 DEF OpenSteps
<1>16. ASSUME NEW r \in Rank, UNCHANGED Settled, UNCHANGED act, QuietSteps(r), NEW x \in Rank
       PROVE  PlaceAt(x)'
  <2>1. UNCHANGED <<act, stack, sendBuf>>
    BY <1>16 DEF Settled, wireVars
  <2>2. CASE x # r
    <3>1. Rest(x)
      BY <1>16, <2>2, OthersStay
    <3> QED
      BY <1>4, <1>5, <2>1, <3>1
  <2>3. CASE x = r /\ Reduce(r)
    <3>1. Idle(r) /\ UNCHANGED <<wli, life>> /\ (First(r) \/ Second(r) \/ Leave(r) \/ Throw(r))
      <4>1. act[r] = <<>> /\ <<Activation>> # <<>>
        BY <2>3 DEF Reduce, Idle
      <4>2. ~StartIdle(r)
        BY <1>2, <2>1, <4>1 DEF StartIdle
      <4> QED
        BY <2>3, <4>2 DEF Reduce
    <3>2. wli[r] = "out" /\ act[r] = <<>> /\ stack[r] = <<>>
      BY <3>1, IdleStack DEF Idle
    <3>3. /\ pc[r] # "app"
          /\ \/ pc'[r] # "app" /\ epoch'[r] = epoch[r]
             \/ pc'[r] = "app" /\ epoch'[r] = epoch[r] + 1
      BY <1>3, <3>1 DEF First, Second, Leave, Throw, AtAssert
    <3>4. Unsent(r)' = {}
      BY <1>1, <1>5, <2>1, <3>2, <3>3 DEF PlaceAt
    <3>5. MaxEpoch \in Nat /\ epoch[r] \in Nat
      BY <1>3, BoundAssumption
    <3> QED
      BY <1>1, <2>1, <2>3, <3>1, <3>2, <3>3, <3>4, <3>5 DEF PlaceAt, Late
  <2>4. CASE x = r /\ Destroy(r)
    <3>1. /\ UNCHANGED <<pc, wli, epoch>> /\ life'[r] = "world" /\ InProgram(r)
          /\ epoch[r] = MaxEpoch - 1
      BY <1>2, <2>4 DEF Destroy, vars
    <3>2. act[r] = <<>> /\ stack[r] = <<>> /\ pc[r] = "app"
      BY <3>1, IdleStack DEF InProgram
    <3> QED
      BY <1>1, <1>5, <2>1, <2>4, <3>1, <3>2 DEF PlaceAt, Late
  <2>5. CASE x = r /\ (Join(r) \/ Free(r))
    <3>1. UNCHANGED <<pc, wli, epoch>> /\ life[r] \in Late /\ life'[r] \in Late
      BY <1>2, <2>5 DEF Join, Free, vars, Late
    <3> QED
      BY <1>1, <1>5, <2>1, <2>5, <3>1 DEF PlaceAt, Late
  <2> QED
    BY <1>16, <2>2, <2>3, <2>4, <2>5 DEF QuietSteps
<1>17. ASSUME NEW s \in Rank, NEW d \in Rank, Takes(s, d), NEW x \in Rank PROVE PlaceAt(x)'
  BY <1>4, <1>5, <1>17 DEF Takes, Received, vars
<1>18. ASSUME UNCHANGED commVars, NEW x \in Rank PROVE PlaceAt(x)'
  BY <1>4, <1>5, <1>18 DEF commVars, vars, wireVars
<1>19. \/ \E r \in Rank : \E d \in Rank \ {r} : CallSmall(r, d) \/ CallLarge(r, d)
       \/ \E r \in Rank : \E d \in Rank \ {r} : Flushes(r, d)
       \/ \E r \in Rank : \/ FinishLarge(r) \/ TakeBuffer(r) \/ Drained(r)
                           \/ StartHandler(r) \/ HandlerReturns(r) \/ Kill(r)
       \/ \E r \in Rank : Opens(r) /\ OpenSteps(r)
       \/ \E r \in Rank : UNCHANGED Settled /\ UNCHANGED act /\ QuietSteps(r)
       \/ \E s, d \in Rank : Takes(s, d)
       \/ UNCHANGED commVars
  BY Kinds
<1> QED
  BY <1>7, <1>8, <1>9, <1>10, <1>11, <1>12, <1>13, <1>14, <1>15, <1>16, <1>17, <1>18, <1>19
=============================================================================
