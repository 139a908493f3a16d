--------------------------- MODULE YgmTreeProofs ---------------------------
(***************************************************************************)
(* The tree of YgmTree is the all-reduce of YgmAllReduce, for any number   *)
(* of ranks and any associative and commutative function.  First that the  *)
(* messages of the all-reduces stay apart (TreeInv), then that merging     *)
(* along the tree is merging in the order of the ranks, then the values.   *)
(***************************************************************************)
EXTENDS YgmTree, SequenceTheorems, YgmFoldProofs

LEMMA ParentIs ==
  ASSUME NEW c \in Nat \ {0}, NEW p \in Nat
  PROVE  Parent(c) = p <=> c = FirstChild(p) \/ c = SecondChild(p)
BY DEF Parent, FirstChild, SecondChild

LEMMA ParentNat ==
  ASSUME NEW c \in Nat \ {0}
  PROVE  Parent(c) \in Nat /\ Parent(c) < c
BY DEF Parent

(* W[k] is the merge of w[0], ..., w[k].                                   *)
Runs(V, W, w, n) == /\ W \in [0 .. n -> V] /\ w \in [0 .. n -> V] /\ W[0] = w[0]
                    /\ \A k \in 1 .. n : W[k] = Merge(W[k - 1], w[k])

LEMMA RunsExist ==
  ASSUME NEW V, Merging(V), NEW n \in Nat, NEW w \in [0 .. n -> V]
  PROVE  \E W : Runs(V, W, w, n)
<1> DEFINE G == [k \in 1 .. n |-> [v \in V |-> Merge(v, w[k])]]
<1>1. \A k \in 1 .. n : \A v \in V : G[k][v] = Merge(v, w[k])
  OBVIOUS
<1>2. G \in [1 .. n -> [V -> V]]
  <2>1. ASSUME NEW k \in 1 .. n PROVE [v \in V |-> Merge(v, w[k])] \in [V -> V]
    BY DEF Merging
  <2> QED
    BY <2>1
<1>3. w[0] \in V
  OBVIOUS
<1> HIDE DEF G
<1>4. PICK W : Follows(W, n, V, w[0], G)
  BY <1>2, <1>3, Recursion
<1>5. Runs(V, W, w, n)
  <2>1. W \in [0 .. n -> V] /\ W[0] = w[0] /\ \A k \in 1 .. n : W[k] = G[k][W[k - 1]]
    BY <1>4 DEF Follows
  <2>2. ASSUME NEW k \in 1 .. n PROVE W[k] = Merge(W[k - 1], w[k])
    <3>1. k - 1 \in 0 .. n
      OBVIOUS
    <3> QED
      BY <1>1, <2>1, <3>1
  <2> QED
    BY <2>1, <2>2 DEF Runs
<1> QED
  BY <1>5

LEMMA RunsAgree ==
  ASSUME NEW V, NEW n \in Nat, NEW m \in Nat, NEW W, NEW w, NEW X, NEW x,
         Runs(V, W, w, n), Runs(V, X, x, m),
         NEW k \in Nat, k <= n, k <= m, \A i \in 0 .. k : w[i] = x[i]
  PROVE  W[k] = X[k]
<1> DEFINE T == {i \in Nat : i <= k => W[i] = X[i]}
<1>1. 0 \in T
  BY DEF Runs
<1>2. ASSUME NEW i \in Nat, i \in T PROVE i + 1 \in T
  <2>1. ASSUME i + 1 <= k PROVE W[i + 1] = X[i + 1]
    <3>1. PICK j : j = i + 1
      OBVIOUS
    <3>2. j \in 1 .. n /\ j \in 1 .. m /\ j \in 0 .. k /\ j - 1 = i
      BY <2>1, <3>1
    <3>3. W[j] = Merge(W[j - 1], w[j]) /\ X[j] = Merge(X[j - 1], x[j]) /\ w[j] = x[j]
      BY <3>2 DEF Runs
    <3>4. W[i] = X[i]
      BY <1>2, <2>1
    <3> QED
      BY <3>1, <3>2, <3>3, <3>4
  <2> QED
    BY <2>1
<1>3. k \in T
  <2> HIDE DEF T
  <2> QED
    BY <1>1, <1>2, SetInduction
<1> QED
  BY <1>3

(* What is merged into one of them is merged into the whole.               *)
LEMMA Absorb ==
  ASSUME NEW V, Merging(V), NEW n \in Nat, NEW W, NEW w, NEW X, NEW x,
         Runs(V, W, w, n), Runs(V, X, x, n), NEW p \in 0 .. n, NEW v \in V,
         x[p] = Merge(w[p], v), \A i \in 0 .. n : i # p => x[i] = w[i]
  PROVE  X[n] = Merge(W[n], v)
<1> DEFINE T == {i \in Nat : p <= i /\ i <= n => X[i] = Merge(W[i], v)}
<1>0. \A a, b, c \in V : Merge(Merge(a, b), c) = Merge(Merge(a, c), b)
  <2>1. ASSUME NEW a \in V, NEW b \in V, NEW c \in V PROVE Merge(Merge(a, b), c) = Merge(Merge(a, c), b)
    <3>1. Merge(Merge(a, b), c) = Merge(a, Merge(b, c)) /\ Merge(Merge(a, c), b) = Merge(a, Merge(c, b))
          /\ Merge(b, c) = Merge(c, b)
      BY DEF Merging
    <3> QED
      BY <3>1
  <2> QED
    BY <2>1
<1>a. \A i \in 0 .. n : W[i] \in V /\ w[i] \in V /\ X[i] \in V /\ x[i] \in V
  BY DEF Runs
<1>1. 0 \in T
  <2>1. ASSUME p <= 0 PROVE X[0] = Merge(W[0], v)
    BY <2>1 DEF Runs
  <2> QED
    BY <2>1
<1>2. ASSUME NEW i \in Nat, i \in T PROVE i + 1 \in T
  <2>1. ASSUME p <= i + 1, i + 1 <= n PROVE X[i + 1] = Merge(W[i + 1], v)
    <3>1. PICK j : j = i + 1
      OBVIOUS
    <3>2. j \in 1 .. n /\ j \in 0 .. n /\ i \in 0 .. n /\ j - 1 = i
      BY <2>1, <3>1
    <3>3. W[j] = Merge(W[i], w[j]) /\ X[j] = Merge(X[i], x[j])
      BY <3>2 DEF Runs
    <3>4. CASE p = j
      <4>1. W[i] = X[i]
        <5>1. \A k \in 0 .. i : w[k] = x[k]
          <6>1. \A k \in 0 .. i : k \in 0 .. n /\ k # p
            BY <3>1, <3>2, <3>4
          <6> QED
            BY <6>1
        <5>2. i <= n
          BY <3>2
        <5> QED
          BY <5>1, <5>2, RunsAgree
      <4>2. X[j] = Merge(W[i], Merge(w[j], v))
        BY <3>3, <3>4, <4>1
      <4>3. Merge(Merge(W[i], w[j]), v) = Merge(W[i], Merge(w[j], v))
        <5>1. ASSUME NEW a \in V, NEW b \in V PROVE Merge(Merge(a, b), v) = Merge(a, Merge(b, v))
          BY DEF Merging
        <5> QED
          BY <1>a, <3>2, <5>1
      <4> QED
        BY <3>1, <3>3, <4>2, <4>3
    <3>5. CASE p # j
      <4>1. X[i] = Merge(W[i], v) /\ x[j] = w[j]
        BY <1>2, <2>1, <3>1, <3>2, <3>5
      <4>2. Merge(Merge(W[i], v), w[j]) = Merge(Merge(W[i], w[j]), v)
        BY <1>0, <1>a, <3>2
      <4> QED
        BY <3>1, <3>3, <4>1, <4>2
    <3> QED
      BY <3>4, <3>5
  <2> QED
    BY <2>1
<1>3. n \in T
  <2> HIDE DEF T
  <2> QED
    BY <1>1, <1>2, SetInduction
<1> QED
  BY <1>3

-----------------------------------------------------------------------------
(* Types.                                                                  *)
Message(V) == [part : {"send_size"}, value : {{}}] \cup [part : {"send_data"}, value : V]

TreeTypes(V) ==
  /\ given \in [Rank -> Seq(V)] /\ returned \in [Rank -> Seq(V)]
  /\ DOMAIN pc = Rank
  /\ DOMAIN tmp = Rank /\ \A r \in Rank : pc[r] # "out" => tmp[r] \in V
  /\ sized \subseteq Rank
  /\ chan \in [Rank -> [Rank -> Seq(Message(V))]]
  /\ bcasts \in Seq(V)

LEMMA ParentRank ==
  ASSUME Size \in Nat \ {0}, NEW c \in Rank \ {0}
  PROVE  /\ Parent(c) \in Rank /\ c # Parent(c) /\ c \in Nat \ {0}
         /\ c = FirstChild(Parent(c)) \/ c = SecondChild(Parent(c))
         /\ FirstChild(Parent(c)) # SecondChild(Parent(c))
<1>1. c \in Nat \ {0} /\ c < Size
  BY DEF Rank
<1>2. Parent(c) \in Nat /\ Parent(c) < c
  BY <1>1, ParentNat
<1>3. Parent(c) \in Rank /\ c # Parent(c)
  BY <1>1, <1>2 DEF Rank
<1>4. c = FirstChild(Parent(c)) \/ c = SecondChild(Parent(c))
  BY <1>1, <1>2, ParentIs
<1>5. FirstChild(Parent(c)) # SecondChild(Parent(c))
  BY <1>2 DEF FirstChild, SecondChild
<1> QED
  BY <1>1, <1>3, <1>4, <1>5

LEMMA ChildRank ==
  ASSUME Size \in Nat \ {0}, NEW p \in Rank, NEW c, c = FirstChild(p) \/ c = SecondChild(p), c < Size
  PROVE  c \in Rank \ {0} /\ Parent(c) = p
<1>1. p \in Nat /\ c \in Nat \ {0}
  BY DEF Rank, FirstChild, SecondChild
<1> QED
  BY <1>1, ParentIs DEF Rank

(* The counters are numbers, and a step of one rank moves no other's.      *)
LEMMA Numbers ==
  ASSUME NEW V, TreeTypes(V), NEW r \in Rank
  PROVE  /\ Len(given[r]) \in Nat /\ Done(r) \in Int /\ Sent(r) \in Int
         /\ \A c : Merged(r, c) \in Int /\ Got(r, c) \in Int
<1>1. Len(given[r]) \in Nat
  BY DEF TreeTypes
<1>2. Done(r) \in Int /\ Sent(r) \in Int
  BY <1>1 DEF Done, Sent
<1>3. ASSUME NEW c PROVE Merged(r, c) \in Int /\ Got(r, c) \in Int
  <2>1. Merged(r, c) \in Int
    BY <1>1 DEF Merged
  <2> QED
    BY <2>1 DEF Got
<1> QED
  BY <1>1, <1>2, <1>3

Steady(s) == pc'[s] = pc[s] /\ given'[s] = given[s] /\ (s \in sized' <=> s \in sized)

LEMMA SteadyCounts ==
  ASSUME NEW s, Steady(s)
  PROVE  /\ Done(s)' = Done(s) /\ Sent(s)' = Sent(s)
         /\ \A c : Merged(s, c)' = Merged(s, c) /\ Got(s, c)' = Got(s, c)
<1>1. Done(s)' = Done(s) /\ Sent(s)' = Sent(s)
  BY DEF Steady, Done, Sent, Waiting
<1>2. ASSUME NEW c PROVE Merged(s, c)' = Merged(s, c) /\ Got(s, c)' = Got(s, c)
  <2>1. Merged(s, c)' = Merged(s, c)
    BY DEF Steady, Merged
  <2>2. Child(s)' = Child(s)
    BY DEF Steady, Child
  <2> QED
    BY <2>1, <2>2 DEF Steady, Got
<1> QED
  BY <1>1, <1>2

(* What remains of Flows to be shown when no message moves.                *)
Even(c) == Sent(c)' = Sent(c) /\ Got(Parent(c), c)' = Got(Parent(c), c)

LEMMA FlowsSame ==
  ASSUME Flows, chan' = chan, \A c \in Rank \ {0} : Even(c)
  PROVE  Flows'
<1>1. ASSUME NEW s \in Rank, NEW d \in Rank PROVE (chan[s][d] # <<>> => s # 0 /\ d = Parent(s))'
  BY DEF Flows
<1>2. ASSUME NEW s \in Rank, s # 0 PROVE (Len(chan[s][Parent(s)]) = Sent(s) - Got(Parent(s), s))'
  BY <1>2 DEF Flows, Even
<1>3. ASSUME NEW s \in Rank, s # 0
      PROVE  (\A j \in DOMAIN chan[s][Parent(s)] :
                chan[s][Parent(s)][j].part = IF (Got(Parent(s), s) + j) % 2 = 1
                                             THEN "send_size" ELSE "send_data")'
  BY <1>3 DEF Flows, Even
<1> QED
  BY <1>1, <1>2, <1>3 DEF Flows

-----------------------------------------------------------------------------
(* The beginning of an all-reduce.                                         *)
LEMMA CallCounts ==
  ASSUME Size \in Nat \ {0}, NEW V, TreeTypes(V), Places, NEW r \in Rank, NEW v, Call(r, v)
  PROVE  /\ \A c \in Rank \ {0} : Even(c)
         /\ Len(given'[r]) = Len(given[r]) + 1 /\ pc'[r] # "out"
         /\ given'[r] = Append(given[r], v)
         /\ \A s \in Rank : s # r => Steady(s)
<1>1. \A s \in Rank : s # r => Steady(s)
  BY DEF Call, Steady, TreeTypes
<1>2. /\ given'[r] = Append(given[r], v) /\ pc'[r] = Start(r) /\ pc[r] = "out"
      /\ r \notin sized /\ r \notin sized'
  BY DEF Call, TreeTypes, Places, Waiting
<1>3. Len(given[r]) \in Nat /\ Len(given'[r]) = Len(given[r]) + 1 /\ Len(given'[r]) \in Nat
  BY <1>2 DEF TreeTypes
<1>4. Start(r) # "out"
  BY DEF Start, AfterFirst, AfterChildren
<1>5. ASSUME r # 0 PROVE Sent(r)' = Sent(r)
  <2>1. Start(r) \in {"first", "second", "send_size"}
    BY <1>5 DEF Start, AfterFirst, AfterChildren
  <2>2. pc[r] = "out" /\ pc'[r] \in {"first", "second", "send_size"}
    BY <1>2, <2>1
  <2>3. Sent(r) = 2 * Len(given[r])
    BY <1>3, <2>2 DEF Sent
  <2>4. Sent(r)' = 2 * Len(given'[r]) - 2
    BY <1>3, <2>2 DEF Sent
  <2> QED
    BY <1>3, <2>3, <2>4
<1>6. ASSUME NEW c \in Rank \ {0}, Parent(c) = r PROVE Got(r, c)' = Got(r, c)
  <2>1. (c = FirstChild(r) \/ c = SecondChild(r)) /\ c < Size /\ r \in Nat /\ FirstChild(r) # SecondChild(r)
    BY <1>6, ParentRank DEF Rank
  <2>2. Start(r) = "first" \/ (Start(r) = "second" /\ c = SecondChild(r))
    BY <2>1 DEF Start, AfterFirst, FirstChild, SecondChild
  <2>3. Merged(r, c)' = Merged(r, c)
    <3>1. pc[r] = "out" /\ (pc'[r] = "first" \/ (pc'[r] = "second" /\ c = SecondChild(r)))
      BY <1>2, <2>2
    <3>2. Merged(r, c) = Len(given[r])
      BY <1>3, <3>1 DEF Merged
    <3>3. Merged(r, c)' = Len(given'[r]) - 1
      BY <1>3, <3>1 DEF Merged
    <3> QED
      BY <1>3, <3>2, <3>3
  <2> QED
    BY <1>2, <2>3 DEF Got
<1>7. ASSUME NEW c \in Rank \ {0} PROVE Even(c)
  <2>1. Sent(c)' = Sent(c)
    BY <1>1, <1>5, SteadyCounts
  <2>2. Got(Parent(c), c)' = Got(Parent(c), c)
    <3>1. CASE Parent(c) = r
      BY <1>6, <3>1
    <3>2. CASE Parent(c) # r
      BY <1>1, <3>2, ParentRank, SteadyCounts
    <3> QED
      BY <3>1, <3>2
  <2> QED
    BY <2>1, <2>2 DEF Even
<1> QED
  BY <1>1, <1>2, <1>3, <1>4, <1>7

-----------------------------------------------------------------------------
(* A message that is received.                                             *)
LEMMA AwaitedChild ==
  ASSUME Size \in Nat \ {0}, NEW V, TreeTypes(V), Places, NEW r \in Rank, Awaiting(r)
  PROVE  Child(r) \in Rank \ {0} /\ Parent(Child(r)) = r /\ chan[Child(r)][r] # <<>>
<1>1. Child(r) < Size /\ (Child(r) = FirstChild(r) \/ Child(r) = SecondChild(r))
  BY DEF Places, Awaiting, Child
<1>2. Child(r) \in Rank \ {0} /\ Parent(Child(r)) = r
  BY <1>1, ChildRank
<1> QED
  BY <1>2 DEF Awaiting

LEMMA TakenFlows ==
  ASSUME Size \in Nat \ {0}, NEW V, TreeTypes(V), Flows, NEW c \in Rank \ {0}, NEW r, r = Parent(c),
         chan[c][r] # <<>>, chan' = [chan EXCEPT ![c][r] = Tail(@)],
         Got(r, c)' = Got(r, c) + 1, Sent(c)' = Sent(c),
         \A d \in Rank \ {0} : d # c => Even(d)
  PROVE  Flows'
<1>1. r \in Rank /\ Got(r, c) \in Int /\ Sent(c) \in Int
  BY ParentRank, Numbers
<1>2. chan[c][r] \in Seq(Message(V)) /\ DOMAIN chan = Rank /\ DOMAIN chan[c] = Rank
  BY <1>1 DEF TreeTypes
<1>3. chan'[c][r] = Tail(chan[c][r]) /\ \A s, d \in Rank : s # c \/ d # r => chan'[s][d] = chan[s][d]
  BY <1>1, <1>2
<1>4. /\ Len(Tail(chan[c][r])) = Len(chan[c][r]) - 1
      /\ \A j \in 1 .. Len(chan[c][r]) - 1 : Tail(chan[c][r])[j] = chan[c][r][j + 1]
      /\ DOMAIN Tail(chan[c][r]) = 1 .. Len(chan[c][r]) - 1 /\ Len(chan[c][r]) \in Nat
      /\ DOMAIN chan[c][r] = 1 .. Len(chan[c][r])
  BY <1>2
<1>5. ASSUME NEW s \in Rank, NEW d \in Rank, chan'[s][d] # <<>> PROVE s # 0 /\ d = Parent(s)
  BY <1>3, <1>5 DEF Flows
<1>6. ASSUME NEW s \in Rank, s # 0 PROVE Len(chan'[s][Parent(s)]) = Sent(s)' - Got(Parent(s), s)'
  <2>1. CASE s = c
    <3>1. Len(chan[c][r]) = Sent(c) - Got(r, c)
      BY DEF Flows
    <3>2. Len(chan'[c][r]) = Len(chan[c][r]) - 1
      BY <1>3, <1>4
    <3> QED
      BY <1>1, <2>1, <3>1, <3>2
  <2>2. CASE s # c
    <3>1. chan'[s][Parent(s)] = chan[s][Parent(s)] /\ Even(s)
      BY <1>3, <1>6, <2>2, ParentRank
    <3> QED
      BY <1>6, <3>1 DEF Flows, Even
  <2> QED
    BY <2>1, <2>2
<1>7. ASSUME NEW s \in Rank, s # 0, NEW j \in DOMAIN chan'[s][Parent(s)]
      PROVE  chan'[s][Parent(s)][j].part = IF (Got(Parent(s), s)' + j) % 2 = 1
                                           THEN "send_size" ELSE "send_data"
  <2>1. CASE s = c
    <3>1. j \in 1 .. Len(chan[c][r]) - 1 /\ chan'[s][Parent(s)][j] = chan[c][r][j + 1]
      BY <1>3, <1>4, <1>7, <2>1
    <3>2. PICK k \in DOMAIN chan[c][r] : k = j + 1
      BY <1>4, <3>1
    <3>3. chan[c][r][k].part = IF (Got(r, c) + k) % 2 = 1 THEN "send_size" ELSE "send_data"
      BY DEF Flows
    <3>4. Got(Parent(s), s)' + j = Got(r, c) + k
      BY <1>1, <2>1, <3>1, <3>2
    <3> QED
      BY <3>1, <3>2, <3>3, <3>4
  <2>2. CASE s # c
    <3>1. chan'[s][Parent(s)] = chan[s][Parent(s)] /\ Even(s)
      BY <1>3, <1>7, <2>2, ParentRank
    <3> QED
      BY <1>7, <3>1 DEF Flows, Even
  <2> QED
    BY <2>1, <2>2
<1> QED
  BY <1>5, <1>6, <1>7 DEF Flows

LEMMA RecvSizeCounts ==
  ASSUME Size \in Nat \ {0}, NEW V, TreeTypes(V), Places, NEW r \in Rank, RecvSize(r)
  PROVE  /\ Got(r, Child(r))' = Got(r, Child(r)) + 1 /\ Sent(Child(r))' = Sent(Child(r))
         /\ \A d \in Rank \ {0} : d # Child(r) => Even(d)
         /\ \A s \in Rank : s # r => Steady(s)
         /\ Child(r)' = Child(r)
<1>1. \A s \in Rank : s # r => Steady(s)
  BY DEF RecvSize, Steady
<1>2. pc' = pc /\ given' = given /\ r \notin sized /\ r \in sized'
  BY DEF RecvSize
<1>3. Child(r)' = Child(r) /\ \A s : Sent(s)' = Sent(s)
  BY <1>2 DEF Child, Sent
<1>4. ASSUME NEW c PROVE Merged(r, c)' = Merged(r, c)
  BY <1>2 DEF Merged
<1>5. Got(r, Child(r))' = Got(r, Child(r)) + 1
  <2>1. Got(r, Child(r)) = 2 * Merged(r, Child(r)) /\ Merged(r, Child(r)) \in Int
    BY <1>2, Numbers DEF Got
  <2>2. Got(r, Child(r))' = 2 * Merged(r, Child(r))' + 1
    BY <1>2 DEF Got
  <2>3. Merged(r, Child(r))' = Merged(r, Child(r))
    BY <1>2, <1>3 DEF Merged
  <2> QED
    BY <2>1, <2>2, <2>3
<1>6. ASSUME NEW d \in Rank \ {0}, d # Child(r) PROVE Even(d)
  <2>1. Got(r, d)' = Got(r, d)
    BY <1>3, <1>4, <1>6 DEF Got
  <2>2. Got(Parent(d), d)' = Got(Parent(d), d)
    <3>1. CASE Parent(d) = r
      BY <2>1, <3>1
    <3>2. CASE Parent(d) # r
      BY <1>1, <3>2, ParentRank, SteadyCounts
    <3> QED
      BY <3>1, <3>2
  <2> QED
    BY <1>3, <2>2 DEF Even
<1> QED
  BY <1>1, <1>3, <1>5, <1>6

LEMMA RecvDataCounts ==
  ASSUME Size \in Nat \ {0}, NEW V, TreeTypes(V), Places, NEW r \in Rank, RecvData(r),
         NEW c, c = Child(r)
  PROVE  /\ Got(r, c)' = Got(r, c) + 1 /\ Sent(c)' = Sent(c)
         /\ \A d \in Rank \ {0} : d # c => Even(d)
         /\ \A s \in Rank : s # r => Steady(s)
         /\ Got(r, c) + 1 = 2 * Len(given[r])
<1> DEFINE n == Len(given[r])
<1>1. \A s \in Rank : s # r => Steady(s)
  BY DEF RecvData, Steady, TreeTypes
<1>2. given' = given /\ r \in sized /\ r \notin sized' /\ Waiting(r)
  BY DEF RecvData, Awaiting, Waiting
<1>3. pc'[r] = IF pc[r] = "first" THEN AfterFirst(r) ELSE AfterChildren(r)
  BY DEF RecvData, TreeTypes
<1>4. /\ c \in Rank \ {0} /\ Parent(c) = r /\ r \in Nat /\ n \in Nat
      /\ c # r /\ FirstChild(r) # SecondChild(r)
  <2>1. Awaiting(r)
    BY DEF RecvData
  <2>2. c \in Rank \ {0} /\ Parent(c) = r
    BY <2>1, AwaitedChild
  <2> QED
    BY <2>2, ParentRank, Numbers DEF Rank
<1>5. ASSUME NEW d \in Rank \ {0}, Parent(d) = r, d # c
      PROVE  Merged(r, d)' = Merged(r, d)
  <2>1. (d = FirstChild(r) \/ d = SecondChild(r)) /\ d < Size
    BY <1>5, ParentRank DEF Rank
  <2>2. CASE pc[r] = "first"
    <3>1. d = SecondChild(r) /\ pc'[r] = "second"
      BY <1>3, <1>5, <2>1, <2>2 DEF Child, AfterFirst
    <3>2. Merged(r, d) = n - 1
      BY <2>2 DEF Merged
    <3>3. Merged(r, d)' = n - 1
      BY <1>2, <3>1 DEF Merged
    <3> QED
      BY <3>2, <3>3
  <2>3. CASE pc[r] = "second"
    <3>1. d = FirstChild(r) /\ pc'[r] \in {"bcast", "send_size"} /\ d # SecondChild(r)
      BY <1>3, <1>4, <1>5, <2>1, <2>3 DEF Child, AfterChildren
    <3>2. Merged(r, d) = n - 0
      BY <2>3, <3>1 DEF Merged
    <3>3. Merged(r, d)' = n - 0
      BY <1>2, <3>1 DEF Merged
    <3> QED
      BY <3>2, <3>3
  <2> QED
    BY <1>2, <2>2, <2>3 DEF Waiting
<1>6. Merged(r, c) = n - 1
  BY <1>2 DEF Merged, Waiting, Child
<1>7. Merged(r, c)' = n
  <2>1. pc'[r] # "first" /\ (pc'[r] = "second" => c # SecondChild(r))
    BY <1>2, <1>3, <1>4 DEF AfterFirst, AfterChildren, Child, Waiting
  <2>2. Merged(r, c)' = n - 0
    BY <1>2, <2>1 DEF Merged
  <2> QED
    BY <1>4, <2>2
<1>8. Got(r, c) = 2 * (n - 1) + 1
  BY <1>2, <1>6 DEF Got
<1>9. Got(r, c)' = 2 * n + 0
  BY <1>2, <1>7 DEF Got
<1>10. ASSUME r # 0 PROVE Sent(r)' = Sent(r)
  <2>1. pc'[r] \in {"second", "send_size"}
    BY <1>2, <1>3, <1>10 DEF AfterFirst, AfterChildren
  <2>2. Sent(r) = 2 * n - 2
    BY <1>2 DEF Sent, Waiting
  <2>3. Sent(r)' = 2 * n - 2
    BY <1>2, <2>1 DEF Sent
  <2> QED
    BY <2>2, <2>3
<1>11. ASSUME NEW d \in Rank \ {0} PROVE Sent(d)' = Sent(d)
  BY <1>1, <1>10, SteadyCounts
<1>12. ASSUME NEW d \in Rank \ {0}, d # c PROVE Got(Parent(d), d)' = Got(Parent(d), d)
  <2>1. CASE Parent(d) = r
    <3>1. Merged(r, d)' = Merged(r, d)
      BY <1>5, <1>12, <2>1
    <3>2. Got(r, d) = 2 * Merged(r, d) + 0
      BY <1>12 DEF Got
    <3>3. Got(r, d)' = 2 * Merged(r, d)' + 0
      BY <1>2 DEF Got
    <3> QED
      BY <2>1, <3>1, <3>2, <3>3
  <2>2. CASE Parent(d) # r
    BY <1>1, <2>2, ParentRank, SteadyCounts
  <2> QED
    BY <2>1, <2>2
<1>13. Got(r, c)' = Got(r, c) + 1 /\ Got(r, c) + 1 = 2 * n
  BY <1>4, <1>8, <1>9
<1> QED
  BY <1>1, <1>4, <1>11, <1>12, <1>13 DEF Even

-----------------------------------------------------------------------------
(* A message that is sent.                                                 *)
Sending(r) == [part |-> pc[r], value |-> IF pc[r] = "send_size" THEN {} ELSE tmp[r]]

LEMMA SendCounts ==
  ASSUME Size \in Nat \ {0}, NEW V, TreeTypes(V), Places, NEW r \in Rank, Send(r)
  PROVE  /\ r # 0 /\ Sent(r)' = Sent(r) + 1
         /\ Sent(r) + 1 = IF pc[r] = "send_size" THEN 2 * Len(given[r]) - 1 ELSE 2 * Len(given[r])
         /\ \A d \in Rank \ {0} : d # r => Even(d)
         /\ Got(Parent(r), r)' = Got(Parent(r), r)
         /\ \A s \in Rank : s # r => Steady(s)
         /\ \A i \in Rank : Done(i)' = Done(i)
<1> DEFINE n == Len(given[r])
<1>1. \A s \in Rank : s # r => Steady(s)
  BY DEF Send, Steady, TreeTypes
<1>2. given' = given /\ sized' = sized /\ pc[r] \in {"send_size", "send_data"} /\ r \notin sized
  BY DEF Send, Places, Waiting
<1>3. pc'[r] = IF pc[r] = "send_size" THEN "send_data" ELSE "bcast"
  BY DEF Send, TreeTypes
<1>4. r # 0 /\ n \in Nat
  BY <1>2, Numbers DEF Places
<1>5. /\ Sent(r)' = Sent(r) + 1
      /\ Sent(r) + 1 = IF pc[r] = "send_size" THEN 2 * n - 1 ELSE 2 * n
  <2>1. CASE pc[r] = "send_size"
    <3>1. Sent(r) = 2 * n - 2
      BY <2>1 DEF Sent
    <3>2. Sent(r)' = 2 * n - 1
      BY <1>2, <1>3, <2>1 DEF Sent
    <3> QED
      BY <1>4, <2>1, <3>1, <3>2
  <2>2. CASE pc[r] = "send_data"
    <3>1. Sent(r) = 2 * n - 1
      BY <2>2 DEF Sent
    <3>2. Sent(r)' = 2 * n - 0
      BY <1>2, <1>3, <2>2 DEF Sent
    <3> QED
      BY <1>4, <2>2, <3>1, <3>2
  <2> QED
    BY <1>2, <2>1, <2>2
<1>6. ASSUME NEW c PROVE Got(r, c)' = Got(r, c)
  <2>1. Merged(r, c) = n - 0
    BY <1>2 DEF Merged
  <2>2. Merged(r, c)' = n - 0
    BY <1>2, <1>3 DEF Merged
  <2>3. Got(r, c) = 2 * Merged(r, c) + 0
    BY <1>2 DEF Got
  <2>4. Got(r, c)' = 2 * Merged(r, c)' + 0
    BY <1>2 DEF Got
  <2> QED
    BY <2>1, <2>2, <2>3, <2>4
<1>7. ASSUME NEW d \in Rank \ {0} PROVE Got(Parent(d), d)' = Got(Parent(d), d)
  <2>1. CASE Parent(d) = r
    BY <1>6, <2>1
  <2>2. CASE Parent(d) # r
    BY <1>1, <2>2, ParentRank, SteadyCounts
  <2> QED
    BY <2>1, <2>2
<1>8. ASSUME NEW d \in Rank \ {0}, d # r PROVE Even(d)
  <2>1. Sent(d)' = Sent(d)
    BY <1>1, <1>8, SteadyCounts
  <2> QED
    BY <1>7, <2>1 DEF Even
<1>9. Done(r)' = Done(r)
  <2>1. Done(r) = n - 0
    BY <1>2 DEF Done, Waiting
  <2>2. Done(r)' = n - 0
    BY <1>2, <1>3 DEF Done, Waiting
  <2> QED
    BY <2>1, <2>2
<1>10. \A i \in Rank : Done(i)' = Done(i)
  BY <1>1, <1>9, SteadyCounts
<1> QED
  BY <1>1, <1>4, <1>5, <1>7, <1>8, <1>10

LEMMA SendMoves ==
  ASSUME Size \in Nat \ {0}, NEW V, TreeTypes(V), Places, Flows, NEW r \in Rank, Send(r),
         NEW q, q = chan[r][Parent(r)]
  PROVE  /\ r # 0 /\ Parent(r) \in Rank /\ q \in Seq(Message(V))
         /\ chan'[r][Parent(r)] = Append(q, Sending(r))
         /\ \A s, d \in Rank : s # r \/ d # Parent(r) => chan'[s][d] = chan[s][d]
         /\ DOMAIN chan'[r][Parent(r)] = 1 .. Len(q) + 1
         /\ Len(chan'[r][Parent(r)]) = Len(q) + 1
         /\ chan'[r][Parent(r)][Len(q) + 1] = Sending(r)
         /\ \A j \in 1 .. Len(q) : chan'[r][Parent(r)][j] = q[j] /\ j \in DOMAIN q
<1>1. r # 0 /\ Parent(r) \in Rank
  BY SendCounts, ParentRank
<1>2. q \in Seq(Message(V)) /\ DOMAIN chan = Rank /\ DOMAIN chan[r] = Rank
  BY <1>1 DEF TreeTypes
<1>3. chan' = [chan EXCEPT ![r][Parent(r)] = Append(@, Sending(r))]
  BY DEF Send, Sending
<1>4. chan'[r][Parent(r)] = Append(q, Sending(r))
  BY <1>1, <1>2, <1>3
<1>5. \A s, d \in Rank : s # r \/ d # Parent(r) => chan'[s][d] = chan[s][d]
  BY <1>1, <1>2, <1>3
<1>6. PICK x : x = Sending(r)
  OBVIOUS
<1>7. /\ DOMAIN Append(q, x) = 1 .. Len(q) + 1 /\ Len(Append(q, x)) = Len(q) + 1
      /\ Append(q, x)[Len(q) + 1] = x
      /\ \A j \in 1 .. Len(q) : Append(q, x)[j] = q[j] /\ j \in DOMAIN q
  BY <1>2
<1> QED
  BY <1>1, <1>2, <1>4, <1>5, <1>6, <1>7

LEMMA SendFlows ==
  ASSUME Size \in Nat \ {0}, NEW V, TreeTypes(V), Places, Flows, NEW r \in Rank, Send(r)
  PROVE  Flows'
<1>1. PICK q : q = chan[r][Parent(r)]
  OBVIOUS
<1>2. r # 0 /\ Parent(r) \in Rank /\ Len(q) \in Nat
  BY <1>1, SendMoves
<1>3. Got(Parent(r), r) \in Int /\ Sent(r) \in Int /\ Len(given[r]) \in Nat
  BY <1>2, Numbers
<1>4. Len(q) = Sent(r) - Got(Parent(r), r)
  BY <1>1, <1>2 DEF Flows
<1>5. ASSUME NEW s \in Rank, NEW d \in Rank, chan'[s][d] # <<>> PROVE s # 0 /\ d = Parent(s)
  BY <1>1, <1>2, <1>5, SendMoves DEF Flows
<1>6. ASSUME NEW s \in Rank, s # 0, s # r
      PROVE  chan'[s][Parent(s)] = chan[s][Parent(s)] /\ Even(s)
  BY <1>1, <1>6, ParentRank, SendMoves, SendCounts
<1>7. ASSUME NEW s \in Rank, s # 0 PROVE Len(chan'[s][Parent(s)]) = Sent(s)' - Got(Parent(s), s)'
  <2>1. CASE s = r
    <3>1. Len(chan'[r][Parent(r)]) = Len(q) + 1
      BY <1>1, SendMoves
    <3>2. Sent(r)' = Sent(r) + 1 /\ Got(Parent(r), r)' = Got(Parent(r), r)
      BY SendCounts
    <3> QED
      BY <1>3, <1>4, <2>1, <3>1, <3>2
  <2>2. CASE s # r
    BY <1>6, <1>7, <2>2 DEF Flows, Even
  <2> QED
    BY <2>1, <2>2
<1>8. ASSUME NEW s \in Rank, s # 0, NEW j \in DOMAIN chan'[s][Parent(s)]
      PROVE  chan'[s][Parent(s)][j].part = IF (Got(Parent(s), s)' + j) % 2 = 1
                                           THEN "send_size" ELSE "send_data"
  <2>1. CASE s = r
    <3>1. Got(Parent(r), r)' = Got(Parent(r), r)
      BY SendCounts
    <3>2. j \in 1 .. Len(q) + 1
      BY <1>1, <1>8, <2>1, SendMoves
    <3>3. CASE j \in 1 .. Len(q)
      <4>1. chan'[r][Parent(r)][j] = q[j] /\ j \in DOMAIN q
        BY <1>1, <3>3, SendMoves
      <4>2. q[j].part = IF (Got(Parent(r), r) + j) % 2 = 1 THEN "send_size" ELSE "send_data"
        BY <1>1, <1>2, <4>1 DEF Flows
      <4> QED
        BY <2>1, <3>1, <4>1, <4>2
    <3>4. CASE j = Len(q) + 1
      <4>1. Got(Parent(r), r) + j = Sent(r) + 1
        BY <1>2, <1>3, <1>4, <3>4
      <4>2. chan'[r][Parent(r)][j] = Sending(r)
        BY <1>1, <3>4, SendMoves
      <4>3. Sending(r).part = pc[r] /\ pc[r] \in {"send_size", "send_data"}
        BY DEF Sending, Send
      <4>4. Sent(r) + 1 = IF pc[r] = "send_size" THEN 2 * Len(given[r]) - 1 ELSE 2 * Len(given[r])
        BY SendCounts
      <4>5. pc[r] = IF (Sent(r) + 1) % 2 = 1 THEN "send_size" ELSE "send_data"
        BY <1>3, <4>3, <4>4
      <4> QED
        BY <2>1, <3>1, <4>1, <4>2, <4>3, <4>5
    <3> QED
      BY <1>2, <3>2, <3>3, <3>4
  <2>2. CASE s # r
    BY <1>6, <1>8, <2>2 DEF Flows, Even
  <2> QED
    BY <2>1, <2>2
<1> QED
  BY <1>5, <1>7, <1>8 DEF Flows

-----------------------------------------------------------------------------
(* A broadcast.                                                            *)
LEMMA BcastCounts ==
  ASSUME Size \in Nat \ {0}, NEW V, TreeTypes(V), Places, NEW r \in Rank,
         pc[r] = "bcast", pc' = [pc EXCEPT ![r] = "out"], UNCHANGED <<given, sized>>
  PROVE  /\ \A c \in Rank \ {0} : Even(c)
         /\ \A s \in Rank : Done(s)' = Done(s)
<1>1. pc'[r] = "out" /\ r \notin sized /\ \A s \in Rank : s # r => Steady(s)
  BY DEF Steady, TreeTypes, Places, Waiting
<1>2. ASSUME NEW s \in Rank PROVE Done(s)' = Done(s) /\ Sent(s)' = Sent(s)
  <2>1. CASE s = r
    <3>1. Sent(s) = 2 * Len(given[s]) - 0
      BY <2>1 DEF Sent
    <3>2. Sent(s)' = 2 * Len(given[s]) - 0
      BY <1>1, <2>1 DEF Sent
    <3>3. Done(s) = Len(given[s]) - 0
      BY <2>1 DEF Done, Waiting
    <3>4. Done(s)' = Len(given[s]) - 0
      BY <1>1, <2>1 DEF Done, Waiting
    <3> QED
      BY <3>1, <3>2, <3>3, <3>4
  <2>2. CASE s # r
    BY <1>1, <2>2, SteadyCounts
  <2> QED
    BY <2>1, <2>2
<1>3. ASSUME NEW c PROVE Got(r, c)' = Got(r, c)
  <2>1. Merged(r, c) = Len(given[r]) - 0
    BY DEF Merged
  <2>2. Merged(r, c)' = Len(given[r]) - 0
    BY <1>1 DEF Merged
  <2>3. Got(r, c) = 2 * Merged(r, c) + 0
    BY <1>1 DEF Got
  <2>4. Got(r, c)' = 2 * Merged(r, c)' + 0
    BY <1>1 DEF Got
  <2> QED
    BY <2>1, <2>2, <2>3, <2>4
<1>4. ASSUME NEW c \in Rank \ {0} PROVE Even(c)
  <2>1. Got(Parent(c), c)' = Got(Parent(c), c)
    <3>1. CASE Parent(c) = r
      BY <1>3, <3>1
    <3>2. CASE Parent(c) # r
      BY <1>1, <3>2, ParentRank, SteadyCounts
    <3> QED
      BY <3>1, <3>2
  <2> QED
    BY <1>2, <2>1 DEF Even
<1> QED
  BY <1>2, <1>4

-----------------------------------------------------------------------------
(* A rank has merged its children only in all-reduces that they have called
   and in which they have merged their own: rank 0 is the last.            *)
LEMMA DoneOrder ==
  ASSUME Size \in Nat \ {0}, NEW V, TreeTypes(V), Places, Flows, NEW c \in Rank \ {0},
         NEW p, p = Parent(c)
  PROVE  /\ Done(p) <= Merged(p, c) /\ Merged(p, c) <= Done(c) /\ Done(p) <= Done(c)
         /\ Sent(c) <= 2 * Done(c)
<1>1. p \in Rank /\ Len(given[p]) \in Nat /\ Len(given[c]) \in Nat
  BY ParentRank, Numbers
<1>2. Done(p) \in Int /\ Merged(p, c) \in Int /\ Done(c) \in Int /\ Sent(c) \in Int /\ Got(p, c) \in Int
  BY <1>1, Numbers
<1>3. Done(p) <= Merged(p, c)
  BY <1>1 DEF Done, Merged, Waiting
<1>4. 2 * Merged(p, c) <= Got(p, c)
  BY <1>2 DEF Got
<1>5. Sent(c) <= 2 * Done(c)
  <2>1. CASE Waiting(c)
    <3>1. Sent(c) = 2 * Len(given[c]) - 2
      BY <2>1 DEF Sent, Waiting
    <3>2. Done(c) = Len(given[c]) - 1
      BY <2>1 DEF Done
    <3> QED
      BY <1>1, <3>1, <3>2
  <2>2. CASE ~Waiting(c)
    <3>1. Sent(c) <= 2 * Len(given[c])
      <4>1. Sent(c) = 2 * Len(given[c]) - 0 \/ Sent(c) = 2 * Len(given[c]) - 1
            \/ Sent(c) = 2 * Len(given[c]) - 2
        BY DEF Sent
      <4>2. PICK n \in Nat : n = Len(given[c])
        BY <1>1
      <4> QED
        BY <4>1, <4>2
    <3>2. Done(c) = Len(given[c]) - 0
      BY <2>2 DEF Done
    <3> QED
      BY <1>1, <3>1, <3>2
  <2> QED
    BY <2>1, <2>2
<1>6. Got(p, c) <= Sent(c)
  <2>1. Len(chan[c][p]) \in Nat
    BY <1>1 DEF TreeTypes
  <2>2. Len(chan[c][p]) = Sent(c) - Got(p, c)
    BY DEF Flows
  <2> QED
    BY <1>2, <2>1, <2>2
<1>7. PICK d, m, e, s, g \in Int : d = Done(p) /\ m = Merged(p, c) /\ e = Done(c) /\ s = Sent(c) /\ g = Got(p, c)
  BY <1>2
<1>8. d <= m /\ 2 * m <= g /\ g <= s /\ s <= 2 * e
  BY <1>3, <1>4, <1>5, <1>6, <1>7
<1>9. m <= e /\ d <= e
  BY <1>8
<1> QED
  BY <1>3, <1>5, <1>7, <1>9

LEMMA RootIsLast ==
  ASSUME Size \in Nat \ {0}, NEW V, TreeTypes(V), Places, Flows, NEW s \in Rank
  PROVE  Done(0) <= Done(s)
<1>1. PICK D : D = [r \in Rank |-> Done(r)]
  OBVIOUS
<1>2. \A r \in Rank : D[r] = Done(r) /\ D[r] \in Int
  BY <1>1, Numbers
<1>3. 0 \in Rank /\ s \in Nat
  BY DEF Rank
<1>4. ASSUME NEW c \in Rank \ {0} PROVE D[Parent(c)] <= D[c] /\ Parent(c) \in Rank
  BY <1>2, DoneOrder, ParentRank
<1> DEFINE T == {n \in Nat : \A r \in Rank : r <= n => D[0] <= D[r]}
<1>5. 0 \in T
  BY <1>2, <1>3 DEF Rank
<1>6. ASSUME NEW n \in Nat, n \in T PROVE n + 1 \in T
  <2>1. ASSUME NEW r \in Rank, r = n + 1 PROVE D[0] <= D[r]
    <3>1. r \in Rank \ {0} /\ r \in Nat \ {0}
      BY <2>1
    <3>2. Parent(r) \in Rank /\ Parent(r) <= n /\ D[Parent(r)] <= D[r]
      BY <1>4, <2>1, <3>1, ParentNat
    <3>3. D[0] <= D[Parent(r)]
      BY <1>6, <3>2
    <3>4. D[0] \in Int /\ D[Parent(r)] \in Int /\ D[r] \in Int
      BY <1>2, <1>3, <3>2
    <3>5. PICK a, b, c \in Int : a = D[0] /\ b = D[Parent(r)] /\ c = D[r]
      BY <3>4
    <3>6. a <= b /\ b <= c
      BY <3>2, <3>3, <3>5
    <3>7. a <= c
      BY <3>6
    <3> QED
      BY <3>5, <3>7
  <2>2. ASSUME NEW r \in Rank, r <= n PROVE D[0] <= D[r]
    BY <1>6, <2>2
  <2>3. ASSUME NEW r \in Rank, r <= n + 1 PROVE r <= n \/ r = n + 1
    BY <2>3 DEF Rank
  <2> QED
    BY <2>1, <2>2, <2>3
<1>7. s \in T
  <2> HIDE DEF T
  <2> QED
    BY <1>3, <1>5, <1>6, SetInduction
<1> QED
  BY <1>2, <1>3, <1>7

-----------------------------------------------------------------------------
(* Every step keeps the types, the places, the rounds and the flows.       *)
LEMMA HeadIsValue ==
  ASSUME Size \in Nat \ {0}, NEW V, TreeTypes(V), Places, Flows, NEW r \in Rank, RecvData(r)
  PROVE  LET m == Head(chan[Child(r)][r]) IN m.part = "send_data" /\ m.value \in V
<1>1. Awaiting(r)
  BY DEF RecvData
<1>2. PICK c : c = Child(r)
  OBVIOUS
<1>3. c \in Rank \ {0} /\ Parent(c) = r /\ chan[c][r] # <<>>
  BY <1>1, <1>2, AwaitedChild
<1>4. PICK q \in Seq(Message(V)) : q = chan[c][r]
  BY <1>3 DEF TreeTypes
<1>5. 1 \in DOMAIN q /\ Head(q) = q[1] /\ q[1] \in Message(V)
  BY <1>3, <1>4
<1>6. Got(r, c) + 1 = 2 * Len(given[r]) /\ Len(given[r]) \in Nat
  BY <1>2, RecvDataCounts, Numbers
<1>7. q[1].part = IF (Got(r, c) + 1) % 2 = 1 THEN "send_size" ELSE "send_data"
  BY <1>3, <1>4, <1>5 DEF Flows
<1>8. q[1].part = "send_data"
  BY <1>6, <1>7
<1>9. q[1].value \in V
  BY <1>5, <1>8 DEF Message
<1> QED
  BY <1>2, <1>4, <1>5, <1>8, <1>9

LEMMA CallKeeps ==
  ASSUME Size \in Nat \ {0}, NEW V, Merging(V), TreeTypes(V), TreeInv,
         NEW r \in Rank, NEW v \in Input, Call(r, v)
  PROVE  TreeTypes(V)' /\ TreeInv'
<1>0. Places /\ Rounds /\ Flows /\ v \in V
  BY DEF TreeInv, Merging
<1>1. /\ \A c \in Rank \ {0} : Even(c)
      /\ Len(given'[r]) = Len(given[r]) + 1 /\ pc'[r] # "out"
      /\ given'[r] = Append(given[r], v)
      /\ \A s \in Rank : s # r => Steady(s)
  BY <1>0, CallCounts
<1>2. pc[r] = "out" /\ pc'[r] = Start(r) /\ UNCHANGED <<returned, sized, chan, bcasts>>
  BY DEF Call, TreeTypes
<1>3. TreeTypes(V)'
  <2>1. given' \in [Rank -> Seq(V)]
    BY <1>0 DEF Call, TreeTypes
  <2>3. DOMAIN pc' = Rank
    BY DEF Call, TreeTypes
  <2>4. DOMAIN tmp' = Rank
    BY DEF Call, TreeTypes
  <2>5. ASSUME NEW s \in Rank, pc'[s] # "out" PROVE tmp'[s] \in V
    <3>1. tmp'[s] = IF s = r THEN v ELSE tmp[s]
      BY DEF Call, TreeTypes
    <3>2. s # r => pc[s] # "out"
      BY <1>1, <2>5 DEF Steady
    <3> QED
      BY <1>0, <3>1, <3>2 DEF TreeTypes
  <2> QED
    BY <1>2, <2>1, <2>3, <2>4, <2>5 DEF TreeTypes
<1>4. Places'
  <2>1. ASSUME NEW s \in Rank
        PROVE  /\ pc'[s] \in {"out", "first", "second", "bcast"}
                            \cup (IF s = 0 THEN {} ELSE {"send_size", "send_data"})
               /\ pc'[s] = "first" => FirstChild(s) < Size
               /\ pc'[s] = "second" => SecondChild(s) < Size
               /\ s \in sized' => Waiting(s)'
    <3>1. CASE s = r
      BY <1>0, <1>2, <3>1 DEF Places, Start, AfterFirst, AfterChildren, Waiting
    <3>2. CASE s # r
      BY <1>0, <1>1, <3>2 DEF Places, Steady, Waiting
    <3> QED
      BY <3>1, <3>2
  <2> QED
    BY <2>1 DEF Places
<1>5. Rounds'
  <2>1. ASSUME NEW s \in Rank
        PROVE  /\ Len(given'[s]) = Len(returned[s]) + (IF pc'[s] = "out" THEN 0 ELSE 1)
               /\ Len(returned[s]) <= Len(bcasts) /\ Len(bcasts) <= Len(given'[s])
    <3>1. /\ Len(given[s]) = Len(returned[s]) + (IF pc[s] = "out" THEN 0 ELSE 1)
          /\ Len(returned[s]) <= Len(bcasts) /\ Len(bcasts) <= Len(given[s])
      BY <1>0 DEF Rounds
    <3>2. Len(given[s]) \in Nat /\ Len(returned[s]) \in Nat /\ Len(bcasts) \in Nat
      BY DEF TreeTypes
    <3>3. CASE s = r
      <4>1. Len(given[r]) = Len(returned[r]) + 0
        BY <1>2, <3>1, <3>3
      <4>2. Len(given'[r]) = Len(given[r]) + 1 /\ pc'[r] # "out"
        BY <1>1
      <4>3. PICK g, q, b \in Nat : g = Len(given[r]) /\ q = Len(returned[r]) /\ b = Len(bcasts)
        BY <3>2, <3>3
      <4>0. Len(returned[r]) <= Len(bcasts) /\ Len(bcasts) <= Len(given[r])
        BY <1>0 DEF Rounds
      <4>4. g = q /\ q <= b /\ b <= g
        BY <4>0, <4>1, <4>3
      <4>5. b <= g + 1
        BY <4>4
      <4>6. Len(given'[r]) = Len(returned[r]) + 1 /\ Len(bcasts) <= Len(given'[r])
        BY <4>2, <4>3, <4>4, <4>5
      <4> QED
        BY <3>1, <3>3, <4>2, <4>6
    <3>4. CASE s # r
      BY <1>1, <3>1, <3>4 DEF Steady
    <3> QED
      BY <3>3, <3>4
  <2> QED
    BY <1>0, <1>2, <2>1 DEF Rounds
<1>6. Flows'
  BY <1>0, <1>1, <1>2, FlowsSame
<1> QED
  BY <1>3, <1>4, <1>5, <1>6 DEF TreeInv

LEMMA RecvKeeps ==
  ASSUME Size \in Nat \ {0}, NEW V, Merging(V), TreeTypes(V), TreeInv,
         NEW r \in Rank, RecvSize(r) \/ RecvData(r)
  PROVE  TreeTypes(V)' /\ TreeInv'
<1>0. Places /\ Rounds /\ Flows /\ Awaiting(r)
  BY DEF TreeInv, RecvSize, RecvData
<1>1. PICK c : c = Child(r)
  OBVIOUS
<1>2. c \in Rank \ {0} /\ Parent(c) = r /\ chan[c][r] # <<>>
  BY <1>0, <1>1, AwaitedChild
<1>3. chan' = [chan EXCEPT ![c][r] = Tail(@)] /\ UNCHANGED <<given, returned, bcasts>>
  BY <1>1 DEF RecvSize, RecvData, Taken
<1>4. Flows'
  <2>1. Got(r, c)' = Got(r, c) + 1 /\ Sent(c)' = Sent(c) /\ \A d \in Rank \ {0} : d # c => Even(d)
    <3>1. CASE RecvSize(r)
      <4>1. Got(r, Child(r))' = Got(r, Child(r)) + 1 /\ Sent(Child(r))' = Sent(Child(r))
            /\ Child(r)' = Child(r) /\ \A d \in Rank \ {0} : d # Child(r) => Even(d)
        BY <1>0, <3>1, RecvSizeCounts
      <4> QED
        BY <1>1, <4>1
    <3>2. CASE RecvData(r)
      BY <1>0, <1>1, <3>2, RecvDataCounts
    <3> QED
      BY <3>1, <3>2
  <2> QED
    BY <1>0, <1>2, <1>3, <2>1, TakenFlows
<1>5. /\ \A s \in Rank : s # r => Steady(s)
      /\ pc'[r] = pc[r] \/ pc'[r] \in {"second", "bcast", "send_size"}
      /\ pc[r] \in {"first", "second"}
      /\ r \in sized' => pc'[r] = pc[r]
      /\ pc'[r] = "second" => SecondChild(r) < Size
      /\ pc'[r] = "send_size" => r # 0
      /\ DOMAIN pc' = Rank /\ DOMAIN tmp' = Rank /\ sized' \subseteq Rank
  <2>1. CASE RecvSize(r)
    BY <1>0, <2>1 DEF RecvSize, Steady, TreeTypes, Awaiting, Places
  <2>2. CASE RecvData(r)
    <3>1. pc'[r] = IF pc[r] = "first" THEN AfterFirst(r) ELSE AfterChildren(r)
      BY <2>2 DEF RecvData, TreeTypes
    <3>2. pc[r] \in {"first", "second"} /\ r \notin sized' /\ sized' \subseteq Rank
      BY <1>0, <2>2 DEF RecvData, Awaiting, TreeTypes
    <3>4. DOMAIN pc' = Rank /\ DOMAIN tmp' = Rank
      BY <2>2 DEF RecvData, TreeTypes
    <3>5. \A s \in Rank : s # r => Steady(s)
      BY <1>0, <2>2, RecvDataCounts
    <3> QED
      BY <1>0, <3>1, <3>2, <3>4, <3>5 DEF AfterFirst, AfterChildren, Places
  <2> QED
    BY <2>1, <2>2
<1>6. TreeTypes(V)'
  <2>1. chan' \in [Rank -> [Rank -> Seq(Message(V))]]
    <3>1. Tail(chan[c][r]) \in Seq(Message(V))
      BY <1>2 DEF TreeTypes
    <3> QED
      BY <1>3, <3>1 DEF TreeTypes
  <2>2. ASSUME NEW s \in Rank, pc'[s] # "out" PROVE tmp'[s] \in V
    <3>1. pc[s] # "out" /\ tmp[s] \in V
      BY <1>5, <2>2 DEF Steady, TreeTypes
    <3>2. CASE RecvSize(r)
      BY <3>1, <3>2 DEF RecvSize
    <3>3. CASE RecvData(r)
      <4>1. PICK m : m = Head(chan[c][r])
        OBVIOUS
      <4>2. m.value \in V
        BY <1>0, <1>1, <3>3, <4>1, HeadIsValue
      <4>3. tmp'[s] = IF s = r THEN Merge(tmp[r], m.value) ELSE tmp[s]
        BY <1>1, <3>3, <4>1 DEF RecvData, TreeTypes
      <4>4. tmp[r] \in V
        BY <1>5 DEF TreeTypes
      <4>5. PICK a \in V : a = tmp[r]
        BY <4>4
      <4>6. Merge(a, m.value) \in V
        BY <4>2 DEF Merging
      <4> QED
        BY <3>1, <4>3, <4>5, <4>6
    <3> QED
      BY <3>2, <3>3
  <2> QED
    BY <1>3, <1>5, <2>1, <2>2 DEF TreeTypes
<1>7. Places'
  <2>1. ASSUME NEW s \in Rank
        PROVE  /\ pc'[s] \in {"out", "first", "second", "bcast"}
                            \cup (IF s = 0 THEN {} ELSE {"send_size", "send_data"})
               /\ pc'[s] = "first" => FirstChild(s) < Size
               /\ pc'[s] = "second" => SecondChild(s) < Size
               /\ s \in sized' => Waiting(s)'
    <3>1. CASE s = r
      <4>1. pc[r] \in {"first", "second"} /\ (pc[r] = "first" => FirstChild(r) < Size)
            /\ (pc[r] = "second" => SecondChild(r) < Size)
        BY <1>0, <1>5 DEF Places
      <4> QED
        BY <1>5, <3>1, <4>1 DEF Waiting
    <3>2. CASE s # r
      BY <1>0, <1>5, <3>2 DEF Places, Steady, Waiting
    <3> QED
      BY <3>1, <3>2
  <2> QED
    BY <2>1 DEF Places
<1>8. Rounds'
  <2>1. ASSUME NEW s \in Rank PROVE pc'[s] = "out" <=> pc[s] = "out"
    BY <1>5 DEF Steady
  <2> QED
    BY <1>0, <1>3, <2>1 DEF Rounds
<1> QED
  BY <1>4, <1>6, <1>7, <1>8 DEF TreeInv

LEMMA SendKeeps ==
  ASSUME Size \in Nat \ {0}, NEW V, Merging(V), TreeTypes(V), TreeInv, NEW r \in Rank, Send(r)
  PROVE  TreeTypes(V)' /\ TreeInv'
<1>0. Places /\ Rounds /\ Flows
  BY DEF TreeInv
<1>1. Flows'
  BY <1>0, SendFlows
<1>2. UNCHANGED <<given, returned, tmp, sized, bcasts>> /\ pc[r] \in {"send_size", "send_data"}
  BY DEF Send
<1>3. DOMAIN pc' = Rank /\ pc'[r] = IF pc[r] = "send_size" THEN "send_data" ELSE "bcast"
  BY DEF Send, TreeTypes
<1>4. \A s \in Rank : s # r => Steady(s)
  BY <1>0, SendCounts
<1>5. r # 0 /\ r \notin sized
  BY <1>0, <1>2 DEF Places, Waiting
<1>6. TreeTypes(V)'
  <2>1. PICK x : x = Sending(r)
    OBVIOUS
  <2>2. x \in Message(V)
    BY <1>2, <2>1 DEF Sending, Message, TreeTypes
  <2>3. Parent(r) \in Rank
    BY <1>5, ParentRank
  <2>4. chan' = [chan EXCEPT ![r][Parent(r)] = Append(@, x)]
    BY <2>1 DEF Send, Sending
  <2>5. Append(chan[r][Parent(r)], x) \in Seq(Message(V))
    BY <2>2, <2>3 DEF TreeTypes
  <2>6. chan' \in [Rank -> [Rank -> Seq(Message(V))]]
    BY <2>3, <2>4, <2>5 DEF TreeTypes
  <2>7. ASSUME NEW s \in Rank, pc'[s] # "out" PROVE tmp'[s] \in V
    BY <1>2, <1>4, <2>7 DEF Steady, TreeTypes
  <2> QED
    BY <1>2, <1>3, <2>6, <2>7 DEF TreeTypes
<1>7. Places'
  <2>1. ASSUME NEW s \in Rank
        PROVE  /\ pc'[s] \in {"out", "first", "second", "bcast"}
                            \cup (IF s = 0 THEN {} ELSE {"send_size", "send_data"})
               /\ pc'[s] = "first" => FirstChild(s) < Size
               /\ pc'[s] = "second" => SecondChild(s) < Size
               /\ s \in sized' => Waiting(s)'
    <3>1. CASE s = r
      BY <1>2, <1>3, <1>5, <3>1
    <3>2. CASE s # r
      BY <1>0, <1>4, <3>2 DEF Places, Steady, Waiting
    <3> QED
      BY <3>1, <3>2
  <2> QED
    BY <2>1 DEF Places
<1>8. Rounds'
  <2>1. ASSUME NEW s \in Rank PROVE pc'[s] = "out" <=> pc[s] = "out"
    BY <1>2, <1>3, <1>4 DEF Steady
  <2> QED
    BY <1>0, <1>2, <2>1 DEF Rounds
<1> QED
  BY <1>1, <1>6, <1>7, <1>8 DEF TreeInv

(* When rank 0 broadcasts, everybody has called and has merged its children. *)
LEMMA RootHasAll ==
  ASSUME Size \in Nat \ {0}, NEW V, TreeTypes(V), TreeInv, pc[0] = "bcast"
  PROVE  /\ Len(given[0]) = Len(bcasts) + 1
         /\ \A s \in Rank : Len(bcasts) + 1 <= Done(s) /\ Done(s) <= Len(given[s])
<1>0. Places /\ Rounds /\ Flows /\ 0 \in Rank
  BY DEF TreeInv, Rank
<1>1. Len(given[0]) = Len(returned[0]) + 1 /\ Len(returned[0]) = Len(bcasts)
  BY <1>0 DEF Rounds
<1>2. Done(0) = Len(given[0]) - 0
  BY DEF Done, Waiting
<1>3. Len(given[0]) \in Nat
  BY <1>0 DEF TreeTypes
<1>4. ASSUME NEW s \in Rank PROVE Done(0) <= Done(s) /\ Done(s) <= Len(given[s])
  <2>1. Len(given[s]) \in Nat
    BY DEF TreeTypes
  <2>2. Done(s) <= Len(given[s])
    <3>1. Done(s) = Len(given[s]) - 0 \/ Done(s) = Len(given[s]) - 1
      BY DEF Done
    <3>2. PICK n \in Nat : n = Len(given[s])
      BY <2>1
    <3> QED
      BY <3>1, <3>2
  <2> QED
    BY <1>0, <2>2, RootIsLast
<1> QED
  BY <1>1, <1>2, <1>3, <1>4

LEMMA OutKeeps ==
  ASSUME Size \in Nat \ {0}, NEW V, TreeTypes(V), TreeInv, NEW r \in Rank, NEW x \in V,
         pc[r] = "bcast", pc' = [pc EXCEPT ![r] = "out"],
         returned' = [returned EXCEPT ![r] = Append(@, x)],
         UNCHANGED <<given, tmp, sized, chan>>,
         \/ r = 0 /\ bcasts' = Append(bcasts, x)
         \/ r # 0 /\ bcasts' = bcasts /\ Len(bcasts) > Len(returned[r])
  PROVE  TreeTypes(V)' /\ TreeInv'
<1>0. Places /\ Rounds /\ Flows /\ 0 \in Rank
  BY DEF TreeInv, Rank
<1>1. DOMAIN pc' = Rank /\ pc'[r] = "out" /\ \A s \in Rank : s # r => pc'[s] = pc[s]
  BY DEF TreeTypes
<1>2. \A c \in Rank \ {0} : Even(c)
  BY <1>0, BcastCounts
<1>3. Flows'
  BY <1>0, <1>2, FlowsSame
<1>4. TreeTypes(V)'
  <2>1. Append(returned[r], x) \in Seq(V) /\ Append(bcasts, x) \in Seq(V) /\ bcasts \in Seq(V)
    BY DEF TreeTypes
  <2>3. returned' \in [Rank -> Seq(V)]
    BY <2>1 DEF TreeTypes
  <2>4. bcasts' \in Seq(V)
    BY <2>1
  <2>2. ASSUME NEW s \in Rank, pc'[s] # "out" PROVE tmp'[s] \in V
    BY <1>1, <2>2 DEF TreeTypes
  <2> QED
    BY <1>1, <2>2, <2>3, <2>4 DEF TreeTypes
<1>5. Places'
  <2>1. ASSUME NEW s \in Rank
        PROVE  /\ pc'[s] \in {"out", "first", "second", "bcast"}
                            \cup (IF s = 0 THEN {} ELSE {"send_size", "send_data"})
               /\ pc'[s] = "first" => FirstChild(s) < Size
               /\ pc'[s] = "second" => SecondChild(s) < Size
               /\ s \in sized' => Waiting(s)'
    <3>1. CASE s = r
      BY <1>0, <1>1, <3>1 DEF Places, Waiting
    <3>2. CASE s # r
      BY <1>0, <1>1, <3>2 DEF Places, Waiting
    <3> QED
      BY <3>1, <3>2
  <2> QED
    BY <2>1 DEF Places
<1>6. Rounds'
  <2>1. PICK g, q \in [Rank -> Nat], b \in Nat : /\ \A s \in Rank : g[s] = Len(given[s]) /\ q[s] = Len(returned[s])
                                                /\ b = Len(bcasts)
    <3>1. [s \in Rank |-> Len(given[s])] \in [Rank -> Nat] /\ [s \in Rank |-> Len(returned[s])] \in [Rank -> Nat]
          /\ Len(bcasts) \in Nat
      BY DEF TreeTypes
    <3> QED
      BY <3>1
  <2>2. Len(returned'[r]) = q[r] + 1 /\ \A s \in Rank : s # r => returned'[s] = returned[s]
    BY <2>1 DEF TreeTypes
  <2>3. g[r] = q[r] + 1 /\ q[r] <= b /\ q[0] = b /\ \A s \in Rank : q[s] <= b /\ b <= g[s]
    <3>1. /\ Len(given[r]) = Len(returned[r]) + 1 /\ Len(returned[0]) = Len(bcasts)
          /\ \A s \in Rank : Len(returned[s]) <= Len(bcasts) /\ Len(bcasts) <= Len(given[s])
      BY <1>0 DEF Rounds
    <3> QED
      BY <1>0, <2>1, <3>1
  <2>4. Len(bcasts') = IF r = 0 THEN b + 1 ELSE b
    BY <2>1 DEF TreeTypes
  <2>5. r # 0 => b > q[r]
    BY <2>1
  <2>6. r = 0 => \A s \in Rank : b + 1 <= g[s]
    <3>1. ASSUME r = 0, NEW s \in Rank PROVE b + 1 <= g[s]
      <4>1. b + 1 <= Done(s) /\ Done(s) <= g[s]
        BY <2>1, <3>1, RootHasAll
      <4>2. Done(s) \in Int
        BY Numbers
      <4> QED
        BY <4>1, <4>2
    <3> QED
      BY <3>1
  <2>7. Len(returned'[0]) = Len(bcasts')
    <3>1. CASE r = 0
      BY <2>2, <2>3, <2>4, <3>1
    <3>2. CASE r # 0
      BY <1>0, <2>1, <2>2, <2>3, <2>4, <3>2
    <3> QED
      BY <3>1, <3>2
  <2>8. ASSUME NEW s \in Rank
        PROVE  /\ Len(given[s]) = Len(returned'[s]) + (IF pc'[s] = "out" THEN 0 ELSE 1)
               /\ Len(returned'[s]) <= Len(bcasts') /\ Len(bcasts') <= Len(given[s])
    <3>1. Len(given[s]) = Len(returned[s]) + (IF pc[s] = "out" THEN 0 ELSE 1)
      BY <1>0 DEF Rounds
    <3>2. Len(given[s]) = Len(returned'[s]) + (IF pc'[s] = "out" THEN 0 ELSE 1)
      <4>1. CASE s = r
        <5>1. Len(given[r]) = g[r] /\ g[r] = q[r] + 1 /\ Len(returned'[r]) = q[r] + 1 /\ pc'[r] = "out"
          BY <1>1, <2>1, <2>2, <2>3
        <5> QED
          BY <4>1, <5>1
      <4>2. CASE s # r
        BY <1>1, <2>2, <3>1, <4>2
      <4> QED
        BY <4>1, <4>2
    <3>3. q[s] <= b /\ b <= g[s] /\ Len(given[s]) = g[s] /\ Len(returned[s]) = q[s]
      BY <2>1, <2>3
    <3>4. Len(returned'[s]) <= Len(bcasts')
      <4>1. CASE s = r
        BY <2>2, <2>3, <2>4, <2>5, <4>1
      <4>2. CASE s # r
        BY <2>2, <2>4, <3>3, <4>2
      <4> QED
        BY <4>1, <4>2
    <3>5. Len(bcasts') <= Len(given[s])
      BY <2>4, <2>6, <3>3
    <3> QED
      BY <3>2, <3>4, <3>5
  <2> QED
    BY <2>7, <2>8 DEF Rounds
<1> QED
  BY <1>3, <1>4, <1>5, <1>6 DEF TreeInv

LEMMA TreeInitHolds ==
  ASSUME Size \in Nat \ {0}, NEW V, TreeInit
  PROVE  TreeTypes(V) /\ TreeInv
<1>1. PICK e : e = <<>>
  OBVIOUS
<1>2. e \in Seq(V) /\ e \in Seq(Message(V)) /\ Len(e) = 0 /\ DOMAIN e = {} /\ 0 \in Rank
  BY <1>1 DEF Rank
<1>3. /\ given = [r \in Rank |-> e] /\ returned = [r \in Rank |-> e] /\ bcasts = e
      /\ pc = [r \in Rank |-> "out"] /\ sized = {} /\ chan = [s \in Rank |-> [d \in Rank |-> e]]
      /\ DOMAIN tmp = Rank
  BY <1>1 DEF TreeInit
<1>4. TreeTypes(V)
  BY <1>2, <1>3 DEF TreeTypes
<1>5. Places /\ Rounds
  BY <1>2, <1>3 DEF Places, Rounds
<1>6. Flows
  <2>1. ASSUME NEW s \in Rank, NEW d \in Rank PROVE chan[s][d] = e
    BY <1>3
  <2>2. ASSUME NEW s \in Rank \ {0} PROVE Len(chan[s][Parent(s)]) = Sent(s) - Got(Parent(s), s)
    <3>1. Parent(s) \in Rank /\ pc[s] = "out" /\ pc[Parent(s)] = "out" /\ Len(given[s]) = 0
          /\ Len(given[Parent(s)]) = 0 /\ Parent(s) \notin sized
      BY <1>2, <1>3, ParentRank
    <3>2. Sent(s) = 2 * 0 - 0
      BY <3>1 DEF Sent
    <3>3. Merged(Parent(s), s) = 0 - 0
      BY <3>1 DEF Merged
    <3>4. Got(Parent(s), s) = 2 * 0 + 0
      BY <3>1, <3>3 DEF Got
    <3> QED
      BY <1>2, <2>1, <3>1, <3>2, <3>4
  <2>3. ASSUME NEW s \in Rank \ {0} PROVE DOMAIN chan[s][Parent(s)] = {}
    BY <1>2, <2>1, ParentRank
  <2> QED
    BY <1>1, <2>1, <2>2, <2>3 DEF Flows
<1> QED
  BY <1>4, <1>5, <1>6 DEF TreeInv

LEMMA TreeStep ==
  ASSUME Size \in Nat \ {0}, NEW V, Merging(V), TreeTypes(V), TreeInv, [TreeNext]_treeVars
  PROVE  TreeTypes(V)' /\ TreeInv'
<1>0. Places /\ Rounds /\ Flows
  BY DEF TreeInv
<1>1. ASSUME NEW r \in Rank, NEW v \in Input, Call(r, v) PROVE TreeTypes(V)' /\ TreeInv'
  BY <1>1, CallKeeps
<1>2. ASSUME NEW r \in Rank, RecvSize(r) \/ RecvData(r) PROVE TreeTypes(V)' /\ TreeInv'
  BY <1>2, RecvKeeps
<1>3. ASSUME NEW r \in Rank, Send(r) PROVE TreeTypes(V)' /\ TreeInv'
  BY <1>3, SendKeeps
<1>4. ASSUME NEW r \in Rank, GetBcast(r) PROVE TreeTypes(V)' /\ TreeInv'
  <2>1. /\ r # 0 /\ pc[r] = "bcast" /\ pc' = [pc EXCEPT ![r] = "out"] /\ Len(bcasts) > Len(returned[r])
        /\ UNCHANGED <<given, tmp, sized, chan, bcasts>>
    BY <1>4 DEF GetBcast
  <2>2. PICK x : x = bcasts[Len(returned[r]) + 1]
    OBVIOUS
  <2>3. x \in V
    <3>1. Len(returned[r]) \in Nat /\ bcasts \in Seq(V) /\ Len(bcasts) \in Nat
      BY DEF TreeTypes
    <3> QED
      BY <2>1, <2>2, <3>1
  <2>4. returned' = [returned EXCEPT ![r] = Append(@, x)]
    BY <1>4, <2>2 DEF GetBcast, TreeTypes
  <2> QED
    BY <2>1, <2>3, <2>4, OutKeeps
<1>5. ASSUME Bcast PROVE TreeTypes(V)' /\ TreeInv'
  <2>1. PICK x : x = tmp[0]
    OBVIOUS
  <2>2. 0 \in Rank /\ x \in V
    BY <1>5, <2>1 DEF Bcast, TreeTypes, Rank
  <2>3. /\ pc[0] = "bcast" /\ pc' = [pc EXCEPT ![0] = "out"] /\ bcasts' = Append(bcasts, x)
        /\ returned' = [returned EXCEPT ![0] = Append(@, x)]
        /\ UNCHANGED <<given, tmp, sized, chan>>
    BY <1>5, <2>1 DEF Bcast
  <2> QED
    BY <2>2, <2>3, OutKeeps
<1>6. ASSUME UNCHANGED treeVars PROVE TreeTypes(V)' /\ TreeInv'
  <2>1. UNCHANGED <<given, returned, pc, tmp, sized, chan, bcasts>>
    BY <1>6 DEF treeVars
  <2>2. TreeTypes(V)' /\ Places' /\ Rounds'
    BY <1>0, <2>1 DEF TreeTypes, Places, Rounds, Waiting
  <2>3. \A s \in Rank : Steady(s)
    BY <2>1 DEF Steady
  <2>4. \A c \in Rank \ {0} : Even(c)
    BY <2>3, SteadyCounts, ParentRank DEF Even
  <2>5. Flows'
    BY <1>0, <2>1, <2>4, FlowsSame
  <2> QED
    BY <2>2, <2>5 DEF TreeInv
<1> QED
  BY <1>1, <1>2, <1>3, <1>4, <1>5, <1>6 DEF TreeNext, Work

(* However the ranks of the tree interleave, a value received is that of
   the all-reduce its receiver is in.                                      *)
THEOREM TreeInvariant ==
  ASSUME Size \in Nat \ {0}, NEW V, Merging(V)
  PROVE  TreeSpec => []TreeInv
<1> DEFINE I == TreeTypes(V) /\ TreeInv
<1>1. TreeInit => I
  BY TreeInitHolds
<1>2. I /\ [TreeNext]_treeVars => I'
  BY TreeStep
<1>3. I => TreeInv
  OBVIOUS
<1> QED
  BY <1>1, <1>2, <1>3, PTL DEF TreeSpec

-----------------------------------------------------------------------------
(* Merging along the tree is merging in the order of the ranks.  Joined is
   a rank's input with the results of those of its children that are n or
   more; with n = 0, of all its children.                                  *)
Joined(x, y, n, s) ==
  LET a == IF n <= FirstChild(s) /\ FirstChild(s) < Size THEN Merge(x[s], y[FirstChild(s)]) ELSE x[s]
  IN  IF n <= SecondChild(s) /\ SecondChild(s) < Size THEN Merge(a, y[SecondChild(s)]) ELSE a

LEMMA JoinedType ==
  ASSUME Size \in Nat \ {0}, NEW V, Merging(V), NEW x \in [Rank -> V], NEW y \in [Rank -> V],
         NEW n \in Nat, NEW s \in Rank
  PROVE  Joined(x, y, n, s) \in V
<1>1. \A a, b \in V : Merge(a, b) \in V
  BY DEF Merging
<1>2. /\ FirstChild(s) < Size => y[FirstChild(s)] \in V
      /\ SecondChild(s) < Size => y[SecondChild(s)] \in V
      /\ x[s] \in V
  BY ChildRank
<1> QED
  BY <1>1, <1>2 DEF Joined

LEMMA JoinedElsewhere ==
  ASSUME Size \in Nat \ {0}, NEW x, NEW y, NEW n \in Rank \ {0}, NEW s \in Rank, s # Parent(n)
  PROVE  Joined(x, y, n, s) = Joined(x, y, n + 1, s)
<1>1. s \in Nat /\ n \in Nat \ {0}
  BY DEF Rank
<1>2. n # FirstChild(s) /\ n # SecondChild(s)
  BY <1>1, ParentIs
<1>3. FirstChild(s) \in Nat /\ SecondChild(s) \in Nat
  BY <1>1 DEF FirstChild, SecondChild
<1>4. (n <= FirstChild(s) <=> n + 1 <= FirstChild(s)) /\ (n <= SecondChild(s) <=> n + 1 <= SecondChild(s))
  BY <1>1, <1>2, <1>3
<1> QED
  BY <1>4 DEF Joined

LEMMA JoinedParent ==
  ASSUME Size \in Nat \ {0}, NEW V, Merging(V), NEW x \in [Rank -> V], NEW y \in [Rank -> V],
         NEW n \in Rank \ {0}
  PROVE  Joined(x, y, n, Parent(n)) = Merge(Joined(x, y, n + 1, Parent(n)), y[n])
<1>1. PICK p \in Rank : p = Parent(n)
  BY ParentRank
<1>2. p \in Nat /\ n \in Nat \ {0} /\ n < Size /\ SecondChild(p) = FirstChild(p) + 1 /\ FirstChild(p) \in Nat
  BY DEF Rank, FirstChild, SecondChild
<1>3. PICK a \in V, c \in V : a = x[p] /\ c = y[n]
  OBVIOUS
<1>4. CASE n = FirstChild(p)
  <2>1. n <= FirstChild(p) /\ FirstChild(p) < Size /\ ~(n + 1 <= FirstChild(p))
        /\ n <= SecondChild(p) /\ n + 1 <= SecondChild(p)
    BY <1>2, <1>4
  <2>2. CASE SecondChild(p) < Size
    <3>1. SecondChild(p) \in Rank
      BY <2>2, ChildRank
    <3>2. PICK d \in V : d = y[SecondChild(p)]
      BY <3>1
    <3>3. Joined(x, y, n, p) = Merge(Merge(a, c), d)
      BY <1>3, <1>4, <2>1, <2>2, <3>2 DEF Joined
    <3>4. Joined(x, y, n + 1, p) = Merge(a, d)
      BY <1>3, <2>1, <2>2, <3>2 DEF Joined
    <3>5. Merge(Merge(a, c), d) = Merge(a, Merge(c, d)) /\ Merge(Merge(a, d), c) = Merge(a, Merge(d, c))
          /\ Merge(c, d) = Merge(d, c)
      BY DEF Merging
    <3> QED
      BY <1>1, <1>3, <3>3, <3>4, <3>5
  <2>3. CASE ~(SecondChild(p) < Size)
    <3>1. Joined(x, y, n, p) = Merge(a, c)
      BY <1>3, <1>4, <2>1, <2>3 DEF Joined
    <3>2. Joined(x, y, n + 1, p) = a
      BY <1>3, <2>1, <2>3 DEF Joined
    <3> QED
      BY <1>1, <1>3, <3>1, <3>2
  <2> QED
    BY <2>2, <2>3
<1>5. CASE n = SecondChild(p)
  <2>1. ~(n <= FirstChild(p)) /\ ~(n + 1 <= FirstChild(p)) /\ SecondChild(p) < Size
        /\ n <= SecondChild(p) /\ ~(n + 1 <= SecondChild(p))
    BY <1>2, <1>5
  <2>2. Joined(x, y, n, p) = Merge(a, c)
    BY <1>3, <1>5, <2>1 DEF Joined
  <2>3. Joined(x, y, n + 1, p) = a
    BY <1>3, <2>1 DEF Joined
  <2> QED
    BY <1>1, <1>3, <2>2, <2>3
<1> QED
  BY <1>1, <1>4, <1>5, ParentRank

LEMMA JoinedAll ==
  ASSUME Size \in Nat \ {0}, NEW x, NEW y, NEW n \in Nat, NEW s \in Rank, n <= s + 1
  PROVE  Joined(x, y, n, s) = Joined(x, y, 0, s)
<1>1. s \in Nat
  BY DEF Rank
<1>2. n <= FirstChild(s) /\ n <= SecondChild(s) /\ 0 <= FirstChild(s) /\ 0 <= SecondChild(s)
  BY <1>1 DEF FirstChild, SecondChild
<1> QED
  BY <1>2 DEF Joined

LEMMA RunsPrefix ==
  ASSUME NEW V, NEW n \in Nat, NEW m \in Nat, m <= n, NEW W, NEW w, Runs(V, W, w, n)
  PROVE  Runs(V, [k \in 0 .. m |-> W[k]], [k \in 0 .. m |-> w[k]], m)
<1> DEFINE X == [k \in 0 .. m |-> W[k]]
           x == [k \in 0 .. m |-> w[k]]
<1>1. X \in [0 .. m -> V] /\ x \in [0 .. m -> V] /\ X[0] = x[0]
  BY DEF Runs
<1>2. ASSUME NEW k \in 1 .. m PROVE X[k] = Merge(X[k - 1], x[k])
  <2>1. k \in 1 .. n /\ k \in 0 .. m /\ k - 1 \in 0 .. m
    OBVIOUS
  <2>2. W[k] = Merge(W[k - 1], w[k])
    BY <2>1 DEF Runs
  <2>3. X[k] = W[k] /\ X[k - 1] = W[k - 1] /\ x[k] = w[k]
    BY <2>1
  <2> QED
    BY <2>2, <2>3
<1> HIDE DEF X, x
<1>3. Runs(V, X, x, m)
  BY <1>1, <1>2 DEF Runs
<1> QED
  BY <1>3 DEF X, x

LEMMA TreeIsOrder ==
  ASSUME Size \in Nat \ {0}, NEW V, Merging(V), NEW x \in [Rank -> V], NEW y \in [Rank -> V],
         \A s \in Rank : y[s] = Joined(x, y, 0, s), NEW W, Runs(V, W, x, Size - 1)
  PROVE  W[Size - 1] = y[0]
<1> DEFINE Z(n) == [s \in 0 .. n - 1 |-> Joined(x, y, n, s)]
           T == {k \in Nat : k + 1 <= Size => \A X : Runs(V, X, Z(k + 1), k) => X[k] = y[0]}
<1>1. 0 \in T
  <2>1. ASSUME NEW X, Runs(V, X, Z(1), 0) PROVE X[0] = y[0]
    <3>1. X[0] = Z(1)[0]
      BY <2>1 DEF Runs
    <3>2. 0 \in 0 .. 1 - 1 /\ 0 \in Rank
      BY DEF Rank
    <3>3. Z(1)[0] = Joined(x, y, 1, 0)
      BY <3>2
    <3>4. Joined(x, y, 1, 0) = Joined(x, y, 0, 0)
      BY <3>2, JoinedAll
    <3> QED
      BY <3>1, <3>2, <3>3, <3>4
  <2>2. Z(0 + 1) = Z(1)
    OBVIOUS
  <2> HIDE DEF Z
  <2> QED
    BY <2>1, <2>2
<1>2. ASSUME NEW k \in Nat, k \in T PROVE k + 1 \in T
  <2>1. ASSUME k + 2 <= Size, NEW X, Runs(V, X, Z(k + 2), k + 1) PROVE X[k + 1] = y[0]
    <3>1. PICK n \in Rank \ {0} : n = k + 1
      BY <2>1 DEF Rank
    <3>2. \A s \in 0 .. k : s \in Rank
      BY <2>1 DEF Rank
    <3>3. Z(n) \in [0 .. k -> V]
      <4>1. \A s \in 0 .. k : Joined(x, y, n, s) \in V
        BY <3>1, <3>2, JoinedType
      <4> QED
        BY <3>1, <4>1
    <3>4. PICK Y : Runs(V, Y, Z(n), k)
      BY <3>3, RunsExist
    <3>5. Y[k] = y[0]
      <4> HIDE DEF Z
      <4> QED
        BY <1>2, <2>1, <3>1, <3>4
    <3> DEFINE U == [i \in 0 .. k |-> X[i]]
               u == [i \in 0 .. k |-> Z(k + 2)[i]]
               p == Parent(n)
    <3>6. Runs(V, U, u, k)
      <4> HIDE DEF Z
      <4> QED
        BY <2>1, RunsPrefix
    <3>7. p \in 0 .. k
      BY <3>1, ParentNat
    <3>8. Z(n)[p] = Merge(u[p], y[n])
      <4>1. Z(n)[p] = Joined(x, y, n, p)
        BY <3>1, <3>7
      <4>2. u[p] = Joined(x, y, n + 1, p)
        BY <3>1, <3>7
      <4> QED
        BY <4>1, <4>2, JoinedParent
    <3>9. ASSUME NEW i \in 0 .. k, i # p PROVE Z(n)[i] = u[i]
      <4>1. Z(n)[i] = Joined(x, y, n, i)
        BY <3>1
      <4>2. u[i] = Joined(x, y, n + 1, i)
        BY <3>1
      <4> QED
        BY <3>2, <3>9, <4>1, <4>2, JoinedElsewhere
    <3>10. y[n] \in V
      OBVIOUS
    <3>11. Y[k] = Merge(U[k], y[n])
      <4> HIDE DEF Z, U, u, p
      <4> QED
        BY <3>4, <3>6, <3>7, <3>8, <3>9, <3>10, Absorb
    <3>12. Z(k + 2)[n] = y[n]
      <4>1. n \in 0 .. k + 2 - 1 /\ k + 2 <= n + 1
        BY <3>1
      <4>2. Z(k + 2)[n] = Joined(x, y, k + 2, n)
        BY <4>1
      <4>3. Joined(x, y, k + 2, n) = Joined(x, y, 0, n)
        BY <4>1, JoinedAll
      <4> QED
        BY <4>2, <4>3
    <3>13. X[n] = Merge(X[n - 1], Z(k + 2)[n])
      <4>1. n \in 1 .. k + 1
        BY <3>1
      <4> QED
        BY <2>1, <4>1 DEF Runs
    <3>14. U[k] = X[n - 1]
      BY <3>1
    <3> QED
      BY <3>1, <3>5, <3>11, <3>12, <3>13, <3>14
  <2>2. Z(k + 1 + 1) = Z(k + 2)
    OBVIOUS
  <2> HIDE DEF Z
  <2>3. k + 1 + 1 <= Size => \A X : Runs(V, X, Z(k + 1 + 1), k + 1) => X[k + 1] = y[0]
    BY <2>1, <2>2
  <2> QED
    BY <2>3
<1>3. Size - 1 \in T
  <2>1. Size - 1 \in Nat
    OBVIOUS
  <2> HIDE DEF T
  <2> QED
    BY <1>1, <1>2, <2>1, SetInduction
<1>4. Z(Size - 1 + 1) = x
  <2>1. ASSUME NEW s \in Rank PROVE Joined(x, y, Size, s) = x[s]
    <3>1. FirstChild(s) \in Nat /\ SecondChild(s) \in Nat
      BY DEF Rank, FirstChild, SecondChild
    <3>2. ~(Size <= FirstChild(s) /\ FirstChild(s) < Size) /\ ~(Size <= SecondChild(s) /\ SecondChild(s) < Size)
      BY <3>1
    <3> QED
      BY <3>2 DEF Joined
  <2>2. Size - 1 + 1 = Size /\ 0 .. Size - 1 = Rank
    BY DEF Rank
  <2> QED
    BY <2>1, <2>2
<1> QED
  <2> HIDE DEF Z
  <2> QED
    BY <1>3, <1>4

-----------------------------------------------------------------------------
(* The merge of everybody's values, in the order of the ranks.             *)
LEMMA MergeAllIs ==
  ASSUME Size \in Nat \ {0}, NEW V, Merging(V), NEW x \in [Rank -> V],
         NEW X, Runs(V, X, x, Size - 1)
  PROVE  AR!MergeAll(x) = X[Size - 1]
<1> DEFINE F(W) == [r \in AR!ranks |-> IF r = 0 THEN x[0] ELSE Merge(W[r - 1], x[r])]
           C == CHOOSE W : W = F(W)
<1>1. AR!ranks = Rank /\ Rank = 0 .. Size - 1 /\ 0 \in Rank
  BY DEF AR!ranks, Rank
<1>2. X = F(X)
  <2>1. X \in [Rank -> V] /\ X[0] = x[0] /\ \A k \in 1 .. Size - 1 : X[k] = Merge(X[k - 1], x[k])
    BY <1>1 DEF Runs
  <2>2. ASSUME NEW r \in Rank PROVE X[r] = IF r = 0 THEN x[0] ELSE Merge(X[r - 1], x[r])
    <3>1. r # 0 => r \in 1 .. Size - 1
      BY <1>1
    <3> QED
      BY <1>1, <2>1, <3>1
  <2> QED
    BY <1>1, <2>1, <2>2
<1>3. C = F(C)
  <2> HIDE DEF F
  <2> QED
    BY <1>2
<1>4. Runs(V, C, x, Size - 1)
  <2> HIDE DEF C
  <2>1. \A r \in Rank : C[r] = IF r = 0 THEN x[0] ELSE Merge(C[r - 1], x[r])
    BY <1>1, <1>3
  <2>2. C[0] = x[0] /\ \A k \in 1 .. Size - 1 : C[k] = Merge(C[k - 1], x[k])
    <3>1. \A k \in 1 .. Size - 1 : k \in Rank /\ k # 0
      BY <1>1
    <3> QED
      BY <1>1, <2>1, <3>1
  <2>3. DOMAIN C = Rank /\ C = [r \in Rank |-> C[r]]
    BY <1>1, <1>3
  <2>4. \A r \in Rank : C[r] \in V
    <3> DEFINE T == {k \in Nat : k \in Rank => C[k] \in V}
    <3>1. 0 \in T
      BY <1>1, <2>2
    <3>2. ASSUME NEW k \in Nat, k \in T PROVE k + 1 \in T
      <4>1. ASSUME k + 1 \in Rank PROVE C[k + 1] \in V
        <5>1. k \in Rank /\ k + 1 \in 1 .. Size - 1 /\ k + 1 - 1 = k
          BY <1>1, <4>1
        <5>2. PICK a, b \in V : a = C[k] /\ b = x[k + 1]
          BY <3>2, <4>1, <5>1
        <5>3. C[k + 1] = Merge(a, b)
          BY <2>2, <5>1, <5>2
        <5>4. Merge(a, b) \in V
          BY DEF Merging
        <5> QED
          BY <5>3, <5>4
      <4> QED
        BY <4>1
    <3>3. Nat \subseteq T
      <4> HIDE DEF T
      <4> QED
        BY <3>1, <3>2, SetInduction
    <3> QED
      BY <1>1, <3>3
  <2>5. C \in [0 .. Size - 1 -> V]
    BY <1>1, <2>3, <2>4
  <2> QED
    BY <1>1, <2>2, <2>5 DEF Runs
<1>5. C[Size - 1] = X[Size - 1]
  <2> HIDE DEF C
  <2>1. Size - 1 \in Nat
    OBVIOUS
  <2> QED
    BY <1>4, <2>1, RunsAgree
<1> QED
  BY <1>5 DEF AR!MergeAll

LEMMA WholeIs ==
  ASSUME Size \in Nat \ {0}, NEW V, Merging(V), NEW x \in [Rank -> V], NEW y \in [Rank -> V], NEW i,
         \A s \in Rank : x[s] = given[s][i], \A s \in Rank : y[s] = Joined(x, y, 0, s)
  PROVE  AR!Whole(i) = y[0]
<1>1. AR!ranks = Rank /\ Rank = 0 .. Size - 1 /\ Size - 1 \in Nat
  BY DEF AR!ranks, Rank
<1>2. PICK X : Runs(V, X, x, Size - 1)
  BY <1>1, RunsExist
<1>3. X[Size - 1] = y[0]
  BY <1>2, TreeIsOrder
<1>4. AR!MergeAll(x) = X[Size - 1]
  BY <1>2, MergeAllIs
<1>5. [r \in AR!ranks |-> given[r][i]] = x
  BY <1>1
<1> QED
  BY <1>3, <1>4, <1>5 DEF AR!Whole

LEMMA WholeStays ==
  ASSUME NEW i, \A s \in Rank : given'[s][i] = given[s][i]
  PROVE  AR!Whole(i)' = AR!Whole(i)
<1>1. AR!ranks = Rank
  BY DEF AR!ranks, Rank
<1>2. PICK x : x = [r \in Rank |-> given[r][i]]
  OBVIOUS
<1>3. AR!Whole(i) = AR!MergeAll(x)
  BY <1>1, <1>2 DEF AR!Whole
<1>4. x = [r \in Rank |-> given'[r][i]]
  BY <1>2
<1>5. AR!Whole(i)' = AR!MergeAll(x)
  BY <1>1, <1>4 DEF AR!Whole
<1> QED
  BY <1>3, <1>5

-----------------------------------------------------------------------------
(* The values.  sub[r][i] stands for what r and the ranks below it merge in
   the i-th all-reduce; it is compared only where r has merged its children. *)
Combine(sub, r, i, a) ==
  LET b == IF FirstChild(r) < Size THEN Merge(a, sub[FirstChild(r)][i]) ELSE a
  IN  IF SecondChild(r) < Size THEN Merge(b, sub[SecondChild(r)][i]) ELSE b

Subtotals(sub) == \A r \in Rank : \A i \in 1 .. Done(r) :
                    sub[r][i] = Combine(sub, r, i, given[r][i])

Temps(sub) == \A r \in Rank : LET n == Len(given[r]) IN
  /\ pc[r] = "first" => tmp[r] = given[r][n]
  /\ pc[r] = "second" => tmp[r] = Merge(given[r][n], sub[FirstChild(r)][n])
  /\ pc[r] \in {"send_size", "send_data", "bcast"} => tmp[r] = sub[r][n]

Carried(sub) ==
  \A c \in Rank \ {0} : \A j \in DOMAIN chan[c][Parent(c)] : \A i \in Nat :
     Got(Parent(c), c) + j = 2 * i => chan[c][Parent(c)][j].value = sub[c][i]

Announced == \A i \in DOMAIN bcasts : bcasts[i] = AR!Whole(i)

Values(sub) == Subtotals(sub) /\ Temps(sub) /\ Carried(sub) /\ Announced

(* What a rank has not merged yet may be chosen.                           *)
MayBe(V, r, n, a) == \E new \in [Rank -> [Nat -> V]] : Values(new) /\ new[r][n] = a

LEMMA Refresh ==
  ASSUME Size \in Nat \ {0}, NEW V, TreeTypes(V), TreeInv,
         NEW sub \in [Rank -> [Nat -> V]], Values(sub),
         NEW r \in Rank, NEW n \in Nat, Done(r) < n, NEW a \in V
  PROVE  MayBe(V, r, n, a)
<1>0. Places /\ Rounds /\ Flows
  BY DEF TreeInv
<1> DEFINE new == [s \in Rank |-> [i \in Nat |-> IF s = r /\ i = n THEN a ELSE sub[s][i]]]
<1>1. new \in [Rank -> [Nat -> V]] /\ new[r][n] = a
  OBVIOUS
<1>2. \A s \in Rank : \A i \in Nat : s # r \/ i # n => new[s][i] = sub[s][i]
  OBVIOUS
<1> HIDE DEF new
<1>3. ASSUME NEW s \in Rank, NEW i \in Nat, i <= Done(s) PROVE new[s][i] = sub[s][i]
  <2>1. Done(r) \in Int
    BY Numbers
  <2>2. s # r \/ i # n
    BY <1>3, <2>1
  <2> QED
    BY <1>2, <2>2
<1>4. ASSUME NEW s \in Rank, NEW c, c = FirstChild(s) \/ c = SecondChild(s), c < Size
      PROVE  c \in Rank \ {0} /\ Parent(c) = s
  BY <1>4, ChildRank
<1>5. ASSUME NEW s \in Rank, NEW i \in 1 .. Done(s), NEW b PROVE Combine(new, s, i, b) = Combine(sub, s, i, b)
  <2>1. ASSUME NEW c, c = FirstChild(s) \/ c = SecondChild(s), c < Size PROVE new[c][i] = sub[c][i]
    <3>1. c \in Rank \ {0} /\ Parent(c) = s /\ Done(s) <= Done(c)
      BY <1>0, <1>4, <2>1, DoneOrder
    <3>2. Done(s) \in Int /\ Done(c) \in Int
      BY <3>1, Numbers
    <3>3. i \in Nat /\ i <= Done(c)
      BY <3>1, <3>2
    <3> QED
      BY <1>3, <3>1, <3>3
  <2> QED
    BY <2>1 DEF Combine
<1>6. Subtotals(new)
  <2>1. ASSUME NEW s \in Rank, NEW i \in 1 .. Done(s) PROVE new[s][i] = Combine(new, s, i, given[s][i])
    <3>1. sub[s][i] = Combine(sub, s, i, given[s][i])
      BY DEF Values, Subtotals
    <3>2. i \in Nat /\ i <= Done(s)
      BY Numbers
    <3> QED
      BY <1>3, <1>5, <3>1, <3>2
  <2> QED
    BY <2>1 DEF Subtotals
<1>7. Temps(new)
  <2>1. ASSUME NEW s \in Rank, pc[s] = "second" PROVE new[FirstChild(s)][Len(given[s])] = sub[FirstChild(s)][Len(given[s])]
    <3>1. PICK c : c = FirstChild(s)
      OBVIOUS
    <3>2. SecondChild(s) < Size /\ s \in Nat
      BY <1>0, <2>1 DEF Places, Rank
    <3>3. c < Size /\ c # SecondChild(s)
      BY <3>1, <3>2 DEF FirstChild, SecondChild
    <3>4. c \in Rank \ {0} /\ Parent(c) = s
      BY <1>4, <3>1, <3>3
    <3>5. Merged(s, c) = Len(given[s]) - 0
      BY <2>1, <3>3 DEF Merged
    <3>6. Merged(s, c) <= Done(c) /\ Len(given[s]) \in Nat
      BY <1>0, <3>4, DoneOrder, Numbers
    <3>7. Len(given[s]) <= Done(c)
      BY <3>5, <3>6
    <3> QED
      BY <1>3, <3>1, <3>4, <3>6, <3>7
  <2>2. ASSUME NEW s \in Rank, pc[s] \in {"send_size", "send_data", "bcast"}
        PROVE  new[s][Len(given[s])] = sub[s][Len(given[s])]
    <3>1. Done(s) = Len(given[s]) - 0
      BY <2>2 DEF Done, Waiting
    <3>2. Len(given[s]) \in Nat
      BY Numbers
    <3> QED
      BY <1>3, <3>1, <3>2
  <2> QED
    BY <2>1, <2>2 DEF Values, Temps
<1>8. Carried(new)
  <2>1. ASSUME NEW c \in Rank \ {0}, NEW j \in DOMAIN chan[c][Parent(c)], NEW i \in Nat,
               Got(Parent(c), c) + j = 2 * i
        PROVE  chan[c][Parent(c)][j].value = new[c][i]
    <3>1. PICK p \in Rank : p = Parent(c)
      BY ParentRank
    <3>2. Got(p, c) \in Int /\ Sent(c) \in Int /\ Done(c) \in Int
      BY <3>1, Numbers
    <3>3. j \in 1 .. Len(chan[c][p]) /\ Len(chan[c][p]) \in Nat
      <4>1. chan[c][p] \in Seq(Message(V)) /\ j \in DOMAIN chan[c][p]
        BY <3>1 DEF TreeTypes
      <4> QED
        BY <4>1
    <3>4. Len(chan[c][p]) = Sent(c) - Got(p, c)
      BY <1>0, <3>1 DEF Flows
    <3>5. Sent(c) <= 2 * Done(c)
      BY <1>0, <3>1, DoneOrder
    <3>6. i <= Done(c)
      BY <2>1, <3>1, <3>2, <3>3, <3>4, <3>5
    <3>7. chan[c][Parent(c)][j].value = sub[c][i]
      BY <2>1 DEF Values, Carried
    <3> QED
      BY <1>3, <3>6, <3>7
  <2> QED
    BY <2>1 DEF Carried
<1>9. Values(new)
  BY <1>6, <1>7, <1>8 DEF Values
<1> QED
  BY <1>1, <1>9 DEF MayBe

-----------------------------------------------------------------------------
(* What a step of r leaves of Values to be shown.                          *)
LEMMA SumsStep ==
  ASSUME NEW V, TreeTypes(V), NEW sub, Subtotals(sub), NEW r \in Rank,
         \A s \in Rank : s # r => Done(s)' = Done(s) /\ given'[s] = given[s],
         \A i \in 1 .. Done(r) : given'[r][i] = given[r][i],
         \/ Done(r)' = Done(r)
         \/ /\ Done(r)' = Done(r) + 1
            /\ sub[r][Done(r) + 1] = Combine(sub, r, Done(r) + 1, given'[r][Done(r) + 1])
  PROVE  Subtotals(sub)'
<1>1. ASSUME NEW s \in Rank, NEW i \in 1 .. Done(s)' PROVE sub[s][i] = Combine(sub, s, i, given'[s][i])
  <2>1. CASE i \in 1 .. Done(s)
    <3>1. sub[s][i] = Combine(sub, s, i, given[s][i])
      BY <2>1 DEF Subtotals
    <3>2. given'[s][i] = given[s][i]
      BY <2>1
    <3> QED
      BY <3>1, <3>2
  <2>2. CASE i \notin 1 .. Done(s)
    <3>1. Done(r) \in Int
      BY Numbers
    <3>2. s = r
      BY <1>1, <2>2
    <3>3. i = Done(r) + 1 /\ Done(r)' = Done(r) + 1
      BY <1>1, <2>2, <3>1, <3>2
    <3> QED
      BY <3>2, <3>3
  <2> QED
    BY <2>1, <2>2
<1>2. ASSUME NEW s, NEW i, NEW a PROVE Combine(sub, s, i, a)' = Combine(sub, s, i, a)
  BY DEF Combine
<1> QED
  BY <1>1, <1>2 DEF Subtotals

LEMMA TempsStep ==
  ASSUME NEW sub, Temps(sub), NEW r \in Rank,
         \A s \in Rank : s # r => pc'[s] = pc[s] /\ given'[s] = given[s] /\ tmp'[s] = tmp[s],
         NEW n, n = Len(given'[r]),
         pc'[r] = "first" => tmp'[r] = given'[r][n],
         pc'[r] = "second" => tmp'[r] = Merge(given'[r][n], sub[FirstChild(r)][n]),
         pc'[r] \in {"send_size", "send_data", "bcast"} => tmp'[r] = sub[r][n]
  PROVE  Temps(sub)'
<1>1. ASSUME NEW s \in Rank
      PROVE  LET m == Len(given'[s]) IN
             /\ pc'[s] = "first" => tmp'[s] = given'[s][m]
             /\ pc'[s] = "second" => tmp'[s] = Merge(given'[s][m], sub[FirstChild(s)][m])
             /\ pc'[s] \in {"send_size", "send_data", "bcast"} => tmp'[s] = sub[s][m]
  <2>1. CASE s = r
    BY <2>1
  <2>2. CASE s # r
    <3>1. /\ pc[s] = "first" => tmp[s] = given[s][Len(given[s])]
          /\ pc[s] = "second" => tmp[s] = Merge(given[s][Len(given[s])], sub[FirstChild(s)][Len(given[s])])
          /\ pc[s] \in {"send_size", "send_data", "bcast"} => tmp[s] = sub[s][Len(given[s])]
      BY DEF Temps
    <3> QED
      BY <2>2, <3>1
  <2> QED
    BY <2>1, <2>2
<1> QED
  BY <1>1 DEF Temps

LEMMA CarriedSame ==
  ASSUME NEW sub, Carried(sub), chan' = chan, \A c \in Rank \ {0} : Even(c)
  PROVE  Carried(sub)'
BY DEF Carried, Even

LEMMA CarriedTaken ==
  ASSUME Size \in Nat \ {0}, NEW V, TreeTypes(V), NEW sub, Carried(sub),
         NEW c \in Rank \ {0}, NEW r, r = Parent(c),
         chan[c][r] # <<>>, chan' = [chan EXCEPT ![c][r] = Tail(@)],
         Got(r, c)' = Got(r, c) + 1, \A d \in Rank \ {0} : d # c => Even(d)
  PROVE  Carried(sub)'
<1>1. r \in Rank /\ Got(r, c) \in Int
  BY ParentRank, Numbers
<1>2. chan[c][r] \in Seq(Message(V)) /\ DOMAIN chan = Rank /\ DOMAIN chan[c] = Rank
  BY <1>1 DEF TreeTypes
<1>3. chan'[c][r] = Tail(chan[c][r]) /\ \A s, d \in Rank : s # c \/ d # r => chan'[s][d] = chan[s][d]
  BY <1>1, <1>2
<1>4. /\ \A j \in 1 .. Len(chan[c][r]) - 1 : Tail(chan[c][r])[j] = chan[c][r][j + 1]
      /\ DOMAIN Tail(chan[c][r]) = 1 .. Len(chan[c][r]) - 1 /\ Len(chan[c][r]) \in Nat
      /\ DOMAIN chan[c][r] = 1 .. Len(chan[c][r])
  BY <1>2
<1>5. ASSUME NEW s \in Rank \ {0}, NEW j \in DOMAIN chan'[s][Parent(s)], NEW i \in Nat,
             Got(Parent(s), s)' + j = 2 * i
      PROVE  chan'[s][Parent(s)][j].value = sub[s][i]
  <2>1. CASE s = c
    <3>1. j \in 1 .. Len(chan[c][r]) - 1 /\ chan'[s][Parent(s)][j] = chan[c][r][j + 1]
      BY <1>3, <1>4, <1>5, <2>1
    <3>2. PICK k \in DOMAIN chan[c][r] : k = j + 1
      BY <1>4, <3>1
    <3>3. Got(r, c) + k = 2 * i
      BY <1>1, <1>5, <2>1, <3>1, <3>2
    <3>4. chan[c][r][k].value = sub[c][i]
      BY <3>3 DEF Carried
    <3> QED
      BY <2>1, <3>1, <3>2, <3>4
  <2>2. CASE s # c
    <3>1. chan'[s][Parent(s)] = chan[s][Parent(s)] /\ Even(s)
      BY <1>3, <2>2, ParentRank
    <3>2. j \in DOMAIN chan[s][Parent(s)] /\ Got(Parent(s), s) + j = 2 * i
      BY <1>5, <3>1 DEF Even
    <3>3. chan[s][Parent(s)][j].value = sub[s][i]
      BY <3>2 DEF Carried
    <3> QED
      BY <3>1, <3>3
  <2> QED
    BY <2>1, <2>2
<1> QED
  BY <1>5 DEF Carried

LEMMA AnnouncedSame ==
  ASSUME Announced, bcasts' = bcasts,
         \A i \in DOMAIN bcasts : \A s \in Rank : given'[s][i] = given[s][i]
  PROVE  Announced'
<1>1. ASSUME NEW i \in DOMAIN bcasts PROVE AR!Whole(i)' = AR!Whole(i)
  BY WholeStays
<1> QED
  BY <1>1 DEF Announced

-----------------------------------------------------------------------------
(* The steps keep the values.                                              *)
LEMMA CallValues ==
  ASSUME Size \in Nat \ {0}, NEW V, TreeTypes(V), TreeInv,
         NEW sub \in [Rank -> [Nat -> V]], Values(sub), NEW r \in Rank, NEW v \in V, Call(r, v),
         sub[r][Len(given[r]) + 1] = v
  PROVE  Values(sub)'
<1>0. Places /\ Rounds /\ Flows
  BY DEF TreeInv
<1>1. PICK n \in Nat : n = Len(given[r])
  BY DEF TreeTypes
<1>2. /\ \A c \in Rank \ {0} : Even(c)
      /\ Len(given'[r]) = n + 1 /\ given'[r] = Append(given[r], v)
      /\ \A s \in Rank : s # r => Steady(s)
  BY <1>0, <1>1, CallCounts
<1>3. pc[r] = "out" /\ pc'[r] = Start(r) /\ UNCHANGED <<returned, sized, chan, bcasts>>
      /\ tmp'[r] = v /\ \A s \in Rank : s # r => tmp'[s] = tmp[s]
  BY DEF Call, TreeTypes
<1>4. given'[r][n + 1] = v /\ \A i \in 1 .. n : given'[r][i] = given[r][i]
  <2>1. given[r] \in Seq(V)
    BY DEF TreeTypes
  <2> QED
    BY <1>1, <1>2, <2>1
<1>5. r \in Nat /\ SecondChild(r) = FirstChild(r) + 1 /\ FirstChild(r) \in Nat
  BY DEF Rank, FirstChild, SecondChild
<1>6. Subtotals(sub)'
  <2>1. Done(r) = n - 0
    BY <1>1, <1>3 DEF Done, Waiting
  <2>2. CASE FirstChild(r) < Size
    <3>1. pc'[r] = "first"
      BY <1>3, <2>2 DEF Start
    <3>2. Done(r)' = n + 1 - 1
      BY <1>2, <3>1 DEF Done, Waiting
    <3>3. Done(r)' = Done(r) /\ Done(r) = n
      BY <2>1, <3>2
    <3> QED
      BY <1>2, <1>4, <3>3, SumsStep, SteadyCounts DEF Values, Steady
  <2>3. CASE ~(FirstChild(r) < Size)
    <3>1. ~(SecondChild(r) < Size)
      BY <1>5, <2>3
    <3>2. pc'[r] \in {"bcast", "send_size"}
      BY <1>3, <2>3, <3>1 DEF Start, AfterFirst, AfterChildren
    <3>3. Done(r)' = n + 1 - 0
      BY <1>2, <3>2 DEF Done, Waiting
    <3>4. Combine(sub, r, n + 1, v) = v
      BY <2>3, <3>1 DEF Combine
    <3>5. Done(r)' = Done(r) + 1 /\ Done(r) = n
      BY <2>1, <3>3
    <3>6. sub[r][Done(r) + 1] = Combine(sub, r, Done(r) + 1, given'[r][Done(r) + 1])
      <4>1. sub[r][n + 1] = v /\ given'[r][n + 1] = v
        BY <1>1, <1>4
      <4> QED
        BY <3>4, <3>5, <4>1
    <3>7. \A s \in Rank : s # r => Done(s)' = Done(s) /\ given'[s] = given[s]
      BY <1>2, SteadyCounts DEF Steady
    <3>8. \A i \in 1 .. Done(r) : given'[r][i] = given[r][i]
      BY <1>4, <3>5
    <3> QED
      BY <3>5, <3>6, <3>7, <3>8, SumsStep DEF Values
  <2> QED
    BY <2>2, <2>3
<1>7. Temps(sub)'
  <2>1. pc'[r] # "second"
    BY <1>3, <1>5 DEF Start, AfterFirst, AfterChildren
  <2>2. tmp'[r] = given'[r][n + 1] /\ tmp'[r] = sub[r][n + 1]
    BY <1>1, <1>3, <1>4
  <2>3. \A s \in Rank : s # r => pc'[s] = pc[s] /\ given'[s] = given[s] /\ tmp'[s] = tmp[s]
    BY <1>2, <1>3 DEF Steady
  <2> QED
    BY <1>2, <2>1, <2>2, <2>3, TempsStep DEF Values
<1>8. Carried(sub)'
  BY <1>2, <1>3, CarriedSame DEF Values
<1>9. Announced'
  <2>1. ASSUME NEW i \in DOMAIN bcasts, NEW s \in Rank PROVE given'[s][i] = given[s][i]
    <3>1. CASE s = r
      <4>1. i \in 1 .. Len(bcasts) /\ Len(bcasts) \in Nat /\ Len(bcasts) <= n
        <5>1. bcasts \in Seq(V)
          BY DEF TreeTypes
        <5>2. Len(bcasts) <= n
          BY <1>0, <1>1 DEF Rounds
        <5> QED
          BY <5>1, <5>2
      <4> QED
        BY <1>4, <3>1, <4>1
    <3>2. CASE s # r
      BY <1>2, <3>2 DEF Steady
    <3> QED
      BY <3>1, <3>2
  <2> QED
    BY <1>3, <2>1, AnnouncedSame DEF Values
<1> QED
  BY <1>6, <1>7, <1>8, <1>9 DEF Values

LEMMA RecvSizeValues ==
  ASSUME Size \in Nat \ {0}, NEW V, TreeTypes(V), TreeInv,
         NEW sub \in [Rank -> [Nat -> V]], Values(sub), NEW r \in Rank, RecvSize(r)
  PROVE  Values(sub)'
<1>0. Places /\ Rounds /\ Flows /\ Awaiting(r)
  BY DEF TreeInv, RecvSize
<1>1. PICK c : c = Child(r)
  OBVIOUS
<1>2. c \in Rank \ {0} /\ Parent(c) = r /\ chan[c][r] # <<>>
  BY <1>0, <1>1, AwaitedChild
<1>3. chan' = [chan EXCEPT ![c][r] = Tail(@)] /\ UNCHANGED <<given, returned, pc, tmp, bcasts>>
  BY <1>1 DEF RecvSize, Taken
<1>4. Got(r, c)' = Got(r, c) + 1 /\ \A d \in Rank \ {0} : d # c => Even(d)
  <2>1. Got(r, Child(r))' = Got(r, Child(r)) + 1 /\ Child(r)' = Child(r)
        /\ \A d \in Rank \ {0} : d # Child(r) => Even(d)
    BY <1>0, RecvSizeCounts
  <2> QED
    BY <1>1, <2>1
<1>5. Carried(sub)'
  BY <1>2, <1>3, <1>4, CarriedTaken DEF Values
<1>6. Subtotals(sub)'
  <2>1. \A s : Done(s)' = Done(s)
    BY <1>3 DEF Done, Waiting
  <2> QED
    BY <1>3, <2>1, SumsStep DEF Values
<1>7. Temps(sub)'
  BY <1>3 DEF Values, Temps
<1>8. Announced'
  BY <1>3, AnnouncedSame DEF Values
<1> QED
  BY <1>5, <1>6, <1>7, <1>8 DEF Values

(* The value that is received is that of the all-reduce the receiver is in. *)
LEMMA ReceivedValue ==
  ASSUME Size \in Nat \ {0}, NEW V, TreeTypes(V), TreeInv,
         NEW sub, Values(sub), NEW r \in Rank, RecvData(r), NEW c, c = Child(r)
  PROVE  Head(chan[c][r]).value = sub[c][Len(given[r])]
<1>0. Places /\ Rounds /\ Flows /\ Awaiting(r)
  BY DEF TreeInv, RecvData
<1>1. c \in Rank \ {0} /\ Parent(c) = r /\ chan[c][r] # <<>>
  BY <1>0, AwaitedChild
<1>2. PICK q \in Seq(Message(V)) : q = chan[c][r]
  BY <1>1 DEF TreeTypes
<1>3. 1 \in DOMAIN q /\ Head(q) = q[1]
  BY <1>1, <1>2
<1>4. PICK n \in Nat : n = Len(given[r])
  BY Numbers
<1>5. Got(r, c) + 1 = 2 * n
  BY <1>0, <1>4, RecvDataCounts
<1>6. q[1].value = sub[c][n]
  BY <1>1, <1>2, <1>3, <1>5 DEF Values, Carried
<1> QED
  BY <1>2, <1>3, <1>4, <1>6

LEMMA RecvDataValues ==
  ASSUME Size \in Nat \ {0}, NEW V, TreeTypes(V), TreeInv,
         NEW sub \in [Rank -> [Nat -> V]], Values(sub), NEW r \in Rank, RecvData(r),
         ~Waiting(r)' => sub[r][Len(given[r])] = tmp'[r]
  PROVE  Values(sub)'
<1>0. Places /\ Rounds /\ Flows /\ Awaiting(r)
  BY DEF TreeInv, RecvData
<1>1. PICK c : c = Child(r)
  OBVIOUS
<1>2. c \in Rank \ {0} /\ Parent(c) = r /\ chan[c][r] # <<>> /\ r \in Nat
  BY <1>0, <1>1, AwaitedChild DEF Rank
<1>3. chan' = [chan EXCEPT ![c][r] = Tail(@)] /\ UNCHANGED <<given, returned, bcasts>>
  BY <1>1 DEF RecvData, Taken
<1>4. Got(r, c)' = Got(r, c) + 1 /\ (\A d \in Rank \ {0} : d # c => Even(d))
      /\ \A s \in Rank : s # r => Steady(s)
  BY <1>0, <1>1, RecvDataCounts
<1>5. PICK n \in Nat : n = Len(given[r])
  BY Numbers
<1>6. PICK m : m = Head(chan[c][r]).value
  OBVIOUS
<1>7. m = sub[c][n]
  BY <1>1, <1>5, <1>6, ReceivedValue
<1>8. /\ tmp'[r] = Merge(tmp[r], m) /\ \A s \in Rank : s # r => tmp'[s] = tmp[s]
      /\ pc'[r] = IF pc[r] = "first" THEN AfterFirst(r) ELSE AfterChildren(r)
      /\ pc[r] \in {"first", "second"}
  BY <1>0, <1>1, <1>6 DEF RecvData, Awaiting, TreeTypes
<1>9. PICK g : g = given[r][n]
  OBVIOUS
<1>10. Carried(sub)' /\ Announced'
  BY <1>2, <1>3, <1>4, CarriedTaken, AnnouncedSame DEF Values
<1>11. CASE pc'[r] = "second"
  <2>1. pc[r] = "first" /\ c = FirstChild(r)
    BY <1>1, <1>8, <1>11 DEF AfterChildren, Child
  <2>2. tmp[r] = g
    BY <1>5, <1>9, <2>1 DEF Values, Temps
  <2>3. tmp'[r] = Merge(g, sub[FirstChild(r)][n])
    BY <1>7, <1>8, <2>1, <2>2
  <2>4. Temps(sub)'
    <3>1. \A s \in Rank : s # r => pc'[s] = pc[s] /\ given'[s] = given[s] /\ tmp'[s] = tmp[s]
      BY <1>4, <1>8 DEF Steady
    <3>2. n = Len(given'[r]) /\ given'[r][n] = g
      BY <1>3, <1>5, <1>9
    <3> QED
      BY <1>11, <2>3, <3>1, <3>2, TempsStep DEF Values
  <2>5. Subtotals(sub)'
    <3>1. Done(r) = n - 1
      BY <1>5, <1>8 DEF Done, Waiting
    <3>2. Done(r)' = n - 1
      BY <1>3, <1>5, <1>11 DEF Done, Waiting
    <3>3. Done(r)' = Done(r) /\ \A s \in Rank : s # r => Done(s)' = Done(s)
      BY <1>4, <3>1, <3>2, SteadyCounts
    <3> QED
      BY <1>3, <3>3, SumsStep DEF Values
  <2> QED
    BY <1>10, <2>4, <2>5 DEF Values
<1>12. CASE pc'[r] # "second"
  <2>1. pc'[r] \in {"bcast", "send_size"} /\ (pc[r] = "first" => ~(SecondChild(r) < Size))
    BY <1>8, <1>12 DEF AfterFirst, AfterChildren
  <2>2. sub[r][n] = tmp'[r]
    <3>1. ~Waiting(r)'
      BY <2>1 DEF Waiting
    <3> QED
      BY <1>5, <3>1
  <2>3. tmp'[r] = Combine(sub, r, n, g)
    <3>1. CASE pc[r] = "first"
      <4>1. tmp[r] = g /\ c = FirstChild(r) /\ c < Size
        BY <1>0, <1>1, <1>5, <1>9, <3>1 DEF Values, Temps, Child, Places
      <4> QED
        BY <1>7, <1>8, <2>1, <3>1, <4>1 DEF Combine
    <3>2. CASE pc[r] = "second"
      <4>1. tmp[r] = Merge(g, sub[FirstChild(r)][n]) /\ c = SecondChild(r) /\ c < Size
        BY <1>0, <1>1, <1>5, <1>9, <3>2 DEF Values, Temps, Child, Places
      <4>2. FirstChild(r) < Size
        BY <1>2, <4>1 DEF FirstChild, SecondChild
      <4> QED
        BY <1>7, <1>8, <4>1, <4>2 DEF Combine
    <3> QED
      BY <1>8, <3>1, <3>2
  <2>4. Temps(sub)'
    <3>1. \A s \in Rank : s # r => pc'[s] = pc[s] /\ given'[s] = given[s] /\ tmp'[s] = tmp[s]
      BY <1>4, <1>8 DEF Steady
    <3>2. n = Len(given'[r])
      BY <1>3, <1>5
    <3> QED
      BY <2>1, <2>2, <3>1, <3>2, TempsStep DEF Values
  <2>5. Subtotals(sub)'
    <3>1. Done(r) = n - 1
      BY <1>5, <1>8 DEF Done, Waiting
    <3>2. Done(r)' = n - 0
      BY <1>3, <1>5, <2>1 DEF Done, Waiting
    <3>3. Done(r)' = Done(r) + 1 /\ Done(r) + 1 = n /\ \A s \in Rank : s # r => Done(s)' = Done(s)
      BY <1>4, <3>1, <3>2, SteadyCounts
    <3>4. sub[r][Done(r) + 1] = Combine(sub, r, Done(r) + 1, given'[r][Done(r) + 1])
      BY <1>3, <1>9, <2>2, <2>3, <3>3
    <3> QED
      BY <1>3, <3>3, <3>4, SumsStep DEF Values
  <2> QED
    BY <1>10, <2>4, <2>5 DEF Values
<1> QED
  BY <1>11, <1>12

LEMMA SendValues ==
  ASSUME Size \in Nat \ {0}, NEW V, TreeTypes(V), TreeInv,
         NEW sub \in [Rank -> [Nat -> V]], Values(sub), NEW r \in Rank, Send(r)
  PROVE  Values(sub)'
<1>0. Places /\ Rounds /\ Flows
  BY DEF TreeInv
<1>1. PICK q : q = chan[r][Parent(r)]
  OBVIOUS
<1>2. r # 0 /\ Parent(r) \in Rank /\ Len(q) \in Nat
  BY <1>0, <1>1, SendMoves
<1>3. UNCHANGED <<given, returned, tmp, sized, bcasts>> /\ pc[r] \in {"send_size", "send_data"}
  BY DEF Send
<1>4. pc'[r] = IF pc[r] = "send_size" THEN "send_data" ELSE "bcast"
  BY DEF Send, TreeTypes
<1>5. /\ \A s \in Rank : s # r => Steady(s)
      /\ \A s \in Rank : Done(s)' = Done(s)
      /\ Got(Parent(r), r)' = Got(Parent(r), r) /\ \A d \in Rank \ {0} : d # r => Even(d)
      /\ Sent(r) + 1 = IF pc[r] = "send_size" THEN 2 * Len(given[r]) - 1 ELSE 2 * Len(given[r])
  BY <1>0, SendCounts
<1>6. PICK n \in Nat : n = Len(given[r])
  BY Numbers
<1>7. tmp[r] = sub[r][n]
  BY <1>3, <1>6 DEF Values, Temps
<1>8. Subtotals(sub)'
  BY <1>3, <1>5, SumsStep DEF Values
<1>9. Temps(sub)'
  <2>1. \A s \in Rank : s # r => pc'[s] = pc[s] /\ given'[s] = given[s] /\ tmp'[s] = tmp[s]
    BY <1>3, <1>5 DEF Steady
  <2>2. n = Len(given'[r]) /\ pc'[r] \in {"send_data", "bcast"} /\ tmp'[r] = sub[r][n]
    BY <1>3, <1>4, <1>6, <1>7
  <2> QED
    BY <2>1, <2>2, TempsStep DEF Values
<1>10. Carried(sub)'
  <2>1. ASSUME NEW s \in Rank \ {0}, NEW j \in DOMAIN chan'[s][Parent(s)], NEW i \in Nat,
               Got(Parent(s), s)' + j = 2 * i
        PROVE  chan'[s][Parent(s)][j].value = sub[s][i]
    <3>1. CASE s = r
      <4>1. Got(Parent(r), r) \in Int /\ Sent(r) \in Int
        BY <1>2, Numbers
      <4>2. Len(q) = Sent(r) - Got(Parent(r), r)
        BY <1>0, <1>1, <1>2 DEF Flows
      <4>3. j \in 1 .. Len(q) + 1 /\ Got(Parent(r), r) + j = 2 * i
        BY <1>0, <1>1, <1>5, <2>1, <3>1, SendMoves
      <4>4. CASE j \in 1 .. Len(q)
        <5>1. chan'[r][Parent(r)][j] = q[j] /\ j \in DOMAIN q
          BY <1>0, <1>1, <4>4, SendMoves
        <5>2. q[j].value = sub[r][i]
          BY <1>1, <1>2, <4>3, <5>1 DEF Values, Carried
        <5> QED
          BY <3>1, <5>1, <5>2
      <4>5. CASE j = Len(q) + 1
        <5>1. Sent(r) + 1 = 2 * i
          BY <1>2, <4>1, <4>2, <4>3, <4>5
        <5>2. pc[r] # "send_size" /\ i = n
          BY <1>5, <1>6, <5>1
        <5>3. chan'[r][Parent(r)][j] = Sending(r)
          BY <1>0, <1>1, <4>5, SendMoves
        <5>4. Sending(r).value = tmp[r]
          BY <5>2 DEF Sending
        <5> QED
          BY <1>7, <3>1, <5>2, <5>3, <5>4
      <4> QED
        BY <1>2, <4>3, <4>4, <4>5
    <3>2. CASE s # r
      <4>1. chan'[s][Parent(s)] = chan[s][Parent(s)] /\ Even(s)
        BY <1>0, <1>1, <1>5, <3>2, ParentRank, SendMoves
      <4>2. j \in DOMAIN chan[s][Parent(s)] /\ Got(Parent(s), s) + j = 2 * i
        BY <2>1, <4>1 DEF Even
      <4>3. chan[s][Parent(s)][j].value = sub[s][i]
        BY <4>2 DEF Values, Carried
      <4> QED
        BY <4>1, <4>3
    <3> QED
      BY <3>1, <3>2
  <2> QED
    BY <2>1 DEF Carried
<1>11. Announced'
  BY <1>3, AnnouncedSame DEF Values
<1> QED
  BY <1>8, <1>9, <1>10, <1>11 DEF Values

LEMMA RootResult ==
  ASSUME Size \in Nat \ {0}, NEW V, Merging(V), TreeTypes(V), TreeInv,
         NEW sub \in [Rank -> [Nat -> V]], Values(sub), pc[0] = "bcast"
  PROVE  tmp[0] = AR!Whole(Len(bcasts) + 1)
<1>1. 0 \in Rank /\ Len(bcasts) \in Nat
  BY DEF Rank, TreeTypes
<1>2. PICK i \in Nat \ {0} : i = Len(bcasts) + 1
  BY <1>1
<1>3. /\ Len(given[0]) = i
      /\ \A s \in Rank : i <= Done(s) /\ Done(s) <= Len(given[s])
  BY <1>2, RootHasAll
<1>4. tmp[0] = sub[0][i]
  BY <1>1, <1>3 DEF Values, Temps
<1> DEFINE x == [s \in Rank |-> given[s][i]]
           y == [s \in Rank |-> sub[s][i]]
<1>5. x \in [Rank -> V]
  <2>1. ASSUME NEW s \in Rank PROVE given[s][i] \in V
    <3>1. given[s] \in Seq(V) /\ Len(given[s]) \in Nat /\ Done(s) \in Int
      BY Numbers DEF TreeTypes
    <3>2. i \in 1 .. Len(given[s])
      BY <1>3, <3>1
    <3> QED
      BY <3>1, <3>2
  <2> QED
    BY <2>1
<1>6. y \in [Rank -> V]
  OBVIOUS
<1>7. ASSUME NEW s \in Rank PROVE y[s] = Joined(x, y, 0, s)
  <2>1. i \in 1 .. Done(s)
    BY <1>3, Numbers
  <2>2. sub[s][i] = Combine(sub, s, i, given[s][i])
    BY <2>1 DEF Values, Subtotals
  <2>3. /\ FirstChild(s) < Size => y[FirstChild(s)] = sub[FirstChild(s)][i]
        /\ SecondChild(s) < Size => y[SecondChild(s)] = sub[SecondChild(s)][i]
        /\ 0 <= FirstChild(s) /\ 0 <= SecondChild(s)
    <3>1. s \in Nat
      BY DEF Rank
    <3> QED
      BY <3>1, ChildRank DEF FirstChild, SecondChild
  <2>4. x[s] = given[s][i] /\ y[s] = sub[s][i]
    OBVIOUS
  <2> HIDE DEF x, y
  <2> QED
    BY <2>2, <2>3, <2>4 DEF Joined, Combine
<1>8. \A s \in Rank : x[s] = given[s][i]
  OBVIOUS
<1>9. y[0] = sub[0][i]
  BY <1>1
<1> HIDE DEF x, y
<1>10. AR!Whole(i) = y[0]
  BY <1>5, <1>6, <1>7, <1>8, WholeIs
<1> QED
  BY <1>2, <1>4, <1>9, <1>10

LEMMA OutValues ==
  ASSUME Size \in Nat \ {0}, NEW V, TreeTypes(V), TreeInv,
         NEW sub \in [Rank -> [Nat -> V]], Values(sub), NEW r \in Rank, NEW x,
         pc[r] = "bcast", pc' = [pc EXCEPT ![r] = "out"],
         UNCHANGED <<given, tmp, sized, chan>>,
         bcasts' = bcasts \/ (bcasts' = Append(bcasts, x) /\ x = AR!Whole(Len(bcasts) + 1))
  PROVE  Values(sub)'
<1>0. Places /\ Rounds /\ Flows
  BY DEF TreeInv
<1>1. (\A c \in Rank \ {0} : Even(c)) /\ \A s \in Rank : Done(s)' = Done(s)
  BY <1>0, BcastCounts
<1>2. DOMAIN pc' = Rank /\ pc'[r] = "out" /\ \A s \in Rank : s # r => pc'[s] = pc[s]
  BY DEF TreeTypes
<1>3. Subtotals(sub)'
  BY <1>1, SumsStep DEF Values
<1>4. Temps(sub)'
  <2>1. PICK n : n = Len(given'[r])
    OBVIOUS
  <2> QED
    BY <1>2, <2>1, TempsStep DEF Values
<1>5. Carried(sub)'
  BY <1>1, CarriedSame DEF Values
<1>6. ASSUME NEW i PROVE AR!Whole(i)' = AR!Whole(i)
  BY WholeStays
<1>7. Announced'
  <2>1. ASSUME NEW i \in DOMAIN bcasts' PROVE bcasts'[i] = AR!Whole(i)
    <3>1. bcasts \in Seq(V) /\ Len(bcasts) \in Nat /\ DOMAIN bcasts = 1 .. Len(bcasts)
      BY DEF TreeTypes
    <3>2. i \in DOMAIN bcasts => bcasts[i] = AR!Whole(i)
      BY DEF Values, Announced
    <3>3. CASE bcasts' = bcasts
      BY <2>1, <3>2, <3>3
    <3>4. CASE bcasts' = Append(bcasts, x) /\ x = AR!Whole(Len(bcasts) + 1)
      <4>1. /\ DOMAIN Append(bcasts, x) = 1 .. Len(bcasts) + 1
            /\ Append(bcasts, x)[Len(bcasts) + 1] = x
            /\ \A k \in 1 .. Len(bcasts) : Append(bcasts, x)[k] = bcasts[k]
        BY <3>1
      <4>2. i \in 1 .. Len(bcasts) \/ i = Len(bcasts) + 1
        BY <2>1, <3>1, <3>4, <4>1
      <4> QED
        BY <3>1, <3>2, <3>4, <4>1, <4>2
    <3> QED
      BY <3>3, <3>4
  <2> QED
    BY <1>6, <2>1 DEF Announced
<1> QED
  BY <1>3, <1>4, <1>5, <1>7 DEF Values

-----------------------------------------------------------------------------
(* The inductive invariant, and the steps of YgmAllReduce.                 *)
TreeState(V) == /\ TreeTypes(V) /\ TreeInv
                /\ \E sub \in [Rank -> [Nat -> V]] : Values(sub)

LEMMA TreeStateInit ==
  ASSUME Size \in Nat \ {0}, NEW V, Merging(V), NEW v \in V, TreeInit
  PROVE  TreeState(V)
<1>1. TreeTypes(V) /\ TreeInv
  BY TreeInitHolds
<1>2. PICK sub : sub = [r \in Rank |-> [i \in Nat |-> v]]
  OBVIOUS
<1>3. sub \in [Rank -> [Nat -> V]]
  BY <1>2
<1>4. /\ \A r \in Rank : pc[r] = "out" /\ Len(given[r]) = 0 /\ \A d \in Rank : DOMAIN chan[r][d] = {}
      /\ DOMAIN bcasts = {}
  BY DEF TreeInit
<1>5. Subtotals(sub)
  <2>1. ASSUME NEW r \in Rank PROVE Done(r) = 0 - 0
    BY <1>4 DEF Done, Waiting
  <2> QED
    BY <2>1 DEF Subtotals
<1>6. Temps(sub) /\ Announced
  BY <1>4 DEF Temps, Announced
<1>7. Carried(sub)
  <2>1. \A c \in Rank \ {0} : DOMAIN chan[c][Parent(c)] = {}
    BY <1>4, ParentRank
  <2> QED
    BY <2>1 DEF Carried
<1> QED
  BY <1>1, <1>3, <1>5, <1>6, <1>7 DEF TreeState, Values

LEMMA TreeValuesStep ==
  ASSUME Size \in Nat \ {0}, NEW V, Merging(V), TreeTypes(V), TreeInv, [TreeNext]_treeVars,
         NEW old \in [Rank -> [Nat -> V]], Values(old)
  PROVE  \E sub \in [Rank -> [Nat -> V]] : Values(sub)'
<1>0. Places /\ Rounds /\ Flows
  BY DEF TreeInv
<1>1. ASSUME NEW r \in Rank, NEW v \in Input, Call(r, v)
      PROVE  \E sub \in [Rank -> [Nat -> V]] : Values(sub)'
  <2>1. v \in V /\ pc[r] = "out" /\ Len(given[r]) \in Nat
    BY <1>1, Numbers DEF Merging, Call
  <2>2. Done(r) = Len(given[r]) - 0
    BY <2>1 DEF Done, Waiting
  <2>3. PICK n \in Nat : n = Len(given[r]) + 1 /\ Done(r) < n
    BY <2>1, <2>2
  <2>4. PICK a \in V : a = v
    BY <2>1
  <2>5. PICK sub \in [Rank -> [Nat -> V]] : Values(sub) /\ sub[r][n] = a
    <3>1. MayBe(V, r, n, a)
      BY <2>3, Refresh
    <3> QED
      BY <3>1 DEF MayBe
  <2> QED
    BY <1>1, <2>1, <2>3, <2>4, <2>5, CallValues
<1>2. ASSUME NEW r \in Rank, RecvSize(r) PROVE Values(old)'
  BY <1>2, RecvSizeValues
<1>3. ASSUME NEW r \in Rank, RecvData(r)
      PROVE  \E sub \in [Rank -> [Nat -> V]] : Values(sub)'
  <2>1. Awaiting(r) /\ Len(given[r]) \in Nat
    BY <1>3, Numbers DEF RecvData
  <2>2. Done(r) = Len(given[r]) - 1
    BY <2>1 DEF Done, Waiting, Awaiting
  <2>3. PICK n \in Nat : n = Len(given[r]) /\ Done(r) < n
    BY <2>1, <2>2
  <2>4. tmp'[r] \in V
    <3>1. TreeTypes(V)'
      BY <1>3, RecvKeeps
    <3>2. pc'[r] # "out"
      <4>1. pc'[r] = IF pc[r] = "first" THEN AfterFirst(r) ELSE AfterChildren(r)
        BY <1>3 DEF RecvData, TreeTypes
      <4> QED
        BY <4>1 DEF AfterFirst, AfterChildren
    <3> QED
      BY <3>1, <3>2 DEF TreeTypes
  <2>5. PICK a \in V : a = tmp'[r]
    BY <2>4
  <2>6. PICK sub \in [Rank -> [Nat -> V]] : Values(sub) /\ sub[r][n] = a
    <3>1. MayBe(V, r, n, a)
      BY <2>3, Refresh
    <3> QED
      BY <3>1 DEF MayBe
  <2> QED
    BY <1>3, <2>3, <2>5, <2>6, RecvDataValues
<1>4. ASSUME NEW r \in Rank, Send(r) PROVE Values(old)'
  BY <1>4, SendValues
<1>5. ASSUME NEW r \in Rank, GetBcast(r) PROVE Values(old)'
  BY <1>5, OutValues DEF GetBcast
<1>6. ASSUME Bcast PROVE Values(old)'
  <2>1. /\ pc[0] = "bcast" /\ pc' = [pc EXCEPT ![0] = "out"] /\ bcasts' = Append(bcasts, tmp[0])
        /\ UNCHANGED <<given, tmp, sized, chan>> /\ 0 \in Rank
    BY <1>6 DEF Bcast, Rank
  <2>2. PICK x : x = tmp[0]
    OBVIOUS
  <2>3. x = AR!Whole(Len(bcasts) + 1)
    BY <2>1, <2>2, RootResult
  <2> QED
    BY <2>1, <2>2, <2>3, OutValues
<1>7. ASSUME UNCHANGED treeVars PROVE Values(old)'
  <2>1. UNCHANGED <<given, returned, pc, tmp, sized, chan, bcasts>>
    BY <1>7 DEF treeVars
  <2>2. \A s \in Rank : Steady(s)
    BY <2>1 DEF Steady
  <2>3. \A c \in Rank \ {0} : Even(c)
    BY <2>2, SteadyCounts, ParentRank DEF Even
  <2>4. 0 \in Rank /\ \A s \in Rank : Done(s)' = Done(s)
    BY <2>2, SteadyCounts DEF Rank
  <2>5. Subtotals(old)'
    BY <2>1, <2>4, SumsStep DEF Values
  <2>6. Temps(old)' /\ Carried(old)' /\ Announced'
    BY <2>1, <2>3, CarriedSame, AnnouncedSame DEF Values, Temps
  <2> QED
    BY <2>5, <2>6 DEF Values
<1> QED
  BY <1>1, <1>2, <1>3, <1>4, <1>5, <1>6, <1>7 DEF TreeNext, Work

LEMMA TreeStateStep ==
  ASSUME Size \in Nat \ {0}, NEW V, Merging(V), TreeState(V), [TreeNext]_treeVars
  PROVE  TreeState(V)'
<1>1. TreeTypes(V) /\ TreeInv
  BY DEF TreeState
<1>2. PICK old \in [Rank -> [Nat -> V]] : Values(old)
  BY DEF TreeState
<1>3. \E sub \in [Rank -> [Nat -> V]] : Values(sub)'
  BY <1>1, <1>2, TreeValuesStep
<1>4. TreeTypes(V)' /\ TreeInv'
  BY <1>1, TreeStep
<1> QED
  BY <1>3, <1>4 DEF TreeState

LEMMA TreeImplements ==
  ASSUME Size \in Nat \ {0}, NEW V, Merging(V), TreeState(V), [TreeNext]_treeVars
  PROVE  [AR!ARNext]_<<given, returned>>
<1>0. TreeTypes(V) /\ TreeInv /\ Places /\ Rounds /\ Flows /\ AR!ranks = Rank /\ Rank = 0 .. Size - 1
  BY DEF TreeState, TreeInv, AR!ranks, Rank
<1>1. PICK sub \in [Rank -> [Nat -> V]] : Values(sub)
  BY DEF TreeState
<1>2. ASSUME NEW r \in Rank, NEW v \in Input, Call(r, v) PROVE AR!ARNext
  <2>1. Len(given[r]) = Len(returned[r]) + 0
    BY <1>0, <1>2 DEF Rounds, Call
  <2>2. Len(returned[r]) \in Nat
    BY <1>0 DEF TreeTypes
  <2>3. Len(given[r]) = Len(returned[r])
    BY <2>1, <2>2
  <2>4. AR!Give(r, v)
    BY <1>2, <2>3 DEF AR!Give, Call
  <2> QED
    BY <1>0, <2>4 DEF AR!ARNext
<1>3. ASSUME NEW r \in Rank, RecvSize(r) \/ RecvData(r) \/ Send(r) PROVE UNCHANGED <<given, returned>>
  BY <1>3 DEF RecvSize, RecvData, Send
<1>4. ASSUME NEW r \in Rank, GetBcast(r) PROVE AR!ARNext
  <2>1. /\ pc[r] = "bcast" /\ Len(bcasts) > Len(returned[r]) /\ given' = given
    BY <1>4 DEF GetBcast
  <2>2. PICK i : i = Len(returned[r]) + 1
    OBVIOUS
  <2>3. Len(returned[r]) \in Nat /\ Len(bcasts) \in Nat /\ DOMAIN bcasts = 1 .. Len(bcasts)
        /\ \A s \in Rank : Len(given[s]) \in Nat
    BY <1>0 DEF TreeTypes
  <2>4. i \in DOMAIN bcasts /\ i <= Len(bcasts)
    BY <2>1, <2>2, <2>3
  <2>5. returned' = [returned EXCEPT ![r] = Append(@, AR!Whole(i))]
    <3>1. bcasts[i] = AR!Whole(i)
      BY <1>1, <2>4 DEF Values, Announced
    <3>2. returned' = [returned EXCEPT ![r] = Append(@, bcasts[i])]
      BY <1>0, <1>4, <2>2 DEF GetBcast, TreeTypes
    <3> QED
      BY <3>1, <3>2
  <2>6. \A s \in Rank : i <= Len(given[s])
    <3>1. \A s \in Rank : Len(bcasts) <= Len(given[s])
      BY <1>0 DEF Rounds
    <3> QED
      BY <2>2, <2>3, <2>4, <3>1
  <2>7. Len(given[r]) = i
    BY <1>0, <2>1, <2>2 DEF Rounds
  <2>8. AR!Return(r)
    BY <1>0, <2>1, <2>2, <2>5, <2>6, <2>7 DEF AR!Return
  <2> QED
    BY <1>0, <2>8 DEF AR!ARNext
<1>5. ASSUME Bcast PROVE AR!ARNext
  <2>1. pc[0] = "bcast" /\ given' = given /\ 0 \in Rank
    BY <1>0, <1>5 DEF Bcast
  <2>2. PICK i : i = Len(returned[0]) + 1
    OBVIOUS
  <2>3. Len(returned[0]) = Len(bcasts)
    BY <1>0 DEF Rounds
  <2>4. tmp[0] = AR!Whole(i)
    BY <1>0, <1>1, <2>1, <2>2, <2>3, RootResult
  <2>5. returned' = [returned EXCEPT ![0] = Append(@, AR!Whole(i))]
    BY <1>5, <2>4 DEF Bcast
  <2>6. Len(given[0]) = i /\ \A s \in Rank : i <= Len(given[s])
    <3>1. /\ Len(given[0]) = Len(bcasts) + 1
          /\ \A s \in Rank : Len(bcasts) + 1 <= Done(s) /\ Done(s) <= Len(given[s])
      BY <1>0, <2>1, RootHasAll
    <3>2. \A s \in Rank : Done(s) \in Int /\ Len(given[s]) \in Nat
      BY <1>0, Numbers
    <3>3. Len(bcasts) \in Nat
      BY <1>0 DEF TreeTypes
    <3>4. ASSUME NEW s \in Rank PROVE Len(bcasts) + 1 <= Len(given[s])
      BY <3>1, <3>2, <3>3
    <3> QED
      BY <2>2, <2>3, <3>1, <3>4
  <2>7. AR!Return(0)
    BY <1>0, <2>1, <2>2, <2>5, <2>6 DEF AR!Return
  <2> QED
    BY <1>0, <2>1, <2>7 DEF AR!ARNext
<1> QED
  BY <1>2, <1>3, <1>4, <1>5 DEF TreeNext, Work, treeVars

(* The tree is an all-reduce (321-346): however far ranks are ahead of one
   another, whatever MPI buffers, and for any number of ranks, everybody
   returns the merge of the inputs of its own all-reduce.                  *)
THEOREM TreeIsAnAllReduce ==
  ASSUME Size \in Nat \ {0}, NEW V, Merging(V), NEW v \in V
  PROVE  TreeSpec => AllReduce
<1>1. TreeInit => TreeState(V)
  BY TreeStateInit
<1>2. TreeState(V) /\ [TreeNext]_treeVars => TreeState(V)'
  BY TreeStateStep
<1>3. TreeInit => AR!ARInit
  BY DEF TreeInit, AR!ARInit, AR!ranks, Rank
<1>4. TreeState(V) /\ [TreeNext]_treeVars => [AR!ARNext]_<<given, returned>>
  BY TreeImplements
<1> QED
  BY <1>1, <1>2, <1>3, <1>4, PTL DEF TreeSpec, AllReduce, AR!ARSpec
=============================================================================
