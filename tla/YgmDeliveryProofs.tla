-------------------------- MODULE YgmDeliveryProofs --------------------------
(***************************************************************************)
(* YgmComm implements YgmBarrier, and so inherits what is proved there.    *)
(* The invariant CommInv of YgmComm and what follows from it: between      *)
(* async() and its handler no call is lost, duplicated or reordered,       *)
(* barrier() starts with empty buffers, and the destructor loses nothing.  *)
(***************************************************************************)
EXTENDS YgmTransportProofs

(* A step of comm::impl is a step of the barrier protocol or moves calls
   along without the protocol noticing.                                    *)
LEMMA CommStep == [CommNext]_commVars => [Next]_vars
<1> SUFFICES ASSUME [CommNext]_commVars PROVE [Next]_vars
  OBVIOUS
<1> USE DEF Next
<1>1. ASSUME NEW r \in Rank, Progress(r) PROVE [Next]_vars
  <2>1. CASE StartHandler(r)
    <3>1. Begin(Head(Buf(r))) /\ Head(Buf(r)) \in issued
      BY <2>1 DEF StartHandler, Begin, InFlight
    <3> QED
      BY <3>1
  <2>2. CASE HandlerReturns(r)
    BY <2>2 DEF HandlerReturns, RankStep
  <2>3. CASE Reduce(r)
    BY <2>3 DEF Reduce, RankStep
  <2>4. CASE LastBarrier(r)
    BY <2>4 DEF LastBarrier, RankStep
  <2>5. CASE \/ FinishLarge(r) \/ TakeBuffer(r) \/ Drained(r) \/ Flush(r)
             \/ Kill(r) \/ Join(r) \/ Free(r)
    BY <2>5 DEF FinishLarge, TakeBuffer, Drained, Flush, Kill, Join, Free
  <2> QED
    BY <1>1, <2>1, <2>2, <2>3, <2>4, <2>5 DEF Progress
<1>2. ASSUME NEW r \in Rank, Program(r) PROVE [Next]_vars
  <2>1. ASSUME NEW d \in Rank \ {r}, CallSmall(r, d) \/ CallLarge(r, d)
        PROVE  [Next]_vars
    BY <2>1 DEF CallSmall, CallLarge, RankStep
  <2>2. CASE Barrier(r)
    BY <2>2 DEF Barrier, RankStep
  <2>3. CASE Peek(r) \/ Poll(r) \/ Destroy(r)
    BY <2>3 DEF Peek, Poll, Destroy
  <2>4. ASSUME NEW d \in Rank \ {r}, CallFlush(r, d) PROVE [Next]_vars
    BY <2>4 DEF CallFlush
  <2> QED
    BY <1>2, <2>1, <2>2, <2>3, <2>4 DEF Program
<1>3. ASSUME NEW r \in Rank, Listener(r) PROVE [Next]_vars
  BY <1>3 DEF Listener
<1>4. CASE Ended \/ UNCHANGED commVars
  BY <1>4 DEF Ended, commVars
<1> QED
  BY <1>1, <1>2, <1>3, <1>4 DEF CommNext

(* Buffers, messages, listener threads and nested processing together
   implement the unordered delivery that the barrier protocol assumes.     *)
THEOREM CommImplementsBarrier == CommSpec => Spec
<1>1. CommInit => Init
  BY DEF CommInit
<1> QED
  BY <1>1, CommStep, PTL DEF CommSpec, Spec

(* barrier() keeps its promise on the real transport: once any rank has left
   its e-th barrier, no call of the first e epochs is pending anywhere.    *)
THEOREM CommKeepsPromise == CommSpec => []BarrierPromise
<1> QED
  BY CommImplementsBarrier, BarrierKeepsPromise, PTL

(* comm::impl gives the program a bulk-synchronous execution.              *)
THEOREM CommImplementsBulkSync == CommSpec => BulkSync
<1> QED
  BY CommImplementsBarrier, ImplementsBulkSync, PTL
-----------------------------------------------------------------------------
\* The stretches of a way that are not a variable as it is.
Stretch(a)  == [k \in DOMAIN a |-> a[Len(a) + 1 - k].buf]
Boxes(C)    == [i \in DOMAIN C |-> C[i].calls]
Hands(b, d) == << IF b # <<>> /\ Head(b).dst = d THEN b ELSE <<>> >>

Shape(W, a, q, C, b, e, d) ==
  /\ IsWay(W)
  /\ W[1] = Stretch(a) /\ W[2] = q /\ W[3] = Boxes(C) /\ W[4] = Hands(b, d) /\ W[5] = <<e>>

LEMMA ShapeNow ==
  CommTypeOK => \A s, d \in Rank :
    Shape(Way(s, d), act[d], queue[d], chan[s][d], body[s], sendBuf[s][d], d)
<1> SUFFICES ASSUME CommTypeOK, NEW s \in Rank, NEW d \in Rank
             PROVE  Shape(Way(s, d), act[d], queue[d], chan[s][d], body[s], sendBuf[s][d], d)
  OBVIOUS
<1>1. /\ IsWay(Way(s, d))
      /\ Way(s, d)[1] = [k \in DOMAIN act[d] |-> act[d][Len(act[d]) + 1 - k].buf]
      /\ Way(s, d)[2] = queue[d]
      /\ Way(s, d)[3] = [i \in DOMAIN chan[s][d] |-> chan[s][d][i].calls]
      /\ Way(s, d)[4] = << IF Coming(s, d) THEN body[s] ELSE <<>> >>
      /\ Way(s, d)[5] = << sendBuf[s][d] >>
  BY WayFacts
<1> QED
  BY <1>1 DEF Shape, Stretch, Boxes, Hands, Coming

LEMMA ShapeNext ==
  CommTypeOK' => \A s, d \in Rank :
    Shape(Way(s, d)', act'[d], queue'[d], chan'[s][d], body'[s], sendBuf'[s][d], d)
<1>1. (CommTypeOK => \A s, d \in Rank :
         Shape(Way(s, d), act[d], queue[d], chan[s][d], body[s], sendBuf[s][d], d))'
  BY ShapeNow, PTL
<1> QED
  BY <1>1 DEF Shape, IsWay

LEMMA Pushed ==
  ASSUME NEW a \in Seq(Frame), NEW b \in Seq(Frame), Len(b) = Len(a) + 1,
         \A i \in 2 .. Len(a) + 1 : b[i] = a[i - 1]
  PROVE  Stretch(a) \in Seq(Seq(Call)) /\ Stretch(b) = Append(Stretch(a), b[1].buf)
<1>1. /\ Len(a) \in Nat /\ DOMAIN a = 1 .. Len(a) /\ DOMAIN b = 1 .. Len(a) + 1
      /\ \A i \in 1 .. Len(a) : a[i] \in Frame
      /\ \A i \in 1 .. Len(a) + 1 : b[i] \in Frame
  OBVIOUS
<1>2. ASSUME NEW k \in 1 .. Len(a)
      PROVE  a[Len(a) + 1 - k].buf \in Seq(Call) /\ b[Len(b) + 1 - k] = a[Len(a) + 1 - k]
  <2>1. Len(a) + 1 - k \in 1 .. Len(a)
    BY <1>1
  <2>2. Len(b) + 1 - k \in 2 .. Len(a) + 1 /\ (Len(b) + 1 - k) - 1 = Len(a) + 1 - k
    BY <1>1
  <2>3. a[Len(a) + 1 - k] \in Frame
    BY <1>1, <2>1
  <2> QED
    BY <2>2, <2>3 DEF Frame
<1>3. Stretch(a) \in Seq(Seq(Call)) /\ Len(Stretch(a)) = Len(a)
  BY <1>1, <1>2 DEF Stretch
<1>4. b[1] \in Frame /\ b[1].buf \in Seq(Call)
  BY <1>1 DEF Frame
<1> DEFINE z == Append(Stretch(a), b[1].buf)
<1>5. /\ z \in Seq(Seq(Call)) /\ DOMAIN z = 1 .. Len(a) + 1
      /\ \A k \in 1 .. Len(a) : z[k] = Stretch(a)[k]
      /\ z[Len(a) + 1] = b[1].buf
  BY <1>3, <1>4, AppendedTo
<1>6. Len(b) + 1 - (Len(a) + 1) = 1
  BY <1>1
<1>10. \A k \in 1 .. Len(a) : Stretch(a)[k] = a[Len(a) + 1 - k].buf
  BY <1>1 DEF Stretch
<1> HIDE DEF z
<1>7. ASSUME NEW k \in 1 .. Len(a) + 1 PROVE z[k] = b[Len(b) + 1 - k].buf
  <2>1. CASE k = Len(a) + 1
    BY <1>5, <1>6, <2>1
  <2>2. CASE k \in 1 .. Len(a)
    BY <1>2, <1>5, <1>10, <2>2
  <2> QED
    BY <1>1, <2>1, <2>2
<1>8. z = [k \in 1 .. Len(a) + 1 |-> z[k]]
  BY <1>5
<1>9. z = [k \in 1 .. Len(a) + 1 |-> b[Len(b) + 1 - k].buf]
  BY <1>7, <1>8
<1> QED
  BY <1>1, <1>3, <1>9 DEF Stretch, z

LEMMA BoxesGrow ==
  ASSUME NEW C \in Seq(Message), NEW m \in Message
  PROVE  Boxes(C) \in Seq(Seq(Call)) /\ Boxes(Append(C, m)) = Append(Boxes(C), m.calls)
<1>1. /\ Len(C) \in Nat /\ DOMAIN C = 1 .. Len(C)
      /\ \A i \in 1 .. Len(C) : C[i].calls \in Seq(Call)
      /\ m.calls \in Seq(Call)
  <2>1. \A i \in 1 .. Len(C) : C[i] \in Message
    OBVIOUS
  <2> QED
    BY <2>1 DEF Message
<1>2. Boxes(C) \in Seq(Seq(Call)) /\ Len(Boxes(C)) = Len(C)
  BY <1>1 DEF Boxes
<1>3. /\ DOMAIN Append(C, m) = 1 .. Len(C) + 1
      /\ \A i \in 1 .. Len(C) : Append(C, m)[i] = C[i]
      /\ Append(C, m)[Len(C) + 1] = m
  BY AppendedTo
<1> DEFINE z == Append(Boxes(C), m.calls)
<1>4. /\ z \in Seq(Seq(Call)) /\ DOMAIN z = 1 .. Len(C) + 1
      /\ \A k \in 1 .. Len(C) : z[k] = Boxes(C)[k]
      /\ z[Len(C) + 1] = m.calls
  BY <1>1, <1>2, AppendedTo
<1>8. \A k \in 1 .. Len(C) : Boxes(C)[k] = C[k].calls
  BY <1>1 DEF Boxes
<1> HIDE DEF z
<1>5. ASSUME NEW k \in 1 .. Len(C) + 1 PROVE z[k] = Append(C, m)[k].calls
  <2>1. CASE k = Len(C) + 1
    BY <1>3, <1>4, <2>1
  <2>2. CASE k \in 1 .. Len(C)
    BY <1>3, <1>4, <1>8, <2>2
  <2> QED
    BY <1>1, <2>1, <2>2
<1>6. z = [k \in 1 .. Len(C) + 1 |-> z[k]]
  BY <1>4
<1>7. z = [k \in 1 .. Len(C) + 1 |-> Append(C, m)[k].calls]
  BY <1>5, <1>6
<1> QED
  BY <1>2, <1>3, <1>7 DEF Boxes, z

LEMMA BoxesShrink ==
  ASSUME NEW C \in Seq(Message), C # <<>>
  PROVE  /\ Boxes(C) \in Seq(Seq(Call)) /\ Boxes(C) # <<>> /\ Boxes(C)[1] = C[1].calls
         /\ Boxes(Tail(C)) \in Seq(Seq(Call))
         /\ Len(Boxes(C)) \in Nat \ {0} /\ Len(Boxes(Tail(C))) = Len(Boxes(C)) - 1
         /\ \A i \in 1 .. Len(Boxes(C)) - 1 : Boxes(Tail(C))[i] = Boxes(C)[i + 1]
<1>1. /\ Tail(C) \in Seq(Message) /\ DOMAIN C = 1 .. Len(C) /\ Len(C) \in Nat \ {0}
      /\ DOMAIN Tail(C) = 1 .. Len(C) - 1
      /\ \A i \in 1 .. Len(C) - 1 : Tail(C)[i] = C[i + 1]
  BY PopLemma
<1>2. ASSUME NEW D \in Seq(Message)
      PROVE  Boxes(D) \in Seq(Seq(Call)) /\ Len(Boxes(D)) = Len(D)
  <2>1. /\ \A i \in 1 .. Len(D) : D[i] \in Message
        /\ Len(D) \in Nat /\ DOMAIN D = 1 .. Len(D)
    OBVIOUS
  <2>2. \A i \in 1 .. Len(D) : D[i].calls \in Seq(Call)
    BY <2>1 DEF Message
  <2> QED
    BY <2>1, <2>2 DEF Boxes
<1>3. Len(Tail(C)) = Len(C) - 1
  BY HeadTailProperties
<1>4. ASSUME NEW i \in 1 .. Len(C) - 1 PROVE Boxes(Tail(C))[i] = Boxes(C)[i + 1]
  <2>1. i + 1 \in DOMAIN C
    BY <1>1
  <2> QED
    BY <1>1, <2>1 DEF Boxes
<1>5. Boxes(C)[1] = C[1].calls
  BY <1>1 DEF Boxes
<1>6. Boxes(C) # <<>>
  BY <1>1, <1>2, EmptySeq
<1> QED
  BY <1>1, <1>2, <1>3, <1>4, <1>5, <1>6
-----------------------------------------------------------------------------
LEMMA MoreBig ==
  ASSUME NEW W, NEW s, NEW S, NEW B, NEW X, NEW Z, Holds(W, s, S, B, X), B \subseteq Z
  PROVE  Holds(W, s, S, Z, X)
  BY DEF Holds, HoldsAt

(* A buffer of another rank's calls changes nothing.                       *)
LEMMA Foreign ==
  ASSUME NEW W, IsWay(W), NEW V, IsWay(V), NEW s, NEW S, NEW B, NEW X, NEW b \in Seq(Call),
         \A j \in DOMAIN b : b[j].src # s,
         V[2] = Append(W[2], b), \A t \in 1 .. 5 : t # 2 => V[t] = W[t],
         Holds(W, s, S, B, X)
  PROVE  Holds(V, s, S, B, X)
<1>1. W[2] \in Seq(Seq(Call)) /\ V[2] \in Seq(Seq(Call))
  BY DEF IsWay
<1>2. /\ Len(V[2]) = Len(W[2]) + 1 /\ Len(W[2]) \in Nat
      /\ \A i \in 1 .. Len(W[2]) : V[2][i] = W[2][i]
      /\ V[2][Len(W[2]) + 1] = b
  BY <1>1, AppendedTo
<1>3. DOMAIN b = 1 .. Len(b)
  OBVIOUS
<1>4. ASSUME NEW p \in Places(V, s) PROVE p \in Places(W, s)
  <2>1. /\ p[1] \in 1 .. 5 /\ p[2] \in 1 .. Len(V[p[1]]) /\ p[3] \in 1 .. Len(V[p[1]][p[2]])
        /\ V[p[1]][p[2]][p[3]].src = s /\ p = <<p[1], p[2], p[3]>>
    BY PlaceFacts DEF At
  <2>2. ~(p[1] = 2 /\ p[2] = Len(W[2]) + 1)
    BY <1>2, <1>3, <2>1
  <2>3. p[2] \in 1 .. Len(W[p[1]]) /\ W[p[1]][p[2]] = V[p[1]][p[2]]
    <3>1. CASE p[1] = 2
      BY <1>2, <2>1, <2>2, <3>1, SMTT(30)
    <3>2. CASE p[1] # 2
      BY <2>1, <3>2
    <3> QED
      BY <3>1, <3>2
  <2>4. p[3] \in 1 .. Len(W[p[1]][p[2]]) /\ W[p[1]][p[2]][p[3]].src = s
    BY <2>1, <2>3
  <2>5. <<p[1], p[2], p[3]>> \in Places(W, s)
    BY <2>1, <2>3, <2>4, InPlaces, Zenon
  <2> QED
    BY <2>1, <2>5
<1>5. ASSUME NEW p \in Places(W, s) PROVE p \in Places(V, s) /\ At(V, p) = At(W, p)
  <2>1. /\ p[1] \in 1 .. 5 /\ p[2] \in 1 .. Len(W[p[1]]) /\ p[3] \in 1 .. Len(W[p[1]][p[2]])
        /\ W[p[1]][p[2]][p[3]].src = s /\ p = <<p[1], p[2], p[3]>>
    BY PlaceFacts DEF At
  <2>2. p[2] \in 1 .. Len(V[p[1]]) /\ W[p[1]][p[2]] = V[p[1]][p[2]]
    <3>1. CASE p[1] = 2
      BY <1>2, <2>1, <3>1
    <3>2. CASE p[1] # 2
      BY <2>1, <3>2
    <3> QED
      BY <3>1, <3>2
  <2>3. p[3] \in 1 .. Len(V[p[1]][p[2]]) /\ V[p[1]][p[2]][p[3]].src = s
    BY <2>1, <2>2
  <2>4. <<p[1], p[2], p[3]>> \in Places(V, s)
    BY <2>1, <2>2, <2>3, InPlaces, Zenon
  <2> QED
    BY <2>1, <2>2, <2>4 DEF At
<1>6. Places(V, s) = Places(W, s)
  BY <1>4, <1>5
<1>7. \A p \in Places(W, s) : At(V, p) = At(W, p)
  BY <1>5
<1> QED
  BY <1>6, <1>7 DEF Holds, HoldsAt
-----------------------------------------------------------------------------
WayOK(s, d) == Holds(Way(s, d), s, Pend(s, d), big, Done(s, d))

(* A step that does not touch the way between two ranks.                   *)
LEMMA StaysOK ==
  ASSUME TInv, CommTypeOK', NEW s \in Rank, NEW d \in Rank, s # d,
         act'[d] = act[d], queue'[d] = queue[d], chan'[s][d] = chan[s][d],
         Hands(body'[s], d) = Hands(body[s], d), sendBuf'[s][d] = sendBuf[s][d],
         Pend(s, d)' = Pend(s, d), Done(s, d)' = Done(s, d), big \subseteq big'
  PROVE  WayOK(s, d)'
<1> DEFINE W == Way(s, d)
           V == Way(s, d)'
<1>1. Shape(W, act[d], queue[d], chan[s][d], body[s], sendBuf[s][d], d)
  BY ShapeNow DEF TInv
<1>2. Shape(V, act'[d], queue'[d], chan'[s][d], body'[s], sendBuf'[s][d], d)
  BY ShapeNext
<1>3. Holds(W, s, Pend(s, d), big, Done(s, d))
  BY DEF TInv, WaysInv
<1> HIDE DEF W, V
<1>4. W[1] = V[1] /\ W[2] = V[2] /\ W[3] = V[3] /\ W[4] = V[4] /\ W[5] = V[5]
  BY <1>1, <1>2 DEF Shape
<1>5. IsWay(W) /\ IsWay(V)
  BY <1>1, <1>2 DEF Shape
<1>6. W = V
  <2>1. \A t \in 1 .. 5 : t = 1 \/ t = 2 \/ t = 3 \/ t = 4 \/ t = 5
    OBVIOUS
  <2>2. \A t \in 1 .. 5 : W[t] = V[t]
    BY <1>4, <2>1
  <2>3. W = [t \in 1 .. 5 |-> W[t]] /\ V = [t \in 1 .. 5 |-> V[t]]
    BY <1>5 DEF IsWay
  <2> QED
    BY <2>2, <2>3
<1>7. Holds(V, s, Pend(s, d), big', Done(s, d))
  BY <1>3, <1>6, MoreBig
<1>8. Holds(V, s, Pend(s, d)', big', Done(s, d)')
  BY <1>7
<1> QED
  BY <1>8 DEF WayOK, V, Holds, HoldsAt, Places, At

LEMMA SamePend ==
  ASSUME UNCHANGED <<issued, executed>>
  PROVE  \A s, d : Pend(s, d)' = Pend(s, d) /\ Done(s, d)' = Done(s, d)
  BY DEF Pend, Done

LEMMA OnWay ==
  ASSUME TInv, CommTypeOK', NEW s \in Rank, NEW d \in Rank, s # d
  PROVE  /\ Shape(Way(s, d), act[d], queue[d], chan[s][d], body[s], sendBuf[s][d], d)
         /\ Shape(Way(s, d)', act'[d], queue'[d], chan'[s][d], body'[s], sendBuf'[s][d], d)
         /\ Holds(Way(s, d), s, Pend(s, d), big, Done(s, d))
         /\ IsWay(Way(s, d)) /\ IsWay(Way(s, d)')
         /\ Holds(Way(s, d)', s, Pend(s, d)', big', Done(s, d)') => WayOK(s, d)'
<1>1. Shape(Way(s, d), act[d], queue[d], chan[s][d], body[s], sendBuf[s][d], d)
  BY ShapeNow DEF TInv
<1>2. Shape(Way(s, d)', act'[d], queue'[d], chan'[s][d], body'[s], sendBuf'[s][d], d)
  BY ShapeNext
<1>3. Holds(Way(s, d), s, Pend(s, d), big, Done(s, d))
  BY DEF TInv, WaysInv
<1>4. Holds(Way(s, d)', s, Pend(s, d)', big', Done(s, d)') => WayOK(s, d)'
  BY DEF WayOK, Holds, HoldsAt, Places, At
<1> QED
  BY <1>1, <1>2, <1>3, <1>4 DEF Shape

LEMMA Five == \A t \in 1 .. 5 : t = 1 \/ t = 2 \/ t = 3 \/ t = 4 \/ t = 5
  OBVIOUS

(* receive_queue_process() is called or returns.                           *)
LEMMA PadOK ==
  ASSUME TInv, CommTypeOK', NEW s \in Rank, NEW d \in Rank, s # d,
         \/ Stretch(act'[d]) = Append(Stretch(act[d]), <<>>)
         \/ Stretch(act[d]) = Append(Stretch(act'[d]), <<>>),
         UNCHANGED <<wireVars, big, issued, executed>>
  PROVE  WayOK(s, d)'
<1> DEFINE W == Way(s, d)
           V == Way(s, d)'
<1>1. /\ Shape(W, act[d], queue[d], chan[s][d], body[s], sendBuf[s][d], d)
      /\ Shape(V, act'[d], queue'[d], chan'[s][d], body'[s], sendBuf'[s][d], d)
      /\ Holds(W, s, Pend(s, d), big, Done(s, d))
      /\ Holds(V, s, Pend(s, d)', big', Done(s, d)') => WayOK(s, d)'
      /\ IsWay(W) /\ IsWay(V)
  BY OnWay
<1> HIDE DEF W, V
<1>2. Pend(s, d)' = Pend(s, d) /\ Done(s, d)' = Done(s, d) /\ big' = big
  BY SamePend
<1>3. UNCHANGED <<sendBuf, body, chan, listener, queue>>
  BY DEF wireVars
<1>4. /\ V[1] = Append(W[1], <<>>) \/ W[1] = Append(V[1], <<>>)
      /\ V[2] = W[2] /\ V[3] = W[3] /\ V[4] = W[4] /\ V[5] = W[5]
  BY <1>1, <1>3 DEF Shape
<1>5. \A t \in 1 .. 5 : V[t] = W[t] \/ V[t] = Append(W[t], <<>>) \/ W[t] = Append(V[t], <<>>)
  BY <1>4, Five
<1>6. Holds(V, s, Pend(s, d), big, Done(s, d))
  BY <1>1, <1>5, Padded
<1> QED
  BY <1>1, <1>2, <1>6

LEMMA OpensWays ==
  ASSUME TInv, CommTypeOK', NEW r \in Rank, Opens(r), NEW s \in Rank, NEW d \in Rank, s # d
  PROVE  WayOK(s, d)'
<1>1. CommTypeOK /\ act' = [act EXCEPT ![r] = <<Activation>> \o act[r]]
      /\ UNCHANGED <<wireVars, big, issued, executed>>
  BY DEF TInv, Opens, Settled
<1>2. /\ act'[r] \in Seq(Frame) /\ \A z \in Rank : z # r => act'[z] = act[z]
      /\ Len(act[r]) \in Nat /\ Len(act'[r]) = Len(act[r]) + 1 /\ act'[r][1] = Activation
      /\ \A i \in 2 .. Len(act[r]) + 1 : act'[r][i] = act[r][i - 1]
  BY <1>1, PushEffect
<1>3. CASE d # r
  <2>1. UNCHANGED <<sendBuf, body, chan, listener, queue>>
    BY <1>1 DEF wireVars
  <2>2. Pend(s, d)' = Pend(s, d) /\ Done(s, d)' = Done(s, d) /\ big' = big
    BY <1>1, SamePend
  <2>3. act'[d] = act[d]
    BY <1>2, <1>3
  <2> QED
    BY <2>1, <2>2, <2>3, StaysOK
<1>4. CASE d = r
  <2>1. act[r] \in Seq(Frame)
    BY <1>1, TypeFacts
  <2>2. Stretch(act'[r]) = Append(Stretch(act[r]), act'[r][1].buf)
    BY <1>2, <2>1, Pushed
  <2>3. Stretch(act'[d]) = Append(Stretch(act[d]), <<>>)
    BY <1>2, <1>4, <2>2 DEF Activation
  <2> QED
    BY <1>1, <2>3, PadOK
<1> QED
  BY <1>3, <1>4

LEMMA DrainedWays ==
  ASSUME TInv, CommTypeOK', NEW r \in Rank, Drained(r), NEW s \in Rank, NEW d \in Rank, s # d
  PROVE  WayOK(s, d)'
<1>1. /\ CommTypeOK /\ act[r] # <<>> /\ act[r][1].buf = <<>>
      /\ act' = [act EXCEPT ![r] = Tail(@)]
      /\ UNCHANGED <<wireVars, big, issued, executed>>
  BY DEF TInv, Drained, vars, Buf
<1>2. /\ act'[r] \in Seq(Frame) /\ act[r] \in Seq(Frame)
      /\ \A z \in Rank : z # r => act'[z] = act[z]
      /\ Len(act[r]) \in Nat \ {0} /\ Len(act'[r]) = Len(act[r]) - 1
      /\ \A i \in 1 .. Len(act[r]) - 1 : act'[r][i] = act[r][i + 1]
  BY <1>1, PopEffect
<1>3. CASE d # r
  <2>1. UNCHANGED <<sendBuf, body, chan, listener, queue>>
    BY <1>1 DEF wireVars
  <2>2. Pend(s, d)' = Pend(s, d) /\ Done(s, d)' = Done(s, d) /\ big' = big
    BY <1>1, SamePend
  <2>3. act'[d] = act[d]
    BY <1>2, <1>3
  <2> QED
    BY <2>1, <2>2, <2>3, StaysOK
<1>4. CASE d = r
  <2>1. Len(act[r]) = Len(act'[r]) + 1
    BY <1>2
  <2>2. ASSUME NEW i \in 2 .. Len(act'[r]) + 1 PROVE act[r][i] = act'[r][i - 1]
    <3>1. i - 1 \in 1 .. Len(act[r]) - 1 /\ (i - 1) + 1 = i
      BY <1>2
    <3> QED
      BY <1>2, <3>1
  <2>3. Stretch(act[r]) = Append(Stretch(act'[r]), act[r][1].buf)
    BY <1>2, <2>1, <2>2, Pushed
  <2>4. Stretch(act[d]) = Append(Stretch(act'[d]), <<>>)
    BY <1>1, <1>4, <2>3
  <2> QED
    BY <1>1, <2>4, PadOK
<1> QED
  BY <1>3, <1>4

\* b is a without its first element.
Shifted(a, b) ==
  /\ Len(a) \in Nat /\ Len(b) = Len(a) - 1
  /\ \A i \in 1 .. Len(a) - 1 : b[i] = a[i + 1]

LEMMA NextIndex ==
  ASSUME NEW n \in Nat, NEW i \in 1 .. n - 1
  PROVE  i + 1 \in 1 .. n
OBVIOUS

LEMMA PreviousIndex ==
  ASSUME NEW n \in Nat, NEW i \in 2 .. n
  PROVE  i - 1 \in 1 .. n - 1 /\ (i - 1) + 1 = i
OBVIOUS

LEMMA PassedBy ==
  ASSUME NEW W, IsWay(W), NEW V, IsWay(V), NEW t \in 2 .. 5, NEW u \in 1 .. t - 1,
         W[t] # <<>>, V[u] = Append(W[u], W[t][1]),
         \A k \in 1 .. 5 : k # t /\ k # u => V[k] = W[k],
         \A k \in 1 .. 5 : u < k /\ k < t => \A i \in 1 .. Len(W[k]) : W[k][i] = <<>>,
         Shifted(W[t], V[t]) \/ (Len(W[t]) = 1 /\ V[t] = << <<>> >>)
  PROVE  Passed(W, V, t, u)
<1>1. W[t] \in Seq(Seq(Call)) /\ Len(W[t]) \in Nat
  <2>1. W[t] \in Seq(Seq(Call))
    BY DEF IsWay
  <2> QED
    BY <2>1
<1>2. CASE Shifted(W[t], V[t])
  <2>1. ASSUME NEW i \in 1 .. Len(V[t]) PROVE i + 1 \in 1 .. Len(W[t]) /\ V[t][i] = W[t][i + 1]
    <3>1. i \in 1 .. Len(W[t]) - 1
      BY <1>2 DEF Shifted
    <3>2. i + 1 \in 1 .. Len(W[t])
      BY ONLY <1>1, <3>1, NextIndex
    <3>3. V[t][i] = W[t][i + 1]
      BY <1>2, <3>1 DEF Shifted
    <3> QED
      BY <3>2, <3>3
  <2>2. ASSUME NEW i \in 2 .. Len(W[t])
        PROVE  i - 1 \in 1 .. Len(V[t]) /\ V[t][i - 1] = W[t][i]
    <3>1. i - 1 \in 1 .. Len(W[t]) - 1 /\ (i - 1) + 1 = i
      BY ONLY <1>1, PreviousIndex, i \in 2 .. Len(W[t])
    <3> QED
      BY <1>2, <3>1 DEF Shifted
  <2> QED
    BY <2>1, <2>2 DEF Passed
<1>3. CASE Len(W[t]) = 1 /\ V[t] = << <<>> >>
  <2>1. Len(V[t]) = 1 /\ V[t][1] = <<>>
    BY <1>3
  <2>2. \A i \in 1 .. Len(V[t]) : V[t][i] = <<>>
    BY <2>1
  <2>3. 2 .. Len(W[t]) = {}
    BY <1>3
  <2> QED
    BY <2>2, <2>3 DEF Passed
<1> QED
  BY <1>2, <1>3
LEMMA TailShifted ==
  ASSUME NEW S, NEW a \in Seq(S), a # <<>>
  PROVE  Shifted(a, Tail(a)) /\ Tail(a) \in Seq(S) /\ Head(a) = a[1]
<1>1. /\ Len(a) \in Nat \ {0} /\ Tail(a) \in Seq(S) /\ Head(a) = a[1]
      /\ \A i \in 1 .. Len(a) - 1 : Tail(a)[i] = a[i + 1]
  BY PopLemma
<1>2. Len(Tail(a)) = Len(a) - 1
  BY HeadTailProperties
<1> QED
  BY <1>1, <1>2 DEF Shifted

LEMMA TakeWays ==
  ASSUME TInv, CommTypeOK', NEW r \in Rank, TakeBuffer(r), NEW s \in Rank, NEW d \in Rank, s # d
  PROVE  WayOK(s, d)'
<1>1. CommTypeOK /\ UNCHANGED <<sendBuf, body, chan, big, issued, executed>>
  BY DEF TInv, TakeBuffer, Pop, vars
<1>2. /\ act'[r] \in Seq(Frame) /\ act[r] \in Seq(Frame)
      /\ queue[r] \in Seq(Seq(Call)) /\ queue[r] # <<>> /\ queue'[r] = Tail(queue[r])
      /\ Head(queue[r]) = queue[r][1]
      /\ \A x \in Rank : x # r => act'[x] = act[x] /\ queue'[x] = queue[x]
      /\ Len(act[r]) \in Nat \ {0} /\ Len(act'[r]) = Len(act[r])
      /\ act[r][1].buf = <<>> /\ act'[r][1].buf = queue[r][1]
      /\ \A i \in 2 .. Len(act[r]) : act'[r][i] = act[r][i]
  <2>1. /\ act'[r] \in Seq(Frame) /\ act[r] \in Seq(Frame)
        /\ queue[r] \in Seq(Seq(Call)) /\ queue[r] # <<>> /\ queue'[r] = Tail(queue[r])
        /\ Head(queue[r]) = queue[r][1]
        /\ \A x \in Rank : x # r => act'[x] = act[x] /\ queue'[x] = queue[x]
        /\ Len(act[r]) \in Nat \ {0} /\ Len(act'[r]) = Len(act[r])
        /\ act[r][1].buf = <<>>
        /\ act'[r][1] = [buf |-> Head(queue[r]), received |-> TRUE]
        /\ \A i \in 2 .. Len(act[r]) : act'[r][i] = act[r][i]
    BY <1>1, TakeEffect
  <2>2. act'[r][1].buf = queue[r][1]
    BY <2>1
  <2> QED
    BY <2>1, <2>2
<1>3. Pend(s, d)' = Pend(s, d) /\ Done(s, d)' = Done(s, d) /\ big' = big
  BY <1>1, SamePend
<1>4. CASE d # r
  <2>1. act'[d] = act[d] /\ queue'[d] = queue[d]
    BY <1>2, <1>4
  <2> QED
    BY <1>1, <1>3, <2>1, StaysOK
<1>5. CASE d = r
  <2> DEFINE W == Way(s, d)
             V == Way(s, d)'
             a == Tail(act[r])
             U == [W EXCEPT ![1] = Stretch(a)]
  <2>1. /\ Shape(W, act[d], queue[d], chan[s][d], body[s], sendBuf[s][d], d)
        /\ Shape(V, act'[d], queue'[d], chan'[s][d], body'[s], sendBuf'[s][d], d)
        /\ Holds(W, s, Pend(s, d), big, Done(s, d))
        /\ IsWay(W) /\ IsWay(V)
        /\ Holds(V, s, Pend(s, d)', big', Done(s, d)') => WayOK(s, d)'
    BY OnWay
  <2>2. /\ a \in Seq(Frame) /\ Len(a) = Len(act[r]) - 1
        /\ \A i \in 1 .. Len(act[r]) - 1 : a[i] = act[r][i + 1]
    <3>1. act[r] # <<>>
      BY <1>2
    <3> QED
      BY <3>1, <1>2, TailShifted DEF Shifted
  <2> HIDE DEF W, V, a
  <2>3. /\ Len(act[r]) = Len(a) + 1 /\ Len(act'[r]) = Len(a) + 1
        /\ \A i \in 2 .. Len(a) + 1 : act[r][i] = a[i - 1]
        /\ \A i \in 2 .. Len(a) + 1 : act'[r][i] = a[i - 1]
    <3>1. Len(act[r]) = Len(a) + 1 /\ Len(act'[r]) = Len(a) + 1
      BY <1>2, <2>2
    <3>2. ASSUME NEW i \in 2 .. Len(a) + 1 PROVE act[r][i] = a[i - 1] /\ act'[r][i] = act[r][i]
      <4>1. i \in 2 .. Len(act[r])
        BY <3>1
      <4>2. i - 1 \in 1 .. Len(act[r]) - 1 /\ (i - 1) + 1 = i
        BY <4>1, <1>2
      <4>3. a[i - 1] = act[r][(i - 1) + 1]
        BY <4>2, <2>2
      <4> QED
        BY <4>1, <4>2, <4>3, <1>2
    <3> QED
      BY <3>1, <3>2
  <2>4. Stretch(a) \in Seq(Seq(Call)) /\ Stretch(act[r]) = Append(Stretch(a), <<>>)
    <3>1. Stretch(a) \in Seq(Seq(Call)) /\ Stretch(act[r]) = Append(Stretch(a), act[r][1].buf)
      BY <1>2, <2>2, <2>3, Pushed
    <3> QED
      BY <3>1, <1>2
  <2>5. Stretch(act'[r]) = Append(Stretch(a), queue[r][1])
    <3>1. Stretch(act'[r]) = Append(Stretch(a), act'[r][1].buf)
      BY <1>2, <2>2, <2>3, Pushed
    <3> QED
      BY <3>1, <1>2
  <2>6. IsWay(U) /\ U[1] = Stretch(a) /\ \A k \in 1 .. 5 : k # 1 => U[k] = W[k]
    <3>1. IsWay(W) /\ Stretch(a) \in Seq(Seq(Call)) /\ 1 \in 1 .. 5
      BY <2>1, <2>4
    <3>2. U = [W EXCEPT ![1] = Stretch(a)]
      OBVIOUS
    <3> HIDE DEF U
    <3> QED
      BY <3>1, <3>2, Zenon DEF IsWay
  <2> HIDE DEF U
  <2>7. Holds(U, s, Pend(s, d), big, Done(s, d))
    <3>1. W[1] = Append(U[1], <<>>)
      BY <1>5, <2>1, <2>4, <2>6 DEF Shape
    <3>2. \A t \in 1 .. 5 : U[t] = W[t] \/ U[t] = Append(W[t], <<>>) \/ W[t] = Append(U[t], <<>>)
      BY <3>1, <2>6
    <3> QED
      BY <3>2, <2>1, <2>6, Padded
  <2>8. Passed(U, V, 2, 1)
    <3>1. W[2] = queue[d] /\ W[3] = V[3] /\ W[4] = V[4] /\ W[5] = V[5]
      BY <2>1, <1>1 DEF Shape
    <3>2. V[1] = Stretch(act'[d]) /\ V[2] = queue'[d]
      BY <2>1 DEF Shape
    <3>3. U[2] = queue[r] /\ V[2] = Tail(queue[r]) /\ V[1] = Append(U[1], U[2][1])
      BY <1>2, <1>5, <2>5, <2>6, <3>1, <3>2
    <3>4. \A k \in 1 .. 5 : k # 2 /\ k # 1 => V[k] = U[k]
      BY <2>6, <3>1, Five
    <3>5. \A k \in 1 .. 5 : 1 < k /\ k < 2 => \A i \in 1 .. Len(U[k]) : U[k][i] = <<>>
      OBVIOUS
    <3>6. Shifted(U[2], V[2])
      BY <1>2, <3>3, TailShifted
    <3>7. IsWay(U) /\ IsWay(V) /\ 2 \in 2 .. 5 /\ 1 \in 1 .. 2 - 1 /\ U[2] # <<>>
      BY <1>2, <2>1, <2>6, <3>3
    <3> QED
      BY <3>3, <3>4, <3>5, <3>6, <3>7, PassedBy
  <2>9. Holds(V, s, Pend(s, d), big, Done(s, d))
    BY <2>1, <2>6, <2>7, <2>8, PassOn
  <2> QED
    BY <1>3, <2>1, <2>9
<1> QED
  BY <1>4, <1>5
LEMMA StretchFacts ==
  ASSUME NEW a \in Seq(Frame), a # <<>>, NEW n, n = Len(a)
  PROVE  /\ n \in Nat \ {0} /\ Len(Stretch(a)) = n /\ Stretch(a)[n] = a[1].buf
         /\ \A k \in 1 .. n - 1 : n + 1 - k \in 2 .. n /\ Stretch(a)[k] = a[n + 1 - k].buf
<1>1. n \in Nat \ {0} /\ DOMAIN a = 1 .. n
  BY PopLemma
<1>2. ASSUME NEW k \in 1 .. n PROVE Stretch(a)[k] = a[n + 1 - k].buf
  BY <1>1 DEF Stretch
<1>3. Len(Stretch(a)) = n
  BY <1>1 DEF Stretch
<1>4. n + 1 - n = 1 /\ n \in 1 .. n
  BY <1>1
<1>5. ASSUME NEW k \in 1 .. n - 1 PROVE n + 1 - k \in 2 .. n /\ k \in 1 .. n
  BY <1>1
<1>6. Stretch(a)[n] = a[n + 1 - n].buf
  BY <1>2, <1>4
<1> QED
  BY <1>1, <1>2, <1>3, <1>4, <1>5, <1>6

LEMMA ReturnWays ==
  ASSUME TInv, IInv, CommTypeOK', NEW r \in Rank, HandlerReturns(r),
         NEW s \in Rank, NEW d \in Rank, s # d
  PROVE  WayOK(s, d)'
<1> DEFINE m == Head(stack[r])
<1>1. /\ CommTypeOK /\ UNCHANGED <<sendBuf, body, chan, queue, big, issued>>
      /\ executed' = executed \cup {m}
  BY DEF TInv, HandlerReturns, End, wireVars
<1>2. /\ act[r] # <<>> /\ act[r][1].buf # <<>> /\ stack[r] # <<>>
      /\ Head(stack[r]) = Head(act[r][1].buf) /\ Head(stack[r]) = stack[r][1]
      /\ act[r][1].buf \in Seq(Call) /\ Head(act[r][1].buf) = act[r][1].buf[1]
  BY RunningFrame DEF HandlerReturns
<1>3. m.dst = r
  BY <1>2, FirstOfBuffer
<1>4. /\ act'[r] \in Seq(Frame) /\ act[r] \in Seq(Frame)
      /\ \A x \in Rank : x # r => act'[x] = act[x]
      /\ Len(act[r]) \in Nat \ {0} /\ Len(act'[r]) = Len(act[r])
      /\ act'[r][1].buf = Tail(act[r][1].buf)
      /\ \A i \in 2 .. Len(act[r]) : act'[r][i] = act[r][i]
  <2>1. act' = [act EXCEPT ![r][1].buf = Tail(@)]
    BY DEF HandlerReturns
  <2>2. /\ act'[r] \in Seq(Frame) /\ act[r] \in Seq(Frame)
        /\ \A x \in Rank : x # r => act'[x] = act[x]
        /\ Len(act[r]) \in Nat \ {0} /\ Len(act'[r]) = Len(act[r])
        /\ act[r][1] \in Frame
        /\ act'[r][1].buf = Tail(act[r][1].buf) /\ act'[r][1].received = act[r][1].received
        /\ \A i \in 2 .. Len(act[r]) : act'[r][i] = act[r][i]
    BY <1>1, <1>2, <2>1, ReturnEffect
  <2> QED
    BY <2>2
<1> HIDE DEF m
<1>5. CASE d # r
  <2>1. act'[d] = act[d]
    BY <1>4, <1>5
  <2>2. Pend(s, d)' = Pend(s, d) /\ Done(s, d)' = Done(s, d)
    BY <1>1, <1>3, <1>5 DEF Pend, Done
  <2> QED
    BY <1>1, <2>1, <2>2, StaysOK
<1>6. CASE d = r
  <2> DEFINE W == Way(s, d)
             V == Way(s, d)'
             n == Len(act[r])
  <2>1. /\ Shape(W, act[d], queue[d], chan[s][d], body[s], sendBuf[s][d], d)
        /\ Shape(V, act'[d], queue'[d], chan'[s][d], body'[s], sendBuf'[s][d], d)
        /\ Holds(W, s, Pend(s, d), big, Done(s, d))
        /\ IsWay(W) /\ IsWay(V)
        /\ Holds(V, s, Pend(s, d)', big', Done(s, d)') => WayOK(s, d)'
    BY OnWay
  <2> HIDE DEF W, V
  <2>2. act'[r] # <<>> /\ n = Len(act[r]) /\ n = Len(act'[r]) /\ n \in Nat \ {0}
    BY <1>4, EmptySeq
  <2> HIDE DEF n
  <2>3. /\ Len(Stretch(act[r])) = n /\ Stretch(act[r])[n] = act[r][1].buf
        /\ \A k \in 1 .. n - 1 : n + 1 - k \in 2 .. n /\ Stretch(act[r])[k] = act[r][n + 1 - k].buf
    <3>1. act[r] \in Seq(Frame) /\ act[r] # <<>> /\ n = Len(act[r])
      BY <1>2, <1>4, <2>2
    <3> QED
      BY <3>1, StretchFacts
  <2>4. /\ Len(Stretch(act'[r])) = n /\ Stretch(act'[r])[n] = act'[r][1].buf
        /\ \A k \in 1 .. n - 1 : Stretch(act'[r])[k] = act'[r][n + 1 - k].buf
    BY <1>4, <2>2, StretchFacts, SMTT(30)
  <2>5. \A k \in 1 .. n - 1 : Stretch(act'[r])[k] = Stretch(act[r])[k]
    <3>1. ASSUME NEW k \in 1 .. n - 1 PROVE act'[r][n + 1 - k] = act[r][n + 1 - k]
      BY <1>4, <2>2, <2>3
    <3> QED
      BY <2>3, <2>4, <3>1
  <2>6. /\ W[1] = Stretch(act[r]) /\ V[1] = Stretch(act'[r])
        /\ V[2] = W[2] /\ V[3] = W[3] /\ V[4] = W[4] /\ V[5] = W[5]
    BY <1>1, <1>6, <2>1 DEF Shape
  <2>7. Shortened(W, V, n)
    <3>1. n = Len(W[1]) /\ n >= 1 /\ Len(V[1]) = n
      BY <2>2, <2>3, <2>4, <2>6
    <3>2. W[1][n] # <<>> /\ V[1][n] = Tail(W[1][n])
      BY <1>2, <1>4, <2>3, <2>4, <2>6
    <3>3. \A i \in 1 .. n - 1 : V[1][i] = W[1][i]
      BY <2>5, <2>6
    <3>4. \A k \in 2 .. 5 : V[k] = W[k]
      BY <2>6
    <3> QED
      BY <3>1, <3>2, <3>3, <3>4 DEF Shortened
  <2>8. m = W[1][n][1]
    BY <1>2, <2>3, <2>6 DEF m
  <2>9. Holds(V, s, Pend(s, d) \ {m}, big, IF m.src = s THEN Done(s, d) \cup {m} ELSE Done(s, d))
    BY <2>1, <2>2, <2>7, <2>8, Taken
  <2>10. Pend(s, d)' = Pend(s, d) \ {m}
    BY <1>1 DEF Pend
  <2>11. Done(s, d)' = IF m.src = s THEN Done(s, d) \cup {m} ELSE Done(s, d)
    BY <1>1, <1>3, <1>6 DEF Done
  <2> QED
    BY <1>1, <2>1, <2>9, <2>10, <2>11
<1> QED
  BY <1>5, <1>6

(* Steps that neither call, nor move calls, nor end a handler.             *)
LEMMA QuietWays ==
  ASSUME TInv, CommTypeOK', NEW r \in Rank, NEW s \in Rank, NEW d \in Rank, s # d,
         \/ StartHandler(r) \/ Kill(r)
         \/ UNCHANGED Settled /\ UNCHANGED act
         \/ UNCHANGED commVars
  PROVE  WayOK(s, d)'
<1>1. CommTypeOK
  BY DEF TInv
<1>2. UNCHANGED <<sendBuf, body, queue, big, act, issued, executed>>
  BY DEF StartHandler, Begin, Kill, SendKill, vars, Settled, wireVars, commVars, collVars
<1>3. chan'[s][d] = chan[s][d]
  <2>1. CASE Kill(r)
    <3>1. chan' = Sent(r, r, Msg("kill", <<>>))
      BY <2>1 DEF Kill, SendKill
    <3>2. Msg("kill", <<>>) \in Message
      <4>1. <<>> \in Seq(Call)
        OBVIOUS
      <4> QED
        BY <4>1 DEF Msg, Message
    <3>3. chan'[s][d] = IF s = r /\ d = r THEN Append(chan[r][r], Msg("kill", <<>>)) ELSE chan[s][d]
      BY <1>1, <3>1, <3>2, SentEffect
    <3> QED
      BY <3>3
  <2>2. CASE ~Kill(r)
    BY <2>2 DEF StartHandler, Settled, wireVars, commVars
  <2> QED
    BY <2>1, <2>2
<1>4. Pend(s, d)' = Pend(s, d) /\ Done(s, d)' = Done(s, d)
  BY <1>2, SamePend
<1> QED
  BY <1>2, <1>3, <1>4, StaysOK
(* A send buffer e becomes a message; no large message waits before it.    *)
LEMMA FlushedWay ==
  ASSUME NEW W, IsWay(W), NEW U, IsWay(U), NEW e, NEW s, NEW S, NEW B, NEW X,
         W[4] = << <<>> >>, W[5] = <<e>>, U[3] = Append(W[3], e), U[5] = << <<>> >>,
         U[1] = W[1], U[2] = W[2], U[4] = W[4], Holds(W, s, S, B, X)
  PROVE  Holds(U, s, S, B, X)
<1>1. Passed(W, U, 5, 3)
  <2>1. W[5] # <<>> /\ Len(W[5]) = 1 /\ W[5][1] = e
    OBVIOUS
  <2>2. U[3] = Append(W[3], W[5][1])
    BY <2>1
  <2>3. \A k \in 1 .. 5 : k # 5 /\ k # 3 => U[k] = W[k]
    BY Five
  <2>4. \A k \in 1 .. 5 : 3 < k /\ k < 5 => \A i \in 1 .. Len(W[k]) : W[k][i] = <<>>
    <3>1. \A k \in 1 .. 5 : 3 < k /\ k < 5 => k = 4
      OBVIOUS
    <3>2. \A i \in 1 .. Len(W[4]) : W[4][i] = <<>>
      OBVIOUS
    <3> QED
      BY <3>1, <3>2
  <2>5. 5 \in 2 .. 5 /\ 3 \in 1 .. 5 - 1
    OBVIOUS
  <2> QED
    BY <2>1, <2>2, <2>3, <2>4, <2>5, PassedBy
<1>2. 5 \in 2 .. 5 /\ 3 \in 1 .. 5 - 1
  OBVIOUS
<1> QED
  BY <1>1, <1>2, PassOn

LEMMA FlushWays ==
  ASSUME TInv, CommTypeOK', NEW r \in Rank, NEW x \in Rank \ {r}, Flushes(r, x),
         NEW s \in Rank, NEW d \in Rank, s # d
  PROVE  WayOK(s, d)'
<1> DEFINE b == sendBuf[r][x]
<1>1. /\ CommTypeOK /\ body[r] = <<>> /\ chan' = Sent(r, x, Msg("data", b))
      /\ UNCHANGED <<body, queue, big, act, issued, executed>>
      /\ sendBuf' = [sendBuf EXCEPT ![r][x] = <<>>]
  BY DEF TInv, Flushes, AsyncFlush, vars
<1>2. b \in Seq(Call) /\ Msg("data", b) \in Message /\ Msg("data", b).calls = b
  BY <1>1, TypeFacts DEF Msg, Message
<1>3. \A y, z \in Rank :
         chan'[y][z] = IF y = r /\ z = x THEN Append(chan[r][x], Msg("data", b)) ELSE chan[y][z]
  BY <1>1, <1>2, SentEffect
<1>4. \A y, z \in Rank : sendBuf'[y][z] = IF y = r /\ z = x THEN <<>> ELSE sendBuf[y][z]
  <2>1. <<>> \in Seq(Call)
    OBVIOUS
  <2>2. sendBuf \in [Rank -> [Rank -> Seq(Call)]]
    BY <1>1 DEF CommTypeOK
  <2>3. sendBuf' = [sendBuf EXCEPT ![r][x] = <<>>]
    BY <1>1
  <2>4. ASSUME NEW y \in Rank, NEW z \in Rank
        PROVE  sendBuf'[y][z] = IF y = r /\ z = x THEN <<>> ELSE sendBuf[y][z]
    BY <2>2, <2>3
  <2> QED
    BY <2>4
<1>5. Pend(s, d)' = Pend(s, d) /\ Done(s, d)' = Done(s, d)
  BY <1>1, SamePend
<1> HIDE DEF b
<1>6. CASE ~(s = r /\ d = x)
  <2>1. chan'[s][d] = chan[s][d] /\ sendBuf'[s][d] = sendBuf[s][d]
    BY <1>3, <1>4, <1>6
  <2> QED
    BY <1>1, <1>5, <2>1, StaysOK
<1>7. CASE s = r /\ d = x
  <2> DEFINE W == Way(s, d)
             V == Way(s, d)'
  <2>1. /\ Shape(W, act[d], queue[d], chan[s][d], body[s], sendBuf[s][d], d)
        /\ Shape(V, act'[d], queue'[d], chan'[s][d], body'[s], sendBuf'[s][d], d)
        /\ Holds(W, s, Pend(s, d), big, Done(s, d))
        /\ IsWay(W) /\ IsWay(V)
        /\ Holds(V, s, Pend(s, d)', big', Done(s, d)') => WayOK(s, d)'
    BY OnWay
  <2> HIDE DEF W, V
  <2>2. chan'[s][d] = Append(chan[s][d], Msg("data", b)) /\ sendBuf'[s][d] = <<>> /\ sendBuf[s][d] = b
    BY <1>3, <1>4, <1>7 DEF b
  <2>3. Boxes(chan'[s][d]) = Append(Boxes(chan[s][d]), b)
    <3>1. chan[s][d] \in Seq(Message)
      BY <1>1, TypeFacts
    <3> QED
      BY <1>2, <2>2, <3>1, BoxesGrow
  <2>4. /\ W[4] = << <<>> >> /\ W[5] = <<b>> /\ V[3] = Append(W[3], b) /\ V[5] = << <<>> >>
        /\ V[1] = W[1] /\ V[2] = W[2] /\ V[4] = W[4]
    BY <1>1, <1>7, <2>1, <2>2, <2>3 DEF Shape, Hands
  <2>5. Holds(V, s, Pend(s, d), big, Done(s, d))
    BY <2>1, <2>4, FlushedWay
  <2> QED
    BY <1>1, <1>5, <2>1, <2>5
<1> QED
  BY <1>6, <1>7

LEMMA NewPend ==
  ASSUME TInv, IInv, NEW r \in Rank, NEW x \in Rank, NEW c, c.src = r, c.dst = x, c \notin issued,
         issued' = issued \cup {c}, executed' = executed,
         \A e \in issued : e.id \in Int /\ e.id < c.id
  PROVE  /\ Pend(r, x)' = Pend(r, x) \cup {c} /\ Done(r, x)' = Done(r, x)
         /\ \A e \in Pend(r, x) \cup Done(r, x) : e.id \in Int /\ e.id < c.id
         /\ \A s, d : ~(s = r /\ d = x) => Pend(s, d)' = Pend(s, d) /\ Done(s, d)' = Done(s, d)
<1>1. executed \subseteq issued
  BY DEF IInv, StackInv
<1> QED
  BY <1>1 DEF Pend, Done

LEMMA CallSmallWays ==
  ASSUME TInv, IInv, IInv', CommTypeOK', NEW r \in Rank, NEW x \in Rank \ {r}, CallSmall(r, x),
         NEW s \in Rank, NEW d \in Rank, s # d
  PROVE  WayOK(s, d)'
<1> DEFINE c == NewCall(r, x)
           b == sendBuf[r][x]
<1>1. /\ c \in Call /\ c.src = r /\ c.dst = x /\ c \notin issued
      /\ issued' = issued \cup {c} /\ executed' = executed
      /\ body[r] = <<>>
      /\ \A e \in issued : e.id \in Int /\ e.id < c.id
  <2>1. UserCode(r) /\ Async(r, x)
    BY DEF CallSmall
  <2> QED
    BY <2>1, NewCallFacts
<1>2. CommTypeOK /\ UNCHANGED <<body, queue, big, act>>
  BY DEF TInv, CallSmall, PutSmall
<1>3. \/ sendBuf' = [sendBuf EXCEPT ![r][x] = Append(b, c)] /\ UNCHANGED chan
      \/ sendBuf' = [sendBuf EXCEPT ![r][x] = <<c>>] /\ chan' = Sent(r, x, Msg("data", b))
  <2>1. PutSmall(c)
    BY DEF CallSmall
  <2> HIDE DEF c
  <2> QED
    BY <1>1, <2>1 DEF PutSmall
<1> HIDE DEF c
<1>4. b \in Seq(Call) /\ Msg("data", b) \in Message /\ Msg("data", b).calls = b
  BY <1>2, TypeFacts DEF Msg, Message
<1>5. /\ Pend(r, x)' = Pend(r, x) \cup {c} /\ Done(r, x)' = Done(r, x)
      /\ \A e \in Pend(r, x) \cup Done(r, x) : e.id \in Int /\ e.id < c.id
      /\ \A y, z : ~(y = r /\ z = x) => Pend(y, z)' = Pend(y, z) /\ Done(y, z)' = Done(y, z)
  BY <1>1, NewPend
<1> HIDE DEF b
<1>6. \/ /\ \A y, z \in Rank : sendBuf'[y][z] = IF y = r /\ z = x THEN Append(b, c) ELSE sendBuf[y][z]
         /\ chan' = chan
      \/ /\ \A y, z \in Rank : sendBuf'[y][z] = IF y = r /\ z = x THEN <<c>> ELSE sendBuf[y][z]
         /\ \A y, z \in Rank :
              chan'[y][z] = IF y = r /\ z = x THEN Append(chan[r][x], Msg("data", b)) ELSE chan[y][z]
  <2>1. Append(b, c) \in Seq(Call) /\ <<c>> \in Seq(Call)
    BY <1>1, <1>4
  <2>4. sendBuf \in [Rank -> [Rank -> Seq(Call)]]
    BY <1>2 DEF CommTypeOK
  <2>2. CASE sendBuf' = [sendBuf EXCEPT ![r][x] = Append(b, c)] /\ UNCHANGED chan
    <3>1. \A y, z \in Rank : sendBuf'[y][z] = IF y = r /\ z = x THEN Append(b, c) ELSE sendBuf[y][z]
      <4>1. sendBuf' = [sendBuf EXCEPT ![r][x] = Append(b, c)]
        BY <2>2
      <4>2. ASSUME NEW y \in Rank, NEW z \in Rank
            PROVE  sendBuf'[y][z] = IF y = r /\ z = x THEN Append(b, c) ELSE sendBuf[y][z]
        BY <2>4, <4>1
      <4> QED
        BY <4>2
    <3> QED
      BY <2>2, <3>1
  <2>3. CASE sendBuf' = [sendBuf EXCEPT ![r][x] = <<c>>] /\ chan' = Sent(r, x, Msg("data", b))
    <3>1. \A y, z \in Rank : sendBuf'[y][z] = IF y = r /\ z = x THEN <<c>> ELSE sendBuf[y][z]
      <4>1. sendBuf' = [sendBuf EXCEPT ![r][x] = <<c>>]
        BY <2>3
      <4>2. ASSUME NEW y \in Rank, NEW z \in Rank
            PROVE  sendBuf'[y][z] = IF y = r /\ z = x THEN <<c>> ELSE sendBuf[y][z]
        BY <2>4, <4>1
      <4> QED
        BY <4>2
    <3>2. \A y, z \in Rank :
              chan'[y][z] = IF y = r /\ z = x THEN Append(chan[r][x], Msg("data", b)) ELSE chan[y][z]
      BY <1>2, <1>4, <2>3, SentEffect
    <3> QED
      BY <3>1, <3>2
  <2> QED
    BY <1>3, <2>2, <2>3
<1>7. CASE ~(s = r /\ d = x)
  <2>1. chan'[s][d] = chan[s][d] /\ sendBuf'[s][d] = sendBuf[s][d]
    BY <1>6, <1>7
  <2>2. Pend(s, d)' = Pend(s, d) /\ Done(s, d)' = Done(s, d)
    BY <1>5, <1>7
  <2> QED
    BY <1>2, <2>1, <2>2, StaysOK
<1>8. CASE s = r /\ d = x
  <2> DEFINE W == Way(s, d)
             V == Way(s, d)'
  <2>1. /\ Shape(W, act[d], queue[d], chan[s][d], body[s], sendBuf[s][d], d)
        /\ Shape(V, act'[d], queue'[d], chan'[s][d], body'[s], sendBuf'[s][d], d)
        /\ Holds(W, s, Pend(s, d), big, Done(s, d))
        /\ IsWay(W) /\ IsWay(V)
        /\ Holds(V, s, Pend(s, d)', big', Done(s, d)') => WayOK(s, d)'
    BY OnWay
  <2> HIDE DEF W, V
  <2>2. /\ W[4] = << <<>> >> /\ W[5] = <<b>> /\ V[4] = W[4] /\ V[1] = W[1] /\ V[2] = W[2]
        /\ W[3] = Boxes(chan[s][d]) /\ V[3] = Boxes(chan'[s][d]) /\ V[5] = <<sendBuf'[s][d]>>
    BY <1>1, <1>2, <1>8, <2>1 DEF Shape, Hands, b
  <2>3. \/ V[5] = <<Append(b, c)>> /\ V[3] = W[3]
        \/ V[5] = << <<c>> >> /\ V[3] = Append(W[3], b)
    <3>1. \/ sendBuf'[s][d] = Append(b, c) /\ chan' = chan
          \/ sendBuf'[s][d] = <<c>> /\ chan'[s][d] = Append(chan[s][d], Msg("data", b))
      BY <1>6, <1>8
    <3>2. Boxes(Append(chan[s][d], Msg("data", b))) = Append(Boxes(chan[s][d]), b)
      <4>1. chan[s][d] \in Seq(Message)
        BY <1>2, TypeFacts
      <4> QED
        BY <1>4, <4>1, BoxesGrow
    <3> QED
      BY <2>2, <3>1, <3>2
  <2>4. c.src = s /\ \A e \in Pend(s, d) \cup Done(s, d) : e.id \in Int /\ e.id < c.id
    BY <1>1, <1>5, <1>8
  <2>5. Holds(V, s, Pend(s, d) \cup {c}, big, Done(s, d))
    <3>1. CASE V[5] = <<Append(b, c)>> /\ V[3] = W[3]
      <4>1. Extended(W, V, 5, c)
        <5>1. Len(W[5]) = 1 /\ W[5][1] = b
          BY <2>2
        <5>2. \A k \in 1 .. 5 : k # 5 => V[k] = W[k]
          BY <2>2, <3>1, Five
        <5> QED
          BY <3>1, <5>1, <5>2 DEF Extended
      <4>2. 5 \in 1 .. 5
        OBVIOUS
      <4> QED
        BY <1>1, <2>1, <2>4, <4>1, <4>2, Added
    <3>2. CASE V[5] = << <<c>> >> /\ V[3] = Append(W[3], b)
      <4> DEFINE U == [V EXCEPT ![5] = << <<>> >>]
      <4>1. << <<>> >> \in Seq(Seq(Call))
        BY <2>1, <2>2 DEF IsWay
      <4>2. IsWay(U) /\ U[5] = << <<>> >> /\ \A k \in 1 .. 5 : k # 5 => U[k] = V[k]
        BY <2>1, <4>1 DEF IsWay
      <4> HIDE DEF U
      <4>3. U[1] = W[1] /\ U[2] = W[2] /\ U[4] = W[4] /\ U[3] = Append(W[3], b)
        BY <2>2, <3>2, <4>2
      <4>4. Holds(U, s, Pend(s, d), big, Done(s, d))
        BY <2>1, <2>2, <4>2, <4>3, FlushedWay
      <4>5. Extended(U, V, 5, c)
        <5>1. Len(U[5]) = 1 /\ U[5][1] = <<>> /\ Append(<<>>, c) = <<c>>
          BY <4>2
        <5> QED
          BY <3>2, <4>2, <5>1 DEF Extended
      <4>6. 5 \in 1 .. 5
        OBVIOUS
      <4> QED
        BY <1>1, <2>1, <2>4, <4>2, <4>4, <4>5, <4>6, Added
    <3> QED
      BY <2>3, <3>1, <3>2
  <2>6. Pend(s, d)' = Pend(s, d) \cup {c} /\ Done(s, d)' = Done(s, d)
    BY <1>5, <1>8
  <2> QED
    BY <1>2, <2>1, <2>5, <2>6
<1> QED
  BY <1>7, <1>8
LEMMA CallLargeWays ==
  ASSUME TInv, IInv, IInv', CommTypeOK', NEW r \in Rank, NEW x \in Rank \ {r}, CallLarge(r, x),
         NEW s \in Rank, NEW d \in Rank, s # d
  PROVE  WayOK(s, d)'
<1> DEFINE c == NewCall(r, x)
           m == Msg("announce", <<>>)
<1>1. /\ c \in Call /\ c.src = r /\ c.dst = x /\ c \notin issued
      /\ issued' = issued \cup {c} /\ executed' = executed
      /\ body[r] = <<>>
      /\ \A e \in issued : e.id \in Int /\ e.id < c.id
  <2>1. UserCode(r) /\ Async(r, x)
    BY DEF CallLarge
  <2> QED
    BY <2>1, NewCallFacts
<1>2. CommTypeOK /\ UNCHANGED <<sendBuf, queue, act>> /\ big' = big \cup {c}
  BY DEF TInv, CallLarge, Announce
<1>3. chan' = Sent(r, x, m) /\ body' = [body EXCEPT ![r] = <<c>>]
  BY <1>1 DEF CallLarge, Announce
<1> HIDE DEF c
<1>4. m \in Message /\ m.calls = <<>>
  <2>1. <<>> \in Seq(Call)
    OBVIOUS
  <2> QED
    BY <2>1 DEF Msg, Message
<1> HIDE DEF m
<1>5. /\ Pend(r, x)' = Pend(r, x) \cup {c} /\ Done(r, x)' = Done(r, x)
      /\ \A e \in Pend(r, x) \cup Done(r, x) : e.id \in Int /\ e.id < c.id
      /\ \A y, z : ~(y = r /\ z = x) => Pend(y, z)' = Pend(y, z) /\ Done(y, z)' = Done(y, z)
  BY <1>1, NewPend
<1>6. \A y, z \in Rank : chan'[y][z] = IF y = r /\ z = x THEN Append(chan[r][x], m) ELSE chan[y][z]
  BY <1>2, <1>3, <1>4, SentEffect
<1>7. body'[r] = <<c>> /\ \A y \in Rank : y # r => body'[y] = body[y]
  BY <1>2, <1>3 DEF CommTypeOK
<1>8. CASE ~(s = r /\ d = x)
  <2>1. chan'[s][d] = chan[s][d]
    BY <1>6, <1>8
  <2>2. Pend(s, d)' = Pend(s, d) /\ Done(s, d)' = Done(s, d)
    BY <1>5, <1>8
  <2>3. Hands(body'[s], d) = Hands(body[s], d)
    <3>1. CASE s # r
      BY <1>7, <3>1
    <3>2. CASE s = r
      <4>1. Head(<<c>>).dst # d
        BY <1>1, <1>8, <3>2
      <4> QED
        BY <1>1, <1>7, <3>2, <4>1 DEF Hands
    <3> QED
      BY <3>1, <3>2
  <2>4. big \subseteq big'
    BY <1>2
  <2> QED
    BY <1>2, <2>1, <2>2, <2>3, <2>4, StaysOK
<1>9. CASE s = r /\ d = x
  <2> DEFINE W == Way(s, d)
             V == Way(s, d)'
  <2>1. /\ Shape(W, act[d], queue[d], chan[s][d], body[s], sendBuf[s][d], d)
        /\ Shape(V, act'[d], queue'[d], chan'[s][d], body'[s], sendBuf'[s][d], d)
        /\ Holds(W, s, Pend(s, d), big, Done(s, d))
        /\ IsWay(W) /\ IsWay(V)
        /\ Holds(V, s, Pend(s, d)', big', Done(s, d)') => WayOK(s, d)'
    BY OnWay
  <2> HIDE DEF W, V
  <2>2. Hands(body[s], d) = << <<>> >> /\ Hands(body'[s], d) = << <<c>> >>
    <3>1. Head(<<c>>).dst = d /\ <<c>> # <<>>
      BY <1>1, <1>9
    <3> QED
      BY <1>1, <1>7, <1>9, <3>1 DEF Hands
  <2>3. Boxes(chan'[s][d]) = Append(Boxes(chan[s][d]), <<>>)
    <3>1. chan[s][d] \in Seq(Message) /\ chan'[s][d] = Append(chan[s][d], m)
      BY <1>2, <1>6, <1>9, TypeFacts
    <3> QED
      BY <1>4, <3>1, BoxesGrow
  <2>4. /\ W[4] = << <<>> >> /\ V[4] = << <<c>> >> /\ V[3] = Append(W[3], <<>>)
        /\ V[1] = W[1] /\ V[2] = W[2] /\ V[5] = W[5]
    BY <1>2, <2>1, <2>2, <2>3 DEF Shape
  <2> DEFINE U == [V EXCEPT ![4] = << <<>> >>]
  <2>5. << <<>> >> \in Seq(Seq(Call))
    BY <2>1, <2>4 DEF IsWay
  <2>6. IsWay(U) /\ U[4] = << <<>> >> /\ \A k \in 1 .. 5 : k # 4 => U[k] = V[k]
    BY <2>1, <2>5 DEF IsWay
  <2> HIDE DEF U
  <2>7. Holds(U, s, Pend(s, d), big, Done(s, d))
    <3>1. \A t \in 1 .. 5 : U[t] = W[t] \/ U[t] = Append(W[t], <<>>) \/ W[t] = Append(U[t], <<>>)
      BY <2>4, <2>6, Five
    <3> QED
      BY <2>1, <2>6, <3>1, Padded
  <2>8. Holds(U, s, Pend(s, d), big', Done(s, d))
    BY <1>2, <2>7, MoreBig
  <2>9. Extended(U, V, 4, c)
    <3>1. Len(U[4]) = 1 /\ U[4][1] = <<>> /\ Append(<<>>, c) = <<c>>
      BY <2>6
    <3> QED
      BY <2>4, <2>6, <3>1 DEF Extended
  <2>10. /\ c.src = s /\ \A e \in Pend(s, d) \cup Done(s, d) : e.id \in Int /\ e.id < c.id
         /\ c \in big' /\ 4 \in 1 .. 5
    BY <1>1, <1>2, <1>5, <1>9
  <2>11. Holds(V, s, Pend(s, d) \cup {c}, big', Done(s, d))
    BY <1>1, <2>1, <2>6, <2>8, <2>9, <2>10, Added
  <2>12. Pend(s, d)' = Pend(s, d) \cup {c} /\ Done(s, d)' = Done(s, d)
    BY <1>5, <1>9
  <2> QED
    BY <2>1, <2>11, <2>12
<1> QED
  BY <1>8, <1>9

LEMMA FinishWays ==
  ASSUME TInv, CommTypeOK', NEW r \in Rank, FinishLarge(r), NEW s \in Rank, NEW d \in Rank, s # d
  PROVE  WayOK(s, d)'
<1> DEFINE b == body[r]
           x == Head(b).dst
           m == Msg("body", b)
<1>1. /\ CommTypeOK /\ b # <<>> /\ chan' = Sent(r, x, m) /\ body' = [body EXCEPT ![r] = <<>>]
      /\ UNCHANGED <<sendBuf, queue, big, act, issued, executed>>
  BY DEF TInv, FinishLarge, SendBody, vars
<1>2. b \in Seq(Call) /\ m \in Message /\ m.calls = b
  BY <1>1, TypeFacts DEF Msg, Message
<1>3. x \in Rank
  <2>1. Head(b) \in Call
    BY <1>1, <1>2, HeadTailProperties
  <2> QED
    BY <2>1 DEF Call
<1>4. body'[r] = <<>> /\ \A y \in Rank : y # r => body'[y] = body[y]
  BY <1>1 DEF CommTypeOK
<1>5. Pend(s, d)' = Pend(s, d) /\ Done(s, d)' = Done(s, d)
  BY <1>1, SamePend
<1> HIDE DEF m, x
<1>6. \A y, z \in Rank : chan'[y][z] = IF y = r /\ z = x THEN Append(chan[r][x], m) ELSE chan[y][z]
  BY <1>1, <1>2, <1>3, SentEffect
<1>7. CASE ~(s = r /\ d = x)
  <2>1. chan'[s][d] = chan[s][d]
    BY <1>6, <1>7
  <2>2. Hands(body'[s], d) = Hands(body[s], d)
    BY <1>4, <1>7 DEF Hands, x
  <2> QED
    BY <1>1, <1>5, <2>1, <2>2, StaysOK
<1>8. CASE s = r /\ d = x
  <2> DEFINE W == Way(s, d)
             V == Way(s, d)'
  <2>1. /\ Shape(W, act[d], queue[d], chan[s][d], body[s], sendBuf[s][d], d)
        /\ Shape(V, act'[d], queue'[d], chan'[s][d], body'[s], sendBuf'[s][d], d)
        /\ Holds(W, s, Pend(s, d), big, Done(s, d))
        /\ IsWay(W) /\ IsWay(V)
        /\ Holds(V, s, Pend(s, d)', big', Done(s, d)') => WayOK(s, d)'
    BY OnWay
  <2> HIDE DEF W, V
  <2>2. Hands(body[s], d) = <<b>> /\ Hands(body'[s], d) = << <<>> >>
    BY <1>1, <1>4, <1>8 DEF Hands, x
  <2>3. Boxes(chan'[s][d]) = Append(Boxes(chan[s][d]), b)
    <3>1. chan[s][d] \in Seq(Message) /\ chan'[s][d] = Append(chan[s][d], m)
      BY <1>1, <1>6, <1>8, TypeFacts
    <3> QED
      BY <1>2, <3>1, BoxesGrow
  <2>4. /\ W[4] = <<b>> /\ V[4] = << <<>> >> /\ V[3] = Append(W[3], b)
        /\ V[1] = W[1] /\ V[2] = W[2] /\ V[5] = W[5]
    BY <1>1, <2>1, <2>2, <2>3 DEF Shape
  <2> HIDE DEF b
  <2>5. Passed(W, V, 4, 3)
    <3>1. W[4] # <<>> /\ Len(W[4]) = 1 /\ V[3] = Append(W[3], W[4][1])
      BY <2>4
    <3>2. \A k \in 1 .. 5 : k # 4 /\ k # 3 => V[k] = W[k]
      BY <2>4, Five
    <3>3. \A k \in 1 .. 5 : 3 < k /\ k < 4 => \A i \in 1 .. Len(W[k]) : W[k][i] = <<>>
      OBVIOUS
    <3>4. 4 \in 2 .. 5 /\ 3 \in 1 .. 4 - 1
      OBVIOUS
    <3> QED
      BY <2>1, <2>4, <3>1, <3>2, <3>3, <3>4, PassedBy
  <2>6. Holds(V, s, Pend(s, d), big, Done(s, d))
    <3>1. 4 \in 2 .. 5 /\ 3 \in 1 .. 4 - 1
      OBVIOUS
    <3> QED
      BY <2>1, <2>5, <3>1, PassOn
  <2> QED
    BY <1>1, <1>5, <2>1, <2>6
<1> QED
  BY <1>7, <1>8
(* The oldest message on a way goes to the queue; an announcement leaves it. *)
LEMMA DeliveredWay ==
  ASSUME NEW W, IsWay(W), NEW V, IsWay(V), NEW C \in Seq(Message), C # <<>>,
         NEW s, NEW S, NEW B, NEW X, W[3] = Boxes(C), V[3] = Boxes(Tail(C)),
         \/ V[2] = Append(W[2], C[1].calls)
         \/ V[2] = W[2] /\ C[1].calls = <<>>,
         V[1] = W[1], V[4] = W[4], V[5] = W[5], Holds(W, s, S, B, X)
  PROVE  Holds(V, s, S, B, X)
<1> DEFINE b == C[1].calls
           U == [V EXCEPT ![2] = Append(W[2], b)]
<1>1. W[3] # <<>> /\ W[3][1] = b /\ Shifted(W[3], V[3]) /\ b \in Seq(Call)
  <2>1. /\ Boxes(C) \in Seq(Seq(Call)) /\ Boxes(C) # <<>> /\ Boxes(C)[1] = b
        /\ Len(Boxes(C)) \in Nat \ {0} /\ Len(Boxes(Tail(C))) = Len(Boxes(C)) - 1
        /\ \A i \in 1 .. Len(Boxes(C)) - 1 : Boxes(Tail(C))[i] = Boxes(C)[i + 1]
    BY BoxesShrink
  <2>2. Boxes(C)[1] \in Seq(Call)
    BY <2>1, ElementOfSeq
  <2> QED
    BY <2>1, <2>2 DEF Shifted
<1>2. Append(W[2], b) \in Seq(Seq(Call))
  <2>1. W[2] \in Seq(Seq(Call))
    BY DEF IsWay
  <2> QED
    BY <1>1, <2>1, AppendedTo
<1> HIDE DEF b
<1>3. IsWay(U) /\ U[2] = Append(W[2], b) /\ \A k \in 1 .. 5 : k # 2 => U[k] = V[k]
  <2>1. U = [V EXCEPT ![2] = Append(W[2], b)] /\ 2 \in 1 .. 5
    OBVIOUS
  <2> HIDE DEF U
  <2> QED
    BY <1>2, <2>1, Zenon DEF IsWay
<1> HIDE DEF U
<1>4. Holds(U, s, S, B, X)
  <2>1. U[2] = Append(W[2], W[3][1]) /\ Shifted(W[3], U[3])
    BY <1>1, <1>3
  <2>2. \A k \in 1 .. 5 : k # 3 /\ k # 2 => U[k] = W[k]
    BY <1>3, Five
  <2>3. \A k \in 1 .. 5 : 2 < k /\ k < 3 => \A i \in 1 .. Len(W[k]) : W[k][i] = <<>>
    OBVIOUS
  <2>4. 3 \in 2 .. 5 /\ 2 \in 1 .. 3 - 1
    OBVIOUS
  <2>5. Passed(W, U, 3, 2)
    BY <1>1, <1>3, <2>1, <2>2, <2>3, <2>4, PassedBy
  <2> QED
    BY <1>3, <2>4, <2>5, PassOn
<1>5. V[2] = U[2] \/ U[2] = Append(V[2], <<>>)
  BY <1>3 DEF b
<1>6. \A t \in 1 .. 5 : V[t] = U[t] \/ V[t] = Append(U[t], <<>>) \/ U[t] = Append(V[t], <<>>)
  BY <1>3, <1>5
<1> QED
  BY <1>3, <1>4, <1>6, Padded

LEMMA TakesWays ==
  ASSUME TInv, CommTypeOK', NEW y \in Rank, NEW z \in Rank, Takes(y, z),
         NEW s \in Rank, NEW d \in Rank, s # d
  PROVE  WayOK(s, d)'
<1> DEFINE C == chan[y][z]
<1>1. /\ CommTypeOK /\ Received(y, z) /\ C # <<>>
      /\ UNCHANGED <<sendBuf, body, big, act, issued, executed>>
  BY DEF TInv, Takes, Received, vars
<1>2. C \in Seq(Message)
  BY <1>1, TypeFacts
<1> HIDE DEF C
<1>3. \A v, w \in Rank : chan'[v][w] = IF v = y /\ w = z THEN Tail(C) ELSE chan[v][w]
  BY <1>1, ReceivedEffect DEF C
<1>4. Pend(s, d)' = Pend(s, d) /\ Done(s, d)' = Done(s, d)
  BY <1>1, SamePend
<1>5. \/ queue' = queue /\ (y = z \/ C[1].tag = "announce")
      \/ y # z /\ queue' = [queue EXCEPT ![z] = Append(@, C[1].calls)]
  BY <1>1 DEF Received, C
<1>6. /\ \A w \in Rank : w # z => queue'[w] = queue[w]
      /\ queue'[z] = queue[z] \/ queue'[z] = Append(queue[z], C[1].calls)
  BY <1>1, <1>5 DEF CommTypeOK
<1>7. CASE s = y /\ d = z
  <2> DEFINE W == Way(s, d)
             V == Way(s, d)'
  <2>1. /\ Shape(W, act[d], queue[d], chan[s][d], body[s], sendBuf[s][d], d)
        /\ Shape(V, act'[d], queue'[d], chan'[s][d], body'[s], sendBuf'[s][d], d)
        /\ Holds(W, s, Pend(s, d), big, Done(s, d))
        /\ IsWay(W) /\ IsWay(V)
        /\ Holds(V, s, Pend(s, d)', big', Done(s, d)') => WayOK(s, d)'
    BY OnWay
  <2> HIDE DEF W, V
  <2>2. \/ queue'[d] = Append(queue[d], C[1].calls)
        \/ queue'[d] = queue[d] /\ C[1].calls = <<>>
    <3>1. InOrder(C, Coming(s, d), listener[d] = s)
      BY <1>7 DEF TInv, MessageInv, C
    <3>2. 1 \in DOMAIN C
      BY <1>1, <1>2, EmptySeq
    <3>3. C[1].tag = "announce" => C[1].calls = <<>>
      BY <3>1, <3>2 DEF InOrder
    <3>4. \/ queue' = queue /\ C[1].tag = "announce"
          \/ queue' = [queue EXCEPT ![z] = Append(@, C[1].calls)]
      BY <1>5, <1>7
    <3>5. queue' = [queue EXCEPT ![z] = Append(@, C[1].calls)]
            => queue'[z] = Append(queue[z], C[1].calls)
      BY <1>1 DEF CommTypeOK
    <3> QED
      BY <1>7, <3>3, <3>4, <3>5
  <2>3. /\ W[3] = Boxes(C) /\ V[3] = Boxes(Tail(C)) /\ W[2] = queue[d] /\ V[2] = queue'[d]
        /\ V[1] = W[1] /\ V[4] = W[4] /\ V[5] = W[5]
    <3>1. chan[s][d] = C /\ chan'[s][d] = Tail(C)
      BY <1>3, <1>7 DEF C
    <3> QED
      BY <1>1, <2>1, <3>1 DEF Shape
  <2>4. \/ V[2] = Append(W[2], C[1].calls)
        \/ V[2] = W[2] /\ C[1].calls = <<>>
    BY <2>2, <2>3
  <2>5. Holds(V, s, Pend(s, d), big, Done(s, d))
    BY <1>1, <1>2, <2>1, <2>3, <2>4, DeliveredWay
  <2> QED
    BY <1>1, <1>4, <2>1, <2>5
<1>8. CASE ~(s = y /\ d = z)
  <2>1. chan'[s][d] = chan[s][d]
    BY <1>3, <1>8
  <2>2. CASE queue'[d] = queue[d]
    BY <1>1, <1>4, <2>1, <2>2, StaysOK
  <2>3. CASE queue'[d] # queue[d]
    <3> DEFINE W == Way(s, d)
               V == Way(s, d)'
               b == C[1].calls
    <3>1. /\ Shape(W, act[d], queue[d], chan[s][d], body[s], sendBuf[s][d], d)
          /\ Shape(V, act'[d], queue'[d], chan'[s][d], body'[s], sendBuf'[s][d], d)
          /\ Holds(W, s, Pend(s, d), big, Done(s, d))
          /\ IsWay(W) /\ IsWay(V)
          /\ Holds(V, s, Pend(s, d)', big', Done(s, d)') => WayOK(s, d)'
      BY OnWay
    <3> HIDE DEF W, V
    <3>2. d = z /\ queue'[d] = Append(queue[d], b)
      BY <1>6, <2>3
    <3>3. s # y
      BY <1>8, <3>2
    <3>4. b \in Seq(Call) /\ \A j \in DOMAIN b : b[j].src # s
      <4>1. C[1] \in Message /\ 1 \in DOMAIN C
        BY <1>1, <1>2, PopLemma
      <4>2. Between(C[1].calls, y, z)
        BY <4>1 DEF TInv, AddressInv, C
      <4> QED
        BY <3>3, <4>1, <4>2 DEF Between, Message
    <3>5. V[2] = Append(W[2], b) /\ V[1] = W[1] /\ V[3] = W[3] /\ V[4] = W[4] /\ V[5] = W[5]
      BY <1>1, <2>1, <3>1, <3>2 DEF Shape
    <3> HIDE DEF b
    <3>6. \A t \in 1 .. 5 : t # 2 => V[t] = W[t]
      BY <3>5, Five
    <3>7. Holds(V, s, Pend(s, d), big, Done(s, d))
      BY <3>1, <3>4, <3>5, <3>6, Foreign
    <3> QED
      BY <1>1, <1>4, <3>1, <3>7
  <2> QED
    BY <2>2, <2>3
<1> QED
  BY <1>7, <1>8
-----------------------------------------------------------------------------
LEMMA WaysStep == TInv /\ IInv /\ IInv' /\ [CommNext]_commVars => WaysInv'
<1> SUFFICES ASSUME TInv, IInv, IInv', [CommNext]_commVars PROVE WaysInv'
  OBVIOUS
<1>1. CommTypeOK'
  BY CommTypeStep
<1>2. ASSUME NEW s \in Rank, NEW d \in Rank, s # d PROVE WayOK(s, d)'
  <2>1. ASSUME NEW r \in Rank, NEW x \in Rank \ {r}, CallSmall(r, x) PROVE WayOK(s, d)'
    BY <1>1, <1>2, <2>1, CallSmallWays
  <2>2. ASSUME NEW r \in Rank, NEW x \in Rank \ {r}, CallLarge(r, x) PROVE WayOK(s, d)'
    BY <1>1, <1>2, <2>2, CallLargeWays
  <2>3. ASSUME NEW r \in Rank, NEW x \in Rank \ {r}, Flushes(r, x) PROVE WayOK(s, d)'
    BY <1>1, <1>2, <2>3, FlushWays
  <2>4. ASSUME NEW r \in Rank, FinishLarge(r) PROVE WayOK(s, d)'
    BY <1>1, <1>2, <2>4, FinishWays
  <2>5. ASSUME NEW r \in Rank, TakeBuffer(r) PROVE WayOK(s, d)'
    BY <1>1, <1>2, <2>5, TakeWays
  <2>6. ASSUME NEW r \in Rank, Drained(r) PROVE WayOK(s, d)'
    BY <1>1, <1>2, <2>6, DrainedWays
  <2>7. ASSUME NEW r \in Rank, StartHandler(r) \/ Kill(r) PROVE WayOK(s, d)'
    BY <1>1, <1>2, <2>7, QuietWays
  <2>8. ASSUME NEW r \in Rank, HandlerReturns(r) PROVE WayOK(s, d)'
    BY <1>1, <1>2, <2>8, ReturnWays
  <2>9. ASSUME NEW r \in Rank, Opens(r) PROVE WayOK(s, d)'
    BY <1>1, <1>2, <2>9, OpensWays
  <2>10. ASSUME NEW r \in Rank, UNCHANGED Settled, UNCHANGED act PROVE WayOK(s, d)'
    BY <1>1, <1>2, <2>10, QuietWays
  <2>11. ASSUME NEW y \in Rank, NEW z \in Rank, Takes(y, z) PROVE WayOK(s, d)'
    BY <1>1, <1>2, <2>11, TakesWays
  <2>12. CASE UNCHANGED commVars
    BY <1>1, <1>2, <2>12, QuietWays
  <2>13. \/ \E r \in Rank : \E x \in Rank \ {r} : CallSmall(r, x) \/ CallLarge(r, x)
         \/ \E r \in Rank : \E x \in Rank \ {r} : Flushes(r, x)
         \/ \E r \in Rank : \/ FinishLarge(r) \/ TakeBuffer(r) \/ Drained(r)
                             \/ StartHandler(r) \/ HandlerReturns(r) \/ Kill(r)
         \/ \E r \in Rank : Opens(r) /\ OpenSteps(r)
         \/ \E r \in Rank : UNCHANGED Settled /\ UNCHANGED act /\ QuietSteps(r)
         \/ \E y, z \in Rank : Takes(y, z)
         \/ UNCHANGED commVars
    BY Kinds
  <2> QED
    BY <2>1, <2>2, <2>3, <2>4, <2>5, <2>6, <2>7, <2>8, <2>9, <2>10, <2>11, <2>12, <2>13
<1> QED
  BY <1>2 DEF WaysInv, WayOK
(* No call is made after the last barrier.                                 *)
LEMMA LimitStep == TInv /\ IInv /\ IInv' /\ [CommNext]_commVars => LimitInv'
<1> SUFFICES ASSUME TInv, IInv, IInv', [CommNext]_commVars PROVE LimitInv'
  OBVIOUS
<1>1. LimitInv
  BY DEF TInv
<1>2. ASSUME NEW r \in Rank, NEW x \in Rank \ {r}, CallSmall(r, x) \/ CallLarge(r, x)
      PROVE  LimitInv'
  <2> DEFINE c == NewCall(r, x)
  <2>1. UserCode(r) /\ Async(r, x)
    BY <1>2 DEF CallSmall, CallLarge
  <2>2. issued' = issued \cup {c} /\ c.epoch = epoch[r]
    BY <2>1, NewCallFacts
  <2> HIDE DEF c
  <2>3. epoch[r] < MaxEpoch
    <3>1. CASE stack[r] = <<>>
      BY <2>1, <3>1 DEF Async, MayCall
    <3>2. CASE stack[r] # <<>>
      <4>1. 1 \in DOMAIN stack[r]
        <5>1. stack[r] \in Seq(Call)
          BY DEF IInv, TypeOK
        <5> QED
          BY <3>2, <5>1, EmptySeq
      <4>2. stack[r][1] \in issued /\ stack[r][1].epoch = epoch[r]
        BY <4>1 DEF IInv, StackInv, PendingInv, EpochIsolation
      <4> QED
        BY <1>1, <4>2 DEF LimitInv
    <3> QED
      BY <3>1, <3>2
  <2> QED
    BY <1>1, <2>2, <2>3 DEF LimitInv
<1>3. ASSUME UNCHANGED issued PROVE LimitInv'
  BY <1>1, <1>3 DEF LimitInv
<1>4. ASSUME NEW r \in Rank,
             \/ FinishLarge(r) \/ TakeBuffer(r) \/ Drained(r)
             \/ StartHandler(r) \/ HandlerReturns(r) \/ Kill(r)
      PROVE  UNCHANGED issued
  BY <1>4 DEF FinishLarge, TakeBuffer, Drained, StartHandler, HandlerReturns, Kill, Begin, End, vars
<1>5. \/ \E r \in Rank : \E x \in Rank \ {r} : CallSmall(r, x) \/ CallLarge(r, x)
      \/ \E r \in Rank : \E x \in Rank \ {r} : Flushes(r, x)
      \/ \E r \in Rank : \/ FinishLarge(r) \/ TakeBuffer(r) \/ Drained(r)
                          \/ StartHandler(r) \/ HandlerReturns(r) \/ Kill(r)
      \/ \E r \in Rank : Opens(r) /\ OpenSteps(r)
      \/ \E r \in Rank : UNCHANGED Settled /\ UNCHANGED act /\ QuietSteps(r)
      \/ \E y, z \in Rank : Takes(y, z)
      \/ UNCHANGED commVars
  BY Kinds
<1>6. CASE \/ \E r \in Rank : \E x \in Rank \ {r} : Flushes(r, x)
           \/ \E r \in Rank : Opens(r)
           \/ UNCHANGED Settled
           \/ \E y, z \in Rank : Takes(y, z)
           \/ UNCHANGED commVars
  BY <1>3, <1>6 DEF Flushes, Opens, Settled, Takes, commVars, vars
<1> QED
  BY <1>2, <1>3, <1>4, <1>5, <1>6

LEMMA TInit == CommInit => TInv
<1> SUFFICES ASSUME CommInit PROVE TInv
  OBVIOUS
<1>1. /\ sendBuf = [r \in Rank |-> [d \in Rank |-> <<>>]] /\ body = [r \in Rank |-> <<>>]
      /\ chan = [r \in Rank |-> [d \in Rank |-> <<>>]]
      /\ listener = [r \in Rank |-> AnySource] /\ queue = [r \in Rank |-> <<>>]
      /\ big = {} /\ act = [r \in Rank |-> <<>>] /\ wli = [r \in Rank |-> "out"]
      /\ life = [r \in Rank |-> "up"]
  BY DEF CommInit, TransInit
<1>2. /\ issued = {} /\ executed = {} /\ stack = [r \in Rank |-> <<>>]
      /\ pc = [r \in Rank |-> "app"]
  BY DEF CommInit, Init
<1>3. CommTypeOK
  <2>1. <<>> \in Seq(Call) /\ <<>> \in Seq(Message) /\ <<>> \in Seq(Seq(Call))
        /\ <<>> \in Seq([buf : Seq(Call), received : BOOLEAN])
    OBVIOUS
  <2> QED
    BY <1>1, <2>1 DEF CommTypeOK, Life
<1>4. AddressInv
  BY <1>1, TransportAssumption DEF AddressInv, Between
<1>5. MessageInv
  <2>1. \A s, d \in Rank : InOrder(chan[s][d], Coming(s, d), listener[d] = s)
    BY <1>1, RankFacts DEF InOrder, Coming
  <2>2. \A r \in Rank : listener[r] # Off /\ listener[r] # r /\ chan[r][r] = <<>>
    BY <1>1, RankFacts
  <2> QED
    BY <2>1, <2>2 DEF MessageInv
<1>6. HandlerInv
  BY <1>1, <1>2 DEF HandlerInv
<1>7. PlaceInv
  BY <1>1, <1>2 DEF PlaceInv
<1>8. WaysInv
  <2> SUFFICES ASSUME NEW s \in Rank, NEW d \in Rank
               PROVE  Holds(Way(s, d), s, Pend(s, d), big, Done(s, d))
    BY DEF WaysInv
  <2> DEFINE W == Way(s, d)
  <2>1. IsWay(W) /\ Shape(W, act[d], queue[d], chan[s][d], body[s], sendBuf[s][d], d)
    BY <1>3, ShapeNow DEF Shape
  <2> HIDE DEF W
  <2>2. /\ Len(W[1]) = 0 /\ Len(W[2]) = 0 /\ Len(W[3]) = 0
        /\ W[4] = << <<>> >> /\ W[5] = << <<>> >>
    BY <1>1, <2>1 DEF Shape, Stretch, Boxes, Hands
  <2>3. Places(W, s) = {}
    <3>1. ASSUME NEW p \in Places(W, s) PROVE FALSE
      <4>1. p[1] \in 1 .. 5 /\ p[2] \in 1 .. Len(W[p[1]]) /\ p[3] \in 1 .. Len(W[p[1]][p[2]])
        BY <2>1, PlaceFacts
      <4>2. p[1] = 4 \/ p[1] = 5
        BY <2>2, <4>1
      <4>3. W[p[1]] = << <<>> >>
        BY <2>2, <4>2
      <4>4. p[2] = 1 /\ Len(W[p[1]][p[2]]) = 0
        BY <4>1, <4>3
      <4> QED
        BY <4>1, <4>4
    <3> QED
      BY <3>1
  <2>4. Pend(s, d) = {} /\ Done(s, d) = {}
    BY <1>2 DEF Pend, Done
  <2>5. Holds(W, s, Pend(s, d), big, Done(s, d))
    BY <2>3, <2>4 DEF Holds, HoldsAt
  <2> QED
    BY <2>5 DEF W
<1>9. LimitInv
  BY <1>2 DEF LimitInv
<1> QED
  BY <1>3, <1>4, <1>5, <1>6, <1>7, <1>8, <1>9 DEF TInv

THEOREM TransportInductive == CommSpec => [](TInv /\ IInv)
<1>1. CommSpec => []IInv
  BY CommImplementsBarrier, Inductive, PTL
<1>2. TInv /\ IInv /\ IInv' /\ [CommNext]_commVars => TInv'
  BY CommTypeStep, AddressStep, MessageStep, HandlerStep, PlaceStep, WaysStep, LimitStep DEF TInv
<1> QED
  BY <1>1, <1>2, TInit, PTL DEF CommSpec
-----------------------------------------------------------------------------
LEMMA WaysMean == TInv => ExactlyOnce /\ OrderUnlessNested
<1> SUFFICES ASSUME TInv PROVE ExactlyOnce /\ OrderUnlessNested
  OBVIOUS
<1>1. ASSUME NEW s \in Rank, NEW d \in Rank, s # d
      PROVE  /\ \A p, q \in Places(Way(s, d), s) : At(Way(s, d), p) = At(Way(s, d), q) => p = q
             /\ {At(Way(s, d), p) : p \in Places(Way(s, d), s)} = Pend(s, d)
             /\ \A p, q \in Places(Way(s, d), s) :
                  At(Way(s, d), p) \notin big /\ At(Way(s, d), q) \notin big /\ Before(p, q)
                    => At(Way(s, d), p).id < At(Way(s, d), q).id
             /\ \A c \in Done(s, d) \ big : \A p \in Places(Way(s, d), s) :
                  At(Way(s, d), p) \notin big /\ At(Way(s, d), p).id < c.id => p[1] = 1
  BY <1>1 DEF TInv, WaysInv, Holds, HoldsAt
<1>2. ASSUME NEW s \in Rank, NEW d \in Rank, s # d
      PROVE  /\ Len(sendBuf[s][d]) <= Cap
             /\ \A i \in DOMAIN chan[s][d] : Len(chan[s][d][i].calls) <= Cap
  BY <1>2 DEF TInv, AddressInv, MessageInv, InOrder
<1>3. ExactlyOnce
  BY <1>1, <1>2 DEF ExactlyOnce, Pend
<1>4. OrderUnlessNested
  BY <1>1 DEF OrderUnlessNested, Done
<1> QED
  BY <1>3, <1>4
(* Large messages are matched with their bodies.                           *)
LEMMA MessagesMean == TInv => BodyMatched
<1> SUFFICES ASSUME TInv, NEW d \in Rank
             PROVE  /\ listener[d] = AnySource =>
                         \A s \in Rank : chan[s][d] # <<>> => Head(chan[s][d]).tag # "body"
                    /\ \A s \in Rank : listener[d] = s =>
                         \/ chan[s][d] # <<>> /\ Head(chan[s][d]).tag = "body"
                         \/ chan[s][d] = <<>> /\ Coming(s, d)
  BY DEF BodyMatched
<1>1. ASSUME NEW s \in Rank
      PROVE  chan[s][d] # <<>> => Head(chan[s][d]) = chan[s][d][1] /\ 1 \in DOMAIN chan[s][d]
  <2>1. chan[s][d] \in Seq(Message)
    BY TypeFacts DEF TInv
  <2> QED
    BY <2>1, PopLemma
<1>2. ASSUME listener[d] = AnySource, NEW s \in Rank, chan[s][d] # <<>>
      PROVE  Head(chan[s][d]).tag # "body"
  <2>1. CASE s = d
    <3>1. chan[d][d] = <<Msg("kill", <<>>)>>
      BY <1>2, <2>1 DEF TInv, MessageInv
    <3> QED
      BY <2>1, <3>1 DEF Msg
  <2>2. CASE s # d
    <3>1. InOrder(chan[s][d], Coming(s, d), listener[d] = s)
      BY <2>2 DEF TInv, MessageInv
    <3>2. listener[d] # s
      BY <1>2, RankFacts
    <3> QED
      BY <1>1, <1>2, <3>1, <3>2 DEF InOrder
  <2> QED
    BY <2>1, <2>2
<1>3. ASSUME NEW s \in Rank, listener[d] = s
      PROVE  \/ chan[s][d] # <<>> /\ Head(chan[s][d]).tag = "body"
             \/ chan[s][d] = <<>> /\ Coming(s, d)
  <2>1. s # d
    BY <1>3 DEF TInv, MessageInv
  <2>2. InOrder(chan[s][d], Coming(s, d), listener[d] = s)
    BY <2>1 DEF TInv, MessageInv
  <2> QED
    BY <1>1, <1>3, <2>2 DEF InOrder
<1> QED
  BY <1>2, <1>3

LEMMA PlacesMean == TInv => NothingHeldBack
<1> SUFFICES ASSUME TInv, NEW r \in Rank, pc[r] \in Waiting, Idle(r)
             PROVE  Unsent(r) = {} /\ body[r] = <<>>
  BY DEF NothingHeldBack
<1>1. pc[r] # "app" /\ wli[r] = "out" /\ act[r] = <<>>
  BY DEF Waiting, Idle
<1>2. Unsent(r) = {}
  BY <1>1 DEF TInv, PlaceInv
<1>3. body[r] = <<>>
  BY <1>1 DEF TInv, HandlerInv, InHandler, InProgram
<1> QED
  BY <1>2, <1>3

(* The place of a call on its way is that of a pending call.               *)
LEMMA NothingOnWay ==
  ASSUME TInv, NEW s \in Rank, NEW d \in Rank, s # d, Pend(s, d) = {}
  PROVE  /\ \A i \in DOMAIN queue[d] : \A j \in DOMAIN queue[d][i] : queue[d][i][j].src # s
         /\ \A i \in DOMAIN chan[s][d] : chan[s][d][i].calls = <<>>
         /\ ~Coming(s, d)
<1> DEFINE W == Way(s, d)
<1>1. /\ Shape(W, act[d], queue[d], chan[s][d], body[s], sendBuf[s][d], d) /\ IsWay(W)
      /\ Holds(W, s, Pend(s, d), big, Done(s, d))
  <2>1. Shape(W, act[d], queue[d], chan[s][d], body[s], sendBuf[s][d], d)
    BY ShapeNow DEF TInv
  <2> QED
    BY <2>1 DEF TInv, WaysInv, Shape
<1>2. chan[s][d] \in Seq(Message) /\ queue[d] \in Seq(Seq(Call)) /\ body[s] \in Seq(Call)
  BY TypeFacts DEF TInv
<1> HIDE DEF W
<1>3. ASSUME NEW t \in 1 .. 5, NEW i \in 1 .. Len(W[t]), NEW j \in 1 .. Len(W[t][i])
      PROVE  W[t][i][j].src # s
  <2>1. \A p \in Places(W, s) : FALSE
    BY <1>1 DEF Holds, HoldsAt
  <2> QED
    BY <1>1, <2>1, InPlaces
<1>4. \A i \in DOMAIN queue[d] : \A j \in DOMAIN queue[d][i] : queue[d][i][j].src # s
  <2> SUFFICES ASSUME NEW i \in DOMAIN queue[d], NEW j \in DOMAIN queue[d][i]
               PROVE  queue[d][i][j].src # s
    OBVIOUS
  <2>1. W[2] = queue[d] /\ 2 \in 1 .. 5
    BY <1>1 DEF Shape
  <2>2. i \in 1 .. Len(queue[d]) /\ queue[d][i] \in Seq(Call)
    BY <1>2
  <2>3. j \in 1 .. Len(queue[d][i])
    BY <2>2
  <2> QED
    BY <1>3, <2>1, <2>2, <2>3
<1>5. ASSUME NEW i \in DOMAIN chan[s][d], chan[s][d][i].calls # <<>> PROVE FALSE
  <2> DEFINE b == chan[s][d][i].calls
  <2>1. b \in Seq(Call) /\ i \in 1 .. Len(chan[s][d]) /\ Len(chan[s][d]) \in Nat
    <3>1. i \in 1 .. Len(chan[s][d]) /\ chan[s][d][i] \in Message
      BY <1>2
    <3> QED
      BY <1>2, <3>1 DEF Message
  <2>2. 1 \in DOMAIN b /\ 1 \in 1 .. Len(b)
    BY <1>5, <2>1, EmptySeq
  <2>3. b[1].src = s
    BY <2>2 DEF TInv, AddressInv, Between
  <2> HIDE DEF b
  <2>4. W[3] = Boxes(chan[s][d]) /\ 3 \in 1 .. 5
    BY <1>1 DEF Shape
  <2>5. Len(W[3]) = Len(chan[s][d]) /\ W[3][i] = b
    BY <1>2, <2>4 DEF Boxes, b
  <2>6. i \in 1 .. Len(W[3]) /\ 1 \in 1 .. Len(W[3][i])
    BY <2>1, <2>2, <2>5
  <2> QED
    BY <1>3, <2>3, <2>4, <2>5, <2>6
<1>6. ASSUME Coming(s, d) PROVE FALSE
  <2>1. body[s] # <<>> /\ Head(body[s]).src = s /\ Len(body[s]) = 1 /\ Head(body[s]).dst = d
    BY <1>6 DEF TInv, AddressInv, Coming
  <2>2. W[4] = <<body[s]>> /\ 4 \in 1 .. 5
    BY <1>1, <2>1 DEF Shape, Hands
  <2>3. Head(body[s]) = body[s][1]
    BY <1>2, <2>1, HeadTailProperties
  <2>4. 1 \in 1 .. Len(W[4]) /\ W[4][1] = body[s] /\ 1 \in 1 .. Len(W[4][1])
    BY <2>1, <2>2
  <2> QED
    BY <1>3, <2>1, <2>2, <2>3, <2>4
<1> QED
  BY <1>4, <1>5, <1>6

LEMMA ShutdownMeans == TInv /\ IInv => CleanShutdown
<1> SUFFICES ASSUME TInv, IInv, NEW r \in Rank, listener[r] = Off
             PROVE  /\ \A s \in Rank : chan[s][r] = <<>>
                    /\ queue[r] = <<>> /\ act[r] = <<>>
                    /\ \A c \in issued \ executed : c.dst # r
  BY DEF CleanShutdown
<1>1. life[r] \in Late
  BY DEF TInv, MessageInv, Late
<1>2. pc[r] = "app" /\ epoch[r] = MaxEpoch /\ act[r] = <<>>
  BY <1>1 DEF TInv, PlaceInv, Late
<1>3. issued \ executed = {}
  <2>1. ASSUME NEW m \in issued \ executed PROVE FALSE
    <3>1. epoch[r] <= m.epoch /\ m.epoch < MaxEpoch /\ m \in Call
      BY <2>1 DEF IInv, TypeOK, PendingInv, TInv, LimitInv
    <3>2. m.epoch \in Nat
      BY <3>1 DEF Call
    <3> QED
      BY <1>2, <3>1, <3>2, BoundAssumption
  <2> QED
    BY <2>1
<1>4. ASSUME NEW s \in Rank, s # r
      PROVE  /\ \A i \in DOMAIN queue[r] : \A j \in DOMAIN queue[r][i] : queue[r][i][j].src # s
             /\ \A i \in DOMAIN chan[s][r] : chan[s][r][i].calls = <<>>
             /\ ~Coming(s, r)
  <2>1. Pend(s, r) = {}
    BY <1>3 DEF Pend
  <2> QED
    BY <1>4, <2>1, NothingOnWay
<1>5. queue[r] = <<>>
  <2> SUFFICES ASSUME queue[r] # <<>> PROVE FALSE
    OBVIOUS
  <2>1. queue[r] \in Seq(Seq(Call))
    BY TypeFacts DEF TInv
  <2>2. 1 \in DOMAIN queue[r] /\ queue[r][1] \in Seq(Call)
    BY <2>1, PopLemma
  <2>3. queue[r][1] # <<>>
    BY <2>2 DEF TInv, AddressInv
  <2>4. 1 \in DOMAIN queue[r][1] /\ queue[r][1][1] \in Call
    BY <2>2, <2>3, PopLemma
  <2>5. queue[r][1][1].src # r
    BY <2>2, <2>4 DEF TInv, AddressInv
  <2>6. queue[r][1][1].src \in Rank
    BY <2>4 DEF Call
  <2> QED
    BY <1>4, <2>2, <2>4, <2>5, <2>6
<1>6. ASSUME NEW s \in Rank, chan[s][r] # <<>> PROVE FALSE
  <2>1. s # r
    BY <1>6 DEF TInv, MessageInv
  <2>2. InOrder(chan[s][r], Coming(s, r), listener[r] = s)
    BY <2>1 DEF TInv, MessageInv
  <2>3. Len(chan[s][r]) \in Nat \ {0} /\ DOMAIN chan[s][r] = 1 .. Len(chan[s][r])
    <3>1. chan[s][r] \in Seq(Message)
      BY TypeFacts DEF TInv
    <3> QED
      BY <1>6, <3>1, EmptySeq
  <2>4. \A i \in DOMAIN chan[s][r] : chan[s][r][i].tag = "announce"
    BY <1>4, <2>1, <2>2 DEF InOrder
  <2>5. Len(chan[s][r]) \in DOMAIN chan[s][r]
    BY <2>3
  <2>6. Coming(s, r)
    BY <2>2, <2>4, <2>5 DEF InOrder
  <2> QED
    BY <1>4, <2>1, <2>6
<1> QED
  BY <1>2, <1>3, <1>5, <1>6
-----------------------------------------------------------------------------
(* What the runs check as one invariant holds for every instance.          *)
THEOREM CommInvariant == CommSpec => []CommInv
<1>1. TInv => CommInv
  BY WaysMean DEF TInv, LimitInv, CommInv
<1> QED
  BY <1>1, TransportInductive, PTL

(* No call is lost or duplicated between async() and its handler, and send
   buffers stay within what a listener makes room for.                     *)
THEOREM CallsArriveOnce == CommSpec => []ExactlyOnce
BY WaysMean, TransportInductive, PTL

(* Small calls of one rank to another run in the order they were made, but for
   those that wait in a buffer a handler's own async() has suspended.      *)
THEOREM CallsKeepOrder == CommSpec => []OrderUnlessNested
BY WaysMean, TransportInductive, PTL

(* A rank contributes to a reduction with empty send buffers.              *)
THEOREM RanksHoldNothingBack == CommSpec => []NothingHeldBack
BY PlacesMean, TransportInductive, PTL

(* No listener receives the body of a large message as anything else.      *)
THEOREM BodiesMatch == CommSpec => []BodyMatched
BY MessagesMean, TransportInductive, PTL

(* A listener is stopped only when nothing will ever come for it.          *)
THEOREM ShutdownIsClean == CommSpec => []CleanShutdown
BY ShutdownMeans, TransportInductive, PTL
==============================================================================
