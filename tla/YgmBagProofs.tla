---------------------------- MODULE YgmBagProofs ----------------------------
(***************************************************************************)
(* Theorems about YgmBag, for every number of ranks, bags, insertions and  *)
(* barriers: an index that travels always stands for the object it was     *)
(* taken from; while for_all() is under way the vector is touched by       *)
(* nothing but what the program itself inserts after the barrier; and when *)
(* an epoch ends, a bag holds each item inserted in it since it was last   *)
(* cleared, at one place, and no other.                                    *)
(***************************************************************************)
EXTENDS YgmBag, SequenceTheorems, YgmFoldProofs, TLAPS

Part  == [idx : Nat, live : BOOLEAN, items : Seq(Nat), rr : Nat]
Entry == [kind : Kind, bag : Nat, peer : Nat, made : Nat]
Insertion == [bag : Bag, idx : Nat, epoch : Nat]

(* What a step leaves alone, it leaves right: the registry and the plan.   *)
LEMMA FrameLemma ==
  ASSUME BagInv, UNCHANGED <<plan, epoch, inside, sptrs>>
  PROVE  PlanInv' /\ RegistryInv' /\ LockstepInv'
BY DEF BagInv, PlanInv, RegistryInv, LockstepInv, Entered, Made

(* ... and what the parts of a bag hold does not matter.                   *)
LEMMA LiveFrameLemma ==
  ASSUME BagInv, UNCHANGED <<plan, epoch, inside>>,
         \A r \in Rank : \A b \in Bag : /\ bags'[r][b].live = bags[r][b].live
                                        /\ bags'[r][b].idx = bags[r][b].idx
  PROVE  LiveInv'
BY DEF BagInv, LiveInv, Entered, Made, Destroyed

(* made never decreases along the plan.                                    *)
LEMMA MadeLemma ==
  ASSUME BagInv, NEW r \in Rank
  PROVE  /\ Made(plan, epoch[r]) \in Nat /\ Made(plan, Entered(r)) \in Nat
         /\ epoch[r] \in Nat /\ Entered(r) \in Nat /\ epoch[r] <= Entered(r)
         /\ epoch[r] <= Len(plan) /\ Made(plan, epoch[r]) <= Made(plan, Entered(r))
<1> USE DEF BagInv
<1>1. /\ epoch[r] \in Nat /\ Entered(r) \in {epoch[r], epoch[r] + 1}
      /\ Entered(r) <= Len(plan) /\ Len(plan) \in Nat /\ DOMAIN plan = 1 .. Len(plan)
  BY LenProperties DEF BagTypeOK, RegistryInv, Entered
<1>2. \A e \in DOMAIN plan : plan[e].made \in Nat
  <2>1. plan \in Seq(Entry)
    BY DEF BagTypeOK, Entry
  <2>2. \A e \in DOMAIN plan : plan[e] \in Entry
    BY <2>1
  <2> QED
    BY <2>2 DEF Entry
<1>3. Made(plan, epoch[r]) \in Nat /\ Made(plan, Entered(r)) \in Nat
  BY <1>1, <1>2 DEF Made
<1>4. CASE Entered(r) = epoch[r] + 1
  <2>1. Entered(r) \in DOMAIN plan /\ Entered(r) - 1 = epoch[r]
    BY <1>1, <1>4
  <2>2. plan[Entered(r)].made \in {Made(plan, epoch[r]), Made(plan, epoch[r]) + 1}
    BY <2>1 DEF PlanInv
  <2>3. Made(plan, Entered(r)) = plan[Entered(r)].made
    BY <1>1, <1>4 DEF Made
  <2> QED
    BY <1>1, <1>3, <1>4, <2>2, <2>3
<1> QED
  BY <1>1, <1>3, <1>4
-----------------------------------------------------------------------------
(* The inserter changes nothing but items.                                 *)
LEMMA PushBackLemma ==
  ASSUME NEW bs \in [Rank -> [Bag -> Part]], NEW r \in Rank, NEW i, NEW n \in Nat
  PROVE  LET new == PushBack(bs, r, i, n)
         IN  /\ new \in [Rank -> [Bag -> Part]]
             /\ \A s \in Rank : \A b \in Bag : /\ new[s][b].live = bs[s][b].live
                                               /\ new[s][b].idx = bs[s][b].idx
<1> DEFINE x == Deref(r, i)
           f == [bs[r] EXCEPT ![x].items = Append(@, n)]
           new == PushBack(bs, r, i, n)
<1>1. new = [bs EXCEPT ![r] = f]
  BY DEF PushBack
<1>2. ASSUME NEW b \in Bag
      PROVE  f[b] \in Part /\ f[b].live = bs[r][b].live /\ f[b].idx = bs[r][b].idx
  <2>1. bs[r][b] \in Part /\ bs[r] \in [Bag -> Part]
    OBVIOUS
  <2>2. CASE b = x
    <3>1. f[b] = [bs[r][b] EXCEPT !.items = Append(@, n)]
      BY <2>1, <2>2
    <3>2. Append(bs[r][b].items, n) \in Seq(Nat)
      BY <2>1 DEF Part
    <3> QED
      BY <2>1, <3>1, <3>2 DEF Part
  <2>3. CASE b # x
    BY <2>1, <2>3
  <2> QED
    BY <2>2, <2>3
<1>3. f \in [Bag -> Part]
  BY <1>2
<1>4. new \in [Rank -> [Bag -> Part]]
  BY <1>1, <1>3
<1>5. ASSUME NEW s \in Rank, NEW b \in Bag
      PROVE  new[s][b].live = bs[s][b].live /\ new[s][b].idx = bs[s][b].idx
  <2>1. CASE s = r
    BY <1>1, <1>2, <2>1
  <2>2. CASE s # r
    BY <1>1, <2>2
  <2> QED
    BY <2>1, <2>2
<1> QED
  BY <1>4, <1>5

(* An insertion is counted.                                                *)
LEMMA CountLemma ==
  ASSUME NEW x \in Part
  PROVE  /\ [x EXCEPT !.rr = @ + 1] \in Part
         /\ [x EXCEPT !.rr = @ + 1].live = x.live
         /\ [x EXCEPT !.rr = @ + 1].idx = x.idx
BY DEF Part

(* The constructor makes a part, with the index it is registered at.       *)
LEMMA NewPartLemma ==
  ASSUME NEW n \in Nat
  PROVE  NewPart(n) \in Part /\ NewPart(n).live = TRUE /\ NewPart(n).idx = n
<1>1. <<>> \in Seq(Nat)
  OBVIOUS
<1> QED
  BY <1>1 DEF NewPart, Part

LEMMA BagInitLemma == BagInit => BagInv
<1> SUFFICES ASSUME BagInit PROVE BagInv
  OBVIOUS
<1>1. NoBag \in Part
  BY DEF NoBag, Part
<1>2. /\ issued = {} /\ inside = {} /\ plan = <<>>
      /\ \A r \in Rank : epoch[r] = 0 /\ sptrs[r] = <<>>
      /\ \A r \in Rank : \A b \in Bag : bags[r][b] = NoBag
  BY DEF BagInit, BSInit
<1>3. BagTypeOK
  BY <1>1 DEF BagInit, BSInit, BagTypeOK, Part
<1>4. PlanInv /\ LockstepInv /\ CallInv
  BY <1>2 DEF PlanInv, LockstepInv, CallInv, Pending
<1>5. ASSUME NEW r \in Rank PROVE Entered(r) = 0
  BY <1>2 DEF Entered
<1>6. Made(plan, 0) = 0
  BY DEF Made
<1>7. RegistryInv
  <2> SUFFICES ASSUME NEW r \in Rank
               PROVE  /\ Entered(r) <= Len(plan) /\ Len(sptrs[r]) = Made(plan, Entered(r))
                      /\ \A i \in 1 .. Len(sptrs[r]) : sptrs[r][i] = i
    BY DEF RegistryInv
  <2> QED
    BY <1>2, <1>5, <1>6
<1>8. LiveInv
  <2> SUFFICES ASSUME NEW r \in Rank, NEW b \in Bag
               PROVE  /\ bags[r][b].live = (b <= Made(plan, Entered(r)) /\ ~Destroyed(plan, b, epoch[r]))
                      /\ bags[r][b].live => bags[r][b].idx + 1 = b
    BY DEF LiveInv
  <2>1. Made(plan, Entered(r)) = 0 /\ bags[r][b].live = FALSE
    BY <1>2, <1>5, <1>6 DEF NoBag
  <2>2. ~(b <= 0)
    BY BagBoundAssumption DEF Bag
  <2> QED
    BY <2>1, <2>2
<1> QED
  BY <1>3, <1>4, <1>7, <1>8 DEF BagInv
-----------------------------------------------------------------------------
(* No insertion that was not under way is under way.                       *)
LEMMA CallFrameLemma ==
  ASSUME BagInv, UNCHANGED <<plan, epoch, ops>>, Pending' \subseteq Pending
  PROVE  CallInv'
BY DEF BagInv, CallInv, Made, Destroyed

LEMMA InsertStep ==
  ASSUME BagInv, NEW r \in Rank, NEW b \in Bag, Insert(r, b)
  PROVE  BagInv'
<1> DEFINE i == bags[r][b].idx
           n == Len(ops) + 1
           op == [bag |-> b, idx |-> i, epoch |-> epoch[r]]
           counted == [bags EXCEPT ![r][b].rr = @ + 1]
<1>1. BagTypeOK /\ UNCHANGED <<plan, epoch, inside, sptrs, file, executed>>
  BY DEF BagInv, Insert, BSIssue, bsVars
<1>2. /\ bags[r] \in [Bag -> Part] /\ bags[r][b] \in Part /\ i \in Nat
      /\ bags \in [Rank -> [Bag -> Part]] /\ n \in Nat /\ epoch[r] \in Nat
  BY <1>1, LenProperties DEF BagTypeOK, Part
<1>3. /\ counted \in [Rank -> [Bag -> Part]]
      /\ \A s \in Rank : \A c \in Bag : /\ counted[s][c].live = bags[s][c].live
                                        /\ counted[s][c].idx = bags[s][c].idx
  <2> DEFINE f == [bags[r] EXCEPT ![b] = [bags[r][b] EXCEPT !.rr = @ + 1]]
  <2>1. counted = [bags EXCEPT ![r] = f]
    BY <1>2
  <2>2. /\ f \in [Bag -> Part]
        /\ \A c \in Bag : f[c].live = bags[r][c].live /\ f[c].idx = bags[r][c].idx
    <3>1. /\ [bags[r][b] EXCEPT !.rr = @ + 1] \in Part
          /\ [bags[r][b] EXCEPT !.rr = @ + 1].live = bags[r][b].live
          /\ [bags[r][b] EXCEPT !.rr = @ + 1].idx = bags[r][b].idx
      BY <1>2, CountLemma
    <3> QED
      BY <1>2, <3>1
  <2> HIDE DEF f
  <2> QED
    BY <1>2, <2>1, <2>2
<1>4. /\ bags' \in [Rank -> [Bag -> Part]]
      /\ \A s \in Rank : \A c \in Bag : /\ bags'[s][c].live = bags[s][c].live
                                        /\ bags'[s][c].idx = bags[s][c].idx
  <2> HIDE DEF counted, n, i
  <2>1. CASE bags' = PushBack(counted, r, i, n)
    <3>1. /\ PushBack(counted, r, i, n) \in [Rank -> [Bag -> Part]]
          /\ \A s \in Rank : \A c \in Bag :
               /\ PushBack(counted, r, i, n)[s][c].live = counted[s][c].live
               /\ PushBack(counted, r, i, n)[s][c].idx = counted[s][c].idx
      BY <1>2, <1>3, PushBackLemma
    <3> QED
      BY <1>3, <2>1, <3>1
  <2>2. CASE bags' = counted
    BY <1>3, <2>2
  <2> QED
    BY <2>1, <2>2 DEF Insert, counted, n, i
<1>5. /\ ops' = Append(ops, op) /\ op \in [bag : Bag, idx : Nat, epoch : Nat]
      /\ ops \in Seq([bag : Bag, idx : Nat, epoch : Nat])
  BY <1>1, <1>2 DEF Insert, BagTypeOK
<1>6. /\ ops' \in Seq([bag : Bag, idx : Nat, epoch : Nat])
      /\ DOMAIN ops' = DOMAIN ops \cup {n} /\ ops'[n] = op
      /\ \A k \in DOMAIN ops : ops'[k] = ops[k]
  BY <1>5, AppendProperties, LenProperties
<1>7. issued' \subseteq Call /\ \A m \in issued' : m \in issued \/ (m.id = n /\ m.epoch = epoch[r])
  <2> DEFINE d == (bags[r][b].rr + r) % Size
             m == [id |-> n, src |-> r, dst |-> d, epoch |-> epoch[r], parent |-> 0]
  <2>1. issued \subseteq Call
    BY <1>1 DEF BagTypeOK
  <2>2. issued' = issued \/ (m \in Call /\ issued' = issued \cup {m})
    BY DEF Insert, BSIssue, bsVars
  <2>3. m.id = n /\ m.epoch = epoch[r]
    OBVIOUS
  <2> HIDE DEF m
  <2> QED
    BY <2>1, <2>2, <2>3
<1>8. BagTypeOK'
  BY <1>1, <1>4, <1>6, <1>7 DEF BagTypeOK, Part
<1>9. LiveInv' /\ PlanInv' /\ RegistryInv' /\ LockstepInv'
  BY <1>1, <1>4, FrameLemma, LiveFrameLemma
<1>10. ASSUME NEW m \in Pending'
       PROVE  /\ m.id \in DOMAIN ops' /\ m.epoch <= Len(plan)
              /\ \A s \in Rank : epoch[s] <= m.epoch
              /\ ops'[m.id].idx + 1 = ops'[m.id].bag
              /\ ops'[m.id].bag <= Made(plan, m.epoch) /\ ~Destroyed(plan, ops'[m.id].bag, m.epoch)
  <2>1. CASE m \in issued
    <3>1. m \in Pending
      BY <1>1, <2>1 DEF Pending
    <3> QED
      BY <1>6, <3>1 DEF BagInv, CallInv
  <2>2. CASE m.id = n /\ m.epoch = epoch[r]
    <3>1. r \notin inside /\ bags[r][b].live
      BY DEF Insert, Active
    <3>2. b <= Made(plan, Entered(r)) /\ ~Destroyed(plan, b, epoch[r]) /\ i + 1 = b
      BY <3>1 DEF BagInv, LiveInv
    <3>3. Entered(r) = epoch[r]
      BY <3>1 DEF Entered
    <3>4. epoch[r] <= Len(plan)
      BY MadeLemma
    <3>5. ASSUME NEW s \in Rank PROVE epoch[s] <= epoch[r]
      BY <1>1, <3>1 DEF BagInv, LockstepInv, BagTypeOK
    <3> QED
      BY <1>6, <2>2, <3>2, <3>3, <3>4, <3>5
  <2> QED
    BY <1>7, <2>1, <2>2 DEF Pending
<1>11. CallInv'
  BY <1>1, <1>10 DEF CallInv, Made, Destroyed
<1> QED
  BY <1>8, <1>9, <1>11 DEF BagInv

LEMMA HandleStep ==
  ASSUME BagInv, NEW m \in Pending, Handle(m)
  PROVE  BagInv'
<1>1. /\ BagTypeOK /\ UNCHANGED <<plan, epoch, inside, sptrs, file, issued, ops>>
      /\ executed' = executed \cup {m} /\ m \in Call
  BY DEF BagInv, Handle, BSExecute, Pending, BagTypeOK
<1>2. bags \in [Rank -> [Bag -> Part]] /\ m.dst \in Rank /\ m.id \in Nat
  BY <1>1 DEF BagTypeOK, Part, Call
<1>3. /\ bags' \in [Rank -> [Bag -> Part]]
      /\ \A s \in Rank : \A c \in Bag : /\ bags'[s][c].live = bags[s][c].live
                                        /\ bags'[s][c].idx = bags[s][c].idx
  BY <1>2, PushBackLemma DEF Handle
<1>4. BagTypeOK'
  BY <1>1, <1>3 DEF BagTypeOK, Part
<1>5. LiveInv' /\ PlanInv' /\ RegistryInv' /\ LockstepInv'
  BY <1>1, <1>3, FrameLemma, LiveFrameLemma
<1>6. Pending' \subseteq Pending
  BY <1>1 DEF Pending
<1> QED
  BY <1>1, <1>4, <1>5, <1>6, CallFrameLemma DEF BagInv
-----------------------------------------------------------------------------
(* The plan grows at its end and keeps its order.                          *)
LEMMA PlanStep ==
  ASSUME BagInv, NEW r \in Rank, Enter(r)
  PROVE  /\ plan' \in Seq(Entry) /\ PlanInv'
         /\ epoch[r] + 1 \in DOMAIN plan' /\ Len(plan) <= Len(plan')
         /\ \A e \in DOMAIN plan : e \in DOMAIN plan' /\ plan'[e] = plan[e]
<1>1. /\ plan \in Seq(Entry) /\ Len(plan) \in Nat /\ DOMAIN plan = 1 .. Len(plan)
      /\ \A e \in DOMAIN plan : plan[e] \in Entry
  <2>1. plan \in Seq(Entry)
    BY DEF BagInv, BagTypeOK, Entry
  <2> QED
    BY <2>1, LenProperties
<1>2. epoch[r] \in Nat
  BY DEF BagInv, BagTypeOK
<1>3. PlanInv
  BY DEF BagInv
<1>4. CASE epoch[r] < Len(plan) /\ UNCHANGED plan
  BY <1>1, <1>2, <1>3, <1>4 DEF PlanInv, Made
<1>5. ASSUME epoch[r] = Len(plan), NEW c \in Choices(r), plan' = Append(plan, c)
      PROVE  /\ plan' \in Seq(Entry) /\ PlanInv'
             /\ epoch[r] + 1 \in DOMAIN plan' /\ Len(plan) <= Len(plan')
             /\ \A e \in DOMAIN plan : e \in DOMAIN plan' /\ plan'[e] = plan[e]
  <2> DEFINE n == Len(plan)
             k == Made(plan, n)
  <2>1. k \in Nat /\ Entered(r) = n
    BY <1>5, MadeLemma DEF Enter, BSEnter, Entered
  <2>2. \A b \in Live(r) : b \in Bag /\ b <= k
    BY <2>1 DEF BagInv, LiveInv, Live
  <2>3. Bag \subseteq Nat
    BY BagBoundAssumption DEF Bag
  <2>4. /\ c \in Entry
        /\ c.kind # "barrier" => c.bag \in Bag /\ c.peer \in Bag
        /\ c.kind # "construct" => c.made = k
        /\ c.kind = "construct" => c.made = k + 1 /\ c.bag = c.made
        /\ c.bag <= c.made /\ c.peer <= c.made
    <3> HIDE DEF k, n
    <3>1. CASE \E b \in {k + 1} \cap Bag : c = [Collective("construct", b, b) EXCEPT !.made = b]
      <4>1. PICK b \in {k + 1} \cap Bag : c = [Collective("construct", b, b) EXCEPT !.made = b]
        BY <3>1
      <4>2. c = [kind |-> "construct", bag |-> b, peer |-> b, made |-> b]
        BY <4>1 DEF Collective
      <4>3. c.kind = "construct" /\ c.bag = b /\ c.peer = b /\ c.made = b
        BY <4>2
      <4>4. b \in Nat /\ b \in Bag /\ b = k + 1 /\ c \in Entry
        BY <2>3, <4>1, <4>2 DEF Entry, Kind
      <4> QED
        BY <4>3, <4>4
    <3>2. CASE \E kind \in {"destroy", "clear", "for_all", "save", "load", "swap"} :
                 \E b, p \in Live(r) : c = Collective(kind, b, p)
      <4>1. PICK kind \in {"destroy", "clear", "for_all", "save", "load", "swap"},
                 b \in Live(r), p \in Live(r) : c = Collective(kind, b, p)
        BY <3>2
      <4>2. c = [kind |-> kind, bag |-> b, peer |-> p, made |-> k]
        BY <4>1 DEF Collective, k, n
      <4>3. b \in Bag /\ p \in Bag /\ b \in Nat /\ p \in Nat /\ b <= k /\ p <= k
        BY <2>2, <2>3
      <4>4. c.kind = kind /\ c.bag = b /\ c.peer = p /\ c.made = k
        BY <4>2
      <4>5. c \in Entry
        BY <2>1, <4>1, <4>2, <4>3 DEF Entry, Kind
      <4> QED
        BY <4>1, <4>3, <4>4, <4>5
    <3>3. CASE c = Collective("barrier", 0, 0)
      <4>1. c = [kind |-> "barrier", bag |-> 0, peer |-> 0, made |-> k]
        BY <3>3 DEF Collective, k, n
      <4>2. c.kind = "barrier" /\ c.made = k /\ c.bag = 0 /\ c.peer = 0
        BY <4>1
      <4>3. c \in Entry
        BY <2>1, <4>1 DEF Entry, Kind
      <4> QED
        BY <2>1, <4>2, <4>3
    <3>4. \/ \E b \in {k + 1} \cap Bag : c = [Collective("construct", b, b) EXCEPT !.made = b]
          \/ \E kind \in {"destroy", "clear", "for_all", "save"} : \E b \in Live(r) :
               c = Collective(kind, b, b)
          \/ \E b \in Live(r) : c = Collective("load", b, b)
          \/ \E x \in Live(r) \X Live(r) : c = Collective("swap", x[1], x[2])
          \/ c = Collective("barrier", 0, 0)
      BY <1>5 DEF Choices, k, n
    <3> QED
      BY <3>1, <3>2, <3>3, <3>4
  <2>5. /\ plan' \in Seq(Entry) /\ Len(plan') = n + 1 /\ DOMAIN plan' = 1 .. n + 1
        /\ plan'[n + 1] = c /\ \A e \in DOMAIN plan : plan'[e] = plan[e]
    BY <1>1, <1>5, <2>4, AppendProperties, LenProperties
  <2>6. \A e \in 0 .. n : Made(plan', e) = Made(plan, e)
    BY <1>1, <2>5 DEF Made
  <2>7. \A e \in DOMAIN plan : plan[e].made <= k
    <3>1. CASE n = 0
      BY <1>1, <3>1
    <3>2. CASE n # 0
      <4>1. n \in DOMAIN plan /\ k = plan[n].made
        BY <1>1, <3>2 DEF Made
      <4> QED
        BY <1>1, <1>3, <4>1 DEF PlanInv
    <3> QED
      BY <3>1, <3>2
  <2>8. \A e \in DOMAIN plan : plan[e].made <= c.made
    <3>1. c.made \in {k, k + 1}
      BY <2>4
    <3>2. \A e \in DOMAIN plan : plan[e].made \in Nat
      BY <1>1 DEF Entry
    <3> QED
      BY <2>1, <2>7, <3>1, <3>2
  <2>9. ASSUME NEW e \in DOMAIN plan'
        PROVE  /\ plan'[e].kind # "barrier" => plan'[e].bag \in Bag /\ plan'[e].peer \in Bag
               /\ plan'[e].kind # "construct" => plan'[e].made = Made(plan', e - 1)
               /\ plan'[e].kind = "construct" =>
                    plan'[e].made = Made(plan', e - 1) + 1 /\ plan'[e].bag = plan'[e].made
               /\ plan'[e].bag <= plan'[e].made /\ plan'[e].peer <= plan'[e].made
               /\ \A f \in DOMAIN plan' : e <= f => plan'[e].made <= plan'[f].made
    <3> HIDE DEF n, k
    <3>1. n \in Nat
      BY <1>1 DEF n
    <3>2. DOMAIN plan = 1 .. n
      BY <1>1 DEF n
    <3>3. CASE e \in DOMAIN plan
      <4>1. plan'[e] = plan[e] /\ Made(plan', e - 1) = Made(plan, e - 1)
        BY <2>5, <2>6, <3>1, <3>2, <3>3
      <4>2. \A f \in DOMAIN plan' : e <= f => plan'[e].made <= plan'[f].made
        BY <1>3, <2>5, <2>8, <3>1, <3>2, <3>3, <4>1 DEF PlanInv
      <4> QED
        BY <1>3, <3>3, <4>1, <4>2 DEF PlanInv
    <3>4. CASE e = n + 1
      <4>1. plan'[e] = c /\ Made(plan', e - 1) = k
        BY <2>5, <2>6, <3>1, <3>4 DEF k
      <4>2. \A f \in DOMAIN plan' : e <= f => f = e
        BY <2>5, <3>1, <3>4
      <4>3. c.made \in Nat
        BY <2>4 DEF Entry
      <4> QED
        BY <2>4, <4>1, <4>2, <4>3
    <3> QED
      BY <2>5, <3>1, <3>2, <3>3, <3>4
  <2>10. PlanInv'
    BY <2>9 DEF PlanInv
  <2> QED
    BY <1>1, <1>5, <2>5, <2>10
<1> QED
  BY <1>4, <1>5 DEF Enter

(* What the operation that a rank enters does to the count of bags.        *)
LEMMA EnteredLemma ==
  ASSUME BagInv, NEW r \in Rank, Enter(r)
  PROVE  LET c == plan'[epoch[r] + 1]
             k == Made(plan, epoch[r])
         IN  /\ k \in Nat /\ Len(sptrs[r]) = k /\ Made(plan', epoch[r] + 1) = c.made
             /\ c \in Entry
             /\ c.kind # "construct" => c.made = k
             /\ c.kind = "construct" => c.bag = k + 1 /\ c.made = k + 1 /\ c.bag \in Bag
             /\ \A e \in 0 .. Len(plan) : Made(plan', e) = Made(plan, e)
             /\ \A e \in 0 .. Len(plan) : \A b \in Bag : Destroyed(plan', b, e) <=> Destroyed(plan, b, e)
             /\ \A s \in Rank \ {r} : Entered(s)' = Entered(s)
             /\ Entered(r)' = epoch[r] + 1 /\ Entered(r) = epoch[r]
<1> DEFINE c == plan'[epoch[r] + 1]
           k == Made(plan, epoch[r])
<1>1. /\ plan' \in Seq(Entry) /\ PlanInv' /\ epoch[r] + 1 \in DOMAIN plan'
      /\ \A e \in DOMAIN plan : e \in DOMAIN plan' /\ plan'[e] = plan[e]
  BY PlanStep
<1>2. /\ r \notin inside /\ inside' = inside \cup {r} /\ epoch' = epoch
  BY DEF Enter, BSEnter
<1>3. Entered(r) = epoch[r] /\ Entered(r)' = epoch[r] + 1
  BY <1>2 DEF Entered
<1>4. \A s \in Rank \ {r} : Entered(s)' = Entered(s)
  BY <1>2 DEF Entered
<1>5. k \in Nat /\ epoch[r] \in Nat /\ epoch[r] <= Len(plan)
  BY MadeLemma
<1>6. Len(sptrs[r]) = k
  BY <1>3 DEF BagInv, RegistryInv
<1>7. plan \in Seq(Entry)
  BY DEF BagInv, BagTypeOK, Entry
<1>8. DOMAIN plan = 1 .. Len(plan) /\ Len(plan) \in Nat
  BY <1>7, LenProperties
<1>9. \A e \in 0 .. Len(plan) : Made(plan', e) = Made(plan, e)
  BY <1>1, <1>8 DEF Made
<1>10. \A e \in 0 .. Len(plan) : \A b \in Bag : Destroyed(plan', b, e) <=> Destroyed(plan, b, e)
  BY <1>1, <1>8 DEF Destroyed
<1>11. Made(plan', epoch[r] + 1) = c.made
  BY <1>2, <1>5 DEF Made
<1>12. Made(plan', epoch[r]) = k
  BY <1>5, <1>8, <1>9
<1>13. epoch[r] + 1 - 1 = epoch[r]
  BY <1>5
<1>14. /\ c.kind # "barrier" => c.bag \in Bag
       /\ c.kind # "construct" => c.made = k
       /\ c.kind = "construct" => c.made = k + 1 /\ c.bag = c.made
  <2> DEFINE e == epoch[r] + 1
  <2>1. e \in DOMAIN plan' /\ Made(plan', e - 1) = k
    BY <1>1, <1>5, <1>12, <1>13
  <2> HIDE DEF e
  <2>2. /\ plan'[e].kind # "barrier" => plan'[e].bag \in Bag
        /\ plan'[e].kind # "construct" => plan'[e].made = k
        /\ plan'[e].kind = "construct" => plan'[e].made = k + 1 /\ plan'[e].bag = plan'[e].made
    BY <1>1, <2>1 DEF PlanInv
  <2> QED
    BY <2>2 DEF e
<1>15. c \in Entry
  BY <1>1
<1> QED
  BY <1>3, <1>4, <1>5, <1>6, <1>9, <1>10, <1>11, <1>14, <1>15

(* Entering a barrier does not touch what is under way.                    *)
LEMMA EnterOthers ==
  ASSUME BagInv, NEW r \in Rank, Enter(r)
  PROVE  LockstepInv' /\ CallInv'
<1>1. /\ UNCHANGED <<epoch, ops, issued, executed>> /\ inside' = inside \cup {r}
      /\ LockstepInv /\ CallInv /\ BagTypeOK
  BY DEF Enter, BSEnter, BagInv
<1>2. LockstepInv'
  BY <1>1 DEF LockstepInv
<1>3. /\ \A e \in 0 .. Len(plan) : Made(plan', e) = Made(plan, e)
      /\ \A e \in 0 .. Len(plan) : \A b \in Bag : Destroyed(plan', b, e) <=> Destroyed(plan, b, e)
      /\ Len(plan) <= Len(plan') /\ Len(plan') \in Nat /\ Len(plan) \in Nat
  <2>1. plan \in Seq(Entry) /\ plan' \in Seq(Entry) /\ Len(plan) <= Len(plan')
    BY <1>1, PlanStep DEF BagTypeOK, Entry
  <2> QED
    BY <2>1, EnteredLemma, LenProperties
<1>4. CallInv'
  <2> SUFFICES ASSUME NEW m \in Pending
               PROVE  /\ m.id \in DOMAIN ops /\ m.epoch <= Len(plan')
                      /\ \A s \in Rank : epoch[s] <= m.epoch
                      /\ ops[m.id].idx + 1 = ops[m.id].bag
                      /\ ops[m.id].bag <= Made(plan', m.epoch) /\ ~Destroyed(plan', ops[m.id].bag, m.epoch)
    BY <1>1 DEF CallInv, Pending
  <2>1. /\ m.id \in DOMAIN ops /\ m.epoch <= Len(plan) /\ \A s \in Rank : epoch[s] <= m.epoch
        /\ ops[m.id].idx + 1 = ops[m.id].bag
        /\ ops[m.id].bag <= Made(plan, m.epoch) /\ ~Destroyed(plan, ops[m.id].bag, m.epoch)
    BY <1>1 DEF CallInv
  <2>2. m.epoch \in Nat
    BY <1>1 DEF BagTypeOK, Pending, Call
  <2>3. ops[m.id] \in Insertion
    <3>1. ops \in Seq(Insertion)
      BY <1>1 DEF BagTypeOK, Insertion
    <3>2. m.id \in DOMAIN ops
      BY <2>1
    <3> HIDE <2>1
    <3> QED
      BY <3>1, <3>2
  <2>4. ops[m.id].bag \in Bag
    BY <2>3 DEF Insertion
  <2> QED
    BY <1>3, <2>1, <2>2, <2>4
<1> QED
  BY <1>2, <1>4

(* Registering a part puts it where all other ranks have theirs.           *)
LEMMA EnterStep ==
  ASSUME BagInv, NEW r \in Rank, Enter(r)
  PROVE  BagInv'
<1> DEFINE c == plan'[epoch[r] + 1]
           k == Made(plan, epoch[r])
           part == NewPart(Len(sptrs[r]))
<1>1. /\ BeforeBarrier(r, c) /\ UNCHANGED <<epoch, ops, file, issued, executed>>
      /\ r \notin inside /\ inside' = inside \cup {r}
  BY DEF Enter, BSEnter
<1>2. /\ plan' \in Seq(Entry) /\ PlanInv' /\ epoch[r] + 1 \in DOMAIN plan'
      /\ Len(plan) <= Len(plan') /\ DOMAIN plan' = 1 .. Len(plan') /\ Len(plan') \in Nat
  BY PlanStep, LenProperties
<1>3. /\ k \in Nat /\ Len(sptrs[r]) = k /\ Made(plan', epoch[r] + 1) = c.made
      /\ c.kind # "construct" => c.made = k
      /\ c.kind = "construct" => c.bag = k + 1 /\ c.made = k + 1 /\ c.bag \in Bag
      /\ \A e \in 0 .. Len(plan) : Made(plan', e) = Made(plan, e)
      /\ \A e \in 0 .. Len(plan) : \A b \in Bag : Destroyed(plan', b, e) <=> Destroyed(plan, b, e)
      /\ \A s \in Rank \ {r} : Entered(s)' = Entered(s)
      /\ Entered(r)' = epoch[r] + 1 /\ Entered(r) = epoch[r]
  BY EnteredLemma
<1>4. BagTypeOK /\ RegistryInv /\ LiveInv /\ LockstepInv /\ CallInv
  BY DEF BagInv
<1>5. /\ bags \in [Rank -> [Bag -> Part]] /\ sptrs \in [Rank -> Seq(Bag)]
      /\ Len(plan) \in Nat
  BY <1>4, LenProperties DEF BagTypeOK, Part
<1>6. ASSUME NEW s \in Rank
      PROVE  /\ epoch[s] \in Nat /\ Entered(s) \in Nat /\ epoch[s] <= Entered(s)
             /\ Entered(s) <= Len(plan) /\ epoch[s] <= Len(plan)
             /\ Made(plan', Entered(s)') = IF s = r THEN c.made ELSE Made(plan, Entered(s))
             /\ Made(plan, Entered(s)) \in Nat
  BY <1>3, <1>4, <1>5, MadeLemma DEF RegistryInv
<1>7. part \in Part /\ part.live = TRUE /\ part.idx = k
  BY <1>3, NewPartLemma
<1>8. CASE c.kind = "construct"
  <2>1. /\ sptrs' = [sptrs EXCEPT ![r] = Append(@, c.bag)]
        /\ bags' = [bags EXCEPT ![r][c.bag] = part]
    BY <1>1, <1>8 DEF BeforeBarrier
  <2> HIDE DEF c, k, part
  <2>2. /\ bags' \in [Rank -> [Bag -> Part]]
        /\ \A s \in Rank : \A b \in Bag :
             bags'[s][b] = IF s = r /\ b = c.bag THEN part ELSE bags[s][b]
    BY <1>3, <1>5, <1>7, <1>8, <2>1
  <2>3. /\ sptrs' \in [Rank -> Seq(Bag)] /\ Len(sptrs'[r]) = k + 1 /\ sptrs'[r][k + 1] = k + 1
        /\ \A i \in 1 .. k : sptrs'[r][i] = sptrs[r][i]
        /\ \A s \in Rank \ {r} : sptrs'[s] = sptrs[s]
    BY <1>3, <1>5, <1>8, <2>1, AppendProperties
  <2>4. BagTypeOK'
    BY <1>1, <1>2, <1>4, <2>2, <2>3 DEF BagTypeOK, Part, Entry
  <2>5. ASSUME NEW s \in Rank
        PROVE  /\ Entered(s)' <= Len(plan') /\ Len(sptrs'[s]) = Made(plan', Entered(s)')
               /\ \A i \in 1 .. Len(sptrs'[s]) : sptrs'[s][i] = i
    <3>1. CASE s = r
      <4>1. Entered(s)' = epoch[r] + 1 /\ Made(plan', Entered(s)') = k + 1
        BY <1>3, <1>6, <1>8, <3>1
      <4>2. epoch[r] + 1 <= Len(plan')
        BY <1>2
      <4>3. \A i \in 1 .. k : sptrs[r][i] = i
        BY <1>3, <1>4 DEF RegistryInv
      <4>4. \A i \in 1 .. k + 1 : i \in 1 .. k \/ i = k + 1
        BY <1>3
      <4>5. \A i \in 1 .. k + 1 : sptrs'[r][i] = i
        BY <2>3, <4>3, <4>4
      <4> QED
        BY <2>3, <3>1, <4>1, <4>2, <4>5
    <3>2. CASE s # r
      BY <1>2, <1>3, <1>4, <1>5, <1>6, <2>3, <3>2 DEF RegistryInv
    <3> QED
      BY <3>1, <3>2
  <2>6. ASSUME NEW s \in Rank, NEW b \in Bag
        PROVE  /\ bags'[s][b].live = (b <= Made(plan', Entered(s)') /\ ~Destroyed(plan', b, epoch'[s]))
               /\ bags'[s][b].live => bags'[s][b].idx + 1 = b
    <3>1. /\ bags[s][b].live = (b <= Made(plan, Entered(s)) /\ ~Destroyed(plan, b, epoch[s]))
          /\ bags[s][b].live => bags[s][b].idx + 1 = b
      BY <1>4 DEF LiveInv
    <3>2. Destroyed(plan', b, epoch'[s]) <=> Destroyed(plan, b, epoch[s])
      BY <1>1, <1>3, <1>5, <1>6
    <3>3. CASE s # r
      BY <1>6, <2>2, <3>1, <3>2, <3>3
    <3>4. CASE s = r /\ b # c.bag
      <4>1. b <= c.made <=> b <= k
        BY <1>3, <1>8, <3>4, BagBoundAssumption DEF Bag
      <4>2. Made(plan, Entered(s)) = k
        BY <1>3, <3>4 DEF k
      <4> QED
        BY <1>6, <2>2, <3>1, <3>2, <3>4, <4>1, <4>2
    <3>5. CASE s = r /\ b = c.bag
      <4>1. b = k + 1 /\ c.made = k + 1
        BY <1>3, <1>8, <3>5
      <4>2. ~Destroyed(plan, b, epoch[s])
        <5> SUFFICES ASSUME NEW i \in 1 .. epoch[s], plan[i].kind = "destroy", plan[i].bag = b
                     PROVE  FALSE
          BY DEF Destroyed
        <5>1. i \in DOMAIN plan /\ epoch[s] \in DOMAIN plan /\ i <= epoch[s] /\ epoch[s] # 0
          <6>1. plan \in Seq(Entry)
            BY <1>4 DEF BagTypeOK, Entry
          <6>2. DOMAIN plan = 1 .. Len(plan) /\ epoch[s] \in Nat /\ epoch[s] <= Len(plan)
            BY <1>6, <6>1, LenProperties
          <6> QED
            BY <1>5, <6>2
        <5>2. plan[i].bag <= plan[i].made /\ plan[i].made <= plan[epoch[s]].made
          BY <5>1 DEF BagInv, PlanInv
        <5>3. plan[epoch[s]].made = k
          BY <3>5, <5>1 DEF k, Made
        <5>4. plan[i].made \in Nat
          <6>1. plan \in Seq(Entry)
            BY <1>4 DEF BagTypeOK, Entry
          <6>2. plan[i] \in Entry
            BY <5>1, <6>1
          <6> QED
            BY <6>2 DEF Entry
        <5> QED
          BY <1>3, <4>1, <5>2, <5>3, <5>4
      <4> QED
        <5>1. bags'[s][b] = part /\ Made(plan', Entered(s)') = k + 1 /\ b <= k + 1
          BY <1>3, <1>6, <2>2, <3>5, <4>1
        <5>2. part.live = TRUE /\ part.idx + 1 = b
          BY <1>7, <4>1
        <5>3. ~Destroyed(plan', b, epoch'[s])
          BY <3>2, <4>2
        <5> QED
          BY <5>1, <5>2, <5>3
    <3> QED
      BY <3>3, <3>4, <3>5
  <2>7. RegistryInv' /\ LiveInv'
    BY <2>5, <2>6 DEF RegistryInv, LiveInv
  <2> QED
    BY <1>1, <1>2, <1>3, <1>4, <2>4, <2>7, EnterOthers DEF BagInv
<1>9. CASE c.kind # "construct"
  <2>1. UNCHANGED <<bags, sptrs>>
    BY <1>1, <1>9 DEF BeforeBarrier
  <2> HIDE DEF c, part
  <2>2. BagTypeOK'
    BY <1>1, <1>2, <1>4, <2>1 DEF BagTypeOK, Entry
  <2>3. \A s \in Rank : Made(plan', Entered(s)') = Made(plan, Entered(s))
    BY <1>3, <1>6, <1>9
  <2>4. RegistryInv'
    <3> SUFFICES ASSUME NEW s \in Rank
                 PROVE  /\ Entered(s)' <= Len(plan') /\ Len(sptrs'[s]) = Made(plan', Entered(s)')
                        /\ \A i \in 1 .. Len(sptrs'[s]) : sptrs'[s][i] = i
      BY DEF RegistryInv
    <3>1. Entered(s)' <= Len(plan')
      BY <1>2, <1>3, <1>5, <1>6
    <3> QED
      BY <1>4, <2>1, <2>3, <3>1 DEF RegistryInv
  <2>5. LiveInv'
    <3> SUFFICES ASSUME NEW s \in Rank, NEW b \in Bag
                 PROVE  /\ bags'[s][b].live = (b <= Made(plan', Entered(s)') /\ ~Destroyed(plan', b, epoch'[s]))
                        /\ bags'[s][b].live => bags'[s][b].idx + 1 = b
      BY DEF LiveInv
    <3>1. Destroyed(plan', b, epoch'[s]) <=> Destroyed(plan, b, epoch[s])
      BY <1>1, <1>3, <1>5, <1>6
    <3> QED
      BY <1>4, <2>1, <2>3, <3>1 DEF LiveInv
  <2> QED
    BY <1>2, <2>2, <2>4, <2>5, EnterOthers DEF BagInv
<1> QED
  BY <1>8, <1>9
-----------------------------------------------------------------------------
(* The part of an operation after its barrier destroys a part or changes
   what parts hold.                                                        *)
WithItems(f, b, x) == [f EXCEPT ![b].items = x]

LEMMA PutItems ==
  ASSUME NEW f \in [Bag -> Part], NEW b \in Bag, NEW x \in Seq(Nat)
  PROVE  /\ WithItems(f, b, x) \in [Bag -> Part]
         /\ \A c \in Bag : /\ WithItems(f, b, x)[c].live = f[c].live
                          /\ WithItems(f, b, x)[c].idx = f[c].idx
<1> DEFINE g == WithItems(f, b, x)
           p == [f[b] EXCEPT !.items = x]
<1>1. [f[b] EXCEPT !.items = x] \in Part
  BY DEF Part
<1>2. /\ [f[b] EXCEPT !.items = x].live = f[b].live
      /\ [f[b] EXCEPT !.items = x].idx = f[b].idx
  BY DEF Part
<1>3. g = [f EXCEPT ![b] = p]
  BY DEF WithItems
<1> HIDE DEF g, p
<1>4. g \in [Bag -> Part] /\ g[b] = p /\ \A c \in Bag \ {b} : g[c] = f[c]
  BY <1>1, <1>3 DEF p
<1> QED
  BY <1>2, <1>4 DEF g, p

WithRoundRobin(f, b, x) == [f EXCEPT ![b].rr = x]

LEMMA PutRoundRobin ==
  ASSUME NEW f \in [Bag -> Part], NEW b \in Bag, NEW x \in Nat
  PROVE  /\ WithRoundRobin(f, b, x) \in [Bag -> Part]
         /\ \A c \in Bag : /\ WithRoundRobin(f, b, x)[c].live = f[c].live
                          /\ WithRoundRobin(f, b, x)[c].idx = f[c].idx
<1> DEFINE g == WithRoundRobin(f, b, x)
           p == [f[b] EXCEPT !.rr = x]
<1>1. [f[b] EXCEPT !.rr = x] \in Part
  BY DEF Part
<1>2. /\ [f[b] EXCEPT !.rr = x].live = f[b].live
      /\ [f[b] EXCEPT !.rr = x].idx = f[b].idx
  BY DEF Part
<1>3. g = [f EXCEPT ![b] = p]
  BY DEF WithRoundRobin
<1> HIDE DEF g, p
<1>4. g \in [Bag -> Part] /\ g[b] = p /\ \A c \in Bag \ {b} : g[c] = f[c]
  BY <1>1, <1>3 DEF p
<1> QED
  BY <1>2, <1>4 DEF g, p

LEMMA AfterLemma ==
  ASSUME BagTypeOK, NEW r \in Rank, NEW c \in Entry, AfterBarrier(r, c),
         c.kind # "barrier" => c.bag \in Bag /\ c.peer \in Bag
  PROVE  /\ bags' \in [Rank -> [Bag -> Part]]
         /\ \A s \in Rank : \A b \in Bag :
              IF s = r /\ c.kind = "destroy" /\ b = c.bag
              THEN bags'[s][b].live = FALSE
              ELSE bags'[s][b].live = bags[s][b].live /\ bags'[s][b].idx = bags[s][b].idx
<1> DEFINE f == bags[r]
           g == CASE c.kind = "destroy" -> [f EXCEPT ![c.bag] = NoBag]
                  [] c.kind = "clear"   -> [f EXCEPT ![c.bag].items = <<>>]
                  [] c.kind = "swap"    -> [f EXCEPT ![c.bag].items = f[c.peer].items,
                                                     ![c.peer].items = f[c.bag].items]
                  [] c.kind = "load"    -> [f EXCEPT ![c.bag].items = file[r].items,
                                                     ![c.bag].rr = file[r].rr]
                  [] OTHER -> f
<1>1. /\ bags \in [Rank -> [Bag -> Part]] /\ f \in [Bag -> Part]
      /\ file[r].items \in Seq(Nat) /\ file[r].rr \in Nat
  BY DEF BagTypeOK, Part
<1>2. bags' = [bags EXCEPT ![r] = g]
  BY DEF AfterBarrier
<1>3. /\ g \in [Bag -> Part]
      /\ \A b \in Bag : IF c.kind = "destroy" /\ b = c.bag THEN g[b].live = FALSE
                       ELSE g[b].live = f[b].live /\ g[b].idx = f[b].idx
  <2>1. CASE c.kind = "destroy"
    <3>1. g = [f EXCEPT ![c.bag] = NoBag]
      BY <2>1
    <3>2. NoBag \in Part /\ NoBag.live = FALSE
      BY DEF NoBag, Part
    <3>3. c.bag \in Bag
      BY <2>1
    <3> HIDE DEF f, g
    <3>4. /\ g \in [Bag -> Part] /\ g[c.bag] = NoBag
          /\ \A b \in Bag \ {c.bag} : g[b] = f[b]
      BY <1>1, <3>1, <3>2, <3>3
    <3> QED
      BY <2>1, <3>2, <3>4
  <2>2. CASE c.kind = "clear"
    <3>1. g = WithItems(f, c.bag, <<>>)
      BY <2>2 DEF WithItems
    <3>2. <<>> \in Seq(Nat) /\ c.bag \in Bag
      BY <2>2
    <3> HIDE DEF f, g
    <3> QED
      BY <1>1, <2>2, <3>1, <3>2, PutItems, ZenonT(40)
  <2>3. CASE c.kind = "swap"
    <3> DEFINE x == f[c.peer].items
               y == f[c.bag].items
               h == WithItems(f, c.bag, x)
    <3>1. g = WithItems(h, c.peer, y)
      BY <2>3 DEF WithItems
    <3>2. c.bag \in Bag /\ c.peer \in Bag
      BY <2>3
    <3>3. x \in Seq(Nat) /\ y \in Seq(Nat)
      BY <1>1, <3>2 DEF Part
    <3> HIDE DEF f, g, x, y
    <3>4. /\ h \in [Bag -> Part]
          /\ \A b \in Bag : h[b].live = f[b].live /\ h[b].idx = f[b].idx
      BY <1>1, <3>2, <3>3, PutItems
    <3> HIDE DEF h
    <3>5. /\ g \in [Bag -> Part]
          /\ \A b \in Bag : g[b].live = h[b].live /\ g[b].idx = h[b].idx
      BY <3>1, <3>2, <3>3, <3>4, PutItems
    <3> QED
      BY <2>3, <3>4, <3>5
  <2>4. CASE c.kind = "load"
    <3> DEFINE h == WithItems(f, c.bag, file[r].items)
    <3>1. g = WithRoundRobin(h, c.bag, file[r].rr)
      BY <2>4 DEF WithItems, WithRoundRobin
    <3>2. c.bag \in Bag
      BY <2>4
    <3> HIDE DEF f, g
    <3>3. /\ h \in [Bag -> Part]
          /\ \A b \in Bag : h[b].live = f[b].live /\ h[b].idx = f[b].idx
      BY <1>1, <3>2, PutItems
    <3> HIDE DEF h
    <3>4. /\ g \in [Bag -> Part]
          /\ \A b \in Bag : g[b].live = h[b].live /\ g[b].idx = h[b].idx
      BY <1>1, <3>1, <3>2, <3>3, PutRoundRobin
    <3> QED
      BY <2>4, <3>3, <3>4
  <2>5. CASE c.kind \notin {"destroy", "clear", "swap", "load"}
    <3>1. g = f
      BY <2>5
    <3> QED
      BY <1>1, <2>5, <3>1
  <2> QED
    BY <2>1, <2>2, <2>3, <2>4, <2>5
<1> HIDE DEF g
<1>4. bags' \in [Rank -> [Bag -> Part]]
  BY <1>1, <1>2, <1>3
<1>5. bags'[r] = g /\ \A s \in Rank \ {r} : bags'[s] = bags[s]
  BY <1>1, <1>2
<1> QED
  BY <1>3, <1>4, <1>5

(* Only when nothing of the epoch is under way does a rank go on and destroy. *)
LEMMA LeaveStep ==
  ASSUME BagInv, NEW r \in Rank, Leave(r)
  PROVE  BagInv'
<1> DEFINE c == plan[epoch[r] + 1]
           e == epoch[r]
<1>1. /\ r \in inside /\ inside' = inside \ {r} /\ epoch' = [epoch EXCEPT ![r] = @ + 1]
      /\ \A s \in Rank : (epoch[s] = e /\ s \in inside) \/ epoch[s] = e + 1
      /\ \A m \in Pending : m.epoch # e
      /\ AfterBarrier(r, c) /\ UNCHANGED <<sptrs, ops, plan, issued, executed>>
  BY DEF Leave, BSLeave
<1>2. BagTypeOK /\ PlanInv /\ RegistryInv /\ LiveInv /\ LockstepInv /\ CallInv
  BY DEF BagInv
<1>3. epoch \in [Rank -> Nat] /\ plan \in Seq(Entry) /\ e \in Nat
  BY <1>2 DEF BagTypeOK, Entry
<1>4. /\ epoch' \in [Rank -> Nat] /\ epoch'[r] = e + 1
      /\ \A s \in Rank \ {r} : epoch'[s] = epoch[s]
  BY <1>1, <1>3
<1>5. Entered(r) = e + 1 /\ Entered(r)' = e + 1
  BY <1>1, <1>4 DEF Entered
<1>6. ASSUME NEW s \in Rank PROVE Entered(s)' = Entered(s)
  <2>1. CASE s = r
    BY <1>5, <2>1
  <2>2. CASE s # r
    BY <1>1, <1>4, <2>2 DEF Entered
  <2> QED
    BY <2>1, <2>2
<1>7. e + 1 \in DOMAIN plan /\ c \in Entry
  <2>1. e + 1 <= Len(plan)
    BY <1>2, <1>5 DEF RegistryInv
  <2>2. DOMAIN plan = 1 .. Len(plan) /\ Len(plan) \in Nat
    BY <1>3, LenProperties
  <2>3. e + 1 \in DOMAIN plan
    BY <1>3, <2>1, <2>2
  <2> QED
    BY <1>3, <2>3
<1>8. c.kind # "barrier" => c.bag \in Bag /\ c.peer \in Bag
  <2> DEFINE n == e + 1
  <2>1. n \in DOMAIN plan
    BY <1>7
  <2> HIDE DEF n
  <2>2. plan[n].kind # "barrier" => plan[n].bag \in Bag /\ plan[n].peer \in Bag
    BY <1>2, <2>1 DEF PlanInv
  <2> QED
    BY <2>2 DEF n
<1> HIDE DEF c
<1>9. /\ bags' \in [Rank -> [Bag -> Part]]
      /\ \A s \in Rank : \A b \in Bag :
           IF s = r /\ c.kind = "destroy" /\ b = c.bag
           THEN bags'[s][b].live = FALSE
           ELSE bags'[s][b].live = bags[s][b].live /\ bags'[s][b].idx = bags[s][b].idx
  BY <1>1, <1>2, <1>7, <1>8, AfterLemma
<1>10. BagTypeOK'
  <2>1. file' \in [Rank -> [items : Seq(Nat), rr : Nat]]
    <3> DEFINE saved == [items |-> bags[r][c.bag].items, rr |-> bags[r][c.bag].rr]
    <3>1. file \in [Rank -> [items : Seq(Nat), rr : Nat]] /\ bags \in [Rank -> [Bag -> Part]]
      BY <1>2 DEF BagTypeOK, Part
    <3>2. CASE c.kind # "save"
      BY <1>1, <3>1, <3>2 DEF AfterBarrier
    <3>3. CASE c.kind = "save"
      <4>1. bags[r][c.bag] \in Part
        BY <1>8, <3>1, <3>3
      <4>2. saved \in [items : Seq(Nat), rr : Nat]
        BY <4>1 DEF Part
      <4>3. file' = [file EXCEPT ![r] = saved]
        BY <1>1, <3>3 DEF AfterBarrier
      <4> HIDE DEF saved
      <4> QED
        BY <3>1, <4>2, <4>3
    <3> QED
      BY <3>2, <3>3
  <2> QED
    BY <1>1, <1>2, <1>4, <1>9, <2>1 DEF BagTypeOK, Part
<1>11. PlanInv'
  BY <1>1, <1>2 DEF PlanInv
<1>12. RegistryInv'
  <2> SUFFICES ASSUME NEW s \in Rank
               PROVE  /\ Entered(s)' <= Len(plan) /\ Len(sptrs[s]) = Made(plan, Entered(s)')
                      /\ \A i \in 1 .. Len(sptrs[s]) : sptrs[s][i] = i
    BY <1>1 DEF RegistryInv
  <2> QED
    BY <1>2, <1>6 DEF RegistryInv
<1>13. LiveInv'
  <2> SUFFICES ASSUME NEW s \in Rank, NEW b \in Bag
               PROVE  /\ bags'[s][b].live =
                           (b <= Made(plan, Entered(s)') /\ ~Destroyed(plan, b, epoch'[s]))
                      /\ bags'[s][b].live => bags'[s][b].idx + 1 = b
    BY <1>1 DEF LiveInv
  <2>1. /\ bags[s][b].live = (b <= Made(plan, Entered(s)) /\ ~Destroyed(plan, b, epoch[s]))
        /\ bags[s][b].live => bags[s][b].idx + 1 = b
    BY <1>2 DEF LiveInv
  <2>2. CASE s # r
    BY <1>4, <1>6, <1>9, <2>1, <2>2
  <2>3. CASE s = r
    <3>1. Destroyed(plan, b, e + 1) <=>
            Destroyed(plan, b, e) \/ (c.kind = "destroy" /\ c.bag = b)
      <4>1. \A i \in 1 .. e + 1 : i \in 1 .. e \/ i = e + 1
        BY <1>3
      <4>2. 1 .. e \subseteq 1 .. e + 1 /\ e + 1 \in 1 .. e + 1
        BY <1>3
      <4> QED
        BY <4>1, <4>2 DEF Destroyed, c
    <3>2. epoch'[s] = e + 1 /\ epoch[s] = e
      BY <1>4, <2>3
    <3>3. CASE c.kind = "destroy" /\ b = c.bag
      BY <1>9, <2>3, <3>1, <3>2, <3>3
    <3>4. CASE ~(c.kind = "destroy" /\ b = c.bag)
      BY <1>6, <1>9, <2>1, <2>3, <3>1, <3>2, <3>4
    <3> QED
      BY <3>3, <3>4
  <2> QED
    BY <2>2, <2>3
<1>14. LockstepInv'
  <2> SUFFICES ASSUME NEW t \in Rank, NEW s \in Rank, epoch'[s] < epoch'[t]
               PROVE  s \in inside' /\ epoch'[t] = epoch'[s] + 1
    BY DEF LockstepInv
  <2>1. epoch[s] \in {e, e + 1} /\ epoch[t] \in {e, e + 1}
    BY <1>1
  <2>2. s # r /\ epoch'[s] = e
    BY <1>3, <1>4, <2>1, SMTT(30)
  <2>3. epoch'[t] = e + 1 /\ epoch[s] = e
    BY <1>3, <1>4, <2>1, <2>2
  <2>4. s \in inside
    BY <1>1, <1>3, <2>3
  <2> QED
    BY <1>1, <2>2, <2>3, <2>4
<1>15. CallInv'
  <2> SUFFICES ASSUME NEW m \in Pending, NEW s \in Rank
               PROVE  epoch'[s] <= m.epoch
    BY <1>1, <1>2 DEF CallInv, Pending
  <2>1. epoch[s] <= m.epoch /\ epoch[r] <= m.epoch /\ m.epoch # e
    BY <1>1, <1>2 DEF CallInv
  <2>2. m.epoch \in Nat
    BY <1>2 DEF BagTypeOK, Pending, Call
  <2> QED
    BY <1>3, <1>4, <2>1, <2>2
<1> QED
  BY <1>10, <1>11, <1>12, <1>13, <1>14, <1>15 DEF BagInv
-----------------------------------------------------------------------------
(* BagInv is inductive.                                                    *)
LEMMA BagStep == BagInv /\ [BagNext]_bagVars => BagInv'
<1> SUFFICES ASSUME BagInv, [BagNext]_bagVars PROVE BagInv'
  OBVIOUS
<1>1. ASSUME UNCHANGED <<bsVars, sptrs, bags, file, ops, plan>> PROVE BagInv'
  BY <1>1 DEF BagInv, bsVars, BagTypeOK, PlanInv, RegistryInv, LiveInv, LockstepInv, CallInv,
              Entered, Pending
<1>2. ASSUME NEW r \in Rank, NEW b \in Bag, Insert(r, b) PROVE BagInv'
  BY <1>2, InsertStep
<1>3. ASSUME NEW r \in Rank, NEW b \in Bag, LocalForAll(r, b) PROVE BagInv'
  BY <1>1, <1>3 DEF LocalForAll
<1>4. ASSUME NEW r \in Rank, NextItem(r) PROVE BagInv'
  BY <1>1, <1>4 DEF NextItem
<1>5. ASSUME NEW r \in Rank, Enter(r) PROVE BagInv'
  BY <1>5, EnterStep
<1>6. ASSUME NEW r \in Rank, Leave(r) PROVE BagInv'
  BY <1>6, LeaveStep
<1>7. ASSUME NEW m \in Pending, Handle(m) PROVE BagInv'
  BY <1>7, HandleStep
<1>8. CASE Ended \/ UNCHANGED bagVars
  BY <1>1, <1>8 DEF Ended, bagVars
<1> QED
  BY <1>2, <1>3, <1>4, <1>5, <1>6, <1>7, <1>8 DEF BagNext

(* The ranks' registries, lives of bags and calls under way stay in step with
   the plan of the program, however far apart the ranks are.               *)
THEOREM BagInvariant == BagSpec => []BagInv
<1> QED
  BY BagInitLemma, BagStep, PTL DEF BagSpec

(* A call that travels with the index of a bag finds that bag, and finds it
   alive, at every rank (ygm_ptr.hpp 14-26, bag_impl.hpp 20-31).           *)
THEOREM IndexResolves == BagSpec => []Resolves
<1>1. BagInv => Resolves
  <2> SUFFICES ASSUME BagInv, NEW m \in Pending, epoch[m.dst] = m.epoch
               PROVE  LET op == ops[m.id]
                      IN  /\ op.idx + 1 \in DOMAIN sptrs[m.dst]
                          /\ Deref(m.dst, op.idx) = op.bag
                          /\ bags[m.dst][op.bag].live
    BY DEF Resolves
  <2> DEFINE d == m.dst
             op == ops[m.id]
  <2>1. /\ BagTypeOK /\ RegistryInv /\ LiveInv /\ CallInv
    BY DEF BagInv
  <2>2. /\ m.id \in DOMAIN ops /\ op.idx + 1 = op.bag
        /\ op.bag <= Made(plan, m.epoch) /\ ~Destroyed(plan, op.bag, m.epoch)
    BY <2>1 DEF CallInv
  <2>3. d \in Rank
    BY <2>1 DEF BagTypeOK, Pending, Call
  <2>4. op \in Insertion
    <3>1. ops \in Seq(Insertion)
      BY <2>1 DEF BagTypeOK, Insertion
    <3>2. m.id \in DOMAIN ops
      BY <2>2
    <3> HIDE <2>2
    <3> QED
      BY <3>1, <3>2
  <2>5. op.bag \in Bag /\ op.idx \in Nat
    BY <2>4 DEF Insertion
  <2>6. /\ Made(plan, epoch[d]) \in Nat /\ Made(plan, Entered(d)) \in Nat
        /\ Made(plan, epoch[d]) <= Made(plan, Entered(d))
    BY <2>3, MadeLemma
  <2>7. op.bag <= Made(plan, Entered(d))
    BY <2>2, <2>5, <2>6, BagBoundAssumption DEF Bag
  <2>8. bags[d][op.bag].live
    BY <2>1, <2>2, <2>3, <2>5, <2>7 DEF LiveInv
  <2>9. sptrs[d] \in Seq(Bag) /\ Len(sptrs[d]) = Made(plan, Entered(d))
        /\ \A i \in 1 .. Len(sptrs[d]) : sptrs[d][i] = i
    BY <2>1, <2>3 DEF BagTypeOK, RegistryInv
  <2>10. op.bag \in 1 .. Len(sptrs[d]) /\ DOMAIN sptrs[d] = 1 .. Len(sptrs[d])
    BY <2>5, <2>6, <2>7, <2>9, LenProperties, BagBoundAssumption DEF Bag
  <2> QED
    BY <2>2, <2>8, <2>9, <2>10 DEF Deref
<1> QED
  BY <1>1, BagInvariant, PTL
-----------------------------------------------------------------------------
(* Adding at the end of a sequence leaves its beginnings alone.            *)
LEMMA PrefixLemma ==
  ASSUME NEW s \in Seq(Nat), NEW n \in Nat, NEW k \in Nat, k <= Len(s)
  PROVE  SubSeq(Append(s, n), 1, k) = SubSeq(s, 1, k)
<1>1. /\ Append(s, n) \in Seq(Nat) /\ Len(s) \in Nat /\ Len(Append(s, n)) = Len(s) + 1
      /\ \A i \in 1 .. Len(s) : Append(s, n)[i] = s[i]
  BY AppendProperties, LenProperties
<1>2. /\ Len(SubSeq(s, 1, k)) = k /\ Len(SubSeq(Append(s, n), 1, k)) = k
      /\ SubSeq(s, 1, k) \in Seq(Nat) /\ SubSeq(Append(s, n), 1, k) \in Seq(Nat)
      /\ \A i \in 1 .. k : SubSeq(s, 1, k)[i] = s[i]
      /\ \A i \in 1 .. k : SubSeq(Append(s, n), 1, k)[i] = Append(s, n)[i]
  BY <1>1
<1>3. \A i \in 1 .. k : SubSeq(Append(s, n), 1, k)[i] = SubSeq(s, 1, k)[i]
  BY <1>1, <1>2
<1> QED
  BY <1>2, <1>3, SeqEqual

LEMMA WholeLemma ==
  ASSUME NEW s \in Seq(Nat)
  PROVE  SubSeq(s, 1, Len(s)) = s
OBVIOUS

(* What the invariants say of the types that the proofs need.              *)
LEMMA IterTypes ==
  ASSUME BagInv, IterInv
  PROVE  /\ bags \in [Rank -> [Bag -> Part]] /\ epoch \in [Rank -> Nat]
         /\ \A r \in Rank : \A b \in Bag : bags[r][b].items \in Seq(Nat)
         /\ closed \in Seq([Rank -> [Bag -> Seq(Nat)]]) /\ Len(closed) \in Nat
         /\ DOMAIN closed = 1 .. Len(closed)
         /\ Items \in [Rank -> [Bag -> Seq(Nat)]]
         /\ ops \in Seq(Insertion)
<1>1. /\ bags \in [Rank -> [Bag -> Part]] /\ epoch \in [Rank -> Nat] /\ ops \in Seq(Insertion)
  BY DEF BagInv, BagTypeOK, Part, Insertion
<1>2. \A r \in Rank : \A b \in Bag : bags[r][b].items \in Seq(Nat)
  BY <1>1 DEF Part
<1>3. closed \in Seq([Rank -> [Bag -> Seq(Nat)]])
  BY DEF IterInv, IterTypeOK
<1>4. Items \in [Rank -> [Bag -> Seq(Nat)]]
  BY <1>2 DEF Items
<1> QED
  BY <1>1, <1>2, <1>3, <1>4, LenProperties

(* A rank outside barrier() is in the last epoch that has begun.           *)
LEMMA FrontLemma ==
  ASSUME BagInv, IterInv, NEW r \in Rank, epoch[r] # Len(closed)
  PROVE  /\ r \in inside /\ Len(closed) = epoch[r] + 1
         /\ \E s \in Rank : epoch[s] = epoch[r] + 1
<1>1. epoch \in [Rank -> Nat] /\ Len(closed) \in Nat /\ epoch[r] < Len(closed)
  BY IterTypes DEF IterInv, ClosedInv
<1>2. closed # <<>>
  BY <1>1
<1>3. PICK s \in Rank : epoch[s] = Len(closed)
  BY <1>2 DEF IterInv, ClosedInv
<1> QED
  BY <1>1, <1>3 DEF BagInv, LockstepInv
-----------------------------------------------------------------------------
(* An insertion n arrives at rank r, which is in the epoch it was made in. *)
LEMMA GrowStep ==
  ASSUME BagInv, IterInv, NEW r \in Rank, NEW n \in Nat,
         UNCHANGED <<epoch, inside, closed, iter>>, epoch[r] = Len(closed),
         \A s \in Rank : \A b \in Bag :
           \/ bags'[s][b].items = bags[s][b].items
           \/ s = r /\ bags'[s][b].items = Append(bags[s][b].items, n),
         n \in DOMAIN ops', ops'[n].epoch = epoch[r],
         \A k \in DOMAIN ops : k \in DOMAIN ops' /\ ops'[k] = ops[k],
         \A m \in Pending' : ops'[m.id].epoch = m.epoch
  PROVE  IterInv'
<1>1. IterTypeOK' /\ IterTypeOK /\ ClosedInv /\ GrowthInv /\ IterationSafe
  BY DEF IterInv, IterTypeOK
<1>2. /\ \A s \in Rank : \A b \in Bag : bags[s][b].items \in Seq(Nat)
      /\ epoch \in [Rank -> Nat] /\ Len(closed) \in Nat
  BY IterTypes
<1>3. ClosedInv'
  <2>1. ASSUME NEW s \in Rank, epoch[s] < Len(closed)
        PROVE  Items'[s] = closed[epoch[s] + 1][s]
    <3>1. s # r
      BY <1>2, <2>1
    <3>2. Items'[s] = Items[s]
      BY <3>1 DEF Items
    <3> QED
      BY <1>1, <2>1, <3>2 DEF ClosedInv
  <2> QED
    BY <1>1, <2>1 DEF ClosedInv
<1>4. ASSUME NEW s \in Rank, Iterating(s), iter[s].synced
      PROVE  LET b     == iter[s].bag
                 items == bags'[s][b].items
             IN  /\ s \notin inside /\ epoch[s] > 0 /\ iter[s].size <= Len(items)
                 /\ SubSeq(items, 1, iter[s].size) = closed[epoch[s]][s][b]
                 /\ \A i \in iter[s].size + 1 .. Len(items) :
                      items[i] \in DOMAIN ops' /\ ops'[items[i]].epoch = epoch[s]
  <2> DEFINE b == iter[s].bag
             k == iter[s].size
             old == bags[s][b].items
             new == bags'[s][b].items
  <2>1. b \in Bag /\ k \in Nat
    <3>1. iter[s] \in Iteration
      BY <1>1, <1>4 DEF IterTypeOK, Iterating
    <3> QED
      BY <3>1 DEF Iteration
  <2>2. /\ s \notin inside /\ epoch[s] > 0 /\ k <= Len(old)
        /\ SubSeq(old, 1, k) = closed[epoch[s]][s][b]
        /\ \A i \in k + 1 .. Len(old) : old[i] \in DOMAIN ops /\ ops[old[i]].epoch = epoch[s]
    BY <1>1, <1>4 DEF GrowthInv, IterationSafe
  <2>3. old \in Seq(Nat) /\ (new = old \/ (s = r /\ new = Append(old, n)))
    BY <1>2, <2>1
  <2> HIDE DEF b, k, old, new
  <2>4. CASE new = old
    BY <2>2, <2>4 DEF b, k, new
  <2>5. CASE s = r /\ new = Append(old, n)
    <3>1. SubSeq(new, 1, k) = SubSeq(old, 1, k)
      BY <2>1, <2>2, <2>3, <2>5, PrefixLemma
    <3>2. /\ Len(new) = Len(old) + 1 /\ new[Len(old) + 1] = n /\ Len(old) \in Nat
          /\ \A i \in 1 .. Len(old) : new[i] = old[i]
      BY <2>3, <2>5, AppendProperties, LenProperties
    <3>3. ASSUME NEW i \in k + 1 .. Len(new)
          PROVE  new[i] \in DOMAIN ops' /\ ops'[new[i]].epoch = epoch[s]
      <4>1. CASE i = Len(old) + 1
        BY <2>5, <3>2, <4>1
      <4>2. CASE i # Len(old) + 1
        <5>1. i \in k + 1 .. Len(old) /\ i \in 1 .. Len(old)
          BY <2>1, <3>2, <3>3, <4>2
        <5>2. new[i] = old[i]
          BY <3>2, <5>1
        <5>3. old[i] \in DOMAIN ops /\ ops[old[i]].epoch = epoch[s]
          BY <2>2, <5>1
        <5> QED
          BY <5>2, <5>3
      <4> QED
        BY <4>1, <4>2
    <3>4. /\ s \notin inside /\ epoch[s] > 0 /\ k <= Len(new)
          /\ SubSeq(new, 1, k) = closed[epoch[s]][s][b]
      BY <2>1, <2>2, <3>1, <3>2
    <3> QED
      BY <3>3, <3>4 DEF b, k, new
  <2> QED
    BY <2>3, <2>4, <2>5
<1>5. IterationSafe'
  BY <1>4 DEF IterationSafe, Iterating
<1>6. GrowthInv'
  BY <1>1, <1>4 DEF GrowthInv, Iterating
<1> QED
  BY <1>1, <1>3, <1>5, <1>6 DEF IterInv

(* One item more, at the rank and in the bag of the index.                 *)
LEMMA PushedItems ==
  ASSUME NEW bs \in [Rank -> [Bag -> Part]], NEW r \in Rank, NEW i, NEW n \in Nat
  PROVE  \A s \in Rank : \A b \in Bag :
           \/ PushBack(bs, r, i, n)[s][b].items = bs[s][b].items
           \/ s = r /\ PushBack(bs, r, i, n)[s][b].items = Append(bs[s][b].items, n)
<1> DEFINE x == Deref(r, i)
           f == [bs[r] EXCEPT ![x].items = Append(@, n)]
<1>1. PushBack(bs, r, i, n) = [bs EXCEPT ![r] = f]
  BY DEF PushBack
<1>2. ASSUME NEW b \in Bag
      PROVE  f[b].items = bs[r][b].items \/ f[b].items = Append(bs[r][b].items, n)
  <2>1. bs[r][b] \in Part /\ bs[r] \in [Bag -> Part]
    OBVIOUS
  <2>2. CASE b = x
    <3>1. f[b] = [bs[r][b] EXCEPT !.items = Append(@, n)]
      BY <2>1, <2>2
    <3> QED
      BY <2>1, <3>1 DEF Part
  <2>3. CASE b # x
    BY <2>1, <2>3
  <2> QED
    BY <2>2, <2>3
<1> HIDE DEF f
<1> QED
  BY <1>1, <1>2

(* The program inserts in the epoch its rank is in, and a call carries the
   epoch of its insertion.                                                 *)
LEMMA InsertedInEpoch ==
  ASSUME BagInv, IterInv, NEW r \in Rank, NEW b \in Bag, Insert(r, b)
  PROVE  /\ Len(ops) + 1 \in DOMAIN ops' /\ ops'[Len(ops) + 1].epoch = epoch[r]
         /\ \A k \in DOMAIN ops : k \in DOMAIN ops' /\ ops'[k] = ops[k]
         /\ \A m \in Pending' : ops'[m.id].epoch = m.epoch
<1> DEFINE n == Len(ops) + 1
           op == [bag |-> b, idx |-> bags[r][b].idx, epoch |-> epoch[r]]
           m0 == [id |-> n, src |-> r, dst |-> (bags[r][b].rr + r) % Size,
                  epoch |-> epoch[r], parent |-> 0]
<1>1. ops' = Append(ops, op) /\ op \in Insertion /\ ops \in Seq(Insertion)
  <2>1. bags[r][b] \in Part /\ epoch[r] \in Nat
    BY IterTypes
  <2> QED
    BY <2>1, IterTypes DEF Insert, Part, Insertion
<1>2. op.epoch = epoch[r] /\ m0.id = n /\ m0.epoch = epoch[r]
  OBVIOUS
<1>3. executed' = executed /\ (issued' = issued \/ issued' = issued \cup {m0})
  BY DEF Insert, BSIssue, bsVars
<1> HIDE DEF op, m0
<1>4. /\ n \in DOMAIN ops' /\ ops'[n] = op
      /\ \A k \in DOMAIN ops : k \in DOMAIN ops' /\ ops'[k] = ops[k]
  BY <1>1, AppendProperties, LenProperties
<1>5. ASSUME NEW m \in Pending' PROVE ops'[m.id].epoch = m.epoch
  <2>1. CASE m \in Pending
    <3>1. m.id \in DOMAIN ops /\ ops[m.id].epoch = m.epoch
      BY <2>1 DEF BagInv, CallInv, IterInv, GrowthInv
    <3> QED
      BY <1>4, <3>1
  <2>2. CASE m = m0
    BY <1>2, <1>4, <2>2
  <2> QED
    BY <1>3, <2>1, <2>2 DEF Pending
<1> QED
  BY <1>2, <1>4, <1>5

LEMMA CountedItems ==
  ASSUME NEW x \in Part
  PROVE  [x EXCEPT !.rr = @ + 1] \in Part /\ [x EXCEPT !.rr = @ + 1].items = x.items
BY DEF Part

(* The round-robin counter moves without the items.                        *)
LEMMA CountedBags ==
  ASSUME BagInv, NEW r \in Rank, NEW b \in Bag
  PROVE  LET counted == [bags EXCEPT ![r][b].rr = @ + 1]
         IN  /\ counted \in [Rank -> [Bag -> Part]]
             /\ \A s \in Rank : \A c \in Bag : counted[s][c].items = bags[s][c].items
<1> DEFINE p == [bags[r][b] EXCEPT !.rr = @ + 1]
           f == [bags[r] EXCEPT ![b] = p]
<1>1. bags \in [Rank -> [Bag -> Part]] /\ bags[r] \in [Bag -> Part] /\ bags[r][b] \in Part
  BY DEF BagInv, BagTypeOK, Part
<1>2. [bags EXCEPT ![r][b].rr = @ + 1] = [bags EXCEPT ![r] = f]
  BY <1>1
<1>3. p \in Part /\ p.items = bags[r][b].items
  BY <1>1, CountedItems
<1> HIDE DEF p
<1>4. f \in [Bag -> Part] /\ \A c \in Bag : f[c].items = bags[r][c].items
  <2>1. \A c \in Bag : f[c] = IF c = b THEN p ELSE bags[r][c]
    BY <1>1
  <2> QED
    BY <1>1, <1>3, <2>1
<1> HIDE DEF f
<1> QED
  BY <1>1, <1>2, <1>4

LEMMA IterInsert ==
  ASSUME BagInv, IterInv, NEW r \in Rank, NEW b \in Bag, Insert(r, b)
  PROVE  IterInv'
<1> DEFINE i == bags[r][b].idx
           n == Len(ops) + 1
           counted == [bags EXCEPT ![r][b].rr = @ + 1]
<1>1. bags \in [Rank -> [Bag -> Part]] /\ n \in Nat /\ bags[r] \in [Bag -> Part] /\ bags[r][b] \in Part
  BY IterTypes, LenProperties
<1>2. /\ counted \in [Rank -> [Bag -> Part]]
      /\ \A s \in Rank : \A c \in Bag : counted[s][c].items = bags[s][c].items
  BY CountedBags
<1>3. bags' = PushBack(counted, r, i, n) \/ bags' = counted
  BY DEF Insert
<1> HIDE DEF counted, n, i
<1>4. \A s \in Rank : \A c \in Bag :
        \/ bags'[s][c].items = bags[s][c].items
        \/ s = r /\ bags'[s][c].items = Append(bags[s][c].items, n)
  <2>1. CASE bags' = PushBack(counted, r, i, n)
    <3>1. \A s \in Rank : \A c \in Bag :
            \/ PushBack(counted, r, i, n)[s][c].items = counted[s][c].items
            \/ s = r /\ PushBack(counted, r, i, n)[s][c].items = Append(counted[s][c].items, n)
      <4>1. counted \in [Rank -> [Bag -> Part]] /\ n \in Nat
        BY <1>1, <1>2
      <4> QED
        BY <4>1, PushedItems
    <3>2. ASSUME NEW s \in Rank, NEW c \in Bag
          PROVE  \/ bags'[s][c].items = bags[s][c].items
                 \/ s = r /\ bags'[s][c].items = Append(bags[s][c].items, n)
      <4>1. counted[s][c].items = bags[s][c].items
        BY <1>2
      <4>2. \/ bags'[s][c].items = counted[s][c].items
            \/ s = r /\ bags'[s][c].items = Append(counted[s][c].items, n)
        BY <2>1, <3>1, Zenon
      <4> QED
        BY <4>1, <4>2
    <3> QED
      BY <3>2
  <2>2. CASE bags' = counted
    BY <1>2, <2>2
  <2> QED
    BY <1>3, <2>1, <2>2
<1>5. /\ UNCHANGED <<epoch, inside, closed, iter>> /\ r \notin inside
      /\ n \in DOMAIN ops' /\ ops'[n].epoch = epoch[r]
      /\ \A k \in DOMAIN ops : k \in DOMAIN ops' /\ ops'[k] = ops[k]
      /\ \A m \in Pending' : ops'[m.id].epoch = m.epoch
  BY InsertedInEpoch DEF Insert, BSIssue, bsVars, Active, n
<1>6. epoch[r] = Len(closed)
  BY <1>5, FrontLemma
<1> QED
  BY <1>1, <1>4, <1>5, <1>6, GrowStep

(* Only a call of the epoch that its destination is in runs there.         *)
LEMMA IterHandle ==
  ASSUME BagInv, IterInv, NEW m \in Pending, Handle(m)
  PROVE  IterInv'
<1> DEFINE r == m.dst
           n == m.id
<1>1. /\ UNCHANGED <<epoch, inside, closed, iter, ops, issued>> /\ m.epoch = epoch[r]
      /\ bags' = PushBack(bags, r, ops[n].idx, n) /\ executed' = executed \cup {m}
  BY DEF Handle, BSExecute
<1>2. m \in Call /\ r \in Rank /\ n \in Nat /\ m.epoch \in Nat
  BY DEF BagInv, BagTypeOK, Pending, Call
<1>3. n \in DOMAIN ops /\ ops[n].epoch = epoch[r] /\ \A s \in Rank : epoch[s] <= m.epoch
  BY <1>1 DEF BagInv, CallInv, IterInv, GrowthInv
<1>4. epoch[r] = Len(closed)
  BY <1>1, <1>2, <1>3, FrontLemma
<1>5. \A s \in Rank : \A b \in Bag :
        \/ bags'[s][b].items = bags[s][b].items
        \/ s = r /\ bags'[s][b].items = Append(bags[s][b].items, n)
  <2>1. bags \in [Rank -> [Bag -> Part]]
    BY IterTypes
  <2> HIDE DEF r, n
  <2>2. \A s \in Rank : \A b \in Bag :
          \/ PushBack(bags, r, ops[n].idx, n)[s][b].items = bags[s][b].items
          \/ s = r /\ PushBack(bags, r, ops[n].idx, n)[s][b].items = Append(bags[s][b].items, n)
    BY <1>2, <2>1, PushedItems
  <2> QED
    BY <1>1, <2>2
<1>6. \A c \in Pending' : ops'[c.id].epoch = c.epoch
  <2>1. Pending' \subseteq Pending /\ ops' = ops
    BY <1>1 DEF Pending
  <2> QED
    BY <2>1 DEF IterInv, GrowthInv
<1> QED
  BY <1>1, <1>2, <1>3, <1>4, <1>5, <1>6, GrowStep
-----------------------------------------------------------------------------
(* What the invariant says of the iteration of one rank.                   *)
IterAt(r) ==
  LET items == bags[r][iter[r].bag].items
  IN  Iterating(r) =>
        /\ r \notin inside
        /\ iter[r].synced =>
             /\ epoch[r] > 0 /\ iter[r].size <= Len(items)
             /\ SubSeq(items, 1, iter[r].size) = closed[epoch[r]][r][iter[r].bag]
             /\ \A i \in iter[r].size + 1 .. Len(items) :
                  items[i] \in DOMAIN ops /\ ops[items[i]].epoch = epoch[r]

LEMMA IterAtMeans ==
  (\A r \in Rank : IterAt(r)) /\ (\A m \in Pending : ops[m.id].epoch = m.epoch)
    <=> GrowthInv /\ IterationSafe
BY DEF IterAt, GrowthInv, IterationSafe

(* A rank to which nothing happens goes on iterating.                      *)
LEMMA IterAtKept ==
  ASSUME BagInv, IterInv, NEW r \in Rank, IterAt(r), ops' = ops,
         iter'[r] = iter[r], bags'[r] = bags[r], epoch'[r] = epoch[r],
         \A e \in DOMAIN closed : closed'[e] = closed[e],
         r \in inside' => r \in inside
  PROVE  IterAt(r)'
<1>1. CASE Iterating(r) /\ iter[r].synced
  <2>1. epoch[r] \in DOMAIN closed
    <3>1. epoch[r] > 0
      BY <1>1 DEF IterAt
    <3>2. epoch[r] <= Len(closed)
      BY DEF IterInv, ClosedInv
    <3>3. epoch[r] \in Nat /\ Len(closed) \in Nat /\ DOMAIN closed = 1 .. Len(closed)
      BY IterTypes
    <3> QED
      BY <3>1, <3>2, <3>3
  <2>2. closed'[epoch'[r]] = closed[epoch[r]]
    BY <2>1
  <2>3. bags'[r][iter'[r].bag].items = bags[r][iter[r].bag].items
    OBVIOUS
  <2> QED
    BY <1>1, <2>2, <2>3 DEF IterAt, Iterating
<1>2. CASE ~(Iterating(r) /\ iter[r].synced)
  BY <1>2 DEF IterAt, Iterating
<1> QED
  BY <1>1, <1>2

LEMMA IterEnter ==
  ASSUME BagInv, IterInv, NEW r \in Rank, Enter(r)
  PROVE  IterInv'
<1>1. /\ r \notin inside /\ ~Iterating(r) /\ inside' = inside \cup {r}
      /\ UNCHANGED <<epoch, issued, executed, iter, ops, closed>>
  BY DEF Enter, BSEnter
<1>2. \A s \in Rank \ {r} : bags'[s] = bags[s]
  BY IterTypes DEF Enter, BeforeBarrier
<1>3. epoch[r] = Len(closed)
  BY <1>1, FrontLemma
<1>4. /\ \A s \in Rank : IterAt(s)
      /\ \A m \in Pending : ops[m.id].epoch = m.epoch
  BY IterAtMeans DEF IterInv
<1>5. ASSUME NEW s \in Rank PROVE IterAt(s)'
  <2>1. CASE s = r
    BY <1>1, <2>1 DEF IterAt, Iterating
  <2>2. CASE s # r
    BY <1>1, <1>2, <1>4, <2>2, IterAtKept
  <2> QED
    BY <2>1, <2>2
<1>6. \A m \in Pending' : ops'[m.id].epoch = m.epoch
  BY <1>1, <1>4 DEF Pending
<1>7. GrowthInv' /\ IterationSafe'
  BY <1>5, <1>6 DEF IterAt, GrowthInv, IterationSafe
<1>8. ClosedInv'
  <2>1. ASSUME NEW s \in Rank, epoch[s] < Len(closed)
        PROVE  Items'[s] = closed[epoch[s] + 1][s]
    <3>1. s # r
      BY <1>3, <2>1, IterTypes
    <3>2. Items'[s] = Items[s]
      BY <1>2, <3>1 DEF Items
    <3> QED
      BY <2>1, <3>2 DEF IterInv, ClosedInv
  <2> QED
    BY <1>1, <2>1 DEF IterInv, ClosedInv
<1>9. IterTypeOK'
  BY <1>1 DEF IterInv, IterTypeOK
<1> QED
  BY <1>7, <1>8, <1>9 DEF IterInv

(* The first rank to leave a barrier sees what all of them hold there, and
   the others hold it until they leave.                                    *)
LEMMA ClosedGrows ==
  ASSUME BagInv, IterInv, NEW r \in Rank, Leave(r)
  PROVE  /\ closed' \in Seq([Rank -> [Bag -> Seq(Nat)]])
         /\ Len(closed') = epoch[r] + 1
         /\ \A e \in DOMAIN closed : closed'[e] = closed[e]
         /\ \A s \in Rank : epoch[s] = epoch[r] => Items[s] = closed'[epoch[r] + 1][s]
<1> DEFINE e == epoch[r]
<1>1. closed' = IF Len(closed) = e THEN Append(closed, Items) ELSE closed
  BY DEF Leave
<1>2. /\ closed \in Seq([Rank -> [Bag -> Seq(Nat)]]) /\ e \in Nat
      /\ Items \in [Rank -> [Bag -> Seq(Nat)]]
  BY IterTypes
<1> HIDE DEF e
<1>3. CASE Len(closed) = e
  <2>1. closed' = Append(closed, Items)
    BY <1>1, <1>3
  <2>2. /\ closed' \in Seq([Rank -> [Bag -> Seq(Nat)]])
        /\ Len(closed') = Len(closed) + 1 /\ closed'[Len(closed) + 1] = Items
        /\ \A i \in DOMAIN closed : closed'[i] = closed[i]
    BY <1>2, <2>1, AppendProperties, LenProperties
  <2> QED
    BY <1>3, <2>2 DEF e
<1>4. CASE Len(closed) # e
  <2>1. Len(closed) = e + 1
    BY <1>4, FrontLemma DEF e
  <2>2. \A s \in Rank : epoch[s] = e => Items[s] = closed[e + 1][s]
    <3> SUFFICES ASSUME NEW s \in Rank, epoch[s] = e PROVE Items[s] = closed[e + 1][s]
      OBVIOUS
    <3>1. epoch[s] < Len(closed)
      BY <1>2, <2>1
    <3>2. Items[s] = closed[epoch[s] + 1][s]
      BY <3>1 DEF IterInv, ClosedInv
    <3> QED
      BY <3>2
  <2>3. closed' = closed
    BY <1>1, <1>4
  <2> QED
    BY <1>2, <2>1, <2>2, <2>3 DEF e
<1> QED
  BY <1>3, <1>4

LEMMA IterLeave ==
  ASSUME BagInv, IterInv, NEW r \in Rank, Leave(r)
  PROVE  IterInv'
<1> DEFINE e == epoch[r]
           c == plan[e + 1]
<1>1. /\ r \in inside /\ inside' = inside \ {r} /\ epoch' = [epoch EXCEPT ![r] = @ + 1]
      /\ \A s \in Rank : epoch[s] = e \/ epoch[s] = e + 1
      /\ AfterBarrier(r, c) /\ UNCHANGED <<ops, issued, executed>>
  BY DEF Leave, BSLeave
<1>2. /\ closed' \in Seq([Rank -> [Bag -> Seq(Nat)]]) /\ Len(closed') = e + 1
      /\ \A i \in DOMAIN closed : closed'[i] = closed[i]
      /\ \A s \in Rank : epoch[s] = e => Items[s] = closed'[e + 1][s]
  BY ClosedGrows
<1>3. /\ epoch \in [Rank -> Nat] /\ e \in Nat /\ bags \in [Rank -> [Bag -> Part]]
      /\ DOMAIN closed' = 1 .. e + 1 /\ iter \in [Rank -> Iteration \cup {<<>>}]
  BY <1>2, IterTypes, LenProperties DEF IterInv, IterTypeOK
<1>4. epoch'[r] = e + 1 /\ \A s \in Rank \ {r} : epoch'[s] = epoch[s]
  BY <1>1, <1>3
<1>5. \A s \in Rank \ {r} : bags'[s] = bags[s]
  BY <1>1, <1>3 DEF AfterBarrier
<1>6. c.kind = "for_all" => c.bag \in Bag
  <2>1. e + 1 \in DOMAIN plan
    <3>1. Entered(r) <= Len(plan) /\ Entered(r) = e + 1
      BY <1>1 DEF BagInv, RegistryInv, Entered
    <3>2. DOMAIN plan = 1 .. Len(plan) /\ Len(plan) \in Nat
      BY LenProperties DEF BagInv, BagTypeOK
    <3> QED
      BY <1>3, <3>1, <3>2
  <2>2. c.kind # "barrier" => c.bag \in Bag
    BY <2>1 DEF BagInv, PlanInv
  <2> QED
    BY <2>2
<1>7. /\ \A s \in Rank : IterAt(s)
      /\ \A m \in Pending : ops[m.id].epoch = m.epoch
  BY IterAtMeans DEF IterInv
<1>8. ~Iterating(r)
  BY <1>1, <1>7 DEF IterAt
<1> DEFINE new == [bag |-> c.bag, size |-> Len(bags[r][c.bag].items), pos |-> 0, synced |-> TRUE]
<1>9. ASSUME c.kind = "for_all"
      PROVE  /\ iter' \in [Rank -> Iteration \cup {<<>>}] /\ IterAt(r)'
             /\ \A s \in Rank \ {r} : iter'[s] = iter[s]
  <2>1. iter' = [iter EXCEPT ![r] = new] /\ bags' = bags
    <3>1. StartIteration(r, c.bag, TRUE)
      BY <1>1, <1>9 DEF AfterBarrier
    <3>2. bags' = [bags EXCEPT ![r] = bags[r]]
      BY <1>1, <1>9 DEF AfterBarrier
    <3> QED
      BY <1>3, <3>1, <3>2 DEF StartIteration
  <2>2. bags[r][c.bag].items \in Seq(Nat) /\ Len(bags[r][c.bag].items) \in Nat
    BY <1>6, <1>9, IterTypes, LenProperties
  <2>3. new \in Iteration
    BY <1>6, <1>9, <2>2 DEF Iteration
  <2>4. /\ new.bag = c.bag /\ new.synced = TRUE
        /\ new.size = Len(bags[r][c.bag].items)
    OBVIOUS
  <2> HIDE DEF new
  <2>5. /\ iter'[r] = new /\ \A s \in Rank \ {r} : iter'[s] = iter[s]
        /\ iter' \in [Rank -> Iteration \cup {<<>>}]
    BY <1>3, <2>1, <2>3
  <2>6. IterAt(r)'
    <3> DEFINE items == bags[r][c.bag].items
    <3>1. SubSeq(items, 1, Len(items)) = items
      BY <2>2, WholeLemma
    <3>2. items = closed'[e + 1][r][c.bag]
      <4>1. Items[r] = closed'[e + 1][r]
        BY <1>2
      <4> QED
        BY <1>6, <1>9, <4>1 DEF Items
    <3>3. bags'[r][iter'[r].bag].items = items /\ iter'[r].size = Len(items)
      BY <2>1, <2>4, <2>5
    <3>4. r \notin inside' /\ epoch'[r] > 0
      BY <1>1, <1>3, <1>4
    <3>5. /\ iter'[r].size <= Len(items)
          /\ \A i \in iter'[r].size + 1 .. Len(items) : FALSE
      <4>1. Len(items) \in Nat
        BY <2>2
      <4> HIDE DEF items
      <4>2. Len(items) <= Len(items) /\ \A i \in Len(items) + 1 .. Len(items) : FALSE
        BY <4>1
      <4>3. iter'[r].size = Len(items)
        BY <3>3
      <4> QED
        BY <4>2, <4>3, Zenon
    <3> HIDE DEF items
    <3>6. SubSeq(items, 1, iter'[r].size) = closed'[epoch'[r]][r][iter'[r].bag]
      BY <1>4, <2>4, <2>5, <3>1, <3>2, <3>3
    <3> QED
      BY <3>3, <3>4, <3>5, <3>6 DEF IterAt
  <2> QED
    BY <2>5, <2>6
<1>10. ASSUME c.kind # "for_all"
      PROVE  /\ iter' \in [Rank -> Iteration \cup {<<>>}] /\ IterAt(r)'
             /\ \A s \in Rank \ {r} : iter'[s] = iter[s]
  <2>1. iter' = iter
    BY <1>1, <1>10 DEF AfterBarrier
  <2> QED
    BY <1>3, <1>8, <2>1 DEF IterAt, Iterating
<1>11. /\ iter' \in [Rank -> Iteration \cup {<<>>}] /\ IterAt(r)'
       /\ \A s \in Rank \ {r} : iter'[s] = iter[s]
  BY <1>9, <1>10
<1>12. \A s \in Rank : IterAt(s)'
  <2>1. ASSUME NEW s \in Rank, s # r PROVE IterAt(s)'
    BY <1>1, <1>2, <1>4, <1>5, <1>7, <1>11, <2>1, IterAtKept
  <2> QED
    BY <1>11, <2>1
<1>13. GrowthInv' /\ IterationSafe'
  <2>1. \A m \in Pending' : ops'[m.id].epoch = m.epoch
    BY <1>1, <1>7 DEF Pending
  <2> QED
    BY <1>12, <2>1 DEF IterAt, GrowthInv, IterationSafe
<1>14. ClosedInv'
  <2>1. epoch'[r] = Len(closed')
    BY <1>2, <1>4
  <2>2. ASSUME NEW s \in Rank
        PROVE  /\ epoch'[s] <= Len(closed')
               /\ epoch'[s] < Len(closed') => Items'[s] = closed'[epoch'[s] + 1][s]
    <3>1. CASE s = r
      BY <1>2, <1>3, <1>4, <3>1
    <3>2. CASE s # r
      <4>1. epoch'[s] = epoch[s] /\ epoch[s] \in {e, e + 1} /\ Items'[s] = Items[s]
        BY <1>1, <1>4, <1>5, <3>2 DEF Items
      <4>2. Len(closed') = e + 1 /\ (epoch[s] = e => Items[s] = closed'[e + 1][s])
        BY <1>2
      <4> QED
        BY <1>3, <4>1, <4>2
    <3> QED
      BY <3>1, <3>2
  <2> QED
    BY <2>1, <2>2 DEF ClosedInv
<1>15. IterTypeOK'
  BY <1>2, <1>11 DEF IterTypeOK
<1> QED
  BY <1>13, <1>14, <1>15 DEF IterInv
-----------------------------------------------------------------------------
(* Only iter changes, at r, and there the invariant is known to hold.      *)
LEMMA IterMoves ==
  ASSUME BagInv, IterInv, NEW r \in Rank, NEW x \in Iteration \cup {<<>>},
         iter' = [iter EXCEPT ![r] = x], IterAt(r)',
         UNCHANGED <<bsVars, sptrs, bags, file, ops, plan, closed>>
  PROVE  IterInv'
<1>1. /\ UNCHANGED <<issued, executed, epoch, inside, bags, ops, closed>>
      /\ iter \in [Rank -> Iteration \cup {<<>>}]
  BY DEF bsVars, IterInv, IterTypeOK
<1>2. IterTypeOK' /\ ClosedInv'
  BY <1>1 DEF IterInv, IterTypeOK, ClosedInv, Items
<1>3. /\ \A s \in Rank : IterAt(s)
      /\ \A m \in Pending : ops[m.id].epoch = m.epoch
  BY IterAtMeans DEF IterInv
<1>4. ASSUME NEW s \in Rank PROVE IterAt(s)'
  <2>1. CASE s # r
    <3>1. iter'[s] = iter[s]
      BY <1>1, <2>1
    <3> QED
      BY <1>1, <1>3, <3>1, IterAtKept
  <2> QED
    BY <2>1
<1>5. \A m \in Pending' : ops'[m.id].epoch = m.epoch
  BY <1>1, <1>3 DEF Pending
<1>6. GrowthInv'
  BY <1>4, <1>5 DEF IterAt, GrowthInv
<1>7. IterationSafe'
  BY <1>4 DEF IterAt, IterationSafe
<1> QED
  BY <1>2, <1>6, <1>7 DEF IterInv

LEMMA IterStart ==
  ASSUME BagInv, IterInv, NEW r \in Rank, NEW b \in Bag, LocalForAll(r, b)
  PROVE  IterInv'
<1> DEFINE x == [bag |-> b, size |-> Len(bags[r][b].items), pos |-> 0, synced |-> FALSE]
<1>1. /\ iter' = [iter EXCEPT ![r] = x] /\ r \notin inside
      /\ UNCHANGED <<bsVars, sptrs, bags, file, ops, plan, closed>>
  BY DEF LocalForAll, StartIteration, Active
<1>2. x \in Iteration /\ x.synced = FALSE
  BY IterTypes, LenProperties DEF Iteration
<1> HIDE DEF x
<1>3. iter'[r] = x
  BY <1>1 DEF IterInv, IterTypeOK
<1>4. IterAt(r)'
  BY <1>1, <1>2, <1>3 DEF IterAt, bsVars
<1> QED
  BY <1>1, <1>2, <1>4, IterMoves

LEMMA IterNext ==
  ASSUME BagInv, IterInv, NEW r \in Rank, NextItem(r)
  PROVE  IterInv'
<1> DEFINE x == IF iter[r].pos < iter[r].size THEN [iter[r] EXCEPT !.pos = iter[r].pos + 1] ELSE <<>>
<1>1. /\ Iterating(r) /\ iter' = [iter EXCEPT ![r] = x]
      /\ UNCHANGED <<bsVars, sptrs, bags, file, ops, plan, closed>>
  <2>1. Iterating(r) /\ UNCHANGED <<bsVars, sptrs, bags, file, ops, plan, closed>>
    BY DEF NextItem
  <2>2. iter' = [iter EXCEPT ![r] = x]
    BY DEF NextItem
  <2> QED
    BY <2>1, <2>2
<1>2. iter[r] \in Iteration
  <2>1. iter[r] \in Iteration \cup {<<>>} /\ iter[r] # <<>>
    BY <1>1 DEF IterInv, IterTypeOK, Iterating
  <2> QED
    BY <2>1, Zenon
<1>3. /\ x \in Iteration \cup {<<>>}
      /\ x = <<>> \/ (x.bag = iter[r].bag /\ x.size = iter[r].size /\ x.synced = iter[r].synced)
  BY <1>2 DEF Iteration
<1> HIDE DEF x
<1>4. iter'[r] = x
  BY <1>1 DEF IterInv, IterTypeOK
<1>5. IterAt(r)
  BY IterAtMeans DEF IterInv
<1>6. IterAt(r)'
  <2>1. UNCHANGED <<epoch, inside, bags, ops, closed>>
    BY <1>1 DEF bsVars
  <2>2. CASE x = <<>>
    BY <1>4, <2>2 DEF IterAt, Iterating
  <2>3. CASE x # <<>>
    <3>1. /\ iter'[r].bag = iter[r].bag /\ iter'[r].size = iter[r].size
          /\ iter'[r].synced = iter[r].synced
      BY <1>3, <1>4, <2>3
    <3> QED
      BY <1>1, <1>5, <2>1, <3>1 DEF IterAt
  <2> QED
    BY <2>2, <2>3
<1> QED
  BY <1>1, <1>3, <1>6, IterMoves

LEMMA IterInit == BagInit => IterInv
<1> SUFFICES ASSUME BagInit PROVE IterInv
  OBVIOUS
<1>1. /\ issued = {} /\ closed = <<>> /\ Len(closed) = 0
      /\ \A r \in Rank : epoch[r] = 0 /\ iter[r] = <<>>
      /\ iter = [r \in Rank |-> <<>>]
  BY DEF BagInit, BSInit
<1> QED
  BY <1>1 DEF IterInv, IterTypeOK, ClosedInv, GrowthInv, IterationSafe, Iterating, Pending

(* The invariant is inductive, given BagInv.                               *)
LEMMA IterStep == BagInv /\ IterInv /\ [BagNext]_bagVars => IterInv'
<1> SUFFICES ASSUME BagInv, IterInv, [BagNext]_bagVars PROVE IterInv'
  OBVIOUS
<1>1. CASE Ended \/ UNCHANGED bagVars
  <2>1. UNCHANGED <<issued, executed, epoch, inside, bags, iter, ops, closed>>
    BY <1>1 DEF Ended, bagVars, bsVars
  <2>2. IterTypeOK' /\ ClosedInv'
    BY <2>1 DEF IterInv, IterTypeOK, ClosedInv, Items
  <2>3. GrowthInv'
    BY <2>1 DEF IterInv, GrowthInv, Iterating, Pending
  <2>4. IterationSafe'
    BY <2>1 DEF IterInv, IterationSafe, Iterating
  <2> QED
    BY <2>2, <2>3, <2>4 DEF IterInv
<1>2. ASSUME NEW r \in Rank, NEW b \in Bag, Insert(r, b) PROVE IterInv'
  BY <1>2, IterInsert
<1>3. ASSUME NEW r \in Rank, NEW b \in Bag, LocalForAll(r, b) PROVE IterInv'
  BY <1>3, IterStart
<1>4. ASSUME NEW r \in Rank, NextItem(r) PROVE IterInv'
  BY <1>4, IterNext
<1>5. ASSUME NEW r \in Rank, Enter(r) PROVE IterInv'
  BY <1>5, IterEnter
<1>6. ASSUME NEW r \in Rank, Leave(r) PROVE IterInv'
  BY <1>6, IterLeave
<1>7. ASSUME NEW m \in Pending, Handle(m) PROVE IterInv'
  BY <1>7, IterHandle
<1> QED
  BY <1>1, <1>2, <1>3, <1>4, <1>5, <1>6, <1>7 DEF BagNext

(* What a rank in a barrier holds does not change once another has left the
   barrier, and an iteration only sees its bag grow.                       *)
THEOREM IterationInvariant == BagSpec => []IterInv
<1> QED
  BY BagInvariant, IterInit, IterStep, PTL DEF BagSpec

(* What for_all() iterates over is what the bag held at its barrier: only
   what the program inserts after the barrier is added meanwhile
   (bag_impl.hpp 33-37, 81-84).                                            *)
THEOREM IterationIsSafe == BagSpec => []IterationSafe
<1>1. IterInv => IterationSafe
  BY DEF IterInv
<1> QED
  BY <1>1, IterationInvariant, PTL
-----------------------------------------------------------------------------
(* What Descent amounts to for the operations of a program that uses bags.  *)
Sane(p) == /\ p \in Seq(Entry)
           /\ \A i \in DOMAIN p : p[i].kind # "barrier" => p[i].bag \in Bag /\ p[i].peer \in Bag

Later(L, c, e) ==
  [h \in Holder |-> {<<h, e>>} \cup IF From(c, h) = Nowhere THEN {} ELSE L[From(c, h)]]

LEMMA HolderFacts ==
  /\ Holder = 0 .. MaxBags /\ Bag \subseteq Holder /\ File \in Holder /\ File \notin Bag
  /\ Nowhere \in Nat /\ Nowhere \notin Holder /\ Bag \subseteq Nat /\ Holder \subseteq Nat
BY BagBoundAssumption DEF Holder, Bag, File, Nowhere

LEMMA FromType ==
  ASSUME NEW c, c.kind # "barrier" => c.bag \in Bag /\ c.peer \in Bag, NEW h \in Holder
  PROVE  From(c, h) \in Holder \cup {Nowhere}
BY HolderFacts DEF From

LEMMA MovesMove ==
  ASSUME NEW p, Sane(p)
  PROVE  /\ Moving(Holder, Nowhere, Moves(p)) /\ Len(Moves(p)) = Len(p)
         /\ Len(p) \in Nat /\ DOMAIN p = 1 .. Len(p)
         /\ \A e \in 1 .. Len(p) : Moves(p)[e] = [h \in Holder |-> From(p[e], h)]
<1> DEFINE n == Len(p)
           m == [e \in 1 .. n |-> [h \in Holder |-> From(p[e], h)]]
<1>1. n \in Nat /\ DOMAIN p = 1 .. n
  BY LenProperties DEF Sane
<1>2. Moves(p) = m
  BY <1>1 DEF Moves
<1>3. m \in [1 .. n -> [Holder -> Holder \cup {Nowhere}]]
  <2>1. ASSUME NEW e \in 1 .. n PROVE [h \in Holder |-> From(p[e], h)] \in [Holder -> Holder \cup {Nowhere}]
    <3>1. p[e].kind # "barrier" => p[e].bag \in Bag /\ p[e].peer \in Bag
      BY <1>1 DEF Sane
    <3>2. \A h \in Holder : From(p[e], h) \in Holder \cup {Nowhere}
      BY <3>1, FromType
    <3> QED
      BY <3>2
  <2> QED
    BY <2>1
<1>4. \A e \in 1 .. n : m[e] = [h \in Holder |-> From(p[e], h)]
  OBVIOUS
<1> HIDE DEF m, n
<1>5. m \in Seq([Holder -> Holder \cup {Nowhere}]) /\ Len(m) = n
  BY <1>1, <1>3
<1> QED
  BY <1>1, <1>2, <1>3, <1>4, <1>5 DEF Moving, n

LEMMA LineageAt ==
  ASSUME NEW p, Sane(p)
  PROVE  \A e \in 1 .. Len(p) : LineageOf(p)[e] = Later(LineageOf(p)[e - 1], p[e], e)
<1> DEFINE mv == Moves(p)
           L  == Descent(Holder, Nowhere, mv)
<1>1. /\ Moving(Holder, Nowhere, mv) /\ Len(mv) = Len(p)
      /\ \A e \in 1 .. Len(p) : mv[e] = [h \in Holder |-> From(p[e], h)]
  BY MovesMove
<1> HIDE DEF mv
<1>2. \A e \in 1 .. Len(mv) : L[e] = Inherit(Holder, Nowhere, L[e - 1], mv[e], e)
  BY <1>1, DescentAt
<1> HIDE DEF L
<1>3. ASSUME NEW e \in 1 .. Len(p) PROVE L[e] = Later(L[e - 1], p[e], e)
  <2>1. \A h \in Holder : mv[e][h] = From(p[e], h)
    BY <1>1
  <2> QED
    BY <1>1, <1>2, <2>1 DEF Inherit, Later
<1> QED
  BY <1>3 DEF L, mv, LineageOf

LEMMA LineageAged ==
  ASSUME NEW p, Sane(p)
  PROVE  \A e \in 0 .. Len(p) : LineageOf(p)[e] \in OriginsTo(Holder, e)
BY MovesMove, DescentAged DEF LineageOf

LEMMA LineageKept ==
  ASSUME NEW p, Sane(p), NEW q, Sane(q), NEW n \in Nat, n <= Len(p), n <= Len(q),
         \A i \in 1 .. n : p[i] = q[i]
  PROVE  \A i \in 0 .. n : LineageOf(p)[i] = LineageOf(q)[i]
<1>1. PICK mv, mw : mv = Moves(p) /\ mw = Moves(q)
  OBVIOUS
<1>2. /\ Moving(Holder, Nowhere, mv) /\ Len(mv) = Len(p) /\ Moving(Holder, Nowhere, mw) /\ Len(mw) = Len(q)
      /\ \A e \in 1 .. Len(p) : mv[e] = [h \in Holder |-> From(p[e], h)]
      /\ \A e \in 1 .. Len(q) : mw[e] = [h \in Holder |-> From(q[e], h)]
      /\ Len(p) \in Nat /\ Len(q) \in Nat
  BY <1>1, MovesMove
<1>3. \A i \in 1 .. n : mv[i] = mw[i]
  <2>1. ASSUME NEW i \in 1 .. n PROVE mv[i] = mw[i]
    <3>1. i \in 1 .. Len(p) /\ i \in 1 .. Len(q) /\ p[i] = q[i]
      BY <1>2
    <3> QED
      BY <1>2, <3>1
  <2> QED
    BY <2>1
<1>4. \A i \in 0 .. n : Descent(Holder, Nowhere, mv)[i] = Descent(Holder, Nowhere, mw)[i]
  BY <1>2, <1>3, DescentKept
<1> QED
  BY <1>1, <1>4 DEF LineageOf

(* What is inserted during epoch e in a bag belongs in it, and nowhere else
   yet.                                                                    *)
LEMMA OwnOrigin ==
  ASSUME NEW p, Sane(p), NEW e \in 0 .. Len(p), NEW b \in Bag, NEW h \in Holder
  PROVE  <<b, e>> \in LineageOf(p)[e][h] <=> h = b
<1>1. Moving(Holder, Nowhere, Moves(p)) /\ e \in 0 .. Len(Moves(p)) /\ b \in Holder
  BY MovesMove, HolderFacts
<1> QED
  BY <1>1, DescentOwn DEF LineageOf
-----------------------------------------------------------------------------
(* What all ranks hold, H[r][h], with the origins that belong there, K[r][h]:
   the parts of the invariant, of the values that a step changes.          *)
Of(os, n) == <<os[n].bag, os[n].epoch>>
Lists == [Rank -> [Holder -> Seq(Nat)]]

(* Item n is held by rank r and by no other, as it may be.                 *)
Alone(H, n, r) == \A s \in Rank \ {r} : \A g \in Holder : n \notin Range(H[s][g])
ItemOK(H, K, os, P, r, h, n) == /\ n \in DOMAIN os /\ Of(os, n) \in K[r][h]
                                /\ \A m \in P : m.id # n
                                /\ Alone(H, n, r)
HeldOK(H, K, os, P) ==
  \A r \in Rank : \A h \in Holder : /\ IsInjective(H[r][h])
                                    /\ \A n \in Range(H[r][h]) : ItemOK(H, K, os, P, r, h, n)

ArrivedAt(C, L, e, os, n) == /\ os[n].epoch <= e
                             /\ \A h \in Holder : Of(os, n) \in L[h] => n \in Range(C[h])
AllThere(H, K, ep, os, P) ==
  \A n \in DOMAIN os : (\E m \in P : m.id = n) \/ (\E r \in Rank : ArrivedAt(H[r], K[r], ep[r], os, n))

LEMMA RangeOf ==
  ASSUME NEW s \in Seq(Nat), NEW n \in Nat
  PROVE  /\ Range(Append(s, n)) = Range(s) \cup {n}
         /\ IsInjective(s) /\ n \notin Range(s) => IsInjective(Append(s, n))
<1> DEFINE t == Append(s, n)
<1>1. /\ DOMAIN t = DOMAIN s \cup {Len(s) + 1} /\ Len(s) + 1 \notin DOMAIN s
      /\ t[Len(s) + 1] = n /\ \A i \in DOMAIN s : t[i] = s[i]
  BY AppendProperties, LenProperties
<1> HIDE DEF t
<1>2. Range(t) = Range(s) \cup {n}
  BY <1>1 DEF Range
<1>3. IsInjective(s) /\ n \notin Range(s) => IsInjective(t)
  BY <1>1 DEF Range, IsInjective
<1> QED
  BY <1>2, <1>3 DEF t

LEMMA RangeOfNone == Range(<<>>) = {} /\ IsInjective(<<>>)
<1>1. DOMAIN <<>> = {}
  OBVIOUS
<1> QED
  BY <1>1 DEF Range, IsInjective

(* Item n arrives at rank r, in bag b: it was nowhere.                     *)
Pushed(H, J, r, b, n) == /\ J[r][b] = Append(H[r][b], n)
                         /\ \A s \in Rank : \A h \in Holder : s # r \/ h # b => J[s][h] = H[s][h]
Grown(os, ot) == \A k \in DOMAIN os : k \in DOMAIN ot /\ ot[k] = os[k]

LEMMA PushHeld ==
  ASSUME NEW H \in Lists, NEW J, NEW K, NEW os, NEW ot, NEW P, NEW Q,
         NEW r \in Rank, NEW b \in Holder, NEW n \in Nat,
         HeldOK(H, K, os, P), Pushed(H, J, r, b, n), Grown(os, ot),
         n \in DOMAIN ot, Of(ot, n) \in K[r][b],
         \A s \in Rank : \A h \in Holder : n \notin Range(H[s][h]),
         \A m \in Q : m \in P /\ m.id # n
  PROVE  HeldOK(J, K, ot, Q)
<1>1. \A s \in Rank : \A h \in Holder : H[s][h] \in Seq(Nat)
  BY DEF Lists
<1>2. /\ \A s \in Rank : \A h \in Holder : s # r \/ h # b => Range(J[s][h]) = Range(H[s][h])
      /\ Range(J[r][b]) = Range(H[r][b]) \cup {n}
  BY <1>1, RangeOf DEF Pushed
<1>3. ASSUME NEW s \in Rank, NEW h \in Holder PROVE IsInjective(J[s][h])
  <2>1. IsInjective(H[s][h]) /\ n \notin Range(H[s][h]) /\ H[s][h] \in Seq(Nat)
    BY <1>1 DEF HeldOK
  <2>2. CASE s = r /\ h = b
    BY <2>1, <2>2, RangeOf DEF Pushed
  <2>3. CASE s # r \/ h # b
    BY <2>1, <2>3 DEF Pushed
  <2> QED
    BY <2>2, <2>3
<1>4. ASSUME NEW s \in Rank, NEW h \in Holder, NEW k \in Range(J[s][h])
      PROVE  ItemOK(J, K, ot, Q, s, h, k)
  <2>1. CASE k \in Range(H[s][h])
    <3>1. ItemOK(H, K, os, P, s, h, k) /\ k # n
      BY <2>1 DEF HeldOK
    <3>2. k \in DOMAIN ot /\ Of(ot, k) \in K[s][h] /\ \A m \in Q : m.id # k
      BY <3>1 DEF ItemOK, Grown, Of
    <3>3. Alone(J, k, s)
      BY <1>2, <3>1 DEF ItemOK, Alone
    <3> QED
      BY <3>2, <3>3 DEF ItemOK
  <2>2. CASE k = n /\ s = r /\ h = b
    <3>1. Alone(J, n, r)
      BY <1>2 DEF Alone
    <3> QED
      BY <2>2, <3>1 DEF ItemOK
  <2> QED
    BY <1>2, <1>4, <2>1, <2>2
<1> QED
  BY <1>3, <1>4 DEF HeldOK

LEMMA PushAll ==
  ASSUME NEW H \in Lists, NEW J, NEW K, NEW ep, NEW os, NEW ot, NEW P, NEW Q,
         NEW r \in Rank, NEW b \in Holder, NEW n \in Nat,
         AllThere(H, K, ep, os, P), Pushed(H, J, r, b, n), Grown(os, ot),
         \A k \in DOMAIN ot : k \in DOMAIN os \/ k = n,
         ot[n].epoch <= ep[r], \A h \in Holder : Of(ot, n) \in K[r][h] => h = b,
         \A m \in P : m \in Q \/ m.id = n
  PROVE  AllThere(J, K, ep, ot, Q)
<1>1. \A s \in Rank : \A h \in Holder : H[s][h] \in Seq(Nat)
  BY DEF Lists
<1>2. /\ \A s \in Rank : \A h \in Holder : Range(H[s][h]) \subseteq Range(J[s][h])
      /\ n \in Range(J[r][b])
  <2>1. Range(J[r][b]) = Range(H[r][b]) \cup {n}
    BY <1>1, RangeOf DEF Pushed
  <2>2. \A s \in Rank : \A h \in Holder : s # r \/ h # b => Range(J[s][h]) = Range(H[s][h])
    BY DEF Pushed
  <2> QED
    BY <2>1, <2>2
<1>3. ASSUME NEW k \in DOMAIN ot
      PROVE  (\E m \in Q : m.id = k) \/ (\E s \in Rank : ArrivedAt(J[s], K[s], ep[s], ot, k))
  <2>1. CASE k = n
    <3>1. ArrivedAt(J[r], K[r], ep[r], ot, n)
      BY <1>2 DEF ArrivedAt
    <3> QED
      BY <2>1, <3>1
  <2>2. CASE k # n
    <3>1. k \in DOMAIN os /\ ot[k] = os[k]
      BY <1>3, <2>2 DEF Grown
    <3>2. CASE \E m \in P : m.id = k
      BY <2>2, <3>2
    <3>3. CASE \E s \in Rank : ArrivedAt(H[s], K[s], ep[s], os, k)
      <4>1. PICK s \in Rank : ArrivedAt(H[s], K[s], ep[s], os, k)
        BY <3>3
      <4>2. ArrivedAt(J[s], K[s], ep[s], ot, k)
        BY <1>2, <3>1, <4>1 DEF ArrivedAt, Of
      <4> QED
        BY <4>2
    <3> QED
      BY <3>1, <3>2, <3>3 DEF AllThere
  <2> QED
    BY <2>1, <2>2
<1> QED
  BY <1>3 DEF AllThere

(* An insertion is sent on its way.                                        *)
LEMMA SendHeld ==
  ASSUME NEW H, NEW K, NEW os, NEW ot, NEW P, NEW Q, NEW n,
         HeldOK(H, K, os, P), Grown(os, ot), n \notin DOMAIN os, \A m \in Q : m \in P \/ m.id = n
  PROVE  HeldOK(H, K, ot, Q)
<1>1. ASSUME NEW r \in Rank, NEW h \in Holder, NEW k \in Range(H[r][h])
      PROVE  ItemOK(H, K, ot, Q, r, h, k)
  <2>1. ItemOK(H, K, os, P, r, h, k)
    BY DEF HeldOK
  <2>2. k \in DOMAIN ot /\ ot[k] = os[k] /\ k # n
    BY <2>1 DEF ItemOK, Grown
  <2> QED
    BY <2>1, <2>2 DEF ItemOK, Of
<1> QED
  BY <1>1 DEF HeldOK

LEMMA SendAll ==
  ASSUME NEW H, NEW K, NEW ep, NEW os, NEW ot, NEW P, NEW Q, NEW n,
         AllThere(H, K, ep, os, P), Grown(os, ot), \A k \in DOMAIN ot : k \in DOMAIN os \/ k = n,
         P \subseteq Q, \E m \in Q : m.id = n
  PROVE  AllThere(H, K, ep, ot, Q)
<1>1. ASSUME NEW k \in DOMAIN ot, k # n
      PROVE  (\E m \in Q : m.id = k) \/ (\E s \in Rank : ArrivedAt(H[s], K[s], ep[s], ot, k))
  <2>1. k \in DOMAIN os /\ ot[k] = os[k]
    BY <1>1 DEF Grown
  <2>2. CASE \E m \in P : m.id = k
    BY <2>2
  <2>3. CASE \E s \in Rank : ArrivedAt(H[s], K[s], ep[s], os, k)
    <3>1. PICK s \in Rank : ArrivedAt(H[s], K[s], ep[s], os, k)
      BY <2>3
    <3>2. ArrivedAt(H[s], K[s], ep[s], ot, k)
      BY <2>1, <3>1 DEF ArrivedAt, Of
    <3> QED
      BY <3>2
  <2> QED
    BY <2>1, <2>2, <2>3 DEF AllThere
<1> QED
  BY <1>1 DEF AllThere

(* The rest of operation c, at rank r, which goes from one epoch to the next:
   every holder has what another had.                                      *)
Moved(H, J, r, c) ==
  /\ \A h \in Holder : J[r][h] = IF From(c, h) = Nowhere THEN <<>> ELSE H[r][From(c, h)]
  /\ \A s \in Rank \ {r} : J[s] = H[s]

LEMMA MoveHeld ==
  ASSUME NEW H, NEW J, NEW K, NEW M, NEW os, NEW P, NEW r \in Rank, NEW c, NEW e,
         c.kind # "barrier" => c.bag \in Bag /\ c.peer \in Bag,
         HeldOK(H, K, os, P), Moved(H, J, r, c),
         M[r] = Later(K[r], c, e), \A s \in Rank \ {r} : M[s] = K[s]
  PROVE  HeldOK(J, M, os, P)
<1>1. ASSUME NEW s \in Rank, NEW h \in Holder, NEW n \in Range(J[s][h])
      PROVE  \E g \in Holder : /\ n \in Range(H[s][g])
                               /\ \A o : o \in K[s][g] => o \in M[s][h]
  <2>1. CASE s # r
    BY <1>1, <2>1 DEF Moved
  <2>2. CASE s = r
    <3>1. PICK g : g = From(c, h)
      OBVIOUS
    <3>2. g # Nowhere
      BY <1>1, <2>2, <3>1, RangeOfNone DEF Moved
    <3>3. g \in Holder
      BY <3>1, <3>2, FromType
    <3>4. n \in Range(H[r][g])
      BY <1>1, <2>2, <3>1, <3>2 DEF Moved
    <3>5. M[r][h] = {<<h, e>>} \cup K[r][g]
      BY <3>1, <3>2 DEF Later
    <3> QED
      BY <2>2, <3>3, <3>4, <3>5
  <2> QED
    BY <2>1, <2>2
<1>2. ASSUME NEW s \in Rank, NEW h \in Holder PROVE IsInjective(J[s][h])
  <2>1. CASE s # r
    BY <2>1 DEF Moved, HeldOK
  <2>2. CASE s = r /\ From(c, h) = Nowhere
    BY <2>2, RangeOfNone DEF Moved
  <2>3. CASE s = r /\ From(c, h) # Nowhere
    <3>1. From(c, h) \in Holder
      BY <2>3, FromType
    <3> QED
      BY <2>3, <3>1 DEF Moved, HeldOK
  <2> QED
    BY <2>1, <2>2, <2>3
<1>3. ASSUME NEW s \in Rank, NEW h \in Holder, NEW n \in Range(J[s][h])
      PROVE  ItemOK(J, M, os, P, s, h, n)
  <2>1. PICK g \in Holder : n \in Range(H[s][g]) /\ \A o : o \in K[s][g] => o \in M[s][h]
    BY <1>1
  <2>2. ItemOK(H, K, os, P, s, g, n)
    BY <2>1 DEF HeldOK
  <2>3. ASSUME NEW t \in Rank \ {s}, NEW f \in Holder PROVE n \notin Range(J[t][f])
    <3> SUFFICES ASSUME n \in Range(J[t][f]) PROVE FALSE
      OBVIOUS
    <3>1. PICK d \in Holder : n \in Range(H[t][d])
      BY <1>1
    <3> QED
      BY <2>2, <3>1 DEF ItemOK, Alone
  <2> QED
    BY <2>1, <2>2, <2>3 DEF ItemOK, Alone
<1> QED
  BY <1>2, <1>3 DEF HeldOK

LEMMA MoveAll ==
  ASSUME NEW H, NEW J, NEW K, NEW M, NEW ep, NEW eq, NEW os, NEW P, NEW r \in Rank, NEW c,
         c.kind # "barrier" => c.bag \in Bag /\ c.peer \in Bag,
         AllThere(H, K, ep, os, P), Moved(H, J, r, c), \A n \in DOMAIN os : os[n].epoch \in Nat,
         ep[r] \in Nat, eq[r] = ep[r] + 1, \A s \in Rank \ {r} : eq[s] = ep[s],
         M[r] = Later(K[r], c, eq[r]), \A s \in Rank \ {r} : M[s] = K[s]
  PROVE  AllThere(J, M, eq, os, P)
<1>1. ASSUME NEW n \in DOMAIN os, NEW s \in Rank, ArrivedAt(H[s], K[s], ep[s], os, n)
      PROVE  ArrivedAt(J[s], M[s], eq[s], os, n)
  <2>1. CASE s # r
    BY <1>1, <2>1 DEF Moved
  <2>2. CASE s = r
    <3>1. os[n].epoch <= ep[r] /\ os[n].epoch \in Nat
      BY <1>1, <2>2 DEF ArrivedAt
    <3>2. os[n].epoch <= eq[r] /\ os[n].epoch # eq[r]
      BY <3>1
    <3>3. ASSUME NEW h \in Holder, Of(os, n) \in M[r][h] PROVE n \in Range(J[r][h])
      <4>1. PICK g : g = From(c, h)
        OBVIOUS
      <4>2. M[r][h] = {<<h, eq[r]>>} \cup IF g = Nowhere THEN {} ELSE K[r][g]
        BY <4>1 DEF Later
      <4>3. Of(os, n) # <<h, eq[r]>>
        BY <3>2 DEF Of
      <4>4. g # Nowhere /\ Of(os, n) \in K[r][g]
        BY <3>3, <4>2, <4>3
      <4>5. g \in Holder
        BY <4>1, <4>4, FromType
      <4>6. n \in Range(H[r][g])
        BY <1>1, <2>2, <4>4, <4>5 DEF ArrivedAt
      <4> QED
        BY <4>1, <4>4, <4>6 DEF Moved
    <3> QED
      BY <2>2, <3>2, <3>3 DEF ArrivedAt
  <2> QED
    BY <2>1, <2>2
<1> QED
  BY <1>1 DEF AllThere
-----------------------------------------------------------------------------
(* What BagContent says of one epoch's end, C, and one bag, b, to which what
   comes from Q belongs.                                                   *)
Exact(C, os, Q, b) ==
  LET at   == UNION {{r} \X DOMAIN C[r][b] : r \in Rank}
      item == [x \in at |-> C[x[1]][b][x[2]]]
  IN  /\ IsInjective(item)
      /\ {item[x] : x \in at} = {n \in DOMAIN os : Of(os, n) \in Q}

ContentNow == \A e \in DOMAIN closed : \A b \in Bag : Exact(closed[e], ops, Lineage[e - 1][b], b)

LEMMA ContentIs == BagContent <=> ContentNow
BY DEF BagContent, ContentNow, Exact, Origin, Of

LEMMA ExactIf ==
  ASSUME NEW C, NEW os, NEW Q, NEW b,
         \A r \in Rank : IsInjective(C[r][b]),
         \A r \in Rank : \A n \in Range(C[r][b]) :
            /\ n \in DOMAIN os /\ Of(os, n) \in Q
            /\ \A s \in Rank \ {r} : n \notin Range(C[s][b]),
         \A n \in DOMAIN os : Of(os, n) \in Q => \E r \in Rank : n \in Range(C[r][b])
  PROVE  Exact(C, os, Q, b)
<1> DEFINE at   == UNION {{r} \X DOMAIN C[r][b] : r \in Rank}
           item == [x \in at |-> C[x[1]][b][x[2]]]
<1>1. ASSUME NEW x \in at
      PROVE  /\ x[1] \in Rank /\ x[2] \in DOMAIN C[x[1]][b] /\ x = <<x[1], x[2]>>
             /\ item[x] = C[x[1]][b][x[2]] /\ item[x] \in Range(C[x[1]][b])
  <2>1. x[1] \in Rank /\ x[2] \in DOMAIN C[x[1]][b] /\ x = <<x[1], x[2]>>
    OBVIOUS
  <2> QED
    BY <2>1 DEF Range
<1>2. ASSUME NEW r \in Rank, NEW i \in DOMAIN C[r][b]
      PROVE  <<r, i>> \in at /\ item[<<r, i>>] = C[r][b][i]
  OBVIOUS
<1>3. DOMAIN item = at
  OBVIOUS
<1> HIDE DEF at, item
<1>4. IsInjective(item)
  <2> SUFFICES ASSUME NEW x \in at, NEW y \in at, item[x] = item[y] PROVE x = y
    BY <1>3 DEF IsInjective
  <2>1. x[1] = y[1]
    BY <1>1
  <2>2. x[2] = y[2]
    BY <1>1, <2>1 DEF IsInjective
  <2> QED
    BY <1>1, <2>1, <2>2
<1>5. ASSUME NEW n PROVE n \in {item[x] : x \in at} <=> n \in {k \in DOMAIN os : Of(os, k) \in Q}
  <2>1. ASSUME NEW x \in at, n = item[x] PROVE n \in DOMAIN os /\ Of(os, n) \in Q
    BY <1>1, <2>1
  <2>2. ASSUME n \in DOMAIN os, Of(os, n) \in Q PROVE \E x \in at : n = item[x]
    <3>1. PICK r \in Rank : n \in Range(C[r][b])
      BY <2>2
    <3>2. PICK i \in DOMAIN C[r][b] : n = C[r][b][i]
      BY <3>1 DEF Range
    <3>3. <<r, i>> \in at /\ item[<<r, i>>] = C[r][b][i]
      BY <1>2
    <3> QED
      BY <3>2, <3>3
  <2> QED
    BY <2>1, <2>2
<1> QED
  BY <1>4, <1>5 DEF Exact, at, item

LEMMA ExactKept ==
  ASSUME NEW C, NEW os, NEW ot, NEW Q, NEW b, NEW n, Exact(C, os, Q, b), Grown(os, ot),
         \A k \in DOMAIN ot : k \in DOMAIN os \/ k = n, Of(ot, n) \notin Q
  PROVE  Exact(C, ot, Q, b)
<1>1. \A k \in DOMAIN os : k \in DOMAIN ot /\ Of(ot, k) = Of(os, k)
  BY DEF Grown, Of
<1>2. {k \in DOMAIN ot : Of(ot, k) \in Q} = {k \in DOMAIN os : Of(os, k) \in Q}
  BY <1>1
<1> QED
  BY <1>2 DEF Exact

(* The invariant, in these terms.                                          *)
ListsNow == [r \in Rank |-> [h \in Holder |-> Held(r, h)]]
LinesNow == [r \in Rank |-> Lineage[epoch[r]]]
OpsInv   == \A n \in DOMAIN ops : ops[n].epoch <= Len(closed)
OneCall  == executed \subseteq issued /\ \A m, c \in Pending : m.id = c.id => m = c
HeldNow  == HeldOK(ListsNow, LinesNow, ops, Pending)
ThereNow == AllThere(ListsNow, LinesNow, epoch, ops, Pending)
EmptyInv == \A r \in Rank : \A h \in Holder : h > Made(plan, Entered(r)) => Held(r, h) = <<>>

LEMMA ContentInvMeans ==
  ContentInv <=> OpsInv /\ OneCall /\ EmptyInv /\ HeldNow /\ ThereNow
<1>1. \A r \in Rank : \A h \in Holder : ListsNow[r][h] = Held(r, h) /\ LinesNow[r] = Lineage[epoch[r]]
  BY DEF ListsNow, LinesNow
<1>2. HeldInv <=> EmptyInv /\ HeldNow
  <2>1. ASSUME NEW r \in Rank, NEW h \in Holder
        PROVE  /\ IsInjective(ListsNow[r][h]) <=> IsInjective(Held(r, h))
               /\ (\A n \in Range(ListsNow[r][h]) : ItemOK(ListsNow, LinesNow, ops, Pending, r, h, n))
                    <=> \A n \in Range(Held(r, h)) :
                          /\ n \in DOMAIN ops /\ Origin(n) \in Lineage[epoch[r]][h]
                          /\ \A m \in Pending : m.id # n
                          /\ \A s \in Rank \ {r} : \A g \in Holder : n \notin Range(Held(s, g))
    BY <1>1 DEF ItemOK, Alone, Of, Origin
  <2> QED
    BY <2>1 DEF HeldInv, EmptyInv, HeldNow, HeldOK
<1>3. \A n : \A r \in Rank : Arrived(n, r) <=> ArrivedAt(ListsNow[r], LinesNow[r], epoch[r], ops, n)
  BY <1>1 DEF Arrived, ArrivedAt, Of, Origin
<1>4. (\A n \in DOMAIN ops : (\E m \in Pending : m.id = n) \/ (\E r \in Rank : Arrived(n, r)))
        <=> ThereNow
  BY <1>3 DEF ThereNow, AllThere
<1> QED
  BY <1>2, <1>4 DEF ContentInv, OpsInv, OneCall

LEMMA ContentTypes ==
  ASSUME BagInv, IterInv
  PROVE  /\ ListsNow \in Lists /\ Sane(plan)
         /\ Len(plan) \in Nat /\ DOMAIN plan = 1 .. Len(plan)
         /\ \A e \in DOMAIN plan : plan[e] \in Entry /\ plan[e].bag <= plan[e].made /\ plan[e].peer <= plan[e].made
         /\ \A r \in Rank : epoch[r] \in 0 .. Len(plan)
         /\ ops \in Seq(Insertion) /\ Len(ops) \in Nat /\ DOMAIN ops = 1 .. Len(ops)
         /\ \A n \in DOMAIN ops : ops[n] \in Insertion
         /\ \A n \in DOMAIN ops : ops[n].epoch \in Nat /\ ops[n].bag \in Bag
<1>1. /\ plan \in Seq(Entry) /\ ops \in Seq(Insertion) /\ epoch \in [Rank -> Nat]
      /\ file \in [Rank -> [items : Seq(Nat), rr : Nat]] /\ bags \in [Rank -> [Bag -> Part]]
  BY DEF BagInv, BagTypeOK, Entry, Insertion, Part
<1>2. ASSUME NEW r \in Rank, NEW h \in Holder PROVE Held(r, h) \in Seq(Nat)
  BY <1>1 DEF Held, Holder, Part
<1>3. ListsNow \in Lists
  BY <1>2 DEF ListsNow, Lists
<1>4. /\ Len(plan) \in Nat /\ DOMAIN plan = 1 .. Len(plan)
      /\ Len(ops) \in Nat /\ DOMAIN ops = 1 .. Len(ops)
  BY <1>1, LenProperties
<1>5. Sane(plan)
  BY <1>1 DEF Sane, BagInv, PlanInv
<1>6. \A e \in DOMAIN plan : plan[e] \in Entry /\ plan[e].bag <= plan[e].made /\ plan[e].peer <= plan[e].made
  <2>1. \A e \in DOMAIN plan : plan[e] \in Entry
    BY <1>1
  <2>2. PlanInv
    BY DEF BagInv
  <2> QED
    BY <2>1, <2>2 DEF PlanInv
<1>7. ASSUME NEW r \in Rank PROVE epoch[r] \in 0 .. Len(plan)
  <2>1. epoch[r] \in Nat /\ Entered(r) <= Len(plan)
    BY <1>1 DEF BagInv, RegistryInv
  <2>2. epoch[r] <= Entered(r) /\ Entered(r) \in Nat
    BY <2>1 DEF Entered
  <2> QED
    BY <1>4, <2>1, <2>2
<1>8. \A n \in DOMAIN ops : ops[n] \in Insertion
  BY <1>1
<1>9. \A n \in DOMAIN ops : ops[n].epoch \in Nat /\ ops[n].bag \in Bag
  BY <1>8 DEF Insertion
<1> QED
  BY <1>1, <1>3, <1>4, <1>5, <1>6, <1>7, <1>8, <1>9
-----------------------------------------------------------------------------
(* Where an insertion is pushed.                                           *)
LEMMA PushedAt ==
  ASSUME NEW bs \in [Rank -> [Bag -> Part]], NEW r \in Rank, NEW i, NEW n \in Nat, Deref(r, i) \in Bag
  PROVE  \A s \in Rank : \A b \in Bag :
           PushBack(bs, r, i, n)[s][b].items = IF s = r /\ b = Deref(r, i) THEN Append(bs[s][b].items, n)
                                               ELSE bs[s][b].items
<1> DEFINE x == Deref(r, i)
           p == [bs[r][x] EXCEPT !.items = Append(@, n)]
           f == [bs[r] EXCEPT ![x] = p]
<1>1. PushBack(bs, r, i, n) = [bs EXCEPT ![r] = f]
  BY DEF PushBack
<1>2. bs[r] \in [Bag -> Part] /\ bs[r][x] \in Part
  OBVIOUS
<1>3. p.items = Append(bs[r][x].items, n)
  BY <1>2 DEF Part
<1> HIDE DEF p
<1>4. \A b \in Bag : f[b].items = IF b = x THEN Append(bs[r][x].items, n) ELSE bs[r][b].items
  BY <1>2, <1>3
<1> HIDE DEF f
<1>5. \A s \in Rank : PushBack(bs, r, i, n)[s] = IF s = r THEN f ELSE bs[s]
  BY <1>1
<1> QED
  BY <1>4, <1>5

(* The index of a bag stands for the bag at a rank that has registered it.  *)
LEMMA IndexLemma ==
  ASSUME BagInv, NEW r \in Rank, NEW b \in Bag, NEW i \in Nat, i + 1 = b, b <= Made(plan, Entered(r))
  PROVE  Deref(r, i) = b
<1>1. Len(sptrs[r]) = Made(plan, Entered(r)) /\ \A j \in 1 .. Len(sptrs[r]) : sptrs[r][j] = j
  BY DEF BagInv, RegistryInv
<1>2. Made(plan, Entered(r)) \in Nat
  BY MadeLemma
<1>3. b \in 1 .. Len(sptrs[r])
  BY <1>1, <1>2, BagBoundAssumption DEF Bag
<1> QED
  BY <1>1, <1>3 DEF Deref

(* Insertion n is pushed at r on bag b, and nothing else changes there.     *)
LEMMA PushedNow ==
  ASSUME NEW r \in Rank, NEW b \in Bag, NEW n,
         \A s \in Rank : \A c \in Bag :
           bags'[s][c].items = IF s = r /\ c = b THEN Append(bags[s][c].items, n) ELSE bags[s][c].items,
         UNCHANGED file
  PROVE  Pushed(ListsNow, ListsNow', r, b, n)
<1>1. /\ \A s \in Rank : \A h \in Holder : ListsNow[s][h] = Held(s, h)
      /\ \A s \in Rank : \A h \in Holder : ListsNow'[s][h] = Held(s, h)'
  BY DEF ListsNow
<1>2. \A s \in Rank : \A h \in Holder :
        Held(s, h)' = IF s = r /\ h = b THEN Append(Held(s, h), n) ELSE Held(s, h)
  BY HolderFacts DEF Held, Holder
<1>3. b \in Holder
  BY HolderFacts
<1>4. \A s \in Rank : \A h \in Holder :
        ListsNow'[s][h] = IF s = r /\ h = b THEN Append(ListsNow[s][h], n) ELSE ListsNow[s][h]
  <2>1. ASSUME NEW s \in Rank, NEW h \in Holder
        PROVE  ListsNow'[s][h] = IF s = r /\ h = b THEN Append(ListsNow[s][h], n) ELSE ListsNow[s][h]
    <3>1. ListsNow[s][h] = Held(s, h) /\ ListsNow'[s][h] = Held(s, h)'
      BY <1>1
    <3>2. Held(s, h)' = IF s = r /\ h = b THEN Append(Held(s, h), n) ELSE Held(s, h)
      BY <1>2
    <3> QED
      BY <3>1, <3>2
  <2> QED
    BY <2>1
<1>5. ListsNow'[r][b] = Append(ListsNow[r][b], n)
  BY <1>3, <1>4
<1>6. \A s \in Rank : \A h \in Holder : s # r \/ h # b => ListsNow'[s][h] = ListsNow[s][h]
  BY <1>4
<1> QED
  BY <1>5, <1>6 DEF Pushed

(* A bag that is being inserted in has been constructed there.              *)
LEMMA EmptyPushed ==
  ASSUME EmptyInv, NEW r \in Rank, NEW b \in Bag, NEW n, Pushed(ListsNow, ListsNow', r, b, n),
         b <= Made(plan, Entered(r)), Made(plan, Entered(r)) \in Nat, UNCHANGED <<plan, epoch, inside>>
  PROVE  EmptyInv'
<1>1. /\ \A s \in Rank : \A h \in Holder : ListsNow[s][h] = Held(s, h)
      /\ \A s \in Rank : \A h \in Holder : ListsNow'[s][h] = Held(s, h)'
  BY DEF ListsNow
<1>2. \A s \in Rank : Entered(s)' = Entered(s) /\ Made(plan, Entered(s))' = Made(plan, Entered(s))
  BY DEF Entered, Made
<1>3. ASSUME NEW s \in Rank, NEW h \in Holder, h > Made(plan, Entered(s)) PROVE Held(s, h)' = <<>>
  <2>1. Held(s, h) = <<>>
    BY <1>3 DEF EmptyInv
  <2>2. ~(s = r /\ h = b)
    BY <1>3, HolderFacts
  <2> QED
    BY <1>1, <2>1, <2>2 DEF Pushed
<1> QED
  BY <1>2, <1>3 DEF EmptyInv

LEMMA ContentInsert ==
  ASSUME BagInv, IterInv, ContentInv, BagContent, NEW r \in Rank, NEW b \in Bag, Insert(r, b)
  PROVE  ContentInv' /\ BagContent'
<1> DEFINE n == Len(ops) + 1
           m0 == [id |-> n, src |-> r, dst |-> (bags[r][b].rr + r) % Size,
                  epoch |-> epoch[r], parent |-> 0]
           counted == [bags EXCEPT ![r][b].rr = @ + 1]
<1>1. /\ OpsInv /\ OneCall /\ EmptyInv
      /\ HeldOK(ListsNow, LinesNow, ops, Pending)
      /\ AllThere(ListsNow, LinesNow, epoch, ops, Pending)
  BY ContentInvMeans DEF HeldNow, ThereNow
<1>2. /\ ListsNow \in Lists /\ Sane(plan) /\ Len(plan) \in Nat /\ epoch[r] \in 0 .. Len(plan)
      /\ ops \in Seq(Insertion) /\ Len(ops) \in Nat /\ DOMAIN ops = 1 .. Len(ops)
  BY ContentTypes
<1>3. /\ UNCHANGED <<plan, epoch, inside, closed, file, sptrs, executed>> /\ r \notin inside
      /\ bags[r][b].live
  BY DEF Insert, Active, BSIssue, bsVars
<1>4. epoch[r] = Len(closed)
  BY <1>3, FrontLemma
<1>5. /\ Grown(ops, ops') /\ n \in DOMAIN ops' /\ n \notin DOMAIN ops /\ n \in Nat
      /\ \A k \in DOMAIN ops' : k \in DOMAIN ops \/ k = n
      /\ ops'[n].epoch = epoch[r] /\ ops'[n].bag = b /\ Of(ops', n) = <<b, epoch[r]>>
  <2> DEFINE op == [bag |-> b, idx |-> bags[r][b].idx, epoch |-> epoch[r]]
  <2>1. op \in Insertion
    <3>1. bags[r][b] \in Part /\ epoch[r] \in Nat
      BY IterTypes
    <3> QED
      BY <3>1 DEF Part, Insertion
  <2>2. ops' = Append(ops, op) /\ op.epoch = epoch[r] /\ op.bag = b
    BY DEF Insert
  <2> HIDE DEF op
  <2>3. /\ DOMAIN ops' = DOMAIN ops \cup {n} /\ ops'[n] = op /\ \A k \in DOMAIN ops : ops'[k] = ops[k]
    BY <1>2, <2>1, <2>2, AppendProperties, LenProperties
  <2> QED
    BY <1>2, <2>2, <2>3 DEF Grown, Of
<1>6. /\ Lineage' = Lineage /\ LinesNow' = LinesNow
      /\ \A h \in Holder : Of(ops', n) \in LinesNow[r][h] <=> h = b
  <2>1. Lineage' = Lineage
    BY <1>3 DEF Lineage
  <2>2. LinesNow' = LinesNow
    BY <1>3, <2>1 DEF LinesNow
  <2>3. LinesNow[r] = LineageOf(plan)[epoch[r]]
    BY DEF LinesNow, Lineage
  <2> QED
    BY <1>2, <1>5, <2>1, <2>2, <2>3, OwnOrigin
<1>7. OpsInv'
  <2>1. \A k \in DOMAIN ops : ops'[k].epoch <= Len(closed)
    BY <1>1, <1>5 DEF OpsInv, Grown
  <2> QED
    BY <1>2, <1>3, <1>4, <1>5, <2>1 DEF OpsInv
<1>8. b <= Made(plan, Entered(r)) /\ Made(plan, Entered(r)) \in Nat /\ bags[r][b].idx \in Nat
      /\ bags[r][b].idx + 1 = b
  <2>1. bags[r][b] \in Part
    BY IterTypes
  <2> QED
    BY <1>3, <2>1, MadeLemma DEF BagInv, LiveInv, Part
<1>9. BagContent'
  <2>1. ASSUME NEW e \in DOMAIN closed, NEW c \in Bag
        PROVE  Exact(closed[e], ops', Lineage[e - 1][c], c)
    <3>1. Exact(closed[e], ops, Lineage[e - 1][c], c)
      BY ContentIs DEF ContentNow
    <3>2. e \in 1 .. Len(closed) /\ Len(closed) \in Nat
      BY IterTypes
    <3>3. e - 1 \in 0 .. Len(plan) /\ epoch[r] \notin 0 .. e - 1
      BY <1>2, <1>4, <3>2
    <3>4. Lineage[e - 1] \in OriginsTo(Holder, e - 1) /\ c \in Holder
      BY <1>2, <3>3, LineageAged, HolderFacts DEF Lineage
    <3>5. Of(ops', n) \notin Lineage[e - 1][c]
      BY <1>5, <3>3, <3>4 DEF OriginsTo
    <3> QED
      BY <1>5, <3>1, <3>5, ExactKept
  <2>2. \A e \in DOMAIN closed' : \A c \in Bag : Exact(closed'[e], ops', Lineage'[e - 1][c], c)
    BY <1>3, <1>6, <2>1
  <2>3. ContentNow'
    BY <2>2 DEF ContentNow
  <2> QED
    BY <2>3, ContentIs, PTL
<1>10. ASSUME NEW s \in Rank, NEW h \in Holder PROVE n \notin Range(ListsNow[s][h])
  BY <1>1, <1>5 DEF HeldOK, ItemOK
<1>11. \A s \in Rank : \A c \in Bag : counted[s][c].items = bags[s][c].items
  BY CountedBags
<1>12. CASE bags' = PushBack(counted, r, bags[r][b].idx, n) /\ UNCHANGED bsVars
  <2>1. Deref(r, bags[r][b].idx) = b
    BY <1>8, IndexLemma
  <2>2. counted \in [Rank -> [Bag -> Part]]
    BY CountedBags
  <2>3. Pushed(ListsNow, ListsNow', r, b, n)
    <3> HIDE DEF counted, n
    <3>1. \A s \in Rank : \A c \in Bag :
            bags'[s][c].items = IF s = r /\ c = b THEN Append(counted[s][c].items, n)
                                ELSE counted[s][c].items
      BY <1>5, <1>12, <2>1, <2>2, PushedAt
    <3>2. \A s \in Rank : \A c \in Bag :
            bags'[s][c].items = IF s = r /\ c = b THEN Append(bags[s][c].items, n)
                                ELSE bags[s][c].items
      BY <1>11, <3>1
    <3> QED
      BY <1>3, <3>2, PushedNow
  <2>4. Pending' = Pending /\ \A m \in Pending : m.id # n
    BY <1>5, <1>12 DEF bsVars, Pending, BagInv, CallInv
  <2>5. EmptyInv'
    BY <1>1, <1>3, <1>8, <2>3, EmptyPushed
  <2>6. b \in Holder
    BY HolderFacts
  <2> HIDE DEF n
  <2>7. HeldOK(ListsNow', LinesNow, ops', Pending)
    <3>1. n \in Nat /\ n \in DOMAIN ops' /\ Grown(ops, ops') /\ Of(ops', n) \in LinesNow[r][b]
      BY <1>5, <1>6, <2>6
    <3>2. \A m \in Pending : m \in Pending /\ m.id # n
      BY <2>4
    <3>3. HeldOK(ListsNow, LinesNow, ops, Pending) /\ ListsNow \in Lists
      BY <1>1, <1>2
    <3> QED
      BY <1>10, <2>3, <2>6, <3>1, <3>2, <3>3, PushHeld
  <2>8. AllThere(ListsNow', LinesNow, epoch, ops', Pending)
    <3>1. /\ ops'[n].epoch <= epoch[r] /\ n \in Nat /\ Grown(ops, ops')
          /\ \A k \in DOMAIN ops' : k \in DOMAIN ops \/ k = n
          /\ \A h \in Holder : Of(ops', n) \in LinesNow[r][h] => h = b
      <4>1. ops'[n].epoch <= epoch[r] /\ n \in Nat /\ Grown(ops, ops')
        BY <1>2, <1>5
      <4>2. \A k \in DOMAIN ops' : k \in DOMAIN ops \/ k = n
        BY <1>5
      <4>3. \A h \in Holder : Of(ops', n) \in LinesNow[r][h] => h = b
        BY <1>6
      <4> QED
        BY <4>1, <4>2, <4>3
    <3>2. AllThere(ListsNow, LinesNow, epoch, ops, Pending) /\ ListsNow \in Lists
      BY <1>1, <1>2
    <3>3. \A m \in Pending : m \in Pending \/ m.id = n
      OBVIOUS
    <3> QED
      BY <2>3, <2>6, <3>1, <3>2, <3>3, PushAll
  <2>9. OneCall'
    BY <1>1, <1>12, <2>4 DEF OneCall, bsVars
  <2>10. HeldNow' /\ ThereNow'
    BY <1>3, <1>6, <2>4, <2>7, <2>8 DEF HeldNow, ThereNow
  <2> QED
    BY <1>7, <1>9, <2>5, <2>9, <2>10, ContentInvMeans, PTL
<1>13. CASE BSIssue(m0) /\ bags' = counted
  <2>1. ListsNow' = ListsNow
    <3>1. \A s \in Rank : \A h \in Holder : Held(s, h)' = Held(s, h)
      BY <1>3, <1>11, <1>13 DEF Held, Holder
    <3> QED
      BY <3>1 DEF ListsNow
  <2>2. EmptyInv'
    <3>1. \A s \in Rank : \A h \in Holder : Held(s, h)' = Held(s, h)
      BY <1>3, <1>11, <1>13 DEF Held, Holder
    <3> QED
      BY <1>1, <1>3, <3>1 DEF EmptyInv, Entered, Made
  <2>3. Pending' \subseteq Pending \cup {m0} /\ Pending \subseteq Pending' /\ m0 \in Pending' /\ m0.id = n
    <3>1. issued' = issued \cup {m0} /\ m0 \notin issued /\ m0.id = n
      BY <1>13 DEF BSIssue
    <3>2. m0 \notin executed
      BY <1>1, <3>1 DEF OneCall
    <3> HIDE DEF m0
    <3> QED
      BY <1>3, <3>1, <3>2 DEF Pending
  <2>4. \A m \in Pending : m.id # n
    BY <1>5 DEF BagInv, CallInv
  <2> HIDE DEF m0, n
  <2>5. OneCall'
    <3>1. issued \subseteq issued' /\ executed' = executed
      BY <1>3, <1>13 DEF BSIssue
    <3> QED
      BY <1>1, <2>3, <2>4, <3>1 DEF OneCall
  <2>6. \A m \in Pending' : m \in Pending \/ m.id = n
    BY <2>3
  <2>7. HeldOK(ListsNow, LinesNow, ops', Pending')
    BY <1>1, <1>5, <2>6, SendHeld
  <2>8. AllThere(ListsNow, LinesNow, epoch, ops', Pending')
    BY <1>1, <1>5, <2>3, SendAll
  <2>9. HeldNow' /\ ThereNow'
    BY <1>3, <1>6, <2>1, <2>7, <2>8 DEF HeldNow, ThereNow
  <2> QED
    BY <1>7, <1>9, <2>2, <2>5, <2>9, ContentInvMeans, PTL
<1> QED
  BY <1>12, <1>13 DEF Insert

LEMMA ContentHandle ==
  ASSUME BagInv, IterInv, ContentInv, BagContent, NEW m \in Pending, Handle(m)
  PROVE  ContentInv' /\ BagContent'
<1> DEFINE r == m.dst
           n == m.id
           b == ops[m.id].bag
<1>1. /\ OpsInv /\ OneCall /\ EmptyInv
      /\ HeldOK(ListsNow, LinesNow, ops, Pending)
      /\ AllThere(ListsNow, LinesNow, epoch, ops, Pending)
  BY ContentInvMeans DEF HeldNow, ThereNow
<1>2. /\ UNCHANGED <<plan, epoch, inside, closed, file, sptrs, issued, ops>> /\ m.epoch = epoch[r]
      /\ bags' = PushBack(bags, r, ops[n].idx, n) /\ executed' = executed \cup {m}
  BY DEF Handle, BSExecute
<1>3. m \in Call /\ r \in Rank /\ n \in Nat /\ m \in issued
  BY DEF BagInv, BagTypeOK, Pending, Call
<1>4. /\ ListsNow \in Lists /\ Sane(plan) /\ Len(plan) \in Nat /\ epoch[r] \in 0 .. Len(plan)
      /\ \A k \in DOMAIN ops : ops[k] \in Insertion /\ ops[k].bag \in Bag
      /\ bags \in [Rank -> [Bag -> Part]]
  BY <1>3, ContentTypes, IterTypes
<1>5. /\ n \in DOMAIN ops /\ ops[n].epoch = epoch[r] /\ b \in Bag /\ ops[n].idx \in Nat
      /\ ops[n].idx + 1 = b /\ b <= Made(plan, epoch[r])
  <2>1. n \in DOMAIN ops /\ ops[n].idx + 1 = b /\ b <= Made(plan, m.epoch)
    BY DEF BagInv, CallInv
  <2>2. ops[n].epoch = m.epoch
    BY DEF IterInv, GrowthInv
  <2>3. ops[n] \in Insertion
    BY <1>4, <2>1
  <2> QED
    BY <1>2, <2>1, <2>2, <2>3 DEF Insertion
<1>6. Deref(r, ops[n].idx) = b /\ b <= Made(plan, Entered(r)) /\ Made(plan, Entered(r)) \in Nat
  <2>1. /\ Made(plan, epoch[r]) \in Nat /\ Made(plan, Entered(r)) \in Nat
        /\ Made(plan, epoch[r]) <= Made(plan, Entered(r))
    BY <1>3, MadeLemma
  <2>2. b <= Made(plan, Entered(r))
    BY <1>5, <2>1, HolderFacts
  <2> QED
    BY <1>3, <1>5, <2>1, <2>2, IndexLemma
<1>7. Pushed(ListsNow, ListsNow', r, b, n)
  <2> HIDE DEF r, n, b
  <2>1. \A s \in Rank : \A c \in Bag :
          bags'[s][c].items = IF s = r /\ c = b THEN Append(bags[s][c].items, n)
                              ELSE bags[s][c].items
    BY <1>2, <1>3, <1>4, <1>5, <1>6, PushedAt
  <2> QED
    BY <1>2, <1>3, <1>5, <2>1, PushedNow
<1>8. Lineage' = Lineage /\ LinesNow' = LinesNow /\ \A h \in Holder : Of(ops, n) \in LinesNow[r][h] <=> h = b
  <2>1. Lineage' = Lineage
    BY <1>2 DEF Lineage
  <2>2. LinesNow' = LinesNow
    BY <1>2, <2>1 DEF LinesNow
  <2>3. LinesNow[r] = LineageOf(plan)[epoch[r]] /\ Of(ops, n) = <<b, epoch[r]>>
    BY <1>3, <1>5 DEF LinesNow, Lineage, Of
  <2> HIDE DEF r, n, b
  <2> QED
    BY <1>4, <1>5, <2>1, <2>2, <2>3, OwnOrigin
<1>9. /\ Pending' \subseteq Pending /\ \A c \in Pending : c \in Pending' \/ c.id = n
      /\ \A c \in Pending' : c \in Pending /\ c.id # n
  <2>1. Pending' = Pending \ {m}
    BY <1>2 DEF Pending
  <2>2. \A c \in Pending : c.id = m.id => c = m
    BY <1>1 DEF OneCall
  <2> QED
    BY <2>1, <2>2
<1>10. \A s \in Rank : \A h \in Holder : n \notin Range(ListsNow[s][h])
  BY <1>1 DEF HeldOK, ItemOK
<1>11. OpsInv' /\ OneCall'
  BY <1>1, <1>2, <1>3, <1>9 DEF OpsInv, OneCall
<1>12. BagContent'
  <2>1. ContentNow'
    BY <1>2, <1>8, ContentIs DEF ContentNow
  <2> QED
    BY <2>1, ContentIs, PTL
<1> HIDE DEF r, n, b
<1>13. b \in Holder
  BY <1>5, HolderFacts
<1>14. EmptyInv'
  BY <1>1, <1>2, <1>3, <1>5, <1>6, <1>7, EmptyPushed
<1>15. HeldOK(ListsNow', LinesNow, ops, Pending')
  <2>1. Grown(ops, ops) /\ Of(ops, n) \in LinesNow[r][b]
    BY <1>8, <1>13 DEF Grown
  <2> QED
    BY <1>1, <1>3, <1>4, <1>5, <1>7, <1>9, <1>10, <1>13, <2>1, PushHeld
<1>16. AllThere(ListsNow', LinesNow, epoch, ops, Pending')
  <2>1. Grown(ops, ops) /\ \A k \in DOMAIN ops : k \in DOMAIN ops \/ k = n
    BY DEF Grown
  <2>2. ops[n].epoch <= epoch[r] /\ ListsNow \in Lists
    BY <1>4, <1>5, ContentTypes
  <2>3. \A h \in Holder : Of(ops, n) \in LinesNow[r][h] => h = b
    BY <1>8
  <2>4. AllThere(ListsNow, LinesNow, epoch, ops, Pending)
    BY <1>1
  <2>5. PICK J, Q : J = ListsNow' /\ Q = Pending'
    OBVIOUS
  <2>6. Pushed(ListsNow, J, r, b, n) /\ \A c \in Pending : c \in Q \/ c.id = n
    BY <1>7, <1>9, <2>5
  <2>7. r \in Rank /\ b \in Holder /\ n \in Nat
    BY <1>3, <1>13
  <2>8. AllThere(ListsNow, LinesNow, epoch, ops, Pending) => AllThere(J, LinesNow, epoch, ops, Q)
    BY <2>1, <2>2, <2>3, <2>6, <2>7, PushAll
  <2> QED
    BY <2>4, <2>5, <2>8
<1>17. HeldNow' /\ ThereNow'
  BY <1>2, <1>8, <1>15, <1>16 DEF HeldNow, ThereNow
<1> QED
  BY <1>11, <1>12, <1>14, <1>17, ContentInvMeans, PTL

(* Neither operations to come nor those under way change a lineage.        *)
LEMMA LineageFrame ==
  ASSUME BagInv, IterInv, Sane(plan'), Len(plan) <= Len(plan'), Len(plan') \in Nat,
         \A e \in DOMAIN plan : plan'[e] = plan[e]
  PROVE  \A e \in 0 .. Len(plan) : Lineage'[e] = Lineage[e]
<1>1. PICK p, q : p = plan /\ q = plan'
  OBVIOUS
<1>2. Sane(p) /\ Len(p) \in Nat /\ DOMAIN p = 1 .. Len(p)
  BY <1>1, ContentTypes
<1>3. Sane(q) /\ Len(p) <= Len(q) /\ \A e \in 1 .. Len(p) : p[e] = q[e]
  BY <1>1, <1>2
<1>4. \A e \in 0 .. Len(p) : LineageOf(p)[e] = LineageOf(q)[e]
  BY <1>2, <1>3, LineageKept
<1> QED
  BY <1>1, <1>4 DEF Lineage

LEMMA ClosedBehind ==
  ASSUME BagInv, IterInv
  PROVE  Len(closed) <= Len(plan) /\ \A e \in DOMAIN closed : e - 1 \in 0 .. Len(plan)
<1>1. /\ Len(closed) \in Nat /\ DOMAIN closed = 1 .. Len(closed) /\ Len(plan) \in Nat
      /\ \A r \in Rank : epoch[r] \in 0 .. Len(plan)
  BY IterTypes, ContentTypes
<1>2. Len(closed) <= Len(plan)
  <2>1. CASE closed = <<>>
    BY <1>1, <2>1
  <2>2. CASE closed # <<>>
    <3>1. PICK r \in Rank : epoch[r] = Len(closed)
      BY <2>2 DEF IterInv, ClosedInv
    <3> QED
      BY <1>1, <3>1
  <2> QED
    BY <2>1, <2>2
<1> QED
  BY <1>1, <1>2

LEMMA ContentEnter ==
  ASSUME BagInv, BagInv', IterInv, IterInv', ContentInv, BagContent, NEW r \in Rank, Enter(r)
  PROVE  ContentInv' /\ BagContent'
<1> DEFINE c == plan'[epoch[r] + 1]
<1>1. /\ OpsInv /\ OneCall /\ EmptyInv
      /\ HeldOK(ListsNow, LinesNow, ops, Pending)
      /\ AllThere(ListsNow, LinesNow, epoch, ops, Pending)
  BY ContentInvMeans DEF HeldNow, ThereNow
<1>2. /\ UNCHANGED <<epoch, closed, file, issued, executed, ops>> /\ BeforeBarrier(r, c)
      /\ r \notin inside /\ inside' = inside \cup {r}
  BY DEF Enter, BSEnter
<1>3. /\ Sane(plan) /\ Len(plan) \in Nat /\ DOMAIN plan = 1 .. Len(plan)
      /\ \A s \in Rank : epoch[s] \in 0 .. Len(plan)
  BY ContentTypes
<1>4. Sane(plan') /\ Len(plan') \in Nat /\ DOMAIN plan' = 1 .. Len(plan')
  <2>1. plan' \in Seq(Entry) /\ PlanInv'
    BY PlanStep
  <2> QED
    BY <2>1, LenProperties DEF Sane, PlanInv
<1>5. /\ epoch[r] + 1 \in DOMAIN plan' /\ Len(plan) <= Len(plan')
      /\ \A e \in DOMAIN plan : plan'[e] = plan[e]
  BY PlanStep
<1>6. \A e \in 0 .. Len(plan) : Lineage'[e] = Lineage[e] /\ Made(plan', e) = Made(plan, e)
  <2>1. \A e \in 0 .. Len(plan) : Lineage'[e] = Lineage[e]
    BY <1>4, <1>5, LineageFrame
  <2>2. \A e \in 0 .. Len(plan) : e # 0 => e \in DOMAIN plan
    BY <1>3
  <2>3. \A e \in 0 .. Len(plan) : Made(plan', e) = Made(plan, e)
    BY <1>5, <2>2 DEF Made
  <2> QED
    BY <2>1, <2>3
<1>7. LinesNow' = LinesNow
  BY <1>2, <1>3, <1>6 DEF LinesNow
<1>8. \A s \in Rank : s # r => Entered(s)' = Entered(s)
  BY <1>2 DEF Entered
<1>9. Entered(r) = epoch[r] /\ Entered(r)' = epoch[r] + 1
  BY <1>2 DEF Entered
<1>10. /\ Made(plan, epoch[r]) \in Nat /\ Made(plan', epoch[r] + 1) \in Nat
       /\ Made(plan, epoch[r]) <= Made(plan', epoch[r] + 1)
       /\ c.kind = "construct" => c.bag = Made(plan, epoch[r]) + 1 /\ c.bag \in Bag
  <2>1. /\ Made(plan, epoch[r]) \in Nat /\ Made(plan', epoch[r] + 1) = c.made
        /\ c.kind # "construct" => c.made = Made(plan, epoch[r])
        /\ c.kind = "construct" => /\ c.bag = Made(plan, epoch[r]) + 1 /\ c.bag \in Bag
                                   /\ c.made = Made(plan, epoch[r]) + 1
    BY EnteredLemma
  <2> HIDE DEF c
  <2> QED
    BY <2>1
<1>11. \A s \in Rank : \A h \in Holder : Held(s, h)' = Held(s, h)
  <2>1. CASE c.kind = "construct"
    <3>1. bags \in [Rank -> [Bag -> Part]]
      BY IterTypes
    <3>2. bags' = [bags EXCEPT ![r] = [bags[r] EXCEPT ![c.bag] = NewPart(Len(sptrs[r]))]]
      BY <1>2, <2>1, <3>1 DEF BeforeBarrier
    <3>3. NewPart(Len(sptrs[r])).items = <<>>
      BY DEF NewPart
    <3>4. Held(r, c.bag) = <<>>
      <4>1. c.bag \in Holder /\ c.bag > Made(plan, Entered(r))
        BY <1>9, <1>10, <2>1, HolderFacts
      <4> QED
        BY <1>1, <4>1 DEF EmptyInv
    <3>5. bags[r][c.bag].items = <<>>
      BY <1>10, <2>1, <3>4, HolderFacts DEF Held
    <3> HIDE DEF c
    <3>6. \A s \in Rank : \A b \in Bag : bags'[s][b].items = bags[s][b].items
      BY <1>10, <2>1, <3>1, <3>2, <3>3, <3>5
    <3> QED
      BY <1>2, <3>6 DEF Held, Holder
  <2>2. CASE c.kind # "construct"
    <3>1. bags' = bags
      BY <1>2, <2>2 DEF BeforeBarrier
    <3> QED
      BY <1>2, <3>1 DEF Held
  <2> QED
    BY <2>1, <2>2
<1>12. ListsNow' = ListsNow
  BY <1>11 DEF ListsNow
<1>13. EmptyInv'
  <2>1. ASSUME NEW s \in Rank, NEW h \in Holder, h > Made(plan', Entered(s)') PROVE Held(s, h)' = <<>>
    <3>1. h > Made(plan, Entered(s))
      <4>1. CASE s = r
        BY <1>9, <1>10, <2>1, <4>1, HolderFacts
      <4>2. CASE s # r
        <5>1. Entered(s) \in 0 .. Len(plan)
          BY <1>3 DEF BagInv, RegistryInv, Entered
        <5> QED
          BY <1>6, <1>8, <2>1, <4>2, <5>1
      <4> QED
        BY <4>1, <4>2
    <3> QED
      BY <1>1, <1>11, <3>1 DEF EmptyInv
  <2> QED
    BY <2>1 DEF EmptyInv, Made
<1>14. Pending' = Pending
  BY <1>2 DEF Pending
<1>15. OpsInv' /\ OneCall'
  BY <1>1, <1>2, <1>14 DEF OpsInv, OneCall
<1>16. HeldNow' /\ ThereNow'
  BY <1>1, <1>2, <1>7, <1>12, <1>14 DEF HeldNow, ThereNow
<1>17. BagContent'
  <2>1. ASSUME NEW e \in DOMAIN closed, NEW b \in Bag PROVE Exact(closed[e], ops, Lineage'[e - 1][b], b)
    <3>1. e - 1 \in 0 .. Len(plan)
      BY ClosedBehind
    <3> QED
      BY <1>6, <3>1, ContentIs DEF ContentNow
  <2>2. \A e \in DOMAIN closed' : \A b \in Bag : Exact(closed'[e], ops', Lineage'[e - 1][b], b)
    BY <1>2, <2>1
  <2>3. ContentNow'
    BY <2>2 DEF ContentNow
  <2> QED
    BY <2>3, ContentIs, PTL
<1> QED
  BY <1>13, <1>15, <1>16, <1>17, ContentInvMeans, PTL

LEMMA AfterItems ==
  ASSUME NEW f \in [Bag -> Part], NEW b \in Bag, NEW x
  PROVE  \A a \in Bag : WithItems(f, b, x)[a].items = IF a = b THEN x ELSE f[a].items
<1> DEFINE p == [f[b] EXCEPT !.items = x]
<1>1. WithItems(f, b, x) = [f EXCEPT ![b] = p]
  BY DEF WithItems
<1>2. p.items = x
  BY DEF Part
<1> HIDE DEF p
<1> QED
  BY <1>1, <1>2

(* The rest of an operation gives each holder what From says.              *)
LEMMA AfterHeld ==
  ASSUME BagInv, NEW r \in Rank, NEW c, AfterBarrier(r, c),
         c.kind # "barrier" => c.bag \in Bag /\ c.peer \in Bag
  PROVE  Moved(ListsNow, ListsNow', r, c)
<1> DEFINE f == bags[r]
           x == file[r].items
<1>1. /\ bags \in [Rank -> [Bag -> Part]] /\ f \in [Bag -> Part]
      /\ file \in [Rank -> [items : Seq(Nat), rr : Nat]]
  BY DEF BagInv, BagTypeOK, Part
<1>2. /\ \A s \in Rank : \A h \in Holder : ListsNow[s][h] = Held(s, h)
      /\ \A s \in Rank : \A h \in Holder : ListsNow'[s][h] = Held(s, h)'
      /\ ListsNow = [s \in Rank |-> ListsNow[s]] /\ ListsNow' = [s \in Rank |-> ListsNow'[s]]
  BY DEF ListsNow
<1>3. \A s \in Rank \ {r} : bags'[s] = bags[s] /\ file'[s] = file[s]
  BY <1>1 DEF AfterBarrier
<1>4. \A s \in Rank \ {r} : ListsNow'[s] = ListsNow[s]
  BY <1>3 DEF ListsNow, Held
<1>5. /\ \A a \in Bag : Held(r, a) = f[a].items
      /\ \A a \in Bag : Held(r, a)' = bags'[r][a].items
      /\ Held(r, File) = x /\ Held(r, File)' = file'[r].items
  BY HolderFacts DEF Held
<1>6. /\ c.kind = "save" => file'[r].items = f[c.bag].items
      /\ c.kind # "save" => file'[r].items = x
  BY <1>1 DEF AfterBarrier
<1> HIDE DEF x
<1>7. /\ c.kind = "clear" => bags'[r] = WithItems(f, c.bag, <<>>)
      /\ c.kind = "destroy" => bags'[r] = [f EXCEPT ![c.bag] = NoBag]
      /\ c.kind = "swap" => bags'[r] = WithItems(WithItems(f, c.bag, f[c.peer].items), c.peer, f[c.bag].items)
      /\ c.kind = "load" => bags'[r] = WithRoundRobin(WithItems(f, c.bag, x), c.bag, file[r].rr)
      /\ c.kind \notin {"clear", "destroy", "swap", "load"} => bags'[r] = f
  BY <1>1 DEF AfterBarrier, x, WithItems, WithRoundRobin
<1> HIDE DEF f
<1>8. ASSUME NEW h \in Holder
      PROVE  Held(r, h)' = IF From(c, h) = Nowhere THEN <<>> ELSE Held(r, From(c, h))
  <2>1. CASE c.kind = "clear"
    <3>1. \A a \in Bag : bags'[r][a].items = IF a = c.bag THEN <<>> ELSE f[a].items
      <4>1. PICK none : none = <<>>
        OBVIOUS
      <4>2. bags'[r] = WithItems(f, c.bag, none) /\ f \in [Bag -> Part] /\ c.bag \in Bag
        BY <1>1, <1>7, <2>1, <4>1
      <4>3. \A a \in Bag : WithItems(f, c.bag, none)[a].items = IF a = c.bag THEN none ELSE f[a].items
        BY <4>2, AfterItems
      <4> QED
        BY <4>1, <4>2, <4>3
    <3> QED
      BY <1>5, <1>6, <2>1, <3>1, HolderFacts DEF From, Holder
  <2>2. CASE c.kind = "destroy"
    <3>1. \A a \in Bag : bags'[r][a].items = IF a = c.bag THEN <<>> ELSE f[a].items
      <4>0. NoBag.items = <<>>
        BY DEF NoBag
      <4>1. PICK no : no = NoBag /\ no.items = <<>>
        BY <4>0
      <4>2. bags'[r] = [f EXCEPT ![c.bag] = no]
        BY <1>7, <2>2, <4>1
      <4> QED
        BY <1>1, <4>1, <4>2
    <3> QED
      BY <1>5, <1>6, <2>2, <3>1, HolderFacts DEF From, Holder
  <2>3. CASE c.kind = "swap"
    <3> DEFINE g == WithItems(f, c.bag, f[c.peer].items)
    <3>1. g \in [Bag -> Part] /\ \A a \in Bag : g[a].items = IF a = c.bag THEN f[c.peer].items ELSE f[a].items
      <4>1. f \in [Bag -> Part] /\ c.bag \in Bag /\ c.peer \in Bag
        BY <1>1, <2>3
      <4>2. PICK y : y = f[c.peer].items /\ y \in Seq(Nat)
        BY <4>1 DEF Part
      <4>3. WithItems(f, c.bag, y) \in [Bag -> Part]
        BY <4>1, <4>2, PutItems
      <4>4. \A a \in Bag : WithItems(f, c.bag, y)[a].items = IF a = c.bag THEN y ELSE f[a].items
        BY <4>1, AfterItems
      <4> QED
        BY <4>2, <4>3, <4>4
    <3>2. bags'[r] = WithItems(g, c.peer, f[c.bag].items)
      BY <1>7, <2>3
    <3> HIDE DEF g
    <3>3. \A a \in Bag : bags'[r][a].items = IF a = c.peer THEN f[c.bag].items
                                             ELSE IF a = c.bag THEN f[c.peer].items ELSE f[a].items
      <4>1. PICK y : y = f[c.bag].items
        OBVIOUS
      <4>2. g \in [Bag -> Part] /\ c.peer \in Bag
        BY <2>3, <3>1
      <4>3. \A a \in Bag : WithItems(g, c.peer, y)[a].items = IF a = c.peer THEN y ELSE g[a].items
        BY <4>2, AfterItems
      <4> QED
        BY <3>1, <3>2, <4>1, <4>3
    <3> QED
      BY <1>5, <1>6, <2>3, <3>3, HolderFacts DEF From, Holder
  <2>4. CASE c.kind = "load"
    <3> DEFINE g == WithItems(f, c.bag, x)
    <3>1. g \in [Bag -> Part] /\ \A a \in Bag : g[a].items = IF a = c.bag THEN x ELSE f[a].items
      <4>1. x \in Seq(Nat) /\ f \in [Bag -> Part] /\ c.bag \in Bag
        BY <1>1, <2>4 DEF x
      <4>2. PICK y : y = x /\ y \in Seq(Nat)
        BY <4>1
      <4>3. WithItems(f, c.bag, y) \in [Bag -> Part]
        BY <4>1, <4>2, PutItems
      <4>4. \A a \in Bag : WithItems(f, c.bag, y)[a].items = IF a = c.bag THEN y ELSE f[a].items
        BY <4>1, AfterItems
      <4> QED
        BY <4>2, <4>3, <4>4
    <3>2. bags'[r] = [g EXCEPT ![c.bag].rr = file[r].rr]
      BY <1>7, <2>4 DEF WithRoundRobin
    <3> HIDE DEF g
    <3>3. \A a \in Bag : bags'[r][a].items = g[a].items
      BY <2>4, <3>1, <3>2 DEF Part
    <3> QED
      BY <1>5, <1>6, <2>4, <3>1, <3>3, HolderFacts DEF From, Holder
  <2>5. CASE c.kind = "save"
    <3>1. \A a \in Bag : bags'[r][a].items = f[a].items
      BY <1>7, <2>5
    <3> QED
      BY <1>5, <1>6, <2>5, <3>1, HolderFacts DEF From, Holder
  <2>6. CASE c.kind \notin {"clear", "destroy", "swap", "load", "save"}
    <3>1. \A a \in Bag : bags'[r][a].items = f[a].items
      BY <1>7, <2>6
    <3> QED
      BY <1>5, <1>6, <2>6, <3>1, HolderFacts DEF From, Holder
  <2> QED
    BY <2>1, <2>2, <2>3, <2>4, <2>5, <2>6
<1>9. \A h \in Holder : From(c, h) # Nowhere => From(c, h) \in Holder
  BY FromType
<1> QED
  BY <1>2, <1>4, <1>8, <1>9 DEF Moved

LEMMA ContentLeave ==
  ASSUME BagInv, IterInv, ContentInv, BagContent, NEW r \in Rank, Leave(r)
  PROVE  ContentInv' /\ BagContent'
<1> DEFINE e == epoch[r]
           c == plan[e + 1]
<1>1. /\ OpsInv /\ OneCall /\ EmptyInv
      /\ HeldOK(ListsNow, LinesNow, ops, Pending)
      /\ AllThere(ListsNow, LinesNow, epoch, ops, Pending)
  BY ContentInvMeans DEF HeldNow, ThereNow
<1>2. /\ r \in inside /\ inside' = inside \ {r} /\ epoch' = [epoch EXCEPT ![r] = @ + 1]
      /\ \A s \in Rank : (epoch[s] = e /\ s \in inside) \/ epoch[s] = e + 1
      /\ \A m \in Pending : m.epoch # e
      /\ AfterBarrier(r, c) /\ UNCHANGED <<ops, issued, executed, plan>>
      /\ closed' = IF Len(closed) = e THEN Append(closed, Items) ELSE closed
  BY DEF Leave, BSLeave
<1>3. /\ Sane(plan) /\ Len(plan) \in Nat /\ DOMAIN plan = 1 .. Len(plan) /\ ListsNow \in Lists
      /\ \A i \in DOMAIN plan : plan[i].bag <= plan[i].made /\ plan[i].peer <= plan[i].made
      /\ \A i \in DOMAIN plan : plan[i] \in Entry
      /\ epoch[r] \in Nat
      /\ \A n \in DOMAIN ops : ops[n].epoch \in Nat
  BY ContentTypes
<1>4. epoch \in [Rank -> Nat] /\ Len(closed) \in Nat /\ DOMAIN closed = 1 .. Len(closed)
  BY IterTypes
<1>5. epoch'[r] = e + 1 /\ \A s \in Rank \ {r} : epoch'[s] = epoch[s]
  BY <1>2, <1>4
<1>6. e + 1 \in DOMAIN plan /\ Entered(r) = e + 1 /\ Made(plan, e + 1) = c.made
  <2>1. Entered(r) = e + 1 /\ Entered(r) <= Len(plan)
    BY <1>2 DEF Entered, BagInv, RegistryInv
  <2>2. e + 1 # 0
    BY <1>3
  <2> QED
    BY <1>3, <2>1, <2>2 DEF Made
<1>7. c \in Entry /\ (c.kind # "barrier" => c.bag \in Bag /\ c.peer \in Bag)
      /\ c.bag <= c.made /\ c.peer <= c.made
  BY <1>3, <1>6 DEF Sane
<1>8. Moved(ListsNow, ListsNow', r, c)
  BY <1>2, <1>7, AfterHeld
<1>9. Lineage' = Lineage
  BY <1>2 DEF Lineage
<1>10. LinesNow'[r] = Later(LinesNow[r], c, e + 1) /\ \A s \in Rank \ {r} : LinesNow'[s] = LinesNow[s]
  <2>1. \A i \in 1 .. Len(plan) : LineageOf(plan)[i] = Later(LineageOf(plan)[i - 1], plan[i], i)
    BY <1>3, LineageAt
  <2>2. Lineage[e + 1] = Later(Lineage[e], c, e + 1)
    <3>1. e + 1 \in 1 .. Len(plan) /\ e + 1 - 1 = e
      BY <1>3, <1>6
    <3>2. PICK k : k = e + 1
      OBVIOUS
    <3>3. k \in 1 .. Len(plan) /\ k - 1 = e
      BY <1>3, <3>1, <3>2
    <3>4. LineageOf(plan)[k] = Later(LineageOf(plan)[k - 1], plan[k], k)
      BY <2>1, <3>3
    <3> QED
      BY <3>2, <3>3, <3>4 DEF Lineage
  <2>3. LinesNow[r] = Lineage[e] /\ LinesNow'[r] = Lineage[e + 1]
    BY <1>5, <1>9 DEF LinesNow
  <2>4. \A s \in Rank \ {r} : LinesNow'[s] = LinesNow[s]
    BY <1>5, <1>9 DEF LinesNow
  <2> QED
    BY <2>2, <2>3, <2>4
<1>11. Pending' = Pending
  BY <1>2 DEF Pending
<1>12. HeldOK(ListsNow', LinesNow', ops, Pending)
  <2> HIDE DEF c
  <2> QED
    BY <1>1, <1>7, <1>8, <1>10, MoveHeld
<1>13. AllThere(ListsNow', LinesNow', epoch', ops, Pending)
  <2> HIDE DEF c
  <2>1. LinesNow'[r] = Later(LinesNow[r], c, epoch'[r])
    BY <1>5, <1>10
  <2> QED
    BY <1>1, <1>3, <1>5, <1>7, <1>8, <1>10, <2>1, MoveAll
<1>14. EmptyInv'
  <2>1. ASSUME NEW s \in Rank PROVE Entered(s)' = Entered(s)
    <3>1. CASE s = r
      BY <1>2, <1>5, <1>6, <3>1 DEF Entered
    <3>2. CASE s # r
      BY <1>2, <1>5, <3>2 DEF Entered
    <3> QED
      BY <3>1, <3>2
  <2>2. ASSUME NEW s \in Rank, NEW h \in Holder, h > Made(plan, Entered(s)) PROVE Held(s, h)' = <<>>
    <3>1. /\ \A t \in Rank : \A g \in Holder : ListsNow[t][g] = Held(t, g)
          /\ \A t \in Rank : \A g \in Holder : ListsNow'[t][g] = Held(t, g)'
      BY DEF ListsNow
    <3>2. Held(s, h) = <<>>
      BY <1>1, <2>2 DEF EmptyInv
    <3>3. CASE s # r
      BY <1>8, <3>1, <3>2, <3>3 DEF Moved
    <3>4. CASE s = r
      <4>1. h > c.made /\ c.made \in Nat /\ c.bag \in Nat /\ c.peer \in Nat /\ h \in Nat
        BY <1>6, <1>7, <2>2, <3>4, HolderFacts DEF Entry
      <4>2. h # c.bag /\ h # c.peer /\ h # File
        BY <1>7, <4>1 DEF File
      <4>3. From(c, h) = h
        BY <4>2 DEF From
      <4> HIDE DEF c
      <4> QED
        BY <1>8, <3>1, <3>2, <3>4, <4>3, HolderFacts DEF Moved
    <3> QED
      BY <3>3, <3>4
  <2> QED
    BY <1>2, <2>1, <2>2 DEF EmptyInv, Made
<1>15. /\ Len(closed') >= Len(closed) /\ \A i \in DOMAIN closed : closed'[i] = closed[i]
       /\ Len(closed) = e => DOMAIN closed' = DOMAIN closed \cup {e + 1} /\ closed'[e + 1] = Items
       /\ Len(closed) # e => DOMAIN closed' = DOMAIN closed
  <2>1. closed \in Seq([Rank -> [Bag -> Seq(Nat)]]) /\ Items \in [Rank -> [Bag -> Seq(Nat)]]
    BY IterTypes
  <2>2. CASE Len(closed) = e
    <3>1. closed' = Append(closed, Items)
      BY <1>2, <2>2
    <3>2. /\ Len(closed') = Len(closed) + 1 /\ closed'[Len(closed) + 1] = Items
          /\ closed' \in Seq([Rank -> [Bag -> Seq(Nat)]])
          /\ \A i \in DOMAIN closed : closed'[i] = closed[i]
      BY <2>1, <3>1, AppendProperties, LenProperties
    <3>3. DOMAIN closed' = 1 .. Len(closed')
      BY <3>2, LenProperties
    <3> QED
      BY <1>4, <2>2, <3>2, <3>3
  <2>3. CASE Len(closed) # e
    BY <1>2, <1>4, <2>3
  <2> QED
    BY <2>2, <2>3
<1>16. OpsInv' /\ OneCall'
  <2>1. ASSUME NEW n \in DOMAIN ops PROVE ops[n].epoch <= Len(closed')
    <3>1. ops[n].epoch <= Len(closed) /\ ops[n].epoch \in Nat /\ Len(closed') \in Nat
      BY <1>1, <1>3, <1>15, ClosedGrows DEF OpsInv
    <3> QED
      BY <1>4, <1>15, <3>1
  <2> QED
    BY <1>1, <1>2, <1>11, <2>1 DEF OpsInv, OneCall
\* The first to leave: all are in this epoch, and nothing is under way.
<1>17. ASSUME Len(closed) = e, NEW b \in Bag PROVE Exact(Items, ops, Lineage[e][b], b)
  <2>1. \A s \in Rank : epoch[s] = e
    BY <1>2, <1>4, <1>17 DEF IterInv, ClosedInv
  <2>2. Pending = {}
    <3> SUFFICES ASSUME NEW m \in Pending PROVE FALSE
      OBVIOUS
    <3>1. m.id \in DOMAIN ops /\ ops[m.id].epoch = m.epoch /\ epoch[r] <= m.epoch
      BY DEF BagInv, CallInv, IterInv, GrowthInv
    <3>2. m.epoch <= e /\ m.epoch \in Nat
      BY <1>1, <1>3, <1>17, <3>1 DEF OpsInv
    <3> QED
      BY <1>2, <1>3, <3>1, <3>2
  <2>3. b \in Holder
    BY HolderFacts
  <2>4. \A s \in Rank : Items[s][b] = ListsNow[s][b] /\ LinesNow[s] = Lineage[e]
    BY <2>1, <2>3, HolderFacts DEF Items, ListsNow, Held, LinesNow
  <2>5. ASSUME NEW s \in Rank PROVE IsInjective(Items[s][b])
    BY <1>1, <2>3, <2>4 DEF HeldOK
  <2>6. ASSUME NEW s \in Rank, NEW n \in Range(Items[s][b])
        PROVE  /\ n \in DOMAIN ops /\ Of(ops, n) \in Lineage[e][b]
               /\ \A t \in Rank \ {s} : n \notin Range(Items[t][b])
    <3>1. ItemOK(ListsNow, LinesNow, ops, Pending, s, b, n)
      BY <1>1, <2>3, <2>4 DEF HeldOK
    <3> QED
      BY <2>3, <2>4, <3>1 DEF ItemOK, Alone
  <2>7. ASSUME NEW n \in DOMAIN ops, Of(ops, n) \in Lineage[e][b]
        PROVE  \E s \in Rank : n \in Range(Items[s][b])
    <3>1. PICK s \in Rank : ArrivedAt(ListsNow[s], LinesNow[s], epoch[s], ops, n)
      BY <1>1, <2>2 DEF AllThere
    <3>2. n \in Range(Items[s][b])
      BY <2>3, <2>4, <2>7, <3>1 DEF ArrivedAt
    <3> QED
      BY <3>2
  <2> HIDE DEF e
  <2> QED
    BY <2>5, <2>6, <2>7, ExactIf
<1>18. BagContent'
  <2>1. ASSUME NEW i \in DOMAIN closed', NEW b \in Bag PROVE Exact(closed'[i], ops, Lineage[i - 1][b], b)
    <3>1. CASE i \in DOMAIN closed
      BY <1>15, <3>1, ContentIs DEF ContentNow
    <3>2. CASE i \notin DOMAIN closed
      <4>1. Len(closed) = e /\ i = e + 1 /\ closed'[i] = Items
        BY <1>15, <2>1, <3>2
      <4>2. i - 1 = e
        BY <1>3, <4>1
      <4> QED
        BY <1>17, <4>1, <4>2
    <3> QED
      BY <3>1, <3>2
  <2>2. \A i \in DOMAIN closed' : \A b \in Bag : Exact(closed'[i], ops', Lineage'[i - 1][b], b)
    BY <1>2, <1>9, <2>1
  <2>3. ContentNow'
    BY <2>2 DEF ContentNow
  <2> QED
    BY <2>3, ContentIs, PTL
<1>19. HeldNow' /\ ThereNow'
  BY <1>2, <1>11, <1>12, <1>13 DEF HeldNow, ThereNow
<1> QED
  BY <1>14, <1>16, <1>18, <1>19, ContentInvMeans, PTL

LEMMA ContentStay ==
  ASSUME BagInv, IterInv, ContentInv, BagContent,
         UNCHANGED <<issued, executed, epoch, inside, bags, file, ops, plan, closed>>
  PROVE  ContentInv' /\ BagContent'
<1>1. /\ OpsInv /\ OneCall /\ EmptyInv
      /\ HeldOK(ListsNow, LinesNow, ops, Pending)
      /\ AllThere(ListsNow, LinesNow, epoch, ops, Pending)
  BY ContentInvMeans DEF HeldNow, ThereNow
<1>2. /\ ListsNow' = ListsNow /\ LinesNow' = LinesNow /\ Pending' = Pending
      /\ OpsInv' /\ OneCall' /\ EmptyInv'
  BY <1>1 DEF ListsNow, Held, LinesNow, Lineage, Pending, OpsInv, OneCall, EmptyInv, Entered, Made
<1>3. HeldNow' /\ ThereNow'
  BY <1>1, <1>2 DEF HeldNow, ThereNow
<1>4. ContentNow'
  BY ContentIs DEF ContentNow, Lineage
<1> QED
  BY <1>2, <1>3, <1>4, ContentInvMeans, ContentIs, PTL

LEMMA ContentInit == BagInit => ContentInv /\ BagContent
<1> SUFFICES ASSUME BagInit PROVE ContentInv /\ BagContent
  OBVIOUS
<1>1. issued = {} /\ executed = {} /\ ops = <<>> /\ closed = <<>> /\ DOMAIN ops = {} /\ DOMAIN closed = {}
  BY DEF BagInit, BSInit
<1>2. \A r \in Rank : \A h \in Holder : Held(r, h) = <<>>
  BY DEF BagInit, Held, NoBag, Holder
<1>3. \A r \in Rank : \A h \in Holder : ListsNow[r][h] = <<>>
  BY <1>2 DEF ListsNow
<1>4. HeldOK(ListsNow, LinesNow, ops, Pending)
  BY <1>3, RangeOfNone DEF HeldOK
<1>5. AllThere(ListsNow, LinesNow, epoch, ops, Pending) /\ OpsInv /\ OneCall /\ EmptyInv
  BY <1>1, <1>2 DEF AllThere, OpsInv, OneCall, EmptyInv, Pending
<1>6. BagContent
  BY <1>1, ContentIs DEF ContentNow
<1>7. HeldNow /\ ThereNow
  BY <1>4, <1>5 DEF HeldNow, ThereNow
<1> QED
  BY <1>5, <1>6, <1>7, ContentInvMeans

(* Given BagInv and IterInv, ContentInv and BagContent are inductive.      *)
LEMMA ContentStep ==
  BagInv /\ BagInv' /\ IterInv /\ IterInv' /\ ContentInv /\ BagContent /\ [BagNext]_bagVars
    => ContentInv' /\ BagContent'
<1> SUFFICES ASSUME BagInv, BagInv', IterInv, IterInv', ContentInv, BagContent, [BagNext]_bagVars
             PROVE  ContentInv' /\ BagContent'
  OBVIOUS
<1>1. CASE UNCHANGED <<issued, executed, epoch, inside, bags, file, ops, plan, closed>>
  BY <1>1, ContentStay
<1>2. ASSUME NEW r \in Rank, NEW b \in Bag, Insert(r, b) PROVE ContentInv' /\ BagContent'
  BY <1>2, ContentInsert
<1>3. ASSUME NEW r \in Rank, NEW b \in Bag, LocalForAll(r, b) PROVE ContentInv' /\ BagContent'
  BY <1>1, <1>3 DEF LocalForAll, bsVars
<1>4. ASSUME NEW r \in Rank, NextItem(r) PROVE ContentInv' /\ BagContent'
  BY <1>1, <1>4 DEF NextItem, bsVars
<1>5. ASSUME NEW r \in Rank, Enter(r) PROVE ContentInv' /\ BagContent'
  BY <1>5, ContentEnter
<1>6. ASSUME NEW r \in Rank, Leave(r) PROVE ContentInv' /\ BagContent'
  BY <1>6, ContentLeave
<1>7. ASSUME NEW m \in Pending, Handle(m) PROVE ContentInv' /\ BagContent'
  BY <1>7, ContentHandle
<1>8. CASE Ended \/ UNCHANGED bagVars
  BY <1>1, <1>8 DEF Ended, bagVars, bsVars
<1> QED
  BY <1>2, <1>3, <1>4, <1>5, <1>6, <1>7, <1>8 DEF BagNext

(* At every moment each rank holds what the operations it has been through
   leave of the insertions that reached it, each at one place.             *)
THEOREM ContentInvariant == BagSpec => [](ContentInv /\ BagContent)
<1> QED
  BY BagInvariant, IterationInvariant, ContentInit, ContentStep, PTL DEF BagSpec

(* When an epoch ends, the parts of a bag together hold, each once, the
   items inserted since it was last cleared, and no others, through swap(),
   clear(), serialize() and deserialize() (bag_impl.hpp 24-79).            *)
THEOREM BagHoldsItsItems == BagSpec => []BagContent
<1> QED
  BY ContentInvariant, PTL
=============================================================================
