---------------------------- MODULE YgmMapProofs ----------------------------
(***************************************************************************)
(* Theorems about YgmMap, for every number of ranks, keys, objects,        *)
(* operations and barriers: size() and count() return what the whole       *)
(* object held at their barrier, all_gather() what it held of each key     *)
(* asked for, no key lies at a rank that does not own it, and at the end   *)
(* of an epoch every object holds what its operations amount to.           *)
(***************************************************************************)
EXTENDS YgmMap, SequenceTheorems, YgmFoldProofs

Content == [by : Nat, visits : Nat]
Stores  == [Rank -> [Object -> [Key -> Vals]]]
CollOp  == [kind : CollKind, obj : Object, peer : Object, keys : SUBSET Key]

LEMMA MapTypes ==
  ASSUME MapInv
  PROVE  /\ issued \subseteq Call /\ executed \subseteq issued /\ inside \subseteq Rank /\ reducing \subseteq Rank
         /\ epoch \in [Rank -> Nat]
         /\ ops \in Seq(Op) /\ Len(ops) \in Nat /\ DOMAIN ops = 1 .. Len(ops)
         /\ plan \in Seq(CollOp) /\ Len(plan) \in Nat /\ DOMAIN plan = 1 .. Len(plan)
         /\ closed \in Seq(Stores) /\ Len(closed) \in Nat /\ DOMAIN closed = 1 .. Len(closed)
         /\ store \in Stores
         /\ file \in [Rank -> [Key -> Vals]] /\ output \in [Rank -> [Key -> Vals]]
         /\ asked \in [Rank -> SUBSET Key] /\ want \in [Rank -> SUBSET Key]
         /\ \A r \in Rank : epoch[r] <= Len(plan) /\ epoch[r] <= Len(closed)
BY LenProperties DEF MapInv, MapTypeOK, LockstepInv, StoreInv, Stores, CollOp

(* The constants' types.                                                   *)
LEMMA OwnerIsRank ==
  ASSUME NEW k \in Key
  PROVE  Owner[k] \in Rank
BY OwnerAssumption

(* What an operation leaves are values.                                    *)
LEMMA VisitsType ==
  ASSUME NEW s \in Vals
  PROVE  /\ VisitIfExists(s) \in Vals /\ Len(VisitIfExists(s)) = Len(s)
         /\ DOMAIN VisitIfExists(s) = DOMAIN s
         /\ \A j \in DOMAIN s : /\ VisitIfExists(s)[j].by = s[j].by
                                /\ VisitIfExists(s)[j].visits = s[j].visits + 1
<1>1. s \in Seq(Content) /\ Len(s) \in Nat /\ DOMAIN s = 1 .. Len(s)
  BY LenProperties DEF Vals, Content
<1> DEFINE t == [j \in 1 .. Len(s) |-> [s[j] EXCEPT !.visits = @ + 1]]
<1>2. t = VisitIfExists(s)
  BY <1>1 DEF VisitIfExists
<1>3. ASSUME NEW j \in 1 .. Len(s)
      PROVE  t[j] \in Content /\ t[j].by = s[j].by /\ t[j].visits = s[j].visits + 1
  <2>1. s[j] \in Content
    BY <1>1
  <2> QED
    BY <2>1 DEF Content
<1>4. DOMAIN t = 1 .. Len(s)
  OBVIOUS
<1> HIDE DEF t
<1>5. t \in Seq(Content) /\ Len(t) = Len(s)
  <2>1. t = [j \in 1 .. Len(s) |-> t[j]]
    BY <1>4 DEF t
  <2>2. t \in [1 .. Len(s) -> Content]
    BY <1>3, <2>1
  <2> QED
    BY <1>1, <2>2
<1> QED
  BY <1>1, <1>2, <1>3, <1>4, <1>5 DEF Vals, Content

LEMMA NewValuesType ==
  ASSUME NEW op, op.kind \in OpKind, NEW i \in Nat, NEW s \in Vals
  PROVE  NewValues(op, i, s) \in Vals
<1> DEFINE v == Value(i)
<1>1. v \in Content /\ Value(0) \in Content /\ <<v>> \in Vals /\ <<Value(0)>> \in Vals /\ <<>> \in Vals
  BY DEF Value, Content, Vals
<1>2. s \in Seq(Content) /\ Append(s, v) \in Vals
  BY <1>1, AppendProperties DEF Vals, Content
<1>3. s # <<>> => [s EXCEPT ![1] = v] \in Vals
  BY <1>1, <1>2 DEF Vals, Content
<1>4. VisitIfExists(s) \in Vals /\ VisitIfExists(<<Value(0)>>) \in Vals
  BY <1>1, VisitsType
<1> HIDE DEF v
<1>5. InsertUnique(s, i) \in Vals /\ InsertMulti(s, i) \in Vals /\ SetInsertUnique(s, i) \in Vals
  BY <1>1, <1>2, <1>3 DEF InsertUnique, InsertMulti, SetInsertUnique, v
<1>6. Visit(s) \in Vals
  BY <1>4 DEF Visit
<1> QED
  BY <1>1, <1>4, <1>5, <1>6 DEF NewValues, OpKind

(* Apply changes the values of one key of one object at one rank.          *)
LEMMA ApplyLemma ==
  ASSUME store \in Stores, NEW r \in Rank, NEW op, NEW i \in Nat,
         op.kind \in OpKind, op.obj \in Object, op.key \in Key, Apply(r, op, i)
  PROVE  /\ store' \in Stores
         /\ \A s \in Rank : s # r => store'[s] = store[s]
         /\ \A o \in Object, k \in Key :
              store'[r][o][k] = IF o = op.obj /\ k = op.key
                                THEN NewValues(op, i, store[r][o][k]) ELSE store[r][o][k]
<1> DEFINE old == store[r][op.obj][op.key]
           new == NewValues(op, i, old)
           g == [store[r][op.obj] EXCEPT ![op.key] = new]
           f == [store[r] EXCEPT ![op.obj] = g]
<1>1. store' = [store EXCEPT ![r] = f]
  BY DEF Apply, Stores
<1>2. store[r] \in [Object -> [Key -> Vals]] /\ store[r][op.obj] \in [Key -> Vals] /\ old \in Vals
  BY DEF Stores
<1>3. new \in Vals
  BY <1>2, NewValuesType
<1> HIDE DEF new
<1>4. /\ g \in [Key -> Vals]
      /\ \A k \in Key : g[k] = IF k = op.key THEN new ELSE store[r][op.obj][k]
  BY <1>2, <1>3
<1> HIDE DEF g
<1>5. /\ f \in [Object -> [Key -> Vals]]
      /\ \A o \in Object : f[o] = IF o = op.obj THEN g ELSE store[r][o]
  BY <1>2, <1>4
<1> HIDE DEF f
<1>6. store' \in Stores /\ store'[r] = f /\ \A s \in Rank : s # r => store'[s] = store[s]
  BY <1>1, <1>5 DEF Stores
<1>7. ASSUME NEW o \in Object, NEW k \in Key
      PROVE  store'[r][o][k] = IF o = op.obj /\ k = op.key
                               THEN NewValues(op, i, store[r][o][k]) ELSE store[r][o][k]
  BY <1>4, <1>5, <1>6 DEF new
<1> QED
  BY <1>6, <1>7
-----------------------------------------------------------------------------
(* The conditions on one call, and on the questions of one rank.           *)
CallAt(m) ==
  LET op == ops[m.id]
  IN  /\ epoch[m.src] = m.epoch /\ \A s \in Rank : epoch[s] <= m.epoch
      /\ op.kind \in OpKind => m.dst = Owner[op.key] /\ ~Halfway(m.epoch)
      /\ op.kind \notin OpKind => Gathering(m.epoch) /\ op.obj = plan[m.epoch].obj
      /\ op.kind = "fetch"  => m.dst = Owner[op.key]
      /\ op.kind = "return" => /\ epoch[m.dst] = m.epoch
                               /\ op.vals = closed[m.epoch][Owner[op.key]][op.obj][op.key]

LEMMA CallAtMeans ==
  CallInv <=> /\ \A m \in issued : m.id \in DOMAIN ops /\ m.parent <= Len(ops)
              /\ \A m, n \in issued : m.id = n.id => m = n
              /\ \A m \in Pending : CallAt(m)
BY DEF CallInv, CallAt

LEMMA CallFacts ==
  ASSUME MapInv, NEW m \in Pending
  PROVE  /\ m \in issued /\ m \in Call /\ m.src \in Rank /\ m.dst \in Rank
         /\ m.epoch \in Nat /\ m.id \in Nat /\ m.id # 0 /\ m.id \in DOMAIN ops /\ m.id <= Len(ops)
         /\ ops[m.id] \in Op /\ ops[m.id].key \in Key /\ ops[m.id].obj \in Object
         /\ ops[m.id].kind \in OpKind \cup {"fetch", "return"}
         /\ ops[m.id].vals \in Vals
         /\ CallAt(m)
<1>1. m \in issued /\ m \in Call
  BY MapTypes DEF Pending
<1>2. /\ m.src \in Rank /\ m.dst \in Rank /\ m.epoch \in Nat /\ m.id \in Nat /\ m.id # 0
  BY <1>1 DEF Call
<1>3. m.id \in DOMAIN ops /\ CallAt(m)
  <2>1. CallInv
    BY DEF MapInv
  <2> QED
    BY <1>1, <2>1, CallAtMeans
<1>4. ops[m.id] \in Op /\ m.id <= Len(ops)
  <2>1. ops \in Seq(Op) /\ Len(ops) \in Nat /\ DOMAIN ops = 1 .. Len(ops)
    BY MapTypes
  <2> QED
    BY <1>2, <1>3, <2>1
<1>5. /\ ops[m.id].key \in Key /\ ops[m.id].obj \in Object /\ ops[m.id].vals \in Vals
      /\ ops[m.id].kind \in OpKind \cup {"fetch", "return"}
  BY <1>4 DEF Op
<1> QED
  BY <1>1, <1>2, <1>3, <1>4, <1>5

LEMMA KindsDiffer == "fetch" \notin OpKind /\ "return" \notin OpKind
BY DEF OpKind

(* A rank that is as far as any is one that others wait for.               *)
LEMMA FrontFacts ==
  ASSUME MapInv, NEW r \in Rank
  PROVE  /\ r \notin inside => \A s \in Rank : epoch[s] <= epoch[r]
         /\ (\A s \in Rank : epoch[s] <= epoch[r]) => epoch[r] = Len(closed)
<1>1. epoch \in [Rank -> Nat] /\ epoch[r] <= Len(closed) /\ Len(closed) \in Nat
  BY MapTypes
<1>2. r \notin inside => \A s \in Rank : epoch[s] <= epoch[r]
  BY <1>1 DEF MapInv, LockstepInv
<1>3. ASSUME \A s \in Rank : epoch[s] <= epoch[r] PROVE epoch[r] = Len(closed)
  <2>1. CASE closed = <<>>
    BY <1>1, <2>1
  <2>2. CASE closed # <<>>
    <3>1. PICK s \in Rank : epoch[s] = Len(closed)
      BY <2>2 DEF MapInv, StoreInv
    <3> QED
      BY <1>1, <1>3, <3>1
  <2> QED
    BY <2>1, <2>2
<1> QED
  BY <1>2, <1>3

LEMMA GatheringInClosed ==
  ASSUME MapInv, NEW r \in Rank, Gathering(epoch[r])
  PROVE  epoch[r] \in DOMAIN closed /\ epoch[r] \in DOMAIN plan /\ Halfway(epoch[r])
BY MapTypes DEF Gathering, Halfway, TwoBarriers
-----------------------------------------------------------------------------
(* What a step leaves alone, it leaves right.                              *)
LEMMA LockstepFrame ==
  ASSUME MapInv, UNCHANGED <<plan, epoch, inside>>, reducing' \subseteq reducing
  PROVE  LockstepInv'
<1>1. inside' \cap reducing' = {}
  BY DEF MapInv, LockstepInv
<1> QED
  BY <1>1 DEF MapInv, LockstepInv

LEMMA StoreFrame ==
  ASSUME MapInv, UNCHANGED <<plan, epoch, closed, store, file>>
  PROVE  StoreInv'
BY DEF MapInv, StoreInv, Gathering

LEMMA PartFrame ==
  ASSUME MapInv, UNCHANGED <<plan, epoch, closed, part>>
  PROVE  PartInv'
BY DEF MapInv, PartInv

LEMMA SizeFrame ==
  ASSUME MapInv, UNCHANGED <<plan, epoch, closed, answer, reducing>>
  PROVE  SizeExact'
BY DEF MapInv, SizeExact

LEMMA GatherFrame ==
  ASSUME MapInv, UNCHANGED <<plan, epoch, closed>>,
         \A r \in Rank : plan[epoch[r]].kind = "gathered" =>
                           output'[r] = output[r] /\ asked'[r] = asked[r]
  PROVE  GatherExact'
<1>1. GatherExact
  BY DEF MapInv
<1> QED
  BY <1>1 DEF GatherExact

LEMMA AskFrame ==
  ASSUME MapInv, UNCHANGED <<plan, epoch, inside, closed, want, asked, output>>,
         \A r \in Rank, k \in Key : Awaited(r, k)' = Awaited(r, k)
  PROVE  AskInv'
<1>1. AskInv
  BY DEF MapInv
<1> HIDE DEF MapInv
<1> QED
  BY <1>1 DEF AskInv, Gathering

(* The store of a rank that is as far as any is touched, at its keys.      *)
LEMMA StoreTouched ==
  ASSUME MapInv, UNCHANGED <<plan, epoch, closed, file>>, NEW d \in Rank,
         \A s \in Rank : epoch[s] <= epoch[d], ~Gathering(epoch[d]),
         \A s \in Rank : s # d => store'[s] = store[s],
         \A o \in Object, k \in Key : Owner[k] # d => store'[d][o][k] = store[d][o][k]
  PROVE  StoreInv'
<1>1. StoreInv /\ epoch[d] = Len(closed) /\ Len(closed) \in Nat
  BY FrontFacts, MapTypes DEF MapInv
<1>2. ASSUME NEW r \in Rank
      PROVE  /\ epoch[r] < Len(closed) => store'[r] = closed[epoch[r] + 1][r]
             /\ Gathering(epoch[r]) => store'[r] = closed[epoch[r]][r]
  BY <1>1 DEF StoreInv
<1>3. ASSUME NEW r \in Rank, NEW k \in Key, Owner[k] # r, NEW o \in Object
      PROVE  store'[r][o][k] = <<>>
  BY <1>1, <1>3 DEF StoreInv
<1> QED
  BY <1>1, <1>2, <1>3 DEF StoreInv, Gathering
-----------------------------------------------------------------------------
(* Calls that are under way stay as they are.                              *)
LEMMA CallAtKept ==
  ASSUME NEW m, CallAt(m), UNCHANGED <<epoch, plan, closed>>, ops'[m.id] = ops[m.id]
  PROVE  CallAt(m)'
BY DEF CallAt, Gathering, Halfway

(* An operation more, and perhaps a call that carries it.                  *)
LEMMA OpsGrow ==
  ASSUME MapInv, NEW op \in Op, ops' = Append(ops, op)
  PROVE  /\ ops' \in Seq(Op) /\ Len(ops') = Len(ops) + 1
         /\ Len(ops) + 1 \in DOMAIN ops' /\ ops'[Len(ops) + 1] = op
         /\ \A i \in DOMAIN ops : i \in DOMAIN ops' /\ ops'[i] = ops[i]
         /\ Len(ops) + 1 \notin DOMAIN ops
<1>1. ops \in Seq(Op) /\ Len(ops) \in Nat /\ DOMAIN ops = 1 .. Len(ops)
  BY MapTypes
<1> QED
  BY <1>1, AppendProperties

LEMMA CallInvGrows ==
  ASSUME MapInv, NEW op \in Op, ops' = Append(ops, op), UNCHANGED <<epoch, plan, closed, executed>>,
         NEW m0, m0.id = Len(ops) + 1, m0.parent <= Len(ops), m0.parent \in Nat,
         \/ issued' = issued
         \/ issued' = issued \cup {m0} /\ CallAt(m0)'
  PROVE  CallInv'
<1>1. /\ Len(ops') = Len(ops) + 1 /\ Len(ops) \in Nat /\ Len(ops) + 1 \in DOMAIN ops'
      /\ Len(ops) + 1 \notin DOMAIN ops
      /\ \A i \in DOMAIN ops : i \in DOMAIN ops' /\ ops'[i] = ops[i]
  BY OpsGrow, MapTypes
<1>2. /\ \A m \in issued : m.id \in DOMAIN ops /\ m.parent <= Len(ops) /\ m.parent \in Nat
      /\ \A m, n \in issued : m.id = n.id => m = n
  <2>1. CallInv /\ issued \subseteq Call
    BY MapTypes DEF MapInv
  <2> QED
    BY <2>1, CallAtMeans DEF Call
<1>3. ASSUME NEW m \in issued' PROVE m.id \in DOMAIN ops' /\ m.parent <= Len(ops')
  BY <1>1, <1>2
<1>4. ASSUME NEW m \in issued', NEW n \in issued', m.id = n.id PROVE m = n
  BY <1>1, <1>2, <1>4
<1>5. ASSUME NEW m \in Pending' PROVE CallAt(m)'
  <2>1. CASE m \in Pending
    <3>1. CallAt(m) /\ m.id \in DOMAIN ops
      BY <2>1, CallFacts
    <3> QED
      BY <1>1, <3>1, CallAtKept
  <2>2. CASE m \notin Pending
    BY <2>2 DEF Pending
  <2> QED
    BY <2>1, <2>2
<1> QED
  BY <1>3, <1>4, <1>5, CallAtMeans DEF CallInv, CallAt

LEMMA CallInvShrinks ==
  ASSUME MapInv, UNCHANGED <<ops, epoch, plan, closed, issued>>, executed \subseteq executed'
  PROVE  CallInv'
<1>1. Pending' \subseteq Pending
  BY DEF Pending
<1>2. CallInv
  BY DEF MapInv
<1> QED
  BY <1>1, <1>2 DEF CallInv, Gathering, Halfway

(* Who waits for an answer does so until it is given.                      *)
LEMMA AwaitedGrows ==
  ASSUME MapInv, NEW op \in Op, ops' = Append(ops, op), UNCHANGED executed, op.kind \in OpKind,
         NEW m0, m0.id = Len(ops) + 1, m0.parent = 0,
         issued' = issued \/ issued' = issued \cup {m0},
         NEW r \in Rank, NEW k \in Key
  PROVE  Awaited(r, k)' = Awaited(r, k)
<1>1. /\ ops'[Len(ops) + 1] = op
      /\ \A i \in DOMAIN ops : ops'[i] = ops[i]
  BY OpsGrow
<1>2. \A m \in Pending : m.id \in DOMAIN ops /\ m.id # 0
  BY CallFacts
<1>3. Pending \subseteq Pending' /\ Pending' \subseteq Pending \cup {m0}
  BY DEF Pending
<1>4. \A m \in Pending : Replied(m)' <=> Replied(m)
  BY <1>2 DEF Replied
<1>5. m0 \notin Awaited(r, k)'
  BY <1>1, KindsDiffer DEF Awaited
<1>6. ASSUME NEW m \in Pending PROVE m \in Awaited(r, k)' <=> m \in Awaited(r, k)
  <2>1. ops'[m.id] = ops[m.id]
    BY <1>1, <1>2
  <2> QED
    BY <1>3, <1>4, <2>1 DEF Awaited
<1>7. Awaited(r, k) \subseteq Pending /\ Awaited(r, k)' \subseteq Pending \cup {m0}
  BY <1>3 DEF Awaited
<1> QED
  BY <1>5, <1>6, <1>7

LEMMA AwaitedKept ==
  ASSUME UNCHANGED <<ops, issued>>, NEW m, executed' = executed \cup {m},
         NEW r \in Rank, NEW k \in Key, m \notin Awaited(r, k)
  PROVE  Awaited(r, k)' = Awaited(r, k)
BY DEF Awaited, Pending, Replied
-----------------------------------------------------------------------------
(* An operation of the program.                                            *)
LEMMA OperateStep ==
  ASSUME MapInv, NEW r \in Rank, NEW o \in Object, NEW k \in Key, NEW kind \in Ops[o],
         Operate(r, kind, o, k)
  PROVE  MapInv'
<1>0. PICK op, m0 : /\ op = [kind |-> kind, obj |-> o, key |-> k, epoch |-> epoch[r], vals |-> <<>>]
                    /\ m0 = NextCall(r, Owner[k], 0)
  OBVIOUS
<1>1. /\ r \notin inside /\ r \notin reducing /\ ~Halfway(epoch[r])
      /\ ops' = Append(ops, op) /\ UNCHANGED <<executed, epoch, inside>>
      /\ UNCHANGED <<file, plan, part, reducing, answer, asked, want, output, closed>>
      /\ \/ Owner[k] = r /\ Apply(r, op, Len(ops) + 1) /\ issued' = issued
         \/ BSIssue(m0) /\ store' = store /\ issued' = issued \cup {m0}
  BY <1>0 DEF Operate, Active, BSIssue, bsVars
<1>2. kind \in OpKind
  BY OpsAssumption
<1>3. op \in Op /\ op.kind = kind /\ op.obj = o /\ op.key = k
  <2>1. epoch[r] \in Nat /\ <<>> \in Vals
    BY MapTypes DEF Vals
  <2> QED
    BY <1>0, <1>2, <2>1 DEF Op
<1>4. /\ m0.id = Len(ops) + 1 /\ m0.parent = 0 /\ m0.dst = Owner[k] /\ m0.epoch = epoch[r]
      /\ m0.src = r /\ Len(ops) \in Nat
  BY <1>0, MapTypes DEF NextCall
<1>5. ops' \in Seq(Op) /\ ops'[Len(ops) + 1] = op
  BY <1>1, <1>3, OpsGrow
<1>6. \A s \in Rank : epoch[s] <= epoch[r]
  BY <1>1, FrontFacts
<1>7. ~Gathering(epoch[r])
  BY <1>1 DEF Gathering, Halfway, TwoBarriers
<1>8. /\ store' \in Stores /\ \A s \in Rank : s # r => store'[s] = store[s]
      /\ \A p \in Object, q \in Key : Owner[q] # r => store'[r][p][q] = store[r][p][q]
  <2>1. store \in Stores
    BY MapTypes
  <2>2. CASE store' = store
    BY <2>1, <2>2
  <2>3. CASE Owner[k] = r /\ Apply(r, op, Len(ops) + 1)
    <3>1. Len(ops) + 1 \in Nat
      BY <1>4
    <3>2. /\ store' \in Stores /\ \A s \in Rank : s # r => store'[s] = store[s]
          /\ \A p \in Object, q \in Key : q # op.key => store'[r][p][q] = store[r][p][q]
      BY <1>2, <1>3, <2>1, <2>3, <3>1, ApplyLemma
    <3> QED
      BY <1>3, <2>3, <3>2
  <2> QED
    BY <1>1, <2>2, <2>3
<1>9. MapTypeOK'
  <2>1. issued' \subseteq Call /\ executed' \subseteq issued'
    BY <1>1, MapTypes DEF BSIssue
  <2> QED
    BY <1>1, <1>5, <1>8, <2>1 DEF MapInv, MapTypeOK, Stores
<1>10. CallInv'
  <2>1. ASSUME issued' = issued \cup {m0} PROVE CallAt(m0)'
    <3>1. ops'[m0.id] = op
      BY <1>4, <1>5
    <3>2. ~Halfway(epoch[r])' /\ \A s \in Rank : epoch'[s] <= epoch[r]
      BY <1>1, <1>6 DEF Halfway
    <3>3. op.kind \in OpKind /\ op.kind # "fetch" /\ op.kind # "return"
      BY <1>2, <1>3, KindsDiffer
    <3> QED
      BY <1>1, <1>3, <1>4, <3>1, <3>2, <3>3 DEF CallAt, Halfway
  <2>2. m0.parent <= Len(ops) /\ m0.parent \in Nat /\ m0.id = Len(ops) + 1
    BY <1>4
  <2>3. issued' = issued \/ issued' = issued \cup {m0}
    BY <1>1
  <2> QED
    BY <1>1, <1>3, <2>1, <2>2, <2>3, CallInvGrows
<1>11. StoreInv'
  BY <1>1, <1>6, <1>7, <1>8, StoreTouched
<1>12. AskInv'
  <2>1. ASSUME NEW s \in Rank, NEW q \in Key PROVE Awaited(s, q)' = Awaited(s, q)
    <3>1. issued' = issued \/ issued' = issued \cup {m0}
      BY <1>1
    <3>2. op.kind \in OpKind /\ m0.id = Len(ops) + 1 /\ m0.parent = 0
      BY <1>2, <1>3, <1>4
    <3> QED
      BY <1>1, <1>3, <3>1, <3>2, AwaitedGrows
  <2> QED
    BY <1>1, <2>1, AskFrame
<1>13. LockstepInv' /\ PartInv' /\ SizeExact' /\ GatherExact'
  BY <1>1, LockstepFrame, PartFrame, SizeFrame, GatherFrame
<1> QED
  BY <1>9, <1>10, <1>11, <1>12, <1>13 DEF MapInv

(* The handler of such a call.                                             *)
LEMMA HandleStep ==
  ASSUME MapInv, NEW m \in Pending, Handle(m)
  PROVE  MapInv'
<1> DEFINE op == ops[m.id]
           d  == m.dst
<1>1. /\ op.kind \notin {"fetch", "return"} /\ m.epoch = epoch[d]
      /\ executed' = executed \cup {m} /\ UNCHANGED <<issued, epoch, inside>>
      /\ Apply(d, op, m.id)
      /\ UNCHANGED <<ops, file, plan, part, reducing, answer, asked, want, output, closed>>
  BY DEF Handle, BSExecute
<1>2. /\ d \in Rank /\ m.id \in Nat /\ op.key \in Key /\ op.obj \in Object
      /\ op.kind \in OpKind /\ CallAt(m)
  BY <1>1, CallFacts
<1>3. d = Owner[op.key] /\ ~Halfway(epoch[d]) /\ \A s \in Rank : epoch[s] <= epoch[d]
  BY <1>1, <1>2 DEF CallAt
<1> HIDE DEF op, d
<1>4. ~Gathering(epoch[d])
  BY <1>3 DEF Gathering, Halfway, TwoBarriers
<1>5. /\ store' \in Stores /\ \A s \in Rank : s # d => store'[s] = store[s]
      /\ \A p \in Object, q \in Key : Owner[q] # d => store'[d][p][q] = store[d][p][q]
  <2>1. store \in Stores
    BY MapTypes
  <2>2. /\ store' \in Stores /\ \A s \in Rank : s # d => store'[s] = store[s]
        /\ \A p \in Object, q \in Key : q # op.key => store'[d][p][q] = store[d][p][q]
    BY <1>1, <1>2, <2>1, ApplyLemma
  <2> QED
    BY <1>3, <2>2
<1>6. MapTypeOK'
  <2>1. executed' \subseteq issued'
    BY <1>1, MapTypes DEF Pending
  <2> QED
    BY <1>1, <1>5, <2>1 DEF MapInv, MapTypeOK, Stores
<1>7. CallInv'
  BY <1>1, CallInvShrinks
<1>8. StoreInv'
  BY <1>1, <1>2, <1>3, <1>4, <1>5, StoreTouched
<1>9. AskInv'
  <2>1. ASSUME NEW s \in Rank, NEW q \in Key PROVE Awaited(s, q)' = Awaited(s, q)
    <3>1. m \notin Awaited(s, q)
      BY <1>1 DEF Awaited, op
    <3> QED
      BY <1>1, <3>1, AwaitedKept
  <2> QED
    BY <1>1, <2>1, AskFrame
<1>10. LockstepInv' /\ PartInv' /\ SizeExact' /\ GatherExact'
  BY <1>1, LockstepFrame, PartFrame, SizeFrame, GatherFrame
<1> QED
  BY <1>6, <1>7, <1>8, <1>9, <1>10 DEF MapInv
-----------------------------------------------------------------------------
(* The questions of all_gather().  What is said of one key:                *)
KeyAt(r, k) ==
  /\ \A m, n \in Awaited(r, k) : m = n
  /\ Awaited(r, k) # {} => k \in asked[r] \ want[r]
  /\ Gathering(epoch[r]) =>
       output[r][k] = IF k \in asked[r] \ want[r] /\ Awaited(r, k) = {}
                      THEN closed[epoch[r]][Owner[k]][plan[epoch[r]].obj][k]
                      ELSE <<>>

LEMMA AskMeans ==
  AskInv <=> \A r \in Rank : /\ want[r] \subseteq asked[r]
                             /\ want[r] # {} => r \notin inside /\ Gathering(epoch[r])
                             /\ \A k \in Key : KeyAt(r, k)
BY DEF AskInv, KeyAt

LEMMA KeyKept ==
  ASSUME NEW r, NEW k, KeyAt(r, k), UNCHANGED <<plan, epoch, closed>>, asked'[r] = asked[r],
         k \in want'[r] <=> k \in want[r], output'[r][k] = output[r][k],
         Awaited(r, k)' = Awaited(r, k)
  PROVE  KeyAt(r, k)'
BY DEF KeyAt, Gathering

(* Values arrive for a key that had none.                                  *)
LEMMA OutputLemma ==
  ASSUME MapInv, NEW r \in Rank, NEW k \in Key, NEW v \in Vals, output[r][k] = <<>>,
         output' = [output EXCEPT ![r][k] = @ \o v]
  PROVE  /\ output' \in [Rank -> [Key -> Vals]] /\ output'[r][k] = v
         /\ \A s \in Rank, q \in Key : s # r \/ q # k => output'[s][q] = output[s][q]
         /\ \A s \in Rank : s # r => output'[s] = output[s]
<1>1. output \in [Rank -> [Key -> Vals]] /\ output[r] \in [Key -> Vals]
  BY MapTypes
<1>2. <<>> \o v = v
  BY DEF Vals
<1> DEFINE f == [output[r] EXCEPT ![k] = v]
<1>3. output' = [output EXCEPT ![r] = f]
  BY <1>1, <1>2
<1>4. f \in [Key -> Vals] /\ f[k] = v /\ \A q \in Key : q # k => f[q] = output[r][q]
  BY <1>1
<1> HIDE DEF f
<1> QED
  BY <1>1, <1>3, <1>4

(* A question or an answer is sent.                                        *)
LEMMA AwaitedAsks ==
  ASSUME MapInv, NEW op \in Op, ops' = Append(ops, op), UNCHANGED executed, op.kind \notin OpKind,
         NEW m0, m0.id = Len(ops) + 1, m0.parent \in Nat, m0.parent <= Len(ops),
         issued' = issued \cup {m0}, m0 \notin executed, NEW r \in Rank, NEW k \in Key
  PROVE  /\ Awaited(r, k)' \subseteq Pending \cup {m0} /\ m0 \notin Pending
         /\ m0 \in Awaited(r, k)' <=>
              op.key = k /\ ((op.kind = "fetch" /\ m0.src = r) \/ (op.kind = "return" /\ m0.dst = r))
         /\ \A m \in Pending : m \in Awaited(r, k)' <=>
              m \in Awaited(r, k) /\ ~(ops[m.id].kind = "fetch" /\ m.id = m0.parent)
<1>1. /\ ops'[Len(ops) + 1] = op /\ Len(ops) \in Nat
      /\ Len(ops) + 1 \notin DOMAIN ops
      /\ \A i \in DOMAIN ops : ops'[i] = ops[i]
  BY OpsGrow, MapTypes
<1>2. \A m \in Pending : m.id \in DOMAIN ops /\ m.id # 0
  BY CallFacts
<1>3. Pending' = Pending \cup {m0} /\ m0 \notin Pending
  BY <1>1, <1>2 DEF Pending
<1>4. \A m \in Pending : Replied(m)' <=> Replied(m) \/ m.id = m0.parent
  BY DEF Replied
<1>5. ~Replied(m0)'
  <2>1. \A c \in issued : c.parent <= Len(ops) /\ c.parent \in Nat
    BY MapTypes DEF MapInv, CallInv, Call
  <2> QED
    BY <1>1, <2>1 DEF Replied
<1>6. m0 \in Awaited(r, k)' <=>
        op.key = k /\ ((op.kind = "fetch" /\ m0.src = r) \/ (op.kind = "return" /\ m0.dst = r))
  BY <1>1, <1>3, <1>5 DEF Awaited
<1>7. ASSUME NEW m \in Pending
      PROVE  m \in Awaited(r, k)' <=>
               m \in Awaited(r, k) /\ ~(ops[m.id].kind = "fetch" /\ m.id = m0.parent)
  <2>1. ops'[m.id] = ops[m.id] /\ m \in Pending'
    BY <1>1, <1>2, <1>3
  <2> QED
    BY <1>4, <2>1 DEF Awaited
<1>8. Awaited(r, k)' \subseteq Pending \cup {m0}
  BY <1>3 DEF Awaited
<1> QED
  BY <1>3, <1>6, <1>7, <1>8

(* all_gather() asks for a key.                                            *)
LEMMA FetchFacts ==
  ASSUME MapInv, NEW r \in Rank, NEW k \in Key, Fetch(r, k)
  PROVE  /\ k \in want[r] /\ r \notin inside /\ Gathering(epoch[r])
         /\ k \in asked[r] /\ output[r][k] = <<>> /\ Awaited(r, k) = {}
         /\ want' \in [Rank -> SUBSET Key] /\ want'[r] = want[r] \ {k}
         /\ \A s \in Rank : s # r => want'[s] = want[s]
         /\ UNCHANGED <<executed, epoch, inside>>
         /\ UNCHANGED <<store, file, plan, part, reducing, answer, asked, closed>>
<1>1. /\ k \in want[r] /\ want' = [want EXCEPT ![r] = @ \ {k}]
      /\ UNCHANGED <<executed, epoch, inside>>
      /\ UNCHANGED <<store, file, plan, part, reducing, answer, asked, closed>>
  BY DEF Fetch, BSIssue, bsVars
<1>2. /\ want[r] \subseteq asked[r] /\ r \notin inside /\ Gathering(epoch[r]) /\ KeyAt(r, k)
  <2>1. AskInv
    BY DEF MapInv
  <2> QED
    BY <1>1, <2>1, AskMeans
<1>3. Awaited(r, k) = {} /\ output[r][k] = <<>>
  BY <1>1, <1>2 DEF KeyAt
<1>4. want \in [Rank -> SUBSET Key]
  BY MapTypes
<1> QED
  BY <1>1, <1>2, <1>3, <1>4

LEMMA FetchStep ==
  ASSUME MapInv, NEW r \in Rank, NEW k \in Key, Fetch(r, k)
  PROVE  MapInv'
<1>1. /\ k \in want[r] /\ r \notin inside /\ Gathering(epoch[r])
      /\ k \in asked[r] /\ output[r][k] = <<>> /\ Awaited(r, k) = {}
      /\ want' \in [Rank -> SUBSET Key] /\ want'[r] = want[r] \ {k}
      /\ \A s \in Rank : s # r => want'[s] = want[s]
      /\ UNCHANGED <<executed, epoch, inside>>
      /\ UNCHANGED <<store, file, plan, part, reducing, answer, asked, closed>>
  BY FetchFacts
<1>2. PICK o, e, op, m0 : /\ o = plan[epoch[r]].obj /\ e = epoch[r]
                          /\ op = [kind |-> "fetch", obj |-> o, key |-> k, epoch |-> e, vals |-> <<>>]
                          /\ m0 = NextCall(r, Owner[k], 0)
  OBVIOUS
<1>3. \/ /\ Owner[k] = r /\ output' = [output EXCEPT ![r][k] = @ \o store[r][o][k]]
         /\ UNCHANGED <<ops, issued>>
      \/ BSIssue(m0) /\ ops' = Append(ops, op) /\ UNCHANGED output
  BY <1>2 DEF Fetch, bsVars
<1>4. o \in Object /\ e \in DOMAIN closed /\ e \in Nat /\ e > 0
  <2>1. e \in DOMAIN closed /\ e \in DOMAIN plan /\ e \in Nat
    BY <1>1, <1>2, GatheringInClosed, MapTypes
  <2>2. plan[e] \in CollOp
    BY <2>1, MapTypes
  <2> QED
    BY <1>1, <1>2, <2>1, <2>2 DEF CollOp, Gathering
<1>5. \A s \in Rank : epoch[s] <= e
  BY <1>1, <1>2, FrontFacts
<1>6. AskInv
  BY DEF MapInv
<1>7. LockstepInv' /\ StoreInv' /\ PartInv' /\ SizeExact'
  BY <1>1, LockstepFrame, StoreFrame, PartFrame, SizeFrame
<1>8. \A s \in Rank : plan[epoch[s]].kind = "gathered" => s # r
  BY <1>1 DEF Gathering
<1>9. CASE /\ Owner[k] = r /\ output' = [output EXCEPT ![r][k] = @ \o store[r][o][k]]
           /\ UNCHANGED <<ops, issued>>
  <2>1. store[r][o][k] \in Vals
    BY <1>4, MapTypes DEF Stores
  <2>2. /\ output' \in [Rank -> [Key -> Vals]] /\ output'[r][k] = store[r][o][k]
        /\ \A s \in Rank, q \in Key : s # r \/ q # k => output'[s][q] = output[s][q]
        /\ \A s \in Rank : s # r => output'[s] = output[s]
    <3>1. PICK v \in Vals : v = store[r][o][k]
      BY <2>1
    <3>2. output' = [output EXCEPT ![r][k] = @ \o v] /\ output[r][k] = <<>>
      BY <1>1, <1>9, <3>1
    <3> HIDE <1>9, <1>3
    <3> QED
      BY <3>1, <3>2, OutputLemma
  <2>3. output'[r][k] = closed[e][Owner[k]][o][k]
    <3>1. store[r] = closed[e][r]
      BY <1>1, <1>2 DEF MapInv, StoreInv
    <3> QED
      BY <1>9, <2>2, <3>1
  <2>4. \A s \in Rank, q \in Key : Awaited(s, q)' = Awaited(s, q)
    BY <1>1, <1>9 DEF Awaited, Pending, Replied
  <2>5. ASSUME NEW s \in Rank, NEW q \in Key PROVE KeyAt(s, q)'
    <3>1. CASE s = r /\ q = k
      <4>1. Awaited(r, k)' = {} /\ k \in asked'[r] \ want'[r]
        BY <1>1, <2>4
      <4> QED
        BY <1>1, <1>2, <2>3, <3>1, <4>1 DEF KeyAt
    <3>2. CASE s # r \/ q # k
      <4>1. KeyAt(s, q)
        BY <1>6, AskMeans
      <4>2. q \in want'[s] <=> q \in want[s]
        BY <1>1, <3>2
      <4>3. output'[s][q] = output[s][q] /\ Awaited(s, q)' = Awaited(s, q)
        BY <2>2, <2>4, <3>2
      <4> QED
        BY <1>1, <4>1, <4>2, <4>3, KeyKept
    <3> QED
      BY <3>1, <3>2
  <2>6. MapTypeOK'
    BY <1>1, <1>9, <2>2 DEF MapInv, MapTypeOK
  <2>7. CallInv'
    BY <1>1, <1>9, CallInvShrinks
  <2>8. GatherExact'
    BY <1>1, <1>8, <2>2, GatherFrame
  <2>9. ASSUME NEW s \in Rank
        PROVE  want'[s] \subseteq asked'[s] /\ (want'[s] # {} => s \notin inside' /\ Gathering(epoch[s])')
    BY <1>1, <1>6, AskMeans DEF Gathering
  <2>10. AskInv'
    BY <2>5, <2>9 DEF AskInv, KeyAt
  <2> QED
    BY <1>7, <2>6, <2>7, <2>8, <2>10 DEF MapInv
<1>10. CASE BSIssue(m0) /\ ops' = Append(ops, op) /\ UNCHANGED output
  <2>1. op \in Op /\ op.kind = "fetch" /\ op.key = k /\ op.obj = o /\ op.kind \notin OpKind
    <3>1. <<>> \in Vals
      BY DEF Vals
    <3> QED
      BY <1>2, <1>4, <3>1, KindsDiffer DEF Op
  <2>2. /\ m0.id = Len(ops) + 1 /\ m0.parent = 0 /\ m0.dst = Owner[k] /\ m0.epoch = e
        /\ m0.src = r /\ Len(ops) \in Nat
    BY <1>2, MapTypes DEF NextCall
  <2>3. issued' = issued \cup {m0} /\ m0 \in Call /\ m0 \notin executed
    BY <1>10, MapTypes DEF BSIssue
  <2>4. m0.parent \in Nat /\ m0.parent <= Len(ops)
    BY <2>2
  <2>5. MapTypeOK'
    <3>1. ops' \in Seq(Op)
      BY <1>10, <2>1, OpsGrow
    <3>2. issued' \subseteq Call /\ executed' \subseteq issued'
      BY <1>1, <2>3, MapTypes
    <3> QED
      BY <1>1, <1>10, <3>1, <3>2 DEF MapInv, MapTypeOK
  <2>6. CallAt(m0)'
    <3>1. ops'[m0.id] = op
      BY <1>10, <2>1, <2>2, OpsGrow
    <3>2. Gathering(e)' /\ \A s \in Rank : epoch'[s] <= e
      BY <1>1, <1>2, <1>5 DEF Gathering
    <3> QED
      BY <1>1, <1>2, <2>1, <2>2, <3>1, <3>2, KindsDiffer DEF CallAt
  <2>7. CallInv'
    BY <1>1, <1>10, <2>1, <2>2, <2>3, <2>4, <2>6, CallInvGrows
  <2>8. ASSUME NEW s \in Rank, NEW q \in Key
        PROVE  Awaited(s, q)' = IF s = r /\ q = k THEN {m0} ELSE Awaited(s, q)
    <3>1. /\ Awaited(s, q)' \subseteq Pending \cup {m0}
          /\ m0 \in Awaited(s, q)' <=> q = k /\ s = r
          /\ \A m \in Pending : m \in Awaited(s, q)' <=> m \in Awaited(s, q)
      <4>1. \A m \in Pending : m.id # m0.parent
        BY <2>2, CallFacts
      <4>2. /\ Awaited(s, q)' \subseteq Pending \cup {m0}
            /\ m0 \in Awaited(s, q)' <=>
                 op.key = q /\ ((op.kind = "fetch" /\ m0.src = s) \/ (op.kind = "return" /\ m0.dst = s))
            /\ \A m \in Pending : m \in Awaited(s, q)' <=>
                 m \in Awaited(s, q) /\ ~(ops[m.id].kind = "fetch" /\ m.id = m0.parent)
        BY <1>1, <1>10, <2>1, <2>2, <2>3, <2>4, AwaitedAsks
      <4> QED
        BY <2>1, <2>2, <4>1, <4>2
    <3>2. Awaited(s, q) \subseteq Pending
      BY DEF Awaited
    <3>3. CASE s = r /\ q = k
      <4>1. Awaited(s, q) = {}
        BY <1>1, <3>3
      <4> QED
        BY <3>1, <3>3, <4>1
    <3> QED
      BY <3>1, <3>2, <3>3
  <2>9. ASSUME NEW s \in Rank, NEW q \in Key PROVE KeyAt(s, q)'
    <3>1. CASE s = r /\ q = k
      <4>1. Awaited(r, k)' = {m0}
        BY <2>8
      <4>2. output'[r][k] = <<>> /\ k \in asked'[r] \ want'[r]
        BY <1>1, <1>10
      <4> QED
        BY <3>1, <4>1, <4>2 DEF KeyAt
    <3>2. CASE s # r \/ q # k
      <4>1. KeyAt(s, q)
        BY <1>6, AskMeans
      <4>2. q \in want'[s] <=> q \in want[s]
        BY <1>1, <3>2
      <4>3. output'[s][q] = output[s][q] /\ Awaited(s, q)' = Awaited(s, q)
        BY <1>10, <2>8, <3>2
      <4> QED
        BY <1>1, <4>1, <4>2, <4>3, KeyKept
    <3> QED
      BY <3>1, <3>2
  <2>10. GatherExact'
    BY <1>1, <1>10, GatherFrame
  <2>11. ASSUME NEW s \in Rank
         PROVE  want'[s] \subseteq asked'[s] /\ (want'[s] # {} => s \notin inside' /\ Gathering(epoch[s])')
    BY <1>1, <1>6, AskMeans DEF Gathering
  <2>12. AskInv'
    BY <2>9, <2>11 DEF AskInv, KeyAt
  <2> QED
    BY <1>7, <2>5, <2>7, <2>10, <2>12 DEF MapInv
<1> QED
  BY <1>3, <1>9, <1>10
-----------------------------------------------------------------------------
(* The owner of a key answers.                                             *)
LEMMA ReplyStep ==
  ASSUME MapInv, NEW m \in Pending, Reply(m)
  PROVE  MapInv'
<1>1. PICK o, k, e, d, r : /\ o = ops[m.id].obj /\ k = ops[m.id].key /\ e = m.epoch
                           /\ d = m.dst /\ r = m.src
  OBVIOUS
<1>2. PICK v, op, m0 : /\ v = store[d][o][k] /\ op = [ops[m.id] EXCEPT !.kind = "return", !.vals = v]
                       /\ m0 = NextCall(d, r, m.id)
  OBVIOUS
<1>3. /\ ops[m.id].kind = "fetch" /\ ~Replied(m) /\ e = epoch[d]
      /\ BSIssue(m0) /\ ops' = Append(ops, op)
      /\ UNCHANGED <<executed, epoch, inside>>
      /\ UNCHANGED <<store, file, plan, part, reducing, answer, asked, want, output, closed>>
  BY <1>1, <1>2 DEF Reply, BSIssue
<1>4. /\ d \in Rank /\ r \in Rank /\ o \in Object /\ k \in Key /\ e \in Nat /\ m \in issued
      /\ m.id \in Nat /\ m.id <= Len(ops) /\ ops[m.id] \in Op /\ CallAt(m)
  BY <1>1, CallFacts
<1>5. /\ \A s \in Rank : epoch[s] <= e
      /\ Gathering(e) /\ o = plan[e].obj /\ epoch[r] = e /\ d = Owner[k]
  BY <1>1, <1>3, <1>4, KindsDiffer DEF CallAt
<1>6. v \in Vals /\ v = closed[e][Owner[k]][o][k]
  <2>1. store[d] = closed[e][d]
    BY <1>3, <1>4, <1>5 DEF MapInv, StoreInv
  <2>2. store[d][o][k] \in Vals
    BY <1>4, MapTypes DEF Stores
  <2> QED
    BY <1>2, <1>5, <2>1, <2>2
<1>7. /\ op \in Op /\ op.kind = "return" /\ op.key = k /\ op.obj = o /\ op.vals = v
      /\ op.kind \notin OpKind
  BY <1>1, <1>2, <1>4, <1>6, KindsDiffer DEF Op
<1>8. /\ m0.id = Len(ops) + 1 /\ m0.parent = m.id /\ m0.dst = r /\ m0.epoch = e
      /\ m0.src = d /\ Len(ops) \in Nat
  BY <1>2, <1>3, MapTypes DEF NextCall
<1>9. issued' = issued \cup {m0} /\ m0 \in Call /\ m0 \notin executed
  BY <1>3, MapTypes DEF BSIssue
<1>10. m0.parent \in Nat /\ m0.parent <= Len(ops)
  BY <1>4, <1>8
<1>11. AskInv
  BY DEF MapInv
<1>12. LockstepInv' /\ StoreInv' /\ PartInv' /\ SizeExact' /\ GatherExact'
  BY <1>3, LockstepFrame, StoreFrame, PartFrame, SizeFrame, GatherFrame
<1>13. MapTypeOK'
  <2>1. ops' \in Seq(Op)
    BY <1>3, <1>7, OpsGrow
  <2>2. issued' \subseteq Call /\ executed' \subseteq issued'
    BY <1>3, <1>9, MapTypes
  <2> QED
    BY <1>3, <2>1, <2>2 DEF MapInv, MapTypeOK
<1>14. CallAt(m0)'
  <2>1. ops'[m0.id] = op
    BY <1>3, <1>7, <1>8, OpsGrow
  <2>2. Gathering(e)' /\ \A s \in Rank : epoch'[s] <= e
    BY <1>3, <1>5 DEF Gathering
  <2>3. epoch'[r] = e /\ epoch'[d] = e /\ plan' = plan /\ closed' = closed
    BY <1>3, <1>5
  <2> QED
    BY <1>5, <1>6, <1>7, <1>8, <2>1, <2>2, <2>3 DEF CallAt
<1>15. CallInv'
  BY <1>3, <1>7, <1>8, <1>9, <1>10, <1>14, CallInvGrows
<1>16. m \in Awaited(r, k) /\ Awaited(r, k) = {m} /\ KeyAt(r, k)
  <2>1. m \in Awaited(r, k)
    BY <1>1, <1>3 DEF Awaited
  <2>2. KeyAt(r, k)
    BY <1>4, <1>11, AskMeans
  <2> QED
    BY <2>1, <2>2 DEF KeyAt
<1>17. ASSUME NEW s \in Rank, NEW q \in Key
       PROVE  Awaited(s, q)' = IF s = r /\ q = k THEN {m0} ELSE Awaited(s, q)
  <2>1. /\ Awaited(s, q)' \subseteq Pending \cup {m0}
        /\ m0 \in Awaited(s, q)' <=>
             op.key = q /\ ((op.kind = "fetch" /\ m0.src = s) \/ (op.kind = "return" /\ m0.dst = s))
        /\ \A x \in Pending : x \in Awaited(s, q)' <=>
             x \in Awaited(s, q) /\ ~(ops[x.id].kind = "fetch" /\ x.id = m0.parent)
    BY <1>3, <1>7, <1>8, <1>9, <1>10, AwaitedAsks
  <2>2. ASSUME NEW x \in Pending, x.id = m.id PROVE x = m
    <3>1. x \in issued /\ CallInv
      BY <2>2 DEF Pending, MapInv
    <3> QED
      BY <1>4, <2>2, <3>1, CallAtMeans
  <2>3. Awaited(s, q) \subseteq Pending
    BY DEF Awaited
  <2>4. m0 \in Awaited(s, q)' <=> s = r /\ q = k
    BY <1>7, <1>8, <2>1
  <2>5. CASE s = r /\ q = k
    <3>1. ASSUME NEW x \in Pending PROVE x \notin Awaited(s, q)'
      BY <1>3, <1>8, <1>16, <2>1, <2>5
    <3> QED
      BY <2>1, <2>4, <2>5, <3>1
  <2>6. CASE ~(s = r /\ q = k)
    <3>1. m \notin Awaited(s, q)
      BY <1>1, <1>3, <2>6 DEF Awaited
    <3>2. \A x \in Pending : x \in Awaited(s, q)' <=> x \in Awaited(s, q)
      BY <1>8, <2>1, <2>2, <3>1
    <3> QED
      BY <2>1, <2>3, <2>4, <2>6, <3>2
  <2> QED
    BY <2>5, <2>6
<1>18. ASSUME NEW s \in Rank, NEW q \in Key PROVE KeyAt(s, q)'
  <2>1. CASE s = r /\ q = k
    <3>1. Awaited(r, k)' = {m0}
      BY <1>4, <1>17
    <3>2. k \in asked[r] \ want[r] /\ (Gathering(epoch[r]) => output[r][k] = <<>>)
      BY <1>16 DEF KeyAt
    <3>3. k \in asked'[r] \ want'[r] /\ (Gathering(epoch[r])' => output'[r][k] = <<>>)
      BY <1>3, <3>2 DEF Gathering
    <3> QED
      BY <2>1, <3>1, <3>3 DEF KeyAt
  <2>2. CASE ~(s = r /\ q = k)
    <3>1. KeyAt(s, q) /\ Awaited(s, q)' = Awaited(s, q)
      BY <1>11, <1>17, <2>2, AskMeans
    <3> QED
      BY <1>3, <3>1, KeyKept
  <2> QED
    BY <2>1, <2>2
<1>19. AskInv'
  <2>1. \A s \in Rank : /\ want'[s] \subseteq asked'[s]
                        /\ want'[s] # {} => s \notin inside' /\ Gathering(epoch[s])'
    BY <1>3, <1>11 DEF AskInv, Gathering
  <2> QED
    BY <1>18, <2>1 DEF AskInv, KeyAt
<1> QED
  BY <1>12, <1>13, <1>15, <1>19 DEF MapInv

LEMMA FetchedStep ==
  ASSUME MapInv, NEW m \in Pending, Fetched(m)
  PROVE  MapInv'
<1>1. /\ ops[m.id].kind = "fetch" /\ Replied(m)
      /\ executed' = executed \cup {m} /\ UNCHANGED <<issued, epoch, inside>> /\ UNCHANGED dataVars
  BY DEF Fetched, BSExecute
<1>2. UNCHANGED <<ops, store, file, plan, part, reducing, answer, asked, want, output, closed>>
  BY <1>1 DEF dataVars
<1>3. MapTypeOK'
  <2>1. executed' \subseteq issued'
    BY <1>1, MapTypes DEF Pending
  <2> QED
    BY <1>1, <1>2, <2>1 DEF MapInv, MapTypeOK
<1>4. CallInv'
  BY <1>1, <1>2, CallInvShrinks
<1>5. AskInv'
  <2>1. ASSUME NEW s \in Rank, NEW q \in Key PROVE Awaited(s, q)' = Awaited(s, q)
    <3>1. m \notin Awaited(s, q)
      BY <1>1 DEF Awaited
    <3> QED
      BY <1>1, <1>2, <3>1, AwaitedKept
  <2> QED
    BY <1>1, <1>2, <2>1, AskFrame
<1>6. LockstepInv' /\ StoreInv' /\ PartInv' /\ SizeExact' /\ GatherExact'
  BY <1>1, <1>2, LockstepFrame, StoreFrame, PartFrame, SizeFrame, GatherFrame
<1> QED
  BY <1>3, <1>4, <1>5, <1>6 DEF MapInv

(* The answer arrives.                                                     *)
LEMMA ReturnStep ==
  ASSUME MapInv, NEW m \in Pending, Return(m)
  PROVE  MapInv'
<1>1. PICK o, k, e, r, v : /\ o = ops[m.id].obj /\ k = ops[m.id].key /\ e = m.epoch
                           /\ r = m.dst /\ v = ops[m.id].vals
  OBVIOUS
<1>2. /\ ops[m.id].kind = "return"
      /\ executed' = executed \cup {m} /\ UNCHANGED <<issued, epoch, inside>>
      /\ output' = [output EXCEPT ![r][k] = @ \o v]
      /\ UNCHANGED <<ops, store, file, plan, part, reducing, answer, asked, want, closed>>
  BY <1>1 DEF Return, BSExecute
<1>3. /\ r \in Rank /\ k \in Key /\ v \in Vals /\ CallAt(m)
  BY <1>1, CallFacts
<1>4. Gathering(e) /\ o = plan[e].obj /\ epoch[r] = e /\ v = closed[e][Owner[k]][o][k]
  BY <1>1, <1>2, <1>3, KindsDiffer DEF CallAt
<1>5. AskInv
  BY DEF MapInv
<1>6. KeyAt(r, k) /\ Awaited(r, k) = {m}
  <2>1. m \in Awaited(r, k)
    BY <1>1, <1>2 DEF Awaited
  <2>2. KeyAt(r, k)
    BY <1>3, <1>5, AskMeans
  <2> QED
    BY <2>1, <2>2 DEF KeyAt
<1>7. output[r][k] = <<>> /\ k \in asked[r] \ want[r]
  BY <1>4, <1>6 DEF KeyAt
<1>8. /\ output' \in [Rank -> [Key -> Vals]] /\ output'[r][k] = v
      /\ \A s \in Rank, q \in Key : s # r \/ q # k => output'[s][q] = output[s][q]
      /\ \A s \in Rank : s # r => output'[s] = output[s]
  BY <1>2, <1>3, <1>7, OutputLemma
<1>9. MapTypeOK'
  <2>1. executed' \subseteq issued'
    BY <1>2, MapTypes DEF Pending
  <2> QED
    BY <1>2, <1>8, <2>1 DEF MapInv, MapTypeOK
<1>10. CallInv'
  BY <1>2, CallInvShrinks
<1>11. ASSUME NEW s \in Rank, NEW q \in Key PROVE KeyAt(s, q)'
  <2>1. CASE s = r /\ q = k
    <3>1. Awaited(r, k)' = {}
      <4>1. Awaited(r, k)' \subseteq Awaited(r, k) \ {m}
        BY <1>2 DEF Awaited, Pending, Replied
      <4> QED
        BY <1>6, <4>1
    <3>2. k \in asked'[r] \ want'[r] /\ output'[r][k] = closed'[epoch'[r]][Owner[k]][plan'[epoch'[r]].obj][k]
      BY <1>2, <1>4, <1>7, <1>8
    <3> QED
      BY <2>1, <3>1, <3>2 DEF KeyAt
  <2>2. CASE ~(s = r /\ q = k)
    <3>1. m \notin Awaited(s, q)
      BY <1>1, <1>2, <2>2 DEF Awaited
    <3>2. Awaited(s, q)' = Awaited(s, q)
      BY <1>2, <3>1, AwaitedKept
    <3>3. KeyAt(s, q) /\ output'[s][q] = output[s][q]
      BY <1>5, <1>8, <2>2, AskMeans
    <3> QED
      BY <1>2, <3>2, <3>3, KeyKept
  <2> QED
    BY <2>1, <2>2
<1>12. AskInv'
  <2>1. \A s \in Rank : /\ want'[s] \subseteq asked'[s]
                        /\ want'[s] # {} => s \notin inside' /\ Gathering(epoch[s])'
    BY <1>2, <1>5 DEF AskInv, Gathering
  <2> QED
    BY <1>11, <2>1 DEF AskInv, KeyAt
<1>13. GatherExact'
  <2>1. \A s \in Rank : plan[epoch[s]].kind = "gathered" => s # r
    BY <1>4 DEF Gathering
  <2> QED
    BY <1>2, <1>8, <2>1, GatherFrame
<1>14. LockstepInv' /\ StoreInv' /\ PartInv' /\ SizeExact'
  BY <1>2, LockstepFrame, StoreFrame, PartFrame, SizeFrame
<1> QED
  BY <1>9, <1>10, <1>12, <1>13, <1>14 DEF MapInv
-----------------------------------------------------------------------------
(* Who is in the sum waits for all, and nobody is ahead.                   *)
LEMMA ReducedStep ==
  ASSUME MapInv, NEW r \in Rank, Reduced(r)
  PROVE  MapInv'
<1>1. /\ r \in reducing /\ \A s \in Rank : epoch[s] >= epoch[r]
      /\ answer' = [answer EXCEPT ![r] = FoldFunction(+, 0, part)]
      /\ reducing' = reducing \ {r}
      /\ UNCHANGED <<issued, executed, epoch, inside>>
      /\ UNCHANGED <<ops, store, file, plan, part, asked, want, output, closed>>
  BY DEF Reduced, bsVars
<1>2. r \notin inside /\ \A s \in Rank : epoch[s] = epoch[r]
  <2>1. r \notin inside /\ epoch \in [Rank -> Nat]
    BY <1>1, MapTypes DEF MapInv, LockstepInv
  <2>2. \A s \in Rank : epoch[s] <= epoch[r]
    BY <2>1, FrontFacts
  <2>3. \A s \in Rank : epoch[s] >= epoch[r]
    BY <1>1
  <2> QED
    BY <2>1, <2>2, <2>3
<1>3. MapTypeOK'
  <2>1. answer' = [s \in Rank |-> answer'[s]]
    BY <1>1 DEF MapInv, MapTypeOK
  <2>2. reducing' \subseteq Rank
    BY <1>1, MapTypes
  <2> QED
    BY <1>1, <2>1, <2>2 DEF MapInv, MapTypeOK
<1>4. SizeExact'
  <2>1. ASSUME NEW s \in Rank, s \notin reducing', epoch[s] > 0, plan[epoch[s]].kind = "size"
        PROVE  answer'[s] = Total(closed[epoch[s]], plan[epoch[s]].obj, plan[epoch[s]].keys)
    <3>1. CASE s # r
      <4>1. s \notin reducing /\ answer'[s] = answer[s]
        BY <1>1, <2>1, <3>1 DEF MapInv, MapTypeOK
      <4> QED
        BY <2>1, <4>1 DEF MapInv, SizeExact
    <3>2. CASE s = r
      <4>1. \A t \in Rank : part[t] = Held(closed[epoch[r]], t, plan[epoch[r]].obj, plan[epoch[r]].keys)
        BY <1>2, <2>1, <3>2 DEF MapInv, PartInv
      <4>2. part = [t \in Rank |-> Held(closed[epoch[r]], t, plan[epoch[r]].obj, plan[epoch[r]].keys)]
        <5>1. part = [t \in Rank |-> part[t]]
          BY DEF MapInv, MapTypeOK
        <5> QED
          BY <4>1, <5>1
      <4>3. answer'[r] = FoldFunction(+, 0, part)
        BY <1>1 DEF MapInv, MapTypeOK
      <4> QED
        BY <3>2, <4>2, <4>3, Zenon DEF Total
    <3> QED
      BY <3>1, <3>2
  <2> QED
    BY <1>1, <2>1 DEF SizeExact
<1>5. CallInv'
  BY <1>1, CallInvShrinks
<1>6. AskInv'
  <2>1. \A s \in Rank, k \in Key : Awaited(s, k)' = Awaited(s, k)
    BY <1>1 DEF Awaited, Pending, Replied
  <2> QED
    BY <1>1, <2>1, AskFrame
<1>7. LockstepInv' /\ StoreInv' /\ PartInv' /\ GatherExact'
  BY <1>1, LockstepFrame, StoreFrame, PartFrame, GatherFrame
<1> QED
  BY <1>3, <1>4, <1>5, <1>6, <1>7 DEF MapInv
-----------------------------------------------------------------------------
(* What the first rank to end an epoch may choose.                         *)
LEMMA ChoicesFacts ==
  ASSUME MapInv, NEW r \in Rank, NEW c \in Choices(r)
  PROVE  /\ c \in CollOp
         /\ c.kind = "gathered" =>
              Len(plan) > 0 /\ plan[Len(plan)].kind = "gather" /\ plan[Len(plan)].obj = c.obj
<1>1. plan \in Seq(CollOp) /\ Len(plan) \in Nat /\ epoch[r] \in Nat /\ epoch[r] <= Len(plan)
  BY MapTypes
<1>2. CASE Halfway(Len(plan))
  <2>1. c = [plan[Len(plan)] EXCEPT !.kind = Second(@)]
    BY <1>2 DEF Choices
  <2>2. plan[Len(plan)] \in CollOp /\ Len(plan) > 0 /\ plan[Len(plan)].kind \in TwoBarriers
    BY <1>1, <1>2 DEF Halfway
  <2>3. Second(plan[Len(plan)].kind) \in CollKind
    BY DEF Second, CollKind
  <2>4. c = [plan[Len(plan)] EXCEPT !.kind = Second(plan[Len(plan)].kind)]
    BY <2>1, <2>2 DEF CollOp
  <2> QED
    BY <2>2, <2>3, <2>4 DEF CollOp, Second, TwoBarriers
<1>3. CASE ~Halfway(Len(plan))
  <2>1. Exists(r) \subseteq Object /\ Copies \subseteq Object
    <3>1. ASSUME NEW e \in 1 .. epoch[r] PROVE plan[e].peer \in Object
      <4>1. plan[e] \in CollOp
        BY <1>1
      <4> QED
        BY <4>1 DEF CollOp
    <3> QED
      BY <3>1, OwnerAssumption DEF Exists, Copied
  <2>2. PICK kind, o, p, K :
          /\ c = Collective(kind, o, p, K)
          /\ kind \in {"clear", "save", "load", "swap", "size", "gather", "copy"}
          /\ o \in Object /\ p \in Object /\ K \in SUBSET Key
    BY <1>3, <2>1 DEF Choices
  <2>3. kind \in CollKind /\ kind # "gathered"
    BY <2>2 DEF CollKind
  <2> QED
    BY <2>2, <2>3 DEF Collective, CollOp
<1> QED
  BY <1>2, <1>3

(* barrier() is called.                                                    *)
LEMMA EnterFacts ==
  ASSUME MapInv, NEW r \in Rank, Enter(r)
  PROVE  /\ r \notin inside /\ r \notin reducing /\ want[r] = {}
         /\ inside' = inside \cup {r} /\ UNCHANGED <<issued, executed, epoch>>
         /\ UNCHANGED <<ops, store, file, part, reducing, answer, asked, want, output, closed>>
         /\ plan' \in Seq(CollOp) /\ Len(plan') \in Nat /\ DOMAIN plan' = 1 .. Len(plan')
         /\ epoch[r] < Len(plan') /\ Len(plan) <= Len(plan')
         /\ \A e \in DOMAIN plan : plan'[e] = plan[e]
         /\ \A e \in DOMAIN plan' : plan'[e].kind = "gathered" =>
              e > 1 /\ plan'[e - 1].kind = "gather" /\ plan'[e - 1].obj = plan'[e].obj
<1>1. /\ r \notin inside /\ r \notin reducing /\ want[r] = {}
      /\ inside' = inside \cup {r} /\ UNCHANGED <<issued, executed, epoch>>
      /\ UNCHANGED <<ops, store, file, part, reducing, answer, asked, want, output, closed>>
      /\ IF epoch[r] < Len(plan) THEN UNCHANGED plan
         ELSE \E c \in Choices(r) : plan' = Append(plan, c)
  BY DEF Enter, Active, BSEnter
<1>2. /\ plan \in Seq(CollOp) /\ Len(plan) \in Nat /\ DOMAIN plan = 1 .. Len(plan)
      /\ epoch[r] \in Nat /\ epoch[r] <= Len(plan)
  BY MapTypes
<1>3. \A e \in DOMAIN plan : plan[e].kind = "gathered" =>
        e > 1 /\ plan[e - 1].kind = "gather" /\ plan[e - 1].obj = plan[e].obj
  BY DEF MapInv, LockstepInv
<1>4. CASE epoch[r] < Len(plan)
  BY <1>1, <1>2, <1>3, <1>4
<1>5. CASE ~(epoch[r] < Len(plan))
  <2>1. PICK c \in Choices(r) : plan' = Append(plan, c)
    BY <1>1, <1>5
  <2>2. /\ c \in CollOp
        /\ c.kind = "gathered" =>
             Len(plan) > 0 /\ plan[Len(plan)].kind = "gather" /\ plan[Len(plan)].obj = c.obj
    BY ChoicesFacts
  <2>3. /\ plan' \in Seq(CollOp) /\ Len(plan') = Len(plan) + 1 /\ DOMAIN plan' = 1 .. Len(plan) + 1
        /\ plan'[Len(plan) + 1] = c
        /\ \A e \in 1 .. Len(plan) : plan'[e] = plan[e]
    BY <1>2, <2>1, <2>2, AppendProperties
  <2>4. ASSUME NEW e \in DOMAIN plan', plan'[e].kind = "gathered"
        PROVE  e > 1 /\ plan'[e - 1].kind = "gather" /\ plan'[e - 1].obj = plan'[e].obj
    <3>1. CASE e = Len(plan) + 1
      <4>1. Len(plan) \in 1 .. Len(plan) /\ e - 1 = Len(plan) /\ e > 1
        BY <1>2, <2>2, <2>3, <2>4, <3>1
      <4> QED
        BY <2>2, <2>3, <2>4, <3>1, <4>1
    <3>2. CASE e \in 1 .. Len(plan)
      <4>1. e > 1 /\ plan[e - 1].kind = "gather" /\ plan[e - 1].obj = plan[e].obj
        BY <1>2, <1>3, <2>3, <2>4, <3>2
      <4>2. e - 1 \in 1 .. Len(plan)
        BY <1>2, <3>2, <4>1
      <4> QED
        BY <2>3, <3>2, <4>1, <4>2
    <3> QED
      BY <1>2, <2>3, <3>1, <3>2
  <2>5. epoch[r] < Len(plan') /\ Len(plan) <= Len(plan') /\ Len(plan') \in Nat
    BY <1>2, <2>3
  <2> QED
    BY <1>1, <1>2, <2>3, <2>4, <2>5
<1> QED
  BY <1>4, <1>5

LEMMA EnterStep ==
  ASSUME MapInv, NEW r \in Rank, Enter(r)
  PROVE  MapInv'
<1>1. /\ r \notin inside /\ r \notin reducing /\ want[r] = {}
      /\ inside' = inside \cup {r} /\ UNCHANGED <<issued, executed, epoch>>
      /\ UNCHANGED <<ops, store, file, part, reducing, answer, asked, want, output, closed>>
  BY EnterFacts
<1>2. /\ plan' \in Seq(CollOp) /\ Len(plan') \in Nat /\ DOMAIN plan' = 1 .. Len(plan')
      /\ epoch[r] < Len(plan') /\ Len(plan) <= Len(plan')
      /\ \A e \in DOMAIN plan : plan'[e] = plan[e]
      /\ \A e \in DOMAIN plan' : plan'[e].kind = "gathered" =>
           e > 1 /\ plan'[e - 1].kind = "gather" /\ plan'[e - 1].obj = plan'[e].obj
  BY EnterFacts
<1>3. /\ epoch \in [Rank -> Nat] /\ Len(plan) \in Nat /\ DOMAIN plan = 1 .. Len(plan)
      /\ \A s \in Rank : epoch[s] <= Len(plan)
  BY MapTypes
<1>4. \A s \in Rank : epoch[s] > 0 => plan'[epoch[s]] = plan[epoch[s]]
  BY <1>2, <1>3
<1>5. \A s \in Rank : Gathering(epoch[s])' <=> Gathering(epoch[s])
  BY <1>1, <1>4 DEF Gathering
<1>6. MapTypeOK'
  BY <1>1, <1>2 DEF MapInv, MapTypeOK, CollOp
<1>7. LockstepInv'
  <2>1. LockstepInv
    BY DEF MapInv
  <2>2. ASSUME NEW s \in Rank
        PROVE  (IF s \in inside' THEN epoch[s] + 1 ELSE epoch[s]) <= Len(plan')
    BY <1>1, <1>2, <1>3, <2>1 DEF LockstepInv
  <2>3. inside' \cap reducing' = {}
    BY <1>1, <2>1 DEF LockstepInv
  <2> QED
    BY <1>1, <1>2, <2>1, <2>2, <2>3 DEF LockstepInv
<1>8. CallInv'
  <2>1. CallInv /\ Pending' = Pending
    BY <1>1 DEF MapInv, Pending
  <2>2. ASSUME NEW m \in Pending PROVE CallAt(m)'
    <3>1. CallAt(m) /\ m.src \in Rank
      BY <2>2, CallFacts
    <3>2. PICK e : e = m.epoch
      OBVIOUS
    <3>3. epoch[m.src] = e
      BY <3>1, <3>2 DEF CallAt
    <3>4. (Gathering(e)' <=> Gathering(e)) /\ (Halfway(e)' <=> Halfway(e)) /\ (e > 0 => plan'[e] = plan[e])
      BY <1>4, <3>1, <3>3 DEF Gathering, Halfway
    <3>5. Gathering(e) => e > 0
      BY DEF Gathering
    <3> QED
      BY <1>1, <3>1, <3>2, <3>4, <3>5 DEF CallAt, Gathering, Halfway
  <2> QED
    BY <1>1, <2>1, <2>2, CallAtMeans DEF CallInv, CallAt
<1>9. StoreInv'
  <2>1. StoreInv
    BY DEF MapInv
  <2> QED
    BY <1>1, <1>5, <2>1 DEF StoreInv
<1>10. PartInv'
  <2>1. PartInv
    BY DEF MapInv
  <2> QED
    BY <1>1, <1>4, <2>1 DEF PartInv
<1>11. SizeExact'
  <2>1. SizeExact
    BY DEF MapInv
  <2> QED
    BY <1>1, <1>4, <2>1 DEF SizeExact
<1>12. GatherExact'
  <2>1. GatherExact
    BY DEF MapInv
  <2>2. \A s \in Rank : epoch[s] > 1 => plan'[epoch[s]] = plan[epoch[s]]
    BY <1>3, <1>4
  <2> QED
    BY <1>1, <2>1, <2>2 DEF GatherExact
<1>13. AskInv'
  <2>1. AskInv
    BY DEF MapInv
  <2>2. ASSUME NEW s \in Rank, NEW k \in Key PROVE KeyAt(s, k)'
    <3>1. KeyAt(s, k)
      BY <2>1, AskMeans
    <3>2. Awaited(s, k)' = Awaited(s, k)
      BY <1>1 DEF Awaited, Pending, Replied
    <3>3. Gathering(epoch[s]) => plan'[epoch[s]] = plan[epoch[s]]
      BY <1>4 DEF Gathering
    <3> QED
      BY <1>1, <1>5, <3>1, <3>2, <3>3 DEF KeyAt
  <2>3. ASSUME NEW s \in Rank
        PROVE  want[s] \subseteq asked[s] /\ (want[s] # {} => s \notin inside' /\ Gathering(epoch[s])')
    BY <1>1, <1>5, <2>1, AskMeans
  <2> QED
    BY <1>1, <2>2, <2>3 DEF AskInv, KeyAt
<1> QED
  BY <1>6, <1>7, <1>8, <1>9, <1>10, <1>11, <1>12, <1>13 DEF MapInv
-----------------------------------------------------------------------------
(* barrier() returns.  What it leaves behind: the epochs,                  *)
LEMMA LeaveFacts ==
  ASSUME MapInv, NEW r \in Rank, Leave(r), NEW e, e = epoch[r]
  PROVE  /\ r \in inside /\ inside' = inside \ {r} /\ UNCHANGED <<issued, executed, ops, plan, answer>>
         /\ e \in Nat /\ e + 1 \in DOMAIN plan /\ plan[e + 1] \in CollOp
         /\ epoch' \in [Rank -> Nat] /\ epoch'[r] = e + 1
         /\ \A s \in Rank : s # r => epoch'[s] = epoch[s]
         /\ \A s \in Rank : (epoch[s] = e /\ s \in inside) \/ (epoch[s] = e + 1 /\ s # r)
         /\ \A m \in Pending : m.epoch = e + 1
         /\ AfterBarrier(r, plan[e + 1])
<1>1. /\ r \in inside /\ inside' = inside \ {r} /\ UNCHANGED <<issued, executed, ops, plan, answer>>
      /\ epoch' = [epoch EXCEPT ![r] = @ + 1]
      /\ \A s \in Rank : (epoch[s] = e /\ s \in inside) \/ epoch[s] = e + 1
      /\ \A m \in Pending : m.epoch # e
      /\ AfterBarrier(r, plan[e + 1])
  BY DEF Leave, BSLeave
<1>2. /\ epoch \in [Rank -> Nat] /\ e \in Nat
      /\ plan \in Seq(CollOp) /\ Len(plan) \in Nat /\ DOMAIN plan = 1 .. Len(plan)
  BY MapTypes
<1>3. e + 1 <= Len(plan)
  BY <1>1, <1>2 DEF MapInv, LockstepInv
<1>4. e + 1 \in DOMAIN plan /\ plan[e + 1] \in CollOp
  BY <1>2, <1>3
<1>5. /\ epoch' \in [Rank -> Nat] /\ epoch'[r] = e + 1
      /\ \A s \in Rank : s # r => epoch'[s] = epoch[s]
  BY <1>1, <1>2
<1>6. ASSUME NEW m \in Pending PROVE m.epoch = e + 1
  <2>1. epoch[m.src] = m.epoch /\ m.src \in Rank
    BY CallFacts DEF CallAt
  <2> QED
    BY <1>1, <2>1
<1>7. \A s \in Rank : (epoch[s] = e /\ s \in inside) \/ (epoch[s] = e + 1 /\ s # r)
  <2>1. e # e + 1
    BY <1>2
  <2> QED
    BY <1>1, <2>1
<1> QED
  BY <1>1, <1>2, <1>4, <1>5, <1>6, <1>7

(* what the ranks held when the epoch ended,                               *)
LEMMA ClosedFacts ==
  ASSUME MapInv, NEW r \in Rank, Leave(r), NEW e, e = epoch[r]
  PROVE  /\ closed' \in Seq(Stores) /\ Len(closed') = e + 1 /\ DOMAIN closed' = 1 .. e + 1
         /\ \A i \in DOMAIN closed : i \in DOMAIN closed' /\ closed'[i] = closed[i]
         /\ \A i \in DOMAIN closed' : i \in DOMAIN closed \/ closed'[i] = store
         /\ \A s \in Rank : epoch[s] = e => closed'[e + 1][s] = store[s]
<1>1. e \in Nat /\ \A s \in Rank : epoch[s] = e \/ epoch[s] = e + 1
  BY LeaveFacts
<1>2. /\ closed \in Seq(Stores) /\ Len(closed) \in Nat /\ DOMAIN closed = 1 .. Len(closed)
      /\ store \in Stores /\ e <= Len(closed)
  BY MapTypes
<1>3. closed' = IF Len(closed) = e THEN Append(closed, store) ELSE closed
  BY DEF Leave
<1>4. StoreInv
  BY DEF MapInv
<1>5. Len(closed) = e \/ Len(closed) = e + 1
  <2>1. CASE closed = <<>>
    BY <1>1, <1>2, <2>1
  <2>2. CASE closed # <<>>
    <3>1. PICK s \in Rank : epoch[s] = Len(closed)
      BY <1>4, <2>2 DEF StoreInv
    <3> QED
      BY <1>1, <3>1
  <2> QED
    BY <2>1, <2>2
<1>6. CASE Len(closed) = e
  <2>1. closed' = Append(closed, store)
    BY <1>3, <1>6
  <2>2. /\ closed' \in Seq(Stores) /\ Len(closed') = e + 1 /\ DOMAIN closed' = 1 .. e + 1
        /\ closed'[e + 1] = store
        /\ \A i \in 1 .. e : closed'[i] = closed[i]
    BY <1>2, <1>6, <2>1, AppendProperties
  <2> QED
    BY <1>1, <1>2, <1>6, <2>2
<1>7. CASE Len(closed) = e + 1
  <2>1. closed' = closed
    BY <1>1, <1>3, <1>7
  <2>2. ASSUME NEW s \in Rank, epoch[s] = e PROVE closed[e + 1][s] = store[s]
    <3>1. epoch[s] < Len(closed)
      BY <1>1, <1>7, <2>2
    <3> QED
      BY <1>4, <2>2, <3>1 DEF StoreInv
  <2> QED
    BY <1>2, <1>7, <2>1, <2>2
<1> QED
  BY <1>5, <1>6, <1>7

(* and what the collective operation does to the stores and the files.     *)
LEMMA AfterStores ==
  ASSUME MapInv, NEW r \in Rank, NEW c \in CollOp, AfterBarrier(r, c)
  PROVE  /\ store' \in Stores /\ \A s \in Rank : s # r => store'[s] = store[s]
         /\ c.kind \notin {"clear", "swap", "load", "copy"} => store'[r] = store[r]
         /\ \A k \in Key : Owner[k] # r =>
              file'[r][k] = <<>> /\ \A o \in Object : store'[r][o][k] = <<>>
         /\ file' \in [Rank -> [Key -> Vals]] /\ \A s \in Rank : s # r => file'[s] = file[s]
<1> DEFINE S == store[r]
           X == CASE c.kind = "clear" -> [S EXCEPT ![c.obj] = Empty]
                  [] c.kind = "swap"  -> [S EXCEPT ![c.obj] = store[r][c.peer],
                                                   ![c.peer] = store[r][c.obj]]
                  [] c.kind = "load"  -> [S EXCEPT ![c.obj] = file[r]]
                  [] c.kind = "copy"  -> [S EXCEPT ![c.peer] = store[r][c.obj]]
                  [] OTHER -> S
           Good(f) == f \in [Key -> Vals] /\ \A k \in Key : Owner[k] # r => f[k] = <<>>
<1>1. /\ store \in Stores /\ S \in [Object -> [Key -> Vals]]
      /\ file \in [Rank -> [Key -> Vals]]
      /\ c.obj \in Object /\ c.peer \in Object
  BY MapTypes DEF Stores, CollOp
<1>2. /\ store' = [store EXCEPT ![r] = X]
      /\ file' = IF c.kind = "save" THEN [file EXCEPT ![r] = store[r][c.obj]] ELSE file
  BY <1>1 DEF AfterBarrier, Stores
<1>3. Good(file[r]) /\ Good(Empty) /\ \A o \in Object : Good(S[o])
  <2>1. Empty \in [Key -> Vals] /\ \A k \in Key : Empty[k] = <<>>
    BY DEF Empty, Vals
  <2>2. \A k \in Key : Owner[k] # r => file[r][k] = <<>> /\ \A o \in Object : S[o][k] = <<>>
    BY DEF MapInv, StoreInv
  <2> QED
    BY <1>1, <2>1, <2>2
<1> HIDE DEF Good
<1>4. X \in [Object -> [Key -> Vals]] /\ \A o \in Object : Good(X[o])
  <2>1. S \in [Object -> [Key -> Vals]] /\ Empty \in [Key -> Vals] /\ file[r] \in [Key -> Vals]
    BY <1>1, <1>3 DEF Good
  <2>2. CASE c.kind = "clear"
    <3>1. X = [S EXCEPT ![c.obj] = Empty]
      BY <2>2
    <3> HIDE DEF X, S
    <3> QED
      BY <1>1, <1>3, <2>1, <3>1
  <2>3. CASE c.kind = "swap"
    <3>1. X = [S EXCEPT ![c.obj] = S[c.peer], ![c.peer] = S[c.obj]]
      BY <2>3
    <3> HIDE DEF X, S
    <3> QED
      BY <1>1, <1>3, <2>1, <3>1
  <2>4. CASE c.kind = "load"
    <3>1. X = [S EXCEPT ![c.obj] = file[r]]
      BY <2>4
    <3> HIDE DEF X, S
    <3> QED
      BY <1>1, <1>3, <2>1, <3>1
  <2>5. CASE c.kind = "copy"
    <3>1. X = [S EXCEPT ![c.peer] = S[c.obj]]
      BY <2>5
    <3> HIDE DEF X, S
    <3> QED
      BY <1>1, <1>3, <2>1, <3>1
  <2>6. CASE c.kind \notin {"clear", "swap", "load", "copy"}
    <3>1. X = S
      BY <2>6
    <3> HIDE DEF X, S
    <3> QED
      BY <1>3, <2>1, <3>1
  <2> QED
    BY <2>2, <2>3, <2>4, <2>5, <2>6
<1>5. c.kind \notin {"clear", "swap", "load", "copy"} => X = store[r]
  OBVIOUS
<1> HIDE DEF X
<1>6. /\ store' \in Stores /\ store'[r] = X /\ \A s \in Rank : s # r => store'[s] = store[s]
  BY <1>1, <1>2, <1>4 DEF Stores
<1>7. /\ file' \in [Rank -> [Key -> Vals]] /\ Good(file'[r])
      /\ \A s \in Rank : s # r => file'[s] = file[s]
  <2>1. CASE c.kind = "save"
    <3>1. file' = [file EXCEPT ![r] = S[c.obj]]
      BY <1>2, <2>1
    <3>2. S[c.obj] \in [Key -> Vals] /\ Good(S[c.obj])
      BY <1>1, <1>3
    <3> HIDE DEF S
    <3> QED
      BY <1>1, <3>1, <3>2
  <2>2. CASE c.kind # "save"
    BY <1>1, <1>2, <1>3, <2>2
  <2> QED
    BY <2>1, <2>2
<1> QED
  BY <1>4, <1>5, <1>6, <1>7 DEF Good

LEMMA AfterQuestions ==
  ASSUME MapInv, NEW r \in Rank, NEW c \in CollOp, AfterBarrier(r, c)
  PROVE  /\ asked' \in [Rank -> SUBSET Key] /\ want' \in [Rank -> SUBSET Key]
         /\ output' \in [Rank -> [Key -> Vals]]
         /\ \A s \in Rank : s # r => asked'[s] = asked[s] /\ want'[s] = want[s] /\ output'[s] = output[s]
         /\ c.kind = "gather" => want'[r] = asked'[r] /\ \A k \in Key : output'[r][k] = <<>>
         /\ c.kind # "gather" => UNCHANGED <<asked, want, output>>
<1>1. /\ output \in [Rank -> [Key -> Vals]]
      /\ asked \in [Rank -> SUBSET Key] /\ want \in [Rank -> SUBSET Key]
  BY MapTypes
<1>2. CASE c.kind = "gather"
  <2>1. PICK K \in SUBSET Key : /\ asked' = [asked EXCEPT ![r] = K]
                                /\ want' = [want EXCEPT ![r] = K]
                                /\ output' = [output EXCEPT ![r] = Empty]
    BY <1>2 DEF AfterBarrier
  <2>2. Empty \in [Key -> Vals] /\ \A k \in Key : Empty[k] = <<>>
    BY DEF Empty, Vals
  <2> QED
    BY <1>1, <1>2, <2>1, <2>2
<1>3. CASE c.kind # "gather"
  <2>1. UNCHANGED <<asked, want, output>>
    BY <1>3 DEF AfterBarrier
  <2> QED
    BY <1>1, <1>3, <2>1
<1> QED
  BY <1>2, <1>3

LEMMA HeldSame ==
  ASSUME NEW st1, NEW st2, NEW r, NEW o, NEW K, st1[r] = st2[r]
  PROVE  Held(st1, r, o, K) = Held(st2, r, o, K)
BY Zenon DEF Held

LEMMA AfterSum ==
  ASSUME MapInv, NEW r \in Rank, NEW c \in CollOp, AfterBarrier(r, c)
  PROVE  /\ part' = [s \in Rank |-> part'[s]] /\ \A s \in Rank : s # r => part'[s] = part[s]
         /\ c.kind = "size" => part'[r] = Held(store, r, c.obj, c.keys) /\ r \in reducing'
         /\ reducing' \subseteq reducing \cup {r} /\ reducing \subseteq reducing'
<1>1. part = [s \in Rank |-> part[s]]
  BY DEF MapInv, MapTypeOK
<1>2. CASE c.kind = "size"
  <2>1. part' = [part EXCEPT ![r] = Held(store, r, c.obj, c.keys)] /\ reducing' = reducing \cup {r}
    BY <1>2 DEF AfterBarrier
  <2> QED
    BY <1>1, <2>1
<1>3. CASE c.kind # "size"
  BY <1>1, <1>3 DEF AfterBarrier
<1> QED
  BY <1>2, <1>3

LEMMA LeaveStep ==
  ASSUME MapInv, NEW r \in Rank, Leave(r)
  PROVE  MapInv'
<1>1. PICK e, f, c : e = epoch[r] /\ f = e + 1 /\ c = plan[f]
  OBVIOUS
<1>2. /\ r \in inside /\ inside' = inside \ {r} /\ UNCHANGED <<issued, executed, ops, plan, answer>>
      /\ e \in Nat /\ f \in Nat /\ f > 0 /\ f # e /\ f \in DOMAIN plan /\ c \in CollOp
      /\ epoch' \in [Rank -> Nat] /\ epoch'[r] = f
      /\ \A s \in Rank : s # r => epoch'[s] = epoch[s]
      /\ \A s \in Rank : (epoch[s] = e /\ s \in inside) \/ (epoch[s] = f /\ s # r)
      /\ \A m \in Pending : m.epoch = f
  BY <1>1, LeaveFacts
<1>3. AfterBarrier(r, c)
  BY <1>1, LeaveFacts
<1>4. /\ closed' \in Seq(Stores) /\ Len(closed') = f /\ DOMAIN closed' = 1 .. f
      /\ \A i \in DOMAIN closed : i \in DOMAIN closed' /\ closed'[i] = closed[i]
      /\ \A i \in DOMAIN closed' : i \in DOMAIN closed \/ closed'[i] = store
      /\ \A s \in Rank : epoch[s] = e => closed'[f][s] = store[s]
  BY <1>1, ClosedFacts
<1>5. /\ store' \in Stores /\ \A s \in Rank : s # r => store'[s] = store[s]
      /\ c.kind \notin {"clear", "swap", "load", "copy"} => store'[r] = store[r]
      /\ \A k \in Key : Owner[k] # r =>
           file'[r][k] = <<>> /\ \A o \in Object : store'[r][o][k] = <<>>
      /\ file' \in [Rank -> [Key -> Vals]] /\ \A s \in Rank : s # r => file'[s] = file[s]
  BY <1>2, <1>3, AfterStores
<1>6. /\ asked' \in [Rank -> SUBSET Key] /\ want' \in [Rank -> SUBSET Key]
      /\ output' \in [Rank -> [Key -> Vals]]
      /\ \A s \in Rank : s # r => asked'[s] = asked[s] /\ want'[s] = want[s] /\ output'[s] = output[s]
      /\ c.kind = "gather" => want'[r] = asked'[r] /\ \A k \in Key : output'[r][k] = <<>>
      /\ c.kind # "gather" => UNCHANGED <<asked, want, output>>
  BY <1>2, <1>3, AfterQuestions
<1>7. /\ part' = [s \in Rank |-> part'[s]] /\ \A s \in Rank : s # r => part'[s] = part[s]
      /\ c.kind = "size" => part'[r] = Held(store, r, c.obj, c.keys) /\ r \in reducing'
      /\ reducing' \subseteq reducing \cup {r} /\ reducing \subseteq reducing'
  BY <1>2, <1>3, AfterSum
<1>8. /\ LockstepInv /\ StoreInv /\ AskInv /\ CallInv
      /\ PartInv /\ SizeExact /\ GatherExact
  BY DEF MapInv
<1>9. \A s \in Rank : epoch[s] > 0 => epoch[s] \in DOMAIN closed /\ closed'[epoch[s]] = closed[epoch[s]]
  BY <1>4, MapTypes
<1>10. Pending' = Pending /\ \A s \in Rank, k \in Key : Awaited(s, k)' = Awaited(s, k)
  BY <1>2 DEF Awaited, Pending, Replied
<1>11. ASSUME NEW k \in Key PROVE Awaited(r, k) = {}
  <2>1. ASSUME NEW m \in Awaited(r, k) PROVE FALSE
    <3>1. /\ m \in Pending
          /\ \/ ops[m.id].kind = "fetch" /\ m.src = r
             \/ ops[m.id].kind = "return" /\ m.dst = r
      BY <2>1 DEF Awaited
    <3>2. CallAt(m) /\ m.epoch = f
      BY <1>2, <3>1, CallFacts
    <3> QED
      BY <1>1, <1>2, <3>1, <3>2 DEF CallAt
  <2> QED
    BY <2>1
<1>12. MapTypeOK'
  <2>1. reducing' \subseteq Rank /\ inside' \subseteq Rank
    BY <1>2, <1>7, MapTypes
  <2>2. answer' = [s \in Rank |-> answer'[s]]
    BY <1>2 DEF MapInv, MapTypeOK
  <2> QED
    BY <1>2, <1>4, <1>5, <1>6, <1>7, <2>1, <2>2 DEF MapInv, MapTypeOK, Stores
<1>13. LockstepInv'
  <2>1. ASSUME NEW a \in Rank, NEW b \in Rank, epoch'[b] < epoch'[a]
        PROVE  b \in inside' /\ epoch'[a] = epoch'[b] + 1
    <3>1. b # r /\ epoch[b] = e /\ b \in inside /\ epoch'[a] = f
      BY <1>1, <1>2, <2>1
    <3> QED
      BY <1>1, <1>2, <3>1
  <2>2. ASSUME NEW s \in Rank
        PROVE  (IF s \in inside' THEN epoch'[s] + 1 ELSE epoch'[s]) <= Len(plan)
    <3>1. Len(plan) \in Nat /\ DOMAIN plan = 1 .. Len(plan)
      BY MapTypes
    <3>2. CASE s = r
      BY <1>2, <3>1, <3>2
    <3>3. CASE s # r
      BY <1>2, <1>8, <3>3 DEF LockstepInv
    <3> QED
      BY <3>2, <3>3
  <2>3. inside' \cap reducing' = {}
    BY <1>2, <1>7, <1>8 DEF LockstepInv
  <2>4. \A i \in DOMAIN plan' : plan'[i].kind = "gathered" =>
          i > 1 /\ plan'[i - 1].kind = "gather" /\ plan'[i - 1].obj = plan'[i].obj
    BY <1>2, <1>8 DEF LockstepInv
  <2> QED
    BY <1>2, <2>1, <2>2, <2>3, <2>4 DEF LockstepInv
<1>14. CallInv'
  <2>1. ASSUME NEW m \in Pending PROVE CallAt(m)'
    <3>1. CallAt(m) /\ m.epoch = f /\ m.src \in Rank /\ m.dst \in Rank
      BY <1>2, CallFacts
    <3>2. epoch[m.src] = f /\ m.src # r /\ epoch'[m.src] = f
      BY <1>1, <1>2, <3>1 DEF CallAt
    <3>3. closed'[f] = closed[f]
      BY <1>2, <1>9, <3>1, <3>2
    <3>4. \A s \in Rank : epoch'[s] <= f
      BY <1>1, <1>2
    <3>5. ops[m.id].kind = "return" => epoch'[m.dst] = f
      BY <1>1, <1>2, <3>1 DEF CallAt
    <3> QED
      BY <1>2, <3>1, <3>2, <3>3, <3>4, <3>5 DEF CallAt, Gathering, Halfway
  <2> QED
    BY <1>2, <1>8, <1>10, <2>1, CallAtMeans DEF CallInv, CallAt
<1>15. StoreInv'
  <2>1. closed' # <<>> => \E s \in Rank : epoch'[s] = Len(closed')
    BY <1>2, <1>4
  <2>2. ASSUME NEW s \in Rank
        PROVE  /\ epoch'[s] <= Len(closed')
               /\ epoch'[s] < Len(closed') => store'[s] = closed'[epoch'[s] + 1][s]
    <3>1. CASE s = r
      BY <1>2, <1>4, <3>1
    <3>2. CASE s # r
      <4>1. epoch'[s] = epoch[s] /\ (epoch[s] = e \/ epoch[s] = f)
        BY <1>2, <3>2
      <4>2. epoch[s] = e => store'[s] = closed'[f][s]
        BY <1>4, <1>5, <3>2
      <4> QED
        BY <1>1, <1>2, <1>4, <4>1, <4>2
    <3> QED
      BY <3>1, <3>2
  <2>3. ASSUME NEW s \in Rank, Gathering(epoch[s])' PROVE store'[s] = closed'[epoch'[s]][s]
    <3>1. CASE s = r
      <4>1. c.kind = "gather"
        BY <1>1, <1>2, <2>3, <3>1 DEF Gathering
      <4>2. store'[r] = store[r]
        BY <1>5, <4>1
      <4> QED
        BY <1>1, <1>2, <1>4, <3>1, <4>2
    <3>2. CASE s # r
      <4>1. Gathering(epoch[s]) /\ epoch'[s] = epoch[s] /\ epoch[s] > 0
        BY <1>2, <2>3, <3>2 DEF Gathering
      <4>2. store[s] = closed[epoch[s]][s]
        BY <1>8, <4>1 DEF StoreInv
      <4> QED
        BY <1>5, <1>9, <3>2, <4>1, <4>2
    <3> QED
      BY <3>1, <3>2
  <2>4. ASSUME NEW s \in Rank, NEW k \in Key, Owner[k] # s
        PROVE  /\ file'[s][k] = <<>>
               /\ \A o \in Object : /\ store'[s][o][k] = <<>>
                                    /\ \A i \in DOMAIN closed' : closed'[i][s][o][k] = <<>>
    <3>1. /\ file[s][k] = <<>>
          /\ \A o \in Object : store[s][o][k] = <<>> /\ \A i \in DOMAIN closed : closed[i][s][o][k] = <<>>
      BY <1>8, <2>4 DEF StoreInv
    <3>2. file'[s][k] = <<>> /\ \A o \in Object : store'[s][o][k] = <<>>
      BY <1>5, <2>4, <3>1
    <3>3. ASSUME NEW o \in Object, NEW i \in DOMAIN closed' PROVE closed'[i][s][o][k] = <<>>
      BY <1>4, <3>1
    <3> QED
      BY <3>2, <3>3
  <2> QED
    BY <2>1, <2>2, <2>3, <2>4 DEF StoreInv
<1>16. PartInv'
  <2>1. ASSUME NEW s \in Rank, epoch'[s] > 0, plan[epoch'[s]].kind = "size"
        PROVE  part'[s] = Held(closed'[epoch'[s]], s, plan[epoch'[s]].obj, plan[epoch'[s]].keys)
    <3>1. CASE s = r
      <4>1. part'[r] = Held(store, r, c.obj, c.keys)
        BY <1>1, <1>2, <1>7, <2>1, <3>1
      <4>2. PICK st : st = closed'[f]
        OBVIOUS
      <4>3. st[r] = store[r]
        BY <1>1, <1>4, <4>2
      <4>4. Held(st, r, c.obj, c.keys) = Held(store, r, c.obj, c.keys)
        BY <4>3, HeldSame
      <4> QED
        BY <1>1, <1>2, <3>1, <4>1, <4>2, <4>4
    <3>2. CASE s # r
      <4>1. epoch'[s] = epoch[s] /\ part'[s] = part[s]
        BY <1>2, <1>7, <3>2
      <4>2. part[s] = Held(closed[epoch[s]], s, plan[epoch[s]].obj, plan[epoch[s]].keys)
        BY <1>8, <2>1, <4>1 DEF PartInv
      <4>3. closed'[epoch[s]] = closed[epoch[s]]
        BY <1>9, <2>1, <4>1
      <4> QED
        BY <4>1, <4>2, <4>3
    <3> QED
      BY <3>1, <3>2
  <2> QED
    BY <1>2, <2>1 DEF PartInv
<1>17. SizeExact'
  <2>1. ASSUME NEW s \in Rank, s \notin reducing', epoch'[s] > 0, plan[epoch'[s]].kind = "size"
        PROVE  answer[s] = Total(closed'[epoch'[s]], plan[epoch'[s]].obj, plan[epoch'[s]].keys)
    <3>1. s # r
      BY <1>1, <1>2, <1>7, <2>1
    <3>2. epoch'[s] = epoch[s] /\ s \notin reducing
      BY <1>2, <1>7, <2>1, <3>1
    <3>3. answer[s] = Total(closed[epoch[s]], plan[epoch[s]].obj, plan[epoch[s]].keys)
      BY <1>8, <2>1, <3>2 DEF SizeExact
    <3>4. closed'[epoch[s]] = closed[epoch[s]]
      BY <1>9, <2>1, <3>2
    <3> QED
      BY <3>2, <3>3, <3>4
  <2> QED
    BY <1>2, <2>1 DEF SizeExact
<1>18. GatherExact'
  <2>1. ASSUME NEW s \in Rank, epoch'[s] > 1, plan[epoch'[s]].kind = "gathered", NEW k \in Key
        PROVE  output'[s][k] = IF k \in asked'[s]
                               THEN closed'[epoch'[s] - 1][Owner[k]][plan[epoch'[s]].obj][k]
                               ELSE <<>>
    <3>1. CASE s = r
      <4>1. epoch'[s] = f /\ c.kind = "gathered"
        BY <1>1, <1>2, <2>1, <3>1
      <4>2. f > 1 /\ f - 1 = e /\ plan[e].kind = "gather" /\ plan[e].obj = c.obj
        BY <1>1, <1>2, <1>8, <4>1 DEF LockstepInv
      <4>3. e > 0 /\ Gathering(epoch[r])
        BY <1>1, <1>2, <4>2 DEF Gathering
      <4>4. want[r] = {} /\ KeyAt(r, k)
        BY <1>2, <1>8, AskMeans
      <4>5. output[r][k] = IF k \in asked[r] THEN closed[e][Owner[k]][c.obj][k] ELSE <<>>
        BY <1>1, <1>11, <4>2, <4>3, <4>4 DEF KeyAt
      <4>6. closed'[e] = closed[e]
        BY <1>1, <1>9, <4>3
      <4>7. output' = output /\ asked' = asked
        BY <1>6, <4>1
      <4> QED
        BY <1>1, <3>1, <4>1, <4>2, <4>5, <4>6, <4>7
    <3>2. CASE s # r
      <4>1. epoch'[s] = epoch[s] /\ output'[s] = output[s] /\ asked'[s] = asked[s]
        BY <1>2, <1>6, <3>2
      <4>2. output[s][k] = IF k \in asked[s]
                           THEN closed[epoch[s] - 1][Owner[k]][plan[epoch[s]].obj][k]
                           ELSE <<>>
        BY <1>8, <2>1, <4>1 DEF GatherExact
      <4>3. closed'[epoch[s] - 1] = closed[epoch[s] - 1]
        <5>1. epoch[s] - 1 \in DOMAIN closed
          BY <2>1, <4>1, MapTypes
        <5> QED
          BY <1>4, <5>1
      <4> QED
        BY <4>1, <4>2, <4>3
    <3> QED
      BY <3>1, <3>2
  <2> QED
    BY <1>2, <2>1 DEF GatherExact
<1>19. AskInv'
  <2>1. ASSUME NEW s \in Rank
        PROVE  want'[s] \subseteq asked'[s] /\ (want'[s] # {} => s \notin inside' /\ Gathering(epoch[s])')
    <3>1. CASE s = r
      <4>1. CASE c.kind = "gather"
        BY <1>1, <1>2, <1>6, <3>1, <4>1 DEF Gathering
      <4>2. CASE c.kind # "gather"
        <5>1. want[r] = {} /\ want'[r] = want[r]
          BY <1>2, <1>6, <1>8, <4>2, AskMeans
        <5> QED
          BY <3>1, <5>1
      <4> QED
        BY <4>1, <4>2
    <3>2. CASE s # r
      <4>1. want'[s] = want[s] /\ asked'[s] = asked[s] /\ epoch'[s] = epoch[s]
        BY <1>2, <1>6, <3>2
      <4>2. want[s] \subseteq asked[s] /\ (want[s] # {} => s \notin inside /\ Gathering(epoch[s]))
        BY <1>8, AskMeans
      <4> QED
        BY <1>2, <4>1, <4>2 DEF Gathering
    <3> QED
      BY <3>1, <3>2
  <2>2. ASSUME NEW s \in Rank, NEW k \in Key PROVE KeyAt(s, k)'
    <3>1. CASE s = r
      <4>1. Awaited(r, k)' = {}
        BY <1>10, <1>11
      <4>2. Gathering(epoch[r])' => c.kind = "gather"
        BY <1>1, <1>2 DEF Gathering
      <4>3. c.kind = "gather" => output'[r][k] = <<>> /\ k \notin asked'[r] \ want'[r]
        BY <1>6
      <4> QED
        BY <3>1, <4>1, <4>2, <4>3 DEF KeyAt
    <3>2. CASE s # r
      <4>1. /\ want'[s] = want[s] /\ asked'[s] = asked[s] /\ epoch'[s] = epoch[s]
            /\ output'[s] = output[s]
        BY <1>2, <1>6, <3>2
      <4>2. KeyAt(s, k) /\ Awaited(s, k)' = Awaited(s, k)
        BY <1>8, <1>10, AskMeans
      <4>3. Gathering(epoch[s]) => closed'[epoch[s]] = closed[epoch[s]]
        BY <1>9 DEF Gathering
      <4>4. Gathering(epoch[s])' <=> Gathering(epoch[s])
        BY <1>2, <4>1 DEF Gathering
      <4> QED
        BY <1>2, <4>1, <4>2, <4>3, <4>4 DEF KeyAt
    <3> QED
      BY <3>1, <3>2
  <2> QED
    BY <2>1, <2>2 DEF AskInv, KeyAt
<1> QED
  BY <1>12, <1>13, <1>14, <1>15, <1>16, <1>17, <1>18, <1>19 DEF MapInv
-----------------------------------------------------------------------------
LEMMA MapStart ==
  MapInit => MapInv
<1> SUFFICES ASSUME MapInit PROVE MapInv
  OBVIOUS
<1>1. /\ issued = {} /\ executed = {} /\ inside = {} /\ reducing = {}
      /\ epoch = [r \in Rank |-> 0] /\ ops = <<>> /\ plan = <<>> /\ closed = <<>>
      /\ store = [r \in Rank |-> [o \in Object |-> Empty]]
      /\ file = [r \in Rank |-> Empty] /\ output = [r \in Rank |-> Empty]
      /\ part = [r \in Rank |-> 0] /\ answer = [r \in Rank |-> 0]
      /\ asked = [r \in Rank |-> {}] /\ want = [r \in Rank |-> {}]
  BY DEF MapInit, BSInit
<1>2. Empty \in [Key -> Vals] /\ \A k \in Key : Empty[k] = <<>>
  BY DEF Empty, Vals
<1>3. Len(plan) = 0 /\ DOMAIN plan = {} /\ Len(closed) = 0 /\ DOMAIN closed = {} /\ Pending = {}
  BY <1>1 DEF Pending
<1>4. \A r \in Rank : epoch[r] = 0
  BY <1>1
<1>5. MapTypeOK
  <2>1. store \in Stores /\ file \in [Rank -> [Key -> Vals]] /\ output \in [Rank -> [Key -> Vals]]
    BY <1>1, <1>2 DEF Stores
  <2>2. ops \in Seq(Op) /\ plan \in Seq(CollOp) /\ closed \in Seq(Stores)
    BY <1>1
  <2>3. asked \in [Rank -> SUBSET Key] /\ want \in [Rank -> SUBSET Key] /\ epoch \in [Rank -> Nat]
    BY <1>1
  <2>4. part = [r \in Rank |-> part[r]] /\ answer = [r \in Rank |-> answer[r]]
    BY <1>1
  <2>5. /\ issued \subseteq Call /\ executed \subseteq issued
        /\ inside \subseteq Rank /\ reducing \subseteq Rank
    BY <1>1
  <2> QED
    BY <2>1, <2>2, <2>3, <2>4, <2>5 DEF MapTypeOK, Stores, CollOp
<1>6. LockstepInv
  BY <1>1, <1>3, <1>4 DEF LockstepInv
<1>7. CallInv
  BY <1>1, <1>3 DEF CallInv
<1>8. StoreInv
  BY <1>1, <1>2, <1>3, <1>4 DEF StoreInv, Gathering
<1>9. PartInv /\ SizeExact /\ GatherExact
  BY <1>4 DEF PartInv, SizeExact, GatherExact
<1>10. AskInv
  <2>1. ASSUME NEW r \in Rank, NEW k \in Key PROVE Awaited(r, k) = {}
    <3>1. Awaited(r, k) \subseteq Pending
      BY DEF Awaited
    <3> QED
      BY <1>3, <3>1
  <2>2. \A r \in Rank : want[r] = {} /\ asked[r] = {}
    BY <1>1
  <2>3. ASSUME NEW r \in Rank PROVE ~Gathering(epoch[r])
    <3>1. ~(epoch[r] > 0)
      BY <1>4
    <3> QED
      BY <3>1 DEF Gathering
  <2> QED
    BY <2>1, <2>2, <2>3 DEF AskInv
<1> QED
  BY <1>5, <1>6, <1>7, <1>8, <1>9, <1>10 DEF MapInv

LEMMA MapStutter ==
  ASSUME MapInv, UNCHANGED mapVars
  PROVE  MapInv'
<1>1. /\ UNCHANGED <<issued, executed, epoch, inside>>
      /\ UNCHANGED <<ops, store, file, plan, part, reducing, answer, asked, want, output, closed>>
  BY DEF mapVars, bsVars, dataVars
<1>2. MapTypeOK'
  BY <1>1 DEF MapInv, MapTypeOK
<1>3. CallInv'
  BY <1>1, CallInvShrinks
<1>4. AskInv'
  <2>1. \A s \in Rank, k \in Key : Awaited(s, k)' = Awaited(s, k)
    BY <1>1 DEF Awaited, Pending, Replied
  <2> QED
    BY <1>1, <2>1, AskFrame
<1>5. LockstepInv' /\ StoreInv' /\ PartInv' /\ SizeExact' /\ GatherExact'
  BY <1>1, LockstepFrame, StoreFrame, PartFrame, SizeFrame, GatherFrame
<1> QED
  BY <1>2, <1>3, <1>4, <1>5 DEF MapInv

LEMMA MapStep ==
  MapInv /\ [MapNext]_mapVars => MapInv'
<1> SUFFICES ASSUME MapInv, [MapNext]_mapVars PROVE MapInv'
  OBVIOUS
<1>1. ASSUME NEW r \in Rank, NEW o \in Object, NEW k \in Key, NEW kind \in Ops[o], Operate(r, kind, o, k)
      PROVE  MapInv'
  BY <1>1, OperateStep
<1>2. ASSUME NEW r \in Rank, Enter(r) PROVE MapInv'
  BY <1>2, EnterStep
<1>3. ASSUME NEW r \in Rank, Leave(r) PROVE MapInv'
  BY <1>3, LeaveStep
<1>4. ASSUME NEW r \in Rank, Reduced(r) PROVE MapInv'
  BY <1>4, ReducedStep
<1>5. ASSUME NEW r \in Rank, NEW k \in Key, Fetch(r, k) PROVE MapInv'
  BY <1>5, FetchStep
<1>6. ASSUME NEW m \in Pending, Handle(m) PROVE MapInv'
  BY <1>6, HandleStep
<1>7. ASSUME NEW m \in Pending, Reply(m) PROVE MapInv'
  BY <1>7, ReplyStep
<1>8. ASSUME NEW m \in Pending, Fetched(m) PROVE MapInv'
  BY <1>8, FetchedStep
<1>9. ASSUME NEW m \in Pending, Return(m) PROVE MapInv'
  BY <1>9, ReturnStep
<1>10. ASSUME UNCHANGED mapVars PROVE MapInv'
  BY <1>10, MapStutter
<1> QED
  BY <1>1, <1>2, <1>3, <1>4, <1>5, <1>6, <1>7, <1>8, <1>9, <1>10 DEF MapNext, Ended

(* The inductive invariant holds: among others, every key lies at the rank
   that the partitioner assigns to it, and a container does not change
   between the two barriers of all_gather().                               *)
THEOREM MapInvariant == MapSpec => []MapInv
BY MapStart, MapStep, PTL DEF MapSpec

(* size() and count() return on every rank the number of elements that the
   whole object held when their barrier ended (map_impl.hpp 129-137).      *)
THEOREM SizeIsExact == MapSpec => []SizeExact
<1>1. MapInv => SizeExact
  BY DEF MapInv
<1> QED
  BY <1>1, MapInvariant, PTL

(* all_gather() returns the values of exactly the keys that were asked for,
   as they were at its first barrier (map_impl.hpp 147-169).               *)
THEOREM GatherIsExact == MapSpec => []GatherExact
<1>1. MapInv => GatherExact
  BY DEF MapInv
<1> QED
  BY <1>1, MapInvariant, PTL
-----------------------------------------------------------------------------
(* What Descent amounts to for the collective operations of a program.      *)
LineageOf(p) == Descent(Holder, Nowhere, Moves(p))

Later(L, c, e) ==
  [h \in Holder |-> {<<h, e>>} \cup IF From(c, h) = Nowhere THEN {} ELSE L[From(c, h)]]

LEMMA HolderFacts ==
  Object \subseteq Holder /\ File \in Holder /\ File \notin Object /\ Nowhere \notin Holder
BY NameAssumption DEF Holder, File, Nowhere

LEMMA FromType ==
  ASSUME NEW c \in CollOp, NEW h \in Holder
  PROVE  From(c, h) \in Holder \cup {Nowhere}
<1>1. c.obj \in Holder /\ c.peer \in Holder /\ File \in Holder
  BY HolderFacts DEF CollOp
<1> QED
  BY <1>1 DEF From

LEMMA MovesMove ==
  ASSUME NEW p, p \in Seq(CollOp)
  PROVE  /\ Moving(Holder, Nowhere, Moves(p)) /\ Len(Moves(p)) = Len(p)
         /\ Len(p) \in Nat /\ DOMAIN p = 1 .. Len(p)
         /\ \A e \in 1 .. Len(p) : Moves(p)[e] = [h \in Holder |-> From(p[e], h)]
<1> DEFINE n == Len(p)
           m == [e \in 1 .. n |-> [h \in Holder |-> From(p[e], h)]]
<1>1. n \in Nat /\ DOMAIN p = 1 .. n
  BY LenProperties
<1>2. Moves(p) = m
  BY <1>1 DEF Moves
<1>3. m \in [1 .. n -> [Holder -> Holder \cup {Nowhere}]]
  <2>1. ASSUME NEW e \in 1 .. n PROVE [h \in Holder |-> From(p[e], h)] \in [Holder -> Holder \cup {Nowhere}]
    <3>1. p[e] \in CollOp
      BY <1>1
    <3>2. \A h \in Holder : From(p[e], h) \in Holder \cup {Nowhere}
      BY <3>1, FromType
    <3> QED
      BY <3>2
  <2> QED
    BY <2>1
<1>4. \A e \in 1 .. n : m[e] = [h \in Holder |-> From(p[e], h)]
  OBVIOUS
<1> HIDE DEF m, n
<1>5. m \in Seq([Holder -> Holder \cup {Nowhere}]) /\ Len(m) = n
  BY <1>1, <1>3
<1> QED
  BY <1>1, <1>2, <1>3, <1>4, <1>5 DEF Moving, n

LEMMA LineageAt ==
  ASSUME NEW p, p \in Seq(CollOp)
  PROVE  /\ LineageOf(p)[0] = Newborn(Holder)
         /\ \A e \in 1 .. Len(p) : LineageOf(p)[e] = Later(LineageOf(p)[e - 1], p[e], e)
<1> DEFINE mv == Moves(p)
           L  == Descent(Holder, Nowhere, mv)
<1>1. /\ Moving(Holder, Nowhere, mv) /\ Len(mv) = Len(p)
      /\ \A e \in 1 .. Len(p) : mv[e] = [h \in Holder |-> From(p[e], h)]
  BY MovesMove
<1> HIDE DEF mv
<1>2. /\ L[0] = Newborn(Holder)
      /\ \A e \in 1 .. Len(mv) : L[e] = Inherit(Holder, Nowhere, L[e - 1], mv[e], e)
  BY <1>1, DescentAt
<1> HIDE DEF L
<1>3. ASSUME NEW e \in 1 .. Len(p) PROVE L[e] = Later(L[e - 1], p[e], e)
  <2>1. \A h \in Holder : mv[e][h] = From(p[e], h)
    BY <1>1
  <2> QED
    BY <1>1, <1>2, <2>1 DEF Inherit, Later
<1> QED
  BY <1>2, <1>3 DEF L, mv, LineageOf

LEMMA LineageAged ==
  ASSUME NEW p, p \in Seq(CollOp)
  PROVE  \A e \in 0 .. Len(p) : LineageOf(p)[e] \in OriginsTo(Holder, e)
BY MovesMove, DescentAged DEF LineageOf

LEMMA LineageKept ==
  ASSUME NEW p, p \in Seq(CollOp), NEW q, q \in Seq(CollOp), NEW n \in Nat, n <= Len(p), n <= Len(q),
         \A i \in 1 .. n : p[i] = q[i]
  PROVE  \A i \in 0 .. n : LineageOf(p)[i] = LineageOf(q)[i]
<1>1. PICK mv, mw : mv = Moves(p) /\ mw = Moves(q)
  OBVIOUS
<1>2. /\ Moving(Holder, Nowhere, mv) /\ Len(mv) = Len(p) /\ Moving(Holder, Nowhere, mw) /\ Len(mw) = Len(q)
      /\ \A e \in 1 .. Len(p) : mv[e] = [h \in Holder |-> From(p[e], h)]
      /\ \A e \in 1 .. Len(q) : mw[e] = [h \in Holder |-> From(q[e], h)]
      /\ Len(p) \in Nat /\ Len(q) \in Nat
  BY <1>1, MovesMove
<1>3. \A i \in 1 .. n : mv[i] = mw[i]
  <2>1. ASSUME NEW i \in 1 .. n PROVE mv[i] = mw[i]
    <3>1. i \in 1 .. Len(p) /\ i \in 1 .. Len(q) /\ p[i] = q[i]
      BY <1>2
    <3> QED
      BY <1>2, <3>1
  <2> QED
    BY <2>1
<1>4. \A i \in 0 .. n : Descent(Holder, Nowhere, mv)[i] = Descent(Holder, Nowhere, mw)[i]
  BY <1>2, <1>3, DescentKept
<1> QED
  BY <1>1, <1>4 DEF LineageOf

(* What an operation of epoch e does to an object belongs in it, and nowhere
   else yet.                                                               *)
LEMMA OwnOrigin ==
  ASSUME NEW p, p \in Seq(CollOp), NEW e \in 0 .. Len(p), NEW o \in Object, NEW h \in Holder
  PROVE  <<o, e>> \in LineageOf(p)[e][h] <=> h = o
<1>1. Moving(Holder, Nowhere, Moves(p)) /\ e \in 0 .. Len(Moves(p)) /\ o \in Holder
  BY MovesMove, HolderFacts
<1> QED
  BY <1>1, DescentOwn DEF LineageOf
-----------------------------------------------------------------------------
(* What makes up an object, even through a file, was done to objects of its
   class.                                                                  *)
AlikePlan(p) ==
  \A e \in DOMAIN p :
    /\ p[e].kind \in {"swap", "copy"} => Ops[p[e].obj] = Ops[p[e].peer]
    /\ p[e].kind = "load" =>
         \E i \in 1 .. e - 1 : LastSave(p, i, e - 1) /\ Ops[p[i].obj] = Ops[p[e].obj]

AlikeIn(S, x)  == \A o \in Object : \A d : <<o, d>> \in S => Ops[o] = Ops[x]
AllAlike(p, L, e) == /\ \A h \in Object : AlikeIn(L[h], h)
                     /\ \A i \in 1 .. e : LastSave(p, i, e) => AlikeIn(L[File], p[i].obj)

LEMMA FromFile ==
  ASSUME NEW c \in CollOp
  PROVE  From(c, File) = IF c.kind = "save" THEN c.obj ELSE File
BY HolderFacts DEF From, CollOp

LEMMA FromObject ==
  ASSUME NEW c \in CollOp, NEW h \in Object
  PROVE  \/ From(c, h) \in {Nowhere, h}
         \/ c.kind = "load" /\ h = c.obj /\ From(c, h) = File
         \/ /\ c.kind \in {"swap", "copy"} /\ From(c, h) \in {c.obj, c.peer}
            /\ h \in {c.obj, c.peer}
BY HolderFacts DEF From, CollOp

LEMMA AlikeLater ==
  ASSUME NEW p, p \in Seq(CollOp), AlikePlan(p), NEW e \in Nat, e + 1 \in DOMAIN p,
         NEW L, AllAlike(p, L, e)
  PROVE  AllAlike(p, Later(L, p[e + 1], e + 1), e + 1)
<1>1. PICK c, f, M : c = p[e + 1] /\ f = e + 1 /\ M = Later(L, c, f)
  OBVIOUS
<1>2. c \in CollOp /\ c.obj \in Object /\ c.peer \in Object /\ f \in Nat
  <2>1. p[f] \in CollOp
    BY <1>1
  <2> QED
    BY <1>1, <2>1 DEF CollOp
<1>3. \A h \in Holder : M[h] = {<<h, f>>} \cup IF From(c, h) = Nowhere THEN {} ELSE L[From(c, h)]
  BY <1>1 DEF Later
<1>4. /\ c.kind \in {"swap", "copy"} => Ops[c.obj] = Ops[c.peer]
      /\ c.kind = "load" => \E i \in 1 .. e : LastSave(p, i, e) /\ Ops[p[i].obj] = Ops[c.obj]
  <2>1. e + 1 - 1 = e
    OBVIOUS
  <2> QED
    BY <1>1, <2>1 DEF AlikePlan
<1>5. ASSUME NEW h \in Object, NEW o \in Object, NEW d, <<o, d>> \in M[h] PROVE Ops[o] = Ops[h]
  <2>1. CASE o = h
    BY <2>1
  <2>2. CASE o # h
    <3>1. From(c, h) # Nowhere /\ <<o, d>> \in L[From(c, h)]
      BY <1>3, <1>5, <2>2, HolderFacts
    <3>2. CASE From(c, h) = h
      BY <3>1, <3>2 DEF AllAlike, AlikeIn
    <3>3. CASE c.kind = "load" /\ h = c.obj /\ From(c, h) = File
      BY <1>4, <3>1, <3>3 DEF AllAlike, AlikeIn
    <3>4. CASE /\ c.kind \in {"swap", "copy"} /\ From(c, h) \in {c.obj, c.peer} /\ h \in {c.obj, c.peer}
      BY <1>2, <1>4, <3>1, <3>4 DEF AllAlike, AlikeIn
    <3> QED
      BY <1>2, <3>1, <3>2, <3>3, <3>4, FromObject
  <2> QED
    BY <2>1, <2>2
<1>6. ASSUME NEW i \in 1 .. f, LastSave(p, i, f), NEW o \in Object, NEW d, <<o, d>> \in M[File]
      PROVE  Ops[o] = Ops[p[i].obj]
  <2>1. From(c, File) # Nowhere /\ <<o, d>> \in L[From(c, File)]
    <3>1. o # File /\ File \in Holder
      BY HolderFacts
    <3>2. <<o, d>> # <<File, f>>
      BY <3>1
    <3> QED
      BY <1>3, <1>6, <3>1, <3>2
  <2>2. CASE i = f
    <3>1. p[i] = c /\ c.kind = "save"
      BY <1>1, <1>6, <2>2 DEF LastSave
    <3>2. <<o, d>> \in L[c.obj]
      BY <1>2, <2>1, <3>1, FromFile
    <3> QED
      BY <1>2, <3>1, <3>2 DEF AllAlike, AlikeIn
  <2>3. CASE i # f
    <3>1. i \in 1 .. e /\ LastSave(p, i, e) /\ c.kind # "save"
      <4>1. i \in 1 .. e /\ f \in i + 1 .. f /\ \A j \in i + 1 .. e : j \in i + 1 .. f
        BY <1>1, <2>3
      <4> QED
        BY <1>1, <1>6, <4>1 DEF LastSave
    <3>2. <<o, d>> \in L[File]
      BY <1>2, <2>1, <3>1, FromFile
    <3> QED
      BY <3>1, <3>2 DEF AllAlike, AlikeIn
  <2> QED
    BY <2>2, <2>3
<1>7. AllAlike(p, M, f)
  BY <1>5, <1>6 DEF AllAlike, AlikeIn
<1> QED
  BY <1>1, <1>7

LEMMA LineageAlike ==
  ASSUME NEW p, p \in Seq(CollOp), AlikePlan(p)
  PROVE  \A e \in 0 .. Len(p) : AllAlike(p, LineageOf(p)[e], e)
<1> DEFINE L == LineageOf(p)
           n == Len(p)
           T == {e \in Nat : e <= n => AllAlike(p, L[e], e)}
<1>1. /\ n \in Nat /\ DOMAIN p = 1 .. n
      /\ L[0] = Newborn(Holder) /\ \A e \in 1 .. n : L[e] = Later(L[e - 1], p[e], e)
  BY LineageAt, LenProperties
<1> HIDE DEF L, n
<1>2. 0 \in T
  <2>1. ASSUME NEW h \in Object, NEW o \in Object, NEW d, <<o, d>> \in Newborn(Holder)[h] PROVE o = h
    BY <2>1, HolderFacts DEF Newborn
  <2> QED
    BY <1>1, <2>1 DEF AllAlike, AlikeIn
<1>3. ASSUME NEW e \in Nat, e \in T PROVE e + 1 \in T
  <2>1. ASSUME e + 1 <= n PROVE AllAlike(p, L[e + 1], e + 1)
    <3>1. e + 1 \in 1 .. n /\ e + 1 - 1 = e /\ AllAlike(p, L[e], e)
      BY <1>1, <1>3, <2>1
    <3>2. PICK f : f = e + 1
      OBVIOUS
    <3>3. L[f] = Later(L[e], p[f], f)
      BY <1>1, <3>1, <3>2
    <3>4. AllAlike(p, Later(L[e], p[e + 1], e + 1), e + 1)
      BY <1>1, <3>1, AlikeLater
    <3> QED
      BY <3>2, <3>3, <3>4
  <2> QED
    BY <2>1
<1> HIDE DEF T
<1>4. Nat \subseteq T
  BY <1>2, <1>3, SetInduction
<1>5. \A e \in 0 .. n : AllAlike(p, L[e], e)
  BY <1>1, <1>4 DEF T
<1> QED
  BY <1>5 DEF L, n
-----------------------------------------------------------------------------
(* Which operations stored the values v.                                   *)
By(v)  == [j \in DOMAIN v |-> v[j].by]
Bys(v) == Range(By(v))

LEMMA BysMeans ==
  ASSUME NEW v
  PROVE  /\ \A b : b \in Bys(v) <=> \E j \in DOMAIN v : b = v[j].by
         /\ IsInjective(By(v)) <=> \A i, j \in DOMAIN v : v[i].by = v[j].by => i = j
BY DEF Bys, By, Range, IsInjective

LEMMA BysOfFew ==
  /\ Bys(<<>>) = {} /\ IsInjective(By(<<>>)) /\ Len(<<>>) = 0
  /\ \A x \in Content : /\ Bys(<<x>>) = {x.by} /\ IsInjective(By(<<x>>))
                        /\ Len(<<x>>) = 1 /\ <<x>>[1] = x /\ <<x>> \in Vals
<1>1. DOMAIN <<>> = {}
  OBVIOUS
<1>2. Bys(<<>>) = {} /\ IsInjective(By(<<>>))
  BY <1>1, BysMeans
<1>3. ASSUME NEW x \in Content
      PROVE  /\ Bys(<<x>>) = {x.by} /\ IsInjective(By(<<x>>))
             /\ Len(<<x>>) = 1 /\ <<x>>[1] = x /\ <<x>> \in Vals
  <2>1. DOMAIN <<x>> = {1} /\ <<x>>[1] = x /\ Len(<<x>>) = 1
    OBVIOUS
  <2>2. \A i \in DOMAIN <<x>> : i = 1
    BY <2>1
  <2>3. Bys(<<x>>) = {x.by}
    <3>1. \A b : b \in Bys(<<x>>) <=> b = x.by
      BY <2>1, BysMeans
    <3> QED
      BY <3>1
  <2>4. IsInjective(By(<<x>>))
    BY <2>2, BysMeans
  <2>5. <<x>> \in Vals
    BY DEF Vals, Content
  <2> QED
    BY <2>1, <2>3, <2>4, <2>5
<1> QED
  BY <1>2, <1>3

LEMMA BysVisited ==
  ASSUME NEW v \in Vals
  PROVE  Bys(VisitIfExists(v)) = Bys(v) /\ By(VisitIfExists(v)) = By(v)
<1>1. /\ DOMAIN VisitIfExists(v) = DOMAIN v
      /\ \A j \in DOMAIN v : VisitIfExists(v)[j].by = v[j].by
  BY VisitsType
<1>2. By(VisitIfExists(v)) = By(v)
  BY <1>1 DEF By
<1> QED
  BY <1>2 DEF Bys

LEMMA BysAppend ==
  ASSUME NEW v \in Vals, NEW x \in Content, x.by \notin Bys(v), IsInjective(By(v))
  PROVE  Bys(Append(v, x)) = Bys(v) \cup {x.by} /\ IsInjective(By(Append(v, x)))
<1>1. v \in Seq(Content) /\ Len(v) \in Nat /\ DOMAIN v = 1 .. Len(v)
  BY LenProperties DEF Vals, Content
<1>2. PICK w : w = Append(v, x)
  OBVIOUS
<1>3. /\ DOMAIN w = 1 .. Len(v) + 1 /\ w[Len(v) + 1] = x
      /\ \A j \in 1 .. Len(v) : w[j] = v[j]
  BY <1>1, <1>2, AppendProperties
<1>4. \A b : b \in Bys(w) <=> b \in Bys(v) \/ b = x.by
  <2>1. \A b : b \in Bys(w) <=> \E j \in 1 .. Len(v) + 1 : b = w[j].by
    BY <1>3, BysMeans
  <2>2. \A b : b \in Bys(v) <=> \E j \in 1 .. Len(v) : b = v[j].by
    BY <1>1, BysMeans
  <2>3. \A j : j \in 1 .. Len(v) + 1 <=> j \in 1 .. Len(v) \/ j = Len(v) + 1
    BY <1>1
  <2> QED
    BY <1>3, <2>1, <2>2, <2>3
<1>5. ASSUME NEW i \in DOMAIN w, NEW j \in DOMAIN w, w[i].by = w[j].by PROVE i = j
  <2>1. \A k \in 1 .. Len(v) : w[k].by \in Bys(v) /\ w[k].by # x.by
    BY <1>1, <1>3, BysMeans
  <2>2. (i \in 1 .. Len(v) \/ i = Len(v) + 1) /\ (j \in 1 .. Len(v) \/ j = Len(v) + 1)
    BY <1>1, <1>3
  <2>3. i \in 1 .. Len(v) /\ j \in 1 .. Len(v) => v[i].by = v[j].by
    BY <1>3, <1>5
  <2> QED
    BY <1>1, <1>3, <1>5, <2>1, <2>2, <2>3, BysMeans
<1>6. IsInjective(By(w))
  BY <1>5, BysMeans
<1> QED
  BY <1>2, <1>4, <1>6
-----------------------------------------------------------------------------
(* What Amounts says, of the operations of each kind: q insert once, m insert
   always, x and w visit, z erase.                                         *)
Visited(x) == IF x = {} THEN <<>> ELSE <<[by |-> 0, visits |-> Cardinality(x)]>>

Fits(q, m, x, w, z, v) ==
  /\ Bys(v) \ {0} \subseteq q \cup m
  /\ IsInjective(By(v))
  /\ m = {} => Len(v) <= 1
  /\ x = {} => 0 \notin Bys(v)
  /\ z = {} => /\ m \subseteq Bys(v) \ {0}
               /\ q # {} => Len(v) = 1 /\ v[1].by \in q
               /\ q \cup m \cup w = {} => v = Visited(x)

Once == {"insert_unique", "set_insert_unique"}

LEMMA AmountsFit ==
  ASSUME NEW os, NEW U, NEW v
  PROVE  Amounts(os, U, v) <=> Fits(Did(os, U, Once), Did(os, U, {"insert_multi"}),
                                    Did(os, U, {"visit"}), Did(os, U, {"visit_if_exists"}),
                                    Did(os, U, {"erase"}), v)
BY DEF Amounts, Fits, Bys, By, Once, Visited

LEMMA ValueIs ==
  ASSUME NEW n \in Nat
  PROVE  Value(n) \in Content /\ Value(n).by = n /\ Value(n).visits = 0
BY DEF Value, Content

LEMMA ShortValues ==
  ASSUME NEW v \in Vals, Len(v) <= 1
  PROVE  v = <<>> \/ (Len(v) = 1 /\ v = <<v[1]>> /\ v[1] \in Content)
<1>1. v \in Seq(Content) /\ Len(v) \in Nat
  BY LenProperties DEF Vals, Content
<1>2. CASE Len(v) = 1
  <2>1. v[1] \in Content
    BY <1>1, <1>2
  <2>2. PICK u : u = <<v[1]>>
    OBVIOUS
  <2>3. u \in Seq(Content) /\ Len(u) = Len(v) /\ \A j \in 1 .. Len(v) : u[j] = v[j]
    BY <1>2, <2>1, <2>2
  <2>4. u = v
    BY <1>1, <2>3, SeqEqual
  <2>5. v = <<v[1]>>
    BY <2>2, <2>4, Zenon
  <2> QED
    BY <1>2, <2>1, <2>5, Zenon
<1>3. CASE Len(v) # 1
  <2>1. v # <<>> => Len(v) \in Nat \ {0}
    BY <1>1, EmptySeq
  <2> QED
    BY <1>3, <2>1
<1> QED
  BY <1>2, <1>3

(* One operation more, of each kind.                                       *)
LEMMA FitUnique ==
  ASSUME NEW q, NEW x, NEW w, NEW z, NEW v \in Vals, Fits(q, {}, x, w, z, v), NEW n \in Nat, n # 0
  PROVE  Fits(q \cup {n}, {}, x, w, z, InsertUnique(v, n))
<1>1. InsertUnique(v, n) = <<Value(n)>>
  <2>1. Len(v) <= 1
    BY DEF Fits
  <2>2. CASE v = <<>>
    BY <2>2 DEF InsertUnique
  <2>3. CASE v # <<>>
    <3>1. Len(v) = 1 /\ v = <<v[1]>>
      BY <2>1, <2>3, ShortValues
    <3>2. InsertUnique(v, n) = [v EXCEPT ![1] = Value(n)]
      BY <2>3 DEF InsertUnique
    <3>3. [v EXCEPT ![1] = Value(n)] = <<Value(n)>>
      BY <3>1
    <3> QED
      BY <3>2, <3>3
  <2> QED
    BY <2>2, <2>3
<1>2. /\ Bys(<<Value(n)>>) = {n} /\ IsInjective(By(<<Value(n)>>)) /\ Len(<<Value(n)>>) = 1
      /\ <<Value(n)>>[1].by = n
  BY BysOfFew, ValueIs
<1> QED
  BY <1>1, <1>2 DEF Fits

LEMMA FitSet ==
  ASSUME NEW q, NEW w, NEW z, NEW v \in Vals, Fits(q, {}, {}, w, z, v), NEW n \in Nat, n # 0
  PROVE  Fits(q \cup {n}, {}, {}, w, z, SetInsertUnique(v, n))
<1>1. Len(v) <= 1 /\ 0 \notin Bys(v) /\ Bys(v) \ {0} \subseteq q /\ IsInjective(By(v))
  BY DEF Fits
<1>2. CASE v = <<>>
  <2>1. SetInsertUnique(v, n) = <<Value(n)>>
    BY <1>2 DEF SetInsertUnique
  <2>2. /\ Bys(<<Value(n)>>) = {n} /\ IsInjective(By(<<Value(n)>>)) /\ Len(<<Value(n)>>) = 1
        /\ <<Value(n)>>[1].by = n
    BY BysOfFew, ValueIs
  <2> QED
    BY <2>1, <2>2 DEF Fits
<1>3. CASE v # <<>>
  <2>1. SetInsertUnique(v, n) = v
    BY <1>3 DEF SetInsertUnique
  <2>2. Len(v) = 1 /\ v = <<v[1]>> /\ v[1] \in Content
    BY <1>1, <1>3, ShortValues
  <2>3. v[1].by \in Bys(v)
    BY <2>2, BysOfFew
  <2>4. v[1].by \in q
    BY <1>1, <2>3
  <2> QED
    BY <1>1, <2>1, <2>2, <2>4 DEF Fits
<1> QED
  BY <1>2, <1>3

LEMMA FitMulti ==
  ASSUME NEW m, NEW x, NEW w, NEW z, NEW v \in Vals, Fits({}, m, x, w, z, v), NEW n \in Nat, n # 0, n \notin m
  PROVE  Fits({}, m \cup {n}, x, w, z, InsertMulti(v, n))
<1>1. /\ Bys(v) \ {0} \subseteq m /\ IsInjective(By(v)) /\ (x = {} => 0 \notin Bys(v))
      /\ z = {} => m \subseteq Bys(v) \ {0}
  BY DEF Fits
<1>2. n \notin Bys(v) /\ Value(n) \in Content /\ Value(n).by = n
  BY <1>1, ValueIs
<1>3. Bys(InsertMulti(v, n)) = Bys(v) \cup {n} /\ IsInjective(By(InsertMulti(v, n)))
  BY <1>1, <1>2, BysAppend DEF InsertMulti
<1> QED
  BY <1>1, <1>3 DEF Fits

LEMMA FitIfExists ==
  ASSUME NEW q, NEW m, NEW x, NEW w, NEW z, NEW v \in Vals, Fits(q, m, x, w, z, v), NEW n
  PROVE  Fits(q, m, x, w \cup {n}, z, VisitIfExists(v))
<1>1. PICK t : t = VisitIfExists(v)
  OBVIOUS
<1>2. /\ Bys(t) = Bys(v) /\ By(t) = By(v) /\ Len(t) = Len(v) /\ DOMAIN t = DOMAIN v
      /\ \A j \in DOMAIN v : t[j].by = v[j].by
  BY <1>1, BysVisited, VisitsType
<1>3. Len(v) = 1 => 1 \in DOMAIN v
  BY LenProperties DEF Vals
<1>4. Fits(q, m, x, w \cup {n}, z, t)
  BY <1>2, <1>3 DEF Fits
<1> QED
  BY <1>1, <1>4

LEMMA FitErase ==
  ASSUME NEW q, NEW m, NEW x, NEW w, NEW z, NEW n
  PROVE  Fits(q, m, x, w, z \cup {n}, <<>>)
BY BysOfFew DEF Fits

LEMMA VisitOne ==
  ASSUME NEW b \in Nat, NEW i \in Nat
  PROVE  VisitIfExists(<<[by |-> b, visits |-> i]>>) = <<[by |-> b, visits |-> i + 1]>>
<1>1. PICK c, d, v, t, u : /\ c = [by |-> b, visits |-> i] /\ d = [by |-> b, visits |-> i + 1]
                           /\ v = <<c>> /\ t = VisitIfExists(v) /\ u = <<d>>
  OBVIOUS
<1>2. c \in Content /\ d \in Content /\ c.by = b /\ c.visits = i
  BY <1>1 DEF Content
<1>3. v \in Vals /\ u \in Vals /\ Len(v) = 1 /\ Len(u) = 1 /\ v[1] = c /\ u[1] = d /\ DOMAIN v = {1}
  BY <1>1, <1>2, BysOfFew
<1>4. t \in Vals /\ Len(t) = 1 /\ t[1].by = b /\ t[1].visits = i + 1
  BY <1>1, <1>2, <1>3, VisitsType
<1>5. t[1] = d
  <2>1. t[1] \in Content
    <3>1. t \in Seq(Content)
      BY <1>4 DEF Vals, Content
    <3>2. 1 \in 1 .. Len(t)
      BY <1>4
    <3> QED
      BY <3>1, <3>2, ElementOfSeq
  <2> QED
    BY <1>1, <1>4, <2>1 DEF Content
<1>6. t = u
  <2>1. t \in Seq(Content) /\ u \in Seq(Content) /\ Len(t) = Len(u)
    BY <1>3, <1>4 DEF Vals, Content
  <2>2. \A j \in 1 .. Len(t) : t[j] = u[j]
    BY <1>3, <1>4, <1>5
  <2> QED
    BY <2>1, <2>2, SeqEqual
<1> QED
  BY <1>1, <1>6, Zenon

LEMMA VisitedMore ==
  ASSUME NEW x, IsFiniteSet(x), NEW n, n \notin x
  PROVE  /\ Visited(x) = <<>> <=> x = {}
         /\ Visit(Visited(x)) = Visited(x \cup {n})
<1>1. PICK y, i, j : y = x \cup {n} /\ i = Cardinality(x) /\ j = Cardinality(y)
  OBVIOUS
<1>2. y # {} /\ i \in Nat /\ j = i + 1 /\ (x = {} => i = 0)
  BY <1>1, FS_AddElement, FS_CardinalityType, FS_EmptySet
<1>3. Visited(y) = <<[by |-> 0, visits |-> i + 1]>>
  BY <1>1, <1>2 DEF Visited
<1>4. CASE x = {}
  <2>1. Visited(x) = <<>> /\ i = 0
    BY <1>2, <1>4 DEF Visited
  <2>2. Visit(<<>>) = VisitIfExists(<<[by |-> 0, visits |-> 0]>>)
    BY DEF Visit, Value
  <2>3. VisitIfExists(<<[by |-> 0, visits |-> 0]>>) = <<[by |-> 0, visits |-> 0 + 1]>>
    BY VisitOne
  <2> QED
    BY <1>1, <1>3, <1>4, <2>1, <2>2, <2>3, Zenon
<1>5. CASE x # {}
  <2>1. Visited(x) = <<[by |-> 0, visits |-> i]>>
    BY <1>1, <1>5 DEF Visited
  <2>2. Visited(x) # <<>>
    BY <2>1
  <2>3. Visit(Visited(x)) = VisitIfExists(Visited(x))
    BY <2>2 DEF Visit
  <2>4. VisitIfExists(<<[by |-> 0, visits |-> i]>>) = <<[by |-> 0, visits |-> i + 1]>>
    BY <1>2, VisitOne
  <2> QED
    BY <1>1, <1>3, <1>5, <2>1, <2>2, <2>3, <2>4, Zenon
<1> QED
  BY <1>4, <1>5

LEMMA FitVisit ==
  ASSUME NEW q, NEW m, NEW x, NEW w, NEW z, NEW v \in Vals, Fits(q, m, x, w, z, v),
         IsFiniteSet(x), NEW n, n \notin x
  PROVE  Fits(q, m, x \cup {n}, w, z, Visit(v))
<1>1. PICK t, y : t = Visit(v) /\ y = x \cup {n}
  OBVIOUS
<1>2. y # {} /\ (Visited(x) = <<>> <=> x = {})
  BY <1>1, VisitedMore
<1>3. v = Visited(x) => t = Visited(y)
  BY <1>1, VisitedMore
<1>4. CASE v = <<>>
  <2>1. /\ Bys(v) = {} /\ Len(v) = 0 /\ Value(0) \in Content /\ Value(0).by = 0
    BY <1>4, BysOfFew, ValueIs
  <2>2. PICK u : u = <<Value(0)>>
    OBVIOUS
  <2>3. u \in Vals /\ Len(u) = 1 /\ Bys(u) = {0} /\ IsInjective(By(u)) /\ t = VisitIfExists(u)
    BY <1>1, <1>4, <2>1, <2>2, BysOfFew DEF Visit
  <2>4. Len(t) = 1 /\ Bys(t) = {0} /\ IsInjective(By(t))
    BY <2>3, BysVisited, VisitsType
  <2>5. z = {} => m = {} /\ q = {}
    BY <2>1 DEF Fits
  <2>6. Fits(q, m, y, w, z, t)
    BY <1>2, <1>3, <2>1, <2>4, <2>5 DEF Fits
  <2> QED
    BY <1>1, <2>6
<1>5. CASE v # <<>>
  <2>1. t = VisitIfExists(v)
    BY <1>1, <1>5 DEF Visit
  <2>2. /\ Bys(t) = Bys(v) /\ By(t) = By(v) /\ Len(t) = Len(v) /\ DOMAIN t = DOMAIN v
        /\ \A j \in DOMAIN v : t[j].by = v[j].by
    BY <2>1, BysVisited, VisitsType
  <2>3. Len(v) = 1 => 1 \in DOMAIN v
    BY LenProperties DEF Vals
  <2>4. Fits(q, m, y, w, z, t)
    BY <1>2, <1>3, <2>2, <2>3 DEF Fits
  <2> QED
    BY <1>1, <2>4
<1> QED
  BY <1>4, <1>5

(* One operation more on an object of some class.                          *)
LEMMA AmountsKept ==
  ASSUME NEW os, NEW ot, NEW U, NEW v, Amounts(os, U, v), \A i \in U : ot[i] = os[i]
  PROVE  Amounts(ot, U, v)
<1>1. \A kinds : Did(ot, U, kinds) = Did(os, U, kinds)
  BY DEF Did
<1> QED
  BY <1>1, AmountsFit

LEMMA AmountsOfNone ==
  ASSUME NEW os
  PROVE  Amounts(os, {}, <<>>)
<1>1. \A kinds : Did(os, {}, kinds) = {}
  BY DEF Did
<1>2. Fits({}, {}, {}, {}, {}, <<>>)
  BY BysOfFew DEF Fits, Visited
<1> QED
  BY <1>1, <1>2, AmountsFit

OfClass(os, U, o) == \A i \in U : os[i].kind \in Ops[o]

LEMMA OneClass ==
  ASSUME NEW os, NEW U, NEW o \in Object, OfClass(os, U, o)
  PROVE  /\ \A i \in U : os[i].kind \in OpKind
         /\ (\E i \in U : os[i].kind = "insert_unique") => Did(os, U, {"insert_multi"}) = {}
         /\ (\E i \in U : os[i].kind = "insert_multi") => Did(os, U, Once) = {}
         /\ (\E i \in U : os[i].kind = "set_insert_unique") =>
              Did(os, U, {"insert_multi"}) = {} /\ Did(os, U, {"visit"}) = {}
<1>1. PICK C \in Class : Ops[o] \subseteq C
  BY ClassAssumption
<1>2. \A i \in U : os[i].kind \in C
  BY <1>1 DEF OfClass
<1>3. /\ C \subseteq OpKind
      /\ "insert_unique" \in C => "insert_multi" \notin C
      /\ "insert_multi" \in C => "insert_unique" \notin C /\ "set_insert_unique" \notin C
      /\ "set_insert_unique" \in C => "insert_multi" \notin C /\ "visit" \notin C
  BY <1>1 DEF Class, OpKind
<1> QED
  BY <1>2, <1>3 DEF Did, Once

LEMMA AmountsStep ==
  ASSUME NEW os, NEW ot, NEW U, IsFiniteSet(U), NEW v \in Vals, Amounts(os, U, v),
         NEW n \in Nat, n # 0, n \notin U, \A i \in U : ot[i] = os[i],
         NEW o \in Object, OfClass(ot, U \cup {n}, o)
  PROVE  Amounts(ot, U \cup {n}, NewValues(ot[n], n, v))
<1>1. PICK W, kind, q, m, x, w, z :
        /\ W = U \cup {n} /\ kind = ot[n].kind
        /\ q = Did(os, U, Once) /\ m = Did(os, U, {"insert_multi"})
        /\ x = Did(os, U, {"visit"}) /\ w = Did(os, U, {"visit_if_exists"})
        /\ z = Did(os, U, {"erase"})
  OBVIOUS
<1>2. Fits(q, m, x, w, z, v)
  BY <1>1, AmountsFit
<1>3. /\ Did(ot, W, Once) = IF kind \in Once THEN q \cup {n} ELSE q
      /\ Did(ot, W, {"insert_multi"}) = IF kind = "insert_multi" THEN m \cup {n} ELSE m
      /\ Did(ot, W, {"visit"}) = IF kind = "visit" THEN x \cup {n} ELSE x
      /\ Did(ot, W, {"visit_if_exists"}) = IF kind = "visit_if_exists" THEN w \cup {n} ELSE w
      /\ Did(ot, W, {"erase"}) = IF kind = "erase" THEN z \cup {n} ELSE z
  <2>1. \A kinds : kind \in kinds => Did(ot, W, kinds) = Did(os, U, kinds) \cup {n}
    BY <1>1 DEF Did
  <2>2. \A kinds : kind \notin kinds => Did(ot, W, kinds) = Did(os, U, kinds)
    BY <1>1 DEF Did
  <2>3. \A k : kind \in {k} <=> kind = k
    OBVIOUS
  <2> QED
    BY <1>1, <2>1, <2>2, <2>3
<1>4. /\ kind \in OpKind
      /\ kind = "insert_unique" => m = {}
      /\ kind = "insert_multi" => q = {}
      /\ kind = "set_insert_unique" => m = {} /\ x = {}
  <2>1. n \in W /\ OfClass(ot, W, o)
    BY <1>1
  <2>2. /\ kind \in OpKind
        /\ kind = "insert_unique" => Did(ot, W, {"insert_multi"}) = {}
        /\ kind = "insert_multi" => Did(ot, W, Once) = {}
        /\ kind = "set_insert_unique" => Did(ot, W, {"insert_multi"}) = {} /\ Did(ot, W, {"visit"}) = {}
    BY <1>1, <2>1, OneClass
  <2> QED
    BY <1>3, <2>2 DEF Once
<1>5. n \notin m /\ n \notin x /\ IsFiniteSet(x)
  <2>1. m \subseteq U /\ x \subseteq U
    BY <1>1 DEF Did
  <2> QED
    BY <2>1, FS_Subset
<1>6. PICK u : u = NewValues(ot[n], n, v)
  OBVIOUS
<1>7. CASE kind = "insert_unique"
  <2>1. u = InsertUnique(v, n) /\ Fits(q, {}, x, w, z, v) /\ m = {}
    BY <1>1, <1>2, <1>4, <1>6, <1>7 DEF NewValues
  <2>2. Fits(q \cup {n}, m, x, w, z, u)
    BY <2>1, FitUnique
  <2>3. kind \in Once
    BY <1>7 DEF Once
  <2> QED
    BY <1>1, <1>3, <1>6, <1>7, <2>2, <2>3, AmountsFit
<1>8. CASE kind = "insert_multi"
  <2>1. u = InsertMulti(v, n) /\ Fits({}, m, x, w, z, v) /\ q = {}
    BY <1>1, <1>2, <1>4, <1>6, <1>8 DEF NewValues
  <2>2. Fits(q, m \cup {n}, x, w, z, u)
    BY <1>5, <2>1, FitMulti
  <2>3. kind \notin Once
    BY <1>8 DEF Once
  <2> QED
    BY <1>1, <1>3, <1>6, <1>8, <2>2, <2>3, AmountsFit
<1>9. CASE kind = "set_insert_unique"
  <2>1. u = SetInsertUnique(v, n) /\ Fits(q, {}, {}, w, z, v) /\ m = {} /\ x = {}
    BY <1>1, <1>2, <1>4, <1>6, <1>9 DEF NewValues
  <2>2. Fits(q \cup {n}, m, x, w, z, u)
    BY <2>1, FitSet
  <2>3. kind \in Once
    BY <1>9 DEF Once
  <2> QED
    BY <1>1, <1>3, <1>6, <1>9, <2>2, <2>3, AmountsFit
<1>10. CASE kind = "visit"
  <2>1. u = Visit(v)
    BY <1>1, <1>6, <1>10 DEF NewValues
  <2>2. Fits(q, m, x \cup {n}, w, z, u)
    BY <1>2, <1>5, <2>1, FitVisit
  <2>3. kind \notin Once
    BY <1>10 DEF Once
  <2> QED
    BY <1>1, <1>3, <1>6, <1>10, <2>2, <2>3, AmountsFit
<1>11. CASE kind = "visit_if_exists"
  <2>1. u = VisitIfExists(v)
    BY <1>1, <1>6, <1>11 DEF NewValues
  <2>2. Fits(q, m, x, w \cup {n}, z, u)
    BY <1>2, <2>1, FitIfExists
  <2>3. kind \notin Once
    BY <1>11 DEF Once
  <2> QED
    BY <1>1, <1>3, <1>6, <1>11, <2>2, <2>3, AmountsFit
<1>12. CASE kind = "erase"
  <2>1. u = <<>>
    BY <1>1, <1>6, <1>12 DEF NewValues
  <2>2. Fits(q, m, x, w, z \cup {n}, u)
    BY <2>1, FitErase
  <2>3. kind \notin Once
    BY <1>12 DEF Once
  <2> QED
    BY <1>1, <1>3, <1>6, <1>12, <2>2, <2>3, AmountsFit
<1> QED
  BY <1>4, <1>7, <1>8, <1>9, <1>10, <1>11, <1>12 DEF OpKind
-----------------------------------------------------------------------------
(* What the owners hold, C[k][h], of the operations A, with the origins that
   belong there, K[k][h].                                                  *)
AllFit(os, A, K, C) ==
  \A k \in Key : \A h \in Holder : Amounts(os, DoneIn(os, A, K[k], h, k), C[k][h])

LEMMA DoneKept ==
  ASSUME NEW os, NEW ot, NEW A, NEW L, NEW h, NEW k, \A i \in A : ot[i] = os[i]
  PROVE  DoneIn(ot, A, L, h, k) = DoneIn(os, A, L, h, k) /\ DoneIn(os, A, L, h, k) \subseteq A
BY DEF DoneIn, Origin

LEMMA KeepFit ==
  ASSUME NEW os, NEW ot, NEW A, NEW K, NEW C, AllFit(os, A, K, C), \A i \in A : ot[i] = os[i]
  PROVE  AllFit(ot, A, K, C)
<1>1. ASSUME NEW k \in Key, NEW h \in Holder PROVE Amounts(ot, DoneIn(ot, A, K[k], h, k), C[k][h])
  <2>1. PICK L, U, v : L = K[k] /\ U = DoneIn(os, A, L, h, k) /\ v = C[k][h]
    OBVIOUS
  <2>2. DoneIn(ot, A, L, h, k) = U /\ U \subseteq A
    BY <2>1, DoneKept
  <2>3. Amounts(os, U, v)
    BY <2>1 DEF AllFit
  <2>4. Amounts(ot, U, v)
    BY <2>2, <2>3, AmountsKept
  <2> QED
    BY <2>1, <2>2, <2>4
<1> QED
  BY <1>1 DEF AllFit

(* An operation n reaches key q of object o.                               *)
LEMMA TouchFit ==
  ASSUME NEW os, NEW ot, NEW A, IsFiniteSet(A), NEW K, NEW C, NEW D, AllFit(os, A, K, C),
         \A i \in A : ot[i] = os[i],
         NEW n \in Nat, n # 0, n \notin A, NEW q \in Key, NEW o \in Object,
         ot[n].key = q, \A h \in Holder : Origin(ot[n]) \in K[q][h] <=> h = o,
         OfClass(ot, DoneIn(ot, A \cup {n}, K[q], o, q), o),
         C[q][o] \in Vals, D[q][o] = NewValues(ot[n], n, C[q][o]),
         \A k \in Key : \A h \in Holder : k # q \/ h # o => D[k][h] = C[k][h]
  PROVE  AllFit(ot, A \cup {n}, K, D)
<1>1. ASSUME NEW k \in Key, NEW h \in Holder
      PROVE  Amounts(ot, DoneIn(ot, A \cup {n}, K[k], h, k), D[k][h])
  <2>1. PICK L, U, v : L = K[k] /\ U = DoneIn(os, A, L, h, k) /\ v = C[k][h]
    OBVIOUS
  <2>2. DoneIn(ot, A, L, h, k) = U /\ U \subseteq A
    BY <2>1, DoneKept
  <2>3. Amounts(os, U, v)
    BY <2>1 DEF AllFit
  <2>4. CASE k = q /\ h = o
    <3>1. DoneIn(ot, A \cup {n}, L, h, k) = U \cup {n}
      <4>1. Origin(ot[n]) \in L[h] /\ ot[n].key = k
        BY <2>1, <2>4
      <4> QED
        BY <2>2, <4>1 DEF DoneIn
    <3>2. IsFiniteSet(U) /\ n \notin U /\ \A i \in U : ot[i] = os[i]
      BY <2>2, FS_Subset
    <3>3. OfClass(ot, U \cup {n}, o) /\ v \in Vals
      BY <2>1, <2>4, <3>1
    <3>4. Amounts(ot, U \cup {n}, NewValues(ot[n], n, v))
      BY <2>3, <3>2, <3>3, AmountsStep
    <3> QED
      BY <2>1, <2>4, <3>1, <3>4
  <2>5. CASE ~(k = q /\ h = o)
    <3>1. DoneIn(ot, A \cup {n}, L, h, k) = U
      <4>1. ~(Origin(ot[n]) \in L[h] /\ ot[n].key = k)
        BY <2>1, <2>5
      <4> QED
        BY <2>2, <4>1 DEF DoneIn
    <3>2. Amounts(ot, U, v)
      BY <2>2, <2>3, AmountsKept
    <3>3. D[k][h] = v
      BY <2>1, <2>5
    <3> QED
      BY <2>1, <3>1, <3>2, <3>3
  <2> QED
    BY <2>4, <2>5
<1> QED
  BY <1>1 DEF AllFit

(* A rank ends epoch f - 1 with the operation c.                           *)
Moved(K, M, C, D, r, c, f) ==
  \A k \in Key :
    IF Owner[k] = r
    THEN /\ M[k] = Later(K[k], c, f)
         /\ \A h \in Holder : D[k][h] = IF From(c, h) = Nowhere THEN <<>> ELSE C[k][From(c, h)]
    ELSE M[k] = K[k] /\ \A h \in Holder : D[k][h] = C[k][h]

LEMMA MoveFit ==
  ASSUME NEW os, NEW A, NEW K, NEW M, NEW C, NEW D, AllFit(os, A, K, C),
         NEW r, NEW c \in CollOp, NEW f, Moved(K, M, C, D, r, c, f),
         \A i \in A : Owner[os[i].key] = r => os[i].epoch # f
  PROVE  AllFit(os, A, M, D)
<1>1. ASSUME NEW k \in Key, NEW h \in Holder PROVE Amounts(os, DoneIn(os, A, M[k], h, k), D[k][h])
  <2>1. CASE Owner[k] # r
    <3>1. M[k] = K[k] /\ D[k][h] = C[k][h]
      BY <2>1 DEF Moved
    <3> QED
      BY <3>1 DEF AllFit
  <2>2. CASE Owner[k] = r
    <3>1. PICK L, N, g : L = K[k] /\ N = M[k] /\ g = From(c, h)
      OBVIOUS
    <3>2. N[h] = {<<h, f>>} \cup IF g = Nowhere THEN {} ELSE L[g]
      BY <2>2, <3>1 DEF Moved, Later
    <3>3. D[k][h] = IF g = Nowhere THEN <<>> ELSE C[k][g]
      BY <2>2, <3>1 DEF Moved
    <3>4. \A i \in A : os[i].key = k => Origin(os[i]) # <<h, f>>
      BY <2>2 DEF Origin
    <3>5. CASE g = Nowhere
      <4>1. DoneIn(os, A, N, h, k) = {}
        BY <3>2, <3>4, <3>5 DEF DoneIn
      <4> QED
        BY <3>1, <3>3, <3>5, <4>1, AmountsOfNone
    <3>6. CASE g # Nowhere
      <4>1. DoneIn(os, A, N, h, k) = DoneIn(os, A, L, g, k)
        BY <3>2, <3>4, <3>6 DEF DoneIn
      <4>2. g \in Holder
        BY <3>1, <3>6, FromType
      <4>3. Amounts(os, DoneIn(os, A, L, g, k), C[k][g])
        BY <3>1, <4>2 DEF AllFit
      <4> QED
        BY <3>1, <3>3, <3>6, <4>1, <4>3
    <3> QED
      BY <3>5, <3>6
  <2> QED
    BY <2>1, <2>2
<1> QED
  BY <1>1 DEF AllFit
-----------------------------------------------------------------------------
(* The invariant, in these terms, and what EpochContent says of the owners. *)
LinesNow    == [k \in Key |-> Lineage[epoch[Owner[k]]]]
ContentsNow == [k \in Key |-> [h \in Holder |-> Contents(Owner[k], h, k)]]

UserInv    == \A i \in UserOps : ops[i].kind \in Ops[ops[i].obj] /\ ops[i].epoch <= Len(closed)
AppliedInv == \A i \in Applied : ops[i].epoch <= epoch[Owner[ops[i].key]]
CarriedInv == \A m \in Pending : m.id \in UserOps => ops[m.id].epoch = m.epoch
FitNow     == AllFit(ops, Applied, LinesNow, ContentsNow)
EndFits(st, os, U, L) ==
  \A k \in Key : \A o \in Object : Amounts(os, DoneIn(os, U, L, o, k), st[Owner[k]][o][k])
EndNow     == \A e \in DOMAIN closed : EndFits(closed[e], ops, UserOps, Lineage[e - 1])

LEMMA ContentInvMeans ==
  ContentInv <=> PlanInv /\ UserInv /\ AppliedInv /\ CarriedInv /\ FitNow
<1>1. FitNow <=> \A k \in Key : \A h \in Holder :
        Amounts(ops, DoneIn(ops, Applied, Lineage[epoch[Owner[k]]], h, k), Contents(Owner[k], h, k))
  BY DEF FitNow, AllFit, LinesNow, ContentsNow
<1> QED
  BY <1>1 DEF ContentInv, UserInv, AppliedInv, CarriedInv

LEMMA EpochContentMeans ==
  MapInv => (EpochContent <=> EndNow)
<1> SUFFICES ASSUME MapInv PROVE EpochContent <=> EndNow
  OBVIOUS
<1>1. ASSUME NEW e \in DOMAIN closed, NEW o \in Object, NEW k \in Key, NEW r \in Rank \ {Owner[k]}
      PROVE  closed[e][r][o][k] = <<>>
  BY DEF MapInv, StoreInv
<1> QED
  BY <1>1 DEF EpochContent, EndNow, EndFits

LEMMA PlanInvMeans == PlanInv <=> AlikePlan(plan)
BY DEF PlanInv, AlikePlan

LEMMA LineageMeans == Lineage = LineageOf(plan)
BY DEF Lineage, LineageOf

LEMMA OperationTypes ==
  ASSUME MapInv
  PROVE  /\ UserOps \subseteq DOMAIN ops /\ IsFiniteSet(UserOps) /\ UserOps \subseteq Nat \ {0}
         /\ Applied \subseteq UserOps /\ IsFiniteSet(Applied)
         /\ \A i \in UserOps : /\ ops[i] \in Op /\ ops[i].kind \in OpKind /\ ops[i].obj \in Object
                               /\ ops[i].key \in Key /\ ops[i].epoch \in Nat
<1>1. ops \in Seq(Op) /\ Len(ops) \in Nat /\ DOMAIN ops = 1 .. Len(ops)
  BY MapTypes
<1>2. UserOps \subseteq DOMAIN ops /\ Applied \subseteq UserOps
  BY DEF UserOps, Applied
<1>3. IsFiniteSet(UserOps) /\ IsFiniteSet(Applied)
  <2>1. IsFiniteSet(1 .. Len(ops))
    BY <1>1, FS_Interval
  <2> QED
    BY <1>1, <1>2, <2>1, FS_Subset
<1>4. ASSUME NEW i \in UserOps
      PROVE  /\ ops[i] \in Op /\ ops[i].kind \in OpKind /\ ops[i].obj \in Object
             /\ ops[i].key \in Key /\ ops[i].epoch \in Nat
  <2>1. ops[i] \in Op /\ ops[i].kind \notin {"fetch", "return"}
    BY <1>1, <1>2 DEF UserOps
  <2> QED
    BY <2>1 DEF Op
<1>5. UserOps \subseteq Nat \ {0}
  BY <1>1, <1>2
<1> QED
  BY <1>2, <1>3, <1>4, <1>5

LEMMA ContentTypes ==
  ASSUME MapInv
  PROVE  /\ plan \in Seq(CollOp) /\ Len(plan) \in Nat /\ DOMAIN plan = 1 .. Len(plan)
         /\ \A r \in Rank : epoch[r] \in 0 .. Len(plan)
         /\ Len(closed) \in Nat /\ DOMAIN closed = 1 .. Len(closed) /\ Len(closed) <= Len(plan)
         /\ \A e \in DOMAIN closed : e - 1 \in 0 .. Len(plan)
         /\ \A k \in Key : \A h \in Holder : ContentsNow[k][h] \in Vals
<1>1. /\ plan \in Seq(CollOp) /\ Len(plan) \in Nat /\ DOMAIN plan = 1 .. Len(plan)
      /\ Len(closed) \in Nat /\ DOMAIN closed = 1 .. Len(closed)
      /\ \A r \in Rank : epoch[r] \in Nat /\ epoch[r] <= Len(plan)
  BY MapTypes
<1>2. Len(closed) <= Len(plan)
  <2>1. CASE closed = <<>>
    BY <1>1, <2>1
  <2>2. CASE closed # <<>>
    <3>1. PICK s \in Rank : epoch[s] = Len(closed)
      BY <2>2 DEF MapInv, StoreInv
    <3> QED
      BY <1>1, <3>1
  <2> QED
    BY <2>1, <2>2
<1>3. ASSUME NEW k \in Key, NEW h \in Holder PROVE ContentsNow[k][h] \in Vals
  <2>1. store \in Stores /\ file \in [Rank -> [Key -> Vals]] /\ Owner[k] \in Rank
    BY MapTypes, OwnerIsRank
  <2>2. Contents(Owner[k], h, k) \in Vals
    BY <2>1 DEF Contents, Holder, Stores
  <2> QED
    BY <2>2 DEF ContentsNow
<1>4. \A e \in DOMAIN closed : e - 1 \in 0 .. Len(plan)
  BY <1>1, <1>2
<1> QED
  BY <1>1, <1>2, <1>3, <1>4

(* What makes up an object was done to its class.                          *)
LEMMA DoneAlike ==
  ASSUME MapInv, PlanInv, UserInv, NEW k, NEW o \in Object, NEW e \in 0 .. Len(plan)
  PROVE  OfClass(ops, DoneIn(ops, UserOps, Lineage[e], o, k), o)
<1>1. PICK p, S : p = plan /\ S = Lineage[e][o]
  OBVIOUS
<1>2. p \in Seq(CollOp) /\ AlikePlan(p) /\ e \in 0 .. Len(p)
  BY <1>1, ContentTypes, PlanInvMeans
<1>3. AllAlike(p, LineageOf(p)[e], e)
  BY <1>2, LineageAlike
<1>4. AlikeIn(S, o)
  BY <1>1, <1>3, LineageMeans DEF AllAlike
<1>5. ASSUME NEW i \in UserOps, Origin(ops[i]) \in S PROVE ops[i].kind \in Ops[o]
  <2>1. ops[i].obj \in Object /\ ops[i].kind \in Ops[ops[i].obj]
    BY OperationTypes DEF UserInv
  <2>2. <<ops[i].obj, ops[i].epoch>> \in S
    BY <1>5 DEF Origin
  <2>3. Ops[ops[i].obj] = Ops[o]
    BY <1>4, <2>1, <2>2 DEF AlikeIn
  <2> QED
    BY <2>1, <2>3
<1> QED
  BY <1>1, <1>5 DEF OfClass, DoneIn

AlikeNow == \A e \in 0 .. Len(plan) : \A o \in Object : \A k \in Key :
              OfClass(ops, DoneIn(ops, UserOps, Lineage[e], o, k), o)

LEMMA AlikeAlways == MapInv /\ PlanInv /\ UserInv => AlikeNow
BY DoneAlike DEF AlikeNow

(* An operation runs at the owner of its key.                              *)
LEMMA ContentTouch ==
  ASSUME MapInv, MapInv', PlanInv, AppliedInv, FitNow, UserInv',
         UNCHANGED <<plan, epoch, closed, file>>,
         NEW n \in Nat, n # 0, n \notin Applied, Applied' = Applied \cup {n},
         \A i \in Applied : ops'[i] = ops[i],
         NEW op, ops'[n] = op, op \in Op, op.kind \in OpKind, op.epoch = epoch[Owner[op.key]],
         Apply(Owner[op.key], op, n)
  PROVE  AppliedInv' /\ FitNow'
<1>1. PICK q, o, r, e : q = op.key /\ o = op.obj /\ r = Owner[q] /\ e = epoch[r]
  OBVIOUS
<1>2. q \in Key /\ o \in Object /\ r \in Rank /\ o \in Holder /\ o # File
  BY <1>1, OwnerIsRank, HolderFacts DEF Op
<1>3. /\ store' \in Stores /\ \A s \in Rank : s # r => store'[s] = store[s]
      /\ \A p \in Object, k \in Key :
           store'[r][p][k] = IF p = o /\ k = q THEN NewValues(op, n, store[r][p][k]) ELSE store[r][p][k]
  <2>1. store \in Stores
    BY MapTypes
  <2> QED
    BY <1>1, <1>2, <2>1, ApplyLemma
<1>4. PICK C, D, K, L, os, ot, A : /\ C = ContentsNow /\ D = ContentsNow' /\ K = LinesNow /\ L = Lineage
                                   /\ os = ops /\ ot = ops' /\ A = Applied
  OBVIOUS
<1>5. \A k \in Key : \A h \in Holder : /\ C[k][h] = Contents(Owner[k], h, k)
                                       /\ D[k][h] = Contents(Owner[k], h, k)'
  BY <1>4 DEF ContentsNow
<1>6. ASSUME NEW k \in Key, NEW h \in Holder
      PROVE  D[k][h] = IF k = q /\ h = o THEN NewValues(op, n, C[k][h]) ELSE C[k][h]
  <2>1. CASE h = File
    BY <1>2, <1>5, <2>1 DEF Contents
  <2>2. CASE h # File
    <3>1. h \in Object /\ C[k][h] = store[Owner[k]][h][k] /\ D[k][h] = store'[Owner[k]][h][k]
      BY <1>5, <2>2 DEF Contents, Holder
    <3>2. Owner[k] \in Rank
      BY OwnerIsRank
    <3>3. k = q => Owner[k] = r
      BY <1>1
    <3>4. CASE Owner[k] = r
      BY <1>3, <3>1, <3>4
    <3>5. CASE Owner[k] # r
      BY <1>3, <3>1, <3>2, <3>3, <3>5
    <3> QED
      BY <3>4, <3>5
  <2> QED
    BY <2>1, <2>2
<1>7. /\ Lineage' = L /\ LinesNow' = K /\ K[q] = L[e]
      /\ e \in 0 .. Len(plan)
  BY <1>1, <1>2, <1>4, ContentTypes DEF LinesNow, Lineage
<1>8. Origin(op) = <<o, e>> /\ \A h \in Holder : <<o, e>> \in L[e][h] <=> h = o
  <2>1. Origin(op) = <<o, e>>
    BY <1>1 DEF Origin
  <2>2. PICK p : p = plan
    OBVIOUS
  <2>3. p \in Seq(CollOp) /\ e \in 0 .. Len(p) /\ L = LineageOf(p)
    BY <1>4, <1>7, <2>2, ContentTypes, LineageMeans
  <2>4. \A h \in Holder : <<o, e>> \in L[e][h] <=> h = o
    BY <1>2, <2>3, OwnOrigin
  <2> QED
    BY <2>1, <2>4
<1>9. OfClass(ot, DoneIn(ot, A \cup {n}, K[q], o, q), o)
  <2>1. PlanInv'
    BY DEF PlanInv
  <2>2. AlikeNow'
    BY <2>1, AlikeAlways, PTL
  <2>3. OfClass(ot, DoneIn(ot, UserOps', K[q], o, q), o)
    BY <1>2, <1>4, <1>7, <2>2 DEF AlikeNow
  <2>4. A \cup {n} \subseteq UserOps'
    BY <1>4 DEF Applied
  <2> QED
    BY <2>3, <2>4 DEF OfClass, DoneIn
<1>10. AllFit(ot, A \cup {n}, K, D)
  <2>1. IsFiniteSet(A) /\ AllFit(os, A, K, C) /\ \A i \in A : ot[i] = os[i]
    BY <1>4, OperationTypes DEF FitNow
  <2>2. C[q][o] \in Vals
    BY <1>2, <1>4, ContentTypes
  <2>3. ot[n] = op /\ n \notin A /\ ot[n].key = q
    BY <1>1, <1>4
  <2>4. \A h \in Holder : Origin(ot[n]) \in K[q][h] <=> h = o
    BY <1>7, <1>8, <2>3
  <2>5. D[q][o] = NewValues(ot[n], n, C[q][o])
    BY <1>2, <1>6, <2>3
  <2>6. \A k \in Key : \A h \in Holder : k # q \/ h # o => D[k][h] = C[k][h]
    BY <1>6
  <2> QED
    BY <1>2, <1>9, <2>1, <2>2, <2>3, <2>4, <2>5, <2>6, TouchFit
<1>11. FitNow'
  BY <1>4, <1>7, <1>10 DEF FitNow
<1>12. AppliedInv'
  <2>1. ASSUME NEW i \in Applied' PROVE ops'[i].epoch <= epoch[Owner[ops'[i].key]]
    <3>1. CASE i = n
      BY <1>1, <1>2, <1>7, <3>1
    <3>2. CASE i # n
      BY <2>1, <3>2 DEF AppliedInv
    <3> QED
      BY <3>1, <3>2
  <2> QED
    BY <2>1 DEF AppliedInv
<1> QED
  BY <1>11, <1>12
-----------------------------------------------------------------------------
(* An operation of the running epoch does not belong in what was held when
   an earlier one ended.                                                   *)
LEMMA EndMore ==
  ASSUME MapInv, EndNow, UNCHANGED <<plan, closed>>, NEW n,
         UserOps \subseteq UserOps', UserOps' \subseteq UserOps \cup {n},
         \A i \in UserOps : ops'[i] = ops[i], ops'[n].epoch = Len(closed)
  PROVE  EndNow'
<1>1. PICK p, L, os, ot, U, V : /\ p = plan /\ L = Lineage /\ os = ops /\ ot = ops'
                                /\ U = UserOps /\ V = UserOps'
  OBVIOUS
<1>2. /\ p \in Seq(CollOp) /\ L = LineageOf(p) /\ Lineage' = L
      /\ Len(closed) \in Nat /\ DOMAIN closed = 1 .. Len(closed)
      /\ \A e \in DOMAIN closed : e - 1 \in 0 .. Len(p)
  BY <1>1, ContentTypes, LineageMeans DEF Lineage
<1>3. ASSUME NEW e \in DOMAIN closed, NEW k \in Key, NEW o \in Object
      PROVE  Amounts(ot, DoneIn(ot, V, L[e - 1], o, k), closed[e][Owner[k]][o][k])
  <2>1. PICK M, W, v, d : /\ M = L[e - 1] /\ W = DoneIn(os, U, M, o, k) /\ v = closed[e][Owner[k]][o][k]
                          /\ d = e - 1
    OBVIOUS
  <2>2. M \in OriginsTo(Holder, d) /\ d \in Nat /\ d < Len(closed)
    <3>1. d \in 0 .. Len(p) /\ d < Len(closed) /\ d \in Nat
      BY <1>2, <2>1
    <3>2. LineageOf(p)[d] \in OriginsTo(Holder, d)
      BY <1>2, <3>1, LineageAged
    <3> QED
      BY <1>2, <2>1, <3>1, <3>2
  <2>3. Origin(ot[n]) \notin M[o]
    <3>1. M[o] \subseteq Holder \X (0 .. d)
      BY <2>2, HolderFacts DEF OriginsTo
    <3>2. Len(closed) \notin 0 .. d
      BY <1>2, <2>2
    <3>3. ot[n].epoch = Len(closed)
      BY <1>1
    <3> QED
      BY <3>1, <3>2, <3>3 DEF Origin
  <2>4. DoneIn(ot, V, M, o, k) = W
    BY <1>1, <2>1, <2>3 DEF DoneIn, Origin
  <2>5. Amounts(os, W, v)
    BY <1>1, <2>1 DEF EndNow, EndFits
  <2>6. Amounts(ot, W, v)
    <3>1. W \subseteq U /\ \A i \in W : ot[i] = os[i]
      BY <1>1, <2>1 DEF DoneIn
    <3> QED
      BY <2>5, <3>1, AmountsKept
  <2> QED
    BY <2>1, <2>4, <2>6
<1>4. \A e \in DOMAIN closed' : EndFits(closed'[e], ops', UserOps', Lineage'[e - 1])
  BY <1>1, <1>2, <1>3 DEF EndFits
<1> QED
  BY <1>4 DEF EndNow

(* Neither is anything else changed by operations that are not the user's. *)
LEMMA ContentSame ==
  ASSUME MapInv, PlanInv, UserInv, AppliedInv, CarriedInv, FitNow, EndNow,
         UNCHANGED <<plan, epoch, closed, store, file>>,
         UserOps' = UserOps, Applied' = Applied, \A i \in UserOps : ops'[i] = ops[i],
         \A m \in Pending' : m.id \in UserOps => m \in Pending
  PROVE  PlanInv' /\ UserInv' /\ AppliedInv' /\ CarriedInv' /\ FitNow' /\ EndNow'
<1>1. /\ Applied \subseteq UserOps /\ Lineage' = Lineage /\ LinesNow' = LinesNow
      /\ ContentsNow' = ContentsNow
  BY DEF Applied, Lineage, LinesNow, ContentsNow, Contents
<1>2. PlanInv'
  BY DEF PlanInv
<1>3. UserInv' /\ AppliedInv' /\ CarriedInv'
  BY <1>1 DEF UserInv, AppliedInv, CarriedInv
<1>4. FitNow'
  <2>1. PICK ot, A : ot = ops' /\ A = Applied
    OBVIOUS
  <2>2. \A i \in A : ot[i] = ops[i]
    BY <1>1, <2>1
  <2>3. AllFit(ot, A, LinesNow, ContentsNow)
    BY <2>1, <2>2, KeepFit DEF FitNow
  <2> QED
    BY <1>1, <2>1, <2>3 DEF FitNow
<1>5. EndNow'
  <2>1. ASSUME NEW e \in DOMAIN closed PROVE EndFits(closed[e], ops', UserOps, Lineage[e - 1])
    <3>1. PICK ot, U, L, st : ot = ops' /\ U = UserOps /\ L = Lineage[e - 1] /\ st = closed[e]
      OBVIOUS
    <3>2. \A i \in U : ot[i] = ops[i]
      BY <3>1
    <3>3. EndFits(st, ops, U, L)
      BY <3>1 DEF EndNow
    <3>4. ASSUME NEW k \in Key, NEW o \in Object
          PROVE  Amounts(ot, DoneIn(ot, U, L, o, k), st[Owner[k]][o][k])
      <4>1. PICK W, v : W = DoneIn(ops, U, L, o, k) /\ v = st[Owner[k]][o][k]
        OBVIOUS
      <4>2. DoneIn(ot, U, L, o, k) = W /\ W \subseteq U
        BY <3>2, <4>1, DoneKept
      <4>3. Amounts(ops, W, v)
        BY <3>3, <4>1 DEF EndFits
      <4>4. Amounts(ot, W, v)
        BY <3>2, <4>2, <4>3, AmountsKept
      <4> QED
        BY <4>1, <4>2, <4>4
    <3> QED
      BY <3>1, <3>4 DEF EndFits
  <2> QED
    BY <1>1, <2>1 DEF EndNow
<1> QED
  BY <1>2, <1>3, <1>4, <1>5
-----------------------------------------------------------------------------
ContentAll == PlanInv /\ UserInv /\ AppliedInv /\ CarriedInv /\ FitNow /\ EndNow

(* What an operation more does to the operations of the user.               *)
LEMMA UserOpsGrow ==
  ASSUME MapInv, NEW op \in Op, ops' = Append(ops, op)
  PROVE  /\ UserOps' = IF op.kind \in OpKind THEN UserOps \cup {Len(ops) + 1} ELSE UserOps
         /\ Len(ops) + 1 \notin UserOps /\ \A i \in UserOps : ops'[i] = ops[i]
<1>1. /\ ops \in Seq(Op) /\ Len(ops) \in Nat /\ DOMAIN ops = 1 .. Len(ops)
      /\ ops' \in Seq(Op) /\ Len(ops') = Len(ops) + 1 /\ ops'[Len(ops) + 1] = op
      /\ \A i \in DOMAIN ops : ops'[i] = ops[i]
  BY MapTypes, OpsGrow
<1>2. DOMAIN ops' = DOMAIN ops \cup {Len(ops) + 1} /\ Len(ops) + 1 \notin DOMAIN ops
  <2>1. DOMAIN ops' = 1 .. Len(ops) + 1
    BY <1>1
  <2> QED
    BY <1>1, <2>1
<1>3. op.kind \in OpKind <=> op.kind \notin {"fetch", "return"}
  BY KindsDiffer DEF Op
<1> QED
  BY <1>1, <1>2, <1>3 DEF UserOps

LEMMA ContentOperate ==
  ASSUME MapInv, MapInv', ContentAll, NEW r \in Rank, NEW o \in Object, NEW k \in Key,
         NEW kind \in Ops[o], Operate(r, kind, o, k)
  PROVE  ContentAll'
<1>0. PICK op, m0, n : /\ op = [kind |-> kind, obj |-> o, key |-> k, epoch |-> epoch[r], vals |-> <<>>]
                       /\ m0 = NextCall(r, Owner[k], 0) /\ n = Len(ops) + 1
  OBVIOUS
<1>1. /\ r \notin inside
      /\ ops' = Append(ops, op) /\ UNCHANGED <<executed, epoch, inside>>
      /\ UNCHANGED <<file, plan, part, reducing, answer, asked, want, output, closed>>
      /\ \/ Owner[k] = r /\ Apply(r, op, n) /\ issued' = issued
         \/ BSIssue(m0) /\ store' = store /\ issued' = issued \cup {m0}
  BY <1>0 DEF Operate, Active, BSIssue, bsVars
<1>2. op \in Op /\ op.kind = kind /\ op.obj = o /\ op.key = k /\ kind \in OpKind /\ op.epoch = epoch[r]
  <2>1. epoch[r] \in Nat /\ <<>> \in Vals /\ kind \in OpKind
    BY MapTypes, OpsAssumption DEF Vals
  <2> QED
    BY <1>0, <2>1 DEF Op
<1>3. /\ UserOps' = UserOps \cup {n} /\ n \notin UserOps /\ \A i \in UserOps : ops'[i] = ops[i]
      /\ ops'[n] = op /\ n \in Nat /\ n # 0 /\ n \notin DOMAIN ops
  <2>1. Len(ops) \in Nat
    BY MapTypes
  <2>2. ops'[Len(ops) + 1] = op /\ Len(ops) + 1 \notin DOMAIN ops
    BY <1>1, <1>2, OpsGrow
  <2>3. /\ UserOps' = UserOps \cup {Len(ops) + 1}
        /\ Len(ops) + 1 \notin UserOps /\ \A i \in UserOps : ops'[i] = ops[i]
    BY <1>1, <1>2, UserOpsGrow
  <2> QED
    BY <1>0, <2>1, <2>2, <2>3
<1>4. m0.id = n /\ m0.epoch = epoch[r]
  BY <1>0 DEF NextCall
<1>5. epoch[r] = Len(closed)
  BY <1>1, FrontFacts
<1>6. PlanInv' /\ EndNow'
  <2>1. PlanInv'
    BY <1>1 DEF PlanInv, ContentAll
  <2>2. EndNow /\ ops'[n].epoch = Len(closed)
    BY <1>2, <1>3, <1>5 DEF ContentAll
  <2> QED
    BY <1>1, <1>3, <2>1, <2>2, EndMore
<1>7. UserInv'
  BY <1>1, <1>2, <1>3, <1>5, MapTypes DEF UserInv, ContentAll
<1>8. \A m \in Pending : m.id \in DOMAIN ops
  BY CallFacts
<1>9. CASE Owner[k] = r /\ Apply(r, op, n) /\ issued' = issued
  <2>1. Pending' = Pending
    BY <1>1, <1>9 DEF Pending
  <2>2. Applied' = Applied \cup {n} /\ n \notin Applied /\ \A i \in Applied : ops'[i] = ops[i]
    BY <1>3, <1>8, <2>1 DEF Applied
  <2>3. CarriedInv'
    BY <1>3, <1>8, <2>1 DEF CarriedInv, ContentAll
  <2>4. op.epoch = epoch[Owner[op.key]] /\ Apply(Owner[op.key], op, n) /\ op.kind \in OpKind
    BY <1>2, <1>9
  <2>5. PlanInv /\ AppliedInv /\ FitNow
    BY DEF ContentAll
  <2>6. AppliedInv' /\ FitNow'
    BY <1>1, <1>2, <1>3, <1>7, <2>2, <2>4, <2>5, ContentTouch
  <2> QED
    BY <1>6, <1>7, <2>3, <2>6 DEF ContentAll
<1>10. CASE BSIssue(m0) /\ store' = store /\ issued' = issued \cup {m0}
  <2>1. Pending' = Pending \cup {m0}
    <3>1. m0 \notin executed
      BY <1>10, MapTypes DEF BSIssue
    <3> QED
      BY <1>1, <1>10, <3>1 DEF Pending
  <2>2. {m.id : m \in Pending'} = {m.id : m \in Pending} \cup {n}
    BY <1>4, <2>1
  <2>3. Applied' = Applied
    BY <1>3, <2>2 DEF Applied
  <2>4. CarriedInv'
    BY <1>2, <1>3, <1>4, <1>8, <2>1 DEF CarriedInv, ContentAll
  <2>5. LinesNow' = LinesNow /\ ContentsNow' = ContentsNow
    BY <1>1, <1>10 DEF Lineage, LinesNow, ContentsNow, Contents
  <2>6. PICK ot, A : ot = ops' /\ A = Applied
    OBVIOUS
  <2>7. A \subseteq UserOps /\ \A i \in A : ot[i] = ops[i]
    BY <1>3, <2>6 DEF Applied
  <2>8. FitNow'
    <3>1. AllFit(ops, A, LinesNow, ContentsNow)
      BY <2>6 DEF FitNow, ContentAll
    <3>2. AllFit(ot, A, LinesNow, ContentsNow)
      BY <2>7, <3>1, KeepFit
    <3> QED
      BY <2>3, <2>5, <2>6, <3>2 DEF FitNow
  <2>9. AppliedInv'
    BY <1>1, <2>3, <2>6, <2>7 DEF AppliedInv, ContentAll
  <2> QED
    BY <1>6, <1>7, <2>4, <2>8, <2>9 DEF ContentAll
<1> QED
  BY <1>1, <1>9, <1>10

LEMMA ContentHandle ==
  ASSUME MapInv, MapInv', ContentAll, NEW m \in Pending, Handle(m)
  PROVE  ContentAll'
<1>1. PICK op, n, q, d : op = ops[m.id] /\ n = m.id /\ q = op.key /\ d = m.dst
  OBVIOUS
<1>2. /\ op.kind \notin {"fetch", "return"} /\ m.epoch = epoch[d]
      /\ executed' = executed \cup {m} /\ UNCHANGED <<issued, epoch, inside>>
      /\ Apply(d, op, n)
      /\ UNCHANGED <<ops, file, plan, part, reducing, answer, asked, want, output, closed>>
  BY <1>1 DEF Handle, BSExecute
<1>3. /\ op \in Op /\ op.kind \in OpKind /\ n \in DOMAIN ops /\ n \in Nat /\ n # 0 /\ d = Owner[q]
      /\ m \in issued
  BY <1>1, <1>2, CallFacts DEF CallAt
<1>4. n \in UserOps /\ UserOps' = UserOps
  BY <1>1, <1>2, <1>3 DEF UserOps
<1>5. op.epoch = epoch[d]
  BY <1>1, <1>2, <1>4 DEF ContentAll, CarriedInv
<1>6. Pending' = Pending \ {m} /\ \A c \in Pending : c.id = n => c = m
  <2>1. \A c \in Pending : c \in issued
    BY DEF Pending
  <2>2. \A c, b \in issued : c.id = b.id => c = b
    BY CallAtMeans DEF MapInv
  <2> QED
    BY <1>1, <1>2, <1>3, <2>1, <2>2 DEF Pending
<1>7. Applied' = Applied \cup {n} /\ n \notin Applied
  <2>1. {c.id : c \in Pending'} = {c.id : c \in Pending} \ {n} /\ n \in {c.id : c \in Pending}
    BY <1>1, <1>6
  <2> QED
    BY <1>4, <2>1 DEF Applied
<1>8. PlanInv' /\ UserInv' /\ CarriedInv' /\ EndNow'
  BY <1>2, <1>4, <1>6 DEF ContentAll, PlanInv, UserInv, CarriedInv, EndNow, Lineage
<1>9. AppliedInv' /\ FitNow'
  <2>1. PlanInv /\ AppliedInv /\ FitNow
    BY DEF ContentAll
  <2>2. op.epoch = epoch[Owner[op.key]] /\ Apply(Owner[op.key], op, n) /\ ops'[n] = op
    BY <1>1, <1>2, <1>3, <1>5
  <2>3. \A i \in Applied : ops'[i] = ops[i]
    BY <1>2
  <2> QED
    BY <1>2, <1>3, <1>7, <1>8, <2>1, <2>2, <2>3, ContentTouch
<1> QED
  BY <1>8, <1>9 DEF ContentAll
-----------------------------------------------------------------------------
(* The questions of all_gather() and its answers change nothing.            *)
LEMMA ContentAsk ==
  ASSUME MapInv, ContentAll, UNCHANGED <<plan, epoch, closed, store, file, executed>>,
         NEW op \in Op, op.kind \notin OpKind, ops' = Append(ops, op),
         NEW m0, m0.id = Len(ops) + 1, issued' = issued \cup {m0}
  PROVE  ContentAll'
<1>1. /\ UserOps' = UserOps /\ Len(ops) + 1 \notin UserOps /\ \A i \in UserOps : ops'[i] = ops[i]
  BY UserOpsGrow
<1>2. Pending' \subseteq Pending \cup {m0} /\ Pending \subseteq Pending'
  BY DEF Pending
<1>3. Applied' = Applied
  BY <1>1, <1>2 DEF Applied
<1>4. \A m \in Pending' : m.id \in UserOps => m \in Pending
  BY <1>1, <1>2
<1>5. PlanInv /\ UserInv /\ AppliedInv /\ CarriedInv /\ FitNow /\ EndNow
  BY DEF ContentAll
<1> QED
  BY <1>1, <1>3, <1>4, <1>5, ContentSame DEF ContentAll

LEMMA ContentAnswer ==
  ASSUME MapInv, ContentAll, UNCHANGED <<plan, epoch, closed, store, file, ops, issued>>,
         NEW m \in Pending, ops[m.id].kind \in {"fetch", "return"}, executed' = executed \cup {m}
  PROVE  ContentAll'
<1>1. UserOps' = UserOps /\ m.id \notin UserOps
  BY DEF UserOps
<1>2. Pending' = Pending \ {m}
  BY DEF Pending
<1>3. Applied' = Applied
  BY <1>1, <1>2 DEF Applied
<1>4. PlanInv /\ UserInv /\ AppliedInv /\ CarriedInv /\ FitNow /\ EndNow
  BY DEF ContentAll
<1>5. (\A i \in UserOps : ops'[i] = ops[i]) /\ \A c \in Pending' : c.id \in UserOps => c \in Pending
  BY <1>2
<1> QED
  BY <1>1, <1>3, <1>4, <1>5, ContentSame DEF ContentAll

LEMMA ContentStay ==
  ASSUME MapInv, ContentAll, UNCHANGED <<plan, epoch, closed, store, file, ops, issued, executed>>
  PROVE  ContentAll'
<1>1. UserOps' = UserOps /\ Pending' = Pending /\ Applied' = Applied
  BY DEF UserOps, Pending, Applied
<1>2. PlanInv /\ UserInv /\ AppliedInv /\ CarriedInv /\ FitNow /\ EndNow
  BY DEF ContentAll
<1>3. (\A i \in UserOps : ops'[i] = ops[i]) /\ \A c \in Pending' : c.id \in UserOps => c \in Pending
  BY <1>1
<1> QED
  BY <1>1, <1>2, <1>3, ContentSame DEF ContentAll

LEMMA ContentFetch ==
  ASSUME MapInv, ContentAll, NEW r \in Rank, NEW k \in Key, Fetch(r, k)
  PROVE  ContentAll'
<1>1. /\ Gathering(epoch[r]) /\ UNCHANGED <<executed, epoch, inside>>
      /\ UNCHANGED <<store, file, plan, part, reducing, answer, asked, closed>>
  BY FetchFacts
<1>2. PICK o, e, op, m0 : /\ o = plan[epoch[r]].obj /\ e = epoch[r]
                          /\ op = [kind |-> "fetch", obj |-> o, key |-> k, epoch |-> e, vals |-> <<>>]
                          /\ m0 = NextCall(r, Owner[k], 0)
  OBVIOUS
<1>3. \/ UNCHANGED <<ops, issued>>
      \/ BSIssue(m0) /\ ops' = Append(ops, op)
  BY <1>2 DEF Fetch, bsVars
<1>4. CASE UNCHANGED <<ops, issued>>
  BY <1>1, <1>4, ContentStay
<1>5. CASE BSIssue(m0) /\ ops' = Append(ops, op)
  <2>1. o \in Object /\ e \in Nat
    <3>1. e \in DOMAIN plan /\ e \in Nat
      BY <1>1, <1>2, GatheringInClosed, MapTypes
    <3>2. plan[e] \in CollOp
      BY <3>1, MapTypes
    <3> QED
      BY <1>2, <3>1, <3>2 DEF CollOp
  <2>2. op \in Op /\ op.kind \notin OpKind
    <3>1. <<>> \in Vals
      BY DEF Vals
    <3> QED
      BY <1>2, <2>1, <3>1, KindsDiffer DEF Op
  <2>3. m0.id = Len(ops) + 1
    BY <1>2 DEF NextCall
  <2>4. issued' = issued \cup {m0} /\ ops' = Append(ops, op)
    BY <1>5 DEF BSIssue
  <2> QED
    BY <1>1, <2>2, <2>3, <2>4, ContentAsk
<1> QED
  BY <1>3, <1>4, <1>5

LEMMA ContentReply ==
  ASSUME MapInv, ContentAll, NEW m \in Pending, Reply(m)
  PROVE  ContentAll'
<1>1. PICK v, op, m0 : /\ v = store[m.dst][ops[m.id].obj][ops[m.id].key]
                       /\ op = [ops[m.id] EXCEPT !.kind = "return", !.vals = v]
                       /\ m0 = NextCall(m.dst, m.src, m.id)
  OBVIOUS
<1>2. /\ BSIssue(m0) /\ ops' = Append(ops, op)
      /\ UNCHANGED <<store, file, plan, part, reducing, answer, asked, want, output, closed>>
  BY <1>1 DEF Reply
<1>3. /\ ops[m.id] \in Op /\ ops[m.id].key \in Key /\ ops[m.id].obj \in Object /\ m.dst \in Rank
  BY CallFacts
<1>4. v \in Vals
  <2>1. store \in Stores
    BY MapTypes
  <2>2. \A r \in Rank, o \in Object, k \in Key : store[r][o][k] \in Vals
    BY <2>1 DEF Stores
  <2> QED
    BY <1>1, <1>3, <2>2
<1>5. op \in Op /\ op.kind \notin OpKind
  BY <1>1, <1>3, <1>4, KindsDiffer DEF Op
<1>6. m0.id = Len(ops) + 1
  BY <1>1 DEF NextCall
<1>7. issued' = issued \cup {m0} /\ UNCHANGED <<executed, epoch>>
  BY <1>2 DEF BSIssue
<1> QED
  BY <1>2, <1>5, <1>6, <1>7, ContentAsk

LEMMA ContentFetched ==
  ASSUME MapInv, ContentAll, NEW m \in Pending, Fetched(m)
  PROVE  ContentAll'
BY ContentAnswer DEF Fetched, BSExecute, dataVars

LEMMA ContentReturn ==
  ASSUME MapInv, ContentAll, NEW m \in Pending, Return(m)
  PROVE  ContentAll'
BY ContentAnswer DEF Return, BSExecute

LEMMA ContentReduced ==
  ASSUME MapInv, ContentAll, NEW r \in Rank, Reduced(r)
  PROVE  ContentAll'
BY ContentStay DEF Reduced, bsVars
-----------------------------------------------------------------------------
(* What is swapped, copied or read back is of one class.                   *)
LEMMA ChoicesAlike ==
  ASSUME MapInv, NEW r \in Rank, NEW c \in Choices(r)
  PROVE  /\ c.kind \in {"swap", "copy"} => Ops[c.obj] = Ops[c.peer]
         /\ c.kind = "load" => \E i \in DOMAIN plan : LastSave(plan, i, Len(plan)) /\ Ops[plan[i].obj] = Ops[c.obj]
<1>1. CASE Halfway(Len(plan))
  <2>1. c = [plan[Len(plan)] EXCEPT !.kind = Second(@)]
    BY <1>1 DEF Choices
  <2>2. plan[Len(plan)] \in CollOp
    BY <1>1, MapTypes DEF Halfway
  <2>3. c.kind = Second(plan[Len(plan)].kind)
    BY <2>1, <2>2 DEF CollOp
  <2>4. c.kind \in {"gathered", "copied"}
    BY <2>3 DEF Second
  <2> QED
    BY <2>4
<1>2. CASE ~Halfway(Len(plan))
  <2> DEFINE Like(O)  == {x \in Exists(r) \X O : x[1] # x[2] /\ Ops[x[1]] = Ops[x[2]]}
             Saved(o) == \E i \in DOMAIN plan : LastSave(plan, i, Len(plan)) /\ Ops[plan[i].obj] = Ops[o]
  <2>1. \/ c \in {Collective(kind, o, o, {}) : kind \in {"clear", "save"}, o \in Exists(r)}
        \/ c \in {Collective("load", o, o, {}) : o \in {q \in Exists(r) : Saved(q)}}
        \/ c \in {Collective("swap", x[1], x[2], {}) : x \in Like(Exists(r))}
        \/ \E o \in Exists(r), K \in SUBSET Key : c = Collective("size", o, o, K)
        \/ c \in {Collective("gather", o, o, {}) : o \in Exists(r)}
        \/ c \in {Collective("copy", x[1], x[2], {}) : x \in Like(Copies \ Exists(r))}
    BY <1>2 DEF Choices
  <2>2. CASE c \in {Collective(kind, o, o, {}) : kind \in {"clear", "save"}, o \in Exists(r)}
    BY <2>2 DEF Collective
  <2>3. CASE c \in {Collective("load", o, o, {}) : o \in {q \in Exists(r) : Saved(q)}}
    BY <2>3 DEF Collective
  <2>4. CASE c \in {Collective("swap", x[1], x[2], {}) : x \in Like(Exists(r))}
    BY <2>4 DEF Collective
  <2>5. CASE \E o \in Exists(r), K \in SUBSET Key : c = Collective("size", o, o, K)
    BY <2>5 DEF Collective
  <2>6. CASE c \in {Collective("gather", o, o, {}) : o \in Exists(r)}
    BY <2>6 DEF Collective
  <2>7. CASE c \in {Collective("copy", x[1], x[2], {}) : x \in Like(Copies \ Exists(r))}
    BY <2>7 DEF Collective
  <2> QED
    BY <2>1, <2>2, <2>3, <2>4, <2>5, <2>6, <2>7
<1> QED
  BY <1>1, <1>2

LEMMA LastSaveKept ==
  ASSUME NEW p, NEW q, NEW n \in Nat, NEW e \in Nat, e <= n, \A i \in 1 .. n : p[i] = q[i], NEW i \in 1 .. e
  PROVE  LastSave(p, i, e) <=> LastSave(q, i, e)
<1>1. \A j \in i .. e : p[j] = q[j]
  OBVIOUS
<1>2. i \in i .. e /\ \A j \in i + 1 .. e : j \in i .. e
  OBVIOUS
<1> QED
  BY <1>1, <1>2 DEF LastSave

LEMMA PlanAlike ==
  ASSUME MapInv, PlanInv, NEW r \in Rank, Enter(r)
  PROVE  AlikePlan(plan')
<1>1. /\ plan \in Seq(CollOp) /\ Len(plan) \in Nat /\ DOMAIN plan = 1 .. Len(plan)
      /\ epoch[r] \in Nat /\ epoch[r] <= Len(plan)
  BY MapTypes
<1>2. CASE plan' = plan
  BY <1>2 DEF PlanInv, AlikePlan
<1>3. CASE plan' # plan
  <2>1. PICK c \in Choices(r) : plan' = Append(plan, c)
    BY <1>3 DEF Enter
  <2>2. PICK p, q, n : p = plan /\ q = plan' /\ n = Len(plan)
    OBVIOUS
  <2>3. /\ n \in Nat /\ DOMAIN p = 1 .. n /\ DOMAIN q = 1 .. n + 1 /\ q[n + 1] = c
        /\ \A i \in 1 .. n : p[i] = q[i]
    <3>1. c \in CollOp
      BY ChoicesFacts
    <3> QED
      BY <1>1, <2>1, <2>2, <3>1, AppendProperties
  <2>4. AlikePlan(p)
    BY <2>2, PlanInvMeans
  <2>5. /\ c.kind \in {"swap", "copy"} => Ops[c.obj] = Ops[c.peer]
        /\ c.kind = "load" => \E i \in 1 .. n : LastSave(p, i, n) /\ Ops[p[i].obj] = Ops[c.obj]
    BY <2>2, <2>3, ChoicesAlike
  <2>6. ASSUME NEW e \in 1 .. n + 1
        PROVE  /\ q[e].kind \in {"swap", "copy"} => Ops[q[e].obj] = Ops[q[e].peer]
               /\ q[e].kind = "load" =>
                    \E i \in 1 .. e - 1 : LastSave(q, i, e - 1) /\ Ops[q[i].obj] = Ops[q[e].obj]
    <3>1. PICK x, d : x = q[e] /\ d = e - 1
      OBVIOUS
    <3>2. d \in Nat /\ d <= n
      BY <2>3, <3>1
    <3>3. /\ x.kind \in {"swap", "copy"} => Ops[x.obj] = Ops[x.peer]
          /\ x.kind = "load" => \E i \in 1 .. d : LastSave(p, i, d) /\ Ops[p[i].obj] = Ops[x.obj]
      <4>1. CASE e = n + 1
        BY <2>3, <2>5, <3>1, <4>1
      <4>2. CASE e # n + 1
        <5>1. e \in DOMAIN p /\ x = p[e]
          BY <2>3, <3>1, <4>2
        <5> QED
          BY <2>4, <3>1, <5>1 DEF AlikePlan
      <4> QED
        BY <4>1, <4>2
    <3>4. ASSUME NEW i \in 1 .. d, LastSave(p, i, d), Ops[p[i].obj] = Ops[x.obj]
          PROVE  LastSave(q, i, d) /\ Ops[q[i].obj] = Ops[x.obj]
      <4>1. i \in 1 .. n
        BY <2>3, <3>2
      <4>2. LastSave(q, i, d)
        BY <2>3, <3>2, <3>4, LastSaveKept
      <4> QED
        BY <2>3, <3>4, <4>1, <4>2
    <3> QED
      BY <3>1, <3>3, <3>4
  <2>7. AlikePlan(q)
    BY <2>3, <2>6 DEF AlikePlan
  <2> QED
    BY <2>2, <2>7
<1> QED
  BY <1>2, <1>3

(* barrier() is called: the operation that will end the epoch changes no
   lineage yet.                                                            *)
LEMMA ContentEnter ==
  ASSUME MapInv, ContentAll, NEW r \in Rank, Enter(r)
  PROVE  ContentAll'
<1>1. /\ UNCHANGED <<issued, executed, epoch, ops, store, file, closed>>
      /\ plan' \in Seq(CollOp) /\ Len(plan') \in Nat /\ Len(plan) <= Len(plan')
      /\ \A e \in DOMAIN plan : plan'[e] = plan[e]
  BY EnterFacts
<1>2. /\ plan \in Seq(CollOp) /\ Len(plan) \in Nat /\ DOMAIN plan = 1 .. Len(plan)
      /\ \A s \in Rank : epoch[s] \in 0 .. Len(plan)
      /\ \A e \in DOMAIN closed : e - 1 \in 0 .. Len(plan)
  BY ContentTypes
<1>3. \A e \in 0 .. Len(plan) : Lineage'[e] = Lineage[e]
  <2>1. PICK p, q : p = plan /\ q = plan'
    OBVIOUS
  <2>2. p \in Seq(CollOp) /\ q \in Seq(CollOp) /\ Len(p) \in Nat /\ Len(p) <= Len(q) /\ \A e \in 1 .. Len(p) : p[e] = q[e]
    BY <1>1, <1>2, <2>1
  <2>3. \A e \in 0 .. Len(p) : LineageOf(p)[e] = LineageOf(q)[e]
    BY <2>2, LineageKept
  <2> QED
    BY <2>1, <2>3 DEF Lineage, LineageOf
<1>4. PlanInv'
  <2>1. AlikePlan(plan')
    BY PlanAlike DEF ContentAll
  <2> QED
    BY <2>1 DEF PlanInv, AlikePlan
<1>5. UserOps' = UserOps /\ Pending' = Pending /\ Applied' = Applied
  BY <1>1 DEF UserOps, Pending, Applied
<1>6. UserInv' /\ AppliedInv' /\ CarriedInv'
  BY <1>1, <1>5 DEF ContentAll, UserInv, AppliedInv, CarriedInv
<1>7. LinesNow' = LinesNow /\ ContentsNow' = ContentsNow
  <2>1. ASSUME NEW k \in Key PROVE Lineage'[epoch'[Owner[k]]] = Lineage[epoch[Owner[k]]]
    BY <1>1, <1>2, <1>3, OwnerIsRank
  <2>2. LinesNow' = LinesNow
    BY <2>1 DEF LinesNow
  <2> QED
    BY <1>1, <2>2 DEF ContentsNow, Contents
<1>8. FitNow'
  BY <1>1, <1>5, <1>7 DEF ContentAll, FitNow
<1>9. EndNow'
  <2>1. ASSUME NEW e \in DOMAIN closed PROVE EndFits(closed[e], ops, UserOps, Lineage'[e - 1])
    BY <1>2, <1>3 DEF ContentAll, EndNow
  <2> QED
    BY <1>1, <1>5, <2>1 DEF EndNow
<1> QED
  BY <1>4, <1>6, <1>8, <1>9 DEF ContentAll

(* The rest of a collective operation gives each holder what From says.    *)
LEMMA AfterContents ==
  ASSUME MapInv, NEW r \in Rank, NEW c \in CollOp, AfterBarrier(r, c),
         NEW k \in Key, NEW h \in Holder
  PROVE  Contents(r, h, k)' = IF From(c, h) = Nowhere THEN <<>> ELSE Contents(r, From(c, h), k)
<1> DEFINE X == CASE c.kind = "clear" -> [store[r] EXCEPT ![c.obj] = Empty]
                  [] c.kind = "swap"  -> [store[r] EXCEPT ![c.obj] = store[r][c.peer],
                                                          ![c.peer] = store[r][c.obj]]
                  [] c.kind = "load"  -> [store[r] EXCEPT ![c.obj] = file[r]]
                  [] c.kind = "copy"  -> [store[r] EXCEPT ![c.peer] = store[r][c.obj]]
                  [] OTHER -> store[r]
<1>1. PICK S, F, a, b : S = store[r] /\ F = file[r] /\ a = c.obj /\ b = c.peer
  OBVIOUS
<1>2. /\ store \in Stores /\ S \in [Object -> [Key -> Vals]] /\ file \in [Rank -> [Key -> Vals]]
      /\ a \in Object /\ b \in Object /\ Empty[k] = <<>>
  BY <1>1, MapTypes DEF Stores, CollOp, Empty
<1>3. /\ store' = [store EXCEPT ![r] = X]
      /\ file' = IF c.kind = "save" THEN [file EXCEPT ![r] = store[r][c.obj]] ELSE file
  BY <1>2 DEF AfterBarrier, Stores
<1>4. PICK T, G : T = store'[r] /\ G = file'[r]
  OBVIOUS
<1>5. T = X /\ G = IF c.kind = "save" THEN S[a] ELSE F
  BY <1>1, <1>2, <1>3, <1>4 DEF Stores
<1>6. /\ c.kind = "clear" => T = [S EXCEPT ![a] = Empty]
      /\ c.kind = "swap" => T = [S EXCEPT ![a] = S[b], ![b] = S[a]]
      /\ c.kind = "load" => T = [S EXCEPT ![a] = F]
      /\ c.kind = "copy" => T = [S EXCEPT ![b] = S[a]]
      /\ c.kind \notin {"clear", "swap", "load", "copy"} => T = S
  BY <1>1, <1>5
<1> HIDE DEF X
<1>7. /\ h \in Object => Contents(r, h, k) = S[h][k] /\ Contents(r, h, k)' = T[h][k]
      /\ Contents(r, File, k) = F[k] /\ Contents(r, File, k)' = G[k]
      /\ h \in Object \/ h = File
      /\ Contents(r, a, k) = S[a][k] /\ Contents(r, b, k) = S[b][k]
  BY <1>1, <1>2, <1>4, HolderFacts DEF Contents, Holder
<1>8. CASE h = File
  <2>1. From(c, h) = IF c.kind = "save" THEN a ELSE File
    BY <1>1, <1>8, FromFile
  <2>2. a # Nowhere /\ File # Nowhere
    BY <1>2, HolderFacts
  <2> QED
    BY <1>5, <1>7, <1>8, <2>1, <2>2
<1>9. CASE h \in Object
  <2>1. a # Nowhere /\ b # Nowhere /\ h # Nowhere /\ h # File /\ File # Nowhere
    BY <1>2, <1>9, HolderFacts
  <2>2. CASE c.kind = "clear"
    <3>1. From(c, h) = IF h = a THEN Nowhere ELSE h
      BY <1>1, <2>1, <2>2 DEF From
    <3>2. T[h] = IF h = a THEN Empty ELSE S[h]
      BY <1>2, <1>6, <1>9, <2>2
    <3> QED
      BY <1>2, <1>7, <1>9, <2>1, <3>1, <3>2
  <2>3. CASE c.kind = "swap"
    <3>1. From(c, h) = IF h = a THEN b ELSE IF h = b THEN a ELSE h
      BY <1>1, <2>1, <2>3 DEF From
    <3>2. T[h] = IF h = b THEN S[a] ELSE IF h = a THEN S[b] ELSE S[h]
      BY <1>2, <1>6, <1>9, <2>3
    <3> QED
      BY <1>7, <1>9, <2>1, <3>1, <3>2
  <2>4. CASE c.kind = "load"
    <3>1. From(c, h) = IF h = a THEN File ELSE h
      BY <1>1, <2>1, <2>4 DEF From
    <3>2. T[h] = IF h = a THEN F ELSE S[h]
      BY <1>2, <1>6, <1>9, <2>4
    <3> QED
      BY <1>7, <1>9, <2>1, <3>1, <3>2
  <2>5. CASE c.kind = "copy"
    <3>1. From(c, h) = IF h = b THEN a ELSE h
      BY <1>1, <2>1, <2>5 DEF From
    <3>2. T[h] = IF h = b THEN S[a] ELSE S[h]
      BY <1>2, <1>6, <1>9, <2>5
    <3> QED
      BY <1>7, <1>9, <2>1, <3>1, <3>2
  <2>6. CASE c.kind \notin {"clear", "swap", "load", "copy"}
    <3>1. From(c, h) = h
      BY <2>1, <2>6 DEF From
    <3> QED
      BY <1>6, <1>7, <1>9, <2>1, <2>6, <3>1
  <2> QED
    BY <2>2, <2>3, <2>4, <2>5, <2>6
<1> QED
  BY <1>7, <1>8, <1>9

(* barrier() returns at a rank, which goes through the operation.          *)
LEMMA LeaveMoves ==
  ASSUME MapInv, NEW r \in Rank, Leave(r), NEW e, e = epoch[r]
  PROVE  Moved(LinesNow, LinesNow', ContentsNow, ContentsNow', r, plan[e + 1], e + 1)
<1>1. PICK c, n : c = plan[e + 1] /\ n = e + 1
  OBVIOUS
<1>2. /\ e \in Nat /\ n \in DOMAIN plan /\ c \in CollOp /\ AfterBarrier(r, c)
      /\ plan' = plan /\ epoch'[r] = n /\ \A s \in Rank : s # r => epoch'[s] = epoch[s]
  BY <1>1, LeaveFacts
<1>3. Lineage' = Lineage /\ Lineage[n] = Later(Lineage[e], c, n)
  <2>1. PICK p : p = plan
    OBVIOUS
  <2>2. p \in Seq(CollOp) /\ n \in 1 .. Len(p) /\ n - 1 = e
    BY <1>1, <1>2, <2>1, ContentTypes
  <2>3. LineageOf(p)[n] = Later(LineageOf(p)[n - 1], p[n], n)
    BY <2>2, LineageAt
  <2> QED
    BY <1>1, <1>2, <2>1, <2>2, <2>3 DEF Lineage, LineageOf
<1>4. PICK K, M, C, D : K = LinesNow /\ M = LinesNow' /\ C = ContentsNow /\ D = ContentsNow'
  OBVIOUS
<1>5. ASSUME NEW k \in Key
      PROVE  IF Owner[k] = r
             THEN /\ M[k] = Later(K[k], c, n)
                  /\ \A h \in Holder : D[k][h] = IF From(c, h) = Nowhere THEN <<>> ELSE C[k][From(c, h)]
             ELSE M[k] = K[k] /\ \A h \in Holder : D[k][h] = C[k][h]
  <2>1. K[k] = Lineage[epoch[Owner[k]]] /\ M[k] = Lineage'[epoch'[Owner[k]]] /\ Owner[k] \in Rank
    BY <1>4, OwnerIsRank DEF LinesNow
  <2>2. \A h \in Holder : C[k][h] = Contents(Owner[k], h, k) /\ D[k][h] = Contents(Owner[k], h, k)'
    BY <1>4 DEF ContentsNow
  <2>3. CASE Owner[k] = r
    <3>1. M[k] = Later(K[k], c, n)
      BY <1>2, <1>3, <2>1, <2>3
    <3>2. ASSUME NEW h \in Holder
          PROVE  D[k][h] = IF From(c, h) = Nowhere THEN <<>> ELSE C[k][From(c, h)]
      <4>1. Contents(r, h, k)' = IF From(c, h) = Nowhere THEN <<>> ELSE Contents(r, From(c, h), k)
        BY <1>2, AfterContents
      <4>2. From(c, h) \in Holder \cup {Nowhere}
        BY <1>2, FromType
      <4> QED
        BY <2>2, <2>3, <4>1, <4>2
    <3> QED
      BY <2>3, <3>1, <3>2
  <2>4. CASE Owner[k] # r
    <3>1. M[k] = K[k]
      BY <1>2, <1>3, <2>1, <2>4
    <3>2. store'[Owner[k]] = store[Owner[k]] /\ file'[Owner[k]] = file[Owner[k]]
      BY <1>2, <2>1, <2>4, AfterStores
    <3>3. \A h \in Holder : D[k][h] = C[k][h]
      BY <2>2, <3>2 DEF Contents
    <3> QED
      BY <2>4, <3>1, <3>3
  <2> QED
    BY <2>3, <2>4
<1>6. Moved(K, M, C, D, r, c, n)
  BY <1>5 DEF Moved
<1> QED
  BY <1>1, <1>4, <1>6

(* The first rank to leave closes the epoch, with nothing under way.       *)
LEMMA EndClosed ==
  ASSUME MapInv, ContentAll, NEW r \in Rank, Leave(r), Len(closed) = epoch[r]
  PROVE  EndFits(store, ops, UserOps, Lineage[epoch[r]])
<1>1. PICK e, L : e = epoch[r] /\ L = Lineage[e]
  OBVIOUS
<1>2. /\ e \in Nat /\ \A m \in Pending : m.epoch = e + 1
      /\ \A s \in Rank : epoch[s] = e \/ epoch[s] = e + 1
  BY <1>1, LeaveFacts
<1>3. \A s \in Rank : epoch[s] = e
  <2>1. \A s \in Rank : epoch[s] <= Len(closed)
    BY DEF MapInv, StoreInv
  <2>2. \A s \in Rank : epoch[s] <= e
    BY <1>1, <2>1
  <2>3. ~(e + 1 <= e)
    BY <1>2
  <2> QED
    BY <1>2, <2>2, <2>3
<1>4. Pending = {}
  <2> SUFFICES ASSUME NEW m \in Pending PROVE FALSE
    OBVIOUS
  <2>1. epoch[m.src] = m.epoch /\ m.src \in Rank
    BY CallFacts DEF CallAt
  <2>2. e # e + 1
    BY <1>2
  <2> QED
    BY <1>2, <1>3, <2>1, <2>2
<1>5. Applied = UserOps
  BY <1>4 DEF Applied
<1>6. PICK os, U : os = ops /\ U = UserOps
  OBVIOUS
<1>7. ASSUME NEW k \in Key, NEW o \in Object
      PROVE  Amounts(os, DoneIn(os, U, L, o, k), store[Owner[k]][o][k])
  <2>1. LinesNow[k] = L
    BY <1>1, <1>3, OwnerIsRank DEF LinesNow
  <2>2. o \in Holder /\ o # File
    BY HolderFacts
  <2>3. ContentsNow[k][o] = store[Owner[k]][o][k]
    BY <2>2 DEF ContentsNow, Contents
  <2>4. AllFit(os, U, LinesNow, ContentsNow)
    BY <1>5, <1>6 DEF ContentAll, FitNow
  <2>5. Amounts(os, DoneIn(os, U, LinesNow[k], o, k), ContentsNow[k][o])
    BY <2>2, <2>4 DEF AllFit
  <2> QED
    BY <2>1, <2>3, <2>5
<1> QED
  BY <1>1, <1>6, <1>7 DEF EndFits

LEMMA ContentLeave ==
  ASSUME MapInv, ContentAll, NEW r \in Rank, Leave(r)
  PROVE  ContentAll'
<1>1. PICK e : e = epoch[r]
  OBVIOUS
<1>2. /\ UNCHANGED <<issued, executed, ops, plan>> /\ e \in Nat /\ plan[e + 1] \in CollOp
      /\ epoch' \in [Rank -> Nat] /\ epoch'[r] = e + 1
      /\ \A s \in Rank : s # r => epoch'[s] = epoch[s]
  BY <1>1, LeaveFacts
<1>3. /\ DOMAIN closed' = 1 .. e + 1 /\ Len(closed') = e + 1
      /\ \A i \in DOMAIN closed : i \in DOMAIN closed' /\ closed'[i] = closed[i]
      /\ Len(closed) \in Nat /\ DOMAIN closed = 1 .. Len(closed)
  BY <1>1, ClosedFacts, ContentTypes
<1>4. /\ PlanInv /\ UserInv /\ AppliedInv /\ CarriedInv /\ FitNow /\ EndNow
      /\ UserOps' = UserOps /\ Pending' = Pending /\ Applied' = Applied /\ Lineage' = Lineage
  BY <1>2 DEF ContentAll, UserOps, Pending, Applied, Lineage
<1>5. PlanInv' /\ CarriedInv'
  BY <1>2, <1>4 DEF PlanInv, CarriedInv
<1>6. Len(closed) <= e + 1
  <2>1. CASE Len(closed) = 0
    BY <1>2, <2>1
  <2>2. CASE Len(closed) # 0
    <3>1. Len(closed) \in DOMAIN closed
      BY <1>3, <2>2
    <3>2. Len(closed) \in 1 .. e + 1
      BY <1>3, <3>1
    <3> QED
      BY <3>2
  <2> QED
    BY <2>1, <2>2
<1>7. UserInv'
  <2>1. ASSUME NEW i \in UserOps PROVE ops[i].kind \in Ops[ops[i].obj] /\ ops[i].epoch <= e + 1
    <3>1. ops[i].kind \in Ops[ops[i].obj] /\ ops[i].epoch <= Len(closed) /\ ops[i].epoch \in Nat
      BY <1>4, OperationTypes DEF UserInv
    <3> QED
      BY <1>2, <1>3, <1>6, <3>1
  <2> QED
    BY <1>2, <1>3, <1>4, <2>1 DEF UserInv
<1>8. \A i \in Applied : /\ ops[i].key \in Key /\ Owner[ops[i].key] \in Rank /\ ops[i].epoch \in Nat
                         /\ ops[i].epoch <= epoch[Owner[ops[i].key]]
  BY <1>4, OperationTypes, OwnerIsRank DEF AppliedInv
<1>9. AppliedInv'
  <2>1. ASSUME NEW i \in Applied PROVE ops[i].epoch <= epoch'[Owner[ops[i].key]]
    <3>1. PICK d, s : d = ops[i].epoch /\ s = Owner[ops[i].key]
      OBVIOUS
    <3>2. d \in Nat /\ s \in Rank /\ d <= epoch[s]
      BY <1>8, <3>1
    <3>3. d <= epoch'[s]
      <4>1. CASE s = r
        BY <1>1, <1>2, <3>2, <4>1
      <4>2. CASE s # r
        BY <1>2, <3>2, <4>2
      <4> QED
        BY <4>1, <4>2
    <3> QED
      BY <3>1, <3>3
  <2> QED
    BY <1>2, <1>4, <2>1 DEF AppliedInv
<1>10. FitNow'
  <2>1. PICK os, A, K, M, C, D, c, f : /\ os = ops /\ A = Applied /\ K = LinesNow /\ M = LinesNow'
                                       /\ C = ContentsNow /\ D = ContentsNow' /\ c = plan[e + 1] /\ f = e + 1
    OBVIOUS
  <2>2. Moved(K, M, C, D, r, c, f)
    BY <1>1, <2>1, LeaveMoves
  <2>3. AllFit(os, A, K, C) /\ c \in CollOp
    BY <1>2, <1>4, <2>1 DEF FitNow
  <2>4. ASSUME NEW i \in A, Owner[os[i].key] = r PROVE os[i].epoch # f
    <3>1. os[i].epoch \in Nat /\ os[i].epoch <= e
      BY <1>1, <1>8, <2>1, <2>4
    <3> QED
      BY <1>2, <2>1, <3>1
  <2>5. AllFit(os, A, M, D)
    BY <2>2, <2>3, <2>4, MoveFit
  <2> QED
    BY <1>2, <1>4, <2>1, <2>5 DEF FitNow
<1>11. EndNow'
  <2>1. ASSUME NEW i \in DOMAIN closed' PROVE EndFits(closed'[i], ops, UserOps, Lineage[i - 1])
    <3>1. CASE i \in DOMAIN closed
      BY <1>3, <1>4, <3>1 DEF EndNow
    <3>2. CASE i \notin DOMAIN closed
      <4>1. i \in 1 .. e + 1 /\ i \notin 1 .. Len(closed)
        BY <1>3, <2>1, <3>2
      <4>2. closed' # closed
        BY <2>1, <3>2
      <4>3. Len(closed) = e /\ closed' = Append(closed, store)
        BY <1>1, <4>2 DEF Leave
      <4>4. i = e + 1 /\ i - 1 = e
        BY <1>2, <4>1, <4>3
      <4>5. closed'[i] = store
        <5>1. closed \in Seq(Stores) /\ store \in Stores
          BY MapTypes
        <5> QED
          BY <4>3, <4>4, <5>1, AppendProperties
      <4>6. EndFits(store, ops, UserOps, Lineage[e])
        BY <1>1, <4>3, EndClosed
      <4> QED
        BY <4>4, <4>5, <4>6
    <3> QED
      BY <3>1, <3>2
  <2> QED
    BY <1>2, <1>4, <2>1 DEF EndNow
<1> QED
  BY <1>5, <1>7, <1>9, <1>10, <1>11 DEF ContentAll
-----------------------------------------------------------------------------
LEMMA ContentStart ==
  MapInit => ContentAll
<1> SUFFICES ASSUME MapInit PROVE ContentAll
  OBVIOUS
<1>1. /\ issued = {} /\ executed = {} /\ ops = <<>> /\ plan = <<>> /\ closed = <<>>
      /\ store = [r \in Rank |-> [o \in Object |-> Empty]] /\ file = [r \in Rank |-> Empty]
      /\ DOMAIN ops = {} /\ DOMAIN plan = {} /\ DOMAIN closed = {}
  BY DEF MapInit, BSInit
<1>2. UserOps = {} /\ Applied = {} /\ Pending = {}
  BY <1>1 DEF UserOps, Applied, Pending
<1>3. PlanInv /\ UserInv /\ AppliedInv /\ CarriedInv /\ EndNow
  BY <1>1, <1>2 DEF PlanInv, UserInv, AppliedInv, CarriedInv, EndNow
<1>4. ASSUME NEW k \in Key, NEW h \in Holder PROVE ContentsNow[k][h] = <<>>
  <2>1. Contents(Owner[k], h, k) = <<>>
    BY <1>1, OwnerIsRank DEF Contents, Holder, Empty
  <2> QED
    BY <2>1 DEF ContentsNow
<1>5. FitNow
  <2>1. PICK os, K, C : os = ops /\ K = LinesNow /\ C = ContentsNow
    OBVIOUS
  <2>2. ASSUME NEW k \in Key, NEW h \in Holder PROVE Amounts(os, DoneIn(os, {}, K[k], h, k), C[k][h])
    <3>1. DoneIn(os, {}, K[k], h, k) = {}
      BY DEF DoneIn
    <3>2. C[k][h] = <<>>
      BY <1>4, <2>1
    <3> QED
      BY <3>1, <3>2, AmountsOfNone
  <2>3. AllFit(os, {}, K, C)
    BY <2>2 DEF AllFit
  <2> QED
    BY <1>2, <2>1, <2>3 DEF FitNow
<1> QED
  BY <1>3, <1>5 DEF ContentAll

(* Given MapInv, ContentInv and EpochContent are inductive.                *)
LEMMA ContentStep ==
  MapInv /\ MapInv' /\ ContentAll /\ [MapNext]_mapVars => ContentAll'
<1> SUFFICES ASSUME MapInv, MapInv', ContentAll, [MapNext]_mapVars PROVE ContentAll'
  OBVIOUS
<1>1. ASSUME NEW r \in Rank, NEW o \in Object, NEW k \in Key, NEW kind \in Ops[o], Operate(r, kind, o, k)
      PROVE  ContentAll'
  BY <1>1, ContentOperate
<1>2. ASSUME NEW r \in Rank, Enter(r) PROVE ContentAll'
  BY <1>2, ContentEnter
<1>3. ASSUME NEW r \in Rank, Leave(r) PROVE ContentAll'
  BY <1>3, ContentLeave
<1>4. ASSUME NEW r \in Rank, Reduced(r) PROVE ContentAll'
  BY <1>4, ContentReduced
<1>5. ASSUME NEW r \in Rank, NEW k \in Key, Fetch(r, k) PROVE ContentAll'
  BY <1>5, ContentFetch
<1>6. ASSUME NEW m \in Pending, Handle(m) PROVE ContentAll'
  BY <1>6, ContentHandle
<1>7. ASSUME NEW m \in Pending, Reply(m) PROVE ContentAll'
  BY <1>7, ContentReply
<1>8. ASSUME NEW m \in Pending, Fetched(m) PROVE ContentAll'
  BY <1>8, ContentFetched
<1>9. ASSUME NEW m \in Pending, Return(m) PROVE ContentAll'
  BY <1>9, ContentReturn
<1>10. ASSUME UNCHANGED mapVars PROVE ContentAll'
  BY <1>10, ContentStay DEF mapVars, bsVars, dataVars
<1> QED
  BY <1>1, <1>2, <1>3, <1>4, <1>5, <1>6, <1>7, <1>8, <1>9, <1>10 DEF MapNext, Ended

(* At every moment what a rank holds of its keys, in objects and in its file,
   is what the operations amount to that have run there and belong in the
   lineage of the epoch that the rank is in.                               *)
THEOREM MapContentInvariant == MapSpec => [](ContentInv /\ EpochContent)
<1>1. MapInv => (ContentAll <=> ContentInv /\ EpochContent)
  BY ContentInvMeans, EpochContentMeans DEF ContentAll
<1> QED
  BY <1>1, MapInvariant, ContentStart, ContentStep, PTL DEF MapSpec

(* When an epoch ends, an object holds what the operations on it and on what
   was swapped, copied or loaded into it amount to, each run exactly once,
   and every key lies at its owner (map_impl.hpp 42-189, set_impl.hpp).    *)
THEOREM ContentIsExact == MapSpec => []EpochContent
<1> QED
  BY MapContentInvariant, PTL
=============================================================================
