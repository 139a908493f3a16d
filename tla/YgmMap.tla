------------------------------- MODULE YgmMap -------------------------------
(***************************************************************************)
(* The distributed associative containers (include/ygm/container): map,    *)
(* multimap, set and multiset.  Each object keeps at every rank the pairs  *)
(* whose keys that rank owns; asynchronous operations are calls to the     *)
(* owner, collective ones start with a barrier.  The communicator is the   *)
(* bulk-synchronous execution of YgmBulkSync, which YgmComm is proved to   *)
(* implement.                                                              *)
(*                                                                         *)
(* A value is known by the operation that stored it and by how often it    *)
(* was visited since, so that contents can be compared with the operations *)
(* they come from.  Visitors make no calls of their own.                   *)
(***************************************************************************)
EXTENDS YgmBulkSync, YgmLineage, Sequences, FiniteSets, Functions

CONSTANTS Key, Object,
          Copies,    \* the objects that are constructed as copies of others
          Owner,     \* Owner[k]: the rank of key k, by the hash partitioner
          Ops,       \* Ops[o]: the operations of object o's class
          Colls,     \* the kinds of collective operations in use
          MaxOps,    \* bound: asynchronous operations in a behaviour
          MaxEpoch   \* bound: barriers each rank goes through

OpKind   == {"insert_unique", "insert_multi", "set_insert_unique",
             "visit", "visit_if_exists", "erase"}
\* What map, multimap (and multiset) and set offer (map.hpp, set.hpp).
Class    == {OpKind \ {"insert_multi", "set_insert_unique"},
             OpKind \ {"insert_unique", "set_insert_unique"},
             {"set_insert_unique", "erase"}}
CollKind == {"clear", "swap", "save", "load", "size", "gather", "gathered", "copy", "copied"}

ASSUME OwnerAssumption == Owner \in [Key -> Rank] /\ Copies \subseteq Object
ASSUME OpsAssumption   == Ops \in [Object -> SUBSET OpKind]
ASSUME ClassAssumption == \A o \in Object : \E C \in Class : Ops[o] \subseteq C
\* The names by which the file, and nothing, go among the objects.
File    == "file"
Nowhere == "nowhere"
ASSUME NameAssumption  == File \notin Object /\ Nowhere \notin Object

VARIABLES ops,       \* the calls and local operations begun, in order
          store,     \* store[r][o][k]: m_local_map / m_local_set, the values of k
          file,      \* file[r]: what r last serialized
          plan,      \* the collective operation that ends each epoch
          part,      \* part[r]: r's contribution to its last all_reduce_sum()
          reducing,  \* ranks blocked in all_reduce_sum()
          answer,    \* answer[r]: what r's last size() or count() returned
          asked,     \* asked[r]: keys of r's last all_gather()
          want,      \* want[r]: those it has still to ask for
          output,    \* output[r]: the container its answers are inserted in
          closed     \* closed[e]: all stores when epoch e ended (history)

dataVars == <<ops, store, file, plan, part, reducing, answer,
              asked, want, output, closed>>
mapVars  == <<bsVars, dataVars>>

Empty == [k \in Key |-> <<>>]

MapInit == /\ BSInit
           /\ ops = <<>>
           /\ store = [r \in Rank |-> [o \in Object |-> Empty]]
           /\ file = [r \in Rank |-> Empty]
           /\ plan = <<>> /\ closed = <<>>
           /\ part = [r \in Rank |-> 0] /\ reducing = {}
           /\ answer = [r \in Rank |-> 0]
           /\ asked = [r \in Rank |-> {}] /\ want = [r \in Rank |-> {}]
           /\ output = [r \in Rank |-> Empty]
-----------------------------------------------------------------------------
(* What each operation does to the values of its key at the owner; i is the
   position of the operation in ops.                                       *)
Value(i) == [by |-> i, visits |-> 0]

InsertUnique(s, i)    == IF s = <<>> THEN <<Value(i)>> ELSE [s EXCEPT ![1] = Value(i)]
InsertMulti(s, i)     == Append(s, Value(i))
SetInsertUnique(s, i) == IF s = <<>> THEN <<Value(i)>> ELSE s
VisitIfExists(s)      == [j \in DOMAIN s |-> [s[j] EXCEPT !.visits = @ + 1]]

\* Fault: the default is inserted and not visited.
Visit_NotTheDefault(s) == IF s = <<>> THEN <<Value(0)>> ELSE VisitIfExists(s)
Visit(s) == VisitIfExists(IF s = <<>> THEN <<Value(0)>> ELSE s)

NewValues(op, i, s) ==
  CASE op.kind = "insert_unique"     -> InsertUnique(s, i)
    [] op.kind = "insert_multi"      -> InsertMulti(s, i)
    [] op.kind = "set_insert_unique" -> SetInsertUnique(s, i)
    [] op.kind = "visit"             -> Visit(s)
    [] op.kind = "visit_if_exists"   -> VisitIfExists(s)
    [] op.kind = "erase"             -> <<>>

Apply(r, op, i) ==
  store' = [store EXCEPT ![r][op.obj][op.key] = NewValues(op, i, @)]

UserOps == {i \in DOMAIN ops : ops[i].kind \notin {"fetch", "return"}}
NextCall(r, d, p) == [id |-> Len(ops) + 1, src |-> r, dst |-> d,
                      epoch |-> epoch[r], parent |-> p]

\* Between the two barriers of all_gather() or of the copy constructor.
TwoBarriers  == {"gather", "copy"}
Second(kind) == IF kind = "gather" THEN "gathered" ELSE "copied"
Halfway(e)   == e > 0 /\ plan[e].kind \in TwoBarriers
\* A copy is an object of the program when its constructor has returned.
Copied(r)  == {plan[e].peer : e \in {i \in 1 .. epoch[r] : plan[i].kind = "copied"}}
Exists(r)  == (Object \ Copies) \cup Copied(r)
\* The program of r runs.
Active(r)  == r \notin inside \cup reducing /\ epoch[r] < MaxEpoch

(* An asynchronous operation, applied at once when the rank owns the key
   and sent to the owner otherwise.                                        *)
Operate(r, kind, o, k) ==
  LET op == [kind |-> kind, obj |-> o, key |-> k, epoch |-> epoch[r], vals |-> <<>>]
  IN  /\ Active(r) /\ ~Halfway(epoch[r]) /\ Cardinality(UserOps) < MaxOps
      /\ o \in Exists(r)
      /\ ops' = Append(ops, op)
      /\ \/ /\ Owner[k] = r
            /\ Apply(r, op, Len(ops) + 1)
            /\ UNCHANGED bsVars
         \/ /\ Owner[k] # r
            /\ BSIssue(NextCall(r, Owner[k], 0))
            /\ UNCHANGED store
      /\ UNCHANGED <<file, plan, part, reducing, answer, asked, want, output, closed>>

\* The handler of such a call, at the owner.
Handle(m) == /\ ops[m.id].kind \notin {"fetch", "return"}
             /\ m.dst \notin reducing
             /\ BSExecute(m)
             /\ Apply(m.dst, ops[m.id], m.id)
             /\ UNCHANGED <<ops, file, plan, part, reducing, answer,
                            asked, want, output, closed>>
-----------------------------------------------------------------------------
(* Collective operations.  All ranks make the same ones in the same order:
   the first to end an epoch chooses.                                      *)
Collective(kind, o, p, K) == [kind |-> kind, obj |-> o, peer |-> p, keys |-> K]

\* The i-th operation is the last before the e-th one ended to write a file.
LastSave(p, i, e) == /\ p[i].kind = "save"
                     /\ \A j \in i + 1 .. e : p[j].kind # "save"

Choices(r) ==
  LET e        == Len(plan)
      Alike(O) == {x \in Exists(r) \X O : x[1] # x[2] /\ Ops[x[1]] = Ops[x[2]]}
      Saved(o) == \E i \in DOMAIN plan : LastSave(plan, i, e) /\ Ops[plan[i].obj] = Ops[o]
      Lengths  == {K \in SUBSET Key : Cardinality(K) \in {1, Cardinality(Key)}}
      Twice    == IF e + 1 < MaxEpoch THEN TwoBarriers ELSE {}
      All      == {Collective(kind, o, o, {}) : kind \in {"clear", "save"}, o \in Exists(r)}
                  \cup {Collective("load", o, o, {}) : o \in {q \in Exists(r) : Saved(q)}}
                  \cup {Collective("swap", x[1], x[2], {}) : x \in Alike(Exists(r))}
                  \cup {Collective("size", o, o, K) : o \in Exists(r), K \in Lengths}
                  \cup {Collective("gather", o, o, {}) : o \in Exists(r)}
                  \cup {Collective("copy", x[1], x[2], {}) : x \in Alike(Copies \ Exists(r))}
  IN  IF Halfway(e) THEN {[plan[e] EXCEPT !.kind = Second(@)]}
      ELSE {c \in All : c.kind \in Colls /\ (c.kind \in TwoBarriers => c.kind \in Twice)}

\* The operation's own barrier() is called.
Enter(r) == /\ Active(r) /\ want[r] = {}
            /\ BSEnter(r)
            /\ IF epoch[r] < Len(plan) THEN UNCHANGED plan
               ELSE \E c \in Choices(r) : plan' = Append(plan, c)
            /\ UNCHANGED <<ops, store, file, part, reducing, answer,
                           asked, want, output, closed>>

Held(st, r, o, K) == FoldFunction(+, 0, [k \in K |-> Len(st[r][o][k])])

(* barrier() returns and the operation goes on at once, up to the next point
   at which the rank can run handlers or has to wait: clear(), swap(),
   serialize() and deserialize() are over, size() and count() have
   contributed to the sum, all_gather() is about to ask.                   *)
AfterBarrier(r, c) ==
  /\ store' = [store EXCEPT ![r] =
       CASE c.kind = "clear" -> [@ EXCEPT ![c.obj] = Empty]
         [] c.kind = "swap"  -> [@ EXCEPT ![c.obj] = store[r][c.peer],
                                          ![c.peer] = store[r][c.obj]]
         [] c.kind = "load"  -> [@ EXCEPT ![c.obj] = file[r]]
         [] c.kind = "copy"  -> [@ EXCEPT ![c.peer] = store[r][c.obj]]
         [] OTHER -> @]
  /\ file' = IF c.kind = "save" THEN [file EXCEPT ![r] = store[r][c.obj]] ELSE file
  /\ IF c.kind = "size"
     THEN /\ part' = [part EXCEPT ![r] = Held(store, r, c.obj, c.keys)]
          /\ reducing' = reducing \cup {r}
     ELSE UNCHANGED <<part, reducing>>
  /\ IF c.kind = "gather"
     THEN \E K \in SUBSET Key : /\ asked' = [asked EXCEPT ![r] = K]
                                /\ want' = [want EXCEPT ![r] = K]
                                /\ output' = [output EXCEPT ![r] = Empty]
     ELSE UNCHANGED <<asked, want, output>>

Leave(r) == /\ BSLeave(r)
            /\ AfterBarrier(r, plan[epoch[r] + 1])
            /\ closed' = IF Len(closed) = epoch[r] THEN Append(closed, store) ELSE closed
            /\ UNCHANGED <<ops, plan, answer>>

\* all_reduce_sum() returns: every rank has contributed.
Reduced(r) == /\ r \in reducing
              /\ \A s \in Rank : epoch[s] >= epoch[r]
              /\ answer' = [answer EXCEPT ![r] = FoldFunction(+, 0, part)]
              /\ reducing' = reducing \ {r}
              /\ UNCHANGED bsVars
              /\ UNCHANGED <<ops, store, file, plan, part, asked, want, output, closed>>
-----------------------------------------------------------------------------
\* Fault: all_gather() does not ask for keys the rank owns itself.
Fetch_NotOwn(r, k) ==
  /\ k \in want[r] /\ want' = [want EXCEPT ![r] = @ \ {k}]
  /\ \/ Owner[k] = r /\ UNCHANGED <<ops, output, bsVars>>
     \/ /\ Owner[k] # r
        /\ BSIssue(NextCall(r, Owner[k], 0))
        /\ ops' = Append(ops, [kind |-> "fetch", obj |-> plan[epoch[r]].obj, key |-> k,
                               epoch |-> epoch[r], vals |-> <<>>])
        /\ UNCHANGED output
  /\ UNCHANGED <<store, file, plan, part, reducing, answer, asked, closed>>

\* all_gather() asks the owner of a key; from itself it has the answer inline.
Fetch(r, k) ==
  LET o == plan[epoch[r]].obj
  IN  /\ k \in want[r] /\ want' = [want EXCEPT ![r] = @ \ {k}]
      /\ \/ /\ Owner[k] = r
            /\ output' = [output EXCEPT ![r][k] = @ \o store[r][o][k]]
            /\ UNCHANGED <<ops, bsVars>>
         \/ /\ Owner[k] # r
            /\ BSIssue(NextCall(r, Owner[k], 0))
            /\ ops' = Append(ops, [kind |-> "fetch", obj |-> o, key |-> k,
                                   epoch |-> epoch[r], vals |-> <<>>])
            /\ UNCHANGED output
      /\ UNCHANGED <<store, file, plan, part, reducing, answer, asked, closed>>

Replied(m) == \E c \in issued : c.parent = m.id

\* The fetcher, at the owner, calls the returner back ...
Reply(m) == /\ ops[m.id].kind = "fetch" /\ ~Replied(m)
            /\ m.dst \notin reducing /\ m.epoch = epoch[m.dst]
            /\ BSIssue(NextCall(m.dst, m.src, m.id))
            /\ ops' = Append(ops, [ops[m.id] EXCEPT
                             !.kind = "return",
                             !.vals = store[m.dst][ops[m.id].obj][ops[m.id].key]])
            /\ UNCHANGED <<store, file, plan, part, reducing, answer,
                           asked, want, output, closed>>

\* ... and is over after that.
Fetched(m) == /\ ops[m.id].kind = "fetch" /\ Replied(m)
              /\ BSExecute(m)
              /\ UNCHANGED dataVars

\* The returner inserts the values in the container of the rank that asked.
Return(m) == /\ ops[m.id].kind = "return"
             /\ BSExecute(m)
             /\ output' = [output EXCEPT ![m.dst][ops[m.id].key] = @ \o ops[m.id].vals]
             /\ UNCHANGED <<ops, store, file, plan, part, reducing, answer,
                            asked, want, closed>>
-----------------------------------------------------------------------------
Ended == /\ \A r \in Rank : epoch[r] = MaxEpoch /\ r \notin reducing
         /\ UNCHANGED mapVars

MapNext == \/ \E r \in Rank : \/ \E o \in Object, k \in Key :
                                   \E kind \in Ops[o] : Operate(r, kind, o, k)
                              \/ Enter(r) \/ Leave(r) \/ Reduced(r)
                              \/ \E k \in Key : Fetch(r, k)
           \/ \E m \in Pending : Handle(m) \/ Reply(m) \/ Fetched(m) \/ Return(m)
           \/ Ended

MapSpec == MapInit /\ [][MapNext]_mapVars
-----------------------------------------------------------------------------
(* Where what h holds after the operation c was before.                    *)
Holder == Object \cup {File}
From(c, h) == CASE c.kind = "clear" /\ h = c.obj -> Nowhere
                [] c.kind = "swap" /\ h = c.obj  -> c.peer
                [] c.kind = "swap" /\ h = c.peer -> c.obj
                [] c.kind = "save" /\ h = File   -> c.obj
                [] c.kind = "load" /\ h = c.obj  -> File
                [] c.kind = "copy" /\ h = c.peer -> c.obj
                [] OTHER -> h
Moves(p) == [e \in DOMAIN p |-> [h \in Holder |-> From(p[e], h)]]

(* Which epochs' operations on which objects make up the content of each
   object, and of the files, when epoch e ends.                            *)
Lineage == Descent(Holder, Nowhere, Moves(plan))

\* The operations A on key k that belong to the lineage L[h] of h.
Origin(op) == <<op.obj, op.epoch>>
DoneIn(os, A, L, h, k) == {i \in A : os[i].key = k /\ Origin(os[i]) \in L[h]}

Did(os, U, kinds) == {i \in U : os[i].kind \in kinds}

(* The values that the operations U on one key may amount to.  Order matters
   only to erase: with one, there is but an upper bound.                   *)
Amounts(os, U, vals) ==
  LET by      == [j \in DOMAIN vals |-> vals[j].by]
      from    == Range(by) \ {0}
      unique  == Did(os, U, {"insert_unique", "set_insert_unique"})
      multi   == Did(os, U, {"insert_multi"})
      visited == Did(os, U, {"visit"})
  IN  /\ from \subseteq unique \cup multi
      /\ IsInjective(by)
      /\ multi = {} => Len(vals) <= 1
      /\ visited = {} => 0 \notin Range(by)
      /\ Did(os, U, {"erase"}) = {} =>
           /\ multi \subseteq from
           /\ unique # {} => Len(vals) = 1 /\ vals[1].by \in unique
           /\ unique \cup multi \cup Did(os, U, {"visit_if_exists"}) = {} =>
                vals = IF visited = {} THEN <<>>
                       ELSE <<[by |-> 0, visits |-> Cardinality(visited)]>>

(* When an epoch ends, an object holds what the operations made on it since
   it was last cleared, by all ranks and each exactly once, amount to
   (map_impl.hpp 42-114, 124-127, 141-145, 173-189; set_impl.hpp): no
   operation of an earlier or a later epoch, or on an object swapped, copied
   or loaded in between, is missing or gets in, whatever the ranks' progress.
   Nothing lies at a rank that does not own it.                            *)
EpochContent ==
  LET L == Lineage
  IN  \A e \in DOMAIN closed :
        LET now == L[e - 1]
        IN  \A o \in Object : \A k \in Key :
              /\ \A r \in Rank \ {Owner[k]} : closed[e][r][o][k] = <<>>
              /\ Amounts(ops, DoneIn(ops, UserOps, now, o, k), closed[e][Owner[k]][o][k])

Total(st, o, K) == FoldFunction(+, 0, [r \in Rank |-> Held(st, r, o, K)])

(* size() and count() return on every rank the number of elements that the
   whole object held when their barrier ended (129-137): no rank counts
   elements of a call made after that barrier, or before a pending one.    *)
SizeExact ==
  \A r \in Rank \ reducing :
    epoch[r] > 0 /\ plan[epoch[r]].kind = "size" =>
      LET c == plan[epoch[r]] IN answer[r] = Total(closed[epoch[r]], c.obj, c.keys)

(* After all_gather() a rank has the values of each key it asked for, as
   they were at the first barrier, and of no other (147-169).              *)
GatherExact ==
  \A r \in Rank :
    epoch[r] > 1 /\ plan[epoch[r]].kind = "gathered" =>
      \A k \in Key :
        output[r][k] = IF k \in asked[r]
                       THEN closed[epoch[r] - 1][Owner[k]][plan[epoch[r]].obj][k]
                       ELSE <<>>
-----------------------------------------------------------------------------
(* The inductive invariant behind SizeExact and GatherExact.               *)
Vals == Seq([by : Nat, visits : Nat])
Op   == [kind : OpKind \cup {"fetch", "return"}, obj : Object, key : Key,
         epoch : Nat, vals : Vals]

MapTypeOK ==
  LET Stores == [Rank -> [Object -> [Key -> Vals]]]
  IN  /\ issued \subseteq Call /\ executed \subseteq issued
      /\ inside \subseteq Rank /\ reducing \subseteq Rank
      /\ epoch \in [Rank -> Nat]
      /\ ops \in Seq(Op)
      /\ plan \in Seq([kind : CollKind, obj : Object, peer : Object, keys : SUBSET Key])
      /\ store \in Stores /\ closed \in Seq(Stores)
      /\ file \in [Rank -> [Key -> Vals]] /\ output \in [Rank -> [Key -> Vals]]
      /\ asked \in [Rank -> SUBSET Key] /\ want \in [Rank -> SUBSET Key]
      /\ part = [r \in Rank |-> part[r]] /\ answer = [r \in Rank |-> answer[r]]

(* A rank that is behind is in the barrier that the others have left; the
   second barrier of all_gather() follows the first.                       *)
LockstepInv ==
  /\ \A r, s \in Rank : epoch[s] < epoch[r] => s \in inside /\ epoch[r] = epoch[s] + 1
  /\ \A r \in Rank : (IF r \in inside THEN epoch[r] + 1 ELSE epoch[r]) <= Len(plan)
  /\ inside \cap reducing = {}
  /\ \A e \in DOMAIN plan : plan[e].kind = "gathered" =>
       e > 1 /\ plan[e - 1].kind = "gather" /\ plan[e - 1].obj = plan[e].obj

Gathering(e) == e > 0 /\ plan[e].kind = "gather"

(* A call carries what the container is about to be asked or told, and
   nobody leaves its epoch.                                                *)
CallInv ==
  /\ \A m \in issued : m.id \in DOMAIN ops /\ m.parent <= Len(ops)
  /\ \A m, n \in issued : m.id = n.id => m = n
  /\ \A m \in Pending :
       LET op == ops[m.id]
       IN  /\ epoch[m.src] = m.epoch /\ \A s \in Rank : epoch[s] <= m.epoch
           /\ op.kind \in OpKind => m.dst = Owner[op.key] /\ ~Halfway(m.epoch)
           /\ op.kind \notin OpKind => Gathering(m.epoch) /\ op.obj = plan[m.epoch].obj
           /\ op.kind = "fetch"  => m.dst = Owner[op.key]
           /\ op.kind = "return" => /\ epoch[m.dst] = m.epoch
                                    /\ op.vals = closed[m.epoch][Owner[op.key]][op.obj][op.key]

(* What a rank holds does not change while another has left its barrier, nor
   between the barriers of all_gather(); keys are where they belong.       *)
StoreInv ==
  /\ closed # <<>> => \E r \in Rank : epoch[r] = Len(closed)
  /\ \A r \in Rank : /\ epoch[r] <= Len(closed)
                     /\ epoch[r] < Len(closed) => store[r] = closed[epoch[r] + 1][r]
                     /\ Gathering(epoch[r]) => store[r] = closed[epoch[r]][r]
  /\ \A r \in Rank : \A k \in Key : Owner[k] # r =>
       /\ file[r][k] = <<>>
       /\ \A o \in Object : store[r][o][k] = <<>> /\ \A e \in DOMAIN closed : closed[e][r][o][k] = <<>>

\* What a rank contributes to the sum is what it held when its barrier ended.
PartInv ==
  \A r \in Rank : epoch[r] > 0 /\ plan[epoch[r]].kind = "size" =>
    LET c == plan[epoch[r]] IN part[r] = Held(closed[epoch[r]], r, c.obj, c.keys)

\* The calls by which r will be told the values of k.
Awaited(r, k) == {m \in Pending : /\ ops[m.id].key = k
                                  /\ \/ ops[m.id].kind = "fetch" /\ m.src = r /\ ~Replied(m)
                                     \/ ops[m.id].kind = "return" /\ m.dst = r}

\* A key is asked for once, and answered once.
AskInv ==
  \A r \in Rank :
    /\ want[r] \subseteq asked[r]
    /\ want[r] # {} => r \notin inside /\ Gathering(epoch[r])
    /\ \A k \in Key :
         /\ \A m, n \in Awaited(r, k) : m = n
         /\ Awaited(r, k) # {} => k \in asked[r] \ want[r]
         /\ Gathering(epoch[r]) =>
              output[r][k] = IF k \in asked[r] \ want[r] /\ Awaited(r, k) = {}
                             THEN closed[epoch[r]][Owner[k]][plan[epoch[r]].obj][k]
                             ELSE <<>>

MapInv == /\ MapTypeOK /\ LockstepInv /\ CallInv /\ StoreInv /\ PartInv /\ AskInv
          /\ SizeExact /\ GatherExact

(* The inductive invariant behind EpochContent.  It looks at one rank at a
   time, in the epoch that this rank is in: what it holds of the keys that
   it owns is what the operations amount to that have run there.           *)
Applied == UserOps \ {m.id : m \in Pending}
Contents(r, h, k) == IF h = File THEN file[r][k] ELSE store[r][h][k]

\* A file is read back in an object of the class that wrote it.
PlanInv ==
  \A e \in DOMAIN plan :
    /\ plan[e].kind \in {"swap", "copy"} => Ops[plan[e].obj] = Ops[plan[e].peer]
    /\ plan[e].kind = "load" =>
         \E i \in 1 .. e - 1 : LastSave(plan, i, e - 1) /\ Ops[plan[i].obj] = Ops[plan[e].obj]

ContentInv ==
  /\ PlanInv
  /\ \A i \in UserOps : ops[i].kind \in Ops[ops[i].obj] /\ ops[i].epoch <= Len(closed)
  /\ \A i \in Applied : ops[i].epoch <= epoch[Owner[ops[i].key]]
  /\ \A m \in Pending : m.id \in UserOps => ops[m.id].epoch = m.epoch
  /\ LET L == Lineage
     IN  \A k \in Key :
           LET r   == Owner[k]
               now == L[epoch[r]]
           IN  \A h \in Holder : Amounts(ops, DoneIn(ops, Applied, now, h, k), Contents(r, h, k))
=============================================================================
