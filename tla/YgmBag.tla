------------------------------- MODULE YgmBag -------------------------------
(***************************************************************************)
(* The bag (include/ygm/container/detail/bag_impl.hpp) and the registry    *)
(* that lets a call name an object of another rank (detail/ygm_ptr.hpp).   *)
(* Every rank pushes the address of its part of each new object on a       *)
(* vector, and what travels is the position in it.  Nothing ties the       *)
(* vectors of different ranks together but that the program creates its    *)
(* objects in the same order everywhere, and that constructor and          *)
(* destructor contain a barrier.  The communicator is the bulk-synchronous *)
(* execution of YgmBulkSync, which YgmComm is proved to implement.         *)
(*                                                                         *)
(* An item is known by the insertion that it comes from.                   *)
(***************************************************************************)
EXTENDS YgmBulkSync, YgmLineage, Sequences, FiniteSets, Functions

CONSTANTS MaxBags,  \* bound: bags constructed in a behaviour
          MaxOps,   \* bound: insertions in a behaviour
          MaxEpoch  \* bound: barriers each rank goes through

Size == Cardinality(Rank)
ASSUME BagRankAssumption  == IsFiniteSet(Rank) /\ Rank = 0 .. Size - 1
ASSUME BagBoundAssumption == MaxBags \in Nat /\ MaxOps \in Nat /\ MaxEpoch \in Nat

VARIABLES sptrs,   \* sptrs[r]: the bags registered at r, oldest first
          bags,    \* bags[r][b]: the part of bag b at r
          iter,    \* the for_all() or local_for_all() that r is in, or <<>>
          file,    \* file[r]: what r last serialized
          ops,     \* the insertions begun, in order
          plan,    \* the collective operation that ends each epoch
          closed   \* closed[e]: the items of all parts when epoch e ended (history)

bagVars == <<bsVars, sptrs, bags, iter, file, ops, plan, closed>>

Bag        == 1 .. MaxBags
NoBag      == [idx |-> 0, live |-> FALSE, items |-> <<>>, rr |-> 0]
NewPart(i) == [idx |-> i, live |-> TRUE, items |-> <<>>, rr |-> 0]

BagInit == /\ BSInit
           /\ sptrs = [r \in Rank |-> <<>>]
           /\ bags = [r \in Rank |-> [b \in Bag |-> NoBag]]
           /\ iter = [r \in Rank |-> <<>>]
           /\ file = [r \in Rank |-> [items |-> <<>>, rr |-> 0]]
           /\ ops = <<>> /\ plan = <<>> /\ closed = <<>>

\* The object that index i of a ygm_ptr stands for at r: operator->.
Deref(r, i) == sptrs[r][i + 1]

\* The inserter, at r.
PushBack(bs, r, i, item) == [bs EXCEPT ![r][Deref(r, i)].items = Append(@, item)]

(* The program of r runs: it may be in a callback of an iteration.         *)
Iterating(r) == iter[r] # <<>>
InCallback(r) == Iterating(r) /\ iter[r].pos > 0
Active(r)    == r \notin inside /\ epoch[r] < MaxEpoch

Insert(r, b) ==
  LET i == bags[r][b].idx
      d == (bags[r][b].rr + r) % Size
      n == Len(ops) + 1
      counted == [bags EXCEPT ![r][b].rr = @ + 1]
  IN  /\ Active(r) /\ (Iterating(r) => InCallback(r))
      /\ bags[r][b].live /\ Len(ops) < MaxOps
      /\ ops' = Append(ops, [bag |-> b, idx |-> i, epoch |-> epoch[r]])
      /\ \/ /\ d = r
            /\ bags' = PushBack(counted, r, i, n)
            /\ UNCHANGED bsVars
         \/ /\ d # r
            /\ BSIssue([id |-> n, src |-> r, dst |-> d, epoch |-> epoch[r], parent |-> 0])
            /\ bags' = counted
      /\ UNCHANGED <<sptrs, iter, file, plan, closed>>

Handle(m) == /\ BSExecute(m)
             /\ bags' = PushBack(bags, m.dst, ops[m.id].idx, m.id)
             /\ UNCHANGED <<sptrs, iter, file, ops, plan, closed>>
-----------------------------------------------------------------------------
(* std::for_each over the local items, from begin to the end of the time it
   was called; LocalForAll is the program's own call of local_for_all().   *)
StartIteration(r, b, synced) ==
  iter' = [iter EXCEPT ![r] = [bag |-> b, size |-> Len(bags[r][b].items),
                               pos |-> 0, synced |-> synced]]

LocalForAll(r, b) == /\ Active(r) /\ ~Iterating(r) /\ bags[r][b].live
                     /\ StartIteration(r, b, FALSE)
                     /\ UNCHANGED <<bsVars, sptrs, bags, file, ops, plan, closed>>

NextItem(r) == /\ Iterating(r)
               /\ LET i == iter[r]
                  IN  iter' = [iter EXCEPT ![r] = IF i.pos < i.size
                                                  THEN [i EXCEPT !.pos = i.pos + 1] ELSE <<>>]
               /\ UNCHANGED <<bsVars, sptrs, bags, file, ops, plan, closed>>
-----------------------------------------------------------------------------
(* Operations with a barrier.  All ranks make the same ones in the same
   order: the first to end an epoch chooses.  made counts the bags that have
   been constructed, this one included.                                    *)
Kind == {"construct", "destroy", "clear", "for_all", "save", "load", "swap", "barrier"}
Made(p, e) == IF e = 0 THEN 0 ELSE p[e].made
Collective(kind, b, p) == [kind |-> kind, bag |-> b, peer |-> p, made |-> Made(plan, Len(plan))]
Live(r) == {b \in Bag : bags[r][b].live}

Choices(r) ==
  LET n == Made(plan, Len(plan))
  IN  {[Collective("construct", b, b) EXCEPT !.made = b] : b \in {n + 1} \cap Bag}
      \cup {Collective(kind, b, b) : kind \in {"destroy", "clear", "for_all", "save"}, b \in Live(r)}
      \cup {Collective("load", b, b) :
              b \in {q \in Live(r) : \E i \in DOMAIN plan : plan[i].kind = "save"}}
      \cup {Collective("swap", x[1], x[2]) : x \in {y \in Live(r) \X Live(r) : y[1] # y[2]}}
      \cup {Collective("barrier", 0, 0)}

\* Fault: the destructor destroys before its barrier.
BeforeBarrier_Destroys(r, c) ==
  IF c.kind = "construct"
  THEN /\ bags' = [bags EXCEPT ![r][c.bag] = NewPart(Len(sptrs[r]))]
       /\ sptrs' = [sptrs EXCEPT ![r] = Append(@, c.bag)]
  ELSE /\ bags' = IF c.kind = "destroy" THEN [bags EXCEPT ![r][c.bag] = NoBag] ELSE bags
       /\ UNCHANGED sptrs

\* Fault: clear() clears before its barrier.
BeforeBarrier_Clears(r, c) ==
  IF c.kind = "construct"
  THEN /\ bags' = [bags EXCEPT ![r][c.bag] = NewPart(Len(sptrs[r]))]
       /\ sptrs' = [sptrs EXCEPT ![r] = Append(@, c.bag)]
  ELSE /\ bags' = IF c.kind = "clear" THEN [bags EXCEPT ![r][c.bag].items = <<>>] ELSE bags
       /\ UNCHANGED sptrs

\* The constructor registers the rank's part; the others start with the barrier.
BeforeBarrier(r, c) ==
  IF c.kind = "construct"
  THEN /\ bags' = [bags EXCEPT ![r][c.bag] = NewPart(Len(sptrs[r]))]
       /\ sptrs' = [sptrs EXCEPT ![r] = Append(@, c.bag)]
  ELSE UNCHANGED <<bags, sptrs>>

Enter(r) == /\ Active(r) /\ ~Iterating(r)
            /\ BSEnter(r)
            /\ \/ epoch[r] < Len(plan) /\ UNCHANGED plan
               \/ epoch[r] = Len(plan) /\ \E c \in Choices(r) : plan' = Append(plan, c)
            /\ BeforeBarrier(r, plan'[epoch[r] + 1])
            /\ UNCHANGED <<iter, file, ops, closed>>

(* barrier() has returned: the rest of the operation, at this rank.  The
   registry keeps the entry of a bag that is destroyed.                    *)
AfterBarrier(r, c) ==
  /\ bags' = [bags EXCEPT ![r] =
       CASE c.kind = "destroy" -> [@ EXCEPT ![c.bag] = NoBag]
         [] c.kind = "clear"   -> [@ EXCEPT ![c.bag].items = <<>>]
         [] c.kind = "swap"    -> [@ EXCEPT ![c.bag].items = bags[r][c.peer].items,
                                            ![c.peer].items = bags[r][c.bag].items]
         [] c.kind = "load"    -> [@ EXCEPT ![c.bag].items = file[r].items,
                                            ![c.bag].rr = file[r].rr]
         [] OTHER -> @]
  /\ file' = IF c.kind # "save" THEN file
             ELSE [file EXCEPT ![r] = [items |-> bags[r][c.bag].items, rr |-> bags[r][c.bag].rr]]
  /\ IF c.kind = "for_all" THEN StartIteration(r, c.bag, TRUE) ELSE UNCHANGED iter

Items == [r \in Rank |-> [b \in Bag |-> bags[r][b].items]]

Leave(r) == /\ BSLeave(r)
            /\ AfterBarrier(r, plan[epoch[r] + 1])
            /\ closed' = IF Len(closed) = epoch[r] THEN Append(closed, Items) ELSE closed
            /\ UNCHANGED <<sptrs, ops, plan>>

Ended == /\ \A r \in Rank : epoch[r] = MaxEpoch /\ ~Iterating(r)
         /\ UNCHANGED bagVars

BagNext == \/ \E r \in Rank : \/ \E b \in Bag : Insert(r, b) \/ LocalForAll(r, b)
                              \/ NextItem(r) \/ Enter(r) \/ Leave(r)
           \/ \E m \in Pending : Handle(m)
           \/ Ended

BagSpec == BagInit /\ [][BagNext]_bagVars
-----------------------------------------------------------------------------
(* The index carried by an insertion under way stands, at the rank that it
   is for and for as long as it may be run there, for the bag that it was
   made on, and that rank's part of it is not destroyed (ygm_ptr.hpp 14-26,
   bag_impl.hpp 20-31).                                                    *)
Resolves ==
  \A m \in Pending : epoch[m.dst] = m.epoch =>
     LET op == ops[m.id]
     IN  /\ op.idx + 1 \in DOMAIN sptrs[m.dst]
         /\ Deref(m.dst, op.idx) = op.bag
         /\ bags[m.dst][op.bag].live

(* What holds items, at each rank: the bags and the file.                  *)
File == 0
Holder == Bag \cup {File}
Held(r, h) == IF h = File THEN file[r].items ELSE bags[r][h].items
\* The insertion that n is, by its bag and epoch.
Origin(n) == <<ops[n].bag, ops[n].epoch>>

(* Where what h holds after the operation c was before: Nowhere if nothing
   is kept.                                                                *)
Nowhere == MaxBags + 1
From(c, h) == CASE c.kind \in {"clear", "destroy"} /\ h = c.bag -> Nowhere
                [] c.kind = "swap" /\ h = c.bag  -> c.peer
                [] c.kind = "swap" /\ h = c.peer -> c.bag
                [] c.kind = "save" /\ h = File   -> c.bag
                [] c.kind = "load" /\ h = c.bag  -> File
                [] OTHER -> h

(* Which epochs' insertions in which bags make up the content of each holder
   when epoch e ends.                                                      *)
Moves(p) == [e \in DOMAIN p |-> [h \in Holder |-> From(p[e], h)]]
LineageOf(p) == Descent(Holder, Nowhere, Moves(p))
Lineage == LineageOf(plan)

(* When an epoch ends, each item inserted in a bag since it was last cleared,
   by whatever rank, lies in it at exactly one place, and no other item does:
   swap(), clear(), serialize() and deserialize() act on all parts of the bag
   as of the same moment (bag_impl.hpp 24-79).                             *)
BagContent ==
  LET L == Lineage
  IN  \A e \in DOMAIN closed : \A b \in Bag :
        LET at   == UNION {{r} \X DOMAIN closed[e][r][b] : r \in Rank}
            item == [x \in at |-> closed[e][x[1]][b][x[2]]]
        IN  /\ IsInjective(item)
            /\ {item[x] : x \in at} = {n \in DOMAIN ops : Origin(n) \in L[e - 1][b]}

(* While for_all() iterates over the local items, the vector is added to only
   by insertions that the program makes after the for_all()'s barrier: it is
   never one of an earlier epoch that moves the items under the iterator, and
   what is iterated over is what the bag held at the barrier (33-37, 81-84). *)
IterationSafe ==
  \A r \in Rank : Iterating(r) /\ iter[r].synced =>
    LET items == bags[r][iter[r].bag].items
    IN  /\ SubSeq(items, 1, iter[r].size) = closed[epoch[r]][r][iter[r].bag]
        /\ \A i \in iter[r].size + 1 .. Len(items) : ops[items[i]].epoch = epoch[r]
-----------------------------------------------------------------------------
(* The inductive invariant behind Resolves.  It compares the ranks through
   the plan: what a rank has registered and not destroyed depends on nothing
   but how many operations it has entered and left.                        *)
Entered(r) == IF r \in inside THEN epoch[r] + 1 ELSE epoch[r]
Destroyed(p, b, e) == \E i \in 1 .. e : p[i].kind = "destroy" /\ p[i].bag = b

BagTypeOK ==
  LET Part == [idx : Nat, live : BOOLEAN, items : Seq(Nat), rr : Nat]
  IN  /\ issued \subseteq Call /\ inside \subseteq Rank
      /\ epoch \in [Rank -> Nat]
      /\ sptrs \in [Rank -> Seq(Bag)]
      /\ bags \in [Rank -> [Bag -> Part]]
      /\ file \in [Rank -> [items : Seq(Nat), rr : Nat]]
      /\ ops \in Seq([bag : Bag, idx : Nat, epoch : Nat])
      /\ plan \in Seq([kind : Kind, bag : Nat, peer : Nat, made : Nat])

\* made numbers the bags in the order of their construction.
PlanInv ==
  \A e \in DOMAIN plan :
    /\ plan[e].kind # "barrier" => plan[e].bag \in Bag /\ plan[e].peer \in Bag
    /\ plan[e].kind # "construct" => plan[e].made = Made(plan, e - 1)
    /\ plan[e].kind = "construct" => plan[e].made = Made(plan, e - 1) + 1 /\ plan[e].bag = plan[e].made
    /\ plan[e].bag <= plan[e].made /\ plan[e].peer <= plan[e].made
    /\ \A f \in DOMAIN plan : e <= f => plan[e].made <= plan[f].made

\* The registry of a rank lists the bags constructed as far as the rank is.
RegistryInv ==
  \A r \in Rank : /\ Entered(r) <= Len(plan)
                  /\ Len(sptrs[r]) = Made(plan, Entered(r))
                  /\ \A i \in 1 .. Len(sptrs[r]) : sptrs[r][i] = i

LiveInv ==
  \A r \in Rank : \A b \in Bag :
    /\ bags[r][b].live = (b <= Made(plan, Entered(r)) /\ ~Destroyed(plan, b, epoch[r]))
    /\ bags[r][b].live => bags[r][b].idx + 1 = b

\* A rank that is behind is in the barrier that the others have left.
LockstepInv ==
  \A r, s \in Rank : epoch[s] < epoch[r] => s \in inside /\ epoch[r] = epoch[s] + 1

\* An insertion under way is for a bag that nobody destroys in its epoch.
CallInv ==
  \A m \in Pending :
    /\ m.id \in DOMAIN ops
    /\ m.epoch <= Len(plan)
    /\ \A s \in Rank : epoch[s] <= m.epoch
    /\ LET op == ops[m.id] IN /\ op.idx + 1 = op.bag
                              /\ op.bag <= Made(plan, m.epoch) /\ ~Destroyed(plan, op.bag, m.epoch)

BagInv == BagTypeOK /\ PlanInv /\ RegistryInv /\ LiveInv /\ LockstepInv /\ CallInv

(* The inductive invariant behind IterationSafe.  A rank in a barrier that
   another has left already holds what it held when that one left, and what a
   rank iterates over has only been added to, by insertions of its epoch.  *)
Iteration == [bag : Bag, size : Nat, pos : Nat, synced : BOOLEAN]

IterTypeOK == /\ closed \in Seq([Rank -> [Bag -> Seq(Nat)]])
              /\ iter \in [Rank -> Iteration \cup {<<>>}]

ClosedInv ==
  /\ closed # <<>> => \E r \in Rank : epoch[r] = Len(closed)
  /\ \A r \in Rank : /\ epoch[r] <= Len(closed)
                     /\ epoch[r] < Len(closed) => Items[r] = closed[epoch[r] + 1][r]

GrowthInv ==
  /\ \A m \in Pending : ops[m.id].epoch = m.epoch
  /\ \A r \in Rank : Iterating(r) =>
       /\ r \notin inside
       /\ iter[r].synced =>
            LET items == bags[r][iter[r].bag].items
            IN  /\ epoch[r] > 0 /\ iter[r].size <= Len(items)
                /\ \A i \in iter[r].size + 1 .. Len(items) : items[i] \in DOMAIN ops

IterInv == IterTypeOK /\ ClosedInv /\ GrowthInv /\ IterationSafe

(* The inductive invariant behind BagContent.  It looks at one rank at a
   time, in the epoch that this rank is in: what it holds has the right
   origin, and an item that has arrived at a rank is wherever an item of its
   origin belongs there, and at no other rank.                             *)
Arrived(n, r) == /\ ops[n].epoch <= epoch[r]
                 /\ LET L == Lineage[epoch[r]]
                    IN  \A h \in Holder : Origin(n) \in L[h] => n \in Range(Held(r, h))

HeldInv ==
  \A r \in Rank :
    LET L == Lineage[epoch[r]]
    IN  \A h \in Holder :
          /\ IsInjective(Held(r, h))
          /\ h > Made(plan, Entered(r)) => Held(r, h) = <<>>
          /\ \A n \in Range(Held(r, h)) :
               /\ n \in DOMAIN ops /\ Origin(n) \in L[h]
               /\ \A m \in Pending : m.id # n
               /\ \A s \in Rank \ {r} : \A g \in Holder : n \notin Range(Held(s, g))

ContentInv ==
  /\ \A n \in DOMAIN ops : ops[n].epoch <= Len(closed)
  /\ executed \subseteq issued /\ \A m, c \in Pending : m.id = c.id => m = c
  /\ HeldInv
  /\ \A n \in DOMAIN ops : (\E m \in Pending : m.id = n) \/ (\E r \in Rank : Arrived(n, r))
=============================================================================
