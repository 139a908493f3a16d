--------------------------- MODULE YgmCountingSet ---------------------------
(***************************************************************************)
(* ygm::container::counting_set (include/ygm/container/counting_set.hpp):  *)
(* a map from keys to counts, in front of which every rank keeps a         *)
(* direct-mapped cache of the increments it has not sent yet.  The         *)
(* communicator is the bulk-synchronous execution of YgmBulkSync.          *)
(*                                                                         *)
(* Sending the content of a slot is an async(), which runs handlers that   *)
(* have arrived before it returns: frames of a rank's stack tell what its  *)
(* main thread is in the middle of.                                        *)
(***************************************************************************)
EXTENDS YgmBulkSync, Sequences, FiniteSets, Functions

CONSTANTS Key,
          Owner,      \* Owner[k]: the rank that holds the count of k
          Slot,       \* Slot[k]: hash of k, modulo the cache size, from 1 on
          Size,       \* count_cache_size
          MaxCached,  \* the largest cached count, that of int32_t in the code
          Colls,      \* the collective operations in use
          MaxInserts, \* bound: async_insert() calls in a behaviour
          MaxEpoch    \* bound: barriers each rank goes through

ASSUME SlotAssumption == /\ Owner \in [Key -> Rank] /\ Slot \in [Key -> 1 .. Size]
                         /\ Size \in Nat /\ MaxEpoch \in Nat /\ IsFiniteSet(Rank)
                         /\ MaxCached \in Nat /\ MaxCached > 1
                         /\ Colls \subseteq {"count", "clear", "save", "load"}

VARIABLES calls,     \* calls[id]: what the call does
          cache,     \* m_count_cache
          counts,    \* counts[k]: the count in m_map, at the owner of k
          stack,     \* stack[r]: frames of r's main thread, innermost first
          plan,      \* the collective operation that ends each epoch
          file,      \* file[k]: the count of k that was last serialized
          inserted,  \* inserted[e][k]: insertions begun in epoch e (history)
          counting,  \* ranks blocked in the all_reduce_sum() of count()
          part,      \* contributions to it, per key
          answer     \* answer[r]: what count(k) returned at r, per key

collVars == <<plan, file, counting, part, answer>>
setVars  == <<calls, cache, counts, stack, inserted, collVars>>
allVars  == <<bsVars, setVars>>

Nothing == [k \in Key |-> 0]
\* An empty slot; {key_type(), -1} in the code.
Free    == [key |-> {}, n |-> -1]
Cached(k, n) == [key |-> {k}, n |-> n]

\* flush: in the async() of count_cache_flush(); all: in count_cache_flush_all().
FlushFrame(s, K) == [kind |-> "flush", slot |-> s, fill |-> K]
AllFrame(s)      == [kind |-> "all", slot |-> s, fill |-> {}]

SetInit == /\ BSInit
           /\ calls = <<>>
           /\ cache = [r \in Rank |-> [s \in 1 .. Size |-> Free]]
           /\ counts = Nothing
           /\ stack = [r \in Rank |-> <<>>]
           /\ plan = <<>> /\ file = Nothing
           /\ inserted = [e \in 0 .. MaxEpoch |-> Nothing]
           /\ counting = {} /\ part = [r \in Rank |-> Nothing]
           /\ answer = [r \in Rank |-> Nothing]

Top(r)     == stack[r][1]
Program(r) == stack[r] = <<>> /\ r \notin inside \cup counting /\ epoch[r] < MaxEpoch
\* The main thread is at a point where it takes calls from the queue.
Polling(r) == \/ stack[r] = <<>> /\ r \notin counting
              \/ stack[r] # <<>> /\ Top(r).kind = "flush"
Inserts    == FoldFunction(+, 0, [e \in 0 .. MaxEpoch |-> FoldFunction(+, 0, inserted[e])])
NewCall(r, d, p) == [id |-> Len(calls) + 1, src |-> r, dst |-> d,
                     epoch |-> epoch[r], parent |-> p]
-----------------------------------------------------------------------------
(* count_cache_flush(): the slot's count goes to the owner of its key as a
   visit, at once when that is the rank itself; then async() takes calls
   from the queue, and only after it has returned the slot is emptied.  K is
   the key to fill it with afterwards, fs the frames below, p the call whose
   handler is at work (0 when none is).                                    *)
Flush(r, s, slots, K, fs, p) ==
  LET k == CHOOSE k \in slots[s].key : TRUE
      n == slots[s].n
  IN  /\ cache' = [cache EXCEPT ![r] = slots]
      /\ stack' = [stack EXCEPT ![r] = <<FlushFrame(s, K)>> \o fs]
      /\ \/ /\ Owner[k] = r
            /\ counts' = [counts EXCEPT ![k] = @ + n]
            /\ UNCHANGED <<calls, bsVars>>
         \/ /\ Owner[k] # r
            /\ BSIssue(NewCall(r, Owner[k], p))
            /\ calls' = Append(calls, [kind |-> "add", key |-> k, n |-> n])
            /\ UNCHANGED counts

\* cache_insert(k), up to its flush if there is one.
CacheInsert(r, k, fs, p) ==
  LET s    == Slot[k]
      e    == cache[r][s]
      n    == IF e.n = -1 THEN 1 ELSE e.n + 1
      full == [cache[r] EXCEPT ![s] = Cached(k, n)]
  IN  /\ inserted' = [inserted EXCEPT ![epoch[r]][k] = @ + 1]
      /\ \/ /\ e.n # -1 /\ e.key # {k}
            /\ Flush(r, s, cache[r], {k}, fs, p)
         \/ /\ e.n = -1 \/ e.key = {k}
            /\ \/ n = MaxCached /\ Flush(r, s, full, {}, fs, p)
               \/ /\ n # MaxCached
                  /\ cache' = [cache EXCEPT ![r] = full]
                  /\ stack' = [stack EXCEPT ![r] = fs]
                  /\ UNCHANGED <<calls, counts, bsVars>>

\* Fault: the slot is filled without being emptied of its count first.
Flushed_KeepsCount(r) ==
  /\ stack[r] # <<>> /\ Top(r).kind = "flush"
  /\ cache' = [cache EXCEPT ![r][Top(r).slot] =
                IF Top(r).fill = {} THEN Free ELSE [key |-> Top(r).fill, n |-> @.n + 1]]
  /\ stack' = [stack EXCEPT ![r] = Tail(@)]
  /\ UNCHANGED <<calls, counts, inserted, collVars, bsVars>>

\* The rest of count_cache_flush() and of the cache_insert() around it.
Flushed(r) ==
  /\ stack[r] # <<>> /\ Top(r).kind = "flush"
  /\ cache' = [cache EXCEPT ![r][Top(r).slot] =
                IF Top(r).fill = {} THEN Free ELSE [key |-> Top(r).fill, n |-> 1]]
  /\ stack' = [stack EXCEPT ![r] = Tail(@)]
  /\ UNCHANGED <<calls, counts, inserted, collVars, bsVars>>

Insert(r, k) == /\ Program(r) /\ Inserts < MaxInserts
                /\ CacheInsert(r, k, <<>>, 0)
                /\ UNCHANGED collVars
-----------------------------------------------------------------------------
\* The visit of a flush: an absent count is inserted as 0 before it.
Add(m) == /\ calls[m.id].kind = "add"
          /\ Polling(m.dst)
          /\ BSExecute(m)
          /\ counts' = [counts EXCEPT ![calls[m.id].key] = @ + calls[m.id].n]
          /\ UNCHANGED <<calls, cache, stack, inserted, collVars>>
-----------------------------------------------------------------------------
(* Every collective operation begins with count_cache_flush_all() and goes
   on with an operation of the map that begins with barrier().  "count"
   stands for count(), size() and count_all(): all of them sum local figures
   with all_reduce_sum().                                                  *)
Collective(r) == /\ Program(r)
                 /\ stack' = [stack EXCEPT ![r] = <<AllFrame(1)>>]
                 /\ UNCHANGED <<calls, cache, counts, inserted, collVars, bsVars>>

\* Fault: the loop over the slots leaves the last one out.
LoopFrom_SkipsLast(s) == s .. Size - 1

\* The slots that the loop has still to look at.
LoopFrom(s) == s .. Size

\* All ranks make the same operations: the first to end an epoch chooses.
Choose(r) == IF epoch[r] < Len(plan) THEN UNCHANGED plan
             ELSE \E c \in Colls : /\ c = "load" => \E i \in DOMAIN plan : plan[i] = "save"
                                  /\ plan' = Append(plan, c)

FlushAll(r) ==
  /\ stack[r] # <<>> /\ Top(r).kind = "all"
  /\ LET full == {s \in LoopFrom(Top(r).slot) : cache[r][s].n > 0}
     IN  \/ \E s \in full :
              /\ \A t \in full : s <= t
              /\ Flush(r, s, cache[r], {}, <<AllFrame(s + 1)>>, 0)
              /\ UNCHANGED <<inserted, collVars>>
         \/ /\ full = {}
            /\ BSEnter(r) /\ Choose(r)
            /\ stack' = [stack EXCEPT ![r] = <<>>]
            /\ UNCHANGED <<calls, cache, counts, inserted, file, counting, part, answer>>

\* At the keys that r owns f is replaced by g.
AtOwner(r, f, g) == [k \in Key |-> IF Owner[k] = r THEN g[k] ELSE f[k]]

\* barrier() returns, and the map's operation goes on at once.
Leave(r) ==
  LET c == plan[epoch[r] + 1]
  IN  /\ stack[r] = <<>>
      /\ BSLeave(r)
      /\ counts' = CASE c = "clear" -> AtOwner(r, counts, Nothing)
                     [] c = "load"  -> AtOwner(r, counts, file)
                     [] OTHER       -> counts
      /\ file' = IF c = "save" THEN AtOwner(r, file, counts) ELSE file
      /\ IF c = "count" THEN /\ part' = [part EXCEPT ![r] = AtOwner(r, Nothing, counts)]
                             /\ counting' = counting \cup {r}
                        ELSE UNCHANGED <<part, counting>>
      /\ UNCHANGED <<calls, cache, stack, inserted, plan, answer>>

Counted(r) == /\ r \in counting
              /\ \A s \in Rank : epoch[s] >= epoch[r]
              /\ answer' = [answer EXCEPT ![r] =
                   [k \in Key |-> FoldFunction(+, 0, [s \in Rank |-> part[s][k]])]]
              /\ counting' = counting \ {r}
              /\ UNCHANGED <<calls, cache, counts, stack, inserted, plan, file, part, bsVars>>

Ended == /\ \A r \in Rank : epoch[r] = MaxEpoch /\ r \notin counting
         /\ UNCHANGED allVars

SetNext == \/ \E r \in Rank : \/ \E k \in Key : Insert(r, k)
                              \/ Flushed(r) \/ Collective(r) \/ FlushAll(r) \/ Leave(r) \/ Counted(r)
           \/ \E m \in Pending : Add(m)
           \/ Ended

SetSpec == SetInit /\ [][SetNext]_allVars
-----------------------------------------------------------------------------
(* What the map and the file amount to when epoch e has ended, by the
   insertions of the program and the collective operations up to then.     *)
Start == [counts |-> Nothing, file |-> Nothing, before |-> Nothing]
After(d, c, ins) ==
  LET all == [k \in Key |-> d.counts[k] + ins[k]]
  IN  [before |-> all,
       counts |-> CASE c = "clear" -> Nothing [] c = "load" -> d.file [] OTHER -> all,
       file   |-> IF c = "save" THEN all ELSE d.file]
DueOf(p, ins) ==
  LET D[e \in 0 .. Len(p)] == IF e = 0 THEN Start ELSE After(D[e - 1], p[e], ins[e - 1])
  IN  D
Due == DueOf(plan, inserted)
Since(k, e) == FoldFunction(+, 0, [f \in e .. MaxEpoch |-> inserted[f][k]])
Flushing(r) == {stack[r][i].slot : i \in {j \in DOMAIN stack[r] : stack[r][j].kind = "flush"}}
\* Increments of k in r's cache, or about to be put there.
InCache(r, k) ==
  LET held == {s \in (1 .. Size) \ Flushing(r) : cache[r][s].key = {k}}
      fill == {i \in DOMAIN stack[r] : stack[r][i].fill = {k}}
  IN  FoldFunction(+, 0, [s \in held |-> cache[r][s].n]) + Cardinality(fill)
InCaches(k) == FoldFunction(+, 0, [r \in Rank |-> InCache(r, k)])
Sending(k) ==
  FoldFunction(+, 0, [m \in {c \in Pending : calls[c.id].kind = "add" /\ calls[c.id].key = k}
                        |-> calls[m.id].n])

(* No insertion is lost or counted twice on its way from async_insert()
   (97-117) through the cache, the flush (119-129) and the visit at the
   owner, and clear() and deserialize() (37-40, 82-85) take away those of
   before and no other: what the owner's epoch began with, and all that was
   inserted since, is what the map holds, what is being sent and what the
   caches hold.  Cached counts stay below their maximum (114).             *)
CountsConserved ==
  /\ LET D == Due
     IN  \A k \in Key :
           LET e == epoch[Owner[k]]
           IN  D[e].counts[k] + Since(k, e) = counts[k] + Sending(k) + InCaches(k)
  /\ \A r \in Rank : \A s \in (1 .. Size) \ Flushing(r) :
       cache[r][s].n # 0 /\ cache[r][s].n < MaxCached

(* count(k) returns on every rank the number of insertions of k made by all
   ranks before they called it (47-56), wherever the increments were, and
   since the last clear() or that of the last file that was read.          *)
CountExact ==
  \A r \in Rank \ counting :
    epoch[r] > 0 /\ plan[epoch[r]] = "count" => answer[r] = Due[epoch[r]].before
-----------------------------------------------------------------------------
(* Together with CountsConserved and CountExact, an inductive invariant.    *)
Entry(s) == {Free} \cup {Cached(k, n) : k \in {q \in Key : Slot[q] = s}, n \in 1 .. MaxCached}

SetTypeOK ==
  /\ issued \subseteq Call /\ IsFiniteSet(issued) /\ executed \subseteq issued
  /\ inside \subseteq Rank /\ counting \subseteq Rank
  /\ epoch \in [Rank -> Nat]
  /\ calls \in Seq([kind : {"add"}, key : Key, n : Nat])
  /\ counts \in [Key -> Nat] /\ file \in [Key -> Nat]
  /\ inserted \in [0 .. MaxEpoch -> [Key -> Nat]]
  /\ plan \in Seq(Colls) /\ Len(plan) <= MaxEpoch
  /\ part \in [Rank -> [Key -> Nat]] /\ answer \in [Rank -> [Key -> Nat]]
  /\ stack = [r \in Rank |-> stack[r]]
  /\ cache = [r \in Rank |-> [s \in 1 .. Size |-> cache[r][s]]]
  /\ \A r \in Rank : \A s \in 1 .. Size : cache[r][s] \in Entry(s)

(* What the main thread of a rank may be in the middle of: a flush for an
   insertion, the loop over the slots, or a flush of that loop.            *)
StackForm(st) ==
  \/ st = <<>>
  \/ \E s \in 1 .. Size + 1 : st = <<AllFrame(s)>>
  \/ \E s \in 1 .. Size : \/ \E k \in Key : Slot[k] = s /\ st = <<FlushFrame(s, {k})>>
                         \/ st = <<FlushFrame(s, {})>>
                         \/ st = <<FlushFrame(s, {}), AllFrame(s + 1)>>

(* A slot that is not being flushed is below the maximum; those that the loop
   has passed are empty, and all are in a barrier.                         *)
CacheInv ==
  \A r \in Rank :
    /\ StackForm(stack[r])
    /\ stack[r] # <<>> => r \notin inside \cup counting /\ epoch[r] < MaxEpoch
    /\ \A s \in (1 .. Size) \ Flushing(r) :
         /\ cache[r][s].n < MaxCached
         /\ r \in inside => cache[r][s] = Free
         /\ \A i \in DOMAIN stack[r] :
              stack[r][i].kind = "all" /\ s < stack[r][i].slot => cache[r][s] = Free

LockstepInv ==
  /\ \A r, s \in Rank : epoch[s] < epoch[r] => s \in inside /\ epoch[r] = epoch[s] + 1
  /\ \A r \in Rank : (IF r \in inside THEN epoch[r] + 1 ELSE epoch[r]) <= Len(plan)
  /\ inside \cap counting = {}

CallInv ==
  /\ \A m \in issued : m.id \in DOMAIN calls
  /\ \A m, n \in issued : m.id = n.id => m = n
  /\ \A m \in Pending : /\ epoch[m.src] = m.epoch /\ \A s \in Rank : epoch[s] <= m.epoch
                        /\ m.dst = Owner[calls[m.id].key]

(* Nothing is inserted in an epoch that nobody has reached.  While another
   rank has left the barrier that the owner is in, all that is on its way
   belongs to the next epoch.                                              *)
FlowInv ==
  /\ \A e \in 0 .. MaxEpoch : (\A r \in Rank : epoch[r] < e) => inserted[e] = Nothing
  /\ \A k \in Key : \A s \in Rank : epoch[s] = epoch[Owner[k]] + 1 =>
       Since(k, epoch[s]) = Sending(k) + InCaches(k)

\* The files, and the contributions to a count, are of the end of an epoch.
DueInv ==
  LET D == Due
  IN  /\ \A k \in Key : file[k] = D[epoch[Owner[k]]].file[k]
      /\ \A r \in Rank : epoch[r] > 0 /\ plan[epoch[r]] = "count" =>
           part[r] = AtOwner(r, Nothing, D[epoch[r]].before)

SetInv == SetTypeOK /\ CacheInv /\ LockstepInv /\ CallInv /\ FlowInv /\ DueInv
=============================================================================
