------------------------------ MODULE YgmTopk ------------------------------
(***************************************************************************)
(* map_impl::topk() (include/ygm/container/detail/map_impl.hpp): every     *)
(* rank selects the first K of its local map by the caller's order, and    *)
(* the selections are merged by the tree of YgmTree.  Elements are         *)
(* numbers, the greater first; the caller passes the same K everywhere.    *)
(***************************************************************************)
EXTENDS Integers, Sequences, FiniteSets, SequencesExt

CONSTANTS Size, ChanCap, MaxRounds,
          K,     \* how many elements are asked for
          Maps   \* what a local map may hold when topk() is called

ASSUME TopkAssumption == /\ {Size, ChanCap, K} \subseteq Nat \ {0}
                         /\ Maps \subseteq Seq(Nat)

VARIABLES given, returned, pc, tmp, sized, chan, bcasts,
          held   \* held[r]: r's local map at each of its topk() (history)

\* std::sort, then pop_back() while there are more than K.
Keep(s)         == SubSeq(SortSeq(s, >), 1, IF Len(s) > K THEN K ELSE Len(s))
MergeTopk(a, b) == Keep(a \o b)

\* Fault: an element is dropped when there are K already.
LocalTopk_DropsAtK(m) ==
  FoldLeft(LAMBDA t, x : IF Len(t) + 1 >= K THEN Front(SortSeq(Append(t, x), >))
                         ELSE Append(t, x), <<>>, m)
LocalTopk(m) == FoldLeft(LAMBDA t, x : Keep(Append(t, x)), <<>>, m)

INSTANCE YgmTree WITH Merge <- MergeTopk, Input <- {LocalTopk(m) : m \in Maps}

topkVars == <<given, returned, pc, tmp, sized, chan, bcasts, held>>

TopkInit == TreeInit /\ held = [r \in Rank |-> <<>>]

Topk(r, m) == /\ Call(r, LocalTopk(m))
              /\ held' = [held EXCEPT ![r] = Append(@, m)]

TopkWork(r) == Work(r) /\ UNCHANGED held

TopkNext == \E r \in Rank : TopkWork(r) \/ \E m \in Maps : Topk(r, m)

\* Threads keep running and MPI makes progress; nothing obliges a rank to call topk().
TopkSpec == /\ TopkInit /\ [][TopkNext]_topkVars
            /\ \A r \in Rank : WF_topkVars(TopkWork(r))
-----------------------------------------------------------------------------
(* topk() returns on every rank the K first elements of all local maps
   together, as they were when the ranks called it (244-267): truncating
   before merging loses none of them, however they are spread.             *)
TopkExact ==
  \A r \in Rank : \A i \in DOMAIN returned[r] :
     returned[r][i] = Keep(FlattenSeq([s \in 1 .. Size |-> held[s - 1][i]]))

(* Once every rank has called its i-th topk() all of them return from it:
   the sends, receives and broadcasts of all_reduce() (321-346), any of which
   may block, never wait for each other in a circle, whatever the order in
   which ranks call and however far some are ahead in the next one.         *)
TopkReturns ==
  \A i \in 1 .. MaxRounds :
     (\A r \in Rank : Len(given[r]) >= i) ~> (\A r \in Rank : Len(returned[r]) >= i)
=============================================================================
