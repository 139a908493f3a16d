----------------------------- MODULE YgmThreads -----------------------------
(***************************************************************************)
(* async() called inside an OpenMP loop, as comm.hpp says it can be: while *)
(* a rank is in its program, the threads of a parallel region call async() *)
(* at the same time.  comm::impl locks the pool of buffers and the receive *)
(* queue but not its counters, so an increment is a load and a store with  *)
(* others between (include/ygm/detail/comm_impl.hpp).  barrier() is that   *)
(* of YgmBarrier and is called when the region is over.                    *)
(*                                                                         *)
(* The send buffers are shared as much as the counters; what a race on     *)
(* them does is left out: calls still travel intact here.                  *)
(***************************************************************************)
EXTENDS YgmBarrier

CONSTANT Thread  \* the threads of a parallel region

VARIABLE doing   \* doing[r][t]: the increment that a thread is in, or <<>>

threadVars == <<vars, doing>>

ThreadsInit == Init /\ doing = [r \in Rank |-> [t \in Thread |-> <<>>]]

\* The main thread is alone, before or after a parallel region.
Serial(r) == \A t \in Thread : doing[r][t] = <<>>
InRegion(r) == pc[r] = "app" /\ stack[r] = <<>> /\ epoch[r] < MaxEpoch

\* m_send_count++ in async(): the count is read ...
LoadSend(r, t, d) ==
  /\ InRegion(r) /\ doing[r][t] = <<>>
  /\ Cardinality(issued) < MaxCalls
  /\ doing' = [doing EXCEPT ![r][t] = [op |-> "send", value |-> sendCount[r], dest |-> d]]
  /\ UNCHANGED vars

\* ... and written, and the call is packed and put in the buffer of its destination.
StoreSend(r, t) ==
  /\ doing[r][t] # <<>> /\ doing[r][t].op = "send"
  /\ sendCount' = [sendCount EXCEPT ![r] = doing[r][t].value + 1]
  /\ issued' = issued \cup {NewCall(r, doing[r][t].dest)}
  /\ doing' = [doing EXCEPT ![r][t] = <<>>]
  /\ UNCHANGED <<executed, stack, recvCount>> /\ UNCHANGED collVars

(* At the end of an async() the thread may find the queue not empty: it runs
   the handler of a call - here one that makes no calls - and increments
   m_recv_count.                                                           *)
LoadRecv(r, t, m) ==
  /\ InRegion(r) /\ doing[r][t] = <<>>
  /\ m \in InFlight /\ m.dst = r
  /\ executed' = executed \cup {m}
  /\ doing' = [doing EXCEPT ![r][t] = [op |-> "recv", value |-> recvCount[r]]]
  /\ UNCHANGED <<issued, stack, sendCount, recvCount>> /\ UNCHANGED collVars

StoreRecv(r, t) ==
  /\ doing[r][t] # <<>> /\ doing[r][t].op = "recv"
  /\ recvCount' = [recvCount EXCEPT ![r] = doing[r][t].value + 1]
  /\ doing' = [doing EXCEPT ![r][t] = <<>>]
  /\ UNCHANGED <<issued, executed, stack, sendCount>> /\ UNCHANGED collVars

Region(r, t) == \/ \E d \in Rank \ {r} : LoadSend(r, t, d)
                \/ \E m \in issued : LoadRecv(r, t, m)
                \/ StoreSend(r, t) \/ StoreRecv(r, t)

ThreadsNext == \/ \E r \in Rank, t \in Thread : Region(r, t)
               \/ \E r \in Rank : Serial(r) /\ RankStep(r) /\ UNCHANGED doing
               \/ \E m \in issued : Serial(m.dst) /\ Begin(m) /\ UNCHANGED doing
               \/ Stop /\ UNCHANGED doing

ThreadsSpec == ThreadsInit /\ [][ThreadsNext]_threadVars
-----------------------------------------------------------------------------
(* The promise of barrier() (145-175), now that async() can be called inside
   an OpenMP loop (comm.hpp 25): once a rank has returned from a barrier, no
   call issued before it is still pending.                                 *)
ThreadsKeepPromise == BarrierPromise
=============================================================================
