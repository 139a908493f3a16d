----------------------------- MODULE YgmBarrier -----------------------------
(***************************************************************************)
(* comm::impl::barrier() and the counting of remote calls it relies on     *)
(* (include/ygm/detail/comm_impl.hpp).  The transport - send buffers, MPI  *)
(* channels, listener thread, receive queue - is abstracted to the set of  *)
(* calls in flight, delivered in any order; YgmComm models it and is       *)
(* checked to implement this module.  Only the main thread of each rank    *)
(* appears: it makes calls, runs handlers (one inside another when a       *)
(* handler's own async() finds work queued) and contributes to the two     *)
(* reductions of a barrier.                                                *)
(***************************************************************************)
EXTENDS Integers, Sequences, FiniteSets

CONSTANTS Rank,      \* the processes of the communicator
          MaxCalls,  \* bound: calls made to other ranks in a behaviour
          MaxEpoch,  \* bound: barriers each rank goes through
          Fanout,    \* bound: calls one handler makes
          None       \* no reduction result waiting

ASSUME RankAssumption  == IsFiniteSet(Rank) /\ Rank # {}
ASSUME BoundAssumption == MaxCalls \in Nat /\ MaxEpoch \in Nat /\ Fanout \in Nat
ASSUME NoneAssumption  == None \notin Int

VARIABLES issued,     \* calls made to another rank (history)
          executed,   \* calls whose handler has returned (history)
          stack,      \* stack[r]: the handlers r is running, innermost first
          sendCount,  \* m_send_count
          recvCount,  \* m_recv_count
          pc,         \* where the main thread is, in or out of barrier()
          firstLocal, \* first_local_count
          arSum,      \* sum of the contributions to the reduction under way
          result,     \* result[r]: first_/second_all_count, once available
          epoch       \* barriers returned from

callVars == <<issued, executed, stack, sendCount, recvCount>>
collVars == <<pc, firstLocal, arSum, result, epoch>>
vars     == <<issued, executed, stack, sendCount, recvCount,
              pc, firstLocal, arSum, result, epoch>>

(* app: outside barrier().  idle: in wait_local_idle() at the top of the
   loop.  wait1: MPI_Iallreduce posted, polling it with MPI_Test and
   wait_local_idle().  wait2: in the blocking MPI_Allreduce.  thrown: the
   ASSERT_RELEASE after it has thrown.                                     *)
Place == {"app", "idle", "wait1", "wait2", "thrown"}

Call == [id : Nat \ {0}, src : Rank, dst : Rank, epoch : Nat, parent : Nat]

Elems(s)   == {s[i] : i \in DOMAIN s}
Running    == UNION {Elems(stack[r]) : r \in Rank}
InFlight   == (issued \ executed) \ Running
Waiting    == {"wait1", "wait2"}
\* Ranks that have contributed to the reduction under way.
Gathered   == {r \in Rank : pc[r] \in Waiting /\ result[r] = None}
Inside     == {r \in Rank : pc[r] # "app"}
LocalCount(r) == sendCount[r] - recvCount[r]

Init == /\ issued = {} /\ executed = {}
        /\ stack = [r \in Rank |-> <<>>]
        /\ sendCount = [r \in Rank |-> 0] /\ recvCount = [r \in Rank |-> 0]
        /\ pc = [r \in Rank |-> "app"]
        /\ firstLocal = [r \in Rank |-> 0]
        /\ arSum = 0
        /\ result = [r \in Rank |-> None]
        /\ epoch = [r \in Rank |-> 0]
-----------------------------------------------------------------------------
(* async(): the main program calls it outside barrier(), a handler while it
   is the innermost one.  A call to the caller's own rank runs inline, is not
   counted and belongs to its caller, so it needs no step here.            *)
Parent(r) == IF stack[r] = <<>> THEN 0 ELSE Head(stack[r]).id
MayCall(r) == IF stack[r] = <<>>
              THEN pc[r] = "app" /\ epoch[r] < MaxEpoch
              ELSE Cardinality({m \in issued : m.parent = Parent(r)}) < Fanout

NewCall(r, d) == [id |-> Cardinality(issued) + 1, src |-> r, dst |-> d,
                  epoch |-> epoch[r], parent |-> Parent(r)]

\* Fault: a call made by a handler is not counted as sent.
Async_HandlerUncounted(r, d) ==
  /\ MayCall(r) /\ Cardinality(issued) < MaxCalls
  /\ issued' = issued \cup {NewCall(r, d)}
  /\ sendCount' = [sendCount EXCEPT ![r] = IF stack[r] = <<>> THEN @ + 1 ELSE @]
  /\ UNCHANGED <<executed, stack, recvCount>> /\ UNCHANGED collVars

Async(r, d) == /\ MayCall(r)
               /\ Cardinality(issued) < MaxCalls
               /\ issued' = issued \cup {NewCall(r, d)}
               /\ sendCount' = [sendCount EXCEPT ![r] = @ + 1]
               /\ UNCHANGED <<executed, stack, recvCount>> /\ UNCHANGED collVars

(* receive_queue_process() takes a call that has arrived and starts its
   handler: from an async() of the main program or of the running handler
   (one to its own rank is always possible), or from wait_local_idle().    *)
Begin(m) == LET r == m.dst IN
            /\ m \in InFlight
            /\ stack[r] # <<>> \/ pc[r] \in {"app", "idle", "wait1"}
            /\ stack' = [stack EXCEPT ![r] = <<m>> \o @]
            /\ UNCHANGED <<issued, executed, sendCount, recvCount>>
            /\ UNCHANGED collVars

\* The innermost handler returns; only then is the call counted as received.
End(r) == /\ stack[r] # <<>>
          /\ executed' = executed \cup {Head(stack[r])}
          /\ stack' = [stack EXCEPT ![r] = Tail(@)]
          /\ recvCount' = [recvCount EXCEPT ![r] = @ + 1]
          /\ UNCHANGED <<issued, sendCount>> /\ UNCHANGED collVars
-----------------------------------------------------------------------------
Enter(r) == /\ pc[r] = "app" /\ stack[r] = <<>> /\ epoch[r] < MaxEpoch
            /\ pc' = [pc EXCEPT ![r] = "idle"]
            /\ UNCHANGED <<firstLocal, arSum, result, epoch>>
            /\ UNCHANGED callVars

(* Give LocalCount(r) to the reduction under way; the last rank to do so
   completes it, and the sum becomes available to every rank.              *)
Contribute(r) ==
  LET total == arSum + LocalCount(r)
  IN  IF Gathered = Rank \ {r}
      THEN arSum' = 0 /\ result' = [s \in Rank |-> total]
      ELSE arSum' = total /\ result' = [result EXCEPT ![r] = None]

\* Fault: first_local_count is not refreshed when the loop starts over.
First_StaleCount(r) ==
  /\ pc[r] = "idle" /\ stack[r] = <<>>
  /\ pc' = [pc EXCEPT ![r] = "wait1"]
  /\ Contribute(r)
  /\ UNCHANGED <<firstLocal, epoch>> /\ UNCHANGED callVars

\* wait_local_idle() is done: MPI_Iallreduce.
First(r) == /\ pc[r] = "idle" /\ stack[r] = <<>>
            /\ pc' = [pc EXCEPT ![r] = "wait1"]
            /\ firstLocal' = [firstLocal EXCEPT ![r] = LocalCount(r)]
            /\ Contribute(r)
            /\ UNCHANGED epoch /\ UNCHANGED callVars

\* Fault: the first sum being zero is taken as the end of the barrier.
Second_NoDoubleCheck(r) ==
  /\ pc[r] = "wait1" /\ stack[r] = <<>> /\ result[r] = 0
  /\ pc' = [pc EXCEPT ![r] = "app"]
  /\ epoch' = [epoch EXCEPT ![r] = @ + 1]
  /\ result' = [result EXCEPT ![r] = None]
  /\ firstLocal' = [firstLocal EXCEPT ![r] = 0]
  /\ UNCHANGED arSum /\ UNCHANGED callVars

\* Fault: the rank's own count is tested instead of the sum.
Second_TestsLocal(r) ==
  /\ pc[r] = "wait1" /\ stack[r] = <<>> /\ result[r] # None /\ LocalCount(r) = 0
  /\ pc' = [pc EXCEPT ![r] = "wait2"]
  /\ Contribute(r)
  /\ UNCHANGED <<firstLocal, epoch>> /\ UNCHANGED callVars

\* MPI_Test finds the first reduction complete with sum zero: double check.
Second(r) == /\ pc[r] = "wait1" /\ stack[r] = <<>> /\ result[r] = 0
             /\ pc' = [pc EXCEPT ![r] = "wait2"]
             /\ Contribute(r)
             /\ UNCHANGED <<firstLocal, epoch>> /\ UNCHANGED callVars

\* Fault: the old request is tested again after starting over.
Restart_KeepsResult(r) ==
  /\ pc[r] \in Waiting /\ stack[r] = <<>> /\ result[r] \notin {None, 0}
  /\ pc' = [pc EXCEPT ![r] = "idle"]
  /\ firstLocal' = [firstLocal EXCEPT ![r] = 0]
  /\ UNCHANGED <<arSum, result, epoch>> /\ UNCHANGED callVars

\* Either reduction gave a sum other than zero: start over.
Restart(r) == /\ pc[r] \in Waiting /\ stack[r] = <<>>
              /\ result[r] \notin {None, 0}
              /\ pc' = [pc EXCEPT ![r] = "idle"]
              /\ result' = [result EXCEPT ![r] = None]
              /\ firstLocal' = [firstLocal EXCEPT ![r] = 0]
              /\ UNCHANGED <<arSum, epoch>> /\ UNCHANGED callVars

\* Fault: the second sum is not looked at.
AtAssert_AnySum(r) == pc[r] = "wait2" /\ result[r] # None

(* Both sums were zero.  second_local_count is still LocalCount(r): the main
   thread, the only one to touch the counters, was blocked since it was
   read.                                                                   *)
AtAssert(r) == pc[r] = "wait2" /\ result[r] = 0

Leave(r) == /\ AtAssert(r) /\ firstLocal[r] = LocalCount(r)
            /\ pc' = [pc EXCEPT ![r] = "app"]
            /\ epoch' = [epoch EXCEPT ![r] = @ + 1]
            /\ result' = [result EXCEPT ![r] = None]
            /\ firstLocal' = [firstLocal EXCEPT ![r] = 0]
            /\ UNCHANGED arSum /\ UNCHANGED callVars

Throw(r) == /\ AtAssert(r) /\ firstLocal[r] # LocalCount(r)
            /\ pc' = [pc EXCEPT ![r] = "thrown"]
            /\ result' = [result EXCEPT ![r] = None]
            /\ UNCHANGED <<firstLocal, arSum, epoch>> /\ UNCHANGED callVars

(* Every rank is through its last barrier (the one of ~impl), or an
   assertion has failed somewhere, which ends the program.                 *)
Stop == /\ \/ \A r \in Rank : pc[r] = "app" /\ epoch[r] = MaxEpoch
           \/ \E r \in Rank : pc[r] = "thrown"
        /\ UNCHANGED vars

RankStep(r) == \/ \E d \in Rank \ {r} : Async(r, d)
               \/ End(r) \/ Enter(r)
               \/ First(r) \/ Second(r) \/ Restart(r) \/ Leave(r) \/ Throw(r)

Next == (\E r \in Rank : RankStep(r)) \/ (\E m \in issued : Begin(m)) \/ Stop

Spec == Init /\ [][Next]_vars
-----------------------------------------------------------------------------
(* Every variable has its type.                                            *)
TypeOK ==
  /\ issued \subseteq Call /\ IsFiniteSet(issued)
  /\ executed \subseteq Call
  /\ stack \in [Rank -> Seq(Call)]
  /\ sendCount \in [Rank -> Nat] /\ recvCount \in [Rank -> Nat]
  /\ pc \in [Rank -> Place]
  /\ firstLocal \in [Rank -> Int] /\ arSum \in Int
  /\ result \in [Rank -> Int \cup {None}]
  /\ epoch \in [Rank -> Nat]

(* The promise of barrier() (145-175): once any rank has returned from its
   e-th barrier, no call issued during the first e epochs, by any rank or by
   a handler, is still pending anywhere.                                   *)
BarrierPromise == \A m \in issued \ executed : \A r \in Rank : epoch[r] <= m.epoch

(* A handler runs in the same epoch as the rank that issued the call: a call
   is never run by a rank that has not reached, or has left, that epoch.   *)
EpochIsolation == \A r \in Rank : \A i \in DOMAIN stack[r] :
                     stack[r][i].epoch = epoch[r]

(* The reductions of different ranks match (151-163): no rank is in
   the polled reduction while another is in the blocking one, and ranks that
   hold a result hold the same result of the same reduction.               *)
CollectivesMatch ==
  /\ \A r, s \in Gathered : pc[r] = pc[s]
  /\ \A r, s \in Rank : result[r] # None /\ result[s] # None
                          => result[r] = result[s] /\ pc[r] = pc[s]

(* ASSERT_RELEASE(first_local_count == second_local_count) (165) never
   throws: when both sums are zero, no rank's own count has moved.         *)
NoFalseAssert == \A r \in Rank : pc[r] # "thrown"

(* ... and as long as no handler has made more than one call, it does not: a
   rank's count can only fall between its two contributions, so with both sums
   zero no count has moved.                                                *)
Chains == \A m \in issued : Cardinality({c \in issued : c.parent = m.id}) <= 1
ChainsPassAssert == Chains => NoFalseAssert

(* The protocol gives its users the bulk-synchronous execution of
   YgmBulkSync.                                                            *)
BS == INSTANCE YgmBulkSync WITH inside <- Inside
BulkSync == BS!BSSpec

(* Once every rank has called barrier(), every rank returns from it, unless
   the assertion stops the program: the double-check loop does not restart
   for ever and no rank is left behind by the others.                      *)
BarrierReturns ==
  \A r \in Rank : (\A s \in Rank : pc[s] # "app" /\ epoch[s] >= epoch[r])
                   ~> (pc[r] = "app" \/ \E s \in Rank : pc[s] = "thrown")
-----------------------------------------------------------------------------
(* The inductive invariant behind BarrierPromise and EpochIsolation.       *)

\* Between the two reductions: first sum seen to be zero, second not known.
Doubting(r) == \/ pc[r] = "wait1" /\ result[r] = 0
               \/ pc[r] = "wait2" /\ result[r] = None
\* Both sums were zero and r has still to return (or has thrown).
Closed(r) == AtAssert(r) \/ pc[r] = "thrown"
\* r has returned while others have not.
Ahead(r) == pc[r] \in {"app", "idle", "wait1"} /\ result[r] = None

SentBy(S) == {m \in issued : m.src \in S}
RunAt(S)  == {m \in executed : m.dst \in S}

IdsInv == \A m \in issued : m.id <= Cardinality(issued)

\* Handlers under way are of distinct pending calls, at their destination.
StackInv ==
  /\ executed \subseteq issued
  /\ \A r \in Rank : pc[r] \in {"wait2", "thrown"} => stack[r] = <<>>
  /\ \A r \in Rank : \A i \in DOMAIN stack[r] :
       /\ stack[r][i] \in issued \ executed
       /\ stack[r][i].dst = r
       /\ \A j \in DOMAIN stack[r] : stack[r][i] = stack[r][j] => i = j

\* The counters of a rank count its calls and its finished handlers.
CountInv == \A r \in Rank : /\ sendCount[r] = Cardinality(SentBy({r}))
                            /\ recvCount[r] = Cardinality(RunAt({r}))

ResultInv ==
  /\ \A r \in Rank : result[r] # None => pc[r] \in Waiting
  /\ \A r, s \in Rank : result[r] # None /\ result[s] # None
                          => result[r] = result[s] /\ pc[r] = pc[s]

(* The second reduction is entered by all ranks or by none, and sums counts
   of ranks that have stopped moving.                                      *)
DoubtInv ==
  (\E r \in Rank : Doubting(r)) =>
     /\ \A s \in Rank : Doubting(s)
     /\ arSum = Cardinality(SentBy(Gathered)) - Cardinality(RunAt(Gathered))

EpochInv ==
  /\ \A r \in Rank : Closed(r) =>
       \A s \in Rank : \/ Closed(s) /\ epoch[s] = epoch[r]
                       \/ Ahead(s) /\ epoch[s] = epoch[r] + 1
  /\ (\A r \in Rank : ~Closed(r)) => \A r, s \in Rank : epoch[r] = epoch[s]

PendingInv ==
  /\ \A m \in issued \ executed :
       /\ m.epoch <= epoch[m.src]
       /\ \A r \in Rank : /\ epoch[r] <= m.epoch
                          /\ Closed(r) => m.epoch # epoch[r]
  /\ EpochIsolation

\* Ranks whose first_local_count is part of the sum that is under way, or of
\* the sum of zero that is being checked again.
Snapped == {r \in Rank : \/ pc[r] = "wait1" /\ result[r] \in {None, 0}
                         \/ pc[r] = "wait2" /\ result[r] = None}

(* S and T are the calls and the finished handlers that first_local_count
   has counted.  What a rank has called since, a handler called that had not
   finished then.                                                          *)
Snapshot(S, T) ==
  /\ \A c \in S : c.src \in Snapped
  /\ \A c \in T : c.dst \in Snapped
  /\ \A r \in Snapped : firstLocal[r] = Cardinality({c \in S : c.src = r})
                                         - Cardinality({c \in T : c.dst = r})
  /\ \A c \in issued \ S : c.src \in Snapped =>
       \E p \in issued \ T : p.dst = c.src /\ p.id = c.parent
  /\ Cardinality(S) - Cardinality(T) = IF \E r \in Rank : Doubting(r) THEN 0 ELSE arSum

HasSnapshot == \E S \in SUBSET issued, T \in SUBSET executed : Snapshot(S, T)

ChainInv == Chains =>
              /\ HasSnapshot
              /\ \A r \in Rank : AtAssert(r) => firstLocal[r] = LocalCount(r)
              /\ NoFalseAssert

IInv == /\ TypeOK /\ IdsInv /\ StackInv /\ CountInv
        /\ ResultInv /\ DoubtInv /\ EpochInv /\ PendingInv /\ ChainInv
=============================================================================
