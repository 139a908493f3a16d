------------------------------ MODULE YgmTree ------------------------------
(***************************************************************************)
(* comm::impl::all_reduce() with the mpi_send(), mpi_recv() and mpi_bcast()*)
(* it is made of (include/ygm/detail/comm_impl.hpp): a binary tree of      *)
(* ranks in which everybody merges what its children send into its own     *)
(* input and sends the outcome to its parent; rank 0 broadcasts.  Ranks    *)
(* may be in different all-reduces, on one communicator and with one tag.  *)
(***************************************************************************)
EXTENDS Integers, Sequences, FiniteSets

CONSTANTS Size, Merge(_, _), Input,
          ChanCap,   \* messages, or broadcasts, that MPI buffers
          MaxRounds  \* bound: all-reduces each rank takes part in

VARIABLES given, returned, \* inputs and results so far (history)
          pc,        \* where the rank is in all_reduce(), or "out"
          tmp,       \* tmp of all_reduce()
          sized,     \* ranks that have received a size and wait for the data
          chan,      \* chan[s][d]: messages from s to d on m_comm_other, tag 0
          bcasts     \* what rank 0 has broadcast

treeVars == <<given, returned, pc, tmp, sized, chan, bcasts>>

Rank == 0 .. Size - 1

\* The caller's function may be applied to the inputs in any order.
Merging(V) == /\ Input \subseteq V
              /\ \A a, b \in V : Merge(a, b) \in V /\ Merge(a, b) = Merge(b, a)
              /\ \A a, b, c \in V : Merge(Merge(a, b), c) = Merge(a, Merge(b, c))

TreeInit == /\ given = [r \in Rank |-> <<>>] /\ returned = [r \in Rank |-> <<>>]
            /\ pc = [r \in Rank |-> "out"]
            /\ tmp = [r \in Rank |-> {}]
            /\ sized = {}
            /\ chan = [s \in Rank |-> [d \in Rank |-> <<>>]]
            /\ bcasts = <<>>

FirstChild(r)  == 2 * r + 1
SecondChild(r) == 2 * (r + 1)
Parent(r)      == (r - 1) \div 2   \* of the others than rank 0

\* The next place at which the rank may have to wait.
AfterChildren_NoSend(r) == "bcast" \* fault: the parent is sent nothing
AfterChildren(r) == IF r = 0 THEN "bcast" ELSE "send_size"
\* Fault: the last rank's parent does not wait for it.
AfterFirst_OffByOne(r) == IF SecondChild(r) + 1 < Size THEN "second" ELSE AfterChildren(r)
AfterFirst(r)    == IF SecondChild(r) < Size THEN "second" ELSE AfterChildren(r)
Start(r)         == IF FirstChild(r) < Size THEN "first" ELSE AfterFirst(r)

Call(r, v) == /\ pc[r] = "out" /\ Len(given[r]) < MaxRounds
              /\ given' = [given EXCEPT ![r] = Append(@, v)]
              /\ tmp' = [tmp EXCEPT ![r] = v]
              /\ pc' = [pc EXCEPT ![r] = Start(r)]
              /\ UNCHANGED <<returned, sized, chan, bcasts>>
-----------------------------------------------------------------------------
Child(r)    == IF pc[r] = "first" THEN FirstChild(r) ELSE SecondChild(r)
Awaiting(r) == pc[r] \in {"first", "second"} /\ chan[Child(r)][r] # <<>>
Taken(r)    == [chan EXCEPT ![Child(r)][r] = Tail(@)]

\* mpi_recv(): the packed size ...
RecvSize(r) == /\ Awaiting(r) /\ r \notin sized
               /\ chan' = Taken(r)
               /\ sized' = sized \cup {r}
               /\ UNCHANGED <<given, returned, pc, tmp, bcasts>>

\* Fault: the child's value replaces what has been merged so far.
RecvData_Overwrites(r) ==
  /\ Awaiting(r) /\ r \in sized
  /\ chan' = Taken(r)
  /\ tmp' = [tmp EXCEPT ![r] = Head(chan[Child(r)][r]).value]
  /\ sized' = sized \ {r}
  /\ pc' = [pc EXCEPT ![r] = IF @ = "first" THEN AfterFirst(r) ELSE AfterChildren(r)]
  /\ UNCHANGED <<given, returned, bcasts>>

\* ... and the value, which is merged.
RecvData(r) ==
  /\ Awaiting(r) /\ r \in sized
  /\ chan' = Taken(r)
  /\ tmp' = [tmp EXCEPT ![r] = Merge(@, Head(chan[Child(r)][r]).value)]
  /\ sized' = sized \ {r}
  /\ pc' = [pc EXCEPT ![r] = IF @ = "first" THEN AfterFirst(r) ELSE AfterChildren(r)]
  /\ UNCHANGED <<given, returned, bcasts>>

\* mpi_send(): the same two messages; either MPI_Send may block.
Send(r) ==
  /\ pc[r] \in {"send_size", "send_data"}
  /\ Len(chan[r][Parent(r)]) < ChanCap
  /\ chan' = [chan EXCEPT ![r][Parent(r)] =
                Append(@, [part |-> pc[r], value |-> IF pc[r] = "send_size" THEN {} ELSE tmp[r]])]
  /\ pc' = [pc EXCEPT ![r] = IF @ = "send_size" THEN "send_data" ELSE "bcast"]
  /\ UNCHANGED <<given, returned, tmp, sized, bcasts>>
-----------------------------------------------------------------------------
(* mpi_bcast(), its two MPI_Bcasts taken together.  The root need not wait
   for the others, unless MPI has no room for one more broadcast.          *)
Bcast == /\ pc[0] = "bcast"
         /\ \A r \in Rank \ {0} : Len(bcasts) < Len(returned[r]) + ChanCap
         /\ bcasts' = Append(bcasts, tmp[0])
         /\ returned' = [returned EXCEPT ![0] = Append(@, tmp[0])]
         /\ pc' = [pc EXCEPT ![0] = "out"]
         /\ UNCHANGED <<given, tmp, sized, chan>>

GetBcast(r) == /\ r # 0 /\ pc[r] = "bcast"
               /\ Len(bcasts) > Len(returned[r])
               /\ returned' = [returned EXCEPT ![r] = Append(@, bcasts[Len(@) + 1])]
               /\ pc' = [pc EXCEPT ![r] = "out"]
               /\ UNCHANGED <<given, tmp, sized, chan, bcasts>>

Work(r) == RecvSize(r) \/ RecvData(r) \/ Send(r) \/ GetBcast(r) \/ (r = 0 /\ Bcast)

TreeNext == \E r \in Rank : Work(r) \/ \E v \in Input : Call(r, v)
TreeSpec == TreeInit /\ [][TreeNext]_treeVars
-----------------------------------------------------------------------------
(* How far a rank is: in how many all-reduces it has merged all its children,
   how many messages it has sent to its parent, in how many it has merged
   its child c, and how many messages it has received from it.             *)
Waiting(r)   == pc[r] \in {"first", "second"}
Done(r)      == Len(given[r]) - (IF Waiting(r) THEN 1 ELSE 0)
Sent(r)      == 2 * Len(given[r]) - (IF pc[r] \in {"bcast", "out"} THEN 0
                                     ELSE IF pc[r] = "send_data" THEN 1 ELSE 2)
Merged(r, c) == Len(given[r])
                - (IF pc[r] = "first" \/ (pc[r] = "second" /\ c = SecondChild(r))
                   THEN 1 ELSE 0)
Got(r, c)    == 2 * Merged(r, c) + (IF r \in sized /\ c = Child(r) THEN 1 ELSE 0)

\* A rank waits only for children that exist.
Places == \A r \in Rank :
            /\ pc[r] \in {"out", "first", "second", "bcast"}
                         \cup (IF r = 0 THEN {} ELSE {"send_size", "send_data"})
            /\ pc[r] = "first" => FirstChild(r) < Size
            /\ pc[r] = "second" => SecondChild(r) < Size
            /\ r \in sized => Waiting(r)

\* Nobody has returned from more all-reduces than everybody has called.
Rounds == /\ \A r \in Rank :
               /\ Len(given[r]) = Len(returned[r]) + (IF pc[r] = "out" THEN 0 ELSE 1)
               /\ Len(returned[r]) <= Len(bcasts)
               /\ Len(bcasts) <= Len(given[r])
          /\ Len(returned[0]) = Len(bcasts)

\* Messages travel to the parent only; a size is never taken for a value.
Flows == \A s \in Rank :
           /\ \A d \in Rank : chan[s][d] # <<>> => s # 0 /\ d = Parent(s)
           /\ s # 0 => LET p == Parent(s)
                       IN  /\ Len(chan[s][p]) = Sent(s) - Got(p, s)
                           /\ \A j \in DOMAIN chan[s][p] :
                                chan[s][p][j].part = IF (Got(p, s) + j) % 2 = 1
                                                     THEN "send_size" ELSE "send_data"

(* The messages of a rank that is ahead stay apart from those its parent
   still waits for: the n-th value received is the one of the n-th
   all-reduce (298-346), with nothing but their order to tell them apart.  *)
TreeInv == Places /\ Rounds /\ Flows

(* The tree implements the all-reduce of YgmAllReduce (321-346): every
   input is merged once into the result of its own all-reduce and of no
   other, although a rank may be a whole all-reduce ahead of another, and
   nobody returns before everybody has called.                             *)
AR == INSTANCE YgmAllReduce
AllReduce == AR!ARSpec
=============================================================================
