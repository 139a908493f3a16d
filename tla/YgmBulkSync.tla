---------------------------- MODULE YgmBulkSync ----------------------------
(***************************************************************************)
(* What ygm::comm promises the program that uses it, with no buffers, no   *)
(* threads and no collectives: a bulk-synchronous execution of remote      *)
(* procedure calls.  A rank issues calls; every call runs once, at its     *)
(* destination, and in the same epoch (the stretch of a rank's execution   *)
(* between two barriers) as the rank that issued it; barrier() returns     *)
(* only when no call of the epoch, nor any call made by such a call, is    *)
(* still to be run.                                                        *)
(***************************************************************************)
EXTENDS Naturals

CONSTANT Rank       \* the MPI processes of the communicator

VARIABLES issued,   \* calls made so far to another rank, as records
          executed, \* calls whose handler has returned
          epoch,    \* epoch[r]: how many barriers rank r has returned from
          inside    \* ranks that are between the call and the return of barrier()

bsVars == <<issued, executed, epoch, inside>>

(* A call: id tells calls apart, parent is the id of the call whose handler
   made it (0 when the main program did), epoch that of the issuing rank.  *)
Call == [id : Nat \ {0}, src : Rank, dst : Rank, epoch : Nat, parent : Nat]

Pending == issued \ executed

BSInit == /\ issued = {}
          /\ executed = {}
          /\ epoch = [r \in Rank |-> 0]
          /\ inside = {}

(* A rank inside the barrier issues a call only on behalf of a pending call
   that its handler is serving, in the same epoch.                         *)
BSIssue(m) == /\ m \in Call
              /\ m \notin issued
              /\ m.epoch = epoch[m.src]
              /\ m.src \in inside =>
                   \E c \in Pending : c.dst = m.src /\ c.epoch = m.epoch
              /\ issued' = issued \cup {m}
              /\ UNCHANGED <<executed, epoch, inside>>

BSExecute(m) == /\ m \in Pending
                /\ m.epoch = epoch[m.dst]
                /\ executed' = executed \cup {m}
                /\ UNCHANGED <<issued, epoch, inside>>

BSEnter(r) == /\ r \notin inside
              /\ inside' = inside \cup {r}
              /\ UNCHANGED <<issued, executed, epoch>>

\* Fault: a barrier of MPI, which knows nothing of calls.
BSLeave_PlainBarrier(r) == /\ r \in inside
                           /\ \A s \in Rank : \/ epoch[s] = epoch[r] /\ s \in inside
                                              \/ epoch[s] = epoch[r] + 1
                           /\ inside' = inside \ {r}
                           /\ epoch' = [epoch EXCEPT ![r] = @ + 1]
                           /\ UNCHANGED <<issued, executed>>

(* barrier() returns: everybody has called it, and nothing issued in this
   epoch is pending.                                                       *)
BSLeave(r) == /\ r \in inside
              /\ \A s \in Rank : \/ epoch[s] = epoch[r] /\ s \in inside
                                 \/ epoch[s] = epoch[r] + 1
              /\ \A m \in Pending : m.epoch # epoch[r]
              /\ inside' = inside \ {r}
              /\ epoch' = [epoch EXCEPT ![r] = @ + 1]
              /\ UNCHANGED <<issued, executed>>

BSNext == \/ \E m \in issued' : BSIssue(m)
          \/ \E m \in Pending : BSExecute(m)
          \/ \E r \in Rank : BSEnter(r) \/ BSLeave(r)

BSSpec == BSInit /\ [][BSNext]_bsVars
=============================================================================
