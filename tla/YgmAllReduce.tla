---------------------------- MODULE YgmAllReduce ----------------------------
(***************************************************************************)
(* What comm::all_reduce() promises: nobody returns from an all-reduce     *)
(* before everybody has given its input, and everybody returns the merge   *)
(* of all inputs of that all-reduce, each taken once.                      *)
(***************************************************************************)
EXTENDS Integers, Sequences

CONSTANTS Size,        \* number of ranks
          Merge(_, _), \* the caller's function, associative and commutative
          Input        \* values to be reduced

VARIABLES given,       \* given[r]: r's inputs, one for each all-reduce
          returned     \* returned[r]: what those have returned at r

ranks == 0 .. Size - 1

\* The merge of one value of every rank, and of the inputs of the i-th all-reduce.
MergeAll(x) ==
  LET W[r \in ranks] == IF r = 0 THEN x[0] ELSE Merge(W[r - 1], x[r])
  IN  W[Size - 1]
Whole(i) == MergeAll([r \in ranks |-> given[r][i]])

ARInit == /\ given = [r \in ranks |-> <<>>]
          /\ returned = [r \in ranks |-> <<>>]

Give(r, v) == /\ Len(given[r]) = Len(returned[r])
              /\ given' = [given EXCEPT ![r] = Append(@, v)]
              /\ UNCHANGED returned

Return(r) == LET i == Len(returned[r]) + 1
             IN  /\ \A s \in ranks : i <= Len(given[s])
                 /\ Len(given[r]) = i
                 /\ returned' = [returned EXCEPT ![r] = Append(@, Whole(i))]
                 /\ UNCHANGED given

ARNext == \E r \in ranks : Return(r) \/ \E v \in Input : Give(r, v)
ARSpec == ARInit /\ [][ARNext]_<<given, returned>>
=============================================================================
