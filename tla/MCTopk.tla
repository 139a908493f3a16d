------------------------------- MODULE MCTopk -------------------------------
(* Instances of YgmTopk for TLC. *)
EXTENDS YgmTopk

SomeMaps == {<<2>>, <<1, 4, 3>>}

\* Selections are merged by an associative and commutative function.
ASSUME SelectionsMerge == Merging({Keep(s) : s \in SeqOf(1 .. 4, K)})
=============================================================================
