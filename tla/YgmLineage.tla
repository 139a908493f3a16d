------------------------------ MODULE YgmLineage ------------------------------
(***************************************************************************)
(* Where the content of the holders H comes from: containers and files,    *)
(* which operations between epochs swap, copy, save, load and clear.       *)
(* moves[e][h] is the holder whose content h has after the operation that  *)
(* ends epoch e - 1, or none when that operation leaves it empty.  When    *)
(* epoch e ends, h is made of what was put in the holders g in the epochs  *)
(* f such that <<g, f>> is in Descent(H, none, moves)[e][h].               *)
(***************************************************************************)
EXTENDS Naturals, Sequences

Descent(H, none, moves) ==
  LET L[e \in 0 .. Len(moves)] ==
        IF e = 0 THEN [h \in H |-> {<<h, 0>>}]
        ELSE LET v    == moves[e]
                 last == L[e - 1]
             IN  [h \in H |-> {<<h, e>>} \cup IF v[h] = none THEN {} ELSE last[v[h]]]
  IN  L
=============================================================================
