---------------------------- MODULE MCCountingSet ----------------------------
(* Instances of YgmCountingSet for TLC: keys 1 and 2 share a slot. *)
EXTENDS YgmCountingNested

Ranks      == {"r1", "r2"}
OneEach    == [k \in Key |-> IF k = 1 THEN "r1" ELSE "r2"]
SharedSlot == [k \in Key |-> IF k = 3 THEN 2 ELSE 1]
=============================================================================
