-------------------------------- MODULE MCMap --------------------------------
(* Instances of YgmMap for TLC. *)
EXTENDS YgmMap

Ranks    == {"r1", "r2"}
OneEach  == [k \in Key |-> IF k = 1 THEN "r1" ELSE "r2"]
MapOps   == {"insert_unique", "visit", "visit_if_exists", "erase"}
MultiOps == {"insert_multi", "visit", "erase"}
SetOps   == {"set_insert_unique", "erase"}

MapsAndSet == [o \in {"a", "b", "s"} |-> IF o = "s" THEN SetOps ELSE MapOps]
TwoMultis  == [o \in {"a", "b"} |-> MultiOps]
=============================================================================
