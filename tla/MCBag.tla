-------------------------------- MODULE MCBag --------------------------------
(* An instance of YgmBag for TLC. *)
EXTENDS YgmBag

Ranks2 == 0 .. 1
=============================================================================
