------------------------------- MODULE MCComm -------------------------------
(* Instances of YgmComm for TLC. *)
EXTENDS YgmComm

Ranks2 == 0 .. 1
=============================================================================
