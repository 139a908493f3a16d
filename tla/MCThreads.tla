----------------------------- MODULE MCThreads -----------------------------
(* An instance of YgmThreads for TLC. *)
EXTENDS YgmThreads
=============================================================================
