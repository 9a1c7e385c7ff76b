------------------------------ MODULE MCLogin ------------------------------
(* An instance of Login for TLC. *)
EXTENDS Login, TLC
==============================================================================
