----------------------------- MODULE MCMemPool -----------------------------
(* Small instances of MemPool.                                             *)
EXTENDS MemPool
=============================================================================
