---------------------------- MODULE MCCacheTable ----------------------------
(* A small instance of CacheTable. *)
EXTENDS CacheTable
=============================================================================
