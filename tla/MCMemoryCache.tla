---------------------------- MODULE MCMemoryCache ----------------------------
(***************************************************************************)
(* Model of MemoryCache for TLC: databases and items are interchangeable.  *)
(***************************************************************************)
EXTENDS MemoryCache, TLC

Symmetric == Permutations(Databases) \cup Permutations(Items)
==============================================================================
