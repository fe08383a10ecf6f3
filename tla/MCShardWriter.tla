---------------------------- MODULE MCShardWriter ----------------------------
(***************************************************************************)
(* Model of ShardWriter for TLC: PUTs and GETs are interchangeable.        *)
(***************************************************************************)
EXTENDS ShardWriter, TLC

Symmetric == Permutations(Requests)
==============================================================================
