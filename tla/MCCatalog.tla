------------------------------ MODULE MCCatalog ------------------------------
(***************************************************************************)
(* Model of Catalog for TLC.                                               *)
(***************************************************************************)
EXTENDS Catalog, TLC

CONSTANTS r1, r2

\* An overwrite changes the size of a tile.
DifferentSizes == (r1 :> 1) @@ (r2 :> 2)

Symmetric == Permutations(Admins) \cup Permutations(Layers)
==============================================================================
