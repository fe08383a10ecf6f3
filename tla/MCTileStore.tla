----------------------------- MODULE MCTileStore -----------------------------
(***************************************************************************)
(* Model of TileStore for TLC.  Two tiles of one layer that share a file,  *)
(* since the levels below nine do, and a tile of another database whose    *)
(* identifier begins with the same four characters.                        *)
(***************************************************************************)
EXTENDS TileStore, TLC

CONSTANTS n1, n2

MCNames == {n1, n2}

Tile(database, z) ==
    [database |-> database, item |-> [head |-> n1, rest |-> n1], tile |-> [z |-> z, x |-> 10, y |-> 11]]

MCKeys == {Tile([head |-> n1, rest |-> n1], 8), Tile([head |-> n1, rest |-> n1], 9),
           Tile([head |-> n1, rest |-> n2], 9)}

Symmetric == Permutations(Requests \ Oversized)
==============================================================================
