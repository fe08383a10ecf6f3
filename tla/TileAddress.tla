----------------------------- MODULE TileAddress -----------------------------
(***************************************************************************)
(* Where a tile is kept: tile_address of store.rs.  An identifier is its   *)
(* first four characters and the rest, which is None when there is no      *)
(* more; a path is a sequence of names; the letter of a level is its       *)
(* number.  The names inside a layer are numbers and tuples of numbers.    *)
(***************************************************************************)
EXTENDS Integers, Sequences

CONSTANTS
    Names,          \* pieces of identifiers
    None

Identifiers == [head : Names, rest : Names \cup {None}]

\* README.md:100: identifiers are digests, longer than four characters.
Digests == [head : Names, rest : Names]

\* validate_key: what is stored at all.
Zooms == 0..25
Coordinates == [z : Zooms, x : Nat, y : Nat]
ValidKeys == [database : Identifiers, item : Identifiers, tile : Coordinates]
DigestKeys == [database : Digests, item : Digests, tile : Coordinates]

\* Of a database below the root, and of a layer below its database.
Directory(id) == IF id.rest = None THEN <<id.head>> ELSE <<id.head, id.rest>>
ItemDirectory(database, item) == Directory(database) \o Directory(item)

\* The small levels share the files of level nine.
FileLevel(z) == IF z > 9 THEN z ELSE 9
ShardFile(t) == <<FileLevel(t.z), <<FileLevel(t.z), t.x \div 256, t.y \div 256>>>>

\* Mutant: the table is named after the level of its file.
TableOfFile(t) == <<FileLevel(t.z), t.x \div 64, t.y \div 64>>

Table(t) == <<t.z, t.x \div 64, t.y \div 64>>

RowId(t) == (t.x % 64) + 64 * (t.y % 64)

\* The file, the table in it and the row in that.
Location(k) ==
    [file |-> ItemDirectory(k.database, k.item) \o ShardFile(k.tile),
     table |-> Table(k.tile),
     id |-> RowId(k.tile)]

\* What remove_dir_all(directory) takes with it.
Under(path, directory) ==
    /\ Len(directory) <= Len(path)
    /\ \A n \in 1..Len(directory) : path[n] = directory[n]
==============================================================================
