--------------------------- MODULE TileStoreProofs ---------------------------
(***************************************************************************)
(* First about TileAddress: tiles whose identifiers are digests never      *)
(* share a row, and a removal takes the tiles of the layer or database it  *)
(* names and no others.  Then, for any requests and any such tiles, the    *)
(* types of TileStore, and that nothing is served that was not committed   *)
(* for the tile that is asked for.                                         *)
(***************************************************************************)
EXTENDS TileStore, TLAPS

\* Table and row give a tile's level and coordinates back.
LEMMA TileOfRow ==
    ASSUME NEW s \in Coordinates, NEW t \in Coordinates,
           Table(s) = Table(t), RowId(s) = RowId(t)
    PROVE s = t
<1>1. \A n \in Nat : n % 64 \in 0..63
  OBVIOUS
<1>2. s.z = t.z /\ s.x \div 64 = t.x \div 64 /\ s.y \div 64 = t.y \div 64
  BY DEF Table
<1>3. s.x \in Nat /\ s.y \in Nat /\ t.x \in Nat /\ t.y \in Nat
  BY DEF Coordinates
<1>4. s.x % 64 = t.x % 64 /\ s.y % 64 = t.y % 64
  <2> DEFINE a == s.x % 64  b == s.y % 64  c == t.x % 64  d == t.y % 64
  <2>1. a \in 0..63 /\ b \in 0..63 /\ c \in 0..63 /\ d \in 0..63
    BY <1>1, <1>3
  <2>2. a + 64 * b = c + 64 * d
    BY DEF RowId
  <2> HIDE DEF a, b, c, d
  <2>3. a = c /\ b = d
    BY <2>1, <2>2
  <2> QED
    BY <2>3 DEF a, b, c, d
<1>5. ASSUME NEW m \in Nat, NEW n \in Nat, m \div 64 = n \div 64, m % 64 = n % 64 PROVE m = n
  BY <1>5
<1>6. s.x = t.x /\ s.y = t.y
  BY <1>2, <1>3, <1>4, <1>5
<1> QED
  BY <1>2, <1>6 DEF Coordinates

\* The path of a shard file, name by name.
LEMMA PathOfDigests ==
    ASSUME None \notin Names, NEW k \in DigestKeys
    PROVE LET path == Location(k).file
          IN /\ Len(path) = 6
             /\ path[1] = k.database.head /\ path[2] = k.database.rest
             /\ path[3] = k.item.head /\ path[4] = k.item.rest
<1>1. k.database.rest # None /\ k.item.rest # None
  BY DEF DigestKeys, Digests
<1>2. Location(k).file = (<<k.database.head, k.database.rest>> \o <<k.item.head, k.item.rest>>)
                            \o ShardFile(k.tile)
  BY <1>1 DEF Location, ItemDirectory, Directory
<1> QED
  BY <1>2 DEF ShardFile

\* Two tiles in one row are the same tile, for every level and coordinate and
\* any identifiers longer than four characters.
THEOREM OneTilePerRow ==
    ASSUME None \notin Names, NEW k \in DigestKeys, NEW l \in DigestKeys,
           Location(k) = Location(l)
    PROVE k = l
<1>1. k.database.head = l.database.head /\ k.database.rest = l.database.rest
      /\ k.item.head = l.item.head /\ k.item.rest = l.item.rest
  BY PathOfDigests
<1>2. k.database = l.database /\ k.item = l.item
  BY <1>1 DEF DigestKeys, Digests
<1>3. Table(k.tile) = Table(l.tile) /\ RowId(k.tile) = RowId(l.tile)
  BY DEF Location
<1>4. k.tile = l.tile
  BY <1>3, TileOfRow DEF DigestKeys
<1> QED
  BY <1>2, <1>4 DEF DigestKeys

\* drop_tileset removes the files of its layer and no others.
THEOREM RemovesItsLayer ==
    ASSUME None \notin Names, NEW k \in DigestKeys, NEW d \in Digests, NEW i \in Digests
    PROVE Under(Location(k).file, ItemDirectory(d, i)) <=> k.database = d /\ k.item = i
<1>1. ItemDirectory(d, i) = <<d.head, d.rest>> \o <<i.head, i.rest>>
  BY DEF Digests, ItemDirectory, Directory
<1>2. /\ Len(ItemDirectory(d, i)) = 4
      /\ ItemDirectory(d, i)[1] = d.head /\ ItemDirectory(d, i)[2] = d.rest
      /\ ItemDirectory(d, i)[3] = i.head /\ ItemDirectory(d, i)[4] = i.rest
  BY <1>1
<1>3. Under(Location(k).file, ItemDirectory(d, i))
      <=> /\ k.database.head = d.head /\ k.database.rest = d.rest
          /\ k.item.head = i.head /\ k.item.rest = i.rest
  BY <1>2, PathOfDigests DEF Under
<1> QED
  BY <1>3 DEF DigestKeys, Digests

\* drop_database removes the files of its database and no others.
THEOREM RemovesItsDatabase ==
    ASSUME None \notin Names, NEW k \in DigestKeys, NEW d \in Digests
    PROVE Under(Location(k).file, Directory(d)) <=> k.database = d
<1>1. Directory(d) = <<d.head, d.rest>>
  BY DEF Digests, Directory
<1>2. Under(Location(k).file, Directory(d))
      <=> k.database.head = d.head /\ k.database.rest = d.rest
  BY <1>1, PathOfDigests DEF Under
<1> QED
  BY <1>2 DEF DigestKeys, Digests

-----------------------------------------------------------------------------
(* The store.                                                              *)

\* Every tile has a row of its own.
LEMMA OwnRow == \A k, l \in Keys : Location(k) = Location(l) => k = l
BY DigestsAssumption, ConstantsAssumption, OneTilePerRow

\* A request for a tile is about that one tile; what it is doing says what it is.
InProgress ==
    \A r \in Requests :
        /\ pc[r] \in {"reading", "filling", "writing", "abandoned", "committed"}
            => \E k \in Keys : scope[r] = {k}
        /\ pc[r] \in {"reading", "filling"} => op[r] = "get"
        /\ pc[r] \in {"writing", "abandoned", "committed", "dropping"} => op[r] # "get"
        /\ pc[r] = "new" => outcome[r] = None

\* What is in a row, in the cache, or in the hands of a request was committed.
RowsCommitted ==
    \A k \in Keys : \A row \in {rows[Location(k)], ghost[Location(k)]} :
        row # None => <<k, row>> \in written
CacheCommitted == \A k \in Keys : cached[k] # None => <<k, cached[k]>> \in written
HeldCommitted ==
    \A r \in Requests : \A k \in scope[r] :
        /\ pc[r] = "filling" => <<k, seen[r]>> \in written
        /\ pc[r] = "committed" => <<k, r>> \in written
        /\ op[r] = "get" /\ outcome[r] \in Requests => <<k, outcome[r]>> \in written

\* What the path of a loose file holds: nothing.
LooseGone == \A k \in Keys : Location(k).file \in loose => rows[Location(k)] = None

IInv == TypeOK /\ InProgress /\ LooseGone /\ RowsCommitted /\ CacheCommitted /\ HeldCommitted

\* It holds at the start.
LEMMA InitInv == Init => IInv
<1> SUFFICES ASSUME Init PROVE IInv
  OBVIOUS
<1>1. TypeOK
  BY DEF Init, TypeOK, Data
<1>2. LooseGone /\ RowsCommitted /\ CacheCommitted
  BY DEF Init, LooseGone, RowsCommitted, CacheCommitted, Locations
<1>3. InProgress /\ HeldCommitted
  BY DEF Init, InProgress, HeldCommitted
<1> QED
  BY <1>1, <1>2, <1>3 DEF IInv

\* What goes into the cache was committed for its tile.
LEMMA CacheAfterInsert ==
    ASSUME IInv, NEW k \in Keys, NEW v \in Requests, <<k, v>> \in written,
           Insert(k, v), written' = written
    PROVE CacheCommitted' /\ cached' \in [Keys -> Data] /\ lost' \subseteq Keys
BY DEF IInv, TypeOK, Data, CacheCommitted, Insert

\* Each step of a GET keeps it.
LEMMA GetInv ==
    ASSUME IInv, NEW r \in Requests,
           (\E k \in Keys : GetHit(r, k) \/ GetMiss(r, k)) \/ ReadRow(r) \/ Fill(r)
    PROVE IInv'
<1> USE ConstantsAssumption DEF IInv, TypeOK, Data, shardVars
<1>1. ASSUME NEW k \in Keys, GetHit(r, k) PROVE IInv'
  <2>1. TypeOK'
    BY <1>1 DEF GetHit
  <2>2. InProgress' /\ LooseGone' /\ RowsCommitted' /\ CacheCommitted'
    BY <1>1 DEF GetHit, InProgress, LooseGone, RowsCommitted, CacheCommitted
  <2>3. HeldCommitted'
    BY <1>1 DEF GetHit, HeldCommitted, CacheCommitted
  <2> QED
    BY <2>1, <2>2, <2>3
<1>2. ASSUME NEW k \in Keys, GetMiss(r, k) PROVE IInv'
  <2>1. TypeOK'
    BY <1>2 DEF GetMiss, Begin, Overlapping
  <2>2. InProgress' /\ LooseGone' /\ RowsCommitted' /\ CacheCommitted'
    BY <1>2 DEF GetMiss, Begin, InProgress, LooseGone, RowsCommitted, CacheCommitted
  <2>3. HeldCommitted'
    BY <1>2 DEF GetMiss, Begin, HeldCommitted, InProgress
  <2> QED
    BY <2>1, <2>2, <2>3
<1>3. CASE ReadRow(r)
  <2>1. PICK k \in Keys : scope[r] = {k}
    BY <1>3 DEF ReadRow, InProgress
  <2> PICK row \in {rows[Location(k)], ghost[Location(k)]} :
         /\ IF row = None
            THEN Return(r, "absent") /\ UNCHANGED seen
            ELSE /\ pc' = [pc EXCEPT ![r] = "filling"]
                 /\ seen' = [seen EXCEPT ![r] = row]
                 /\ UNCHANGED <<op, scope, directory, outcome>>
         /\ UNCHANGED <<shardVars, cached, written, raced, lost>>
    BY <1>3, <2>1 DEF ReadRow, Shown
  <2>2. row \in Data /\ op[r] = "get"
    BY <1>3 DEF ReadRow, InProgress, Locations
  <2>3. CASE row = None
    <3>1. Return(r, "absent") /\ UNCHANGED <<seen, shardVars, cached, written, raced, lost>>
      BY <2>3
    <3> QED
      BY <1>3, <3>1
      DEF ReadRow, Return, InProgress, LooseGone, RowsCommitted, CacheCommitted, HeldCommitted
  <2>4. CASE row # None
    <3>1. /\ pc' = [pc EXCEPT ![r] = "filling"]
          /\ seen' = [seen EXCEPT ![r] = row]
          /\ UNCHANGED <<op, scope, directory, outcome, shardVars, cached, written, raced, lost>>
      BY <2>4
    <3>2. <<k, seen'[r]>> \in written'
      BY <2>4, <3>1 DEF RowsCommitted
    <3>3. TypeOK' /\ InProgress' /\ LooseGone' /\ RowsCommitted' /\ CacheCommitted'
      BY <2>1, <2>2, <3>1 DEF InProgress, LooseGone, RowsCommitted, CacheCommitted
    <3>4. HeldCommitted'
      BY <2>1, <3>1, <3>2 DEF HeldCommitted
    <3> QED
      BY <3>3, <3>4
  <2> QED
    BY <2>3, <2>4
<1>4. CASE Fill(r)
  <2>1. PICK k \in Keys : scope[r] = {k}
    BY <1>4 DEF Fill, InProgress
  <2>2. <<k, seen[r]>> \in written /\ seen[r] \in Requests
    <3>1. pc[r] = "filling" /\ k \in scope[r]
      BY <1>4, <2>1 DEF Fill
    <3>2. <<k, seen[r]>> \in Keys \X Requests
      BY <3>1 DEF HeldCommitted
    <3> QED
      BY <3>1, <3>2 DEF HeldCommitted
  <2>3. CacheCommitted' /\ cached' \in [Keys -> Data] /\ lost' \subseteq Keys
    BY <1>4, <2>1, <2>2, CacheAfterInsert DEF Fill
  <2>4. TypeOK' /\ InProgress' /\ LooseGone' /\ RowsCommitted'
    BY <1>4, <2>2, <2>3 DEF Fill, Return, InProgress, LooseGone, RowsCommitted
  <2>5. HeldCommitted'
    BY <1>4, <2>1, <2>2 DEF Fill, Return, HeldCommitted
  <2> QED
    BY <2>3, <2>4, <2>5
<1> QED
  BY <1>1, <1>2, <1>3, <1>4

\* Each step of a PUT keeps it.
LEMMA PutInv ==
    ASSUME IInv, NEW r \in Requests,
           (\E k \in Keys : Put(r, k)) \/ Commit(r) \/ Fail(r) \/ Remember(r)
    PROVE IInv'
<1> USE ConstantsAssumption DEF IInv, TypeOK, Data, shardVars
<1>1. ASSUME NEW k \in Keys, Put(r, k) PROVE IInv'
  <2>1. TypeOK'
    BY <1>1 DEF Put, Begin, Overlapping
  <2>2. InProgress' /\ LooseGone' /\ RowsCommitted' /\ CacheCommitted'
    BY <1>1 DEF Put, Begin, InProgress, LooseGone, RowsCommitted, CacheCommitted
  <2>3. HeldCommitted'
    BY <1>1 DEF Put, Begin, HeldCommitted
  <2> QED
    BY <2>1, <2>2, <2>3
<1>2. CASE Commit(r)
  <2>1. PICK k \in Keys : scope[r] = {k}
    BY <1>2 DEF Commit, InProgress
  <2>2. Stored(Location(k), r) /\ written' = written \cup {<<k, r>>} /\ loose' = loose
    BY <1>2, <2>1 DEF Commit
  <2>3. TypeOK'
    <3>1. rows' \in [Locations -> Data] /\ ghost' \in [Locations -> Data]
      BY <2>2 DEF Stored
    <3> QED
      BY <1>2, <2>1, <2>2, <3>1 DEF Commit
  <2>4. RowsCommitted' /\ LooseGone'
    <3> SUFFICES ASSUME NEW l \in Keys
                 PROVE /\ \A row \in {rows'[Location(l)], ghost'[Location(l)]} :
                            row # None => <<l, row>> \in written'
                       /\ Location(l).file \in loose => rows'[Location(l)] = None
      BY <2>2 DEF RowsCommitted, LooseGone
    <3> Location(l) \in Locations
      BY DEF Locations
    <3>1. CASE l = k
      <4>1. CASE Location(k).file \in loose
        BY <3>1, <4>1, <2>2 DEF Stored, RowsCommitted, LooseGone
      <4>2. CASE Location(k).file \notin loose
        BY <3>1, <4>2, <2>2 DEF Stored, RowsCommitted
      <4> QED
        BY <4>1, <4>2
    <3>2. CASE l # k
      <4>1. Location(l) # Location(k)
        BY <3>2, OwnRow
      <4>2. rows'[Location(l)] = rows[Location(l)] /\ ghost'[Location(l)] = ghost[Location(l)]
        BY <4>1, <2>2 DEF Stored
      <4> QED
        BY <4>2, <2>2 DEF RowsCommitted, LooseGone
    <3> QED
      BY <3>1, <3>2
  <2>5. CacheCommitted'
    BY <1>2, <2>2 DEF Commit, CacheCommitted
  <2>6. InProgress'
    BY <1>2 DEF Commit, InProgress
  <2>7. HeldCommitted'
    BY <1>2, <2>1, <2>2 DEF Commit, HeldCommitted
  <2> QED
    BY <2>3, <2>4, <2>5, <2>6, <2>7
<1>3. CASE Fail(r)
  BY <1>3 DEF Fail, Return, InProgress, LooseGone, RowsCommitted, CacheCommitted, HeldCommitted
<1>4. CASE Remember(r)
  <2>1. PICK k \in Keys : scope[r] = {k}
    BY <1>4 DEF Remember, InProgress
  <2>2. <<k, r>> \in written
    BY <1>4, <2>1 DEF Remember, HeldCommitted
  <2>3. CacheCommitted' /\ cached' \in [Keys -> Data] /\ lost' \subseteq Keys
    BY <1>4, <2>1, <2>2, CacheAfterInsert DEF Remember
  <2>4. TypeOK'
    BY <1>4, <2>3 DEF Remember, Return
  <2>5. InProgress' /\ LooseGone' /\ RowsCommitted' /\ HeldCommitted'
    BY <1>4 DEF Remember, Return, InProgress, LooseGone, RowsCommitted, HeldCommitted
  <2> QED
    BY <2>3, <2>4, <2>5
<1> QED
  BY <1>1, <1>2, <1>3, <1>4

\* The start of a removal keeps it.
LEMMA DropInv ==
    ASSUME IInv, NEW r \in Requests, NEW k \in Keys,
           \/ Drop(r, ItemKeys(k.database, k.item), ItemDirectory(k.database, k.item))
           \/ Drop(r, DatabaseKeys(k.database), Directory(k.database))
    PROVE IInv'
<1> USE ConstantsAssumption DEF IInv, TypeOK, Data, shardVars
<1>1. ASSUME NEW S \in SUBSET Keys, NEW p \in Seq(Names), Drop(r, S, p) PROVE IInv'
  <2>1. TypeOK'
    BY <1>1 DEF Drop, Begin, Overlapping, Invalidated
  <2>2. InProgress' /\ LooseGone' /\ RowsCommitted' /\ CacheCommitted'
    BY <1>1 DEF Drop, Begin, Invalidated, InProgress, LooseGone, RowsCommitted, CacheCommitted
  <2>3. HeldCommitted'
    BY <1>1 DEF Drop, Begin, HeldCommitted
  <2> QED
    BY <2>1, <2>2, <2>3
<1>2. /\ ItemKeys(k.database, k.item) \in SUBSET Keys
      /\ DatabaseKeys(k.database) \in SUBSET Keys
  BY DEF ItemKeys, DatabaseKeys
<1>3. Directory(k.database) \in Seq(Names) /\ ItemDirectory(k.database, k.item) \in Seq(Names)
  <2>1. k.database \in Digests /\ k.item \in Digests
    BY DigestsAssumption DEF DigestKeys
  <2>2. /\ Directory(k.database) = <<k.database.head, k.database.rest>>
        /\ Directory(k.item) = <<k.item.head, k.item.rest>>
    BY <2>1 DEF Directory, Digests
  <2>3. Directory(k.database) \in Seq(Names) /\ Directory(k.item) \in Seq(Names)
    BY <2>1, <2>2 DEF Digests
  <2> QED
    BY <2>3 DEF ItemDirectory
<1> QED
  BY <1>1, <1>2, <1>3

\* The end of a removal keeps it, and so does a lost client.
LEMMA EndInv ==
    ASSUME IInv, NEW r \in Requests, NoDirectory(r) \/ RemoveDir(r) \/ Cancel(r)
    PROVE IInv'
<1> USE ConstantsAssumption DEF IInv, TypeOK, Data, shardVars
<1>1. CASE RemoveDir(r)
  <2> PICK gone \in SUBSET FilesUnder(directory[r]) :
         \E opened \in SUBSET gone : Removed(directory[r], gone, opened)
    BY <1>1 DEF RemoveDir
  <2> PICK opened \in SUBSET gone : Removed(directory[r], gone, opened)
    OBVIOUS
  <2> PICK o \in {"removed", "failed"} : Return(r, o)
    BY <1>1 DEF RemoveDir
  <2>1. TypeOK'
    BY <1>1 DEF RemoveDir, Return, FilesUnder, Removed
  <2>2. InProgress' /\ CacheCommitted' /\ HeldCommitted'
    BY <1>1 DEF RemoveDir, Return, InProgress, CacheCommitted, HeldCommitted
  <2>3. RowsCommitted' /\ LooseGone'
    <3>1. UNCHANGED written
      BY <1>1 DEF RemoveDir
    <3>2. ASSUME NEW k \in Keys
          PROVE  /\ rows'[Location(k)] \in {None, rows[Location(k)]}
                 /\ ghost'[Location(k)] \in {None, rows[Location(k)], ghost[Location(k)]}
                 /\ Location(k).file \in gone => rows'[Location(k)] = None
      <4>1. Location(k) \in Locations
        BY DEF Locations
      <4> QED
        BY <4>1 DEF Removed
    <3>3. RowsCommitted'
      <4> SUFFICES ASSUME NEW k \in Keys, NEW row \in {rows'[Location(k)], ghost'[Location(k)]},
                          row # None
                   PROVE  <<k, row>> \in written
        BY <3>1 DEF RowsCommitted
      <4>1. row \in {rows[Location(k)], ghost[Location(k)]}
        BY <3>2
      <4> QED
        BY <4>1, Zenon DEF RowsCommitted
    <3>4. ASSUME NEW k \in Keys, Location(k).file \in loose'
          PROVE  rows'[Location(k)] = None
      <4>1. Location(k).file \in loose \/ Location(k).file \in gone
        BY <3>4 DEF Removed
      <4>2. Location(k).file \in loose => rows[Location(k)] = None
        BY DEF LooseGone
      <4> QED
        BY <3>2, <4>1, <4>2
    <3> QED
      BY <3>3, <3>4 DEF LooseGone
  <2> QED
    BY <2>1, <2>2, <2>3
<1>2. CASE Cancel(r)
  <2>1. TypeOK'
    BY <1>2 DEF Cancel
  <2>2. LooseGone' /\ RowsCommitted' /\ CacheCommitted'
    BY <1>2 DEF Cancel, LooseGone, RowsCommitted, CacheCommitted
  <2>3. InProgress'
    BY <1>2 DEF Cancel, InProgress
  <2>4. HeldCommitted'
    BY <1>2 DEF Cancel, HeldCommitted
  <2> QED
    BY <2>1, <2>2, <2>3, <2>4
<1>3. CASE NoDirectory(r)
  BY <1>3 DEF NoDirectory, Return, InProgress, LooseGone, RowsCommitted, CacheCommitted, HeldCommitted
<1> QED
  BY <1>1, <1>2, <1>3

\* The close of a loose shard takes its rows.
LEMMA CloseInv ==
    ASSUME IInv, NEW f \in Files, CloseShard(f)
    PROVE IInv'
<1> USE ConstantsAssumption DEF IInv, TypeOK, Data, shardVars
<1>1. TypeOK'
  BY DEF CloseShard
<1>2. InProgress' /\ CacheCommitted' /\ HeldCommitted'
  BY DEF CloseShard, InProgress, CacheCommitted, HeldCommitted
<1>3. RowsCommitted' /\ LooseGone'
  BY DEF CloseShard, RowsCommitted, LooseGone, Locations
<1> QED
  BY <1>1, <1>2, <1>3

\* Every step keeps the invariant.
LEMMA NextInv == IInv /\ [Next]_vars => IInv'
<1> SUFFICES ASSUME IInv, [Next]_vars PROVE IInv'
  OBVIOUS
<1>1. CASE UNCHANGED vars
  BY <1>1
  DEF vars, shardVars, IInv, TypeOK, InProgress, LooseGone, RowsCommitted, CacheCommitted,
      HeldCommitted, Shown
<1>2. ASSUME NEW r \in Requests, NEW k \in Keys, GetHit(r, k) \/ GetMiss(r, k) \/ Put(r, k)
      PROVE IInv'
  BY <1>2, GetInv, PutInv
<1>3. ASSUME NEW r \in Requests,
             ReadRow(r) \/ Fill(r) \/ Commit(r) \/ Fail(r) \/ Remember(r)
      PROVE IInv'
  BY <1>3, GetInv, PutInv
<1>4. ASSUME NEW r \in Requests, NEW k \in Keys,
             \/ Drop(r, ItemKeys(k.database, k.item), ItemDirectory(k.database, k.item))
             \/ Drop(r, DatabaseKeys(k.database), Directory(k.database))
      PROVE IInv'
  BY <1>4, DropInv
<1>5. ASSUME NEW r \in Requests, NoDirectory(r) \/ RemoveDir(r) \/ Cancel(r) PROVE IInv'
  BY <1>5, EndInv
<1>6. ASSUME NEW k \in Keys, Evict(k) PROVE IInv'
  BY <1>6
  DEF Evict, shardVars, IInv, TypeOK, Data, InProgress, LooseGone, RowsCommitted, CacheCommitted,
      HeldCommitted
<1>7. ASSUME NEW f \in Files, CloseShard(f) PROVE IInv'
  BY <1>7, CloseInv
<1> QED
  BY <1>1, <1>2, <1>3, <1>4, <1>5, <1>6, <1>7 DEF Next

\* The invariant holds of every behaviour.
LEMMA Invariance == Spec => []IInv
BY InitInv, NextInv, PTL DEF Spec

\* The variables of TileStore keep their types.
THEOREM TypeCorrect == Spec => []TypeOK
<1>1. IInv => TypeOK
  BY DEF IInv
<1> QED
  BY <1>1, Invariance, PTL

\* README.md:60, in every order of requests and removals: what a GET returns,
\* and what the memory cache holds, was committed for that very tile.
THEOREM ServedAlwaysCommitted == Spec => []ServedWasCommitted
<1>1. IInv => ServedWasCommitted
  BY DEF IInv, CacheCommitted, HeldCommitted, ServedWasCommitted
<1> QED
  BY <1>1, Invariance, PTL
-----------------------------------------------------------------------------
(* The cache and the rows.                                                 *)

Active(r) == pc[r] \notin {"new", "done"}

\* What each request on tile k relies on while no race has touched the tile.
RaceFree(k) ==
    /\ \A q, r \in Requests :
         q # r /\ Active(q) /\ Active(r) /\ k \in scope[q] /\ k \in scope[r]
            => op[q] = "get" /\ op[r] = "get"
    /\ \A r \in Requests : k \in scope[r] =>
         /\ pc[r] = "filling" => seen[r] = Shown(Location(k))
         /\ pc[r] = "committed" => Shown(Location(k)) = r
         /\ pc[r] = "dropping" => cached[k] = None
         /\ pc[r] # "abandoned"
    /\ \/ Shown(Location(k)) \in Oversized
       \/ cached[k] \in {None, Shown(Location(k))}
       \/ \E r \in Requests : pc[r] = "committed" /\ k \in scope[r]
       \/ k \in lost

\* The directory of a removal holds the tiles that its invalidation was for.
DropsItsScope ==
    \A r \in Requests : pc[r] = "dropping" =>
        \A k \in Keys : Under(Location(k).file, directory[r]) <=> k \in scope[r]

CInv == DropsItsScope /\ \A k \in Keys \ raced : RaceFree(k)

\* It holds at the start.
LEMMA InitCoherent == Init => CInv
BY DEF Init, CInv, DropsItsScope, RaceFree, Active, Locations, Shown

\* The beginning of a request meets nobody on a tile without a race.
LEMMA BeginKeeps ==
    ASSUME IInv, NEW r \in Requests, NEW kind \in {"get", "put", "drop"}, NEW S \in SUBSET Keys,
           NEW next \in {"reading", "writing", "dropping"}, Begin(r, kind, S, next),
           UNCHANGED <<seen, shardVars>>,
           NEW k \in Keys, k \notin raced', RaceFree(k),
           (cached'[k] = cached[k] /\ (k \in lost <=> k \in lost')) \/ cached'[k] = None,
           next = "dropping" /\ k \in S => cached'[k] = None
    PROVE RaceFree(k)'
<1> USE DEF Begin, IInv, TypeOK, shardVars, Shown
<1>1. \A q \in Requests \ {r} :
        Active(q) /\ k \in scope[q] /\ k \in S => kind = "get" /\ op[q] = "get"
  BY DEF Overlapping, Active
<1>2. /\ \A q \in Requests \ {r} : pc'[q] = pc[q] /\ op'[q] = op[q] /\ scope'[q] = scope[q]
      /\ pc[r] = "new" /\ pc'[r] = next /\ op'[r] = kind /\ scope'[r] = S
  OBVIOUS
<1>3. \A p, q \in Requests :
         p # q /\ Active(p)' /\ Active(q)' /\ k \in scope'[p] /\ k \in scope'[q]
            => op'[p] = "get" /\ op'[q] = "get"
  BY <1>1, <1>2 DEF RaceFree, Active
<1>4. \A q \in Requests : k \in scope'[q] =>
         /\ pc'[q] = "filling" => seen'[q] = Shown(Location(k))'
         /\ pc'[q] = "committed" => Shown(Location(k))' = q
         /\ pc'[q] = "dropping" => cached'[k] = None
         /\ pc'[q] # "abandoned"
  BY <1>2 DEF RaceFree
<1>5. \/ Shown(Location(k))' \in Oversized
      \/ cached'[k] \in {None, Shown(Location(k))'}
      \/ \E q \in Requests : pc'[q] = "committed" /\ k \in scope'[q]
      \/ k \in lost'
  BY <1>2 DEF RaceFree
<1> QED
  BY <1>3, <1>4, <1>5 DEF RaceFree

\* A step of a request that is about other tiles.
LEMMA OthersKeep ==
    ASSUME IInv, NEW r \in Requests, NEW place, pc' = [pc EXCEPT ![r] = place],
           \A q \in Requests \ {r} : seen'[q] = seen[q], UNCHANGED <<op, scope>>,
           NEW k \in Keys, k \notin scope[r], RaceFree(k),
           Shown(Location(k))' = Shown(Location(k)),
           cached'[k] = cached[k], k \in lost => k \in lost'
    PROVE RaceFree(k)'
BY DEF RaceFree, Active, IInv, TypeOK, shardVars, Shown

\* ... and one that is about this tile and has nothing to do with the others.
LEMMA EndKeeps ==
    ASSUME IInv, NEW r \in Requests, pc' = [pc EXCEPT ![r] = "done"], pc[r] # "committed",
           UNCHANGED <<seen, op, scope, shardVars, cached, lost>>, NEW k \in Keys, RaceFree(k)
    PROVE RaceFree(k)'
BY DEF RaceFree, Active, IInv, TypeOK, shardVars, Shown

\* A GET fills the cache from the row it has read, with nobody to change either.
LEMMA GetCoherent ==
    ASSUME IInv, CInv, NEW r \in Requests,
           (\E k \in Keys : GetHit(r, k) \/ GetMiss(r, k)) \/ ReadRow(r) \/ Fill(r)
    PROVE CInv'
<1> USE ConstantsAssumption DEF shardVars
<1>1. ASSUME NEW j \in Keys, GetHit(r, j) PROVE CInv'
  <2>1. pc[r] = "new" /\ pc' = [pc EXCEPT ![r] = "done"]
        /\ op' = [op EXCEPT ![r] = "get"] /\ scope' = [scope EXCEPT ![r] = {j}]
        /\ UNCHANGED <<directory, seen, shardVars, cached, raced, lost>>
    BY <1>1 DEF GetHit
  <2>2. DropsItsScope'
    BY <2>1 DEF IInv, TypeOK, CInv, DropsItsScope
  <2>3. \A k \in Keys \ raced' : RaceFree(k)'
    BY <2>1 DEF IInv, TypeOK, CInv, RaceFree, Active, Shown
  <2> QED
    BY <2>2, <2>3 DEF CInv
<1>2. ASSUME NEW j \in Keys, GetMiss(r, j) PROVE CInv'
  <2>1. Begin(r, "get", {j}, "reading") /\ UNCHANGED <<directory, seen, shardVars, cached, lost>>
    BY <1>2 DEF GetMiss
  <2>2. DropsItsScope'
    BY <2>1 DEF IInv, TypeOK, CInv, DropsItsScope, Begin
  <2>3. ASSUME NEW k \in Keys \ raced' PROVE RaceFree(k)'
    <3>1. RaceFree(k)
      BY <2>1 DEF CInv, Begin
    <3>2. cached'[k] = cached[k] /\ lost' = lost /\ {j} \in SUBSET Keys
      BY <2>1
    <3> QED
      BY <2>1, <3>1, <3>2, BeginKeeps
  <2> QED
    BY <2>2, <2>3 DEF CInv
<1>3. CASE ReadRow(r)
  <2>1. PICK j \in Keys : scope[r] = {j}
    BY <1>3 DEF ReadRow, IInv, InProgress
  <2>2. /\ pc[r] = "reading" /\ UNCHANGED <<op, scope, directory, shardVars, cached, raced, lost>>
        /\ \/ pc' = [pc EXCEPT ![r] = "done"] /\ seen' = seen
           \/ pc' = [pc EXCEPT ![r] = "filling"] /\ seen' = [seen EXCEPT ![r] = Shown(Location(j))]
    BY <1>3, <2>1 DEF ReadRow, Return, Shown, IInv, LooseGone
  <2>3. DropsItsScope'
    BY <2>2 DEF IInv, TypeOK, CInv, DropsItsScope
  <2>4. ASSUME NEW k \in Keys \ raced' PROVE RaceFree(k)'
    <3>1. RaceFree(k)
      BY <2>2 DEF CInv
    <3>2. CASE k # j
      <4>1. \A q \in Requests \ {r} : seen'[q] = seen[q]
        BY <2>2 DEF IInv, TypeOK
      <4>2. k \notin scope[r] /\ \E place : pc' = [pc EXCEPT ![r] = place]
        BY <2>1, <2>2, <3>2
      <4> QED
        BY <2>2, <3>1, <4>1, <4>2, OthersKeep DEF Shown
    <3>3. CASE k = j
      <4>0. Shown(Location(k))' = Shown(Location(k))
        BY <2>2 DEF Shown
      <4>1. \A q \in Requests : k \in scope'[q] =>
               /\ pc'[q] = "filling" => seen'[q] = Shown(Location(k))'
               /\ pc'[q] = "committed" => Shown(Location(k))' = q
               /\ pc'[q] = "dropping" => cached'[k] = None
               /\ pc'[q] # "abandoned"
        BY <2>2, <3>1, <3>3, <4>0 DEF RaceFree, IInv, TypeOK
      <4>2. \A q \in Requests : Active(q)' => Active(q)
        BY <2>2 DEF Active, IInv, TypeOK
      <4>3. \A p, q \in Requests :
              p # q /\ Active(p)' /\ Active(q)' /\ k \in scope'[p] /\ k \in scope'[q]
                  => op'[p] = "get" /\ op'[q] = "get"
        BY <2>2, <3>1, <4>2 DEF RaceFree
      <4>4. \A q \in Requests : pc[q] = "committed" => pc'[q] = "committed"
        BY <2>2 DEF IInv, TypeOK
      <4>5. \/ Shown(Location(k))' \in Oversized
            \/ cached'[k] \in {None, Shown(Location(k))'}
            \/ \E q \in Requests : pc'[q] = "committed" /\ k \in scope'[q]
            \/ k \in lost'
        BY <2>2, <3>1, <4>0, <4>4 DEF RaceFree
      <4> QED
        BY <4>1, <4>3, <4>5 DEF RaceFree
    <3> QED
      BY <3>2, <3>3
  <2> QED
    BY <2>3, <2>4 DEF CInv
<1>4. CASE Fill(r)
  <2>1. PICK j \in Keys : scope[r] = {j}
    BY <1>4 DEF Fill, IInv, InProgress
  <2>2. /\ pc[r] = "filling" /\ pc' = [pc EXCEPT ![r] = "done"]
        /\ UNCHANGED <<op, scope, directory, seen, shardVars, raced>>
        /\ Insert(j, seen[r])
    BY <1>4, <2>1 DEF Fill, Return
  <2>3. DropsItsScope'
    BY <2>2 DEF IInv, TypeOK, CInv, DropsItsScope
  <2>4. ASSUME NEW k \in Keys \ raced' PROVE RaceFree(k)'
    <3>1. RaceFree(k)
      BY <2>2 DEF CInv
    <3>2. CASE k # j
      <4>1. cached'[k] = cached[k] /\ (k \in lost => k \in lost')
        BY <2>2, <3>2 DEF Insert, IInv, TypeOK
      <4> QED
        BY <2>1, <2>2, <3>1, <3>2, <4>1, OthersKeep DEF Shown
    <3>3. CASE k = j
      <4>0. Shown(Location(k))' = Shown(Location(k))
        BY <2>2 DEF Shown
      <4>1. seen[r] = Shown(Location(k)) /\ op[r] = "get"
        BY <2>1, <2>2, <3>1, <3>3 DEF RaceFree, IInv, InProgress
      <4>2. \A q \in Requests \ {r} : Active(q) /\ k \in scope[q] => op[q] = "get"
        BY <2>1, <2>2, <3>1, <3>3 DEF RaceFree, Active
      <4>3. \/ Shown(Location(k))' \in Oversized
            \/ cached'[k] \in {None, Shown(Location(k))'}
        BY <2>2, <3>3, <4>0, <4>1 DEF Insert, IInv, TypeOK
      <4>4. \A q \in Requests : k \in scope'[q] =>
               /\ pc'[q] = "filling" => seen'[q] = Shown(Location(k))'
               /\ pc'[q] = "committed" => Shown(Location(k))' = q
               /\ pc'[q] = "dropping" => cached'[k] = None
               /\ pc'[q] # "abandoned"
        <5> SUFFICES ASSUME NEW q \in Requests, k \in scope[q], q # r
                     PROVE /\ pc[q] = "filling" => seen[q] = Shown(Location(k))
                           /\ pc[q] = "committed" => Shown(Location(k)) = q
                           /\ pc[q] # "dropping" /\ pc[q] # "abandoned"
          BY <2>2, <4>0 DEF IInv, TypeOK
        <5> QED
          BY <3>1, <4>2 DEF RaceFree, Active, IInv, InProgress
      <4>5. \A p, q \in Requests :
              p # q /\ Active(p)' /\ Active(q)' /\ k \in scope'[p] /\ k \in scope'[q]
                  => op'[p] = "get" /\ op'[q] = "get"
        BY <2>2, <3>1 DEF RaceFree, Active, IInv, TypeOK
      <4> QED
        BY <4>3, <4>4, <4>5 DEF RaceFree
    <3> QED
      BY <3>2, <3>3
  <2> QED
    BY <2>3, <2>4 DEF CInv
<1> QED
  BY <1>1, <1>2, <1>3, <1>4

\* A PUT remembers the row it has written, with nobody to write another.
LEMMA PutCoherent ==
    ASSUME IInv, CInv, NEW r \in Requests,
           (\E k \in Keys : Put(r, k)) \/ Commit(r) \/ Fail(r) \/ Remember(r)
    PROVE CInv'
<1> USE ConstantsAssumption DEF shardVars
<1>1. ASSUME NEW j \in Keys, Put(r, j) PROVE CInv'
  <2>1. Begin(r, "put", {j}, "writing") /\ UNCHANGED <<directory, seen, shardVars, cached, lost>>
    BY <1>1 DEF Put
  <2>2. DropsItsScope'
    BY <2>1 DEF IInv, TypeOK, CInv, DropsItsScope, Begin
  <2>3. ASSUME NEW k \in Keys \ raced' PROVE RaceFree(k)'
    <3>1. RaceFree(k)
      BY <2>1 DEF CInv, Begin
    <3>2. cached'[k] = cached[k] /\ lost' = lost /\ {j} \in SUBSET Keys
      BY <2>1
    <3> QED
      BY <2>1, <3>1, <3>2, BeginKeeps
  <2> QED
    BY <2>2, <2>3 DEF CInv
<1>2. CASE Commit(r)
  <2>1. PICK j \in Keys : scope[r] = {j}
    BY <1>2 DEF Commit, IInv, InProgress
  <2>2. /\ pc[r] \in {"writing", "abandoned"}
        /\ pc' = [pc EXCEPT ![r] = IF pc[r] = "writing" THEN "committed" ELSE "done"]
        /\ Stored(Location(j), r)
        /\ UNCHANGED <<op, scope, directory, seen, loose, cached, raced, lost>>
    BY <1>2, <2>1 DEF Commit
  <2>3. DropsItsScope'
    BY <2>2 DEF IInv, TypeOK, CInv, DropsItsScope
  <2>4. ASSUME NEW k \in Keys \ raced' PROVE RaceFree(k)'
    <3>1. RaceFree(k)
      BY <2>2 DEF CInv
    <3>2. CASE k # j
      <4>1. Shown(Location(k))' = Shown(Location(k))
        BY <2>2, <3>2, OwnRow DEF IInv, TypeOK, Locations, Shown, Stored
      <4> QED
        BY <2>1, <2>2, <3>1, <3>2, <4>1, OthersKeep
    <3>3. CASE k = j
      <4>1. pc[r] = "writing" /\ pc'[r] = "committed" /\ Shown(Location(k))' = r /\ op[r] # "get"
        BY <2>1, <2>2, <3>1, <3>3 DEF RaceFree, IInv, TypeOK, Locations, InProgress, Shown, Stored
      <4>2. \A q \in Requests \ {r} : k \in scope[q] => ~Active(q) /\ pc'[q] = pc[q]
        BY <2>1, <2>2, <3>1, <3>3, <4>1 DEF RaceFree, Active, IInv, TypeOK
      <4> QED
        BY <2>1, <2>2, <3>3, <4>1, <4>2 DEF RaceFree, Active
    <3> QED
      BY <3>2, <3>3
  <2> QED
    BY <2>3, <2>4 DEF CInv
<1>3. CASE Fail(r)
  <2>1. /\ pc[r] \in {"reading", "writing"} /\ pc' = [pc EXCEPT ![r] = "done"]
        /\ UNCHANGED <<op, scope, directory, seen, shardVars, cached, raced, lost>>
    BY <1>3 DEF Fail, Return
  <2>2. DropsItsScope'
    BY <2>1 DEF IInv, TypeOK, CInv, DropsItsScope
  <2> QED
    BY <2>1, <2>2, EndKeeps DEF CInv
<1>4. CASE Remember(r)
  <2>1. PICK j \in Keys : scope[r] = {j}
    BY <1>4 DEF Remember, IInv, InProgress
  <2>2. /\ pc[r] = "committed" /\ pc' = [pc EXCEPT ![r] = "done"]
        /\ Insert(j, r)
        /\ UNCHANGED <<op, scope, directory, seen, shardVars, raced>>
    BY <1>4, <2>1 DEF Remember, Return
  <2>3. DropsItsScope'
    BY <2>2 DEF IInv, TypeOK, CInv, DropsItsScope
  <2>4. ASSUME NEW k \in Keys \ raced' PROVE RaceFree(k)'
    <3>1. RaceFree(k)
      BY <2>2 DEF CInv
    <3>2. CASE k # j
      <4>1. cached'[k] = cached[k] /\ (k \in lost => k \in lost')
        BY <2>2, <3>2 DEF Insert, IInv, TypeOK
      <4> QED
        BY <2>1, <2>2, <3>1, <3>2, <4>1, OthersKeep DEF Shown
    <3>3. CASE k = j
      <4>1. Shown(Location(k))' = r /\ op[r] # "get"
        BY <2>1, <2>2, <3>1, <3>3 DEF RaceFree, IInv, InProgress, Shown
      <4>2. \A q \in Requests : k \in scope'[q] => ~Active(q)'
        BY <2>1, <2>2, <3>1, <3>3, <4>1 DEF RaceFree, Active, IInv, TypeOK
      <4>3. r \in Oversized \/ cached'[k] = r
        BY <2>2, <3>3 DEF Insert, IInv, TypeOK
      <4> QED
        BY <4>1, <4>2, <4>3 DEF RaceFree, Active
    <3> QED
      BY <3>2, <3>3
  <2> QED
    BY <2>3, <2>4 DEF CInv
<1> QED
  BY <1>1, <1>2, <1>3, <1>4

\* A removal invalidates the tiles that its directory holds, and a lost client
\* of a PUT or a removal counts as a race.
LEMMA DropCoherent ==
    ASSUME IInv, CInv, NEW r \in Requests,
           \/ \E k \in Keys :
                \/ Drop(r, ItemKeys(k.database, k.item), ItemDirectory(k.database, k.item))
                \/ Drop(r, DatabaseKeys(k.database), Directory(k.database))
           \/ NoDirectory(r) \/ RemoveDir(r) \/ Cancel(r)
    PROVE CInv'
<1> USE ConstantsAssumption DEF shardVars
<1>1. ASSUME NEW S \in SUBSET Keys, NEW p, Drop(r, S, p),
             \A k \in Keys : Under(Location(k).file, p) <=> k \in S
      PROVE CInv'
  <2>1. /\ Begin(r, "drop", S, "dropping") /\ directory' = [directory EXCEPT ![r] = p]
        /\ cached' = Invalidated(S) /\ lost' = lost \ S /\ UNCHANGED <<seen, shardVars>>
    BY <1>1 DEF Drop
  <2>2. DropsItsScope'
    BY <1>1, <2>1 DEF IInv, TypeOK, CInv, DropsItsScope, Begin
  <2>3. ASSUME NEW k \in Keys \ raced' PROVE RaceFree(k)'
    <3>1. RaceFree(k)
      BY <2>1 DEF CInv, Begin
    <3>2. /\ (cached'[k] = cached[k] /\ (k \in lost <=> k \in lost')) \/ cached'[k] = None
          /\ k \in S => cached'[k] = None
      BY <2>1 DEF Invalidated
    <3> QED
      BY <2>1, <3>1, <3>2, BeginKeeps
  <2> QED
    BY <2>2, <2>3 DEF CInv
<1>2. ASSUME NEW j \in Keys,
             \/ Drop(r, ItemKeys(j.database, j.item), ItemDirectory(j.database, j.item))
             \/ Drop(r, DatabaseKeys(j.database), Directory(j.database))
      PROVE CInv'
  <2>1. \A k \in Keys : k \in DigestKeys /\ k.database \in Digests /\ k.item \in Digests
    BY DigestsAssumption DEF DigestKeys
  <2>2. \A k \in Keys : Under(Location(k).file, ItemDirectory(j.database, j.item))
                         <=> k \in ItemKeys(j.database, j.item)
    BY <2>1, RemovesItsLayer DEF ItemKeys, DatabaseKeys
  <2>3. \A k \in Keys : Under(Location(k).file, Directory(j.database))
                         <=> k \in DatabaseKeys(j.database)
    BY <2>1, RemovesItsDatabase DEF DatabaseKeys
  <2>4. ItemKeys(j.database, j.item) \in SUBSET Keys /\ DatabaseKeys(j.database) \in SUBSET Keys
    BY DEF ItemKeys, DatabaseKeys
  <2> QED
    BY <1>1, <1>2, <2>2, <2>3, <2>4
<1>3. CASE RemoveDir(r)
  <2> PICK gone \in SUBSET FilesUnder(directory[r]) :
         \E opened \in SUBSET gone : Removed(directory[r], gone, opened)
    BY <1>3 DEF RemoveDir
  <2> PICK opened \in SUBSET gone : Removed(directory[r], gone, opened)
    OBVIOUS
  <2>1. /\ pc[r] = "dropping" /\ pc' = [pc EXCEPT ![r] = "done"]
        /\ UNCHANGED <<op, scope, directory, seen, cached, raced, lost>>
    BY <1>3 DEF RemoveDir, Return
  <2>2. DropsItsScope'
    BY <2>1 DEF IInv, TypeOK, CInv, DropsItsScope
  <2>3. ASSUME NEW k \in Keys \ raced' PROVE RaceFree(k)'
    <3>1. RaceFree(k) /\ (Under(Location(k).file, directory[r]) <=> k \in scope[r])
      BY <2>1 DEF CInv, DropsItsScope
    <3>2. CASE k \notin scope[r]
      <4>1. Location(k).file \notin FilesUnder(directory[r])
        BY <3>1, <3>2 DEF FilesUnder
      <4>2. Shown(Location(k))' = Shown(Location(k))
        BY <3>1, <3>2, <4>1 DEF Locations, Shown, Removed
      <4> QED
        BY <2>1, <3>1, <3>2, <4>2, OthersKeep
    <3>3. CASE k \in scope[r]
      <4>1. cached[k] = None /\ op[r] # "get"
        BY <2>1, <3>1, <3>3 DEF RaceFree, IInv, InProgress
      <4>2. \A q \in Requests : k \in scope'[q] => ~Active(q)'
        BY <2>1, <3>1, <3>3, <4>1 DEF RaceFree, Active, IInv, TypeOK
      <4> QED
        BY <2>1, <4>1, <4>2 DEF RaceFree, Active
    <3> QED
      BY <3>2, <3>3
  <2> QED
    BY <2>2, <2>3 DEF CInv
<1>4. CASE Cancel(r)
  <2>1. /\ pc[r] # "abandoned" /\ UNCHANGED <<op, scope, directory, seen, shardVars, cached, lost>>
        /\ \/ pc[r] = "writing" /\ pc' = [pc EXCEPT ![r] = "abandoned"]
           \/ pc' = [pc EXCEPT ![r] = "done"]
           \/ pc[r] = "dropping" /\ pc' = pc
        /\ raced' = IF op[r] = "get" THEN raced ELSE raced \cup scope[r]
    BY <1>4 DEF Cancel
  <2>2. DropsItsScope'
    BY <2>1 DEF IInv, TypeOK, CInv, DropsItsScope
  <2>3. ASSUME NEW k \in Keys \ raced' PROVE RaceFree(k)'
    <3>1. RaceFree(k)
      BY <2>1 DEF CInv
    <3>2. CASE k \notin scope[r]
      <4>1. \E place : pc' = [pc EXCEPT ![r] = place]
        BY <2>1 DEF IInv, TypeOK
      <4> QED
        BY <2>1, <3>1, <3>2, <4>1, OthersKeep DEF Shown
    <3>3. CASE k \in scope[r]
      <4>1. op[r] = "get"
        BY <2>1, <2>3, <3>3
      <4>2. pc[r] \notin {"committed", "writing", "dropping"}
        BY <4>1 DEF IInv, InProgress
      <4> QED
        BY <2>1, <3>1, <4>2, EndKeeps
    <3> QED
      BY <3>2, <3>3
  <2> QED
    BY <2>2, <2>3 DEF CInv
<1>5. CASE NoDirectory(r)
  <2>1. /\ pc[r] = "dropping" /\ pc' = [pc EXCEPT ![r] = "done"]
        /\ UNCHANGED <<op, scope, directory, seen, shardVars, cached, raced, lost>>
    BY <1>5 DEF NoDirectory, Return
  <2>2. DropsItsScope'
    BY <2>1 DEF IInv, TypeOK, CInv, DropsItsScope
  <2> QED
    BY <2>1, <2>2, EndKeeps DEF CInv
<1> QED
  BY <1>2, <1>3, <1>4, <1>5

\* The close of a loose shard takes the rows that a request may have cached, which
\* are then lost, but not those that a request is about to cache.
LEMMA CloseCoherent ==
    ASSUME IInv, CInv, NEW f \in Files, CloseShard(f)
    PROVE CInv'
<1>1. DropsItsScope'
  BY DEF CInv, DropsItsScope, CloseShard
<1>2. ASSUME NEW k \in Keys \ raced' PROVE RaceFree(k)'
  <2>1. RaceFree(k) /\ UNCHANGED <<pc, op, scope, seen, cached>>
    BY DEF CInv, CloseShard
  <2>2. CASE Location(k).file # f
    <3>1. Shown(Location(k))' = Shown(Location(k)) /\ (k \in lost => k \in lost')
      BY <2>2 DEF CloseShard, Shown, Locations
    <3> QED
      BY <2>1, <3>1 DEF RaceFree, Active
  <2>3. CASE Location(k).file = f
    <3>1. \A r \in Requests : pc[r] \in {"filling", "committed"} => k \notin scope[r]
      BY <2>3 DEF CloseShard
    <3>2. cached[k] # None => k \in lost'
      BY <2>3 DEF CloseShard
    <3> QED
      BY <2>1, <3>1, <3>2 DEF RaceFree, Active
  <2> QED
    BY <2>2, <2>3
<1> QED
  BY <1>1, <1>2 DEF CInv

\* Every step keeps the cache and the rows in agreement.
LEMMA NextCoherent == IInv /\ CInv /\ [Next]_vars => CInv'
<1> SUFFICES ASSUME IInv, CInv, [Next]_vars PROVE CInv'
  OBVIOUS
<1>1. CASE UNCHANGED vars
  BY <1>1 DEF vars, shardVars, CInv, DropsItsScope, RaceFree, Active, Shown
<1>2. ASSUME NEW j \in Keys, Evict(j) PROVE CInv'
  <2>1. /\ cached' = [cached EXCEPT ![j] = None]
        /\ UNCHANGED <<pc, op, scope, directory, seen, shardVars, raced>>
        /\ lost' = lost \ {j}
    BY <1>2 DEF Evict
  <2>2. \A k \in Keys : \/ cached'[k] = None
                        \/ cached'[k] = cached[k] /\ (k \in lost => k \in lost')
    BY <2>1 DEF IInv, TypeOK
  <2> QED
    BY <2>1, <2>2 DEF CInv, DropsItsScope, RaceFree, Active, shardVars, Shown
<1> QED
  BY <1>1, <1>2, CloseCoherent, GetCoherent, PutCoherent, DropCoherent DEF Next

\* store.rs:306-369 and 541-571, in every order of requests: without an overlap on a tile, or
\* a lost client, its cached data is its row in the shard that serves it, but for a
\* tile too large to cache and one whose removed file was closed with its row.
THEOREM CoherentUnlessRaced == Spec => []CoherentWithoutRace
<1>1. IInv /\ CInv => CoherentWithoutRace
  BY DEF CInv, RaceFree, CoherentWithoutRace, Busy
<1> QED
  BY <1>1, Invariance, InitCoherent, NextCoherent, PTL DEF Spec
==============================================================================
