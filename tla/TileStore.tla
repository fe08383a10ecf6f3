------------------------------ MODULE TileStore ------------------------------
(***************************************************************************)
(* The tile store of store.rs as its callers see it: GET, PUT and removal  *)
(* of tiles, through the memory cache and the shards.  While nothing is    *)
(* removed a shard is what TileTable promises, rows that are read and      *)
(* written atomically; the cache is a map that may forget any entry at any *)
(* time, as RecencyCache may to make room.  The cache knows a tile by its  *)
(* key, the shards by the location TileAddress gives it, a removal by a    *)
(* directory.  What is left is that and the awaits between the two.        *)
(*                                                                         *)
(* A removal closes the shards under its directory and then removes the    *)
(* directory, and whoever asks for a shard in between opens it again: the  *)
(* map keeps a shard whose file has gone (ShardWriter shows this in        *)
(* detail), serves its tiles and takes new ones, until it is closed.       *)
(***************************************************************************)
EXTENDS TileAddress, FiniteSets

CONSTANTS
    Requests,           \* a PUT writes its own name as data
    Keys,               \* the tiles asked for
    Oversized           \* the requests whose data exceeds max_tile_bytes

\* README.md:100: the identifiers are digests.
ASSUME DigestsAssumption == Keys \subseteq DigestKeys

ASSUME ConstantsAssumption ==
    /\ Oversized \subseteq Requests
    /\ None \notin Names
    /\ {None, "ok", "failed", "absent", "removed", "cancelled"} \cap Requests = {}

DatabaseKeys(d) == {k \in Keys : k.database = d}
ItemKeys(d, i) == {k \in DatabaseKeys(d) : k.item = i}
Locations == {Location(k) : k \in Keys}
Files == {x.file : x \in Locations}
FilesUnder(path) == {f \in Files : Under(f, path)}

VARIABLES
    pc, op,
    scope,      \* the keys a request is about
    seen,       \* the row a GET has read
    outcome,
    directory,  \* what a removal removes
    rows,       \* location -> data in the files on disk
    loose,      \* files removed while the map's shard had them open
    ghost,      \* location -> data in those
    cached,     \* key -> data in the memory cache
    written,    \* all <<key, data>> ever committed
    raced,      \* keys on which a PUT or a removal has overlapped something
    lost        \* keys whose entry in the cache has outlived a loose file

shardVars == <<rows, loose, ghost>>
vars == <<pc, op, scope, directory, seen, outcome, shardVars, cached, written, raced, lost>>

Init ==
    /\ pc = [r \in Requests |-> "new"]
    /\ op = [r \in Requests |-> None]
    /\ scope = [r \in Requests |-> {}]
    /\ seen = [r \in Requests |-> None]
    /\ outcome = [r \in Requests |-> None]
    /\ directory = [r \in Requests |-> <<>>]
    /\ rows = [x \in Locations |-> None]
    /\ ghost = [x \in Locations |-> None]
    /\ loose = {} /\ lost = {}
    /\ cached = [k \in Keys |-> None]
    /\ written = {}
    /\ raced = {}

\* What the shard of the map shows at location x.
Shown(x) == IF x.file \in loose THEN ghost[x] ELSE rows[x]

Overlapping(r, kind, S) ==
    {k \in S : \E q \in Requests \ {r} :
        /\ pc[q] \notin {"new", "done"} /\ k \in scope[q]
        /\ kind # "get" \/ op[q] # "get"}

Begin(r, kind, S, next) ==
    /\ pc[r] = "new"
    /\ pc' = [pc EXCEPT ![r] = next]
    /\ op' = [op EXCEPT ![r] = kind]
    /\ scope' = [scope EXCEPT ![r] = S]
    /\ raced' = raced \cup Overlapping(r, kind, S)

Return(r, o) ==
    /\ pc' = [pc EXCEPT ![r] = "done"]
    /\ outcome' = [outcome EXCEPT ![r] = o]
    /\ UNCHANGED <<op, scope, directory>>

\* TileMemoryCache::insert ignores a tile above the size limit.
Insert(k, v) ==
    IF v \in Oversized THEN UNCHANGED <<cached, lost>>
    ELSE cached' = [cached EXCEPT ![k] = v] /\ lost' = lost \ {k}

\* get, answered by the memory cache.
GetHit(r, k) ==
    /\ pc[r] = "new" /\ cached[k] # None
    /\ pc' = [pc EXCEPT ![r] = "done"]
    /\ op' = [op EXCEPT ![r] = "get"]
    /\ scope' = [scope EXCEPT ![r] = {k}]
    /\ outcome' = [outcome EXCEPT ![r] = cached[k]]
    /\ UNCHANGED <<directory, seen, shardVars, cached, written, raced, lost>>

\* get, not in the memory cache: on to the shard.
GetMiss(r, k) ==
    /\ cached[k] = None
    /\ Begin(r, "get", {k}, "reading")
    /\ UNCHANGED <<directory, seen, outcome, shardVars, cached, written, lost>>

\* get: the SELECT.  A connection that the pool opens anew opens the path.
ReadRow(r) ==
    /\ pc[r] = "reading"
    /\ \E k \in scope[r] : \E row \in {Shown(Location(k)), rows[Location(k)]} :
         IF row = None
         THEN Return(r, "absent") /\ UNCHANGED seen
         ELSE /\ pc' = [pc EXCEPT ![r] = "filling"]
              /\ seen' = [seen EXCEPT ![r] = row]
              /\ UNCHANGED <<op, scope, directory, outcome>>
    /\ UNCHANGED <<shardVars, cached, written, raced, lost>>

\* get: the row goes into the cache after touch_database has been awaited.
Fill(r) ==
    /\ pc[r] = "filling"
    /\ \E k \in scope[r] : Insert(k, seen[r])
    /\ Return(r, seen[r])
    /\ UNCHANGED <<seen, shardVars, written, raced>>

\* put: the command goes to the shard writer.
Put(r, k) ==
    /\ Begin(r, "put", {k}, "writing")
    /\ UNCHANGED <<directory, seen, outcome, shardVars, cached, written, lost>>

\* A row goes to the file that the shard has open, gone from its path or not.
Stored(x, v) ==
    IF x.file \in loose
    THEN ghost' = [ghost EXCEPT ![x] = v] /\ UNCHANGED rows
    ELSE rows' = [rows EXCEPT ![x] = v] /\ UNCHANGED ghost

\* The shard writer commits the row, whether or not the request still waits.
Commit(r) ==
    /\ pc[r] \in {"writing", "abandoned"}
    /\ \E k \in scope[r] :
         /\ Stored(Location(k), r)
         /\ written' = written \cup {<<k, r>>}
    /\ pc' = [pc EXCEPT ![r] = IF pc[r] = "writing" THEN "committed" ELSE "done"]
    /\ UNCHANGED <<op, scope, directory, seen, outcome, loose, cached, raced, lost>>

\* put: overload, a failed batch or a stopped writer end the request early; get:
\* the shard does not open, or its pool was closed by a removal.
Fail(r) ==
    /\ pc[r] \in {"reading", "writing"}
    /\ Return(r, "failed")
    /\ UNCHANGED <<seen, shardVars, cached, written, raced, lost>>

\* put: the answer of the writer is followed by touch_database, then insert.
Remember(r) ==
    /\ pc[r] = "committed"
    /\ \E k \in scope[r] : Insert(k, r)
    /\ Return(r, "ok")
    /\ UNCHANGED <<seen, shardVars, written, raced>>

\* Mutant: nothing is invalidated.
InvalidatedNot(S) == cached

Invalidated(S) == [k \in Keys |-> IF k \in S THEN None ELSE cached[k]]

\* drop_tileset and drop_database: the cache is invalidated first.
Drop(r, S, path) ==
    /\ Begin(r, "drop", S, "dropping")
    /\ directory' = [directory EXCEPT ![r] = path]
    /\ cached' = Invalidated(S)
    /\ lost' = lost \ S
    /\ UNCHANGED <<seen, outcome, shardVars, written>>

\* ... there is no directory: no shard is closed either.
NoDirectory(r) ==
    /\ pc[r] = "dropping"
    /\ \A x \in Locations : Under(x.file, directory[r]) => rows[x] = None
    /\ Return(r, "removed")
    /\ UNCHANGED <<seen, shardVars, cached, written, raced, lost>>

\* The shards under the path are closed and files removed, of which some have
\* been opened again in between and are loose from now on.
Removed(path, gone, opened) ==
    /\ rows' = [x \in Locations |-> IF x.file \in gone THEN None ELSE rows[x]]
    /\ loose' = (loose \ FilesUnder(path)) \cup opened
    /\ ghost' = [x \in Locations |->
                   IF x.file \in opened THEN rows[x]
                   ELSE IF x.file \in FilesUnder(path) THEN None ELSE ghost[x]]

\* ... or all shards under it are closed and then it is removed, of which an
\* error leaves a part.  Any file may have been opened again in between, by a GET,
\* a PUT or a scan.  One action: what is committed in between is in the file when
\* it goes or is written to it later, and both are a Commit before or after this.
RemoveDir(r) ==
    /\ pc[r] = "dropping"
    /\ \E gone \in SUBSET FilesUnder(directory[r]) : \E opened \in SUBSET gone :
         /\ Removed(directory[r], gone, opened)
         /\ \/ Return(r, "failed")
            \/ gone = FilesUnder(directory[r]) /\ Return(r, "removed")
    /\ UNCHANGED <<seen, cached, written, raced, lost>>

\* The idle close of a shard whose file has gone; who holds a shard keeps it.
\* (Of any other shard the rows stay, and the close is not seen here.)
CloseShard(f) ==
    /\ f \in loose
    /\ \A r \in Requests : pc[r] \in {"filling", "committed"} =>
         \A k \in scope[r] : Location(k).file # f
    /\ loose' = loose \ {f}
    /\ ghost' = [x \in Locations |-> IF x.file = f THEN None ELSE ghost[x]]
    /\ lost' = lost \cup {k \in Keys : Location(k).file = f /\ cached[k] # None}
    /\ UNCHANGED <<pc, op, scope, directory, seen, outcome, rows, cached, written, raced>>

\* The client goes away, or put_batch returns early with the error of another
\* tile: the future is dropped at the await it has reached.  A command already
\* sent and a directory removal already begun go on.
Cancel(r) ==
    /\ pc[r] \in {"reading", "filling", "writing", "committed", "dropping"}
    /\ \/ pc' = [pc EXCEPT ![r] = IF pc[r] = "writing" THEN "abandoned" ELSE "done"]
       \/ pc[r] = "dropping" /\ UNCHANGED pc
    /\ outcome' = [outcome EXCEPT ![r] = "cancelled"]
    /\ raced' = IF op[r] = "get" THEN raced ELSE raced \cup scope[r]
    /\ UNCHANGED <<op, scope, directory, seen, shardVars, cached, written, lost>>

\* Eviction for room or for age.
Evict(k) ==
    /\ cached[k] # None
    /\ cached' = [cached EXCEPT ![k] = None]
    /\ lost' = lost \ {k}
    /\ UNCHANGED <<pc, op, scope, directory, seen, outcome, shardVars, written, raced>>

Next ==
    \/ \E r \in Requests :
        \/ \E k \in Keys : GetHit(r, k) \/ GetMiss(r, k) \/ Put(r, k)
        \/ \E k \in Keys :
            \/ Drop(r, ItemKeys(k.database, k.item), ItemDirectory(k.database, k.item))
            \/ Drop(r, DatabaseKeys(k.database), Directory(k.database))
        \/ ReadRow(r) \/ Fill(r) \/ Commit(r) \/ Fail(r) \/ Remember(r)
        \/ NoDirectory(r) \/ RemoveDir(r) \/ Cancel(r)
    \/ \E k \in Keys : Evict(k)
    \/ \E f \in Files : CloseShard(f)

Spec == Init /\ [][Next]_vars

-----------------------------------------------------------------------------
Data == Requests \cup {None}

TypeOK ==
    /\ pc \in [Requests -> {"new", "reading", "filling", "writing", "abandoned",
                            "committed", "dropping", "done"}]
    /\ op \in [Requests -> {None, "get", "put", "drop"}]
    /\ scope \in [Requests -> SUBSET Keys]
    /\ seen \in [Requests -> Data]
    /\ outcome \in [Requests -> Data \cup {"ok", "failed", "absent", "removed", "cancelled"}]
    /\ directory \in [Requests -> Seq(Names)]
    /\ rows \in [Locations -> Data] /\ ghost \in [Locations -> Data]
    /\ cached \in [Keys -> Data]
    /\ loose \subseteq Files
    /\ written \subseteq Keys \X Requests
    /\ raced \subseteq Keys /\ lost \subseteq Keys

Busy(k) == \E r \in Requests : pc[r] \notin {"new", "done"} /\ k \in scope[r]

\* The cache and the answers only ever hold data that was committed under the
\* key: a PUT that fails, is cancelled or is still under way serves nobody, and
\* no tile is kept where another one is.
ServedWasCommitted ==
    /\ \A k \in Keys : cached[k] # None => <<k, cached[k]>> \in written
    /\ \A r \in Requests : op[r] = "get" /\ outcome[r] \in Requests =>
         \A k \in scope[r] : <<k, outcome[r]>> \in written

\* A PUT or a removal that overlapped nothing else on its tiles, and whose
\* data fits the cache, leaves cache and shards in agreement: every stale
\* cache entry is the work of a race, of an oversized tile, or of a removal that
\* has left a shard working on a removed file, whose tiles go with its close.
\* The last goes on no longer than until the entry is replaced, invalidated or
\* evicted, and a removal takes the same tiles from the cache and from the disk.
CoherentWithoutRace ==
    \A k \in Keys :
        LET row == Shown(Location(k))
        IN k \notin raced \cup lost /\ ~Busy(k) /\ row \notin Oversized => cached[k] \in {None, row}
==============================================================================
