----------------------------- MODULE MemoryCache -----------------------------
(***************************************************************************)
(* The in-process tile LRU of store.rs (TileMemoryCache).  Every operation *)
(* of the cache runs under one std Mutex, so each is one atomic action.    *)
(* Recency is kept twice: every entry holds the tick of its latest use,    *)
(* and a min-heap holds one record per use.  Old heap records are not      *)
(* removed when an entry is used again: a popped record counts only when   *)
(* its tick is still the entry's own.  A tile's bytes are abstracted to    *)
(* their number; hit, miss and eviction counters are left out.             *)
(***************************************************************************)
EXTENDS Naturals, FiniteSets

CONSTANTS
    Databases, Items, Tiles,    \* a TileKey is a database, an item and a tile
    Capacity,                   \* capacity in bytes; 0 disables the cache
    MaxTileBytes,               \* largest tile the cache accepts
    TileSizes,                  \* sizes of the tiles that clients write
    IdleTimeout,                \* idle time after which evict_idle removes
    OrderFactor, OrderSlack,    \* compaction threshold (4 and 1024 in the code)
    MaxClock, MaxTime           \* bounds of the exploration

ASSUME ConstantsAssumption ==
    /\ Capacity \in Nat /\ MaxTileBytes \in Nat /\ TileSizes \subseteq Nat
    /\ IdleTimeout \in Nat /\ OrderFactor \in Nat /\ OrderSlack \in Nat
    /\ MaxClock \in Nat /\ MaxTime \in Nat

VARIABLES
    entries,    \* key -> [size, lastUsed, lastAccessed], a partial function
    order,      \* the heap: a set of <<tick, key>>
    used,       \* used_bytes
    clock,      \* the tick of the latest use
    now         \* wall-clock time

vars == <<entries, order, used, clock, now>>

Keys == Databases \X Items \X Tiles
Database(k) == k[1]
Item(k) == k[2]

Entry == [size : 1..MaxTileBytes, lastUsed : 1..clock, lastAccessed : 0..now]

\* usize::saturating_sub
Monus(a, b) == IF a >= b THEN a - b ELSE 0

\* The byte positions that the tiles of S occupy, so that their number is the
\* sum of the sizes.
Bytes(e, S) == {p \in S \X (1..MaxTileBytes) : p[2] <= e[p[1]].size}
SizeOf(e, S) == Cardinality(Bytes(e, S))

\* Mutant: the tick is drawn twice.
JustUsedTwice(s) == [size |-> s, lastUsed |-> clock + 2, lastAccessed |-> now]

\* An entry of size s used now, under the next tick.
JustUsed(s) == [size |-> s, lastUsed |-> clock + 1, lastAccessed |-> now]

Without(e, S) == [k \in DOMAIN e \ S |-> e[k]]
OrderOf(e) == {<<e[k].lastUsed, k>> : k \in DOMAIN e}

Init ==
    /\ entries = [k \in {} |-> 0]
    /\ order = {}
    /\ used = 0
    /\ clock = 0
    /\ now = 0

\* Mutant: no heap record for a hit.
GetHitNoRecord(k) ==
    /\ Capacity > 0 /\ clock < MaxClock
    /\ k \in DOMAIN entries
    /\ clock' = clock + 1
    /\ entries' = [entries EXCEPT ![k] = JustUsed(entries[k].size)]
    /\ UNCHANGED <<order, used, now>>

\* get, on a cached tile: a new tick for the entry and one more heap record.
GetHit(k) ==
    /\ Capacity > 0 /\ clock < MaxClock
    /\ k \in DOMAIN entries
    /\ clock' = clock + 1
    /\ entries' = [entries EXCEPT ![k] = JustUsed(entries[k].size)]
    /\ order' = order \cup {<<clock + 1, k>>}
    /\ UNCHANGED <<used, now>>

\* get, on a tile that is not cached: the tick is spent all the same.
GetMiss(k) ==
    /\ Capacity > 0 /\ clock < MaxClock
    /\ k \notin DOMAIN entries
    /\ clock' = clock + 1
    /\ UNCHANGED <<entries, order, used, now>>

\* Mutant: a popped record evicts its entry even when it is stale.
PoppedStale(e, o, cut) == {k \in DOMAIN e : \E r \in o : r[2] = k /\ r[1] <= cut}

\* The entries removed when every heap record up to tick cut is popped: those
\* whose own latest record is among them.  Other records are skipped.
Popped(e, o, cut) == {k \in DOMAIN e : e[k].lastUsed <= cut /\ <<e[k].lastUsed, k>> \in o}

\* Mutant: the loop stops one byte early.
FitsOneOver(e, o, u, cut) == Monus(u, SizeOf(e, Popped(e, o, cut))) <= Capacity + 1

\* Pops go in tick order and stop as soon as the bytes fit or the heap is empty:
\* cut is the tick of the last record popped, 0 when there was none.
Fits(e, o, u, cut) == Monus(u, SizeOf(e, Popped(e, o, cut))) <= Capacity
StopsAt(e, o, u, cut) ==
    /\ Fits(e, o, u, cut) \/ \A r \in o : r[1] <= cut
    /\ \A c \in {0} \cup {r[1] : r \in o} : c < cut => ~Fits(e, o, u, c)

Compacted(e, o) ==
    IF Cardinality(o) > OrderFactor * Cardinality(DOMAIN e) + OrderSlack
    THEN OrderOf(e) ELSE o

Stored(k, s) ==
    [x \in DOMAIN entries \cup {k} |->
        IF x = k THEN JustUsed(s) ELSE entries[x]]

\* Mutant: the bytes of a replaced tile stay on the counter.
SizeBeforeForgotten(k) == 0

SizeBefore(k) == IF k \in DOMAIN entries THEN entries[k].size ELSE 0

\* insert: replace the previous entry, then evict the least recently used
\* entries until the bytes fit, then compact the heap if it has grown.
Insert(k, s) ==
    /\ Capacity > 0 /\ s > 0 /\ s <= MaxTileBytes
    /\ clock < MaxClock
    /\ clock' = clock + 1
    /\ LET e == Stored(k, s)
           o == order \cup {<<clock + 1, k>>}
           u == Monus(used, SizeBefore(k)) + s
       IN \E cut \in {0} \cup {r[1] : r \in o} :
            /\ StopsAt(e, o, u, cut)
            /\ entries' = Without(e, Popped(e, o, cut))
            /\ used' = Monus(u, SizeOf(e, Popped(e, o, cut)))
            /\ order' = Compacted(entries', {r \in o : r[1] > cut})
    /\ UNCHANGED now

\* What invalidate and evict_idle share: remove the entries of S and rebuild
\* the heap from those that stay.
Discard(S) ==
    /\ entries' = Without(entries, S)
    /\ used' = Monus(used, SizeOf(entries, S))
    /\ order' = OrderOf(Without(entries, S))
    /\ UNCHANGED <<clock, now>>

InvalidateItem(d, i) ==
    Discard({k \in DOMAIN entries : Database(k) = d /\ Item(k) = i})

InvalidateDatabase(d) ==
    Discard({k \in DOMAIN entries : Database(k) = d})

Idle == {k \in DOMAIN entries : now - entries[k].lastAccessed >= IdleTimeout}

EvictIdle ==
    /\ Capacity > 0 /\ IdleTimeout > 0
    /\ Idle # {}
    /\ Discard(Idle)

PassTime ==
    /\ now < MaxTime
    /\ now' = now + 1
    /\ UNCHANGED <<entries, order, used, clock>>

Next ==
    \/ \E k \in Keys : GetHit(k) \/ GetMiss(k)
    \/ \E k \in Keys, s \in TileSizes : Insert(k, s)
    \/ \E d \in Databases, i \in Items : InvalidateItem(d, i)
    \/ \E d \in Databases : InvalidateDatabase(d)
    \/ EvictIdle
    \/ PassTime

Spec == Init /\ [][Next]_vars

-----------------------------------------------------------------------------
\* The type invariant: entries are well formed, heap records name a spent tick.
TypeOK ==
    /\ DOMAIN entries \subseteq Keys /\ entries \in [DOMAIN entries -> Entry]
    /\ order \subseteq (1..clock) \X Keys
    /\ used \in Nat
    /\ clock \in 0..MaxClock
    /\ now \in 0..MaxTime

\* used_bytes, kept by saturating additions and subtractions in four places,
\* is always the total size of the cached tiles.
UsedBytesExact == used = SizeOf(entries, DOMAIN entries)

\* Whatever was inserted, removed or touched, the cached tiles fit the capacity.
CapacityRespected == SizeOf(entries, DOMAIN entries) <= Capacity

\* The heap always holds the current record of every entry.  An entry that
\* lost it could not be evicted any more, and the loop of insert would leave
\* through its break with the cache over its capacity.
HeapCoversEntries == \A k \in DOMAIN entries : <<entries[k].lastUsed, k>> \in order

\* The sizes of the cached tiles, and the pairs of which the first was used earlier.
Sizes(e) == [k \in DOMAIN e |-> e[k].size]
UseOrder(e) ==
    {p \in (DOMAIN e) \X (DOMAIN e) : e[p[1]].lastUsed < e[p[2]].lastUsed}

Recency == INSTANCE RecencyCache WITH size <- Sizes(entries), older <- UseOrder(entries)

\* Every behaviour of the cache is one of the tiles in order of use: the heap
\* with its stale records, the ticks and the compaction decide hits and
\* evictions exactly as if the tiles were kept in that order.
ImplementsRecency == Recency!Spec
==============================================================================
