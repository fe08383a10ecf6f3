-------------------------- MODULE MemoryCacheProofs --------------------------
(***************************************************************************)
(* Proofs about MemoryCache for every capacity, tile size limit and set of *)
(* keys.  The byte counter is exact and within the capacity because the    *)
(* heap never loses the current record of an entry: were a record lost,    *)
(* the eviction loop could run out of records before the bytes fit.        *)
(* The second part shows that hits and evictions follow the order of use.  *)
(***************************************************************************)
EXTENDS MemoryCache, FiniteSetTheorems, TLAPS

\* The bytes of finitely many tiles are finitely many.
LEMMA BytesFinite ==
    ASSUME NEW e, NEW S, IsFiniteSet(S), MaxTileBytes \in Nat
    PROVE  IsFiniteSet(Bytes(e, S)) /\ SizeOf(e, S) \in Nat
<1>1. IsFiniteSet(1..MaxTileBytes)
  BY FS_Interval
<1>2. IsFiniteSet(S \X (1..MaxTileBytes))
  BY <1>1, FS_Product
<1>3. Bytes(e, S) \in SUBSET (S \X (1..MaxTileBytes))
  BY DEF Bytes
<1>4. IsFiniteSet(Bytes(e, S))
  BY <1>2, <1>3, FS_Subset
<1>. QED
  BY <1>4, FS_CardinalityType DEF SizeOf

\* Removing some of the tiles removes exactly their bytes.
LEMMA SizeOfDifference ==
    ASSUME NEW e, NEW S, NEW T, T \subseteq S, IsFiniteSet(S), MaxTileBytes \in Nat
    PROVE  /\ SizeOf(e, S \ T) = SizeOf(e, S) - SizeOf(e, T)
           /\ SizeOf(e, T) <= SizeOf(e, S)
           /\ SizeOf(e, T) \in Nat
<1>1. IsFiniteSet(Bytes(e, S)) /\ SizeOf(e, S) \in Nat
  BY BytesFinite
<1>2. IsFiniteSet(T)
  BY FS_Subset
<1>3. Bytes(e, S \ T) = Bytes(e, S) \ Bytes(e, T)
  BY DEF Bytes
<1>4. Bytes(e, S) \cap Bytes(e, T) = Bytes(e, T) /\ Bytes(e, T) \in SUBSET Bytes(e, S)
  BY DEF Bytes
<1>5. Cardinality(Bytes(e, S) \ Bytes(e, T)) = Cardinality(Bytes(e, S)) - Cardinality(Bytes(e, T))
  BY <1>1, <1>4, FS_Difference
<1>6. Cardinality(Bytes(e, T)) <= Cardinality(Bytes(e, S))
  BY <1>1, <1>4, FS_Subset
<1>. QED
  BY <1>2, <1>3, <1>5, <1>6, BytesFinite DEF SizeOf

\* One tile has as many bytes as its size says.
LEMMA SizeOfOne ==
    ASSUME NEW e, NEW k, e[k].size \in 1..MaxTileBytes, MaxTileBytes \in Nat
    PROVE  SizeOf(e, {k}) = e[k].size
<1>. DEFINE n == e[k].size
<1>1. n \in Nat /\ Bytes(e, {k}) = {k} \X (1..n)
  BY DEF Bytes
<1>2. IsFiniteSet({k}) /\ Cardinality({k}) = 1
  BY FS_Singleton
<1>. HIDE DEF n
<1>3. IsFiniteSet(1..n) /\ Cardinality(1..n) = n
  BY <1>1, FS_Interval
<1>4. Cardinality({k} \X (1..n)) = n
  <2>1. Cardinality({k} \X (1..n)) = Cardinality({k}) * Cardinality(1..n)
    BY <1>2, <1>3, FS_Product
  <2>. QED
    BY <2>1, <1>1, <1>2, <1>3
<1>5. SizeOf(e, {k}) = n
  BY <1>1, <1>4, Zenon DEF SizeOf
<1>. QED
  BY <1>5 DEF n

\* The size of a set of tiles depends on the sizes of its tiles only.
LEMMA SizeOfSame ==
    ASSUME NEW e, NEW f, NEW S, \A k \in S : e[k].size = f[k].size
    PROVE  SizeOf(e, S) = SizeOf(f, S)
BY DEF SizeOf, Bytes

\* The inductive invariant: the two facts about bytes, and what they rest on.
IInv ==
    /\ TypeOK
    /\ IsFiniteSet(DOMAIN entries)
    /\ HeapCoversEntries
    /\ UsedBytesExact
    /\ CapacityRespected

\* The empty cache satisfies the invariant.
LEMMA InitIInv == Init => IInv
<1>. SUFFICES ASSUME Init PROVE IInv
  OBVIOUS
<1>. USE ConstantsAssumption DEF Init
<1>1. DOMAIN entries = {}
  OBVIOUS
<1>2. Bytes(entries, DOMAIN entries) = {}
  BY <1>1 DEF Bytes
<1>3. SizeOf(entries, DOMAIN entries) = 0
  BY <1>2, FS_EmptySet DEF SizeOf
<1>4. TypeOK
  BY <1>1 DEF TypeOK
<1>5. IsFiniteSet(DOMAIN entries)
  BY <1>1, FS_EmptySet
<1>. QED
  BY <1>1, <1>3, <1>4, <1>5 DEF IInv, HeapCoversEntries, UsedBytesExact, CapacityRespected

\* A hit moves no bytes, and its entry gets a record with its new tick.
LEMMA HitStep ==
    ASSUME IInv, NEW k \in Keys, GetHit(k)
    PROVE  IInv'
<1>. USE ConstantsAssumption DEF IInv
<1>1. /\ k \in DOMAIN entries /\ DOMAIN entries' = DOMAIN entries
      /\ clock' = clock + 1 /\ now' = now /\ used' = used
      /\ order' = order \cup {<<clock + 1, k>>}
      /\ clock + 1 \in 1..MaxClock
  BY DEF GetHit, TypeOK
<1>2. \A x \in DOMAIN entries :
        /\ entries[x] \in Entry
        /\ entries'[x] = IF x = k THEN JustUsed(entries[k].size) ELSE entries[x]
  BY DEF GetHit, TypeOK
<1>3. \A x \in DOMAIN entries : entries'[x] \in Entry' /\ entries'[x].size = entries[x].size
  BY <1>1, <1>2 DEF Entry, JustUsed, TypeOK
<1>4. TypeOK'
  <2>1. entries' \in [DOMAIN entries' -> Entry']
    BY <1>1, <1>3 DEF GetHit, TypeOK
  <2>. QED
    BY <2>1, <1>1 DEF TypeOK
<1>5. SizeOf(entries', DOMAIN entries') = SizeOf(entries, DOMAIN entries)
  BY <1>1, <1>3, SizeOfSame
<1>6. HeapCoversEntries'
  BY <1>1, <1>2 DEF HeapCoversEntries, JustUsed
<1>. QED
  BY <1>1, <1>4, <1>5, <1>6 DEF UsedBytesExact, CapacityRespected

\* Removing tiles, for whatever reason, takes their bytes off the counter and
\* leaves a heap of the current records.
LEMMA DiscardStep ==
    ASSUME IInv, NEW S \in SUBSET (DOMAIN entries), Discard(S)
    PROVE  IInv'
<1>. USE ConstantsAssumption DEF IInv
<1>1. /\ DOMAIN entries' = DOMAIN entries \ S
      /\ \A x \in DOMAIN entries' : entries'[x] = entries[x]
      /\ entries' = [x \in DOMAIN entries' |-> entries'[x]]
  BY DEF Discard, Without
<1>2. /\ order' = {<<entries'[x].lastUsed, x>> : x \in DOMAIN entries'}
      /\ clock' = clock /\ now' = now
      /\ used' = Monus(used, SizeOf(entries, S))
  BY DEF Discard, OrderOf
<1>3. IsFiniteSet((DOMAIN entries)')
  BY <1>1, FS_Difference
<1>4. SizeOf(entries', DOMAIN entries') = SizeOf(entries, DOMAIN entries \ S)
  BY <1>1, SizeOfSame
<1>5. /\ SizeOf(entries, DOMAIN entries \ S) = used - SizeOf(entries, S)
      /\ SizeOf(entries, S) <= used
      /\ SizeOf(entries, S) \in Nat
  BY SizeOfDifference DEF UsedBytesExact
<1>6. used' = SizeOf(entries', DOMAIN entries') /\ used' \in Nat /\ used' <= Capacity
  BY <1>2, <1>4, <1>5 DEF Monus, UsedBytesExact, CapacityRespected, TypeOK
<1>7. HeapCoversEntries'
  BY <1>2 DEF HeapCoversEntries
<1>8. TypeOK'
  <2>1. \A x \in DOMAIN entries' : x \in Keys /\ entries'[x] \in Entry'
    BY <1>1, <1>2 DEF TypeOK, Entry
  <2>2. \A x \in DOMAIN entries' : entries'[x].lastUsed \in 1..clock'
    BY <2>1 DEF Entry
  <2>. QED
    BY <1>1, <1>2, <1>6, <2>1, <2>2 DEF TypeOK
<1>. QED
  BY <1>3, <1>6, <1>7, <1>8 DEF UsedBytesExact, CapacityRespected

\* The cache as insert has it before any eviction: the counter is exact again,
\* and every entry, the new one included, has its record in the heap.
LEMMA StoredExact ==
    ASSUME IInv, NEW k \in Keys, NEW s \in 1..MaxTileBytes
    PROVE  LET e == Stored(k, s)
           IN  /\ DOMAIN e = DOMAIN entries \cup {k} /\ IsFiniteSet(DOMAIN e)
               /\ \A x \in DOMAIN e :
                    /\ e[x] \in [size : 1..MaxTileBytes, lastUsed : 1..(clock + 1), lastAccessed : 0..now]
                    /\ <<e[x].lastUsed, x>> \in order \cup {<<clock + 1, k>>}
               /\ Monus(used, SizeBefore(k)) + s = SizeOf(e, DOMAIN e)
<1>. USE ConstantsAssumption DEF IInv
<1>. DEFINE e == Stored(k, s)
            K == DOMAIN entries
<1>1. /\ DOMAIN e = K \cup {k}
      /\ \A x \in DOMAIN e : e[x] = IF x = k THEN JustUsed(s) ELSE entries[x]
  BY DEF Stored
<1>2. IsFiniteSet(K) /\ IsFiniteSet(DOMAIN e)
  BY <1>1, FS_AddElement
<1>3. \A x \in K : entries[x] \in Entry
  BY DEF TypeOK
<1>4. \A x \in DOMAIN e :
        /\ e[x] \in [size : 1..MaxTileBytes, lastUsed : 1..(clock + 1), lastAccessed : 0..now]
        /\ <<e[x].lastUsed, x>> \in order \cup {<<clock + 1, k>>}
  BY <1>1, <1>3 DEF JustUsed, Entry, HeapCoversEntries, TypeOK
<1>5. \A x \in K \ {k} : e[x].size = entries[x].size
  BY <1>1
<1>6. e[k].size = s
  BY <1>1 DEF JustUsed
<1>. HIDE DEF e
<1>7. SizeOf(e, {k}) = s
  BY <1>6, SizeOfOne
<1>8. SizeOf(e, DOMAIN e \ {k}) = SizeOf(e, DOMAIN e) - s /\ s <= SizeOf(e, DOMAIN e)
  BY <1>1, <1>2, <1>7, SizeOfDifference
<1>9. SizeOf(e, DOMAIN e \ {k}) = SizeOf(entries, K \ {k})
  <2>1. DOMAIN e \ {k} = K \ {k}
    BY <1>1
  <2>2. SizeOf(e, K \ {k}) = SizeOf(entries, K \ {k})
    BY <1>5, SizeOfSame
  <2>. QED
    BY <2>1, <2>2
<1>10. SizeOf(entries, K \ {k}) = Monus(used, SizeBefore(k))
  <2>1. CASE k \in K
    <3>1. SizeOf(entries, {k}) = entries[k].size
      BY <2>1, <1>3, SizeOfOne DEF Entry
    <3>2. /\ SizeOf(entries, K \ {k}) = SizeOf(entries, K) - entries[k].size
          /\ entries[k].size <= SizeOf(entries, K) /\ entries[k].size \in Nat
      BY <2>1, <3>1, <1>2, SizeOfDifference
    <3>. QED
      BY <2>1, <3>2 DEF UsedBytesExact, Monus, SizeBefore, TypeOK
  <2>2. CASE k \notin K
    <3>1. K \ {k} = K
      BY <2>2
    <3>. QED
      BY <2>2, <3>1 DEF UsedBytesExact, Monus, SizeBefore, TypeOK
  <2>. QED
    BY <2>1, <2>2
<1>11. SizeOf(e, DOMAIN e) \in Nat
  BY <1>2, BytesFinite
<1>12. Monus(used, SizeBefore(k)) + s = SizeOf(e, DOMAIN e)
  BY <1>8, <1>9, <1>10, <1>11
<1>. QED
  BY <1>1, <1>2, <1>4, <1>12 DEF e

\* An insert leaves the counter exact and within the capacity.  The loop ends
\* because the bytes fit or because the heap is empty, and in the second case
\* the heap, which had a record of every entry, took all of them with it.
LEMMA InsertStep ==
    ASSUME IInv, NEW k \in Keys, NEW s \in TileSizes, Insert(k, s)
    PROVE  IInv'
<1>. USE ConstantsAssumption DEF IInv
<1>. DEFINE e == Stored(k, s)
            o == order \cup {<<clock + 1, k>>}
            u == Monus(used, SizeBefore(k)) + s
<1>1. /\ s \in 1..MaxTileBytes /\ clock' = clock + 1 /\ now' = now
      /\ clock + 1 \in 1..MaxClock
  BY DEF Insert, TypeOK
<1>2. PICK cut \in {0} \cup {r[1] : r \in o} :
        /\ StopsAt(e, o, u, cut)
        /\ entries' = Without(e, Popped(e, o, cut))
        /\ used' = Monus(u, SizeOf(e, Popped(e, o, cut)))
        /\ order' = Compacted(entries', {r \in o : r[1] > cut})
  BY DEF Insert
<1>3. /\ DOMAIN e = DOMAIN entries \cup {k} /\ IsFiniteSet(DOMAIN e)
      /\ \A x \in DOMAIN e :
           /\ e[x] \in [size : 1..MaxTileBytes, lastUsed : 1..(clock + 1), lastAccessed : 0..now]
           /\ <<e[x].lastUsed, x>> \in o
      /\ u = SizeOf(e, DOMAIN e)
  BY <1>1, StoredExact
<1>4. o \subseteq (1..(clock + 1)) \X Keys /\ cut \in Nat
  BY <1>1, <1>2 DEF TypeOK
<1>. HIDE DEF e, o, u
<1>. DEFINE P == Popped(e, o, cut)
<1>5. P \subseteq DOMAIN e
  BY DEF Popped
<1>6. /\ SizeOf(e, DOMAIN e \ P) = SizeOf(e, DOMAIN e) - SizeOf(e, P)
      /\ SizeOf(e, P) <= SizeOf(e, DOMAIN e) /\ SizeOf(e, P) \in Nat
      /\ SizeOf(e, DOMAIN e) \in Nat
  BY <1>3, <1>5, SizeOfDifference, BytesFinite
<1>7. /\ DOMAIN entries' = DOMAIN e \ P
      /\ \A x \in DOMAIN entries' : entries'[x] = e[x]
      /\ entries' = [x \in DOMAIN entries' |-> entries'[x]]
  BY <1>2 DEF Without
<1>8. IsFiniteSet((DOMAIN entries)')
  <2>1. IsFiniteSet(DOMAIN e \ P)
    BY <1>3, FS_Difference
  <2>. QED
    BY <2>1, <1>7
<1>9. SizeOf(entries', DOMAIN entries') = SizeOf(e, DOMAIN e \ P)
  BY <1>7, SizeOfSame
<1>10. used' = SizeOf(entries', DOMAIN entries') /\ used' \in Nat
  BY <1>2, <1>3, <1>6, <1>9 DEF Monus
<1>11. used' <= Capacity
  <2>1. CASE Fits(e, o, u, cut)
    BY <2>1, <1>2 DEF Fits
  <2>2. CASE \A r \in o : r[1] <= cut
    <3>1. P = DOMAIN e
      BY <2>2, <1>3 DEF Popped
    <3>2. used' = 0
      BY <3>1, <1>2, <1>3, <1>6 DEF Monus
    <3>. QED
      BY <3>2
  <2>. QED
    BY <2>1, <2>2, <1>2 DEF StopsAt
<1>12. \A x \in DOMAIN entries' : <<entries'[x].lastUsed, x>> \in {r \in o : r[1] > cut}
  BY <1>3, <1>4, <1>7 DEF Popped
<1>13. HeapCoversEntries'
  BY <1>2, <1>12 DEF HeapCoversEntries, Compacted, OrderOf
<1>14. \A x \in DOMAIN entries' : x \in Keys /\ entries'[x] \in Entry'
  BY <1>1, <1>3, <1>7 DEF TypeOK, Entry
<1>15. order' \subseteq (1..clock') \X Keys
  <2>1. OrderOf(entries') \subseteq (1..clock') \X Keys
    BY <1>14 DEF OrderOf, Entry
  <2>. QED
    BY <2>1, <1>1, <1>2, <1>4 DEF Compacted
<1>16. TypeOK'
  BY <1>1, <1>7, <1>10, <1>14, <1>15 DEF TypeOK
<1>. QED
  BY <1>8, <1>10, <1>11, <1>13, <1>16 DEF UsedBytesExact, CapacityRespected

\* Every step keeps the invariant, one case for each operation.
LEMMA NextIInv == IInv /\ [Next]_vars => IInv'
<1>. SUFFICES ASSUME IInv, [Next]_vars PROVE IInv'
  OBVIOUS
<1>1. ASSUME NEW k \in Keys, GetHit(k) PROVE IInv'
  BY <1>1, HitStep
<1>2. ASSUME NEW k \in Keys, GetMiss(k) PROVE IInv'
  BY <1>2, ConstantsAssumption
  DEF GetMiss, IInv, TypeOK, Entry, HeapCoversEntries, UsedBytesExact, CapacityRespected, SizeOf, Bytes
<1>3. ASSUME NEW k \in Keys, NEW s \in TileSizes, Insert(k, s) PROVE IInv'
  BY <1>3, InsertStep
<1>4. ASSUME NEW d \in Databases, NEW i \in Items, InvalidateItem(d, i) PROVE IInv'
  BY <1>4, DiscardStep DEF InvalidateItem
<1>5. ASSUME NEW d \in Databases, InvalidateDatabase(d) PROVE IInv'
  BY <1>5, DiscardStep DEF InvalidateDatabase
<1>6. CASE EvictIdle
  BY <1>6, DiscardStep DEF EvictIdle, Idle
<1>7. CASE PassTime
  BY <1>7, ConstantsAssumption
  DEF PassTime, IInv, TypeOK, Entry, HeapCoversEntries, UsedBytesExact, CapacityRespected, SizeOf, Bytes
<1>8. CASE UNCHANGED vars
  BY <1>8
  DEF vars, IInv, TypeOK, Entry, HeapCoversEntries, UsedBytesExact, CapacityRespected, SizeOf, Bytes
<1>. QED
  BY <1>1, <1>2, <1>3, <1>4, <1>5, <1>6, <1>7, <1>8 DEF Next

\* The inductive invariant holds throughout.
LEMMA Invariance == Spec => []IInv
BY InitIInv, NextIInv, PTL DEF Spec

\* used_bytes is always the total size of the cached tiles.
THEOREM UsedBytesAlwaysExact == Spec => []UsedBytesExact
<1>1. IInv => UsedBytesExact
  BY DEF IInv
<1>. QED
  BY <1>1, Invariance, PTL

\* The cached tiles never exceed the configured capacity.
THEOREM CapacityAlwaysRespected == Spec => []CapacityRespected
<1>1. IInv => CapacityRespected
  BY DEF IInv
<1>. QED
  BY <1>1, Invariance, PTL

\* The heap never loses the current record of an entry.
THEOREM HeapAlwaysCovers == Spec => []HeapCoversEntries
<1>1. IInv => HeapCoversEntries
  BY DEF IInv
<1>. QED
  BY <1>1, Invariance, PTL

\* The variables keep their types.
THEOREM TypesAlwaysOK == Spec => []TypeOK
<1>1. IInv => TypeOK
  BY DEF IInv
<1>. QED
  BY <1>1, Invariance, PTL

-----------------------------------------------------------------------------
(* The order of use.                                                       *)

\* No two tiles were used at the same tick.
DifferentTicks ==
    \A a, b \in DOMAIN entries : entries[a].lastUsed = entries[b].lastUsed => a = b

\* An insert gives its tile a tick that no other tile has, nor is any older.
LEMMA StoredOrder ==
    ASSUME IInv, DifferentTicks, NEW k \in Keys, NEW s
    PROVE  LET e == Stored(k, s)
           IN  /\ \A a, b \in DOMAIN e : e[a].lastUsed = e[b].lastUsed => a = b
               /\ UseOrder(e) = Recency!UsedLast(DOMAIN e, k)
<1>. DEFINE e == Stored(k, s)
<1>1. /\ DOMAIN e = DOMAIN entries \cup {k}
      /\ e[k].lastUsed = clock + 1
      /\ \A x \in DOMAIN e \ {k} : x \in DOMAIN entries /\ e[x].lastUsed = entries[x].lastUsed
  BY DEF Stored, JustUsed
<1>2. clock \in Nat /\ \A x \in DOMAIN entries : entries[x].lastUsed \in 1..clock
  BY ConstantsAssumption DEF IInv, TypeOK, Entry
<1>. HIDE DEF e
<1>3. \A a, b \in DOMAIN e : e[a].lastUsed = e[b].lastUsed => a = b
  BY <1>1, <1>2 DEF DifferentTicks
<1>4. ASSUME NEW a, NEW b
      PROVE  <<a, b>> \in UseOrder(e) <=> <<a, b>> \in Recency!UsedLast(DOMAIN e, k)
  <2>1. <<a, b>> \in UseOrder(e) <=>
          a \in DOMAIN e /\ b \in DOMAIN e /\ e[a].lastUsed < e[b].lastUsed
    BY DEF UseOrder
  <2>2. <<a, b>> \in Recency!UsedLast(DOMAIN e, k) <=>
          \/ /\ a \in DOMAIN entries /\ b \in DOMAIN entries
             /\ entries[a].lastUsed < entries[b].lastUsed /\ a # k /\ b # k
          \/ b = k /\ a \in DOMAIN e \ {k}
    BY DEF Recency!UsedLast, UseOrder
  <2>. QED
    BY <1>1, <1>2, <2>1, <2>2
<1>5. \A p \in UseOrder(e) : p = <<p[1], p[2]>>
  BY DEF UseOrder
<1>6. \A p \in Recency!UsedLast(DOMAIN e, k) : p = <<p[1], p[2]>>
  BY DEF Recency!UsedLast, UseOrder
<1>7. UseOrder(e) = Recency!UsedLast(DOMAIN e, k)
  BY <1>4, <1>5, <1>6
<1>. QED
  BY <1>3, <1>7 DEF e

\* Every step keeps the ticks different.
LEMMA NextTicks == IInv /\ DifferentTicks /\ [Next]_vars => DifferentTicks'
<1>. SUFFICES ASSUME IInv, DifferentTicks, [Next]_vars PROVE DifferentTicks'
  OBVIOUS
<1>1. ASSUME NEW k \in Keys, GetHit(k) PROVE DifferentTicks'
  <2>1. /\ DOMAIN entries' = DOMAIN entries
        /\ \A x \in DOMAIN entries :
             entries'[x].lastUsed = IF x = k THEN clock + 1 ELSE entries[x].lastUsed
    BY <1>1 DEF GetHit, JustUsed
  <2>2. clock \in Nat /\ \A x \in DOMAIN entries : entries[x].lastUsed \in 1..clock
    BY ConstantsAssumption DEF IInv, TypeOK, Entry
  <2>. QED
    BY <2>1, <2>2 DEF DifferentTicks
<1>2. ASSUME NEW k \in Keys, NEW s \in TileSizes, Insert(k, s) PROVE DifferentTicks'
  <2>. DEFINE e == Stored(k, s)
  <2>1. /\ DOMAIN entries' \subseteq DOMAIN e
        /\ \A x \in DOMAIN entries' : entries'[x] = e[x]
    BY <1>2 DEF Insert, Without
  <2>2. \A a, b \in DOMAIN e : e[a].lastUsed = e[b].lastUsed => a = b
    BY StoredOrder
  <2>. QED
    BY <2>1, <2>2 DEF DifferentTicks
<1>3. ASSUME NEW S, Discard(S) PROVE DifferentTicks'
  BY <1>3 DEF Discard, Without, DifferentTicks
<1>4. ASSUME UNCHANGED entries PROVE DifferentTicks'
  BY <1>4 DEF DifferentTicks
<1>. QED
  BY <1>1, <1>2, <1>3, <1>4
  DEF Next, GetMiss, InvalidateItem, InvalidateDatabase, EvictIdle, PassTime, vars

\* Of the ticks up to some tick there is a latest one: the smallest of the
\* intervals that start at one of them.
LEMMA LatestTick ==
    ASSUME NEW top \in Nat, NEW T, T \subseteq 0..top, T # {}
    PROVE  \E c \in T : \A d \in T : d <= c
<1>1. IsWellFoundedOn(StrictSubsetOrdering(0..top), SUBSET (0..top))
  <2>1. IsFiniteSet(0..top)
    BY FS_Interval
  <2>2. FiniteSubsetsOf(0..top) = SUBSET (0..top)
    BY <2>1, FS_FiniteSubsetsOfFinite
  <2>. QED
    BY <2>2, FS_StrictSubsetOrderingWellFounded
<1>. DEFINE intervals == {c..top : c \in T}
<1>2. intervals \subseteq SUBSET (0..top) /\ intervals # {}
  <2>1. \A c \in T : c..top \in SUBSET (0..top)
    OBVIOUS
  <2>. QED
    BY <2>1
<1>. HIDE DEF intervals
<1>3. PICK i \in intervals : \A j \in intervals : <<j, i>> \notin StrictSubsetOrdering(0..top)
  BY <1>1, <1>2, WFMin
<1>4. PICK c \in T : \A d \in T : <<d..top, c..top>> \notin StrictSubsetOrdering(0..top)
  BY <1>3 DEF intervals
<1>5. ASSUME NEW d \in T, c < d PROVE FALSE
  <2>1. d..top \subseteq c..top /\ c \in c..top /\ c \notin d..top
    BY <1>5
  <2>2. d..top \in SUBSET (0..top) /\ c..top \in SUBSET (0..top)
    OBVIOUS
  <2>. QED
    BY <1>4, <2>1, <2>2 DEF StrictSubsetOrdering
<1>. QED
  BY <1>5

\* The two ways to count the bytes of some tiles agree.
LEMMA TotalIsSize ==
    ASSUME NEW e, NEW S, S \subseteq DOMAIN e
    PROVE  Recency!Total(Sizes(e), S) = SizeOf(e, S)
<1>1. {p \in S \X (1..MaxTileBytes) : p[2] <= Sizes(e)[p[1]]} = Bytes(e, S)
  BY DEF Sizes, Bytes
<1>2. Recency!Cardinality(Bytes(e, S)) = Cardinality(Bytes(e, S))
  BY Zenon DEF Recency!Cardinality, Cardinality
<1>. QED
  BY <1>1, <1>2, Zenon DEF Recency!Total, SizeOf

\* Removing tiles keeps the sizes and the order of the others.
LEMMA WithoutView ==
    ASSUME NEW e, NEW S
    PROVE  /\ Sizes(Without(e, S)) = [x \in DOMAIN e \ S |-> Sizes(e)[x]]
           /\ UseOrder(Without(e, S)) = {p \in UseOrder(e) : p[1] \notin S /\ p[2] \notin S}
<1>1. /\ DOMAIN Without(e, S) = DOMAIN e \ S
      /\ \A x \in DOMAIN e \ S : Without(e, S)[x] = e[x]
  BY DEF Without
<1>2. Sizes(Without(e, S)) = [x \in DOMAIN e \ S |-> Sizes(e)[x]]
  BY <1>1 DEF Sizes
<1>3. UseOrder(Without(e, S)) = {p \in UseOrder(e) : p[1] \notin S /\ p[2] \notin S}
  BY <1>1 DEF UseOrder
<1>. QED
  BY <1>2, <1>3

\* The eviction loop takes the oldest tiles, and none too many: with the latest
\* tick before that of a tile it took the bytes did not fit yet.
LEMMA FewestEvicted ==
    ASSUME NEW e, IsFiniteSet(DOMAIN e), NEW top \in Nat, NEW o \in SUBSET (Nat \X Keys),
           MaxTileBytes \in Nat, Capacity \in Nat,
           \A r \in o : r[1] <= top,
           \A x \in DOMAIN e : /\ e[x].lastUsed \in 1..top
                               /\ <<e[x].lastUsed, x>> \in o,
           \A a, b \in DOMAIN e : e[a].lastUsed = e[b].lastUsed => a = b,
           NEW cut \in Nat, StopsAt(e, o, SizeOf(e, DOMAIN e), cut)
    PROVE  LET P == Popped(e, o, cut)
           IN  /\ Recency!Oldest(P, UseOrder(e))
               /\ \A D \in SUBSET P :
                    /\ Recency!Oldest(D, UseOrder(e))
                    /\ SizeOf(e, DOMAIN e \ D) <= Capacity
                    => D = P
<1>. DEFINE P == Popped(e, o, cut)
            u == SizeOf(e, DOMAIN e)
<1>1. /\ P \subseteq DOMAIN e
      /\ \A x \in DOMAIN e : x \in P <=> e[x].lastUsed <= cut
  BY DEF Popped
<1>2. \A a, b \in DOMAIN e : <<a, b>> \in UseOrder(e) <=> e[a].lastUsed < e[b].lastUsed
  BY DEF UseOrder
<1>3. \A p \in UseOrder(e) : p = <<p[1], p[2]>> /\ p[1] \in DOMAIN e /\ p[2] \in DOMAIN e
  BY DEF UseOrder
<1>4. \A x \in DOMAIN e : e[x].lastUsed \in Nat /\ e[x].lastUsed \in 1..top
  OBVIOUS
<1>5. Recency!Oldest(P, UseOrder(e))
  <2>1. ASSUME NEW p \in UseOrder(e), p[2] \in P PROVE p[1] \in P
    <3>1. PICK a \in DOMAIN e, b \in DOMAIN e : p = <<a, b>>
      BY <1>3, <2>1
    <3>2. e[a].lastUsed < e[b].lastUsed /\ e[b].lastUsed <= cut
      BY <1>1, <1>2, <2>1, <3>1
    <3>. QED
      BY <1>1, <1>4, <3>1, <3>2
  <2>. QED
    BY <2>1 DEF Recency!Oldest
<1>6. ASSUME NEW D \in SUBSET P, Recency!Oldest(D, UseOrder(e)),
             SizeOf(e, DOMAIN e \ D) <= Capacity, NEW x \in P \ D
      PROVE  FALSE
  <2>1. x \in DOMAIN e /\ D \subseteq DOMAIN e /\ e[x].lastUsed <= cut
    BY <1>1, <1>6
  <2>2. \A y \in D : e[y].lastUsed < e[x].lastUsed
    <3>1. ASSUME NEW y \in D, e[x].lastUsed < e[y].lastUsed PROVE FALSE
      <4>1. <<x, y>> \in UseOrder(e)
        BY <1>2, <2>1, <3>1
      <4>. QED
        BY <1>6, <4>1 DEF Recency!Oldest
    <3>2. \A y \in D : e[y].lastUsed # e[x].lastUsed
      BY <1>6, <2>1
    <3>. QED
      BY <1>4, <2>1, <3>1, <3>2
  <2>. DEFINE ticks == {0} \cup {r[1] : r \in o}
              T == {c \in ticks : c < e[x].lastUsed}
  <2>3. ticks \subseteq 0..top
    <3>1. \A r \in o : r[1] \in Nat
      OBVIOUS
    <3>. QED
      BY <3>1
  <2>4. \A y \in DOMAIN e : e[y].lastUsed \in ticks
    <3>1. ASSUME NEW y \in DOMAIN e PROVE e[y].lastUsed \in ticks
      <4>1. <<e[y].lastUsed, y>> \in o /\ <<e[y].lastUsed, y>>[1] = e[y].lastUsed
        OBVIOUS
      <4>. QED
        BY <4>1
    <3>. QED
      BY <3>1
  <2>5. 0 \in ticks
    OBVIOUS
  <2>. HIDE DEF ticks
  <2>6. T \subseteq 0..top /\ T # {}
    <3>1. e[x].lastUsed \in 1..top
      BY <1>4, <2>1
    <3>2. 0 \in T
      BY <2>5, <3>1
    <3>. QED
      BY <2>3, <3>2
  <2>7. PICK c \in T : \A d \in T : d <= c
    <3>. HIDE DEF T
    <3>. QED
      BY <2>6, LatestTick
  <2>8. c \in ticks /\ c < cut /\ c \in Nat
    BY <1>4, <2>1, <2>3, <2>7
  <2>9. ~Fits(e, o, u, c)
    BY <2>8 DEF StopsAt, ticks
  <2>. DEFINE Q == Popped(e, o, c)
  <2>10. Q \subseteq DOMAIN e /\ \A y \in DOMAIN e : e[y].lastUsed <= c => y \in Q
    BY DEF Popped
  <2>11. D \subseteq Q
    <3>1. ASSUME NEW y \in D PROVE y \in Q
      <4>1. y \in DOMAIN e
        BY <2>1
      <4>2. e[y].lastUsed \in T
        BY <2>2, <2>4, <4>1
      <4>. QED
        BY <2>7, <2>10, <4>1, <4>2
    <3>. QED
      BY <3>1
  <2>. HIDE DEF P, Q, T
  <2>12. /\ SizeOf(e, DOMAIN e \ Q) = SizeOf(e, DOMAIN e) - SizeOf(e, Q)
         /\ SizeOf(e, Q) <= SizeOf(e, DOMAIN e)
         /\ SizeOf(e, Q) \in Nat
    BY <2>10, SizeOfDifference
  <2>13. SizeOf(e, DOMAIN e) \in Nat
    BY BytesFinite
  <2>14. SizeOf(e, DOMAIN e \ Q) > Capacity
    BY <2>9, <2>12, <2>13 DEF Fits, Monus, Q
  <2>15. SizeOf(e, DOMAIN e \ Q) <= SizeOf(e, DOMAIN e \ D) /\ SizeOf(e, DOMAIN e \ D) \in Nat
    <3>1. DOMAIN e \ Q \subseteq DOMAIN e \ D
      BY <2>11
    <3>2. IsFiniteSet(DOMAIN e \ D)
      BY FS_Difference
    <3>. QED
      BY <3>1, <3>2, SizeOfDifference, BytesFinite
  <2>. QED
    BY <1>6, <2>12, <2>13, <2>14, <2>15
<1>. QED
  BY <1>5, <1>6

\* A hit makes its tile the latest.
LEMMA HitMoves ==
    ASSUME IInv, NEW k \in Keys, GetHit(k)
    PROVE  Recency!Hit(k)
<1>1. /\ k \in DOMAIN entries /\ DOMAIN entries' = DOMAIN entries
      /\ \A x \in DOMAIN entries : /\ entries'[x].size = entries[x].size
                                   /\ entries'[x].lastUsed = IF x = k THEN clock + 1 ELSE entries[x].lastUsed
  BY DEF GetHit, JustUsed
<1>2. clock \in Nat /\ \A x \in DOMAIN entries : entries[x].lastUsed \in 1..clock
  BY ConstantsAssumption DEF IInv, TypeOK, Entry
<1>3. Sizes(entries') = Sizes(entries)
  BY <1>1 DEF Sizes
<1>4. ASSUME NEW a, NEW b
      PROVE  <<a, b>> \in UseOrder(entries') <=> <<a, b>> \in Recency!UsedLast(DOMAIN entries, k)
  <2>1. <<a, b>> \in UseOrder(entries') <=>
          a \in DOMAIN entries' /\ b \in DOMAIN entries' /\ entries'[a].lastUsed < entries'[b].lastUsed
    BY DEF UseOrder
  <2>2. <<a, b>> \in Recency!UsedLast(DOMAIN entries, k) <=>
          \/ /\ a \in DOMAIN entries /\ b \in DOMAIN entries
             /\ entries[a].lastUsed < entries[b].lastUsed /\ a # k /\ b # k
          \/ b = k /\ a \in DOMAIN entries \ {k}
    BY DEF Recency!UsedLast, UseOrder
  <2>. QED
    BY <1>1, <1>2, <2>1, <2>2
<1>5. \A p \in UseOrder(entries') : p = <<p[1], p[2]>>
  BY DEF UseOrder
<1>6. \A p \in Recency!UsedLast(DOMAIN entries, k) : p = <<p[1], p[2]>>
  BY DEF Recency!UsedLast, UseOrder
<1>7. UseOrder(entries') = Recency!UsedLast(DOMAIN entries, k)
  BY <1>4, <1>5, <1>6
<1>8. DOMAIN Sizes(entries) = DOMAIN entries
  BY DEF Sizes
<1>. QED
  BY <1>1, <1>3, <1>7, <1>8 DEF Recency!Hit, Recency!Cached

\* An insert drops the fewest oldest tiles.
LEMMA InsertDrops ==
    ASSUME IInv, DifferentTicks, NEW k \in Keys, NEW s \in TileSizes, Insert(k, s)
    PROVE  Recency!Insert(k, s)
<1>. USE ConstantsAssumption DEF IInv
<1>. DEFINE e == Stored(k, s)
            o == order \cup {<<clock + 1, k>>}
            u == Monus(used, SizeBefore(k)) + s
<1>1. s \in 1..MaxTileBytes /\ clock \in Nat /\ clock + 1 \in Nat
  BY DEF Insert, TypeOK
<1>2. PICK cut \in {0} \cup {r[1] : r \in o} :
        /\ StopsAt(e, o, u, cut)
        /\ entries' = Without(e, Popped(e, o, cut))
  BY DEF Insert
<1>3. /\ DOMAIN e = DOMAIN entries \cup {k} /\ IsFiniteSet(DOMAIN e)
      /\ \A x \in DOMAIN e :
           /\ e[x] \in [size : 1..MaxTileBytes, lastUsed : 1..(clock + 1), lastAccessed : 0..now]
           /\ <<e[x].lastUsed, x>> \in o
      /\ u = SizeOf(e, DOMAIN e)
  BY <1>1, StoredExact
<1>4. o \subseteq (1..(clock + 1)) \X Keys
  BY <1>1 DEF TypeOK
<1>5. o \in SUBSET (Nat \X Keys) /\ (\A r \in o : r[1] <= clock + 1) /\ cut \in Nat
  BY <1>1, <1>2, <1>4
<1>6. /\ \A a, b \in DOMAIN e : e[a].lastUsed = e[b].lastUsed => a = b
      /\ UseOrder(e) = Recency!UsedLast(DOMAIN e, k)
  BY StoredOrder
<1>7. Sizes(e) = [x \in DOMAIN entries \cup {k} |-> IF x = k THEN s ELSE Sizes(entries)[x]]
  BY DEF Sizes, Stored, JustUsed
<1>8. DOMAIN Sizes(entries) = DOMAIN entries
  BY DEF Sizes
<1>. HIDE DEF e, o, u
<1>. DEFINE P == Popped(e, o, cut)
<1>9. P \in SUBSET DOMAIN e
  BY DEF Popped
<1>10. /\ \A x \in DOMAIN e : e[x].lastUsed \in 1..(clock + 1) /\ <<e[x].lastUsed, x>> \in o
  BY <1>3
<1>11. StopsAt(e, o, SizeOf(e, DOMAIN e), cut)
  BY <1>2, <1>3
<1>12. MaxTileBytes \in Nat /\ Capacity \in Nat
  OBVIOUS
<1>. HIDE DEF IInv
<1>13. /\ Recency!Oldest(P, UseOrder(e))
       /\ \A D \in SUBSET P :
            /\ Recency!Oldest(D, UseOrder(e))
            /\ SizeOf(e, DOMAIN e \ D) <= Capacity
            => D = P
  BY <1>1, <1>3, <1>5, <1>6, <1>10, <1>11, <1>12, FewestEvicted
<1>. HIDE DEF P
<1>14. SizeOf(e, DOMAIN e \ P) <= Capacity
  <2>1. CapacityRespected'
    BY InsertStep DEF IInv
  <2>2. DOMAIN entries' = DOMAIN e \ P /\ \A x \in DOMAIN e \ P : entries'[x] = e[x]
    BY <1>2 DEF Without, P
  <2>3. SizeOf(entries', DOMAIN e \ P) = SizeOf(e, DOMAIN e \ P)
    BY <2>2, SizeOfSame
  <2>4. SizeOf(entries', DOMAIN entries') <= Capacity
    BY <2>1 DEF CapacityRespected
  <2>. QED
    BY <2>2, <2>3, <2>4
<1>15. \A D \in SUBSET DOMAIN e : Recency!Total(Sizes(e), DOMAIN e \ D) = SizeOf(e, DOMAIN e \ D)
  BY TotalIsSize
<1>16. /\ Sizes(entries)' = [x \in DOMAIN e \ P |-> Sizes(e)[x]]
       /\ UseOrder(entries)' = {p \in UseOrder(e) : p[1] \notin P /\ p[2] \notin P}
  BY <1>2, WithoutView DEF P
<1>17. PICK E \in SUBSET DOMAIN e : E = P
  BY <1>9
<1>18. /\ Recency!Oldest(E, UseOrder(e))
       /\ Recency!Total(Sizes(e), DOMAIN e \ E) <= Capacity
       /\ \A D \in SUBSET E :
            Recency!Oldest(D, UseOrder(e)) /\ Recency!Total(Sizes(e), DOMAIN e \ D) <= Capacity => D = E
       /\ Sizes(entries)' = [x \in DOMAIN e \ E |-> Sizes(e)[x]]
       /\ UseOrder(entries)' = {p \in UseOrder(e) : p[1] \notin E /\ p[2] \notin E}
  BY <1>9, <1>13, <1>14, <1>15, <1>16, <1>17
<1>19. Recency!Cached \cup {k} = DOMAIN e
  BY <1>3, <1>8 DEF Recency!Cached
<1>20. Sizes(e) = [x \in Recency!Cached \cup {k} |-> IF x = k THEN s ELSE Sizes(entries)[x]]
  BY <1>7, <1>8 DEF Recency!Cached
<1>21. UseOrder(e) = Recency!UsedLast(Recency!Cached \cup {k}, k)
  BY <1>6, <1>19
<1>. DEFINE all == Recency!Cached \cup {k}
            sizes == [x \in all |-> IF x = k THEN s ELSE Sizes(entries)[x]]
            past == Recency!UsedLast(all, k)
<1>22. all = DOMAIN e /\ sizes = Sizes(e) /\ past = UseOrder(e)
  BY <1>19, <1>20, <1>21, Zenon
<1>. HIDE DEF all, sizes, past
<1>23. \E F \in SUBSET all :
         /\ Recency!Oldest(F, past)
         /\ Recency!Total(sizes, all \ F) <= Capacity
         /\ \A D \in SUBSET F :
              Recency!Oldest(D, past) /\ Recency!Total(sizes, all \ D) <= Capacity => D = F
         /\ Sizes(entries)' = [x \in all \ F |-> sizes[x]]
         /\ UseOrder(entries)' = {p \in past : p[1] \notin F /\ p[2] \notin F}
  BY <1>18, <1>22
<1>. QED
  BY <1>1, <1>23, Zenon DEF Recency!Insert, all, sizes, past

\* Whatever is discarded, the rest keeps its order.
LEMMA DiscardForgets ==
    ASSUME NEW S \in SUBSET DOMAIN entries, Discard(S)
    PROVE  Recency!Forget(S)
<1>1. DOMAIN Sizes(entries) = DOMAIN entries
  BY DEF Sizes
<1>2. entries' = Without(entries, S)
  BY DEF Discard
<1>3. /\ Sizes(entries)' = [x \in DOMAIN entries \ S |-> Sizes(entries)[x]]
      /\ UseOrder(entries)' = {p \in UseOrder(entries) : p[1] \notin S /\ p[2] \notin S}
  BY <1>2, WithoutView
<1>. QED
  BY <1>1, <1>3 DEF Recency!Forget, Recency!Cached

\* Every step of the cache is one of the tiles in order of use, or none.
LEMMA StepInOrder == IInv /\ DifferentTicks /\ [Next]_vars => [Recency!Next]_Recency!vars
<1>. SUFFICES ASSUME IInv, DifferentTicks, [Next]_vars PROVE [Recency!Next]_Recency!vars
  OBVIOUS
<1>1. ASSUME NEW k \in Keys, GetHit(k) PROVE Recency!Next
  BY <1>1, HitMoves DEF Recency!Next
<1>2. ASSUME NEW k \in Keys, NEW s \in TileSizes, Insert(k, s) PROVE Recency!Next
  BY <1>2, InsertDrops DEF Recency!Next
<1>3. ASSUME NEW S \in SUBSET DOMAIN entries, Discard(S) PROVE Recency!Next
  <2>1. S \in SUBSET Keys
    BY DEF IInv, TypeOK
  <2>2. Recency!Forget(S)
    BY <1>3, DiscardForgets
  <2>. QED
    BY <2>1, <2>2 DEF Recency!Next
<1>4. ASSUME UNCHANGED entries PROVE UNCHANGED Recency!vars
  BY <1>4 DEF Recency!vars, Sizes, UseOrder
<1>5. ASSUME NEW k \in Keys, GetMiss(k) PROVE UNCHANGED entries
  BY <1>5 DEF GetMiss
<1>6. ASSUME NEW d \in Databases, NEW i \in Items, InvalidateItem(d, i) PROVE Recency!Next
  BY <1>6, <1>3 DEF InvalidateItem
<1>7. ASSUME NEW d \in Databases, InvalidateDatabase(d) PROVE Recency!Next
  BY <1>7, <1>3 DEF InvalidateDatabase
<1>8. CASE EvictIdle
  BY <1>8, <1>3 DEF EvictIdle, Idle
<1>9. CASE PassTime
  BY <1>9, <1>4 DEF PassTime
<1>10. CASE UNCHANGED vars
  BY <1>10, <1>4 DEF vars
<1>. QED
  BY <1>1, <1>2, <1>4, <1>5, <1>6, <1>7, <1>8, <1>9, <1>10 DEF Next

\* The cache starts as the empty one.
LEMMA InitInOrder == Init => Recency!Init /\ DifferentTicks
<1>. SUFFICES ASSUME Init PROVE Recency!Init /\ DifferentTicks
  OBVIOUS
<1>1. DOMAIN entries = {}
  BY DEF Init
<1>. QED
  BY <1>1 DEF Recency!Init, Sizes, UseOrder, DifferentTicks

\* The heap with its stale records, the ticks and the compaction decide hits
\* and evictions exactly as if the tiles were kept in order of use.
THEOREM CacheImplementsRecency == Spec => ImplementsRecency
<1>1. Spec => [](IInv /\ DifferentTicks)
  BY Invariance, InitInOrder, NextTicks, PTL DEF Spec
<1>. QED
  BY <1>1, InitInOrder, StepInOrder, PTL DEF Spec, ImplementsRecency, Recency!Spec
==============================================================================
