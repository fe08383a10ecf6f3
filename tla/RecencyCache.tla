---------------------------- MODULE RecencyCache ----------------------------
(***************************************************************************)
(* What the memory cache promises, without ticks, heap or byte counter:    *)
(* the sizes of the cached tiles and the order in which they were used     *)
(* last.  A hit makes its tile the latest one, an insert too, and an       *)
(* insert then drops as few of the oldest tiles as it takes for the rest   *)
(* to fit.  An invalidation keeps the order of what stays.                 *)
(***************************************************************************)
EXTENDS Naturals, FiniteSets

CONSTANTS Keys, Capacity, MaxTileBytes, TileSizes

VARIABLES
    size,       \* the size of each cached tile
    older       \* the pairs of cached tiles of which the first was used earlier

vars == <<size, older>>

Cached == DOMAIN size

\* The bytes of the tiles of S, each tile having as many as its size.
Total(sizes, S) == Cardinality({p \in S \X (1..MaxTileBytes) : p[2] <= sizes[p[1]]})

\* The order among the tiles of S once k has been used.
UsedLast(S, k) ==
    {p \in older : p[1] # k /\ p[2] # k} \cup {<<x, k>> : x \in S \ {k}}

\* No tile outside E is older than one in E.
Oldest(E, order) == \A p \in order : p[2] \in E => p[1] \in E

Init ==
    /\ size = [k \in {} |-> 0]
    /\ older = {}

Hit(k) ==
    /\ k \in Cached
    /\ older' = UsedLast(Cached, k)
    /\ UNCHANGED size

\* The tiles dropped are the fewest oldest ones.
Insert(k, n) ==
    /\ n \in 1..MaxTileBytes
    /\ LET all == Cached \cup {k}
           sizes == [x \in all |-> IF x = k THEN n ELSE size[x]]
           order == UsedLast(all, k)
       IN \E E \in SUBSET all :
            /\ Oldest(E, order)
            /\ Total(sizes, all \ E) <= Capacity
            /\ \A D \in SUBSET E :
                 Oldest(D, order) /\ Total(sizes, all \ D) <= Capacity => D = E
            /\ size' = [x \in all \ E |-> sizes[x]]
            /\ older' = {p \in order : p[1] \notin E /\ p[2] \notin E}

Forget(S) ==
    /\ size' = [x \in Cached \ S |-> size[x]]
    /\ older' = {p \in older : p[1] \notin S /\ p[2] \notin S}

Next ==
    \/ \E k \in Keys : Hit(k)
    \/ \E k \in Keys, n \in TileSizes : Insert(k, n)
    \/ \E S \in SUBSET Keys : Forget(S)

Spec == Init /\ [][Next]_vars
==============================================================================
