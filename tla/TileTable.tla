------------------------------ MODULE TileTable ------------------------------
(***************************************************************************)
(* What a shard promises its clients: one table whose rows change only by  *)
(* PUTs that have been asked for and not yet answered, a GET that returns  *)
(* the row as it is at one moment, and a verdict that tells whether the    *)
(* PUT took effect.  Writers, queues, batches, retries and the closing and *)
(* reopening of the shard are invisible.                                   *)
(***************************************************************************)
EXTENDS Naturals

CONSTANTS Requests, Keys, None

VARIABLES table, op, key, outcome, applied

vars == <<table, op, key, outcome, applied>>

Init ==
    /\ table = [k \in Keys |-> None]
    /\ op = [r \in Requests |-> None]
    /\ key = [r \in Requests |-> None]
    /\ outcome = [r \in Requests |-> None]
    /\ applied = {}

Ask(r, kind, k) ==
    /\ op[r] = None
    /\ op' = [op EXCEPT ![r] = kind]
    /\ key' = [key EXCEPT ![r] = k]
    /\ UNCHANGED <<table, outcome, applied>>

\* Some PUTs take effect together; of those on one tile any may be the last.
\* A PUT whose client has gone may still take effect.
Apply(S) ==
    /\ S # {}
    /\ \A r \in S : op[r] = "put" /\ r \notin applied /\ outcome[r] \in {None, "cancelled"}
    /\ table' \in [Keys -> Requests \cup {None}]
    /\ \A k \in Keys : LET writers == {r \in S : key[r] = k}
                        IN table'[k] \in IF writers = {} THEN {table[k]} ELSE writers
    /\ applied' = applied \cup S
    /\ UNCHANGED <<op, key, outcome>>

Verdict(r) == IF r \in applied THEN {"ok"} ELSE {"failed", "stopped", "overloaded"}

Seen(r) == IF table[key[r]] = None THEN {"absent", "failed"} ELSE {table[key[r]], "failed"}

Answer(r) ==
    /\ op[r] # None /\ outcome[r] = None
    /\ \E o \in {"cancelled"} \cup (IF op[r] = "put" THEN Verdict(r) ELSE Seen(r)) :
         outcome' = [outcome EXCEPT ![r] = o]
    /\ UNCHANGED <<table, op, key, applied>>

Next ==
    \/ \E r \in Requests, k \in Keys : Ask(r, "put", k) \/ Ask(r, "get", k)
    \/ \E S \in SUBSET Requests : Apply(S)
    \/ \E r \in Requests : Answer(r)

Spec == Init /\ [][Next]_vars
==============================================================================
