------------------------------- MODULE Cleanup -------------------------------
(***************************************************************************)
(* cleanup_expired of api.rs on one database: what it reads and removes,   *)
(* in the store and in the catalog, while requests use the database, an    *)
(* administrator changes what is protected and other runs of the cleanup   *)
(* are under way.  Any number of runs may overlap: the scheduler's and     *)
(* those an administrator asks for take no common lock.  The time of the   *)
(* access marker is kept as fresh or old, older than a run's cutoff.       *)
(* How shards close below a removed directory is in ShardWriter, how the   *)
(* catalog writes its rows is in Catalog.                                  *)
(***************************************************************************)
EXTENDS Integers, FiniteSets

CONSTANTS
    Layers,
    Users,          \* requests at a time
    Runs,           \* runs of the cleanup at a time
    MaxFaults,      \* bound on errors, clients that leave and restarts
    Whole,          \* the database's own row and mark
    None

ASSUME ConstantsAssumption ==
    /\ MaxFaults \in Nat
    /\ Whole \notin Layers /\ None \notin Layers \cup {Whole, "fresh", "old"}

VARIABLES
    dirs,           \* the layers that have a directory
    directory,      \* whether the database has one
    marker,         \* ACCESS_FILE: None, "fresh" or "old"
    throttled,      \* access_touches holds the database, for an hour
    rows, marks,    \* the catalog's rows, and which of them are not revocable
    use,            \* of each request: where it is, and the layer of a PUT
    run,            \* of each run: where it is, the layers it has to go through, the
                    \* one it has dropped and, as history, the names that have been
                    \* protected since it began
    faults,
    \* history
    strayed,        \* layers whose removal met a PUT or was cut off, until the
                    \* catalog and the files have come together again
    unmarked,       \* the throttle holds without its mark: writing it failed or was cut
                    \* off, or a removal under way or broken off has taken the marker
    recent,         \* a request has touched the database since it was idle, and since
                    \* a throttle without a mark has gone
    accessed        \* a request was answered since the database was idle

storeVars == <<dirs, directory, marker, throttled>>
catalogVars == <<rows, marks>>
markVars == <<unmarked, recent, accessed>>
vars == <<storeVars, catalogVars, use, run, faults, strayed, markVars>>

Names == Layers \cup {Whole}

Places == {"idle", "listing", "readDatabase", "readLayers", "readLayersOnly", "dropLayer",
           "removeLayer", "dropDatabase", "forget", "removeDatabase"}

NoUse == [pc |-> "idle", layer |-> None]
NoRun == [pc |-> "idle", layers |-> {}, layer |-> None, spared |-> {}]

Init ==
    /\ dirs = {} /\ directory = FALSE /\ marker = None /\ throttled = FALSE
    /\ rows = {} /\ marks = {}
    /\ use = [u \in Users |-> NoUse]
    /\ run = [r \in Runs |-> NoRun]
    /\ faults = 0
    /\ strayed = {} /\ unmarked = FALSE /\ recent = FALSE /\ accessed = FALSE

Fault == faults < MaxFaults /\ faults' = faults + 1

\* The names of a set are not, or no longer, protected.
Unspare(f, names) == [r \in Runs |-> [f[r] EXCEPT !.spared = @ \ names]]

At(u, pc) == use[u].pc = pc
GoUse(u, pc) == use' = [use EXCEPT ![u].pc = pc]
UseFrame == UNCHANGED <<catalogVars, run, faults>>

\* A row's removal that is still to come.
RowPending(l) ==
    \E r \in Runs :
        \/ run[r].pc = "removeLayer" /\ l = run[r].layer
        \/ run[r].pc \in {"forget", "removeDatabase"}

Marking == \E u \in Users : use[u].pc = "mark"
PutsUnderWay == {use[u].layer : u \in Users} \ {None}

-----------------------------------------------------------------------------
(* Requests.                                                               *)

\* TileStore::put, up to the commit of the tile.
Put(u, l) ==
    /\ At(u, "idle")
    /\ use' = [use EXCEPT ![u] = [pc |-> "touch", layer |-> l]]
    /\ dirs' = dirs \cup {l} /\ directory' = TRUE
    /\ strayed' = strayed \cup (IF RowPending(l) THEN {l} ELSE {})
    /\ UNCHANGED <<marker, throttled, markVars>> /\ UseFrame

\* TileStore::get that finds the tile in its shard.
Get(u) ==
    /\ At(u, "idle") /\ dirs # {}
    /\ use' = [use EXCEPT ![u] = [pc |-> "touch", layer |-> None]]
    /\ UNCHANGED <<storeVars, markVars, strayed>> /\ UseFrame

\* TileStore::get that finds it in memory returns before it touches the
\* database.  Which tiles are in memory is left open: any that is stored may be.
CachedGet ==
    /\ dirs # {} /\ accessed' = TRUE
    /\ UNCHANGED <<storeVars, unmarked, recent, use, strayed>> /\ UseFrame

\* The request goes on: a PUT to the catalog, a GET to its answer.
Touched(u) ==
    /\ recent' = TRUE /\ accessed' = TRUE
    /\ IF use[u].layer = None THEN use' = [use EXCEPT ![u] = NoUse] ELSE GoUse(u, "report")

\* touch_database within the interval: nothing is written.
Skip(u) ==
    /\ At(u, "touch") /\ throttled
    /\ Touched(u)
    /\ UNCHANGED <<storeVars, unmarked, strayed>> /\ UseFrame

Touch(u) ==
    /\ At(u, "touch") /\ ~throttled
    /\ throttled' = TRUE
    /\ GoUse(u, "mark")
    /\ UNCHANGED <<dirs, directory, marker, markVars, strayed>> /\ UseFrame

\* The directory is created again where a removal has taken it away.
Mark(u) ==
    /\ At(u, "mark")
    /\ directory' = TRUE /\ marker' = "fresh"
    /\ Touched(u)
    /\ unmarked' = FALSE
    /\ UNCHANGED <<dirs, throttled, strayed>> /\ UseFrame

\* The result of the write is ignored.
FailToMark(u) ==
    /\ At(u, "mark") /\ Fault
    /\ Touched(u)
    /\ unmarked' = TRUE
    /\ UNCHANGED <<storeVars, strayed, catalogVars, run>>

\* put_tile hands the tile to the catalog, which creates the rows it misses.
Report(u) ==
    /\ At(u, "report")
    /\ rows' = rows \cup {use[u].layer, Whole}
    /\ use' = [use EXCEPT ![u] = NoUse]
    /\ strayed' = strayed \ {l \in dirs : l = use[u].layer /\ ~RowPending(l)}
    /\ UNCHANGED <<storeVars, marks, run, faults, markVars>>

\* The client of a request leaves.
Leave(u) ==
    /\ ~At(u, "idle") /\ Fault
    /\ use' = [use EXCEPT ![u] = NoUse]
    /\ strayed' = strayed \cup ({use[u].layer} \ {None})
    /\ unmarked' = (unmarked \/ At(u, "mark"))
    /\ UNCHANGED <<storeVars, catalogVars, run, recent, accessed>>

\* set_database_revocable, set_layer_revocable.
Protect(n) ==
    /\ n \in rows
    /\ marks' = IF n \in marks THEN marks \ {n} ELSE marks \cup {n}
    /\ run' = Unspare(run, {n})
    /\ UNCHANGED <<storeVars, rows, use, faults, strayed, markVars>>

-----------------------------------------------------------------------------
(* Time.                                                                   *)

\* The throttle goes, and with it the requests it has kept from marking.
Unthrottle ==
    /\ throttled' = FALSE /\ unmarked' = FALSE
    /\ recent' = (recent /\ ~unmarked)

\* The hour of ACCESS_TOUCH_INTERVAL is over.
Expire ==
    /\ throttled /\ ~Marking
    /\ Unthrottle
    /\ UNCHANGED <<dirs, directory, marker, accessed, use, strayed>> /\ UseFrame

\* The retention has passed since the database was last touched.  It is days
\* long, so no request and no listing lasts that long.
Age ==
    /\ marker = "fresh" /\ ~throttled /\ \A u \in Users : At(u, "idle")
    /\ \A r \in Runs : run[r].pc # "listing"
    /\ marker' = "old" /\ recent' = FALSE /\ accessed' = FALSE
    /\ UNCHANGED <<dirs, directory, throttled, unmarked, use, strayed>> /\ UseFrame

-----------------------------------------------------------------------------
(* cleanup_expired.                                                        *)

RunAt(r, pc) == run[r].pc = pc
Ended(r) == [run EXCEPT ![r] = NoRun]
Going(r, pc, layers) == [run EXCEPT ![r] = [@ EXCEPT !.pc = pc, !.layers = layers, !.layer = None]]
Proceeding(r, l) ==
    IF run[r].layers = {l} THEN Ended(r) ELSE Going(r, "dropLayer", run[r].layers \ {l})

RunFrame == UNCHANGED <<use, faults>>

\* Mutant: a mark outlives its row.
MarksWithoutNot(names) == marks

MarksWithout(names) == marks \ names

\* Catalog::remove_layer and remove_database; the run goes on.
RemoveRows(names, next) ==
    /\ run' = Unspare(next, names)
    /\ rows' = rows \ names /\ marks' = MarksWithout(names)
    /\ strayed' = strayed \ (names \ (dirs \cup PutsUnderWay))

Begin(r) ==
    /\ RunAt(r, "idle")
    /\ run' = [run EXCEPT ![r] = [NoRun EXCEPT !.pc = "listing", !.spared = marks]]
    /\ UNCHANGED <<storeVars, catalogVars, strayed, markVars>> /\ RunFrame

\* list_databases sees a database only through its marker.
Listed == marker = "old"

\* cleanup_candidates.
List(r) ==
    /\ RunAt(r, "listing")
    /\ run' = IF Listed THEN Going(r, "readDatabase", {}) ELSE Ended(r)
    /\ UNCHANGED <<storeVars, catalogVars, strayed, markVars>> /\ RunFrame

\* The row is read first: whether the database itself is protected.
ReadDatabase(r) ==
    /\ RunAt(r, "readDatabase")
    /\ run' = Going(r, IF Whole \in marks THEN "readLayersOnly" ELSE "readLayers", {})
    /\ UNCHANGED <<storeVars, catalogVars, strayed, markVars>> /\ RunFrame

\* Mutant: only the mark of the database keeps it.
LayersOnlyIfWhole(r) == RunAt(r, "readLayersOnly")

\* A protected database, or one with a protected layer, loses layers only.
LayersOnly(r) == RunAt(r, "readLayersOnly") \/ rows \cap marks \cap Layers # {}

\* Mutant: a protected database keeps all its layers.
RevocableIfWhole(r) == IF RunAt(r, "readLayersOnly") THEN {} ELSE (rows \cap Layers) \ marks

Revocable(r) == (rows \cap Layers) \ marks

ReadLayers(r) ==
    /\ run[r].pc \in {"readLayers", "readLayersOnly"}
    /\ run' = IF ~LayersOnly(r) THEN Going(r, "dropDatabase", {})
              ELSE IF Revocable(r) = {} THEN Ended(r)
              ELSE Going(r, "dropLayer", Revocable(r))
    /\ UNCHANGED <<storeVars, catalogVars, strayed, markVars>> /\ RunFrame

\* drop_tileset of the next layer: without a directory there is nothing to do,
\* and the row stays.
DropLayer(r, l) ==
    /\ RunAt(r, "dropLayer") /\ l \in run[r].layers
    /\ IF l \in dirs
       THEN /\ dirs' = dirs \ {l}
            /\ run' = [run EXCEPT ![r].pc = "removeLayer", ![r].layer = l]
            /\ strayed' = strayed \cup ({l} \cap PutsUnderWay)
       ELSE run' = Proceeding(r, l) /\ UNCHANGED <<dirs, strayed>>
    /\ UNCHANGED <<directory, marker, throttled, catalogVars, markVars>> /\ RunFrame

\* Catalog::remove_layer.
RemoveLayer(r) ==
    LET l == run[r].layer IN
    /\ RunAt(r, "removeLayer")
    /\ RemoveRows({l}, Proceeding(r, l))
    /\ UNCHANGED <<storeVars, markVars>> /\ RunFrame

\* drop_database up to the removal of the directory.
DropDatabase(r) ==
    /\ RunAt(r, "dropDatabase")
    /\ IF directory
       THEN /\ run' = Going(r, "forget", {})
            /\ dirs' = {} /\ directory' = FALSE /\ marker' = None
            /\ strayed' = strayed \cup PutsUnderWay
            /\ recent' = FALSE /\ unmarked' = throttled /\ accessed' = FALSE
       ELSE run' = Ended(r) /\ UNCHANGED <<dirs, directory, marker, strayed, markVars>>
    /\ UNCHANGED <<throttled, catalogVars>> /\ RunFrame

\* The removal of the directory fails part way: any of the layers, and the
\* marker, may be gone, the throttle stays, and the run ends with the error.
FailToDrop(r) ==
    /\ RunAt(r, "dropDatabase") /\ directory /\ Fault
    /\ run' = Ended(r)
    /\ \E gone \in SUBSET dirs :
        /\ dirs' = dirs \ gone
        /\ strayed' = strayed \cup gone \cup PutsUnderWay
    /\ \/ marker' = None /\ recent' = FALSE /\ unmarked' = throttled
       \/ UNCHANGED <<marker, recent, unmarked>>
    /\ UNCHANGED <<directory, throttled, catalogVars, use, accessed>>

\* Mutant: the throttle outlives the database.
ForgottenNot == throttled

Forgotten == FALSE

\* The last step of drop_database.
Forget(r) ==
    /\ RunAt(r, "forget")
    /\ run' = Going(r, "removeDatabase", {})
    /\ throttled' = Forgotten
    /\ unmarked' = FALSE /\ recent' = (recent /\ ~unmarked)
    /\ UNCHANGED <<dirs, directory, marker, catalogVars, strayed, accessed>> /\ RunFrame

\* Mutant: the rows of the layers are left.
RowsOfDatabaseOnly == {Whole}

RowsOfDatabase == Names

\* Catalog::remove_database.
RemoveDatabase(r) ==
    /\ RunAt(r, "removeDatabase")
    /\ RemoveRows(RowsOfDatabase, Ended(r))
    /\ UNCHANGED <<storeVars, markVars>> /\ RunFrame

Unfinished(r) ==
    CASE run[r].pc = "removeLayer" -> {run[r].layer}
      [] run[r].pc \in {"forget", "removeDatabase"} -> Layers
      [] OTHER -> {}

\* An error of the store or of the catalog ends the run where it is, and so
\* does an administrator's client that leaves.
Abort(r) ==
    /\ ~RunAt(r, "idle") /\ Fault
    /\ run' = Ended(r)
    /\ strayed' = strayed \cup Unfinished(r)
    /\ UNCHANGED <<storeVars, catalogVars, use, markVars>>

\* The process ends and starts again.
Restart ==
    /\ Fault
    /\ throttled' = FALSE /\ unmarked' = FALSE
    /\ recent' = (recent /\ ~unmarked /\ ~Marking)
    /\ use' = [u \in Users |-> NoUse] /\ run' = [r \in Runs |-> NoRun]
    /\ strayed' = strayed \cup PutsUnderWay \cup UNION {Unfinished(r) : r \in Runs}
    /\ UNCHANGED <<dirs, directory, marker, catalogVars, accessed>>

-----------------------------------------------------------------------------
UseStep(u) == Skip(u) \/ Touch(u) \/ Mark(u) \/ Report(u)

RunStep(r) ==
    \/ List(r) \/ ReadDatabase(r) \/ ReadLayers(r)
    \/ \E l \in Layers : DropLayer(r, l)
    \/ RemoveLayer(r) \/ DropDatabase(r) \/ Forget(r) \/ RemoveDatabase(r)

Next ==
    \/ \E u \in Users :
        \/ \E l \in Layers : Put(u, l)
        \/ Get(u) \/ UseStep(u) \/ FailToMark(u) \/ Leave(u)
    \/ CachedGet
    \/ \E n \in Names : Protect(n)
    \/ Expire \/ Age
    \/ \E r \in Runs : Begin(r) \/ RunStep(r) \/ FailToDrop(r) \/ Abort(r)
    \/ Restart

Spec == Init /\ [][Next]_vars

-----------------------------------------------------------------------------
TypeOK ==
    /\ dirs \subseteq Layers /\ directory \in BOOLEAN /\ (dirs # {} \/ marker # None => directory)
    /\ marker \in {None, "fresh", "old"} /\ throttled \in BOOLEAN
    /\ rows \subseteq Names /\ marks \subseteq rows /\ faults \in 0..MaxFaults
    /\ use \in [Users -> [pc : {"idle", "touch", "mark", "report"}, layer : Layers \cup {None}]]
    /\ run \in [Runs -> [pc : Places, layers : SUBSET Layers, layer : Layers \cup {None},
                       spared : SUBSET marks]]
    /\ strayed \subseteq Layers
    /\ unmarked \in BOOLEAN /\ recent \in BOOLEAN /\ accessed \in BOOLEAN

\* README.md:213: whatever else goes on, a run removes no layer that has been
\* protected since the run began, and no database, nor part of one, that is so or
\* has such a layer.
ProtectedKept ==
    [][\A r \in Runs : ~RunAt(r, "idle") =>
        /\ \A l \in Layers : RunAt(r, "dropLayer") /\ run'[r].pc = "removeLayer" /\ run'[r].layer = l
                => l \notin run[r].spared
        /\ RunAt(r, "dropDatabase") /\ run'[r].pc # "dropDatabase" => run[r].spared = {}]_vars

\* When no run and no PUT is under way, the catalog lists the layers that have
\* files, but for those whose removal met a PUT of the same layer or was cut
\* off.
RowsMatchFiles ==
    (\A r \in Runs : RunAt(r, "idle")) /\ PutsUnderWay = {} =>
        (rows \cap Layers) \ strayed = dirs \ strayed

\* A database that was touched since it was last idle has a fresh marker,
\* whatever removals and other requests were under way.  The exception, unmarked,
\* lasts no longer than the throttle, but that is up to an hour: a mark that was
\* not written is not tried again, and until a removal has dropped the throttle,
\* as one that fails part way never does, requests do not write the marker it
\* has taken.
MarkerTruthful == recent /\ ~Marking /\ ~unmarked => marker = "fresh"

\* README.md:18 says that the cleanup removes what has not been accessed for
\* long: a database is not listed while it is accessed.
AccessedKept ==
    [][\A r \in Runs : RunAt(r, "listing") /\ run'[r].pc = "readDatabase" => ~accessed]_vars
==============================================================================
