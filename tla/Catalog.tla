------------------------------- MODULE Catalog -------------------------------
(***************************************************************************)
(* The catalog of catalog.rs for one database: rows that count the tiles   *)
(* and bytes of its layers, kept up to date by the messages of PUTs that   *)
(* one writer task collects and writes in batches, by the administrator's  *)
(* operations, and by rebuilds from the files.  A transaction on the       *)
(* management database is one action.  A layer's format and extent are     *)
(* left out, its display name goes the way of its protection flag, and the *)
(* size of a database is the sum of its layers.  A removal closes shards   *)
(* and then removes files; a shard opened again in between, or still       *)
(* writing, works on a file that is gone (ShardWriter has the details).    *)
(***************************************************************************)
EXTENDS Integers, Sequences, FiniteSets, Functions

CONSTANTS
    Requests,       \* PUTs; each sends one message, which bears its name
    Admins,         \* tasks of the administrator, one operation each
    Layers, Tiles,
    Size,           \* of the tile that a request puts
    QueueCapacity, MaxPending,  \* both 65_536 in the code
    Faults,         \* whether flushes and removals fail, clients leave, the
                    \* process stops
    None

Sizes == {Size[r] : r \in Requests}

Jobs == {"remove layer", "remove database", "protect", "rebuild"}

ASSUME ConstantsAssumption ==
    /\ QueueCapacity \in Nat \ {0} /\ MaxPending \in Nat \ {0}
    /\ Size \in [Requests -> Nat \ {0}] /\ Faults \in BOOLEAN
    /\ Requests \cap Admins = {} /\ None \notin Requests \cup Admins \cup Layers

\* No row is not a row, and no job not a job.
ASSUME NoneAssumption == None \notin [tiles : Nat, layers : Nat] /\ None \notin Jobs

VARIABLES
    \* the files: the size of each tile, 0 for none, the layers' directories
    \* and whether the database has one; the layers with a shard whose file
    \* has been removed
    stored, dirs, databaseDir, loose,
    \* PUT requests and their messages
    pc, message,
    \* the writer task: commands received, the messages collected and, during
    \* a flush, those being written, the layers left to recount, what was
    \* counted and who asked for the flush
    queue, pending, writer, batch, unscanned, recount, asker,
    \* the management database
    layerRows, databaseRow,
    \* the administrator's tasks; the task for which the status says that a
    \* rebuild is running; write_lock as far as a rebuild holds it, and what
    \* the rebuild has read
    step, job, target, running, lock, unread, found, oldMarks,
    \* history: the layers protected since the rebuild has read the marks
    lateMarks,
    \* history: the messages a task's flush must cover that are in no row yet,
    \* less those lost with a flush that was not the task's; the scans that saw
    \* a tile whose message was still to come or that of a removed file; the
    \* layers counted wrong by that, by a removed file or by a fault
    covered, recountRaced, foundRaced, drifted

fileVars == <<stored, dirs, databaseDir, loose>>
putVars == <<pc, message>>
flushVars == <<writer, batch, unscanned, recount, asker>>
rowVars == <<layerRows, databaseRow>>
scanVars == <<lock, unread, found, oldMarks, lateMarks>>
rebuildVars == <<running, scanVars>>
adminVars == <<step, job, target, covered>>
driftVars == <<recountRaced, foundRaced, drifted>>
vars == <<fileVars, putVars, queue, pending, flushVars, rowVars, rebuildVars, adminVars, driftVars>>

NoRows == [l \in {} |-> None]

Init ==
    /\ stored = [l \in Layers |-> [t \in Tiles |-> 0]]
    /\ dirs = {} /\ databaseDir = FALSE /\ loose = {}
    /\ pc = [r \in Requests |-> "new"]
    /\ message = [r \in Requests |-> None]
    /\ queue = <<>> /\ pending = {}
    /\ writer = "idle" /\ batch = {} /\ unscanned = {} /\ recount = NoRows /\ asker = None
    /\ layerRows = NoRows /\ databaseRow = None
    /\ step = [a \in Admins |-> "ready"]
    /\ job = [a \in Admins |-> None]
    /\ target = [a \in Admins |-> None]
    /\ running = None /\ lock = None /\ unread = {} /\ found = NoRows /\ oldMarks = {} /\ lateMarks = {}
    /\ covered = [a \in Admins |-> {}]
    /\ recountRaced = {} /\ foundRaced = {} /\ drifted = {}

\* What tilesets counts in the files of a layer.
Present(l) == {t \in Tiles : stored[l][t] # 0}
Count(l) == [tiles |-> Cardinality(Present(l)), bytes |-> SumFunctionOnSet(stored[l], Present(l))]

\* The tiles that may be in the removed files.  They are counted too when the
\* pool of such a shard has opened a connection, which makes the file anew.
Ghosts(l) ==
    UNION {[S -> Sizes] : S \in {S \in SUBSET Tiles : IsFiniteSet(S) /\ (l \in loose \/ S = {})}}
Seen(l) ==
    {[tiles |-> Count(l).tiles + Cardinality(DOMAIN g),
      bytes |-> Count(l).bytes + SumFunction(g)] : g \in Ghosts(l)}

Queued == {queue[n] : n \in DOMAIN queue} \cap Requests
Sent(r) == r \in Queued \cup pending \cup batch
Underway(r) == pc[r] = "stored" \/ Sent(r)

\* A new tile of layer l is in the files and its message has yet to arrive.
ToCome(l, arrived) ==
    \E r \in Requests \ arrived : Underway(r) /\ message[r].layer = l /\ message[r].created

\* Something happens to the layers of L that neither a recount nor a rebuild
\* already under way will see.
Drift(L) ==
    /\ drifted' = drifted \cup L
    /\ recountRaced' = recountRaced \cup (L \cap DOMAIN recount)
    /\ foundRaced' = foundRaced \cup (L \cap DOMAIN found)

-----------------------------------------------------------------------------
(* PUT: store.put, then enqueue_put.                                       *)

Store(r, l, t) ==
    /\ pc[r] = "new"
    /\ pc' = [pc EXCEPT ![r] = "stored"]
    /\ message' = [message EXCEPT ![r] = [layer |-> l, size |-> Size[r], created |-> stored[l][t] = 0]]
    /\ stored' = [stored EXCEPT ![l][t] = Size[r]]
    /\ dirs' = dirs \cup {l} /\ databaseDir' = TRUE
    /\ UNCHANGED <<loose, queue, driftVars>>

\* The shard has a file that was removed, and commits there.  The directories
\* were made when the request began, before the removal or after.
StoreLoose(r, l) ==
    /\ pc[r] = "new" /\ l \in loose
    /\ pc' = [pc EXCEPT ![r] = "stored"]
    /\ \E created \in BOOLEAN :
         message' = [message EXCEPT ![r] = [layer |-> l, size |-> Size[r], created |-> created]]
    /\ dirs' \in {dirs, dirs \cup {l}} /\ databaseDir' = (databaseDir \/ l \in dirs')
    /\ Drift({l})
    /\ UNCHANGED <<stored, loose, queue>>

\* enqueue_put: a full queue makes the request wait.
Enqueue(r) ==
    /\ pc[r] = "stored" /\ Len(queue) < QueueCapacity
    /\ queue' = Append(queue, r)
    /\ pc' = [pc EXCEPT ![r] = "done"]
    /\ UNCHANGED <<message, fileVars, driftVars>>

\* The client goes away after the tile was committed.
Cancel(r) ==
    /\ Faults
    /\ pc[r] = "stored"
    /\ pc' = [pc EXCEPT ![r] = "done"]
    /\ Drift({message[r].layer})
    /\ UNCHANGED <<message, fileVars, queue>>

-----------------------------------------------------------------------------
(* The writer task: catalog_writer_loop and flush_catalog_batch.           *)

\* flush_catalog_batch takes everything pending.  An overwrite among it makes
\* the database dirty, and all its layers are recounted.
StartFlush(messages, a) ==
    /\ writer' = "flushing"
    /\ batch' = messages /\ pending' = {}
    /\ unscanned' = IF \A r \in messages : message[r].created THEN {} ELSE Layers
    /\ recount' = NoRows
    /\ asker' = a

\* Mutant: the batch is written one message late.
BatchFullLate(messages) == Cardinality(messages) > MaxPending

BatchFull(messages) == Cardinality(messages) >= MaxPending

Receive ==
    /\ writer = "idle" /\ queue # <<>> /\ Head(queue) \in Requests
    /\ queue' = Tail(queue)
    /\ LET collected == pending \cup {Head(queue)}
       IN IF BatchFull(collected)
          THEN StartFlush(collected, None)
          ELSE pending' = collected /\ UNCHANGED flushVars
    /\ UNCHANGED <<rowVars, step, job, target, covered, driftVars>>

Answer(a, s) == IF a \in Admins /\ step[a] = "waiting" THEN [step EXCEPT ![a] = s] ELSE step

\* Mutant: the flush is confirmed before the pending messages are written.
ReceiveFlushEarly ==
    /\ writer = "idle" /\ queue # <<>> /\ Head(queue) \in Admins
    /\ queue' = Tail(queue)
    /\ step' = Answer(Head(queue), "acting")
    /\ UNCHANGED <<pending, flushVars, rowVars, job, target, covered, driftVars>>

\* Mutant: a flush with nothing pending is not confirmed.
ReceiveFlushSilent ==
    /\ writer = "idle" /\ queue # <<>> /\ Head(queue) \in Admins
    /\ queue' = Tail(queue)
    /\ IF pending = {}
       THEN UNCHANGED <<pending, flushVars>>
       ELSE StartFlush(pending, Head(queue))
    /\ UNCHANGED <<rowVars, step, job, target, covered, driftVars>>

\* A flush with nothing pending is confirmed at once.
ReceiveFlush ==
    /\ writer = "idle" /\ queue # <<>> /\ Head(queue) \in Admins
    /\ queue' = Tail(queue)
    /\ IF pending = {}
       THEN step' = Answer(Head(queue), "acting") /\ UNCHANGED <<pending, flushVars>>
       ELSE StartFlush(pending, Head(queue)) /\ UNCHANGED step
    /\ UNCHANGED <<rowVars, job, target, covered, driftVars>>

\* Mutant: the interval never fires.
TickNever == FALSE

\* The interval of a minute.
Tick ==
    /\ writer = "idle" /\ pending # {}
    /\ StartFlush(pending, None)
    /\ UNCHANGED <<queue, rowVars, step, job, target, covered, driftVars>>

\* The recount reads one layer after another, without a lock.
Recount(l) ==
    /\ writer = "flushing" /\ l \in unscanned
    /\ unscanned' = unscanned \ {l}
    /\ IF l \in dirs
       THEN /\ \E c \in Seen(l) :
                 recount' = [x \in DOMAIN recount \cup {l} |-> IF x = l THEN c ELSE recount[x]]
            /\ recountRaced' = recountRaced \cup (IF ToCome(l, batch) \/ l \in loose THEN {l} ELSE {})
       ELSE UNCHANGED <<recount, recountRaced>>
    /\ UNCHANGED <<queue, pending, writer, batch, asker, rowVars, step, job, target, covered, foundRaced, drifted>>

\* What a task that has ended was about is forgotten.
Ended ==
    /\ job' = [a \in Admins |-> IF step'[a] = "done" THEN None ELSE job[a]]
    /\ target' = [a \in Admins |-> IF step'[a] = "done" THEN None ELSE target[a]]

EndFlush(outcome) ==
    /\ writer' = "idle"
    /\ batch' = {} /\ unscanned' = {} /\ recount' = NoRows /\ asker' = None
    /\ recountRaced' = {}
    /\ step' = Answer(asker, outcome)
    /\ Ended

\* A recount or the transaction fails: the batch has already left pending.
FailFlush ==
    /\ Faults
    /\ writer = "flushing"
    /\ EndFlush("done")
    /\ covered' = [a \in Admins |-> IF step'[a] = "done" THEN {}
                                   ELSE IF a = asker THEN covered[a] ELSE covered[a] \ batch]
    /\ LET layers == {message[r].layer : r \in batch}
       IN drifted' = drifted \cup layers /\ foundRaced' = foundRaced \cup (layers \cap DOMAIN found)
    /\ UNCHANGED <<queue, pending, rowVars>>

Batched == {message[r].layer : r \in batch}
CreatedIn(l) == {r \in batch : message[r].layer = l /\ message[r].created}
Before(l) == IF l \in DOMAIN layerRows THEN layerRows[l]
             ELSE [tiles |-> 0, bytes |-> 0, protected |-> FALSE]

\* Mutant: a recount does not replace the increments.
TilesTwice(l) == Before(l).tiles + Cardinality(CreatedIn(l))

\* The recount where there is one, otherwise the tiles that the batch created.
TilesAfter(l) ==
    IF l \in DOMAIN recount THEN recount[l].tiles ELSE Before(l).tiles + Cardinality(CreatedIn(l))

BytesAfter(l) ==
    IF l \in DOMAIN recount THEN recount[l].bytes
    ELSE Before(l).bytes + SumFunction([r \in CreatedIn(l) |-> message[r].size])

\* The upsert leaves revocable alone.
MarkAfter(l) == Before(l).protected

RowWritten(l) == [tiles |-> TilesAfter(l), bytes |-> BytesAfter(l), protected |-> MarkAfter(l)]

\* write_catalog_batch: the rows of the layers in the batch, and the database
\* row moved by what these have changed.
WriteBatch ==
    /\ writer = "flushing" /\ unscanned = {} /\ lock = None
    /\ layerRows' = [l \in DOMAIN layerRows \cup Batched |->
                        IF l \in Batched THEN RowWritten(l) ELSE layerRows[l]]
    /\ LET gained == SumFunction([l \in Batched |-> RowWritten(l).tiles])
           lost == SumFunction([l \in Batched |-> Before(l).tiles])
           new == Cardinality(Batched \ DOMAIN layerRows)
       IN databaseRow' = IF databaseRow = None
                         THEN [tiles |-> gained - lost, layers |-> new]
                         ELSE [databaseRow EXCEPT !.tiles = @ + gained - lost, !.layers = @ + new]
    /\ drifted' = (drifted \ (Batched \cap DOMAIN recount)) \cup (Batched \cap recountRaced)
    /\ EndFlush("acting")
    /\ covered' = [a \in Admins |-> covered[a] \ batch]
    /\ UNCHANGED <<queue, pending, foundRaced>>

-----------------------------------------------------------------------------
(* The administrator's operations.                                         *)

\* rebuild_catalog: while a rebuild is running a request only gets its status.
Admitted(a, j) ==
    IF j = "rebuild" THEN running = None /\ running' = a ELSE UNCHANGED running

\* What delete_tileset and delete_database remove.
Gone(j, l) ==
    IF j = "remove database" THEN Layers ELSE IF j = "remove layer" THEN {l} ELSE {}

\* The tiles and directories of the layers of gone are removed, but for the
\* directories of the layers in stay and the tiles of these in kept.
RemoveFiles(gone, stay, kept) ==
    /\ stored' = [x \in Layers |->
                     IF x \in gone THEN [t \in Tiles |-> IF x \in stay /\ t \in kept[x] THEN stored[x][t] ELSE 0]
                     ELSE stored[x]]
    /\ dirs' = dirs \ (gone \ stay)

\* Both close the shards, remove the files and then turn to the catalog; the
\* other operations begin with the flush.  A removal that fails half way ends
\* the operation.
Start(a, j, l) ==
    /\ step[a] = "ready" /\ Admitted(a, j)
    /\ j = "remove layer" => l \in dirs
    /\ j = "remove database" => databaseDir
    /\ \E reopened \in SUBSET Gone(j, l) : loose' = (loose \ Gone(j, l)) \cup reopened
    /\ Drift(Gone(j, l))
    /\ \/ /\ RemoveFiles(Gone(j, l), {}, [x \in Layers |-> {}])
          /\ databaseDir' = (databaseDir /\ j # "remove database")
          /\ step' = [step EXCEPT ![a] = "asking"]
          /\ job' = [job EXCEPT ![a] = j] /\ target' = [target EXCEPT ![a] = l]
       \/ /\ Faults /\ Gone(j, l) # {}
          /\ \E stay \in SUBSET Gone(j, l), kept \in [Layers -> SUBSET Tiles] :
               /\ j = "remove layer" => stay = {l}
               /\ RemoveFiles(Gone(j, l), stay, kept)
          /\ step' = [step EXCEPT ![a] = "done"]
          /\ UNCHANGED <<databaseDir, job, target>>
    /\ UNCHANGED <<covered, queue, rowVars, scanVars>>

\* flush: the command waits for room in the queue.
AskFlush(a) ==
    /\ step[a] = "asking" /\ Len(queue) < QueueCapacity
    /\ queue' = Append(queue, a)
    /\ covered' = [covered EXCEPT ![a] = {r \in Requests : Sent(r)}]
    /\ step' = [step EXCEPT ![a] = "waiting"]
    /\ UNCHANGED <<job, target, fileVars, rowVars, rebuildVars, driftVars>>

Finished(a) ==
    /\ step' = [step EXCEPT ![a] = "done"]
    /\ covered' = [covered EXCEPT ![a] = {}]
    /\ Ended

\* Mutant: the layers of the database row stay as they were.
DatabaseWithoutTiles(l) == [databaseRow EXCEPT !.tiles = @ - layerRows[l].tiles]

DatabaseWithout(l) ==
    [databaseRow EXCEPT !.tiles = IF @ >= layerRows[l].tiles THEN @ - layerRows[l].tiles ELSE 0,
                        !.layers = IF @ >= 1 THEN @ - 1 ELSE 0]

\* The layers of S have lost their rows: right if they have no files and no
\* message of theirs is under way.
Forgotten(S) ==
    /\ UNCHANGED <<recountRaced, foundRaced>>
    /\ drifted' = {l \in drifted \cup S : l \in S =>
                    \/ Count(l).tiles # 0
                    \/ \E r \in Requests : Underway(r) /\ message[r].layer = l}

\* remove_layer, once the flush has been confirmed.
RemoveLayer(a) ==
    /\ step[a] = "acting" /\ job[a] = "remove layer" /\ lock = None
    /\ layerRows' = [l \in DOMAIN layerRows \ {target[a]} |-> layerRows[l]]
    /\ databaseRow' = IF target[a] \in DOMAIN layerRows THEN DatabaseWithout(target[a])
                      ELSE databaseRow
    /\ Forgotten({target[a]})
    /\ Finished(a)
    /\ UNCHANGED <<fileVars, queue, rebuildVars>>

\* remove_database
RemoveDatabase(a) ==
    /\ step[a] = "acting" /\ job[a] = "remove database" /\ lock = None
    /\ layerRows' = NoRows /\ databaseRow' = None
    /\ Forgotten(Layers)
    /\ Finished(a)
    /\ UNCHANGED <<fileVars, queue, rebuildVars>>

\* set_layer_revocable(false), or a rename: no lock is taken.
Protect(a) ==
    /\ step[a] = "acting" /\ job[a] = "protect"
    /\ layerRows' = [l \in DOMAIN layerRows |->
                        IF l = target[a] THEN [layerRows[l] EXCEPT !.protected = TRUE]
                        ELSE layerRows[l]]
    /\ lateMarks' = IF \E b \in Admins : step[b] = "writing" THEN lateMarks \cup {target[a]} ELSE lateMarks
    /\ Finished(a)
    /\ UNCHANGED <<databaseRow, fileVars, queue, running, lock, unread, found, oldMarks, driftVars>>

\* rebuild_with_progress: the lock, and the list of databases.
RebuildLock(a) ==
    /\ step[a] = "acting" /\ job[a] = "rebuild" /\ lock = None
    /\ lock' = a
    /\ step' = [step EXCEPT ![a] = IF databaseDir THEN "scanning" ELSE "no database"]
    /\ unread' = IF databaseDir THEN Layers ELSE {}
    /\ found' = NoRows /\ foundRaced' = {}
    /\ UNCHANGED <<job, target, covered, running, oldMarks, lateMarks, fileVars, queue, rowVars, recountRaced, drifted>>

RebuildScan(a, l) ==
    /\ lock = a /\ l \in unread
    /\ unread' = unread \ {l}
    /\ IF l \in dirs
       THEN /\ \E c \in Seen(l) :
                 found' = [x \in DOMAIN found \cup {l} |-> IF x = l THEN c ELSE found[x]]
            /\ foundRaced' = foundRaced \cup (IF ToCome(l, {}) \/ l \in loose THEN {l} ELSE {})
       ELSE UNCHANGED <<found, foundRaced>>
    /\ UNCHANGED <<adminVars, running, lock, oldMarks, lateMarks, fileVars, queue, rowVars, recountRaced, drifted>>

\* Mutant: the rebuild does not look for the old marks.
RebuildMarksIgnored(a) ==
    /\ lock = a /\ unread = {} /\ step[a] \in {"scanning", "no database"}
    /\ oldMarks' = {} /\ lateMarks' = {}
    /\ step' = [step EXCEPT ![a] = IF step[a] = "scanning" THEN "writing" ELSE "emptying"]
    /\ UNCHANGED <<job, target, covered, running, lock, unread, found, fileVars, queue, rowVars, driftVars>>

\* The old names and marks are read before the transaction begins.
RebuildReadMarks(a) ==
    /\ lock = a /\ unread = {} /\ step[a] \in {"scanning", "no database"}
    /\ oldMarks' = {l \in DOMAIN layerRows : layerRows[l].protected} /\ lateMarks' = {}
    /\ step' = [step EXCEPT ![a] = IF step[a] = "scanning" THEN "writing" ELSE "emptying"]
    /\ UNCHANGED <<job, target, covered, running, lock, unread, found, fileVars, queue, rowVars, driftVars>>

RebuildWrite(a) ==
    /\ step[a] \in {"writing", "emptying"}
    /\ layerRows' = [l \in DOMAIN found |-> [tiles |-> found[l].tiles, bytes |-> found[l].bytes,
                                             protected |-> l \in oldMarks]]
    /\ databaseRow' = IF step[a] = "emptying" THEN None
                      ELSE [tiles |-> SumFunction([l \in DOMAIN found |-> found[l].tiles]),
                            layers |-> Cardinality(DOMAIN found)]
    /\ drifted' = {l \in Layers : IF l \in DOMAIN found THEN l \in foundRaced
                                  ELSE Count(l).tiles # 0 \/ ToCome(l, {})}
    /\ lock' = None /\ found' = NoRows /\ foundRaced' = {} /\ oldMarks' = {} /\ lateMarks' = {}
    /\ Finished(a)
    /\ UNCHANGED <<running, unread, fileVars, queue, recountRaced>>

\* The rebuild has ended, well or not, and so says its status.
RebuildEnd(a) ==
    /\ running = a /\ step[a] = "done"
    /\ running' = None
    /\ UNCHANGED <<adminVars, scanVars, fileVars, queue, rowVars, driftVars>>

\* The client of an operation goes away, or a query of it fails.
Leave(a) ==
    /\ Faults
    /\ step[a] \in {"asking", "waiting", "acting", "scanning", "no database", "writing", "emptying"}
    /\ lock' = IF lock = a THEN None ELSE lock
    /\ IF lock = a THEN unread' = {} /\ found' = NoRows /\ foundRaced' = {} /\ oldMarks' = {} /\ lateMarks' = {}
       ELSE UNCHANGED <<unread, found, foundRaced, oldMarks, lateMarks>>
    /\ Finished(a)
    /\ UNCHANGED <<running, fileVars, queue, rowVars, recountRaced, drifted>>

-----------------------------------------------------------------------------
\* The shards of a layer on removed files are closed.
CloseLoose(l) ==
    /\ l \in loose
    /\ loose' = loose \ {l}
    /\ UNCHANGED <<stored, dirs, databaseDir, putVars, queue, pending, flushVars, rowVars, rebuildVars,
                   adminVars, driftVars>>

\* The process stops and starts again: everything in memory is lost.
Restart ==
    /\ Faults
    /\ loose' = {}
    /\ drifted' = drifted \cup {message[r].layer : r \in {r \in Requests : Underway(r)}}
    /\ pc' = [r \in Requests |-> IF pc[r] = "new" THEN "new" ELSE "done"]
    /\ step' = [a \in Admins |-> IF step[a] = "ready" THEN "ready" ELSE "done"]
    /\ queue' = <<>> /\ pending' = {}
    /\ writer' = "idle" /\ batch' = {} /\ unscanned' = {} /\ recount' = NoRows /\ asker' = None
    /\ running' = None /\ lock' = None /\ unread' = {} /\ found' = NoRows
    /\ recountRaced' = {} /\ foundRaced' = {} /\ oldMarks' = {} /\ lateMarks' = {}
    /\ covered' = [a \in Admins |-> {}]
    /\ Ended
    /\ UNCHANGED <<stored, dirs, databaseDir, message, rowVars>>

PutFrame == UNCHANGED <<pending, flushVars, rowVars, rebuildVars, adminVars>>

PutStep(r) == PutFrame /\ Enqueue(r)
ClientStep(r) ==
    /\ PutFrame
    /\ \/ \E l \in Layers, t \in Tiles : Store(r, l, t)
       \/ \E l \in Layers : StoreLoose(r, l)
       \/ Cancel(r)

WriterStep ==
    /\ UNCHANGED <<fileVars, putVars, rebuildVars>>
    /\ \/ Receive \/ ReceiveFlush \/ Tick \/ FailFlush \/ WriteBatch
       \/ \E l \in Layers : Recount(l)

AdminStep(a) ==
    /\ UNCHANGED <<putVars, pending, flushVars>>
    /\ \/ AskFlush(a) \/ RemoveLayer(a) \/ RemoveDatabase(a) \/ Protect(a)
       \/ RebuildLock(a) \/ RebuildReadMarks(a) \/ RebuildWrite(a) \/ RebuildEnd(a)
       \/ Leave(a)
       \/ \E l \in Layers : RebuildScan(a, l)

AdminStart(a) ==
    /\ UNCHANGED <<putVars, pending, flushVars>>
    /\ \/ \E j \in {"remove layer", "protect"}, l \in Layers : Start(a, j, l)
       \/ \E j \in {"remove database", "rebuild"} : Start(a, j, None)

Next ==
    \/ \E r \in Requests : PutStep(r) \/ ClientStep(r)
    \/ WriterStep
    \/ \E a \in Admins : AdminStep(a) \/ AdminStart(a)
    \/ \E l \in Layers : CloseLoose(l)
    \/ Restart

Spec == Init /\ [][Next]_vars

\* The writer task runs, its interval fires, and requests and operations that
\* have begun go on; nobody has to begin one.
Fairness ==
    /\ WF_vars(WriterStep)
    /\ \A r \in Requests : WF_vars(PutStep(r))
    /\ \A a \in Admins : WF_vars(AdminStep(a))

FairSpec == Spec /\ Fairness

-----------------------------------------------------------------------------
Steps == {"ready", "asking", "waiting", "acting", "scanning", "no database", "writing",
          "emptying", "done"}

TypeOK ==
    /\ stored \in [Layers -> [Tiles -> Sizes \cup {0}]]
    /\ dirs \cup loose \subseteq Layers /\ databaseDir \in BOOLEAN
    /\ pc \in [Requests -> {"new", "stored", "done"}]
    /\ \A r \in Requests : message[r] \in {None} \cup [layer : Layers, size : Sizes, created : BOOLEAN]
    /\ queue \in Seq(Requests \cup Admins) /\ Len(queue) <= QueueCapacity
    /\ pending \subseteq Requests /\ Cardinality(pending) < MaxPending
    /\ writer \in {"idle", "flushing"} /\ batch \subseteq Requests
    /\ unscanned \subseteq Layers /\ asker \in Admins \cup {None}
    /\ DOMAIN recount \subseteq Layers /\ DOMAIN found \subseteq Layers
    /\ layerRows \in [DOMAIN layerRows -> [tiles : Nat, bytes : Nat, protected : BOOLEAN]]
    /\ DOMAIN layerRows \subseteq Layers
    /\ databaseRow = None \/ databaseRow \in [tiles : Nat, layers : Nat]
    /\ step \in [Admins -> Steps] /\ job \in [Admins -> Jobs \cup {None}]
    /\ target \in [Admins -> Layers \cup {None}]
    /\ {running, lock} \subseteq Admins \cup {None} /\ unread \cup oldMarks \cup lateMarks \subseteq Layers
    /\ covered \in [Admins -> SUBSET Requests]
    /\ recountRaced \cup foundRaced \cup drifted \subseteq Layers

\* Increments, recounts, removals and rebuilds, in any order and with any of
\* them failing, keep the database row the sum of its layers' rows.
TotalsMatch ==
    IF databaseRow = None THEN DOMAIN layerRows = {}
    ELSE /\ databaseRow.tiles = SumFunction([l \in DOMAIN layerRows |-> layerRows[l].tiles])
         /\ databaseRow.layers = Cardinality(DOMAIN layerRows)

Exact(l) ==
    IF l \in DOMAIN layerRows
    THEN layerRows[l].tiles = Count(l).tiles /\ layerRows[l].bytes = Count(l).bytes
    ELSE Count(l).tiles = 0

Quiet(l) == \A r \in Requests : Underway(r) => message[r].layer # l

\* Once every message of a layer has been written its row says what is in its
\* files, unless a message was lost, a removal is unfinished or has failed, a
\* tile went to a file that had been removed, or a count was taken while the
\* message of a new tile was still on its way or a shard had a removed file.
\* A later clean recount or rebuild makes up for all of these.
ExactUnlessDrifted == \A l \in Layers : Quiet(l) /\ l \notin drifted => Exact(l)

\* When an operation acts, every message sent before its flush has been written
\* to a row.  The exception, of which README.md:58 says nothing: a message that
\* the interval, a full batch or another operation had begun to write, in a
\* flush that failed, is in no row, and the operation acts all the same.
ActsOnFreshRows ==
    \A a \in Admins : step[a] = "acting" => covered[a] = {}

\* No operation waits for ever: not for room in the queue, for the flush, or
\* for the lock, whatever other operations and flushes hold; and a status does
\* not go on saying that a rebuild is running.
OperationsEnd == \A a \in Admins : step[a] = "asking" ~> step[a] = "done" /\ running # a

\* README: when the queue is full producers wait, and the message is not lost:
\* it is sent and leaves the queue.
MessagesWritten == \A r \in Requests : pc[r] = "stored" ~> ~Underway(r)

\* A row that stays keeps its protection, through every batch, removal and
\* rebuild.  The exception: a mark that was given after a rebuild had read the
\* marks is lost when that rebuild writes.
MarksKept ==
    [][\A l \in DOMAIN layerRows \cap DOMAIN layerRows' :
          layerRows[l].protected /\ ~layerRows'[l].protected => l \in lateMarks]_vars
==============================================================================
