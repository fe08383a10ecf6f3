# Verification of cangling-tile

TLA+ models of the tile cache server in `src/` (Rust, Tokio, SQLite), the TLC
configurations that check them, and proofs about them for TLAPS. Paths and line
numbers below are relative to the repository (`src/store.rs` is
`src/src/store.rs` in `PROJECT.json`).

The server keeps map tiles in many small SQLite files (*shards*), one directory
per database and item (layer). Requests read and write the shards through one
writer task per shard, an in-process LRU sits in front of them, and a *catalog*
in a management database counts what the shards hold, so that lists and the
dashboard never scan the disk.

## 1. The system

| Component | Code | State it keeps | Operations | Talks to |
|---|---|---|---|---|
| Tile memory cache | `store.rs:57-222` `TileMemoryCache` | entries with last use and last access, a min-heap of uses, a byte counter, a clock; one std `Mutex` | `get`, `insert`, `invalidate_item`, `invalidate_database`, `evict_idle` | called by the tile store and the maintenance task |
| Shard map and writers | `store.rs:224-300, 302-369, 531-853` | the map path -> `TileShard` under a Tokio `RwLock`; per shard a writer task with a bounded command queue, a batch, the tables it has created, a read pool | `shard`/`open_shard`, the SQLite half of `get` and `put`, `writer_loop`, `write_tile_batch`, `close_shard`, `close_idle_shards`, `close_shards_under`, `drop_tileset` | requests send commands, the writer answers through oneshots, closers send shutdowns |
| Tile store | `store.rs:302-560` | none of its own: the cache over the shards | `get`, `put`, `put_batch`, `drop_tileset`, `drop_database` | the cache before and after each await on a shard |
| Tile addressing | `store.rs:863-1058` | none | `tile_address`, `item_directory`, `database_directory`, `validate_key` | used by every operation |
| Access marker | `store.rs:391-414, 571-580, 664-685` | one marker file per database, a map that throttles writing it to once an hour | `touch_database`, `list_databases`, and the end of `drop_database` | every request writes it, the cleanup reads it |
| Catalog | `catalog.rs` | rows of layers and databases, a queue of 65,536 commands, the messages pending in the writer task, `write_lock` | `enqueue_put`, `flush`, `catalog_writer_loop`, `write_catalog_batch`, `remove_layer`, `remove_database`, the changes of names and marks, `rebuild_with_progress` | reads the shards through the store |
| HTTP handlers | `api.rs` | none | `put_tile`, `put_tiles`, `delete_tileset`, `delete_database`, ... | order the calls of store, catalog and history |
| Rebuild task | `api.rs:709-768` | a status that admits one rebuild at a time | start, progress, end | catalog |
| Cleanup and scheduler | `api.rs:890-1062`, `main.rs:169-289` | settings, the last recorded run, the runs under way | scheduled and manual cleanup, change of the settings | store, catalog, access markers, statistics |
| Access statistics | `stats.rs`, `main.rs:188-198, 304-310` | counters of the retained hours, counters still to be written, rows | record, periodic and final flush, restart | management database |
| Administrator sessions | `auth.rs`, `api.rs:212-282` | the password hash and the sessions in the management database, a semaphore | `login`, `valid_session`, `logout`, `reset_password` | HTTP handlers; the reset runs in a process of its own |
| Start and shutdown | `main.rs` | the spawned tasks | start, rebuild on first start, flush on shutdown | everything |
| The rest | `config.rs`, `password_policy.rs`, `system.rs`, `error.rs`, `model.rs`, `dashboard.html`, vendored OpenLayers, build files | none | parsing, formatting, serving pages | - |

What makes it hard, and which property is about it:

* *Concurrency in one shard.* First requests race to open the shard; an idle
  close trusts the reference count; a removal detaches a shard that requests
  still hold; a new writer may open the file while the old one still has it
  open. Correct means: one writer in the map and it runs (`RegisteredRuns`,
  `HeldIsRegistered`), the answer a PUT gets is true (`VerdictTrue`), and a
  client cannot tell any of this from a single table (`ImplementsTable`).
* *Failure.* Batches fail or are retried on a locked database, clients go away
  at every await, openings fail, removals are left half done. `created` is what
  the catalog counts by, so it must be reported once per row (`CreatedOnce`),
  and what a failed batch created must not be remembered (`KnownTableExists`).
* *Liveness.* Bounded queues, a shutdown through the queue it closes, a closer
  that disappears (`PutAnswered`, `CloseEnds`, `DetachedEnds`); in the catalog a
  lock held across a scan, with a queue filling behind it (`OperationsEnd`,
  `MessagesWritten`); counters that must leave memory although flushes fail
  (`CountsLeaveMemory`); permits that must come back (`LoginsAnswered`); an hour
  of the day that may be missed (`IdleReclaimed`).
* *Two copies of the data.* The cache is filled after an await: only committed
  data may be served, under the key it was stored under, and cache and shard may
  differ only after a race (`ServedWasCommitted`, `CoherentWithoutRace`).
* *Derived data.* The catalog counts by increments, recounts and rebuilds, any
  of which may fail, race or be cut short (`TotalsMatch`, `ExactUnlessDrifted`,
  `ActsOnFreshRows`, `MarksKept`); the dashboard counts in memory what it also
  writes (`CountsKept`, `ShownIsStored`).
* *Redundant state.* The LRU keeps recency twice and the bytes by differences
  (`UsedBytesExact`, `CapacityRespected`, `HeapCoversEntries`,
  `ImplementsRecency`).
* *Decisions acted on later.* A cleanup reads marks and rows, then removes for as
  long as it takes, while requests, administrators and other runs go on
  (`ProtectedKept`, `RowsMatchFiles`); it trusts a marker that requests write at
  most once an hour (`MarkerTruthful`, `AccessedKept`); the scheduler trusts the
  record of the last run (`OncePerDay`, `DayServed`).
* *Files that are gone.* A removal closes the shards and then removes their
  directory, and whoever asks for a shard in between has it opened again: it stays
  in the map, on a file that has been removed, until it is closed once more
  (`ClosedBeforeRemoval` is violated). `VerdictTrue`, `CoherentWithoutRace` and
  `ExactUnlessDrifted` say what holds all the same.
* *Separate statements.* A session is read, judged and written in different
  statements while logouts and resets remove it (`OldSessionsEnd`,
  `EndedStaysEnded`, `ExpiresOnlyIdle`); a flush of the counters commits and then
  deletes (`GracefulStopSaves`).

`PROJECT.json` lists every hazard at its line with the properties that cover it,
and says of the few others why none does.

## 2. Modules

    MemoryCache   --implements-->  RecencyCache    MCMemoryCache   MemoryCacheProofs
    ShardWriter   --implements-->  TileTable       MCShardWriter   ShardWriterProofs
    TileAddress   (pure functions)                                 TileStoreProofs
    TileStore     extends TileAddress              MCTileStore     TileStoreProofs
    Catalog       (rows over files)                MCCatalog       CatalogProofs
    Cleanup       (marker, marks, rows, files)     MCCleanup       CleanupProofs
    Scheduler     --implements-->  Cleanup         MCScheduler     SchedulerProofs
    AccessStats                                    MCAccessStats   AccessStatsProofs
    Sessions                                       MCSessions      SessionsProofs

`TileStore` composes the components below it by what they promise: while nothing
is removed, a shard is one atomic row per location (which `ShardWriter` is shown to
implement); after a removal that has met a request it may work on a removed file
(which `ShardWriter` shows in detail, in the run `shard_reopened`) until it is
closed; the cache is a map that may forget any entry (which `RecencyCache` allows);
and the location of a tile is what `TileAddress` computes. `Catalog` takes a PUT's
commit as one step and a shard's removed file as `TileStore` does. `Cleanup` takes
a commit as one step too, speaks of directories and not of tiles, and takes each
operation of the catalog as one. `Scheduler` extends `Cleanup` and adds to it; that it
adds and takes nothing away is a theorem.

**MemoryCache** - the whole of `TileMemoryCache`. All operations run under one
mutex, hence one action each: `GetHit`, `GetMiss`, `Insert`, `InvalidateItem`,
`InvalidateDatabase`, `EvictIdle`, and `PassTime` for the wall clock. The heap
is a set of `<<tick, key>>`; the pop loop of `insert` (147-158) is the choice of
the tick at which it stops (`StopsAt`), with stale records skipped as the code
does. Compaction (159-165) is part of `Insert`. `used` goes through the code's
saturating arithmetic. Data is a size; the counters of `metrics` are left out.

**RecencyCache** - the abstract cache: the sizes of the cached tiles and the
relation that says which was used earlier than which. An insert drops the fewest
oldest tiles that make the rest fit. `MemoryCache` ends with the mapping: the
sizes of the entries and the order of their ticks (`Sizes`, `UseOrder`).

**ShardWriter** - one shard: its slot in the map, any number of writer tasks
opened one after another for its path, requests, idle closers and droppers.
A critical section of the map's `RwLock` is one action; otherwise every stretch
between two awaits is. A request goes through `Begin`, `Lookup` (read lock),
`SecondCheck`/`Open`/`OpenFails`/`FileMissing` (write lock), then `Send`,
`Refuse`, `Finish` or `Query`; `Cancel` drops its future at any await. The writer task is
`Recv`, `Collect`, `Seal`, `Retry`/`Commit`/`Abort`, `Answer`, `Exit`, and
`NoSenders` for the end of a channel without senders. Closers are `DetachIdle`
or `DetachForDrop`, `SendShutdown`, `ClosePool`, `RemoveDir` and `Abandon`. The
reference count of the `Arc` is computed from who holds the shard (`Held`).
Files are numbered: removing a directory unlinks the path's file, while a writer
that has it open keeps writing to it, and a later open creates another. A PUT's
data is its own name. A transaction is one action because SQLite serialises
writers of a file and a failed batch is rolled back; the rows a batch writes are
computed from its commands in order (`RowAfter`, `Inserts`).

**TileTable** - the abstract shard: PUTs take effect atomically between request
and answer, verdicts are true, GETs return the row at one moment. `ShardWriter`
ends with the mapping: the rows of the file at the path (`CurrentRows`).

**TileAddress** - `tile_address`, the directories of databases and items, and
what `validate_key` lets in. An identifier is its first four characters and the
rest, a path a sequence of names, the letter of a level its number; the levels
below nine share the files of level nine (`FileLevel`). `Under` is what
`remove_dir_all` takes with it. README.md:100 says that identifiers are digests;
`Digests` are the identifiers longer than four characters.

**TileStore** - the awaits of `get`, `put`, `drop_tileset` and `drop_database`
between the cache and the shards. The cache knows a tile by its key, the shards
know it by its location, a removal is a directory: that these three agree is part
of what is checked. An early return of `put_batch` drops the other PUTs of the
batch, which is `Cancel`. A removal closes the shards under its directory and
removes files, all of them or, when it fails, some (`RemoveDir`); any of these may
have been opened again before it went, and is then in `loose`: the map's shard
shows and takes rows (`ghost`) that are on no path, until its idle close
(`CloseShard`). `raced` and `lost` are history: keys on which a PUT or a removal
overlapped another request, and keys whose cached data has outlived the removed file
it was committed to.

**Catalog** - one database and its layers: the files as far as they are counted,
PUTs with their messages, the writer task with `pending`, `batch` and a recount
that reads layer by layer without a lock, the rows, `write_lock`, the
administrator's operations: both removals, the changes of marks (`Protect`
stands for all of them, renames included) and the rebuild with its status that
admits one at a time (`running`), its scan, its reading of old marks and its
transaction. A layer in `loose` has a shard that was opened again during a removal:
a PUT may commit to its removed file (`StoreLoose`) and is counted like any other,
and a scan may count what is in there (`Ghosts`, `Seen`), until the shard is closed
(`CloseLoose`). A removal may fail part way and leave any of its tiles.
`drifted`, `recountRaced` and `foundRaced` are history: the layers whose row may be
wrong, and why. So are `covered`, the messages sent before an operation's flush that
are in no row yet, less those lost in a flush that was not its own, and `lateMarks`,
the layers marked since a rebuild has read the marks. Failures, clients that leave
and a stop of the process are enabled by `Faults`. `Size` gives each PUT its size, so
that an overwrite changes the bytes of a layer.

**Cleanup** - `cleanup_expired` on one database, in any number of overlapping
runs: the scheduler and an administrator take no common lock. A run is `Begin`,
`List` (which sees a database by the age of its marker), `ReadDatabase`,
`ReadLayers`, then `DropLayer`/`RemoveLayer` for one layer after another or
`DropDatabase`/`Forget`/`RemoveDatabase`, with a step between any two awaits;
`Abort` is an error or a client that leaves. Requests commit, `Touch` or `Skip`
the marker, `Mark` it (which creates a removed directory again) and `Report` to
the catalog. `FailToDrop` is a `remove_dir_all` of the whole
database that fails part way: layers and marker may be gone, and the run ends before
the line that drops the throttle. `Age` is the passing of the retention, `Expire`
that of the throttle's hour (`ACCESS_TOUCH_INTERVAL`, `store.rs:25`). `spared` is
history: what has been protected since the run began; `strayed` the layers whose
removal met a PUT or was cut off; `unmarked` says that the throttle holds although
its mark was not written or has been taken by a removal.

**Scheduler** - the minute's tick, the hour of the settings, the last recorded
run, midnight, changes of the settings and manual runs, around the run
`Scheduled` of `Cleanup`. A scheduled run is recorded with the day it began
(`main.rs:260-282`), a manual one with the day it ended. `BlindTick` is a tick
whose query of the last run fails, which the code takes for a day without one.
`begunToday`, `manualToday` and `ranToday` are history: whether a scheduled run has
begun on the day, a manual one ended, and one that began on it been recorded.

**AccessStats** - the hourly counters over the life of the server: counting, the
periodic flush and the one at the end of `main` (`Take`, `Write`, `Delete`,
`Fail`), graceful stop, crash and start. The six counters of an hour are one
number. `recorded`, `lost` and `doubled` are history.

**Sessions** - logins behind the semaphore, checks whose reading and writing are
separate statements, the logout, and the reset of the password by another process
between whose two statements the server goes on. A password is the number of the
reset that set it; `opened`, `ended`, `crossed` and `cut` are history.

What the models leave out, besides wording and formats:

* in `Catalog` a removal closes shards, removes what it removes and turns to the
  catalog in one step; what is stored in between is either gone with the files or
  in a removed file, and both are a `Store` or `StoreLoose` before or after that
  step; the scan of one layer is atomic; a retry of a failed management transaction is a later one; the
  size of a database is left out (increments count bytes of tiles, a rebuild the
  bytes of its directory), and so are format, extent, access time and paging;
  the database's own mark and name are read, changed and written back in the same
  places as a layer's;
* in `Catalog` a graceful shutdown is an ordinary flush followed by `Restart`;
* in `ShardWriter` the reply for a batch with fewer results than commands
  (`store.rs:777-784`: `write_tile_batch` returns one result per command);
* `touch_database` appears as the await it is in `TileStore`; what it writes is
  the marker of `Cleanup`;
* `Cleanup` has one database, since a run handles its candidates one after
  another and they share nothing, and tells the marker's time apart only as
  fresh or older than the cutoff; which tiles are in memory is left open, so any
  stored one may be served by `CachedGet`;
* a manual run that removes something is one of the other runs of `Cleanup`;
  `Scheduler` has only its record. The settings are one value (the copy in memory
  and the one in the database are written one after the other);
* in `Sessions` tokens are unique names and verifying is comparing.

## 3. Runs

To repeat a run: `tlc -workers 2 -config <name>.cfg <module>`; a proof:
`tlapm <module>.tla`. A definition whose comment begins with *Mutant* is a faulty
variant of the definition that follows it: with it in place the property that
`PROJECT.json` names for it fails, which shows that the run can see the fault.
No specification uses it.

| Run | Instance | Checks | Outcome |
|---|---|---|---|
| `memory_cache` | 2 databases x 2 items x 1 tile, capacity 4, sizes 1, 3 and 4 (4 is above the tile limit), 5 uses, compaction above 1 record per entry + 1 | `TypeOK UsedBytesExact CapacityRespected HeapCoversEntries ImplementsRecency` | 7 thousand states |
| `shard_idle` | 3 requests, 2 tiles, 1 idle closer, 2 writers, batch 2, queue 2, 2 attempts | `TypeOK HeldIsRegistered ImplementsTable` | 460 thousand states |
| `shard_drop` | 2 requests, 1 tile, an idle closer and a dropper, 2 writers, 2 files, queue 1, batch 2, 2 attempts, fairness | `VerdictTrue RegisteredRuns KnownTableExists CreatedOnce PutAnswered CloseEnds DetachedEnds` | 183 thousand states |
| `shard_reopened` | 1 request, 1 dropper | `ClosedBeforeRemoval` | violated |
| `tile_store` | 3 requests (one oversized), 3 tiles: two of a layer that share a file, one of a database whose identifier begins alike | `ServedWasCommitted CoherentWithoutRace` | 250 thousand states |
| `catalog` | 2 PUTs of different sizes, 2 operations, 2 layers of 1 tile, queue and batch 2, faults | `TypeOK TotalsMatch ExactUnlessDrifted ActsOnFreshRows MarksKept` | 2.0 million states |
| `catalog_live` | as above with 1 layer, queue 1, no faults, fairness | `OperationsEnd MessagesWritten` | 225 thousand states |
| `access_stats` | 3 requests, 3 hours, 1 retained besides the current one, 2 faults, fairness | `CountsKept ShownIsStored GracefulStopSaves CountsLeaveMemory` | 103 thousand states |
| `cleanup` | 2 layers, 1 request at a time, 2 overlapping runs, 1 fault | `TypeOK RowsMatchFiles MarkerTruthful ProtectedKept` | 1.2 million states |
| `scheduler` | 1 layer, the scheduled run, 1 fault, 1 change or manual run, fairness | `DayServed OncePerDay IdleReclaimed` | 470 thousand states |
| `sessions` | 2 logins for 1 permit, 2 checks, 2 resets, 4 ticks, 1 fault, fairness | `TypeOK OldSessionsEnd EndedStaysEnded ExpiresOnlyIdle LoginsAnswered` | 700 thousand states |
| `cleanup_cached` | 1 layer, 1 request, 1 run | `AccessedKept` | violated |

**Why the bounds are enough.** Every bound is a constant of the configuration.
In `memory_cache` five uses fill the cache, replace and use an entry again,
and overflow both the capacity and the heap's threshold; two databases with two
items each tell the invalidations apart. In `shard_idle` three requests are the
fewest for two in a batch while a third races for the shard; queue and batch of
two make both full; two attempts allow one retry; two writers are a reopening. In
`shard_drop` two requests are two commands for one row, in one batch or in the
batches of two writers; with a queue of one a command is refused and a shutdown waits
for room; two writers and two files are a reopening, on a removed file or on a new
one. In `shard_reopened` one request is enough to open the shard again. `MaxOpens` and `MaxFiles` disable
further openings: a request may then only fail or be cancelled at that point,
which cuts behaviours short and adds none. In `tile_store` the three tiles are
those that addressing could confuse, and three requests are a removal, a request that
reopens a shard while it goes on, or fills the cache behind it, and one that reads or
writes what is left. In `catalog` two layers make a batch, a recount and a scan
consist of parts between which others act; two PUTs of different sizes are a creation
and an overwrite, or a batch lost and one written; two operations let a mark that was
given meet a rebuild or a removal, before, while or after it works. `catalog_live`
has two of them wait for each other. One database suffices because a flush handles
its dirty databases independently of each other. In `cleanup` two runs over two
layers meet in every place, the second layer being what a run still has to do
while the first is removed. Its `CONSTRAINT`
`FewMarksAfterFault` follows a behaviour beyond a failure only while at most one
name is protected, which halves the states; without a failure, and in the proofs,
nothing is cut. In `access_stats` three hours with one retained let an hour fall
out of memory and rows while another is written, and two faults are a
failure and a stop after it. In `sessions` four ticks of a limit of one let a
session expire after a renewal; two resets tell an old password from an older
one. The real limits (65,536 commands, 4,096 writes, 256 per batch, 4 attempts,
threshold `4n + 1024`, 90 days, 4 permits) are replaced by small ones; no guard
compares them with anything else.

**Symmetry** is used only in runs of invariants and of step properties, never in
the runs with liveness properties.

**Deadlock** is not checked in the runs whose processes perform a bounded number of
operations and then rest (all but `memory_cache`, `cleanup`, `cleanup_cached` and
`scheduler`; in `shard_reopened`, too, processes rest when they are done).

**Fairness.** Weak fairness of each request's, writer's and closer's own steps
(`ShardWriter`), and of the catalog's writer, of each PUT and of each operation
under way (`Catalog`): Tokio polls every task that is ready, and its channels
and `Mutex` are first come, first served. Nobody is required to start a request,
to leave, or to fail. The catalog's interval is part of the writer's step. In
`shard_drop` the steps of a retry are finitely many, so a batch ends whatever
SQLite answers. In `catalog_live` weak fairness is enough for the lock because
each of the few operations takes it once. In `AccessStats` both flushes go on
(the periodic one has a timer), a request that has read the hour counts, and a
stopped server returns; faults are bounded, so a flush succeeds in the end. In
`Sessions` a login that asked for a permit goes on; Tokio's semaphore is first
come, first served. In `Scheduler` hours and days pass, the minute's tick comes,
what has ended is recorded and the scheduled run goes on; that the hour does not
pass before its tick is a guard (`HourPasses`), since ticks come every minute.

### Disagreements with the documentation

Two statements of the repository's `README.md` are runs of their own:

* `ClosedBeforeRemoval` (README:52, a removal closes the connections and then
  removes the directory): `drop_tileset` and `drop_database` close the shards, let
  go of the lock of the map and then remove the directory (`store.rs:549-550`,
  `560-561`). A request opens the shard again in between, and the map keeps it on a
  removed file: what later PUTs commit there is answered with success, cached and
  counted, and is gone when the shard is next closed.
* `AccessedKept` (README:18, the cleanup removes what has not been accessed for
  long): a GET served by the memory cache returns before `touch_database`
  (`store.rs:306-310`), so a database whose hot tiles stay in memory ages and is
  listed.

Others were met while modelling and are where the properties make an exception;
each exception is a named history variable, and outside it the statement is
checked:

* README:60, an overwrite and a removal invalidate the cached entry.
  `insert` returns for an oversized tile before it removes the entry it replaces
  (`store.rs:126`), and a removal invalidates the cache before the files go and not
  after (`store.rs:544`), so that a request in flight fills it again; and the tiles
  of a removed file stay cached when its shard is closed. The exceptions of
  `CoherentWithoutRace` are these: `raced` keys, oversized rows and `lost` keys.
* README:58, an operation first forces the pending increments to be written, and so
  does not act on outdated rows. A flush that the interval, a full batch or another
  operation has begun takes the messages and drops them when it fails
  (`catalog.rs:556-605`); the operation's own flush then finds nothing to write and is
  confirmed. `ActsOnFreshRows` excepts these messages (`covered`).
* README:62, recounts make the dashboard accurate in the end. A recount sees a new
  tile whose own message is still on its way and counts it again when the message
  is written (`catalog.rs:564`), and tiles on removed files are counted although
  they go. `ExactUnlessDrifted` excepts the layers this happens to.
* README:18 again: the throttle of the access marker is set before the marker is
  written and survives a removal that fails part way (`store.rs:561, 674-678`), so
  that for up to an hour a used database has none. `MarkerTruthful` excepts
  `unmarked`.
* README:54, a rebuild keeps protection marks. One that is given between the
  rebuild's reading (`catalog.rs:150`) and its transaction is undone. `MarksKept`
  excepts exactly these (`lateMarks`).
* README:100, identifiers are digests. The code accepts identifiers of up to four
  characters, whose directory contains those of the longer ones that begin with
  it (`store.rs:1004`). The theorems about removals assume `Digests`.

## 4. Proofs

Proved for every value of the constants:

| Module | Theorem | States |
|---|---|---|
| `MemoryCacheProofs` | `TypesAlwaysOK`, `UsedBytesAlwaysExact`, `CapacityAlwaysRespected`, `HeapAlwaysCovers` | `[]` of `TypeOK`, `UsedBytesExact`, `CapacityRespected`, `HeapCoversEntries` |
| | `CacheImplementsRecency` | `ImplementsRecency`: the cache is a `RecencyCache` |
| `ShardWriterProofs` | `RegisteredAlwaysRuns`, `HeldAlwaysRegistered` | `[]` of `RegisteredRuns`, `HeldIsRegistered` |
| | `KnownTablesExist`, `VerdictAlwaysTrue` | `[]` of `KnownTableExists`, `VerdictTrue` |
| | `RowsCreatedOnce`, `AlwaysTyped` | `[]` of `CreatedOnce`, `TypeOK` |
| | `ShardImplementsTable` | `ImplementsTable` when there are no droppers: the shard is a `TileTable` |
| | `NobodyForgotten` | `[]NoneForgotten`: who waits for the writer is with one that runs, or has been answered |
| `TileStoreProofs` | `OneTilePerRow` | two tiles at one location are one tile |
| | `RemovesItsLayer`, `RemovesItsDatabase` | a directory holds the tiles of its layer, or database, and no others |
| | `TypeCorrect`, `ServedAlwaysCommitted` | `[]` of `TypeOK`, `ServedWasCommitted` |
| | `CoherentUnlessRaced` | `[]CoherentWithoutRace` |
| `CatalogProofs` | `CatalogTypes`, `TotalsAlwaysMatch` | `[]` of `TypeOK`, `TotalsMatch` |
| | `RowsExactUnlessDrifted` | `[]ExactUnlessDrifted` |
| | `ActsAfterItsFlush` | `[]ActsOnFreshRows` |
| | `MarksStay` | `MarksKept` |
| | `NobodyStranded` | `[]NoneStranded`: flush, lock and status that are waited for are someone's to give |
| `CleanupProofs` | `TypeCorrect`, `CatalogTrue`, `MarkerFresh` | `[]` of `TypeOK`, `RowsMatchFiles`, `MarkerTruthful` |
| | `ProtectedSpared` | `ProtectedKept` |
| `SchedulerProofs` | `SchedulerRunsCleanup` | `SchedulerSpec => Spec` of `Cleanup` |
| | `SchedulerTypeCorrect` | `[]SchedulerTypeOK` |
| | `NoDaySkipped`, `RunsOncePerDay` | `DayServed`, `OncePerDay` |
| `AccessStatsProofs` | `TypeCorrect`, `NoCountLost`, `DashboardTrue` | `[]` of `TypeOK`, `CountsKept`, `ShownIsStored` |
| | `GracefulStopAlwaysSaves` | `GracefulStopSaves` |
| `SessionsProofs` | `TypeCorrect`, `ResetEndsOldSessions`, `EndedForGood` | `[]` of `TypeOK`, `OldSessionsEnd`, `EndedStaysEnded` |
| | `OnlyIdleExpire` | `ExpiresOnlyIdle` |

*Assumptions.* The named `ASSUME`s of the modules: bounds are natural numbers,
capacities and limits at least one, the kinds of processes disjoint, `None`
different from what it stands beside, `Scheduled` one of the runs; and in `TileStore`
that the identifiers are digests (`DigestsAssumption`, README.md:100). Nothing is
assumed about how many requests, tiles, layers, writers, runs or faults there are;
that the cached entries, the stored tiles and the requests begun are finitely
many is proved. `ShardImplementsTable` assumes `Droppers = {}`: a table from
which a removal takes rows is not a `TileTable`.

*The cache.* The capacity is not inductive alone. The pop loop ends with the
bytes within the capacity or with an empty heap; only if every entry still has
its current record in the heap does an empty heap mean an empty cache. And the
loop compares `used_bytes`, not the true sum, so that sum must be the counter.
The invariant is therefore types, a finite domain, `HeapCoversEntries`,
`UsedBytesExact` and `CapacityRespected` together. The sizes are sums over a
finite set; the module defines the size of a set of tiles as the number of its
bytes (`Bytes`), so that sums follow from the theorems about cardinality.

That the cache follows the order of use needs one invariant more, `DifferentTicks`:
no two tiles have the same tick, because a tick is above all earlier ones. With it
a use puts its tile after all others and moves nothing else (`StoredOrder`,
`HitMoves`). The pop loop takes the tiles with ticks up to `cut`, hence the
oldest ones. It takes no tile too many (`FewestEvicted`): had fewer of the oldest
sufficed, one tile it took would not be among them; at the latest record before
that tile's (`LatestTick`) the loop would have had all of the sufficient ones and
stopped there.

*The shard.* That the registered writer runs rests on `NoShutdownSent` (the
writer in the map has no shutdown in its queue or set aside by its batch),
which rests on `ClosingIsDetached` (a closer's writer is not the one in the map;
once detached it never returns, because `Open` numbers a new one) and on
`Unopened` (a writer not opened yet has nothing in its queue). `HoldsOne` ties a
request's place to what it holds. One lemma per kind of process shows that its
steps keep the invariant. Without droppers, `HeldIsRegistered` follows step by step:
only an idle close empties the slot, and only when nobody holds the shard.
`TableInv` adds that an opened writer has a file and an unopened one has seen no
table. `VInv` follows a command: it is in one queue, or in one batch, or nowhere;
in a batch it is committed exactly when the transaction of that batch is, and
unanswered; so an answer, and likewise the end of a writer with commands still
queued, tells what became of it, and what was refused has never been sent.

`RowInv` is what makes `created` true: the rows of a file are those that have been
reported, each once. A batch keeps it (`CommitRows`) since of its commands for
one tile the first reports the row, if there was none, and the last gives its data
(`FirstAndLast`, `InsertsOfBatch`, `RowOfBatch`); commands of other writers of the
file are in other transactions. `KeyInv` says that only PUTs get into a batch.
For the refinement, `OneFile` adds that without a removal all writers work on the
file at the path. Then `Commit` is the step in which all PUTs of a batch take
effect, in their order, `Query` that of a GET, an end is the answer, and every
other step changes nothing a client could see (`Invisible`).

`NobodyForgotten` is the safe half of `PutAnswered` and `CloseEnds`: it says that
nobody waits in vain, not that the writer goes on. A writer that has been opened
runs until it has emptied its queue (`TasksFit`), and each of its steps moves a
command from the queue to the batch, or from there to a verdict; a PUT holds a
writer that has been opened, and its `try_send` fails if that one has gone.

*Addressing and the store.* A level below nine shares its file with the others,
so the level must be told by the table and the column and row by quotients and
remainders put together again; the arithmetic is `OneTilePerRow`. The store's
invariant says of each place data can be - a row, the cache, a GET on its way, an
answer - that it was committed under the key that leads there; for the rows this
needs `OneTilePerRow`, without which a row could hold another tile's data, and
`LooseGone`: while the map's shard works on a removed file there are no rows at its
path.
`CInv` speaks of the tiles without a race one by one (`RaceFree`): requests that
meet on one are GETs, so the row that a GET has read, or a PUT has written, is
still there when it fills the cache, whatever file it is in, because nobody closes
a shard that a request holds; and a removal's directory holds exactly the
tiles it has invalidated, which is `RemovesItsLayer` and `RemovesItsDatabase`.

*The catalog.* `FlushInv` follows the messages an operation's flush has to cover:
each is sent once, an operation asks for one flush, and while it waits its
messages are ahead of it in the queue or have been received; once the writer has
its command they are in the batch or written, so nothing sent is left unwritten
when it is answered. A flush of someone else that fails takes its messages out of
`covered`; one of the operation's own ends the operation. `RebuildInv`: the lock is held by one rebuild from its scan
to its transaction, and a rebuild that found no database has nothing to write;
so only a rebuild that is writing the marks it read can take one from a row that
stays, and every mark in the rows is by then among those it has read or those given
since (`MarksKnown`). Neither needs the sums of the rows.

`TotalsMatch` and `ExactUnlessDrifted` do. A sum over a finite set is the number
of its units (`SumIsUnits`), from which follow the lemmas on sums of which the
proofs consist: a sum over two sets, with one value changed, over what agrees.
`FilesInv` and `RowsInv` keep files, messages, rows and counts finite and well
formed; `TotalsMatch` is part of `RowsInv` and is kept by each way to write rows.
`ExactUnlessDrifted` speaks of layers without messages; its invariant `DriftInv`
of all of them: the row of a layer, together with what its messages still to come
will bring (`Owed`), makes the count of its files (`RowAgrees`). Bytes are left
out while an overwrite is on its way, whose difference only a recount can tell. A
recount agrees in the same way with the messages that will come after its batch
(`RecountAgrees`), a rebuild's finding with all (`FoundAgrees`), unless the history
says that they were taken in between or with tiles of a removed file. `OnceInv` says that a message is in one place,
so that a batch brings each once.

`NobodyStranded` is likewise the safe half of `OperationsEnd`. `AskedOnce` and
`RebuildInv` are what it needs: a command leaves the queue when it is answered or
when the flush begins that is for it, and the lock of a rebuild goes with its end.

*The cleanup.* Three invariants over one another. `RunsFit`: what a run has still
to remove shares nothing with what has been protected since it began, a run that
goes for the whole database having found nothing protected at all; changing a
mark takes the name out of every `spared`, and marks never outlive rows. `RowsFit`,
layer by layer: a layer in the hands of a PUT has files, one whose row is
about to go has none, and otherwise row and files come together. `MarkInv`: who
is throttled need not write, because the marker is fresh, or is being written,
or is known to be missing until the throttle goes (`unmarked`). `Scheduler` is
shown to take only steps of `Cleanup` or none, so all of this holds of it too;
its own invariant adds that the scheduled run is idle while none is to be
recorded, that a run begun yesterday leaves no room for one of today before it is
recorded, and that a day with a record has had a scheduled run begin on it or a
manual one end (`RunRecorded`), which is why an hour that finds the day recorded has
been served.

*The statistics.* `CountsKept` alone does not bound what a flush holds: `Quiet`
says that nothing is in hand while the server is stopped, `OnTime` that a request
counts in this hour or the last, so that `retain` drops no counter that the rows
keep, and `Balanced` that memory and rows differ by what is still to be written.
`GracefulStopSaves` rests on `Flushing`: once the last flush has begun no request is
left that could count, and without a failure nothing is pending; and on `Single`:
without a failure nothing is written twice. By `CountsKept` what is then not in the
rows is in the hands of the periodic flush, or was at an earlier return.

*The sessions.* A row is created only by its own login, once (`TypeOK`'s last
conjunct), and renewed only if it is there, so what has ended stays ended; a login
that read the hash before a reset is either past its insertion, and then its row
is removed, or in `crossed`.

*Sums and folds.* The library defines `SumFunctionOnSet` by a fold, about which
the theorems with an operator parameter (induction on sets) cannot be cited. The
proofs take a smallest counterexample instead: proper inclusion among the subsets of
a finite set is well founded (`FS_StrictSubsetOrderingWellFounded`, `WFMin`). The
same gives the first and the last command of a batch and the latest tick.

*Only model-checked.* All liveness (`PutAnswered`, `CloseEnds`, `DetachedEnds`,
`OperationsEnd`, `MessagesWritten`, `CountsLeaveMemory`, `IdleReclaimed`,
`LoginsAnswered`), since liveness under fairness and `ENABLED` are beyond the
prover. Of three of them, `PutAnswered`, `CloseEnds` and `OperationsEnd`, the safe
half is proved (`NobodyForgotten`, `NobodyStranded`). `AccessedKept` and `ClosedBeforeRemoval` are false. Every
invariant and every step property of a passing run, and every refinement, is a
theorem.

## 5. Not modelled, and what could follow

Not modelled: configuration and password rules (stateless parsing), process
metrics, error mapping and data types (no state), the dashboard and its vendored
library, build and release files, and of the HTTP handlers the parsing, paging
and response building. Of the modelled components: the size of a database and
the extent, format and access time of layers in the catalog (the size is measured
in two ways that differ by the overhead of SQLite, `catalog.rs:190`, and nothing
says which is meant); the table of cleanup history (plain statements); the idle
close and the eviction in the maintenance loop as a loop (each is an operation of
`ShardWriter` or `MemoryCache` that may happen at any time); the two copies of
the settings (`api.rs:1047`); the removal of databases with short identifiers
(`store.rs:1004`); and the growth of the LRU's heap by hits alone
(`store.rs:117`), which the model bounds by its clock.

Worth proving next: what `Cleanup` and `TileStore` take from their parts (one
atomic row per location, a cache that may forget) as refinements of their own,
and the lemmas on which the liveness properties rest: that the steps which may go
on are enough for the next one to be possible.
