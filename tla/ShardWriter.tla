----------------------------- MODULE ShardWriter -----------------------------
(***************************************************************************)
(* One tile shard of store.rs: the slot of the shard map, the writer tasks *)
(* opened for the shard's file, their bounded command queues, the requests *)
(* that use them and the tasks that close them.                            *)
(*                                                                         *)
(* A critical section of the shard map's RwLock is one action: open_shard  *)
(* runs inside it and touches nothing that another task can see before the *)
(* lock is released.  Everything between two awaits outside the lock is an *)
(* action of its own.  SQLite serialises transactions on one file, so a    *)
(* committed batch is one action, and a failed one changes no row.         *)
(***************************************************************************)
EXTENDS Naturals, Sequences, FiniteSets

CONSTANTS
    Requests,       \* GET and PUT requests; a PUT writes its own name as data
    Keys,           \* tiles of the shard
    IdleClosers,    \* maintenance tasks that run close_idle_shards
    Droppers,       \* requests that drop the item the shard belongs to
    QueueCapacity, MaxBatch, MaxAttempts,   \* 4096, 256 and 4 in the code
    MaxOpens, MaxFiles,     \* bounds on writer tasks and on files created
    None

Closers == IdleClosers \cup Droppers
Writers == 1..MaxOpens
Files == 1..MaxFiles

ASSUME ConstantsAssumption ==
    /\ QueueCapacity \in Nat \ {0} /\ MaxBatch \in Nat \ {0} /\ MaxAttempts \in Nat \ {0}
    /\ MaxOpens \in Nat /\ MaxFiles \in Nat
    /\ Requests \cap Closers = {} /\ IdleClosers \cap Droppers = {}
    /\ None \notin Requests /\ None \notin Keys /\ None \notin Closers

ASSUME NoneAssumption ==
    None \notin {"ok", "failed", "stopped", "overloaded", "cancelled", "put", "get"}

VARIABLES
    \* requests: the writer each one holds, 0 for none, and the writer's answer
    pc, op, key, holds, outcome, reply,
    \* the shard map's slot (0 for none), the writers opened so far, and the
    \* file and the read pool of each
    registered, opened, file, poolOpen,
    \* writer tasks
    task, queue, batch, stop, attempts, written, tableKnown,
    \* tasks that close a shard, and the answers to their shutdowns
    closer, closing, shutdownReply,
    \* the item's directory, the file at the shard's path (0 for none), the
    \* files created so far, their rows and whether they have the table
    itemDir, linked, files, rows, hasTable,
    \* every PUT whose row a transaction committed, and those whose outcome
    \* says created, each with the file it was inserted into
    committed, createdBy

requestVars == <<pc, op, key, holds, outcome>>
slotVars == <<registered, opened, file, poolOpen>>
pathVars == <<itemDir, linked, files>>
batchVars == <<batch, stop, attempts, written, tableKnown>>
dataVars == <<rows, hasTable, committed, createdBy>>
closerVars == <<closer, closing>>
vars == <<requestVars, reply, slotVars, pathVars, task, queue, batchVars, dataVars,
          closerVars, shutdownReply>>

Init ==
    /\ pc = [r \in Requests |-> "new"]
    /\ op = [r \in Requests |-> None]
    /\ key = [r \in Requests |-> None]
    /\ holds = [r \in Requests |-> 0]
    /\ reply = [r \in Requests |-> None]
    /\ outcome = [r \in Requests |-> None]
    /\ registered = 0 /\ opened = 0
    /\ task = [w \in Writers |-> "unborn"]
    /\ file = [w \in Writers |-> 0]
    /\ queue = [w \in Writers |-> <<>>]
    /\ batch = [w \in Writers |-> <<>>]
    /\ stop = [w \in Writers |-> None]
    /\ attempts = [w \in Writers |-> 0]
    /\ written = [w \in Writers |-> FALSE]
    /\ tableKnown = [w \in Writers |-> FALSE]
    /\ poolOpen = [w \in Writers |-> FALSE]
    /\ closer = [x \in Closers |-> "ready"]
    /\ closing = [x \in Closers |-> 0]
    /\ shutdownReply = [x \in Closers |-> FALSE]
    /\ itemDir = FALSE /\ linked = 0 /\ files = 0
    /\ rows = [f \in Files |-> [k \in Keys |-> None]]
    /\ hasTable = [f \in Files |-> FALSE]
    /\ committed = {} /\ createdBy = {}

-----------------------------------------------------------------------------
(* Requests: TileStore::put and the SQLite part of TileStore::get.         *)

\* A PUT creates the item's directory before it asks for the shard.
Begin(r, kind, k) ==
    /\ pc[r] = "new"
    /\ pc' = [pc EXCEPT ![r] = "lookup"]
    /\ op' = [op EXCEPT ![r] = kind]
    /\ key' = [key EXCEPT ![r] = k]
    /\ itemDir' = (itemDir \/ kind = "put")
    /\ UNCHANGED <<holds, outcome, slotVars, linked, files, task, queue>>

Hold(r, w) ==
    /\ pc' = [pc EXCEPT ![r] = "holding"]
    /\ holds' = [holds EXCEPT ![r] = w]
    /\ UNCHANGED <<op, key, outcome>>

Leave(r, o) ==
    /\ pc' = [pc EXCEPT ![r] = "done"]
    /\ holds' = [holds EXCEPT ![r] = 0]
    /\ outcome' = [outcome EXCEPT ![r] = o]
    /\ UNCHANGED <<op, key, slotVars, task, queue>>

Return(r, o) == Leave(r, o) /\ UNCHANGED pathVars

\* shard: the lookup under the read lock.
Lookup(r) ==
    /\ pc[r] = "lookup"
    /\ IF registered # 0
       THEN Hold(r, registered)
       ELSE pc' = [pc EXCEPT ![r] = "missed"] /\ UNCHANGED <<op, key, holds, outcome>>
    /\ UNCHANGED <<slotVars, pathVars, task, queue>>

\* shard: the write lock is taken and the slot was filled in the meantime.
SecondCheck(r) ==
    /\ pc[r] = "missed" /\ registered # 0
    /\ Hold(r, registered)
    /\ UNCHANGED <<slotVars, pathVars, task, queue>>

\* shard: a GET opens no shard whose file does not exist.
FileMissing(r) ==
    /\ pc[r] = "missed" /\ registered = 0
    /\ op[r] = "get" /\ linked = 0
    /\ Return(r, "absent")

\* Mutant: no second check.
SlotNotChecked == TRUE

\* The slot of the map is free as seen under the write lock.
SlotFree == registered = 0

\* create_if_missing: the file at the shard's path, an empty one if need be.
CreateFile ==
    IF linked = 0
    THEN files < MaxFiles /\ files' = files + 1 /\ linked' = files + 1
    ELSE UNCHANGED <<files, linked>>

\* shard and open_shard: a writer task is spawned and put into the map.
Open(r) ==
    /\ pc[r] = "missed" /\ SlotFree
    /\ op[r] = "put" \/ linked # 0
    /\ opened < MaxOpens
    /\ CreateFile
    /\ itemDir' = TRUE
    /\ opened' = opened + 1
    /\ registered' = opened + 1
    /\ task' = [task EXCEPT ![opened + 1] = "recv"]
    /\ file' = [file EXCEPT ![opened + 1] = linked']
    /\ poolOpen' = [poolOpen EXCEPT ![opened + 1] = TRUE]
    /\ Hold(r, opened + 1)
    /\ UNCHANGED queue

\* open_shard fails, or finds the database locked four times, or the client
\* goes away meanwhile; a PUT may have created the file by then.
OpenFails(r) ==
    /\ pc[r] = "missed" /\ registered = 0
    /\ op[r] = "put" \/ linked # 0
    /\ itemDir' = (itemDir \/ op[r] = "put")
    /\ UNCHANGED <<files, linked>> \/ (op[r] = "put" /\ CreateFile)
    /\ \E o \in {"failed", "cancelled"} : Leave(r, o)

\* put: try_send of the command.
Send(r) ==
    /\ pc[r] = "holding" /\ op[r] = "put"
    /\ task[holds[r]] # "gone" /\ Len(queue[holds[r]]) < QueueCapacity
    /\ queue' = [queue EXCEPT ![holds[r]] = Append(@, r)]
    /\ pc' = [pc EXCEPT ![r] = "waiting"]
    /\ UNCHANGED <<op, key, holds, outcome, slotVars, pathVars, task>>

\* put: a full queue and a closed one are both reported as overload.
Refuse(r) ==
    /\ pc[r] = "holding" /\ op[r] = "put"
    /\ task[holds[r]] = "gone" \/ Len(queue[holds[r]]) >= QueueCapacity
    /\ Return(r, "overloaded")

\* put: the answer of the writer task, or the news that it dropped the command.
Finish(r) ==
    /\ pc[r] = "waiting" /\ reply[r] # None
    /\ Return(r, reply[r])

\* get: the row, through the read pool of the shard that the request holds.
Query(r) ==
    /\ pc[r] = "holding" /\ op[r] = "get"
    /\ LET row == rows[file[holds[r]]][key[r]]
       IN Return(r, IF ~poolOpen[holds[r]] THEN "failed"
                    ELSE IF row = None THEN "absent" ELSE row)

\* The client goes away and the server drops the request's future, its share
\* of the shard included; a command already sent stays in the queue.
Cancel(r) ==
    /\ pc[r] \in {"lookup", "missed", "holding", "waiting"}
    /\ Return(r, "cancelled")

-----------------------------------------------------------------------------
(* The writer task: writer_loop and write_tile_batch.                      *)

\* Arc::strong_count beyond the map's own share.
Held(w) == \E r \in Requests : holds[r] = w

\* Mutant: only the first command of a batch is answered.
ToldFirst(commands, v) ==
    [r \in Requests |-> IF commands # <<>> /\ commands[1] = r THEN v ELSE reply[r]]

\* Every request among the commands is sent the verdict v.
Told(commands, v) ==
    [r \in Requests |-> IF \E n \in DOMAIN commands : commands[n] = r THEN v ELSE reply[r]]

QueuePopped(w) == [queue EXCEPT ![w] = Tail(@)]

\* The command at the head of the queue starts a batch, or ends the loop.
Recv(w) ==
    /\ task[w] = "recv" /\ queue[w] # <<>>
    /\ queue' = QueuePopped(w)
    /\ IF Head(queue[w]) \in Requests
       THEN /\ task' = [task EXCEPT ![w] = "collect"]
            /\ batch' = [batch EXCEPT ![w] = <<Head(queue[w])>>]
            /\ UNCHANGED shutdownReply
       ELSE /\ task' = [task EXCEPT ![w] = "closing"]
            /\ shutdownReply' = [shutdownReply EXCEPT ![Head(queue[w])] = TRUE]
            /\ UNCHANGED batch
    /\ UNCHANGED <<stop, attempts, written, tableKnown, dataVars, reply>>

\* Mutant: the loop does not end when the senders are gone.
NeverEnds(w) == FALSE

\* recv returns None: no command is left and every sender has been dropped.
NoSenders(w) ==
    /\ task[w] = "recv" /\ queue[w] = <<>>
    /\ registered # w /\ ~Held(w) /\ \A x \in Closers : closing[x] # w
    /\ task' = [task EXCEPT ![w] = "closing"]
    /\ UNCHANGED <<queue, batchVars, dataVars, reply, shutdownReply>>

\* try_recv: one more command joins the batch; a shutdown is kept for later.
Collect(w) ==
    /\ task[w] = "collect" /\ Len(batch[w]) < MaxBatch /\ queue[w] # <<>>
    /\ queue' = QueuePopped(w)
    /\ IF Head(queue[w]) \in Requests
       THEN /\ batch' = [batch EXCEPT ![w] = Append(@, Head(queue[w]))]
            /\ UNCHANGED <<task, stop>>
       ELSE /\ stop' = [stop EXCEPT ![w] = Head(queue[w])]
            /\ task' = [task EXCEPT ![w] = "write"]
            /\ UNCHANGED batch
    /\ UNCHANGED <<attempts, written, tableKnown, dataVars, reply, shutdownReply>>

\* The batch is full or the queue is empty.
Seal(w) ==
    /\ task[w] = "collect" /\ (Len(batch[w]) >= MaxBatch \/ queue[w] = <<>>)
    /\ task' = [task EXCEPT ![w] = "write"]
    /\ UNCHANGED <<queue, batchVars, dataVars, reply, shutdownReply>>

\* Mutant: one attempt too many.
MayRetryOnceMore(w) == attempts[w] < MaxAttempts

MayRetry(w) == attempts[w] + 1 < MaxAttempts

\* The database is locked and attempts are left.
Retry(w) ==
    /\ task[w] = "write" /\ MayRetry(w)
    /\ attempts' = [attempts EXCEPT ![w] = @ + 1]
    /\ UNCHANGED <<task, queue, batch, stop, written, tableKnown, dataVars, reply, shutdownReply>>

\* Mutant: rows inserted earlier in the same batch are not looked at.
InsertsOldRows(f, b) == {b[n] : n \in {n \in DOMAIN b : rows[f][key[b[n]]] = None}}

\* The commands of batch b that insert a row, the others updating one.
Inserts(f, b) ==
    {b[n] : n \in {n \in DOMAIN b : /\ rows[f][key[b[n]]] = None
                                    /\ \A m \in 1..(n - 1) : key[b[m]] # key[b[n]]}}

\* Mutant: INSERT OR IGNORE without the UPDATE.
RowIgnored(f, b, k) ==
    IF rows[f][k] # None \/ \A n \in DOMAIN b : key[b[n]] # k THEN rows[f][k]
    ELSE CHOOSE r \in Inserts(f, b) : key[r] = k

\* The row of tile k after the commands of b have run in order.
RowAfter(f, b, k) ==
    IF \A n \in DOMAIN b : key[b[n]] # k THEN rows[f][k]
    ELSE LET last == CHOOSE n \in DOMAIN b :
                        key[b[n]] = k /\ \A m \in DOMAIN b : key[b[m]] = k => m <= n
         IN b[last]

\* write_tile_batch commits; a table the task has not seen yet is created first.
Commit(w) ==
    /\ task[w] = "write"
    /\ tableKnown[w] => hasTable[file[w]]
    /\ rows' = [rows EXCEPT ![file[w]] = [k \in Keys |-> RowAfter(file[w], batch[w], k)]]
    /\ createdBy' = createdBy \cup (Inserts(file[w], batch[w]) \X {file[w]})
    /\ committed' = committed \cup {batch[w][n] : n \in DOMAIN batch[w]}
    /\ hasTable' = [hasTable EXCEPT ![file[w]] = TRUE]
    /\ tableKnown' = [tableKnown EXCEPT ![w] = TRUE]
    /\ written' = [written EXCEPT ![w] = TRUE]
    /\ task' = [task EXCEPT ![w] = "answer"]
    /\ UNCHANGED <<queue, batch, stop, attempts, reply, shutdownReply>>

\* Mutants: the verdict of an earlier batch is kept, the tables of the failed
\* batch are remembered.
AbortKeepsVerdict(w) ==
    /\ task[w] = "write"
    /\ task' = [task EXCEPT ![w] = "answer"]
    /\ UNCHANGED <<queue, batchVars, dataVars, reply, shutdownReply>>

AbortKeepsTables(w) ==
    /\ task[w] = "write"
    /\ written' = [written EXCEPT ![w] = FALSE]
    /\ tableKnown' = [tableKnown EXCEPT ![w] = TRUE]
    /\ task' = [task EXCEPT ![w] = "answer"]
    /\ UNCHANGED <<queue, batch, stop, attempts, dataVars, reply, shutdownReply>>

\* The transaction fails for good and is rolled back.
Abort(w) ==
    /\ task[w] = "write"
    /\ written' = [written EXCEPT ![w] = FALSE]
    /\ task' = [task EXCEPT ![w] = "answer"]
    /\ UNCHANGED <<queue, batch, stop, attempts, tableKnown, dataVars, reply, shutdownReply>>

\* Mutant: a shutdown found while collecting is forgotten.
NoStop(w) == None

StopAsked(w) == stop[w]

\* Every command of the batch gets the same verdict, then a shutdown found
\* while collecting is confirmed and ends the loop.
Answer(w) ==
    /\ task[w] = "answer"
    /\ reply' = Told(batch[w], IF written[w] THEN "ok" ELSE "failed")
    /\ IF StopAsked(w) = None
       THEN task' = [task EXCEPT ![w] = "recv"] /\ UNCHANGED shutdownReply
       ELSE /\ task' = [task EXCEPT ![w] = "closing"]
            /\ shutdownReply' = [shutdownReply EXCEPT ![StopAsked(w)] = TRUE]
    /\ batch' = [batch EXCEPT ![w] = <<>>]
    /\ attempts' = [attempts EXCEPT ![w] = 0]
    /\ UNCHANGED <<queue, stop, written, tableKnown, dataVars>>

\* The connection closes, the receiver is dropped, and with it every command
\* still queued: their senders learn that the writer stopped.
Exit(w) ==
    /\ task[w] = "closing"
    /\ task' = [task EXCEPT ![w] = "gone"]
    /\ queue' = [queue EXCEPT ![w] = <<>>]
    /\ reply' = Told(queue[w], "stopped")
    /\ shutdownReply' = [x \in Closers |-> shutdownReply[x]
                                             \/ \E n \in DOMAIN queue[w] : queue[w][n] = x]
    /\ UNCHANGED <<batchVars, dataVars>>

-----------------------------------------------------------------------------
(* Closing: close_idle_shards, close_shards_under and close_shard, and     *)
(* drop_tileset with the directory removal that follows.                   *)

\* Mutant: the shard stays in the map while it is closed.
SlotKept == registered

SlotCleared == 0

Detach(x, next) ==
    /\ closer' = [closer EXCEPT ![x] = next]
    /\ closing' = [closing EXCEPT ![x] = registered]
    /\ shutdownReply' = [shutdownReply EXCEPT ![x] = FALSE]
    /\ registered' = SlotCleared
    /\ UNCHANGED <<opened, file, poolOpen, pathVars, queue>>

\* close_idle_shards: the map holds the only share of a shard left idle.
DetachIdle(x) ==
    /\ x \in IdleClosers /\ closer[x] = "ready"
    /\ registered # 0 /\ ~Held(registered)
    /\ Detach(x, "sending")

\* drop_tileset, then close_shards_under: whoever holds the shard keeps it.
DetachForDrop(x) ==
    /\ x \in Droppers /\ closer[x] = "ready"
    /\ itemDir
    /\ Detach(x, IF registered # 0 THEN "sending" ELSE "removing")

\* close_shard: the shutdown waits for room in the queue; the send fails when
\* the task is gone, and the failure is ignored.
SendShutdown(x) ==
    /\ closer[x] = "sending"
    /\ IF task[closing[x]] = "gone"
       THEN shutdownReply' = [shutdownReply EXCEPT ![x] = TRUE] /\ UNCHANGED queue
       ELSE /\ Len(queue[closing[x]]) < QueueCapacity
            /\ queue' = [queue EXCEPT ![closing[x]] = Append(@, x)]
            /\ UNCHANGED shutdownReply
    /\ closer' = [closer EXCEPT ![x] = "awaiting"]
    /\ UNCHANGED <<closing, slotVars, pathVars>>

\* close_shard: the shutdown was answered (or dropped); the read pool closes.
ClosePool(x) ==
    /\ closer[x] = "awaiting" /\ shutdownReply[x]
    /\ poolOpen' = [poolOpen EXCEPT ![closing[x]] = FALSE]
    /\ closer' = [closer EXCEPT ![x] = IF x \in Droppers THEN "removing" ELSE "ready"]
    /\ closing' = [closing EXCEPT ![x] = 0]
    /\ UNCHANGED <<registered, opened, file, pathVars, queue, shutdownReply>>

\* drop_tileset: remove_dir_all; a writer that has the file open keeps it.  On
\* an error the directory stays, with the file or already without it.
RemoveDir(x) ==
    /\ closer[x] = "removing"
    /\ closer' = [closer EXCEPT ![x] = "done"]
    /\ itemDir' \in BOOLEAN /\ linked' \in {0, linked} /\ (itemDir' \/ linked' = 0)
    /\ UNCHANGED <<closing, slotVars, files, queue, shutdownReply>>

\* The client of the drop goes away: the shard it was closing is dropped
\* without a shutdown, or before the answer to it.
Abandon(x) ==
    /\ x \in Droppers /\ closer[x] \in {"sending", "awaiting"}
    /\ closer' = [closer EXCEPT ![x] = "done"]
    /\ closing' = [closing EXCEPT ![x] = 0]
    /\ UNCHANGED <<slotVars, pathVars, queue, shutdownReply>>

-----------------------------------------------------------------------------
\* Each kind of process leaves the state of the others alone.
RequestFrame == UNCHANGED <<reply, batchVars, dataVars, closerVars, shutdownReply>>
TaskFrame == UNCHANGED <<requestVars, slotVars, pathVars, closerVars>>
CloserFrame == UNCHANGED <<requestVars, reply, task, batchVars, dataVars>>

Proceed(r) ==
    /\ RequestFrame
    /\ \/ Lookup(r) \/ SecondCheck(r) \/ FileMissing(r) \/ Open(r) \/ OpenFails(r)
       \/ Send(r) \/ Refuse(r) \/ Finish(r) \/ Query(r)

ClientStep(r) ==
    /\ RequestFrame
    /\ \/ \E k \in Keys, kind \in {"put", "get"} : Begin(r, kind, k)
       \/ Cancel(r)

TaskStep(w) ==
    /\ TaskFrame
    /\ \/ Recv(w) \/ NoSenders(w) \/ Collect(w) \/ Seal(w)
       \/ Retry(w) \/ Commit(w) \/ Abort(w) \/ Answer(w) \/ Exit(w)

CloseStep(x) == CloserFrame /\ (SendShutdown(x) \/ ClosePool(x) \/ RemoveDir(x))
StartOrLeave(x) == CloserFrame /\ (DetachIdle(x) \/ DetachForDrop(x) \/ Abandon(x))

Next ==
    \/ \E r \in Requests : Proceed(r) \/ ClientStep(r)
    \/ \E w \in Writers : TaskStep(w)
    \/ \E x \in Closers : CloseStep(x) \/ StartOrLeave(x)

Spec == Init /\ [][Next]_vars

\* Tokio polls every task that can make progress: requests, writer tasks and
\* the tasks that close a shard all go on.  No client has to send or leave.
Fairness ==
    /\ \A r \in Requests : WF_vars(Proceed(r))
    /\ \A w \in Writers : WF_vars(TaskStep(w))
    /\ \A x \in Closers : WF_vars(CloseStep(x))

FairSpec == Spec /\ Fairness

-----------------------------------------------------------------------------
Live == {"recv", "collect", "write", "answer"}
Commands == Requests \cup Closers

TypeOK ==
    /\ pc \in [Requests -> {"new", "lookup", "missed", "holding", "waiting", "done"}]
    /\ op \in [Requests -> {None, "put", "get"}]
    /\ key \in [Requests -> Keys \cup {None}]
    /\ holds \in [Requests -> 0..opened]
    /\ reply \in [Requests -> {None, "ok", "failed", "stopped"}]
    /\ outcome \in [Requests -> {None, "ok", "failed", "stopped", "overloaded", "absent",
                                 "cancelled"} \cup Requests]
    /\ opened \in 0..MaxOpens /\ registered \in 0..opened
    /\ task \in [Writers -> Live \cup {"unborn", "closing", "gone"}]
    /\ file \in [Writers -> 0..files]
    /\ queue \in [Writers -> Seq(Commands)]
    /\ batch \in [Writers -> Seq(Requests)]
    /\ stop \in [Writers -> Closers \cup {None}]
    /\ attempts \in [Writers -> 0..(MaxAttempts - 1)]
    /\ written \in [Writers -> BOOLEAN] /\ tableKnown \in [Writers -> BOOLEAN]
    /\ poolOpen \in [Writers -> BOOLEAN]
    /\ closer \in [Closers -> {"ready", "sending", "awaiting", "removing", "done"}]
    /\ closing \in [Closers -> 0..opened]
    /\ shutdownReply \in [Closers -> BOOLEAN]
    /\ files \in 0..MaxFiles /\ linked \in 0..files /\ itemDir \in BOOLEAN
    /\ rows \in [Files -> [Keys -> Requests \cup {None}]]
    /\ hasTable \in [Files -> BOOLEAN]
    /\ committed \subseteq Requests /\ createdBy \subseteq Requests \X Files

\* A PUT that is told it succeeded has been committed, and one that is told
\* anything else has not been and never will be: the client may retry it.
VerdictTrue ==
    \A r \in Requests : op[r] = "put" =>
        /\ outcome[r] = "ok" => r \in committed
        /\ outcome[r] \in {"failed", "stopped", "overloaded"} => r \notin committed

\* The shard that the map hands out always has a running writer: a shutdown
\* is only ever queued for a shard that the map has let go.
RegisteredRuns == registered # 0 => task[registered] \in Live

\* Every request in progress uses the shard of the map, so that concurrent
\* first requests share one writer and an idle close never takes a shard from
\* a request.  Only the removal of the item may do that.
HeldIsRegistered ==
    Droppers = {} => \A r \in Requests : holds[r] # 0 => holds[r] = registered

\* A writer that skips CREATE TABLE because it has created the table before
\* finds it in its file, whatever batch failed in between.
KnownTableExists == \A w \in Writers : tableKnown[w] => hasTable[file[w]]

\* Of all PUTs ever committed to a row of a file exactly one reports that it
\* created it, whichever writers, batches and retries they went through: the
\* catalog counts tiles by these reports.
CreatedOnce ==
    \A f \in Files, k \in Keys :
        rows[f][k] # None <=>
            Cardinality({c \in createdBy : c[2] = f /\ key[c[1]] = k}) = 1

\* README.md:52: a removal closes the connections of the shards and then removes
\* the directory.  The code does both, but lets a request open the shard in between:
\* the map keeps a shard without a directory, whose next rows go with its close.
ClosedBeforeRemoval == ~itemDir => registered = 0

\* Every PUT that was queued is answered.
PutAnswered == \A r \in Requests : pc[r] = "waiting" ~> pc[r] = "done"

\* A shard that is being closed is closed: the shutdown finds room in the
\* queue, and its answer comes even when the writer is busy or has gone.
CloseEnds == \A x \in Closers : closer[x] = "sending" ~> closing[x] = 0

\* A writer that the map no longer knows ends, even when the task closing it
\* went away before it could queue the shutdown.
DetachedEnds ==
    \A w \in Writers : (task[w] \in Live /\ registered # w) ~> task[w] = "gone"

\* The rows of the file at the shard's path: none while there is no file.
CurrentRows == IF linked = 0 THEN [k \in Keys |-> None] ELSE rows[linked]

Table == INSTANCE TileTable WITH table <- CurrentRows, applied <- committed

\* As long as the item is not removed, a shard with all its tasks behaves like
\* one table that is read and written atomically.
ImplementsTable == Table!Spec
==============================================================================
