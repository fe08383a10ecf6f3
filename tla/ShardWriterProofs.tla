-------------------------- MODULE ShardWriterProofs --------------------------
(***************************************************************************)
(* Proofs about ShardWriter for any number of requests, writers and tasks  *)
(* that close shards, and for any queue and batch size.  The argument: a   *)
(* shutdown is addressed to a writer that has left the map and never comes *)
(* back, so the writer in the map has none in its queue or its batch.  A   *)
(* command is in one place until it is answered, so a verdict is the       *)
(* outcome of its only batch.  In a batch the first command that names a   *)
(* tile without a row reports it, and the last one gives the row.  While   *)
(* the item is not removed, all writers work on one file, and each step of *)
(* the shard is a step of TileTable or cannot be seen.  Commands are only  *)
(* with writers that run, which drop none of them without an answer.       *)
(***************************************************************************)
EXTENDS ShardWriter, FiniteSetTheorems, TLAPS

\* What the types of the variables are, as far as the argument needs them.
Types ==
    /\ pc \in [Requests -> {"new", "lookup", "missed", "holding", "waiting", "done"}]
    /\ holds \in [Requests -> 0..opened]
    /\ opened \in 0..MaxOpens /\ registered \in 0..opened
    /\ task \in [Writers -> Live \cup {"unborn", "closing", "gone"}]
    /\ queue \in [Writers -> Seq(Commands)]
    /\ stop \in [Writers -> Closers \cup {None}]
    /\ closer \in [Closers -> {"ready", "sending", "awaiting", "removing", "done"}]
    /\ closing \in [Closers -> 0..opened]

\* A writer that has not been opened has nothing to do.
Unopened ==
    \A w \in Writers : w > opened => task[w] = "unborn" /\ queue[w] = <<>> /\ stop[w] = None

\* The writer in the map has been sent no shutdown.
NoShutdownSent ==
    registered # 0 => /\ stop[registered] = None
                      /\ \A n \in DOMAIN queue[registered] : queue[registered][n] \in Requests

\* A task that closes a shard closes one that has left the map.
ClosingIsDetached ==
    \A x \in Closers :
        /\ closing[x] # 0 => closing[x] # registered
        /\ closer[x] \in {"sending", "awaiting"} => closing[x] # 0

\* A request in the middle of its work holds a writer.
HoldsOne == \A r \in Requests : pc[r] \in {"holding", "waiting"} => holds[r] # 0

IInv ==
    /\ Types
    /\ HoldsOne
    /\ Unopened
    /\ NoShutdownSent
    /\ ClosingIsDetached
    /\ RegisteredRuns

\* The initial state satisfies the invariant.
LEMMA InitIInv == Init => IInv
<1>. SUFFICES ASSUME Init PROVE IInv
  OBVIOUS
<1>. USE ConstantsAssumption DEF Init
<1>1. Types
  BY DEF Types, Writers, Live, Commands
<1>. QED
  BY <1>1 DEF IInv, HoldsOne, Unopened, NoShutdownSent, ClosingIsDetached, RegisteredRuns

\* Opening fills an empty slot with a new writer; the other steps of a request
\* at most add its own command to a queue.
LEMMA RequestKeeps ==
    ASSUME IInv, NEW r \in Requests, Proceed(r) \/ ClientStep(r)
    PROVE  IInv'
<1>. USE ConstantsAssumption DEF IInv
<1>1. CASE Open(r) /\ RequestFrame
  <2>. USE <1>1
  <2>1. /\ registered = 0 /\ opened' = opened + 1 /\ registered' = opened + 1
        /\ opened + 1 \in 1..MaxOpens /\ opened + 1 \in Writers
        /\ task' = [task EXCEPT ![opened + 1] = "recv"]
        /\ holds' = [holds EXCEPT ![r] = opened + 1]
        /\ pc' = [pc EXCEPT ![r] = "holding"]
        /\ UNCHANGED <<queue, stop, closer, closing>>
    BY DEF Open, Hold, SlotFree, RequestFrame, batchVars, closerVars, Types, Writers
  <2>2. Types' /\ HoldsOne'
    BY <2>1 DEF Types, HoldsOne, Live
  <2>3. Unopened'
    <3>1. \A w \in Writers : w > opened + 1 => w # opened + 1 /\ w > opened
      BY <2>1 DEF Writers, Types
    <3>. QED
      BY <3>1, <2>1 DEF Types, Unopened
  <2>4. NoShutdownSent'
    BY <2>1 DEF Types, Unopened, NoShutdownSent
  <2>5. ClosingIsDetached'
    BY <2>1 DEF Types, ClosingIsDetached
  <2>6. RegisteredRuns'
    BY <2>1 DEF Types, RegisteredRuns, Live
  <2>. QED
    BY <2>2, <2>3, <2>4, <2>5, <2>6
<1>2. CASE Send(r) /\ RequestFrame
  <2>. USE <1>2
  <2>1. /\ holds[r] \in Writers /\ holds[r] <= opened
        /\ queue' = [queue EXCEPT ![holds[r]] = Append(queue[holds[r]], r)]
        /\ pc' = [pc EXCEPT ![r] = "waiting"]
        /\ UNCHANGED <<holds, opened, registered, task, stop, closer, closing>>
    BY DEF Send, RequestFrame, slotVars, batchVars, closerVars, Types, HoldsOne, Writers
  <2>2. queue[holds[r]] \in Seq(Commands) /\ r \in Commands
    BY <2>1 DEF Types, Commands
  <2>3. Types'
    BY <2>1, <2>2 DEF Types
  <2>4. HoldsOne' /\ ClosingIsDetached' /\ RegisteredRuns'
    BY <1>2, <2>1 DEF Types, HoldsOne, ClosingIsDetached, RegisteredRuns, Send
  <2>5. Unopened'
    <3>1. \A w \in Writers : w > opened => w # holds[r]
      BY <2>1 DEF Writers, Types
    <3>. QED
      BY <3>1, <2>1 DEF Types, Unopened
  <2>6. NoShutdownSent'
    BY <2>1, <2>2 DEF Types, NoShutdownSent, Writers
  <2>. QED
    BY <2>3, <2>4, <2>5, <2>6
<1>3. ASSUME Lookup(r) \/ SecondCheck(r), RequestFrame PROVE IInv'
  <2>1. /\ \/ /\ registered # 0
              /\ pc' = [pc EXCEPT ![r] = "holding"] /\ holds' = [holds EXCEPT ![r] = registered]
           \/ pc' = [pc EXCEPT ![r] = "missed"] /\ holds' = holds
        /\ UNCHANGED <<opened, registered, task, queue, stop, closer, closing>>
    BY <1>3 DEF Lookup, SecondCheck, Hold, RequestFrame, slotVars, batchVars, closerVars
  <2>2. Types'
    BY <2>1 DEF Types
  <2>3. HoldsOne'
    BY <2>1 DEF Types, HoldsOne
  <2>. QED
    BY <2>1, <2>2, <2>3 DEF Unopened, NoShutdownSent, ClosingIsDetached, RegisteredRuns
<1>4. ASSUME NEW o, Leave(r, o), RequestFrame PROVE IInv'
  BY <1>4 DEF Leave, RequestFrame, slotVars, batchVars, closerVars, Types, HoldsOne,
              Unopened, NoShutdownSent, ClosingIsDetached, RegisteredRuns
<1>5. ASSUME NEW k, NEW kind, Begin(r, kind, k), RequestFrame PROVE IInv'
  BY <1>5 DEF Begin, RequestFrame, slotVars, batchVars, closerVars, Types, HoldsOne,
              Unopened, NoShutdownSent, ClosingIsDetached, RegisteredRuns
<1>. QED
  BY <1>1, <1>2, <1>3, <1>5, <1>4
  DEF Proceed, ClientStep, FileMissing, OpenFails, Refuse, Finish, Query, Cancel, Return

\* A writer takes its own commands and answers them; only its own shutdown ends
\* it, and the writer in the map has none.
LEMMA TaskKeeps ==
    ASSUME IInv, NEW w \in Writers, TaskStep(w)
    PROVE  IInv'
<1>. USE ConstantsAssumption DEF IInv
<1>1. /\ UNCHANGED <<pc, holds, opened, registered, closer, closing>>
  BY DEF TaskStep, TaskFrame, requestVars, slotVars, closerVars
<1>2. task[w] # "unborn" => w <= opened
  BY DEF Unopened, Types, Writers
<1>3. \A t : task' = [task EXCEPT ![w] = t] /\ t \in Live \cup {"closing", "gone"} =>
        task' \in [Writers -> Live \cup {"unborn", "closing", "gone"}]
  BY DEF Types
<1>4. registered # 0 => registered \in Writers /\ task[registered] \in Live
  BY DEF RegisteredRuns, Types, Writers
<1>5. HoldsOne' /\ ClosingIsDetached'
  BY <1>1 DEF HoldsOne, ClosingIsDetached
<1>6. ASSUME Recv(w) \/ Collect(w) PROVE IInv'
  <2>1. /\ queue[w] # <<>> /\ queue[w] \in Seq(Commands) /\ task[w] \in {"recv", "collect"}
        /\ queue' = [queue EXCEPT ![w] = Tail(queue[w])]
        /\ Head(queue[w]) \in Commands /\ Tail(queue[w]) \in Seq(Commands)
    BY <1>6 DEF Recv, Collect, QueuePopped, Types
  <2>2. w <= opened
    BY <1>2, <2>1
  <2>3. /\ DOMAIN Tail(queue[w]) \subseteq DOMAIN queue[w]
        /\ \A n \in DOMAIN Tail(queue[w]) : n + 1 \in DOMAIN queue[w] /\ Tail(queue[w])[n] = queue[w][n + 1]
        /\ 1 \in DOMAIN queue[w] /\ Head(queue[w]) = queue[w][1]
    BY <2>1
  <2>4. CASE Head(queue[w]) \in Requests
    <3>1. stop' = stop /\ (task' = task \/ task' = [task EXCEPT ![w] = "collect"])
      BY <1>6, <2>4 DEF Recv, Collect
    <3>2. Types'
      BY <1>1, <1>3, <2>1, <3>1 DEF Types, Live
    <3>3. NoShutdownSent'
      BY <1>1, <2>1, <2>3, <3>1 DEF NoShutdownSent, Types
    <3>4. Unopened'
      BY <1>1, <2>1, <2>2, <3>1 DEF Unopened, Types, Writers
    <3>5. RegisteredRuns'
      BY <1>1, <1>4, <3>1 DEF RegisteredRuns, Live, Types
    <3>. QED
      BY <1>5, <3>2, <3>3, <3>4, <3>5
  <2>5. CASE Head(queue[w]) \notin Requests
    <3>1. w # registered
      BY <2>3, <2>5, <2>1 DEF NoShutdownSent, Writers
    <3>2. /\ Head(queue[w]) \in Closers
          /\ \/ stop' = stop /\ task' = [task EXCEPT ![w] = "closing"]
             \/ stop' = [stop EXCEPT ![w] = Head(queue[w])] /\ task' = [task EXCEPT ![w] = "write"]
      BY <1>6, <2>1, <2>5 DEF Recv, Collect, Commands
    <3>3. Types'
      <4>1. queue' \in [Writers -> Seq(Commands)]
        BY <2>1 DEF Types
      <4>2. stop' \in [Writers -> Closers \cup {None}]
        BY <3>2 DEF Types
      <4>3. task' \in [Writers -> Live \cup {"unborn", "closing", "gone"}]
        BY <1>3, <3>2 DEF Live
      <4>. QED
        BY <1>1, <4>1, <4>2, <4>3 DEF Types
    <3>4. NoShutdownSent'
      BY <1>1, <1>4, <2>1, <3>1, <3>2 DEF NoShutdownSent, Types
    <3>5. RegisteredRuns'
      BY <1>1, <1>4, <3>1, <3>2 DEF RegisteredRuns, Types
    <3>6. Unopened'
      BY <1>1, <2>1, <2>2, <3>2 DEF Unopened, Types, Writers
    <3>. QED
      BY <1>5, <3>3, <3>4, <3>5, <3>6
  <2>. QED
    BY <2>4, <2>5
<1>7. ASSUME NoSenders(w) \/ Exit(w) PROVE IInv'
  <2>1. task[w] # "unborn" /\ w # registered
    BY <1>7, <1>4 DEF NoSenders, Exit, RegisteredRuns, Live, Writers
  <2>2. /\ stop' = stop
        /\ queue' = queue \/ queue' = [queue EXCEPT ![w] = <<>>]
        /\ task' = [task EXCEPT ![w] = "closing"] \/ task' = [task EXCEPT ![w] = "gone"]
    BY <1>7 DEF NoSenders, Exit, batchVars
  <2>3. queue' \in [Writers -> Seq(Commands)]
    <3>1. <<>> \in Seq(Commands)
      OBVIOUS
    <3>. QED
      BY <2>2, <3>1 DEF Types
  <2>4. task' \in [Writers -> Live \cup {"unborn", "closing", "gone"}]
    BY <1>3, <2>2
  <2>5. Types'
    BY <1>1, <2>2, <2>3, <2>4 DEF Types
  <2>6. NoShutdownSent'
    BY <1>1, <1>4, <2>1, <2>2 DEF NoShutdownSent, Types
  <2>7. RegisteredRuns'
    BY <1>1, <1>4, <2>1, <2>2 DEF RegisteredRuns, Types
  <2>8. Unopened'
    BY <1>1, <1>2, <2>1, <2>2 DEF Unopened, Types, Writers
  <2>. QED
    BY <1>5, <2>5, <2>6, <2>7, <2>8
<1>8. ASSUME Seal(w) \/ Retry(w) \/ Commit(w) \/ Abort(w) \/ Answer(w) PROVE IInv'
  <2>1. /\ task[w] \in Live /\ stop' = stop /\ queue' = queue
        /\ \/ task' = task
           \/ task' = [task EXCEPT ![w] = "write"] \/ task' = [task EXCEPT ![w] = "answer"]
           \/ task' = [task EXCEPT ![w] = "recv"]
           \/ task' = [task EXCEPT ![w] = "closing"] /\ stop[w] # None
    BY <1>8 DEF Seal, Retry, Commit, Abort, Answer, StopAsked, batchVars, Live
  <2>2. Types'
    BY <1>1, <1>3, <2>1 DEF Types, Live
  <2>3. NoShutdownSent'
    BY <1>1, <2>1 DEF NoShutdownSent
  <2>4. RegisteredRuns'
    BY <1>1, <1>4, <2>1 DEF RegisteredRuns, NoShutdownSent, Types, Live
  <2>5. Unopened'
    BY <1>1, <1>2, <2>1 DEF Unopened, Types, Writers, Live
  <2>. QED
    BY <1>5, <2>2, <2>3, <2>4, <2>5
<1>. QED
  BY <1>6, <1>7, <1>8 DEF TaskStep

\* A task that closes a shard empties the slot before it sends the shutdown.
LEMMA CloserKeeps ==
    ASSUME IInv, NEW x \in Closers, CloseStep(x) \/ StartOrLeave(x)
    PROVE  IInv'
<1>. USE ConstantsAssumption DEF IInv
<1>1. UNCHANGED <<pc, holds, task, stop>>
  BY DEF CloseStep, StartOrLeave, CloserFrame, requestVars, batchVars
<1>2. ASSUME DetachIdle(x) \/ DetachForDrop(x) PROVE IInv'
  <2>1. /\ registered' = 0 /\ UNCHANGED <<opened, queue>>
        /\ closing' = [closing EXCEPT ![x] = registered]
        /\ \/ closer' = [closer EXCEPT ![x] = "sending"] /\ registered # 0
           \/ closer' = [closer EXCEPT ![x] = "removing"]
    BY <1>2 DEF DetachIdle, DetachForDrop, Detach, SlotCleared
  <2>2. Types' /\ ClosingIsDetached'
    BY <1>1, <2>1 DEF Types, ClosingIsDetached
  <2>. QED
    BY <1>1, <2>1, <2>2 DEF HoldsOne, Unopened, NoShutdownSent, RegisteredRuns
<1>3. CASE SendShutdown(x)
  <2>1. /\ UNCHANGED <<opened, registered, closing>>
        /\ closer[x] = "sending" /\ closer' = [closer EXCEPT ![x] = "awaiting"]
        /\ closing[x] \in Writers /\ closing[x] # registered /\ closing[x] <= opened
        /\ queue' = queue \/ queue' = [queue EXCEPT ![closing[x]] = Append(queue[closing[x]], x)]
    BY <1>3 DEF SendShutdown, slotVars, Types, ClosingIsDetached, Writers
  <2>2. queue[closing[x]] \in Seq(Commands) /\ Append(queue[closing[x]], x) \in Seq(Commands)
    BY <2>1 DEF Types, Commands
  <2>3. queue' \in [Writers -> Seq(Commands)]
    BY <2>1, <2>2 DEF Types
  <2>4. Types'
    BY <1>1, <2>1, <2>3 DEF Types
  <2>5. ClosingIsDetached'
    BY <2>1 DEF Types, ClosingIsDetached
  <2>6. NoShutdownSent'
    <3>1. registered # 0 => registered \in Writers
      BY DEF Types, Writers
    <3>2. registered # 0 => queue'[registered] = queue[registered]
      BY <2>1, <3>1 DEF Types
    <3>. QED
      BY <1>1, <2>1, <3>2 DEF NoShutdownSent
  <2>7. Unopened'
    <3>1. \A w \in Writers : w > opened => w # closing[x]
      BY <2>1 DEF Writers, Types
    <3>. QED
      BY <1>1, <2>1, <3>1 DEF Types, Unopened
  <2>. QED
    BY <1>1, <2>1, <2>4, <2>5, <2>6, <2>7 DEF HoldsOne, RegisteredRuns
<1>4. ASSUME ClosePool(x) \/ RemoveDir(x) \/ Abandon(x) PROVE IInv'
  <2>1. /\ UNCHANGED <<opened, registered, queue>>
        /\ closing' = [closing EXCEPT ![x] = 0] \/ closing' = closing
        /\ \E s \in {"removing", "ready", "done"} : closer' = [closer EXCEPT ![x] = s]
    BY <1>4 DEF ClosePool, RemoveDir, Abandon, slotVars
  <2>2. Types'
    BY <1>1, <2>1 DEF Types
  <2>3. ClosingIsDetached'
    BY <2>1 DEF Types, ClosingIsDetached
  <2>. QED
    BY <1>1, <2>1, <2>2, <2>3 DEF HoldsOne, Unopened, NoShutdownSent, RegisteredRuns
<1>. QED
  BY <1>2, <1>3, <1>4 DEF CloseStep, StartOrLeave

\* The invariant holds throughout.
LEMMA Invariance == Spec => []IInv
<1>1. IInv /\ [Next]_vars => IInv'
  <2>. SUFFICES ASSUME IInv, [Next]_vars PROVE IInv'
    OBVIOUS
  <2>1. CASE UNCHANGED vars
    BY <2>1 DEF vars, requestVars, slotVars, batchVars, closerVars, IInv, Types, HoldsOne,
                Unopened, NoShutdownSent, ClosingIsDetached, RegisteredRuns
  <2>. QED
    BY <2>1, RequestKeeps, TaskKeeps, CloserKeeps DEF Next
<1>. QED
  BY <1>1, InitIInv, PTL DEF Spec

\* The shard that the map hands out always has a running writer.
THEOREM RegisteredAlwaysRuns == Spec => []RegisteredRuns
<1>1. IInv => RegisteredRuns
  BY DEF IInv
<1>. QED
  BY <1>1, Invariance, PTL
-----------------------------------------------------------------------------
\* Under the write lock a slot found empty means that nobody holds a writer,
\* and an idle close finds that nobody holds the one it takes.
LEMMA HeldKeeps ==
    ASSUME IInv, HeldIsRegistered, Next
    PROVE  HeldIsRegistered'
<1>. USE ConstantsAssumption DEF IInv
<1>. SUFFICES ASSUME Droppers = {}
              PROVE  \A r \in Requests : holds'[r] # 0 => holds'[r] = registered'
  BY DEF HeldIsRegistered
<1>1. \A r \in Requests : holds[r] # 0 => holds[r] = registered
  BY DEF HeldIsRegistered
<1>2. ASSUME NEW r \in Requests, Proceed(r) \/ ClientStep(r)
      PROVE  \A q \in Requests : holds'[q] # 0 => holds'[q] = registered'
  <2>1. CASE UNCHANGED registered
    <3>1. \/ holds' = holds \/ holds' = [holds EXCEPT ![r] = 0]
          \/ holds' = [holds EXCEPT ![r] = registered]
          \/ Open(r)
      BY <1>2 DEF Proceed, ClientStep, Lookup, SecondCheck, Hold, FileMissing, OpenFails, Send,
                  Refuse, Finish, Query, Cancel, Return, Leave, Begin
    <3>2. ~Open(r)
      BY <2>1 DEF Open, SlotFree, Types
    <3>. QED
      BY <1>1, <2>1, <3>1, <3>2 DEF Types
  <2>2. CASE registered' # registered
    <3>1. Open(r)
      BY <1>2, <2>2 DEF Proceed, ClientStep, Lookup, SecondCheck, FileMissing, OpenFails, Send,
                        Refuse, Finish, Query, Cancel, Return, Leave, Begin, slotVars
    <3>2. registered = 0 /\ registered' = opened + 1 /\ holds' = [holds EXCEPT ![r] = opened + 1]
      BY <3>1 DEF Open, SlotFree, Hold
    <3>. QED
      BY <1>1, <3>2 DEF Types
  <2>. QED
    BY <2>1, <2>2
<1>3. ASSUME NEW w \in Writers, TaskStep(w)
      PROVE  \A q \in Requests : holds'[q] # 0 => holds'[q] = registered'
  BY <1>1, <1>3 DEF TaskStep, TaskFrame, requestVars, slotVars
<1>4. ASSUME NEW x \in Closers, CloseStep(x) \/ StartOrLeave(x)
      PROVE  \A q \in Requests : holds'[q] # 0 => holds'[q] = registered'
  <2>1. holds' = holds
    BY <1>4 DEF CloseStep, StartOrLeave, CloserFrame, requestVars
  <2>2. \/ registered' = registered
        \/ \A q \in Requests : holds[q] # registered
    BY <1>4 DEF CloseStep, StartOrLeave, SendShutdown, ClosePool, RemoveDir, DetachIdle,
                DetachForDrop, Abandon, Detach, Held, slotVars
  <2>. QED
    BY <1>1, <2>1, <2>2
<1>. QED
  BY <1>2, <1>3, <1>4 DEF Next

\* Without a removal every request in progress uses the shard of the map:
\* concurrent first requests share one writer, and an idle close takes no
\* shard from a request.
THEOREM HeldAlwaysRegistered == Spec => []HeldIsRegistered
<1>1. Init => HeldIsRegistered
  BY DEF Init, HeldIsRegistered
<1>2. IInv /\ HeldIsRegistered /\ [Next]_vars => HeldIsRegistered'
  <2>. SUFFICES ASSUME IInv, HeldIsRegistered, [Next]_vars PROVE HeldIsRegistered'
    OBVIOUS
  <2>1. CASE UNCHANGED vars
    BY <2>1 DEF vars, requestVars, slotVars, HeldIsRegistered
  <2>. QED
    BY <2>1, HeldKeeps
<1>. QED
  BY <1>1, <1>2, Invariance, PTL DEF Spec
-----------------------------------------------------------------------------
(* The tables.                                                             *)

\* A writer works on a file that exists, and has seen no table before it starts.
TableInv ==
    /\ files \in 0..MaxFiles /\ linked \in 0..files
    /\ file \in [Writers -> 0..files]
    /\ tableKnown \in [Writers -> BOOLEAN]
    /\ hasTable \in [Files -> BOOLEAN]
    /\ \A w \in Writers : IF w <= opened THEN file[w] # 0 ELSE ~tableKnown[w]
    /\ KnownTableExists

\* A request opens a writer on the file at the path, or on a new one.
LEMMA RequestTables ==
    ASSUME IInv, TableInv, NEW r \in Requests, Proceed(r) \/ ClientStep(r)
    PROVE  TableInv'
<1>. USE ConstantsAssumption
<1>1. UNCHANGED <<tableKnown, hasTable>>
  BY DEF Proceed, ClientStep, RequestFrame, batchVars, dataVars
<1>2. CASE Open(r)
  <2>1. /\ opened' = opened + 1 /\ opened + 1 \in Writers
        /\ file' = [file EXCEPT ![opened + 1] = linked']
        /\ linked' \in 1..files' /\ files' \in files..MaxFiles
    BY <1>2 DEF Open, CreateFile, IInv, Types, TableInv, Writers
  <2>2. file' \in [Writers -> 0..files']
    BY <2>1 DEF TableInv
  <2>3. ASSUME NEW w \in Writers
        PROVE /\ IF w <= opened' THEN file'[w] # 0 ELSE ~tableKnown'[w]
              /\ tableKnown'[w] => hasTable'[file'[w]]
    <3>1. CASE w = opened + 1
      BY <1>1, <2>1, <3>1 DEF TableInv, IInv, Types
    <3>2. CASE w # opened + 1
      <4>1. file'[w] = file[w] /\ (w <= opened' <=> w <= opened)
        BY <2>1, <3>2 DEF TableInv, IInv, Types, Writers
      <4>. QED
        BY <1>1, <4>1 DEF TableInv, KnownTableExists
    <3>. QED
      BY <3>1, <3>2
  <2>. QED
    BY <1>1, <2>1, <2>2, <2>3 DEF TableInv, KnownTableExists
<1>3. CASE ~Open(r)
  <2>1. UNCHANGED <<opened, file>>
    BY <1>3 DEF Proceed, ClientStep, Lookup, SecondCheck, FileMissing, OpenFails, Send, Refuse, Finish,
                Query, Cancel, Begin, Return, Leave, slotVars
  <2>2. files' \in files..MaxFiles /\ linked' \in 0..files'
    <3>1. CASE OpenFails(r)
      BY <3>1 DEF OpenFails, CreateFile, TableInv
    <3>2. CASE ~OpenFails(r)
      BY <1>3, <3>2 DEF Proceed, ClientStep, Lookup, SecondCheck, FileMissing, Send, Refuse, Finish,
                Query, Cancel, Begin, Return, pathVars, TableInv
    <3>. QED
      BY <3>1, <3>2
  <2>3. file \in [Writers -> 0..files']
    BY <2>2 DEF TableInv
  <2>. QED
    BY <1>1, <2>1, <2>2, <2>3 DEF TableInv, KnownTableExists
<1>. QED
  BY <1>2, <1>3

\* Every step keeps it: tables are only ever added, and remembered with the batch
\* that committed them.
LEMMA NextTables == IInv /\ TableInv /\ [Next]_vars => TableInv'
<1>. SUFFICES ASSUME IInv, TableInv, [Next]_vars PROVE TableInv'
  OBVIOUS
<1>1. CASE UNCHANGED vars
  BY <1>1 DEF vars, slotVars, pathVars, batchVars, dataVars, TableInv, KnownTableExists
<1>2. ASSUME NEW w \in Writers, TaskStep(w) PROVE TableInv'
  <2>1. UNCHANGED <<files, linked, file, opened>>
    BY <1>2 DEF TaskStep, TaskFrame, slotVars, pathVars
  <2>2. CASE Commit(w)
    <3>1. /\ task[w] = "write"
          /\ tableKnown' = [tableKnown EXCEPT ![w] = TRUE]
          /\ hasTable' = [hasTable EXCEPT ![file[w]] = TRUE]
      BY <2>2 DEF Commit
    <3>2. w <= opened
      BY <3>1, ConstantsAssumption DEF IInv, Unopened, Types, Writers
    <3>3. file[w] \in Files
      BY <3>2, ConstantsAssumption DEF TableInv, Files
    <3>. QED
      BY <2>1, <3>1, <3>2, <3>3 DEF TableInv, KnownTableExists
  <2>3. CASE ~Commit(w)
    <3>1. UNCHANGED <<tableKnown, hasTable>>
      BY <1>2, <2>3 DEF TaskStep, Recv, NoSenders, Collect, Seal, Retry, Abort, Answer, Exit,
                        batchVars, dataVars
    <3>. QED
      BY <2>1, <3>1 DEF TableInv, KnownTableExists
  <2>. QED
    BY <2>2, <2>3
<1>3. ASSUME NEW x \in Closers, CloseStep(x) \/ StartOrLeave(x) PROVE TableInv'
  <2>1. UNCHANGED <<files, file, opened, tableKnown, hasTable>> /\ linked' \in {0, linked}
    BY <1>3 DEF CloseStep, StartOrLeave, SendShutdown, ClosePool, RemoveDir, DetachIdle, DetachForDrop,
                Abandon, Detach, CloserFrame, slotVars, pathVars, batchVars, dataVars
  <2>. QED
    BY <2>1 DEF TableInv, KnownTableExists
<1>. QED
  BY <1>1, <1>2, <1>3, RequestTables DEF Next

\* store.rs:778-826: whatever batch failed in between, a writer that skips
\* CREATE TABLE finds the table in its file.
THEOREM KnownTablesExist == Spec => []KnownTableExists
<1>1. Init => TableInv
  BY ConstantsAssumption DEF Init, TableInv, KnownTableExists, Writers, Files
<1>2. TableInv => KnownTableExists
  BY DEF TableInv
<1>. QED
  BY <1>1, <1>2, Invariance, NextTables, PTL DEF Spec
-----------------------------------------------------------------------------
(* The verdicts.                                                           *)

Queued(r) == \E w \in Writers : \E n \in DOMAIN queue[w] : queue[w][n] = r
Batched(r, w) == \E n \in DOMAIN batch[w] : batch[w][n] = r
Nowhere(r) == ~Queued(r) /\ \A w \in Writers : ~Batched(r, w)

VerdictTypes ==
    /\ reply \in [Requests -> {None, "ok", "failed", "stopped"}]
    /\ op \in [Requests -> {None, "put", "get"}] /\ DOMAIN outcome = Requests
    /\ batch \in [Writers -> Seq(Requests)]
    /\ written \in [Writers -> BOOLEAN]
    /\ committed \subseteq Requests

\* A command is in one place.
InOnePlace ==
    /\ \A w, v \in Writers : \A n \in DOMAIN queue[w], m \in DOMAIN queue[v] :
         queue[w][n] \in Requests /\ queue[w][n] = queue[v][m] => w = v /\ n = m
    /\ \A r \in Requests : Queued(r) =>
         /\ reply[r] = None /\ r \notin committed
         /\ \A w \in Writers : ~Batched(r, w)
    /\ \A r \in Requests, w, v \in Writers : Batched(r, w) /\ Batched(r, v) => w = v

\* A batch waits for its transaction and then for its answers.
BatchUnanswered ==
    \A w \in Writers, r \in Requests : Batched(r, w) =>
        /\ reply[r] = None /\ task[w] \in {"collect", "write", "answer"}
        /\ r \in committed <=> task[w] = "answer" /\ written[w]

\* What a request knows of its command.
RequestKnows ==
    \A r \in Requests :
        /\ pc[r] \in {"new", "lookup", "missed", "holding"} =>
             Nowhere(r) /\ reply[r] = None /\ r \notin committed
        /\ pc[r] # "done" => outcome[r] = None
        /\ reply[r] = "ok" => r \in committed
        /\ reply[r] \in {"failed", "stopped"} => r \notin committed
        /\ op[r] = "put" =>
             /\ outcome[r] = "ok" => r \in committed
             /\ outcome[r] \in {"failed", "stopped", "overloaded"} =>
                  Nowhere(r) /\ r \notin committed

VInv == VerdictTypes /\ InOnePlace /\ BatchUnanswered /\ RequestKnows

\* It holds at the start.
LEMMA InitVerdicts == Init => VInv
<1>. SUFFICES ASSUME Init PROVE VInv
  OBVIOUS
<1>1. \A r \in Requests : Nowhere(r)
  BY DEF Init, Nowhere, Queued, Batched
<1>2. VerdictTypes
  BY DEF Init, VerdictTypes
<1>3. InOnePlace /\ BatchUnanswered
  BY <1>1 DEF Init, InOnePlace, BatchUnanswered, Nowhere
<1>4. RequestKnows
  BY <1>1, NoneAssumption DEF Init, RequestKnows
<1>. QED
  BY <1>2, <1>3, <1>4 DEF VInv

Early == {"new", "lookup", "missed", "holding"}

\* A request moves on before it has sent anything.
LEMMA MoveVerdicts ==
    ASSUME IInv, VInv, NEW r \in Requests, RequestFrame, queue' = queue, outcome' = outcome,
           \A w \in Writers : task'[w] = task[w] \/ task[w] = "unborn",
           pc[r] \in Early, NEW place \in Early, pc' = [pc EXCEPT ![r] = place],
           NEW kind \in {None, "put", "get"}, op' = [op EXCEPT ![r] = kind]
    PROVE  VInv'
<1>1. UNCHANGED <<reply, batch, written, committed, queue, outcome>>
  BY DEF RequestFrame, batchVars, dataVars
<1>2. \A q \in Requests : Nowhere(q)' <=> Nowhere(q)
  BY <1>1 DEF Nowhere, Queued, Batched
<1>3. VerdictTypes' /\ InOnePlace'
  <2>1. VerdictTypes'
    BY <1>1 DEF VInv, VerdictTypes
  <2>. QED
    BY <1>1, <2>1 DEF VInv, InOnePlace, Queued, Batched
<1>4. BatchUnanswered'
  BY <1>1 DEF VInv, BatchUnanswered, Batched
<1>5. \A q \in Requests \ {r} : pc'[q] = pc[q] /\ op'[q] = op[q]
  BY DEF IInv, Types, VInv, VerdictTypes
<1>6. pc'[r] = place /\ outcome[r] = None
  BY DEF IInv, Types, VInv, RequestKnows, Early
<1>7. RequestKnows'
  BY <1>1, <1>2, <1>5, <1>6, NoneAssumption DEF VInv, RequestKnows, Early
<1>. QED
  BY <1>3, <1>4, <1>7 DEF VInv

\* A request leaves, with a verdict if it has one.
LEMMA LeaveVerdicts ==
    ASSUME IInv, VInv, NEW r \in Requests, RequestFrame, NEW o, Leave(r, o),
           op[r] = "put" =>
             /\ o = "ok" => r \in committed
             /\ o \in {"failed", "stopped", "overloaded"} => Nowhere(r) /\ r \notin committed
    PROVE  VInv'
<1>1. /\ UNCHANGED <<reply, batch, written, committed, queue, task, op>>
      /\ pc' = [pc EXCEPT ![r] = "done"] /\ outcome' = [outcome EXCEPT ![r] = o]
  BY DEF Leave, RequestFrame, batchVars, dataVars
<1>2. \A q \in Requests : Nowhere(q)' <=> Nowhere(q)
  BY <1>1 DEF Nowhere, Queued, Batched
<1>3. VerdictTypes' /\ InOnePlace' /\ BatchUnanswered'
  BY <1>1 DEF VInv, VerdictTypes, InOnePlace, BatchUnanswered, Queued, Batched
<1>4. \A q \in Requests \ {r} : pc'[q] = pc[q] /\ outcome'[q] = outcome[q]
  BY <1>1 DEF IInv, Types, VInv, VerdictTypes
<1>5. pc'[r] = "done" /\ outcome'[r] = o
  BY <1>1 DEF IInv, Types, VInv, VerdictTypes
<1>6. RequestKnows'
  BY <1>1, <1>2, <1>4, <1>5 DEF VInv, RequestKnows
<1>. QED
  BY <1>3, <1>6 DEF VInv

\* A command is sent once.
LEMMA SendVerdicts ==
    ASSUME IInv, VInv, NEW r \in Requests, RequestFrame, Send(r)
    PROVE  VInv'
<1>. USE NoneAssumption
<1>1. /\ pc[r] = "holding" /\ pc' = [pc EXCEPT ![r] = "waiting"]
      /\ queue' = [queue EXCEPT ![holds[r]] = Append(queue[holds[r]], r)]
      /\ holds[r] \in Writers /\ queue[holds[r]] \in Seq(Commands)
      /\ UNCHANGED <<reply, batch, written, committed, task, op, outcome>>
  BY ConstantsAssumption
  DEF Send, RequestFrame, batchVars, dataVars, IInv, Types, HoldsOne, Writers
<1>2. Nowhere(r) /\ reply[r] = None /\ r \notin committed
  BY <1>1 DEF VInv, RequestKnows
<1>3. \A w \in Writers : \A n \in DOMAIN queue'[w] :
         \/ n \in DOMAIN queue[w] /\ queue'[w][n] = queue[w][n]
         \/ w = holds[r] /\ n = Len(queue[w]) + 1 /\ queue'[w][n] = r
  BY <1>1 DEF IInv, Types
<1>4. \A q \in Requests, w \in Writers : Batched(q, w)' <=> Batched(q, w)
  BY <1>1 DEF Batched
<1>5. \A q \in Requests : Queued(q)' => Queued(q) \/ q = r
  BY <1>3 DEF Queued
<1>6. InOnePlace'
  <2>1. ASSUME NEW w \in Writers, NEW v \in Writers, NEW n \in DOMAIN queue'[w],
               NEW m \in DOMAIN queue'[v], queue'[w][n] \in Requests, queue'[w][n] = queue'[v][m]
        PROVE w = v /\ n = m
    <3>1. CASE queue'[w][n] = r
      <4>1. \A u \in Writers : \A l \in DOMAIN queue[u] : queue[u][l] # r
        BY <1>2 DEF Nowhere, Queued
      <4>2. w = holds[r] /\ n = Len(queue[w]) + 1
        BY <1>3, <3>1, <4>1
      <4>3. queue'[v][m] = r
        BY <2>1, <3>1
      <4>4. v = holds[r] /\ m = Len(queue[v]) + 1
        BY <1>3, <4>1, <4>3
      <4>. QED
        BY <4>2, <4>4
    <3>2. CASE queue'[w][n] # r
      <4>1. /\ n \in DOMAIN queue[w] /\ queue'[w][n] = queue[w][n]
            /\ m \in DOMAIN queue[v] /\ queue'[v][m] = queue[v][m]
        BY <1>3, <2>1, <3>2
      <4>2. queue[w][n] \in Requests /\ queue[w][n] = queue[v][m]
        BY <2>1, <4>1
      <4>. QED
        BY <4>1, <4>2 DEF VInv, InOnePlace
    <3>. QED
      BY <3>1, <3>2
  <2>. QED
    BY <1>1, <1>2, <1>4, <1>5, <2>1 DEF VInv, InOnePlace, Nowhere
<1>7. VerdictTypes' /\ BatchUnanswered'
  BY <1>1, <1>4 DEF VInv, VerdictTypes, BatchUnanswered
<1>8. \A q \in Requests \ {r} : pc'[q] = pc[q] /\ (Nowhere(q) => Nowhere(q)')
  BY <1>1, <1>4, <1>5 DEF IInv, Types, Nowhere
<1>9. pc'[r] = "waiting" /\ outcome[r] = None
  BY <1>1 DEF IInv, Types, VInv, RequestKnows
<1>10. RequestKnows'
  BY <1>1, <1>2, <1>8, <1>9 DEF VInv, RequestKnows
<1>. QED
  BY <1>6, <1>7, <1>10 DEF VInv

\* Each step of a request keeps it: the verdict is the answer, or the command has
\* not been sent.
LEMMA RequestVerdicts ==
    ASSUME IInv, VInv, NEW r \in Requests, Proceed(r) \/ ClientStep(r)
    PROVE  VInv'
<1>. USE NoneAssumption
<1>1. RequestFrame
  BY DEF Proceed, ClientStep
<1>2. ASSUME pc[r] \in Early PROVE Nowhere(r) /\ r \notin committed
  BY <1>2 DEF VInv, RequestKnows, Early
<1>3. op = [op EXCEPT ![r] = op[r]] /\ op[r] \in {None, "put", "get"}
  BY DEF VInv, VerdictTypes
<1>4. ASSUME NEW k \in Keys, NEW kind \in {"put", "get"}, Begin(r, kind, k) PROVE VInv'
  BY <1>1, <1>4, MoveVerdicts DEF Begin, Early
<1>5. CASE Lookup(r) \/ SecondCheck(r)
  <2>1. /\ pc[r] \in Early /\ UNCHANGED <<op, outcome, queue, task>>
        /\ \E place \in Early : pc' = [pc EXCEPT ![r] = place]
    BY <1>5 DEF Lookup, SecondCheck, Hold, Early
  <2>. QED
    BY <1>1, <1>3, <2>1, MoveVerdicts
<1>6. CASE Open(r)
  <2>1. /\ pc[r] = "missed" /\ pc' = [pc EXCEPT ![r] = "holding"]
        /\ UNCHANGED <<op, outcome, queue>>
        /\ task' = [task EXCEPT ![opened + 1] = "recv"]
    BY <1>6 DEF Open, Hold
  <2>2. \A w \in Writers : task'[w] = task[w] \/ task[w] = "unborn"
    BY <2>1 DEF IInv, Types, Unopened
  <2>. QED
    BY <1>1, <1>3, <2>1, <2>2, MoveVerdicts DEF Early
<1>7. CASE FileMissing(r) \/ OpenFails(r) \/ Refuse(r)
  <2>1. pc[r] \in Early /\ \E o \in {"absent", "failed", "cancelled", "overloaded"} : Leave(r, o)
    BY <1>7 DEF FileMissing, OpenFails, Refuse, Return, Early
  <2>. QED
    BY <1>1, <1>2, <2>1, LeaveVerdicts
<1>8. CASE Finish(r)
  <2>1. reply[r] # None /\ Leave(r, reply[r])
    BY <1>8 DEF Finish, Return
  <2>2. Nowhere(r)
    BY <2>1 DEF VInv, InOnePlace, BatchUnanswered, Nowhere
  <2>3. /\ reply[r] = "ok" => r \in committed
        /\ reply[r] \in {"failed", "stopped"} => r \notin committed
        /\ reply[r] # "overloaded"
    BY <2>1 DEF VInv, VerdictTypes, RequestKnows
  <2>. QED
    BY <1>1, <2>1, <2>2, <2>3, LeaveVerdicts
<1>9. CASE Query(r)
  <2>1. op[r] = "get" /\ \E o : Leave(r, o)
    BY <1>9 DEF Query, Return
  <2>. QED
    BY <1>1, <2>1, LeaveVerdicts
<1>10. CASE Cancel(r)
  <2>1. Leave(r, "cancelled")
    BY <1>10 DEF Cancel, Return
  <2>. QED
    BY <1>1, <2>1, LeaveVerdicts
<1>. QED
  BY <1>1, <1>4, <1>5, <1>6, <1>7, <1>8, <1>9, <1>10, SendVerdicts DEF Proceed, ClientStep

\* A command taken from a queue goes into the batch of its writer.
LEMMA ReceiveVerdicts ==
    ASSUME IInv, VInv, NEW w \in Writers, TaskFrame, Recv(w) \/ Collect(w)
    PROVE  VInv'
<1>1. /\ UNCHANGED <<pc, op, outcome, reply, written, committed>>
      /\ queue[w] # <<>> /\ queue[w] \in Seq(Commands)
      /\ queue' = [queue EXCEPT ![w] = Tail(queue[w])]
      /\ task[w] = "recv" \/ task[w] = "collect"
      /\ batch[w] \in Seq(Requests)
  BY DEF TaskFrame, requestVars, Recv, Collect, QueuePopped, batchVars, dataVars, IInv, Types,
         VInv, VerdictTypes
<1>2. /\ \A n \in DOMAIN Tail(queue[w]) : n + 1 \in DOMAIN queue[w] /\ Tail(queue[w])[n] = queue[w][n + 1]
      /\ DOMAIN Tail(queue[w]) \subseteq Nat \ {0}
      /\ 1 \in DOMAIN queue[w] /\ Head(queue[w]) = queue[w][1]
  BY <1>1
<1>3. \A v \in Writers \ {w} : queue'[v] = queue[v]
  BY <1>1 DEF IInv, Types
<1>4. queue'[w] = Tail(queue[w])
  BY <1>1 DEF IInv, Types
<1>5. \A q \in Requests : Queued(q)' => Queued(q)
  <2>1. ASSUME NEW v \in Writers, NEW n \in DOMAIN queue'[v]
        PROVE \E i \in DOMAIN queue[v] : queue[v][i] = queue'[v][n]
    <3>1. CASE v = w
      BY <1>2, <1>4, <3>1
    <3>2. CASE v # w
      BY <1>3, <3>2
    <3>. QED
      BY <3>1, <3>2
  <2>. QED
    BY <2>1 DEF Queued
<1>6. ASSUME NEW v \in Writers, NEW u \in Writers, NEW n \in DOMAIN queue'[v],
             NEW m \in DOMAIN queue'[u], queue'[v][n] \in Requests, queue'[v][n] = queue'[u][m]
      PROVE v = u /\ n = m
  <2>1. PICK i \in DOMAIN queue[v] : queue'[v][n] = queue[v][i] /\ i = IF v = w THEN n + 1 ELSE n
    BY <1>2, <1>3, <1>4
  <2>2. PICK j \in DOMAIN queue[u] : queue'[u][m] = queue[u][j] /\ j = IF u = w THEN m + 1 ELSE m
    BY <1>2, <1>3, <1>4
  <2>3. v = u /\ i = j
    <3>1. queue[v][i] \in Requests /\ queue[v][i] = queue[u][j]
      BY <1>6, <2>1, <2>2
    <3>. QED
      BY <3>1 DEF VInv, InOnePlace
  <2>4. v = w => n \in Nat /\ m \in Nat
    BY <1>2, <1>4, <2>3
  <2>. QED
    BY <2>1, <2>2, <2>3, <2>4
<1>7. PICK h \in Commands : h = Head(queue[w])
  BY <1>1
<1>8. CASE h \in Requests
  <2>1. /\ task' = [task EXCEPT ![w] = "collect"] \/ (task' = task /\ task[w] = "collect")
        /\ \/ batch' = [batch EXCEPT ![w] = <<h>>] /\ task[w] = "recv"
           \/ batch' = [batch EXCEPT ![w] = Append(batch[w], h)]
    <3>1. CASE Recv(w)
      <4>1. task[w] = "recv" /\ Head(queue[w]) \in Requests
        BY <1>7, <1>8, <3>1 DEF Recv
      <4>2. task' = [task EXCEPT ![w] = "collect"] /\ batch' = [batch EXCEPT ![w] = <<Head(queue[w])>>]
        BY <3>1, <4>1 DEF Recv
      <4>. QED
        BY <1>7, <4>1, <4>2
    <3>2. CASE Collect(w)
      BY <1>7, <1>8, <3>2 DEF Collect
    <3>. QED
      BY <3>1, <3>2
  <2>2. Queued(h) /\ ~Queued(h)'
    <3>1. Queued(h)
      BY <1>2, <1>7 DEF Queued
    <3>2. ASSUME NEW v \in Writers, NEW n \in DOMAIN queue'[v], queue'[v][n] = h
          PROVE FALSE
      <4>1. PICK i \in DOMAIN queue[v] : queue'[v][n] = queue[v][i] /\ i = IF v = w THEN n + 1 ELSE n
        BY <1>2, <1>3, <1>4
      <4>2. v = w /\ i = 1
        BY <1>2, <1>7, <1>8, <3>2, <4>1 DEF VInv, InOnePlace
      <4>3. n \in Nat \ {0}
        BY <1>2, <1>4, <4>2
      <4>. QED
        BY <4>1, <4>2, <4>3
    <3>. QED
      BY <3>1, <3>2 DEF Queued
  <2>3. \A q \in Requests : Batched(q, w)' => Batched(q, w) \/ q = h
    <3>1. DOMAIN batch = Writers
      BY DEF VInv, VerdictTypes
    <3>2. CASE batch' = [batch EXCEPT ![w] = <<h>>]
      <4>1. batch'[w] = <<h>>
        BY <3>1, <3>2
      <4>. QED
        BY <4>1 DEF Batched
    <3>3. CASE batch' = [batch EXCEPT ![w] = Append(batch[w], h)]
      <4>1. batch'[w] = Append(batch[w], h)
        BY <3>1, <3>3
      <4>2. \A n \in DOMAIN batch'[w] : \/ n \in DOMAIN batch[w] /\ batch'[w][n] = batch[w][n]
                                       \/ batch'[w][n] = h
        BY <1>1, <4>1
      <4>. QED
        BY <4>2 DEF Batched
    <3>. QED
      BY <2>1, <3>2, <3>3
  <2>4. \A q \in Requests, v \in Writers \ {w} : Batched(q, v)' <=> Batched(q, v)
    <3>1. \A v \in Writers \ {w} : batch'[v] = batch[v]
      BY <2>1 DEF VInv, VerdictTypes
    <3>. QED
      BY <3>1 DEF Batched
  <2>5. VerdictTypes'
    <3>1. <<h>> \in Seq(Requests) /\ Append(batch[w], h) \in Seq(Requests)
      BY <1>1, <1>8
    <3>. QED
      BY <1>1, <2>1, <3>1 DEF VInv, VerdictTypes
  <2>6. InOnePlace'
    <3>1. ASSUME NEW q \in Requests, Queued(q)'
          PROVE  reply'[q] = None /\ q \notin committed' /\ \A v \in Writers : ~Batched(q, v)'
      <4>1. q # h /\ Queued(q)
        BY <1>5, <2>2, <3>1
      <4>. QED
        BY <1>1, <2>3, <2>4, <4>1 DEF VInv, InOnePlace
    <3>2. ASSUME NEW q \in Requests, NEW v \in Writers, NEW u \in Writers, Batched(q, v)', Batched(q, u)'
          PROVE  v = u
      <4>1. \A x \in Writers : ~Batched(h, x)
        BY <1>8, <2>2 DEF VInv, InOnePlace
      <4>2. \A x \in Writers : Batched(q, x)' => Batched(q, x) \/ (q = h /\ x = w)
        BY <2>3, <2>4
      <4>. QED
        BY <3>2, <4>1, <4>2 DEF VInv, InOnePlace
    <3>. QED
      BY <1>6, <3>1, <3>2 DEF InOnePlace
  <2>7. task'[w] = "collect" /\ \A v \in Writers \ {w} : task'[v] = task[v]
    BY <2>1 DEF IInv, Types
  <2>8. BatchUnanswered'
    <3>1. ASSUME NEW v \in Writers \ {w}, NEW q \in Requests, Batched(q, v)'
          PROVE /\ reply'[q] = None /\ task'[v] \in {"collect", "write", "answer"}
                /\ q \in committed' <=> task'[v] = "answer" /\ written'[v]
      BY <1>1, <2>4, <2>7, <3>1 DEF VInv, BatchUnanswered
    <3>2. ASSUME NEW q \in Requests, Batched(q, w)' PROVE reply'[q] = None /\ q \notin committed'
      BY <1>1, <2>2, <2>3, <3>2 DEF VInv, InOnePlace, BatchUnanswered
    <3>. QED
      BY <2>7, <3>1, <3>2 DEF BatchUnanswered
  <2>9. \A q \in Requests : Nowhere(q) => Nowhere(q)'
    BY <1>5, <2>2, <2>3, <2>4 DEF Nowhere
  <2>10. RequestKnows'
    BY <1>1, <2>9 DEF VInv, RequestKnows
  <2>. QED
    BY <2>5, <2>6, <2>8, <2>10 DEF VInv
<1>9. CASE h \notin Requests
  <2>1. /\ batch' = batch
        /\ \/ task' = [task EXCEPT ![w] = "closing"] /\ task[w] = "recv"
           \/ task' = [task EXCEPT ![w] = "write"] /\ task[w] = "collect"
    BY <1>7, <1>9 DEF Recv, Collect
  <2>2. \A q \in Requests, v \in Writers : Batched(q, v)' <=> Batched(q, v)
    BY <2>1 DEF Batched
  <2>3. VerdictTypes'
    BY <1>1, <2>1 DEF VInv, VerdictTypes
  <2>4. InOnePlace'
    BY <1>1, <1>5, <1>6, <2>2 DEF VInv, InOnePlace
  <2>5. BatchUnanswered'
    <3>1. \A v \in Writers : \/ task'[v] = task[v]
                             \/ v = w /\ task[w] = "recv"
                             \/ v = w /\ task[w] = "collect" /\ task'[w] = "write"
      <4>1. \A v \in Writers \ {w} : task'[v] = task[v]
        BY <2>1 DEF IInv, Types
      <4>2. task' = [task EXCEPT ![w] = "write"] => task'[w] = "write"
        BY DEF IInv, Types
      <4>3. task[w] = "recv" \/ (task[w] = "collect" /\ task'[w] = "write")
        BY <2>1, <4>2
      <4>. QED
        BY <4>1, <4>3
    <3>. QED
      BY <1>1, <2>2, <3>1 DEF VInv, BatchUnanswered
  <2>6. \A q \in Requests : Nowhere(q) => Nowhere(q)'
    BY <1>5, <2>2 DEF Nowhere
  <2>7. RequestKnows'
    BY <1>1, <2>6 DEF VInv, RequestKnows
  <2>. QED
    BY <2>3, <2>4, <2>5, <2>7 DEF VInv
<1>. QED
  BY <1>8, <1>9

\* A transaction commits the whole batch or none of it.
LEMMA WriteVerdicts ==
    ASSUME IInv, VInv, NEW w \in Writers, TaskFrame,
           Seal(w) \/ Retry(w) \/ NoSenders(w) \/ Commit(w) \/ Abort(w)
    PROVE  VInv'
<1>1. UNCHANGED <<pc, op, outcome, reply, batch, queue>>
  BY DEF TaskFrame, requestVars, Seal, Retry, NoSenders, Commit, Abort, batchVars
<1>2. /\ \A q \in Requests, v \in Writers : Batched(q, v)' <=> Batched(q, v)
      /\ \A q \in Requests : (Queued(q)' <=> Queued(q)) /\ (Nowhere(q)' <=> Nowhere(q))
  BY <1>1 DEF Nowhere, Queued, Batched
<1>3. \A v \in Writers \ {w} : task'[v] = task[v] /\ written'[v] = written[v]
  BY DEF Seal, Retry, NoSenders, Commit, Abort, batchVars, IInv, Types, VInv, VerdictTypes
<1>4. CASE Commit(w)
  <2>1. /\ task[w] = "write" /\ written' = [written EXCEPT ![w] = TRUE]
        /\ task' = [task EXCEPT ![w] = "answer"]
        /\ committed' = committed \cup {batch[w][n] : n \in DOMAIN batch[w]}
    BY <1>4 DEF Commit
  <2>2. task'[w] = "answer" /\ written'[w]
    BY <2>1 DEF IInv, Types, VInv, VerdictTypes
  <2>3. \A q \in Requests : q \in committed' <=> q \in committed \/ Batched(q, w)
    BY <2>1 DEF Batched
  <2>4. VerdictTypes'
    <3>1. {batch[w][n] : n \in DOMAIN batch[w]} \subseteq Requests
      <4>1. batch[w] \in Seq(Requests)
        BY DEF VInv, VerdictTypes
      <4>. QED
        BY <4>1
    <3>. QED
      BY <1>1, <2>1, <3>1 DEF VInv, VerdictTypes
  <2>5. InOnePlace'
    BY <1>1, <1>2, <2>3 DEF VInv, InOnePlace
  <2>6. BatchUnanswered'
    <3>1. ASSUME NEW v \in Writers \ {w}, NEW q \in Requests, Batched(q, v)
          PROVE  q \in committed' <=> q \in committed
      BY <2>3, <3>1 DEF VInv, InOnePlace
    <3>. QED
      BY <1>1, <1>2, <1>3, <2>2, <2>3, <3>1 DEF VInv, BatchUnanswered
  <2>7. \A q \in Requests : Nowhere(q) \/ reply[q] # None => (q \in committed' <=> q \in committed)
    BY <2>3 DEF VInv, BatchUnanswered, Nowhere
  <2>8. RequestKnows'
    BY <1>1, <1>2, <2>3, <2>7, NoneAssumption DEF VInv, RequestKnows
  <2>. QED
    BY <2>4, <2>5, <2>6, <2>8 DEF VInv
<1>5. CASE Abort(w)
  <2>1. /\ task[w] = "write" /\ written' = [written EXCEPT ![w] = FALSE]
        /\ task' = [task EXCEPT ![w] = "answer"] /\ committed' = committed
    BY <1>5 DEF Abort, dataVars
  <2>2. task'[w] = "answer" /\ ~written'[w]
    BY <2>1 DEF IInv, Types, VInv, VerdictTypes
  <2>3. BatchUnanswered'
    BY <1>1, <1>2, <1>3, <2>1, <2>2 DEF VInv, BatchUnanswered
  <2>4. VerdictTypes'
    BY <1>1, <2>1 DEF VInv, VerdictTypes
  <2>5. InOnePlace' /\ RequestKnows'
    BY <1>1, <1>2, <2>1 DEF VInv, InOnePlace, RequestKnows
  <2>. QED
    BY <2>3, <2>4, <2>5 DEF VInv
<1>6. CASE Seal(w) \/ Retry(w) \/ NoSenders(w)
  <2>1. /\ UNCHANGED <<written, committed>>
        /\ \/ task[w] = "collect" /\ task' = [task EXCEPT ![w] = "write"]
           \/ task' = task
           \/ task[w] = "recv" /\ task' = [task EXCEPT ![w] = "closing"]
    BY <1>6 DEF Seal, Retry, NoSenders, batchVars, dataVars
  <2>2. \/ task[w] = "collect" /\ task'[w] = "write"
        \/ task'[w] = task[w]
        \/ task[w] = "recv"
    BY <2>1 DEF IInv, Types
  <2>3. BatchUnanswered'
    BY <1>1, <1>2, <1>3, <2>1, <2>2 DEF VInv, BatchUnanswered
  <2>4. VerdictTypes'
    BY <1>1, <2>1 DEF VInv, VerdictTypes
  <2>5. InOnePlace' /\ RequestKnows'
    BY <1>1, <1>2, <2>1 DEF VInv, InOnePlace, RequestKnows
  <2>. QED
    BY <2>3, <2>4, <2>5 DEF VInv
<1>. QED
  BY <1>4, <1>5, <1>6

\* The answers of a batch say what became of it, those of a writer that ends that
\* the command was never in one.
LEMMA AnswerVerdicts ==
    ASSUME IInv, VInv, NEW w \in Writers, TaskFrame, Answer(w) \/ Exit(w)
    PROVE  VInv'
<1>. USE NoneAssumption
<1>1. UNCHANGED <<pc, op, outcome, written, committed>>
  BY DEF TaskFrame, requestVars, Answer, Exit, batchVars, dataVars
<1>2. \A v \in Writers \ {w} : task'[v] = task[v]
  BY DEF Answer, Exit, IInv, Types
<1>3. CASE Answer(w)
  <2>1. /\ task[w] = "answer" /\ queue' = queue /\ batch' = [batch EXCEPT ![w] = <<>>]
        /\ reply' = Told(batch[w], IF written[w] THEN "ok" ELSE "failed")
    BY <1>3 DEF Answer
  <2>2. \A q \in Requests :
          reply'[q] = IF Batched(q, w) THEN IF written[w] THEN "ok" ELSE "failed" ELSE reply[q]
    BY <2>1 DEF Told, Batched
  <2>3. /\ \A q \in Requests, v \in Writers \ {w} : Batched(q, v)' <=> Batched(q, v)
        /\ \A q \in Requests : ~Batched(q, w)'
    BY <2>1 DEF Batched, VInv, VerdictTypes
  <2>4. \A q \in Requests : (Queued(q)' <=> Queued(q)) /\ (Nowhere(q) => Nowhere(q)')
    BY <2>1, <2>3 DEF Nowhere, Queued
  <2>5. VerdictTypes'
    <3>1. reply' \in [Requests -> {None, "ok", "failed", "stopped"}]
      BY <2>1 DEF Told, VInv, VerdictTypes
    <3>2. batch' \in [Writers -> Seq(Requests)]
      <4>1. <<>> \in Seq(Requests)
        OBVIOUS
      <4>. QED
        BY <2>1, <4>1 DEF VInv, VerdictTypes
    <3>. QED
      BY <1>1, <3>1, <3>2 DEF VInv, VerdictTypes
  <2>6. InOnePlace'
    <3>1. \A q \in Requests : Queued(q) => reply'[q] = None /\ \A v \in Writers : ~Batched(q, v)'
      BY <2>2, <2>3 DEF VInv, InOnePlace
    <3>. QED
      BY <1>1, <2>1, <2>3, <2>4, <3>1 DEF VInv, InOnePlace
  <2>7. BatchUnanswered'
    <3>1. \A q \in Requests, v \in Writers \ {w} : Batched(q, v) => ~Batched(q, w)
      BY DEF VInv, InOnePlace
    <3>. QED
      BY <1>1, <1>2, <2>2, <2>3, <3>1 DEF VInv, BatchUnanswered
  <2>8. \A q \in Requests : Batched(q, w) => (q \in committed <=> written[w]) /\ ~Nowhere(q)
    BY <2>1 DEF VInv, BatchUnanswered, Nowhere
  <2>9. RequestKnows'
    BY <1>1, <2>2, <2>4, <2>8 DEF VInv, RequestKnows
  <2>. QED
    BY <2>5, <2>6, <2>7, <2>9 DEF VInv
<1>4. CASE Exit(w)
  <2>1. /\ task[w] = "closing" /\ batch' = batch /\ queue' = [queue EXCEPT ![w] = <<>>]
        /\ reply' = Told(queue[w], "stopped")
    BY <1>4 DEF Exit, batchVars
  <2>2. \A q \in Requests : reply'[q] = reply[q] \/ (reply'[q] = "stopped" /\ Queued(q))
    BY <2>1 DEF Told, Queued
  <2>3. \A q \in Requests, v \in Writers : Batched(q, v)' <=> Batched(q, v)
    BY <2>1 DEF Batched
  <2>4. /\ queue'[w] = <<>> /\ \A v \in Writers \ {w} : queue'[v] = queue[v]
    BY <2>1 DEF IInv, Types
  <2>5. \A q \in Requests : Queued(q)' => Queued(q) /\ reply'[q] = reply[q]
    <3>1. ASSUME NEW q \in Requests, NEW v \in Writers, NEW n \in DOMAIN queue'[v], queue'[v][n] = q
          PROVE  Queued(q) /\ reply'[q] = reply[q]
      <4>1. v # w /\ n \in DOMAIN queue[v] /\ queue[v][n] = q
        BY <2>4, <3>1
      <4>2. \A m \in DOMAIN queue[w] : queue[w][m] # q
        BY <4>1 DEF VInv, InOnePlace
      <4>. QED
        BY <2>1, <4>1, <4>2 DEF Told, Queued
    <3>. QED
      BY <3>1 DEF Queued
  <2>6. \A q \in Requests : Nowhere(q) => Nowhere(q)'
    BY <2>3, <2>5 DEF Nowhere
  <2>7. VerdictTypes'
    <3>1. reply' \in [Requests -> {None, "ok", "failed", "stopped"}]
      BY <2>1 DEF Told, VInv, VerdictTypes
    <3>. QED
      BY <1>1, <2>1, <3>1 DEF VInv, VerdictTypes
  <2>8. InOnePlace'
    <3>1. ASSUME NEW v \in Writers, NEW u \in Writers, NEW n \in DOMAIN queue'[v],
                 NEW m \in DOMAIN queue'[u], queue'[v][n] \in Requests, queue'[v][n] = queue'[u][m]
          PROVE  v = u /\ n = m
      <4>1. v # w /\ u # w
        BY <2>4
      <4>. QED
        BY <2>4, <3>1, <4>1 DEF VInv, InOnePlace
    <3>. QED
      BY <1>1, <2>3, <2>5, <3>1 DEF VInv, InOnePlace
  <2>9. BatchUnanswered'
    <3>1. \A q \in Requests, v \in Writers : Batched(q, v) => v # w /\ reply'[q] = reply[q]
      <4>1. \A q \in Requests, v \in Writers : Batched(q, v) => ~Queued(q)
        BY DEF VInv, InOnePlace
      <4>2. \A q \in Requests : ~Batched(q, w)
        BY <2>1 DEF VInv, BatchUnanswered
      <4>. QED
        BY <2>2, <4>1, <4>2
    <3>. QED
      BY <1>1, <1>2, <2>3, <3>1 DEF VInv, BatchUnanswered
  <2>10. \A q \in Requests : Queued(q) => q \notin committed /\ ~Nowhere(q)
    BY DEF VInv, InOnePlace, Nowhere
  <2>11. RequestKnows'
    BY <1>1, <2>2, <2>6, <2>10 DEF VInv, RequestKnows
  <2>. QED
    BY <2>7, <2>8, <2>9, <2>11 DEF VInv
<1>. QED
  BY <1>3, <1>4

\* A shutdown is no request's command.
LEMMA CloserVerdicts ==
    ASSUME IInv, VInv, NEW x \in Closers, CloseStep(x) \/ StartOrLeave(x)
    PROVE  VInv'
<1>1. UNCHANGED <<pc, op, outcome, reply, task, batch, written, committed>>
  BY DEF CloseStep, StartOrLeave, CloserFrame, requestVars, batchVars, dataVars
<1>2. queue' = queue \/ (closer[x] = "sending" /\ queue' = [queue EXCEPT ![closing[x]] = Append(@, x)])
  BY DEF CloseStep, StartOrLeave, SendShutdown, ClosePool, RemoveDir, DetachIdle, DetachForDrop,
         Detach, Abandon
<1>3. \A v \in Writers : \A n \in DOMAIN queue'[v] :
         queue'[v][n] \in Requests => n \in DOMAIN queue[v] /\ queue'[v][n] = queue[v][n]
  <2>1. CASE queue' = queue
    BY <2>1
  <2>2. CASE closer[x] = "sending" /\ queue' = [queue EXCEPT ![closing[x]] = Append(@, x)]
    <3>1. closing[x] \in Writers /\ x \notin Requests
      BY <2>2, ConstantsAssumption DEF IInv, Types, ClosingIsDetached, Writers
    <3>2. queue[closing[x]] \in Seq(Commands)
      BY <3>1 DEF IInv, Types
    <3>3. \A v \in Writers : queue'[v] = IF v = closing[x] THEN Append(queue[v], x) ELSE queue[v]
      BY <2>2, <3>1 DEF IInv, Types
    <3>4. ASSUME NEW n \in DOMAIN Append(queue[closing[x]], x), Append(queue[closing[x]], x)[n] # x
          PROVE  n \in DOMAIN queue[closing[x]] /\ Append(queue[closing[x]], x)[n] = queue[closing[x]][n]
      BY <3>2, <3>4
    <3>5. ASSUME NEW v \in Writers, NEW n \in DOMAIN queue'[v], queue'[v][n] \in Requests
          PROVE  n \in DOMAIN queue[v] /\ queue'[v][n] = queue[v][n]
      <4>1. CASE v = closing[x]
        <5>1. queue'[v] = Append(queue[closing[x]], x) /\ queue'[v][n] # x
          BY <3>1, <3>3, <3>5, <4>1
        <5>. QED
          BY <3>4, <4>1, <5>1
      <4>2. CASE v # closing[x]
        BY <3>3, <4>2
      <4>. QED
        BY <4>1, <4>2
    <3>. QED
      BY <3>5
  <2>. QED
    BY <1>2, <2>1, <2>2
<1>4. \A q \in Requests, v \in Writers : Batched(q, v)' <=> Batched(q, v)
  BY <1>1 DEF Batched
<1>5. \A q \in Requests : Queued(q)' => Queued(q)
  BY <1>3 DEF Queued
<1>6. InOnePlace'
  <2>1. ASSUME NEW v \in Writers, NEW u \in Writers, NEW n \in DOMAIN queue'[v],
               NEW m \in DOMAIN queue'[u], queue'[v][n] \in Requests, queue'[v][n] = queue'[u][m]
        PROVE  v = u /\ n = m
    <3>1. /\ n \in DOMAIN queue[v] /\ queue'[v][n] = queue[v][n]
          /\ m \in DOMAIN queue[u] /\ queue'[u][m] = queue[u][m]
      BY <1>3, <2>1
    <3>2. queue[v][n] \in Requests /\ queue[v][n] = queue[u][m]
      BY <2>1, <3>1
    <3>. QED
      BY <3>1, <3>2 DEF VInv, InOnePlace
  <2>. QED
    BY <1>1, <1>4, <1>5, <2>1 DEF VInv, InOnePlace
<1>7. VerdictTypes' /\ BatchUnanswered'
  BY <1>1, <1>4 DEF VInv, VerdictTypes, BatchUnanswered
<1>8. \A q \in Requests : Nowhere(q) => Nowhere(q)'
  BY <1>4, <1>5 DEF Nowhere
<1>9. RequestKnows'
  BY <1>1, <1>8 DEF VInv, RequestKnows
<1>. QED
  BY <1>6, <1>7, <1>9 DEF VInv

\* Every step keeps it.
LEMMA NextVerdicts == IInv /\ VInv /\ [Next]_vars => VInv'
<1>. SUFFICES ASSUME IInv, VInv, [Next]_vars PROVE VInv'
  OBVIOUS
<1>1. CASE UNCHANGED vars
  <2>1. UNCHANGED <<pc, op, outcome, reply, task, queue, batch, written, committed>>
    BY <1>1 DEF vars, requestVars, batchVars, dataVars
  <2>2. \A q \in Requests : Nowhere(q)' <=> Nowhere(q)
    BY <2>1 DEF Nowhere, Queued, Batched
  <2>. QED
    BY <2>1, <2>2 DEF VInv, VerdictTypes, InOnePlace, BatchUnanswered, RequestKnows, Queued, Batched
<1>2. ASSUME NEW w \in Writers, TaskStep(w) PROVE VInv'
  BY <1>2, ReceiveVerdicts, WriteVerdicts, AnswerVerdicts DEF TaskStep
<1>. QED
  BY <1>1, <1>2, RequestVerdicts, CloserVerdicts DEF Next

\* store.rs:335-369 and 733-853: a PUT that reports success is committed, and one
\* that reports a failure is not and will not be, so that it may be sent again.
THEOREM VerdictAlwaysTrue == Spec => []VerdictTrue
<1>1. VInv => VerdictTrue
  BY DEF VInv, RequestKnows, VerdictTrue
<1>. QED
  BY <1>1, Invariance, InitVerdicts, NextVerdicts, PTL DEF Spec
-----------------------------------------------------------------------------
(* Positions in a batch.                                                   *)

\* Among some positions of a sequence there is a first and a last one: the
\* smallest of the intervals from the first position of the sequence to one of
\* them, and from one of them to the last.
LEMMA FirstAndLast ==
    ASSUME NEW S, NEW b \in Seq(S), NEW P, P \subseteq DOMAIN b, P # {}
    PROVE  /\ \E n \in P : \A m \in P : n <= m
           /\ \E n \in P : \A m \in P : m <= n
<1>. DEFINE top == Len(b)
<1>1. top \in Nat /\ P \subseteq 1..top
  OBVIOUS
<1>. HIDE DEF top
<1>2. IsWellFoundedOn(StrictSubsetOrdering(1..top), SUBSET (1..top))
  <2>1. IsFiniteSet(1..top)
    BY <1>1, FS_Interval
  <2>2. FiniteSubsetsOf(1..top) = SUBSET (1..top)
    BY <2>1, FS_FiniteSubsetsOfFinite
  <2>. QED
    BY <2>2, FS_StrictSubsetOrderingWellFounded
<1>3. \E n \in P : \A m \in P : n <= m
  <2>. DEFINE intervals == {1..n : n \in P}
  <2>1. intervals \subseteq SUBSET (1..top) /\ intervals # {}
    BY <1>1
  <2>. HIDE DEF intervals
  <2>2. PICK s \in intervals : \A t \in intervals : <<t, s>> \notin StrictSubsetOrdering(1..top)
    BY <1>2, <2>1, WFMin
  <2>3. PICK n \in P : \A m \in P : <<1..m, 1..n>> \notin StrictSubsetOrdering(1..top)
    BY <2>2 DEF intervals
  <2>4. ASSUME NEW m \in P, m < n PROVE FALSE
    <3>1. 1..m \subseteq 1..n /\ n \in 1..n /\ n \notin 1..m
      BY <1>1, <2>4
    <3>2. 1..m \in SUBSET (1..top) /\ 1..n \in SUBSET (1..top)
      BY <1>1
    <3>. QED
      BY <2>3, <3>1, <3>2 DEF StrictSubsetOrdering
  <2>. QED
    BY <1>1, <2>4
<1>4. \E n \in P : \A m \in P : m <= n
  <2>. DEFINE intervals == {n..top : n \in P}
  <2>1. intervals \subseteq SUBSET (1..top) /\ intervals # {}
    BY <1>1
  <2>. HIDE DEF intervals
  <2>2. PICK s \in intervals : \A t \in intervals : <<t, s>> \notin StrictSubsetOrdering(1..top)
    BY <1>2, <2>1, WFMin
  <2>3. PICK n \in P : \A m \in P : <<m..top, n..top>> \notin StrictSubsetOrdering(1..top)
    BY <2>2 DEF intervals
  <2>4. ASSUME NEW m \in P, n < m PROVE FALSE
    <3>1. m..top \subseteq n..top /\ n \in n..top /\ n \notin m..top
      BY <1>1, <2>4
    <3>2. m..top \in SUBSET (1..top) /\ n..top \in SUBSET (1..top)
      BY <1>1
    <3>. QED
      BY <2>3, <3>1, <3>2 DEF StrictSubsetOrdering
  <2>. QED
    BY <1>1, <2>4
<1>. QED
  BY <1>3, <1>4

\* A row that no command of a batch names stays, another one is the last
\* command's.
LEMMA RowOfBatch ==
    ASSUME NEW f \in Files, NEW b \in Seq(Requests), NEW k \in Keys
    PROVE  /\ (\A n \in DOMAIN b : key[b[n]] # k) => RowAfter(f, b, k) = rows[f][k]
           /\ (\E n \in DOMAIN b : key[b[n]] = k) =>
                \E n \in DOMAIN b : key[b[n]] = k /\ RowAfter(f, b, k) = b[n]
<1>1. ASSUME \A n \in DOMAIN b : key[b[n]] # k PROVE RowAfter(f, b, k) = rows[f][k]
  BY <1>1 DEF RowAfter
<1>2. ASSUME \E n \in DOMAIN b : key[b[n]] = k
      PROVE  \E n \in DOMAIN b : key[b[n]] = k /\ RowAfter(f, b, k) = b[n]
  <2>. DEFINE IsLast(n) == key[b[n]] = k /\ \A m \in DOMAIN b : key[b[m]] = k => m <= n
              last == CHOOSE n \in DOMAIN b : IsLast(n)
              named == {n \in DOMAIN b : key[b[n]] = k}
  <2>1. named \subseteq DOMAIN b /\ named # {}
    BY <1>2
  <2>2. \E n \in named : \A m \in named : m <= n
    <3>. HIDE DEF named
    <3>. QED
      BY <2>1, FirstAndLast
  <2>3. last \in DOMAIN b /\ IsLast(last)
    BY <2>2
  <2>4. RowAfter(f, b, k) = b[last]
    BY <1>2 DEF RowAfter
  <2>. HIDE DEF last
  <2>. QED
    BY <2>3, <2>4
<1>. QED
  BY <1>1, <1>2

\* Of the commands of a batch that name a tile without a row one inserts it,
\* and none does where there is a row.
LEMMA InsertsOfBatch ==
    ASSUME NEW f, NEW b \in Seq(Requests)
    PROVE  /\ \A r \in Inserts(f, b) :
                rows[f][key[r]] = None /\ \E n \in DOMAIN b : b[n] = r
           /\ \A r, q \in Inserts(f, b) : key[r] = key[q] => r = q
           /\ \A k : rows[f][k] = None /\ (\E n \in DOMAIN b : key[b[n]] = k) =>
                \E r \in Inserts(f, b) : key[r] = k
<1>. DEFINE First(n) == /\ n \in DOMAIN b /\ rows[f][key[b[n]]] = None
                        /\ \A m \in 1..(n - 1) : key[b[m]] # key[b[n]]
<1>1. \A r : r \in Inserts(f, b) <=> \E n : First(n) /\ r = b[n]
  BY DEF Inserts
<1>2. DOMAIN b = 1..Len(b) /\ Len(b) \in Nat
  OBVIOUS
<1>3. ASSUME NEW n, First(n), NEW m, First(m), key[b[n]] = key[b[m]] PROVE n = m
  <2>1. n \in 1..Len(b) /\ m \in 1..Len(b)
    BY <1>2, <1>3
  <2>2. n < m => n \in 1..(m - 1)
    BY <1>2, <2>1
  <2>3. m < n => m \in 1..(n - 1)
    BY <1>2, <2>1
  <2>4. ~(n < m) /\ ~(m < n)
    BY <1>3, <2>2, <2>3
  <2>. QED
    BY <1>2, <2>1, <2>4
<1>4. ASSUME NEW k, rows[f][k] = None, \E n \in DOMAIN b : key[b[n]] = k
      PROVE  \E n : First(n) /\ key[b[n]] = k
  <2>. DEFINE named == {n \in DOMAIN b : key[b[n]] = k}
  <2>1. named \subseteq DOMAIN b /\ named # {}
    BY <1>4
  <2>2. PICK n \in named : \A m \in named : n <= m
    <3>. HIDE DEF named
    <3>. QED
      BY <2>1, FirstAndLast
  <2>3. n \in 1..Len(b) /\ key[b[n]] = k
    BY <1>2, <2>2
  <2>4. \A m \in 1..(n - 1) : m \in DOMAIN b /\ ~(n <= m)
    BY <1>2, <2>3
  <2>5. \A m \in 1..(n - 1) : key[b[m]] # k
    BY <2>2, <2>4
  <2>. QED
    BY <1>2, <1>4, <2>3, <2>5
<1>. HIDE DEF First
<1>5. \A r \in Inserts(f, b) : rows[f][key[r]] = None /\ \E n \in DOMAIN b : b[n] = r
  BY <1>1 DEF First
<1>6. \A r, q \in Inserts(f, b) : key[r] = key[q] => r = q
  BY <1>1, <1>3
<1>. QED
  BY <1>1, <1>4, <1>5, <1>6
-----------------------------------------------------------------------------
(* What the requests ask for, and what the batches hold.                   *)

\* A request names a tile and an operation when it starts, and only PUTs get
\* into a queue; a batch that is being written is not empty.
KeyInv ==
    /\ key \in [Requests -> Keys \cup {None}]
    /\ \A r \in Requests :
         /\ IF pc[r] = "new" THEN op[r] = None ELSE op[r] \in {"put", "get"} /\ key[r] \in Keys
         /\ pc[r] = "waiting" \/ Queued(r) => op[r] = "put"
         /\ \A w \in Writers : Batched(r, w) => op[r] = "put"
         /\ op[r] = "put" =>
              outcome[r] \in {None, "ok", "failed", "stopped", "overloaded", "cancelled"}
    /\ \A w \in Writers : task[w] \in {"collect", "write", "answer"} => batch[w] # <<>>

\* PUT r is among the reports C for file f; one of them is for tile k, where K
\* gives the tile of each request.
Created(C, r, f) == <<r, f>> \in C
Reported(C, K, f, k) == \E r \in Requests : Created(C, r, f) /\ K[r] = k

\* The rows of a file are those that the PUTs which created one have reported.
RowInv ==
    /\ rows \in [Files -> [Keys -> Requests \cup {None}]]
    /\ createdBy \subseteq committed \X Files
    /\ \A f \in Files, k \in Keys : rows[f][k] # None <=> Reported(createdBy, key, f, k)
    /\ \A f \in Files, r, q \in Requests :
         Created(createdBy, r, f) /\ Created(createdBy, q, f) /\ key[r] = key[q] => r = q

\* It holds at the start.
LEMMA InitKeys == Init => KeyInv
<1>. SUFFICES ASSUME Init PROVE KeyInv
  OBVIOUS
<1>1. \A r \in Requests : ~Queued(r) /\ \A w \in Writers : ~Batched(r, w)
  BY DEF Init, Queued, Batched
<1>. QED
  BY <1>1, NoneAssumption DEF Init, KeyInv

\* A request leaves, a PUT with a verdict.
LEMMA LeaveKeys ==
    ASSUME IInv, VInv, KeyInv, NEW r \in Requests, RequestFrame, NEW o, Leave(r, o), pc[r] # "new",
           op[r] = "put" => o \in {"ok", "failed", "stopped", "overloaded", "cancelled"}
    PROVE  KeyInv'
<1>1. /\ UNCHANGED <<op, key, queue, batch, task>>
      /\ pc' = [pc EXCEPT ![r] = "done"] /\ outcome' = [outcome EXCEPT ![r] = o]
  BY DEF Leave, RequestFrame, batchVars
<1>2. /\ \A q \in Requests : Queued(q)' <=> Queued(q)
      /\ \A q \in Requests, w \in Writers : Batched(q, w)' <=> Batched(q, w)
  BY <1>1 DEF Queued, Batched
<1>3. /\ \A q \in Requests \ {r} : pc'[q] = pc[q] /\ outcome'[q] = outcome[q]
      /\ pc'[r] = "done" /\ outcome'[r] = o
  BY <1>1 DEF IInv, Types, VInv, VerdictTypes
<1>. QED
  BY <1>1, <1>2, <1>3 DEF KeyInv

\* Each step of a request keeps it.
LEMMA RequestKeys ==
    ASSUME IInv, VInv, KeyInv, NEW r \in Requests, Proceed(r) \/ ClientStep(r)
    PROVE  KeyInv'
<1>1. RequestFrame /\ batch' = batch
  BY DEF Proceed, ClientStep, RequestFrame, batchVars
<1>2. \A q \in Requests, w \in Writers : Batched(q, w)' <=> Batched(q, w)
  BY <1>1 DEF Batched
<1>3. ASSUME queue' = queue PROVE \A q \in Requests : Queued(q)' <=> Queued(q)
  BY <1>3 DEF Queued
<1>4. ASSUME NEW k \in Keys, NEW kind \in {"put", "get"}, Begin(r, kind, k) PROVE KeyInv'
  <2>1. /\ pc[r] = "new" /\ pc' = [pc EXCEPT ![r] = "lookup"]
        /\ op' = [op EXCEPT ![r] = kind] /\ key' = [key EXCEPT ![r] = k]
        /\ UNCHANGED <<outcome, queue, task>>
    BY <1>4 DEF Begin
  <2>2. ~Queued(r) /\ (\A w \in Writers : ~Batched(r, w)) /\ outcome[r] = None
    BY <2>1 DEF VInv, RequestKnows, Nowhere
  <2>3. /\ \A q \in Requests \ {r} : pc'[q] = pc[q] /\ op'[q] = op[q] /\ key'[q] = key[q]
        /\ pc'[r] = "lookup" /\ op'[r] = kind /\ key'[r] = k
    BY <2>1 DEF IInv, Types, VInv, VerdictTypes, KeyInv
  <2>4. key' \in [Requests -> Keys \cup {None}]
    BY <2>1 DEF KeyInv
  <2>. QED
    BY <1>1, <1>2, <1>3, <2>1, <2>2, <2>3, <2>4 DEF KeyInv
<1>5. CASE Lookup(r) \/ SecondCheck(r)
  <2>1. /\ pc[r] # "new" /\ UNCHANGED <<op, key, outcome, queue, task>>
        /\ \E place \in {"holding", "missed"} : pc' = [pc EXCEPT ![r] = place]
    BY <1>5 DEF Lookup, SecondCheck, Hold
  <2>2. /\ \A q \in Requests \ {r} : pc'[q] = pc[q]
        /\ pc'[r] \in {"holding", "missed"}
    BY <2>1 DEF IInv, Types
  <2>. QED
    BY <1>1, <1>2, <1>3, <2>1, <2>2 DEF KeyInv
<1>6. CASE Open(r)
  <2>1. /\ pc[r] = "missed" /\ pc' = [pc EXCEPT ![r] = "holding"]
        /\ UNCHANGED <<op, key, outcome, queue>>
        /\ task' = [task EXCEPT ![opened + 1] = "recv"]
    BY <1>6 DEF Open, Hold
  <2>2. /\ \A q \in Requests \ {r} : pc'[q] = pc[q]
        /\ pc'[r] = "holding"
        /\ \A w \in Writers : task'[w] = task[w] \/ task'[w] = "recv"
    BY <2>1 DEF IInv, Types
  <2>. QED
    BY <1>1, <1>2, <1>3, <2>1, <2>2 DEF KeyInv
<1>7. CASE Send(r)
  <2>1. /\ pc[r] = "holding" /\ op[r] = "put" /\ pc' = [pc EXCEPT ![r] = "waiting"]
        /\ queue' = [queue EXCEPT ![holds[r]] = Append(queue[holds[r]], r)]
        /\ holds[r] \in Writers /\ queue[holds[r]] \in Seq(Commands)
        /\ UNCHANGED <<task, op, key, outcome>>
    BY <1>7, ConstantsAssumption DEF Send, IInv, Types, HoldsOne, Writers
  <2>2. \A w \in Writers : \A n \in DOMAIN queue'[w] :
           \/ n \in DOMAIN queue[w] /\ queue'[w][n] = queue[w][n]
           \/ queue'[w][n] = r
    BY <2>1 DEF IInv, Types
  <2>3. \A q \in Requests : Queued(q)' => Queued(q) \/ q = r
    BY <2>2 DEF Queued
  <2>4. /\ \A q \in Requests \ {r} : pc'[q] = pc[q]
        /\ pc'[r] = "waiting"
    BY <2>1 DEF IInv, Types
  <2>. QED
    BY <1>1, <1>2, <2>1, <2>3, <2>4 DEF KeyInv
<1>8. CASE FileMissing(r) \/ OpenFails(r) \/ Refuse(r) \/ Query(r) \/ Finish(r) \/ Cancel(r)
  <2>1. \E o : /\ Leave(r, o) /\ pc[r] # "new"
               /\ op[r] = "put" => o \in {"ok", "failed", "stopped", "overloaded", "cancelled"}
    <3>1. CASE FileMissing(r) \/ Query(r)
      BY <3>1 DEF FileMissing, Query, Return
    <3>2. CASE OpenFails(r)
      BY <3>2 DEF OpenFails
    <3>3. CASE Refuse(r) \/ Cancel(r)
      BY <3>3 DEF Refuse, Cancel, Return
    <3>4. CASE Finish(r)
      BY <3>4 DEF Finish, Return, VInv, VerdictTypes
    <3>. QED
      BY <1>8, <3>1, <3>2, <3>3, <3>4
  <2>. QED
    BY <1>1, <2>1, LeaveKeys
<1>. QED
  BY <1>4, <1>5, <1>6, <1>7, <1>8 DEF Proceed, ClientStep

\* A command goes from the queue of a writer into its batch, and nowhere else.
LEMMA TaskKeys ==
    ASSUME IInv, VInv, KeyInv, NEW w \in Writers, TaskStep(w)
    PROVE  KeyInv'
<1>1. UNCHANGED <<pc, op, key, outcome>>
  BY DEF TaskStep, TaskFrame, requestVars
<1>2. \A v \in Writers \ {w} : task'[v] = task[v] /\ batch'[v] = batch[v] /\ queue'[v] = queue[v]
  <2>1. CASE Recv(w) \/ Collect(w)
    BY <2>1 DEF Recv, Collect, QueuePopped, IInv, Types, VInv, VerdictTypes
  <2>2. CASE NoSenders(w) \/ Seal(w) \/ Retry(w) \/ Commit(w) \/ Abort(w)
    BY <2>2 DEF NoSenders, Seal, Retry, Commit, Abort, batchVars, IInv, Types
  <2>3. CASE Answer(w) \/ Exit(w)
    BY <2>3 DEF Answer, Exit, batchVars, IInv, Types, VInv, VerdictTypes
  <2>. QED
    BY <2>1, <2>2, <2>3 DEF TaskStep
<1>3. /\ \A n \in DOMAIN queue'[w] : \E m \in DOMAIN queue[w] : queue[w][m] = queue'[w][n]
      /\ \A n \in DOMAIN batch'[w] : \/ \E m \in DOMAIN batch[w] : batch[w][m] = batch'[w][n]
                                     \/ \E m \in DOMAIN queue[w] : queue[w][m] = batch'[w][n]
      /\ task'[w] \in {"collect", "write", "answer"} => batch'[w] # <<>>
  <2>1. CASE Recv(w) \/ Collect(w)
    <3>1. /\ queue[w] # <<>> /\ queue[w] \in Seq(Commands) /\ queue'[w] = Tail(queue[w])
          /\ batch[w] \in Seq(Requests)
      BY <2>1 DEF Recv, Collect, QueuePopped, IInv, Types, VInv, VerdictTypes
    <3>2. /\ 1 \in DOMAIN queue[w] /\ queue[w][1] = Head(queue[w])
          /\ \A n \in DOMAIN Tail(queue[w]) :
               n + 1 \in DOMAIN queue[w] /\ queue[w][n + 1] = Tail(queue[w])[n]
      BY <3>1
    <3>3. PICK h \in Commands : h = Head(queue[w])
      BY <3>1
    <3>4. \/ batch'[w] = <<h>>
          \/ batch'[w] = Append(batch[w], h)
          \/ batch'[w] = batch[w] /\ (task[w] = "collect" \/ task'[w] = "closing")
      <4>1. CASE Recv(w)
        BY <3>3, <4>1 DEF Recv, IInv, Types, VInv, VerdictTypes
      <4>2. CASE Collect(w)
        BY <3>3, <4>2 DEF Collect, IInv, Types, VInv, VerdictTypes
      <4>. QED
        BY <2>1, <4>1, <4>2
    <3>5. task'[w] \in {"collect", "write", "answer"} => batch'[w] # <<>>
      <4>1. <<h>> # <<>> /\ Append(batch[w], h) # <<>>
        BY <3>1
      <4>. QED
        BY <3>4, <4>1 DEF KeyInv
    <3>6. \A n \in DOMAIN batch'[w] : batch'[w][n] = h \/ (n \in DOMAIN batch[w] /\ batch'[w][n] = batch[w][n])
      BY <3>1, <3>4
    <3>. QED
      BY <3>1, <3>2, <3>3, <3>5, <3>6
  <2>2. CASE NoSenders(w) \/ Seal(w) \/ Retry(w) \/ Commit(w) \/ Abort(w)
    <3>1. UNCHANGED <<queue, batch>>
      BY <2>2 DEF NoSenders, Seal, Retry, Commit, Abort, batchVars
    <3>2. task'[w] = "closing" \/ task[w] \in {"collect", "write", "answer"}
      BY <2>2 DEF NoSenders, Seal, Retry, Commit, Abort, batchVars, IInv, Types
    <3>. QED
      BY <3>1, <3>2 DEF KeyInv
  <2>3. CASE Answer(w)
    <3>1. batch'[w] = <<>> /\ queue' = queue /\ task'[w] \in {"recv", "closing"}
      BY <2>3 DEF Answer, IInv, Types, VInv, VerdictTypes
    <3>. QED
      BY <3>1
  <2>4. CASE Exit(w)
    <3>1. batch' = batch /\ queue'[w] = <<>> /\ task'[w] = "gone"
      BY <2>4 DEF Exit, batchVars, IInv, Types
    <3>. QED
      BY <3>1
  <2>. QED
    BY <2>1, <2>2, <2>3, <2>4 DEF TaskStep
<1>4. \A q \in Requests : Queued(q)' => Queued(q)
  <2>1. ASSUME NEW v \in Writers, NEW n \in DOMAIN queue'[v]
        PROVE  \E m \in DOMAIN queue[v] : queue[v][m] = queue'[v][n]
    BY <1>2, <1>3
  <2>. QED
    BY <2>1 DEF Queued
<1>5. \A q \in Requests, v \in Writers : Batched(q, v)' => Batched(q, v) \/ Queued(q)
  <2>1. \A q \in Requests : Batched(q, w)' => Batched(q, w) \/ Queued(q)
    BY <1>3 DEF Batched, Queued
  <2>2. \A q \in Requests, v \in Writers \ {w} : Batched(q, v)' => Batched(q, v)
    BY <1>2 DEF Batched
  <2>. QED
    BY <2>1, <2>2
<1>. QED
  BY <1>1, <1>2, <1>3, <1>4, <1>5 DEF KeyInv

\* Every step keeps it.
LEMMA NextKeys == IInv /\ VInv /\ KeyInv /\ [Next]_vars => KeyInv'
<1>. SUFFICES ASSUME IInv, VInv, KeyInv, [Next]_vars PROVE KeyInv'
  OBVIOUS
<1>1. CASE UNCHANGED vars
  BY <1>1 DEF vars, requestVars, batchVars, KeyInv, Queued, Batched
<1>2. ASSUME NEW x \in Closers, CloseStep(x) \/ StartOrLeave(x) PROVE KeyInv'
  <2>1. UNCHANGED <<pc, op, key, outcome, task, batch>>
    BY <1>2 DEF CloseStep, StartOrLeave, CloserFrame, requestVars, batchVars
  <2>2. queue' = queue \/ (closer[x] = "sending" /\ queue' = [queue EXCEPT ![closing[x]] = Append(@, x)])
    BY <1>2 DEF CloseStep, StartOrLeave, SendShutdown, ClosePool, RemoveDir, DetachIdle, DetachForDrop,
                Detach, Abandon
  <2>3. \A v \in Writers : \A n \in DOMAIN queue'[v] :
          \/ n \in DOMAIN queue[v] /\ queue'[v][n] = queue[v][n]
          \/ queue'[v][n] = x
    <3>1. CASE queue' = queue
      BY <3>1
    <3>2. CASE closer[x] = "sending" /\ queue' = [queue EXCEPT ![closing[x]] = Append(@, x)]
      <4>1. closing[x] \in Writers
        BY <3>2, ConstantsAssumption DEF IInv, Types, ClosingIsDetached, Writers
      <4>2. queue[closing[x]] \in Seq(Commands)
        BY <4>1 DEF IInv, Types
      <4>. QED
        BY <3>2, <4>1, <4>2 DEF IInv, Types
    <3>. QED
      BY <2>2, <3>1, <3>2
  <2>4. \A q \in Requests : Queued(q)' => Queued(q)
    <3>1. x \notin Requests
      BY ConstantsAssumption
    <3>. QED
      BY <2>3, <3>1 DEF Queued
  <2>. QED
    BY <2>1, <2>4 DEF KeyInv, Batched
<1>. QED
  BY <1>1, <1>2, RequestKeys, TaskKeys DEF Next

\* A transaction writes the rows that its batch names.
LEMMA CommitRows ==
    ASSUME IInv, TableInv, VInv, KeyInv, RowInv, NEW w \in Writers, TaskFrame, Commit(w)
    PROVE  RowInv'
<1>1. /\ key' = key /\ task[w] = "write"
      /\ rows' = [rows EXCEPT ![file[w]] = [k \in Keys |-> RowAfter(file[w], batch[w], k)]]
      /\ createdBy' = createdBy \cup (Inserts(file[w], batch[w]) \X {file[w]})
      /\ committed' = committed \cup {batch[w][n] : n \in DOMAIN batch[w]}
  BY DEF TaskFrame, requestVars, Commit
<1>2. PICK f \in Files, b \in Seq(Requests) : f = file[w] /\ b = batch[w]
  <2>1. w <= opened
    BY <1>1, ConstantsAssumption DEF IInv, Unopened, Types, Writers
  <2>. QED
    BY <2>1, ConstantsAssumption DEF TableInv, Files, VInv, VerdictTypes
<1>3. \A n \in DOMAIN b : b[n] \in Requests
  BY <1>2
<1>4. ASSUME NEW k \in Keys
      PROVE  /\ (\A n \in DOMAIN b : key[b[n]] # k) => RowAfter(f, b, k) = rows[f][k]
             /\ (\E n \in DOMAIN b : key[b[n]] = k) =>
                  \E n \in DOMAIN b : key[b[n]] = k /\ RowAfter(f, b, k) = b[n]
  <2>1. (\A n \in DOMAIN b : key[b[n]] # k) => RowAfter(f, b, k) = rows[f][k]
    BY RowOfBatch
  <2>2. (\E n \in DOMAIN b : key[b[n]] = k) =>
          \E n \in DOMAIN b : key[b[n]] = k /\ RowAfter(f, b, k) = b[n]
    BY RowOfBatch
  <2>. QED
    BY <2>1, <2>2
<1>. DEFINE new == Inserts(f, b)
<1>5. /\ \A r \in new : rows[f][key[r]] = None /\ \E n \in DOMAIN b : b[n] = r
      /\ \A r, q \in new : key[r] = key[q] => r = q
      /\ \A k : rows[f][k] = None /\ (\E n \in DOMAIN b : key[b[n]] = k) =>
           \E r \in new : key[r] = k
  BY InsertsOfBatch
<1>6. \A n \in DOMAIN b : key[b[n]] \in Keys
  BY <1>2, <1>3, NoneAssumption DEF KeyInv, Batched
<1>7. new \subseteq Requests /\ \A r \in new : key[r] \in Keys /\ r \in committed'
  BY <1>1, <1>2, <1>3, <1>5, <1>6
<1>. HIDE DEF new
<1>8. \A k \in Keys : RowAfter(f, b, k) \in Requests \cup {None}
  BY <1>2, <1>3, <1>4 DEF RowInv
<1>9. /\ \A k \in Keys : rows'[f][k] = RowAfter(f, b, k)
      /\ \A g \in Files \ {f} : rows'[g] = rows[g]
  BY <1>1, <1>2 DEF RowInv
<1>10. rows' \in [Files -> [Keys -> Requests \cup {None}]]
  <2>1. [k \in Keys |-> RowAfter(f, b, k)] \in [Keys -> Requests \cup {None}]
    BY <1>8
  <2>. QED
    BY <1>1, <1>2, <2>1 DEF RowInv
<1>11. createdBy' \subseteq committed' \X Files
  BY <1>1, <1>2, <1>7 DEF RowInv, new
<1>12. /\ \A r : Created(createdBy', r, f) <=> Created(createdBy, r, f) \/ r \in new
       /\ \A g \in Files \ {f} : \A r : Created(createdBy', r, g) <=> Created(createdBy, r, g)
       /\ key' = key
  BY <1>1, <1>2 DEF Created, new
<1>13. ASSUME NEW k \in Keys
       PROVE  rows'[f][k] # None <=> Reported(createdBy', key', f, k)
  <2>1. rows[f][k] # None <=> Reported(createdBy, key, f, k)
    BY <1>2 DEF RowInv
  <2>2. CASE \A n \in DOMAIN b : key[b[n]] # k
    <3>1. rows'[f][k] = rows[f][k]
      BY <1>4, <1>9, <2>2
    <3>2. \A r \in new : key[r] # k
      BY <1>5, <2>2
    <3>. QED
      BY <1>12, <2>1, <3>1, <3>2 DEF Reported
  <2>3. CASE \E n \in DOMAIN b : key[b[n]] = k
    <3>1. rows'[f][k] # None
      BY <1>3, <1>4, <1>9, <2>3, ConstantsAssumption
    <3>2. CASE rows[f][k] = None
      BY <1>5, <1>7, <1>12, <2>3, <3>1, <3>2 DEF Reported
    <3>3. CASE rows[f][k] # None
      BY <1>12, <2>1, <3>1, <3>3 DEF Reported
    <3>. QED
      BY <3>2, <3>3
  <2>. QED
    BY <2>2, <2>3
<1>14. ASSUME NEW r \in Requests, NEW q \in Requests, Created(createdBy', r, f),
              Created(createdBy', q, f), key[r] = key[q]
       PROVE  r = q
  <2>1. ASSUME NEW p \in Requests, Created(createdBy, p, f), NEW n \in new, key[p] = key[n]
        PROVE  FALSE
    <3>1. key[n] \in Keys /\ rows[f][key[n]] = None
      BY <1>5, <1>7
    <3>. QED
      BY <1>2, <2>1, <3>1 DEF RowInv, Reported
  <2>2. Created(createdBy, r, f) /\ Created(createdBy, q, f) => r = q
    BY <1>2, <1>14 DEF RowInv
  <2>. QED
    BY <1>5, <1>12, <1>14, <2>1, <2>2
<1>15. ASSUME NEW g \in Files, NEW k \in Keys
       PROVE  rows'[g][k] # None <=> Reported(createdBy', key', g, k)
  <2>1. CASE g = f
    BY <1>13, <2>1
  <2>2. CASE g # f
    BY <1>9, <1>12, <2>2 DEF RowInv, Reported
  <2>. QED
    BY <2>1, <2>2
<1>16. ASSUME NEW g \in Files, NEW r \in Requests, NEW q \in Requests, Created(createdBy', r, g),
              Created(createdBy', q, g), key[r] = key[q]
       PROVE  r = q
  <2>1. CASE g = f
    BY <1>14, <1>16, <2>1
  <2>2. CASE g # f
    BY <1>12, <1>16, <2>2 DEF RowInv
  <2>. QED
    BY <2>1, <2>2
<1>. QED
  BY <1>1, <1>10, <1>11, <1>15, <1>16 DEF RowInv

\* Every step keeps it: rows change only with a transaction, and a request that
\* has committed something does not change its tile.
LEMMA NextRows == IInv /\ TableInv /\ VInv /\ KeyInv /\ RowInv /\ [Next]_vars => RowInv'
<1>. SUFFICES ASSUME IInv, TableInv, VInv, KeyInv, RowInv, [Next]_vars PROVE RowInv'
  OBVIOUS
<1>1. ASSUME UNCHANGED <<rows, createdBy, committed>>,
             \A r \in Requests : r \in committed => key'[r] = key[r]
      PROVE  RowInv'
  <2>1. \A r \in Requests, f \in Files :
          /\ Created(createdBy', r, f) <=> Created(createdBy, r, f)
          /\ Created(createdBy, r, f) => key'[r] = key[r]
    BY <1>1 DEF RowInv, Created
  <2>2. \A f \in Files, k \in Keys : Reported(createdBy', key', f, k) <=> Reported(createdBy, key, f, k)
    BY <2>1 DEF Reported
  <2>3. ASSUME NEW f \in Files, NEW r \in Requests, NEW q \in Requests, Created(createdBy, r, f),
               Created(createdBy, q, f), key'[r] = key'[q]
        PROVE  r = q
    BY <2>1, <2>3 DEF RowInv
  <2>. QED
    BY <1>1, <2>1, <2>2, <2>3 DEF RowInv
<1>2. CASE UNCHANGED vars
  BY <1>1, <1>2 DEF vars, requestVars, dataVars
<1>3. ASSUME NEW r \in Requests, Proceed(r) \/ ClientStep(r) PROVE RowInv'
  <2>1. UNCHANGED <<rows, createdBy, committed>>
    BY <1>3 DEF Proceed, ClientStep, RequestFrame, dataVars
  <2>2. \/ key' = key
        \/ pc[r] = "new" /\ \E k \in Keys : key' = [key EXCEPT ![r] = k]
    BY <1>3 DEF Proceed, ClientStep, Lookup, SecondCheck, Hold, FileMissing, Open, OpenFails, Send,
                Refuse, Finish, Query, Cancel, Return, Leave, Begin
  <2>3. pc[r] = "new" => r \notin committed
    BY DEF VInv, RequestKnows
  <2>4. \A q \in Requests : q \in committed => key'[q] = key[q]
    BY <2>2, <2>3 DEF KeyInv
  <2>. QED
    BY <1>1, <2>1, <2>4
<1>4. ASSUME NEW w \in Writers, TaskStep(w) PROVE RowInv'
  <2>1. key' = key /\ TaskFrame
    BY <1>4 DEF TaskStep, TaskFrame, requestVars
  <2>2. CASE Commit(w)
    BY <2>1, <2>2, CommitRows
  <2>3. CASE ~Commit(w)
    <3>1. UNCHANGED <<rows, createdBy, committed>>
      BY <1>4, <2>3 DEF TaskStep, Recv, NoSenders, Collect, Seal, Retry, Abort, Answer, Exit, dataVars
    <3>. QED
      BY <1>1, <2>1, <3>1
  <2>. QED
    BY <2>2, <2>3
<1>5. ASSUME NEW x \in Closers, CloseStep(x) \/ StartOrLeave(x) PROVE RowInv'
  <2>1. UNCHANGED <<rows, createdBy, committed, key>>
    BY <1>5 DEF CloseStep, StartOrLeave, CloserFrame, requestVars, dataVars
  <2>. QED
    BY <1>1, <2>1
<1>. QED
  BY <1>2, <1>3, <1>4, <1>5 DEF Next

\* It holds at the start.
LEMMA InitRows == Init => RowInv
BY DEF Init, RowInv, Reported, Created

\* All that the proofs below rest on.
LEMMA AllInvariant == Spec => [](IInv /\ TableInv /\ VInv /\ KeyInv /\ RowInv)
<1>1. Init => TableInv
  BY ConstantsAssumption DEF Init, TableInv, KnownTableExists, Writers, Files
<1>. QED
  BY <1>1, Invariance, InitVerdicts, InitKeys, InitRows, NextTables, NextVerdicts, NextKeys,
     NextRows, PTL DEF Spec

\* store.rs:796-853: of the PUTs that were committed to a row of a file, through
\* whichever writers, batches and attempts, exactly one reports that it created
\* the row; the catalog counts tiles by these reports.
THEOREM RowsCreatedOnce == Spec => []CreatedOnce
<1>1. VInv /\ RowInv => CreatedOnce
  <2>. SUFFICES ASSUME VInv, RowInv, NEW f \in Files, NEW k \in Keys
                PROVE  rows[f][k] # None <=>
                         Cardinality({c \in createdBy : c[2] = f /\ key[c[1]] = k}) = 1
    BY DEF CreatedOnce
  <2>. DEFINE reports == {c \in createdBy : c[2] = f /\ key[c[1]] = k}
  <2>1. /\ \A r \in Requests : <<r, f>> \in reports <=> Created(createdBy, r, f) /\ key[r] = k
        /\ \A c \in reports : \E r \in Requests : c = <<r, f>>
    BY DEF RowInv, VInv, VerdictTypes, Created
  <2>2. SUFFICES Reported(createdBy, key, f, k) <=> Cardinality(reports) = 1
    BY DEF RowInv
  <2>. HIDE DEF reports
  <2>3. ASSUME NEW r \in Requests, Created(createdBy, r, f), key[r] = k PROVE Cardinality(reports) = 1
    <3>1. \A c \in reports : c = <<r, f>>
      <4>1. ASSUME NEW c \in reports PROVE c = <<r, f>>
        <5>1. PICK q \in Requests : c = <<q, f>>
          BY <2>1
        <5>2. Created(createdBy, q, f) /\ key[q] = key[r]
          BY <2>1, <2>3, <5>1
        <5>. QED
          BY <2>3, <5>1, <5>2 DEF RowInv
      <4>. QED
        BY <4>1
    <3>2. reports = {<<r, f>>}
      BY <2>1, <2>3, <3>1
    <3>. QED
      BY <3>2, FS_Singleton
  <2>4. ASSUME ~Reported(createdBy, key, f, k) PROVE Cardinality(reports) # 1
    <3>1. reports = {}
      BY <2>1, <2>4 DEF Reported
    <3>. QED
      BY <3>1, FS_EmptySet
  <2>. QED
    BY <2>3, <2>4 DEF Reported
<1>. QED
  BY <1>1, AllInvariant, PTL
-----------------------------------------------------------------------------
(* The types.                                                              *)

\* What a request can be told.
Outcomes == {None, "ok", "failed", "stopped", "overloaded", "absent", "cancelled"} \cup Requests

\* The types that no argument above needs.
OtherTypes ==
    /\ outcome \in [Requests -> Outcomes]
    /\ attempts \in [Writers -> 0..(MaxAttempts - 1)]
    /\ poolOpen \in [Writers -> BOOLEAN]
    /\ shutdownReply \in [Closers -> BOOLEAN]
    /\ itemDir \in BOOLEAN

\* A GET asks a file that exists for a tile of the shard.
LEMMA QueryReads ==
    ASSUME IInv, TableInv, KeyInv, RowInv, NEW r \in Requests, pc[r] = "holding"
    PROVE  /\ holds[r] \in Writers /\ holds[r] <= opened
           /\ file[holds[r]] \in Files /\ key[r] \in Keys
           /\ rows[file[holds[r]]][key[r]] \in Requests \cup {None}
<1>1. holds[r] \in Writers /\ holds[r] <= opened
  BY ConstantsAssumption DEF IInv, Types, HoldsOne, Writers
<1>2. file[holds[r]] \in Files
  BY <1>1, ConstantsAssumption DEF TableInv, Files
<1>3. key[r] \in Keys
  BY DEF KeyInv
<1>. QED
  BY <1>1, <1>2, <1>3 DEF RowInv

\* Each step of a request keeps the types.
LEMMA RequestTypes ==
    ASSUME IInv, TableInv, VInv, KeyInv, RowInv, OtherTypes,
           NEW r \in Requests, Proceed(r) \/ ClientStep(r)
    PROVE  OtherTypes'
<1>1. UNCHANGED <<attempts, shutdownReply>>
  BY DEF Proceed, ClientStep, RequestFrame, batchVars
<1>2. outcome' \in [Requests -> Outcomes]
  <2>1. \/ outcome' = outcome
        \/ \E o \in Outcomes : outcome' = [outcome EXCEPT ![r] = o]
    <3>1. CASE Query(r)
      <4>1. PICK row \in Requests \cup {None} : row = rows[file[holds[r]]][key[r]]
        BY <3>1, QueryReads DEF Query
      <4>2. \E o \in {"failed", "absent", row} : Return(r, o)
        <5>1. Return(r, IF ~poolOpen[holds[r]] THEN "failed" ELSE IF row = None THEN "absent" ELSE row)
          BY <3>1, <4>1 DEF Query
        <5>. QED
          BY <5>1
      <4>3. {"failed", "absent", row} \subseteq Outcomes
        BY DEF Outcomes
      <4>. QED
        BY <4>2, <4>3 DEF Return, Leave
    <3>2. CASE Finish(r)
      <4>1. reply[r] \in Outcomes
        BY DEF VInv, VerdictTypes, Outcomes
      <4>. QED
        BY <3>2, <4>1 DEF Finish, Return, Leave
    <3>3. CASE ~Query(r) /\ ~Finish(r)
      BY <3>3 DEF Proceed, ClientStep, Lookup, SecondCheck, Hold, FileMissing, Open, OpenFails, Send,
                  Refuse, Cancel, Return, Leave, Begin, Outcomes
    <3>. QED
      BY <3>1, <3>2, <3>3
  <2>. QED
    BY <2>1 DEF OtherTypes
<1>3. poolOpen' \in [Writers -> BOOLEAN]
  <2>1. poolOpen' = poolOpen \/ poolOpen' = [poolOpen EXCEPT ![opened + 1] = TRUE]
    BY DEF Proceed, ClientStep, Lookup, SecondCheck, FileMissing, Open, OpenFails, Send,
           Refuse, Finish, Query, Cancel, Return, Leave, Begin, slotVars
  <2>. QED
    BY <2>1 DEF OtherTypes
<1>4. itemDir' \in BOOLEAN
  <2>1. CASE Open(r) \/ OpenFails(r) \/ \E k \in Keys, kind \in {"put", "get"} : Begin(r, kind, k)
    BY <2>1 DEF Open, OpenFails, Begin
  <2>2. CASE /\ ~Open(r) /\ ~OpenFails(r)
             /\ ~\E k \in Keys, kind \in {"put", "get"} : Begin(r, kind, k)
    <3>1. itemDir' = itemDir
      BY <2>2 DEF Proceed, ClientStep, Lookup, SecondCheck, FileMissing, Send, Refuse, Finish, Query,
                  Cancel, Return, pathVars
    <3>. QED
      BY <3>1 DEF OtherTypes
  <2>. QED
    BY <2>1, <2>2
<1>. QED
  BY <1>1, <1>2, <1>3, <1>4 DEF OtherTypes

\* Each step keeps the types: a batch is attempted again only while attempts
\* are left.
LEMMA NextTypes ==
    IInv /\ TableInv /\ VInv /\ KeyInv /\ RowInv /\ OtherTypes /\ [Next]_vars => OtherTypes'
<1>. SUFFICES ASSUME IInv, TableInv, VInv, KeyInv, RowInv, OtherTypes, [Next]_vars
              PROVE  OtherTypes'
  OBVIOUS
<1>1. CASE UNCHANGED vars
  BY <1>1 DEF vars, requestVars, slotVars, pathVars, batchVars, OtherTypes
<1>2. ASSUME NEW w \in Writers, TaskStep(w) PROVE OtherTypes'
  <2>1. UNCHANGED <<outcome, poolOpen, itemDir>>
    BY <1>2 DEF TaskStep, TaskFrame, requestVars, slotVars, pathVars
  <2>2. attempts' \in [Writers -> 0..(MaxAttempts - 1)]
    <3>1. CASE Retry(w)
      <4>1. attempts[w] + 1 \in 0..(MaxAttempts - 1)
        BY <3>1, ConstantsAssumption DEF Retry, MayRetry, OtherTypes
      <4>. QED
        BY <3>1, <4>1 DEF Retry, OtherTypes
    <3>2. CASE Answer(w)
      BY <3>2, ConstantsAssumption DEF Answer, OtherTypes
    <3>3. CASE ~Retry(w) /\ ~Answer(w)
      <4>1. attempts' = attempts
        BY <1>2, <3>3 DEF TaskStep, Recv, NoSenders, Collect, Seal, Commit, Abort, Exit, batchVars
      <4>. QED
        BY <4>1 DEF OtherTypes
    <3>. QED
      BY <3>1, <3>2, <3>3
  <2>3. shutdownReply' \in [Closers -> BOOLEAN]
    <3>1. CASE Exit(w)
      BY <3>1 DEF Exit
    <3>2. CASE ~Exit(w)
      <4>1. shutdownReply' = shutdownReply \/ \E x : shutdownReply' = [shutdownReply EXCEPT ![x] = TRUE]
        BY <1>2, <3>2 DEF TaskStep, Recv, NoSenders, Collect, Seal, Retry, Commit, Abort, Answer
      <4>. QED
        BY <4>1 DEF OtherTypes
    <3>. QED
      BY <3>1, <3>2
  <2>. QED
    BY <2>1, <2>2, <2>3 DEF OtherTypes
<1>3. ASSUME NEW x \in Closers, CloseStep(x) \/ StartOrLeave(x) PROVE OtherTypes'
  <2>1. UNCHANGED <<outcome, attempts>>
    BY <1>3 DEF CloseStep, StartOrLeave, CloserFrame, requestVars, batchVars
  <2>2. \/ poolOpen' = poolOpen
        \/ poolOpen' = [poolOpen EXCEPT ![closing[x]] = FALSE]
    BY <1>3 DEF CloseStep, StartOrLeave, SendShutdown, ClosePool, RemoveDir, DetachIdle, DetachForDrop,
                Detach, Abandon, slotVars
  <2>3. shutdownReply' = shutdownReply \/ \E v \in BOOLEAN : shutdownReply' = [shutdownReply EXCEPT ![x] = v]
    BY <1>3 DEF CloseStep, StartOrLeave, SendShutdown, ClosePool, RemoveDir, DetachIdle, DetachForDrop,
                Detach, Abandon
  <2>4. itemDir' = itemDir \/ itemDir' \in BOOLEAN
    BY <1>3 DEF CloseStep, StartOrLeave, SendShutdown, ClosePool, RemoveDir, DetachIdle, DetachForDrop,
                Detach, Abandon, pathVars
  <2>. QED
    BY <2>1, <2>2, <2>3, <2>4 DEF OtherTypes
<1>. QED
  BY <1>1, <1>2, <1>3, RequestTypes DEF Next

\* They hold at the start.
LEMMA InitTypes == Init => OtherTypes
<1>1. 0 \in 0..(MaxAttempts - 1) /\ None \in Outcomes
  BY ConstantsAssumption DEF Outcomes
<1>2. ASSUME Init
      PROVE  /\ outcome = [r \in Requests |-> None] /\ attempts = [w \in Writers |-> 0]
             /\ poolOpen = [w \in Writers |-> FALSE]
             /\ shutdownReply = [x \in Closers |-> FALSE] /\ itemDir = FALSE
  BY <1>2 DEF Init
<1>. QED
  BY <1>1, <1>2 DEF OtherTypes

\* Every variable keeps its type; the attempts at a batch stay below the limit,
\* no writer works on a file that was not created, and a GET returns nothing
\* but a PUT's data.
THEOREM AlwaysTyped == Spec => []TypeOK
<1>1. IInv /\ TableInv /\ VInv /\ KeyInv /\ RowInv /\ OtherTypes => TypeOK
  BY DEF IInv, Types, TableInv, VInv, VerdictTypes, KeyInv, RowInv, OtherTypes, Outcomes, TypeOK
<1>. QED
  BY <1>1, InitTypes, AllInvariant, NextTypes, PTL DEF Spec
-----------------------------------------------------------------------------
(* What the clients see.                                                   *)

\* Without a removal no file leaves the path, and the writers all use the one at it.
OneFile ==
    /\ \A x \in Closers : closer[x] # "removing"
    /\ linked = files
    /\ \A w \in Writers : w <= opened => file[w] = linked /\ linked # 0
    /\ \A f \in Files : f > files => rows[f] = [k \in Keys |-> None]

\* Every step keeps it while nobody removes the item.
LEMMA NextFiles ==
    ASSUME Droppers = {}
    PROVE  IInv /\ TableInv /\ OneFile /\ [Next]_vars => OneFile'
<1>. SUFFICES ASSUME IInv, TableInv, OneFile, [Next]_vars PROVE OneFile'
  OBVIOUS
<1>1. CASE UNCHANGED vars
  BY <1>1 DEF vars, slotVars, pathVars, dataVars, closerVars, OneFile
<1>2. ASSUME NEW r \in Requests, Proceed(r) \/ ClientStep(r) PROVE OneFile'
  <2>1. UNCHANGED <<closer, rows>>
    BY <1>2 DEF Proceed, ClientStep, RequestFrame, dataVars, closerVars
  <2>2. \/ UNCHANGED <<linked, files>>
        \/ linked = 0 /\ files' = files + 1 /\ linked' = files + 1
    BY <1>2 DEF Proceed, ClientStep, Lookup, SecondCheck, FileMissing, Open, OpenFails, CreateFile,
                Send, Refuse, Finish, Query, Cancel, Return, Begin, pathVars
  <2>3. linked' = files' /\ \A f \in Files : f > files' => rows[f] = [k \in Keys |-> None]
    BY <2>2, ConstantsAssumption DEF OneFile, TableInv, Files
  <2>4. CASE Open(r)
    <3>1. /\ opened' = opened + 1 /\ opened + 1 \in Writers
          /\ file' = [file EXCEPT ![opened + 1] = linked'] /\ linked' # 0
      BY <2>4, ConstantsAssumption DEF Open, CreateFile, IInv, Types, TableInv, OneFile, Writers
    <3>2. ASSUME NEW w \in Writers, w <= opened' PROVE file'[w] = linked'
      <4>1. CASE w = opened + 1
        BY <3>1, <4>1 DEF TableInv
      <4>2. CASE w # opened + 1
        <5>1. w <= opened
          BY <3>1, <3>2, <4>2 DEF IInv, Types, Writers
        <5>2. file[w] = linked /\ linked' = linked
          BY <2>2, <5>1 DEF OneFile
        <5>. QED
          BY <3>1, <4>2, <5>2 DEF TableInv
      <4>. QED
        BY <4>1, <4>2
    <3>. QED
      BY <2>1, <2>3, <3>1, <3>2 DEF OneFile
  <2>5. CASE ~Open(r)
    <3>1. UNCHANGED <<opened, file>>
      BY <1>2, <2>5 DEF Proceed, ClientStep, Lookup, SecondCheck, FileMissing, OpenFails, Send, Refuse,
                        Finish, Query, Cancel, Return, Leave, Begin, slotVars
    <3>. QED
      BY <2>1, <2>2, <2>3, <3>1 DEF OneFile
  <2>. QED
    BY <2>4, <2>5
<1>3. ASSUME NEW w \in Writers, TaskStep(w) PROVE OneFile'
  <2>1. UNCHANGED <<closer, linked, files, opened, file>>
    BY <1>3 DEF TaskStep, TaskFrame, slotVars, pathVars, closerVars
  <2>2. CASE Commit(w)
    <3>1. w <= opened
      <4>1. task[w] # "unborn"
        BY <2>2 DEF Commit
      <4>2. ~(w > opened)
        BY <4>1 DEF IInv, Unopened
      <4>3. w \in Nat /\ opened \in Nat
        BY ConstantsAssumption DEF IInv, Types, Writers
      <4>. QED
        BY <4>2, <4>3
    <3>2. \A f \in Files : f > files => rows'[f] = rows[f]
      <4>1. file[w] <= files /\ files \in Nat
        BY <3>1, ConstantsAssumption DEF OneFile, TableInv
      <4>2. \A f \in Files : f > files => f # file[w]
        BY <4>1, ConstantsAssumption DEF Files, TableInv
      <4>. QED
        BY <2>2, <4>2 DEF Commit
    <3>. QED
      BY <2>1, <3>2 DEF OneFile
  <2>3. CASE ~Commit(w)
    <3>1. rows' = rows
      BY <1>3, <2>3 DEF TaskStep, Recv, NoSenders, Collect, Seal, Retry, Abort, Answer, Exit, dataVars
    <3>. QED
      BY <2>1, <3>1 DEF OneFile
  <2>. QED
    BY <2>2, <2>3
<1>4. ASSUME NEW x \in Closers, CloseStep(x) \/ StartOrLeave(x) PROVE OneFile'
  <2>1. UNCHANGED <<linked, files, opened, file, rows>>
    BY <1>4 DEF CloseStep, StartOrLeave, SendShutdown, ClosePool, RemoveDir, DetachIdle, DetachForDrop,
                Detach, Abandon, CloserFrame, slotVars, pathVars, dataVars, OneFile
  <2>2. \E s \in {"sending", "awaiting", "ready", "done"} : closer' = [closer EXCEPT ![x] = s]
    BY <1>4 DEF CloseStep, StartOrLeave, SendShutdown, ClosePool, RemoveDir, DetachIdle, DetachForDrop,
                Detach, Abandon, OneFile
  <2>. QED
    BY <2>1, <2>2 DEF OneFile, IInv, Types
<1>. QED
  BY <1>1, <1>2, <1>3, <1>4 DEF Next

\* A step that leaves a request's view and the rows alone is invisible.
LEMMA Invisible ==
    ASSUME UNCHANGED <<op, key, outcome, committed>>, CurrentRows' = CurrentRows
    PROVE  UNCHANGED Table!vars
BY DEF Table!vars

\* A request leaves with an answer that the table allows.
LEMMA LeaveAnswers ==
    ASSUME IInv, VInv, KeyInv, NEW r \in Requests, RequestFrame, NEW o, Leave(r, o),
           pc[r] \notin {"new", "done"}, CurrentRows' = CurrentRows,
           \/ o = "cancelled"
           \/ op[r] = "put" /\ o \in Table!Verdict(r)
           \/ op[r] = "get" /\ o \in Table!Seen(r)
    PROVE  Table!Answer(r)
<1>1. op[r] # None /\ outcome[r] = None
  BY NoneAssumption DEF KeyInv, VInv, RequestKnows
<1>2. outcome' = [outcome EXCEPT ![r] = o] /\ UNCHANGED <<op, key, committed>>
  BY DEF Leave, RequestFrame, dataVars
<1>3. o \in {"cancelled"} \cup (IF op[r] = "put" THEN Table!Verdict(r) ELSE Table!Seen(r))
  OBVIOUS
<1>. QED
  BY <1>1, <1>2, <1>3 DEF Table!Answer

\* The steps of a request: it asks, it is answered, or nothing can be seen.
LEMMA RequestSimulates ==
    ASSUME IInv, TableInv, VInv, KeyInv, RowInv, OneFile,
           NEW r \in Requests, Proceed(r) \/ ClientStep(r)
    PROVE  [Table!Next]_(Table!vars)
<1>1. RequestFrame /\ UNCHANGED <<rows, committed>>
  BY DEF Proceed, ClientStep, RequestFrame, dataVars
<1>2. CurrentRows' = CurrentRows
  <2>1. \/ linked' = linked
        \/ linked = 0 /\ linked' = files + 1 /\ files < MaxFiles
    BY DEF Proceed, ClientStep, Lookup, SecondCheck, FileMissing, Open, OpenFails, CreateFile,
           Send, Refuse, Finish, Query, Cancel, Return, Begin, pathVars
  <2>2. CASE linked' = linked
    BY <1>1, <2>2 DEF CurrentRows
  <2>3. CASE linked = 0 /\ linked' = files + 1 /\ files < MaxFiles
    <3>1. files + 1 \in Files /\ files + 1 > files /\ files + 1 # 0
      BY <2>3, ConstantsAssumption DEF TableInv, Files
    <3>2. rows[files + 1] = [k \in Keys |-> None]
      BY <3>1 DEF OneFile
    <3>. QED
      BY <1>1, <2>3, <3>1, <3>2 DEF CurrentRows
  <2>. QED
    BY <2>1, <2>2, <2>3
<1>3. ASSUME NEW o, Leave(r, o), pc[r] \notin {"new", "done"},
             \/ o = "cancelled"
             \/ op[r] = "put" /\ o \in Table!Verdict(r)
             \/ op[r] = "get" /\ o \in Table!Seen(r)
      PROVE  Table!Next
  BY <1>1, <1>2, <1>3, LeaveAnswers DEF Table!Next
<1>4. pc[r] \notin {"new", "done"} => op[r] \in {"put", "get"}
  BY DEF KeyInv
<1>5. pc[r] \in Early => r \notin committed
  BY DEF VInv, RequestKnows, Early
<1>6. ASSUME NEW k \in Keys, NEW kind \in {"put", "get"}, Begin(r, kind, k) PROVE Table!Next
  <2>1. op[r] = None
    BY <1>6 DEF Begin, KeyInv
  <2>2. Table!Ask(r, kind, k)
    BY <1>1, <1>2, <1>6, <2>1 DEF Begin, Table!Ask
  <2>. QED
    BY <2>2 DEF Table!Next
<1>7. CASE Lookup(r) \/ SecondCheck(r) \/ Open(r) \/ Send(r)
  <2>1. UNCHANGED <<op, key, outcome>>
    BY <1>7 DEF Lookup, SecondCheck, Open, Send, Hold
  <2>. QED
    BY <1>1, <1>2, <2>1, Invisible
<1>8. CASE FileMissing(r)
  <2>1. op[r] = "get" /\ pc[r] = "missed" /\ Leave(r, "absent") /\ CurrentRows[key[r]] = None
    BY <1>8 DEF FileMissing, Return, CurrentRows, KeyInv
  <2>. QED
    BY <1>3, <2>1 DEF Table!Seen
<1>9. CASE OpenFails(r)
  <2>1. pc[r] = "missed" /\ (Leave(r, "failed") \/ Leave(r, "cancelled"))
    BY <1>9 DEF OpenFails
  <2>2. "failed" \in Table!Seen(r) /\ (r \notin committed => "failed" \in Table!Verdict(r))
    BY DEF Table!Seen, Table!Verdict
  <2>. QED
    BY <1>3, <1>4, <1>5, <2>1, <2>2 DEF Early
<1>10. CASE Refuse(r)
  <2>1. pc[r] = "holding" /\ op[r] = "put" /\ Leave(r, "overloaded")
    BY <1>10 DEF Refuse, Return
  <2>. QED
    BY <1>3, <1>5, <2>1 DEF Early, Table!Verdict
<1>11. CASE Finish(r)
  <2>1. pc[r] = "waiting" /\ op[r] = "put" /\ reply[r] # None /\ Leave(r, reply[r])
    BY <1>11 DEF Finish, Return, KeyInv
  <2>2. reply[r] \in Table!Verdict(r)
    BY <2>1 DEF VInv, VerdictTypes, RequestKnows, Table!Verdict
  <2>. QED
    BY <1>3, <2>1, <2>2
<1>12. CASE Query(r)
  <2>1. pc[r] = "holding" /\ op[r] = "get"
    BY <1>12 DEF Query
  <2>2. rows[file[holds[r]]][key[r]] = CurrentRows[key[r]]
    BY <2>1, QueryReads DEF OneFile, CurrentRows
  <2>3. \E o \in Table!Seen(r) : Leave(r, o)
    <3>1. PICK row : row = CurrentRows[key[r]]
      OBVIOUS
    <3>2. Leave(r, IF ~poolOpen[holds[r]] THEN "failed" ELSE IF row = None THEN "absent" ELSE row)
      BY <1>12, <2>2, <3>1 DEF Query, Return
    <3>3. (IF ~poolOpen[holds[r]] THEN "failed" ELSE IF row = None THEN "absent" ELSE row) \in Table!Seen(r)
      BY <3>1 DEF Table!Seen
    <3>. QED
      BY <3>2, <3>3
  <2>. QED
    BY <1>3, <2>1, <2>3
<1>13. CASE Cancel(r)
  BY <1>3, <1>13 DEF Cancel, Return
<1>. QED
  BY <1>6, <1>7, <1>8, <1>9, <1>10, <1>11, <1>12, <1>13 DEF Proceed, ClientStep

\* The steps of a writer: a transaction applies its batch, and everything else is
\* between the writer and the requests.
LEMMA TaskSimulates ==
    ASSUME IInv, TableInv, VInv, KeyInv, RowInv, OneFile, NEW w \in Writers, TaskStep(w)
    PROVE  [Table!Next]_(Table!vars)
<1>1. UNCHANGED <<op, key, outcome, linked>>
  BY DEF TaskStep, TaskFrame, requestVars, pathVars
<1>2. CASE ~Commit(w)
  <2>1. UNCHANGED <<rows, committed>>
    BY <1>2 DEF TaskStep, Recv, NoSenders, Collect, Seal, Retry, Abort, Answer, Exit, dataVars
  <2>. QED
    BY <1>1, <2>1, Invisible DEF CurrentRows
<1>3. CASE Commit(w)
  <2>1. /\ task[w] = "write"
        /\ rows' = [rows EXCEPT ![file[w]] = [k \in Keys |-> RowAfter(file[w], batch[w], k)]]
        /\ committed' = committed \cup {batch[w][n] : n \in DOMAIN batch[w]}
    BY <1>3 DEF Commit
  <2>2. file[w] \in Files /\ file[w] = linked /\ linked # 0
    <3>1. w <= opened
      BY <2>1, ConstantsAssumption DEF IInv, Unopened, Types, Writers
    <3>. QED
      BY <3>1, ConstantsAssumption DEF OneFile, TableInv, Files
  <2>3. PICK f \in Files, b \in Seq(Requests) : f = file[w] /\ b = batch[w]
    BY <2>2 DEF VInv, VerdictTypes
  <2>. DEFINE S == {b[n] : n \in DOMAIN b}
  <2>4. b # <<>>
    BY <2>1, <2>3 DEF KeyInv
  <2>5. S \in SUBSET Requests /\ S # {}
    <3>1. 1 \in DOMAIN b
      BY <2>4
    <3>. QED
      BY <3>1
  <2>6. \A r \in S : op[r] = "put" /\ r \notin committed /\ outcome[r] \in {None, "cancelled"}
    <3>1. ASSUME NEW r \in Requests, Batched(r, w)
          PROVE  op[r] = "put" /\ r \notin committed /\ outcome[r] \in {None, "cancelled"}
      <4>1. op[r] = "put" /\ r \notin committed
        BY <2>1, <3>1 DEF KeyInv, VInv, BatchUnanswered
      <4>2. outcome[r] \in {None, "ok", "failed", "stopped", "overloaded", "cancelled"}
        BY <4>1 DEF KeyInv
      <4>3. ~Nowhere(r)
        BY <3>1 DEF Nowhere
      <4>4. outcome[r] \notin {"ok", "failed", "stopped", "overloaded"}
        BY <4>1, <4>3 DEF VInv, RequestKnows
      <4>. QED
        BY <4>1, <4>2, <4>4
    <3>. QED
      BY <2>3, <2>5, <3>1 DEF Batched
  <2>7. /\ CurrentRows = rows[f]
        /\ CurrentRows' = [k \in Keys |-> RowAfter(f, b, k)]
    BY <1>1, <2>1, <2>2, <2>3 DEF CurrentRows, RowInv
  <2>8. ASSUME NEW k \in Keys
        PROVE  CurrentRows'[k] \in LET writers == {r \in S : key[r] = k}
                                   IN  IF writers = {} THEN {CurrentRows[k]} ELSE writers
    <3>1. CASE \A n \in DOMAIN b : key[b[n]] # k
      <4>1. RowAfter(f, b, k) = rows[f][k]
        BY <3>1, RowOfBatch
      <4>2. {r \in S : key[r] = k} = {}
        BY <3>1
      <4>. QED
        BY <2>7, <4>1, <4>2
    <3>2. CASE \E n \in DOMAIN b : key[b[n]] = k
      <4>1. PICK n \in DOMAIN b : key[b[n]] = k /\ RowAfter(f, b, k) = b[n]
        BY <3>2, RowOfBatch
      <4>2. b[n] \in {r \in S : key[r] = k}
        BY <4>1
      <4>. QED
        BY <2>7, <4>1, <4>2
    <3>. QED
      BY <3>1, <3>2
  <2>9. CurrentRows' \in [Keys -> Requests \cup {None}]
    <3>1. rows[f] \in [Keys -> Requests \cup {None}]
      BY DEF RowInv
    <3>2. ASSUME NEW k \in Keys PROVE CurrentRows'[k] \in Requests \cup {None}
      BY <2>5, <2>7, <2>8, <3>1
    <3>. QED
      BY <2>7, <3>2
  <2>10. committed' = committed \cup S
    BY <2>1, <2>3
  <2>. HIDE DEF S
  <2>11. Table!Apply(S)
    BY <1>1, <2>5, <2>6, <2>8, <2>9, <2>10 DEF Table!Apply
  <2>. QED
    BY <2>5, <2>11 DEF Table!Next
<1>. QED
  BY <1>2, <1>3

\* Every step of the shard is a step of the table or leaves it as it is.
LEMMA NextSimulates ==
    ASSUME Droppers = {}
    PROVE  IInv /\ TableInv /\ VInv /\ KeyInv /\ RowInv /\ OneFile /\ [Next]_vars
             => [Table!Next]_(Table!vars)
<1>. SUFFICES ASSUME IInv, TableInv, VInv, KeyInv, RowInv, OneFile, [Next]_vars
              PROVE  [Table!Next]_(Table!vars)
  OBVIOUS
<1>1. CASE UNCHANGED vars
  BY <1>1, Invisible DEF vars, requestVars, pathVars, dataVars, CurrentRows
<1>2. ASSUME NEW x \in Closers, CloseStep(x) \/ StartOrLeave(x) PROVE UNCHANGED Table!vars
  <2>1. UNCHANGED <<op, key, outcome, linked, rows, committed>>
    BY <1>2 DEF CloseStep, StartOrLeave, SendShutdown, ClosePool, RemoveDir, DetachIdle, DetachForDrop,
                Detach, Abandon, CloserFrame, requestVars, pathVars, dataVars, OneFile
  <2>. QED
    BY <2>1, Invisible DEF CurrentRows
<1>. QED
  BY <1>1, <1>2, RequestSimulates, TaskSimulates DEF Next

\* While nobody removes the item, a shard with all its writers, queues, batches,
\* retries, closes and reopens behaves like one table: each PUT takes effect at
\* one moment between its request and its answer, or never, as its verdict says,
\* and each GET returns the row as it is at one moment.
THEOREM ShardImplementsTable ==
    ASSUME Droppers = {}
    PROVE  Spec => ImplementsTable
<1>1. Init => Table!Init
  BY DEF Init, Table!Init, CurrentRows
<1>2. Init => OneFile
  BY ConstantsAssumption DEF Init, OneFile, Files, Writers
<1>3. IInv /\ TableInv /\ OneFile /\ [Next]_vars => OneFile'
  BY NextFiles
<1>4. IInv /\ TableInv /\ VInv /\ KeyInv /\ RowInv /\ OneFile /\ [Next]_vars
        => [Table!Next]_(Table!vars)
  BY NextSimulates
<1>. QED
  BY <1>1, <1>2, <1>3, <1>4, AllInvariant, PTL DEF Spec, ImplementsTable, Table!Spec
-----------------------------------------------------------------------------
(* Who waits, and for what.                                                *)

Runs(w) == task[w] \in Live \cup {"closing"}
Names(commands, c) == \E n \in DOMAIN commands : commands[n] = c

Served(r) ==
    \/ reply[r] # None
    \/ \E w \in Writers : Runs(w) /\ (Names(queue[w], r) \/ Names(batch[w], r))

Heard(x, w) ==
    \/ shutdownReply[x]
    \/ Runs(w) /\ Names(queue[w], x)
    \/ task[w] \in {"write", "answer"} /\ stop[w] = x

\* Nobody waits for an answer that no one will give: a PUT that waits has its
\* verdict, or its command is with a writer that has not gone, and so has the
\* shutdown of a task that closes a shard.
NoneForgotten ==
    /\ \A r \in Requests : pc[r] = "waiting" => Served(r)
    /\ \A x \in Closers : closer[x] = "awaiting" => Heard(x, closing[x])

\* A writer that has been opened runs until it has emptied its queue; it takes
\* the shutdown last.
TasksFit ==
    \A w \in Writers :
        /\ w <= opened => task[w] # "unborn"
        /\ task[w] = "gone" => queue[w] = <<>>
        /\ task[w] \in {"recv", "collect"} => stop[w] = None

\* The commands after one more has been sent.
LEMMA NamesSent ==
    ASSUME NEW S, NEW q \in Seq(S), NEW c \in S, NEW d
    PROVE  Names(Append(q, c), d) <=> Names(q, d) \/ c = d
<1>1. /\ DOMAIN q = 1..Len(q) /\ Len(q) \in Nat
      /\ DOMAIN Append(q, c) = 1..(Len(q) + 1)
      /\ Append(q, c)[Len(q) + 1] = c
      /\ \A n \in 1..Len(q) : Append(q, c)[n] = q[n]
  OBVIOUS
<1>. QED
  BY <1>1 DEF Names

\* The commands before the first one has been received.
LEMMA NamesReceived ==
    ASSUME NEW S, NEW q \in Seq(S), q # <<>>, NEW d
    PROVE  Names(q, d) => d = Head(q) \/ Names(Tail(q), d)
<1>. SUFFICES ASSUME NEW n \in DOMAIN q, q[n] = d, d # Head(q) PROVE Names(Tail(q), d)
  BY DEF Names
<1>1. n \in 1..Len(q) /\ Len(q) \in Nat /\ Head(q) = q[1]
  OBVIOUS
<1>2. n - 1 \in DOMAIN Tail(q) /\ Tail(q)[n - 1] = q[n]
  BY <1>1
<1>. QED
  BY <1>2 DEF Names

\* A request waits once its command is in the queue of a writer that runs.
LEMMA RequestServed ==
    ASSUME IInv, TasksFit, NoneForgotten, NEW r \in Requests, Proceed(r) \/ ClientStep(r)
    PROVE  TasksFit' /\ NoneForgotten'
<1>. USE ConstantsAssumption
<1>1. UNCHANGED <<reply, batch, stop, closer, closing, shutdownReply>>
  BY DEF Proceed, ClientStep, RequestFrame, batchVars, closerVars
<1>2. CASE Open(r)
  <2>1. /\ opened' = opened + 1 /\ opened + 1 \in Writers /\ queue' = queue
        /\ task' = [task EXCEPT ![opened + 1] = "recv"]
        /\ pc' = [pc EXCEPT ![r] = "holding"]
        /\ opened \in Nat /\ task[opened + 1] = "unborn" /\ stop[opened + 1] = None
    BY <1>2 DEF Open, Hold, IInv, Types, Writers, Unopened
  <2>2. \A w \in Writers : task'[w] = IF w = opened + 1 THEN "recv" ELSE task[w]
    BY <2>1 DEF IInv, Types
  <2>3. TasksFit'
    BY <1>1, <2>1, <2>2 DEF TasksFit, Writers
  <2>4. \A w \in Writers : Runs(w) => Runs(w)'
    BY <2>2 DEF Runs, Live
  <2>5. \A w \in Writers : task[w] \in {"write", "answer"} => task'[w] = task[w]
    BY <2>1, <2>2
  <2>6. ASSUME NEW q \in Requests, pc'[q] = "waiting" PROVE Served(q)'
    <3>1. pc[q] = "waiting"
      BY <2>1, <2>6 DEF IInv, Types
    <3>. QED
      BY <1>1, <2>1, <2>4, <3>1 DEF NoneForgotten, Served
  <2>7. ASSUME NEW x \in Closers, closer'[x] = "awaiting" PROVE Heard(x, closing[x])'
    <3>1. closing[x] \in Writers /\ Heard(x, closing[x])
      BY <1>1, <2>7 DEF IInv, Types, ClosingIsDetached, Writers, NoneForgotten
    <3>. QED
      BY <1>1, <2>1, <2>4, <2>5, <3>1 DEF Heard
  <2>. QED
    BY <2>3, <2>6, <2>7 DEF NoneForgotten
<1>3. CASE Send(r)
  <2>1. /\ UNCHANGED <<opened, task>> /\ holds[r] \in Writers /\ holds[r] <= opened
        /\ task[holds[r]] # "gone"
        /\ queue' = [queue EXCEPT ![holds[r]] = Append(queue[holds[r]], r)]
        /\ pc' = [pc EXCEPT ![r] = "waiting"]
    BY <1>3 DEF Send, slotVars, IInv, Types, HoldsOne, Writers
  <2>2. queue[holds[r]] \in Seq(Commands) /\ r \in Commands
    BY <2>1 DEF IInv, Types, Commands
  <2>3. \A w \in Writers : \A c : Names(queue[w], c) => Names(queue'[w], c)
    BY <2>1, <2>2, NamesSent DEF IInv, Types
  <2>4. Names(queue'[holds[r]], r)
    BY <2>1, <2>2, NamesSent DEF IInv, Types
  <2>5. Runs(holds[r])
    BY <2>1 DEF TasksFit, Runs, IInv, Types
  <2>6. TasksFit'
    BY <1>1, <2>1 DEF TasksFit, IInv, Types
  <2>7. \A w \in Writers : Runs(w)' <=> Runs(w)
    BY <2>1 DEF Runs
  <2>8. ASSUME NEW q \in Requests, pc'[q] = "waiting" PROVE Served(q)'
    <3>1. CASE q = r
      BY <2>1, <2>4, <2>5, <2>7, <3>1 DEF Served
    <3>2. CASE q # r
      <4>1. pc[q] = "waiting"
        BY <2>1, <2>8, <3>2 DEF IInv, Types
      <4>. QED
        BY <1>1, <2>3, <2>7, <4>1 DEF NoneForgotten, Served
    <3>. QED
      BY <3>1, <3>2
  <2>9. ASSUME NEW x \in Closers, closer'[x] = "awaiting" PROVE Heard(x, closing[x])'
    <3>1. closing[x] \in Writers /\ Heard(x, closing[x])
      BY <1>1, <2>9 DEF IInv, Types, ClosingIsDetached, Writers, NoneForgotten
    <3>. QED
      BY <1>1, <2>1, <2>3, <2>7, <3>1 DEF Heard
  <2>. QED
    BY <2>6, <2>8, <2>9 DEF NoneForgotten
<1>4. ASSUME ~Open(r), ~Send(r) PROVE TasksFit' /\ NoneForgotten'
  <2>1. UNCHANGED <<opened, task, queue>> /\ \E place \in {"lookup", "missed", "holding", "done"} :
                                               pc' = [pc EXCEPT ![r] = place]
    BY <1>4 DEF Proceed, ClientStep, Lookup, SecondCheck, FileMissing, OpenFails, Refuse, Finish,
                Query, Cancel, Return, Leave, Hold, Begin, slotVars
  <2>2. TasksFit'
    BY <1>1, <2>1 DEF TasksFit
  <2>3. \A q \in Requests : pc'[q] = "waiting" => pc[q] = "waiting"
    BY <2>1 DEF IInv, Types
  <2>. QED
    BY <1>1, <2>1, <2>2, <2>3 DEF NoneForgotten, Served, Heard, Runs
<1>. QED
  BY <1>2, <1>3, <1>4

\* A writer drops nothing without an answer.
LEMMA TaskServes ==
    ASSUME IInv, VInv, OtherTypes, TasksFit, NoneForgotten, NEW w \in Writers, TaskStep(w)
    PROVE  TasksFit' /\ NoneForgotten'
<1>. USE ConstantsAssumption
<1>1. UNCHANGED <<pc, opened, closer, closing>>
  BY DEF TaskStep, TaskFrame, requestVars, slotVars, closerVars
<1>2. /\ task \in [Writers -> Live \cup {"unborn", "closing", "gone"}]
      /\ queue \in [Writers -> Seq(Commands)] /\ batch \in [Writers -> Seq(Requests)]
      /\ stop \in [Writers -> Closers \cup {None}]
      /\ reply \in [Requests -> {None, "ok", "failed", "stopped"}]
      /\ Requests \cap Closers = {} /\ Commands = Requests \cup Closers
      /\ shutdownReply \in [Closers -> BOOLEAN]
  BY DEF IInv, Types, VInv, VerdictTypes, OtherTypes, Commands
<1>3. \A x \in Closers : closer[x] = "awaiting" => closing[x] \in Writers
  BY DEF IInv, Types, ClosingIsDetached, Writers
<1>4. \A r \in Requests : Names(batch[w], r) => task[w] \in {"collect", "write", "answer"}
  BY DEF VInv, BatchUnanswered, Batched, Names
\* What the other writers have, and what has been answered, stays.
<1>5. ASSUME \A v \in Writers \ {w} : /\ task'[v] = task[v] /\ queue'[v] = queue[v]
                                      /\ batch'[v] = batch[v] /\ stop'[v] = stop[v],
             \A r \in Requests : reply[r] # None => reply'[r] # None,
             \A x \in Closers : shutdownReply[x] => shutdownReply'[x],
             \A r \in Requests : Runs(w) /\ (Names(queue[w], r) \/ Names(batch[w], r)) =>
               \/ reply'[r] # None
               \/ Runs(w)' /\ (Names(queue'[w], r) \/ Names(batch'[w], r)),
             \A x \in Closers : Heard(x, w) => Heard(x, w)'
      PROVE  NoneForgotten'
  <2>1. ASSUME NEW r \in Requests, pc'[r] = "waiting" PROVE Served(r)'
    <3>1. Served(r)
      BY <1>1, <2>1 DEF NoneForgotten
    <3>2. CASE reply[r] # None
      BY <1>5, <3>2 DEF Served
    <3>3. CASE reply[r] = None
      <4>1. PICK v \in Writers : Runs(v) /\ (Names(queue[v], r) \/ Names(batch[v], r))
        BY <3>1, <3>3 DEF Served
      <4>2. CASE v = w
        BY <1>5, <4>1, <4>2 DEF Served
      <4>3. CASE v # w
        BY <1>5, <4>1, <4>3 DEF Served, Runs
      <4>. QED
        BY <4>2, <4>3
    <3>. QED
      BY <3>2, <3>3
  <2>2. ASSUME NEW x \in Closers, closer'[x] = "awaiting" PROVE Heard(x, closing[x])'
    <3>1. Heard(x, closing[x]) /\ closing[x] \in Writers /\ closing'[x] = closing[x]
      BY <1>1, <1>3, <2>2 DEF NoneForgotten
    <3>2. CASE closing[x] = w
      BY <1>5, <3>1, <3>2
    <3>3. CASE closing[x] # w
      BY <1>5, <3>1, <3>3 DEF Heard, Runs
    <3>. QED
      BY <3>2, <3>3
  <2>. QED
    BY <2>1, <2>2 DEF NoneForgotten
<1>6. CASE Recv(w)
  <2>1. /\ task[w] = "recv" /\ queue[w] # <<>> /\ queue' = [queue EXCEPT ![w] = Tail(queue[w])]
        /\ UNCHANGED <<stop, reply>>
        /\ \/ /\ Head(queue[w]) \in Requests
              /\ task' = [task EXCEPT ![w] = "collect"] /\ shutdownReply' = shutdownReply
              /\ batch' = [batch EXCEPT ![w] = <<Head(queue[w])>>]
           \/ /\ Head(queue[w]) \notin Requests
              /\ task' = [task EXCEPT ![w] = "closing"] /\ batch' = batch
              /\ shutdownReply' = [shutdownReply EXCEPT ![Head(queue[w])] = TRUE]
    BY <1>6 DEF Recv, QueuePopped
  <2>2. \A c : Names(queue[w], c) => c = Head(queue[w]) \/ Names(Tail(queue[w]), c)
    BY <1>2, <2>1, NamesReceived
  <2>3. Names(<<Head(queue[w])>>, Head(queue[w]))
    BY DEF Names
  <2>4. TasksFit'
    BY <1>1, <1>2, <2>1 DEF TasksFit
  <2>5. Runs(w)'
    BY <1>2, <2>1 DEF Runs, Live
  <2>6. \A x \in Closers : shutdownReply[x] => shutdownReply'[x]
    BY <1>2, <2>1
  <2>7. ASSUME NEW r \in Requests, Names(queue[w], r) \/ Names(batch[w], r)
        PROVE Names(queue'[w], r) \/ Names(batch'[w], r)
    BY <1>2, <1>4, <2>1, <2>2, <2>3, <2>7
  <2>8. ASSUME NEW x \in Closers, Heard(x, w) PROVE Heard(x, w)'
    BY <1>2, <2>1, <2>2, <2>5, <2>8 DEF Heard
  <2>. QED
    BY <1>2, <1>5, <2>1, <2>4, <2>5, <2>6, <2>7, <2>8
<1>7. CASE Collect(w)
  <2>1. /\ task[w] = "collect" /\ queue[w] # <<>> /\ queue' = [queue EXCEPT ![w] = Tail(queue[w])]
        /\ UNCHANGED <<reply, shutdownReply>>
        /\ \/ /\ Head(queue[w]) \in Requests /\ UNCHANGED <<task, stop>>
              /\ batch' = [batch EXCEPT ![w] = Append(batch[w], Head(queue[w]))]
           \/ /\ Head(queue[w]) \notin Requests /\ batch' = batch
              /\ stop' = [stop EXCEPT ![w] = Head(queue[w])]
              /\ task' = [task EXCEPT ![w] = "write"]
    BY <1>7 DEF Collect, QueuePopped
  <2>2. \A c : Names(queue[w], c) => c = Head(queue[w]) \/ Names(Tail(queue[w]), c)
    BY <1>2, <2>1, NamesReceived
  <2>3. ASSUME Head(queue[w]) \in Requests
        PROVE  \A c : Names(batch[w], c) \/ c = Head(queue[w]) => Names(batch'[w], c)
    <3>1. batch'[w] = Append(batch[w], Head(queue[w])) /\ batch[w] \in Seq(Requests)
      BY <1>2, <2>1, <2>3
    <3>. QED
      BY <2>3, <3>1, NamesSent
  <2>4. TasksFit'
    BY <1>1, <1>2, <2>1 DEF TasksFit
  <2>5. Runs(w)'
    BY <1>2, <2>1 DEF Runs, Live
  <2>6. ASSUME NEW r \in Requests, Names(queue[w], r) \/ Names(batch[w], r)
        PROVE Names(queue'[w], r) \/ Names(batch'[w], r)
    BY <1>2, <2>1, <2>2, <2>3, <2>6
  <2>7. ASSUME NEW x \in Closers, Heard(x, w) PROVE Heard(x, w)'
    <3>1. shutdownReply[x] \/ x = Head(queue[w]) \/ Names(queue'[w], x)
      BY <1>2, <2>1, <2>2, <2>7 DEF Heard
    <3>2. x = Head(queue[w]) => task'[w] = "write" /\ stop'[w] = x
      BY <1>2, <2>1
    <3>. QED
      BY <2>1, <2>5, <3>1, <3>2 DEF Heard
  <2>. QED
    BY <1>2, <1>5, <2>1, <2>4, <2>5, <2>6, <2>7
<1>8. CASE NoSenders(w) \/ Seal(w) \/ Retry(w) \/ Commit(w) \/ Abort(w)
  <2>1. /\ UNCHANGED <<queue, batch, stop, reply, shutdownReply>>
        /\ \/ task[w] = "recv" /\ task' = [task EXCEPT ![w] = "closing"]
           \/ /\ task[w] \in {"collect", "write"}
              /\ \E t \in {"write", "answer"} : task' = [task EXCEPT ![w] = t]
    BY <1>2, <1>8 DEF NoSenders, Seal, Retry, Commit, Abort, batchVars
  <2>2. TasksFit'
    BY <1>1, <1>2, <2>1 DEF TasksFit
  <2>3. Runs(w)'
    BY <1>2, <2>1 DEF Runs, Live
  <2>4. \A x \in Closers : Heard(x, w) => Heard(x, w)'
    BY <1>2, <2>1, <2>3 DEF Heard
  <2>. QED
    BY <1>2, <1>5, <2>1, <2>2, <2>3, <2>4
<1>9. CASE Answer(w)
  <2>1. /\ task[w] = "answer" /\ UNCHANGED <<queue, stop>>
        /\ batch' = [batch EXCEPT ![w] = <<>>]
        /\ \/ stop[w] = None /\ task' = [task EXCEPT ![w] = "recv"] /\ shutdownReply' = shutdownReply
           \/ /\ stop[w] # None /\ task' = [task EXCEPT ![w] = "closing"]
              /\ shutdownReply' = [shutdownReply EXCEPT ![stop[w]] = TRUE]
    BY <1>9 DEF Answer, StopAsked
  <2>2. \A r \in Requests : Names(batch[w], r) \/ reply[r] # None => reply'[r] # None
    BY <1>9, NoneAssumption DEF Answer, Told, Names
  <2>3. TasksFit'
    BY <1>1, <1>2, <2>1 DEF TasksFit
  <2>4. Runs(w)'
    BY <1>2, <2>1 DEF Runs, Live
  <2>5. \A x \in Closers : shutdownReply[x] => shutdownReply'[x]
    BY <1>2, <2>1
  <2>6. ASSUME NEW x \in Closers, Heard(x, w) PROVE Heard(x, w)'
    <3>1. CASE shutdownReply[x] \/ Names(queue[w], x)
      BY <2>1, <2>4, <2>5, <3>1 DEF Heard
    <3>2. CASE stop[w] = x
      <4>1. shutdownReply'[x]
        BY <1>2, <2>1, <3>2, NoneAssumption
      <4>. QED
        BY <4>1 DEF Heard
    <3>. QED
      BY <2>6, <3>1, <3>2 DEF Heard
  <2>. QED
    BY <1>2, <1>5, <2>1, <2>2, <2>3, <2>4, <2>5, <2>6
<1>10. CASE Exit(w)
  <2>1. /\ task[w] = "closing" /\ UNCHANGED <<batch, stop>>
        /\ task' = [task EXCEPT ![w] = "gone"] /\ queue' = [queue EXCEPT ![w] = <<>>]
    BY <1>10 DEF Exit, batchVars
  <2>2. \A r \in Requests : Names(queue[w], r) \/ reply[r] # None => reply'[r] # None
    BY <1>10, NoneAssumption DEF Exit, Told, Names
  <2>3. \A x \in Closers : Names(queue[w], x) \/ shutdownReply[x] => shutdownReply'[x]
    BY <1>10 DEF Exit, Names
  <2>4. TasksFit'
    BY <1>1, <1>2, <2>1 DEF TasksFit
  <2>5. ASSUME NEW x \in Closers, Heard(x, w) PROVE Heard(x, w)'
    BY <2>1, <2>3, <2>5 DEF Heard
  <2>. QED
    BY <1>2, <1>4, <1>5, <2>1, <2>2, <2>3, <2>4, <2>5
<1>. QED
  BY <1>6, <1>7, <1>8, <1>9, <1>10 DEF TaskStep

\* A shutdown reaches a writer that runs, or finds that it has gone.
LEMMA CloserHeard ==
    ASSUME IInv, OtherTypes, TasksFit, NoneForgotten, NEW x \in Closers,
           CloseStep(x) \/ StartOrLeave(x)
    PROVE  TasksFit' /\ NoneForgotten'
<1>. USE ConstantsAssumption
<1>1. UNCHANGED <<pc, reply, task, batch, stop>>
  BY DEF CloseStep, StartOrLeave, CloserFrame, requestVars, batchVars
<1>2. CASE SendShutdown(x)
  <2>1. /\ UNCHANGED <<opened, closing>> /\ closer' = [closer EXCEPT ![x] = "awaiting"]
        /\ closing[x] \in Writers /\ closing[x] <= opened
        /\ \/ /\ task[closing[x]] = "gone" /\ queue' = queue
              /\ shutdownReply' = [shutdownReply EXCEPT ![x] = TRUE]
           \/ /\ task[closing[x]] # "gone" /\ shutdownReply' = shutdownReply
              /\ queue' = [queue EXCEPT ![closing[x]] = Append(queue[closing[x]], x)]
    BY <1>2 DEF SendShutdown, slotVars, IInv, Types, ClosingIsDetached, Writers
  <2>2. queue[closing[x]] \in Seq(Commands) /\ x \in Commands
    BY <2>1 DEF IInv, Types, Commands
  <2>3. ASSUME NEW w \in Writers, NEW c, Names(queue[w], c) PROVE Names(queue'[w], c)
    <3>1. \/ queue'[w] = queue[w]
          \/ w = closing[x] /\ queue'[w] = Append(queue[w], x)
      BY <2>1 DEF IInv, Types
    <3>2. Names(Append(queue[closing[x]], x), c) <=> Names(queue[closing[x]], c) \/ x = c
      BY <2>2, NamesSent
    <3>3. CASE queue'[w] = queue[w]
      BY <2>3, <3>3 DEF Names
    <3>4. CASE w = closing[x] /\ queue'[w] = Append(queue[w], x)
      BY <2>3, <3>2, <3>4
    <3>. QED
      BY <3>1, <3>3, <3>4
  <2>4. task[closing[x]] # "gone" => Names(queue'[closing[x]], x) /\ Runs(closing[x])
    <3>1. ASSUME task[closing[x]] # "gone" PROVE Names(queue'[closing[x]], x)
      <4>1. queue'[closing[x]] = Append(queue[closing[x]], x)
        BY <2>1, <3>1 DEF IInv, Types
      <4>. QED
        BY <2>2, <4>1, NamesSent
    <3>2. ASSUME task[closing[x]] # "gone" PROVE Runs(closing[x])
      BY <2>1, <3>2 DEF TasksFit, Runs, IInv, Types
    <3>. QED
      BY <3>1, <3>2
  <2>5. TasksFit'
    BY <1>1, <2>1 DEF TasksFit, IInv, Types
  <2>6. \A w \in Writers : Runs(w)' <=> Runs(w)
    BY <1>1 DEF Runs
  <2>7. \A r \in Requests : Served(r) => Served(r)'
    BY <1>1, <2>3, <2>6 DEF Served
  <2>8. ASSUME NEW y \in Closers, closer'[y] = "awaiting" PROVE Heard(y, closing[y])'
    <3>1. CASE y = x
      <4>1. task[closing[x]] = "gone" => shutdownReply'[x]
        BY <2>1 DEF OtherTypes
      <4>. QED
        BY <2>1, <2>4, <2>6, <3>1, <4>1 DEF Heard
    <3>2. CASE y # x
      <4>1. closer[y] = "awaiting" /\ closing[y] \in Writers /\ Heard(y, closing[y])
        BY <2>1, <2>8, <3>2 DEF IInv, Types, ClosingIsDetached, Writers, NoneForgotten
      <4>2. shutdownReply[y] => shutdownReply'[y]
        BY <2>1, <3>2 DEF OtherTypes
      <4>. QED
        BY <1>1, <2>1, <2>3, <2>6, <4>1, <4>2 DEF Heard
    <3>. QED
      BY <3>1, <3>2
  <2>. QED
    BY <1>1, <2>5, <2>7, <2>8 DEF NoneForgotten
<1>3. CASE ~SendShutdown(x)
  <2>1. /\ UNCHANGED <<opened, queue>>
        /\ \E s \in {"sending", "removing", "ready", "done"} : closer' = [closer EXCEPT ![x] = s]
        /\ closing' = closing \/ \E v : closing' = [closing EXCEPT ![x] = v]
        /\ shutdownReply' = shutdownReply \/ shutdownReply' = [shutdownReply EXCEPT ![x] = FALSE]
    BY <1>3 DEF CloseStep, StartOrLeave, ClosePool, RemoveDir, DetachIdle, DetachForDrop, Detach,
                Abandon, slotVars
  <2>2. /\ TasksFit'
        /\ \A y \in Closers \ {x} : closing'[y] = closing[y] /\ shutdownReply'[y] = shutdownReply[y]
    BY <1>1, <2>1 DEF TasksFit, IInv, Types, OtherTypes
  <2>3. \A y \in Closers : closer'[y] = "awaiting" => y # x /\ closer[y] = "awaiting"
    BY <2>1 DEF IInv, Types
  <2>. QED
    BY <1>1, <2>1, <2>2, <2>3 DEF NoneForgotten, Served, Heard, Runs
<1>. QED
  BY <1>2, <1>3

\* store.rs:335-369 and 723-795: whatever batches fail, however full the
\* queue is and whenever a shard is closed, a PUT that waits has its verdict or
\* its command is with a writer that has not gone, and a task that closes a
\* shard has its answer or its shutdown is with the writer.
THEOREM NobodyForgotten == Spec => []NoneForgotten
<1>1. Init => TasksFit /\ NoneForgotten
  BY ConstantsAssumption DEF Init, TasksFit, NoneForgotten, Writers
<1>2. IInv /\ VInv /\ OtherTypes /\ TasksFit /\ NoneForgotten /\ [Next]_vars => (TasksFit /\ NoneForgotten)'
  <2>. SUFFICES ASSUME IInv, VInv, OtherTypes, TasksFit, NoneForgotten, [Next]_vars
                PROVE  TasksFit' /\ NoneForgotten'
    OBVIOUS
  <2>1. CASE UNCHANGED vars
    BY <2>1 DEF vars, requestVars, slotVars, batchVars, closerVars, TasksFit, NoneForgotten,
                Served, Heard, Runs
  <2>. QED
    BY <2>1, RequestServed, TaskServes, CloserHeard DEF Next
<1>. QED
  BY <1>1, <1>2, AllInvariant, InitTypes, NextTypes, PTL DEF Spec
==============================================================================
