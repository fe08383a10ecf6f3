---------------------------- MODULE CatalogProofs ----------------------------
(***************************************************************************)
(* For any requests, administrators, layers, bounds and faults: an         *)
(* operation of the administrator acts on rows that include every message  *)
(* sent before its flush, but for those lost with an earlier one; only a   *)
(* mark given between a rebuild's reading and its transaction is taken     *)
(* away; the database row is the sum of its layers' rows; and these are    *)
(* what the files hold, less what messages on their way will bring, unless *)
(* the history says why not.  Who waits for a flush is known to the        *)
(* writer, and the lock is never left behind.                              *)
(***************************************************************************)
EXTENDS Catalog, FiniteSetTheorems, TLAPS

\* What can be said of the flushes without the sums of the rows.
FlushTypes ==
    /\ pc \in [Requests -> {"new", "stored", "done"}]
    /\ queue \in Seq(Requests \cup Admins)
    /\ pending \subseteq Requests /\ batch \subseteq Requests
    /\ asker \in Admins \cup {None}
    /\ step \in [Admins -> Steps]
    /\ covered \in [Admins -> SUBSET Requests]
    /\ writer = "idle" => batch = {} /\ asker = None

\* What has been sent is not sent again.
SentOnce ==
    /\ \A r \in Requests : Sent(r) => pc[r] = "done"
    /\ \A a \in Admins : \A r \in covered[a] : pc[r] = "done"

\* An operation asks for one flush.
AskedOnce ==
    \A a \in Admins : step[a] \in {"ready", "asking"} =>
        asker # a /\ \A n \in DOMAIN queue : queue[n] # a

\* The messages that a queued flush covers are ahead of it in the queue or have
\* been received, those of one under way are in its batch.
FlushCovers ==
    \A a \in Admins : step[a] = "waiting" =>
        /\ \A n \in DOMAIN queue : queue[n] = a =>
             \A m \in DOMAIN queue : queue[m] \in covered[a] => m < n
        /\ asker = a => \A r \in covered[a] : r \notin Queued \cup pending
        /\ \A r \in covered[a] : Sent(r)

FlushInv == FlushTypes /\ SentOnce /\ AskedOnce /\ FlushCovers /\ ActsOnFreshRows

\* It holds at the start.
LEMMA InitFlush == Init => FlushInv
BY ConstantsAssumption DEF Init, FlushInv, FlushTypes, SentOnce, AskedOnce, FlushCovers,
   ActsOnFreshRows, Steps, Sent, Queued

\* A step that leaves the flushes alone, and no operation before its flush.
LEMMA AsideKeeps ==
    ASSUME FlushInv, UNCHANGED <<queue, pending, batch, writer, asker>>,
           covered' \in [Admins -> SUBSET Requests], \A a \in Admins : covered'[a] \subseteq covered[a],
           pc' \in [Requests -> {"new", "stored", "done"}], step' \in [Admins -> Steps],
           \A r \in Requests : pc[r] = "done" => pc'[r] = "done",
           \A a \in Admins : \/ step'[a] = step[a]
                             \/ step'[a] \notin {"ready", "asking", "waiting", "acting"}
                             \/ step[a] = "ready" /\ step'[a] = "asking"
    PROVE FlushInv'
<1>1. \A r \in Requests : Sent(r)' <=> Sent(r)
  BY DEF Sent, Queued
<1>2. FlushTypes' /\ SentOnce'
  BY <1>1 DEF FlushInv, FlushTypes, SentOnce
<1>3. AskedOnce'
  BY DEF FlushInv, AskedOnce
<1>4. FlushCovers'
  <2>1. ASSUME NEW a \in Admins, step'[a] = "waiting" PROVE step[a] = "waiting"
    BY <2>1
  <2> QED
    BY <1>1, <2>1 DEF FlushInv, FlushTypes, FlushCovers, Queued
<1>5. ActsOnFreshRows'
  BY DEF FlushInv, ActsOnFreshRows
<1> QED
  BY <1>2, <1>3, <1>4, <1>5 DEF FlushInv

\* Who is in the queue after a command has been received.
LEMMA Received ==
    ASSUME FlushTypes, queue # <<>>, queue' = Tail(queue)
    PROVE /\ queue' \in Seq(Requests \cup Admins)
          /\ \A n \in DOMAIN queue' : n + 1 \in DOMAIN queue /\ queue'[n] = queue[n + 1]
          /\ Head(queue) = queue[1] /\ 1 \in DOMAIN queue
          /\ Queued' \subseteq Queued
          /\ Queued \subseteq Queued' \cup {Head(queue)}
<1> USE DEF FlushTypes
<1>1. queue' \in Seq(Requests \cup Admins) /\ Len(queue') = Len(queue) - 1 /\ Len(queue) >= 1
  OBVIOUS
<1>2. \A n \in DOMAIN queue' : n + 1 \in DOMAIN queue /\ queue'[n] = queue[n + 1]
  BY <1>1
<1>3. Head(queue) = queue[1] /\ 1 \in DOMAIN queue
  BY <1>1
<1>4. Queued' \subseteq Queued
  BY <1>2 DEF Queued
<1>5. ASSUME NEW n \in DOMAIN queue PROVE n = 1 \/ (n - 1 \in DOMAIN queue' /\ queue'[n - 1] = queue[n])
  <2>1. n \in 1..Len(queue)
    OBVIOUS
  <2>2. CASE n = 1
    BY <2>2
  <2>3. CASE n # 1
    <3>1. n - 1 \in 1..Len(queue')
      BY <1>1, <2>1, <2>3
    <3>2. n - 1 \in DOMAIN queue' /\ (n - 1) + 1 = n
      BY <1>1, <2>1, <3>1
    <3> QED
      BY <1>2, <3>2
  <2> QED
    BY <2>2, <2>3
<1>6. Queued \subseteq Queued' \cup {Head(queue)}
  BY <1>3, <1>5 DEF Queued
<1> QED
  BY <1>1, <1>2, <1>3, <1>4, <1>6

\* What is appended comes after what is queued.
LEMMA Appended ==
    ASSUME FlushTypes, NEW x \in Requests \cup Admins, queue' = Append(queue, x)
    PROVE /\ queue' \in Seq(Requests \cup Admins)
          /\ \A n \in DOMAIN queue' : \/ n \in DOMAIN queue /\ queue'[n] = queue[n]
                                      \/ n = Len(queue) + 1 /\ queue'[n] = x
          /\ \A n \in DOMAIN queue : n < Len(queue) + 1 /\ n \in DOMAIN queue' /\ queue'[n] = queue[n]
          /\ Queued' = Queued \cup ({x} \cap Requests)
<1> USE DEF FlushTypes
<1>1. queue' \in Seq(Requests \cup Admins) /\ Len(queue') = Len(queue) + 1
  OBVIOUS
<1>2. \A n \in DOMAIN queue' : \/ n \in DOMAIN queue /\ queue'[n] = queue[n]
                               \/ n = Len(queue) + 1 /\ queue'[n] = x
  BY <1>1
<1>3. \A n \in DOMAIN queue : n < Len(queue) + 1 /\ n \in DOMAIN queue' /\ queue'[n] = queue[n]
  BY <1>1
<1>4. Len(queue) + 1 \in DOMAIN queue' /\ queue'[Len(queue) + 1] = x
  BY <1>1
<1>5. Queued' = Queued \cup ({x} \cap Requests)
  BY <1>2, <1>3, <1>4 DEF Queued
<1> QED
  BY <1>1, <1>2, <1>3, <1>5

\* PUTs: one that is new or stored has not been sent, and is sent once.
LEMMA PutFlush ==
    ASSUME FlushInv, NEW r \in Requests, PutStep(r) \/ ClientStep(r)
    PROVE FlushInv'
<1> USE ConstantsAssumption
<1>1. ASSUME ClientStep(r) PROVE FlushInv'
  <2>1. /\ UNCHANGED <<queue, pending, batch, writer, asker, covered, step>>
        /\ pc[r] # "done" /\ \E place \in {"stored", "done"} : pc' = [pc EXCEPT ![r] = place]
    BY <1>1 DEF ClientStep, Store, StoreLoose, Cancel, PutFrame, flushVars, adminVars
  <2>2. pc' \in [Requests -> {"new", "stored", "done"}] /\ step' \in [Admins -> Steps]
    BY <2>1 DEF FlushInv, FlushTypes
  <2> QED
    BY <2>1, <2>2, AsideKeeps DEF FlushInv, FlushTypes
<1>2. ASSUME PutStep(r) PROVE FlushInv'
  <2>1. /\ pc[r] = "stored" /\ pc' = [pc EXCEPT ![r] = "done"]
        /\ queue' = Append(queue, r)
        /\ UNCHANGED <<pending, batch, writer, asker, step, covered>>
    BY <1>2 DEF PutStep, Enqueue, PutFrame, flushVars, adminVars
  <2>2. /\ queue' \in Seq(Requests \cup Admins)
        /\ \A n \in DOMAIN queue' : \/ n \in DOMAIN queue /\ queue'[n] = queue[n]
                                    \/ n = Len(queue) + 1 /\ queue'[n] = r
        /\ Queued' = Queued \cup {r}
    BY <2>1, Appended DEF FlushInv
  <2>3. FlushTypes'
    BY <2>1, <2>2 DEF FlushInv, FlushTypes
  <2>4. \A a \in Admins : r \notin covered[a]
    BY <2>1 DEF FlushInv, SentOnce
  <2>5. SentOnce'
    BY <2>1, <2>2 DEF FlushInv, FlushTypes, SentOnce, Sent
  <2>6. AskedOnce'
    BY <2>1, <2>2 DEF FlushInv, AskedOnce
  <2>7. FlushCovers'
    <3>1. \A x \in Requests : Sent(x) => Sent(x)'
      BY <2>1, <2>2 DEF Sent
    <3> QED
      BY <2>1, <2>2, <2>4, <3>1 DEF FlushInv, FlushTypes, FlushCovers
  <2>8. ActsOnFreshRows'
    BY <2>1 DEF FlushInv, ActsOnFreshRows
  <2> QED
    BY <2>3, <2>5, <2>6, <2>7, <2>8 DEF FlushInv
<1> QED
  BY <1>1, <1>2

\* The writer task: a flush is confirmed when its batch has been written.
LEMMA WriterFlush == ASSUME FlushInv, WriterStep PROVE FlushInv'
<1> USE ConstantsAssumption
<1>1. UNCHANGED pc
  BY DEF WriterStep, putVars
<1>2. ASSUME Receive PROVE FlushInv'
  <2>1. /\ writer = "idle" /\ queue # <<>> /\ Head(queue) \in Requests /\ queue' = Tail(queue)
        /\ UNCHANGED <<step, covered>>
        /\ \/ /\ pending' = {} /\ batch' = pending \cup {Head(queue)}
              /\ writer' = "flushing" /\ asker' = None
           \/ /\ pending' = pending \cup {Head(queue)}
              /\ UNCHANGED <<writer, batch, asker>>
    BY <1>2 DEF Receive, StartFlush, flushVars
  <2>2. /\ queue' \in Seq(Requests \cup Admins)
        /\ \A n \in DOMAIN queue' : n + 1 \in DOMAIN queue /\ queue'[n] = queue[n + 1]
        /\ Head(queue) = queue[1] /\ 1 \in DOMAIN queue
        /\ Queued' \subseteq Queued /\ Head(queue) \in Queued
        /\ Queued \subseteq Queued' \cup {Head(queue)}
    BY <2>1, Received DEF FlushInv, Queued
  <2>3. FlushTypes'
    BY <1>1, <2>1, <2>2 DEF FlushInv, FlushTypes
  <2>4. \A r \in Requests : Sent(r)' <=> Sent(r)
    BY <2>1, <2>2 DEF Sent, FlushInv, FlushTypes
  <2>5. SentOnce' /\ ActsOnFreshRows'
    BY <1>1, <2>1, <2>4 DEF FlushInv, FlushTypes, SentOnce, ActsOnFreshRows
  <2>6. AskedOnce'
    BY <2>1, <2>2 DEF FlushInv, AskedOnce
  <2>7. FlushCovers'
    <3>1. asker = None /\ asker' = None
      BY <2>1 DEF FlushInv, FlushTypes
    <3>2. ASSUME NEW a \in Admins, step'[a] = "waiting", NEW n \in DOMAIN queue', queue'[n] = a,
                 NEW m \in DOMAIN queue', queue'[m] \in covered'[a]
          PROVE m < n
      <4>1. m + 1 < n + 1
        BY <1>1, <2>1, <2>2, <3>2 DEF FlushInv, FlushCovers
      <4> QED
        BY <4>1, <2>2
    <3>3. ASSUME NEW a \in Admins, step'[a] = "waiting", NEW r \in covered'[a] PROVE Sent(r)'
      BY <2>1, <2>4, <3>3 DEF FlushInv, FlushTypes, FlushCovers
    <3> QED
      BY <3>1, <3>2, <3>3 DEF FlushCovers
  <2> QED
    BY <2>3, <2>5, <2>6, <2>7 DEF FlushInv
<1>3. ASSUME Tick PROVE FlushInv'
  <2>1. /\ writer = "idle" /\ pending' = {} /\ batch' = pending
        /\ writer' = "flushing" /\ asker' = None /\ UNCHANGED <<queue, step, covered>>
    BY <1>3 DEF Tick, StartFlush
  <2>2. FlushTypes'
    BY <1>1, <2>1 DEF FlushInv, FlushTypes
  <2>3. \A r \in Requests : Sent(r)' <=> Sent(r)
    BY <2>1 DEF Sent, Queued, FlushInv, FlushTypes
  <2>4. SentOnce' /\ ActsOnFreshRows'
    BY <1>1, <2>1, <2>3 DEF FlushInv, FlushTypes, SentOnce, ActsOnFreshRows
  <2>5. AskedOnce'
    BY <1>1, <2>1 DEF FlushInv, AskedOnce
  <2>6. FlushCovers'
    BY <2>1, <2>3, ConstantsAssumption DEF FlushInv, FlushTypes, FlushCovers
  <2> QED
    BY <2>2, <2>4, <2>5, <2>6 DEF FlushInv
<1>4. ASSUME FailFlush \/ WriteBatch PROVE FlushInv'
  <2>1. /\ writer' = "idle" /\ batch' = {} /\ asker' = None /\ UNCHANGED <<queue, pending>>
        /\ \E outcome \in {"done", "acting"} : step' = Answer(asker, outcome)
    BY <1>4 DEF FailFlush, WriteBatch, EndFlush
  <2>2. step' \in [Admins -> Steps]
    BY <2>1 DEF FlushInv, FlushTypes, Answer, Steps
  <2>9. covered' \in [Admins -> SUBSET Requests]
    <3>1. \A a \in Admins : covered[a] \subseteq Requests
      BY DEF FlushInv, FlushTypes
    <3>2. CASE WriteBatch
      BY <3>1, <3>2 DEF WriteBatch
    <3>3. CASE FailFlush
      <4>1. covered' = [x \in Admins |-> IF step'[x] = "done" THEN {}
                                         ELSE IF x = asker THEN covered[x] ELSE covered[x] \ batch]
        BY <3>3 DEF FailFlush
      <4> HIDE DEF FailFlush
      <4> QED
        BY <3>1, <4>1
    <3> QED
      BY <1>4, <3>2, <3>3
  <2>10. ASSUME NEW a \in Admins
         PROVE /\ covered'[a] \subseteq covered[a]
               /\ covered'[a] = covered[a] \ batch
                  \/ (step'[a] = "done" /\ covered'[a] = {}) \/ (FailFlush /\ a = asker)
    <3>1. CASE WriteBatch
      BY <3>1 DEF WriteBatch
    <3>2. CASE FailFlush
      <4>1. covered' = [x \in Admins |-> IF step'[x] = "done" THEN {}
                                         ELSE IF x = asker THEN covered[x] ELSE covered[x] \ batch]
        BY <3>2 DEF FailFlush
      <4> HIDE DEF FailFlush
      <4> QED
        BY <3>2, <4>1
    <3> QED
      BY <1>4, <3>1, <3>2
  <2>3. FlushTypes'
    BY <1>1, <2>1, <2>2, <2>9 DEF FlushInv, FlushTypes
  <2>4. \A r \in Requests : Sent(r)' => Sent(r) /\ r \in Queued \cup pending
    BY <2>1 DEF Sent, Queued
  <2>5. SentOnce'
    BY <1>1, <2>4, <2>10 DEF FlushInv, FlushTypes, SentOnce
  <2>6. ASSUME NEW a \in Admins
        PROVE \/ step'[a] = step[a] /\ (a = asker => step[a] # "waiting")
              \/ (a = asker /\ step[a] = "waiting" /\ step'[a] \in {"done", "acting"})
    BY <2>1 DEF Answer, FlushInv, FlushTypes
  <2>11. ASSUME NEW a \in Admins, a = asker, step[a] = "waiting", FailFlush PROVE step'[a] = "done"
    BY <2>11 DEF FailFlush, EndFlush, Answer, FlushInv, FlushTypes
  <2>7. AskedOnce'
    BY <1>1, <2>1, <2>6 DEF FlushInv, AskedOnce
  <2>12. FlushCovers'
    <3> SUFFICES ASSUME NEW a \in Admins, step'[a] = "waiting"
                 PROVE /\ \A n \in DOMAIN queue' : queue'[n] = a =>
                            \A m \in DOMAIN queue' : queue'[m] \in covered'[a] => m < n
                       /\ asker' = a => \A r \in covered'[a] : r \notin (Queued \cup pending)'
                       /\ \A r \in covered'[a] : Sent(r)'
      BY DEF FlushCovers
    <3>1. step[a] = "waiting" /\ a # asker
      BY <2>6
    <3>2. covered'[a] = covered[a] \ batch
      BY <2>10, <3>1
    <3>3. \A r \in covered'[a] : Sent(r)'
      BY <2>1, <3>1, <3>2 DEF FlushInv, FlushCovers, Sent, Queued
    <3> QED
      BY <2>1, <3>1, <3>2, <3>3, ConstantsAssumption DEF FlushInv, FlushCovers
  <2>8. ActsOnFreshRows'
    <3> SUFFICES ASSUME NEW a \in Admins, step'[a] = "acting" PROVE covered'[a] = {}
      BY DEF ActsOnFreshRows
    <3>1. CASE step[a] = "acting"
      BY <2>10, <3>1 DEF FlushInv, ActsOnFreshRows
    <3>2. CASE step[a] # "acting"
      <4>1. a = asker /\ step[a] = "waiting" /\ ~FailFlush
        BY <2>6, <2>11, <3>2
      <4>2. covered'[a] = covered[a] \ batch
        BY <2>10, <4>1
      <4>3. \A r \in covered[a] : r \in batch
        BY <4>1 DEF FlushInv, FlushCovers, Sent
      <4> QED
        BY <4>2, <4>3
    <3> QED
      BY <3>1, <3>2
  <2> QED
    BY <2>3, <2>5, <2>7, <2>8, <2>12 DEF FlushInv
<1>5. ASSUME NEW l \in Layers, Recount(l) PROVE FlushInv'
  <2>1. UNCHANGED <<queue, pending, batch, writer, asker, step, covered>>
    BY <1>5 DEF Recount
  <2> QED
    BY <1>1, <2>1, AsideKeeps DEF FlushInv, FlushTypes
<1>6. ASSUME ReceiveFlush PROVE FlushInv'
  <2> DEFINE a == Head(queue)
  <2>1. /\ writer = "idle" /\ queue # <<>> /\ a \in Admins /\ queue' = Tail(queue)
        /\ covered' = covered
        /\ \/ pending = {} /\ step' = Answer(a, "acting") /\ UNCHANGED <<pending, batch, writer, asker>>
           \/ /\ pending' = {} /\ batch' = pending /\ writer' = "flushing" /\ asker' = a
              /\ step' = step
    BY <1>6 DEF ReceiveFlush, StartFlush, flushVars
  <2>2. /\ queue' \in Seq(Requests \cup Admins)
        /\ \A n \in DOMAIN queue' : n + 1 \in DOMAIN queue /\ queue'[n] = queue[n + 1]
        /\ a = queue[1] /\ 1 \in DOMAIN queue
        /\ Queued' \subseteq Queued /\ Queued \subseteq Queued' \cup {a}
    BY <2>1, Received DEF FlushInv
  <2> HIDE DEF a
  <2>3. batch = {} /\ asker = None
    BY <2>1 DEF FlushInv, FlushTypes
  <2>4. ASSUME NEW b \in Admins
        PROVE step'[b] = step[b] \/ (b = a /\ step[b] = "waiting" /\ step'[b] = "acting" /\ pending = {}
                                     /\ UNCHANGED <<pending, batch, asker>>)
    BY <2>1 DEF Answer, FlushInv, FlushTypes
  <2>5. FlushTypes'
    <3>1. step' \in [Admins -> Steps]
      BY <2>1 DEF FlushInv, FlushTypes, Answer, Steps
    <3> QED
      BY <1>1, <2>1, <2>2, <3>1 DEF FlushInv, FlushTypes
  <2>6. \A r \in Requests : Sent(r)' <=> Sent(r)
    BY <2>1, <2>2, <2>3 DEF Sent
  <2>7. SentOnce'
    BY <1>1, <2>1, <2>6 DEF FlushInv, FlushTypes, SentOnce
  <2>8. ASSUME step[a] = "waiting" PROVE \A r \in covered[a] : r \notin Queued
    <3>1. \A m \in DOMAIN queue : m >= 1
      BY DEF FlushInv, FlushTypes
    <3>2. \A m \in DOMAIN queue : queue[m] \notin covered[a]
      BY <2>1, <2>2, <2>8, <3>1 DEF FlushInv, FlushCovers
    <3> QED
      BY <3>2 DEF Queued
  <2>9. AskedOnce'
    <3>1. ASSUME NEW b \in Admins, step'[b] \in {"ready", "asking"}
          PROVE step[b] \in {"ready", "asking"} /\ b # a
      BY <2>2, <2>4, <3>1 DEF FlushInv, AskedOnce
    <3> QED
      BY <2>1, <2>2, <3>1 DEF FlushInv, AskedOnce
  <2>10. FlushCovers'
    <3>1. ASSUME NEW b \in Admins, step'[b] = "waiting" PROVE step[b] = "waiting"
      BY <2>4, <3>1
    <3>2. ASSUME NEW b \in Admins, step'[b] = "waiting", NEW n \in DOMAIN queue', queue'[n] = b,
                 NEW m \in DOMAIN queue', queue'[m] \in covered'[b]
          PROVE m < n
      <4>1. m + 1 < n + 1
        BY <2>1, <2>2, <3>1, <3>2 DEF FlushInv, FlushCovers
      <4> QED
        BY <4>1, <2>2
    <3>3. ASSUME NEW b \in Admins, step'[b] = "waiting", asker' = b, NEW r \in covered'[b]
          PROVE r \notin (Queued \cup pending)'
      BY <1>1, <2>1, <2>2, <2>3, <2>8, <3>1, <3>3
    <3>4. ASSUME NEW b \in Admins, step'[b] = "waiting", NEW r \in covered'[b] PROVE Sent(r)'
      BY <2>1, <2>6, <3>1, <3>4 DEF FlushInv, FlushTypes, FlushCovers
    <3> QED
      BY <3>2, <3>3, <3>4 DEF FlushCovers
  <2>11. ActsOnFreshRows'
    <3>1. ASSUME NEW b \in Admins, step'[b] = "acting", step[b] # "acting" PROVE covered[b] = {}
      <4>1. b = a /\ step[b] = "waiting" /\ pending = {}
        BY <2>4, <3>1
      <4>2. \A r \in covered[b] : r \notin Queued /\ Sent(r)
        BY <2>8, <4>1 DEF FlushInv, FlushCovers
      <4> QED
        BY <2>3, <4>1, <4>2 DEF Sent
    <3> QED
      BY <2>1, <3>1 DEF FlushInv, ActsOnFreshRows
  <2> QED
    BY <2>5, <2>7, <2>9, <2>10, <2>11 DEF FlushInv
<1> QED
  BY <1>2, <1>3, <1>4, <1>5, <1>6 DEF WriterStep

\* An administrator's operation waits for one flush, and then never again.
LEMMA AdminFlush ==
    ASSUME FlushInv, NEW a \in Admins, AdminStep(a) \/ AdminStart(a)
    PROVE FlushInv'
<1> USE ConstantsAssumption
<1>1. UNCHANGED <<pc, pending, batch, writer, asker>>
  BY DEF AdminStep, AdminStart, putVars, flushVars
<1>2. ASSUME UNCHANGED queue, covered' = covered \/ covered' = [covered EXCEPT ![a] = {}],
             NEW next \in Steps, step' = [step EXCEPT ![a] = next],
             \/ next \notin {"ready", "asking", "waiting", "acting"}
             \/ step[a] = "ready" /\ next = "asking"
      PROVE FlushInv'
  <2>1. step' \in [Admins -> Steps] /\ pc' \in [Requests -> {"new", "stored", "done"}]
    BY <1>1, <1>2 DEF FlushInv, FlushTypes
  <2>2. covered' \in [Admins -> SUBSET Requests] /\ \A b \in Admins : covered'[b] \subseteq covered[b]
    BY <1>2 DEF FlushInv, FlushTypes
  <2> QED
    BY <1>1, <1>2, <2>1, <2>2, AsideKeeps DEF FlushInv, FlushTypes
<1>3. ASSUME AskFlush(a) PROVE FlushInv'
  <2>1. /\ step[a] = "asking" /\ step' = [step EXCEPT ![a] = "waiting"]
        /\ queue' = Append(queue, a)
        /\ covered' = [covered EXCEPT ![a] = {r \in Requests : Sent(r)}]
    BY <1>3 DEF AskFlush
  <2>2. /\ queue' \in Seq(Requests \cup Admins)
        /\ \A n \in DOMAIN queue' : \/ n \in DOMAIN queue /\ queue'[n] = queue[n]
                                    \/ n = Len(queue) + 1 /\ queue'[n] = a
        /\ \A n \in DOMAIN queue : n < Len(queue) + 1
        /\ Queued' = Queued
    <3>1. FlushTypes /\ a \in Requests \cup Admins /\ queue' = Append(queue, a)
      BY <2>1 DEF FlushInv
    <3>2. {a} \cap Requests = {}
      OBVIOUS
    <3>3. /\ queue' \in Seq(Requests \cup Admins)
          /\ \A n \in DOMAIN queue' : \/ n \in DOMAIN queue /\ queue'[n] = queue[n]
                                      \/ n = Len(queue) + 1 /\ queue'[n] = a
      BY <3>1, Appended
    <3>4. \A n \in DOMAIN queue : n < Len(queue) + 1
      BY <3>1, Appended
    <3>5. Queued' = Queued \cup ({a} \cap Requests)
      BY <3>1, Appended
    <3> QED
      BY <3>2, <3>3, <3>4, <3>5
  <2>3. FlushTypes'
    BY <1>1, <2>1, <2>2 DEF FlushInv, FlushTypes, Steps
  <2>4. \A r \in Requests : Sent(r)' <=> Sent(r)
    BY <1>1, <2>2 DEF Sent
  <2>5. SentOnce'
    BY <1>1, <2>1, <2>4 DEF FlushInv, FlushTypes, SentOnce
  <2>6. asker # a /\ \A n \in DOMAIN queue : queue[n] # a
    BY <2>1 DEF FlushInv, AskedOnce
  <2>7. AskedOnce'
    BY <1>1, <2>1, <2>2 DEF FlushInv, FlushTypes, AskedOnce
  <2>8. FlushCovers'
    <3>1. ASSUME NEW b \in Admins, step'[b] = "waiting", NEW n \in DOMAIN queue', queue'[n] = b,
                 NEW m \in DOMAIN queue', queue'[m] \in covered'[b]
          PROVE m < n
      <4>1. queue'[m] \in Requests /\ queue'[m] = queue[m] /\ m \in DOMAIN queue
        BY <2>2, <2>3, <3>1 DEF FlushTypes
      <4>2. CASE b = a
        BY <2>2, <2>6, <3>1, <4>1, <4>2
      <4>3. CASE b # a
        BY <2>1, <2>2, <3>1, <4>1, <4>3 DEF FlushInv, FlushTypes, FlushCovers
      <4> QED
        BY <4>2, <4>3
    <3>2. ASSUME NEW b \in Admins, step'[b] = "waiting", asker' = b, NEW r \in covered'[b]
          PROVE r \notin (Queued \cup pending)'
      BY <1>1, <2>1, <2>2, <2>6, <3>2 DEF FlushInv, FlushTypes, FlushCovers
    <3>3. ASSUME NEW b \in Admins, step'[b] = "waiting", NEW r \in covered'[b] PROVE Sent(r)'
      BY <2>1, <2>4, <3>3 DEF FlushInv, FlushTypes, FlushCovers
    <3> QED
      BY <3>1, <3>2, <3>3 DEF FlushCovers
  <2>9. ActsOnFreshRows'
    BY <2>1 DEF FlushInv, FlushTypes, ActsOnFreshRows
  <2> QED
    BY <2>3, <2>5, <2>7, <2>8, <2>9 DEF FlushInv
<1>4. ASSUME RemoveLayer(a) \/ RemoveDatabase(a) \/ Protect(a) \/ RebuildWrite(a) \/ Leave(a)
      PROVE FlushInv'
  <2>1. /\ UNCHANGED queue /\ step' = [step EXCEPT ![a] = "done"]
        /\ covered' = [covered EXCEPT ![a] = {}]
    BY <1>4 DEF RemoveLayer, RemoveDatabase, Protect, RebuildWrite, Leave, Finished
  <2> QED
    BY <1>2, <2>1 DEF Steps
<1>5. ASSUME RebuildLock(a) \/ RebuildReadMarks(a) PROVE FlushInv'
  <2>1. UNCHANGED <<queue, covered>>
    BY <1>5 DEF RebuildLock, RebuildReadMarks
  <2>2. \E next \in {"scanning", "no database", "writing", "emptying"} :
            step' = [step EXCEPT ![a] = next]
    BY <1>5 DEF RebuildLock, RebuildReadMarks
  <2> QED
    BY <1>2, <2>1, <2>2 DEF Steps
<1>6. ASSUME RebuildEnd(a) \/ (\E l \in Layers : RebuildScan(a, l)) PROVE FlushInv'
  <2>1. UNCHANGED <<queue, covered, step>>
    BY <1>6 DEF RebuildEnd, RebuildScan, adminVars
  <2> QED
    BY <1>1, <2>1, AsideKeeps DEF FlushInv, FlushTypes
<1>7. ASSUME AdminStart(a) PROVE FlushInv'
  <2>1. step[a] = "ready" /\ UNCHANGED <<queue, covered>>
    BY <1>7 DEF AdminStart, Start
  <2>2. step' = [step EXCEPT ![a] = "asking"] \/ step' = [step EXCEPT ![a] = "done"]
    BY <1>7 DEF AdminStart, Start
  <2> QED
    BY <1>2, <2>1, <2>2 DEF Steps
<1> QED
  BY <1>3, <1>4, <1>5, <1>6, <1>7 DEF AdminStep

\* A restart forgets what has been sent and who waits for it.
LEMMA RestartFlush == ASSUME FlushInv, Restart PROVE FlushInv'
<1>1. /\ pc' = [r \in Requests |-> IF pc[r] = "new" THEN "new" ELSE "done"]
      /\ step' = [a \in Admins |-> IF step[a] = "ready" THEN "ready" ELSE "done"]
      /\ queue' = <<>> /\ pending' = {} /\ writer' = "idle" /\ batch' = {} /\ asker' = None
      /\ covered' = [a \in Admins |-> {}]
  BY DEF Restart
<1>2. FlushTypes'
  <2>1. step' \in [Admins -> Steps]
    BY <1>1 DEF Steps
  <2>2. pc' \in [Requests -> {"new", "stored", "done"}]
    BY <1>1
  <2>3. queue' \in Seq(Requests \cup Admins)
    BY <1>1
  <2> QED
    BY <1>1, <2>1, <2>2, <2>3 DEF FlushInv, FlushTypes
<1>3. \A r \in Requests : ~Sent(r)'
  BY <1>1 DEF Sent, Queued
<1>4. SentOnce' /\ ActsOnFreshRows'
  BY <1>1, <1>3 DEF FlushInv, FlushTypes, SentOnce, ActsOnFreshRows
<1>5. AskedOnce' /\ FlushCovers'
  BY <1>1, ConstantsAssumption DEF AskedOnce, FlushCovers
<1> QED
  BY <1>2, <1>4, <1>5 DEF FlushInv

\* Every step keeps it.
LEMMA NextFlush == FlushInv /\ [Next]_vars => FlushInv'
<1>1. FlushInv /\ UNCHANGED vars => FlushInv'
  <2> SUFFICES ASSUME FlushInv, UNCHANGED vars PROVE FlushInv'
    OBVIOUS
  <2>1. UNCHANGED <<queue, pending, batch, writer, asker, covered, pc, step>>
    BY DEF vars, putVars, flushVars, adminVars
  <2> QED
    BY <2>1, AsideKeeps DEF FlushInv, FlushTypes
<1>2. ASSUME FlushInv, NEW l \in Layers, CloseLoose(l) PROVE FlushInv'
  <2>1. UNCHANGED <<queue, pending, batch, writer, asker, covered, pc, step>>
    BY <1>2 DEF CloseLoose, putVars, flushVars, adminVars
  <2> QED
    BY <1>2, <2>1, AsideKeeps DEF FlushInv, FlushTypes
<1>3. ASSUME FlushInv, Next PROVE FlushInv'
  BY <1>2, <1>3, PutFlush, WriterFlush, AdminFlush, RestartFlush DEF Next
<1> QED
  BY <1>1, <1>3

\* catalog.rs:289-303: when an operation acts, every message sent before its flush
\* has been written to a row, however long the queue, unless it was lost with an
\* earlier flush that failed.
THEOREM ActsAfterItsFlush == Spec => []ActsOnFreshRows
<1>1. FlushInv => ActsOnFreshRows
  BY DEF FlushInv
<1> QED
  BY <1>1, InitFlush, NextFlush, PTL DEF Spec

-----------------------------------------------------------------------------
(* The marks.                                                              *)

\* The marks that a rebuild about to write does not take away, and those that
\* have been given since it read them.
MarksKnown(marked) == \A l \in marked : l \in oldMarks \cup lateMarks
Marked == {l \in DOMAIN layerRows : layerRows[l].protected}

\* A rebuild has the lock from its scan to its transaction, and one that finds
\* no database has nothing to write.
RebuildInv ==
    /\ step \in [Admins -> Steps]
    /\ \A a \in Admins : step[a] \in {"scanning", "no database", "writing", "emptying"} => lock = a
    /\ \A a \in Admins : step[a] \in {"no database", "emptying"} => unread = {} /\ found = NoRows
    /\ \A l \in DOMAIN layerRows : "protected" \in DOMAIN layerRows[l]
    /\ \A a \in Admins : step[a] = "writing" => MarksKnown(Marked)

\* It holds at the start.
LEMMA InitRebuild == Init => RebuildInv
BY DEF Init, RebuildInv, Steps, NoRows

\* A step that leaves the rows and the marks alone.
LEMMA MarksAside ==
    ASSUME RebuildInv, UNCHANGED <<layerRows, oldMarks, lateMarks>>,
           NEW a \in Admins, step[a] = "writing"
    PROVE MarksKnown(Marked)'
BY DEF RebuildInv, MarksKnown, Marked

\* A flush answers those that wait, who are not rebuilding, and writes whole rows.
LEMMA WriterRebuild == ASSUME RebuildInv, WriterStep PROVE RebuildInv'
<1>1. UNCHANGED <<lock, unread, found, oldMarks, lateMarks>>
  BY DEF WriterStep, rebuildVars, scanVars
<1>2. step' \in [Admins -> Steps]
      /\ \A a \in Admins : step'[a] = step[a] \/ step'[a] \in {"acting", "done"}
  <2>1. step' = step \/ \E a \in Admins \cup {asker} : \E s \in {"acting", "done"} : step' = Answer(a, s)
    BY DEF WriterStep, Receive, ReceiveFlush, Tick, FailFlush, WriteBatch, EndFlush, Recount
  <2> QED
    BY <2>1 DEF Answer, RebuildInv, Steps
<1>3. \A l \in DOMAIN layerRows' : "protected" \in DOMAIN layerRows'[l]
  <2>1. CASE WriteBatch
    <3>1. \A l \in Batched : "protected" \in DOMAIN RowWritten(l)
      BY DEF RowWritten
    <3> QED
      BY <2>1, <3>1 DEF WriteBatch, RebuildInv
  <2>2. CASE ~WriteBatch
    <3>1. UNCHANGED layerRows
      BY <2>2 DEF WriterStep, Receive, ReceiveFlush, Tick, FailFlush, Recount, rowVars
    <3> QED
      BY <3>1 DEF RebuildInv
  <2> QED
    BY <2>1, <2>2
<1>4. ASSUME NEW a \in Admins, step'[a] = "writing" PROVE MarksKnown(Marked)'
  <2>1. step[a] = "writing" /\ lock # None
    BY <1>2, <1>4, ConstantsAssumption DEF RebuildInv
  <2>2. UNCHANGED layerRows
    BY <2>1 DEF WriterStep, Receive, ReceiveFlush, Tick, FailFlush, WriteBatch, Recount, rowVars
  <2> QED
    BY <1>1, <2>1, <2>2, MarksAside
<1> QED
  BY <1>1, <1>2, <1>3, <1>4 DEF RebuildInv, NoRows

\* One rebuild has the lock at a time, and leaves it with its last step.
LEMMA AdminRebuild ==
    ASSUME RebuildInv, NEW a \in Admins, AdminStep(a) \/ AdminStart(a)
    PROVE RebuildInv'
<1> USE ConstantsAssumption
<1> DEFINE Rebuilding == {"scanning", "no database", "writing", "emptying"}
<1>1. ASSUME NEW next \in Steps, next \notin Rebuilding, step' = [step EXCEPT ![a] = next],
             UNCHANGED <<lock, unread, found>>,
             \A l \in DOMAIN layerRows' : "protected" \in DOMAIN layerRows'[l],
             (\E b \in Admins : step[b] = "writing") => MarksKnown(Marked)'
      PROVE RebuildInv'
  <2>1. \A b \in Admins : step'[b] = step[b] \/ step'[b] \notin Rebuilding
    BY <1>1 DEF RebuildInv
  <2> QED
    BY <1>1, <2>1 DEF RebuildInv
<1>11. (\E b \in Admins : step[b] = "writing") /\ UNCHANGED <<layerRows, oldMarks, lateMarks>>
         => MarksKnown(Marked)'
  BY MarksAside
<1>2. CASE AskFlush(a)
  <2>1. /\ step' = [step EXCEPT ![a] = "waiting"] /\ layerRows' = layerRows
        /\ UNCHANGED <<lock, unread, found, oldMarks, lateMarks>>
    BY <1>2 DEF AskFlush, rebuildVars, scanVars, rowVars
  <2> QED
    BY <1>1, <1>11, <2>1 DEF RebuildInv, Steps
<1>3. CASE RemoveLayer(a) \/ RemoveDatabase(a) \/ Protect(a)
  <2>1. step' = [step EXCEPT ![a] = "done"] /\ UNCHANGED <<lock, unread, found>>
    BY <1>3 DEF RemoveLayer, RemoveDatabase, Protect, Finished, rebuildVars, scanVars
  <2>6. ASSUME NEW b \in Admins, step[b] = "writing" PROVE MarksKnown(Marked)'
    <3>1. lock # None
      BY <2>6 DEF RebuildInv
    <3>2. Protect(a)
      BY <1>3, <3>1 DEF RemoveLayer, RemoveDatabase
    <3>3. /\ oldMarks' = oldMarks /\ lateMarks' = lateMarks \cup {target[a]}
          /\ DOMAIN layerRows' = DOMAIN layerRows
          /\ \A l \in DOMAIN layerRows : l # target[a] => layerRows'[l] = layerRows[l]
      BY <2>6, <3>2 DEF Protect
    <3> QED
      BY <2>6, <3>3 DEF RebuildInv, MarksKnown, Marked
  <2>2. RemoveLayer(a) => \A l \in DOMAIN layerRows' : l \in DOMAIN layerRows /\ layerRows'[l] = layerRows[l]
    BY DEF RemoveLayer
  <2>3. RemoveDatabase(a) => DOMAIN layerRows' = {}
    BY DEF RemoveDatabase, NoRows
  <2>4. ASSUME Protect(a), NEW l \in DOMAIN layerRows'
        PROVE l \in DOMAIN layerRows /\ DOMAIN layerRows'[l] = DOMAIN layerRows[l]
    <3>1. /\ l \in DOMAIN layerRows
          /\ layerRows'[l] = IF l = target[a] THEN [layerRows[l] EXCEPT !.protected = TRUE]
                             ELSE layerRows[l]
      BY <2>4 DEF Protect
    <3> QED
      BY <3>1
  <2>5. \A l \in DOMAIN layerRows' : "protected" \in DOMAIN layerRows'[l]
    BY <1>3, <2>2, <2>3, <2>4 DEF RebuildInv
  <2> QED
    BY <1>1, <2>1, <2>5, <2>6 DEF Steps
<1>4. CASE RebuildLock(a)
  <2>1. /\ lock = None /\ lock' = a /\ found' = NoRows /\ layerRows' = layerRows
        /\ \/ step' = [step EXCEPT ![a] = "scanning"]
           \/ step' = [step EXCEPT ![a] = "no database"] /\ unread' = {}
    BY <1>4 DEF RebuildLock, rowVars
  <2>2. \A b \in Admins : step[b] \notin Rebuilding
    BY <2>1 DEF RebuildInv
  <2> QED
    BY <2>1, <2>2 DEF RebuildInv, Steps, NoRows
<1>5. CASE \E l \in Layers : RebuildScan(a, l)
  <2>1. lock = a /\ unread # {} /\ UNCHANGED <<step, lock, layerRows, oldMarks, lateMarks>>
    BY <1>5 DEF RebuildScan, adminVars, rowVars
  <2> QED
    BY <1>11, <2>1 DEF RebuildInv
<1>6. CASE RebuildReadMarks(a)
  <2>1. /\ UNCHANGED <<lock, unread, found, layerRows>>
        /\ \/ step[a] = "scanning" /\ step' = [step EXCEPT ![a] = "writing"]
           \/ step[a] = "no database" /\ step' = [step EXCEPT ![a] = "emptying"]
    BY <1>6 DEF RebuildReadMarks, rowVars
  <2>2. MarksKnown(Marked)'
    BY <1>6 DEF RebuildReadMarks, rowVars, MarksKnown, Marked
  <2> QED
    BY <2>1, <2>2 DEF RebuildInv, Steps, NoRows
<1>7. CASE RebuildWrite(a)
  <2>1. /\ step[a] \in {"writing", "emptying"} /\ step' = [step EXCEPT ![a] = "done"]
        /\ layerRows' = [l \in DOMAIN found |-> [tiles |-> found[l].tiles, bytes |-> found[l].bytes,
                                                 protected |-> l \in oldMarks]]
    BY <1>7 DEF RebuildWrite, Finished
  <2>2. \A b \in Admins : step[b] \in Rebuilding => b = a
    BY <2>1 DEF RebuildInv
  <2> QED
    BY <2>1, <2>2 DEF RebuildInv, Steps
<1>8. CASE RebuildEnd(a)
  <2>1. UNCHANGED <<step, lock, unread, found, layerRows, oldMarks, lateMarks>>
    BY <1>8 DEF RebuildEnd, adminVars, scanVars, rowVars
  <2> QED
    BY <1>11, <2>1 DEF RebuildInv, NoRows
<1>9. CASE Leave(a)
  <2>1. /\ step' = [step EXCEPT ![a] = "done"] /\ layerRows' = layerRows
        /\ lock # a => UNCHANGED <<lock, unread, found, oldMarks, lateMarks>>
    BY <1>9 DEF Leave, Finished, rowVars
  <2>2. lock = a => \A b \in Admins : step[b] \in Rebuilding => b = a
    BY DEF RebuildInv
  <2>3. CASE lock = a
    BY <2>1, <2>2, <2>3 DEF RebuildInv, Steps, NoRows
  <2>4. CASE lock # a
    BY <1>1, <1>11, <2>1, <2>4 DEF RebuildInv, Steps
  <2> QED
    BY <2>3, <2>4
<1>10. CASE AdminStart(a)
  <2>1. /\ layerRows' = layerRows
        /\ UNCHANGED <<lock, unread, found, oldMarks, lateMarks>>
        /\ step' = [step EXCEPT ![a] = "asking"] \/ step' = [step EXCEPT ![a] = "done"]
    BY <1>10 DEF AdminStart, Start, scanVars, rowVars
  <2> QED
    BY <1>1, <1>11, <2>1 DEF RebuildInv, Steps
<1> QED
  BY <1>2, <1>3, <1>4, <1>5, <1>6, <1>7, <1>8, <1>9, <1>10 DEF AdminStep

\* Every step keeps it.
LEMMA NextRebuild == RebuildInv /\ [Next]_vars => RebuildInv'
<1> SUFFICES ASSUME RebuildInv, [Next]_vars PROVE RebuildInv'
  OBVIOUS
<1>1. CASE UNCHANGED <<step, lock, unread, found, layerRows, oldMarks, lateMarks>>
  BY <1>1, MarksAside DEF RebuildInv, NoRows
<1>2. CASE UNCHANGED vars \/ (\E r \in Requests : PutStep(r) \/ ClientStep(r))
        \/ (\E l \in Layers : CloseLoose(l))
  BY <1>1, <1>2 DEF PutStep, ClientStep, PutFrame, CloseLoose, vars, adminVars, rebuildVars, scanVars, rowVars
<1>3. CASE Restart
  <2>1. /\ step' = [a \in Admins |-> IF step[a] = "ready" THEN "ready" ELSE "done"]
        /\ layerRows' = layerRows
    BY <1>3 DEF Restart, rowVars
  <2> QED
    BY <2>1 DEF RebuildInv, Steps
<1> QED
  BY <1>1, <1>2, <1>3, WriterRebuild, AdminRebuild DEF Next

\* Of the steps that write rows only the transaction of a rebuild takes a mark,
\* and none that it could have read.
LEMMA MarkTaken ==
    ASSUME RebuildInv, [Next]_vars, NEW l \in DOMAIN layerRows \cap DOMAIN layerRows',
           layerRows[l].protected, ~layerRows'[l].protected
    PROVE l \in lateMarks
<1> SUFFICES ASSUME l \notin lateMarks
             PROVE layerRows'[l] = layerRows[l] \/ layerRows'[l].protected
  OBVIOUS
<1>1. CASE WriterStep
  <2>1. CASE WriteBatch
    <3>1. layerRows'[l] = IF l \in Batched THEN RowWritten(l) ELSE layerRows[l]
      BY <2>1 DEF WriteBatch
    <3>2. RowWritten(l).protected = layerRows[l].protected
      BY DEF RowWritten, MarkAfter, Before
    <3> QED
      BY <3>1, <3>2
  <2>2. CASE ~WriteBatch
    BY <1>1, <2>2 DEF WriterStep, Receive, ReceiveFlush, Tick, FailFlush, Recount, rowVars
  <2> QED
    BY <2>1, <2>2
<1>2. ASSUME NEW a \in Admins, RemoveLayer(a) \/ RemoveDatabase(a) PROVE layerRows'[l] = layerRows[l]
  BY <1>2 DEF RemoveLayer, RemoveDatabase, NoRows
<1>3. ASSUME NEW a \in Admins, Protect(a) PROVE layerRows'[l] = layerRows[l] \/ layerRows'[l].protected
  <2>1. layerRows'[l] = IF l = target[a] THEN [layerRows[l] EXCEPT !.protected = TRUE] ELSE layerRows[l]
    BY <1>3 DEF Protect
  <2>2. "protected" \in DOMAIN layerRows[l]
    BY DEF RebuildInv
  <2> QED
    BY <2>1, <2>2
<1>4. ASSUME NEW a \in Admins, RebuildWrite(a) PROVE layerRows'[l].protected
  <2>1. /\ step[a] \in {"writing", "emptying"} /\ DOMAIN layerRows' = DOMAIN found
        /\ layerRows'[l].protected = (l \in oldMarks)
    BY <1>4 DEF RebuildWrite
  <2>2. step[a] = "writing"
    BY <2>1 DEF RebuildInv, NoRows
  <2>3. l \in oldMarks
    BY <2>2 DEF RebuildInv, MarksKnown, Marked
  <2> QED
    BY <2>1, <2>3
<1>5. ASSUME NEW a \in Admins,
             \/ AskFlush(a) \/ RebuildLock(a) \/ RebuildReadMarks(a) \/ RebuildEnd(a) \/ Leave(a)
             \/ \E x \in Layers : RebuildScan(a, x)
             \/ AdminStart(a)
      PROVE layerRows' = layerRows
  BY <1>5 DEF AskFlush, RebuildLock, RebuildReadMarks, RebuildEnd, Leave, RebuildScan, AdminStart, Start,
     rowVars
<1>6. CASE \E r \in Requests : PutStep(r) \/ ClientStep(r)
  BY <1>6 DEF PutStep, ClientStep, PutFrame, rowVars
<1>7. CASE Restart \/ UNCHANGED vars \/ \E x \in Layers : CloseLoose(x)
  BY <1>7 DEF Restart, CloseLoose, vars, rowVars
<1> QED
  BY <1>1, <1>2, <1>3, <1>4, <1>5, <1>6, <1>7 DEF Next, AdminStep

\* README.md:54 and catalog.rs:150-214: through every batch, removal and rebuild a
\* row that stays keeps its mark, unless it was given between a rebuild's reading
\* of the marks and its transaction.
THEOREM MarksStay == Spec => MarksKept
<1>1. RebuildInv /\ [Next]_vars =>
        [\A l \in DOMAIN layerRows \cap DOMAIN layerRows' :
            layerRows[l].protected /\ ~layerRows'[l].protected => l \in lateMarks]_vars
  BY MarkTaken
<1> QED
  BY <1>1, InitRebuild, NextRebuild, PTL DEF Spec, MarksKept

-----------------------------------------------------------------------------
(* Sums over finite sets.                                                  *)

\* As many units for each element of S as f says.
Units(f, S) == UNION {{x} \X (1..f[x]) : x \in S}

\* One more element adds its units.
LEMMA UnitsOne ==
    ASSUME NEW S, NEW f, NEW x, x \notin S, f[x] \in Nat, IsFiniteSet(Units(f, S))
    PROVE  /\ IsFiniteSet(Units(f, S \cup {x}))
           /\ Cardinality(Units(f, S \cup {x})) = f[x] + Cardinality(Units(f, S))
<1> DEFINE column == {x} \X (1..f[x])
<1>1. Units(f, S \cup {x}) = Units(f, S) \cup column
  BY DEF Units
<1>2. Units(f, S) \cap column = {}
  BY DEF Units
<1>3. IsFiniteSet(column) /\ Cardinality(column) = f[x]
  <2>1. IsFiniteSet({x}) /\ Cardinality({x}) = 1
    BY FS_Singleton
  <2>2. IsFiniteSet(1..f[x]) /\ Cardinality(1..f[x]) = f[x]
    BY FS_Interval
  <2> HIDE DEF column
  <2>3. IsFiniteSet(column) /\ Cardinality(column) = 1 * f[x]
    BY <2>1, <2>2, FS_Product DEF column
  <2> QED
    BY <2>3
<1> HIDE DEF column
<1>4. Cardinality(Units(f, S)) \in Nat
  BY FS_CardinalityType
<1>5. /\ IsFiniteSet(Units(f, S) \cup column)
      /\ Cardinality(Units(f, S) \cup column) = Cardinality(Units(f, S)) + Cardinality(column) - Cardinality({})
  BY <1>2, <1>3, FS_Union
<1>6. Cardinality({}) = 0
  BY FS_EmptySet
<1>7. Cardinality(Units(f, S) \cup column) = f[x] + Cardinality(Units(f, S))
  BY <1>3, <1>4, <1>5, <1>6
<1> QED
  BY <1>1, <1>5, <1>7

\* They are finitely many.
LEMMA UnitsFinite ==
    ASSUME NEW S, IsFiniteSet(S), NEW f, \A x \in S : f[x] \in Nat
    PROVE  IsFiniteSet(Units(f, S))
<1>1. \A T \in {{x} \X (1..f[x]) : x \in S} : IsFiniteSet(T)
  <2>1. ASSUME NEW x \in S PROVE IsFiniteSet({x} \X (1..f[x]))
    <3>1. f[x] \in Nat
      OBVIOUS
    <3>2. IsFiniteSet(1..f[x])
      BY <3>1, FS_Interval
    <3>3. IsFiniteSet({x})
      BY FS_Singleton
    <3> QED
      BY <3>2, <3>3, FS_Product
  <2> QED
    BY <2>1
<1>2. IsFiniteSet({{x} \X (1..f[x]) : x \in S})
  <2> DEFINE T == {{x} \X (1..f[x]) : x \in S}
             g == [x \in S |-> {x} \X (1..f[x])]
  <2>1. g \in Surjection(S, T)
    BY DEF Surjection
  <2> QED
    BY <2>1, FS_Surjection
<1> QED
  BY <1>1, <1>2, FS_UNION DEF Units

\* The sum of a function over a finite set, which the library defines by taking
\* one element after another, is the number of these units: this number obeys
\* the recursion, and a smallest set on which two solutions differ would be
\* empty, or differ without the element taken first.
LEMMA SumIsUnits ==
    ASSUME NEW S, IsFiniteSet(S), NEW f, \A x \in S : f[x] \in Nat
    PROVE  SumFunctionOnSet(f, S) = Cardinality(Units(f, S))
<1> DEFINE Pick(s) == CHOOSE x \in s : TRUE
           Def(g) == [s \in SUBSET S |-> IF s = {} THEN 0 ELSE f[Pick(s)] + g[s \ {Pick(s)}]]
           sum == CHOOSE g : g = Def(g)
           units == [s \in SUBSET S |-> Cardinality(Units(f, s))]
<1>1. SumFunctionOnSet(f, S) = sum[S]
  BY DEF SumFunctionOnSet, FoldFunctionOnSet, MapThenFoldSet
<1>2. units = Def(units)
  <2>1. ASSUME NEW s \in SUBSET S, s # {}
        PROVE  Cardinality(Units(f, s)) = f[Pick(s)] + Cardinality(Units(f, s \ {Pick(s)}))
    <3>1. PICK x \in s : x = Pick(s)
      BY <2>1
    <3>2. f[x] \in Nat /\ x \notin s \ {x} /\ s = (s \ {x}) \cup {x}
      BY <3>1
    <3>3. IsFiniteSet(Units(f, s \ {x}))
      <4>1. IsFiniteSet(s \ {x})
        BY FS_Subset
      <4> QED
        BY <4>1, UnitsFinite
    <3>4. Cardinality(Units(f, (s \ {x}) \cup {x})) = f[x] + Cardinality(Units(f, s \ {x}))
      BY <3>2, <3>3, UnitsOne
    <3> QED
      BY <3>1, <3>2, <3>4
  <2>2. Cardinality(Units(f, {})) = 0
    <3>1. Units(f, {}) = {}
      BY DEF Units
    <3> QED
      BY <3>1, FS_EmptySet
  <2>3. ASSUME NEW s \in SUBSET S
        PROVE  units[s] = IF s = {} THEN 0 ELSE f[Pick(s)] + units[s \ {Pick(s)}]
    <3>1. units[s] = Cardinality(Units(f, s)) /\ units[s \ {Pick(s)}] = Cardinality(Units(f, s \ {Pick(s)}))
      BY <2>3
    <3> HIDE DEF units, Pick
    <3> QED
      BY <2>1, <2>2, <3>1
  <2> HIDE DEF Pick
  <2> QED
    BY <2>3
<1>3. sum = Def(sum)
  BY <1>2
<1>4. ASSUME NEW g, g = Def(g), NEW h, h = Def(h) PROVE g[S] = h[S]
  <2> DEFINE Differ == {s \in SUBSET S : g[s] # h[s]}
  <2> SUFFICES ASSUME Differ # {} PROVE FALSE
    BY DEF Differ
  <2>1. IsWellFoundedOn(StrictSubsetOrdering(S), SUBSET S)
    BY FS_StrictSubsetOrderingWellFounded, FS_FiniteSubsetsOfFinite
  <2>2. Differ \subseteq SUBSET S
    OBVIOUS
  <2>3. PICK s \in Differ : \A t \in Differ : <<t, s>> \notin StrictSubsetOrdering(S)
    <3> HIDE DEF Differ
    <3> QED
      BY <2>1, <2>2, WFMin
  <2>4. \A t \in SUBSET S : g[t] = IF t = {} THEN 0 ELSE f[Pick(t)] + g[t \ {Pick(t)}]
    BY <1>4
  <2>5. \A t \in SUBSET S : h[t] = IF t = {} THEN 0 ELSE f[Pick(t)] + h[t \ {Pick(t)}]
    BY <1>4
  <2>6. s # {}
    BY <2>3, <2>4, <2>5
  <2>7. Pick(s) \in s
    BY <2>6
  <2>8. <<s \ {Pick(s)}, s>> \in StrictSubsetOrdering(S)
    BY <2>3, <2>7 DEF StrictSubsetOrdering
  <2>9. g[s \ {Pick(s)}] = h[s \ {Pick(s)}]
    BY <2>3, <2>8
  <2> QED
    BY <2>3, <2>4, <2>5, <2>9
<1>5. sum[S] = units[S]
  <2> HIDE DEF sum, units, Def
  <2> QED
    BY <1>2, <1>3, <1>4
<1> QED
  BY <1>1, <1>5

\* The sum over two disjoint sets.
LEMMA SumSplits ==
    ASSUME NEW S, IsFiniteSet(S), NEW T, IsFiniteSet(T), S \cap T = {},
           NEW f, \A x \in S \cup T : f[x] \in Nat
    PROVE  SumFunctionOnSet(f, S \cup T) = SumFunctionOnSet(f, S) + SumFunctionOnSet(f, T)
<1>1. IsFiniteSet(S \cup T)
  BY FS_Union
<1>2. IsFiniteSet(Units(f, S)) /\ IsFiniteSet(Units(f, T))
  BY UnitsFinite
<1>3. Units(f, S \cup T) = Units(f, S) \cup Units(f, T) /\ Units(f, S) \cap Units(f, T) = {}
  BY DEF Units
<1>4. Cardinality(Units(f, S)) \in Nat /\ Cardinality(Units(f, T)) \in Nat /\ Cardinality({}) = 0
  BY <1>2, FS_CardinalityType, FS_EmptySet
<1>5. Cardinality(Units(f, S) \cup Units(f, T))
        = Cardinality(Units(f, S)) + Cardinality(Units(f, T)) - Cardinality({})
  BY <1>2, <1>3, FS_Union
<1>6. Cardinality(Units(f, S \cup T)) = Cardinality(Units(f, S)) + Cardinality(Units(f, T))
  <2>1. PICK m \in Nat : m = Cardinality(Units(f, S))
    BY <1>4
  <2>2. PICK n \in Nat : n = Cardinality(Units(f, T))
    BY <1>4
  <2>3. Cardinality(Units(f, S) \cup Units(f, T)) = m + n - 0
    BY <1>4, <1>5, <2>1, <2>2
  <2>4. m + n - 0 = m + n
    OBVIOUS
  <2>5. Cardinality(Units(f, S \cup T)) = Cardinality(Units(f, S) \cup Units(f, T))
    BY <1>3
  <2> QED
    BY <2>1, <2>2, <2>3, <2>4, <2>5
<1> QED
  BY <1>1, <1>6, SumIsUnits

\* Functions that agree on a set have the same sum.
LEMMA SumAgrees ==
    ASSUME NEW S, IsFiniteSet(S), NEW f, NEW g, \A x \in S : f[x] \in Nat /\ g[x] = f[x]
    PROVE  SumFunctionOnSet(g, S) = SumFunctionOnSet(f, S)
<1>1. Units(f, S) = Units(g, S)
  BY DEF Units
<1> QED
  BY <1>1, SumIsUnits

\* The sum is a number.
LEMMA SumType ==
    ASSUME NEW S, IsFiniteSet(S), NEW f, \A x \in S : f[x] \in Nat
    PROVE  SumFunctionOnSet(f, S) \in Nat
BY UnitsFinite, SumIsUnits, FS_CardinalityType

\* The sum over one element.
LEMMA SumOne ==
    ASSUME NEW f, NEW x, f[x] \in Nat
    PROVE  SumFunctionOnSet(f, {x}) = f[x]
<1>1. IsFiniteSet({x})
  BY FS_Singleton
<1>2. Units(f, {x}) = Units(f, {}) \cup Units(f, {x}) /\ Units(f, {}) = {}
  BY DEF Units
<1>3. Cardinality(Units(f, {} \cup {x})) = f[x] + Cardinality(Units(f, {}))
  BY <1>2, FS_EmptySet, UnitsOne
<1> QED
  BY <1>1, <1>2, <1>3, SumIsUnits, FS_EmptySet

\* The sum over none.
LEMMA SumNone == ASSUME NEW f PROVE SumFunctionOnSet(f, {}) = 0
<1>1. Units(f, {}) = {}
  BY DEF Units
<1> QED
  BY <1>1, SumIsUnits, FS_EmptySet

\* The sum of zeroes.
LEMMA SumZeroes ==
    ASSUME NEW S, IsFiniteSet(S), NEW f, \A x \in S : f[x] = 0
    PROVE  SumFunctionOnSet(f, S) = 0
<1>1. Units(f, S) = {}
  BY DEF Units
<1> QED
  BY <1>1, SumIsUnits, FS_EmptySet

\* A total moves by what the rows of B gain and lose, those of B that were not
\* in D having lost nothing.
LEMMA SumMoves ==
    ASSUME NEW D, IsFiniteSet(D), NEW B, IsFiniteSet(B), NEW f, NEW before, NEW after, NEW g,
           \A x \in D : f[x] \in Nat,
           \A x \in B : after[x] \in Nat /\ before[x] = IF x \in D THEN f[x] ELSE 0,
           \A x \in D \cup B : g[x] = IF x \in B THEN after[x] ELSE f[x]
    PROVE  SumFunctionOnSet(g, D \cup B) =
             SumFunctionOnSet(f, D) + SumFunctionOnSet(after, B) - SumFunctionOnSet(before, B)
<1>1. IsFiniteSet(D \ B) /\ IsFiniteSet(D \cap B) /\ IsFiniteSet(B \ D)
  BY FS_Difference, FS_Intersection
<1>2. PICK rest \in Nat : rest = SumFunctionOnSet(f, D \ B)
  BY <1>1, SumType
<1>3. PICK lost \in Nat : lost = SumFunctionOnSet(f, D \cap B)
  BY <1>1, SumType
<1>4. PICK gained \in Nat : gained = SumFunctionOnSet(after, B)
  BY SumType
<1>5. SumFunctionOnSet(f, D) = rest + lost
  <2>1. D = (D \ B) \cup (D \cap B) /\ (D \ B) \cap (D \cap B) = {}
    OBVIOUS
  <2>2. SumFunctionOnSet(f, (D \ B) \cup (D \cap B)) = rest + lost
    BY <1>1, <1>2, <1>3, <2>1, SumSplits
  <2> QED
    BY <2>1, <2>2
<1>6. SumFunctionOnSet(before, B) = lost
  <2>1. B = (D \cap B) \cup (B \ D) /\ (D \cap B) \cap (B \ D) = {}
    OBVIOUS
  <2>2. SumFunctionOnSet(before, B \ D) = 0
    BY <1>1, SumZeroes
  <2>3. SumFunctionOnSet(before, D \cap B) = lost
    BY <1>1, <1>3, SumAgrees
  <2>4. SumFunctionOnSet(before, (D \cap B) \cup (B \ D)) = lost + 0
    BY <1>1, <2>1, <2>2, <2>3, SumSplits
  <2>5. lost + 0 = lost
    OBVIOUS
  <2> QED
    BY <2>1, <2>4, <2>5
<1>7. SumFunctionOnSet(g, D \cup B) = rest + gained
  <2>1. D \cup B = (D \ B) \cup B /\ (D \ B) \cap B = {}
    OBVIOUS
  <2>2. SumFunctionOnSet(g, D \ B) = rest
    BY <1>1, <1>2, SumAgrees
  <2>3. SumFunctionOnSet(g, B) = gained
    BY <1>4, SumAgrees
  <2>4. SumFunctionOnSet(g, (D \ B) \cup B) = rest + gained
    BY <1>1, <2>1, <2>2, <2>3, SumSplits
  <2> QED
    BY <2>1, <2>4
<1> QED
  BY <1>4, <1>5, <1>6, <1>7

\* A total loses what the row taken out of it had.
LEMMA SumLoses ==
    ASSUME NEW D, IsFiniteSet(D), NEW f, \A x \in D : f[x] \in Nat, NEW x \in D
    PROVE  /\ SumFunctionOnSet(f, D \ {x}) \in Nat
           /\ SumFunctionOnSet(f, D) = SumFunctionOnSet(f, D \ {x}) + f[x]
<1>1. IsFiniteSet(D \ {x}) /\ IsFiniteSet({x})
  BY FS_RemoveElement, FS_Singleton
<1>2. D = (D \ {x}) \cup {x} /\ (D \ {x}) \cap {x} = {}
  OBVIOUS
<1>3. SumFunctionOnSet(f, (D \ {x}) \cup {x}) = SumFunctionOnSet(f, D \ {x}) + SumFunctionOnSet(f, {x})
  BY <1>1, <1>2, SumSplits
<1> QED
  BY <1>1, <1>2, <1>3, SumType, SumOne

-----------------------------------------------------------------------------
(* The files and the messages.                                             *)

Messages == [layer : Layers, size : Sizes, created : BOOLEAN]
Begun == {r \in Requests : pc[r] # "new"}

\* A tile has a size.
LEMMA SizesPositive == Sizes \subseteq Nat \ {0} /\ \A r \in Requests : Size[r] \in Sizes
BY ConstantsAssumption DEF Sizes

\* However many requests and tiles there may be, only finitely many requests
\* have begun and finitely many tiles are stored.
FilesInv ==
    /\ stored \in [Layers -> [Tiles -> Sizes \cup {0}]]
    /\ dirs \subseteq Layers /\ loose \subseteq Layers /\ databaseDir \in BOOLEAN
    /\ DOMAIN message = Requests
    /\ \A r \in Requests : message[r] \in {None} \cup Messages
    /\ \A r \in Begun : message[r] \in Messages
    /\ IsFiniteSet(Begun)
    /\ \A l \in Layers : IsFiniteSet(Present(l))

\* It holds at the start.
LEMMA InitFiles == Init => FilesInv
<1> SUFFICES ASSUME Init PROVE FilesInv
  OBVIOUS
<1>1. Begun = {} /\ \A l \in Layers : Present(l) = {}
  BY DEF Init, Begun, Present
<1>2. IsFiniteSet({})
  BY FS_EmptySet
<1> QED
  BY <1>1, <1>2 DEF Init, FilesInv

\* A PUT stores one tile, and its message says of which layer.
LEMMA StoreFiles ==
    ASSUME FilesInv, NEW r \in Requests, NEW l \in Layers, NEW t \in Tiles, NEW s, s = Size[r],
           Store(r, l, t), pc \in [Requests -> {"new", "stored", "done"}]
    PROVE  FilesInv'
<1> USE ConstantsAssumption, SizesPositive
<1>1. /\ pc[r] = "new" /\ pc' = [pc EXCEPT ![r] = "stored"]
      /\ message' = [message EXCEPT ![r] = [layer |-> l, size |-> s, created |-> stored[l][t] = 0]]
      /\ stored' = [stored EXCEPT ![l][t] = s]
      /\ dirs' = dirs \cup {l} /\ databaseDir' = TRUE /\ loose' = loose
  BY DEF Store
<1>2. stored' \in [Layers -> [Tiles -> Sizes \cup {0}]]
  BY <1>1 DEF FilesInv
<1>3. Begun' = Begun \cup {r}
  BY <1>1 DEF Begun
<1>4. [layer |-> l, size |-> s, created |-> stored[l][t] = 0] \in Messages
  BY DEF Messages
<1>5. /\ DOMAIN message' = Requests
      /\ \A q \in Requests : message'[q] \in {None} \cup Messages
      /\ \A q \in Begun' : message'[q] \in Messages
  BY <1>1, <1>3, <1>4 DEF FilesInv, Begun
<1>6. IsFiniteSet(Begun \cup {r})
  BY FS_AddElement DEF FilesInv
<1>7. ASSUME NEW x \in Layers PROVE IsFiniteSet(Present(x)')
  <2>1. IsFiniteSet(Present(x) \cup {t})
    BY FS_AddElement DEF FilesInv
  <2>2. Present(x)' \subseteq Present(x) \cup {t}
    <3>1. \A u \in Tiles \ {t} : stored'[x][u] = stored[x][u]
      BY <1>1 DEF FilesInv
    <3> QED
      BY <3>1 DEF Present
  <2> QED
    BY <2>1, <2>2, FS_Subset
<1> QED
  BY <1>1, <1>2, <1>3, <1>5, <1>6, <1>7 DEF FilesInv

\* A PUT that stores its tile in a removed file has a message all the same.
LEMMA LooseFiles ==
    ASSUME FilesInv, NEW r \in Requests, NEW l \in Layers, StoreLoose(r, l),
           pc \in [Requests -> {"new", "stored", "done"}]
    PROVE  FilesInv'
<1>1. /\ pc[r] = "new" /\ pc' = [pc EXCEPT ![r] = "stored"]
      /\ dirs' \in {dirs, dirs \cup {l}} /\ databaseDir' = (databaseDir \/ l \in dirs')
      /\ UNCHANGED <<stored, loose>>
  BY DEF StoreLoose
<1>2. PICK created \in BOOLEAN :
         message' = [message EXCEPT ![r] = [layer |-> l, size |-> Size[r], created |-> created]]
  BY DEF StoreLoose
<1>3. Begun' = Begun \cup {r}
  BY <1>1 DEF Begun
<1>4. [layer |-> l, size |-> Size[r], created |-> created] \in Messages
  BY SizesPositive DEF Messages
<1>5. /\ DOMAIN message' = Requests
      /\ \A q \in Requests : message'[q] \in {None} \cup Messages
      /\ \A q \in Begun' : message'[q] \in Messages
  BY <1>2, <1>3, <1>4 DEF FilesInv, Begun
<1>6. IsFiniteSet(Begun \cup {r})
  BY FS_AddElement DEF FilesInv
<1>7. \A x \in Layers : Present(x)' = Present(x)
  BY <1>1 DEF Present
<1> QED
  BY <1>1, <1>3, <1>5, <1>6, <1>7 DEF FilesInv

\* A removal takes files before it turns to the rows: of the layers it is about
\* and of no others, and where it leaves tiles it leaves their directory.
LEMMA StartFiles ==
    ASSUME FilesInv, NEW a, NEW j, NEW l, Start(a, j, l)
    PROVE  /\ stored' \in [Layers -> [Tiles -> Sizes \cup {0}]]
           /\ dirs' \subseteq dirs /\ loose' \subseteq loose \cup Gone(j, l) /\ databaseDir' \in BOOLEAN
           /\ \A x \in Layers : Present(x)' \subseteq Present(x)
           /\ \A x \in Layers \ Gone(j, l) : stored'[x] = stored[x] /\ (x \in dirs' <=> x \in dirs)
           /\ \A x \in Layers \cap Gone(j, l) : x \in dirs' \/ x \notin dirs \/ Present(x)' = {}
           /\ Drift(Gone(j, l))
<1> DEFINE gone == Gone(j, l)
<1>1. \E stay, kept : RemoveFiles(gone, stay, kept)
  BY DEF Start
<1>2. PICK stay, kept : RemoveFiles(gone, stay, kept)
  BY <1>1
<1>3. databaseDir' \in BOOLEAN
  BY DEF Start, FilesInv
<1>4. loose' \subseteq loose \cup gone /\ Drift(gone)
  BY DEF Start
<1> HIDE DEF gone
<1>5. /\ stored' = [x \in Layers |->
                       IF x \in gone THEN [t \in Tiles |-> IF x \in stay /\ t \in kept[x] THEN stored[x][t] ELSE 0]
                       ELSE stored[x]]
      /\ dirs' = dirs \ (gone \ stay)
  BY <1>2 DEF RemoveFiles
<1>6. ASSUME NEW x \in Layers
      PROVE  /\ stored'[x] \in [Tiles -> Sizes \cup {0}]
             /\ x \notin gone => stored'[x] = stored[x]
             /\ \A t \in Tiles : stored'[x][t] \in {stored[x][t], 0}
             /\ x \in gone \ stay => \A t \in Tiles : stored'[x][t] = 0
  <2>1. stored[x] \in [Tiles -> Sizes \cup {0}]
    BY DEF FilesInv
  <2> QED
    BY <1>5, <2>1
<1>7. stored' \in [Layers -> [Tiles -> Sizes \cup {0}]]
  BY <1>5, <1>6
<1>8. \A x \in Layers : Present(x)' \subseteq Present(x)
  BY <1>6 DEF Present
<1>9. \A x \in Layers \cap gone : x \in dirs' \/ x \notin dirs \/ Present(x)' = {}
  BY <1>5, <1>6 DEF Present
<1> QED
  BY <1>3, <1>4, <1>5, <1>6, <1>7, <1>8, <1>9 DEF gone

\* What a removal is about.
LEMMA GoneLayers ==
    ASSUME FilesInv, NEW a, NEW j, NEW l, Start(a, j, l)
    PROVE  Gone(j, l) \subseteq Layers
<1>1. j = "remove layer" => l \in dirs
  BY DEF Start
<1> QED
  BY <1>1 DEF Gone, FilesInv

\* Every step keeps it.
LEMMA NextFiles == FlushInv /\ FilesInv /\ [Next]_vars => FilesInv'
<1> SUFFICES ASSUME FlushInv, FilesInv, [Next]_vars PROVE FilesInv'
  OBVIOUS
<1>1. ASSUME UNCHANGED <<stored, dirs, databaseDir, message>>, loose' \subseteq loose, Begun' = Begun
      PROVE FilesInv'
  BY <1>1 DEF FilesInv, Present
<1>2. ASSUME UNCHANGED <<fileVars, putVars>> PROVE FilesInv'
  BY <1>1, <1>2 DEF fileVars, putVars, Begun
<1>3. CASE UNCHANGED vars
  BY <1>2, <1>3 DEF vars
<1>4. ASSUME NEW r \in Requests, PutStep(r) \/ ClientStep(r) PROVE FilesInv'
  <2>1. CASE Enqueue(r) \/ Cancel(r)
    <3>1. pc[r] = "stored" /\ pc' = [pc EXCEPT ![r] = "done"]
          /\ UNCHANGED <<stored, dirs, databaseDir, loose, message>>
      BY <2>1 DEF Enqueue, Cancel, fileVars
    <3>2. Begun' = Begun
      BY <3>1 DEF FlushInv, FlushTypes, Begun
    <3> QED
      BY <1>1, <3>1, <3>2
  <2>2. ASSUME NEW l \in Layers, NEW t \in Tiles, Store(r, l, t) PROVE FilesInv'
    BY <2>2, StoreFiles DEF FlushInv, FlushTypes
  <2>3. ASSUME NEW l \in Layers, StoreLoose(r, l) PROVE FilesInv'
    BY <2>3, LooseFiles DEF FlushInv, FlushTypes
  <2> QED
    BY <1>4, <2>1, <2>2, <2>3 DEF PutStep, ClientStep
<1>5. CASE WriterStep
  BY <1>2, <1>5 DEF WriterStep
<1>6. ASSUME NEW a \in Admins, AdminStep(a) PROVE FilesInv'
  BY <1>2, <1>6 DEF AdminStep, AskFlush, RemoveLayer, RemoveDatabase, Protect, RebuildLock, RebuildScan,
     RebuildReadMarks, RebuildWrite, RebuildEnd, Leave
<1>7. ASSUME NEW a \in Admins, NEW j, NEW x, Start(a, j, x), UNCHANGED putVars PROVE FilesInv'
  <2>1. /\ stored' \in [Layers -> [Tiles -> Sizes \cup {0}]]
        /\ dirs' \subseteq dirs /\ loose' \subseteq loose \cup Gone(j, x) /\ databaseDir' \in BOOLEAN
        /\ \A l \in Layers : Present(l)' \subseteq Present(l)
    BY <1>7, StartFiles
  <2>2. Gone(j, x) \subseteq Layers
    BY <1>7, GoneLayers
  <2>3. \A l \in Layers : IsFiniteSet(Present(l)')
    BY <2>1, FS_Subset DEF FilesInv
  <2>4. UNCHANGED <<message, Begun>>
    BY <1>7 DEF putVars, Begun
  <2> QED
    BY <2>1, <2>2, <2>3, <2>4 DEF FilesInv
<1>8. CASE Restart
  <2>1. Begun' = Begun
    BY <1>8 DEF Restart, Begun
  <2> QED
    BY <1>1, <1>8, <2>1 DEF Restart
<1>9. ASSUME NEW l \in Layers, CloseLoose(l) PROVE FilesInv'
  BY <1>1, <1>9 DEF CloseLoose, putVars, Begun
<1> QED
  BY <1>3, <1>4, <1>5, <1>6, <1>7, <1>8, <1>9 DEF Next, AdminStart

\* What is counted in the files of a layer.
LEMMA CountType ==
    ASSUME FilesInv, NEW l \in Layers
    PROVE  Count(l) \in [tiles : Nat, bytes : Nat]
<1>1. IsFiniteSet(Present(l)) /\ \A t \in Present(l) : stored[l][t] \in Nat
  BY SizesPositive DEF FilesInv, Present
<1>2. Cardinality(Present(l)) \in Nat /\ SumFunctionOnSet(stored[l], Present(l)) \in Nat
  BY <1>1, FS_CardinalityType, SumType
<1> QED
  BY <1>2 DEF Count

\* What a scan counts: what is in the files, and for a layer with removed files
\* perhaps what these hold too.
LEMMA SeenType ==
    ASSUME FilesInv, NEW l \in Layers, NEW c \in Seen(l)
    PROVE  c \in [tiles : Nat, bytes : Nat] /\ (l \notin loose => c = Count(l))
<1>1. PICK g \in Ghosts(l) : c = [tiles |-> Count(l).tiles + Cardinality(DOMAIN g),
                                  bytes |-> Count(l).bytes + SumFunction(g)]
  BY DEF Seen
<1>2. PICK S \in SUBSET Tiles : IsFiniteSet(S) /\ (l \in loose \/ S = {}) /\ g \in [S -> Sizes]
  BY DEF Ghosts
<1>3. DOMAIN g = S /\ \A t \in S : g[t] \in Nat
  BY <1>2, SizesPositive
<1>4. SumFunction(g) = SumFunctionOnSet(g, S)
  BY <1>3 DEF SumFunction
<1>5. Cardinality(S) \in Nat /\ SumFunctionOnSet(g, S) \in Nat
  BY <1>2, <1>3, FS_CardinalityType, SumType
<1>6. PICK tiles \in Nat, bytes \in Nat : Count(l) = [tiles |-> tiles, bytes |-> bytes]
  BY CountType
<1>7. c = [tiles |-> tiles + Cardinality(S), bytes |-> bytes + SumFunctionOnSet(g, S)]
  BY <1>1, <1>3, <1>4, <1>6
<1>8. ASSUME l \notin loose PROVE c = Count(l)
  <2>1. S = {}
    BY <1>2, <1>8
  <2>2. Cardinality(S) = 0 /\ SumFunctionOnSet(g, S) = 0
    BY <2>1, FS_EmptySet, SumNone
  <2> QED
    BY <1>6, <1>7, <2>2
<1> QED
  BY <1>5, <1>7, <1>8

\* What has been sent has been stored before, and so bears a layer and a size.
LEMMA SentMessages ==
    ASSUME FlushInv, FilesInv
    PROVE  /\ \A r \in Requests : Underway(r) => r \in Begun /\ message[r] \in Messages
           /\ batch \subseteq Begun /\ pending \subseteq Begun
           /\ IsFiniteSet(batch) /\ IsFiniteSet(pending)
           /\ Batched \subseteq Layers /\ IsFiniteSet(Batched)
<1>1. \A r \in Requests : Underway(r) => r \in Begun
  BY DEF FlushInv, SentOnce, Underway, Begun
<1>2. batch \subseteq Begun /\ pending \subseteq Begun
  BY <1>1 DEF FlushInv, FlushTypes, Underway, Sent
<1>3. IsFiniteSet(batch) /\ IsFiniteSet(pending)
  BY <1>2, FS_Subset DEF FilesInv
<1>4. Batched \subseteq Layers
  BY <1>2 DEF FilesInv, Messages, Batched
<1>5. [r \in batch |-> message[r].layer] \in Surjection(batch, Batched)
  BY DEF Surjection, Batched
<1>6. IsFiniteSet(Batched)
  BY <1>3, <1>5, FS_Surjection
<1> QED
  BY <1>1, <1>2, <1>3, <1>4, <1>6 DEF FilesInv

-----------------------------------------------------------------------------
(* The rows and their totals.                                              *)

Counts == [tiles : Nat, bytes : Nat]
Rows == [tiles : Nat, bytes : Nat, protected : BOOLEAN]

RowsInv ==
    /\ layerRows \in [DOMAIN layerRows -> Rows]
    /\ DOMAIN layerRows \subseteq Layers /\ IsFiniteSet(DOMAIN layerRows)
    /\ recount \in [DOMAIN recount -> Counts] /\ DOMAIN recount \subseteq Layers
    /\ found \in [DOMAIN found -> Counts]
    /\ DOMAIN found \subseteq Layers /\ IsFiniteSet(DOMAIN found)
    /\ databaseRow = None \/ databaseRow \in [tiles : Nat, layers : Nat]
    /\ TotalsMatch

\* It holds at the start.
LEMMA InitRows == Init => RowsInv
<1> SUFFICES ASSUME Init PROVE RowsInv
  OBVIOUS
<1>1. DOMAIN NoRows = {} /\ IsFiniteSet({}) /\ \A S : NoRows \in [{} -> S]
  BY FS_EmptySet DEF NoRows
<1> QED
  BY <1>1 DEF Init, RowsInv, TotalsMatch

\* A step that changes no row, and takes or forgets counts.
LEMMA CountsRows ==
    ASSUME RowsInv, UNCHANGED <<layerRows, databaseRow>>,
           recount' \in [DOMAIN recount' -> Counts], DOMAIN recount' \subseteq Layers,
           found' \in [DOMAIN found' -> Counts], DOMAIN found' \subseteq Layers, IsFiniteSet(DOMAIN found')
    PROVE  RowsInv'
BY DEF RowsInv, TotalsMatch

\* No counts are counts.
LEMMA NoCounts == DOMAIN NoRows = {} /\ NoRows \in [DOMAIN NoRows -> Counts] /\ IsFiniteSet(DOMAIN NoRows)
BY FS_EmptySet DEF NoRows

\* The row that a batch finds and the one that it writes.
LEMMA RowTypes ==
    ASSUME FlushInv, FilesInv, RowsInv, NEW l \in Layers
    PROVE  /\ Before(l) \in Rows /\ RowWritten(l) \in Rows
           /\ IsFiniteSet(CreatedIn(l)) /\ Cardinality(CreatedIn(l)) \in Nat
           /\ \A r \in CreatedIn(l) : message[r].size \in Nat
<1>1. Before(l) \in Rows
  BY DEF Before, RowsInv, Rows
<1>2. CreatedIn(l) \subseteq batch
  BY DEF CreatedIn
<1>3. IsFiniteSet(CreatedIn(l))
  BY <1>2, SentMessages, FS_Subset
<1>4. \A r \in CreatedIn(l) : message[r].size \in Nat
  <2>1. \A r \in CreatedIn(l) : message[r] \in Messages
    BY <1>2, SentMessages DEF FilesInv
  <2> QED
    BY <2>1, SizesPositive DEF Messages
<1>5. Cardinality(CreatedIn(l)) \in Nat
  BY <1>3, FS_CardinalityType
<1>6. SumFunction([r \in CreatedIn(l) |-> message[r].size]) \in Nat
  BY <1>3, <1>4, SumType DEF SumFunction
<1>7. TilesAfter(l) \in Nat /\ BytesAfter(l) \in Nat /\ MarkAfter(l) \in BOOLEAN
  BY <1>1, <1>5, <1>6 DEF TilesAfter, BytesAfter, MarkAfter, RowsInv, Rows, Counts
<1> QED
  BY <1>1, <1>3, <1>4, <1>5, <1>7 DEF RowWritten, Rows

\* A batch moves the total by what its rows gain.
LEMMA WriteRows ==
    ASSUME FlushInv, FilesInv, RowsInv, WriteBatch, found' = found
    PROVE  RowsInv'
<1> DEFINE D == DOMAIN layerRows
           B == Batched
           f == [l \in D |-> layerRows[l].tiles]
           before == [l \in B |-> Before(l).tiles]
           after == [l \in B |-> RowWritten(l).tiles]
           g == [l \in DOMAIN layerRows' |-> layerRows'[l].tiles]
           total == SumFunctionOnSet(g, D \cup B)
<1>1. /\ layerRows' = [l \in D \cup B |-> IF l \in B THEN RowWritten(l) ELSE layerRows[l]]
      /\ databaseRow' = IF databaseRow = None
                        THEN [tiles |-> SumFunction(after) - SumFunction(before), layers |-> Cardinality(B \ D)]
                        ELSE [databaseRow EXCEPT !.tiles = @ + SumFunction(after) - SumFunction(before),
                                                 !.layers = @ + Cardinality(B \ D)]
      /\ recount' = NoRows
  BY DEF WriteBatch, EndFlush
<1>2. /\ B \subseteq Layers /\ D \subseteq Layers /\ IsFiniteSet(B) /\ IsFiniteSet(D)
      /\ \A l \in D : f[l] \in Nat
      /\ \A l \in B : RowWritten(l) \in Rows /\ Before(l) \in Rows
  BY SentMessages, RowTypes DEF RowsInv, Rows
<1>3. layerRows' \in [D \cup B -> Rows]
  BY <1>1, <1>2 DEF RowsInv
<1>4. /\ \A l \in B : after[l] \in Nat /\ before[l] = IF l \in D THEN f[l] ELSE 0
      /\ \A l \in D \cup B : g[l] = IF l \in B THEN after[l] ELSE f[l]
  <2>1. \A l \in B : after[l] \in Nat /\ before[l] = IF l \in D THEN f[l] ELSE 0
    BY <1>2 DEF Before, Rows
  <2>2. \A l \in D \cup B : g[l] = IF l \in B THEN after[l] ELSE f[l]
    BY <1>1
  <2> QED
    BY <2>1, <2>2
<1>5. DOMAIN after = B /\ DOMAIN before = B /\ DOMAIN f = D /\ DOMAIN g = D \cup B
  BY <1>1
<1>6. IsFiniteSet(D \cup B) /\ IsFiniteSet(B \ D)
  BY <1>2, FS_Union, FS_Difference
<1> HIDE DEF D, B, f, before, after, g
<1>7. /\ total = SumFunctionOnSet(f, D) + SumFunctionOnSet(after, B) - SumFunctionOnSet(before, B)
  BY <1>2, <1>4, SumMoves
<1>8. total \in Nat
  <2>1. \A l \in D \cup B : g[l] \in Nat
    BY <1>2, <1>4
  <2> QED
    BY <1>6, <2>1, SumType
<1>9. Cardinality(D \cup B) = Cardinality(D) + Cardinality(B \ D)
  <2>1. D \cup B = D \cup (B \ D) /\ D \cap (B \ D) = {}
    OBVIOUS
  <2>2. Cardinality(D) \in Nat /\ Cardinality(B \ D) \in Nat /\ Cardinality({}) = 0
    BY <1>2, <1>6, FS_CardinalityType, FS_EmptySet
  <2>3. Cardinality(D \cup (B \ D)) = Cardinality(D) + Cardinality(B \ D) - Cardinality({})
    BY <1>2, <1>6, <2>1, FS_Union
  <2>4. PICK m \in Nat : m = Cardinality(D)
    BY <2>2
  <2>5. PICK n \in Nat : n = Cardinality(B \ D)
    BY <2>2
  <2>6. Cardinality(D \cup (B \ D)) = m + n - 0
    BY <2>2, <2>3, <2>4, <2>5
  <2>7. m + n - 0 = m + n
    OBVIOUS
  <2>8. Cardinality(D \cup B) = Cardinality(D \cup (B \ D))
    BY <2>1
  <2> QED
    BY <2>4, <2>5, <2>6, <2>7, <2>8
<1>10. Cardinality(D) \in Nat /\ Cardinality(D \cup B) \in Nat
  BY <1>2, <1>6, FS_CardinalityType
<1>11. /\ SumFunction(after) = SumFunctionOnSet(after, B) /\ SumFunction(before) = SumFunctionOnSet(before, B)
       /\ SumFunction(f) = SumFunctionOnSet(f, D) /\ SumFunction(g) = total
  BY <1>5 DEF SumFunction
<1>12. /\ SumFunctionOnSet(f, D) \in Nat /\ SumFunctionOnSet(after, B) \in Nat
       /\ SumFunctionOnSet(before, B) \in Nat
  <2>1. (\A l \in B : after[l] \in Nat) /\ (\A l \in B : before[l] \in Nat)
    BY <1>2, <1>4
  <2> QED
    BY <1>2, <2>1, SumType
<1>13. IF databaseRow = None THEN D = {}
       ELSE /\ databaseRow \in [tiles : Nat, layers : Nat]
            /\ databaseRow.tiles = SumFunctionOnSet(f, D) /\ databaseRow.layers = Cardinality(D)
  BY <1>11 DEF RowsInv, TotalsMatch, f, D
<1>14. databaseRow' = [tiles |-> total, layers |-> Cardinality(D \cup B)]
  <2>1. CASE databaseRow = None
    <3>1. SumFunctionOnSet(f, D) = 0 /\ Cardinality(D) = 0
      BY <1>13, <2>1, SumNone, FS_EmptySet
    <3>2. /\ databaseRow' = [tiles |-> SumFunctionOnSet(after, B) - SumFunctionOnSet(before, B),
                             layers |-> Cardinality(B \ D)]
      BY <1>1, <1>11, <2>1
    <3>3. Cardinality(B \ D) \in Nat
      BY <1>6, FS_CardinalityType
    <3> QED
      BY <1>7, <1>9, <1>12, <3>1, <3>2, <3>3
  <2>2. CASE databaseRow # None
    <3>1. databaseRow' = [databaseRow EXCEPT
                            !.tiles = @ + SumFunctionOnSet(after, B) - SumFunctionOnSet(before, B),
                            !.layers = @ + Cardinality(B \ D)]
      BY <1>1, <1>11, <2>2
    <3> QED
      BY <1>7, <1>9, <1>13, <2>2, <3>1
  <2> QED
    BY <2>1, <2>2
<1>15. databaseRow' \in [tiles : Nat, layers : Nat]
  BY <1>8, <1>10, <1>14
<1>16. DOMAIN layerRows' = D \cup B
  BY <1>3
<1>17. TotalsMatch'
  <2>1. databaseRow'.tiles = SumFunction(g) /\ databaseRow'.layers = Cardinality(DOMAIN layerRows')
    BY <1>11, <1>14, <1>16
  <2>2. databaseRow' # None
    BY <1>15, NoneAssumption
  <2> QED
    BY <2>1, <2>2 DEF TotalsMatch, g
<1> QED
  BY <1>1, <1>2, <1>3, <1>6, <1>15, <1>16, <1>17, NoCounts DEF RowsInv

\* A removal takes the row and what it counts out of the total.
LEMMA RemoveRows ==
    ASSUME RowsInv, NEW a \in Admins, RemoveLayer(a), UNCHANGED <<recount, found>>
    PROVE  RowsInv'
<1> DEFINE D == DOMAIN layerRows
           x == target[a]
           f == [l \in D |-> layerRows[l].tiles]
           g == [l \in DOMAIN layerRows' |-> layerRows'[l].tiles]
<1>1. layerRows' = [l \in D \ {x} |-> layerRows[l]]
      /\ databaseRow' = IF x \in D THEN DatabaseWithout(x) ELSE databaseRow
  BY DEF RemoveLayer
<1>2. CASE x \notin D
  <2>1. layerRows' = layerRows /\ databaseRow' = databaseRow
    <3>1. D \ {x} = D
      BY <1>2
    <3>2. layerRows = [l \in D |-> layerRows[l]]
      BY DEF RowsInv
    <3> QED
      BY <1>1, <1>2, <3>1, <3>2
  <2> QED
    BY <2>1, CountsRows DEF RowsInv
<1>3. CASE x \in D
  <2>1. /\ D \subseteq Layers /\ IsFiniteSet(D) /\ \A l \in D : layerRows[l] \in Rows
        /\ \A l \in D : f[l] = layerRows[l].tiles /\ f[l] \in Nat
    BY DEF RowsInv, Rows
  <2>2. DOMAIN layerRows' = D \ {x} /\ layerRows' \in [D \ {x} -> Rows]
    BY <1>1, <2>1
  <2>3. \A l \in D \ {x} : g[l] = f[l]
    BY <1>1, <2>1
  <2>4. IsFiniteSet(D \ {x})
    BY <2>1, FS_RemoveElement
  <2>5. DOMAIN f = D /\ DOMAIN g = D \ {x} /\ f[x] = layerRows[x].tiles
    BY <1>3, <2>2
  <2>6. /\ databaseRow # None /\ databaseRow \in [tiles : Nat, layers : Nat]
        /\ databaseRow.tiles = SumFunction(f) /\ databaseRow.layers = Cardinality(D)
    BY <1>3 DEF RowsInv, TotalsMatch
  <2>7. databaseRow' = [databaseRow EXCEPT
                          !.tiles = IF @ >= layerRows[x].tiles THEN @ - layerRows[x].tiles ELSE 0,
                          !.layers = IF @ >= 1 THEN @ - 1 ELSE 0]
    BY <1>1, <1>3 DEF DatabaseWithout
  <2> HIDE DEF D, x, f, g
  <2>8. /\ SumFunctionOnSet(f, D \ {x}) \in Nat
        /\ SumFunctionOnSet(f, D) = SumFunctionOnSet(f, D \ {x}) + f[x]
    BY <1>3, <2>1, SumLoses
  <2>9. SumFunctionOnSet(g, D \ {x}) = SumFunctionOnSet(f, D \ {x})
    BY <2>1, <2>3, <2>4, SumAgrees
  <2>10. SumFunction(f) = SumFunctionOnSet(f, D) /\ SumFunction(g) = SumFunctionOnSet(g, D \ {x})
    BY <2>5 DEF SumFunction
  <2>11. PICK m \in Nat : m = Cardinality(D \ {x})
    BY <2>4, FS_CardinalityType
  <2>12. Cardinality(D) \in Nat /\ m = Cardinality(D) - 1
    BY <1>3, <2>1, <2>11, FS_CardinalityType, FS_RemoveElement
  <2>13. PICK n \in Nat : n = SumFunctionOnSet(g, D \ {x})
    BY <2>8, <2>9
  <2>14. SumFunction(f) = n + layerRows[x].tiles /\ layerRows[x].tiles \in Nat
    BY <1>3, <2>1, <2>8, <2>9, <2>10, <2>13
  <2>15. databaseRow.tiles = n + layerRows[x].tiles /\ databaseRow.layers = m + 1
    BY <2>6, <2>12, <2>14
  <2>16. databaseRow' = [tiles |-> n, layers |-> m]
    <3>1. PICK k \in Nat : k = layerRows[x].tiles
      BY <2>14
    <3>2. databaseRow \in [tiles : Nat, layers : Nat]
      BY <2>6
    <3>3. databaseRow' = [tiles |-> IF databaseRow.tiles >= k THEN databaseRow.tiles - k ELSE 0,
                          layers |-> IF databaseRow.layers >= 1 THEN databaseRow.layers - 1 ELSE 0]
      BY <2>7, <3>1, <3>2
    <3>4. (IF databaseRow.tiles >= k THEN databaseRow.tiles - k ELSE 0) = n
      BY <2>15, <3>1
    <3>5. (IF databaseRow.layers >= 1 THEN databaseRow.layers - 1 ELSE 0) = m
      BY <2>15
    <3> QED
      BY <3>3, <3>4, <3>5
  <2>17. databaseRow' \in [tiles : Nat, layers : Nat]
    BY <2>16
  <2>18. TotalsMatch'
    <3>1. databaseRow'.tiles = SumFunction(g) /\ databaseRow'.layers = Cardinality(DOMAIN layerRows')
      BY <2>2, <2>10, <2>11, <2>13, <2>16
    <3>2. databaseRow' # None
      BY <2>17, NoneAssumption
    <3> QED
      BY <3>1, <3>2 DEF TotalsMatch, g
  <2> QED
    BY <2>1, <2>2, <2>4, <2>17, <2>18 DEF RowsInv
<1> QED
  BY <1>2, <1>3

\* A rebuild puts what it found in the place of every row.
LEMMA RebuildRows ==
    ASSUME RebuildInv, RowsInv, NEW a \in Admins, RebuildWrite(a), UNCHANGED recount
    PROVE  RowsInv'
<1> DEFINE F == DOMAIN found
           counted == [l \in F |-> found[l].tiles]
           g == [l \in DOMAIN layerRows' |-> layerRows'[l].tiles]
<1>1. /\ layerRows' = [l \in F |-> [tiles |-> found[l].tiles, bytes |-> found[l].bytes,
                                    protected |-> l \in oldMarks]]
      /\ databaseRow' = IF step[a] = "emptying" THEN None
                        ELSE [tiles |-> SumFunction(counted), layers |-> Cardinality(F)]
      /\ found' = NoRows
  BY DEF RebuildWrite
<1>2. /\ F \subseteq Layers /\ IsFiniteSet(F) /\ \A l \in F : found[l] \in Counts
      /\ \A l \in F : counted[l] = found[l].tiles /\ counted[l] \in Nat
  BY DEF RowsInv, Counts
<1>3. DOMAIN layerRows' = F /\ layerRows' \in [F -> Rows]
  BY <1>1, <1>2 DEF Rows, Counts
<1>4. DOMAIN g = F /\ g = counted
  BY <1>1, <1>3
<1>5. SumFunction(counted) \in Nat /\ Cardinality(F) \in Nat
  BY <1>2, SumType, FS_CardinalityType DEF SumFunction
<1>6. CASE step[a] = "emptying"
  <2>1. F = {}
    BY <1>6, NoCounts DEF RebuildInv
  <2>2. TotalsMatch'
    BY <1>1, <1>3, <1>6, <2>1 DEF TotalsMatch
  <2> QED
    BY <1>1, <1>2, <1>3, <1>6, <2>2, NoCounts DEF RowsInv
<1>7. CASE step[a] # "emptying"
  <2>1. databaseRow' = [tiles |-> SumFunction(counted), layers |-> Cardinality(F)]
    BY <1>1, <1>7
  <2>2. databaseRow' \in [tiles : Nat, layers : Nat]
    BY <1>5, <2>1
  <2>3. databaseRow' # None
    BY <2>2, NoneAssumption
  <2>4. databaseRow'.tiles = SumFunction(g) /\ databaseRow'.layers = Cardinality(DOMAIN layerRows')
    BY <1>3, <1>4, <2>1
  <2>5. TotalsMatch'
    BY <2>3, <2>4 DEF TotalsMatch
  <2> QED
    BY <1>1, <1>2, <1>3, <2>2, <2>5, NoCounts DEF RowsInv
<1> QED
  BY <1>6, <1>7

\* A mark, and a rename with it, changes what no total counts.
LEMMA ProtectRows ==
    ASSUME RowsInv, NEW a \in Admins, Protect(a), UNCHANGED <<recount, found>>
    PROVE  RowsInv'
<1> DEFINE D == DOMAIN layerRows
           f == [l \in D |-> layerRows[l].tiles]
           g == [l \in DOMAIN layerRows' |-> layerRows'[l].tiles]
<1>1. /\ layerRows' = [l \in D |-> IF l = target[a] THEN [layerRows[l] EXCEPT !.protected = TRUE]
                                   ELSE layerRows[l]]
      /\ databaseRow' = databaseRow
  BY DEF Protect
<1>2. \A l \in D : layerRows[l] \in Rows
  BY DEF RowsInv
<1>3. ASSUME NEW l \in D PROVE layerRows'[l] \in Rows /\ layerRows'[l].tiles = layerRows[l].tiles
  <2>1. layerRows'[l] = IF l = target[a] THEN [layerRows[l] EXCEPT !.protected = TRUE] ELSE layerRows[l]
    BY <1>1
  <2>2. layerRows[l] \in Rows
    BY <1>2
  <2> QED
    BY <2>1, <2>2 DEF Rows
<1>4. DOMAIN layerRows' = D
  BY <1>1
<1>5. layerRows' \in [D -> Rows] /\ g = f
  BY <1>1, <1>3, <1>4
<1>6. TotalsMatch'
  BY <1>1, <1>4, <1>5 DEF RowsInv, TotalsMatch
<1> QED
  BY <1>1, <1>4, <1>5, <1>6 DEF RowsInv

\* Every step keeps it.
LEMMA NextRows == FlushInv /\ FilesInv /\ RebuildInv /\ RowsInv /\ [Next]_vars => RowsInv'
<1> SUFFICES ASSUME FlushInv, FilesInv, RebuildInv, RowsInv, [Next]_vars PROVE RowsInv'
  OBVIOUS
<1>1. ASSUME UNCHANGED rowVars,
             recount' = recount \/ recount' = NoRows
               \/ \E l \in Layers : \E c \in Seen(l) :
                    recount' = [x \in DOMAIN recount \cup {l} |-> IF x = l THEN c ELSE recount[x]],
             found' = found \/ found' = NoRows
               \/ \E l \in Layers : \E c \in Seen(l) :
                    found' = [x \in DOMAIN found \cup {l} |-> IF x = l THEN c ELSE found[x]]
      PROVE RowsInv'
  <2>1. ASSUME NEW l \in Layers, NEW c \in Seen(l),
               recount' = [x \in DOMAIN recount \cup {l} |-> IF x = l THEN c ELSE recount[x]]
        PROVE recount' \in [DOMAIN recount' -> Counts] /\ DOMAIN recount' \subseteq Layers
    <3>1. c \in Counts
      BY SeenType DEF Counts
    <3> QED
      BY <2>1, <3>1 DEF RowsInv
  <2>2. ASSUME NEW l \in Layers, NEW c \in Seen(l),
               found' = [x \in DOMAIN found \cup {l} |-> IF x = l THEN c ELSE found[x]]
        PROVE /\ found' \in [DOMAIN found' -> Counts]
              /\ DOMAIN found' \subseteq Layers /\ IsFiniteSet(DOMAIN found')
    <3>1. DOMAIN found' = DOMAIN found \cup {l}
      BY <2>2
    <3>2. IsFiniteSet(DOMAIN found')
      BY <3>1, FS_AddElement DEF RowsInv
    <3>3. c \in Counts
      BY SeenType DEF Counts
    <3> QED
      BY <2>2, <3>2, <3>3 DEF RowsInv
  <2>3. recount' \in [DOMAIN recount' -> Counts] /\ DOMAIN recount' \subseteq Layers
    BY <1>1, <2>1, NoCounts DEF RowsInv
  <2>4. found' \in [DOMAIN found' -> Counts] /\ DOMAIN found' \subseteq Layers /\ IsFiniteSet(DOMAIN found')
    BY <1>1, <2>2, NoCounts DEF RowsInv
  <2> QED
    BY <1>1, <2>3, <2>4, CountsRows DEF rowVars
<1>2. CASE UNCHANGED vars
  BY <1>1, <1>2 DEF vars, flushVars, rebuildVars, scanVars
<1>3. CASE \E r \in Requests : PutStep(r) \/ ClientStep(r)
  BY <1>1, <1>3 DEF PutStep, ClientStep, PutFrame, flushVars, rebuildVars, scanVars
<1>4. CASE WriterStep
  <2>1. found' = found
    BY <1>4 DEF WriterStep, rebuildVars, scanVars
  <2>2. CASE Receive \/ ReceiveFlush \/ Tick
    <3>1. UNCHANGED rowVars /\ (recount' = recount \/ recount' = NoRows)
      BY <2>2 DEF Receive, ReceiveFlush, Tick, StartFlush, flushVars
    <3> QED
      BY <1>1, <2>1, <3>1
  <2>3. CASE FailFlush
    BY <1>1, <2>1, <2>3 DEF FailFlush, EndFlush
  <2>4. CASE WriteBatch
    BY <2>1, <2>4, WriteRows
  <2>5. ASSUME NEW l \in Layers, Recount(l) PROVE RowsInv'
    BY <1>1, <2>1, <2>5 DEF Recount
  <2> QED
    BY <1>4, <2>2, <2>3, <2>4, <2>5 DEF WriterStep
<1>5. ASSUME NEW a \in Admins, AdminStep(a) PROVE RowsInv'
  <2>1. recount' = recount
    BY <1>5 DEF AdminStep, flushVars
  <2>2. CASE RemoveLayer(a)
    BY <2>1, <2>2, RemoveRows DEF RemoveLayer, rebuildVars, scanVars
  <2>3. CASE RemoveDatabase(a)
    <3>1. layerRows' = NoRows /\ databaseRow' = None /\ found' = found
      BY <2>3 DEF RemoveDatabase, rebuildVars, scanVars
    <3>2. DOMAIN NoRows = {} /\ NoRows \in [{} -> Rows] /\ IsFiniteSet({})
      BY FS_EmptySet DEF NoRows
    <3> QED
      BY <2>1, <3>1, <3>2 DEF RowsInv, TotalsMatch
  <2>4. CASE Protect(a)
    BY <2>1, <2>4, ProtectRows DEF Protect
  <2>5. CASE RebuildWrite(a)
    BY <2>1, <2>5, RebuildRows
  <2>6. CASE AskFlush(a) \/ RebuildLock(a) \/ RebuildReadMarks(a) \/ RebuildEnd(a) \/ Leave(a)
    BY <1>1, <2>1, <2>6 DEF AskFlush, RebuildLock, RebuildReadMarks, RebuildEnd, Leave, rebuildVars, scanVars
  <2>7. ASSUME NEW l \in Layers, RebuildScan(a, l) PROVE RowsInv'
    BY <1>1, <2>1, <2>7 DEF RebuildScan
  <2> QED
    BY <1>5, <2>2, <2>3, <2>4, <2>5, <2>6, <2>7 DEF AdminStep
<1>6. ASSUME NEW a \in Admins, AdminStart(a) PROVE RowsInv'
  BY <1>1, <1>6 DEF AdminStart, Start, flushVars, scanVars
<1>7. CASE Restart
  BY <1>1, <1>7 DEF Restart
<1>8. CASE \E l \in Layers : CloseLoose(l)
  BY <1>1, <1>8 DEF CloseLoose, flushVars, rebuildVars, scanVars
<1> QED
  BY <1>2, <1>3, <1>4, <1>5, <1>6, <1>7, <1>8 DEF Next

\* Increments, recounts, removals and rebuilds, in any order and with any of
\* them failing, keep the database row the sum of its layers' rows.
THEOREM TotalsAlwaysMatch == Spec => []TotalsMatch
<1>1. Init => FlushInv /\ FilesInv /\ RebuildInv /\ RowsInv
  BY InitFlush, InitFiles, InitRebuild, InitRows
<1>2. FlushInv /\ FilesInv /\ RebuildInv /\ RowsInv /\ [Next]_vars => (FlushInv /\ FilesInv /\ RebuildInv /\ RowsInv)'
  BY NextFlush, NextFiles, NextRebuild, NextRows
<1>3. RowsInv => TotalsMatch
  BY DEF RowsInv
<1> QED
  BY <1>1, <1>2, <1>3, PTL DEF Spec
-----------------------------------------------------------------------------
(* What the rows miss.                                                     *)

\* A message is in one place on its way from the queue to its batch.
OnceInv ==
    /\ \A n \in DOMAIN queue : queue[n] \in Requests =>
         /\ queue[n] \notin pending \cup batch
         /\ \A m \in DOMAIN queue : queue[m] = queue[n] => m = n
    /\ pending \cap batch = {}

\* Every step keeps it.
LEMMA NextOnce == FlushInv /\ OnceInv /\ [Next]_vars => OnceInv'
<1> SUFFICES ASSUME FlushInv, OnceInv, [Next]_vars PROVE OnceInv'
  OBVIOUS
<1> USE ConstantsAssumption
<1>1. ASSUME UNCHANGED <<queue, pending, batch>> PROVE OnceInv'
  BY <1>1 DEF OnceInv
<1>2. CASE UNCHANGED vars
  BY <1>1, <1>2 DEF vars, flushVars
<1>3. ASSUME NEW r \in Requests, PutStep(r) PROVE OnceInv'
  <2>1. pc[r] = "stored" /\ queue' = Append(queue, r) /\ UNCHANGED <<pending, batch>>
    BY <1>3 DEF PutStep, Enqueue, PutFrame, flushVars
  <2>2. ~Sent(r)
    BY <2>1 DEF FlushInv, SentOnce
  <2>3. /\ \A n \in DOMAIN queue' : \/ n \in DOMAIN queue /\ queue'[n] = queue[n]
                                    \/ n = Len(queue) + 1 /\ queue'[n] = r
        /\ \A n \in DOMAIN queue : queue[n] # r
    BY <2>1, <2>2, Appended DEF FlushInv, Sent, Queued
  <2> QED
    BY <2>1, <2>2, <2>3 DEF OnceInv, Sent
<1>4. ASSUME NEW r \in Requests, ClientStep(r) PROVE OnceInv'
  BY <1>1, <1>4 DEF ClientStep, Store, StoreLoose, Cancel, PutFrame, flushVars
<1>5. CASE WriterStep
  <2>1. CASE Receive \/ ReceiveFlush
    <3>1. /\ writer = "idle" /\ queue # <<>> /\ queue' = Tail(queue)
          /\ \/ Head(queue) \in Requests /\ pending' = {} /\ batch' = pending \cup {Head(queue)}
             \/ Head(queue) \in Requests /\ pending' = pending \cup {Head(queue)} /\ batch' = batch
             \/ pending' = pending /\ batch' = batch
             \/ pending' = {} /\ batch' = pending
      BY <2>1 DEF Receive, ReceiveFlush, StartFlush, flushVars
    <3>2. batch = {}
      BY <3>1 DEF FlushInv, FlushTypes
    <3>3. /\ \A n \in DOMAIN queue' : n + 1 \in DOMAIN queue /\ queue'[n] = queue[n + 1]
          /\ Head(queue) = queue[1] /\ 1 \in DOMAIN queue
          /\ DOMAIN queue' \subseteq Nat \ {0}
      BY <3>1, Received DEF FlushInv, FlushTypes
    <3>4. ASSUME NEW n \in DOMAIN queue', queue'[n] \in Requests
          PROVE  queue'[n] \notin pending' \cup batch'
      <4>1. n + 1 \in DOMAIN queue /\ queue'[n] = queue[n + 1] /\ n + 1 # 1
        BY <3>3
      <4>2. queue[n + 1] \notin pending /\ queue[n + 1] # queue[1]
        BY <3>3, <3>4, <4>1 DEF OnceInv
      <4> QED
        BY <3>1, <3>2, <3>3, <4>1, <4>2
    <3>5. ASSUME NEW n \in DOMAIN queue', queue'[n] \in Requests,
                 NEW m \in DOMAIN queue', queue'[m] = queue'[n]
          PROVE  m = n
      <4>1. m + 1 = n + 1
        BY <3>3, <3>5 DEF OnceInv
      <4> QED
        BY <3>3, <4>1
    <3> QED
      BY <3>1, <3>2, <3>4, <3>5 DEF OnceInv
  <2>2. CASE Tick
    <3>1. batch' = pending /\ pending' = {} /\ queue' = queue
      BY <2>2 DEF Tick, StartFlush
    <3> QED
      BY <3>1 DEF OnceInv
  <2>3. CASE FailFlush \/ WriteBatch
    <3>1. batch' = {} /\ pending' = pending /\ queue' = queue
      BY <2>3 DEF FailFlush, WriteBatch, EndFlush
    <3> QED
      BY <3>1 DEF OnceInv
  <2>4. CASE \E l \in Layers : Recount(l)
    BY <1>1, <2>4 DEF Recount
  <2> QED
    BY <1>5, <2>1, <2>2, <2>3, <2>4 DEF WriterStep
<1>6. ASSUME NEW a \in Admins, AdminStep(a) PROVE OnceInv'
  <2>1. UNCHANGED <<pending, batch>>
    BY <1>6 DEF AdminStep, flushVars
  <2>2. CASE AskFlush(a)
    <3>1. queue' = Append(queue, a) /\ a \notin Requests
      BY <2>2 DEF AskFlush
    <3>2. \A n \in DOMAIN queue' : \/ n \in DOMAIN queue /\ queue'[n] = queue[n]
                                   \/ queue'[n] = a
      BY <3>1, Appended DEF FlushInv
    <3> QED
      BY <2>1, <3>1, <3>2 DEF OnceInv
  <2>3. CASE ~AskFlush(a)
    <3>1. queue' = queue
      BY <1>6, <2>3 DEF AdminStep, RemoveLayer, RemoveDatabase, Protect, RebuildLock, RebuildScan,
         RebuildReadMarks, RebuildWrite, RebuildEnd, Leave
    <3> QED
      BY <1>1, <2>1, <3>1
  <2> QED
    BY <2>2, <2>3
<1>7. ASSUME NEW a \in Admins, AdminStart(a) PROVE OnceInv'
  BY <1>1, <1>7 DEF AdminStart, Start, flushVars
<1>8. CASE Restart
  BY <1>8 DEF Restart, OnceInv
<1>9. CASE \E l \in Layers : CloseLoose(l)
  BY <1>1, <1>9 DEF CloseLoose, flushVars
<1> QED
  BY <1>2, <1>3, <1>4, <1>5, <1>6, <1>7, <1>8, <1>9 DEF Next

Concerns(r, l) == Underway(r) /\ message[r].layer = l

\* The new tiles of layer l, and its overwrites, whose messages are still to
\* come.  An overwrite in the batch has been counted with its layer, or will be.
Late(l) == {r \in Requests : Concerns(r, l) /\ message[r].created}
Rewrites(l) == {r \in Requests : /\ Concerns(r, l) /\ ~message[r].created
                                 /\ r \in batch => l \in unscanned \cup DOMAIN recount}

\* What the messages f of the requests in S will bring.
Owed(f, S) == [tiles |-> Cardinality(S), bytes |-> SumFunction([r \in S |-> f[r].size])]

\* A row and what it is owed make the count.  Overwrites are not in the sums of
\* bytes before they are settled.
Agrees(row, owed, count, settled) ==
    /\ row.tiles + owed.tiles = count.tiles
    /\ settled => row.bytes + owed.bytes = count.bytes

RowAgrees(l) == Agrees(Before(l), Owed(message, Late(l)), Count(l), Rewrites(l) = {} \/ l \notin dirs)
RecountAgrees(l) ==
    l \in dirs /\ Agrees(recount[l], Owed(message, Late(l) \ batch), Count(l), Rewrites(l) \ batch = {})
FoundAgrees(l) == l \in dirs /\ Agrees(found[l], Owed(message, Late(l)), Count(l), Rewrites(l) = {})

\* Rows, recounts and what a rebuild has found agree with the files, but for the
\* layers that the history calls drifted or raced.
DriftInv ==
    /\ \A l \in Layers \ drifted : RowAgrees(l)
    /\ \A l \in DOMAIN recount \ recountRaced : RecountAgrees(l)
    /\ \A l \in DOMAIN found \ foundRaced : FoundAgrees(l)
    /\ \A l \in Layers \ dirs : Present(l) = {}
    /\ lock = None => found = NoRows
    /\ writer = "idle" => recount = NoRows /\ unscanned = {}

\* What two sets of messages bring.
LEMMA OwedSplits ==
    ASSUME NEW f, NEW S, IsFiniteSet(S), NEW T, IsFiniteSet(T), S \cap T = {},
           \A r \in S \cup T : f[r].size \in Nat
    PROVE  /\ Owed(f, S \cup T).tiles = Owed(f, S).tiles + Owed(f, T).tiles
           /\ Owed(f, S \cup T).bytes = Owed(f, S).bytes + Owed(f, T).bytes
<1> DEFINE size(X) == [r \in X |-> f[r].size]
<1>1. Cardinality(S \cup T) = Cardinality(S) + Cardinality(T)
  <2>1. PICK m \in Nat : m = Cardinality(S)
    BY FS_CardinalityType
  <2>2. PICK n \in Nat : n = Cardinality(T)
    BY FS_CardinalityType
  <2>3. Cardinality(S \cap T) = 0
    BY FS_EmptySet
  <2>4. Cardinality(S \cup T) = m + n - 0
    BY <2>1, <2>2, <2>3, FS_Union
  <2> QED
    BY <2>1, <2>2, <2>4
<1>2. SumFunctionOnSet(size(S \cup T), S \cup T)
        = SumFunctionOnSet(size(S \cup T), S) + SumFunctionOnSet(size(S \cup T), T)
  BY SumSplits
<1>3. SumFunctionOnSet(size(S \cup T), S) = SumFunctionOnSet(size(S), S)
  BY SumAgrees
<1>4. SumFunctionOnSet(size(S \cup T), T) = SumFunctionOnSet(size(T), T)
  BY SumAgrees
<1> QED
  BY <1>1, <1>2, <1>3, <1>4 DEF Owed, SumFunction

\* What is owed is counted in numbers.
LEMMA OwedType ==
    ASSUME NEW f, NEW S, IsFiniteSet(S), \A r \in S : f[r].size \in Nat
    PROVE  Owed(f, S) \in [tiles : Nat, bytes : Nat]
BY FS_CardinalityType, SumType DEF Owed, SumFunction

\* Without a message nothing is owed.
LEMMA OwedNone == ASSUME NEW f PROVE Owed(f, {}) = [tiles |-> 0, bytes |-> 0]
BY FS_EmptySet, SumNone DEF Owed, SumFunction

\* What one more message brings.
LEMMA OwedGrows ==
    ASSUME NEW f, NEW g, NEW S, IsFiniteSet(S), NEW r, r \notin S,
           \A q \in S : f[q].size \in Nat /\ g[q] = f[q], g[r].size \in Nat
    PROVE  /\ Owed(g, S \cup {r}).tiles = Owed(f, S).tiles + 1
           /\ Owed(g, S \cup {r}).bytes = Owed(f, S).bytes + g[r].size
<1>1. IsFiniteSet({r}) /\ Cardinality({r}) = 1
  BY FS_Singleton
<1>2. Owed(g, S) = Owed(f, S)
  BY DEF Owed
<1>3. Owed(g, {r}) = [tiles |-> 1, bytes |-> g[r].size]
  BY <1>1, SumOne DEF Owed, SumFunction
<1>4. S \cap {r} = {} /\ \A q \in S \cup {r} : g[q].size \in Nat
  OBVIOUS
<1> QED
  BY <1>1, <1>2, <1>3, <1>4, OwedSplits

\* It holds at the start.
LEMMA InitDrift == Init => DriftInv
<1> SUFFICES ASSUME Init PROVE DriftInv
  OBVIOUS
<1>1. DOMAIN NoRows = {}
  BY DEF NoRows
<1>2. ASSUME NEW l \in Layers PROVE RowAgrees(l) /\ Present(l) = {}
  <2>1. Before(l) = [tiles |-> 0, bytes |-> 0, protected |-> FALSE]
    BY <1>1 DEF Init, Before
  <2>2. Late(l) = {} /\ Present(l) = {}
    BY DEF Init, Late, Concerns, Underway, Sent, Queued, Present
  <2>3. Owed(message, {}) = [tiles |-> 0, bytes |-> 0]
    BY FS_EmptySet, SumNone DEF Owed, SumFunction
  <2>4. Count(l) = [tiles |-> 0, bytes |-> 0]
    BY <2>2, FS_EmptySet, SumNone DEF Count
  <2> QED
    BY <2>1, <2>2, <2>3, <2>4 DEF RowAgrees, Agrees
<1> QED
  BY <1>1, <1>2 DEF Init, DriftInv

\* What a step leaves that does not touch the files or the messages of a layer.
LEMMA LayerKeeps ==
    ASSUME NEW l \in Layers, UNCHANGED stored[l], l \in dirs' <=> l \in dirs,
           \A r \in Requests : Concerns(r, l)' <=> Concerns(r, l),
           \A r \in Requests : Concerns(r, l) => UNCHANGED message[r]
    PROVE  /\ /\ UNCHANGED <<Before(l).tiles, Before(l).bytes>>
              /\ Rewrites(l)' = {} => Rewrites(l) = {} \/ l \notin dirs
              => (RowAgrees(l) => RowAgrees(l)')
           /\ UNCHANGED <<recount[l], batch>> => (RecountAgrees(l) => RecountAgrees(l)')
           /\ /\ UNCHANGED found[l]
              /\ Rewrites(l)' = {} => Rewrites(l) = {} \/ l \notin dirs
              => (FoundAgrees(l) => FoundAgrees(l)')
           /\ UNCHANGED <<Late(l), Owed(message, Late(l)), Present(l), Count(l)>>
<1>1. Present(l)' = Present(l) /\ Count(l)' = Count(l)
  BY DEF Present, Count
<1>2. Late(l)' = Late(l) /\ \A r \in Late(l) : message'[r] = message[r]
  BY DEF Late
<1>3. Owed(message, Late(l))' = Owed(message, Late(l))
  BY <1>2 DEF Owed
<1>4. batch' = batch => (Late(l) \ batch)' = Late(l) \ batch /\ Owed(message, Late(l) \ batch)' = Owed(message, Late(l) \ batch)
  BY <1>2 DEF Owed
<1>5. batch' = batch => (Rewrites(l) \ batch)' = Rewrites(l) \ batch
  BY DEF Rewrites
<1> QED
  BY <1>1, <1>2, <1>3, <1>4, <1>5 DEF RowAgrees, RecountAgrees, FoundAgrees, Agrees

\* A step that marks the layers it touches as drifted, and no flush.
LEMMA DriftKept ==
    ASSUME DriftInv, RowsInv, NEW L,
           \A l \in Layers \ L :
              /\ UNCHANGED <<stored[l], Before(l).tiles, Before(l).bytes>> /\ (l \in dirs' <=> l \in dirs)
              /\ \A r \in Requests : /\ Concerns(r, l)' <=> Concerns(r, l)
                                     /\ Concerns(r, l) => UNCHANGED message[r],
           \A l \in Layers \cap L : l \in dirs' \/ Present(l)' = {},
           UNCHANGED <<batch, unscanned, recount, writer>>,
           UNCHANGED found \/ found' = NoRows, lock' = None => found' = NoRows,
           drifted \cup L \subseteq drifted',
           recountRaced \cup (L \cap DOMAIN recount) \subseteq recountRaced',
           DOMAIN found' \cap (foundRaced \cup L) \subseteq foundRaced'
    PROVE  DriftInv'
<1>1. ASSUME NEW l \in Layers \ L
      PROVE  /\ RowAgrees(l) => RowAgrees(l)'
             /\ RecountAgrees(l) => RecountAgrees(l)'
             /\ UNCHANGED found[l] => (FoundAgrees(l) => FoundAgrees(l)')
             /\ Present(l)' = Present(l)
  <2>1. Rewrites(l)' = Rewrites(l)
    BY DEF Rewrites
  <2> QED
    BY <2>1, LayerKeeps
<1>2. \A l \in Layers \ drifted' : RowAgrees(l)'
  BY <1>1 DEF DriftInv
<1>3. \A l \in DOMAIN recount' \ recountRaced' : RecountAgrees(l)'
  BY <1>1 DEF DriftInv, RowsInv
<1>4. \A l \in DOMAIN found' \ foundRaced' : FoundAgrees(l)'
  <2>1. CASE found' = found
    BY <1>1, <2>1 DEF DriftInv, RowsInv
  <2>2. CASE found' = NoRows
    BY <2>2, NoCounts
  <2> QED
    BY <2>1, <2>2
<1>5. \A l \in Layers \ dirs' : Present(l)' = {}
  BY <1>1 DEF DriftInv
<1>6. writer' = "idle" => recount' = NoRows /\ unscanned' = {}
  BY DEF DriftInv
<1> QED
  BY <1>2, <1>3, <1>4, <1>5, <1>6 DEF DriftInv, NoRows

\* The same when no layer is touched and no row.
LEMMA DriftAside ==
    ASSUME DriftInv, RowsInv, UNCHANGED <<stored, dirs, message>>,
           \A l \in Layers : UNCHANGED <<Before(l).tiles, Before(l).bytes>>,
           \A r \in Requests : Underway(r)' <=> Underway(r),
           UNCHANGED <<batch, unscanned, recount, writer, drifted, recountRaced>>,
           UNCHANGED <<found, foundRaced>> \/ found' = NoRows, lock' = None => found' = NoRows
    PROVE  DriftInv'
<1>1. \A l \in Layers : \A r \in Requests : Concerns(r, l)' <=> Concerns(r, l)
  BY DEF Concerns
<1>2. DOMAIN found' \cap foundRaced \subseteq foundRaced'
  BY NoCounts
<1> QED
  BY <1>1, <1>2, DriftKept

\* The messages under way of a layer are finitely many, and have sizes.
LEMMA LateFinite ==
    ASSUME FlushInv, FilesInv, NEW l \in Layers
    PROVE  IsFiniteSet(Late(l)) /\ \A r \in Late(l) : message[r].size \in Nat
<1>1. Late(l) \subseteq Begun /\ \A r \in Late(l) : message[r] \in Messages
  BY SentMessages DEF Late, Concerns
<1>2. \A r \in Late(l) : message[r].size \in Nat
  BY <1>1, SizesPositive DEF Messages
<1> QED
  BY <1>1, <1>2, FS_Subset DEF FilesInv

\* A tile that is put: one more if there was none.
LEMMA StoreCounts ==
    ASSUME FilesInv, NEW l \in Layers, NEW t \in Tiles, NEW s \in Sizes,
           stored' = [stored EXCEPT ![l][t] = s]
    PROVE  /\ stored[l][t] = 0 => /\ Count(l)'.tiles = Count(l).tiles + 1
                                  /\ Count(l)'.bytes = Count(l).bytes + s
           /\ stored[l][t] # 0 => Count(l)'.tiles = Count(l).tiles
<1> USE ConstantsAssumption, SizesPositive
<1>1. /\ stored'[l] = [stored[l] EXCEPT ![t] = s] /\ DOMAIN stored[l] = Tiles
      /\ s \in Nat \ {0} /\ \A u \in Tiles : stored[l][u] \in Nat
  <2>1. stored[l] \in [Tiles -> Sizes \cup {0}] /\ DOMAIN stored = Layers
    BY DEF FilesInv
  <2>2. stored'[l] = [stored[l] EXCEPT ![t] = s]
    BY <2>1
  <2> QED
    BY <2>1, <2>2
<1>2. Present(l)' = Present(l) \cup {t} /\ IsFiniteSet(Present(l)) /\ IsFiniteSet({t})
  <2>1. Present(l)' = Present(l) \cup {t}
    BY <1>1 DEF Present
  <2> QED
    BY <2>1, FS_Singleton DEF FilesInv
<1>3. CASE stored[l][t] # 0
  <2>1. Present(l)' = Present(l)
    BY <1>2, <1>3 DEF Present
  <2> QED
    BY <1>3, <2>1 DEF Count
<1>4. CASE stored[l][t] = 0
  <2> DEFINE P == Present(l)
             f == stored[l]
             g == stored'[l]
  <2>1. t \notin P /\ P \subseteq Tiles
    BY <1>4 DEF Present
  <2>2. /\ \A u \in P : f[u] \in Nat /\ g[u] = f[u]
        /\ g[t] = s /\ \A u \in P \cup {t} : g[u] \in Nat
    BY <1>1, <2>1
  <2>3. /\ Count(l)'.tiles = Cardinality(P \cup {t}) /\ Count(l).tiles = Cardinality(P)
        /\ Count(l)'.bytes = SumFunctionOnSet(g, P \cup {t}) /\ Count(l).bytes = SumFunctionOnSet(f, P)
    BY <1>2 DEF Count
  <2>4. IsFiniteSet(P)
    BY <1>2
  <2> HIDE DEF P, f, g
  <2>5. Cardinality(P \cup {t}) = Cardinality(P) + 1
    BY <2>1, <2>4, FS_AddElement
  <2>6. SumFunctionOnSet(g, P) = SumFunctionOnSet(f, P) /\ SumFunctionOnSet(g, {t}) = s
    BY <1>1, <2>2, <2>4, SumAgrees, SumOne
  <2>7. SumFunctionOnSet(g, P \cup {t}) = SumFunctionOnSet(g, P) + SumFunctionOnSet(g, {t})
    BY <1>2, <2>1, <2>2, <2>4, SumSplits
  <2> QED
    BY <1>4, <2>3, <2>5, <2>6, <2>7
<1> QED
  BY <1>3, <1>4

\* A new tile is owed and counted, so that rows agree as before.
LEMMA AgreesGrows ==
    ASSUME NEW row, row.tiles \in Nat, row.bytes \in Nat, NEW owed \in Counts, NEW count \in Counts,
           NEW size \in Nat, NEW owed2, NEW count2,
           owed2.tiles = owed.tiles + 1, owed2.bytes = owed.bytes + size,
           count2.tiles = count.tiles + 1, count2.bytes = count.bytes + size,
           NEW settled, NEW settled2, settled2 => settled, Agrees(row, owed, count, settled)
    PROVE  Agrees(row, owed2, count2, settled2)
BY DEF Agrees, Counts

\* A PUT owes its tile until its message has been written; an overwrite is
\* not settled before that.
LEMMA StoreDrift ==
    ASSUME FlushInv, FilesInv, RowsInv, DriftInv,
           NEW r \in Requests, NEW l \in Layers, NEW t \in Tiles, NEW s, s = Size[r], Store(r, l, t),
           UNCHANGED <<queue, pending, writer, batch, unscanned, recount, layerRows, lock, found>>
    PROVE  DriftInv'
<1> USE ConstantsAssumption, SizesPositive
<1>1. /\ pc[r] = "new" /\ pc' = [pc EXCEPT ![r] = "stored"]
      /\ message' = [message EXCEPT ![r] = [layer |-> l, size |-> s, created |-> stored[l][t] = 0]]
      /\ stored' = [stored EXCEPT ![l][t] = s]
      /\ dirs' = dirs \cup {l} /\ UNCHANGED <<drifted, recountRaced, foundRaced>>
  BY DEF Store, driftVars
<1>2. \A q \in Requests : Sent(q)' <=> Sent(q)
  BY DEF Sent, Queued
<1>3. /\ ~Underway(r) /\ Underway(r)' /\ r \notin batch
      /\ \A q \in Requests \ {r} : (Underway(q)' <=> Underway(q)) /\ message'[q] = message[q]
  BY <1>1, <1>2 DEF FlushInv, FlushTypes, SentOnce, FilesInv, Underway, Sent
<1>4. message'[r].layer = l /\ message'[r].size = s /\ (message'[r].created <=> stored[l][t] = 0)
  <2>1. PICK new \in BOOLEAN : new <=> stored[l][t] = 0
    OBVIOUS
  <2>2. message'[r] = [layer |-> l, size |-> s, created |-> new]
    BY <1>1, <2>1 DEF FilesInv
  <2> QED
    BY <2>1, <2>2
<1>5. \A x \in Layers : UNCHANGED Before(x)
  BY DEF Before
<1>6. ASSUME NEW x \in Layers \ {l}
      PROVE  /\ RowAgrees(x) => RowAgrees(x)'
             /\ RecountAgrees(x) => RecountAgrees(x)'
             /\ FoundAgrees(x) => FoundAgrees(x)'
             /\ Present(x)' = Present(x) /\ (x \in dirs' <=> x \in dirs)
  <2>1. /\ stored'[x] = stored[x] /\ (x \in dirs' <=> x \in dirs)
        /\ \A q \in Requests : Concerns(q, x)' <=> Concerns(q, x)
        /\ \A q \in Requests : Concerns(q, x) => message'[q] = message[q]
    BY <1>1, <1>3, <1>4 DEF Concerns, FilesInv
  <2>2. Rewrites(x)' = Rewrites(x)
    BY <2>1 DEF Rewrites
  <2> QED
    BY <1>5, <2>1, <2>2, LayerKeeps
<1>7. /\ IsFiniteSet(Late(l)) /\ r \notin Late(l) /\ r \notin batch
      /\ \A q \in Late(l) : message[q].size \in Nat /\ message'[q] = message[q]
  BY <1>3, LateFinite DEF Late, Concerns
<1>8. message'[r].size \in Nat
  BY <1>4
<1>9. ASSUME stored[l][t] = 0
      PROVE  /\ RowAgrees(l) => RowAgrees(l)'
             /\ l \in DOMAIN recount => (RecountAgrees(l) => RecountAgrees(l)')
             /\ l \in DOMAIN found => (FoundAgrees(l) => FoundAgrees(l)')
  <2>1. Late(l)' = Late(l) \cup {r}
    BY <1>3, <1>4, <1>9 DEF Late, Concerns
  <2>2. Rewrites(l)' = Rewrites(l)
    BY <1>3, <1>4, <1>9 DEF Rewrites, Concerns
  <2>3. Count(l)'.tiles = Count(l).tiles + 1 /\ Count(l)'.bytes = Count(l).bytes + s
    BY <1>1, <1>9, StoreCounts
  <2>4. /\ Owed(message, Late(l))'.tiles = Owed(message, Late(l)).tiles + 1
        /\ Owed(message, Late(l))'.bytes = Owed(message, Late(l)).bytes + s
    BY <1>4, <1>7, <1>8, <2>1, OwedGrows
  <2>5. /\ IsFiniteSet(Late(l) \ batch) /\ r \notin Late(l) \ batch
        /\ \A q \in Late(l) \ batch : message[q].size \in Nat /\ message'[q] = message[q]
    BY <1>7, FS_Difference
  <2>6. /\ Owed(message', (Late(l) \ batch) \cup {r}).tiles = Owed(message, Late(l) \ batch).tiles + 1
        /\ Owed(message', (Late(l) \ batch) \cup {r}).bytes = Owed(message, Late(l) \ batch).bytes + s
    <3> DEFINE S == Late(l) \ batch
    <3>1. /\ IsFiniteSet(S) /\ r \notin S /\ message'[r].size \in Nat
          /\ \A q \in S : message[q].size \in Nat /\ message'[q] = message[q]
      BY <1>8, <2>5
    <3> HIDE DEF S
    <3>2. /\ Owed(message', S \cup {r}).tiles = Owed(message, S).tiles + 1
          /\ Owed(message', S \cup {r}).bytes = Owed(message, S).bytes + message'[r].size
      BY <3>1, OwedGrows
    <3> QED
      BY <1>4, <3>2 DEF S
  <2>7. /\ Owed(message, Late(l) \ batch)'.tiles = Owed(message, Late(l) \ batch).tiles + 1
        /\ Owed(message, Late(l) \ batch)'.bytes = Owed(message, Late(l) \ batch).bytes + s
    <3>1. (Late(l) \ batch)' = (Late(l) \ batch) \cup {r}
      BY <1>7, <2>1
    <3> QED
      BY <2>6, <3>1
  <2>8. /\ Before(l).tiles \in Nat /\ Before(l).bytes \in Nat /\ Count(l) \in Counts
        /\ Owed(message, Late(l)) \in Counts /\ Owed(message, Late(l) \ batch) \in Counts
    BY <1>7, <2>5, RowTypes, CountType, OwedType DEF Rows, Counts
  <2>9. RowAgrees(l) => RowAgrees(l)'
    <3>1. (Rewrites(l) = {} \/ l \notin dirs)' => Rewrites(l) = {} \/ l \notin dirs
      BY <1>1, <2>2
    <3>2. Before(l)' = Before(l)
      BY <1>5
    <3> HIDE DEF Before
    <3> QED
      BY <2>3, <2>4, <2>8, <3>1, <3>2, AgreesGrows DEF RowAgrees
  <2>10. l \in DOMAIN recount => (RecountAgrees(l) => RecountAgrees(l)')
    <3>1. ASSUME l \in DOMAIN recount PROVE recount[l].tiles \in Nat /\ recount[l].bytes \in Nat
      BY <3>1 DEF RowsInv, Counts
    <3>2. (Rewrites(l) \ batch)' = {} => Rewrites(l) \ batch = {}
      BY <2>2
    <3> QED
      BY <1>1, <2>3, <2>7, <2>8, <3>1, <3>2, AgreesGrows DEF RecountAgrees
  <2>11. l \in DOMAIN found => (FoundAgrees(l) => FoundAgrees(l)')
    <3>1. ASSUME l \in DOMAIN found PROVE found[l].tiles \in Nat /\ found[l].bytes \in Nat
      BY <3>1 DEF RowsInv, Counts
    <3> QED
      BY <1>1, <2>2, <2>3, <2>4, <2>8, <3>1, AgreesGrows DEF FoundAgrees
  <2> QED
    BY <2>9, <2>10, <2>11
<1>10. ASSUME stored[l][t] # 0
       PROVE  (RowAgrees(l) => RowAgrees(l)') /\ (RecountAgrees(l) => RecountAgrees(l)')
              /\ (FoundAgrees(l) => FoundAgrees(l)')
  <2>1. Late(l)' = Late(l)
    BY <1>3, <1>4, <1>10 DEF Late, Concerns
  <2>2. r \in (Rewrites(l) \ batch)' /\ l \in dirs'
    BY <1>1, <1>3, <1>4, <1>10 DEF Rewrites, Concerns
  <2>3. Count(l)'.tiles = Count(l).tiles
    BY <1>1, <1>10, StoreCounts
  <2>4. /\ Owed(message, Late(l))'.tiles = Owed(message, Late(l)).tiles
        /\ Owed(message, Late(l) \ batch)'.tiles = Owed(message, Late(l) \ batch).tiles
    BY <2>1 DEF Owed
  <2> QED
    BY <1>1, <1>5, <2>2, <2>3, <2>4 DEF RowAgrees, RecountAgrees, FoundAgrees, Agrees
<1>11. /\ RowAgrees(l) => RowAgrees(l)'
       /\ l \in DOMAIN recount => (RecountAgrees(l) => RecountAgrees(l)')
       /\ l \in DOMAIN found => (FoundAgrees(l) => FoundAgrees(l)')
  BY <1>9, <1>10
<1>12. \A x \in Layers \ drifted' : RowAgrees(x)'
  BY <1>1, <1>6, <1>11 DEF DriftInv
<1>13. \A x \in DOMAIN recount' \ recountRaced' : RecountAgrees(x)'
  BY <1>1, <1>6, <1>11 DEF DriftInv, RowsInv
<1>14. \A x \in DOMAIN found' \ foundRaced' : FoundAgrees(x)'
  BY <1>1, <1>6, <1>11 DEF DriftInv, RowsInv
<1>15. \A x \in Layers \ dirs' : Present(x)' = {}
  BY <1>1, <1>6 DEF DriftInv
<1> QED
  BY <1>12, <1>13, <1>14, <1>15 DEF DriftInv, NoRows

\* PUTs: a message whose client has gone away leaves its layer drifted, and so
\* does one for a tile in a removed file.
LEMMA PutDrift ==
    ASSUME FlushInv, FilesInv, RowsInv, DriftInv, NEW r \in Requests, PutStep(r) \/ ClientStep(r)
    PROVE  DriftInv'
<1>1. /\ UNCHANGED <<pending, writer, batch, unscanned, recount, layerRows, databaseRow, lock, found>>
      /\ \A l \in Layers : UNCHANGED <<Before(l).tiles, Before(l).bytes>>
  BY DEF PutStep, ClientStep, PutFrame, flushVars, rowVars, rebuildVars, scanVars, Before
<1>2. CASE Enqueue(r)
  <2>1. /\ pc[r] = "stored" /\ pc' = [pc EXCEPT ![r] = "done"] /\ queue' = Append(queue, r)
        /\ UNCHANGED <<message, stored, dirs, drifted, recountRaced, foundRaced>>
    BY <1>2 DEF Enqueue, fileVars, driftVars
  <2>2. Queued' = Queued \cup {r}
    BY <2>1, Appended DEF FlushInv
  <2>3. \A q \in Requests : Underway(q)' <=> Underway(q)
    BY <1>1, <2>1, <2>2 DEF FlushInv, FlushTypes, Underway, Sent
  <2>4. lock' = None => found' = NoRows
    BY <1>1 DEF DriftInv
  <2> QED
    BY <1>1, <2>1, <2>3, <2>4, DriftAside
<1>3. CASE Cancel(r)
  <2>1. /\ pc[r] = "stored" /\ pc' = [pc EXCEPT ![r] = "done"] /\ Drift({message[r].layer})
        /\ UNCHANGED <<message, stored, dirs, queue>>
    BY <1>3 DEF Cancel, fileVars
  <2>2. \A q \in Requests \ {r} : Underway(q)' <=> Underway(q)
    BY <1>1, <2>1 DEF FlushInv, FlushTypes, Underway, Sent, Queued
  <2>3. \A l \in Layers \ {message[r].layer} : \A q \in Requests : Concerns(q, l)' <=> Concerns(q, l)
    BY <2>1, <2>2 DEF Concerns
  <2>4. lock' = None => found' = NoRows
    BY <1>1 DEF DriftInv
  <2>5. \A l \in Layers : l \in dirs' \/ Present(l)' = {}
    BY <2>1 DEF DriftInv, Present
  <2>6. /\ drifted \cup {message[r].layer} \subseteq drifted'
        /\ recountRaced \cup ({message[r].layer} \cap DOMAIN recount) \subseteq recountRaced'
        /\ DOMAIN found' \cap (foundRaced \cup {message[r].layer}) \subseteq foundRaced'
    BY <1>1, <2>1 DEF Drift
  <2> QED
    BY <1>1, <2>1, <2>3, <2>4, <2>5, <2>6, DriftKept
<1>4. ASSUME NEW l \in Layers, NEW t \in Tiles, Store(r, l, t) PROVE DriftInv'
  BY <1>1, <1>4, StoreDrift DEF Store
<1>5. ASSUME NEW l \in Layers, StoreLoose(r, l) PROVE DriftInv'
  <2>1. /\ pc[r] = "new" /\ pc' = [pc EXCEPT ![r] = "stored"] /\ Drift({l})
        /\ dirs' \in {dirs, dirs \cup {l}} /\ UNCHANGED <<stored, queue>>
    BY <1>5 DEF StoreLoose
  <2>2. /\ \A q \in Requests \ {r} : message'[q] = message[q]
        /\ message'[r].layer = l
    <3>1. PICK created \in BOOLEAN :
             message' = [message EXCEPT ![r] = [layer |-> l, size |-> Size[r], created |-> created]]
      BY <1>5 DEF StoreLoose
    <3>2. message'[r] = [layer |-> l, size |-> Size[r], created |-> created]
      BY <3>1 DEF FilesInv
    <3> QED
      BY <3>1, <3>2 DEF FilesInv
  <2>3. \A q \in Requests \ {r} : Underway(q)' <=> Underway(q)
    BY <1>1, <2>1 DEF FlushInv, FlushTypes, Underway, Sent, Queued
  <2>4. ~Underway(r)
    BY <2>1 DEF FlushInv, SentOnce, Underway
  <2>5. \A x \in Layers \ {l} : \A q \in Requests :
            (Concerns(q, x)' <=> Concerns(q, x)) /\ (Concerns(q, x) => UNCHANGED message[q])
    BY <2>2, <2>3, <2>4 DEF Concerns
  <2>6. \A x \in Layers : Present(x)' = Present(x) /\ (x # l => (x \in dirs' <=> x \in dirs))
    BY <2>1 DEF Present
  <2>7. \A x \in Layers \cap {l} : x \in dirs' \/ Present(x)' = {}
    BY <2>1, <2>6 DEF DriftInv
  <2>8. lock' = None => found' = NoRows
    BY <1>1 DEF DriftInv
  <2>9. /\ drifted \cup {l} \subseteq drifted'
        /\ recountRaced \cup ({l} \cap DOMAIN recount) \subseteq recountRaced'
        /\ DOMAIN found' \cap (foundRaced \cup {l}) \subseteq foundRaced'
    BY <1>1, <2>1 DEF Drift
  <2>10. \A x \in Layers \ {l} :
            /\ UNCHANGED <<stored[x], Before(x).tiles, Before(x).bytes>> /\ (x \in dirs' <=> x \in dirs)
            /\ \A q \in Requests : (Concerns(q, x)' <=> Concerns(q, x)) /\ (Concerns(q, x) => UNCHANGED message[q])
    BY <1>1, <2>1, <2>5, <2>6
  <2>11. UNCHANGED <<batch, unscanned, recount, writer>> /\ UNCHANGED found
    BY <1>1
  <2> QED
    BY <2>7, <2>8, <2>9, <2>10, <2>11, DriftKept
<1> QED
  BY <1>2, <1>3, <1>4, <1>5 DEF PutStep, ClientStep

\* A removal leaves what it removes drifted until the rows are gone too.
LEMMA StartDrift ==
    ASSUME FilesInv, RowsInv, DriftInv, NEW a \in Admins, AdminStart(a)
    PROVE  DriftInv'
<1>1. PICK j, x : Start(a, j, x)
  BY DEF AdminStart
<1> DEFINE L == Gone(j, x)
<1>2. /\ UNCHANGED <<pc, message, queue, pending, writer, batch, unscanned, recount, layerRows, lock, found>>
  BY <1>1 DEF AdminStart, Start, putVars, flushVars, rowVars, scanVars
<1>3. /\ \A l \in Layers : Present(l)' \subseteq Present(l)
      /\ \A l \in Layers \ L : stored'[l] = stored[l] /\ (l \in dirs' <=> l \in dirs)
      /\ \A l \in Layers \cap L : l \in dirs' \/ l \notin dirs \/ Present(l)' = {}
      /\ Drift(L)
  BY <1>1, StartFiles
<1> HIDE DEF L
<1>4. \A r \in Requests : Underway(r)' <=> Underway(r)
  BY <1>2 DEF Underway, Sent, Queued
<1>5. \A l \in Layers \ L :
        /\ UNCHANGED <<stored[l], Before(l).tiles, Before(l).bytes>> /\ (l \in dirs' <=> l \in dirs)
        /\ \A r \in Requests : (Concerns(r, l)' <=> Concerns(r, l)) /\ UNCHANGED message[r]
  BY <1>2, <1>3, <1>4 DEF Before, Concerns
<1>6. \A l \in Layers \cap L : l \in dirs' \/ Present(l)' = {}
  BY <1>3 DEF DriftInv
<1>7. /\ drifted \cup L \subseteq drifted' /\ recountRaced \cup (L \cap DOMAIN recount) \subseteq recountRaced'
      /\ DOMAIN found' \cap (foundRaced \cup L) \subseteq foundRaced'
  BY <1>2, <1>3 DEF Drift
<1>8. lock' = None => found' = NoRows
  BY <1>2 DEF DriftInv
<1> QED
  BY <1>2, <1>5, <1>6, <1>7, <1>8, DriftKept

\* The rows of the layers of S are forgotten: they are right when there is
\* nothing to count and nothing under way.
LEMMA ForgottenDrift ==
    ASSUME FilesInv, RowsInv, DriftInv, NEW S, Forgotten(S),
           layerRows' = [l \in DOMAIN layerRows \ S |-> layerRows[l]],
           UNCHANGED <<fileVars, putVars, queue, pending, flushVars, lock, found>>
    PROVE  DriftInv'
<1>1. /\ UNCHANGED <<stored, dirs, message, batch, unscanned, recount, writer, recountRaced, foundRaced>>
      /\ \A r \in Requests : Underway(r)' <=> Underway(r)
  BY DEF Forgotten, fileVars, putVars, flushVars, Underway, Sent, Queued
<1>2. \A l \in Layers : \A r \in Requests : Concerns(r, l)' <=> Concerns(r, l)
  BY <1>1 DEF Concerns
<1>3. ASSUME NEW l \in Layers
      PROVE  /\ UNCHANGED <<Before(l).tiles, Before(l).bytes>> => (RowAgrees(l) => RowAgrees(l)')
             /\ RecountAgrees(l) => RecountAgrees(l)'
             /\ FoundAgrees(l) => FoundAgrees(l)'
             /\ UNCHANGED <<Late(l), Owed(message, Late(l)), Present(l), Count(l)>>
  <2>1. Rewrites(l)' = Rewrites(l)
    BY <1>1, <1>2 DEF Rewrites
  <2> QED
    BY <1>1, <1>2, <2>1, LayerKeeps
<1>4. ASSUME NEW l \in Layers \ drifted' PROVE RowAgrees(l)'
  <2>1. CASE l \in S
    <3>1. Count(l).tiles = 0 /\ Late(l) = {}
      BY <1>4, <2>1 DEF Forgotten, Late, Concerns
    <3>2. Present(l) = {}
      BY <3>1, FS_EmptySet DEF Count, FilesInv
    <3>3. Count(l) = [tiles |-> 0, bytes |-> 0]
      BY <3>2, FS_EmptySet, SumNone DEF Count
    <3>4. Owed(message, Late(l)) = [tiles |-> 0, bytes |-> 0]
      BY <3>1, OwedNone
    <3>5. Before(l)' = [tiles |-> 0, bytes |-> 0, protected |-> FALSE]
      BY <2>1 DEF Before
    <3> QED
      BY <1>3, <3>3, <3>4, <3>5 DEF RowAgrees, Agrees
  <2>2. CASE l \notin S
    <3>1. l \notin drifted
      BY <1>4, <2>2 DEF Forgotten
    <3>2. Before(l)' = Before(l)
      BY <2>2 DEF Before
    <3> QED
      BY <1>3, <3>1, <3>2 DEF DriftInv
  <2> QED
    BY <2>1, <2>2
<1>5. \A l \in DOMAIN recount' \ recountRaced' : RecountAgrees(l)'
  BY <1>1, <1>3 DEF DriftInv, RowsInv
<1>6. \A l \in DOMAIN found' \ foundRaced' : FoundAgrees(l)'
  BY <1>1, <1>3 DEF DriftInv, RowsInv
<1>7. \A l \in Layers \ dirs' : Present(l)' = {}
  BY <1>1, <1>3 DEF DriftInv
<1> QED
  BY <1>1, <1>4, <1>5, <1>6, <1>7 DEF DriftInv, NoRows

\* A clean count agrees with what it counted: nothing is owed.
LEMMA CleanCount ==
    ASSUME FilesInv, NEW l \in Layers, NEW S, S = {}, NEW settled
    PROVE  Agrees(Count(l), Owed(message, S), Count(l), settled)
BY CountType, OwedNone DEF Agrees

\* A scan that sees a tile whose message is still to come has raced with it, and
\* one that may count removed files too.
LEMMA ScanDrift ==
    ASSUME FilesInv, RowsInv, DriftInv, NEW a \in Admins, NEW x \in Layers, RebuildScan(a, x),
           UNCHANGED <<putVars, pending, flushVars>>
    PROVE  DriftInv'
<1>1. /\ lock = a /\ UNCHANGED <<stored, dirs, message, batch, unscanned, recount, writer, drifted,
                                 recountRaced, layerRows, lock>>
      /\ \A r \in Requests : Underway(r)' <=> Underway(r)
  BY DEF RebuildScan, fileVars, putVars, flushVars, rowVars, Underway, Sent, Queued
<1>2. \A l \in Layers : \A r \in Requests : Concerns(r, l)' <=> Concerns(r, l)
  BY <1>1 DEF Concerns
<1>3. ASSUME NEW l \in Layers
      PROVE  /\ RowAgrees(l) => RowAgrees(l)'
             /\ RecountAgrees(l) => RecountAgrees(l)'
             /\ UNCHANGED found[l] => (FoundAgrees(l) => FoundAgrees(l)')
             /\ UNCHANGED <<Late(l), Present(l), Count(l)>>
  <2>1. Rewrites(l)' = Rewrites(l) /\ Before(l)' = Before(l)
    BY <1>1, <1>2 DEF Rewrites, Before
  <2> QED
    BY <1>1, <1>2, <2>1, LayerKeeps
<1>4. ASSUME NEW l \in DOMAIN found' \ foundRaced' PROVE FoundAgrees(l)'
  <2>1. CASE x \notin dirs
    BY <1>3, <1>4, <2>1 DEF RebuildScan, DriftInv, RowsInv
  <2>2. CASE x \in dirs
    <3>1. PICK c \in Seen(x) :
             /\ found' = [y \in DOMAIN found \cup {x} |-> IF y = x THEN c ELSE found[y]]
             /\ foundRaced' = foundRaced \cup (IF ToCome(x, {}) \/ x \in loose THEN {x} ELSE {})
      BY <2>2 DEF RebuildScan
    <3>2. CASE l = x
      <4>4. x \notin loose
        BY <1>4, <3>1, <3>2
      <4>5. c = Count(x)
        BY <4>4, SeenType
      <4>1. found'[l] = Count(l)' /\ l \in dirs'
        BY <1>1, <1>3, <2>2, <3>1, <3>2, <4>5
      <4>2. Late(l)' = {}
        BY <1>3, <1>4, <3>1, <3>2 DEF ToCome, Late, Concerns
      <4>3. Agrees(Count(l), Owed(message, Late(l)'), Count(l), Rewrites(l)' = {})
        BY <3>2, <4>2, CleanCount
      <4> QED
        BY <1>1, <1>3, <3>2, <4>1, <4>3 DEF FoundAgrees
    <3>3. CASE l # x
      BY <1>3, <1>4, <3>1, <3>3 DEF DriftInv, RowsInv
    <3> QED
      BY <3>2, <3>3
  <2> QED
    BY <2>1, <2>2
<1>5. \A l \in Layers \ drifted' : RowAgrees(l)'
  BY <1>1, <1>3 DEF DriftInv
<1>6. \A l \in DOMAIN recount' \ recountRaced' : RecountAgrees(l)'
  BY <1>1, <1>3 DEF DriftInv, RowsInv
<1>7. \A l \in Layers \ dirs' : Present(l)' = {}
  BY <1>1, <1>3 DEF DriftInv
<1> QED
  BY <1>1, <1>4, <1>5, <1>6, <1>7, ConstantsAssumption DEF DriftInv, NoRows

\* A rebuild writes rows that agree, but for the layers whose scan has raced.
LEMMA RebuildDrift ==
    ASSUME FilesInv, RowsInv, DriftInv, NEW a \in Admins, RebuildWrite(a),
           UNCHANGED <<putVars, pending, flushVars>>
    PROVE  DriftInv'
<1>1. /\ UNCHANGED <<stored, dirs, message, batch, unscanned, recount, writer, recountRaced>>
      /\ found' = NoRows
      /\ \A r \in Requests : Underway(r)' <=> Underway(r)
      /\ layerRows' = [l \in DOMAIN found |-> [tiles |-> found[l].tiles, bytes |-> found[l].bytes,
                                               protected |-> l \in oldMarks]]
      /\ drifted' = {l \in Layers : IF l \in DOMAIN found THEN l \in foundRaced
                                    ELSE Count(l).tiles # 0 \/ ToCome(l, {})}
  BY DEF RebuildWrite, fileVars, putVars, flushVars, Underway, Sent, Queued
<1>2. \A l \in Layers : \A r \in Requests : Concerns(r, l)' <=> Concerns(r, l)
  BY <1>1 DEF Concerns
<1>3. ASSUME NEW l \in Layers
      PROVE  /\ RecountAgrees(l) => RecountAgrees(l)'
             /\ UNCHANGED <<Late(l), Owed(message, Late(l)), Present(l), Count(l), Rewrites(l)>>
  <2>1. Rewrites(l)' = Rewrites(l)
    BY <1>1, <1>2 DEF Rewrites
  <2> QED
    BY <1>1, <1>2, <2>1, LayerKeeps
<1>4. ASSUME NEW l \in Layers \ drifted' PROVE RowAgrees(l)'
  <2>1. CASE l \in DOMAIN found
    <3>1. Before(l)'.tiles = found[l].tiles /\ Before(l)'.bytes = found[l].bytes
      BY <1>1, <2>1 DEF Before
    <3>2. FoundAgrees(l)
      BY <1>1, <1>4, <2>1 DEF DriftInv
    <3> QED
      BY <1>1, <1>3, <3>1, <3>2 DEF RowAgrees, FoundAgrees, Agrees
  <2>2. CASE l \notin DOMAIN found
    <3>1. Count(l).tiles = 0 /\ Late(l) = {}
      BY <1>1, <1>4, <2>2 DEF ToCome, Late, Concerns
    <3>2. Present(l) = {}
      BY <3>1, FS_EmptySet DEF Count, FilesInv
    <3>3. Count(l) = [tiles |-> 0, bytes |-> 0]
      BY <3>2, FS_EmptySet, SumNone DEF Count
    <3>4. Owed(message, Late(l)) = [tiles |-> 0, bytes |-> 0]
      BY <3>1, OwedNone
    <3>5. Before(l)' = [tiles |-> 0, bytes |-> 0, protected |-> FALSE]
      BY <1>1, <2>2 DEF Before
    <3> QED
      BY <1>3, <3>3, <3>4, <3>5 DEF RowAgrees, Agrees
  <2> QED
    BY <2>1, <2>2
<1>5. \A l \in DOMAIN recount' \ recountRaced' : RecountAgrees(l)'
  BY <1>1, <1>3 DEF DriftInv, RowsInv
<1>6. \A l \in DOMAIN found' \ foundRaced' : FoundAgrees(l)'
  BY <1>1, NoCounts
<1>7. \A l \in Layers \ dirs' : Present(l)' = {}
  BY <1>1, <1>3 DEF DriftInv
<1> QED
  BY <1>1, <1>4, <1>5, <1>6, <1>7 DEF DriftInv, NoRows

\* What the administrator does.
LEMMA AdminDrift ==
    ASSUME FlushInv, FilesInv, RowsInv, DriftInv, NEW a \in Admins, AdminStep(a)
    PROVE  DriftInv'
<1>1. UNCHANGED <<putVars, pending, flushVars>>
  BY DEF AdminStep
<1>2. CASE RemoveLayer(a)
  BY <1>1, <1>2, ForgottenDrift DEF RemoveLayer, rebuildVars, scanVars
<1>3. CASE RemoveDatabase(a)
  <2>1. layerRows' = NoRows /\ Forgotten(Layers) /\ UNCHANGED <<fileVars, queue, lock, found>>
    BY <1>3 DEF RemoveDatabase, rebuildVars, scanVars
  <2>2. DOMAIN layerRows \ Layers = {}
    BY DEF RowsInv
  <2>3. layerRows' = [l \in DOMAIN layerRows \ Layers |-> layerRows[l]]
    BY <2>1, <2>2 DEF NoRows
  <2> QED
    BY <1>1, <2>1, <2>3, ForgottenDrift
<1>4. ASSUME NEW l \in Layers, RebuildScan(a, l) PROVE DriftInv'
  BY <1>1, <1>4, ScanDrift
<1>5. CASE RebuildWrite(a)
  BY <1>1, <1>5, RebuildDrift
<1>6. CASE AskFlush(a) \/ Protect(a) \/ RebuildLock(a) \/ RebuildReadMarks(a) \/ RebuildEnd(a) \/ Leave(a)
  <2>1. /\ UNCHANGED <<stored, dirs, pc, message, pending, batch, unscanned, recount, writer, drifted,
                       recountRaced>>
    BY <1>1, <1>6 DEF AskFlush, Protect, RebuildLock, RebuildReadMarks, RebuildEnd, Leave,
       fileVars, putVars, flushVars, driftVars
  <2>2. Queued' = Queued
    <3>1. CASE AskFlush(a)
      <4>1. queue' = Append(queue, a) /\ a \notin Requests
        BY <3>1, ConstantsAssumption DEF AskFlush
      <4>2. Queued' = Queued \cup ({a} \cap Requests)
        BY <4>1, Appended DEF FlushInv
      <4>3. {a} \cap Requests = {}
        BY <4>1
      <4> QED
        BY <4>2, <4>3
    <3>2. CASE ~AskFlush(a)
      BY <1>6, <3>2 DEF Protect, RebuildLock, RebuildReadMarks, RebuildEnd, Leave, Queued
    <3> QED
      BY <3>1, <3>2
  <2>3. \A r \in Requests : Underway(r)' <=> Underway(r)
    BY <2>1, <2>2 DEF Underway, Sent
  <2>4. ASSUME NEW l \in Layers PROVE UNCHANGED <<Before(l).tiles, Before(l).bytes>>
    <3>1. CASE Protect(a)
      <4>1. /\ layerRows' = [x \in DOMAIN layerRows |->
                               IF x = target[a] THEN [layerRows[x] EXCEPT !.protected = TRUE]
                               ELSE layerRows[x]]
        BY <3>1 DEF Protect
      <4>2. l \in DOMAIN layerRows => layerRows'[l].tiles = layerRows[l].tiles /\ layerRows'[l].bytes = layerRows[l].bytes
        <5>1. ASSUME l \in DOMAIN layerRows PROVE layerRows[l] \in Rows
          BY <5>1 DEF RowsInv
        <5>2. ASSUME l \in DOMAIN layerRows
              PROVE  \/ layerRows'[l] = layerRows[l]
                     \/ layerRows'[l] = [layerRows[l] EXCEPT !.protected = TRUE]
          BY <4>1, <5>2
        <5> QED
          BY <5>1, <5>2 DEF Rows
      <4> QED
        BY <4>1, <4>2 DEF Before
    <3>2. CASE ~Protect(a)
      <4>1. layerRows' = layerRows
        BY <1>6, <3>2 DEF AskFlush, RebuildLock, RebuildReadMarks, RebuildEnd, Leave, rowVars
      <4> QED
        BY <4>1 DEF Before
    <3> QED
      BY <3>1, <3>2
  <2>5. /\ UNCHANGED <<found, foundRaced>> \/ found' = NoRows
        /\ lock' = None => found' = NoRows
    <3>1. CASE UNCHANGED <<lock, found, foundRaced>>
      BY <3>1 DEF DriftInv, NoRows
    <3>2. CASE found' = NoRows
      BY <3>2
    <3>3. UNCHANGED <<lock, found, foundRaced>> \/ found' = NoRows
      BY <1>6 DEF AskFlush, Protect, RebuildLock, RebuildReadMarks, RebuildEnd, Leave,
         rebuildVars, scanVars, driftVars
    <3> QED
      BY <3>1, <3>2, <3>3
  <2> QED
    BY <2>1, <2>3, <2>4, <2>5, DriftAside
<1> QED
  BY <1>2, <1>3, <1>4, <1>5, <1>6 DEF AdminStep

\* A flush recounts every layer if it has an overwrite to write.
LEMMA FlushDrift ==
    ASSUME FlushInv, RowsInv, DriftInv, NEW messages, NEW a, StartFlush(messages, a),
           writer = "idle", UNCHANGED <<fileVars, putVars, rebuildVars, rowVars, driftVars>>,
           \A r \in Requests : Underway(r)' <=> Underway(r)
    PROVE  DriftInv'
<1>1. /\ writer' = "flushing" /\ batch' = messages /\ recount' = NoRows
      /\ unscanned' = IF \A r \in messages : message[r].created THEN {} ELSE Layers
      /\ UNCHANGED <<stored, dirs, message, layerRows, lock, found, drifted, recountRaced, foundRaced>>
  BY DEF StartFlush, fileVars, putVars, rebuildVars, scanVars, rowVars, driftVars
<1>2. \A l \in Layers : \A r \in Requests : Concerns(r, l)' <=> Concerns(r, l)
  BY <1>1 DEF Concerns
<1>3. batch = {} /\ unscanned = {} /\ recount = NoRows
  BY DEF FlushInv, FlushTypes, DriftInv
<1>4. ASSUME NEW l \in Layers
      PROVE  /\ RowAgrees(l) => RowAgrees(l)'
             /\ FoundAgrees(l) => FoundAgrees(l)'
             /\ Present(l)' = Present(l)
  <2>1. Before(l)' = Before(l)
    BY <1>1 DEF Before
  <2>2. Rewrites(l)' = Rewrites(l)
    BY <1>1, <1>2, <1>3 DEF Rewrites
  <2> QED
    BY <1>1, <1>2, <2>1, <2>2, LayerKeeps
<1>5. \A l \in Layers \ drifted' : RowAgrees(l)'
  BY <1>1, <1>4 DEF DriftInv
<1>6. \A l \in DOMAIN recount' \ recountRaced' : RecountAgrees(l)'
  BY <1>1, NoCounts
<1>7. \A l \in DOMAIN found' \ foundRaced' : FoundAgrees(l)'
  BY <1>1, <1>4 DEF DriftInv, RowsInv
<1>8. \A l \in Layers \ dirs' : Present(l)' = {}
  BY <1>1, <1>4 DEF DriftInv
<1> QED
  BY <1>1, <1>5, <1>6, <1>7, <1>8 DEF DriftInv, NoRows

\* A recount that sees a tile whose message is not in the batch has raced with it,
\* and one that may count removed files too.
LEMMA RecountDrift ==
    ASSUME FilesInv, RowsInv, DriftInv, NEW x \in Layers, Recount(x),
           UNCHANGED <<fileVars, putVars, rebuildVars>>
    PROVE  DriftInv'
<1>1. /\ writer = "flushing" /\ x \in unscanned /\ unscanned' = unscanned \ {x}
      /\ UNCHANGED <<stored, dirs, message, batch, writer, drifted, foundRaced, layerRows, lock, found>>
      /\ \A r \in Requests : Underway(r)' <=> Underway(r)
  BY DEF Recount, fileVars, putVars, rebuildVars, scanVars, rowVars, Underway, Sent, Queued
<1>2. \A l \in Layers : \A r \in Requests : Concerns(r, l)' <=> Concerns(r, l)
  BY <1>1 DEF Concerns
<1>3. \/ x \in dirs /\ unscanned' \cup DOMAIN recount' = unscanned \cup DOMAIN recount
      \/ x \notin dirs /\ UNCHANGED <<recount, recountRaced>>
  <2>1. CASE x \in dirs
    <3>1. PICK c \in Seen(x) :
             recount' = [y \in DOMAIN recount \cup {x} |-> IF y = x THEN c ELSE recount[y]]
      BY <2>1 DEF Recount
    <3>2. DOMAIN recount' = DOMAIN recount \cup {x}
      BY <3>1
    <3> QED
      BY <1>1, <2>1, <3>2
  <2>2. CASE x \notin dirs
    BY <2>2 DEF Recount
  <2> QED
    BY <2>1, <2>2
<1>4. ASSUME NEW l \in Layers
      PROVE  /\ RowAgrees(l) => RowAgrees(l)'
             /\ UNCHANGED recount[l] => (RecountAgrees(l) => RecountAgrees(l)')
             /\ FoundAgrees(l) => FoundAgrees(l)'
             /\ UNCHANGED <<Late(l), Present(l), Count(l)>>
  <2>1. Before(l)' = Before(l)
    BY <1>1 DEF Before
  <2>2. Rewrites(l)' = {} => Rewrites(l) = {} \/ l \notin dirs
    <3>1. CASE x \in dirs
      BY <1>1, <1>2, <1>3, <3>1 DEF Rewrites
    <3>2. CASE x \notin dirs /\ l # x
      BY <1>1, <1>2, <1>3, <3>2 DEF Rewrites
    <3> QED
      BY <3>1, <3>2
  <2> QED
    BY <1>1, <1>2, <2>1, <2>2, LayerKeeps
<1>5. ASSUME NEW l \in DOMAIN recount' \ recountRaced' PROVE RecountAgrees(l)'
  <2>1. CASE x \notin dirs
    BY <1>3, <1>4, <1>5, <2>1 DEF DriftInv, RowsInv
  <2>2. CASE x \in dirs
    <3>1. PICK c \in Seen(x) :
             /\ recount' = [y \in DOMAIN recount \cup {x} |-> IF y = x THEN c ELSE recount[y]]
             /\ recountRaced' = recountRaced \cup (IF ToCome(x, batch) \/ x \in loose THEN {x} ELSE {})
      BY <2>2 DEF Recount
    <3>2. CASE l = x
      <4>4. x \notin loose
        BY <1>5, <3>1, <3>2
      <4>5. c = Count(x)
        BY <4>4, SeenType
      <4>1. recount'[l] = Count(l)' /\ l \in dirs'
        BY <1>1, <1>4, <2>2, <3>1, <3>2, <4>5
      <4>2. Late(l)' \ batch' = {}
        BY <1>1, <1>4, <1>5, <3>1, <3>2 DEF ToCome, Late, Concerns
      <4>3. Agrees(Count(l), Owed(message, Late(l)' \ batch'), Count(l), Rewrites(l)' \ batch' = {})
        BY <3>2, <4>2, CleanCount
      <4> QED
        BY <1>1, <1>4, <3>2, <4>1, <4>3 DEF RecountAgrees
    <3>3. CASE l # x
      BY <1>4, <1>5, <3>1, <3>3 DEF DriftInv, RowsInv
    <3> QED
      BY <3>2, <3>3
  <2> QED
    BY <2>1, <2>2
<1>6. \A l \in Layers \ drifted' : RowAgrees(l)'
  BY <1>1, <1>4 DEF DriftInv
<1>7. \A l \in DOMAIN found' \ foundRaced' : FoundAgrees(l)'
  BY <1>1, <1>4 DEF DriftInv, RowsInv
<1>8. \A l \in Layers \ dirs' : Present(l)' = {}
  BY <1>1, <1>4 DEF DriftInv
<1> QED
  BY <1>1, <1>5, <1>6, <1>7, <1>8 DEF DriftInv, NoRows

\* A batch leaves with its flush: nothing else does, and it is nowhere else.
LEMMA BatchLeaves ==
    ASSUME FlushInv, OnceInv, EndFlush("done") \/ EndFlush("acting"), UNCHANGED <<fileVars, putVars, queue, pending>>
    PROVE  \A l \in Layers : \A r \in Requests : Concerns(r, l)' <=> Concerns(r, l) /\ r \notin batch
<1>1. batch' = {} /\ UNCHANGED <<pc, message, queue, pending>>
  BY DEF EndFlush, fileVars, putVars
<1>2. ASSUME NEW r \in batch PROVE r \in Requests /\ pc[r] = "done" /\ r \notin Queued /\ r \notin pending
  <2>1. r \in Requests /\ Sent(r)
    BY DEF FlushInv, FlushTypes, Sent
  <2> QED
    BY <2>1 DEF FlushInv, SentOnce, OnceInv, Queued
<1> QED
  BY <1>1, <1>2 DEF Concerns, Underway, Sent, Queued

\* A flush that fails leaves the layers of its batch drifted.
LEMMA FailDrift ==
    ASSUME FlushInv, OnceInv, FilesInv, RowsInv, DriftInv, FailFlush, UNCHANGED <<fileVars, putVars, rebuildVars>>
    PROVE  DriftInv'
<1>1. /\ EndFlush("done") /\ UNCHANGED <<queue, pending, layerRows, stored, dirs, message, lock, found>>
      /\ writer' = "idle" /\ batch' = {} /\ unscanned' = {} /\ recount' = NoRows
      /\ drifted' = drifted \cup Batched /\ foundRaced' = foundRaced \cup (Batched \cap DOMAIN found)
  BY DEF FailFlush, EndFlush, Batched, fileVars, putVars, rebuildVars, scanVars, rowVars
<1>2. ASSUME NEW l \in Layers
      PROVE  /\ l \notin Batched /\ RowAgrees(l) => RowAgrees(l)'
             /\ l \notin Batched /\ FoundAgrees(l) => FoundAgrees(l)'
             /\ Present(l)' = Present(l)
  <2>1. Present(l)' = Present(l) /\ Before(l)' = Before(l)
    BY <1>1 DEF Present, Before
  <2>2. CASE l \notin Batched
    <3>1. \A r \in Requests : Concerns(r, l) => r \notin batch
      BY <2>2 DEF Concerns, Batched
    <3>2. \A r \in Requests : Concerns(r, l)' <=> Concerns(r, l)
      BY <1>1, <3>1, BatchLeaves
    <3>3. Rewrites(l)' = Rewrites(l)
      BY <1>1, <3>1, <3>2 DEF Rewrites
    <3> QED
      BY <1>1, <2>1, <3>2, <3>3, LayerKeeps
  <2> QED
    BY <2>1, <2>2
<1>3. \A l \in Layers \ drifted' : RowAgrees(l)'
  BY <1>1, <1>2 DEF DriftInv
<1>4. \A l \in DOMAIN recount' \ recountRaced' : RecountAgrees(l)'
  BY <1>1, NoCounts
<1>5. \A l \in DOMAIN found' \ foundRaced' : FoundAgrees(l)'
  BY <1>1, <1>2 DEF DriftInv, RowsInv
<1>6. \A l \in Layers \ dirs' : Present(l)' = {}
  BY <1>1, <1>2 DEF DriftInv
<1> QED
  BY <1>1, <1>3, <1>4, <1>5, <1>6 DEF DriftInv, NoRows

\* What a batch brings is no longer owed: its increments are those of its new
\* tiles, and a clean recount has them with everything but what is still to come.
LEMMA WriteDrift ==
    ASSUME FlushInv, OnceInv, FilesInv, RowsInv, DriftInv, WriteBatch, UNCHANGED <<fileVars, putVars, rebuildVars>>
    PROVE  DriftInv'
<1>1. /\ EndFlush("acting") /\ UNCHANGED <<queue, pending, stored, dirs, message, lock, found>>
      /\ lock = None /\ unscanned = {}
      /\ writer' = "idle" /\ batch' = {} /\ unscanned' = {} /\ recount' = NoRows
      /\ drifted' = (drifted \ (Batched \cap DOMAIN recount)) \cup (Batched \cap recountRaced)
      /\ layerRows' = [l \in DOMAIN layerRows \cup Batched |->
                          IF l \in Batched THEN RowWritten(l) ELSE layerRows[l]]
  BY DEF WriteBatch, EndFlush, fileVars, putVars, rebuildVars, scanVars
<1>2. \A l \in Layers : \A r \in Requests : Concerns(r, l)' <=> Concerns(r, l) /\ r \notin batch
  BY <1>1, BatchLeaves
<1>3. \A l \in Layers : Present(l)' = Present(l) /\ Count(l)' = Count(l)
  BY <1>1 DEF Present, Count
<1>4. \A l \in Layers : Late(l)' = Late(l) \ batch /\ Rewrites(l)' = Rewrites(l) \ batch
  BY <1>1, <1>2 DEF Late, Rewrites
<1>5. ASSUME NEW l \in Layers \ drifted' PROVE RowAgrees(l)'
  <2>1. CASE l \notin Batched
    <3>1. Before(l)' = Before(l) /\ RowAgrees(l)
      BY <1>1, <1>5, <2>1 DEF Before, DriftInv
    <3>2. \A r \in Requests : Concerns(r, l) => r \notin batch
      BY <2>1 DEF Concerns, Batched
    <3>3. Late(l)' = Late(l) /\ Rewrites(l)' = Rewrites(l)
      BY <1>4, <3>2 DEF Late, Rewrites
    <3> QED
      BY <1>1, <1>3, <3>1, <3>3 DEF RowAgrees
  <2>2. CASE l \in Batched /\ l \in DOMAIN recount
    <3>1. RecountAgrees(l)
      BY <1>1, <1>5, <2>2 DEF DriftInv
    <3>2. Before(l)'.tiles = recount[l].tiles /\ Before(l)'.bytes = recount[l].bytes
      BY <1>1, <2>2 DEF Before, RowWritten, TilesAfter, BytesAfter
    <3> QED
      BY <1>1, <1>3, <1>4, <3>1, <3>2 DEF RowAgrees, RecountAgrees, Agrees
  <2>3. CASE l \in Batched /\ l \notin DOMAIN recount
    <3> DEFINE rest == Late(l) \ batch
               C == CreatedIn(l)
    <3>1. RowAgrees(l)
      BY <1>1, <1>5, <2>3 DEF DriftInv
    <3>2. Rewrites(l) \ batch = Rewrites(l)
      BY <1>1, <2>3 DEF Rewrites
    <3>3. Late(l) = rest \cup C /\ rest \cap C = {}
      <4>1. C = Late(l) \cap batch
        BY DEF CreatedIn, Late, Concerns, Underway, Sent, FlushInv, FlushTypes
      <4> QED
        BY <4>1
    <3>4. /\ IsFiniteSet(rest) /\ IsFiniteSet(C)
          /\ \A r \in rest \cup C : message[r].size \in Nat
      BY <3>3, LateFinite, RowTypes, FS_Difference
    <3>5. /\ Before(l)'.tiles = Before(l).tiles + Owed(message, C).tiles
          /\ Before(l)'.bytes = Before(l).bytes + Owed(message, C).bytes
      <4>1. Before(l)' = RowWritten(l)
        BY <1>1, <2>3 DEF Before
      <4>2. /\ RowWritten(l).tiles = Before(l).tiles + Cardinality(C)
            /\ RowWritten(l).bytes = Before(l).bytes + SumFunction([r \in C |-> message[r].size])
        BY <2>3 DEF RowWritten, TilesAfter, BytesAfter
      <4> HIDE DEF C, Before, RowWritten
      <4> QED
        BY <4>1, <4>2 DEF Owed
    <3>6. Late(l)' = rest /\ Rewrites(l)' = Rewrites(l)
      BY <1>4, <3>2
    <3>7. /\ Before(l).tiles \in Nat /\ Before(l).bytes \in Nat
      BY RowTypes DEF Rows
    <3> HIDE DEF rest, C
    <3>8. /\ Owed(message, rest \cup C).tiles = Owed(message, rest).tiles + Owed(message, C).tiles
          /\ Owed(message, rest \cup C).bytes = Owed(message, rest).bytes + Owed(message, C).bytes
      BY <3>3, <3>4, OwedSplits
    <3>9. Owed(message, rest) \in Counts /\ Owed(message, C) \in Counts
      BY <3>4, OwedType DEF Counts
    <3>10. Agrees(Before(l), Owed(message, rest \cup C), Count(l), Rewrites(l) = {} \/ l \notin dirs)
      BY <3>1, <3>3 DEF RowAgrees
    <3>11. Agrees(Before(l)', Owed(message, rest), Count(l), Rewrites(l) = {} \/ l \notin dirs)
      BY <3>5, <3>7, <3>8, <3>9, <3>10 DEF Agrees, Counts
    <3> QED
      BY <1>1, <1>3, <3>6, <3>11 DEF RowAgrees
  <2> QED
    BY <2>1, <2>2, <2>3
<1>6. \A l \in DOMAIN recount' \ recountRaced' : RecountAgrees(l)'
  BY <1>1, NoCounts
<1>7. \A l \in DOMAIN found' \ foundRaced' : FoundAgrees(l)'
  BY <1>1, NoCounts DEF DriftInv
<1>8. \A l \in Layers \ dirs' : Present(l)' = {}
  BY <1>1, <1>3 DEF DriftInv
<1> QED
  BY <1>1, <1>5, <1>6, <1>7, <1>8 DEF DriftInv, NoRows

\* The writer task.
LEMMA WriterDrift ==
    ASSUME FlushInv, OnceInv, FilesInv, RowsInv, DriftInv, WriterStep
    PROVE  DriftInv'
<1>1. UNCHANGED <<fileVars, putVars, rebuildVars>>
  BY DEF WriterStep
<1>2. CASE Receive \/ ReceiveFlush \/ Tick
  <2>1. /\ writer = "idle" /\ UNCHANGED <<rowVars, driftVars>>
        /\ UNCHANGED flushVars \/ \E messages, a : StartFlush(messages, a)
    BY <1>2 DEF Receive, ReceiveFlush, Tick
  <2>2. Queued' \cup pending' \cup batch' = Queued \cup pending \cup batch
    <3>1. batch = {}
      BY <2>1 DEF FlushInv, FlushTypes
    <3>2. CASE Receive \/ ReceiveFlush
      <4>1. queue # <<>> /\ queue' = Tail(queue)
        BY <3>2 DEF Receive, ReceiveFlush
      <4>2. PICK h \in Requests \cup Admins : h = Head(queue)
        BY <3>2, <4>1 DEF Receive, ReceiveFlush
      <4>3. Queued' \subseteq Queued /\ Queued \subseteq Queued' \cup {h} /\ (h \in Requests => h \in Queued)
        <5>1. Queued' \subseteq Queued /\ Queued \subseteq Queued' \cup {h}
          BY <4>1, <4>2, Received DEF FlushInv
        <5>2. h = queue[1] /\ 1 \in DOMAIN queue
          BY <4>1, <4>2, Received DEF FlushInv
        <5> QED
          BY <5>1, <5>2 DEF Queued
      <4>4. Queued \cup ({h} \cap Requests) = Queued' \cup ({h} \cap Requests)
        BY <4>3 DEF Queued
      <4>5. CASE h \in Requests
        <5>1. h \notin Admins
          BY <4>5, ConstantsAssumption
        <5>2. Receive
          BY <3>2, <4>2, <5>1 DEF ReceiveFlush
        <5>3. \/ pending' = {} /\ batch' = pending \cup {h}
              \/ pending' = pending \cup {h} /\ batch' = batch
          BY <4>2, <5>2 DEF Receive, StartFlush, flushVars
        <5> QED
          BY <3>1, <4>3, <4>5, <5>3
      <4>6. CASE h \notin Requests
        <5>1. ReceiveFlush
          BY <3>2, <4>2, <4>6 DEF Receive
        <5>2. \/ pending' = {} /\ batch' = pending
              \/ pending' = pending /\ batch' = batch
          BY <5>1 DEF ReceiveFlush, StartFlush, flushVars
        <5>3. Queued' = Queued
          BY <4>4, <4>6
        <5> QED
          BY <3>1, <5>2, <5>3
      <4> QED
        BY <4>5, <4>6
    <3>3. CASE Tick
      <4>1. queue' = queue /\ pending' = {} /\ batch' = pending
        BY <3>3 DEF Tick, StartFlush
      <4> QED
        BY <3>1, <4>1 DEF Queued
    <3> QED
      BY <1>2, <3>2, <3>3
  <2>3. \A r \in Requests : Underway(r)' <=> Underway(r)
    BY <1>1, <2>2 DEF Underway, Sent, putVars
  <2>4. CASE UNCHANGED flushVars
    <3>1. UNCHANGED <<stored, dirs, message, batch, unscanned, recount, writer, drifted, recountRaced,
                      found, foundRaced, lock>>
      BY <1>1, <2>1, <2>4 DEF fileVars, putVars, rebuildVars, scanVars, flushVars, driftVars
    <3>2. \A l \in Layers : UNCHANGED <<Before(l).tiles, Before(l).bytes>>
      BY <2>1 DEF rowVars, Before
    <3>3. lock' = None => found' = NoRows
      BY <3>1 DEF DriftInv
    <3> QED
      BY <2>3, <3>1, <3>2, <3>3, DriftAside
  <2>5. CASE \E messages, a : StartFlush(messages, a)
    BY <1>1, <2>1, <2>3, <2>5, FlushDrift
  <2> QED
    BY <2>1, <2>4, <2>5
<1>3. CASE FailFlush
  BY <1>1, <1>3, FailDrift
<1>4. CASE WriteBatch
  BY <1>1, <1>4, WriteDrift
<1>5. ASSUME NEW l \in Layers, Recount(l) PROVE DriftInv'
  BY <1>1, <1>5, RecountDrift
<1> QED
  BY <1>2, <1>3, <1>4, <1>5 DEF WriterStep

\* A restart loses what is under way, and leaves its layers drifted.
LEMMA RestartDrift ==
    ASSUME FlushInv, RowsInv, DriftInv, Restart
    PROVE  DriftInv'
<1>1. /\ UNCHANGED <<stored, dirs, message, layerRows>>
      /\ drifted' = drifted \cup {message[r].layer : r \in {r \in Requests : Underway(r)}}
      /\ pc' = [r \in Requests |-> IF pc[r] = "new" THEN "new" ELSE "done"]
      /\ queue' = <<>> /\ pending' = {} /\ batch' = {}
      /\ recount' = NoRows /\ unscanned' = {} /\ found' = NoRows
  BY DEF Restart, fileVars, rowVars
<1>2. \A r \in Requests : ~Underway(r)'
  BY <1>1 DEF Underway, Sent, Queued
<1>3. ASSUME NEW l \in Layers \ drifted' PROVE RowAgrees(l)'
  <2>1. \A r \in Requests : ~Concerns(r, l) /\ ~Concerns(r, l)'
    BY <1>1, <1>2, <1>3 DEF Concerns
  <2>2. Rewrites(l)' = {} /\ Rewrites(l) = {} /\ Before(l)' = Before(l)
    BY <1>1, <2>1 DEF Rewrites, Before
  <2>3. RowAgrees(l)
    BY <1>1, <1>3 DEF DriftInv
  <2> QED
    BY <1>1, <2>1, <2>2, <2>3, LayerKeeps
<1>4. \A l \in Layers \ dirs' : Present(l)' = {}
  BY <1>1 DEF DriftInv, Present
<1> QED
  BY <1>1, <1>3, <1>4, NoCounts DEF DriftInv, NoRows

\* Every step keeps it.
LEMMA NextDrift ==
    FlushInv /\ OnceInv /\ FilesInv /\ RowsInv /\ DriftInv /\ [Next]_vars => DriftInv'
<1> SUFFICES ASSUME FlushInv, OnceInv, FilesInv, RowsInv, DriftInv, [Next]_vars PROVE DriftInv'
  OBVIOUS
<1>1. CASE UNCHANGED vars \/ \E l \in Layers : CloseLoose(l)
  <2>1. /\ UNCHANGED <<stored, dirs, message, batch, unscanned, recount, writer, drifted, recountRaced,
                       found, foundRaced, lock, layerRows, pc, queue, pending>>
    BY <1>1 DEF CloseLoose, vars, fileVars, putVars, flushVars, rowVars, rebuildVars, scanVars, driftVars
  <2>2. \A r \in Requests : Underway(r)' <=> Underway(r)
    BY <2>1 DEF Underway, Sent, Queued
  <2>3. \A l \in Layers : UNCHANGED <<Before(l).tiles, Before(l).bytes>>
    BY <2>1 DEF Before
  <2>4. lock' = None => found' = NoRows
    BY <2>1 DEF DriftInv
  <2> QED
    BY <2>1, <2>2, <2>3, <2>4, DriftAside
<1>2. CASE \E r \in Requests : PutStep(r) \/ ClientStep(r)
  BY <1>2, PutDrift
<1>3. CASE WriterStep
  BY <1>3, WriterDrift
<1>4. CASE \E a \in Admins : AdminStep(a) \/ AdminStart(a)
  BY <1>4, AdminDrift, StartDrift
<1>5. CASE Restart
  BY <1>5, RestartDrift
<1> QED
  BY <1>1, <1>2, <1>3, <1>4, <1>5 DEF Next

\* Once every message of a layer has been written its row says what is in its
\* files, unless a message was lost, a removal is unfinished or has failed, a
\* tile went to a file that had been removed, or a count was taken while the
\* message of a new tile was still on its way or a shard had a removed file.
THEOREM RowsExactUnlessDrifted == Spec => []ExactUnlessDrifted
<1> DEFINE Inv == FlushInv /\ OnceInv /\ FilesInv /\ RebuildInv /\ RowsInv /\ DriftInv
<1>1. Init => Inv
  <2>1. Init => OnceInv
    BY DEF Init, OnceInv
  <2> QED
    BY <2>1, InitFlush, InitFiles, InitRebuild, InitRows, InitDrift
<1>2. Inv /\ [Next]_vars => Inv'
  BY NextFlush, NextOnce, NextFiles, NextRebuild, NextRows, NextDrift
<1>3. Inv => ExactUnlessDrifted
  <2> SUFFICES ASSUME Inv, NEW l \in Layers, Quiet(l), l \notin drifted PROVE Exact(l)
    BY DEF ExactUnlessDrifted
  <2>1. Late(l) = {} /\ Rewrites(l) = {}
    BY DEF Quiet, Late, Rewrites, Concerns
  <2>2. Owed(message, Late(l)) = [tiles |-> 0, bytes |-> 0]
    BY <2>1, OwedNone
  <2>3. Before(l).tiles + 0 = Count(l).tiles /\ Before(l).bytes + 0 = Count(l).bytes
    BY <2>1, <2>2 DEF DriftInv, RowAgrees, Agrees
  <2>4. Before(l).tiles \in Nat /\ Before(l).bytes \in Nat
    BY RowTypes DEF Rows
  <2>5. Before(l).tiles = Count(l).tiles /\ Before(l).bytes = Count(l).bytes
    BY <2>3, <2>4
  <2> QED
    BY <2>5 DEF Exact, Before
<1> QED
  BY <1>1, <1>2, <1>3, PTL DEF Spec
-----------------------------------------------------------------------------
(* The types that are left.                                                *)

QueueBound == Len(queue) <= QueueCapacity
PendingBound == Cardinality(pending) < MaxPending

FlushSets == writer \in {"idle", "flushing"} /\ unscanned \subseteq Layers

JobTypes ==
    /\ job \in [Admins -> Jobs \cup {None}] /\ target \in [Admins -> Layers \cup {None}]
    /\ \A a \in Admins : job[a] \in {"remove layer", "protect"} => target[a] \in Layers

TaskTypes ==
    /\ JobTypes
    /\ running \in Admins \cup {None} /\ lock \in Admins \cup {None}
    /\ unread \subseteq Layers /\ oldMarks \subseteq Layers /\ lateMarks \subseteq Layers

DriftTypes == recountRaced \subseteq Layers /\ foundRaced \subseteq Layers /\ drifted \subseteq Layers

\* No queue is longer than its capacity, and no batch waits that is full.
LEMMA NextBounds ==
    FlushInv /\ FilesInv /\ QueueBound /\ PendingBound /\ [Next]_vars => QueueBound' /\ PendingBound'
<1> SUFFICES ASSUME FlushInv, FilesInv, QueueBound, PendingBound, [Next]_vars
             PROVE  QueueBound' /\ PendingBound'
  OBVIOUS
<1> USE ConstantsAssumption
<1>1. /\ queue \in Seq(Requests \cup Admins) /\ Len(queue) \in Nat /\ Len(<<>>) = 0
      /\ IsFiniteSet(pending) /\ Cardinality({}) = 0
  BY SentMessages, FS_EmptySet DEF FlushInv, FlushTypes
<1>2. ASSUME UNCHANGED queue \/ (\E x \in Requests \cup Admins : queue' = Append(queue, x) /\ Len(queue) < QueueCapacity)
                \/ (queue # <<>> /\ queue' = Tail(queue)) \/ queue' = <<>>
      PROVE  QueueBound'
  <2>1. CASE UNCHANGED queue \/ queue' = <<>>
    BY <1>1, <2>1 DEF QueueBound
  <2>2. ASSUME NEW x \in Requests \cup Admins, queue' = Append(queue, x), Len(queue) < QueueCapacity
        PROVE  QueueBound'
    <3>1. Len(queue') = Len(queue) + 1
      BY <1>1, <2>2
    <3> QED
      BY <1>1, <2>2, <3>1 DEF QueueBound
  <2>3. CASE queue # <<>> /\ queue' = Tail(queue)
    <3>1. Len(queue') = Len(queue) - 1
      BY <1>1, <2>3
    <3> QED
      BY <1>1, <3>1 DEF QueueBound
  <2> QED
    BY <1>2, <2>1, <2>2, <2>3
<1>3. ASSUME UNCHANGED pending \/ pending' = {} \/ \E S : pending' = S /\ IsFiniteSet(S) /\ ~BatchFull(S)
      PROVE  PendingBound'
  <2>1. CASE UNCHANGED pending
    BY <2>1 DEF PendingBound
  <2>2. CASE pending' = {}
    <3>1. Cardinality(pending') = 0
      BY <1>1, <2>2
    <3> QED
      BY <3>1 DEF PendingBound
  <2>3. ASSUME NEW S, pending' = S, IsFiniteSet(S), ~BatchFull(S) PROVE PendingBound'
    <3>1. PICK n \in Nat : n = Cardinality(S)
      BY <2>3, FS_CardinalityType
    <3> QED
      BY <2>3, <3>1 DEF PendingBound, BatchFull
  <2> QED
    BY <1>3, <2>1, <2>2, <2>3
<1>4. CASE UNCHANGED vars
  BY <1>2, <1>3, <1>4 DEF vars
<1>5. ASSUME NEW r \in Requests, PutStep(r) \/ ClientStep(r) PROVE QueueBound' /\ PendingBound'
  <2>1. pending' = pending
    BY <1>5 DEF PutStep, ClientStep, PutFrame
  <2>2. UNCHANGED queue \/ (queue' = Append(queue, r) /\ Len(queue) < QueueCapacity)
    <3>1. \A l, t : Store(r, l, t) \/ StoreLoose(r, l) => UNCHANGED queue
      BY DEF Store, StoreLoose
    <3>2. Enqueue(r) => queue' = Append(queue, r) /\ Len(queue) < QueueCapacity
      BY DEF Enqueue
    <3>3. Cancel(r) => UNCHANGED queue
      BY DEF Cancel
    <3> QED
      BY <1>5, <3>1, <3>2, <3>3 DEF PutStep, ClientStep
  <2> QED
    BY <1>2, <1>3, <2>1, <2>2
<1>6. CASE WriterStep
  <2>1. UNCHANGED queue \/ (queue # <<>> /\ queue' = Tail(queue))
    BY <1>6 DEF WriterStep, Receive, ReceiveFlush, Tick, FailFlush, WriteBatch, Recount
  <2>2. CASE Receive
    <3>1. PICK h \in Requests : h = Head(queue)
      BY <2>2 DEF Receive
    <3>2. \/ pending' = {}
          \/ pending' = pending \cup {h} /\ ~BatchFull(pending \cup {h})
      BY <2>2, <3>1 DEF Receive, StartFlush
    <3>3. IsFiniteSet(pending \cup {h})
      BY <1>1, FS_AddElement
    <3> QED
      BY <1>2, <1>3, <2>1, <3>2, <3>3
  <2>3. CASE ~Receive
    <3>1. UNCHANGED pending \/ pending' = {}
      BY <1>6, <2>3 DEF WriterStep, ReceiveFlush, Tick, FailFlush, WriteBatch, Recount, StartFlush
    <3> QED
      BY <1>2, <1>3, <2>1, <3>1
  <2> QED
    BY <2>2, <2>3
<1>7. ASSUME NEW a \in Admins, AdminStep(a) \/ AdminStart(a) PROVE QueueBound' /\ PendingBound'
  <2>1. pending' = pending
    BY <1>7 DEF AdminStep, AdminStart
  <2>2. UNCHANGED queue \/ (queue' = Append(queue, a) /\ Len(queue) < QueueCapacity)
    <3>1. AskFlush(a) => queue' = Append(queue, a) /\ Len(queue) < QueueCapacity
      BY DEF AskFlush
    <3>2. AdminStart(a) => UNCHANGED queue
      BY DEF AdminStart, Start
    <3>3. AdminStep(a) => AskFlush(a) \/ UNCHANGED queue
      BY DEF AdminStep, RemoveLayer, RemoveDatabase, Protect, RebuildLock, RebuildScan, RebuildReadMarks,
         RebuildWrite, RebuildEnd, Leave
    <3> QED
      BY <1>7, <3>1, <3>2, <3>3
  <2> QED
    BY <1>2, <1>3, <2>1, <2>2
<1>8. CASE Restart
  BY <1>2, <1>3, <1>8 DEF Restart
<1>9. CASE \E l \in Layers : CloseLoose(l)
  BY <1>2, <1>3, <1>9 DEF CloseLoose
<1> QED
  BY <1>4, <1>5, <1>6, <1>7, <1>8, <1>9 DEF Next

\* The recount goes through the layers.
LEMMA NextFlushSets == FlushSets /\ [Next]_vars => FlushSets'
<1> SUFFICES ASSUME FlushSets, [Next]_vars PROVE FlushSets'
  OBVIOUS
<1>1. ASSUME UNCHANGED <<writer, unscanned>> PROVE FlushSets'
  BY <1>1 DEF FlushSets
<1>2. CASE UNCHANGED vars \/ \E r \in Requests : PutStep(r) \/ ClientStep(r)
  BY <1>1, <1>2 DEF vars, PutStep, ClientStep, PutFrame, flushVars
<1>3. CASE WriterStep
  <2>1. \/ UNCHANGED <<writer, unscanned>>
        \/ writer' \in {"idle", "flushing"} /\ unscanned' \in {{}, Layers}
        \/ writer' = writer /\ unscanned' \subseteq unscanned
    BY <1>3 DEF WriterStep, Receive, ReceiveFlush, Tick, FailFlush, WriteBatch, Recount, StartFlush, EndFlush,
       flushVars
  <2> QED
    BY <2>1 DEF FlushSets
<1>4. CASE (\E a \in Admins : AdminStep(a) \/ AdminStart(a)) \/ \E l \in Layers : CloseLoose(l)
  BY <1>1, <1>4 DEF AdminStep, AdminStart, CloseLoose, flushVars
<1>5. CASE Restart
  BY <1>5 DEF Restart, FlushSets
<1> QED
  BY <1>2, <1>3, <1>4, <1>5 DEF Next

\* A task that has ended has no job left.
LEMMA JobsEnded == ASSUME JobTypes, Ended \/ UNCHANGED <<job, target>> PROVE JobTypes'
<1>1. CASE Ended
  <2>1. ASSUME NEW a \in Admins
        PROVE (job'[a] = None /\ target'[a] = None) \/ (job'[a] = job[a] /\ target'[a] = target[a])
    BY <1>1 DEF Ended
  <2>2. job' \in [Admins -> Jobs \cup {None}] /\ target' \in [Admins -> Layers \cup {None}]
    BY <1>1 DEF Ended, JobTypes
  <2>3. None \notin {"remove layer", "protect"}
    BY NoneAssumption DEF Jobs
  <2> QED
    BY <2>1, <2>2, <2>3 DEF JobTypes
<1>2. CASE UNCHANGED <<job, target>>
  BY <1>2 DEF JobTypes
<1> QED
  BY <1>1, <1>2

\* The tasks of the administrator.
LEMMA NextTasks == RowsInv /\ TaskTypes /\ [Next]_vars => TaskTypes'
<1> SUFFICES ASSUME RowsInv, TaskTypes, [Next]_vars PROVE TaskTypes'
  OBVIOUS
<1>1. CASE JobTypes' /\ UNCHANGED <<running, lock, unread, oldMarks, lateMarks>>
  BY <1>1 DEF TaskTypes
<1>2. CASE UNCHANGED vars \/ (\E r \in Requests : PutStep(r) \/ ClientStep(r))
        \/ \E l \in Layers : CloseLoose(l)
  <2>1. UNCHANGED <<job, target, running, lock, unread, oldMarks, lateMarks>>
    BY <1>2 DEF vars, PutStep, ClientStep, CloseLoose, PutFrame, rebuildVars, scanVars, adminVars
  <2> QED
    BY <1>1, <2>1, JobsEnded DEF TaskTypes
<1>3. CASE WriterStep
  <2>1. Ended \/ UNCHANGED <<job, target>>
    BY <1>3 DEF WriterStep, Receive, ReceiveFlush, Tick, FailFlush, WriteBatch, Recount, EndFlush
  <2>2. UNCHANGED <<running, lock, unread, oldMarks, lateMarks>>
    BY <1>3 DEF WriterStep, rebuildVars, scanVars
  <2> QED
    BY <1>1, <2>1, <2>2, JobsEnded DEF TaskTypes
<1>4. ASSUME NEW a \in Admins, AdminStep(a) PROVE TaskTypes'
  <2>1. Ended \/ UNCHANGED <<job, target>>
    BY <1>4 DEF AdminStep, AskFlush, RemoveLayer, RemoveDatabase, Protect, RebuildLock, RebuildScan,
       RebuildReadMarks, RebuildWrite, RebuildEnd, Leave, Finished, adminVars
  <2>2. running' \in {running, None} /\ lock' \in {lock, a, None}
    BY <1>4 DEF AdminStep, AskFlush, RemoveLayer, RemoveDatabase, Protect, RebuildLock, RebuildScan,
       RebuildReadMarks, RebuildWrite, RebuildEnd, Leave, rebuildVars, scanVars
  <2>3. unread' \in {unread, {}, Layers} \/ unread' \subseteq unread
    BY <1>4 DEF AdminStep, AskFlush, RemoveLayer, RemoveDatabase, Protect, RebuildLock, RebuildScan,
       RebuildReadMarks, RebuildWrite, RebuildEnd, Leave, rebuildVars, scanVars
  <2>4. oldMarks' = oldMarks \/ oldMarks' \subseteq DOMAIN layerRows
    BY <1>4 DEF AdminStep, AskFlush, RemoveLayer, RemoveDatabase, Protect, RebuildLock, RebuildScan,
       RebuildReadMarks, RebuildWrite, RebuildEnd, Leave, rebuildVars, scanVars
  <2>5. lateMarks' \in {lateMarks, {}} \/ (Protect(a) /\ lateMarks' \subseteq lateMarks \cup {target[a]})
    BY <1>4 DEF AdminStep, AskFlush, RemoveLayer, RemoveDatabase, Protect, RebuildLock, RebuildScan,
       RebuildReadMarks, RebuildWrite, RebuildEnd, Leave, rebuildVars, scanVars
  <2>6. Protect(a) => target[a] \in Layers
    BY DEF Protect, TaskTypes, JobTypes
  <2>7. JobTypes'
    BY <2>1, JobsEnded DEF TaskTypes
  <2> QED
    BY <2>2, <2>3, <2>4, <2>5, <2>6, <2>7 DEF TaskTypes, RowsInv
<1>5. ASSUME NEW a \in Admins, AdminStart(a) PROVE TaskTypes'
  <2>1. PICK j \in Jobs, x \in Layers \cup {None} :
           /\ Start(a, j, x) /\ (j \in {"remove layer", "protect"} => x \in Layers)
    BY <1>5 DEF AdminStart, Jobs
  <2>2. running' \in {running, a} /\ UNCHANGED <<lock, unread, oldMarks, lateMarks>>
    BY <2>1 DEF Start, Admitted, scanVars
  <2>3. \/ job' = [job EXCEPT ![a] = j] /\ target' = [target EXCEPT ![a] = x]
        \/ UNCHANGED <<job, target>>
    BY <2>1 DEF Start
  <2>4. JobTypes'
    BY <2>1, <2>3 DEF TaskTypes, JobTypes
  <2> QED
    BY <2>2, <2>4 DEF TaskTypes
<1>6. CASE Restart
  <2>1. JobTypes'
    BY <1>6, JobsEnded DEF Restart, TaskTypes
  <2> QED
    BY <1>6, <2>1 DEF Restart, TaskTypes
<1> QED
  BY <1>2, <1>3, <1>4, <1>5, <1>6 DEF Next

\* What the history remembers are layers.
LEMMA NextDriftTypes ==
    FlushInv /\ FilesInv /\ RowsInv /\ TaskTypes /\ DriftTypes /\ [Next]_vars => DriftTypes'
<1> SUFFICES ASSUME FlushInv, FilesInv, RowsInv, TaskTypes, DriftTypes, [Next]_vars PROVE DriftTypes'
  OBVIOUS
<1>1. ASSUME UNCHANGED driftVars PROVE DriftTypes'
  BY <1>1 DEF DriftTypes, driftVars
<1>2. ASSUME NEW L, L \subseteq Layers, Drift(L) PROVE DriftTypes'
  BY <1>2 DEF DriftTypes, Drift
<1>3. CASE UNCHANGED vars \/ \E l \in Layers : CloseLoose(l)
  BY <1>1, <1>3 DEF CloseLoose, vars
<1>4. ASSUME NEW r \in Requests, PutStep(r) \/ ClientStep(r) PROVE DriftTypes'
  <2>1. CASE UNCHANGED driftVars
    BY <1>1, <2>1
  <2>2. CASE Cancel(r)
    <3>1. Underway(r) /\ Drift({message[r].layer})
      BY <2>2 DEF Cancel, Underway
    <3>2. {message[r].layer} \subseteq Layers
      BY <3>1, SentMessages DEF Messages
    <3> QED
      BY <1>2, <3>1, <3>2
  <2>3. ASSUME NEW l \in Layers, StoreLoose(r, l) PROVE DriftTypes'
    BY <1>2, <2>3 DEF StoreLoose
  <2> QED
    BY <1>4, <2>1, <2>2, <2>3 DEF PutStep, ClientStep, Enqueue, Store
<1>5. CASE WriterStep
  <2>1. Batched \subseteq Layers
    BY SentMessages
  <2>2. CASE FailFlush
    BY <2>1, <2>2 DEF FailFlush, EndFlush, Batched, DriftTypes
  <2>3. CASE WriteBatch
    BY <2>1, <2>3 DEF WriteBatch, EndFlush, DriftTypes
  <2>4. ASSUME NEW l \in Layers, Recount(l) PROVE DriftTypes'
    BY <2>4 DEF Recount, DriftTypes
  <2>5. CASE Receive \/ ReceiveFlush \/ Tick
    BY <1>1, <2>5 DEF Receive, ReceiveFlush, Tick
  <2> QED
    BY <1>5, <2>2, <2>3, <2>4, <2>5 DEF WriterStep
<1>6. ASSUME NEW a \in Admins, AdminStep(a) PROVE DriftTypes'
  <2>1. CASE RemoveLayer(a)
    BY <2>1 DEF RemoveLayer, Forgotten, TaskTypes, JobTypes, DriftTypes
  <2>2. CASE RemoveDatabase(a)
    BY <2>2 DEF RemoveDatabase, Forgotten, DriftTypes
  <2>3. CASE RebuildWrite(a)
    BY <2>3 DEF RebuildWrite, DriftTypes
  <2>4. ASSUME NEW l \in Layers, RebuildScan(a, l) PROVE DriftTypes'
    BY <2>4 DEF RebuildScan, DriftTypes
  <2>5. CASE RebuildLock(a) \/ Leave(a)
    BY <2>5 DEF RebuildLock, Leave, DriftTypes
  <2>6. CASE AskFlush(a) \/ Protect(a) \/ RebuildReadMarks(a) \/ RebuildEnd(a)
    BY <1>1, <2>6 DEF AskFlush, Protect, RebuildReadMarks, RebuildEnd
  <2> QED
    BY <1>6, <2>1, <2>2, <2>3, <2>4, <2>5, <2>6 DEF AdminStep
<1>7. ASSUME NEW a \in Admins, AdminStart(a) PROVE DriftTypes'
  <2>1. PICK j, x : Start(a, j, x)
    BY <1>7 DEF AdminStart
  <2>2. Drift(Gone(j, x)) /\ Gone(j, x) \subseteq Layers
    BY <2>1, StartFiles, GoneLayers
  <2> QED
    BY <1>2, <2>1, <2>2
<1>8. CASE Restart
  <2>1. {message[r].layer : r \in {r \in Requests : Underway(r)}} \subseteq Layers
    BY SentMessages DEF Messages
  <2> QED
    BY <1>8, <2>1 DEF Restart, DriftTypes
<1> QED
  BY <1>3, <1>4, <1>5, <1>6, <1>7, <1>8 DEF Next

\* The queue and the batch keep to their bounds, a row and what was counted
\* stay records of numbers, and everything else keeps its type.
THEOREM CatalogTypes == Spec => []TypeOK
<1> DEFINE Inv == /\ FlushInv /\ FilesInv /\ RebuildInv /\ RowsInv
                  /\ QueueBound /\ PendingBound /\ FlushSets /\ TaskTypes /\ DriftTypes
<1>1. Init => Inv
  <2>1. Init => QueueBound /\ PendingBound
    BY ConstantsAssumption, FS_EmptySet DEF Init, QueueBound, PendingBound
  <2>2. Init => FlushSets /\ TaskTypes /\ DriftTypes
    BY NoneAssumption DEF Init, FlushSets, TaskTypes, JobTypes, DriftTypes, Jobs
  <2> QED
    BY <2>1, <2>2, InitFlush, InitFiles, InitRebuild, InitRows
<1>2. Inv /\ [Next]_vars => Inv'
  BY NextFlush, NextFiles, NextRebuild, NextRows, NextBounds, NextFlushSets, NextTasks, NextDriftTypes
<1>3. Inv => TypeOK
  BY DEF TypeOK, FlushInv, FlushTypes, FilesInv, Messages, RowsInv, Rows, QueueBound, PendingBound, FlushSets,
     TaskTypes, JobTypes, DriftTypes
<1> QED
  BY <1>1, <1>2, <1>3, PTL DEF Spec

-----------------------------------------------------------------------------
(* Who waits, and for what.                                                *)

Rebuilding == {"scanning", "no database", "writing", "emptying"}

\* An operation that waits for its flush is in the queue, or the writer is
\* writing the batch for it.
WaitersKnown ==
    \A a \in Admins : step[a] = "waiting" =>
        \/ writer = "flushing" /\ asker = a
        \/ \E n \in DOMAIN queue : queue[n] = a

\* Only a rebuild under way has the lock.
LockHeld == lock # None => lock \in Admins /\ step[lock] \in Rebuilding

\* Only an operation that has begun is the one that the status shows.
StatusHeld == running # None => running \in Admins /\ step[running] # "ready"

\* What an operation waits for, another is to give: a flush is under way or
\* queued, the lock is with a rebuild that has not ended, and the status with a
\* task that goes on.
NoneStranded == WaitersKnown /\ LockHeld /\ StatusHeld

\* The commands left after the first one has been received.
LEMMA LeftInQueue ==
    ASSUME FlushTypes, queue # <<>>, queue' = Tail(queue),
           NEW n \in DOMAIN queue, queue[n] # Head(queue)
    PROVE  \E m \in DOMAIN queue' : queue'[m] = queue[n]
<1>1. queue \in Seq(Requests \cup Admins)
  BY DEF FlushTypes
<1>2. n \in 1..Len(queue) /\ Len(queue) \in Nat /\ Head(queue) = queue[1]
  BY <1>1
<1>3. n - 1 \in DOMAIN Tail(queue) /\ Tail(queue)[n - 1] = queue[n]
  BY <1>1, <1>2
<1> QED
  BY <1>3

\* A flush takes a waiting operation from the queue to be the one it is for,
\* and answers it in the end.
LEMMA WriterServes == ASSUME FlushInv, NoneStranded, WriterStep PROVE NoneStranded'
<1> USE ConstantsAssumption
<1>1. UNCHANGED <<lock, running>> /\ step \in [Admins -> Steps]
  BY DEF WriterStep, rebuildVars, scanVars, FlushInv, FlushTypes
<1>2. \A a, b \in Admins \cup {None}, s \in {"acting", "done"} :
        step' = Answer(b, s) /\ a \in Admins =>
          /\ step'[a] = step[a] \/ (step[a] = "waiting" /\ step'[a] = s /\ a = b)
          /\ step[a] = "waiting" /\ a = b => step'[a] = s
  BY <1>1 DEF Answer
<1>3. asker \in Admins \cup {None} /\ (writer = "idle" => asker = None)
  BY DEF FlushInv, FlushTypes
<1>4. ASSUME step' = step \/ \E b \in Admins \cup {None}, s \in {"acting", "done"} : step' = Answer(b, s)
      PROVE LockHeld' /\ StatusHeld'
  <2>1. \A a \in Admins : step'[a] = step[a] \/ (step[a] = "waiting" /\ step'[a] \in {"acting", "done"})
    BY <1>2, <1>4
  <2> QED
    BY <1>1, <2>1 DEF NoneStranded, LockHeld, StatusHeld, Rebuilding
<1>5. CASE Receive
  <2>1. /\ writer = "idle" /\ queue # <<>> /\ Head(queue) \in Requests
        /\ queue' = Tail(queue) /\ step' = step
    BY <1>5 DEF Receive
  <2>2. WaitersKnown'
    <3> SUFFICES ASSUME NEW a \in Admins, step[a] = "waiting"
                 PROVE \E n \in DOMAIN queue' : queue'[n] = a
      BY <2>1 DEF WaitersKnown
    <3>1. PICK n \in DOMAIN queue : queue[n] = a
      BY <2>1 DEF NoneStranded, WaitersKnown
    <3> QED
      BY <2>1, <3>1, LeftInQueue DEF FlushInv
  <2> QED
    BY <1>4, <2>1, <2>2 DEF NoneStranded
<1>6. CASE ReceiveFlush
  <2>1. /\ writer = "idle" /\ queue # <<>> /\ Head(queue) \in Admins /\ queue' = Tail(queue)
        /\ \/ step' = Answer(Head(queue), "acting")
           \/ step' = step /\ writer' = "flushing" /\ asker' = Head(queue)
    BY <1>6 DEF ReceiveFlush, StartFlush
  <2>2. ASSUME NEW a \in Admins, step'[a] = "waiting"
        PROVE \/ writer' = "flushing" /\ asker' = a
              \/ \E n \in DOMAIN queue' : queue'[n] = a
    <3>1. step[a] = "waiting" /\ (a = Head(queue) => step' = step /\ writer' = "flushing" /\ asker' = a)
      BY <1>2, <2>1, <2>2
    <3>2. CASE a = Head(queue)
      BY <3>1, <3>2
    <3>3. CASE a # Head(queue)
      <4>1. PICK n \in DOMAIN queue : queue[n] = a
        BY <2>1, <3>1 DEF NoneStranded, WaitersKnown
      <4> QED
        BY <2>1, <3>3, <4>1, LeftInQueue DEF FlushInv
    <3> QED
      BY <3>2, <3>3
  <2>3. WaitersKnown'
    BY <2>2 DEF WaitersKnown
  <2> QED
    BY <1>4, <2>1, <2>3 DEF NoneStranded
<1>7. CASE Tick \/ \E l \in Layers : Recount(l)
  <2>1. /\ UNCHANGED <<queue, step>>
        /\ \/ writer = "idle"
           \/ UNCHANGED <<writer, asker>>
    BY <1>7 DEF Tick, Recount
  <2>2. WaitersKnown'
    BY <2>1 DEF NoneStranded, WaitersKnown
  <2> QED
    BY <1>4, <2>1, <2>2 DEF NoneStranded
<1>8. CASE FailFlush \/ WriteBatch
  <2>1. queue' = queue /\ \E s \in {"acting", "done"} : step' = Answer(asker, s)
    BY <1>8 DEF FailFlush, WriteBatch, EndFlush
  <2>2. WaitersKnown'
    <3> SUFFICES ASSUME NEW a \in Admins, step'[a] = "waiting"
                 PROVE \E n \in DOMAIN queue : queue[n] = a
      BY <2>1 DEF WaitersKnown
    <3>1. step[a] = "waiting" /\ asker # a
      BY <1>2, <1>3, <2>1
    <3> QED
      BY <3>1 DEF NoneStranded, WaitersKnown
  <2> QED
    BY <1>3, <1>4, <2>1, <2>2 DEF NoneStranded
<1> QED
  BY <1>5, <1>6, <1>7, <1>8 DEF WriterStep

\* An operation waits once its command is in the queue, and a rebuild gives the
\* lock back with its last step.
LEMMA AdminServes ==
    ASSUME FlushInv, RebuildInv, NoneStranded, NEW a \in Admins, AdminStep(a) \/ AdminStart(a)
    PROVE  NoneStranded'
<1> USE ConstantsAssumption
<1>1. UNCHANGED <<writer, asker>> /\ step \in [Admins -> Steps]
  BY DEF AdminStep, AdminStart, flushVars, FlushInv, FlushTypes
<1>2. \A b \in Admins : step[b] \in Rebuilding => lock = b
  BY DEF RebuildInv, Rebuilding
<1>3. CASE AskFlush(a)
  <2>1. /\ queue' = Append(queue, a) /\ step' = [step EXCEPT ![a] = "waiting"]
        /\ step[a] = "asking" /\ UNCHANGED <<lock, running>>
    BY <1>3 DEF AskFlush, rebuildVars, scanVars
  <2>2. queue \in Seq(Requests \cup Admins)
    BY DEF FlushInv, FlushTypes
  <2>3. /\ \A n \in DOMAIN queue : n \in DOMAIN queue' /\ queue'[n] = queue[n]
        /\ Len(queue) + 1 \in DOMAIN queue' /\ queue'[Len(queue) + 1] = a
    BY <2>1, <2>2
  <2>4. WaitersKnown'
    BY <1>1, <2>1, <2>3 DEF NoneStranded, WaitersKnown
  <2> QED
    BY <1>1, <2>1, <2>4 DEF NoneStranded, LockHeld, StatusHeld, Rebuilding
<1>4. ASSUME NEW next \in Steps, next \notin {"ready", "waiting"}, step' = [step EXCEPT ![a] = next],
             queue' = queue,
             \/ lock' = None
             \/ lock' = a /\ next \in Rebuilding
             \/ lock' = lock /\ lock # a,
             running' \in {running, a}
      PROVE NoneStranded'
  BY <1>1, <1>4 DEF NoneStranded, WaitersKnown, LockHeld, StatusHeld
<1>5. CASE RemoveLayer(a) \/ RemoveDatabase(a) \/ Protect(a)
  <2>1. /\ step' = [step EXCEPT ![a] = "done"] /\ UNCHANGED <<queue, lock, running>>
        /\ step[a] \notin Rebuilding
    BY <1>5 DEF RemoveLayer, RemoveDatabase, Protect, Finished, rebuildVars, scanVars, Rebuilding
  <2>2. lock # a
    BY <2>1, NoneAssumption DEF NoneStranded, LockHeld
  <2> QED
    BY <1>4, <2>1, <2>2 DEF Steps
<1>6. CASE RebuildLock(a)
  <2>1. /\ lock' = a /\ UNCHANGED <<queue, running>>
        /\ \E s \in {"scanning", "no database"} : step' = [step EXCEPT ![a] = s]
    BY <1>6 DEF RebuildLock
  <2> QED
    BY <1>4, <2>1 DEF Steps, Rebuilding
<1>7. CASE \E l \in Layers : RebuildScan(a, l)
  BY <1>1, <1>7 DEF RebuildScan, adminVars, NoneStranded, WaitersKnown, LockHeld, StatusHeld
<1>8. CASE RebuildReadMarks(a)
  <2>1. /\ lock = a /\ lock' = a /\ UNCHANGED <<queue, running>>
        /\ \E s \in {"writing", "emptying"} : step' = [step EXCEPT ![a] = s]
    BY <1>8 DEF RebuildReadMarks
  <2> QED
    BY <1>4, <2>1 DEF Steps, Rebuilding
<1>9. CASE RebuildWrite(a)
  <2>1. lock' = None /\ UNCHANGED <<queue, running>> /\ step' = [step EXCEPT ![a] = "done"]
    BY <1>9 DEF RebuildWrite, Finished
  <2> QED
    BY <1>4, <2>1 DEF Steps
<1>10. CASE RebuildEnd(a)
  <2>1. running' = None /\ UNCHANGED <<queue, step, lock>>
    BY <1>10 DEF RebuildEnd, adminVars, scanVars
  <2> QED
    BY <1>1, <2>1 DEF NoneStranded, WaitersKnown, LockHeld, StatusHeld
<1>11. CASE Leave(a)
  <2>1. /\ UNCHANGED <<queue, running>> /\ step' = [step EXCEPT ![a] = "done"]
        /\ lock' = IF lock = a THEN None ELSE lock
    BY <1>11 DEF Leave, Finished
  <2> QED
    BY <1>4, <2>1 DEF Steps
<1>12. CASE AdminStart(a)
  <2>1. /\ step[a] = "ready" /\ UNCHANGED <<queue, lock>> /\ running' \in {running, a}
        /\ \E s \in {"asking", "done"} : step' = [step EXCEPT ![a] = s]
    BY <1>12 DEF AdminStart, Start, Admitted, scanVars
  <2>2. lock # a
    BY <2>1 DEF NoneStranded, LockHeld, Rebuilding
  <2> QED
    BY <1>4, <2>1, <2>2 DEF Steps
<1> QED
  BY <1>3, <1>5, <1>6, <1>7, <1>8, <1>9, <1>10, <1>11, <1>12 DEF AdminStep

\* catalog.rs:289-299, 120-216, 468-507 and 510-601, api.rs:711-755: whatever fails, however full the
\* queue is, and however flushes, removals and rebuilds overlap, an operation
\* that waits is known to the writer, and the lock and the status are with a
\* rebuild that has not ended or is about to give them back.
THEOREM NobodyStranded == Spec => []NoneStranded
<1>1. Init => NoneStranded
  BY DEF Init, NoneStranded, WaitersKnown, LockHeld, StatusHeld
<1>2. FlushInv /\ RebuildInv /\ NoneStranded /\ [Next]_vars => NoneStranded'
  <2> SUFFICES ASSUME FlushInv, RebuildInv, NoneStranded, [Next]_vars PROVE NoneStranded'
    OBVIOUS
  <2>1. CASE UNCHANGED vars \/ \E l \in Layers : CloseLoose(l)
    <3>1. UNCHANGED <<writer, asker, lock, running, step, queue>>
      BY <2>1 DEF vars, CloseLoose, flushVars, rebuildVars, scanVars, adminVars
    <3> QED
      BY <3>1 DEF NoneStranded, WaitersKnown, LockHeld, StatusHeld
  <2>2. CASE \E r \in Requests : PutStep(r) \/ ClientStep(r)
    <3>1. /\ UNCHANGED <<writer, asker, lock, running, step>>
          /\ queue' = queue \/ \E r \in Requests : queue' = Append(queue, r)
      BY <2>2 DEF PutStep, ClientStep, PutFrame, Enqueue, Store, StoreLoose, Cancel, flushVars,
                  rebuildVars, scanVars, adminVars
    <3>2. queue \in Seq(Requests \cup Admins)
      BY DEF FlushInv, FlushTypes
    <3>3. \A n \in DOMAIN queue : n \in DOMAIN queue' /\ queue'[n] = queue[n]
      BY <3>1, <3>2
    <3> QED
      BY <3>1, <3>3 DEF NoneStranded, WaitersKnown, LockHeld, StatusHeld
  <2>3. CASE Restart
    BY <2>3 DEF Restart, NoneStranded, WaitersKnown, LockHeld, StatusHeld
  <2> QED
    BY <2>1, <2>2, <2>3, WriterServes, AdminServes DEF Next
<1> QED
  BY <1>1, <1>2, InitFlush, NextFlush, InitRebuild, NextRebuild, PTL DEF Spec
==============================================================================
