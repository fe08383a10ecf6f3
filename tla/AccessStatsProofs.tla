--------------------------- MODULE AccessStatsProofs ---------------------------
(***************************************************************************)
(* For any requests, clock, retention and number of faults: the types of   *)
(* AccessStats, that no count is lost or doubled but by the two ways the   *)
(* model records, and that what is shown is what will be read back.        *)
(***************************************************************************)
EXTENDS AccessStats, TLAPS

\* Nothing is in hand between two runs; a request counts in the hour it read,
\* which may just have passed.
Quiet == mode = "stopped" => /\ \A r \in Requests : at[r] = None
                             /\ \A h \in Hours : pending[h] = 0
                             /\ \A f \in Flushers : phase[f] = "idle"
OnTime == \A r \in Requests : at[r] \in {None, hour - 1, hour}

\* ShownIsStored, also for the hours to come.
Balanced ==
    mode # "stopped" =>
        \A h \in Hours : Current(h) => rows[h] + Unsaved[h] = buckets[h] + doubledNow[h]

IInv == TypeOK /\ Quiet /\ OnTime /\ CountsKept /\ Balanced

\* It holds at the start.
LEMMA InitInv == Init => IInv
<1> SUFFICES ASSUME Init PROVE IInv
  OBVIOUS
<1> USE ConstantsAssumption DEF Init, Zero, Hours
<1>1. TypeOK
  BY DEF TypeOK, Flushers, Phases
<1>2. Quiet /\ OnTime
  BY DEF Quiet, OnTime
<1>3. CountsKept /\ Balanced
  BY DEF CountsKept, Balanced, Unsaved, Writing, Sum, Flushers
<1> QED
  BY <1>1, <1>2, <1>3 DEF IInv

\* What is in memory and not yet in the rows is a number of every hour.
LEMMA UnsavedTyped == TypeOK => \A h \in Hours : Unsaved[h] \in Nat
<1> SUFFICES ASSUME TypeOK, NEW h \in Hours PROVE Unsaved[h] \in Nat
  OBVIOUS
<1>1. Writing("periodic")[h] \in Nat /\ Writing("final")[h] \in Nat
  BY DEF TypeOK, Writing, Zero, Flushers
<1>2. pending[h] \in Nat
  BY DEF TypeOK
<1>3. Unsaved[h] = pending[h] + (Writing("periodic")[h] + Writing("final")[h])
  BY DEF Unsaved, Sum
<1> QED
  BY <1>1, <1>2, <1>3

\* A request that counts is one more in memory and one more to write.
LEMMA RequestInv ==
    ASSUME IInv, NEW r \in Requests, ReadHour(r) \/ Count(r)
    PROVE IInv'
<1> USE ConstantsAssumption DEF IInv
<1>1. CASE ReadHour(r)
  <2>1. TypeOK' /\ Quiet' /\ OnTime'
    BY <1>1 DEF ReadHour, TypeOK, Quiet, OnTime, Hours
  <2>2. CountsKept' /\ Balanced'
    BY <1>1 DEF ReadHour, CountsKept, Balanced, Current, Unsaved, Writing
  <2> QED
    BY <2>1, <2>2
<1>2. CASE Count(r)
  <2> DEFINE n == at[r]
  <2>1. n \in Hours /\ n <= hour
    <3>1. n # None /\ n \in Hours \cup {None} /\ n \in {None, hour - 1, hour} /\ hour \in Hours
      BY <1>2 DEF Count, OnTime, TypeOK
    <3> QED
      BY <3>1 DEF Hours
  <2>2. /\ buckets' = Retained([buckets EXCEPT ![n] = @ + 1], n)
        /\ pending' = [pending EXCEPT ![n] = @ + 1]
        /\ recorded' = [recorded EXCEPT ![n] = @ + 1]
        /\ at' = [at EXCEPT ![r] = None] /\ counted' = counted \cup {r}
        /\ UNCHANGED <<mode, hour, faults, phase, taken, rows, lost, doubled, doubledNow>>
    BY <1>2 DEF Count, Bump
  <2>3. mode # "stopped"
    BY <2>1 DEF Quiet, Hours
  <2>4. at' \in [Requests -> Hours \cup {None}] /\ OnTime'
    BY <2>2 DEF TypeOK, OnTime
  <2> HIDE DEF n
  <2>5. buckets' \in [Hours -> Nat] /\ pending' \in [Hours -> Nat] /\ recorded' \in [Hours -> Nat]
    BY <2>1, <2>2 DEF TypeOK, Retained
  <2>6. TypeOK' /\ Quiet'
    BY <2>2, <2>3, <2>4, <2>5 DEF TypeOK, Quiet
  <2>7. ASSUME NEW h \in Hours, Current(h) PROVE h >= n - RetainHours
    BY <2>1, <2>7 DEF Current, TypeOK, Hours
  <2>8. ASSUME NEW h \in Hours, Current(h)
        PROVE /\ buckets'[h] = buckets[h] + (IF h = n THEN 1 ELSE 0)
              /\ recorded'[h] = recorded[h] + (IF h = n THEN 1 ELSE 0)
              /\ pending'[h] = pending[h] + (IF h = n THEN 1 ELSE 0)
    BY <2>1, <2>2, <2>7, <2>8 DEF TypeOK, Retained
  <2>9. ASSUME NEW h \in Hours, Current(h)
        PROVE Unsaved'[h] = Unsaved[h] + (IF h = n THEN 1 ELSE 0) /\ Unsaved[h] \in Nat
    <3>1. UNCHANGED <<phase, taken>>
      BY <2>2
    <3>2. pending[h] \in Nat /\ taken["periodic"][h] \in Nat /\ taken["final"][h] \in Nat
      BY DEF TypeOK, Flushers
    <3> QED
      BY <2>8, <2>9, <3>1, <3>2 DEF Unsaved, Writing, Sum, Zero
  <2>10. ASSUME NEW h \in Hours, Current(h)
         PROVE /\ rows'[h] + Unsaved'[h] + lost'[h] = recorded'[h] + doubled'[h]
               /\ rows'[h] + Unsaved'[h] = buckets'[h] + doubledNow'[h]
    <3>1. /\ rows[h] \in Nat /\ lost[h] \in Nat /\ recorded[h] \in Nat /\ doubled[h] \in Nat
          /\ buckets[h] \in Nat /\ doubledNow[h] \in Nat
      BY DEF TypeOK
    <3>2. /\ rows[h] + Unsaved[h] + lost[h] = recorded[h] + doubled[h]
          /\ rows[h] + Unsaved[h] = buckets[h] + doubledNow[h]
      BY <2>3, <2>10 DEF CountsKept, Balanced
    <3>3. UNCHANGED <<rows, lost, doubled, doubledNow>>
      BY <2>2
    <3> QED
      BY <2>8, <2>9, <2>10, <3>1, <3>2, <3>3
  <2>11. CountsKept' /\ Balanced'
    BY <2>2, <2>10 DEF CountsKept, Balanced, Current
  <2> QED
    BY <2>4, <2>6, <2>11
<1> QED
  BY <1>1, <1>2

\* An hour that passes leaves fewer hours to account for.
LEMMA PassInv == IInv /\ PassHour => IInv'
<1> SUFFICES ASSUME IInv, PassHour PROVE IInv'
  OBVIOUS
<1> USE ConstantsAssumption DEF IInv
<1>1. hour' = hour + 1 /\ hour' \in Hours /\ UNCHANGED <<mode, faults, countVars>>
  BY DEF PassHour, TypeOK, Hours
<1>2. TypeOK' /\ Quiet'
  BY <1>1 DEF countVars, TypeOK, Quiet
<1>3. OnTime'
  BY <1>1 DEF PassHour, countVars, OnTime, TypeOK, Hours
<1>4. CountsKept' /\ Balanced'
  <2>1. \A h \in Hours : Current(h)' => Current(h)
    BY <1>1 DEF Current, TypeOK, Hours
  <2>2. UNCHANGED <<mode, rows, lost, recorded, doubled, doubledNow, buckets>> /\ Unsaved' = Unsaved
    BY <1>1 DEF countVars, Unsaved, Writing, Sum, Zero
  <2> QED
    BY <2>1, <2>2 DEF CountsKept, Balanced
<1> QED
  BY <1>2, <1>3, <1>4

\* A flush moves counts from memory to the rows; a failed one takes them back,
\* and has doubled them when the rows had been committed.
LEMMA FlushInv ==
    ASSUME IInv, NEW f \in Flushers, FlushStep(f) \/ Fail(f)
    PROVE IInv'
<1> USE ConstantsAssumption DEF IInv
<1>1. CASE Take(f)
  <2>1. /\ phase[f] = "idle" /\ mode # "stopped" /\ pending' = Zero
        /\ phase' = [phase EXCEPT ![f] = IF pending = Zero THEN "ended" ELSE "writing"]
        /\ taken' = [taken EXCEPT ![f] = pending]
        /\ UNCHANGED <<mode, hour, at, counted, recorded, lost, faults, buckets, rows,
                       doubled, doubledNow>>
    BY <1>1 DEF Take, Due, FlushFrame
  <2>2. TypeOK' /\ Quiet' /\ OnTime'
    BY <2>1 DEF TypeOK, Quiet, OnTime, Phases, Zero
  <2>3. ASSUME NEW h \in Hours PROVE Unsaved'[h] = Unsaved[h]
    BY <2>1 DEF TypeOK, Unsaved, Writing, Sum, Zero, Flushers
  <2> QED
    BY <2>1, <2>2, <2>3 DEF CountsKept, Balanced, Current
<1>2. CASE Write(f)
  <2>1. /\ phase[f] = "writing" /\ rows' = Sum(rows, taken[f])
        /\ phase' = [phase EXCEPT ![f] = "deleting"]
        /\ UNCHANGED <<mode, hour, at, counted, recorded, lost, faults, buckets, pending, taken,
                       doubled, doubledNow>>
    BY <1>2 DEF Write, RowsWith, FlushFrame
  <2>2. TypeOK' /\ Quiet' /\ OnTime'
    BY <2>1 DEF TypeOK, Quiet, OnTime, Phases, Sum
  <2>3. ASSUME NEW h \in Hours
        PROVE /\ rows'[h] = rows[h] + taken[f][h] /\ Unsaved[h] = Unsaved'[h] + taken[f][h]
              /\ rows[h] \in Nat /\ taken[f][h] \in Nat /\ Unsaved'[h] \in Nat
    BY <2>1 DEF TypeOK, Unsaved, Writing, Sum, Zero, Flushers
  <2>4. ASSUME NEW h \in Hours PROVE rows'[h] + Unsaved'[h] = rows[h] + Unsaved[h]
    BY <2>3
  <2>5. CountsKept' /\ Balanced'
    BY <2>1, <2>4 DEF CountsKept, Balanced, Current
  <2> QED
    BY <2>2, <2>5
<1>3. CASE Delete(f)
  <2>1. /\ phase[f] = "deleting" /\ rows' = Retained(rows, hour)
        /\ phase' = [phase EXCEPT ![f] = IF f = "final" THEN "ended" ELSE "idle"]
        /\ taken' = [taken EXCEPT ![f] = Zero]
        /\ UNCHANGED <<mode, hour, at, counted, recorded, lost, faults, buckets, pending,
                       doubled, doubledNow>>
    BY <1>3 DEF Delete, Forget, FlushFrame
  <2>2. TypeOK' /\ Quiet' /\ OnTime'
    BY <2>1 DEF TypeOK, Quiet, OnTime, Phases, Retained, Zero
  <2>3. ASSUME NEW h \in Hours PROVE Unsaved'[h] = Unsaved[h]
    BY <2>1 DEF TypeOK, Unsaved, Writing, Sum, Zero, Flushers
  <2>4. ASSUME NEW h \in Hours, Current(h) PROVE rows'[h] = rows[h]
    BY <2>1, <2>4 DEF Retained, Current
  <2> QED
    BY <2>1, <2>2, <2>3, <2>4 DEF CountsKept, Balanced, Current
<1>4. CASE Fail(f)
  <2>1. /\ faults < MaxFaults /\ faults' = faults + 1 /\ phase[f] \in {"writing", "deleting"}
        /\ phase' = [phase EXCEPT ![f] = After(f)]
        /\ pending' = Sum(pending, taken[f])
        /\ taken' = [taken EXCEPT ![f] = Zero]
        /\ UNCHANGED <<mode, hour, at, counted, recorded, lost, buckets, rows>>
    BY <1>4 DEF Fail, Fault, Restored, Forget, FlushFrame
  <2>2. IF phase[f] = "deleting"
        THEN doubled' = Sum(doubled, taken[f]) /\ doubledNow' = Sum(doubledNow, taken[f])
        ELSE UNCHANGED <<doubled, doubledNow>>
    BY <1>4 DEF Fail
  <2>3. doubled' \in [Hours -> Nat] /\ doubledNow' \in [Hours -> Nat]
    BY <2>2 DEF Sum, TypeOK
  <2>4. TypeOK' /\ Quiet' /\ OnTime'
    BY <2>1, <2>3 DEF TypeOK, Quiet, OnTime, Phases, After, Sum, Zero
  <2>5. ASSUME NEW h \in Hours
        PROVE /\ taken[f][h] \in Nat /\ Unsaved[h] \in Nat
              /\ phase[f] = "writing" =>
                    Unsaved'[h] = Unsaved[h] /\ UNCHANGED <<doubled, doubledNow>>
              /\ phase[f] = "deleting" =>
                    /\ Unsaved'[h] = Unsaved[h] + taken[f][h]
                    /\ doubled'[h] = doubled[h] + taken[f][h]
                    /\ doubledNow'[h] = doubledNow[h] + taken[f][h]
    <3>1. /\ taken[f][h] \in Nat /\ Unsaved[h] \in Nat
          /\ phase[f] = "writing" => Unsaved'[h] = Unsaved[h]
          /\ phase[f] = "deleting" => Unsaved'[h] = Unsaved[h] + taken[f][h]
      BY <2>1 DEF TypeOK, Unsaved, Writing, Sum, Zero, Flushers, After
    <3> QED
      BY <2>2, <3>1 DEF Sum
  <2>6. ASSUME NEW h \in Hours, Current(h)
        PROVE /\ rows'[h] + Unsaved'[h] + lost'[h] = recorded'[h] + doubled'[h]
              /\ mode # "stopped" => rows'[h] + Unsaved'[h] = buckets'[h] + doubledNow'[h]
    <3>1. /\ rows[h] \in Nat /\ lost[h] \in Nat /\ recorded[h] \in Nat /\ doubled[h] \in Nat
          /\ buckets[h] \in Nat /\ doubledNow[h] \in Nat
      BY DEF TypeOK
    <3>2. /\ rows[h] + Unsaved[h] + lost[h] = recorded[h] + doubled[h]
          /\ mode # "stopped" => rows[h] + Unsaved[h] = buckets[h] + doubledNow[h]
      BY <2>6 DEF CountsKept, Balanced
    <3>3. UNCHANGED <<rows, lost, recorded, buckets>>
      BY <2>1
    <3> QED
      BY <2>1, <2>5, <3>1, <3>2, <3>3
  <2>7. CountsKept' /\ Balanced'
    BY <2>1, <2>6 DEF CountsKept, Balanced, Current
  <2> QED
    BY <2>4, <2>7
<1> QED
  BY <1>1, <1>2, <1>3, <1>4 DEF FlushStep

\* A stop gives up what is in memory; a start reads the rows back.
LEMMA LifeInv == IInv /\ (Stop \/ Return \/ Crash \/ Start) => IInv'
<1> USE ConstantsAssumption DEF IInv
<1>1. IInv /\ Stop => IInv'
  BY DEF Stop, countVars, TypeOK, Quiet, OnTime, CountsKept, Balanced, Current, Unsaved, Writing
<1>2. ASSUME IInv, End, faults' \in 0..MaxFaults PROVE IInv'
  <2>1. TypeOK'
    <3>1. lost' \in [Hours -> Nat]
      BY <1>2, UnsavedTyped DEF End, Sum, TypeOK
    <3> QED
      BY <1>2, <3>1 DEF End, TypeOK, Phases, Zero
  <2>2. Quiet' /\ OnTime' /\ Balanced'
    BY <1>2 DEF End, Quiet, OnTime, Balanced, Zero
  <2>3. ASSUME NEW h \in Hours
        PROVE /\ Unsaved'[h] = 0 /\ lost'[h] = lost[h] + Unsaved[h]
              /\ Unsaved[h] \in Nat /\ lost[h] \in Nat /\ rows[h] \in Nat
    BY <1>2 DEF End, TypeOK, Unsaved, Writing, Sum, Zero, Flushers
  <2>4. CountsKept'
    BY <1>2, <2>3 DEF End, CountsKept, Current
  <2> QED
    BY <2>1, <2>2, <2>4
<1>3. IInv /\ (Return \/ Crash) => IInv'
  BY <1>2 DEF Return, Crash, Fault, TypeOK
<1>4. ASSUME IInv, Start PROVE IInv'
  <2>1. TypeOK' /\ Quiet' /\ OnTime'
    BY <1>4 DEF Start, TypeOK, Quiet, OnTime, Retained, Zero
  <2>2. ASSUME NEW h \in Hours
        PROVE Unsaved'[h] = Unsaved[h] /\ Unsaved[h] = 0 /\ doubledNow'[h] = 0 /\ rows[h] \in Nat
    BY <1>4 DEF Start, Quiet, TypeOK, Unsaved, Writing, Sum, Zero, Flushers
  <2>3. CountsKept' /\ Balanced'
    BY <1>4, <2>2 DEF Start, CountsKept, Balanced, Current, Retained
  <2> QED
    BY <2>1, <2>3
<1> QED
  BY <1>1, <1>3, <1>4

\* Every step keeps the invariant.
LEMMA NextInv == IInv /\ [Next]_vars => IInv'
<1>1. IInv /\ UNCHANGED vars => IInv'
  BY DEF vars, countVars, IInv, TypeOK, Quiet, OnTime, CountsKept, Balanced, Current, Unsaved, Writing
<1> QED
  BY <1>1, RequestInv, PassInv, FlushInv, LifeInv DEF Next

\* The invariant holds of every behaviour.
LEMMA Invariance == Spec => []IInv
BY InitInv, NextInv, PTL DEF Spec

\* The variables of AccessStats keep their types.
THEOREM TypeCorrect == Spec => []TypeOK
<1>1. IInv => TypeOK
  BY DEF IInv
<1> QED
  BY <1>1, Invariance, PTL

\* stats.rs:281-330: however flushes overlap, fail and are cut short, a count
\* is neither lost nor written twice, but for what a stop cuts off and what
\* was committed by a flush that then failed.
THEOREM NoCountLost == Spec => []CountsKept
<1>1. IInv => CountsKept
  BY DEF IInv
<1> QED
  BY <1>1, Invariance, PTL

\* stats.rs:181-230: what the dashboard shows is what the next start will read.
THEOREM DashboardTrue == Spec => []ShownIsStored
<1>1. IInv => ShownIsStored
  <2> SUFFICES ASSUME IInv, mode # "stopped", NEW h \in DOMAIN Recent(RetainHours + 1)
               PROVE rows[h] + Unsaved[h] = Recent(RetainHours + 1)[h] + doubledNow[h]
    BY DEF ShownIsStored
  <2>1. h \in Hours /\ hour - (RetainHours + 1) < h /\ Recent(RetainHours + 1)[h] = buckets[h]
    BY DEF Recent
  <2>2. Current(h)
    BY <2>1, ConstantsAssumption DEF Current, IInv, TypeOK, Hours
  <2> QED
    BY <2>1, <2>2 DEF IInv, Balanced
<1> QED
  BY <1>1, Invariance, PTL
-----------------------------------------------------------------------------
\* Once main has begun its flush no request counts any more, and without a
\* failure nothing is put back.
Flushing ==
    phase["final"] # "idle" =>
        /\ mode = "stopping" /\ \A r \in Requests : at[r] = None
        /\ faults = 0 => pending = Zero

\* Every step keeps it.
LEMMA NextFlushing == TypeOK /\ Flushing /\ [Next]_vars => Flushing'
<1> SUFFICES ASSUME TypeOK, Flushing, [Next]_vars PROVE Flushing'
  OBVIOUS
<1>1. ASSUME NEW r \in Requests, ReadHour(r) \/ Count(r) PROVE Flushing'
  <2>1. phase' = phase /\ (mode = "serving" \/ at[r] # None)
    BY <1>1 DEF ReadHour, Count
  <2>2. phase["final"] = "idle"
    BY <2>1 DEF Flushing
  <2> QED
    BY <2>1, <2>2 DEF Flushing
<1>2. ASSUME NEW f \in Flushers, FlushStep(f) PROVE Flushing'
  <2>1. CASE Take(f)
    <3>1. UNCHANGED <<mode, at, faults>> /\ pending' = Zero
      BY <2>1 DEF Take, FlushFrame
    <3>2. CASE f = "final"
      BY <2>1, <3>1, <3>2 DEF Take, Due, Flushing, Zero
    <3>3. CASE f # "final"
      <4>1. phase'["final"] = phase["final"]
        BY <2>1, <3>3 DEF Take, TypeOK, Flushers
      <4> QED
        BY <3>1, <4>1 DEF Flushing, Zero
    <3> QED
      BY <3>2, <3>3
  <2>2. CASE Write(f) \/ Delete(f)
    <3>1. UNCHANGED <<mode, at, faults, pending>> /\ phase[f] # "idle"
      BY <2>2 DEF Write, Delete, FlushFrame
    <3>2. phase'["final"] # "idle" => phase["final"] # "idle"
      BY <2>2, <3>1 DEF Write, Delete, TypeOK, Flushers
    <3> QED
      BY <3>1, <3>2 DEF Flushing, Zero
  <2> QED
    BY <1>2, <2>1, <2>2 DEF FlushStep
<1>3. ASSUME NEW f \in Flushers, Fail(f) PROVE Flushing'
  <2>1. UNCHANGED <<mode, at>> /\ faults' # 0
    BY <1>3 DEF Fail, Fault, FlushFrame, TypeOK
  <2>2. phase'["final"] # "idle" => phase["final"] # "idle"
    BY <1>3 DEF Fail, TypeOK, Flushers
  <2> QED
    BY <2>1, <2>2 DEF Flushing
<1>4. CASE Return \/ Crash
  BY <1>4 DEF Return, Crash, End, Flushing, Flushers
<1>5. CASE Stop \/ Start \/ PassHour \/ UNCHANGED vars
  BY <1>5 DEF Stop, Start, PassHour, vars, countVars, Flushing, Zero
<1> QED
  BY <1>1, <1>2, <1>3, <1>4, <1>5 DEF Next

\* Only a failure makes a count be written twice.
Single == faults = 0 => \A h \in Hours : doubled[h] = 0

\* Every step keeps it.
LEMMA NextSingle == TypeOK /\ Single /\ [Next]_vars => Single'
<1> SUFFICES ASSUME TypeOK, Single, [Next]_vars PROVE Single'
  OBVIOUS
<1>1. ASSUME NEW r \in Requests, ReadHour(r) \/ Count(r) PROVE Single'
  BY <1>1 DEF ReadHour, Count, Single
<1>2. ASSUME NEW f \in Flushers, FlushStep(f) PROVE Single'
  BY <1>2 DEF FlushStep, Take, Write, Delete, Single
<1>3. ASSUME NEW f \in Flushers, Fail(f) PROVE Single'
  BY <1>3 DEF Fail, Fault, TypeOK, Single
<1>4. CASE Return
  BY <1>4 DEF Return, End, Single
<1>5. CASE Crash
  BY <1>5 DEF Crash, Fault, TypeOK, Single
<1>6. CASE Stop \/ Start \/ PassHour \/ UNCHANGED vars
  BY <1>6 DEF Stop, Start, PassHour, vars, countVars, Single
<1> QED
  BY <1>1, <1>2, <1>3, <1>4, <1>5, <1>6 DEF Next

\* A return that has seen no failure finds nothing pending and nothing doubled.
LEMMA ReturnSaves ==
    ASSUME IInv, Flushing, Single, Return, faults = 0, NEW h \in Hours, Current(h)
    PROVE /\ rows'[h] + lost'[h] = recorded[h]
          /\ lost'[h] = lost[h] + Writing("periodic")[h]
<1>1. pending[h] = 0 /\ Writing("final")[h] = 0
  BY DEF Return, Flushing, Writing, Zero
<1>2. Writing("periodic")[h] \in Nat
  BY DEF IInv, TypeOK, Writing, Zero, Flushers
<1>3. Unsaved[h] = Writing("periodic")[h]
  BY <1>1, <1>2 DEF Unsaved, Sum
<1>4. lost'[h] = lost[h] + Unsaved[h] /\ rows'[h] = rows[h]
  BY DEF Return, End, Sum
<1>5. rows[h] + Unsaved[h] + lost[h] = recorded[h]
  BY DEF IInv, CountsKept, Single, TypeOK
<1>6. rows[h] \in Nat /\ lost[h] \in Nat /\ recorded[h] \in Nat
  BY DEF IInv, TypeOK
<1> QED
  BY <1>2, <1>3, <1>4, <1>5, <1>6

\* main.rs:304-310: when main returns without a failure, each request of a
\* retained hour is in the rows, but for what a periodic flush had taken and not
\* yet committed when main returned.
THEOREM GracefulStopAlwaysSaves == Spec => GracefulStopSaves
<1>1. Init => Flushing /\ Single
  BY DEF Init, Flushing, Flushers, Single, Zero
<1>2. IInv /\ Flushing /\ Single /\ [Next]_vars
        => [mode = "stopping" /\ mode' = "stopped" /\ faults' = 0 =>
              \A h \in Hours : Current(h) =>
                  /\ rows'[h] + lost'[h] = recorded[h]
                  /\ lost'[h] = lost[h] + Writing("periodic")[h]]_vars
  <2> SUFFICES ASSUME IInv, Flushing, Single, Next, mode = "stopping", mode' = "stopped",
                      faults' = 0, NEW h \in Hours, Current(h)
               PROVE  /\ rows'[h] + lost'[h] = recorded[h]
                      /\ lost'[h] = lost[h] + Writing("periodic")[h]
    OBVIOUS
  <2>1. Return \/ Crash
    BY DEF Next, ReadHour, Count, PassHour, FlushStep, Take, Write, Delete, Fail, FlushFrame, Stop,
           Start, countVars
  <2>2. ~Crash
    BY DEF Crash, Fault, IInv, TypeOK
  <2>3. Return /\ faults = 0
    BY <2>1, <2>2 DEF Return
  <2> QED
    BY <2>3, ReturnSaves
<1>3. IInv => TypeOK
  BY DEF IInv
<1> QED
  BY <1>1, <1>2, <1>3, Invariance, NextFlushing, NextSingle, PTL DEF Spec, GracefulStopSaves
==============================================================================
