----------------------------- MODULE AccessStats -----------------------------
(***************************************************************************)
(* The hourly counters of stats.rs over the life of the server: requests   *)
(* count in memory, a task writes what is pending once a minute, main      *)
(* writes it once more before it returns, and a start reads the retained   *)
(* hours back.  The six counters of an hour are written, merged and lost   *)
(* together and are one number here.                                       *)
(***************************************************************************)
EXTENDS Integers, FiniteSets

CONSTANTS
    Requests,       \* each counts itself once
    LastHour,       \* bound on the clock
    RetainHours,    \* 24 * 90 in the code
    MaxFaults,      \* bound on failures, stops and clients that leave
    None

ASSUME ConstantsAssumption ==
    /\ LastHour \in Nat /\ RetainHours \in Nat \ {0} /\ MaxFaults \in Nat
    /\ None \notin Nat

VARIABLES
    mode, hour, faults,
    at,             \* the hour a request has read but not yet counted in
    counted,        \* requests that have counted
    buckets, pending,
    phase, taken,   \* of the two flushes
    rows,           \* the table hourly_metrics
    \* history: all that was counted, what never reached the rows, and what
    \* reached them twice, ever and since the start
    recorded, lost, doubled, doubledNow

countVars == <<at, counted, buckets, pending, phase, taken, rows, recorded, lost, doubled, doubledNow>>
vars == <<mode, hour, faults, countVars>>

Hours == 0..LastHour
Flushers == {"periodic", "final"}

Zero == [h \in Hours |-> 0]
Sum(f, g) == [h \in Hours |-> f[h] + g[h]]

\* retain, and the DELETE of old rows.
Retained(f, now) == [h \in Hours |-> IF h >= now - RetainHours THEN f[h] ELSE 0]

Init ==
    /\ mode = "serving" /\ hour = 0 /\ faults = 0
    /\ at = [r \in Requests |-> None] /\ counted = {}
    /\ buckets = Zero /\ pending = Zero
    /\ phase = [f \in Flushers |-> "idle"] /\ taken = [f \in Flushers |-> Zero]
    /\ rows = Zero
    /\ recorded = Zero /\ lost = Zero /\ doubled = Zero /\ doubledNow = Zero

Fault == faults < MaxFaults /\ faults' = faults + 1

-----------------------------------------------------------------------------
(* record_get and record_put: the hour is read before the lock is taken.   *)

ReadHour(r) ==
    /\ mode = "serving" /\ r \notin counted /\ at[r] = None
    /\ at' = [at EXCEPT ![r] = hour]
    /\ UNCHANGED <<mode, hour, faults, counted, buckets, pending, phase, taken, rows, recorded,
                   lost, doubled, doubledNow>>

\* update, under the lock.
Bump(h) ==
    /\ buckets' = Retained([buckets EXCEPT ![h] = @ + 1], h)
    /\ pending' = [pending EXCEPT ![h] = @ + 1]

Count(r) ==
    /\ at[r] # None
    /\ counted' = counted \cup {r}
    /\ at' = [at EXCEPT ![r] = None]
    /\ Bump(at[r])
    /\ recorded' = [recorded EXCEPT ![at[r]] = @ + 1]
    /\ UNCHANGED <<mode, hour, faults, phase, taken, rows, lost, doubled, doubledNow>>

\* The clock.  Between its reading and the lock a request awaits nothing, so
\* it is not held up for an hour.
PassHour ==
    /\ hour < LastHour
    /\ \A r \in Requests : at[r] \in {None, hour}
    /\ hour' = hour + 1
    /\ UNCHANGED <<mode, faults, countVars>>

-----------------------------------------------------------------------------
(* flush and write_pending, by the periodic task and at the end of main.   *)

FlushFrame == UNCHANGED <<mode, hour, at, counted, recorded, lost>>

\* Mutant: main flushes without waiting for the requests.
DueAtOnce(f) == IF f = "final" THEN mode = "stopping" ELSE mode # "stopped" /\ pending # Zero

\* The periodic task runs until the process ends; main flushes when the server
\* has answered its requests.
Due(f) ==
    IF f = "final" THEN mode = "stopping" /\ \A r \in Requests : at[r] = None
    ELSE mode # "stopped" /\ pending # Zero

\* A flush with nothing pending returns at once.
Take(f) ==
    /\ phase[f] = "idle" /\ Due(f)
    /\ phase' = [phase EXCEPT ![f] = IF pending = Zero THEN "ended" ELSE "writing"]
    /\ taken' = [taken EXCEPT ![f] = pending]
    /\ pending' = Zero
    /\ FlushFrame /\ UNCHANGED <<faults, buckets, rows, doubled, doubledNow>>

\* Mutant: the upsert replaces the hour's counters.
RowsReplaced(f) == [h \in Hours |-> IF taken[f][h] > 0 THEN taken[f][h] ELSE rows[h]]

\* The upsert of the taken hours.
RowsWith(f) == Sum(rows, taken[f])

Write(f) ==
    /\ phase[f] = "writing"
    /\ phase' = [phase EXCEPT ![f] = "deleting"]
    /\ rows' = RowsWith(f)
    /\ FlushFrame /\ UNCHANGED <<faults, buckets, pending, taken, doubled, doubledNow>>

Forget(f) == [taken EXCEPT ![f] = Zero]

\* Mutant: an error ends the task.
AfterDies(f) == "ended"

After(f) == IF f = "final" THEN "ended" ELSE "idle"

\* The deletion of old rows, a statement of its own.
Delete(f) ==
    /\ phase[f] = "deleting"
    /\ phase' = [phase EXCEPT ![f] = IF f = "final" THEN "ended" ELSE "idle"]
    /\ taken' = Forget(f)
    /\ rows' = Retained(rows, hour)
    /\ FlushFrame /\ UNCHANGED <<faults, buckets, pending, doubled, doubledNow>>

\* Mutant: what could not be written is given up.
RestoredNot(f) == pending

Restored(f) == Sum(pending, taken[f])

\* An error puts everything taken back, also when only the deletion failed
\* and the rows have been committed.
Fail(f) ==
    /\ Fault
    /\ phase[f] \in {"writing", "deleting"}
    /\ phase' = [phase EXCEPT ![f] = After(f)]
    /\ pending' = Restored(f)
    /\ taken' = Forget(f)
    /\ IF phase[f] = "deleting"
       THEN doubled' = Sum(doubled, taken[f]) /\ doubledNow' = Sum(doubledNow, taken[f])
       ELSE UNCHANGED <<doubled, doubledNow>>
    /\ FlushFrame /\ UNCHANGED <<buckets, rows>>

-----------------------------------------------------------------------------
(* main: graceful shutdown, the end of the process, the next start.        *)

Stop ==
    /\ mode = "serving" /\ mode' = "stopping"
    /\ UNCHANGED <<hour, faults, countVars>>

Writing(f) == IF phase[f] = "writing" THEN taken[f] ELSE Zero
Unsaved == Sum(pending, Sum(Writing("periodic"), Writing("final")))

\* Whatever is in memory is gone, a periodic flush under way included.
End ==
    /\ mode' = "stopped"
    /\ lost' = Sum(lost, Unsaved)
    /\ at' = [r \in Requests |-> None]
    /\ buckets' = Zero /\ pending' = Zero
    /\ phase' = [f \in Flushers |-> "idle"] /\ taken' = [f \in Flushers |-> Zero]
    /\ UNCHANGED <<hour, counted, rows, recorded, doubled, doubledNow>>

\* main returns after its flush.
Return == mode = "stopping" /\ phase["final"] = "ended" /\ End /\ UNCHANGED faults

\* The process is killed, or main returns early because the catalog could
\* not be flushed.
Crash == mode # "stopped" /\ End /\ Fault

\* open reads the retained hours back.
Start ==
    /\ mode = "stopped" /\ mode' = "serving"
    /\ buckets' = Retained(rows, hour)
    /\ doubledNow' = Zero
    /\ UNCHANGED <<hour, faults, at, counted, pending, phase, taken, rows, recorded, lost, doubled>>

-----------------------------------------------------------------------------
FlushStep(f) == Take(f) \/ Write(f) \/ Delete(f)

Next ==
    \/ \E r \in Requests : ReadHour(r) \/ Count(r)
    \/ PassHour
    \/ \E f \in Flushers : FlushStep(f) \/ Fail(f)
    \/ Stop \/ Return \/ Crash \/ Start

Spec == Init /\ [][Next]_vars

\* Both flushes and the requests that have begun go on; failures are bounded.
Fairness ==
    /\ \A f \in Flushers : WF_vars(FlushStep(f))
    /\ \A r \in Requests : WF_vars(Count(r))
    /\ WF_vars(Return)

FairSpec == Spec /\ Fairness

-----------------------------------------------------------------------------
Phases == {"idle", "writing", "deleting", "ended"}

TypeOK ==
    /\ mode \in {"serving", "stopping", "stopped"} /\ hour \in Hours /\ faults \in 0..MaxFaults
    /\ at \in [Requests -> Hours \cup {None}] /\ counted \subseteq Requests
    /\ buckets \in [Hours -> Nat] /\ pending \in [Hours -> Nat] /\ rows \in [Hours -> Nat]
    /\ phase \in [Flushers -> Phases] /\ taken \in [Flushers -> [Hours -> Nat]]
    /\ \A f \in Flushers : phase[f] \in {"idle", "ended"} => taken[f] = Zero
    /\ recorded \in [Hours -> Nat] /\ lost \in [Hours -> Nat]
    /\ doubled \in [Hours -> Nat] /\ doubledNow \in [Hours -> Nat]

Current(h) == h >= hour - RetainHours

\* However flushes overlap, fail and are cut short, each request of a retained
\* hour is in the rows or still to be written, once, except those that a stop
\* has cut off and those whose rows were committed before the flush failed.
CountsKept ==
    \A h \in Hours : Current(h) => rows[h] + Unsaved[h] + lost[h] = recorded[h] + doubled[h]

\* What the dashboard asks for.
Recent(hours) ==
    [h \in {x \in Hours : hour - hours < x /\ x <= hour} |-> buckets[h]]

\* The dashboard shows, from memory, what the rows will say after a restart:
\* the two differ only by what this process has written twice.
ShownIsStored ==
    mode # "stopped" =>
        LET shown == Recent(RetainHours + 1)
        IN \A h \in DOMAIN shown : rows[h] + Unsaved[h] = shown[h] + doubledNow[h]

\* When main returns without a failure, every request of a retained hour is in
\* the rows but for those of graceful returns like this one, which lose what a
\* periodic flush has taken and not yet committed, and nothing more.
GracefulStopSaves ==
    [][mode = "stopping" /\ mode' = "stopped" /\ faults' = 0 =>
        \A h \in Hours : Current(h) =>
            /\ rows'[h] + lost'[h] = recorded[h]
            /\ lost'[h] = lost[h] + Writing("periodic")[h]]_vars

\* A counted request does not stay in memory only: it is written, or the
\* process has ended.
CountsLeaveMemory == \A h \in Hours : Unsaved[h] > 0 ~> Unsaved[h] = 0
==============================================================================
