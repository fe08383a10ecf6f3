---------------------------- MODULE SchedulerProofs ----------------------------
(***************************************************************************)
(* The scheduler does nothing to the database but what Cleanup allows, so  *)
(* that all that is proved of Cleanup holds of it; its own types; and when *)
(* it runs, for any number of manual runs, changes of the settings and     *)
(* failures of the table of runs.                                          *)
(***************************************************************************)
EXTENDS Scheduler, CleanupProofs

\* A tick, a midnight or a change of the settings is a step of Cleanup or none.
LEMMA StepMaps == [SchedulerNext]_schedulerVars => [Next]_vars
<1>1. Tick \/ BlindTick => Next
  BY SchedulerAssumption DEF Tick, BlindTick, Next
<1>2. Record \/ FailToRecord \/ HourComes \/ HourPasses \/ NewDay \/ UpdateSettings \/ ManualRun
        => UNCHANGED vars
  BY DEF Record, FailToRecord, HourComes, HourPasses, NewDay, UpdateSettings, ManualRun
<1>3. CleanupStep => Next
  BY SchedulerAssumption DEF CleanupStep, Next
<1>4. StartAgain => Next
  BY DEF StartAgain, Next
<1> QED
  BY <1>1, <1>2, <1>3, <1>4 DEF SchedulerNext, schedulerVars

\* main.rs:225-260: the scheduler implements Cleanup, one of whose runs is its
\* own; what no run may do, the scheduler's does not do either.
THEOREM SchedulerRunsCleanup == SchedulerSpec => Spec
<1>1. SchedulerInit => Init
  BY DEF SchedulerInit
<1> QED
  BY <1>1, StepMaps, PTL DEF SchedulerSpec, Spec

\* The day's own variables, and that a run that is to be recorded has begun.
DayInv ==
    /\ phase \in {"before", "at", "after"} /\ began \in {None, "today", "earlier"}
    /\ enabled \in BOOLEAN /\ lastIsToday \in BOOLEAN
    /\ begunToday \in BOOLEAN /\ ranToday \in BOOLEAN /\ manualToday \in BOOLEAN
    /\ changes \in 0..MaxChanges
    /\ began = None => RunAt(Scheduled, "idle")

\* What is recorded of the day has happened on it: a run of today has been
\* recorded today, one of yesterday still to be recorded leaves no room for
\* another, and a day with a record has had a run begin on it or a manual one end.
RunRecorded ==
    /\ ranToday => lastIsToday
    /\ began = "earlier" => ~ranToday
    /\ began = "today" => begunToday
    /\ lastIsToday => begunToday \/ manualToday

\* While no run is to be recorded, the scheduler's run of the cleanup stays idle.
LEMMA StaysIdle ==
    ASSUME IInv, CleanupStep \/ StartAgain, RunAt(Scheduled, "idle")
    PROVE RunAt(Scheduled, "idle")'
<1> USE SchedulerAssumption
<1>1. ASSUME NEW u \in Users,
             \/ \E l \in Layers : Put(u, l)
             \/ Get(u) \/ UseStep(u) \/ FailToMark(u) \/ Leave(u)
      PROVE UNCHANGED run
  BY <1>1 DEF Put, Get, UseStep, Skip, Touch, Mark, Report, FailToMark, Leave, UseFrame
<1>2. CachedGet \/ Expire \/ Age => UNCHANGED run
  BY DEF CachedGet, Expire, Age, UseFrame
<1>3. ASSUME NEW n \in Names, Protect(n) PROVE run'[Scheduled].pc = run[Scheduled].pc
  <2>1. run \in [Runs -> RunType(marks)] /\ run' = Unspare(run, {n})
    BY <1>3 DEF Protect, IInv, TypeOK, RunType
  <2> QED
    BY <2>1, UnspareKeeps
<1>4. ~RunStep(Scheduled) /\ ~FailToDrop(Scheduled) /\ ~Abort(Scheduled)
  BY DEF RunStep, List, ReadDatabase, ReadLayers, DropLayer, RemoveLayer, DropDatabase, Forget,
     RemoveDatabase, FailToDrop, Abort, RunAt
<1>5. Restart => RunAt(Scheduled, "idle")'
  BY DEF Restart, RunAt, NoRun
<1> QED
  BY <1>1, <1>2, <1>3, <1>4, <1>5 DEF CleanupStep, StartAgain, RunAt

\* It holds at the start.
LEMMA DayInit == SchedulerInit => DayInv /\ RunRecorded
<1> SUFFICES ASSUME SchedulerInit PROVE DayInv /\ RunRecorded
  OBVIOUS
<1>1. /\ enabled = TRUE /\ lastIsToday = FALSE
      /\ begunToday = FALSE /\ ranToday = FALSE /\ manualToday = FALSE
  BY DEF SchedulerInit
<1>2. phase = "before" /\ began = None /\ changes = 0 /\ RunAt(Scheduled, "idle")
  BY SchedulerAssumption DEF SchedulerInit, Init, RunAt, NoRun
<1>3. /\ enabled \in BOOLEAN /\ lastIsToday \in BOOLEAN
      /\ begunToday \in BOOLEAN /\ ranToday \in BOOLEAN /\ manualToday \in BOOLEAN
  BY <1>1
<1>4. phase \in {"before", "at", "after"} /\ changes \in 0..MaxChanges
  BY <1>2, SchedulerAssumption
<1>5. RunRecorded
  BY <1>1, <1>2, SchedulerAssumption DEF RunRecorded
<1> QED
  BY <1>2, <1>3, <1>4, <1>5 DEF DayInv

\* Every step of the scheduler keeps the types of the day.
LEMMA DayNext == IInv /\ DayInv /\ [SchedulerNext]_schedulerVars => DayInv'
<1> SUFFICES ASSUME IInv, DayInv, [SchedulerNext]_schedulerVars PROVE DayInv'
  OBVIOUS
<1> USE SchedulerAssumption
<1>1. CASE Tick
  <2>1. began' = "today" /\ begunToday' = TRUE
        /\ UNCHANGED <<phase, enabled, lastIsToday, changes, ranToday, manualToday>>
    BY <1>1 DEF Tick
  <2> QED
    BY <2>1 DEF DayInv
<1>2. CASE BlindTick
  <2>1. /\ began' = "today" /\ begunToday' = TRUE /\ changes' \in 0..MaxChanges
        /\ UNCHANGED <<phase, enabled, lastIsToday, ranToday, manualToday>>
    BY <1>2 DEF BlindTick, Change, DayInv
  <2> QED
    BY <2>1 DEF DayInv
<1>3. CASE Record
  <2>1. /\ lastIsToday' \in BOOLEAN /\ ranToday' \in BOOLEAN
    BY <1>3 DEF Record, Stamped
  <2>2. /\ began' = None /\ RunAt(Scheduled, "idle")'
        /\ UNCHANGED <<phase, enabled, changes, begunToday, manualToday>>
    BY <1>3 DEF Record, Finished, vars, RunAt
  <2> QED
    BY <2>1, <2>2 DEF DayInv
<1>4. CASE FailToRecord
  <2>1. /\ began' = None /\ changes' \in 0..MaxChanges /\ RunAt(Scheduled, "idle")'
        /\ UNCHANGED <<phase, enabled, lastIsToday, begunToday, ranToday, manualToday>>
    BY <1>4 DEF FailToRecord, Finished, Change, vars, RunAt, DayInv
  <2> QED
    BY <2>1 DEF DayInv
<1>5. CASE HourComes \/ HourPasses
  <2>1. /\ phase' \in {"at", "after"} /\ UNCHANGED <<enabled, lastIsToday, began, changes, begunToday, ranToday, manualToday>>
        /\ RunAt(Scheduled, "idle")' = RunAt(Scheduled, "idle")
    BY <1>5 DEF HourComes, HourPasses, vars, RunAt
  <2> QED
    BY <2>1 DEF DayInv
<1>6. CASE NewDay
  <2>1. /\ lastIsToday' = FALSE /\ begunToday' = FALSE /\ ranToday' = FALSE /\ manualToday' = FALSE
        /\ phase' \in {"before", "at"} /\ UNCHANGED <<enabled, changes>>
        /\ began' = IF began = None THEN None ELSE "earlier"
        /\ RunAt(Scheduled, "idle")' = RunAt(Scheduled, "idle")
    BY <1>6 DEF NewDay, vars, RunAt
  <2> QED
    BY <2>1 DEF DayInv
<1>7. CASE UpdateSettings
  <2>1. /\ enabled' \in BOOLEAN /\ UNCHANGED <<lastIsToday, began, begunToday, ranToday, manualToday>>
        /\ RunAt(Scheduled, "idle")' = RunAt(Scheduled, "idle")
    BY <1>7 DEF UpdateSettings, vars, RunAt
  <2>2. phase' \in {"before", "at", "after"} /\ changes' \in 0..MaxChanges
    BY <1>7 DEF UpdateSettings, Change, DayInv
  <2> QED
    BY <2>1, <2>2 DEF DayInv
<1>8. CASE ManualRun
  <2>1. /\ lastIsToday' = TRUE /\ manualToday' = TRUE /\ UNCHANGED <<phase, enabled, began, begunToday, ranToday>>
        /\ RunAt(Scheduled, "idle")' = RunAt(Scheduled, "idle")
    BY <1>8 DEF ManualRun, vars, RunAt
  <2>2. changes' \in 0..MaxChanges
    BY <1>8 DEF ManualRun, Change, DayInv
  <2> QED
    BY <2>1, <2>2 DEF DayInv
<1>9. CASE CleanupStep
  <2>1. UNCHANGED <<phase, enabled, lastIsToday, began, changes, begunToday, ranToday, manualToday>>
    BY <1>9 DEF CleanupStep, dayVars
  <2> QED
    BY <1>9, <2>1, StaysIdle DEF DayInv
<1>10. CASE StartAgain
  <2>1. /\ began' = None /\ RunAt(Scheduled, "idle")'
        /\ UNCHANGED <<phase, enabled, lastIsToday, changes, begunToday, ranToday, manualToday>>
    BY <1>10 DEF StartAgain, Restart, RunAt, NoRun
  <2> QED
    BY <2>1 DEF DayInv
<1>11. CASE UNCHANGED schedulerVars
  BY <1>11 DEF schedulerVars, vars, dayVars, DayInv, RunAt
<1> QED
  BY <1>1, <1>2, <1>3, <1>4, <1>5, <1>6, <1>7, <1>8, <1>9, <1>10, <1>11 DEF SchedulerNext

\* The variables of Scheduler keep their types, those of Cleanup among them.
THEOREM SchedulerTypeCorrect == SchedulerSpec => []SchedulerTypeOK
<1>1. IInv /\ DayInv => SchedulerTypeOK
  BY DEF IInv, DayInv, SchedulerTypeOK
<1>2. SchedulerInit => Init
  BY DEF SchedulerInit
<1> QED
  BY <1>1, <1>2, InitInv, NextInv, StepMaps, DayInit, DayNext, PTL DEF SchedulerSpec

\* Every step keeps what is recorded of the day.
LEMMA RecordedNext == DayInv /\ RunRecorded /\ [SchedulerNext]_schedulerVars => RunRecorded'
<1> SUFFICES ASSUME DayInv, RunRecorded, [SchedulerNext]_schedulerVars PROVE RunRecorded'
  OBVIOUS
<1> USE SchedulerAssumption
<1>1. CASE Tick \/ BlindTick
  BY <1>1 DEF Tick, BlindTick, RunRecorded
<1>2. CASE Record
  <2>1. began \in {"today", "earlier"}
    BY <1>2 DEF Record, Finished, DayInv
  <2>2. /\ lastIsToday' = (began = "today") /\ ranToday' = (ranToday \/ began = "today")
        /\ began' = None /\ UNCHANGED <<begunToday, manualToday>>
    BY <1>2 DEF Record, Stamped
  <2> QED
    BY <2>1, <2>2 DEF RunRecorded
<1>3. CASE FailToRecord \/ HourComes \/ HourPasses \/ UpdateSettings \/ CleanupStep \/ StartAgain
  BY <1>3
  DEF FailToRecord, HourComes, HourPasses, UpdateSettings, CleanupStep, StartAgain, dayVars,
      RunRecorded
<1>4. CASE NewDay
  BY <1>4 DEF NewDay, RunRecorded
<1>5. CASE ManualRun
  BY <1>5 DEF ManualRun, RunRecorded
<1>6. CASE UNCHANGED schedulerVars
  BY <1>6 DEF schedulerVars, dayVars, RunRecorded
<1> QED
  BY <1>1, <1>2, <1>3, <1>4, <1>5, <1>6 DEF SchedulerNext

\* Both hold of every behaviour of the scheduler, with the invariant of Cleanup.
LEMMA Recorded == SchedulerSpec => [](IInv /\ DayInv /\ RunRecorded)
<1>1. SchedulerInit => Init
  BY DEF SchedulerInit
<1> QED
  BY <1>1, InitInv, NextInv, StepMaps, DayInit, DayNext, RecordedNext, PTL DEF SchedulerSpec

\* main.rs:225-245: the hour of an enabled cleanup goes by without a run begun on
\* the day only for a manual run of the day or one of yesterday's not yet recorded.
THEOREM NoDaySkipped == SchedulerSpec => DayServed
<1>1. IInv /\ DayInv /\ RunRecorded /\ [SchedulerNext]_schedulerVars =>
        [phase = "at" /\ phase' = "after" /\ changes' = changes =>
            ~enabled \/ begunToday \/ manualToday \/ began = "earlier"]_schedulerVars
  <2> SUFFICES ASSUME DayInv, RunRecorded, SchedulerNext,
                      phase = "at", phase' = "after", changes' = changes
               PROVE ~enabled \/ begunToday \/ manualToday \/ began = "earlier"
    OBVIOUS
  <2> USE SchedulerAssumption
  <2>1. CASE HourPasses
    <3>1. ~enabled \/ lastIsToday \/ began # None
      BY <2>1 DEF HourPasses, Due
    <3> QED
      BY <3>1 DEF RunRecorded, DayInv
  <2>2. CASE Tick \/ BlindTick \/ Record \/ FailToRecord \/ ManualRun
    BY <2>2 DEF Tick, BlindTick, Record, FailToRecord, ManualRun
  <2>3. CASE HourComes \/ NewDay \/ CleanupStep \/ StartAgain
    BY <2>3 DEF HourComes, NewDay, CleanupStep, dayVars, StartAgain
  <2>4. CASE UpdateSettings
    BY <2>4 DEF UpdateSettings, Change, DayInv
  <2> QED
    BY <2>1, <2>2, <2>3, <2>4 DEF SchedulerNext
<1> QED
  BY <1>1, Recorded, PTL DEF SchedulerSpec, DayServed

\* main.rs:225-245: no second run on a day whose run has been recorded.
THEOREM RunsOncePerDay == SchedulerSpec => OncePerDay
<1>1. IInv /\ DayInv /\ RunRecorded /\ [SchedulerNext]_schedulerVars =>
        [began = None /\ began' = "today" => ~ranToday \/ changes' > changes]_schedulerVars
  <2> SUFFICES ASSUME DayInv, RunRecorded, SchedulerNext, began = None, began' = "today"
               PROVE ~ranToday \/ changes' > changes
    OBVIOUS
  <2> USE SchedulerAssumption
  <2>1. CASE Tick
    BY <2>1 DEF Tick, Due, RunRecorded
  <2>2. CASE BlindTick
    BY <2>2 DEF BlindTick, Change, DayInv
  <2>3. CASE Record \/ FailToRecord \/ NewDay \/ StartAgain
    BY <2>3 DEF Record, FailToRecord, NewDay, StartAgain
  <2>4. CASE HourComes \/ HourPasses \/ UpdateSettings \/ ManualRun \/ CleanupStep
    BY <2>4 DEF HourComes, HourPasses, UpdateSettings, ManualRun, CleanupStep, dayVars
  <2> QED
    BY <2>1, <2>2, <2>3, <2>4 DEF SchedulerNext
<1> QED
  BY <1>1, Recorded, PTL DEF SchedulerSpec, OncePerDay
==============================================================================
