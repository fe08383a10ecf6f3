------------------------------ MODULE Scheduler ------------------------------
(***************************************************************************)
(* The scheduler task of main.rs and the settings it reads, around the     *)
(* cleanup of one database: one run a day, in the hour of the day the      *)
(* settings name, unless the last recorded run is of the same day.  A run  *)
(* records the day it began, a manual one the day it ended.  Days are told *)
(* apart as today and earlier.                                             *)
(***************************************************************************)
EXTENDS Cleanup

CONSTANTS
    Scheduled,      \* the scheduler's run
    MaxChanges      \* bound on manual runs, changes of the settings and failures of
                    \* the table of runs

ASSUME SchedulerAssumption ==
    Scheduled \in Runs /\ MaxChanges \in Nat /\ None \notin {"today", "earlier"}

VARIABLES
    phase,          \* of the day: before, at or after the hour of the cleanup
    enabled,        \* retention_days > 0
    lastIsToday,    \* the last row of cleanup_runs is of this day
    began,          \* the day on which the run that is to be recorded began
    changes,
    \* history: a scheduled run has begun today; one of today has been recorded;
    \* a manual run has ended today
    begunToday, ranToday, manualToday

dayVars == <<phase, enabled, lastIsToday, began, changes, begunToday, ranToday, manualToday>>
schedulerVars == <<vars, dayVars>>

SchedulerInit ==
    /\ Init
    /\ phase = "before" /\ enabled = TRUE /\ lastIsToday = FALSE /\ began = None
    /\ changes = 0 /\ begunToday = FALSE /\ ranToday = FALSE /\ manualToday = FALSE

\* Mutant: the last run is not looked at.
DueAnyDay == phase = "at" /\ enabled /\ began = None

Due == phase = "at" /\ enabled /\ ~lastIsToday /\ began = None

\* A tick of the minute that starts the run.
Tick ==
    /\ Due /\ Begin(Scheduled)
    /\ began' = "today" /\ begunToday' = TRUE
    /\ UNCHANGED <<phase, enabled, lastIsToday, changes, ranToday, manualToday>>

Change == changes < MaxChanges /\ changes' = changes + 1

\* last_cleanup fails: the scheduler takes it for a day without a run.
BlindTick ==
    /\ phase = "at" /\ enabled /\ lastIsToday /\ began = None
    /\ Change /\ Begin(Scheduled)
    /\ began' = "today" /\ begunToday' = TRUE
    /\ UNCHANGED <<phase, enabled, lastIsToday, ranToday, manualToday>>

\* The run has ended, well or with an error; nothing else can begin before it
\* has been recorded.
Finished == began # None /\ RunAt(Scheduled, "idle")

\* Mutant: the run is recorded with the day it ended.
StampedAtEnd == TRUE

Stamped == began = "today"

Record ==
    /\ Finished
    /\ lastIsToday' = Stamped
    /\ began' = None
    /\ ranToday' = (ranToday \/ began = "today")
    /\ UNCHANGED <<vars, phase, enabled, changes, begunToday, manualToday>>

\* The error is logged and the next minute finds the run undone.
FailToRecord ==
    /\ Finished /\ Change
    /\ began' = None
    /\ UNCHANGED <<vars, phase, enabled, lastIsToday, begunToday, ranToday, manualToday>>

-----------------------------------------------------------------------------
(* The day.                                                                *)

HourComes ==
    /\ phase = "before" /\ phase' = "at"
    /\ UNCHANGED <<vars, enabled, lastIsToday, began, changes, begunToday, ranToday, manualToday>>

\* The hour is longer than a minute: the scheduler has had its tick in it.
HourPasses ==
    /\ phase = "at" /\ ~Due /\ phase' = "after"
    /\ UNCHANGED <<vars, enabled, lastIsToday, began, changes, begunToday, ranToday, manualToday>>

\* Midnight; the hour of the cleanup may be the first one of the day.
NewDay ==
    /\ phase = "after" /\ phase' \in {"before", "at"}
    /\ lastIsToday' = FALSE
    /\ begunToday' = FALSE /\ ranToday' = FALSE /\ manualToday' = FALSE
    /\ began' = IF began = None THEN None ELSE "earlier"
    /\ UNCHANGED <<vars, enabled, changes>>

-----------------------------------------------------------------------------
(* Administrators.                                                         *)

\* update_cleanup_settings: the hour and whether there is a retention.
UpdateSettings ==
    /\ Change
    /\ phase' \in {"before", "at", "after"} /\ enabled' \in BOOLEAN
    /\ UNCHANGED <<vars, lastIsToday, began, begunToday, ranToday, manualToday>>

\* The end of a manual cleanup, recorded because it succeeded.  It has its own
\* number of days and may have left alone what the settings call idle; one
\* that removes something is another run of Cleanup.
ManualRun ==
    /\ Change
    /\ lastIsToday' = TRUE /\ manualToday' = TRUE
    /\ UNCHANGED <<vars, phase, enabled, began, begunToday, ranToday>>

-----------------------------------------------------------------------------
\* A restart ends the run that was to be recorded.
CleanupStep ==
    /\ \/ \E u \in Users :
            \/ \E l \in Layers : Put(u, l)
            \/ Get(u) \/ UseStep(u) \/ FailToMark(u) \/ Leave(u)
       \/ CachedGet
       \/ \E n \in Names : Protect(n)
       \/ Expire \/ Age
       \/ RunStep(Scheduled) \/ FailToDrop(Scheduled) \/ Abort(Scheduled)
    /\ UNCHANGED dayVars

StartAgain ==
    /\ Restart /\ began' = None
    /\ UNCHANGED <<phase, enabled, lastIsToday, changes, begunToday, ranToday, manualToday>>

SchedulerNext ==
    \/ Tick \/ BlindTick \/ Record \/ FailToRecord
    \/ HourComes \/ HourPasses \/ NewDay
    \/ UpdateSettings \/ ManualRun
    \/ CleanupStep \/ StartAgain

SchedulerSpec == SchedulerInit /\ [][SchedulerNext]_schedulerVars

\* Time passes, the scheduler ticks, and what has begun goes on; nobody has to
\* use the database, to protect it or to change the settings.
Fairness ==
    /\ WF_schedulerVars(HourComes) /\ WF_schedulerVars(HourPasses) /\ WF_schedulerVars(NewDay)
    /\ WF_schedulerVars(Tick) /\ WF_schedulerVars(Record)
    /\ WF_schedulerVars(RunStep(Scheduled) /\ UNCHANGED dayVars)

FairSpec == SchedulerSpec /\ Fairness

-----------------------------------------------------------------------------
SchedulerTypeOK ==
    /\ TypeOK
    /\ phase \in {"before", "at", "after"} /\ began \in {None, "today", "earlier"}
    /\ enabled \in BOOLEAN /\ lastIsToday \in BOOLEAN
    /\ begunToday \in BOOLEAN /\ ranToday \in BOOLEAN /\ manualToday \in BOOLEAN
    /\ changes \in 0..MaxChanges
    /\ began = None => RunAt(Scheduled, "idle")

\* Whatever the settings and the clock do, the scheduler begins no second run
\* on a day whose run has been recorded, failed ones included, unless it cannot
\* read the record.
OncePerDay ==
    [][began = None /\ began' = "today" => ~ranToday \/ changes' > changes]_schedulerVars

\* main.rs:238: the hour goes by without a run that has begun on the day only
\* where the cleanup is off, a manual run has ended on the day, or yesterday's
\* run is still under way or unrecorded.  One of yesterday's that is recorded
\* after midnight, before or in the hour, takes nothing from the day.
DayServed ==
    [][phase = "at" /\ phase' = "after" /\ changes' = changes =>
        ~enabled \/ begunToday \/ manualToday \/ began = "earlier"]_schedulerVars

\* README.md:211-212: a layer that may be reclaimed is, when nobody uses the
\* database: with the whole database, or alone where others are protected.
IdleReclaimed ==
    \A l \in Layers :
        marker = "old" /\ enabled /\ l \in dirs /\ l \in rows \ marks
            ~> marker # "old" \/ ~enabled \/ l \notin dirs \/ l \notin rows \/ l \in marks

==============================================================================
