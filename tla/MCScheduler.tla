----------------------------- MODULE MCScheduler -----------------------------
(* The scheduler around the cleanup of a database with one layer.           *)
EXTENDS Scheduler
==============================================================================
