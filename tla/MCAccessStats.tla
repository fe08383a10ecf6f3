---------------------------- MODULE MCAccessStats ----------------------------
(***************************************************************************)
(* Model of AccessStats for TLC.                                           *)
(***************************************************************************)
EXTENDS AccessStats
==============================================================================
