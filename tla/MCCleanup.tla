------------------------------ MODULE MCCleanup ------------------------------
(* The cleanup of one database, and the symmetry of its constants.          *)
EXTENDS Cleanup, TLC

Symmetric == Permutations(Layers) \cup Permutations(Users) \cup Permutations(Runs)

\* Bound: behaviours with a failure are followed as long as no more than one
\* name is protected.
FewMarksAfterFault == faults = 0 \/ Cardinality(marks) <= 1
==============================================================================
