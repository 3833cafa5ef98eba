---------------------------- MODULE MCJobJournal ----------------------------
(* Instances of JobJournal for model checking.                             *)
EXTENDS JobJournal, TLC

CONSTANTS a, b, p1, p2, k1

Symmetric == Permutations(Handles) \cup Permutations(Processes)
=============================================================================
