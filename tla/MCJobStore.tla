------------------------------ MODULE MCJobStore ------------------------------
(* Instances of the job store for TLC. *)
EXTENDS JobStore, TLC

CallersAreAlike == Permutations(Procs)
=============================================================================
