---------------------------- MODULE MCJobLifecycle ----------------------------
(* Instances of the job for TLC. *)
EXTENDS JobInvariant, TLC

CallersAreAlike == Permutations(Procs)
=============================================================================
