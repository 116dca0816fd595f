----------------------------- MODULE MCJobLease -----------------------------
(* Small instances of JobLease.  Time units are ticks of a third of a lease  *)
(* or coarser; jobs, trips and processes are interchangeable.                *)
EXTENDS JobLease, TLC

Symmetry == Permutations(Job) \cup Permutations(Trip) \cup Permutations(Instance)

=============================================================================
