------------------------- MODULE MCScheduledBackups -------------------------
(***************************************************************************)
(* Small instances of ScheduledBackups for TLC.                             *)
(***************************************************************************)
EXTENDS ScheduledBackups, TLC

CONSTANTS s1, s2, m1, t1, g1

\* The schedules and the calls are interchangeable.
Symmetry == Permutations(Schedules) \cup Permutations(RunCalls)

=============================================================================
