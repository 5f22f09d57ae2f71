------------------------- MODULE MCScheduleWatcher -------------------------
(* Small instances of ScheduleWatcher for TLC. *)
EXTENDS ScheduleWatcher, TLC

\* Ids have no order of their own: the table is read by due time.
RowSymmetry == Permutations(Row)
=============================================================================
