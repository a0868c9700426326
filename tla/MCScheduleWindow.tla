---------------------------- MODULE MCScheduleWindow ----------------------------
(***************************************************************************)
(* The default schedules for TLC: 07:50 and 19:05, and gaps as they are or *)
(* an hour shorter, when the clocks change.  A weekend only adds to a gap. *)
(***************************************************************************)
EXTENDS ScheduleWindow

MCGapChanges == {0, -60}
===============================================================================
