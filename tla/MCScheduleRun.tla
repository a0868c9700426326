---------------------------- MODULE MCScheduleRun ----------------------------
(***************************************************************************)
(* Instances of ScheduleRun for TLC.                                       *)
(***************************************************************************)
EXTENDS ScheduleRun

\* A start sees the target state, the opposite state, and one it cannot handle;
\* or a cluster that was deleted.
MCObserved == {"available", "stopped", "incompatible-restore", "not-found"}

\* A resource that stays as it is and is asked to start again and again.
StuckObserved == {"stopped"}

\* A call takes no time, or one second.
MCCallSeconds == {0, 1}
OneSecond == {1}
NoSeconds == {0}
==============================================================================
