--------------------------- MODULE MCTaskSchedule ---------------------------
(* TaskSchedule for TLC.                                                   *)
EXTENDS TaskSchedule

=============================================================================
