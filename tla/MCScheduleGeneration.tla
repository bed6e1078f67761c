------------------------- MODULE MCScheduleGeneration --------------------------
(***************************************************************************)
(* The instance of ScheduleGeneration that TLC checks.                     *)
(***************************************************************************)
EXTENDS ScheduleGeneration

\* Nothing passed over; a first week and two in a row later on.
MCSkipSets == {{}, {0, 3, 4}}
=============================================================================
