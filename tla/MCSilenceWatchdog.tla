-------------------------- MODULE MCSilenceWatchdog --------------------------
(***************************************************************************)
(* SilenceWatchdog for TLC.  The production timeout of nine seconds is two *)
(* or three ticks; MaxPrompts is the production value.                     *)
(***************************************************************************)
EXTENDS SilenceWatchdog

CONSTANTS t1, t2, t3, q1
=============================================================================
