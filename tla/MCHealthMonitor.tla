--------------------------- MODULE MCHealthMonitor --------------------------
(***************************************************************************)
(* Health monitoring for TLC.                                              *)
(***************************************************************************)
EXTENDS HealthMonitor
=============================================================================
