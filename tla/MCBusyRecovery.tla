---------------------------- MODULE MCBusyRecovery ----------------------------
(***************************************************************************)
(* BusyRecovery for TLC.  A tick is one minute; the window of 30 minutes   *)
(* is scaled down, the stale-claim threshold of 2 minutes is not.          *)
(***************************************************************************)
EXTENDS BusyRecovery, TLC

CONSTANTS g1, g2, r1, r2, r3, s1, s2

Symmetry == Permutations(Run) \cup Permutations(Session)
=============================================================================
