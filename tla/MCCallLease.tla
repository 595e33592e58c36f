----------------------------- MODULE MCCallLease -----------------------------
(***************************************************************************)
(* CallLease for TLC.  A tick is 5 seconds: TTL 45 s = 9 ticks and renewal *)
(* every 20 s = 4 ticks.                                                   *)
(***************************************************************************)
EXTENDS CallLease, TLC

CONSTANTS c1, c2, c3

Symmetry == Permutations(Call)
=============================================================================
