--------------------------- MODULE MCCallLifecycle ---------------------------
(***************************************************************************)
(* CallLifecycle for TLC: two taps of the host and one request of the      *)
(* guest compete for the handoff.                                          *)
(***************************************************************************)
EXTENDS CallLifecycle

CONSTANTS tap1, tap2, guest
=============================================================================
