---------------------------- MODULE LineOwnership ----------------------------
(***************************************************************************)
(* What the lease promises, with no Redis, time or failures: a line has at *)
(* most one owner, an owner takes a line that is free, and each call is    *)
(* given the line at most once -- nothing that arrives late can give it    *)
(* back to a call that has lost it.                                        *)
(***************************************************************************)
CONSTANTS Call, NoCall

VARIABLES
    owner,  \* the call that owns the line, or NoCall
    fresh   \* the calls that may still be given the line

Init ==
    /\ owner = NoCall
    /\ fresh = Call

Take(c) ==
    /\ owner = NoCall
    /\ c \in fresh
    /\ owner' = c
    /\ fresh' = fresh \ {c}

\* The owner gives the line up or its time is over.
Drop ==
    /\ owner' = NoCall
    /\ fresh' = fresh

\* Calls that were turned away, or died before they asked, never ask again;
\* time may end the tenancy at the same moment.
Withdraw ==
    /\ owner' = owner
    /\ fresh' \subseteq fresh

Next ==
    \/ \E c \in Call : Take(c)
    \/ Drop
    \/ Withdraw

Spec == Init /\ [][Next]_<<owner, fresh>>
=============================================================================
