-------------------------- MODULE MCBookingLedger --------------------------
(***************************************************************************)
(* BookingLedger for TLC.  A lead either negotiated for as many nights, or *)
(* had an offer accepted for the booking's exact dates and calls from the  *)
(* number that the booking shows; the platform books, moves and withdraws. *)
(***************************************************************************)
EXTENDS BookingLedger

CONSTANTS u1, m1, p1, lead1, cron1, button1, h1

OnePlace == [b \in Booking |-> p1]

Quote == [type |-> "initial_quote", price |-> 3, listed |-> 0, dates |-> "exact"]
Bid == [type |-> "counter_offer", price |-> 2, listed |-> 3, dates |-> "length"]
Deal == [type |-> "accepted_offer", price |-> 1, listed |-> 3, dates |-> "exact"]
Hot == [here |-> FALSE, dates |-> "exact", phone |-> "unknown",
        temperature |-> "hot", talk |-> <<Bid>>, finals |-> {}, at |-> 1, within |-> TRUE]
Closed == [Hot EXCEPT !.phone = "same", !.talk = <<Quote, Deal>>]
SomeFacts == {Hot, Closed}

Stay == [dates |-> 1, last4 |-> TRUE, summary |-> "Reserved"]
Moved == [dates |-> 2, last4 |-> TRUE, summary |-> "Reserved"]
SomeEvents == {Stay, Moved}
=============================================================================
