---------------------------- MODULE MCNegotiation ---------------------------
(***************************************************************************)
(* Negotiation for TLC: a host-wide ladder of two stages, a concession for *)
(* one property above the host's cap and a longer-stay discount there.     *)
(***************************************************************************)
EXTENDS Negotiation, TLC

CONSTANTS a, b, d1, d2, t1, t2, request, special

SomeNights == [d \in Dated |-> IF d = d1 THEN 3 ELSE 2]
SomeTexts ==
    (request :> [type |-> "discount_guest_requests", ladder |-> <<5, 10>>,
                 flat |-> NoPercent, at |-> {}, nights |-> 0, weekend |-> 0]) @@
    (special :> [type |-> "custom", ladder |-> <<>>, flat |-> 20,
                 at |-> {a}, nights |-> 0, weekend |-> 0])
SomeTable == {[type |-> "length_of_stay", ladder |-> <<>>, flat |-> 15,
               at |-> {a}, nights |-> 3, weekend |-> 0]}
SomePrices == [ps \in Prop \X Stay |-> IF ps = <<b, 2>> THEN {0} ELSE {100}]
Turns == Permutations(Tool)
=============================================================================
