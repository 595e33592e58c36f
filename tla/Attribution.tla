---------------------------- MODULE Attribution ----------------------------
(***************************************************************************)
(* What Mira's conversations say about one calendar booking: the signals   *)
(* of a lead, whether they make it the probable source of the booking, and *)
(* the prices its conversation shows (booking_reconciliation_service.py,   *)
(* _score to detect_prices).  Zero stands for a price that is NULL.        *)
(***************************************************************************)
EXTENDS Integers, Sequences, FiniteSets, FiniteSetsExt

CONSTANT NoLead

Identity == {"full", "last4", "none"}  \* what the booking knows of the phone
OfferType == {"initial_quote", "counter_offer", "accepted_offer"}

\* A PriceEvent of what was said in the lead's calls about the booking's
\* property, in the order of created_at; listed is the asking price beside a
\* negotiation.
Offer == [type: OfferType, price: Nat \ {0}, listed: Nat,
          dates: {"exact", "length", "other"}]

\* How a lead looks from a booking.
Fact == [here: BOOLEAN,   \* property discussed, or a call about it
         dates: {"exact", "overlapping", "apart"},
         phone: {"same", "other", "unknown"},
         temperature: {"cold", "warm", "hot", "very_hot"},
         talk: Seq(Offer),
         finals: SUBSET {"exact", "other"}, \* dates of its final_price events
         at: Nat,         \* latest activity
         within: BOOLEAN] \* inside ATTRIBUTION_WINDOW

Negotiation == {"counter_offer", "accepted_offer"}
Says(f, types) == \E i \in DOMAIN f.talk : f.talk[i].type \in types
Priced(f) == f.talk # << >> \/ f.finals # {}
\* Places in the talk: the offers for such dates, and those of some types.
Quoted(f, dates) == {i \in DOMAIN f.talk : f.talk[i].dates = dates}
Among(f, offers, types) == {i \in offers : f.talk[i].type \in types}

IdentitySignals == {"phone_match", "phone_last4_match"}
Signal == IdentitySignals \cup
    {"same_property", "exact_dates", "overlapping_dates", "phone_mismatch",
     "hot_intent", "booking_intent", "pricing_discussed", "negotiation"}

Score(f, identity) ==
    LET exact == f.dates = "exact" \/ Quoted(f, "exact") # {} \/ "exact" \in f.finals
        compared == identity # "none" /\ f.phone # "unknown"
        holds == [same_property |-> f.here \/ Priced(f),
                  exact_dates |-> exact,
                  overlapping_dates |-> ~exact /\ f.dates = "overlapping",
                  phone_match |->
                      compared /\ identity = "full" /\ f.phone = "same",
                  phone_last4_match |->
                      compared /\ identity = "last4" /\ f.phone = "same",
                  phone_mismatch |-> compared /\ f.phone = "other",
                  hot_intent |-> f.temperature \in {"hot", "very_hot"},
                  booking_intent |-> f.temperature = "very_hot",
                  pricing_discussed |-> Priced(f),
                  negotiation |-> Says(f, Negotiation)]
    IN  {s \in Signal : holds[s]}

Strength(signals) == Cardinality(signals \ {"overlapping_dates"})

IsProbable(signals) ==
    LET identified == signals \cap IdentitySignals # {}
    IN  /\ "phone_mismatch" \notin signals
        /\ "same_property" \in signals
        /\ "exact_dates" \in signals \/ identified
        /\ signals \cap {"hot_intent", "pricing_discussed"} # {} \/ identified

IsRelated(signals) ==
    /\ "phone_mismatch" \notin signals
    /\ signals \cap {"same_property", "exact_dates", "overlapping_dates"} # {}

Candidates(facts) == {l \in DOMAIN facts : facts[l].within}

\* max(..., key = (strength, latest_activity)): of equals, the first the
\* unordered query returns.
Best(S, facts, identity) ==
    LET strength(l) == Strength(Score(facts[l], identity))
    IN  {l \in S : \A k \in S :
            \/ strength(k) < strength(l)
            \/ strength(k) = strength(l) /\ facts[k].at <= facts[l].at}

\* The verdicts find_attribution_candidate can give.
Verdicts(facts, identity) ==
    LET signals(l) == Score(facts[l], identity)
        probable == {l \in Candidates(facts) : IsProbable(signals(l))}
        related == {l \in Candidates(facts) : IsRelated(signals(l))}
    IN  IF probable # {}
        THEN {[status |-> "probable", lead |-> l] :
                 l \in Best(probable, facts, identity)}
        ELSE {[status |-> IF related # {} THEN "unknown" ELSE "not_attributed",
               lead |-> NoLead]}

\* A final price for the exact dates stands before the offers by length too,
\* though it is neither a quote nor a bid.
Relevant(f) ==
    IF Quoted(f, "exact") # {} \/ "exact" \in f.finals
    THEN Quoted(f, "exact") ELSE Quoted(f, "length")

InitialPrice(f) ==
    LET quotes == Among(f, Relevant(f), {"initial_quote"})
        bids == Among(f, Relevant(f), Negotiation)
    IN  IF quotes # {} THEN f.talk[Min(quotes)].price
        ELSE IF bids # {} THEN f.talk[Min(bids)].listed ELSE 0

NegotiatedPrice(f) ==
    LET bids == Among(f, Relevant(f), Negotiation)
    IN  IF bids # {} THEN f.talk[Max(bids)].price ELSE 0

ConfidentWithAnyone(f, signals) ==
    LET bids == Among(f, Quoted(f, "exact"), Negotiation)
        last == f.talk[Max(bids)]
    IN  IF bids # {} /\ last.type = "accepted_offer" THEN last.price ELSE 0

\* The one price Mira may record without asking the host.
ConfidentPrice(f, signals) ==
    LET bids == Among(f, Quoted(f, "exact"), Negotiation)
        last == f.talk[Max(bids)]
    IN  IF /\ bids # {}
           /\ last.type = "accepted_offer"
           /\ signals \cap IdentitySignals # {}
        THEN last.price ELSE 0
=============================================================================
