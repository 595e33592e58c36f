---------------------------- MODULE Negotiation ----------------------------
(***************************************************************************)
(* One call's talk about prices: the tools that read and write what the    *)
(* ConversationState knows of stay, quotes and offers (voice/tools.py,     *)
(* conversation_state.py), while the host edits the rules.  The agent may  *)
(* start several tools in one turn; each runs its wrapper up to the first  *)
(* await, waits for the database, and then answers; an interruption of the *)
(* guest cancels a tool that waits.  Lookups may fail: of the rules, of    *)
(* the host's policy and of the guest's profile the code then goes on with *)
(* defaults, a failure of any other ends the tool.                         *)
(***************************************************************************)
EXTENDS DiscountRules, SequencesExt

CONSTANTS
    Past,     \* the dated stays that are over
    Party,    \* numbers of guests
    Omitted,  \* {None} if a tool may be called without one, else {}
    Offer,    \* totals a guest may name
    Draft,    \* rules the host may come to have,
    Text,     \* what each of them says
    Approved, \* those in force when the call begins
    Table,    \* longer-stay discounts of the pricing_rules table
    BaseOf,   \* what the price lookups of a stay at a property can return
    Cap,      \* max_discount_percent of the host
    Known,    \* what the guest's profile says: "repeat", "new" or "no profile"
    Loyal,    \* whether the agent may take the guest for a returning one
    Tool,     \* tool calls of a turn that may wait at a time
    None,
    Live,     \* a tool that holds the list that the state still holds
    MaxTalk,  \* bound on the tools a call starts
    MaxEdits  \* bound on the host's edits

ASSUME TalkAssumption ==
    /\ Length \subseteq Nat \ {0}
    /\ NightsOf \in [Dated -> Nat \ {0}]
    /\ Past \subseteq Dated /\ Weekend \subseteq Dated
    /\ {Party, Offer} \subseteq SUBSET (Nat \ {0})
    /\ IsFiniteSet(Draft) /\ Text \in [Draft -> Rule]
    /\ Approved \subseteq Draft
    /\ Table \subseteq {r \in Rule : r.type = "length_of_stay"} /\ IsFiniteSet(Table)
    /\ BaseOf \in [Prop \X Stay -> SUBSET Nat]
    /\ Cap \in Percent
    /\ Loyal \subseteq BOOLEAN /\ Known \in {"repeat", "new", "no profile"}
    /\ {MaxTalk, MaxEdits} \subseteq Nat
    /\ None \notin Prop \cup Stay \cup Party /\ Omitted \subseteq {None}

VARIABLES
    status,   \* negotiation_rules.status of each draft the host has
    allowed,  \* users.negotiation_allowed
    slots,    \* what is known of the stay
    pitched,  \* the cards shown last that carried a longer-stay offer
    log,      \* negotiation_events; stay is the stay each offer was made for
    quoted,   \* quoted_price
    decision, \* last_negotiation_decision
    tool,     \* the tools that wait for the database
    basis,    \* history: what the last negotiated price was computed from
    talk, edits

vars == <<status, allowed, slots, pitched, log, quoted, decision, tool, basis,
          talk, edits>>
host == <<status, allowed, edits>>
said == <<quoted, decision, basis>>

\* Pending and rejected rules are alike: not in force.
Status == {"absent", "pending_validation", "approved"}
Event == [offer: Offer \cup {0}, property: Prop, stay: Stay]
Slots == [dates: Dated \cup {None},
          text: BOOLEAN, \* update_lead wrote the dates, as text
          nights: Length \cup {None}, party: Party \cup {None}]
Idle == [op |-> "idle"]
InForce(state) == {Text[r] : r \in {r \in Draft : state[r] = "approved"}}
Rules == InForce(status)
\* A lookup of the rules that fails finds none.
Lookups == {Rules, {}}
Offers(events) == [i \in DOMAIN events |-> events[i].offer]
Bookable(d) == d \in Dated \ Past
DatesOf(st) == IF st \in Dated THEN st ELSE None

NothingKnown == [dates |-> None, text |-> FALSE, nights |-> None, party |-> None]

Init ==
    /\ status = [r \in Draft |-> IF r \in Approved THEN "approved" ELSE "absent"]
    /\ allowed = TRUE
    /\ slots = NothingKnown
    /\ pitched = {}
    /\ log = << >>
    /\ quoted = None /\ decision = None /\ basis = None
    /\ tool = [t \in Tool |-> Idle]
    /\ talk = 0 /\ edits = 0

(***************************************************************************)
(* What the tools do to the ConversationState.                             *)
(***************************************************************************)
WithParty(s, n) == IF n = None THEN s ELSE [s EXCEPT !.party = n]
\* Exact dates replace a vague length of stay; past ones are not kept.
WithStay(s, st) ==
    IF Bookable(st) THEN [s EXCEPT !.dates = st, !.text = FALSE, !.nights = None]
    ELSE IF st \in Length THEN [s EXCEPT !.nights = st] ELSE s

ClearDecision == decision' = None /\ basis' = None
\* A plain quote makes the last negotiated price history.
KeepDecision == UNCHANGED <<decision, basis>>
SupersedeDecision == ClearDecision

\* A list that the state drops stays with the tools that hold it.
Detach(waiting) ==
    [t \in Tool |-> IF waiting[t].op = "negotiate" /\ waiting[t].prior = Live
                    THEN [waiting[t] EXCEPT !.prior = log] ELSE waiting[t]]

ContextChanged(p, st, n) ==
    \/ slots.dates # None /\ (slots.text \/ slots.dates # DatesOf(st))
    \/ slots.party # None /\ n # None /\ slots.party # n
    \/ slots.nights # None /\ st \in Length /\ slots.nights # st
    \/ log # << >> /\ log[Len(log)].property # p

RecordAppend(p, event, waiting) == log' = Append(log, event) /\ tool' = waiting
\* record_negotiation_event: the last guard against a change of property.
RecordEvent(p, event, waiting) ==
    IF log # << >> /\ log[Len(log)].property # p
    THEN log' = <<event>> /\ tool' = Detach(waiting)
    ELSE log' = Append(log, event) /\ tool' = waiting

Quote(p, st, price, total, cap) ==
    [property |-> p, stay |-> st, total |-> total, standard |-> price.standard,
     most |-> MostGenerous(Table \cup Rules, p, st, cap)]

(***************************************************************************)
(* get_pricing                                                             *)
(***************************************************************************)
BeginPricing(t, p, st, n, discounts) ==
    /\ tool[t] = Idle /\ talk < MaxTalk
    /\ slots' = WithParty(WithStay(slots, st), n)
    /\ tool' = [tool EXCEPT ![t] =
           [op |-> "price", property |-> p, stay |-> st,
            discounts |-> discounts \/ p \in pitched]]
    /\ talk' = talk + 1
    /\ UNCHANGED <<host, pitched, log, said>>

\* The rules are looked up for the minimum stay and again for the price.
FinishPricing(t) ==
    /\ tool[t].op = "price"
    /\ tool' = [tool EXCEPT ![t] = Idle]
    /\ LET c == tool[t] IN \E strict \in Lookups :
       \/ /\ c.stay \in Past \/ BelowMinimumStay(strict, c.property, c.stay)
          /\ UNCHANGED said
       \/ /\ c.stay \notin Past /\ ~BelowMinimumStay(strict, c.property, c.stay)
          /\ \E base \in BaseOf[<<c.property, c.stay>>] :
             \E price \in {Price(Table \cup longer, c.property, c.stay, base,
                               c.discounts) : longer \in Lookups} :
                IF price.total = 0 THEN UNCHANGED said
                ELSE /\ quoted' = Quote(c.property, c.stay, price, price.total, Cap)
                     /\ SupersedeDecision
    /\ UNCHANGED <<host, slots, pitched, log, talk>>

(***************************************************************************)
(* negotiate_rate                                                          *)
(***************************************************************************)
BeginNegotiate(t, p, st, offer, n, loyal) ==
    /\ tool[t] = Idle /\ talk < MaxTalk
    /\ slots' = WithStay(slots, st)
    /\ LET call == [op |-> "negotiate", property |-> p, stay |-> st,
                    offer |-> offer, party |-> n, loyal |-> loyal,
                    discounts |-> p \in pitched, prior |-> Live]
       IN  IF ContextChanged(p, st, n)
           THEN /\ log' = << >> /\ ClearDecision
                /\ tool' = [Detach(tool) EXCEPT ![t] = call]
           ELSE /\ tool' = [tool EXCEPT ![t] = call]
                /\ UNCHANGED <<log, decision, basis>>
    /\ talk' = talk + 1
    /\ UNCHANGED <<host, pitched, quoted>>

Repeat(c) == IF Known = "no profile" THEN c.loyal ELSE Known = "repeat"
Prior(c) == IF c.prior = Live THEN log ELSE c.prior

\* What negotiate_rate may have read; where the host's row cannot be read,
\* every guest may negotiate, down to the default, and without the guest's
\* profile the agent's own word for the guest counts.
Policies == {[allowed |-> allowed, cap |-> Cap], [allowed |-> TRUE, cap |-> DefaultCap]}
Readings(c) ==
    [rules: Lookups, special: {ForProperty(rules, c.property) : rules \in Lookups},
     policy: Policies, repeat: {Repeat(c), c.loyal}]

\* The price is computed and said, unless the dates are over or no price is
\* known; the offer goes on record either way.
FinishNegotiate(t) ==
    /\ tool[t].op = "negotiate"
    /\ LET c == tool[t]
           event == [offer |-> c.offer, property |-> c.property, stay |-> c.stay]
       IN  /\ \/ c.stay \in Past /\ UNCHANGED said
              \/ /\ c.stay \notin Past
                 /\ \E base \in BaseOf[<<c.property, c.stay>>], read \in Readings(c) :
                    \E price \in {Price(Table \cup longer, c.property, c.stay, base,
                                      c.discounts) : longer \in Lookups} :
                    \E result \in {Decision(read, price, c.discounts,
                                          Offers(Prior(c)), c.offer)} :
                       IF result.asking = 0 \/ result.counter = 0
                       THEN UNCHANGED said
                       ELSE /\ quoted' = Quote(c.property, c.stay, price,
                                               result.counter, read.policy.cap)
                            /\ decision' = [property |-> c.property,
                                            result |-> result]
                            /\ basis' = [read |-> read,
                                         events |-> Append(Prior(c), event)]
           /\ RecordEvent(c.property, event, [tool EXCEPT ![t] = Idle])
           /\ slots' = WithParty(slots, c.party)
    /\ UNCHANGED <<host, pitched, talk>>

\* The guest speaks over the answer: pipecat cancels the tools that wait.  A
\* tool that a failed lookup raises from leaves the state the same way.
Interrupt(t) ==
    /\ tool[t] # Idle
    /\ tool' = [tool EXCEPT ![t] = Idle]
    /\ UNCHANGED <<host, slots, pitched, log, said, talk>>

(***************************************************************************)
(* The other tools that touch the same state, at the point they answer.    *)
(***************************************************************************)
CheckCalendar(d, n) ==
    /\ talk < MaxTalk
    /\ slots' = WithParty(IF Bookable(d)
                       THEN [slots EXCEPT !.dates = d, !.text = FALSE] ELSE slots, n)
    /\ talk' = talk + 1
    /\ UNCHANGED <<host, pitched, log, said, tool>>

UpdateLead(st, n) ==
    /\ talk < MaxTalk
    /\ slots' = [WithParty(WithStay(slots, st), n) EXCEPT !.text = @ \/ Bookable(st)]
    /\ talk' = talk + 1
    /\ UNCHANGED <<host, pitched, log, said, tool>>

\* recommend_properties shows the cards of some properties, if it finds any,
\* with the offer that the stay earns: the exact dates, else the nights just
\* named, else those known from before.
KnownStay(st) ==
    IF slots.dates # None THEN slots.dates ELSE IF st # None THEN st ELSE slots.nights
Recommend(shown, st, n) ==
    /\ talk < MaxTalk
    /\ \E longer \in Lookups :
        pitched' = IF shown = {} THEN pitched
                   ELSE {p \in shown : /\ KnownStay(st) # None
                                       /\ LosPercent(Table \cup longer, p, KnownStay(st)) > 0}
    /\ slots' = [WithParty(slots, n) EXCEPT
                   !.nights = IF st # None /\ slots.dates = None THEN st ELSE @]
    /\ talk' = talk + 1
    /\ UNCHANGED <<host, log, said, tool>>

(***************************************************************************)
(* The host's dashboard.                                                   *)
(***************************************************************************)
CallUnchanged == UNCHANGED <<slots, pitched, log, said, tool, talk>>

ParsePolicy(found) ==
    /\ edits < MaxEdits
    /\ found # {} /\ \A r \in found : status[r] = "absent"
    /\ status' = [r \in Draft |->
                    IF r \in found THEN "pending_validation" ELSE status[r]]
    /\ edits' = edits + 1
    /\ UNCHANGED allowed /\ CallUnchanged

\* PATCH: new contents, a new status, or both.
EditRule(r, new, state) ==
    /\ edits < MaxEdits
    /\ status[r] # "absent" /\ (new = r \/ status[new] = "absent")
    /\ status' = [status EXCEPT ![r] = "absent", ![new] = state]
    /\ edits' = edits + 1
    /\ UNCHANGED allowed /\ CallUnchanged

DeleteRule(r) ==
    /\ edits < MaxEdits /\ status[r] # "absent"
    /\ status' = [status EXCEPT ![r] = "absent"]
    /\ edits' = edits + 1
    /\ UNCHANGED allowed /\ CallUnchanged

AllowNegotiation ==
    /\ edits < MaxEdits
    /\ allowed' = ~allowed
    /\ edits' = edits + 1
    /\ UNCHANGED status /\ CallUnchanged

Talk ==
    \/ \E t \in Tool, p \in Prop, st \in Stay :
        \/ \E n \in Party, d \in BOOLEAN : BeginPricing(t, p, st, n, d)
        \/ \E offer \in Offer \cup {0}, n \in Party \cup Omitted, 
           l \in Loyal :
               BeginNegotiate(t, p, st, offer, n, l)
    \/ \E t \in Tool : FinishPricing(t) \/ FinishNegotiate(t) \/ Interrupt(t)
    \/ \E d \in Dated, n \in Party \cup Omitted : CheckCalendar(d, n)
    \/ \E st \in Stay \cup {None}, n \in Party \cup Omitted : UpdateLead(st, n)
    \/ \E shown \in SUBSET Prop, st \in Length \cup {None}, n \in Party \cup Omitted :
           Recommend(shown, st, n)
HostEdits ==
    \/ \E found \in SUBSET Draft : ParsePolicy(found)
    \/ \E r \in Draft, new \in Draft, state \in Status \ {"absent"} :
           EditRule(r, new, state)
    \/ \E r \in Draft : DeleteRule(r)
    \/ AllowNegotiation
Next == Talk \/ HostEdits

Spec == Init /\ [][Next]_vars

(***************************************************************************)
(* Correctness.                                                            *)
(***************************************************************************)
TypeOK ==
    /\ status \in [Draft -> Status]
    /\ allowed \in BOOLEAN
    /\ slots \in Slots
    /\ pitched \subseteq Prop
    /\ \A i \in DOMAIN log : log[i] \in Event /\ log[i].property = log[1].property

\* The price hint that the prompt shows from last_negotiation_decision and the
\* quote that the repetition guard checks against are one price of one
\* property, whichever tools answered last and in whatever order.
QuoteMatchesDecision ==
    decision # None =>
        /\ quoted.property = decision.property
        /\ quoted.total = decision.result.counter

\* Discounts do not add up: no price said in a call is below what the single
\* most generous rule in force then, or the cap, takes off the standard price.
\* The cap is the host's, or the default where the host's could not be read.
NeverStacked ==
    quoted # None => Discounted(quoted.standard, quoted.most) <= quoted.total

\* The schema also admits ladders that take back what they gave.
Climbs(rule) ==
    \A i, j \in DOMAIN rule.ladder : i <= j => rule.ladder[i] <= rule.ladder[j]

\* While the guest negotiates about one price, a price once conceded is not
\* taken back, whatever the guest offers next (resolve_stage_index), as long
\* as both answers read the same: the host has edited nothing that matters and
\* no lookup has failed for one of them only.  The ladders read must climb.
SameNegotiation ==
    /\ decision.property = decision'.property
    /\ quoted.standard = quoted'.standard
    /\ decision.result.asking = decision'.result.asking
    /\ IsPrefix(basis.events, basis'.events)
SameTerms ==
    /\ basis.read = basis'.read
    /\ \A rule \in basis.read.rules \cup basis.read.special : Climbs(rule)
    /\ SameNegotiation
NeverTakenBack ==
    [][basis # None /\ basis' \notin {None, basis} /\ SameTerms
        => decision'.result.floor <= decision.result.floor]_vars

\* The two conditions above are needed.  With rules that never change, a lookup
\* that fails does take back what was conceded, and it lets a guest below what
\* the host's own cap and rules allow.
ConcessionKept ==
    [][basis # None /\ basis' \notin {None, basis} /\ SameNegotiation
        => decision'.result.floor <= decision.result.floor]_vars
WithinPolicy ==
    quoted # None =>
        Discounted(quoted.standard,
                   MostGenerous(Table \cup Rules, quoted.property, quoted.stay, Cap))
            <= quoted.total

\* conversation_state.py:306: the history holds only offers for the stay that
\* is negotiated, so the first offer for other dates or another property
\* opens at the first stage again.
FreshStart ==
    basis # None =>
        LET n == Len(basis.events)
            Elsewhere(i) ==
                \/ basis.events[i].property # basis.events[n].property
                \/ /\ basis.events[i].stay # basis.events[n].stay
                   /\ {basis.events[i].stay, basis.events[n].stay} \subseteq Dated
        IN  (\A i \in 1 .. n - 1 : Elsewhere(i)) => decision.result.stage = 0
=============================================================================
