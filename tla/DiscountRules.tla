--------------------------- MODULE DiscountRules ---------------------------
(***************************************************************************)
(* What the host's rules make of one stay and one price offer: the pure    *)
(* part of negotiation_policy.py and pricing_engine.py.  Percentages are   *)
(* whole; 0 is an offer without a number (guest_offer = None).             *)
(***************************************************************************)
EXTENDS Integers, Sequences, FiniteSets, FiniteSetsExt

CONSTANTS
    Prop,    \* the host's properties
    Dated,   \* stays with exact dates
    Weekend, \* those with a Friday or Saturday night
    Length,  \* stays of which only the number of nights is known
    NightsOf \* the nights of a dated stay

Stay == Dated \cup Length
Nights(st) == IF st \in Length THEN st ELSE NightsOf[st]

Percent == 0 .. 100
NoPercent == -1
RuleType == {"discount_guest_requests", "discount_repeat_guest",
             "length_of_stay", "minimum_stay_nights", "custom"}
\* An approved NegotiationRule: ladder holds the values of its stages in their
\* order (empty for NULL), nights the min_nights of its condition and weekend
\* its weekend_min_nights (0 for none).
Rule == [type: RuleType, ladder: Seq(Percent), flat: Percent \cup {NoPercent},
         at: SUBSET Prop, nights: Nat, weekend: Nat]

OfType(rules, type) == {r \in rules : r.type = type}
ForProperty(rules, p) == {r \in rules : p \in r.at}

\* The offers that are above every number the guest gave before: the first
\* number opens the negotiation and is not one of them.
Rises(offers) ==
    {i \in DOMAIN offers :
        LET before == {j \in 1 .. i - 1 : offers[j] # 0}
        IN  /\ offers[i] # 0 /\ before # {}
            /\ \A j \in before : offers[j] < offers[i]}
LastRise(offers) == IF Len(offers) \in Rises(offers) THEN Rises(offers) ELSE {}

Clamped(n, count) == IF n < count THEN n ELSE count - 1
StageOfLast(offers, count) ==
    IF count = 0 THEN 0 ELSE Clamped(Cardinality(LastRise(offers)), count)
StageIndex(offers, count) ==
    IF count = 0 THEN 0 ELSE Clamped(Cardinality(Rises(offers)), count)

StagedValue(rule, stage) == rule.ladder[Clamped(stage, Len(rule.ladder)) + 1]

\* What rules of one type grant; of equally generous ladders, the one the
\* unordered query returns first gives the count.
NoDiscount == [percent |-> NoPercent, staged |-> FALSE, count |-> 0]
BestFlat(rules) ==
    LET flat == {r.flat : r \in rules} \ {NoPercent}
    IN  IF flat = {} THEN NoDiscount
        ELSE [percent |-> Max(flat), staged |-> FALSE, count |-> 0]
BestStagedOrFlat(rules, stage) ==
    LET staged == {r \in rules : r.ladder # << >>}
        best == CHOOSE r \in staged : \A s \in staged :
                    StagedValue(s, stage) <= StagedValue(r, stage)
    IN  IF staged = {} THEN BestFlat(rules)
        ELSE [percent |-> StagedValue(best, stage), staged |-> TRUE,
              count |-> Len(best.ladder)]

Found(discount) == discount.percent # NoPercent

\* A repeat guest's own policy first, then what anyone who asks may get.
Trigger(rules, repeat, stage) ==
    LET own == BestStagedOrFlat(OfType(rules, "discount_repeat_guest"), stage)
    IN  IF repeat /\ Found(own) THEN own
        ELSE BestStagedOrFlat(OfType(rules, "discount_guest_requests"), stage)

CustomCeiling(special, stage) == BestStagedOrFlat(OfType(special, "custom"), stage)

\* The longer-stay discount that the stay earns.
LosPercent(rules, p, st) ==
    Max({0} \cup {r.flat : r \in
        {r \in OfType(ForProperty(rules, p), "length_of_stay") :
            r.flat # NoPercent /\ Nights(st) >= r.nights}})

BelowMinimumStay(rules, p, st) ==
    \E r \in OfType(ForProperty(rules, p), "minimum_stay_nights") :
        Nights(st) < r.nights \/ (st \in Weekend /\ Nights(st) < r.weekend)

Discounted(total, percent) == (total * (100 - percent)) \div 100

\* calculate_price over a base total, the live one or the host's own.
Price(rules, p, st, base, discounts) ==
    LET percent == IF discounts THEN LosPercent(rules, p, st) ELSE 0
    IN  [standard |-> base, percent |-> percent, total |-> Discounted(base, percent)]

DefaultPercent == 10 \* when no approved rule resolves
DefaultCap == 15 \* MAX_NEGOTIATION_DISCOUNT_PERCENT, the host's own unread

(***************************************************************************)
(* negotiate_rate decides on what it has read: the rules, in a lookup of   *)
(* their own those of the property (special), the host's policy, and       *)
(* whether the guest has stayed before.                                    *)
(***************************************************************************)
\* How many stages the longest ladder has, whatever it is about.
StageCount(read) == Max({0} \cup {Len(r.ladder) : r \in read.rules \cup read.special})

\* The policy the guest negotiates under at a stage.
Winner(read, stage) ==
    LET trigger == Trigger(read.rules, read.repeat, stage)
        asked == IF Found(trigger) THEN trigger
                 ELSE [NoDiscount EXCEPT !.percent = DefaultPercent]
        custom == CustomCeiling(read.special, stage)
    IN  IF custom.percent > asked.percent THEN custom ELSE asked

Granted(read, stage) ==
    LET ceiling == Max({read.policy.cap, CustomCeiling(read.special, stage).percent})
        percent == Winner(read, stage).percent
    IN  IF percent < ceiling THEN percent ELSE ceiling

Flat(asking, accepted, counter) ==
    [asking |-> asking, floor |-> asking, accepted |-> accepted,
     counter |-> counter, staged |-> FALSE, stage |-> 0, progressed |-> FALSE,
     exhausted |-> FALSE]

\* past holds the guest's earlier offers.
Concession(read, asking, past, offer) ==
    LET count == StageCount(read)
        before == StageIndex(past, count)
        stage == IF offer = 0 THEN before
                 ELSE StageIndex(Append(past, offer), count)
        winner == Winner(read, stage)
        floor == Discounted(asking, Granted(read, stage))
        accepted == offer = 0 \/ offer >= floor
    IN  [asking |-> asking, floor |-> floor, accepted |-> accepted,
         counter |-> IF accepted /\ offer # 0 THEN offer ELSE floor,
         staged |-> winner.staged,
         stage |-> IF winner.staged THEN stage ELSE 0,
         progressed |-> winner.staged /\ stage > before,
         exhausted |-> winner.staged /\ stage >= winner.count - 1]

Stacked(read, price, discounts, past, offer) ==
    IF ~read.policy.allowed THEN Flat(price.total, FALSE, price.total)
    ELSE Concession(read, price.total, past, offer)
Decision(read, price, discounts, past, offer) ==
    LET taken == offer # 0 /\ offer >= price.total
    IN  IF discounts /\ price.percent > 0
        THEN Flat(price.total, taken, IF taken THEN offer ELSE price.total)
        ELSE IF ~read.policy.allowed THEN Flat(price.total, FALSE, price.total)
        ELSE Concession(read, price.total, past, offer)

\* The most that any single one of some rules, or a cap, takes off.
MostGenerous(rules, p, st, cap) ==
    LET custom == OfType(ForProperty(rules, p), "custom")
    IN  Max({cap, LosPercent(rules, p, st)} \cup {r.flat : r \in custom}
            \cup UNION {{r.ladder[i] : i \in DOMAIN r.ladder} : r \in custom})
=============================================================================
