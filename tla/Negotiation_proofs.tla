--------------------------- MODULE Negotiation_proofs ---------------------------
(***************************************************************************)
(* No price said in a call is below what the most generous single rule, or *)
(* the cap, takes off, and the prompt's price hint is the quote, for any   *)
(* rules, prices, offers and tools that answer in any order.               *)
(***************************************************************************)
EXTENDS Negotiation, Extremes, SequenceTheorems

-----------------------------------------------------------------------------
\* A smaller discount leaves a higher price.
LEMMA Cuts ==
    ASSUME NEW base \in Nat, NEW p \in Percent, NEW q \in Percent, p <= q
    PROVE /\ Discounted(base, p) \in Nat
          /\ Discounted(base, q) <= Discounted(base, p)
          /\ Discounted(base, 0) = base
<1>1. /\ p \in Int /\ q \in Int
      /\ 100 - p \in Nat /\ 100 - q \in Nat /\ q - p \in Nat
  BY DEF Percent
<1> DEFINE x == base * (100 - p)
           y == base * (100 - q)
<1>2. x \in Nat /\ y \in Nat /\ base * (q - p) \in Nat
  BY <1>1
<1>3. x = y + base * (q - p)
  BY <1>1
<1>4. y <= x
  <2> HIDE DEF x, y
  <2> DEFINE z == base * (q - p)
  <2>1. z \in Nat /\ x = y + z
    BY <1>2, <1>3
  <2> HIDE DEF z
  <2> QED BY <1>2, <2>1
<1>5. base * (100 - 0) = 100 * base
  OBVIOUS
<1>6. (base * (100 - 0)) \div 100 = base
  BY <1>5
<1> HIDE DEF x, y
<1>7. x \div 100 \in Nat /\ y \div 100 <= x \div 100
  BY <1>2, <1>4
<1> QED BY <1>6, <1>7 DEF Discounted, x, y

\* The largest of some percentages.
LEMMA MaxPercent ==
    ASSUME NEW S, S \subseteq Percent \cup {NoPercent}, S # {}
    PROVE Max(S) \in S /\ \A y \in S : y <= Max(S)
<1>1. S \in SUBSET Int /\ \A x \in S : x <= 100
  BY DEF Percent, NoPercent
<1>2. 100 \in Int
  OBVIOUS
<1> QED BY <1>1, <1>2, Greatest, Zenon

\* What a reading is made of.
ReadOK(read) ==
    /\ read.rules \in SUBSET Rule /\ IsFiniteSet(read.rules)
    /\ read.special \in SUBSET Rule /\ IsFiniteSet(read.special)
    /\ read.policy.allowed \in BOOLEAN /\ read.policy.cap \in Percent
    /\ read.repeat \in BOOLEAN

\* The longest ladder has a number of stages, and so the stage of any offers is
\* a number.
LEMMA CountIn ==
    ASSUME NEW read, ReadOK(read)
    PROVE StageCount(read) \in Nat
<1> DEFINE rules == read.rules \cup read.special
<1>0. rules \in SUBSET Rule /\ IsFiniteSet(rules)
  BY FS_Union DEF ReadOK
<1> DEFINE lens == {Len(r.ladder) : r \in rules}
           f == [r \in rules |-> Len(r.ladder)]
           S == {0} \cup lens
<1>1. \A r \in rules : Len(r.ladder) \in Nat
  BY <1>0, LenProperties DEF Rule
<1>2. f \in Surjection(rules, lens)
  BY DEF Surjection
<1>3. IsFiniteSet(lens)
  <2> HIDE DEF rules
  <2> QED BY <1>0, <1>2, FS_Surjection
<1>4. lens \in SUBSET Nat
  BY <1>1
<1>5. PICK b \in Nat : \A x \in lens : x <= b
  BY <1>3, <1>4, FiniteBounded
<1>6. S \in SUBSET Int /\ S # {} /\ \A x \in S : x <= b
  BY <1>4, <1>5
<1>7. b \in Int
  OBVIOUS
<1>8. Max(S) \in S
  <2> HIDE DEF S
  <2> QED BY <1>6, <1>7, Greatest, Zenon
<1> QED BY <1>4, <1>8 DEF StageCount

LEMMA StageIn ==
    ASSUME NEW read, ReadOK(read), NEW V, NEW offers \in Seq(V)
    PROVE StageIndex(offers, StageCount(read)) \in Nat
<1>1. StageCount(read) \in Nat
  BY CountIn
<1>2. Rises(offers) \subseteq 1 .. Len(offers) /\ Len(offers) \in Nat
  BY LenProperties DEF Rises
<1>3. IsFiniteSet(Rises(offers))
  <2>1. IsFiniteSet(1 .. Len(offers))
    BY <1>2, FS_Interval
  <2> QED BY <1>2, <2>1, FS_Subset
<1>4. Cardinality(Rises(offers)) \in Nat
  BY <1>3, FS_CardinalityType
<1> QED BY <1>1, <1>4 DEF StageIndex, Clamped

-----------------------------------------------------------------------------
\* What a set of rules grants is the flat value or a stage of one of them.
Values(rules) ==
    {r.flat : r \in rules} \cup UNION {{r.ladder[i] : i \in DOMAIN r.ladder} : r \in rules}

LEMMA ValuesIn ==
    ASSUME NEW rules \in SUBSET Rule
    PROVE Values(rules) \subseteq Percent \cup {NoPercent}
<1>1. \A r \in rules : r.flat \in Percent \cup {NoPercent}
  BY DEF Rule
<1>2. \A r \in rules : \A i \in DOMAIN r.ladder : r.ladder[i] \in Percent
  <2> TAKE r \in rules
  <2>1. r.ladder \in Seq(Percent)
    BY DEF Rule
  <2> QED BY <2>1, LenProperties, ElementOfSeq
<1> QED BY <1>1, <1>2 DEF Values

LEMMA Stages ==
    ASSUME NEW r \in Rule, r.ladder # << >>, NEW stage \in Nat
    PROVE /\ Clamped(stage, Len(r.ladder)) + 1 \in DOMAIN r.ladder
          /\ StagedValue(r, stage) \in Percent
<1>1. r.ladder \in Seq(Percent)
  BY DEF Rule
<1>2. Len(r.ladder) \in Nat \ {0} /\ DOMAIN r.ladder = 1 .. Len(r.ladder)
  BY <1>1, EmptySeq, LenProperties
<1>3. Clamped(stage, Len(r.ladder)) + 1 \in 1 .. Len(r.ladder)
  BY <1>2 DEF Clamped
<1> QED BY <1>1, <1>2, <1>3, ElementOfSeq DEF StagedValue

LEMMA Grants ==
    ASSUME NEW rules \in SUBSET Rule, NEW stage \in Nat
    PROVE LET best == BestStagedOrFlat(rules, stage)
          IN  /\ best.percent \in Percent \cup {NoPercent}
              /\ best.percent # NoPercent => best.percent \in Values(rules)
<1> DEFINE staged == {r \in rules : r.ladder # << >>}
           flat == {r.flat : r \in rules} \ {NoPercent}
           best == BestStagedOrFlat(rules, stage)
<1>1. Values(rules) \subseteq Percent \cup {NoPercent}
  BY ValuesIn
<1>2. CASE staged = {}
  <2>1. best = BestFlat(rules)
    BY <1>2 DEF BestStagedOrFlat
  <2>2. CASE flat = {}
    BY <2>1, <2>2 DEF BestFlat, NoDiscount
  <2>3. CASE flat # {}
    <3>1. flat \subseteq Percent \cup {NoPercent} /\ flat \subseteq Values(rules)
      BY <1>1 DEF Values
    <3>2. Max(flat) \in flat
      BY <2>3, <3>1, MaxPercent
    <3>3. best.percent = Max(flat)
      BY <2>1, <2>3 DEF BestFlat
    <3> QED BY <3>1, <3>2, <3>3
  <2> QED BY <2>2, <2>3
<1>3. CASE staged # {}
  <2> DEFINE values == {StagedValue(r, stage) : r \in staged}
             top == CHOOSE r \in staged : \A s \in staged : StagedValue(s, stage) <= StagedValue(r, stage)
  <2>1. values \subseteq Percent \cup {NoPercent} /\ values # {}
    BY <1>3, Stages
  <2>2. Max(values) \in values /\ \A y \in values : y <= Max(values)
    BY <2>1, MaxPercent
  <2>3. PICK r \in staged : StagedValue(r, stage) = Max(values)
    BY <2>2
  <2>4. \A s \in staged : StagedValue(s, stage) <= StagedValue(r, stage)
    BY <2>2, <2>3
  <2>5. top \in staged
    BY <2>4
  <2>6. best.percent = StagedValue(top, stage)
    BY <1>3 DEF BestStagedOrFlat
  <2> HIDE DEF top
  <2>7. /\ Clamped(stage, Len(top.ladder)) + 1 \in DOMAIN top.ladder
        /\ StagedValue(top, stage) \in Percent
    BY <2>5, Stages
  <2>8. StagedValue(top, stage) \in Values(rules)
    BY <2>5, <2>7 DEF StagedValue, Values
  <2> QED BY <2>6, <2>7, <2>8
<1> QED BY <1>2, <1>3

\* A longer-stay discount is a percentage, and 0 at the least.
LEMMA LongerStay ==
    ASSUME NEW rules \in SUBSET Rule, NEW p \in Prop, NEW st \in Stay
    PROVE LosPercent(rules, p, st) \in Percent
<1> DEFINE earned == {r \in OfType(ForProperty(rules, p), "length_of_stay") :
                         r.flat # NoPercent /\ Nights(st) >= r.nights}
           S == {0} \cup {r.flat : r \in earned}
<1>1. earned \subseteq rules /\ \A r \in earned : r.flat # NoPercent
  BY DEF OfType, ForProperty
<1>2. \A r \in earned : r.flat \in Percent
  BY <1>1 DEF Rule
<1>3. S \subseteq Percent /\ S # {}
  BY <1>2 DEF Percent
<1>4. LosPercent(rules, p, st) = Max(S)
  BY DEF LosPercent
<1> HIDE DEF S
<1>5. Max(S) \in S
  BY <1>3, MaxPercent
<1> QED BY <1>3, <1>4, <1>5

\* Fewer rules give no greater longer-stay discount.
LEMMA FewerLess ==
    ASSUME NEW rules \in SUBSET Rule, NEW some \in SUBSET rules, NEW p \in Prop,
           NEW st \in Stay
    PROVE LosPercent(some, p, st) <= LosPercent(rules, p, st)
<1> DEFINE earned(these) == {r \in OfType(ForProperty(these, p), "length_of_stay") :
                         r.flat # NoPercent /\ Nights(st) >= r.nights}
           S == {0} \cup {r.flat : r \in earned(rules)}
           T == {0} \cup {r.flat : r \in earned(some)}
<1>1. earned(rules) \subseteq rules /\ \A r \in earned(rules) : r.flat # NoPercent
  BY DEF OfType, ForProperty
<1>2. \A r \in earned(rules) : r.flat \in Percent
  BY <1>1 DEF Rule
<1>3. S \subseteq Percent /\ S # {} /\ T # {}
  BY <1>2 DEF Percent
<1>4. T \subseteq S
  BY DEF OfType, ForProperty
<1>5. LosPercent(rules, p, st) = Max(S) /\ LosPercent(some, p, st) = Max(T)
  BY DEF LosPercent
<1> HIDE DEF S, T
<1>6. Max(T) \in T /\ \A y \in S : y <= Max(S)
  BY <1>3, <1>4, MaxPercent
<1> QED BY <1>4, <1>5, <1>6

\* The most generous single rule in force bounds the cap, the longer-stay
\* discount and what a rule of the property itself grants at any stage, also
\* when fewer rules are read than are in force.
LEMMA Most ==
    ASSUME NEW force \in SUBSET Rule, NEW p \in Prop, NEW st \in Stay,
           NEW cap \in Percent, NEW stage \in Nat,
           NEW los \in SUBSET force, NEW special \in SUBSET ForProperty(force, p)
    PROVE LET most == MostGenerous(force, p, st, cap)
          IN  /\ most \in Percent
              /\ cap <= most
              /\ LosPercent(los, p, st) <= most
              /\ CustomCeiling(special, stage).percent \in Percent \cup {NoPercent}
              /\ CustomCeiling(special, stage).percent <= most
<1> DEFINE custom == OfType(ForProperty(force, p), "custom")
           read == OfType(special, "custom")
           all == LosPercent(force, p, st)
           some == LosPercent(los, p, st)
           ceiling == CustomCeiling(special, stage).percent
           S == {cap, all} \cup Values(custom)
           most == MostGenerous(force, p, st, cap)
<1>1. custom \in SUBSET Rule /\ read \in SUBSET Rule /\ read \subseteq custom
  BY DEF OfType, ForProperty
<1>2. all \in Percent /\ some <= all
  BY LongerStay, FewerLess
<1>3. /\ Values(custom) \subseteq Percent \cup {NoPercent}
      /\ Values(read) \subseteq Values(custom)
  <2> HIDE DEF custom, read
  <2>1. Values(custom) \subseteq Percent \cup {NoPercent}
    BY <1>1, ValuesIn
  <2>2. Values(read) \subseteq Values(custom)
    BY <1>1 DEF Values
  <2> QED BY <2>1, <2>2
<1>4. S = {cap, all} \cup {r.flat : r \in custom}
            \cup UNION {{r.ladder[i] : i \in DOMAIN r.ladder} : r \in custom}
  BY DEF Values
<1>5. most = Max(S)
  <2> HIDE DEF S
  <2> QED BY <1>4 DEF MostGenerous
<1>6. /\ ceiling \in Percent \cup {NoPercent}
      /\ ceiling # NoPercent => ceiling \in Values(custom)
  <2>1. CustomCeiling(special, stage) = BestStagedOrFlat(read, stage)
    BY DEF CustomCeiling
  <2> HIDE DEF custom, read
  <2> QED BY <1>1, <1>3, <2>1, Grants
<1>7. some \in Int
  <2>1. los \in SUBSET Rule
    OBVIOUS
  <2> QED BY <2>1, LongerStay DEF Percent
<1> HIDE DEF custom, all, some, ceiling, most
<1>8. S \subseteq Percent \cup {NoPercent} /\ S # {}
  BY <1>2, <1>3
<1>9. cap \in S /\ all \in S /\ (ceiling # NoPercent => ceiling \in S)
  BY <1>6
<1> HIDE DEF S
<1>10. most \in S /\ \A y \in S : y <= most
  BY <1>5, <1>8, MaxPercent
<1>11. most \in Percent /\ cap <= most /\ all <= most
  BY <1>8, <1>9, <1>10 DEF Percent, NoPercent
<1>12. some <= most
  BY <1>2, <1>7, <1>11 DEF Percent
<1>13. ceiling <= most
  BY <1>6, <1>9, <1>10, <1>11 DEF Percent, NoPercent
<1> QED BY <1>6, <1>11, <1>12, <1>13 DEF some, ceiling, most

\* What a guest is granted is a percentage, at most the cap or what a rule of
\* the property itself grants at that stage.
LEMMA GrantedIn ==
    ASSUME NEW read, ReadOK(read), NEW stage \in Nat
    PROVE LET ceiling == Max({read.policy.cap, CustomCeiling(read.special, stage).percent})
          IN  /\ Granted(read, stage) \in Percent
              /\ ceiling \in Percent
              /\ ceiling \in {read.policy.cap, CustomCeiling(read.special, stage).percent}
              /\ Granted(read, stage) <= ceiling
<1> DEFINE custom == CustomCeiling(read.special, stage)
           cap == read.policy.cap
           trigger == Trigger(read.rules, read.repeat, stage)
           asked == IF Found(trigger) THEN trigger
                    ELSE [NoDiscount EXCEPT !.percent = DefaultPercent]
           S == {cap, custom.percent}
<1>0. cap \in Percent
  BY DEF ReadOK
<1>1. custom.percent \in Percent \cup {NoPercent}
  <2>1. OfType(read.special, "custom") \in SUBSET Rule
    BY DEF OfType, ReadOK
  <2> QED BY <2>1, Grants DEF CustomCeiling
<1>2. trigger.percent \in Percent \cup {NoPercent}
  <2>1. /\ OfType(read.rules, "discount_repeat_guest") \in SUBSET Rule
        /\ OfType(read.rules, "discount_guest_requests") \in SUBSET Rule
    BY DEF OfType, ReadOK
  <2>2. /\ BestStagedOrFlat(OfType(read.rules, "discount_repeat_guest"), stage).percent
               \in Percent \cup {NoPercent}
        /\ BestStagedOrFlat(OfType(read.rules, "discount_guest_requests"), stage).percent
               \in Percent \cup {NoPercent}
    BY <2>1, Grants
  <2> QED BY <2>2 DEF Trigger
<1>3. asked.percent \in Percent
  BY <1>2 DEF Found, NoDiscount, DefaultPercent, Percent, NoPercent
<1>4. Winner(read, stage).percent \in Percent
  <2>1. Winner(read, stage) = IF custom.percent > asked.percent THEN custom ELSE asked
    BY DEF Winner
  <2> HIDE DEF custom, asked
  <2> QED BY <1>1, <1>3, <2>1 DEF Percent, NoPercent
<1> HIDE DEF custom, cap
<1>5. S \subseteq Percent \cup {NoPercent} /\ S # {} /\ cap \in S
  BY <1>0, <1>1
<1>6. Max(S) \in S /\ \A y \in S : y <= Max(S)
  <2> HIDE DEF S
  <2> QED BY <1>5, MaxPercent
<1>7. Max(S) \in Percent
  BY <1>0, <1>5, <1>6 DEF Percent, NoPercent
<1>8. Granted(read, stage)
         = IF Winner(read, stage).percent < Max(S)
           THEN Winner(read, stage).percent ELSE Max(S)
  BY DEF Granted, custom, cap
<1>9. \A w, m \in Percent : /\ (IF w < m THEN w ELSE m) \in Percent
                          /\ (IF w < m THEN w ELSE m) <= m
  BY DEF Percent
<1> HIDE DEF S
<1>10. Granted(read, stage) \in Percent /\ Granted(read, stage) <= Max(S)
  BY <1>4, <1>7, <1>8, <1>9, Zenon
<1> QED BY <1>6, <1>7, <1>10 DEF S, custom, cap

\* So it is at most what the most generous single rule in force takes off.
LEMMA GrantedBounded ==
    ASSUME NEW force \in SUBSET Rule, NEW p \in Prop, NEW st \in Stay,
           NEW read, ReadOK(read), read.special \in SUBSET ForProperty(force, p),
           NEW stage \in Nat
    PROVE /\ Granted(read, stage) \in Percent
          /\ Granted(read, stage) <= MostGenerous(force, p, st, read.policy.cap)
<1> DEFINE cap == read.policy.cap
           granted == Granted(read, stage)
           custom == CustomCeiling(read.special, stage).percent
           ceiling == Max({cap, custom})
           most == MostGenerous(force, p, st, cap)
<1>1. most \in Percent /\ cap <= most /\ custom <= most
  <2>1. cap \in Percent /\ {} \in SUBSET force
    BY DEF ReadOK
  <2> HIDE DEF cap
  <2> QED BY <2>1, Most
<1>2. /\ granted \in Percent /\ ceiling \in Percent
      /\ ceiling = cap \/ ceiling = custom
      /\ granted <= ceiling
  BY GrantedIn
<1> HIDE DEF granted, custom, ceiling, most, cap
<1>3. granted <= most
  BY <1>1, <1>2 DEF Percent
<1> QED BY <1>2, <1>3 DEF granted, most, cap

-----------------------------------------------------------------------------
\* A price is what the longer-stay discount leaves, where it applies.
LEMMA PriceWithout ==
    ASSUME NEW rules \in SUBSET Rule, NEW p \in Prop, NEW st \in Stay,
           NEW base \in Nat, NEW discounts \in BOOLEAN
    PROVE /\ Price(rules, p, st, base, discounts).standard = base
          /\ Price(rules, p, st, base, discounts).total \in Nat
          /\ Price(rules, p, st, base, discounts).percent \in Percent
          /\ Price(rules, p, st, base, discounts).percent = 0
                => Price(rules, p, st, base, discounts).total = base
          /\ ~discounts => Price(rules, p, st, base, discounts).percent = 0
<1> DEFINE percent == IF discounts THEN LosPercent(rules, p, st) ELSE 0
           price == Price(rules, p, st, base, discounts)
<1>1. percent \in Percent
  BY LongerStay DEF Percent
<1>2. /\ price.standard = base /\ price.percent = percent
      /\ price.total = Discounted(base, percent)
  BY DEF Price
<1>3. ~discounts => percent = 0
  OBVIOUS
<1> HIDE DEF percent, price
<1>4. Discounted(base, percent) \in Nat /\ Discounted(base, 0) = base
  <2>1. percent <= percent
    BY <1>1 DEF Percent
  <2> QED BY <1>1, <2>1, Cuts
<1> QED BY <1>1, <1>2, <1>3, <1>4 DEF price

\* A price is fair when it is no lower than the most generous rule leaves it.
LEMMA PriceFair ==
    ASSUME NEW force \in SUBSET Rule, NEW los \in SUBSET force, NEW p \in Prop,
           NEW st \in Stay, NEW cap \in Percent, NEW base \in Nat,
           NEW discounts \in BOOLEAN
    PROVE Price(los, p, st, base, discounts).total
            >= Discounted(base, MostGenerous(force, p, st, cap))
<1> DEFINE percent == IF discounts THEN LosPercent(los, p, st) ELSE 0
           most == MostGenerous(force, p, st, cap)
           price == Price(los, p, st, base, discounts)
<1>1. LosPercent(los, p, st) \in Percent
  <2>1. los \in SUBSET Rule
    OBVIOUS
  <2> QED BY <2>1, LongerStay
<1>2. most \in Percent /\ LosPercent(los, p, st) <= most
  <2>1. 0 \in Nat /\ {} \in SUBSET ForProperty(force, p)
    OBVIOUS
  <2> QED BY <2>1, Most
<1>3. percent \in Percent /\ percent <= most
  BY <1>1, <1>2 DEF Percent
<1>4. price.total = Discounted(base, percent)
  BY DEF Price
<1> HIDE DEF percent, most, price
<1>5. /\ Discounted(base, percent) \in Nat /\ Discounted(base, most) \in Nat
      /\ Discounted(base, most) <= Discounted(base, percent)
  <2>1. most <= most
    BY <1>2 DEF Percent
  <2> QED BY <1>2, <1>3, <2>1, Cuts
<1>6. price.total >= Discounted(base, most)
  BY <1>4, <1>5
<1> QED BY <1>6 DEF price, most

\* Nothing that negotiate_rate answers is below that bound either: offers on a
\* price with a longer-stay discount are refused, and every concession is on
\* a price without one.
LEMMA DecisionFair ==
    ASSUME NEW force \in SUBSET Rule, NEW los \in SUBSET force, NEW p \in Prop,
           NEW st \in Stay, NEW read, ReadOK(read),
           read.special \in SUBSET ForProperty(force, p),
           NEW base \in Nat, NEW discounts \in BOOLEAN,
           NEW V \in SUBSET Nat, NEW past \in Seq(V), NEW offer \in V
    PROVE Decision(read, Price(los, p, st, base, discounts), discounts, past, offer).counter
            >= Discounted(base, MostGenerous(force, p, st, read.policy.cap))
<1> DEFINE price == Price(los, p, st, base, discounts)
           cap == read.policy.cap
           permitted == read.policy.allowed
           most == MostGenerous(force, p, st, cap)
           result == Decision(read, price, discounts, past, offer)
           least == Discounted(base, most)
<1>0. cap \in Percent /\ permitted \in BOOLEAN /\ los \in SUBSET Rule
  BY DEF ReadOK
<1>1. /\ price.total \in Nat /\ price.percent \in Percent
      /\ price.total >= least
      /\ price.percent = 0 => price.total = base
      /\ ~discounts => price.percent = 0
  <2> HIDE DEF cap
  <2> QED BY <1>0, PriceWithout, PriceFair
<1>2. offer \in Nat
  OBVIOUS
<1>3. CASE discounts /\ price.percent > 0
  <2> DEFINE taken == offer # 0 /\ offer >= price.total
  <2>1. result.counter = IF taken THEN offer ELSE price.total
    <3>1. result = Flat(price.total, taken, IF taken THEN offer ELSE price.total)
      BY <1>3 DEF Decision
    <3> QED BY <3>1 DEF Flat
  <2>2. least \in Int
    <3>1. 0 \in Nat /\ {} \in SUBSET force
      OBVIOUS
    <3>2. most \in Percent
      <4> HIDE DEF cap
      <4> QED BY <1>0, <3>1, Most
    <3> HIDE DEF most
    <3>3. most <= most
      BY <3>2 DEF Percent
    <3> QED BY <3>2, <3>3, Cuts
  <2>3. result.counter >= least
    <3> HIDE DEF price, least, result
    <3> QED BY <1>1, <1>2, <2>1, <2>2
  <2> QED BY <2>3
<1>4. CASE ~(discounts /\ price.percent > 0) /\ ~permitted
  <2>1. result = Flat(price.total, FALSE, price.total)
    BY <1>4 DEF Decision
  <2> QED BY <1>1, <2>1 DEF Flat
<1>5. CASE ~(discounts /\ price.percent > 0) /\ permitted
  <2> DEFINE count == StageCount(read)
             before == StageIndex(past, count)
             stage == IF offer = 0 THEN before
                      ELSE StageIndex(Append(past, offer), count)
             granted == Granted(read, stage)
             floor == Discounted(price.total, granted)
             accepted == offer = 0 \/ offer >= floor
  <2>1. stage \in Nat
    <3>1. Append(past, offer) \in Seq(V)
      BY AppendProperties
    <3>2. before \in Nat /\ StageIndex(Append(past, offer), count) \in Nat
      BY <3>1, StageIn
    <3> HIDE DEF before, count
    <3> QED BY <3>2
  <2>2. result.counter = IF accepted /\ offer # 0 THEN offer ELSE floor
    <3>1. result = Concession(read, price.total, past, offer)
      <4> HIDE DEF price
      <4> QED BY <1>5 DEF Decision
    <3> HIDE DEF result
    <3> QED BY <3>1 DEF Concession
  <2>3. price.total = base
    <3> HIDE DEF price, least, result, floor, granted, stage, accepted
    <3>1. CASE ~discounts
      BY <1>1, <3>1, Zenon
    <3>2. CASE ~(price.percent > 0)
      <4>1. price.percent \in Percent
        BY <1>1, Zenon
      <4>2. \A n \in Percent : ~(n > 0) => n = 0
        BY DEF Percent
      <4> QED BY <1>1, <3>2, <4>1, <4>2, Zenon
    <3> QED BY <1>5, <3>1, <3>2, Zenon
  <2>4. granted \in Percent /\ granted <= most /\ most \in Percent
    <3>1. most \in Percent
      <4> HIDE DEF cap
      <4>1. {} \in SUBSET force /\ 0 \in Nat
        OBVIOUS
      <4> QED BY <1>0, <4>1, Most
    <3> HIDE DEF stage
    <3> QED BY <2>1, <3>1, GrantedBounded
  <2> HIDE DEF granted, most
  <2>5. floor \in Nat /\ least \in Nat /\ floor >= least
    <3>1. most <= most
      BY <2>4 DEF Percent
    <3> QED BY <2>3, <2>4, <3>1, Cuts
  <2>6. result.counter >= least
    <3> HIDE DEF floor, least, result
    <3> QED BY <1>2, <2>2, <2>5
  <2> QED BY <2>6 DEF most
<1> QED BY <1>3, <1>4, <1>5

-----------------------------------------------------------------------------
\* A longer history of offers is at no earlier stage.
LEMMA RisesGrow ==
    ASSUME NEW V \in SUBSET Nat, NEW s \in Seq(V), NEW t \in Seq(V),
           Len(s) <= Len(t), \A i \in 1 .. Len(s) : s[i] = t[i]
    PROVE Rises(s) \subseteq Rises(t)
<1>1. Len(s) \in Nat /\ DOMAIN s = 1 .. Len(s) /\ Len(t) \in Nat /\ DOMAIN t = 1 .. Len(t)
  BY LenProperties
<1>2. ASSUME NEW i \in Rises(s) PROVE i \in Rises(t)
  <2>1. i \in 1 .. Len(s) /\ i \in 1 .. Len(t)
    BY <1>1, <1>2 DEF Rises
  <2>2. \A j \in 1 .. i : s[j] = t[j]
    BY <1>1, <2>1
  <2> DEFINE bs == {j \in 1 .. i - 1 : s[j] # 0}
             bt == {j \in 1 .. i - 1 : t[j] # 0}
  <2>3. bs = bt /\ s[i] = t[i]
    BY <2>1, <2>2
  <2>4. s[i] # 0 /\ bs # {} /\ \A j \in bs : s[j] < s[i]
    BY <1>2 DEF Rises
  <2>5. \A j \in bt : t[j] < t[i]
    BY <2>1, <2>2, <2>3, <2>4
  <2>6. t[i] # 0 /\ bt # {} /\ i \in DOMAIN t
    BY <1>1, <2>1, <2>3, <2>4
  <2> QED BY <2>5, <2>6 DEF Rises
<1> QED BY <1>2

LEMMA RisesFinite ==
    ASSUME NEW V, NEW s \in Seq(V)
    PROVE IsFiniteSet(Rises(s)) /\ Cardinality(Rises(s)) \in Nat
<1>1. Rises(s) \subseteq 1 .. Len(s) /\ Len(s) \in Nat
  BY LenProperties DEF Rises
<1>2. IsFiniteSet(1 .. Len(s))
  BY <1>1, FS_Interval
<1>3. IsFiniteSet(Rises(s))
  BY <1>1, <1>2, FS_Subset
<1> QED BY <1>3, FS_CardinalityType

LEMMA StageGrows ==
    ASSUME NEW V \in SUBSET Nat, NEW s \in Seq(V), NEW t \in Seq(V),
           Len(s) <= Len(t), \A i \in 1 .. Len(s) : s[i] = t[i], NEW count \in Nat
    PROVE StageIndex(s, count) <= StageIndex(t, count)
<1>1. Rises(s) \in SUBSET Rises(t)
  BY RisesGrow
<1>2. /\ IsFiniteSet(Rises(t)) /\ Cardinality(Rises(t)) \in Nat
      /\ Cardinality(Rises(s)) \in Nat
  BY RisesFinite
<1>3. Cardinality(Rises(s)) <= Cardinality(Rises(t))
  BY <1>1, <1>2, FS_Subset
<1> QED BY <1>2, <1>3 DEF StageIndex, Clamped

\* An offer without a number moves no stage.
LEMMA SilentOffer ==
    ASSUME NEW V \in SUBSET Nat, 0 \in V, NEW past \in Seq(V)
    PROVE Rises(Append(past, 0)) = Rises(past)
<1> DEFINE t == Append(past, 0)
<1>1. /\ t \in Seq(V) /\ Len(t) = Len(past) + 1 /\ t[Len(past) + 1] = 0
      /\ \A i \in 1 .. Len(past) : t[i] = past[i]
  BY AppendProperties
<1>2. Len(past) \in Nat /\ DOMAIN t = 1 .. Len(t) /\ DOMAIN past = 1 .. Len(past)
  BY <1>1, LenProperties
<1> HIDE DEF t
<1>3. Rises(past) \subseteq Rises(t)
  BY <1>1, <1>2, RisesGrow
<1>4. ASSUME NEW i \in Rises(t) PROVE i \in Rises(past)
  <2> DEFINE bt == {j \in 1 .. i - 1 : t[j] # 0}
             bp == {j \in 1 .. i - 1 : past[j] # 0}
  <2>1. i \in 1 .. Len(t) /\ t[i] # 0 /\ bt # {} /\ \A j \in bt : t[j] < t[i]
    BY <1>2, <1>4 DEF Rises
  <2>2. i # Len(past) + 1
    BY <1>1, <2>1
  <2>3. i \in 1 .. Len(past)
    BY <1>1, <1>2, <2>1, <2>2
  <2>4. \A j \in 1 .. i : past[j] = t[j]
    BY <1>1, <1>2, <2>3
  <2>5. bp = bt /\ past[i] = t[i]
    BY <2>3, <2>4
  <2>6. \A j \in bp : past[j] < past[i]
    BY <2>1, <2>3, <2>4, <2>5
  <2> QED BY <1>2, <2>1, <2>3, <2>5, <2>6 DEF Rises
<1> QED BY <1>3, <1>4 DEF t

\* What rules whose ladders climb grant at a later stage is no less.
LEMMA LadderClimbs ==
    ASSUME NEW r \in Rule, r.ladder # << >>, Climbs(r),
           NEW a \in Nat, NEW b \in Nat, a <= b
    PROVE StagedValue(r, a) <= StagedValue(r, b)
<1> DEFINE n == Len(r.ladder)
<1>1. r.ladder \in Seq(Percent)
  BY DEF Rule
<1>2. n \in Nat \ {0}
  BY <1>1, EmptySeq, LenProperties
<1>3. Clamped(a, n) <= Clamped(b, n) /\ Clamped(a, n) \in Int /\ Clamped(b, n) \in Int
  <2> HIDE DEF n
  <2> QED BY <1>2 DEF Clamped
<1>4. /\ Clamped(a, n) + 1 \in DOMAIN r.ladder
      /\ Clamped(b, n) + 1 \in DOMAIN r.ladder
  BY Stages
<1>5. Clamped(a, n) + 1 <= Clamped(b, n) + 1
  <2> HIDE DEF n
  <2> QED BY <1>3
<1> QED BY <1>4, <1>5 DEF Climbs, StagedValue

LEMMA BestClimbs ==
    ASSUME NEW rules \in SUBSET Rule, \A r \in rules : Climbs(r),
           NEW a \in Nat, NEW b \in Nat, a <= b
    PROVE LET early == BestStagedOrFlat(rules, a).percent
              late == BestStagedOrFlat(rules, b).percent
          IN  /\ early \in Percent \cup {NoPercent} /\ late \in Percent \cup {NoPercent}
              /\ early <= late
              /\ early = NoPercent <=> late = NoPercent
<1> DEFINE staged == {r \in rules : r.ladder # << >>}
           early == BestStagedOrFlat(rules, a).percent
           late == BestStagedOrFlat(rules, b).percent
           top(st) == CHOOSE r \in staged : \A s \in staged :
                        StagedValue(s, st) <= StagedValue(r, st)
<1>1. early \in Percent \cup {NoPercent} /\ late \in Percent \cup {NoPercent}
  BY Grants
<1>2. CASE staged = {}
  <2>1. BestStagedOrFlat(rules, a) = BestFlat(rules) /\ BestStagedOrFlat(rules, b) = BestFlat(rules)
    BY <1>2 DEF BestStagedOrFlat
  <2>2. early = late
    BY <2>1
  <2> HIDE DEF early, late
  <2> QED BY <1>1, <2>2 DEF early, late, Percent, NoPercent
<1>3. CASE staged # {}
  <2>1. ASSUME NEW st \in Nat
        PROVE /\ top(st) \in staged
              /\ \A s \in staged : StagedValue(s, st) <= StagedValue(top(st), st)
    <3> DEFINE values == {StagedValue(r, st) : r \in staged}
    <3>1. values \subseteq Percent \cup {NoPercent} /\ values # {}
      BY <1>3, Stages
    <3>2. Max(values) \in values /\ \A y \in values : y <= Max(values)
      BY <3>1, MaxPercent
    <3>3. PICK r \in staged : StagedValue(r, st) = Max(values)
      BY <3>2
    <3>4. \A s \in staged : StagedValue(s, st) <= StagedValue(r, st)
      BY <3>2, <3>3
    <3> QED BY <3>4
  <2>2. early = StagedValue(top(a), a) /\ late = StagedValue(top(b), b)
    BY <1>3 DEF BestStagedOrFlat
  <2>3. top(a) \in staged /\ top(b) \in staged
    BY <2>1
  <2>4. StagedValue(top(a), b) <= StagedValue(top(b), b)
    BY <2>1, <2>3
  <2> DEFINE ta == top(a)
             tb == top(b)
  <2> HIDE DEF ta, tb
  <2>5. ta \in staged /\ tb \in staged /\ early = StagedValue(ta, a) /\ late = StagedValue(tb, b)
    BY <2>2, <2>3 DEF ta, tb
  <2>6. StagedValue(ta, b) <= StagedValue(tb, b)
    BY <2>4 DEF ta, tb
  <2>7. StagedValue(ta, a) <= StagedValue(ta, b)
    BY <2>5, LadderClimbs
  <2>8. /\ StagedValue(ta, a) \in Percent /\ StagedValue(ta, b) \in Percent
        /\ StagedValue(tb, b) \in Percent
    BY <2>5, Stages
  <2> DEFINE x == StagedValue(ta, a)
             y == StagedValue(ta, b)
             z == StagedValue(tb, b)
  <2> HIDE DEF early, late, x, y, z
  <2>9. /\ early = x /\ late = z /\ x <= y /\ y <= z
        /\ x \in Percent /\ y \in Percent /\ z \in Percent
    BY <2>5, <2>6, <2>7, <2>8 DEF x, y, z
  <2>10. early <= late /\ early # NoPercent /\ late # NoPercent
    BY <2>9 DEF Percent, NoPercent
  <2> QED BY <1>1, <2>10 DEF early, late
<1> QED BY <1>2, <1>3

LEMMA GrantedClimbs ==
    ASSUME NEW read, ReadOK(read), \A r \in read.rules \cup read.special : Climbs(r),
           NEW a \in Nat, NEW b \in Nat, a <= b
    PROVE Granted(read, a) <= Granted(read, b)
<1> DEFINE rules == read.rules
           special == read.special
           repeat == read.repeat
           cap == read.policy.cap
<1>0. /\ rules \in SUBSET Rule /\ special \in SUBSET Rule /\ cap \in Percent
      /\ \A r \in rules \cup special : Climbs(r)
  BY DEF ReadOK
<1> DEFINE own(n) == BestStagedOrFlat(OfType(rules, "discount_repeat_guest"), n)
           others(n) == BestStagedOrFlat(OfType(rules, "discount_guest_requests"), n)
           custom(n) == CustomCeiling(special, n)
           trigger(n) == Trigger(rules, repeat, n)
           asked(n) == IF Found(trigger(n)) THEN trigger(n)
                       ELSE [NoDiscount EXCEPT !.percent = DefaultPercent]
           P == Percent \cup {NoPercent}
<1>1. /\ own(a).percent \in P /\ own(b).percent \in P /\ own(a).percent <= own(b).percent
      /\ own(a).percent = NoPercent <=> own(b).percent = NoPercent
  <2> DEFINE these == OfType(rules, "discount_repeat_guest")
  <2>1. these \in SUBSET Rule /\ \A r \in these : Climbs(r)
    BY <1>0 DEF OfType
  <2> HIDE DEF these
  <2>2. LET early == BestStagedOrFlat(these, a).percent
            late == BestStagedOrFlat(these, b).percent
        IN  /\ early \in P /\ late \in P /\ early <= late
            /\ early = NoPercent <=> late = NoPercent
    BY <2>1, BestClimbs
  <2> QED BY <2>2 DEF these
<1>2. /\ others(a).percent \in P /\ others(b).percent \in P
      /\ others(a).percent <= others(b).percent
      /\ others(a).percent = NoPercent <=> others(b).percent = NoPercent
  <2> DEFINE these == OfType(rules, "discount_guest_requests")
  <2>1. these \in SUBSET Rule /\ \A r \in these : Climbs(r)
    BY <1>0 DEF OfType
  <2> HIDE DEF these
  <2>2. LET early == BestStagedOrFlat(these, a).percent
            late == BestStagedOrFlat(these, b).percent
        IN  /\ early \in P /\ late \in P /\ early <= late
            /\ early = NoPercent <=> late = NoPercent
    BY <2>1, BestClimbs
  <2> QED BY <2>2 DEF these
<1>3. /\ custom(a).percent \in P /\ custom(b).percent \in P
      /\ custom(a).percent <= custom(b).percent
  <2> DEFINE these == OfType(special, "custom")
  <2>1. these \in SUBSET Rule /\ \A r \in these : Climbs(r)
    BY <1>0 DEF OfType
  <2> HIDE DEF these
  <2>2. LET early == BestStagedOrFlat(these, a).percent
            late == BestStagedOrFlat(these, b).percent
        IN  early \in P /\ late \in P /\ early <= late
    BY <2>1, BestClimbs
  <2> QED BY <2>2 DEF these, CustomCeiling
<1>4. \A n : trigger(n) = IF repeat /\ own(n).percent # NoPercent THEN own(n) ELSE others(n)
  BY DEF Trigger, Found
<1>5. \A n : asked(n).percent = IF trigger(n).percent # NoPercent THEN trigger(n).percent
                                 ELSE DefaultPercent
  BY DEF Found, NoDiscount
<1>6. \A n : Winner(read, n)
                = IF custom(n).percent > asked(n).percent THEN custom(n) ELSE asked(n)
  BY DEF Winner
<1>7. \A n : Granted(read, n)
                = IF Winner(read, n).percent < Max({cap, custom(n).percent})
                  THEN Winner(read, n).percent ELSE Max({cap, custom(n).percent})
  BY DEF Granted
<1> DEFINE ta == trigger(a).percent
           tb == trigger(b).percent
           ca == custom(a).percent
           cb == custom(b).percent
           wa == Winner(read, a).percent
           wb == Winner(read, b).percent
           ma == Max({cap, custom(a).percent})
           mb == Max({cap, custom(b).percent})
<1>8. /\ ta \in P /\ tb \in P /\ ta <= tb /\ (ta = NoPercent <=> tb = NoPercent)
  <2> HIDE DEF own, others, trigger, P
  <2>1. CASE repeat /\ own(a).percent # NoPercent
    <3>1. ta = own(a).percent /\ tb = own(b).percent
      BY <1>1, <1>4, <2>1
    <3> QED BY <1>1, <3>1
  <2>2. CASE ~(repeat /\ own(a).percent # NoPercent)
    <3>1. ta = others(a).percent /\ tb = others(b).percent
      BY <1>1, <1>4, <2>2
    <3> QED BY <1>2, <3>1
  <2> QED BY <2>1, <2>2
<1>9. /\ wa = IF ca > asked(a).percent THEN ca ELSE asked(a).percent
      /\ wb = IF cb > asked(b).percent THEN cb ELSE asked(b).percent
  <2> HIDE DEF custom, asked
  <2> QED BY <1>6
<1>10. /\ asked(a).percent = IF ta # NoPercent THEN ta ELSE DefaultPercent
       /\ asked(b).percent = IF tb # NoPercent THEN tb ELSE DefaultPercent
  <2> HIDE DEF trigger, asked
  <2> QED BY <1>5
<1>11. /\ ma = IF ca > cap THEN ca ELSE cap
       /\ mb = IF cb > cap THEN cb ELSE cap
  <2>1. \A x \in P : Max({cap, x}) = IF x > cap THEN x ELSE cap
    <3> TAKE x \in P
    <3> HIDE DEF cap
    <3> DEFINE S == {cap, x}
    <3>1. S \subseteq Percent \cup {NoPercent} /\ S # {}
      BY <1>0
    <3>2. cap \in S /\ x \in S /\ \A y \in S : y = cap \/ y = x
      OBVIOUS
    <3> HIDE DEF S
    <3>3. Max(S) \in S /\ \A y \in S : y <= Max(S)
      BY <3>1, MaxPercent
    <3>4. (Max(S) = cap \/ Max(S) = x) /\ cap <= Max(S) /\ x <= Max(S)
      BY <3>2, <3>3
    <3>5. Max(S) = IF x > cap THEN x ELSE cap
      BY <1>0, <3>4 DEF Percent, NoPercent
    <3> QED BY <3>5 DEF S
  <2> HIDE DEF custom, P, cap
  <2> QED BY <1>3, <2>1
<1> HIDE DEF own, others, custom, trigger, ta, tb, ca, cb, wa, wb, ma, mb, cap
<1>12. ca \in P /\ cb \in P /\ ca <= cb
  BY <1>3 DEF ca, cb
<1> HIDE DEF asked
<1>13. /\ wa <= wb /\ wa \in Percent /\ wb \in Percent
  BY <1>8, <1>9, <1>10, <1>12 DEF Percent, NoPercent, DefaultPercent
<1>14. ma <= mb /\ ma \in Percent /\ mb \in Percent
  BY <1>0, <1>11, <1>12 DEF Percent, NoPercent
<1>15. (IF wa < ma THEN wa ELSE ma) <= (IF wb < mb THEN wb ELSE mb)
  BY <1>13, <1>14 DEF Percent
<1> QED BY <1>7, <1>15 DEF wa, wb, ma, mb

-----------------------------------------------------------------------------
\* A longer-stay discount that takes anything off leaves less.
LEMMA CutsDeep ==
    ASSUME NEW base \in Nat, NEW p \in Percent, p > 0, Discounted(base, p) # 0
    PROVE Discounted(base, p) < base
<1>1. p \in Int /\ 100 - p \in Nat /\ p - 1 \in Nat
  BY DEF Percent
<1> DEFINE x == base * (100 - p)
           y == base * (p - 1)
<1>2. x \in Nat /\ y \in Nat /\ x = 100 * base - (y + base)
  BY <1>1
<1>3. Discounted(base, p) = x \div 100
  BY DEF Discounted
<1> HIDE DEF x, y
<1>4. base # 0 => x < 100 * base
  BY <1>2
<1>5. CASE base = 0
  <2>1. x = 0
    BY <1>2, <1>5
  <2>2. 0 \div 100 = 0
    OBVIOUS
  <2> QED BY <1>3, <2>1, <2>2
<1>6. CASE base # 0
  <2>1. x \div 100 < base
    BY <1>2, <1>4, <1>6
  <2> QED BY <1>3, <2>1
<1> QED BY <1>5, <1>6

\* The floor of a decision: the price itself after a longer-stay discount or
\* without the host's consent, else what the stage of the offers is granted.
FloorIs(result, standard, permitted, percent) ==
    \/ /\ result.asking \in Nat /\ result.asking < standard
       /\ result.floor = result.asking
    \/ /\ result.asking = standard
       /\ result.floor = IF permitted THEN Discounted(standard, percent) ELSE standard

LEMMA DecisionFloor ==
    ASSUME NEW los \in SUBSET Rule, NEW p \in Prop, NEW st \in Stay,
           NEW read, ReadOK(read), NEW base \in Nat, NEW discounts \in BOOLEAN,
           NEW past \in Seq(Nat), NEW offer \in Nat,
           Price(los, p, st, base, discounts).total # 0
    PROVE LET result == Decision(read, Price(los, p, st, base, discounts), discounts,
                                 past, offer)
              stage == StageIndex(Append(past, offer), StageCount(read))
          IN  FloorIs(result, base, read.policy.allowed, Granted(read, stage))
<1> DEFINE price == Price(los, p, st, base, discounts)
           permitted == read.policy.allowed
           result == Decision(read, price, discounts, past, offer)
           stage == StageIndex(Append(past, offer), StageCount(read))
           granted == Granted(read, stage)
<1>1. /\ price.total \in Nat /\ price.percent \in Percent
      /\ price.percent = 0 => price.total = base
      /\ ~discounts => price.percent = 0
      /\ price.total = Discounted(base, price.percent)
  BY PriceWithout DEF Price
<1>2. CASE discounts /\ price.percent > 0
  <2> DEFINE taken == offer # 0 /\ offer >= price.total
  <2>1. result = Flat(price.total, taken, IF taken THEN offer ELSE price.total)
    BY <1>2 DEF Decision
  <2>2. result.asking = price.total /\ result.floor = price.total
    BY <2>1 DEF Flat
  <2>3. price.total < base
    <3> HIDE DEF price
    <3> QED BY <1>1, <1>2, CutsDeep DEF price
  <2>4. FloorIs(result, base, permitted, granted)
    <3> HIDE DEF result, granted, price
    <3> QED BY <1>1, <2>2, <2>3 DEF FloorIs
  <2> QED BY <2>4
<1>3. ASSUME ~(discounts /\ price.percent > 0) PROVE price.total = base
  <2>1. \A n \in Percent : ~(n > 0) => n = 0
    BY DEF Percent
  <2> HIDE DEF price
  <2> QED BY <1>1, <1>3, <2>1, Zenon
<1>4. CASE ~(discounts /\ price.percent > 0) /\ ~permitted
  <2>1. result = Flat(price.total, FALSE, price.total)
    BY <1>4 DEF Decision
  <2>2. result.asking = price.total /\ result.floor = price.total
    BY <2>1 DEF Flat
  <2>3. FloorIs(result, base, permitted, granted)
    <3> HIDE DEF result, granted, price
    <3> QED BY <1>3, <1>4, <2>2 DEF FloorIs
  <2> QED BY <2>3
<1>5. CASE ~(discounts /\ price.percent > 0) /\ permitted
  <2> DEFINE count == StageCount(read)
             now == IF offer = 0 THEN StageIndex(past, count)
                    ELSE StageIndex(Append(past, offer), count)
  <2>1. now = stage
    <3>1. offer = 0 => Rises(Append(past, offer)) = Rises(past)
      <4>1. Nat \in SUBSET Nat /\ 0 \in Nat
        OBVIOUS
      <4> QED BY <4>1, SilentOffer
    <3>2. offer = 0 => StageIndex(Append(past, offer), count) = StageIndex(past, count)
      BY <3>1 DEF StageIndex
    <3> HIDE DEF count
    <3> QED BY <3>2 DEF count
  <2>2. result = Concession(read, price.total, past, offer)
    <3> HIDE DEF price
    <3> QED BY <1>5 DEF Decision
  <2>3. /\ result.asking = price.total
        /\ result.floor = Discounted(price.total, Granted(read, now))
    <3> HIDE DEF result
    <3> QED BY <2>2 DEF Concession
  <2> HIDE DEF now, result, stage
  <2>4. /\ result.asking = base /\ result.floor = Discounted(base, Granted(read, stage))
    BY <1>3, <1>5, <2>1, <2>3
  <2> QED BY <1>5, <2>4 DEF FloorIs, result, stage
<1> QED BY <1>2, <1>4, <1>5

\* Any rules in force are rules, and finitely many.
LEMMA InForceKnown ==
    ASSUME NEW state \in [Draft -> Status]
    PROVE InForce(state) \in SUBSET Rule /\ IsFiniteSet(InForce(state))
<1> DEFINE live == {r \in Draft : state[r] = "approved"}
           texts == {Text[r] : r \in live}
           f == [r \in live |-> Text[r]]
<1>1. IsFiniteSet(Draft) /\ Text \in [Draft -> Rule]
  BY TalkAssumption
<1>2. IsFiniteSet(live)
  BY <1>1, FS_Subset
<1>3. f \in Surjection(live, texts)
  BY DEF Surjection
<1>4. IsFiniteSet(texts) /\ texts \in SUBSET Rule
  BY <1>1, <1>2, <1>3, FS_Surjection
<1> QED BY <1>4 DEF InForce

LEMMA RulesKnown ==
    ASSUME status \in [Draft -> Status]
    PROVE /\ Rules \in SUBSET Rule /\ IsFiniteSet(Rules)
          /\ Table \cup Rules \in SUBSET Rule
BY InForceKnown, TalkAssumption DEF Rules

\* What negotiate_rate reads, lookups that fail included, is part of what is in
\* force.
PartInForce(read, p) == read.special \in SUBSET ForProperty(Table \cup Rules, p)

LEMMA ReadingsKnown ==
    ASSUME status \in [Draft -> Status], allowed \in BOOLEAN, NEW c, c.loyal \in BOOLEAN,
           NEW read \in Readings(c)
    PROVE ReadOK(read) /\ PartInForce(read, c.property)
<1>1. Rules \in SUBSET Rule /\ IsFiniteSet(Rules)
  BY RulesKnown
<1>2. /\ read.rules \in Lookups /\ read.policy \in Policies
      /\ read.special \in {ForProperty(rules, c.property) : rules \in Lookups}
      /\ read.repeat \in {Repeat(c), c.loyal}
  BY DEF Readings
<1>3. PICK rules \in Lookups : read.special = ForProperty(rules, c.property)
  BY <1>2
<1>4. \A these \in Lookups : these \in SUBSET Rules
  BY DEF Lookups
<1>5. /\ read.rules \in SUBSET Rules /\ read.special \in SUBSET Rules
      /\ read.special \in SUBSET ForProperty(Table \cup Rules, c.property)
  BY <1>2, <1>3, <1>4 DEF ForProperty
<1>6. /\ IsFiniteSet(read.rules) /\ IsFiniteSet(read.special)
      /\ read.rules \in SUBSET Rule /\ read.special \in SUBSET Rule
  BY <1>1, <1>5, FS_Subset
<1>7. read.repeat \in BOOLEAN
  <2>1. (Known = "repeat") \in BOOLEAN
    BY Zenon
  <2>2. Repeat(c) = c.loyal \/ Repeat(c) = (Known = "repeat")
    BY Zenon DEF Repeat
  <2>3. Repeat(c) \in BOOLEAN
    BY <2>1, <2>2, Zenon
  <2>4. read.repeat = Repeat(c) \/ read.repeat = c.loyal
    BY <1>2, Zenon
  <2> QED BY <2>3, <2>4, Zenon
<1>8. read.policy.allowed \in BOOLEAN /\ read.policy.cap \in Percent
  <2>1. DefaultCap \in Percent
    BY DEF DefaultCap, Percent
  <2>3. Cap \in Percent
    BY TalkAssumption
  <2>2. read.policy = [allowed |-> allowed, cap |-> Cap]
        \/ read.policy = [allowed |-> TRUE, cap |-> DefaultCap]
    BY <1>2 DEF Policies
  <2>4. CASE read.policy = [allowed |-> allowed, cap |-> Cap]
    <3>1. read.policy.allowed = allowed /\ read.policy.cap = Cap
      BY <2>4
    <3> QED BY <2>3, <3>1, Zenon
  <2>5. CASE read.policy = [allowed |-> TRUE, cap |-> DefaultCap]
    <3>1. read.policy.allowed = TRUE /\ read.policy.cap = DefaultCap
      BY <2>5
    <3>2. read.policy.allowed \in BOOLEAN
      BY <3>1, Zenon
    <3> QED BY <2>1, <3>1, <3>2, Zenon
  <2> QED BY <2>2, <2>4, <2>5, Zenon
<1> QED BY <1>5, <1>6, <1>7, <1>8 DEF ReadOK, PartInForce

-----------------------------------------------------------------------------
(***************************************************************************)
(* The inductive invariant.  The history of offers is a sequence of events *)
(* of one property, in the state and in every tool that kept a list the    *)
(* state dropped; the quote and the decision name one price.               *)
(***************************************************************************)
Waiting ==
    [op: {"idle"}]
    \cup [op: {"price"}, property: Prop, stay: Stay, discounts: BOOLEAN]
    \cup [op: {"negotiate"}, property: Prop, stay: Stay, offer: Offer \cup {0},
          party: Party \cup {None}, loyal: BOOLEAN, discounts: BOOLEAN,
          prior: Seq(Event) \cup {Live}]
SlotsOK == status \in [Draft -> Status] /\ allowed \in BOOLEAN /\ slots \in Slots
              /\ pitched \subseteq Prop
LogOK == log \in Seq(Event) /\ \A i \in DOMAIN log : log[i].property = log[1].property
ToolOK == tool \in [Tool -> Waiting]
IInv == SlotsOK /\ LogOK /\ ToolOK /\ QuoteMatchesDecision /\ NeverStacked

LEMMA InvTypes == IInv => TypeOK
<1> SUFFICES ASSUME IInv PROVE TypeOK
  OBVIOUS
<1>1. \A i \in DOMAIN log : log[i] \in Event
  BY LenProperties, ElementOfSeq DEF IInv, LogOK
<1> QED BY <1>1 DEF IInv, SlotsOK, LogOK, TypeOK

LEMMA NothingInit == Init => IInv
<1> SUFFICES ASSUME Init PROVE IInv
  OBVIOUS
<1>1. SlotsOK
  BY TalkAssumption DEF Init, SlotsOK, Status, Slots, NothingKnown
<1>2. LogOK
  BY DEF Init, LogOK
<1>3. ToolOK
  BY DEF Init, ToolOK, Waiting, Idle
<1>4. QuoteMatchesDecision /\ NeverStacked
  BY DEF Init, QuoteMatchesDecision, NeverStacked
<1> QED BY <1>1, <1>2, <1>3, <1>4 DEF IInv

\* What the tools learn about the stay.
LEMMA SlotsLearn ==
    ASSUME NEW s \in Slots
    PROVE /\ \A n \in Party \cup {None} : WithParty(s, n) \in Slots
          /\ \A st \in Stay \cup {None} : WithStay(s, st) \in Slots
<1>1. \A n \in Party \cup {None} : WithParty(s, n) \in Slots
  BY DEF WithParty, Slots
<1>2. ASSUME NEW st \in Stay \cup {None} PROVE WithStay(s, st) \in Slots
  <2>1. CASE Bookable(st)
    <3>1. WithStay(s, st) = [s EXCEPT !.dates = st, !.text = FALSE, !.nights = None]
      BY <2>1 DEF WithStay
    <3> QED BY <2>1, <3>1 DEF Bookable, Slots
  <2>2. CASE ~Bookable(st) /\ st \in Length
    <3>1. WithStay(s, st) = [s EXCEPT !.nights = st]
      BY <2>2 DEF WithStay
    <3> QED BY <2>2, <3>1 DEF Slots
  <2>3. CASE ~Bookable(st) /\ st \notin Length
    BY <2>3 DEF WithStay
  <2> QED BY <2>1, <2>2, <2>3
<1> QED BY <1>1, <1>2

\* A list that the state drops is still a list of events.
LEMMA DetachTypes ==
    ASSUME NEW waiting \in [Tool -> Waiting], log \in Seq(Event)
    PROVE Detach(waiting) \in [Tool -> Waiting]
<1> SUFFICES ASSUME NEW t \in Tool
             PROVE (IF waiting[t].op = "negotiate" /\ waiting[t].prior = Live
                    THEN [waiting[t] EXCEPT !.prior = log] ELSE waiting[t]) \in Waiting
  BY DEF Detach
<1>1. waiting[t] \in Waiting
  OBVIOUS
<1>2. CASE waiting[t].op = "negotiate" /\ waiting[t].prior = Live
  <2>1. waiting[t] \in [op: {"negotiate"}, property: Prop, stay: Stay,
            offer: Offer \cup {0}, party: Party \cup {None}, loyal: BOOLEAN,
            discounts: BOOLEAN, prior: Seq(Event) \cup {Live}]
    BY <1>1, <1>2 DEF Waiting
  <2> DEFINE w == waiting[t]
  <2> HIDE DEF w
  <2>2. [w EXCEPT !.prior = log] \in Waiting
    BY <2>1 DEF Waiting, w
  <2> QED BY <1>2, <2>2 DEF w
<1>3. CASE ~(waiting[t].op = "negotiate" /\ waiting[t].prior = Live)
  BY <1>1, <1>3
<1> QED BY <1>2, <1>3

\* The history after record_negotiation_event.
LEMMA RecordKeeps ==
    ASSUME LogOK, NEW p \in Prop, NEW event \in Event, event.property = p,
           NEW waiting \in [Tool -> Waiting], RecordEvent(p, event, waiting)
    PROVE LogOK' /\ ToolOK'
<1>1. log \in Seq(Event) /\ Len(log) \in Nat /\ DOMAIN log = 1 .. Len(log)
  BY LenProperties DEF LogOK
<1>2. CASE log # << >> /\ log[Len(log)].property # p
  <2>1. log' = <<event>> /\ tool' = Detach(waiting)
    BY <1>2 DEF RecordEvent
  <2>2. LogOK'
    BY <2>1 DEF LogOK
  <2>3. ToolOK'
    BY <1>1, <2>1, DetachTypes DEF ToolOK
  <2> QED BY <2>2, <2>3
<1>3. CASE ~(log # << >> /\ log[Len(log)].property # p)
  <2>1. log' = Append(log, event) /\ tool' = waiting
    BY <1>3 DEF RecordEvent
  <2>2. /\ log' \in Seq(Event) /\ Len(log') = Len(log) + 1
        /\ DOMAIN log' = 1 .. Len(log) + 1
        /\ \A i \in 1 .. Len(log) : log'[i] = log[i]
        /\ log'[Len(log) + 1] = event
    <3>1. /\ Append(log, event) \in Seq(Event)
          /\ Len(Append(log, event)) = Len(log) + 1
          /\ \A i \in 1 .. Len(log) : Append(log, event)[i] = log[i]
          /\ Append(log, event)[Len(log) + 1] = event
      BY <1>1, AppendProperties
    <3>2. DOMAIN Append(log, event) = 1 .. Len(log) + 1
      BY <3>1, LenProperties
    <3> QED BY <2>1, <3>1, <3>2
  <2>3. \A i \in DOMAIN log' : log'[i].property = log'[1].property
    <3>1. CASE log = << >>
      <4>1. Len(log) = 0
        BY <3>1
      <4> QED BY <2>2, <4>1
    <3>2. CASE log # << >>
      <4>1. Len(log) \in Nat \ {0}
        BY <1>1, <3>2, EmptySeq
      <4>2. log[Len(log)].property = p
        BY <1>3, <3>2
      <4>3. \A i \in 1 .. Len(log) : log[i].property = log[1].property
        BY <1>1 DEF LogOK
      <4>4. log[1].property = p
        BY <4>1, <4>2, <4>3
      <4> QED BY <2>2, <4>1, <4>3, <4>4
    <3> QED BY <3>1, <3>2
  <2> QED BY <2>1, <2>2, <2>3 DEF LogOK, ToolOK
<1> QED BY <1>2, <1>3

-----------------------------------------------------------------------------
\* What a waiting tool holds.
LEMMA WaitingTypes ==
    ASSUME ToolOK, LogOK, NEW t \in Tool
    PROVE /\ tool[t].op = "price" =>
                /\ tool[t].property \in Prop /\ tool[t].stay \in Stay
                /\ tool[t].discounts \in BOOLEAN
          /\ tool[t].op = "negotiate" =>
                /\ tool[t].property \in Prop /\ tool[t].stay \in Stay
                /\ tool[t].offer \in Offer \cup {0} /\ tool[t].party \in Party \cup {None}
                /\ tool[t].loyal \in BOOLEAN /\ tool[t].discounts \in BOOLEAN
                /\ Prior(tool[t]) \in Seq(Event)
<1>1. tool[t] \in Waiting
  BY DEF ToolOK
<1> DEFINE c == tool[t]
<1> HIDE DEF c
<1>2. c \in Waiting
  BY <1>1 DEF c
<1>3. ASSUME c.op = "price"
      PROVE c.property \in Prop /\ c.stay \in Stay /\ c.discounts \in BOOLEAN
  BY <1>2, <1>3 DEF Waiting
<1>4. ASSUME c.op = "negotiate"
      PROVE /\ c.property \in Prop /\ c.stay \in Stay
            /\ c.offer \in Offer \cup {0} /\ c.party \in Party \cup {None}
            /\ c.loyal \in BOOLEAN /\ c.discounts \in BOOLEAN
            /\ Prior(c) \in Seq(Event)
  <2>1. c \in [op: {"negotiate"}, property: Prop, stay: Stay, offer: Offer \cup {0},
          party: Party \cup {None}, loyal: BOOLEAN, discounts: BOOLEAN,
          prior: Seq(Event) \cup {Live}]
    BY <1>2, <1>4 DEF Waiting
  <2>2. c.prior \in Seq(Event) \cup {Live}
    BY <2>1
  <2>3. Prior(c) \in Seq(Event)
    BY <2>2 DEF Prior, LogOK
  <2> QED BY <2>1, <2>3
<1> QED BY <1>3, <1>4 DEF c

\* A tool that stops waiting.
LEMMA ToolEnds ==
    ASSUME ToolOK, NEW t \in Tool
    PROVE [tool EXCEPT ![t] = Idle] \in [Tool -> Waiting]
BY DEF ToolOK, Waiting, Idle

\* The offers on record are numbers, and so are the last one's.
LEMMA OffersNumbers ==
    ASSUME NEW events \in Seq(Event)
    PROVE Offers(events) \in Seq(Offer \cup {0}) /\ Offer \cup {0} \in SUBSET Nat
<1>1. Len(events) \in Nat /\ DOMAIN events = 1 .. Len(events)
  BY LenProperties
<1>2. \A i \in 1 .. Len(events) : events[i] \in Event
  BY ElementOfSeq
<1>3. \A i \in 1 .. Len(events) : events[i].offer \in Offer \cup {0}
  BY <1>2 DEF Event
<1>4. Offers(events) \in [1 .. Len(events) -> Offer \cup {0}]
  BY <1>1, <1>3 DEF Offers
<1>5. Offer \in SUBSET Nat
  BY TalkAssumption
<1> QED BY <1>1, <1>4, <1>5, IsASeq

\* What the offers of a history are when it grows.
LEMMA OffersAppend ==
    ASSUME NEW events \in Seq(Event), NEW event \in Event
    PROVE /\ Append(events, event) \in Seq(Event)
          /\ Offers(Append(events, event)) = Append(Offers(events), event.offer)
<1> DEFINE t == Append(events, event)
           o == Offers(events)
           n == Len(events)
<1>1. /\ t \in Seq(Event) /\ Len(t) = n + 1 /\ t[n + 1] = event
      /\ \A i \in 1 .. n : t[i] = events[i]
  BY AppendProperties
<1>2. n \in Nat /\ DOMAIN t = 1 .. n + 1 /\ DOMAIN events = 1 .. n
  BY <1>1, LenProperties
<1>3. o \in Seq(Offer \cup {0}) /\ event.offer \in Offer \cup {0}
  BY OffersNumbers DEF Event
<1>4. o = [i \in 1 .. n |-> events[i].offer]
  BY <1>2 DEF Offers
<1>5. Len(o) = n
  BY <1>2, <1>3, <1>4, LenProperties
<1> DEFINE a == Append(o, event.offer)
<1>6. /\ a \in Seq(Offer \cup {0}) /\ Len(a) = n + 1 /\ a[n + 1] = event.offer
      /\ \A i \in 1 .. n : a[i] = o[i]
  BY <1>3, <1>5, AppendProperties
<1>7. a = [i \in 1 .. n + 1 |-> a[i]]
  <2> HIDE DEF a
  <2> QED BY <1>6, LenProperties
<1>8. Offers(t) = [i \in 1 .. n + 1 |-> t[i].offer]
  BY <1>2 DEF Offers
<1> HIDE DEF a, o, t, n
<1>9. \A i \in 1 .. n + 1 : a[i] = t[i].offer
  <2> TAKE i \in 1 .. n + 1
  <2>1. CASE i = n + 1
    BY <1>1, <1>6, <2>1
  <2>2. CASE i # n + 1
    <3>1. i \in 1 .. n
      BY <1>2, <2>2
    <3> QED BY <1>1, <1>4, <1>6, <3>1
  <2> QED BY <2>1, <2>2
<1>10. Offers(t) = a
  BY <1>7, <1>8, <1>9
<1> QED BY <1>1, <1>10 DEF a, o, t

LEMMA OffersPrefix ==
    ASSUME NEW s \in Seq(Event), NEW t \in Seq(Event), IsPrefix(s, t)
    PROVE /\ Len(Offers(s)) <= Len(Offers(t))
          /\ \A i \in 1 .. Len(Offers(s)) : Offers(s)[i] = Offers(t)[i]
<1>1. /\ Len(s) \in Nat /\ DOMAIN s = 1 .. Len(s)
      /\ Len(t) \in Nat /\ DOMAIN t = 1 .. Len(t)
  BY LenProperties
<1>2. Len(s) <= Len(t) /\ SubSeq(s, 1, Len(s)) = SubSeq(t, 1, Len(s))
  BY DEF IsPrefix
<1>3. ASSUME NEW i \in 1 .. Len(s) PROVE s[i] = t[i]
  <2>1. \A j \in 1 .. Len(s) : s[j] \in Event /\ t[j] \in Event
    BY <1>1, <1>2, ElementOfSeq
  <2>2. SubSeq(s, 1, Len(s))[i] = s[1 + i - 1]
    BY <1>1, <2>1, SubSeqProperties
  <2>3. SubSeq(t, 1, Len(s))[i] = t[1 + i - 1]
    BY <1>1, <2>1, SubSeqProperties
  <2> QED BY <1>1, <1>2, <2>2, <2>3
<1>4. /\ Offers(s) = [i \in 1 .. Len(s) |-> s[i].offer]
      /\ Offers(t) = [i \in 1 .. Len(t) |-> t[i].offer]
  BY <1>1 DEF Offers
<1>5. Len(Offers(s)) = Len(s) /\ Len(Offers(t)) = Len(t)
  <2>1. /\ Offers(s) \in Seq(Offer \cup {0}) /\ Offers(t) \in Seq(Offer \cup {0})
    BY OffersNumbers
  <2> QED BY <1>1, <1>4, <2>1, LenProperties
<1> QED BY <1>1, <1>2, <1>3, <1>4, <1>5

\* A tool asks for the total of the price, whatever the guest offers.
LEMMA DecisionAsks ==
    ASSUME NEW read, NEW price, NEW discounts, NEW past, NEW offer
    PROVE Decision(read, price, discounts, past, offer).asking = price.total
BY DEF Decision, Flat, Concession

LEMMA StepBeginPricing ==
    ASSUME IInv, NEW t \in Tool, NEW p \in Prop, NEW st \in Stay, NEW n \in Party,
           NEW d \in BOOLEAN, BeginPricing(t, p, st, n, d)
    PROVE IInv'
<1>1. SlotsOK'
  <2>1. WithStay(slots, st) \in Slots
    BY SlotsLearn DEF IInv, SlotsOK
  <2>2. WithParty(WithStay(slots, st), n) \in Slots
    BY <2>1, SlotsLearn
  <2> QED BY <2>2 DEF IInv, SlotsOK, BeginPricing, host
<1>2. LogOK' /\ ToolOK'
  <2> DEFINE call == [op |-> "price", property |-> p, stay |-> st,
                      discounts |-> d \/ p \in pitched]
  <2>1. (d \/ p \in pitched) \in BOOLEAN
    BY Zenon
  <2>2. call \in Waiting
    BY <2>1 DEF Waiting
  <2>3. tool' = [tool EXCEPT ![t] = call]
    BY DEF BeginPricing
  <2> HIDE DEF call
  <2>4. ToolOK'
    BY <2>2, <2>3 DEF IInv, ToolOK
  <2> QED BY <2>4 DEF IInv, LogOK, BeginPricing
<1>3. QuoteMatchesDecision' /\ NeverStacked'
  BY DEF IInv, QuoteMatchesDecision, NeverStacked, BeginPricing, said
<1> QED BY <1>1, <1>2, <1>3 DEF IInv

LEMMA StepFinishPricing ==
    ASSUME IInv, NEW t \in Tool, FinishPricing(t)
    PROVE IInv'
<1>1. SlotsOK' /\ LogOK'
  BY DEF IInv, SlotsOK, LogOK, FinishPricing, host
<1>2. ToolOK'
  BY ToolEnds DEF IInv, ToolOK, FinishPricing
<1> DEFINE c == tool[t]
<1>3. ASSUME UNCHANGED said PROVE QuoteMatchesDecision' /\ NeverStacked'
  BY <1>3 DEF IInv, QuoteMatchesDecision, NeverStacked, said
<1>4. ASSUME ~UNCHANGED said PROVE QuoteMatchesDecision' /\ NeverStacked'
  <2>1. PICK base \in BaseOf[<<c.property, c.stay>>], longer \in Lookups :
            LET price == Price(Table \cup longer, c.property, c.stay, base, c.discounts)
            IN  /\ quoted' = Quote(c.property, c.stay, price, price.total, Cap)
                /\ SupersedeDecision
    BY <1>4 DEF FinishPricing
  <2>2. c.property \in Prop /\ c.stay \in Stay /\ c.discounts \in BOOLEAN
    BY WaitingTypes DEF IInv, FinishPricing
  <2>3. base \in Nat
    BY <2>1, <2>2, TalkAssumption
  <2> DEFINE force == Table \cup Rules
             los == Table \cup longer
             price == Price(los, c.property, c.stay, base, c.discounts)
             most == MostGenerous(force, c.property, c.stay, Cap)
  <2>0. force \in SUBSET Rule /\ los \in SUBSET force /\ los \in SUBSET Rule /\ Cap \in Percent
    BY RulesKnown, TalkAssumption DEF IInv, SlotsOK, Lookups
  <2>4. /\ price.standard = base /\ price.total \in Nat
        /\ price.total >= Discounted(base, most)
    <3> HIDE DEF force, los
    <3>2. price.standard = base /\ price.total \in Nat
      BY <2>0, <2>2, <2>3, PriceWithout
    <3>3. price.total >= Discounted(base, most)
      BY <2>0, <2>2, <2>3, PriceFair
    <3> QED BY <3>2, <3>3
  <2>5. /\ quoted'.total = price.total /\ quoted'.standard = price.standard
        /\ quoted'.most = most
    BY <2>1 DEF Quote
  <2>6. Discounted(quoted'.standard, quoted'.most) <= quoted'.total
    <3>1. Discounted(base, most) \in Int
      <4>2. most \in Percent
        <5> HIDE DEF force
        <5>1. 0 \in Nat /\ {} \in SUBSET ForProperty(force, c.property) /\ {} \in SUBSET force
          OBVIOUS
        <5> QED BY <2>0, <2>2, <5>1, Most
      <4> QED BY <2>3, <4>2 DEF Discounted, Percent
    <3> HIDE DEF price, most
    <3> QED BY <2>4, <2>5, <3>1
  <2>7. NeverStacked'
    BY <2>6 DEF NeverStacked, Discounted
  <2>8. QuoteMatchesDecision'
    BY <2>1 DEF SupersedeDecision, ClearDecision, QuoteMatchesDecision
  <2> QED BY <2>7, <2>8
<1> QED BY <1>1, <1>2, <1>3, <1>4 DEF IInv

LEMMA StepBeginNegotiate ==
    ASSUME IInv, NEW t \in Tool, NEW p \in Prop, NEW st \in Stay,
           NEW offer \in Offer \cup {0}, NEW n \in Party \cup {None},
           NEW l \in BOOLEAN, BeginNegotiate(t, p, st, offer, n, l)
    PROVE IInv'
<1> DEFINE call == [op |-> "negotiate", property |-> p, stay |-> st,
                    offer |-> offer, party |-> n, loyal |-> l,
                    discounts |-> p \in pitched, prior |-> Live]
<1>1. SlotsOK'
  <2>1. WithStay(slots, st) \in Slots
    BY SlotsLearn DEF IInv, SlotsOK
  <2> QED BY <2>1 DEF IInv, SlotsOK, BeginNegotiate, host
<1>2. call \in Waiting
  <2>1. (p \in pitched) \in BOOLEAN
    OBVIOUS
  <2> QED BY <2>1 DEF Waiting
<1>3. \/ /\ log' = << >> /\ ClearDecision
         /\ tool' = [Detach(tool) EXCEPT ![t] = call]
      \/ /\ tool' = [tool EXCEPT ![t] = call]
         /\ UNCHANGED <<log, decision, basis>>
  BY DEF BeginNegotiate
<1>4. UNCHANGED quoted
  BY DEF BeginNegotiate
<1> HIDE DEF call
<1>5. ASSUME log' = << >>, ClearDecision, tool' = [Detach(tool) EXCEPT ![t] = call]
      PROVE LogOK' /\ ToolOK' /\ QuoteMatchesDecision'
  <2>1. LogOK'
    BY <1>5 DEF LogOK
  <2>2. Detach(tool) \in [Tool -> Waiting]
    BY DetachTypes DEF IInv, ToolOK, LogOK
  <2>3. ToolOK'
    BY <1>2, <1>5, <2>2 DEF ToolOK
  <2>4. QuoteMatchesDecision'
    BY <1>5 DEF ClearDecision, QuoteMatchesDecision
  <2> QED BY <2>1, <2>3, <2>4
<1>6. ASSUME tool' = [tool EXCEPT ![t] = call], UNCHANGED <<log, decision, basis>>
      PROVE LogOK' /\ ToolOK' /\ QuoteMatchesDecision'
  <2>1. ToolOK'
    BY <1>2, <1>6 DEF IInv, ToolOK
  <2> QED BY <1>4, <1>6, <2>1 DEF IInv, LogOK, QuoteMatchesDecision
<1>7. LogOK' /\ ToolOK' /\ QuoteMatchesDecision'
  BY <1>3, <1>5, <1>6
<1>8. NeverStacked'
  BY <1>4 DEF IInv, NeverStacked
<1> QED BY <1>1, <1>7, <1>8 DEF IInv

LEMMA StepFinishNegotiate ==
    ASSUME IInv, NEW t \in Tool, FinishNegotiate(t)
    PROVE IInv'
<1> DEFINE c == tool[t]
           event == [offer |-> c.offer, property |-> c.property, stay |-> c.stay]
<1>1. /\ c.property \in Prop /\ c.stay \in Stay
      /\ c.offer \in Offer \cup {0} /\ c.party \in Party \cup {None}
      /\ c.loyal \in BOOLEAN /\ c.discounts \in BOOLEAN
      /\ Prior(c) \in Seq(Event)
  BY WaitingTypes DEF IInv, FinishNegotiate
<1>2. SlotsOK'
  <2>1. WithParty(slots, c.party) \in Slots
    BY <1>1, SlotsLearn DEF IInv, SlotsOK
  <2> QED BY <2>1 DEF IInv, SlotsOK, FinishNegotiate, host
<1>3. LogOK' /\ ToolOK'
  <2>1. event \in Event /\ event.property = c.property
    BY <1>1 DEF Event
  <2>2. [tool EXCEPT ![t] = Idle] \in [Tool -> Waiting]
    BY ToolEnds DEF IInv
  <2>3. RecordEvent(c.property, event, [tool EXCEPT ![t] = Idle])
    BY DEF FinishNegotiate
  <2> HIDE DEF event, c
  <2> QED BY <1>1, <2>1, <2>2, <2>3, RecordKeeps DEF IInv
<1>4. ASSUME UNCHANGED said PROVE QuoteMatchesDecision' /\ NeverStacked'
  BY <1>4 DEF IInv, QuoteMatchesDecision, NeverStacked, said
<1>5. ASSUME ~UNCHANGED said PROVE QuoteMatchesDecision' /\ NeverStacked'
  <2>1. PICK base \in BaseOf[<<c.property, c.stay>>], longer \in Lookups,
             read \in Readings(c) :
            LET price == Price(Table \cup longer, c.property, c.stay, base, c.discounts)
                result == Decision(read, price, c.discounts, Offers(Prior(c)), c.offer)
            IN  /\ quoted' = Quote(c.property, c.stay, price, result.counter,
                                   read.policy.cap)
                /\ decision' = [property |-> c.property, result |-> result]
    BY <1>5 DEF FinishNegotiate
  <2>2. base \in Nat
    BY <1>1, <2>1, TalkAssumption
  <2> DEFINE force == Table \cup Rules
             los == Table \cup longer
             price == Price(los, c.property, c.stay, base, c.discounts)
             result == Decision(read, price, c.discounts, Offers(Prior(c)), c.offer)
             most == MostGenerous(force, c.property, c.stay, read.policy.cap)
  <2>3. force \in SUBSET Rule /\ los \in SUBSET force /\ los \in SUBSET Rule
    BY RulesKnown DEF IInv, SlotsOK, Lookups
  <2>4. ReadOK(read) /\ read.special \in SUBSET ForProperty(force, c.property)
    <3>1. status \in [Draft -> Status] /\ allowed \in BOOLEAN /\ c.loyal \in BOOLEAN
      BY <1>1 DEF IInv, SlotsOK
    <3>2. read \in Readings(c)
      BY <2>1
    <3> HIDE DEF c
    <3>3. ReadOK(read)
      BY <3>1, <3>2, ReadingsKnown
    <3>4. PartInForce(read, c.property)
      BY <3>1, <3>2, ReadingsKnown
    <3> QED BY <3>3, <3>4 DEF PartInForce
  <2>5. Offers(Prior(c)) \in Seq(Offer \cup {0}) /\ Offer \cup {0} \in SUBSET Nat
    BY <1>1, OffersNumbers
  <2>6. price.standard = base
    <3> HIDE DEF los
    <3> QED BY <1>1, <2>2, <2>3, PriceWithout
  <2>7. result.counter >= Discounted(base, most)
    <3> DEFINE V == Offer \cup {0}
               past == Offers(Prior(c))
    <3>1. /\ c.property \in Prop /\ c.stay \in Stay
          /\ base \in Nat /\ c.discounts \in BOOLEAN
          /\ V \in SUBSET Nat /\ past \in Seq(V) /\ c.offer \in V
      BY <1>1, <2>2, <2>5
    <3> HIDE DEF V, past, force, los
    <3>2. Decision(read, Price(los, c.property, c.stay, base, c.discounts), c.discounts,
                   past, c.offer).counter
            >= Discounted(base, MostGenerous(force, c.property, c.stay, read.policy.cap))
      BY <2>3, <2>4, <3>1, DecisionFair
    <3> QED BY <3>2 DEF past
  <2>8. /\ quoted'.total = result.counter /\ quoted'.standard = price.standard
        /\ quoted'.most = most /\ quoted'.property = c.property
        /\ decision'.property = c.property /\ decision'.result = result
    <3> HIDE DEF price, result
    <3> QED BY <2>1 DEF Quote, price, result
  <2>9. NeverStacked'
    <3>1. Discounted(base, most) <= result.counter
      <4> HIDE DEF result, most
      <4> QED BY <2>7
    <3> HIDE DEF price, result, most
    <3> QED BY <2>6, <2>8, <3>1 DEF NeverStacked, Discounted
  <2>10. QuoteMatchesDecision'
    BY <2>8 DEF QuoteMatchesDecision
  <2> QED BY <2>9, <2>10
<1> QED BY <1>2, <1>3, <1>4, <1>5 DEF IInv

-----------------------------------------------------------------------------
\* The other tools learn about the stay and leave the prices alone.
LEMMA StepCheckCalendar ==
    ASSUME IInv, NEW d \in Dated, NEW n \in Party \cup {None}, CheckCalendar(d, n)
    PROVE IInv'
<1> DEFINE known == IF Bookable(d) THEN [slots EXCEPT !.dates = d, !.text = FALSE]
                    ELSE slots
<1>1. known \in Slots
  BY DEF IInv, SlotsOK, Slots
<1>2. slots' = WithParty(known, n)
  BY DEF CheckCalendar
<1> HIDE DEF known
<1>3. slots' \in Slots
  BY <1>1, <1>2, SlotsLearn
<1>4. UNCHANGED <<status, allowed, pitched, log, said, tool>>
  BY DEF CheckCalendar, host
<1> QED BY <1>3, <1>4 DEF IInv, SlotsOK, LogOK, ToolOK, QuoteMatchesDecision,
                          NeverStacked, said

LEMMA StepUpdateLead ==
    ASSUME IInv, NEW st \in Stay \cup {None}, NEW n \in Party \cup {None},
           UpdateLead(st, n)
    PROVE IInv'
<1> DEFINE known == WithParty(WithStay(slots, st), n)
<1>1. WithStay(slots, st) \in Slots
  BY SlotsLearn DEF IInv, SlotsOK
<1>2. known \in Slots
  BY <1>1, SlotsLearn
<1>3. slots' = [known EXCEPT !.text = @ \/ Bookable(st)]
  BY DEF UpdateLead
<1> HIDE DEF known
<1>4. (known.text \/ Bookable(st)) \in BOOLEAN
  BY Zenon
<1>5. slots' \in Slots
  BY <1>2, <1>3, <1>4 DEF Slots
<1>6. UNCHANGED <<status, allowed, pitched, log, said, tool>>
  BY DEF UpdateLead, host
<1> QED BY <1>5, <1>6 DEF IInv, SlotsOK, LogOK, ToolOK, QuoteMatchesDecision,
                          NeverStacked, said

LEMMA StepRecommend ==
    ASSUME IInv, NEW shown \in SUBSET Prop, NEW st \in Length \cup {None},
           NEW n \in Party \cup {None}, Recommend(shown, st, n)
    PROVE IInv'
<1> DEFINE known == WithParty(slots, n)
<1>1. known \in Slots
  BY SlotsLearn DEF IInv, SlotsOK
<1>2. slots' = [known EXCEPT !.nights = IF st # None /\ slots.dates = None THEN st ELSE @]
  BY DEF Recommend
<1> HIDE DEF known
<1>3. slots' \in Slots
  BY <1>1, <1>2 DEF Slots
<1>4. pitched' \subseteq Prop
  BY DEF Recommend, IInv, SlotsOK
<1>5. UNCHANGED <<status, allowed, log, said, tool>>
  BY DEF Recommend, host
<1> QED BY <1>3, <1>4, <1>5 DEF IInv, SlotsOK, LogOK, ToolOK, QuoteMatchesDecision,
                               NeverStacked, said

LEMMA StepInterrupt ==
    ASSUME IInv, NEW t \in Tool, Interrupt(t)
    PROVE IInv'
<1>1. ToolOK'
  BY ToolEnds DEF IInv, ToolOK, Interrupt
<1>2. UNCHANGED <<status, allowed, slots, pitched, log, said>>
  BY DEF Interrupt, host
<1> QED BY <1>1, <1>2 DEF IInv, SlotsOK, LogOK, QuoteMatchesDecision, NeverStacked, said

\* What the host edits is not what the call remembers.
LEMMA StepHost ==
    ASSUME IInv, HostEdits
    PROVE IInv'
<1>1. CallUnchanged /\ status' \in [Draft -> Status] /\ allowed' \in BOOLEAN
  <2>1. status \in [Draft -> Status] /\ allowed \in BOOLEAN
    BY DEF IInv, SlotsOK
  <2>2. ASSUME NEW found \in SUBSET Draft, ParsePolicy(found)
        PROVE CallUnchanged /\ status' \in [Draft -> Status] /\ allowed' \in BOOLEAN
    BY <2>1, <2>2 DEF ParsePolicy, Status
  <2>3. ASSUME NEW r \in Draft, NEW new \in Draft, NEW state \in Status \ {"absent"},
               EditRule(r, new, state)
        PROVE CallUnchanged /\ status' \in [Draft -> Status] /\ allowed' \in BOOLEAN
    BY <2>1, <2>3 DEF EditRule, Status
  <2>4. ASSUME NEW r \in Draft, DeleteRule(r)
        PROVE CallUnchanged /\ status' \in [Draft -> Status] /\ allowed' \in BOOLEAN
    BY <2>1, <2>4 DEF DeleteRule, Status
  <2>5. ASSUME AllowNegotiation
        PROVE CallUnchanged /\ status' \in [Draft -> Status] /\ allowed' \in BOOLEAN
    BY <2>1, <2>5 DEF AllowNegotiation
  <2> QED BY <2>2, <2>3, <2>4, <2>5 DEF HostEdits
<1> QED BY <1>1 DEF CallUnchanged, IInv, SlotsOK, LogOK, ToolOK,
                    QuoteMatchesDecision, NeverStacked, said

LEMMA IInvStep == IInv /\ [Next]_vars => IInv'
<1> SUFFICES ASSUME IInv, [Next]_vars PROVE IInv'
  OBVIOUS
<1>1. CASE UNCHANGED vars
  BY <1>1 DEF vars, said, IInv, SlotsOK, LogOK, ToolOK, QuoteMatchesDecision, NeverStacked
<1>2. ASSUME NEW t \in Tool, NEW p \in Prop, NEW st \in Stay, NEW n \in Party,
             NEW d \in BOOLEAN, BeginPricing(t, p, st, n, d)
      PROVE IInv'
  BY <1>2, StepBeginPricing
<1>3. ASSUME NEW t \in Tool, NEW p \in Prop, NEW st \in Stay,
             NEW offer \in Offer \cup {0}, NEW n \in Party \cup {None},
             NEW l \in BOOLEAN, BeginNegotiate(t, p, st, offer, n, l)
      PROVE IInv'
  BY <1>3, StepBeginNegotiate
<1>4. ASSUME NEW t \in Tool, FinishPricing(t) \/ FinishNegotiate(t) \/ Interrupt(t)
      PROVE IInv'
  BY <1>4, StepFinishPricing, StepFinishNegotiate, StepInterrupt
<1>5. ASSUME NEW d \in Dated, NEW n \in Party \cup {None}, CheckCalendar(d, n)
      PROVE IInv'
  BY <1>5, StepCheckCalendar
<1>6. ASSUME NEW st \in Stay \cup {None}, NEW n \in Party \cup {None}, UpdateLead(st, n)
      PROVE IInv'
  BY <1>6, StepUpdateLead
<1>7. ASSUME NEW shown \in SUBSET Prop, NEW st \in Length \cup {None},
             NEW n \in Party \cup {None}, Recommend(shown, st, n)
      PROVE IInv'
  BY <1>7, StepRecommend
<1>8. CASE Talk
  <2>1. CASE \E t \in Tool, p \in Prop, st \in Stay, n \in Party, d \in BOOLEAN :
                 BeginPricing(t, p, st, n, d)
    BY <2>1, <1>2
  <2>2. CASE \E t \in Tool, p \in Prop, st \in Stay, offer \in Offer \cup {0},
                n \in Party \cup {None}, l \in BOOLEAN :
                 BeginNegotiate(t, p, st, offer, n, l)
    BY <2>2, <1>3
  <2>3. CASE \E shown \in SUBSET Prop, st \in Length \cup {None}, n \in Party \cup {None} :
                 Recommend(shown, st, n)
    BY <2>3, <1>7
  <2>4. Omitted \subseteq {None} /\ Loyal \subseteq BOOLEAN
    BY TalkAssumption
  <2> QED BY <1>4, <1>5, <1>6, <1>7, <1>8, <2>1, <2>2, <2>3, <2>4 DEF Talk
<1> QED BY <1>1, <1>8, StepHost DEF Next

-----------------------------------------------------------------------------
(***************************************************************************)
(* A price once conceded.  What the state remembers of the last decision   *)
(* was computed from the offers, the rules and the consent kept in basis.  *)
(***************************************************************************)
EarnedStage == StageIndex(Offers(basis.events), StageCount(basis.read))
Earned ==
    FloorIs(decision.result, quoted.standard, basis.read.policy.allowed,
            Granted(basis.read, EarnedStage))
BasisOK ==
    basis # None =>
        /\ decision.property \in Prop /\ quoted.standard \in Nat
        /\ ReadOK(basis.read) /\ basis.events \in Seq(Event)
        /\ Earned

LEMMA BasisStep == IInv /\ BasisOK /\ [Next]_vars => BasisOK'
<1> SUFFICES ASSUME IInv, BasisOK, [Next]_vars PROVE BasisOK'
  OBVIOUS
<1>1. ASSUME UNCHANGED said PROVE BasisOK'
  BY <1>1 DEF said, BasisOK, Earned, EarnedStage
<1>2. ASSUME basis' = None PROVE BasisOK'
  BY <1>2 DEF BasisOK
<1>3. ASSUME NEW t \in Tool, FinishNegotiate(t) PROVE BasisOK'
  <2> DEFINE c == tool[t]
             event == [offer |-> c.offer, property |-> c.property, stay |-> c.stay]
             past == Offers(Prior(c))
  <2>1. CASE UNCHANGED said
    BY <1>1, <2>1
  <2>2. CASE ~UNCHANGED said
    <3>1. PICK base \in BaseOf[<<c.property, c.stay>>], longer \in Lookups,
               read \in Readings(c) :
              LET price == Price(Table \cup longer, c.property, c.stay, base, c.discounts)
                  result == Decision(read, price, c.discounts, past, c.offer)
              IN  /\ result.asking # 0
                  /\ quoted' = Quote(c.property, c.stay, price, result.counter,
                                     read.policy.cap)
                  /\ decision' = [property |-> c.property, result |-> result]
                  /\ basis' = [read |-> read, events |-> Append(Prior(c), event)]
      BY <1>3, <2>2 DEF FinishNegotiate
    <3> DEFINE los == Table \cup longer
               price == Price(los, c.property, c.stay, base, c.discounts)
               result == Decision(read, price, c.discounts, past, c.offer)
    <3>2. /\ c.property \in Prop /\ c.stay \in Stay /\ c.offer \in Offer \cup {0}
          /\ c.loyal \in BOOLEAN /\ c.discounts \in BOOLEAN /\ Prior(c) \in Seq(Event)
      BY <1>3, WaitingTypes DEF IInv, FinishNegotiate
    <3>3. base \in Nat
      BY <3>1, <3>2, TalkAssumption
    <3>4. los \in SUBSET Rule
      BY RulesKnown DEF IInv, SlotsOK, Lookups
    <3>5. ReadOK(read)
      <4> HIDE DEF c
      <4> QED BY <3>1, <3>2, ReadingsKnown DEF IInv, SlotsOK
    <3>6. past \in Seq(Offer \cup {0}) /\ Offer \cup {0} \in SUBSET Nat /\ 0 \in Offer \cup {0}
      BY <3>2, OffersNumbers
    <3>7. event \in Event /\ event.offer = c.offer
      BY <3>2 DEF Event
    <3>8. Append(Prior(c), event) \in Seq(Event)
          /\ Offers(Append(Prior(c), event)) = Append(past, c.offer)
      BY <3>2, <3>7, OffersAppend
    <3>9. price.total # 0 /\ price.standard = base
      <4>1. price.standard = base
        <5> HIDE DEF los
        <5> QED BY <3>2, <3>3, <3>4, PriceWithout
      <4>2. result.asking = price.total
        BY DecisionAsks
      <4>3. result.asking # 0
        <5> HIDE DEF result
        <5> QED BY <3>1 DEF result
      <4> QED BY <4>1, <4>2, <4>3
    <3>10. LET stage == StageIndex(Append(past, c.offer), StageCount(read))
           IN  FloorIs(result, base, read.policy.allowed, Granted(read, stage))
      <4> DEFINE property == c.property
                 stay == c.stay
                 listed == c.discounts
                 offer == c.offer
                 stage == StageIndex(Append(past, offer), StageCount(read))
                 total == Price(los, property, stay, base, listed)
                 answer == Decision(read, total, listed, past, offer)
      <4>1. /\ property \in Prop /\ stay \in Stay /\ base \in Nat /\ listed \in BOOLEAN
            /\ past \in Seq(Nat) /\ offer \in Nat
            /\ total.total # 0
        <5>1. past \in Seq(Nat)
          BY <3>6, SeqDef
        <5> QED BY <3>2, <3>3, <3>6, <3>9, <5>1
      <4> HIDE DEF past, property, stay, listed, offer, los
      <4>2. FloorIs(answer, base, read.policy.allowed, Granted(read, stage))
        BY <3>4, <3>5, <4>1, DecisionFloor
      <4> QED BY <4>2 DEF past, property, stay, listed, offer
    <3>11. /\ quoted'.standard = base /\ decision'.property = c.property
           /\ decision'.result = result
           /\ basis'.read = read /\ basis'.events = Append(Prior(c), event)
      <4>1. quoted' = Quote(c.property, c.stay, price, result.counter, read.policy.cap)
            /\ decision' = [property |-> c.property, result |-> result]
            /\ basis' = [read |-> read, events |-> Append(Prior(c), event)]
        BY <3>1
      <4> HIDE DEF price, result, event, past
      <4> QED BY <3>9, <4>1 DEF Quote
    <3> HIDE DEF price, result, event, past
    <3>12. EarnedStage' = StageIndex(Append(past, c.offer), StageCount(read))
      <4>1. Offers(basis.events)' = Append(past, c.offer)
        BY <3>8, <3>11 DEF Offers
      <4> QED BY <3>11, <4>1 DEF EarnedStage, StageCount
    <3>13. Earned'
      <4>1. Earned' = FloorIs(decision'.result, quoted'.standard, basis'.read.policy.allowed,
                              Granted(basis'.read, EarnedStage'))
        BY Zenon DEF Earned, FloorIs
      <4> HIDE DEF EarnedStage
      <4> QED BY <3>10, <3>11, <3>12, <4>1
    <3>14. /\ decision'.property \in Prop /\ quoted'.standard \in Nat
           /\ ReadOK(basis'.read) /\ basis'.events \in Seq(Event)
      BY <3>2, <3>3, <3>5, <3>8, <3>11
    <3> QED BY <3>13, <3>14 DEF BasisOK, ReadOK
  <2> QED BY <2>1, <2>2
<1>4. CASE UNCHANGED vars
  BY <1>1, <1>4 DEF vars, said
<1>5. ASSUME NEW t \in Tool, FinishPricing(t) PROVE BasisOK'
  BY <1>1, <1>2, <1>5 DEF FinishPricing, SupersedeDecision, ClearDecision
<1>6. ASSUME NEW t \in Tool, Interrupt(t) PROVE BasisOK'
  BY <1>1, <1>6 DEF Interrupt
<1>7. ASSUME NEW t \in Tool, NEW p \in Prop, NEW st \in Stay, NEW n \in Party,
             NEW d \in BOOLEAN, BeginPricing(t, p, st, n, d)
      PROVE BasisOK'
  BY <1>1, <1>7 DEF BeginPricing
<1>8. ASSUME NEW t \in Tool, NEW p \in Prop, NEW st \in Stay,
             NEW offer \in Offer \cup {0}, NEW n \in Party \cup {None},
             NEW l \in BOOLEAN, BeginNegotiate(t, p, st, offer, n, l)
      PROVE BasisOK'
  <2>1. basis' = None \/ UNCHANGED said
    BY <1>8 DEF BeginNegotiate, ClearDecision, said
  <2> QED BY <1>1, <1>2, <2>1
<1>9. ASSUME NEW d \in Dated, NEW n \in Party \cup {None}, CheckCalendar(d, n) PROVE BasisOK'
  BY <1>1, <1>9 DEF CheckCalendar
<1>10. ASSUME NEW st \in Stay \cup {None}, NEW n \in Party \cup {None}, UpdateLead(st, n)
       PROVE BasisOK'
  BY <1>1, <1>10 DEF UpdateLead
<1>11. ASSUME NEW shown \in SUBSET Prop, NEW st \in Length \cup {None},
              NEW n \in Party \cup {None}, Recommend(shown, st, n)
       PROVE BasisOK'
  BY <1>1, <1>11 DEF Recommend
<1>12. CASE HostEdits
  <2>1. CallUnchanged
    BY <1>12 DEF HostEdits, ParsePolicy, EditRule, DeleteRule, AllowNegotiation
  <2> QED BY <1>1, <2>1 DEF CallUnchanged
<1>13. CASE Talk
  <2>1. CASE \E t \in Tool, p \in Prop, st \in Stay, n \in Party, d \in BOOLEAN :
                 BeginPricing(t, p, st, n, d)
    BY <2>1, <1>7
  <2>2. CASE \E t \in Tool, p \in Prop, st \in Stay, offer \in Offer \cup {0},
                n \in Party \cup {None}, l \in BOOLEAN :
                 BeginNegotiate(t, p, st, offer, n, l)
    BY <2>2, <1>8
  <2>3. CASE \E shown \in SUBSET Prop, st \in Length \cup {None}, n \in Party \cup {None} :
                 Recommend(shown, st, n)
    BY <2>3, <1>11
  <2>4. Omitted \subseteq {None} /\ Loyal \subseteq BOOLEAN
    BY TalkAssumption
  <2> QED BY <1>3, <1>5, <1>6, <1>9, <1>10, <1>11, <1>13, <2>1, <2>2, <2>3, <2>4 DEF Talk
<1> QED BY <1>4, <1>12, <1>13 DEF Next

\* Of two decisions under the same terms the later one has no higher floor.
LEMMA LaterIsLower ==
    ASSUME BasisOK, BasisOK', basis # None, basis' # None, SameTerms
    PROVE decision'.result.floor <= decision.result.floor
<1> DEFINE read == basis.read
           permitted == basis.read.policy.allowed
           std == quoted.standard
           p == decision.property
           count == StageCount(read)
           early == StageIndex(Offers(basis.events), count)
           late == StageIndex(Offers(basis'.events), count)
           g(n) == Granted(read, n)
<1>1. /\ p \in Prop /\ std \in Nat /\ ReadOK(read)
      /\ basis.events \in Seq(Event) /\ basis'.events \in Seq(Event)
  BY DEF BasisOK
<1>2. /\ basis'.read = read /\ decision'.property = p
      /\ quoted'.standard = std
      /\ decision'.result.asking = decision.result.asking
      /\ \A r \in read.rules \cup read.special : Climbs(r)
      /\ IsPrefix(basis.events, basis'.events)
  BY DEF SameTerms, SameNegotiation
<1>3. \/ /\ decision.result.asking \in Nat /\ decision.result.asking < std
         /\ decision.result.floor = decision.result.asking
      \/ /\ decision.result.asking = std
         /\ decision.result.floor = IF permitted THEN Discounted(std, g(early)) ELSE std
  BY DEF BasisOK, Earned, EarnedStage, FloorIs
<1>5. \/ /\ decision.result.asking \in Nat /\ decision.result.asking < std
         /\ decision'.result.floor = decision.result.asking
      \/ /\ decision.result.asking = std
         /\ decision'.result.floor = IF permitted THEN Discounted(std, g(late)) ELSE std
  <2>1. EarnedStage' = late
    <3>1. Offers(basis.events)' = Offers(basis'.events)
      BY DEF Offers
    <3> QED BY <1>2, <3>1 DEF EarnedStage, StageCount
  <2>2. Earned' = FloorIs(decision'.result, quoted'.standard, basis'.read.policy.allowed,
                          Granted(basis'.read, EarnedStage'))
    BY Zenon DEF Earned, FloorIs
  <2>3. Earned'
    BY DEF BasisOK
  <2> HIDE DEF late, std, p
  <2> QED BY <1>2, <2>1, <2>2, <2>3 DEF FloorIs
<1> HIDE DEF read, std, p, permitted
<1>7. /\ Offers(basis.events) \in Seq(Offer \cup {0})
      /\ Offers(basis'.events) \in Seq(Offer \cup {0})
      /\ Offer \cup {0} \in SUBSET Nat
  BY <1>1, OffersNumbers
<1>8. early \in Nat /\ late \in Nat
  BY <1>1, <1>7, StageIn
<1>9. early <= late
  <2>1. count \in Nat
    BY <1>1, CountIn
  <2>2. /\ Len(Offers(basis.events)) <= Len(Offers(basis'.events))
        /\ \A i \in 1 .. Len(Offers(basis.events)) :
              Offers(basis.events)[i] = Offers(basis'.events)[i]
    BY <1>1, <1>2, OffersPrefix
  <2> HIDE DEF count
  <2> QED BY <1>7, <2>1, <2>2, StageGrows
<1> HIDE DEF early, late
<1>10. /\ g(early) \in Percent /\ g(late) \in Percent /\ g(early) <= g(late)
  <2>1. g(early) <= g(late)
    BY <1>1, <1>2, <1>8, <1>9, GrantedClimbs
  <2>2. \A n \in Nat : g(n) \in Percent
    BY <1>1, GrantedIn
  <2> QED BY <1>8, <2>1, <2>2
<1> DEFINE ge == g(early)
           gl == g(late)
<1> HIDE DEF ge, gl
<1>11. /\ Discounted(std, gl) <= Discounted(std, ge)
       /\ Discounted(std, gl) \in Int /\ Discounted(std, ge) \in Int
  <2>1. ge \in Percent /\ gl \in Percent /\ ge <= gl
    BY <1>10 DEF ge, gl
  <2>2. gl <= gl
    BY <2>1 DEF Percent
  <2> QED BY <1>1, <2>1, <2>2, Cuts
<1>12. \/ /\ decision.result.asking \in Nat /\ decision.result.asking < std
          /\ decision.result.floor = decision.result.asking
          /\ decision'.result.floor = decision.result.asking
       \/ /\ decision.result.floor = IF permitted THEN Discounted(std, ge) ELSE std
          /\ decision'.result.floor = IF permitted THEN Discounted(std, gl) ELSE std
  BY <1>1, <1>3, <1>5 DEF ge, gl
<1> QED BY <1>1, <1>11, <1>12

-----------------------------------------------------------------------------
LEMMA Invariance == Spec => []IInv
BY NothingInit, IInvStep, PTL DEF Spec

\* What a call knows, the history of offers and the waiting tools keep their
\* shapes, and the history holds the offers for one property only.
THEOREM TypeCorrect == Spec => []TypeOK
BY Invariance, InvTypes, PTL

\* The prompt's price hint and the quote that the repetition guard checks are
\* one price of one property, however the tools interleave.
THEOREM HintIsQuote == Spec => []QuoteMatchesDecision
<1>1. IInv => QuoteMatchesDecision
  BY DEF IInv
<1> QED BY <1>1, Invariance, PTL

\* Discounts do not add up, for any rules, prices and offers: what is quoted is
\* at least what the single most generous rule in force, or the cap that was
\* read, leaves, also when a lookup failed and its default was used.
THEOREM OneDiscount == Spec => []NeverStacked
<1>1. IInv => NeverStacked
  BY DEF IInv
<1> QED BY <1>1, Invariance, PTL

\* A price once conceded is not taken back while the guest negotiates about one
\* price and the answers read the same rules, whose ladders climb, the same cap
\* and consent, for any history of offers and tools that answer in any order.
THEOREM Concessions == Spec => NeverTakenBack
<1>1. Init => BasisOK
  BY DEF Init, BasisOK
<1>2. BasisOK /\ BasisOK' =>
        [basis # None /\ basis' \notin {None, basis} /\ SameTerms
            => decision'.result.floor <= decision.result.floor]_vars
  BY LaterIsLower
<1> QED BY <1>1, <1>2, Invariance, BasisStep, PTL DEF Spec, NeverTakenBack
=============================================================================
