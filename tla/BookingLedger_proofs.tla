----------------------- MODULE BookingLedger_proofs -----------------------
(***************************************************************************)
(* What the host decided about a booking survives every sync, for any      *)
(* number of bookings, leads, syncs and dashboard requests, as long as two *)
(* requests are never open on one booking.                                 *)
(***************************************************************************)
EXTENDS BookingLedger, Extremes, SequenceTheorems

\* Two requests open on one booking would mix column by column.  One tab of the
\* dashboard keeps them apart, and so do tabs that work on different bookings.
Apart ==
    \A g, h \in Host :
        host[g].op # "idle" /\ host[h].op # "idle" /\ host[g].of = host[h].of => g = h

Columns == {"id", "dates", "identity", "kind", "price", "source", "status", "by",
            "asked", "attribution", "lead", "call", "reviewed", "initial",
            "negotiated"}
\* The columns that a sync leaves alone.
Facts == Columns \ {"dates", "identity"}
Shape(r) == DOMAIN r = Columns /\ r.id \in Nat \ {0}
Same(r, q) == \A c \in Facts : r[c] = q[c]

\* What PriceWhole and RejectionWithdraws ask of one row.
Whole(r) ==
    /\ r.price # 0 <=> r.status = "confirmed"
    /\ r.price # 0 <=> r.source # "unknown"
    /\ r.price # 0 <=> r.by # "nobody"
    /\ r.by = "mira" <=> r.source = "mira_conversation"
Rejected(r) == r.reviewed /\ r.attribution = "not_attributed"
Backed(r) ==
    /\ r.by = "mira" => r.attribution \in {"probable", "confirmed"} /\ r.lead # NoLead
    /\ Rejected(r) => r.initial = 0 /\ r.negotiated = 0
Good(r) == Shape(r) /\ Whole(r) /\ Backed(r)

\* The rows; a slot's next row has a new id.
RowsOK ==
    /\ DOMAIN row = Booking
    /\ born \in [Booking -> Nat]
    /\ \A b \in Booking : Exists(b) => Good(row[b]) /\ row[b].id <= born[b]
\* An open request loaded a row that was whole; as long as the row is there,
\* only syncs have written to it.
HostOK ==
    /\ DOMAIN host = Host
    /\ \A h \in Host : host[h].op # "idle" =>
        /\ host[h].of \in Booking
        /\ Good(host[h].loaded)
        /\ host[h].loaded.id <= born[host[h].of]
        /\ ~Lost(h) => Same(row[host[h].of], host[h].loaded)
SyncOK ==
    /\ DOMAIN sync = Sync
    /\ \A s \in Sync : sync[s].pc = "loaded" =>
        \A b \in Synced : sync[s].rows[b].id # 0 => Shape(sync[s].rows[b])
LinkOK ==
    /\ link \in [Lead -> [Property -> Booking \cup {None}]]
    /\ \A b \in Booking : Exists(b) /\ Rejected(row[b]) =>
        \A l \in Lead, p \in Property : link[l][p] # b

\* No final price of Mira's stays with a booking that is not hers.
Form(e) == DOMAIN e = {"lead", "property", "dates", "source", "booking"}
FinalsOK ==
    /\ \A e \in finals : Form(e)
    /\ \A b \in Booking : Exists(b) /\ Rejected(row[b]) =>
        \A e \in finals : e.booking = b => e.source # "mira_conversation"

IInv == RowsOK /\ HostOK /\ SyncOK /\ LinkOK /\ FinalsOK
----------------------------------------------------------------------------
(* Conversations: the verdicts and the prices of Attribution *)

\* The places of a talk hold offers; some of them have a first and a last one.
LEMMA Places ==
    ASSUME NEW f \in Fact, NEW S \in SUBSET DOMAIN f.talk
    PROVE /\ \A i \in S : f.talk[i] \in Offer
          /\ S # {} => /\ Min(S) \in S /\ Max(S) \in S
                       /\ \A i \in S : Min(S) <= i /\ i <= Max(S)
<1>1. f.talk \in Seq(Offer)
  BY DEF Fact
<1>2. Len(f.talk) \in Nat /\ DOMAIN f.talk = 1 .. Len(f.talk)
  BY <1>1, LenProperties
<1>3. \A i \in S : f.talk[i] \in Offer
  BY <1>1, <1>2, ElementOfSeq
<1> DEFINE n == Len(f.talk)
<1>4. S \in SUBSET Nat /\ S \in SUBSET Int /\ n \in Int /\ \A i \in S : i <= n
  BY <1>2
<1> HIDE DEF n
<1>5. ASSUME S # {} PROVE Min(S) \in S /\ \A i \in S : Min(S) <= i
  BY <1>4, <1>5, Least
<1>6. ASSUME S # {} PROVE Max(S) \in S /\ \A i \in S : i <= Max(S)
  BY <1>4, <1>6, Greatest
<1> QED BY <1>3, <1>5, <1>6

\* The prices that a conversation shows are numbers.
LEMMA PricesNumbers ==
    ASSUME NEW f \in Fact, NEW signals
    PROVE /\ InitialPrice(f) \in Nat
          /\ NegotiatedPrice(f) \in Nat
          /\ ConfidentPrice(f, signals) \in Nat
<1>1. ASSUME NEW S \in SUBSET DOMAIN f.talk, S # {}
      PROVE /\ f.talk[Min(S)].price \in Nat /\ f.talk[Min(S)].listed \in Nat
            /\ f.talk[Max(S)].price \in Nat
  <2>1. f.talk[Min(S)] \in Offer /\ f.talk[Max(S)] \in Offer
    BY <1>1, Places
  <2> QED BY <2>1 DEF Offer
<1>2. \A types : /\ Among(f, Relevant(f), types) \in SUBSET DOMAIN f.talk
                 /\ Among(f, Quoted(f, "exact"), types) \in SUBSET DOMAIN f.talk
  BY DEF Among, Relevant, Quoted
<1>3. InitialPrice(f) \in Nat
  BY <1>1, <1>2 DEF InitialPrice
<1>4. NegotiatedPrice(f) \in Nat
  BY <1>1, <1>2 DEF NegotiatedPrice
<1>5. ConfidentPrice(f, signals) \in Nat
  BY <1>1, <1>2 DEF ConfidentPrice
<1> QED BY <1>3, <1>4, <1>5

\* The price that Mira may record without asking the host is the one that was
\* accepted last for the booking's own dates by a guest whose number matches,
\* and it is the negotiated price that the booking shows (detect_prices).
THEOREM SurePrice ==
    ASSUME NEW f \in Fact, NEW signals, ConfidentPrice(f, signals) # 0
    PROVE /\ signals \cap IdentitySignals # {}
          /\ \E i \in Quoted(f, "exact") :
                /\ f.talk[i].type = "accepted_offer"
                /\ f.talk[i].price = ConfidentPrice(f, signals)
                /\ \A j \in Quoted(f, "exact") :
                      f.talk[j].type \in Negotiation => j <= i
          /\ NegotiatedPrice(f) = ConfidentPrice(f, signals)
<1> DEFINE bids == Among(f, Quoted(f, "exact"), Negotiation)
           last == Max(bids)
<1>1. /\ bids # {} /\ f.talk[last].type = "accepted_offer"
      /\ signals \cap IdentitySignals # {}
      /\ ConfidentPrice(f, signals) = f.talk[last].price
  BY DEF ConfidentPrice
<1>2. bids \in SUBSET DOMAIN f.talk /\ bids \subseteq Quoted(f, "exact")
  BY DEF Among, Quoted
<1>3. last \in bids /\ \A i \in bids : i <= last
  <2> HIDE DEF bids
  <2> QED BY <1>1, <1>2, Places
<1>4. \A j \in Quoted(f, "exact") : f.talk[j].type \in Negotiation => j <= last
  BY <1>3 DEF Among
<1>5. Relevant(f) = Quoted(f, "exact")
  BY <1>1, <1>2 DEF Relevant
<1>6. NegotiatedPrice(f) = f.talk[last].price
  BY <1>1, <1>5 DEF NegotiatedPrice
<1> QED BY <1>1, <1>2, <1>3, <1>4, <1>6

\* A score counts at most the ten signals.
LEMMA TenSignals ==
    IsFiniteSet(Signal) /\ Cardinality(Signal) \in Nat /\ Cardinality(Signal) <= 10
<1>1. ASSUME NEW T, IsFiniteSet(T), NEW x
      PROVE /\ IsFiniteSet(T \cup {x})
            /\ Cardinality(T) \in Nat /\ Cardinality(T \cup {x}) \in Nat
            /\ Cardinality(T \cup {x}) <= Cardinality(T) + 1
  <2>1. Cardinality(T) \in Nat
    BY <1>1, FS_CardinalityType
  <2>2. IsFiniteSet(T \cup {x}) /\ Cardinality(T \cup {x}) =
            IF x \in T THEN Cardinality(T) ELSE Cardinality(T) + 1
    BY <1>1, FS_AddElement
  <2> QED BY <2>1, <2>2
<1> DEFINE T0 == {}
           T1 == T0 \cup {"phone_match"}
           T2 == T1 \cup {"phone_last4_match"}
           T3 == T2 \cup {"same_property"}
           T4 == T3 \cup {"exact_dates"}
           T5 == T4 \cup {"overlapping_dates"}
           T6 == T5 \cup {"phone_mismatch"}
           T7 == T6 \cup {"hot_intent"}
           T8 == T7 \cup {"booking_intent"}
           T9 == T8 \cup {"pricing_discussed"}
           T10 == T9 \cup {"negotiation"}
<1>2. Signal = T10
  BY DEF Signal, IdentitySignals
<1>3. IsFiniteSet(T0) /\ Cardinality(T0) = 0
  BY FS_EmptySet
<1> HIDE DEF T0, T1, T2, T3, T4, T5, T6, T7, T8, T9, T10
<1>4. /\ IsFiniteSet(T1) /\ Cardinality(T1) \in Nat
      /\ Cardinality(T1) <= Cardinality(T0) + 1
  BY <1>1, <1>3, Zenon DEF T1
<1>5. /\ IsFiniteSet(T2) /\ Cardinality(T2) \in Nat
      /\ Cardinality(T2) <= Cardinality(T1) + 1
  BY <1>1, <1>4, Zenon DEF T2
<1>6. /\ IsFiniteSet(T3) /\ Cardinality(T3) \in Nat
      /\ Cardinality(T3) <= Cardinality(T2) + 1
  BY <1>1, <1>5, Zenon DEF T3
<1>7. /\ IsFiniteSet(T4) /\ Cardinality(T4) \in Nat
      /\ Cardinality(T4) <= Cardinality(T3) + 1
  BY <1>1, <1>6, Zenon DEF T4
<1>8. /\ IsFiniteSet(T5) /\ Cardinality(T5) \in Nat
      /\ Cardinality(T5) <= Cardinality(T4) + 1
  BY <1>1, <1>7, Zenon DEF T5
<1>9. /\ IsFiniteSet(T6) /\ Cardinality(T6) \in Nat
      /\ Cardinality(T6) <= Cardinality(T5) + 1
  BY <1>1, <1>8, Zenon DEF T6
<1>10. /\ IsFiniteSet(T7) /\ Cardinality(T7) \in Nat
      /\ Cardinality(T7) <= Cardinality(T6) + 1
  BY <1>1, <1>9, Zenon DEF T7
<1>11. /\ IsFiniteSet(T8) /\ Cardinality(T8) \in Nat
      /\ Cardinality(T8) <= Cardinality(T7) + 1
  BY <1>1, <1>10, Zenon DEF T8
<1>12. /\ IsFiniteSet(T9) /\ Cardinality(T9) \in Nat
      /\ Cardinality(T9) <= Cardinality(T8) + 1
  BY <1>1, <1>11, Zenon DEF T9
<1>13. /\ IsFiniteSet(T10) /\ Cardinality(T10) \in Nat
      /\ Cardinality(T10) <= Cardinality(T9) + 1
  BY <1>1, <1>12, Zenon DEF T10
<1>14. Cardinality(T10) <= 10
  BY <1>3, <1>4, <1>5, <1>6, <1>7, <1>8, <1>9, <1>10, <1>11, <1>12, <1>13
<1> QED BY <1>2, <1>13, <1>14

LEMMA Strengths ==
    ASSUME NEW f, NEW identity
    PROVE Strength(Score(f, identity)) \in Nat /\ Strength(Score(f, identity)) <= 10
<1> DEFINE S == Score(f, identity) \ {"overlapping_dates"}
<1>1. S \in SUBSET Signal
  BY DEF Score
<1>2. Strength(Score(f, identity)) = Cardinality(S)
  BY DEF Strength
<1> HIDE DEF S
<1>3. IsFiniteSet(S) /\ Cardinality(S) \in Nat /\ Cardinality(S) <= Cardinality(Signal)
  BY <1>1, TenSignals, FS_Subset, FS_CardinalityType
<1> QED BY <1>2, <1>3, TenSignals

\* A verdict that names a guest names the best of those that qualify.
LEMMA Chosen ==
    ASSUME NEW seen, NEW identity, NEW v \in Verdicts(seen, identity), v.lead # NoLead
    PROVE /\ v.status = "probable"
          /\ v.lead \in Best({l \in Candidates(seen) : IsProbable(Score(seen[l], identity))},
                            seen, identity)
<1> DEFINE P == {l \in Candidates(seen) : IsProbable(Score(seen[l], identity))}
           R == {l \in Candidates(seen) : IsRelated(Score(seen[l], identity))}
           W == Best(P, seen, identity)
           A == {[status |-> "probable", lead |-> l] : l \in W}
           S == IF R # {} THEN "unknown" ELSE "not_attributed"
           B == {[status |-> S, lead |-> NoLead]}
<1>1. Verdicts(seen, identity) = IF P # {} THEN A ELSE B
  BY Zenon DEF Verdicts
<1> HIDE DEF P, R, W, S
<1>2. v \in A \/ v \in B
  BY <1>1
<1>3. v.status = "probable" /\ v.lead \in W
  BY <1>2
<1> QED BY <1>3, Zenon DEF W, P

\* A score that knows the guest by the number has one that matches.
LEMMA PhoneAgrees ==
    ASSUME NEW f, NEW identity, Score(f, identity) \cap IdentitySignals # {}
    PROVE identity # "none" /\ f.phone = "same"
<1> DEFINE T == Score(f, identity)
<1>1. /\ "phone_match" \in T => identity # "none" /\ f.phone = "same"
      /\ "phone_last4_match" \in T => identity # "none" /\ f.phone = "same"
  BY DEF Score
<1> HIDE DEF T
<1>2. T \cap IdentitySignals # {}
  BY DEF T
<1> QED BY <1>1, <1>2 DEF IdentitySignals

\* A guest is named as a booking's source only if a conversation within the
\* window was about the property, the number does not speak against the guest,
\* and either the number matches, or the dates agree and the guest was keen or
\* spoke of prices; and no guest that qualifies has the stronger signals
\* (find_attribution_candidate).
THEOREM Attributed ==
    ASSUME NEW seen, NEW identity, NEW v \in Verdicts(seen, identity), v.lead # NoLead,
           NEW f, f = seen[v.lead]
    PROVE /\ v.status = "probable"
          /\ v.lead \in Candidates(seen)
          /\ f.here \/ Priced(f)
          /\ identity # "none" => f.phone # "other"
          /\ \/ identity # "none" /\ f.phone = "same"
             \/ /\ f.dates = "exact" \/ Quoted(f, "exact") # {} \/ "exact" \in f.finals
                /\ f.temperature \in {"hot", "very_hot"} \/ Priced(f)
          /\ \A k \in Candidates(seen) :
                IsProbable(Score(seen[k], identity)) =>
                    Strength(Score(seen[k], identity)) <= Strength(Score(f, identity))
<1> DEFINE P == {l \in Candidates(seen) : IsProbable(Score(seen[l], identity))}
<1>4. v.status = "probable" /\ v.lead \in Best(P, seen, identity)
  BY Chosen, Zenon
<1>5. v.lead \in P /\ \A k \in P :
        \/ Strength(Score(seen[k], identity)) < Strength(Score(seen[v.lead], identity))
        \/ Strength(Score(seen[k], identity)) = Strength(Score(seen[v.lead], identity))
  <2> HIDE DEF P
  <2> QED BY <1>4 DEF Best
<1>6. v.lead \in Candidates(seen) /\ IsProbable(Score(f, identity))
  BY <1>5
<1>7. /\ f.here \/ Priced(f)
      /\ identity # "none" => f.phone # "other"
      /\ \/ identity # "none" /\ f.phone = "same"
         \/ /\ f.dates = "exact" \/ Quoted(f, "exact") # {} \/ "exact" \in f.finals
            /\ f.temperature \in {"hot", "very_hot"} \/ Priced(f)
  <2> DEFINE T == Score(f, identity)
  <2>1. "same_property" \in T => f.here \/ Priced(f)
    BY DEF Score
  <2>2. identity # "none" /\ f.phone = "other" => "phone_mismatch" \in T
    BY DEF Score, Signal
  <2>3. T \cap IdentitySignals # {} => identity # "none" /\ f.phone = "same"
    BY PhoneAgrees
  <2>4. "exact_dates" \in T =>
            f.dates = "exact" \/ Quoted(f, "exact") # {} \/ "exact" \in f.finals
    BY DEF Score
  <2>5. /\ "hot_intent" \in T => f.temperature \in {"hot", "very_hot"}
        /\ "pricing_discussed" \in T => Priced(f)
    BY DEF Score
  <2> HIDE DEF T
  <2>6. IsProbable(T)
    BY <1>6 DEF T
  <2> QED BY <2>1, <2>2, <2>3, <2>4, <2>5, <2>6 DEF IsProbable
<1>8. ASSUME NEW k \in Candidates(seen), IsProbable(Score(seen[k], identity))
      PROVE Strength(Score(seen[k], identity)) <= Strength(Score(f, identity))
  <2>1. k \in P
    BY <1>8
  <2>2. Strength(Score(seen[k], identity)) \in Nat /\ Strength(Score(f, identity)) \in Nat
    BY Strengths
  <2> QED BY <1>5, <2>1, <2>2
<1> QED BY <1>4, <1>6, <1>7, <1>8

\* However many finite conversations there are, a booking gets a verdict: among
\* the strongest guests, one was active last (max over strength and activity).
THEOREM VerdictReached ==
    ASSUME IsFiniteSet(Lead), NEW seen \in [Lead -> Fact], NEW identity
    PROVE Verdicts(seen, identity) # {}
<1> DEFINE st(l) == Strength(Score(seen[l], identity))
           P == {l \in Candidates(seen) : IsProbable(Score(seen[l], identity))}
<1>1. P \subseteq Lead /\ \A l \in Lead : st(l) \in Nat /\ st(l) <= 10 /\ seen[l].at \in Nat
  BY Strengths DEF Candidates, Fact
<1>2. ASSUME P # {} PROVE Best(P, seen, identity) # {}
  <2> HIDE DEF P, st
  <2> DEFINE N == {st(l) : l \in P}
             top == Max(N)
             Top == {l \in P : st(l) = top}
             ats == {seen[l].at : l \in Top}
             late == Max(ats)
  <2>1. N \in SUBSET Int /\ N # {} /\ \A x \in N : x <= 10
    BY <1>1, <1>2
  <2>2. top \in N /\ \A x \in N : x <= top
    <3> HIDE DEF N
    <3>1. PICK c \in Int : \A x \in N : x <= c
      BY <2>1
    <3> QED BY <2>1, <3>1, Greatest
  <2>3. top \in Nat /\ Top # {} /\ Top \subseteq Lead /\ \A l \in P : st(l) <= top
    <3> HIDE DEF top
    <3> QED BY <1>1, <2>2
  <2> HIDE DEF top
  <2>4. ats \in SUBSET Nat /\ ats \in SUBSET Int /\ ats # {} /\ IsFiniteSet(ats)
    <3>1. IsFiniteSet(Top)
      BY <2>3, FS_Subset
    <3> HIDE DEF Top
    <3>2. IsFiniteSet(ats)
      <4> DEFINE g == [l \in Top |-> seen[l].at]
      <4>1. g \in Surjection(Top, ats)
        BY DEF Surjection
      <4> HIDE DEF g, ats
      <4> QED BY <3>1, <4>1, FS_Surjection
    <3> QED BY <1>1, <2>3, <3>2
  <2>5. late \in ats /\ \A x \in ats : x <= late
    <3> HIDE DEF ats
    <3>1. PICK c \in Int : \A x \in ats : x <= c
      BY <2>4, FiniteBounded
    <3> QED BY <2>4, <3>1, Greatest
  <2> HIDE DEF late
  <2>6. PICK l \in Top : seen[l].at = late
    BY <2>5
  <2>7. ASSUME NEW k \in P
        PROVE st(k) < st(l) \/ (st(k) = st(l) /\ seen[k].at <= seen[l].at)
    <3>1. CASE k \in Top
      BY <2>5, <2>6, <3>1
    <3>2. CASE k \notin Top
      BY <1>1, <2>3, <2>6, <2>7, <3>2
    <3> QED BY <3>1, <3>2
  <2>8. l \in Best(P, seen, identity)
    BY <2>6, <2>7 DEF Best, st
  <2> QED BY <2>8
<1>3. CASE P # {}
  <2> DEFINE W == Best(P, seen, identity)
  <2>1. Verdicts(seen, identity) = {[status |-> "probable", lead |-> l] : l \in W}
    BY <1>3, Zenon DEF Verdicts
  <2> HIDE DEF W, P
  <2> QED BY <1>2, <1>3, <2>1 DEF W
<1>4. CASE P = {}
  <2>1. \E s : Verdicts(seen, identity) = {[status |-> s, lead |-> NoLead]}
    BY <1>4, Zenon DEF Verdicts
  <2> QED BY <2>1
<1> QED BY <1>3, <1>4
----------------------------------------------------------------------------
(* Rows *)

LEMMA SameGood == ASSUME NEW r, NEW q, Shape(r), Good(q), Same(r, q) PROVE Good(r)
BY DEF Same, Facts, Columns, Good, Whole, Backed, Rejected

LEMMA SameRejected ==
    ASSUME NEW r, NEW q, Same(r, q) PROVE Rejected(r) <=> Rejected(q)
BY DEF Same, Facts, Columns, Rejected

LEMMA Flushes ==
    ASSUME NEW loaded, NEW wanted, NEW committed, Shape(committed), Same(committed, loaded)
    PROVE /\ Same(Flush(loaded, wanted, committed), wanted)
          /\ DOMAIN Flush(loaded, wanted, committed) = Columns
BY DEF Flush, Same, Facts, Shape

\* A sync writes nothing but dates and digits.
LEMMA Refreshes ==
    ASSUME NEW loaded, NEW committed, NEW e, Shape(loaded), Shape(committed)
    PROVE /\ Same(Flush(loaded, Refreshed(loaded, e), committed), committed)
          /\ DOMAIN Flush(loaded, Refreshed(loaded, e), committed) = Columns
<1>1. \A c \in Facts : Refreshed(loaded, e)[c] = loaded[c]
  BY DEF Refreshed, Shape, Facts, Columns
<1> QED BY <1>1 DEF Flush, Same, Facts, Shape

LEMMA Confirmed ==
    ASSUME NEW r, Shape(r), NEW a, NEW source, NEW by
    PROVE /\ Shape(SetFinalPrice(r, a, source, by))
          /\ SetFinalPrice(r, a, source, by).price = a
          /\ SetFinalPrice(r, a, source, by).source = source
          /\ SetFinalPrice(r, a, source, by).status = "confirmed"
          /\ SetFinalPrice(r, a, source, by).by = by
          /\ \A c \in {"id", "kind", "attribution", "lead", "reviewed", "initial", "negotiated"} :
                SetFinalPrice(r, a, source, by)[c] = r[c]
BY DEF SetFinalPrice, Shape, Columns

LEMMA Cleared ==
    ASSUME NEW r, Shape(r)
    PROVE /\ Shape(ClearPrice(r))
          /\ ClearPrice(r).price = 0 /\ ClearPrice(r).source = "unknown"
          /\ ClearPrice(r).status = "pending_confirmation" /\ ClearPrice(r).by = "nobody"
          /\ \A c \in {"id", "kind", "attribution", "lead", "reviewed", "initial", "negotiated"} :
                ClearPrice(r)[c] = r[c]
BY DEF ClearPrice, Shape, Columns

LEMMA Pends ==
    ASSUME NEW r, Shape(r), Whole(r)
    PROVE /\ Shape(Pending(r)) /\ Whole(Pending(r))
          /\ \A c \in Columns \ {"status"} : Pending(r)[c] = r[c]
BY DEF Pending, Shape, Whole, Columns

LEMMA Shows ==
    ASSUME NEW r, Shape(r), NEW f
    PROVE /\ Shape(ShowPrices(r, f))
          /\ \A c \in Columns \ {"initial", "negotiated"} : ShowPrices(r, f)[c] = r[c]
BY DEF ShowPrices, Shape, Columns

\* What a verdict with a call makes of a row.
Told(r, v, c) ==
    [Pending(r) EXCEPT !.attribution = v.status, !.lead = v.lead, !.call = c]
Shown(r, b, v, c) == ShowPrices(Told(r, v, c), View(b, v.lead, r.dates))
Price(r, b, v) ==
    LET f == View(b, v.lead, r.dates) IN ConfidentPrice(f, Score(f, r.identity))

\* The three ways a reconciliation by a verdict ends: nobody named, a guest named,
\* and a guest named with the price that Mira is sure of.
LEMMA Ends ==
    ASSUME NEW b, NEW r, r.kind = "reservation", ~r.reviewed, NEW q \in Reconciled(r, b)
    PROVE \E v \in Verdicts(Views(b, r.dates), r.identity) :
            \/ v.lead = NoLead /\ q = Told(r, v, NoLead)
            \/ /\ v.lead # NoLead
               /\ \E c \in {v.lead, NoLead} :
                    \/ q = Shown(r, b, v, c)
                    \/ /\ Price(r, b, v) # 0 /\ Shown(r, b, v, c).status # "confirmed"
                       /\ q = SetFinalPrice(Shown(r, b, v, c), Price(r, b, v),
                                            "mira_conversation", "mira")
<1>1. PICK v \in Verdicts(Views(b, r.dates), r.identity) : q \in Concluded(r, b, v)
  BY DEF Reconciled
<1> DEFINE Made(c) == IF Price(r, b, v) # 0 /\ Shown(r, b, v, c).status # "confirmed"
                      THEN SetFinalPrice(Shown(r, b, v, c), Price(r, b, v),
                                         "mira_conversation", "mira")
                      ELSE Shown(r, b, v, c)
           C == Calls(View(b, v.lead, r.dates), v.lead)
<1>2. Concluded(r, b, v) = IF v.lead = NoLead THEN {Told(r, v, NoLead)} ELSE {Made(c) : c \in C}
  BY Zenon DEF Concluded, Told, Shown, Price
<1>3. C \subseteq {v.lead, NoLead}
  BY DEF Calls
<1> HIDE DEF C, Made
<1>4. CASE v.lead = NoLead
  BY <1>1, <1>2, <1>4
<1>5. CASE v.lead # NoLead
  <2>1. PICK c \in C : q = Made(c)
    BY <1>1, <1>2, <1>5
  <2>2. c \in {v.lead, NoLead}
    BY <1>3
  <2>3. \/ q = Shown(r, b, v, c)
        \/ /\ Price(r, b, v) # 0 /\ Shown(r, b, v, c).status # "confirmed"
           /\ q = SetFinalPrice(Shown(r, b, v, c), Price(r, b, v), "mira_conversation", "mira")
    BY <2>1 DEF Made
  <2> QED BY <1>5, <2>2, <2>3
<1> QED BY <1>4, <1>5

\* A row that was not reviewed is reconciled into one that is whole, and is
\* Mira's only beside the lead it came from.
LEMMA Reconciles ==
    ASSUME NEW b, NEW r, Shape(r), Whole(r), r.by # "mira", ~r.reviewed,
           NEW q \in Reconciled(r, b)
    PROVE Good(q) /\ q.id = r.id /\ ~Rejected(q)
<1>1. CASE r.kind # "reservation"
  <2>1. q = r
    BY <1>1 DEF Reconciled
  <2> QED BY <2>1 DEF Good, Backed, Rejected
<1>2. CASE r.kind = "reservation"
  <2>0. PICK v \in Verdicts(Views(b, r.dates), r.identity) :
            \E c \in {v.lead, NoLead} :
               \/ v.lead = NoLead /\ q = Told(r, v, c)
               \/ /\ v.lead # NoLead
                  /\ \/ q = Shown(r, b, v, c)
                     \/ /\ Price(r, b, v) # 0
                        /\ q = SetFinalPrice(Shown(r, b, v, c), Price(r, b, v),
                                             "mira_conversation", "mira")
    BY <1>2, Ends
  <2>1. PICK c \in {v.lead, NoLead} :
            \/ v.lead = NoLead /\ q = Told(r, v, c)
            \/ /\ v.lead # NoLead
               /\ \/ q = Shown(r, b, v, c)
                  \/ /\ Price(r, b, v) # 0
                     /\ q = SetFinalPrice(Shown(r, b, v, c), Price(r, b, v),
                                          "mira_conversation", "mira")
    BY <2>0
  <2> DEFINE t == Told(r, v, c)
             w == Shown(r, b, v, c)
             a == Price(r, b, v)
             p == SetFinalPrice(w, a, "mira_conversation", "mira")
  <2>2. /\ Shape(t) /\ t.attribution = v.status /\ t.lead = v.lead
        /\ \A x \in Columns \ {"attribution", "lead", "call"} : t[x] = Pending(r)[x]
    BY Pends DEF Told, Shape, Columns
  <2> HIDE DEF t
  <2>3. \A x \in Columns \ {"status", "attribution", "lead", "call"} : t[x] = r[x]
    BY <2>2, Pends
  <2>4. t.id = r.id /\ ~t.reviewed /\ t.by # "mira" /\ Whole(t)
    BY <2>2, <2>3, Pends DEF Columns, Whole
  <2>5. Shape(w) /\ \A x \in Columns \ {"initial", "negotiated"} : w[x] = t[x]
    BY <2>2, Shows DEF Shown, t
  <2> HIDE DEF w, a
  <2>6. /\ w.id = r.id /\ ~w.reviewed /\ w.by # "mira" /\ Whole(w)
        /\ w.attribution = v.status /\ w.lead = v.lead
    BY <2>2, <2>4, <2>5 DEF Columns, Whole
  <2>7. CASE v.lead = NoLead
    BY <2>1, <2>2, <2>4, <2>7 DEF Good, Backed, Rejected, t
  <2>8. CASE v.lead # NoLead /\ q = w
    BY <2>5, <2>6, <2>8 DEF Good, Backed, Rejected
  <2>9. CASE v.lead # NoLead /\ a # 0 /\ q = p
    <3>1. /\ Shape(p) /\ p.price = a /\ p.source = "mira_conversation"
          /\ p.status = "confirmed" /\ p.by = "mira"
          /\ p.id = w.id /\ p.attribution = w.attribution
          /\ p.lead = w.lead /\ p.reviewed = w.reviewed
      BY <2>5, Confirmed
    <3> HIDE DEF p
    <3>2. v.status = "probable"
      BY <2>9, Chosen
    <3> QED BY <2>6, <2>9, <3>1, <3>2 DEF Good, Whole, Backed, Rejected
  <2> QED BY <2>1, <2>7, <2>8, <2>9 DEF w, a
<1> QED BY <1>1, <1>2

LEMMA FromFeed ==
    ASSUME NEW b \in Booking, NEW e, born \in [Booking -> Nat]
    PROVE /\ Shape(FromEvent(b, e)) /\ Whole(FromEvent(b, e))
          /\ FromEvent(b, e).by # "mira" /\ ~FromEvent(b, e).reviewed
          /\ FromEvent(b, e).id = born[b] + 1
BY DEF FromEvent, NewRow, NewId, Shape, Whole, Columns

LEMMA FreshRow ==
    ASSUME NEW b \in Booking, NEW e, born \in [Booking -> Nat],
           NEW q \in Reconciled(FromEvent(b, e), b) \cup {Plain(FromEvent(b, e))}
    PROVE Good(q) /\ q.id = born[b] + 1 /\ ~Rejected(q)
<1> DEFINE r == FromEvent(b, e)
<1>1. Shape(r) /\ Whole(r) /\ r.by # "mira" /\ ~r.reviewed /\ r.id = born[b] + 1
  BY FromFeed
<1>2. r.price = 0 /\ r.source = "unknown" /\ r.by = "nobody"
  BY DEF FromEvent, NewRow
<1> HIDE DEF r
<1>3. CASE q \in Reconciled(r, b)
  BY <1>1, <1>3, Reconciles
<1>4. CASE q = Plain(r)
  <2>1. Shape(q) /\ \A c \in Columns \ {"status"} : q[c] = r[c]
    BY <1>1, <1>4 DEF Plain, Shape, Columns
  <2>2. q.status # "confirmed"
    BY <1>1, <1>2, <1>4 DEF Plain, Shape, Columns, Whole
  <2> QED BY <1>1, <1>2, <2>1, <2>2 DEF Good, Whole, Backed, Rejected, Columns
<1> QED BY <1>3, <1>4 DEF r
----------------------------------------------------------------------------
(* Steps *)

\* What HostFactKept asks of a step.
Kept ==
    \A b \in Booking :
        (Exists(b) /\ row[b].by = "host" /\ row'[b].id = row[b].id /\ ~Answers(b))
        => row'[b].price = row[b].price /\ row'[b].by = "host"

LEMMA Columnwise ==
    {"id", "kind", "price", "source", "status", "by", "attribution", "lead",
     "reviewed", "initial", "negotiated"} \subseteq Facts
BY DEF Facts, Columns

LEMMA LedgerStands ==
    ASSUME IInv, UNCHANGED ledger PROVE RowsOK' /\ LinkOK' /\ FinalsOK' /\ Kept
<1>1. UNCHANGED <<row, born, link, finals>>
  BY DEF ledger
<1>2. RowsOK'
  BY <1>1 DEF IInv, RowsOK, Exists
<1>3. LinkOK'
  BY <1>1 DEF IInv, LinkOK, Exists
<1>4. FinalsOK'
  BY <1>1 DEF IInv, FinalsOK, Exists
<1>5. Kept
  BY <1>1 DEF Kept
<1> QED BY <1>2, <1>3, <1>4, <1>5

LEMMA HostStands == ASSUME IInv, UNCHANGED <<row, born, host>> PROVE HostOK'
BY DEF IInv, HostOK, Lost

LEMMA SyncStands == ASSUME IInv, sync' = sync PROVE SyncOK'
BY DEF IInv, SyncOK

\* The dashboard loaded what is there, but for what syncs wrote.
LEMMA Loaded ==
    ASSUME IInv, NEW h \in Host, host[h].op # "idle"
    PROVE /\ host[h].of \in Booking /\ Good(host[h].loaded) /\ Shape(host[h].loaded)
          /\ ~Lost(h) =>
                /\ Exists(host[h].of) /\ Good(row[host[h].of])
                /\ Same(row[host[h].of], host[h].loaded)
                /\ row[host[h].of].id = host[h].loaded.id
<1>1. host[h].of \in Booking /\ Good(host[h].loaded) /\ Shape(host[h].loaded)
  BY DEF IInv, HostOK, Good
<1>2. ASSUME ~Lost(h)
      PROVE /\ Exists(host[h].of) /\ Good(row[host[h].of])
            /\ Same(row[host[h].of], host[h].loaded)
            /\ row[host[h].of].id = host[h].loaded.id
  <2>1. row[host[h].of].id = host[h].loaded.id
    BY <1>2 DEF Lost
  <2>2. Exists(host[h].of)
    BY <1>1, <2>1 DEF Exists, Shape
  <2> QED BY <1>1, <1>2, <2>1, <2>2 DEF IInv, HostOK, RowsOK
<1> QED BY <1>1, <1>2

\* A request that ends leaves the others as they were: theirs are other rows.
LEMMA Closes ==
    ASSUME IInv, Apart, NEW h \in Host, host[h].op # "idle",
           host' = [host EXCEPT ![h] = IdleHost], born' = born,
           \A b \in Booking : b # host[h].of => row'[b] = row[b]
    PROVE HostOK'
<1>1. DOMAIN host' = Host
  BY DEF IInv, HostOK
<1>2. ASSUME NEW g \in Host, host'[g].op # "idle"
      PROVE host'[g] = host[g] /\ host[g].of \in Booking
            /\ row'[host[g].of] = row[host[g].of]
  <2>1. g # h
    <3>1. host'[h] = IdleHost
      BY DEF IInv, HostOK
    <3> QED BY <1>2, <3>1 DEF IdleHost
  <2>2. host'[g] = host[g]
    BY <2>1 DEF IInv, HostOK
  <2>3. host[g].op # "idle"
    BY <1>2, <2>2
  <2>4. host[g].of \in Booking /\ host[g].of # host[h].of
    BY <2>1, <2>3 DEF Apart, IInv, HostOK
  <2> QED BY <2>2, <2>4
<1>3. ASSUME NEW g \in Host, host'[g].op # "idle"
      PROVE /\ host'[g].of \in Booking
            /\ Good(host'[g].loaded)
            /\ host'[g].loaded.id <= born'[host'[g].of]
            /\ row'[host'[g].of].id = host'[g].loaded.id
                  => Same(row'[host'[g].of], host'[g].loaded)
  <2>1. host'[g] = host[g] /\ row'[host[g].of] = row[host[g].of] /\ host[g].op # "idle"
    BY <1>2, <1>3
  <2> QED BY <2>1 DEF IInv, HostOK, Lost
<1> QED BY <1>1, <1>3 DEF HostOK, Lost

\* A request that writes a whole row.
LEMMA Writes ==
    ASSUME IInv, Apart, NEW h \in Host, host[h].op # "idle", ~Lost(h),
           NEW wanted, Saves(h, wanted), Good(wanted), wanted.id = host[h].loaded.id
    PROVE /\ RowsOK' /\ HostOK' /\ SyncOK'
          /\ row'[host[h].of].id # 0 /\ Same(row'[host[h].of], wanted)
          /\ \A b \in Booking : b # host[h].of => row'[b] = row[b]
<1> DEFINE o == host[h].of
           new == Flush(host[h].loaded, wanted, row[o])
<1>1. /\ o \in Booking /\ Shape(row[o]) /\ Same(row[o], host[h].loaded)
      /\ Exists(o) /\ row[o].id = host[h].loaded.id
  BY Loaded DEF Good
<1>2. Same(new, wanted) /\ DOMAIN new = Columns
  BY <1>1, Flushes
<1>3. row' = [row EXCEPT ![o] = new] /\ host' = [host EXCEPT ![h] = IdleHost]
      /\ UNCHANGED <<born, sync>>
  BY DEF Saves
<1> HIDE DEF new, o
<1>4. new.id = row[o].id
  BY <1>1, <1>2, Columnwise DEF Same
<1>5. Good(new) /\ new.id # 0
  BY <1>1, <1>2, <1>4, SameGood DEF Shape
<1>6. row'[o] = new /\ \A b \in Booking : b # o => row'[b] = row[b]
  BY <1>1, <1>3 DEF IInv, RowsOK
<1>7. RowsOK'
  <2>1. DOMAIN row' = Booking /\ born' \in [Booking -> Nat]
    BY <1>3 DEF IInv, RowsOK
  <2>2. ASSUME NEW b \in Booking, Exists(b)' PROVE Good(row'[b]) /\ row'[b].id <= born'[b]
    <3>1. CASE b = o
      BY <1>1, <1>3, <1>4, <1>5, <1>6, <3>1 DEF IInv, RowsOK
    <3>2. CASE b # o
      BY <1>3, <1>6, <2>2, <3>2 DEF IInv, RowsOK, Exists
    <3> QED BY <3>1, <3>2
  <2> QED BY <2>1, <2>2 DEF RowsOK
<1>8. HostOK'
  BY <1>3, <1>6, Closes DEF o
<1>9. SyncOK'
  BY <1>3, SyncStands
<1> QED BY <1>2, <1>5, <1>6, <1>7, <1>8, <1>9 DEF o

\* What a request leaves of the other rows and of the host's facts.
LEMMA WritesKept ==
    ASSUME IInv, NEW h \in Host, host[h].op # "idle", ~Lost(h),
           NEW wanted, Same(row'[host[h].of], wanted),
           \A b \in Booking : b # host[h].of => row'[b] = row[b],
           host[h].loaded.by = "host" =>
               wanted.price = host[h].loaded.price /\ wanted.by = "host"
    PROVE Kept
<1>1. host[h].of \in Booking /\ Same(row[host[h].of], host[h].loaded)
  BY Loaded
<1>2. ASSUME NEW b \in Booking, row[b].by = "host"
      PROVE row'[b].price = row[b].price /\ row'[b].by = "host"
  <2>1. CASE b = host[h].of
    <3>1. host[h].loaded.by = "host" /\ host[h].loaded.price = row[b].price
      BY <1>1, <1>2, <2>1, Columnwise DEF Same
    <3>2. row'[b].price = wanted.price /\ row'[b].by = wanted.by
      BY <2>1, Columnwise DEF Same
    <3> QED BY <3>1, <3>2
  <2>2. CASE b # host[h].of
    BY <1>2, <2>2
  <2> QED BY <2>1, <2>2
<1> QED BY <1>2 DEF Kept

LEMMA AnswersKept ==
    ASSUME IInv, NEW h \in Host, host[h].op \in {"mira", "outside", "later", "cancel"},
           host' = [host EXCEPT ![h] = IdleHost],
           \A b \in Booking : b # host[h].of => row'[b] = row[b]
    PROVE Kept
<1>1. host'[h] = IdleHost /\ host[h] # IdleHost
  BY DEF IInv, HostOK, IdleHost
<1>2. Answers(host[h].of)
  BY <1>1 DEF Answers
<1> QED BY <1>2 DEF Kept

\* The links stand by a row that is not rejected now.
LEMMA LinksStand ==
    ASSUME IInv, link' = link, NEW o \in Booking,
           Rejected(row'[o]) => Rejected(row[o]) /\ Exists(o),
           \A b \in Booking : b # o => row'[b] = row[b]
    PROVE LinkOK'
<1>1. ASSUME NEW b \in Booking, Exists(b)', Rejected(row'[b]), NEW l \in Lead, NEW p \in Property
      PROVE link'[l][p] # b
  <2>1. Exists(b) /\ Rejected(row[b])
    <3>1. CASE b = o
      BY <1>1, <3>1
    <3>2. CASE b # o
      BY <1>1, <3>2 DEF Exists
    <3> QED BY <3>1, <3>2
  <2> QED BY <2>1 DEF IInv, LinkOK
<1>2. ASSUME NEW b \in Booking, (Exists(b) /\ Rejected(row[b]))'
      PROVE \A l \in Lead, p \in Property : link'[l][p] # b
  <2>1. Exists(b)' /\ Rejected(row'[b])
    BY <1>2 DEF Rejected
  <2> QED BY <1>1, <2>1
<1> QED BY <1>2 DEF IInv, LinkOK

\* Final prices of Mira's that a step writes or moves go to bookings in `new`.
Traced(new) ==
    \A e \in finals' :
        /\ Form(e)
        /\ \/ e.source # "mira_conversation"
           \/ e.booking \in new \cup {None}
           \/ \E d \in finals : d.source = e.source /\ d.booking = e.booking

LEMMA FinalEvents ==
    ASSUME NEW r, NEW b, NEW source
    PROVE /\ Form(FinalPriceEvent(r, b, source))
          /\ FinalPriceEvent(r, b, source).source = source
          /\ FinalPriceEvent(r, b, source).booking = b
BY DEF FinalPriceEvent, Form

LEMMA Relinks ==
    ASSUME NEW e, Form(e), NEW x
    PROVE /\ Form([e EXCEPT !.booking = x]) /\ [e EXCEPT !.booking = x].booking = x
          /\ [e EXCEPT !.booking = x].source = e.source
BY DEF Form

LEMMA FinalsStand ==
    ASSUME IInv, NEW new \in SUBSET Booking, Traced(new),
           \A b \in Booking : row'[b].id # 0 /\ Rejected(row'[b]) =>
                b \notin new /\ Exists(b) /\ Rejected(row[b])
    PROVE FinalsOK'
<1>1. ASSUME NEW b \in Booking, row'[b].id # 0, Rejected(row'[b]), NEW e \in finals',
             e.booking = b, e.source = "mira_conversation"
      PROVE FALSE
  <2>1. b \notin new /\ b # None /\ Exists(b) /\ Rejected(row[b])
    BY <1>1, LedgerAssumption
  <2>2. PICK d \in finals : d.source = e.source /\ d.booking = e.booking
    BY <1>1, <2>1 DEF Traced
  <2> QED BY <1>1, <2>1, <2>2 DEF IInv, FinalsOK
<1>2. \A e \in finals' : Form(e)
  BY DEF Traced
<1>3. ASSUME NEW b \in Booking, (Exists(b) /\ Rejected(row[b]))', NEW e \in finals',
             e.booking = b
      PROVE e.source # "mira_conversation"
  <2>1. row'[b].id # 0 /\ Rejected(row'[b])
    BY <1>3 DEF Exists, Rejected
  <2> QED BY <1>1, <1>3, <2>1
<1> QED BY <1>2, <1>3 DEF FinalsOK

\* The same when the step writes one row and does not reject it.
LEMMA FinalsBeside ==
    ASSUME IInv, NEW o \in Booking, NEW new \in SUBSET {o}, Traced(new),
           row'[o].id # 0 /\ Rejected(row'[o]) =>
                new = {} /\ Exists(o) /\ Rejected(row[o]),
           \A b \in Booking : b # o => row'[b] = row[b]
    PROVE FinalsOK'
<1>1. ASSUME NEW b \in Booking, row'[b].id # 0, Rejected(row'[b])
      PROVE b \notin new /\ Exists(b) /\ Rejected(row[b])
  <2>1. CASE b = o
    BY <1>1, <2>1
  <2>2. CASE b # o
    BY <1>1, <2>2 DEF Exists
  <2> QED BY <2>1, <2>2
<1> QED BY <1>1, FinalsStand

LEMMA FinalsUntouched == ASSUME IInv, finals' = finals PROVE Traced({})
BY DEF Traced, IInv, FinalsOK

\* A deleted booking loses its events, and one that is linked gets the lead's.
LEMMA FinalsMove ==
    ASSUME IInv, NEW b \in Booking,
           \/ \E l : finals' = LinkedFinals(finals, l, b)
           \/ \E sources : finals' = UnlinkedFinals(finals, sources, {b})
    PROVE Traced({b})
<1>1. ASSUME NEW e \in finals'
      PROVE \E d, x : d \in finals /\ e = [d EXCEPT !.booking = x] /\ x \in {d.booking, b, None}
  <2>1. CASE \E l : finals' = LinkedFinals(finals, l, b)
    BY <1>1, <2>1 DEF LinkedFinals
  <2>2. CASE \E sources : finals' = UnlinkedFinals(finals, sources, {b})
    BY <1>1, <2>2 DEF UnlinkedFinals
  <2> QED BY <2>1, <2>2
<1>2. ASSUME NEW e \in finals'
      PROVE /\ Form(e)
            /\ \/ e.booking \in {b} \cup {None}
               \/ \E d \in finals : d.source = e.source /\ d.booking = e.booking
  <2>1. PICK d, x : d \in finals /\ e = [d EXCEPT !.booking = x] /\ x \in {d.booking, b, None}
    BY <1>1, <1>2
  <2>2. Form(d)
    BY <2>1 DEF IInv, FinalsOK
  <2>3. Form(e) /\ e.booking = x /\ e.source = d.source
    BY <2>1, <2>2, Relinks
  <2> QED BY <2>1, <2>3
<1> QED BY <1>2 DEF Traced
----------------------------------------------------------------------------
(* The host's requests *)

LinkType == [Lead -> [Property -> Booking \cup {None}]]

LEMMA Links ==
    ASSUME NEW links \in LinkType, NEW l, NEW b \in Booking
    PROVE /\ Linked(links, l, b) \in LinkType
          /\ \A k \in Lead, p \in Property : Linked(links, l, b)[k][p] \in {links[k][p], b}
<1>1. CASE facts[b][l].talk = << >>
  BY <1>1 DEF Linked
<1>2. CASE facts[b][l].talk # << >>
  <2> DEFINE m == [links[l] EXCEPT ![Of[b]] = b]
  <2>1. Linked(links, l, b) = [links EXCEPT ![l] = m]
    BY <1>2 DEF Linked
  <2>2. CASE l \in Lead
    <3>1. links[l] \in [Property -> Booking \cup {None}]
      BY <2>2 DEF LinkType
    <3>2. /\ m \in [Property -> Booking \cup {None}]
          /\ \A p \in Property : m[p] \in {links[l][p], b}
      BY <3>1
    <3> HIDE DEF m
    <3> QED BY <2>1, <2>2, <3>2 DEF LinkType
  <2>3. CASE l \notin Lead
    <3> HIDE DEF m
    <3>1. Linked(links, l, b) = links
      BY <2>1, <2>3 DEF LinkType
    <3> QED BY <3>1
  <2> QED BY <2>2, <2>3
<1> QED BY <1>1, <1>2

LEMMA Unlinks ==
    ASSUME link \in LinkType, NEW b \in Booking
    PROVE /\ Unlinked(link, b) \in LinkType
          /\ \A k \in Lead, p \in Property :
                Unlinked(link, b)[k][p] \in {link[k][p], None} /\ Unlinked(link, b)[k][p] # b
BY LedgerAssumption DEF Unlinked, LinkType

\* What the invariant and the host's facts ask of a step.
Fine == IInv' /\ Kept

LEMMA ConfirmPriceStep ==
    ASSUME IInv, Apart, NEW h \in Host, ConfirmPrice(h) PROVE Fine
<1> DEFINE o == host[h].of
           r == host[h].loaded
           source == IF host[h].op = "mira" THEN "host_confirmed" ELSE "host_entered"
           w == SetFinalPrice(r, Value(h), source, "host")
<1>1. /\ host[h].op \in {"mira", "outside"} /\ ~Lost(h) /\ Value(h) # 0
      /\ Saves(h, w) /\ link' = link
      /\ finals' = finals \cup {FinalPriceEvent(r, o, "host")}
  BY DEF ConfirmPrice
<1>2. o \in Booking /\ Good(r) /\ Shape(r) /\ Exists(o) /\ Same(row[o], r)
  BY <1>1, Loaded
<1>3. /\ Shape(w) /\ w.price = Value(h) /\ w.source = source /\ w.status = "confirmed"
      /\ w.by = "host"
      /\ \A c \in {"id", "kind", "attribution", "lead", "reviewed", "initial", "negotiated"} :
            w[c] = r[c]
  BY <1>2, Confirmed
<1>4. source \in {"host_confirmed", "host_entered"}
  OBVIOUS
<1> HIDE DEF w, source
<1>5. Good(w) /\ w.id = r.id /\ (Rejected(w) <=> Rejected(r))
  BY <1>1, <1>2, <1>3, <1>4 DEF Good, Whole, Backed, Rejected
<1>6. /\ RowsOK' /\ HostOK' /\ SyncOK' /\ Same(row'[o], w)
      /\ \A b \in Booking : b # o => row'[b] = row[b]
  BY <1>1, <1>5, Writes
<1>7. Rejected(row'[o]) => Rejected(row[o])
  BY <1>2, <1>5, <1>6, SameRejected
<1>8. LinkOK'
  BY <1>1, <1>2, <1>6, <1>7, LinksStand
<1>9. Kept
  BY <1>1, <1>6, AnswersKept DEF Saves
<1>10. FinalsOK'
  <2>1. Traced({})
    BY <1>1, FinalEvents DEF Traced, IInv, FinalsOK
  <2> QED BY <1>2, <1>6, <1>7, <2>1, FinalsBeside
<1> QED BY <1>6, <1>8, <1>9, <1>10 DEF Fine, IInv

LEMMA ConfirmLaterStep ==
    ASSUME IInv, Apart, NEW h \in Host, ConfirmLater(h) PROVE Fine
<1> DEFINE o == host[h].of
           r == host[h].loaded
           w == [ClearPrice(r) EXCEPT !.asked = TRUE]
<1>1. /\ host[h].op = "later" /\ ~Lost(h) /\ Saves(h, w)
      /\ link' = link /\ finals' = finals
  BY DEF ConfirmLater
<1>2. o \in Booking /\ Good(r) /\ Shape(r) /\ Exists(o) /\ Same(row[o], r)
  BY <1>1, Loaded
<1>3. /\ Shape(w) /\ w.price = 0 /\ w.source = "unknown"
      /\ w.status = "pending_confirmation" /\ w.by = "nobody"
      /\ \A c \in {"id", "kind", "attribution", "lead", "reviewed", "initial", "negotiated"} :
            w[c] = r[c]
  BY <1>2, Cleared DEF Shape, Columns
<1> HIDE DEF w
<1>4. Good(w) /\ w.id = r.id /\ (Rejected(w) <=> Rejected(r))
  BY <1>2, <1>3 DEF Good, Whole, Backed, Rejected
<1>5. /\ RowsOK' /\ HostOK' /\ SyncOK' /\ Same(row'[o], w)
      /\ \A b \in Booking : b # o => row'[b] = row[b]
  BY <1>1, <1>4, Writes
<1>6. Rejected(row'[o]) => Rejected(row[o])
  BY <1>2, <1>4, <1>5, SameRejected
<1>7. LinkOK'
  BY <1>1, <1>2, <1>5, <1>6, LinksStand
<1>8. Kept
  BY <1>1, <1>5, AnswersKept DEF Saves
<1>9. FinalsOK'
  BY <1>1, <1>2, <1>5, <1>6, FinalsUntouched, FinalsBeside
<1> QED BY <1>5, <1>7, <1>8, <1>9 DEF Fine, IInv

LEMMA DecideYesStep ==
    ASSUME IInv, Apart, NEW h \in Host, DecideYes(h) PROVE Fine
<1> DEFINE o == host[h].of
           r == host[h].loaded
           e == ShowPrices(r, View(o, r.lead, r.dates))
           W(c) == [[e EXCEPT !.lead = r.lead, !.call = c] EXCEPT
                       !.attribution = "confirmed", !.reviewed = TRUE]
<1>0. /\ host[h].op = "match" /\ ~Lost(h) /\ r.lead # NoLead
      /\ \E q \in Evidence(r, o, r.lead) :
            Saves(h, [q EXCEPT !.attribution = "confirmed", !.reviewed = TRUE])
      /\ link' = Linked(link, r.lead, o)
      /\ finals' = LinkedFinals(finals, r.lead, o)
  BY DEF DecideYes
<1>4. PICK c : Saves(h, W(c))
  BY <1>0 DEF Evidence
<1> DEFINE w == W(c)
<1>1. /\ host[h].op = "match" /\ ~Lost(h) /\ r.lead # NoLead
      /\ Saves(h, w) /\ link' = Linked(link, r.lead, o)
  BY <1>0, <1>4
<1>2. o \in Booking /\ Good(r) /\ Shape(r) /\ Exists(o) /\ Same(row[o], r)
  BY <1>1, Loaded
<1>3. Shape(e) /\ \A x \in Columns \ {"initial", "negotiated"} : e[x] = r[x]
  BY <1>2, Shows
<1> HIDE DEF e
<1>5. /\ Shape(w) /\ w.attribution = "confirmed" /\ w.lead = r.lead
      /\ \A x \in {"id", "price", "source", "status", "by"} : w[x] = e[x]
  BY <1>3 DEF Shape, Columns
<1> HIDE DEF w
<1>6. \A x \in {"id", "price", "source", "status", "by"} : w[x] = r[x]
  BY <1>3, <1>5 DEF Columns
<1>7. Good(w) /\ w.id = r.id /\ ~Rejected(w)
  BY <1>1, <1>2, <1>5, <1>6 DEF Good, Whole, Backed, Rejected
<1>8. /\ RowsOK' /\ HostOK' /\ SyncOK' /\ Same(row'[o], w)
      /\ \A b \in Booking : b # o => row'[b] = row[b]
  BY <1>1, <1>7, Writes
<1>9. ~Rejected(row'[o])
  BY <1>7, <1>8, SameRejected
<1>10. LinkOK'
  <2>1. link' \in LinkType /\ \A k \in Lead, p \in Property : link'[k][p] \in {link[k][p], o}
    BY <1>1, <1>2, Links DEF IInv, LinkOK, LinkType
  <2>2. ASSUME NEW b \in Booking, (Exists(b) /\ Rejected(row[b]))'
        PROVE \A l \in Lead, p \in Property : link'[l][p] # b
    <3>1. Rejected(row'[b]) /\ row'[b].id # 0
      BY <2>2 DEF Rejected, Exists
    <3>2. b # o
      BY <1>9, <3>1
    <3>3. Exists(b) /\ Rejected(row[b])
      BY <1>8, <3>1, <3>2 DEF Exists
    <3> QED BY <2>1, <3>2, <3>3 DEF IInv, LinkOK
  <2> QED BY <2>1, <2>2 DEF LinkOK, LinkType
<1>11. Kept
  BY <1>1, <1>6, <1>8, WritesKept
<1>12. FinalsOK'
  <2>1. Traced({o})
    BY <1>0, <1>2, FinalsMove
  <2> QED BY <1>2, <1>8, <1>9, <2>1, FinalsBeside
<1> QED BY <1>8, <1>10, <1>11, <1>12 DEF Fine, IInv

LEMMA DecideNoStep ==
    ASSUME IInv, Apart, NEW h \in Host, DecideNo(h) PROVE Fine
<1> DEFINE o == host[h].of
           r == host[h].loaded
           e == IF r.by = "mira" THEN ClearPrice(r) ELSE r
           w == Withdrawn(r)
<1>1. /\ host[h].op = "match" /\ ~Lost(h) /\ Saves(h, w) /\ link' = Unlinked(link, o)
      /\ finals' = UnlinkedFinals(finals, {"mira_conversation"}, {o})
  BY DEF DecideNo
<1>2. o \in Booking /\ Good(r) /\ Shape(r)
  BY <1>1, Loaded
<1>3. /\ Shape(e) /\ Whole(e) /\ e.id = r.id /\ e.by # "mira"
      /\ r.by = "host" => e.price = r.price /\ e.by = "host"
  BY <1>2, Cleared DEF Good, Whole
<1>4. w = [e EXCEPT !.attribution = "not_attributed", !.reviewed = TRUE,
                    !.initial = 0, !.negotiated = 0]
  BY DEF Withdrawn
<1> HIDE DEF w, e
<1>5. /\ Shape(w) /\ w.initial = 0 /\ w.negotiated = 0
      /\ \A c \in {"id", "price", "source", "status", "by"} : w[c] = e[c]
  BY <1>3, <1>4 DEF Shape, Columns
<1>6. Good(w) /\ w.id = r.id
  BY <1>3, <1>5 DEF Good, Whole, Backed
<1>7. r.by = "host" => w.price = r.price /\ w.by = "host"
  BY <1>3, <1>5
<1>8. /\ RowsOK' /\ HostOK' /\ SyncOK' /\ Same(row'[o], w)
      /\ \A b \in Booking : b # o => row'[b] = row[b]
  BY <1>1, <1>6, Writes
<1>9. LinkOK'
  <2>1. link' \in LinkType
        /\ \A k \in Lead, p \in Property : link'[k][p] \in {link[k][p], None} /\ link'[k][p] # o
    BY <1>1, <1>2, Unlinks DEF IInv, LinkOK, LinkType
  <2>2. ASSUME NEW b \in Booking, (Exists(b) /\ Rejected(row[b]))'
        PROVE \A l \in Lead, p \in Property : link'[l][p] # b
    <3>1. Rejected(row'[b]) /\ row'[b].id # 0
      BY <2>2 DEF Rejected, Exists
    <3>2. CASE b = o
      BY <2>1, <3>2
    <3>3. CASE b # o
      <4>1. Exists(b) /\ Rejected(row[b])
        BY <1>8, <3>1, <3>3 DEF Exists
      <4>2. b # None
        BY LedgerAssumption
      <4> QED BY <2>1, <4>1, <4>2 DEF IInv, LinkOK
    <3> QED BY <3>2, <3>3
  <2> QED BY <2>1, <2>2 DEF LinkOK, LinkType
<1>10. Kept
  BY <1>1, <1>7, <1>8, WritesKept
<1>11. FinalsOK'
  <2>1. ASSUME NEW f \in finals'
        PROVE /\ Form(f) /\ \E d \in finals : d.source = f.source /\ f.booking \in {d.booking, None}
              /\ f.booking = o => f.source # "mira_conversation"
    <3>1. PICK d, x :
              /\ d \in finals
              /\ f = [d EXCEPT !.booking = x]
              /\ x = IF d.source = "mira_conversation" /\ d.booking = o THEN None ELSE d.booking
      BY <1>1, <2>1 DEF UnlinkedFinals
    <3>2. Form(d)
      BY <3>1 DEF IInv, FinalsOK
    <3>3. Form(f) /\ f.booking = x /\ f.source = d.source
      BY <3>1, <3>2, Relinks
    <3>4. o # None
      BY <1>2, LedgerAssumption
    <3> QED BY <3>1, <3>3, <3>4
  <2>2. ASSUME NEW b \in Booking, (Exists(b) /\ Rejected(row[b]))', NEW f \in finals',
               f.booking = b
        PROVE f.source # "mira_conversation"
    <3>1. CASE b = o
      BY <2>1, <2>2, <3>1
    <3>2. CASE b # o
      <4>1. Exists(b) /\ Rejected(row[b]) /\ b # None
        BY <1>8, <2>2, <3>2, LedgerAssumption DEF Exists, Rejected
      <4> QED BY <2>1, <2>2, <4>1 DEF IInv, FinalsOK
    <3> QED BY <3>1, <3>2
  <2> QED BY <2>1, <2>2 DEF FinalsOK
<1> QED BY <1>8, <1>9, <1>10, <1>11 DEF Fine, IInv

LEMMA UpdateKindStep ==
    ASSUME IInv, Apart, NEW h \in Host, UpdateKind(h) PROVE Fine
<1> DEFINE o == host[h].of
           r == host[h].loaded
           e == [r EXCEPT !.kind = host[h].req.kind]
           w == IF e.kind = "reservation" THEN Pending(e) ELSE e
<1>1. /\ host[h].op = "kind" /\ ~Lost(h) /\ Saves(h, w)
      /\ link' = link /\ finals' = finals
  BY DEF UpdateKind
<1>2. o \in Booking /\ Good(r) /\ Shape(r) /\ Exists(o) /\ Same(row[o], r)
  BY <1>1, Loaded
<1>3. Shape(e) /\ \A c \in Columns \ {"kind"} : e[c] = r[c]
  BY <1>2 DEF Shape, Columns
<1> HIDE DEF e
<1>4. Whole(e)
  BY <1>2, <1>3 DEF Good, Whole, Columns
<1>5. /\ Shape(w) /\ Whole(w) /\ \A c \in Columns \ {"status"} : w[c] = e[c]
  BY <1>3, <1>4, Pends
<1> HIDE DEF w
<1>6. /\ w.id = r.id /\ w.price = r.price /\ w.by = r.by /\ w.attribution = r.attribution
      /\ w.lead = r.lead /\ w.reviewed = r.reviewed /\ w.initial = r.initial
      /\ w.negotiated = r.negotiated
  BY <1>3, <1>5 DEF Columns
<1>7. Good(w) /\ (Rejected(w) <=> Rejected(r))
  BY <1>2, <1>5, <1>6 DEF Good, Backed, Rejected
<1>8. /\ RowsOK' /\ HostOK' /\ SyncOK' /\ Same(row'[o], w)
      /\ \A b \in Booking : b # o => row'[b] = row[b]
  BY <1>1, <1>6, <1>7, Writes
<1>9. Rejected(row'[o]) => Rejected(row[o])
  BY <1>2, <1>7, <1>8, SameRejected
<1>10. LinkOK'
  BY <1>1, <1>2, <1>8, <1>9, LinksStand
<1>11. Kept
  BY <1>1, <1>6, <1>8, WritesKept
<1>12. FinalsOK'
  BY <1>1, <1>2, <1>8, <1>9, FinalsUntouched, FinalsBeside
<1> QED BY <1>8, <1>10, <1>11, <1>12 DEF Fine, IInv

LEMMA CancelBookingStep ==
    ASSUME IInv, Apart, NEW h \in Host, CancelBooking(h) PROVE Fine
<1> DEFINE o == host[h].of
<1>1. /\ host[h].op = "cancel" /\ host' = [host EXCEPT ![h] = IdleHost]
      /\ UNCHANGED <<born, sync>>
  BY DEF CancelBooking
<1>2. o \in Booking
  BY <1>1, Loaded
<1>3. ASSUME \A b \in Booking : b # o => row'[b] = row[b] PROVE HostOK'
  BY <1>1, <1>3, Closes
<1>4. SyncOK'
  BY <1>1, SyncStands
<1>5. CASE Lost(h)
  <2>1. UNCHANGED ledger
    BY <1>1, <1>5 DEF CancelBooking, ledger
  <2>2. HostOK'
    BY <1>3, <2>1 DEF ledger
  <2> QED BY <1>4, <2>1, <2>2, LedgerStands DEF Fine, IInv
<1>6. CASE ~Lost(h)
  <2>1. /\ row' = [row EXCEPT ![o] = NoRow] /\ link' = Unlinked(link, o)
        /\ finals' = UnlinkedFinals(finals, Sources, {o})
    BY <1>6 DEF CancelBooking
  <2>2. row'[o] = NoRow /\ \A b \in Booking : b # o => row'[b] = row[b]
    BY <1>2, <2>1 DEF IInv, RowsOK
  <2>3. row'[o].id = 0
    BY <2>2 DEF NoRow
  <2>4. RowsOK'
    <3>1. DOMAIN row' = Booking /\ born' \in [Booking -> Nat]
      BY <1>1, <2>1 DEF IInv, RowsOK
    <3>2. ASSUME NEW b \in Booking, Exists(b)' PROVE Good(row'[b]) /\ row'[b].id <= born'[b]
      <4>1. b # o
        BY <2>3, <3>2 DEF Exists
      <4> QED BY <1>1, <2>2, <3>2, <4>1 DEF IInv, RowsOK, Exists
    <3> QED BY <3>1, <3>2 DEF RowsOK
  <2>5. LinkOK'
    <3>1. link' \in LinkType
          /\ \A k \in Lead, p \in Property : link'[k][p] \in {link[k][p], None} /\ link'[k][p] # o
      BY <1>2, <2>1, Unlinks DEF IInv, LinkOK, LinkType
    <3>2. ASSUME NEW b \in Booking, (Exists(b) /\ Rejected(row[b]))'
          PROVE \A l \in Lead, p \in Property : link'[l][p] # b
      <4>1. Rejected(row'[b]) /\ row'[b].id # 0
        BY <3>2 DEF Rejected, Exists
      <4>2. b # o
        BY <2>3, <4>1
      <4>3. Exists(b) /\ Rejected(row[b]) /\ b # None
        BY <2>2, <4>1, <4>2, LedgerAssumption DEF Exists
      <4> QED BY <3>1, <4>3 DEF IInv, LinkOK
    <3> QED BY <3>1, <3>2 DEF LinkOK, LinkType
  <2>6. Kept
    BY <1>1, <2>2, AnswersKept
  <2>7. HostOK'
    BY <1>3, <2>2
  <2>8. FinalsOK'
    <3>1. Traced({o})
      BY <1>2, <2>1, FinalsMove
    <3> QED BY <1>2, <2>2, <2>3, <3>1, FinalsBeside
  <2> QED BY <1>4, <2>4, <2>5, <2>6, <2>7, <2>8 DEF Fine, IInv
<1> QED BY <1>5, <1>6

LEMMA RefusedStep ==
    ASSUME IInv, Apart, NEW h \in Host, Refused(h) PROVE Fine
<1>1. /\ host[h].op # "idle" /\ host' = [host EXCEPT ![h] = IdleHost]
      /\ sync' = sync /\ UNCHANGED ledger
  BY DEF Refused
<1>2. HostOK'
  BY <1>1, Closes DEF ledger
<1> QED BY <1>1, <1>2, LedgerStands, SyncStands DEF Fine, IInv

LEMMA OpensStep ==
    ASSUME IInv, NEW h \in Host, NEW b \in Booking, Opens(h, b) PROVE Fine
<1>1. /\ UNCHANGED ledger /\ sync' = sync /\ Exists(b)
      /\ \E q \in Requests : host' = [host EXCEPT ![h] =
                       [op |-> q.op, of |-> b, req |-> q, loaded |-> row[b]]]
  BY DEF Opens
<1>2. PICK q \in Requests : host' = [host EXCEPT ![h] =
                       [op |-> q.op, of |-> b, req |-> q, loaded |-> row[b]]]
  BY <1>1
<1>3. UNCHANGED <<row, born>>
  BY <1>1 DEF ledger
<1>4. HostOK'
  <2>1. DOMAIN host' = Host
    BY <1>2 DEF IInv, HostOK
  <2>2. ASSUME NEW g \in Host, host'[g].op # "idle"
        PROVE /\ host'[g].of \in Booking
              /\ Good(host'[g].loaded)
              /\ host'[g].loaded.id <= born'[host'[g].of]
              /\ row'[host'[g].of].id = host'[g].loaded.id
                    => Same(row'[host'[g].of], host'[g].loaded)
    <3>1. CASE g = h
      <4>1. host'[g].of = b /\ host'[g].loaded = row[b]
        BY <1>2, <3>1 DEF IInv, HostOK
      <4> QED BY <1>1, <1>3, <4>1 DEF IInv, RowsOK, Same
    <3>2. CASE g # h
      <4>1. host'[g] = host[g]
        BY <1>2, <3>2 DEF IInv, HostOK
      <4> QED BY <1>3, <2>2, <4>1 DEF IInv, HostOK, Lost
    <3> QED BY <3>1, <3>2
  <2> QED BY <2>1, <2>2 DEF HostOK, Lost
<1> QED BY <1>1, <1>4, LedgerStands, SyncStands DEF Fine, IInv
----------------------------------------------------------------------------
(* Syncs *)

LEMMA SyncLoads ==
    ASSUME IInv, UNCHANGED ledger, host' = host, NEW s \in Sync, NEW t,
           sync' = [sync EXCEPT ![s] = t],
           t.pc = "loaded" => \A b \in Synced : t.rows[b].id # 0 => Shape(t.rows[b])
    PROVE Fine
<1>1. SyncOK'
  <2>1. DOMAIN sync' = Sync /\ sync'[s] = t /\ \A u \in Sync : u # s => sync'[u] = sync[u]
    BY DEF IInv, SyncOK
  <2>2. ASSUME NEW u \in Sync, sync'[u].pc = "loaded", NEW b \in Synced, sync'[u].rows[b].id # 0
        PROVE Shape(sync'[u].rows[b])
    <3>1. CASE u = s
      BY <2>1, <2>2, <3>1
    <3>2. CASE u # s
      BY <2>1, <2>2, <3>2 DEF IInv, SyncOK
    <3> QED BY <3>1, <3>2
  <2> QED BY <2>1, <2>2 DEF SyncOK
<1>2. HostOK'
  BY HostStands DEF ledger
<1> QED BY <1>1, <1>2, LedgerStands DEF Fine, IInv

LEMMA SyncStartsStep == ASSUME IInv, NEW s \in Sync, SyncStarts(s) PROVE Fine
<1>1. UNCHANGED ledger /\ host' = host
  BY DEF SyncStarts
<1>2. PICK todo : sync' = [sync EXCEPT ![s] = [pc |-> "idle", todo |-> todo]]
  BY DEF SyncStarts
<1>3. [pc |-> "idle", todo |-> todo].pc # "loaded"
  OBVIOUS
<1> QED BY <1>1, <1>2, <1>3, SyncLoads

LEMMA FetchesStep ==
    ASSUME IInv, NEW s \in Sync, NEW p \in Property, Fetches(s, p) \/ FetchFails(s, p) PROVE Fine
<1>1. UNCHANGED ledger /\ host' = host /\ sync[s].pc = "idle"
  BY DEF Fetches, FetchFails
<1>2. CASE Fetches(s, p)
  <2> DEFINE t == [pc |-> "fetched", todo |-> sync[s].todo, of |-> p,
                   seen |-> [b \in Synced |-> Parsed(feed[b])]]
  <2>1. sync' = [sync EXCEPT ![s] = t]
    BY <1>2 DEF Fetches
  <2>2. t.pc # "loaded"
    OBVIOUS
  <2> HIDE DEF t
  <2> QED BY <1>1, <2>1, <2>2, SyncLoads
<1>3. CASE FetchFails(s, p)
  <2> DEFINE t == [sync[s] EXCEPT !.todo = sync[s].todo \ {p}]
  <2>1. sync' = [sync EXCEPT ![s] = t]
    BY <1>3 DEF FetchFails
  <2>2. t.pc # "loaded"
    BY <1>1
  <2> HIDE DEF t
  <2> QED BY <1>1, <2>1, <2>2, SyncLoads
<1> QED BY <1>2, <1>3

LEMMA LoadsStep == ASSUME IInv, NEW s \in Sync, LoadsBookings(s) PROVE Fine
<1> DEFINE t == [pc |-> "loaded", todo |-> sync[s].todo, of |-> sync[s].of,
                 seen |-> sync[s].seen, rows |-> [b \in Synced |-> row[b]]]
<1>1. UNCHANGED ledger /\ host' = host /\ sync' = [sync EXCEPT ![s] = t]
  BY DEF LoadsBookings
<1>2. \A b \in Synced : t.rows[b].id # 0 => Shape(t.rows[b])
  BY LedgerAssumption DEF IInv, RowsOK, Exists, Good
<1> HIDE DEF t
<1> QED BY <1>1, <1>2, SyncLoads

LEMMA AbortsStep == ASSUME IInv, NEW s \in Sync, SyncAborts(s) PROVE Fine
<1>1. UNCHANGED ledger /\ host' = host /\ sync' = [sync EXCEPT ![s] = IdleSync]
  BY DEF SyncAborts, EndsJob
<1>2. IdleSync.pc # "loaded"
  BY DEF IdleSync
<1> QED BY <1>1, <1>2, SyncLoads

\* A transaction that inserts rows, deletes rows and refreshes rows.
LEMMA Moves ==
    ASSUME IInv, host' = host, SyncOK', DOMAIN row' = Booking, born' \in [Booking -> Nat],
           NEW fresh \in SUBSET Booking,
           \A b \in fresh : /\ ~Exists(b) /\ born'[b] = born[b] + 1 /\ row'[b].id = born[b] + 1
                            /\ Good(row'[b]) /\ ~Rejected(row'[b]),
           \A b \in Booking \ fresh :
               /\ born'[b] = born[b]
               /\ row'[b].id # 0 => Exists(b) /\ Shape(row'[b]) /\ Same(row'[b], row[b]),
           link' \in LinkType,
           \A l \in Lead, p \in Property : link'[l][p] \in {None, link[l][p]} \cup fresh,
           Traced(fresh)
    PROVE Fine
<1>1. ASSUME NEW b \in Booking \ fresh, row'[b].id # 0
      PROVE /\ Exists(b) /\ row'[b].id = row[b].id /\ Good(row[b]) /\ Good(row'[b])
            /\ Same(row'[b], row[b]) /\ (Rejected(row'[b]) <=> Rejected(row[b]))
  <2>1. Exists(b) /\ Shape(row'[b]) /\ Same(row'[b], row[b])
    BY <1>1
  <2>2. Good(row[b])
    BY <2>1 DEF IInv, RowsOK
  <2>3. row'[b].id = row[b].id
    BY <2>1, Columnwise DEF Same
  <2> QED BY <2>1, <2>2, <2>3, SameGood, SameRejected
<1>2. RowsOK'
  <2>1. ASSUME NEW b \in Booking, row'[b].id # 0 PROVE Good(row'[b]) /\ row'[b].id <= born'[b]
    <3>1. CASE b \in fresh
      BY <3>1 DEF IInv, RowsOK
    <3>2. CASE b \notin fresh
      BY <1>1, <2>1, <3>2 DEF IInv, RowsOK
    <3> QED BY <3>1, <3>2
  <2> QED BY <2>1 DEF RowsOK, Exists
<1>3. HostOK'
  <2>1. ASSUME NEW h \in Host, host[h].op # "idle"
        PROVE /\ host[h].of \in Booking /\ Good(host[h].loaded)
              /\ host[h].loaded.id <= born'[host[h].of]
              /\ row'[host[h].of].id = host[h].loaded.id => Same(row'[host[h].of], host[h].loaded)
    <3> DEFINE o == host[h].of
               r == host[h].loaded
    <3>1. /\ o \in Booking /\ Good(r) /\ r.id \in Nat \ {0} /\ r.id <= born[o] /\ born[o] \in Nat
          /\ row[o].id = r.id => Same(row[o], r)
      BY <2>1 DEF IInv, HostOK, RowsOK, Lost, Good, Shape
    <3> HIDE DEF o, r
    <3>2. CASE o \in fresh
      <4>1. born'[o] = born[o] + 1 /\ row'[o].id = born[o] + 1
        BY <3>2
      <4>2. row'[o].id # r.id /\ r.id <= born'[o]
        BY <3>1, <4>1
      <4> QED BY <3>1, <4>2 DEF o, r
    <3>3. CASE o \notin fresh
      <4>1. born'[o] = born[o]
        BY <3>1, <3>3
      <4>2. ASSUME row'[o].id = r.id PROVE Same(row'[o], r)
        <5>1. row'[o].id = row[o].id /\ Same(row'[o], row[o])
          BY <1>1, <3>1, <3>3, <4>2
        <5> QED BY <3>1, <4>2, <5>1 DEF Same
      <4> QED BY <3>1, <4>1, <4>2 DEF o, r
    <3> QED BY <3>2, <3>3
  <2> QED BY <2>1 DEF IInv, HostOK, Lost
<1>4. LinkOK'
  <2>1. ASSUME NEW b \in Booking, (Exists(b) /\ Rejected(row[b]))', NEW l \in Lead, NEW p \in Property
        PROVE link'[l][p] # b
    <3>1. Rejected(row'[b]) /\ row'[b].id # 0
      BY <2>1 DEF Rejected, Exists
    <3>2. b \notin fresh
      BY <3>1
    <3>3. Exists(b) /\ Rejected(row[b]) /\ b # None
      BY <1>1, <3>1, <3>2, LedgerAssumption
    <3> QED BY <3>2, <3>3 DEF IInv, LinkOK
  <2> QED BY <2>1 DEF LinkOK, LinkType
<1>5. Kept
  <2>1. ASSUME NEW b \in Booking, Exists(b), row'[b].id = row[b].id
        PROVE row'[b].price = row[b].price /\ row'[b].by = row[b].by
    <3>1. b \notin fresh /\ row'[b].id # 0
      BY <2>1 DEF Exists
    <3>2. Same(row'[b], row[b])
      BY <1>1, <3>1
    <3> QED BY <3>2, Columnwise DEF Same
  <2> QED BY <2>1 DEF Kept
<1>6. FinalsOK'
  <2>1. ASSUME NEW b \in Booking, row'[b].id # 0, Rejected(row'[b])
        PROVE b \notin fresh /\ Exists(b) /\ Rejected(row[b])
    BY <1>1, <2>1
  <2> QED BY <2>1, FinalsStand
<1> QED BY <1>2, <1>3, <1>4, <1>5, <1>6 DEF Fine, IInv

LEMMA CommitsStep == ASSUME IInv, NEW s \in Sync, CommitsSync(s) PROVE Fine
<1> DEFINE fresh == Listed(s) \ Known(s)
           both == Known(s) \cap Listed(s)
           gone == {b \in Known(s) \ Listed(s) : row[b].id = sync[s].rows[b].id}
           seen == sync[s].seen
           loaded == sync[s].rows
           inserted == [b \in fresh |-> FromEvent(b, seen[b])]
           kept == [l \in Lead |-> [p \in Property |->
                       IF link[l][p] \in gone THEN None ELSE link[l][p]]]
           left == UnlinkedFinals(finals, Sources, gone)
           claims(new, l) == {b \in fresh : new[b].lead = l}
           sold(new) == {FinalPriceEvent(new[b], b, "mira_conversation") :
                            b \in {x \in fresh : new[x].by = "mira"}}
<1>1. /\ sync[s].pc = "loaded" /\ ~Collides(s) /\ host' = host
      /\ sync' = [sync EXCEPT ![s] = [pc |-> "idle", todo |-> sync[s].todo \ {sync[s].of}]]
  BY DEF CommitsSync, NextProperty
<1>2. PICK new \in [fresh -> UNION {Reconciled(inserted[b], b) \cup
                                     {Plain(inserted[b])} : b \in fresh}],
           last \in [Lead -> fresh \cup {None}] :
        /\ \A b \in fresh : new[b] \in Reconciled(inserted[b], b) \cup {Plain(inserted[b])}
        /\ \A l \in Lead :
              IF claims(new, l) = {} THEN last[l] = None ELSE last[l] \in claims(new, l)
        /\ row' = [b \in Booking |->
                     IF b \in fresh THEN new[b]
                     ELSE IF b \in gone THEN NoRow
                     ELSE IF b \in both /\ Exists(b)
                     THEN Flush(loaded[b], Refreshed(loaded[b], seen[b]), row[b])
                     ELSE row[b]]
        /\ born' = [b \in Booking |-> IF b \in fresh THEN NewId(b) ELSE born[b]]
        /\ link' = [l \in Lead |->
              IF last[l] = None THEN kept[l] ELSE Linked(kept, l, last[l])[l]]
        /\ finals' = {[e EXCEPT !.booking =
              IF e.lead \in Lead /\ e.property = sync[s].of /\ last[e.lead] # None
              THEN last[e.lead] ELSE @] : e \in left \cup sold(new)}
  BY Zenon DEF CommitsSync
<1>3. fresh \in SUBSET Booking /\ both \in SUBSET Synced /\ Synced \subseteq Booking
  BY LedgerAssumption DEF Listed, Known, Slots
<1>4. \A b \in fresh : ~Exists(b)
  BY <1>1 DEF Collides
<1>5. \A b \in both : loaded[b].id # 0
  BY DEF Known
<1>6. \A b \in fresh : inserted[b] = FromEvent(b, seen[b])
  OBVIOUS
<1> HIDE DEF fresh, both, gone, seen, inserted, kept, loaded, left, sold
<1>7. SyncOK'
  <2>1. DOMAIN sync' = Sync /\ sync'[s].pc = "idle" /\ \A u \in Sync : u # s => sync'[u] = sync[u]
    BY <1>1 DEF IInv, SyncOK
  <2>2. ASSUME NEW u \in Sync, sync'[u].pc = "loaded" PROVE u # s /\ sync[u] = sync'[u]
    BY <2>1, <2>2
  <2> QED BY <2>1, <2>2 DEF IInv, SyncOK
<1>8. DOMAIN row' = Booking /\ born' \in [Booking -> Nat]
  BY <1>2 DEF IInv, RowsOK, NewId
<1>9. ASSUME NEW b \in fresh
      PROVE /\ ~Exists(b) /\ born'[b] = born[b] + 1 /\ row'[b].id = born[b] + 1
            /\ Good(row'[b]) /\ ~Rejected(row'[b])
  <2>1. b \in Booking /\ row'[b] = new[b] /\ born'[b] = born[b] + 1
    BY <1>2, <1>3 DEF NewId
  <2>2. new[b] \in Reconciled(FromEvent(b, seen[b]), b) \cup {Plain(FromEvent(b, seen[b]))}
    BY <1>2, <1>6
  <2>3. born \in [Booking -> Nat]
    BY DEF IInv, RowsOK
  <2>4. Good(new[b]) /\ new[b].id = born[b] + 1 /\ ~Rejected(new[b])
    BY <2>1, <2>2, <2>3, FreshRow
  <2> QED BY <1>4, <2>1, <2>4
<1>10. ASSUME NEW b \in Booking \ fresh
       PROVE /\ born'[b] = born[b]
             /\ row'[b].id # 0 => Exists(b) /\ Shape(row'[b]) /\ Same(row'[b], row[b])
  <2>1. born'[b] = born[b]
    BY <1>2
  <2>2. CASE b \in gone
    <3>1. row'[b] = NoRow
      BY <1>2, <2>2
    <3> QED BY <2>1, <3>1 DEF NoRow
  <2>3. CASE b \notin gone /\ b \in both /\ Exists(b)
    <3>1. row'[b] = Flush(loaded[b], Refreshed(loaded[b], seen[b]), row[b])
      BY <1>2, <2>3
    <3>2. Shape(row[b])
      BY <2>3 DEF IInv, RowsOK, Good
    <3>3. Shape(loaded[b])
      BY <1>1, <1>3, <1>5, <2>3 DEF loaded, IInv, SyncOK
    <3>4. Same(row'[b], row[b]) /\ DOMAIN row'[b] = Columns
      BY <3>1, <3>2, <3>3, Refreshes
    <3>5. row'[b].id = row[b].id
      BY <3>4, Columnwise DEF Same
    <3>6. Shape(row'[b])
      BY <3>2, <3>4, <3>5 DEF Shape
    <3> QED BY <2>1, <2>3, <3>4, <3>6
  <2>4. CASE b \notin gone /\ ~(b \in both /\ Exists(b))
    <3>1. row'[b] = row[b]
      BY <1>2, <2>4
    <3>2. row[b].id # 0 => Exists(b) /\ Shape(row[b])
      BY DEF Exists, IInv, RowsOK, Good
    <3> QED BY <2>1, <3>1, <3>2 DEF Same
  <2> QED BY <2>2, <2>3, <2>4
<1>11. /\ link' \in LinkType
       /\ \A l \in Lead, p \in Property : link'[l][p] \in {None, link[l][p]} \cup fresh
  <2>1. link \in LinkType
    BY DEF IInv, LinkOK, LinkType
  <2>2. /\ kept \in LinkType
        /\ \A l \in Lead, p \in Property : kept[l][p] \in {None, link[l][p]}
    BY <2>1 DEF kept, LinkType
  <2>3. ASSUME NEW l \in Lead
        PROVE /\ link'[l] \in [Property -> Booking \cup {None}]
              /\ \A p \in Property : link'[l][p] \in {None, link[l][p]} \cup fresh
    <3>1. link'[l] = IF last[l] = None THEN kept[l] ELSE Linked(kept, l, last[l])[l]
      BY <1>2
    <3>2. last[l] \in fresh \cup {None}
      BY <1>2
    <3>3. CASE last[l] = None
      BY <2>2, <3>1, <3>3 DEF LinkType
    <3>4. CASE last[l] # None
      <4> DEFINE b == last[l]
                 k == Linked(kept, l, b)
      <4>1. link'[l] = k[l]
        BY <3>1, <3>4
      <4>2. b \in fresh /\ b \in Booking
        BY <1>3, <3>2, <3>4
      <4> HIDE DEF b
      <4>3. k \in LinkType /\ \A p \in Property : k[l][p] \in {kept[l][p], b}
        BY <2>2, <4>2, Links
      <4> HIDE DEF k
      <4> QED BY <2>2, <4>1, <4>2, <4>3 DEF LinkType
    <3> QED BY <3>3, <3>4
  <2>4. link' = [l \in Lead |-> link'[l]]
    BY <1>2
  <2> QED BY <2>3, <2>4 DEF LinkType
<1>12. Traced(fresh)
  <2>1. ASSUME NEW e \in left \cup sold(new)
        PROVE /\ Form(e)
              /\ \/ e.booking \in fresh \cup {None}
                 \/ \E d \in finals : d.source = e.source /\ d.booking = e.booking
    <3>1. CASE e \in left
      <4>1. PICK d, x :
                d \in finals /\ e = [d EXCEPT !.booking = x] /\ x \in {d.booking, None}
        BY <3>1 DEF left, UnlinkedFinals
      <4>2. Form(d)
        BY <4>1 DEF IInv, FinalsOK
      <4>3. Form(e) /\ e.booking = x /\ e.source = d.source
        BY <4>1, <4>2, Relinks
      <4> QED BY <4>1, <4>3
    <3>2. CASE e \in sold(new)
      BY <3>2, FinalEvents DEF sold
    <3> QED BY <3>1, <3>2
  <2>2. ASSUME NEW f \in finals'
        PROVE /\ Form(f)
              /\ \/ f.booking \in fresh \cup {None}
                 \/ \E d \in finals : d.source = f.source /\ d.booking = f.booking
    <3>1. PICK e, x :
              e \in left \cup sold(new) /\ f = [e EXCEPT !.booking = x] /\ (x = e.booking \/ x \in fresh)
      <4>1. PICK e \in left \cup sold(new) : f = [e EXCEPT !.booking =
                IF e.lead \in Lead /\ e.property = sync[s].of /\ last[e.lead] # None
                THEN last[e.lead] ELSE e.booking]
        BY <1>2
      <4> DEFINE y == IF e.lead \in Lead /\ e.property = sync[s].of /\ last[e.lead] # None
                      THEN last[e.lead] ELSE e.booking
      <4>2. y = e.booking \/ y \in fresh
        BY <1>2
      <4> QED BY <4>1, <4>2
    <3>2. Form(e)
      BY <2>1, <3>1
    <3>3. Form(f) /\ f.booking = x /\ f.source = e.source
      BY <3>1, <3>2, Relinks
    <3> QED BY <2>1, <3>1, <3>3
  <2> QED BY <2>2 DEF Traced
<1> QED BY <1>1, <1>3, <1>7, <1>8, <1>9, <1>10, <1>11, <1>12, Moves

\* What POST /bookings leaves: the plain row, one that the host closed a lead
\* into, or one that was reconciled.
Typed(b, kind, dates, identity, price) ==
    LET plain == [NewRow EXCEPT !.id = NewId(b), !.dates = dates, !.kind = kind,
                                !.identity = identity]
    IN  IF price = 0 THEN plain ELSE SetFinalPrice(plain, price, "host_entered", "host")

Created(b, new, r, price, l) ==
    LET typed == IF price = 0 THEN {} ELSE {FinalPriceEvent(r, b, "host")}
        sold == IF new.by = "mira"
                THEN {FinalPriceEvent(new, b, "mira_conversation")} ELSE {}
        named == new.lead # NoLead
    IN  /\ \/ new = r
           \/ /\ l # NoLead
              /\ \E e \in Evidence(r, b, l) :
                    new = Pending([e EXCEPT !.attribution = "confirmed",
                                            !.reviewed = TRUE])
           \/ new \in Reconciled(r, b)
        /\ row' = [row EXCEPT ![b] = new]
        /\ link' = IF named THEN Linked(link, new.lead, b) ELSE link
        /\ finals' = typed \cup sold \cup
               (IF named THEN LinkedFinals(finals, new.lead, b) ELSE finals)

LEMMA Creates ==
    ASSUME NEW b \in Booking, CreateBooking(b)
    PROVE \E kind \in Kind, dates \in HostDates, identity \in {"full", "none"},
             price \in Amount \cup {0}, l \in Lead \cup {NoLead} :
            \E new : Created(b, new, Typed(b, kind, dates, identity, price), price, l)
<1>1. PICK kind \in Kind, dates \in HostDates, identity \in {"full", "none"},
           price \in Amount \cup {0}, l \in Lead \cup {NoLead}, ok \in BOOLEAN :
        LET r == Typed(b, kind, dates, identity, price)
            typed == IF price = 0 THEN {} ELSE {FinalPriceEvent(r, b, "host")}
        IN  \E new \in
                  IF ~ok THEN {r}
                  ELSE IF l # NoLead
                  THEN {Pending([e EXCEPT !.attribution = "confirmed", !.reviewed = TRUE]) :
                            e \in Evidence(r, b, l)}
                  ELSE Reconciled(r, b) :
            LET sold == IF new.by = "mira"
                        THEN {FinalPriceEvent(new, b, "mira_conversation")} ELSE {}
                named == new.lead # NoLead
            IN  /\ row' = [row EXCEPT ![b] = new]
                /\ link' = IF named THEN Linked(link, new.lead, b) ELSE link
                /\ finals' = typed \cup sold \cup
                       (IF named THEN LinkedFinals(finals, new.lead, b) ELSE finals)
  BY Zenon DEF CreateBooking, Typed
<1> DEFINE r == Typed(b, kind, dates, identity, price)
           attached == {Pending([e EXCEPT !.attribution = "confirmed", !.reviewed = TRUE]) :
                            e \in Evidence(r, b, l)}
           typed == IF price = 0 THEN {} ELSE {FinalPriceEvent(r, b, "host")}
           sold(new) == IF new.by = "mira"
                        THEN {FinalPriceEvent(new, b, "mira_conversation")} ELSE {}
<1>2. PICK new \in IF ~ok THEN {r} ELSE IF l # NoLead THEN attached ELSE Reconciled(r, b) :
        /\ row' = [row EXCEPT ![b] = new]
        /\ link' = IF new.lead # NoLead THEN Linked(link, new.lead, b) ELSE link
        /\ finals' = typed \cup sold(new) \cup
               (IF new.lead # NoLead THEN LinkedFinals(finals, new.lead, b) ELSE finals)
  BY <1>1, Zenon
<1> HIDE DEF r
<1>3. \/ new = r
      \/ /\ l # NoLead
         /\ \E e \in Evidence(r, b, l) :
               new = Pending([e EXCEPT !.attribution = "confirmed", !.reviewed = TRUE])
      \/ new \in Reconciled(r, b)
  <2> HIDE DEF attached
  <2>1. new = r \/ (l # NoLead /\ new \in attached) \/ new \in Reconciled(r, b)
    BY <1>2
  <2> QED BY <2>1 DEF attached
<1>4. Created(b, new, r, price, l)
  BY <1>2, <1>3, Zenon DEF Created
<1> QED BY <1>4 DEF r

LEMMA CreateStep == ASSUME IInv, NEW b \in Booking, CreateBooking(b) PROVE Fine
<1>1. PICK kind \in Kind, dates \in HostDates, identity \in {"full", "none"},
           price \in Amount \cup {0}, l \in Lead \cup {NoLead} :
        \E new : Created(b, new, Typed(b, kind, dates, identity, price), price, l)
  BY Creates
<1> DEFINE r == Typed(b, kind, dates, identity, price)
<1>0. PICK new : Created(b, new, r, price, l)
  BY <1>1
<1>2. /\ row' = [row EXCEPT ![b] = new]
      /\ link' = IF new.lead # NoLead THEN Linked(link, new.lead, b) ELSE link
  BY <1>0 DEF Created
<1>3. ~Exists(b) /\ born' = [born EXCEPT ![b] = NewId(b)] /\ UNCHANGED <<sync, host>>
  BY DEF CreateBooking
<1>6. \/ new = r
      \/ /\ l # NoLead
         /\ \E e \in Evidence(r, b, l) :
               new = Pending([e EXCEPT !.attribution = "confirmed", !.reviewed = TRUE])
      \/ new \in Reconciled(r, b)
  BY <1>0 DEF Created
<1>7. Shape(r) /\ Whole(r) /\ r.by # "mira" /\ ~r.reviewed /\ r.id = born[b] + 1
  <2> DEFINE m == [NewRow EXCEPT !.id = NewId(b), !.dates = dates, !.kind = kind,
                                 !.identity = identity]
  <2>1. /\ Shape(m) /\ m.id = born[b] + 1 /\ m.price = 0 /\ m.source = "unknown"
        /\ m.status = "unknown" /\ m.by = "nobody" /\ ~m.reviewed
    BY DEF NewRow, NewId, Shape, Columns, IInv, RowsOK
  <2>2. r = IF price = 0 THEN m ELSE SetFinalPrice(m, price, "host_entered", "host")
    BY DEF Typed
  <2> HIDE DEF m, r
  <2> QED BY <2>1, <2>2, Confirmed DEF Whole
<1> HIDE DEF r
<1>8. Good(new) /\ new.id = born[b] + 1 /\ ~Rejected(new)
  <2>1. CASE new = r
    BY <1>7, <2>1 DEF Good, Backed, Rejected
  <2>2. ASSUME l # NoLead, NEW q \in Evidence(r, b, l),
               new = Pending([q EXCEPT !.attribution = "confirmed", !.reviewed = TRUE])
        PROVE Good(new) /\ new.id = born[b] + 1 /\ ~Rejected(new)
    <3> DEFINE e == ShowPrices(r, View(b, l, r.dates))
               a == [q EXCEPT !.attribution = "confirmed", !.reviewed = TRUE]
    <3>1. Shape(e) /\ \A c \in Columns \ {"initial", "negotiated"} : e[c] = r[c]
      BY <1>7, Shows
    <3>2. PICK c : q = [e EXCEPT !.lead = l, !.call = c]
      BY DEF Evidence
    <3> HIDE DEF e
    <3>3. /\ Shape(a) /\ a.attribution = "confirmed" /\ a.lead = l
          /\ \A x \in {"id", "price", "source", "status", "by"} : a[x] = e[x]
      BY <3>1, <3>2 DEF Shape, Columns
    <3>4. new = Pending(a)
      BY <2>2
    <3> HIDE DEF a
    <3>5. Whole(a) /\ a.by # "mira" /\ a.id = r.id
      BY <1>7, <3>1, <3>3 DEF Whole, Columns
    <3>6. /\ Shape(new) /\ Whole(new) /\ new.id = a.id /\ new.by = a.by
          /\ new.attribution = a.attribution
      BY <3>3, <3>4, <3>5, Pends DEF Columns
    <3> QED BY <1>7, <3>3, <3>5, <3>6 DEF Good, Backed, Rejected
  <2>3. CASE new \in Reconciled(r, b)
    BY <1>7, <2>3, Reconciles
  <2> QED BY <1>6, <2>1, <2>2, <2>3
<1>9. row'[b] = new /\ DOMAIN row' = Booking
      /\ \A o \in Booking : o # b => row'[o] = row[o]
  BY <1>2 DEF IInv, RowsOK
<1>10. /\ born'[b] = born[b] + 1 /\ born' \in [Booking -> Nat]
      /\ \A o \in Booking : o # b => born'[o] = born[o]
  BY <1>3 DEF NewId, IInv, RowsOK
<1>11. \A o \in Booking \ {b} :
          /\ born'[o] = born[o]
          /\ row'[o].id # 0 => Exists(o) /\ Shape(row'[o]) /\ Same(row'[o], row[o])
  BY <1>9, <1>10 DEF Exists, Same, Good, IInv, RowsOK
<1>12. /\ link' \in LinkType
       /\ \A k \in Lead, p \in Property : link'[k][p] \in {None, link[k][p]} \cup {b}
  <2>1. link \in LinkType
    BY DEF IInv, LinkOK, LinkType
  <2> QED BY <1>2, <2>1, Links
<1>13. SyncOK'
  BY <1>3, SyncStands
<1> DEFINE fresh == {b}
<1>14. \A o \in fresh : /\ ~Exists(o) /\ born'[o] = born[o] + 1 /\ row'[o].id = born[o] + 1
                         /\ Good(row'[o]) /\ ~Rejected(row'[o])
  BY <1>3, <1>8, <1>9, <1>10
<1>15. \A k \in Lead, p \in Property : link'[k][p] \in {None, link[k][p]} \cup fresh
  BY <1>12
<1>16. \A o \in Booking \ fresh :
          /\ born'[o] = born[o]
          /\ row'[o].id # 0 => Exists(o) /\ Shape(row'[o]) /\ Same(row'[o], row[o])
  BY <1>11
<1>17. fresh \in SUBSET Booking /\ host' = host
  BY <1>3
<1>18. Traced(fresh)
  <2> DEFINE before == IF new.lead # NoLead THEN LinkedFinals(finals, new.lead, b) ELSE finals
  <2>1. ASSUME NEW e \in finals'
        PROVE e \in before \/ e = FinalPriceEvent(r, b, "host")
              \/ e = FinalPriceEvent(new, b, "mira_conversation")
    BY <1>0, <2>1 DEF Created
  <2>3. ASSUME NEW e \in before
        PROVE /\ Form(e)
              /\ \/ e.booking \in fresh
                 \/ \E d \in finals : d.source = e.source /\ d.booking = e.booking
    <3>1. CASE new.lead # NoLead
      <4>1. PICK d, x : d \in finals /\ e = [d EXCEPT !.booking = x] /\ x \in {d.booking, b}
        BY <2>3, <3>1 DEF LinkedFinals
      <4>2. Form(d)
        BY <4>1 DEF IInv, FinalsOK
      <4>3. Form(e) /\ e.booking = x /\ e.source = d.source
        BY <4>1, <4>2, Relinks
      <4> QED BY <4>1, <4>3
    <3>2. CASE new.lead = NoLead
      BY <2>3, <3>2 DEF IInv, FinalsOK
    <3> QED BY <3>1, <3>2
  <2> HIDE DEF before
  <2> QED BY <2>1, <2>3, FinalEvents DEF Traced
<1> HIDE DEF fresh
<1> QED BY <1>9, <1>10, <1>12, <1>13, <1>14, <1>15, <1>16, <1>17, <1>18, Moves
----------------------------------------------------------------------------
LEMMA InitIInv == Init => IInv
<1> SUFFICES ASSUME Init PROVE IInv
  OBVIOUS
<1>1. \A b \in Booking : row[b].id = 0
  BY DEF Init, NoRow
<1>2. RowsOK
  BY <1>1 DEF Init, RowsOK, Exists
<1>3. HostOK
  BY DEF Init, HostOK, IdleHost
<1>4. SyncOK
  BY DEF Init, SyncOK, IdleSync
<1>5. LinkOK
  BY <1>1 DEF Init, LinkOK, Exists
<1>6. FinalsOK
  BY DEF Init, FinalsOK
<1> QED BY <1>2, <1>3, <1>4, <1>5, <1>6 DEF IInv

LEMMA NextFine == ASSUME Apart, IInv, [Next]_vars PROVE Fine
<1>1. ASSUME NEW b \in Synced, FeedChanges(b) PROVE Fine
  BY <1>1, LedgerStands, HostStands, SyncStands DEF FeedChanges, ledger, Fine, IInv
<1>2. ASSUME NEW b \in Booking, NEW l \in Lead, Talks(b, l) PROVE Fine
  BY <1>2, LedgerStands, HostStands, SyncStands DEF Talks, ledger, Fine, IInv
<1>3. ASSUME NEW s \in Sync, SyncStarts(s) \/ Carries(s) PROVE Fine
  BY <1>3, SyncStartsStep, FetchesStep, LoadsStep, CommitsStep, AbortsStep DEF Carries
<1>4. ASSUME NEW h \in Host, HostStep(h) PROVE Fine
  BY <1>4, ConfirmPriceStep, ConfirmLaterStep, DecideYesStep, DecideNoStep, UpdateKindStep,
     CancelBookingStep, RefusedStep DEF HostStep
<1>5. ASSUME NEW h \in Host, NEW b \in Booking, Opens(h, b) PROVE Fine
  BY <1>5, OpensStep
<1>6. ASSUME NEW b \in Booking, CreateBooking(b) PROVE Fine
  BY <1>6, CreateStep
<1>7. CASE UNCHANGED vars
  <2>1. UNCHANGED ledger /\ UNCHANGED <<row, born, host>> /\ sync' = sync
    BY <1>7 DEF vars, ledger
  <2> QED BY <2>1, LedgerStands, HostStands, SyncStands DEF Fine, IInv
<1> QED BY <1>1, <1>2, <1>3, <1>4, <1>5, <1>6, <1>7 DEF Next

\* The invariant holds in every reachable state.
LEMMA Invariance == Spec /\ []Apart => []IInv
<1>1. Init => IInv
  BY InitIInv
<1>2. Apart /\ IInv /\ [Next]_vars => IInv'
  BY NextFine DEF Fine
<1> QED BY <1>1, <1>2, PTL DEF Spec
----------------------------------------------------------------------------
\* However syncs, reconciliations and the host's requests follow one another, a
\* price has its status, its source and its author, and without one the row has
\* none of them (_set_final_price).
THEOREM Prices == Spec /\ []Apart => []PriceWhole
<1>1. IInv => PriceWhole
  BY DEF IInv, RowsOK, Good, Whole, PriceWhole
<1> QED BY <1>1, Invariance, PTL

\* After the host's No no offer of the conversation, no final price of Mira's and
\* no detected price is left at the booking, and Mira's own price stands only
\* beside a lead (decide_attribution).
THEOREM Withdrawals == Spec /\ []Apart => []RejectionWithdraws
<1>1. IInv => RejectionWithdraws
  <2> SUFFICES ASSUME IInv, NEW b \in Booking, Exists(b)
               PROVE /\ row[b].reviewed /\ row[b].attribution = "not_attributed" =>
                         /\ row[b].initial = 0 /\ row[b].negotiated = 0
                         /\ \A l \in Lead, p \in Property : link[l][p] # b
                         /\ \A e \in finals : e.booking = b => e.source # "mira_conversation"
                     /\ row[b].by = "mira" =>
                         row[b].attribution \in {"probable", "confirmed"} /\ row[b].lead # NoLead
    BY DEF RejectionWithdraws
  <2>1. Backed(row[b])
    BY DEF IInv, RowsOK, Good
  <2>2. Rejected(row[b]) => /\ \A l \in Lead, p \in Property : link[l][p] # b
                            /\ \A e \in finals : e.booking = b => e.source # "mira_conversation"
    BY DEF IInv, LinkOK, FinalsOK
  <2> QED BY <2>1, <2>2 DEF Backed, Rejected
<1> QED BY <1>1, Invariance, PTL

\* The host's own price is the host's fact: no sync, no reconciliation and no
\* decision about the match takes it away (decide_attribution).
THEOREM FactsKept == Spec /\ []Apart => HostFactKept
<1>1. Apart /\ IInv /\ [Next]_vars => Kept
  BY NextFine DEF Fine
<1>2. Kept => [\A b \in Booking :
                 (Exists(b) /\ row[b].by = "host" /\ row'[b].id = row[b].id /\ ~Answers(b))
                 => /\ row'[b].price = row[b].price
                    /\ row'[b].by = "host"]_vars
  BY DEF Kept
<1> QED BY <1>1, <1>2, Invariance, PTL DEF Spec, HostFactKept
----------------------------------------------------------------------------
(* Types *)

LEMMA TypedPrice ==
    ASSUME NEW r \in Row, NEW a \in Nat,
           NEW source \in {"mira_conversation", "host_confirmed", "host_entered"},
           NEW by \in {"host", "mira"}
    PROVE SetFinalPrice(r, a, source, by) \in Row
BY DEF SetFinalPrice, Row

LEMMA TypedRows ==
    ASSUME NEW r \in Row
    PROVE ClearPrice(r) \in Row /\ Pending(r) \in Row /\ Plain(r) \in Row /\ Withdrawn(r) \in Row
<1>1. ClearPrice(r) \in Row
  BY DEF ClearPrice, Row
<1>2. Pending(r) \in Row
  BY DEF Pending, Row
<1>3. Plain(r) \in Row
  BY DEF Plain, Row
<1>4. Withdrawn(r) \in Row
  <2> DEFINE q == IF r.by = "mira" THEN ClearPrice(r) ELSE r
  <2>1. q \in Row
    BY <1>1
  <2> DEFINE w == [q EXCEPT !.attribution = "not_attributed", !.reviewed = TRUE]
  <2>2. Withdrawn(r) = [w EXCEPT !.initial = 0, !.negotiated = 0]
    BY DEF Withdrawn
  <2> HIDE DEF q
  <2>3. w \in Row
    BY <2>1 DEF Row
  <2> HIDE DEF w
  <2>4. [w EXCEPT !.initial = 0, !.negotiated = 0] \in Row
    BY <2>3 DEF Row
  <2> QED BY <2>2, <2>4, Zenon
<1> QED BY <1>1, <1>2, <1>3, <1>4

LEMMA TypedShow ==
    ASSUME NEW r \in Row, NEW f \in Fact PROVE ShowPrices(r, f) \in Row
<1>1. InitialPrice(f) \in Nat /\ NegotiatedPrice(f) \in Nat
  BY PricesNumbers
<1> QED BY <1>1 DEF ShowPrices, Row

LEMMA TypedFlush ==
    ASSUME NEW loaded \in Row, NEW wanted \in Row, NEW committed \in Row
    PROVE Flush(loaded, wanted, committed) \in Row
<1> DEFINE new == Flush(loaded, wanted, committed)
<1>1. DOMAIN committed = Columns
  BY DEF Row, Columns
<1>2. /\ new = [c \in Columns |-> new[c]]
      /\ \A c \in Columns : new[c] \in {wanted[c], committed[c]}
  BY <1>1 DEF Flush
<1> HIDE DEF new
<1>3. new \in Row
  BY <1>2 DEF Row, Columns
<1> QED BY <1>3 DEF new

LEMMA TypedRefresh ==
    ASSUME NEW r \in Row, NEW e \in Event PROVE Refreshed(r, e) \in Row
<1>1. e.dates \in Nat
  BY LedgerAssumption
<1> QED BY <1>1 DEF Refreshed, Row, Identity

LEMMA TypedNew ==
    ASSUME NEW b \in Booking, born \in [Booking -> Nat], NEW dates \in Nat,
           NEW identity \in Identity, NEW kind \in Kind
    PROVE /\ [NewRow EXCEPT !.id = NewId(b), !.dates = dates,
                            !.identity = identity, !.kind = kind] \in Row
          /\ [NewRow EXCEPT !.id = NewId(b), !.dates = dates, !.kind = kind,
                            !.identity = identity] \in Row
<1>1. NewId(b) \in Nat \ {0}
  BY DEF NewId
<1> QED BY <1>1 DEF NewRow, Row

LEMMA TypedVerdict ==
    ASSUME NEW seen, DOMAIN seen = Lead, NEW identity, NEW v \in Verdicts(seen, identity)
    PROVE /\ v.status \in {"probable", "unknown", "not_attributed"}
          /\ v.lead \in Lead \cup {NoLead}
<1>1. CASE v.lead # NoLead
  BY <1>1, Chosen DEF Best, Candidates
<1>2. CASE v.lead = NoLead
  <2> DEFINE P == {l \in Candidates(seen) : IsProbable(Score(seen[l], identity))}
             R == {l \in Candidates(seen) : IsRelated(Score(seen[l], identity))}
             W == Best(P, seen, identity)
             A == {[status |-> "probable", lead |-> l] : l \in W}
             S == IF R # {} THEN "unknown" ELSE "not_attributed"
             B == {[status |-> S, lead |-> NoLead]}
  <2>1. Verdicts(seen, identity) = IF P # {} THEN A ELSE B
    BY Zenon DEF Verdicts
  <2>2. S \in {"unknown", "not_attributed"}
    OBVIOUS
  <2> HIDE DEF P, R, W, S
  <2> QED BY <1>2, <2>1, <2>2
<1> QED BY <1>1, <1>2

FactsType == facts \in [Booking -> [Lead -> FactSet]]

\* A lead seen from a booking: its conversation, and final prices beside it.
LEMMA TypedView ==
    ASSUME FactsType, NEW b \in Booking, NEW l \in Lead, NEW dates
    PROVE /\ View(b, l, dates) \in Fact
          /\ View(b, l, dates).talk = facts[b][l].talk
          /\ View(b, l, dates).within = facts[b][l].within
          /\ View(b, l, dates).phone = facts[b][l].phone
<1>1. facts[b][l] \in Fact
  <2>1. facts[b][l] \in FactSet
    BY DEF FactsType
  <2> QED BY <2>1, LedgerAssumption
<1> DEFINE S == {IF e.dates = dates THEN "exact" ELSE "other" :
                    e \in {x \in finals : x.lead = l /\ x.property = Of[b]}}
<1>2. S \in SUBSET {"exact", "other"} /\ View(b, l, dates) = [facts[b][l] EXCEPT !.finals = S]
  BY DEF View
<1> HIDE DEF S
<1> QED BY <1>1, <1>2 DEF Fact

LEMMA TypedTold ==
    ASSUME NEW b \in Booking, NEW r \in Row, NEW identity, NEW dates,
           NEW v \in Verdicts(Views(b, dates), identity), NEW c \in {v.lead, NoLead}
    PROVE /\ Told(r, v, c) \in Row /\ v.lead \in Lead \cup {NoLead}
          /\ Told(r, v, c).by = r.by /\ Told(r, v, c).identity = r.identity
          /\ Told(r, v, c).lead = v.lead
<1>1. DOMAIN Views(b, dates) = Lead
  BY DEF Views
<1>2. v.status \in {"probable", "unknown", "not_attributed"} /\ v.lead \in Lead \cup {NoLead}
  BY <1>1, TypedVerdict
<1>3. Pending(r) \in Row /\ Pending(r).by = r.by /\ Pending(r).identity = r.identity
  BY TypedRows DEF Pending, Row
<1> QED BY <1>2, <1>3 DEF Told, Row

LEMMA TypedReconciled ==
    ASSUME FactsType, NEW b \in Booking, NEW r \in Row, NEW q \in Reconciled(r, b)
    PROVE q \in Row
<1>1. CASE r.kind # "reservation"
  BY <1>1 DEF Reconciled
<1>2. CASE r.kind = "reservation" /\ r.reviewed
  BY <1>2, TypedRows DEF Reconciled
<1>3. CASE r.kind = "reservation" /\ ~r.reviewed
  <2>1. PICK v \in Verdicts(Views(b, r.dates), r.identity) : \E c \in {v.lead, NoLead} :
            \/ v.lead = NoLead /\ q = Told(r, v, c)
            \/ /\ v.lead # NoLead
               /\ \/ q = Shown(r, b, v, c)
                  \/ q = SetFinalPrice(Shown(r, b, v, c), Price(r, b, v),
                                       "mira_conversation", "mira")
    BY <1>3, Ends
  <2>2. PICK c \in {v.lead, NoLead} :
            \/ v.lead = NoLead /\ q = Told(r, v, c)
            \/ /\ v.lead # NoLead
               /\ \/ q = Shown(r, b, v, c)
                  \/ q = SetFinalPrice(Shown(r, b, v, c), Price(r, b, v),
                                       "mira_conversation", "mira")
    BY <2>1
  <2>3. Told(r, v, c) \in Row /\ v.lead \in Lead \cup {NoLead}
    BY TypedTold
  <2>4. ASSUME v.lead # NoLead
        PROVE Shown(r, b, v, c) \in Row /\ Price(r, b, v) \in Nat
    <3>1. View(b, v.lead, r.dates) \in Fact
      BY <2>3, <2>4, TypedView
    <3> QED BY <2>3, <3>1, TypedShow, PricesNumbers DEF Shown, Price
  <2> QED BY <2>2, <2>3, <2>4, TypedPrice
<1> QED BY <1>1, <1>2, <1>3

LEMMA TypedEvidence ==
    ASSUME FactsType, NEW b \in Booking, NEW r \in Row, NEW l \in Lead,
           NEW q \in Evidence(r, b, l)
    PROVE q \in Row /\ q.id = r.id /\ q.by = r.by
<1> DEFINE e == ShowPrices(r, View(b, l, r.dates))
<1>1. PICK c \in Calls(facts[b][l], l) : q = [e EXCEPT !.lead = l, !.call = c]
  BY DEF Evidence
<1>2. e \in Row
  BY TypedView, TypedShow
<1>3. e.id = r.id /\ e.by = r.by
  BY DEF ShowPrices, Row
<1>4. c \in Lead \cup {NoLead}
  BY DEF Calls
<1> HIDE DEF e
<1> QED BY <1>1, <1>2, <1>3, <1>4 DEF Row

\* What a fetched event leaves in a slot that was free.
LEMMA TypedFresh ==
    ASSUME FactsType, NEW b \in Booking, born \in [Booking -> Nat], NEW e \in Event,
           NEW q \in Reconciled(FromEvent(b, e), b) \cup {Plain(FromEvent(b, e))}
    PROVE q \in Row
<1>1. FromEvent(b, e) \in Row
  <2>1. e.dates \in Nat /\ (IF e.last4 THEN "last4" ELSE "none") \in Identity
        /\ ClassifyKind(e.summary) \in Kind
    BY LedgerAssumption DEF Identity, ClassifyKind, Kind
  <2> QED BY <2>1, TypedNew, Zenon DEF FromEvent
<1> HIDE DEF FromEvent
<1> QED BY <1>1, TypedReconciled, TypedRows

Still == /\ feed \in Seen
         /\ FactsType
         /\ {changes, requests} \subseteq Nat

LEMMA TypeParts ==
    TypeOK <=> /\ Still
               /\ row \in [Booking -> Row \cup {NoRow}] /\ born \in [Booking -> Nat]
               /\ link \in LinkType /\ finals \subseteq FinalPrice
               /\ sync \in [Sync -> SyncState] /\ host \in [Host -> HostState]
BY DEF TypeOK, Still, FactsType, LinkType

LEMMA TypesNext ==
    ASSUME Still', row' \in [Booking -> Row \cup {NoRow}], born' \in [Booking -> Nat],
           link' \in LinkType, finals' \subseteq FinalPrice,
           sync' \in [Sync -> SyncState], host' \in [Host -> HostState]
    PROVE TypeOK'
BY DEF TypeOK, Still, FactsType, LinkType

LEMMA Amounts == \A a \in Amount \cup {0} : a \in Nat
<1>1. Amount \subseteq Nat \ {0}
  BY LedgerAssumption
<1> QED BY <1>1

\* An open request: what it asks for and what it loaded.
LEMMA Opened ==
    ASSUME TypeOK, NEW h \in Host, host[h].op # "idle"
    PROVE /\ host[h].of \in Booking /\ host[h].loaded \in Row
          /\ host[h].req \in Requests /\ host[h].op = host[h].req.op
          /\ ~Lost(h) => row[host[h].of] \in Row
<1>1. host[h] \in HostState /\ host[h] # IdleHost
  BY DEF TypeOK, IdleHost
<1>2. /\ host[h].of \in Booking /\ host[h].loaded \in Row
      /\ host[h].req \in Requests /\ host[h].op = host[h].req.op
  BY <1>1, Zenon DEF HostState
<1>3. ASSUME ~Lost(h) PROVE row[host[h].of] \in Row
  <2>1. host[h].loaded.id # 0
    BY <1>2 DEF Row
  <2>2. row[host[h].of].id # 0
    BY <1>3, <2>1 DEF Lost
  <2>3. row[host[h].of] \in Row \cup {NoRow}
    BY <1>2 DEF TypeOK
  <2> QED BY <2>2, <2>3 DEF NoRow
<1> QED BY <1>2, <1>3

\* The price that the host answers with.
LEMMA TypedValue ==
    ASSUME TypeOK, NEW h \in Host, host[h].op \in {"mira", "outside"}
    PROVE Value(h) \in Nat
<1>1. /\ host[h].loaded \in Row /\ host[h].req \in Requests
      /\ host[h].req.op \in {"mira", "outside"}
  BY Opened
<1>2. host[h].req \in [op: {"mira", "outside", "later"}, amount: Amount \cup {0}]
  <2>1. host[h].req.op \notin {"match", "kind", "cancel"}
    BY <1>1
  <2> QED BY <1>1, <2>1 DEF Requests
<1>3. host[h].req.amount \in Nat
  BY <1>2, Amounts
<1>4. DetectedPrice(host[h].loaded) \in Nat
  BY <1>1 DEF DetectedPrice, Row
<1> QED BY <1>3, <1>4 DEF Value

LEMMA TypedFinal ==
    ASSUME NEW r \in Row, NEW b \in Booking, NEW source \in {"mira_conversation", "host"}
    PROVE FinalPriceEvent(r, b, source) \in FinalPrice
<1>1. r.call \in Lead \cup {NoLead} /\ r.dates \in Nat /\ Of[b] \in Property
  BY LedgerAssumption DEF Row
<1> QED BY <1>1 DEF FinalPriceEvent, FinalPrice

LEMMA TypedFinals ==
    ASSUME NEW events \in SUBSET FinalPrice
    PROVE /\ \A l : \A b \in Booking : LinkedFinals(events, l, b) \subseteq FinalPrice
          /\ \A sources, gone : UnlinkedFinals(events, sources, gone) \subseteq FinalPrice
<1>1. ASSUME NEW e \in events, NEW x \in Booking \cup {None}
      PROVE [e EXCEPT !.booking = x] \in FinalPrice /\ e.booking \in Booking \cup {None}
  BY DEF FinalPrice
<1>2. ASSUME NEW l, NEW b \in Booking PROVE LinkedFinals(events, l, b) \subseteq FinalPrice
  <2> SUFFICES ASSUME NEW e \in events
               PROVE [e EXCEPT !.booking = IF e.lead = l /\ e.property = Of[b]
                                           THEN b ELSE e.booking] \in FinalPrice
    BY DEF LinkedFinals
  <2> DEFINE x == IF e.lead = l /\ e.property = Of[b] THEN b ELSE e.booking
  <2>1. x \in Booking \cup {None}
    <3>1. e.booking \in Booking \cup {None}
      BY DEF FinalPrice
    <3> QED BY <3>1
  <2> HIDE DEF x
  <2>2. [e EXCEPT !.booking = x] \in FinalPrice
    BY <1>1, <2>1
  <2> QED BY <2>2 DEF x
<1>3. ASSUME NEW sources, NEW gone PROVE UnlinkedFinals(events, sources, gone) \subseteq FinalPrice
  BY <1>1 DEF UnlinkedFinals
<1> QED BY <1>2, <1>3

LEMMA TypedSave ==
    ASSUME TypeOK, NEW h \in Host, host[h].op # "idle", ~Lost(h),
           NEW wanted \in Row, Saves(h, wanted), link' \in LinkType, finals' \subseteq FinalPrice
    PROVE TypeOK'
<1>1. host[h].of \in Booking /\ host[h].loaded \in Row /\ row[host[h].of] \in Row
  BY Opened
<1> DEFINE new == Flush(host[h].loaded, wanted, row[host[h].of])
<1>2. new \in Row
  BY <1>1, TypedFlush
<1>3. row' = [row EXCEPT ![host[h].of] = new] /\ host' = [host EXCEPT ![h] = IdleHost]
      /\ UNCHANGED <<feed, facts, born, sync, counters>>
  BY DEF Saves
<1> HIDE DEF new
<1>4. row' \in [Booking -> Row \cup {NoRow}]
  BY <1>1, <1>2, <1>3, TypeParts
<1>5. host' \in [Host -> HostState]
  BY <1>3, TypeParts DEF HostState
<1>6. Still' /\ born' \in [Booking -> Nat] /\ sync' \in [Sync -> SyncState]
  BY <1>3, TypeParts DEF Still, FactsType, counters
<1> QED BY <1>4, <1>5, <1>6, TypesNext, TypeParts

LEMMA TypedHostStep ==
    ASSUME TypeOK, NEW h \in Host, HostStep(h) PROVE TypeOK'
<1> DEFINE o == host[h].of
           r == host[h].loaded
<1>0. link \in LinkType /\ finals \subseteq FinalPrice /\ FactsType
  BY TypeParts DEF Still
<1>1. CASE ConfirmPrice(h)
  <2> DEFINE source == IF host[h].op = "mira" THEN "host_confirmed" ELSE "host_entered"
             w == SetFinalPrice(r, Value(h), source, "host")
  <2>1. /\ host[h].op \in {"mira", "outside"} /\ host[h].op # "idle" /\ ~Lost(h)
        /\ Saves(h, w) /\ link' = link
        /\ finals' = finals \cup {FinalPriceEvent(r, o, "host")}
    BY <1>1 DEF ConfirmPrice
  <2>2. r \in Row /\ Value(h) \in Nat /\ source \in {"host_confirmed", "host_entered"}
    BY <2>1, Opened, TypedValue
  <2> HIDE DEF source
  <2>3. w \in Row
    BY <2>2, TypedPrice
  <2> HIDE DEF w
  <2>4. finals' \subseteq FinalPrice
    <3>1. o \in Booking
      BY <2>1, Opened
    <3>2. FinalPriceEvent(r, o, "host") \in FinalPrice
      BY <2>2, <3>1, TypedFinal
    <3> QED BY <1>0, <2>1, <3>2
  <2> QED BY <1>0, <2>1, <2>3, <2>4, TypedSave
<1>2. CASE ConfirmLater(h)
  <2> DEFINE c == ClearPrice(r)
             w == [c EXCEPT !.asked = TRUE]
  <2>1. /\ host[h].op # "idle" /\ ~Lost(h) /\ Saves(h, w)
        /\ link' = link /\ finals' = finals
    BY <1>2 DEF ConfirmLater
  <2>2. c \in Row
    BY <2>1, Opened, TypedRows
  <2> HIDE DEF c
  <2>3. w \in Row
    BY <2>2 DEF Row
  <2> HIDE DEF w
  <2> QED BY <1>0, <2>1, <2>3, TypedSave
<1>3. CASE DecideYes(h)
  <2>1. /\ host[h].op # "idle" /\ ~Lost(h) /\ r.lead # NoLead
        /\ link' = Linked(link, r.lead, o) /\ finals' = LinkedFinals(finals, r.lead, o)
    BY <1>3 DEF DecideYes
  <2>2. o \in Booking /\ r \in Row
    BY <2>1, Opened
  <2>3. r.lead \in Lead
    BY <2>1, <2>2 DEF Row
  <2>4. PICK e \in Evidence(r, o, r.lead) :
            Saves(h, [e EXCEPT !.attribution = "confirmed", !.reviewed = TRUE])
    BY <1>3 DEF DecideYes
  <2>5. e \in Row
    BY <1>0, <2>2, <2>3, TypedEvidence
  <2>6. link' \in LinkType /\ finals' \subseteq FinalPrice
    BY <1>0, <2>1, <2>2, Links, TypedFinals
  <2> DEFINE w == [e EXCEPT !.attribution = "confirmed", !.reviewed = TRUE]
  <2>7. w \in Row
    BY <2>5 DEF Row
  <2>8. Saves(h, w)
    BY <2>4
  <2> HIDE DEF w
  <2> QED BY <2>1, <2>6, <2>7, <2>8, TypedSave
<1>4. CASE DecideNo(h)
  <2> DEFINE w == Withdrawn(r)
  <2>1. /\ host[h].op # "idle" /\ ~Lost(h)
        /\ Saves(h, w) /\ link' = Unlinked(link, o)
        /\ finals' = UnlinkedFinals(finals, {"mira_conversation"}, {o})
    BY <1>4 DEF DecideNo
  <2>2. o \in Booking /\ r \in Row
    BY <2>1, Opened
  <2>3. w \in Row
    BY <2>2, TypedRows
  <2>4. link' \in LinkType
    BY <1>0, <2>1, <2>2, Unlinks
  <2>7. finals' \subseteq FinalPrice
    <3>1. finals \in SUBSET FinalPrice
      BY <1>0
    <3>2. UnlinkedFinals(finals, {"mira_conversation"}, {o}) \subseteq FinalPrice
      BY <3>1, TypedFinals
    <3> QED BY <2>1, <3>1, <3>2
  <2> HIDE DEF w
  <2> QED BY <2>1, <2>3, <2>4, <2>7, TypedSave
<1>5. CASE UpdateKind(h)
  <2> DEFINE e == [r EXCEPT !.kind = host[h].req.kind]
             w == IF e.kind = "reservation" THEN Pending(e) ELSE e
  <2>1. /\ host[h].op = "kind" /\ host[h].op # "idle" /\ ~Lost(h) /\ Saves(h, w)
        /\ link' = link /\ finals' = finals
    BY <1>5 DEF UpdateKind
  <2>2. r \in Row /\ host[h].req \in Requests /\ host[h].req.op = "kind"
    BY <2>1, Opened
  <2>3. host[h].req.kind \in Kind
    BY <2>2 DEF Requests
  <2>4. e \in Row
    BY <2>2, <2>3 DEF Row
  <2> HIDE DEF e
  <2>5. w \in Row
    BY <2>4, TypedRows
  <2> HIDE DEF w
  <2> QED BY <1>0, <2>1, <2>5, TypedSave
<1>6. CASE CancelBooking(h)
  <2>1. /\ host[h].op # "idle" /\ host' = [host EXCEPT ![h] = IdleHost]
        /\ UNCHANGED <<feed, facts, born, sync, counters>>
        /\ \/ row' = row /\ link' = link /\ finals' = finals
           \/ /\ row' = [row EXCEPT ![o] = NoRow] /\ link' = Unlinked(link, o)
              /\ finals' = UnlinkedFinals(finals, Sources, {o})
    BY <1>6 DEF CancelBooking
  <2>2. o \in Booking
    BY <2>1, Opened
  <2>3. row' \in [Booking -> Row \cup {NoRow}]
    BY <2>1, <2>2, TypeParts
  <2>4. link' \in LinkType
    BY <1>0, <2>1, <2>2, Unlinks
  <2>7. finals' \subseteq FinalPrice
    <3>1. finals \in SUBSET FinalPrice
      BY <1>0
    <3>2. UnlinkedFinals(finals, Sources, {o}) \subseteq FinalPrice
      BY <3>1, TypedFinals
    <3> QED BY <2>1, <3>1, <3>2
  <2>5. host' \in [Host -> HostState]
    BY <2>1, TypeParts DEF HostState
  <2>6. Still' /\ born' \in [Booking -> Nat] /\ sync' \in [Sync -> SyncState]
    BY <2>1, TypeParts DEF Still, FactsType, counters
  <2> QED BY <2>3, <2>4, <2>5, <2>6, <2>7, TypesNext, TypeParts
<1>7. CASE Refused(h)
  <2>1. host' = [host EXCEPT ![h] = IdleHost] /\ UNCHANGED <<feed, facts, ledger, sync, counters>>
    BY <1>7 DEF Refused
  <2>2. host' \in [Host -> HostState]
    BY <2>1, TypeParts DEF HostState
  <2>3. /\ Still' /\ row' = row /\ born' = born /\ link' = link /\ finals' = finals
        /\ sync' = sync
    BY <2>1, TypeParts DEF Still, FactsType, counters, ledger
  <2> QED BY <2>2, <2>3, TypesNext, TypeParts
<1> QED BY <1>1, <1>2, <1>3, <1>4, <1>5, <1>6, <1>7 DEF HostStep

LEMMA TypedOpens ==
    ASSUME TypeOK, NEW h \in Host, NEW b \in Booking, Opens(h, b) PROVE TypeOK'
<1>1. PICK q \in Requests :
        host' = [host EXCEPT ![h] = [op |-> q.op, of |-> b, req |-> q, loaded |-> row[b]]]
  BY DEF Opens
<1>2. row[b] \in Row
  BY DEF Opens, Exists, NoRow, TypeOK
<1> DEFINE n == [op |-> q.op, of |-> b, req |-> q, loaded |-> row[b]]
<1>3. n \in HostState
  <2>1. q.op \in {k.op : k \in Requests}
    OBVIOUS
  <2> QED BY <1>2, <2>1 DEF HostState
<1> HIDE DEF n
<1>4. host' \in [Host -> HostState]
  BY <1>1, <1>3, TypeParts DEF n
<1>5. requests' = requests + 1 /\ UNCHANGED <<feed, facts, ledger, sync, changes>>
  BY DEF Opens
<1>6. Still' /\ row' = row /\ born' = born /\ link' = link /\ finals' = finals /\ sync' = sync
  BY <1>5, TypeParts DEF Still, FactsType, ledger
<1> QED BY <1>4, <1>6, TypesNext, TypeParts

\* The row as the host typed it, and what becomes of it.
LEMMA TypedTyped ==
    ASSUME born \in [Booking -> Nat], NEW b \in Booking, NEW kind \in Kind,
           NEW dates \in HostDates, NEW identity \in {"full", "none"},
           NEW price \in Amount \cup {0}
    PROVE /\ Typed(b, kind, dates, identity, price) \in Row
          /\ Typed(b, kind, dates, identity, price).by \in {"host", "nobody"}
<1> DEFINE p == [NewRow EXCEPT !.id = NewId(b), !.dates = dates, !.kind = kind,
                               !.identity = identity]
<1>1. p \in Row /\ p.by = "nobody"
  <2>1. dates \in Nat /\ identity \in Identity
    BY LedgerAssumption DEF Identity
  <2>2. p \in Row
    BY <2>1, TypedNew
  <2> QED BY <2>2 DEF NewRow
<1>2. Typed(b, kind, dates, identity, price) =
        IF price = 0 THEN p ELSE SetFinalPrice(p, price, "host_entered", "host")
  BY DEF Typed
<1> HIDE DEF p
<1>3. price \in Nat
  BY Amounts
<1>4. /\ SetFinalPrice(p, price, "host_entered", "host") \in Row
      /\ SetFinalPrice(p, price, "host_entered", "host").by = "host"
  <2>1. SetFinalPrice(p, price, "host_entered", "host") \in Row
    BY <1>1, <1>3, TypedPrice
  <2> QED BY <1>1, <2>1 DEF SetFinalPrice, Row
<1> QED BY <1>1, <1>2, <1>4

LEMMA TypedCreated ==
    ASSUME FactsType, NEW b \in Booking, NEW new, NEW r \in Row, NEW price,
           NEW l \in Lead \cup {NoLead}, Created(b, new, r, price, l)
    PROVE new \in Row /\ (new.by = r.by \/ new \in Reconciled(r, b))
<1>1. ASSUME l # NoLead, NEW e \in Evidence(r, b, l),
             new = Pending([e EXCEPT !.attribution = "confirmed", !.reviewed = TRUE])
      PROVE new \in Row /\ new.by = r.by
  <2> DEFINE w == [e EXCEPT !.attribution = "confirmed", !.reviewed = TRUE]
  <2>1. e \in Row /\ e.by = r.by
    BY <1>1, TypedEvidence
  <2>2. w \in Row /\ w.by = r.by /\ new = Pending(w)
    BY <1>1, <2>1 DEF Row
  <2> HIDE DEF w
  <2> QED BY <2>2, TypedRows DEF Pending, Row
<1> QED BY <1>1, TypedReconciled DEF Created

LEMMA TypedCreate ==
    ASSUME TypeOK, NEW b \in Booking, CreateBooking(b) PROVE TypeOK'
<1>0. link \in LinkType /\ FactsType /\ born \in [Booking -> Nat] /\ finals \subseteq FinalPrice
  BY TypeParts DEF Still
<1>1. PICK kind \in Kind, dates \in HostDates, identity \in {"full", "none"},
           price \in Amount \cup {0}, l \in Lead \cup {NoLead} :
        \E new : Created(b, new, Typed(b, kind, dates, identity, price), price, l)
  BY Creates
<1> DEFINE r == Typed(b, kind, dates, identity, price)
<1>3. r \in Row
  BY <1>0, TypedTyped
<1> HIDE DEF r
<1>2. PICK new : Created(b, new, r, price, l)
  BY <1>1 DEF r
<1>4. new \in Row
  BY <1>0, <1>2, <1>3, TypedCreated
<1>5. row' \in [Booking -> Row \cup {NoRow}]
  BY <1>2, <1>4, TypeParts DEF Created
<1>6. link' \in LinkType
  BY <1>0, <1>2, Links DEF Created
<1>10. finals' \subseteq FinalPrice
  <2>1. /\ FinalPriceEvent(r, b, "host") \in FinalPrice
        /\ FinalPriceEvent(new, b, "mira_conversation") \in FinalPrice
    BY <1>3, <1>4, TypedFinal
  <2>2. LinkedFinals(finals, new.lead, b) \subseteq FinalPrice
    BY <1>0, TypedFinals
  <2> QED BY <1>0, <1>2, <2>1, <2>2 DEF Created
<1>7. /\ born' = [born EXCEPT ![b] = NewId(b)] /\ requests' = requests + 1
      /\ UNCHANGED <<feed, facts, sync, host, changes>>
  BY DEF CreateBooking
<1>8. born' \in [Booking -> Nat]
  BY <1>0, <1>7 DEF NewId
<1>9. Still' /\ sync' = sync /\ host' = host
  BY <1>7, TypeParts DEF Still, FactsType
<1> QED BY <1>5, <1>6, <1>8, <1>9, <1>10, TypesNext, TypeParts

\* A sync's state by what it is doing.
LEMMA SyncParts ==
    ASSUME NEW x \in SyncState
    PROVE /\ x.todo \in SUBSET Property
          /\ x.pc # "idle" => x.of \in Property /\ x.seen \in Seen
          /\ x.pc = "loaded" => x.rows \in [Synced -> Row \cup {NoRow}]
<1>1. CASE x \in [pc: {"idle"}, todo: SUBSET Property]
  BY <1>1
<1>2. CASE x \in [pc: {"fetched"}, todo: SUBSET Property, of: Property, seen: Seen]
  BY <1>2
<1>3. CASE x \in [pc: {"loaded"}, todo: SUBSET Property, of: Property, seen: Seen,
                  rows: [Synced -> Row \cup {NoRow}]]
  BY <1>3
<1> QED BY <1>1, <1>2, <1>3 DEF SyncState

LEMMA TypedIdle ==
    ASSUME NEW todo \in SUBSET Property PROVE [pc |-> "idle", todo |-> todo] \in SyncState
BY DEF SyncState

\* A sync that only reads, or is done with a property.
LEMMA TypedSync ==
    ASSUME TypeOK, NEW s \in Sync, NEW x \in SyncState, sync' = [sync EXCEPT ![s] = x],
           UNCHANGED <<feed, facts, ledger, host, changes>>, requests' \in Nat
    PROVE TypeOK'
<1>1. sync' \in [Sync -> SyncState]
  BY TypeParts
<1>2. /\ Still' /\ row' = row /\ born' = born /\ link' = link /\ finals' = finals
      /\ host' = host
  BY TypeParts DEF Still, FactsType, ledger
<1> QED BY <1>1, <1>2, TypesNext, TypeParts

LEMMA TypedStarts ==
    ASSUME TypeOK, NEW s \in Sync, SyncStarts(s) PROVE TypeOK'
<1>1. PICK todo \in SUBSET Property : sync' = [sync EXCEPT ![s] = [pc |-> "idle", todo |-> todo]]
  BY DEF SyncStarts
<1>2. UNCHANGED <<feed, facts, ledger, host, changes>> /\ requests' \in {requests, requests + 1}
  BY DEF SyncStarts
<1>3. requests' \in Nat
  BY <1>2 DEF TypeOK
<1> DEFINE x == [pc |-> "idle", todo |-> todo]
<1>4. x \in SyncState
  BY TypedIdle
<1> HIDE DEF x
<1> QED BY <1>1, <1>2, <1>3, <1>4, TypedSync DEF x

LEMMA TypedReads ==
    ASSUME TypeOK, NEW s \in Sync,
           \/ \E p \in Property : Fetches(s, p) \/ FetchFails(s, p)
           \/ LoadsBookings(s) \/ SyncAborts(s)
    PROVE TypeOK'
<1>1. UNCHANGED <<feed, facts, ledger, host, changes>> /\ requests' \in Nat
  BY DEF Fetches, FetchFails, LoadsBookings, SyncAborts, counters, TypeOK
<1>2. /\ sync[s] \in SyncState /\ sync[s].todo \in SUBSET Property
      /\ row \in [Booking -> Row \cup {NoRow}] /\ feed \in Seen
  BY SyncParts DEF TypeOK
<1>3. ASSUME NEW p \in Property, Fetches(s, p) PROVE TypeOK'
  <2> DEFINE now == [b \in Synced |-> Parsed(feed[b])]
             x == [pc |-> "fetched", todo |-> sync[s].todo, of |-> p, seen |-> now]
  <2>1. sync' = [sync EXCEPT ![s] = x]
    BY <1>3 DEF Fetches
  <2>2. now \in Seen
    BY <1>2 DEF Seen, Parsed
  <2> HIDE DEF now
  <2>3. x \in SyncState
    BY <1>2, <2>2 DEF SyncState
  <2> HIDE DEF x
  <2> QED BY <1>1, <2>1, <2>3, TypedSync
<1>4. ASSUME NEW p \in Property, FetchFails(s, p) PROVE TypeOK'
  <2> DEFINE x == [sync[s] EXCEPT !.todo = @ \ {p}]
  <2>1. sync' = [sync EXCEPT ![s] = x] /\ sync[s].pc = "idle"
    BY <1>4 DEF FetchFails
  <2>2. sync[s] \in [pc: {"idle"}, todo: SUBSET Property]
    BY <1>2, <2>1 DEF SyncState
  <2>3. x = [pc |-> "idle", todo |-> sync[s].todo \ {p}]
    BY <2>2
  <2>4. x \in SyncState
    BY <1>2, <2>3, TypedIdle
  <2> HIDE DEF x
  <2> QED BY <1>1, <2>1, <2>4, TypedSync
<1>5. CASE LoadsBookings(s)
  <2> DEFINE now == [b \in Synced |-> row[b]]
             x == [pc |-> "loaded", todo |-> sync[s].todo, of |-> sync[s].of,
                   seen |-> sync[s].seen, rows |-> now]
  <2>1. sync' = [sync EXCEPT ![s] = x] /\ sync[s].pc = "fetched"
    BY <1>5 DEF LoadsBookings
  <2>2. sync[s].of \in Property /\ sync[s].seen \in Seen
    BY <1>2, <2>1, SyncParts
  <2>3. now \in [Synced -> Row \cup {NoRow}]
    BY <1>2, LedgerAssumption
  <2> HIDE DEF now
  <2>4. x \in SyncState
    BY <1>2, <2>2, <2>3 DEF SyncState
  <2> HIDE DEF x
  <2> QED BY <1>1, <2>1, <2>4, TypedSync
<1>6. CASE SyncAborts(s)
  <2>1. sync' = [sync EXCEPT ![s] = IdleSync]
    BY <1>6 DEF SyncAborts, EndsJob
  <2>2. IdleSync \in SyncState
    BY TypedIdle DEF IdleSync
  <2> QED BY <1>1, <2>1, <2>2, TypedSync
<1> QED BY <1>3, <1>4, <1>5, <1>6

LEMMA TypedCommit ==
    ASSUME TypeOK, NEW s \in Sync, CommitsSync(s) PROVE TypeOK'
<1> DEFINE fresh == Listed(s) \ Known(s)
           seen == sync[s].seen
           loaded == sync[s].rows
           gone == {b \in Known(s) \ Listed(s) : row[b].id = sync[s].rows[b].id}
           inserted == [b \in fresh |-> FromEvent(b, seen[b])]
           kept == [l \in Lead |-> [p \in Property |->
                       IF link[l][p] \in gone THEN None ELSE link[l][p]]]
           left == UnlinkedFinals(finals, Sources, gone)
           claims(new, l) == {b \in fresh : new[b].lead = l}
           sold(new) == {FinalPriceEvent(new[b], b, "mira_conversation") :
                            b \in {x \in fresh : new[x].by = "mira"}}
           Then(new, b) ==
              IF b \in fresh THEN new[b]
              ELSE IF b \in gone THEN NoRow
              ELSE IF b \in Known(s) \cap Listed(s) /\ Exists(b)
              THEN Flush(loaded[b], Refreshed(loaded[b], seen[b]), row[b])
              ELSE row[b]
<1>1. PICK new \in [fresh -> UNION {Reconciled(inserted[b], b) \cup
                                     {Plain(inserted[b])} : b \in fresh}],
           last \in [Lead -> fresh \cup {None}] :
        /\ \A b \in fresh : new[b] \in Reconciled(inserted[b], b) \cup {Plain(inserted[b])}
        /\ \A l \in Lead :
              IF claims(new, l) = {} THEN last[l] = None ELSE last[l] \in claims(new, l)
        /\ row' = [b \in Booking |-> Then(new, b)]
        /\ born' = [b \in Booking |-> IF b \in fresh THEN NewId(b) ELSE born[b]]
        /\ link' = [l \in Lead |->
              IF last[l] = None THEN kept[l] ELSE Linked(kept, l, last[l])[l]]
        /\ finals' = {[e EXCEPT !.booking =
              IF e.lead \in Lead /\ e.property = sync[s].of /\ last[e.lead] # None
              THEN last[e.lead] ELSE @] : e \in left \cup sold(new)}
  BY Zenon DEF CommitsSync
<1>2. /\ sync[s].pc = "loaded" /\ UNCHANGED <<feed, facts, host, counters>>
      /\ sync' = [sync EXCEPT ![s] = [pc |-> "idle", todo |-> sync[s].todo \ {sync[s].of}]]
  BY DEF CommitsSync, NextProperty
<1>3. /\ sync[s] \in SyncState /\ sync[s].todo \in SUBSET Property
      /\ sync[s].of \in Property /\ seen \in Seen
      /\ loaded \in [Synced -> Row \cup {NoRow}]
  <2>1. sync[s] \in SyncState
    BY TypeParts
  <2> QED BY <1>2, <2>1, SyncParts
<1>4. /\ FactsType /\ row \in [Booking -> Row \cup {NoRow}] /\ born \in [Booking -> Nat]
      /\ link \in LinkType /\ Synced \subseteq Booking
  BY TypeParts, LedgerAssumption DEF Still
<1>5. fresh \in SUBSET Booking /\ \A b \in Listed(s) : b \in Booking /\ seen[b] \in Event
  BY <1>3, <1>4 DEF Listed, Slots, Seen
<1>6. \A b \in Known(s) : loaded[b] \in Row
  BY <1>3 DEF Known, Slots, NoRow
<1>13. ASSUME NEW b \in fresh PROVE new[b] \in Row
  <2> DEFINE e == seen[b]
  <2>1. e \in Event /\ b \in Booking
    BY <1>5
  <2>2. new[b] \in Reconciled(FromEvent(b, e), b) \cup {Plain(FromEvent(b, e))}
    BY <1>1
  <2> HIDE DEF e
  <2> QED BY <1>4, <2>1, <2>2, TypedFresh
<1>7. row' \in [Booking -> Row \cup {NoRow}]
  <2> SUFFICES ASSUME NEW b \in Booking PROVE Then(new, b) \in Row \cup {NoRow}
    BY <1>1
  <2>1. CASE b \in fresh
    BY <1>13, <2>1
  <2>2. CASE b \notin fresh /\ b \in Known(s) \cap Listed(s) /\ Exists(b)
    <3> DEFINE r == loaded[b]
               e == seen[b]
    <3>1. r \in Row /\ e \in Event
      BY <1>5, <1>6, <2>2
    <3>2. row[b] \in Row
      BY <1>4, <2>2 DEF Exists, NoRow
    <3>3. Then(new, b) = NoRow \/ Then(new, b) = Flush(r, Refreshed(r, e), row[b])
      BY <2>2
    <3> HIDE DEF r, e, Then
    <3>4. Refreshed(r, e) \in Row
      BY <3>1, TypedRefresh
    <3>5. Flush(r, Refreshed(r, e), row[b]) \in Row
      BY <3>1, <3>2, <3>4, TypedFlush
    <3> QED BY <3>3, <3>5
  <2>3. CASE b \notin fresh /\ ~(b \in Known(s) \cap Listed(s) /\ Exists(b))
    BY <1>4, <2>3
  <2> QED BY <2>1, <2>2, <2>3
<1>8. born' \in [Booking -> Nat]
  BY <1>1, <1>4 DEF NewId
<1>9. link' \in LinkType
  <2>1. kept \in LinkType
    BY <1>4 DEF LinkType
  <2> HIDE DEF kept
  <2>2. \A l \in Lead : last[l] \in Booking \cup {None}
    BY <1>5
  <2> HIDE DEF fresh
  <2>3. \A l \in Lead : last[l] # None => Linked(kept, l, last[l]) \in LinkType
    BY <2>1, <2>2, Links
  <2> QED BY <1>1, <2>1, <2>3 DEF LinkType
<1>12. finals' \subseteq FinalPrice
  <2>1. left \subseteq FinalPrice
    <3>1. finals \subseteq FinalPrice
      BY TypeParts
    <3> QED BY <3>1, TypedFinals
  <2>2. sold(new) \subseteq FinalPrice
    <3> SUFFICES ASSUME NEW b \in fresh, new[b].by = "mira"
                 PROVE FinalPriceEvent(new[b], b, "mira_conversation") \in FinalPrice
      OBVIOUS
    <3>1. b \in Booking /\ new[b] \in Row
      BY <1>5, <1>13
    <3> QED BY <3>1, TypedFinal
  <2> HIDE DEF left, sold
  <2>3. \A l \in Lead : last[l] \in Booking \cup {None}
    BY <1>5
  <2>4. ASSUME NEW e \in FinalPrice, NEW x \in Booking \cup {None}
        PROVE [e EXCEPT !.booking = x] \in FinalPrice /\ e.booking \in Booking \cup {None}
    BY DEF FinalPrice
  <2>5. ASSUME NEW e \in left \cup sold(new)
        PROVE [e EXCEPT !.booking =
                  IF e.lead \in Lead /\ e.property = sync[s].of /\ last[e.lead] # None
                  THEN last[e.lead] ELSE e.booking] \in FinalPrice
    <3> DEFINE x == IF e.lead \in Lead /\ e.property = sync[s].of /\ last[e.lead] # None
                    THEN last[e.lead] ELSE e.booking
    <3>1. e \in FinalPrice
      BY <2>1, <2>2
    <3>2. x \in Booking \cup {None}
      <4>1. e.booking \in Booking \cup {None}
        BY <3>1 DEF FinalPrice
      <4> QED BY <2>3, <4>1
    <3> HIDE DEF x
    <3>3. [e EXCEPT !.booking = x] \in FinalPrice
      BY <2>4, <3>1, <3>2
    <3> QED BY <3>3 DEF x
  <2>6. finals' = {[e EXCEPT !.booking =
                       IF e.lead \in Lead /\ e.property = sync[s].of /\ last[e.lead] # None
                       THEN last[e.lead] ELSE e.booking] : e \in left \cup sold(new)}
    BY <1>1, Zenon
  <2> QED BY <2>5, <2>6
<1>10. sync' \in [Sync -> SyncState]
  <2> DEFINE x == [pc |-> "idle", todo |-> sync[s].todo \ {sync[s].of}]
  <2>1. x \in SyncState
    BY <1>3, TypedIdle
  <2> HIDE DEF x
  <2> QED BY <1>2, <2>1, TypeParts DEF x
<1>11. Still' /\ host' = host
  BY <1>2, TypeParts DEF Still, FactsType, counters
<1> QED BY <1>7, <1>8, <1>9, <1>10, <1>11, <1>12, TypesNext, TypeParts

LEMMA TypedWorld ==
    ASSUME TypeOK,
           \/ \E b \in Synced : FeedChanges(b)
           \/ \E b \in Booking, l \in Lead : Talks(b, l)
    PROVE TypeOK'
<1>0. feed \in Seen /\ FactsType /\ {changes, requests} \subseteq Nat
  BY TypeParts DEF Still
<1>1. UNCHANGED ledger /\ sync' = sync /\ host' = host
  BY DEF FeedChanges, Talks
<1>2. Still'
  <2>1. ASSUME NEW b \in Synced, FeedChanges(b) PROVE Still'
    BY <1>0, <2>1 DEF FeedChanges, Still, FactsType, Seen
  <2>2. ASSUME NEW b \in Booking, NEW l \in Lead, Talks(b, l) PROVE Still'
    <3>1. PICK f \in FactSet : facts' = [facts EXCEPT ![b][l] = f]
      BY <2>2 DEF Talks
    <3>2. FactsType'
      BY <1>0, <3>1 DEF FactsType
    <3> QED BY <1>0, <2>2, <3>2 DEF Talks, Still
  <2> QED BY <2>1, <2>2
<1>3. row' = row /\ born' = born /\ link' = link /\ finals' = finals
  BY <1>1 DEF ledger
<1> QED BY <1>1, <1>2, <1>3, TypesNext, TypeParts

\* Whoever writes a booking, and in whatever order the requests and the syncs
\* come - two requests on one booking included -, its row, the links and what
\* syncs and requests have loaded keep the shape the code gives them.
THEOREM TypeCorrect == Spec => []TypeOK
<1>1. Init => TypeOK
  <2> SUFFICES ASSUME Init PROVE TypeOK
    OBVIOUS
  <2>1. feed \in Seen /\ facts \in [Booking -> [Lead -> FactSet]]
        /\ row \in [Booking -> Row \cup {NoRow}] /\ born \in [Booking -> Nat]
        /\ link \in [Lead -> [Property -> Booking \cup {None}]]
    BY DEF Init, Seen
  <2>2. IdleSync \in SyncState
    BY TypedIdle DEF IdleSync
  <2>3. IdleHost \in HostState
    BY DEF HostState
  <2> QED BY <2>1, <2>2, <2>3 DEF Init, TypeOK
<1>2. TypeOK /\ [Next]_vars => TypeOK'
  <2> SUFFICES ASSUME TypeOK, [Next]_vars PROVE TypeOK'
    OBVIOUS
  <2>1. ASSUME NEW s \in Sync, SyncStarts(s) \/ Carries(s) PROVE TypeOK'
    BY <2>1, TypedStarts, TypedReads, TypedCommit DEF Carries
  <2>2. ASSUME NEW h \in Host, HostStep(h) \/ \E b \in Booking : Opens(h, b) PROVE TypeOK'
    BY <2>2, TypedHostStep, TypedOpens
  <2>3. CASE UNCHANGED vars
    BY <2>3 DEF vars, TypeOK
  <2> QED BY <2>1, <2>2, <2>3, TypedWorld, TypedCreate DEF Next
<1> QED BY <1>1, <1>2, PTL DEF Spec
----------------------------------------------------------------------------
(* Mira's own prices *)

\* What MiraOnlyWhenSure asks of a step, booking by booking.
ByMira(b) == /\ row'[b].id # 0 /\ row'[b].by = "mira"
             /\ ~(row[b].id = row'[b].id /\ row[b].by = "mira")
Sure == \A b \in Booking : ByMira(b) => Settled(row'[b], b)

\* The only price that a reconciliation makes Mira's own.
LEMMA ReconciledSure ==
    ASSUME FactsType, NEW b \in Booking, NEW r \in Row, r.by # "mira",
           NEW q \in Reconciled(r, b), q.by = "mira"
    PROVE Settled(q, b)
<1>1. r.kind = "reservation" /\ ~r.reviewed
  <2>1. Pending(r).by = r.by
    BY DEF Pending, Row
  <2> QED BY <2>1 DEF Reconciled
<1>2. PICK v \in Verdicts(Views(b, r.dates), r.identity) : \E c \in {v.lead, NoLead} :
        \/ v.lead = NoLead /\ q = Told(r, v, c)
        \/ /\ v.lead # NoLead
           /\ \/ q = Shown(r, b, v, c)
              \/ /\ Price(r, b, v) # 0
                 /\ q = SetFinalPrice(Shown(r, b, v, c), Price(r, b, v),
                                      "mira_conversation", "mira")
  BY <1>1, Ends
<1>3. PICK c \in {v.lead, NoLead} :
        \/ v.lead = NoLead /\ q = Told(r, v, c)
        \/ /\ v.lead # NoLead
           /\ \/ q = Shown(r, b, v, c)
              \/ /\ Price(r, b, v) # 0
                 /\ q = SetFinalPrice(Shown(r, b, v, c), Price(r, b, v),
                                      "mira_conversation", "mira")
  BY <1>2
<1>4. /\ Told(r, v, c) \in Row /\ Told(r, v, c).by = r.by /\ Told(r, v, c).lead = v.lead
      /\ Told(r, v, c).identity = r.identity
  BY TypedTold
<1> DEFINE w == Shown(r, b, v, c)
<1>5. DOMAIN w = Columns /\ w.by = r.by /\ w.lead = v.lead /\ w.identity = r.identity
  BY <1>4 DEF Shown, ShowPrices, Row, Columns
<1> HIDE DEF w
<1>6. /\ v.lead # NoLead /\ Price(r, b, v) # 0
      /\ q = SetFinalPrice(w, Price(r, b, v), "mira_conversation", "mira")
  BY <1>3, <1>4, <1>5 DEF w
<1>7. q.price = Price(r, b, v) /\ q.lead = v.lead /\ q.identity = r.identity
  BY <1>5, <1>6 DEF SetFinalPrice, Columns
<1> DEFINE f == View(b, v.lead, r.dates)
           S == Score(f, r.identity)
<1>8. v.lead \in Candidates(Views(b, r.dates))
  BY <1>6, Chosen DEF Best
<1>9. /\ v.lead \in Lead /\ f \in Fact /\ f.within /\ f.talk = facts[b][v.lead].talk
      /\ f.phone = facts[b][v.lead].phone /\ facts[b][v.lead].within
  <2>1. v.lead \in Lead /\ f.within
    BY <1>8 DEF Candidates, Views
  <2> QED BY <2>1, TypedView
<1>10. Price(r, b, v) = ConfidentPrice(f, S)
  BY DEF Price
<1>11. Quoted(f, "exact") = Quoted(facts[b][v.lead], "exact")
  BY <1>9 DEF Quoted
<1> HIDE DEF f, S
<1>12. /\ S \cap IdentitySignals # {}
       /\ \E i \in Quoted(f, "exact") :
             /\ f.talk[i].type = "accepted_offer" /\ f.talk[i].price = Price(r, b, v)
             /\ \A j \in Quoted(f, "exact") : f.talk[j].type \in Negotiation => j <= i
  BY <1>6, <1>9, <1>10, SurePrice
<1>13. r.identity # "none" /\ f.phone = "same"
  BY <1>12, PhoneAgrees DEF S
<1> QED BY <1>7, <1>9, <1>11, <1>12, <1>13 DEF Settled

\* An ORM session that does not make a price Mira's writes none, whatever it
\* meets at its commit.
LEMMA FlushSure ==
    ASSUME NEW loaded \in Row, NEW wanted, NEW committed \in Row,
           wanted.id = loaded.id, wanted.by = "mira" => loaded.by = "mira",
           Flush(loaded, wanted, committed).by = "mira"
    PROVE committed.by = "mira" /\ Flush(loaded, wanted, committed).id = committed.id
<1>1. DOMAIN committed = Columns /\ {"id", "by"} \subseteq Columns
  BY DEF Row, Columns
<1> QED BY <1>1 DEF Flush

LEMMA SaveSure ==
    ASSUME TypeOK, NEW h \in Host, host[h].op # "idle", ~Lost(h),
           NEW wanted, Saves(h, wanted), wanted.id = host[h].loaded.id,
           wanted.by = "mira" => host[h].loaded.by = "mira"
    PROVE Sure
<1>1. host[h].of \in Booking /\ host[h].loaded \in Row /\ row[host[h].of] \in Row
  BY Opened
<1>2. row' = [row EXCEPT ![host[h].of] = Flush(host[h].loaded, wanted, row[host[h].of])]
      /\ DOMAIN row = Booking
  BY DEF Saves, TypeOK
<1>3. ASSUME NEW b \in Booking, row'[b].by = "mira"
      PROVE row[b].id = row'[b].id /\ row[b].by = "mira"
  <2>1. CASE b = host[h].of
    BY <1>1, <1>2, <1>3, <2>1, FlushSure
  <2>2. CASE b # host[h].of
    BY <1>2, <1>3, <2>2
  <2> QED BY <2>1, <2>2
<1> QED BY <1>3 DEF Sure, ByMira

LEMMA HostSure ==
    ASSUME TypeOK, NEW h \in Host, HostStep(h) PROVE Sure
<1> DEFINE o == host[h].of
           r == host[h].loaded
<1>1. CASE ConfirmPrice(h)
  <2> DEFINE source == IF host[h].op = "mira" THEN "host_confirmed" ELSE "host_entered"
             w == SetFinalPrice(r, Value(h), source, "host")
  <2>1. host[h].op # "idle" /\ ~Lost(h) /\ Saves(h, w)
    BY <1>1 DEF ConfirmPrice
  <2>2. r \in Row
    BY <2>1, Opened
  <2>3. w.id = r.id /\ w.by = "host"
    BY <2>2 DEF SetFinalPrice, Row
  <2> HIDE DEF w
  <2> QED BY <2>1, <2>3, SaveSure
<1>2. CASE ConfirmLater(h)
  <2> DEFINE w == [ClearPrice(r) EXCEPT !.asked = TRUE]
  <2>1. host[h].op # "idle" /\ ~Lost(h) /\ Saves(h, w)
    BY <1>2 DEF ConfirmLater
  <2>2. r \in Row
    BY <2>1, Opened
  <2>3. w.id = r.id /\ w.by = "nobody"
    BY <2>2 DEF ClearPrice, Row
  <2> HIDE DEF w
  <2> QED BY <2>1, <2>3, SaveSure
<1>3. CASE DecideYes(h)
  <2>1. PICK e \in Evidence(r, o, r.lead) :
            Saves(h, [e EXCEPT !.attribution = "confirmed", !.reviewed = TRUE])
    BY <1>3 DEF DecideYes
  <2>2. host[h].op # "idle" /\ ~Lost(h) /\ r.lead # NoLead
    BY <1>3 DEF DecideYes
  <2>3. r \in Row /\ o \in Booking /\ FactsType
    BY <2>2, Opened, TypeParts DEF Still
  <2>4. r.lead \in Lead
    BY <2>2, <2>3 DEF Row
  <2>5. e \in Row /\ e.id = r.id /\ e.by = r.by
    BY <2>3, <2>4, TypedEvidence
  <2> DEFINE w == [e EXCEPT !.attribution = "confirmed", !.reviewed = TRUE]
  <2>6. w.id = r.id /\ w.by = r.by
    BY <2>5 DEF Row
  <2>7. Saves(h, w)
    BY <2>1
  <2> HIDE DEF w
  <2> QED BY <2>2, <2>6, <2>7, SaveSure
<1>4. CASE DecideNo(h)
  <2> DEFINE w == Withdrawn(r)
  <2>1. host[h].op # "idle" /\ ~Lost(h) /\ Saves(h, w)
    BY <1>4 DEF DecideNo
  <2>2. r \in Row
    BY <2>1, Opened
  <2>3. w.id = r.id /\ w.by # "mira"
    BY <2>2 DEF Withdrawn, ClearPrice, Row
  <2> HIDE DEF w
  <2> QED BY <2>1, <2>3, SaveSure
<1>5. CASE UpdateKind(h)
  <2> DEFINE e == [r EXCEPT !.kind = host[h].req.kind]
             w == IF e.kind = "reservation" THEN Pending(e) ELSE e
  <2>1. host[h].op # "idle" /\ ~Lost(h) /\ Saves(h, w)
    BY <1>5 DEF UpdateKind
  <2>2. r \in Row
    BY <2>1, Opened
  <2>3. w.id = r.id /\ w.by = r.by
    BY <2>2 DEF Pending, Row
  <2> HIDE DEF w
  <2> QED BY <2>1, <2>3, SaveSure
<1>6. CASE CancelBooking(h)
  <2>1. row' = row \/ row' = [row EXCEPT ![o] = NoRow]
    BY <1>6 DEF CancelBooking
  <2>2. DOMAIN row = Booking
    BY DEF TypeOK
  <2> QED BY <2>1, <2>2 DEF Sure, ByMira, NoRow
<1>7. CASE Refused(h)
  BY <1>7 DEF Refused, ledger, Sure, ByMira
<1> QED BY <1>1, <1>2, <1>3, <1>4, <1>5, <1>6, <1>7 DEF HostStep

LEMMA CommitSure ==
    ASSUME TypeOK, NEW s \in Sync, CommitsSync(s) PROVE Sure
<1> DEFINE fresh == Listed(s) \ Known(s)
           seen == sync[s].seen
           loaded == sync[s].rows
           gone == {b \in Known(s) \ Listed(s) : row[b].id = sync[s].rows[b].id}
           inserted == [b \in fresh |-> FromEvent(b, seen[b])]
           kept == [l \in Lead |-> [p \in Property |->
                       IF link[l][p] \in gone THEN None ELSE link[l][p]]]
           left == UnlinkedFinals(finals, Sources, gone)
           claims(new, l) == {b \in fresh : new[b].lead = l}
           sold(new) == {FinalPriceEvent(new[b], b, "mira_conversation") :
                            b \in {x \in fresh : new[x].by = "mira"}}
           Then(new, b) ==
              IF b \in fresh THEN new[b]
              ELSE IF b \in gone THEN NoRow
              ELSE IF b \in Known(s) \cap Listed(s) /\ Exists(b)
              THEN Flush(loaded[b], Refreshed(loaded[b], seen[b]), row[b])
              ELSE row[b]
<1>1. PICK new \in [fresh -> UNION {Reconciled(inserted[b], b) \cup
                                     {Plain(inserted[b])} : b \in fresh}],
           last \in [Lead -> fresh \cup {None}] :
        /\ \A b \in fresh : new[b] \in Reconciled(inserted[b], b) \cup {Plain(inserted[b])}
        /\ \A l \in Lead :
              IF claims(new, l) = {} THEN last[l] = None ELSE last[l] \in claims(new, l)
        /\ row' = [b \in Booking |-> Then(new, b)]
        /\ born' = [b \in Booking |-> IF b \in fresh THEN NewId(b) ELSE born[b]]
        /\ link' = [l \in Lead |->
              IF last[l] = None THEN kept[l] ELSE Linked(kept, l, last[l])[l]]
        /\ finals' = {[e EXCEPT !.booking =
              IF e.lead \in Lead /\ e.property = sync[s].of /\ last[e.lead] # None
              THEN last[e.lead] ELSE @] : e \in left \cup sold(new)}
  BY Zenon DEF CommitsSync
<1>2. sync[s] \in SyncState /\ sync[s].pc = "loaded"
  BY DEF CommitsSync, TypeOK
<1>3. seen \in Seen /\ loaded \in [Synced -> Row \cup {NoRow}]
  BY <1>2, SyncParts
<1>4. /\ FactsType /\ row \in [Booking -> Row \cup {NoRow}] /\ born \in [Booking -> Nat]
      /\ Synced \subseteq Booking
  BY TypeParts, LedgerAssumption DEF Still
<1>5. \A b \in Listed(s) : seen[b] \in Event
  BY <1>3 DEF Listed, Slots, Seen
<1>6. \A b \in Known(s) : loaded[b] \in Row
  BY <1>3 DEF Known, Slots, NoRow
<1> SUFFICES ASSUME NEW b \in Booking, ByMira(b) PROVE Settled(row'[b], b)
  BY DEF Sure
<1>7. row'[b] = Then(new, b)
  BY <1>1
<1>8. CASE b \in fresh
  <2> DEFINE e == seen[b]
             r == FromEvent(b, e)
  <2>1. /\ e \in Event /\ row'[b] = new[b]
        /\ new[b] \in Reconciled(r, b) \cup {Plain(r)}
    BY <1>1, <1>5, <1>7, <1>8
  <2> HIDE DEF e
  <2>2. r \in Row
    <3>1. e.dates \in Nat /\ (IF e.last4 THEN "last4" ELSE "none") \in Identity
          /\ ClassifyKind(e.summary) \in Kind
      BY <2>1, LedgerAssumption DEF Identity, ClassifyKind, Kind
    <3> QED BY <1>4, <3>1, TypedNew, Zenon DEF FromEvent
  <2>3. r.by = "nobody"
    BY DEF FromEvent, NewRow
  <2> HIDE DEF r
  <2>4. Plain(r).by = "nobody"
    BY <2>2, <2>3 DEF Plain, Row
  <2>5. new[b].by = "mira"
    BY <2>1 DEF ByMira
  <2>6. new[b] \in Reconciled(r, b)
    BY <2>1, <2>4, <2>5
  <2> QED BY <1>4, <2>1, <2>2, <2>3, <2>5, <2>6, ReconciledSure
<1>9. CASE b \notin fresh
  <2> DEFINE r == loaded[b]
             w == Refreshed(r, seen[b])
  <2>1. \/ row'[b].id = 0
        \/ b \in Known(s) /\ Exists(b) /\ row'[b] = Flush(r, w, row[b])
        \/ row'[b] = row[b]
    BY <1>7, <1>9 DEF NoRow
  <2>2. ASSUME b \in Known(s), Exists(b), row'[b] = Flush(r, w, row[b]) PROVE FALSE
    <3>1. r \in Row /\ row[b] \in Row
      BY <1>4, <1>6, <2>2 DEF Exists, NoRow
    <3>2. w.id = r.id /\ w.by = r.by
      <4> HIDE DEF r
      <4> QED BY <3>1 DEF Refreshed, Row
    <3> HIDE DEF r, w
    <3> QED BY <2>2, <3>1, <3>2, FlushSure DEF ByMira
  <2> QED BY <2>1, <2>2 DEF ByMira
<1> QED BY <1>8, <1>9

LEMMA CreateSure ==
    ASSUME TypeOK, NEW b \in Booking, CreateBooking(b) PROVE Sure
<1>0. FactsType /\ born \in [Booking -> Nat] /\ DOMAIN row = Booking
  BY TypeParts DEF Still
<1>1. PICK kind \in Kind, dates \in HostDates, identity \in {"full", "none"},
           price \in Amount \cup {0}, l \in Lead \cup {NoLead} :
        \E new : Created(b, new, Typed(b, kind, dates, identity, price), price, l)
  BY Creates
<1> DEFINE r == Typed(b, kind, dates, identity, price)
<1>3. r \in Row /\ r.by \in {"host", "nobody"}
  BY <1>0, TypedTyped
<1> HIDE DEF r
<1>2. PICK new : Created(b, new, r, price, l)
  BY <1>1 DEF r
<1>4. new.by = "mira" => new \in Reconciled(r, b)
  BY <1>0, <1>2, <1>3, TypedCreated
<1>5. row'[b] = new /\ \A o \in Booking : o # b => row'[o] = row[o]
  BY <1>0, <1>2 DEF Created
<1>6. ByMira(b) => Settled(row'[b], b)
  BY <1>0, <1>3, <1>4, <1>5, ReconciledSure DEF ByMira
<1> QED BY <1>5, <1>6 DEF Sure, ByMira

LEMMA SureStands == ASSUME row' = row PROVE Sure
BY DEF Sure, ByMira

\* However syncs and requests mix the columns of a row, Mira's own price is one
\* that the booking's guest, known by the number, accepted last for its dates.
THEOREM MirasPrices == Spec => MiraOnlyWhenSure
<1>1. TypeOK /\ [Next]_vars => Sure
  <2> SUFFICES ASSUME TypeOK, [Next]_vars PROVE Sure
    OBVIOUS
  <2>1. ASSUME NEW s \in Sync, SyncStarts(s) \/ Carries(s) PROVE Sure
    <3>1. CASE CommitsSync(s)
      BY <3>1, CommitSure
    <3>2. CASE ~CommitsSync(s)
      BY <2>1, <3>2, SureStands DEF Carries, SyncStarts, LoadsBookings, SyncAborts, Fetches,
         FetchFails, ledger
    <3> QED BY <3>1, <3>2
  <2>2. ASSUME NEW h \in Host, HostStep(h) \/ \E b \in Booking : Opens(h, b) PROVE Sure
    BY <2>2, HostSure, SureStands DEF Opens, ledger
  <2>3. CASE \/ UNCHANGED vars \/ \E b \in Synced : FeedChanges(b)
             \/ \E b \in Booking, l \in Lead : Talks(b, l)
    BY <2>3, SureStands DEF vars, FeedChanges, Talks, ledger
  <2> QED BY <2>1, <2>2, <2>3, CreateSure DEF Next
<1>2. Sure => [\A b \in Booking :
                 (/\ row'[b].id # 0 /\ row'[b].by = "mira"
                  /\ ~(row[b].id = row'[b].id /\ row[b].by = "mira"))
                 => Settled(row'[b], b)]_vars
  BY DEF Sure, ByMira
<1> QED BY <1>1, <1>2, TypeCorrect, PTL DEF Spec, MiraOnlyWhenSure
=============================================================================
