--------------------------- MODULE BookingLedger ---------------------------
(***************************************************************************)
(* The bookings table between three kinds of writers: iCal syncs (the      *)
(* scheduled job and the dashboard's button, calendar_service.py), the     *)
(* host's answers from the dashboard (api/v1/bookings.py and               *)
(* booking_reconciliation_service.py) and the reconciliation that a new    *)
(* booking goes through once.  Every writer is an ORM session of its own:  *)
(* it loads rows, awaits, and at commit writes the columns whose value     *)
(* differs from what it loaded.                                            *)
(***************************************************************************)
EXTENDS Attribution

CONSTANTS
    Booking,      \* one slot per calendar UID or booking made by hand
    Synced,       \* the slots whose UID the platform may put in its feed
    Property, Of, \* the property of each slot
    Lead,
    FactSet,      \* how a lead may look from a booking
    Event,        \* what the feed may say of a UID; dates 0 is an empty stay
    NoEvent,
    Sync, Job,    \* sync processes; those that walk all properties
    Host,         \* requests of the dashboard that may be open at a time
    Amount,       \* prices the host may type
    HostDates,    \* dates of the bookings the host may make
    None,
    MaxChanges,   \* bound on changes of the feed
    MaxRequests   \* bound on requests of the dashboard and conversations

ASSUME LedgerAssumption ==
    /\ Synced \subseteq Booking
    /\ Of \in [Booking -> Property]
    /\ FactSet \subseteq {f \in Fact : f.finals = {}}
    /\ Event \subseteq [dates: Nat, last4: BOOLEAN,
                        summary: {"Reserved", "Not available"}]
    /\ NoEvent \notin Event
    /\ NoLead \notin Lead
    /\ None \notin Booking \cup Property
    /\ Job \subseteq Sync
    /\ Amount \cup HostDates \subseteq Nat \ {0}
    /\ {MaxChanges, MaxRequests} \subseteq Nat

VARIABLES
    feed,     \* what the platform's feed says of each UID now
    facts,    \* what each lead's conversation shows to each slot
    row,      \* the committed bookings rows
    born,     \* how many rows each slot has had: the id of the latest
    link,     \* booking_id of the offers of a lead's calls on a property
    finals,   \* the final_price PriceEvents
    sync,     \* what each sync has fetched and loaded
    host,     \* what each open dashboard request has loaded
    changes, requests

vars == <<feed, facts, row, born, link, finals, sync, host, changes, requests>>
ledger == <<row, born, link, finals>>
counters == <<changes, requests>>

Kind == {"reservation", "blocked"}
NewRow == [id |-> 1, dates |-> 0, identity |-> "none", kind |-> "reservation",
           price |-> 0, source |-> "unknown", status |-> "unknown", by |-> "nobody",
           asked |-> FALSE, attribution |-> "unknown", lead |-> NoLead,
           call |-> NoLead, reviewed |-> FALSE, initial |-> 0, negotiated |-> 0]
Row == [id: Nat \ {0}, dates: Nat, identity: Identity, kind: Kind,
        price: Nat, \* final_booking_price
        source: {"mira_conversation", "host_confirmed", "host_entered", "unknown"},
        status: {"confirmed", "pending_confirmation", "unknown"},
        by: {"host", "mira", "nobody"},
        asked: BOOLEAN, \* price_reviewed_at is set
        attribution: {"confirmed", "probable", "not_attributed", "unknown"},
        lead: Lead \cup {NoLead},
        call: Lead \cup {NoLead}, \* whose call mira_attribution_call_session_id is
        reviewed: BOOLEAN, \* mira_attribution_reviewed_at is set
        initial: Nat, negotiated: Nat]
NoRow == [id |-> 0]

\* Both host_confirmed and host_entered are the host's; the price of a
\* final_price event is never read.
FinalPrice == [lead: Lead \cup {NoLead}, property: Property, dates: Nat,
               source: {"mira_conversation", "host"}, booking: Booking \cup {None}]
FinalPriceEvent(r, b, source) ==
    [lead |-> r.call, property |-> Of[b], dates |-> r.dates, source |-> source,
     booking |-> b]

Requests ==
    [op: {"mira", "outside", "later"}, amount: Amount \cup {0}] \cup
    [op: {"match"}, yes: BOOLEAN] \cup [op: {"kind"}, kind: Kind] \cup
    [op: {"cancel"}]
IdleHost == [op |-> "idle"]
IdleSync == [pc |-> "idle", todo |-> {}]
NewId(b) == born[b] + 1

Exists(b) == row[b].id # 0
\* The columns an ORM session writes: those whose value it changed.
FlushRow(loaded, wanted, committed) == wanted
Flush(loaded, wanted, committed) ==
    [c \in DOMAIN committed |->
        IF wanted[c] # loaded[c] THEN wanted[c] ELSE committed[c]]

DetectedPrice(r) ==
    IF r.attribution \notin {"probable", "confirmed"} THEN 0
    ELSE IF r.negotiated # 0 THEN r.negotiated ELSE r.initial

SetFinalPrice(r, amount, source, by) ==
    [r EXCEPT !.price = amount, !.source = source, !.status = "confirmed",
              !.by = by, !.asked = @ \/ by = "host"]
ClearAmount(r) == [r EXCEPT !.price = 0, !.status = "pending_confirmation"]
ClearPrice(r) ==
    [r EXCEPT !.price = 0, !.source = "unknown",
              !.status = "pending_confirmation", !.by = "nobody"]
Pending(r) == IF r.status = "unknown" /\ r.price = 0
              THEN [r EXCEPT !.status = "pending_confirmation"] ELSE r

\* The PriceEvents of the lead's calls on the property now name this booking.
Linked(links, l, b) ==
    IF facts[b][l].talk = << >> THEN links ELSE [links EXCEPT ![l][Of[b]] = b]
LinkedFinals(events, l, b) ==
    {[e EXCEPT !.booking = IF e.lead = l /\ e.property = Of[b] THEN b ELSE @] :
        e \in events}
\* The PriceEvents of a booking name none any more.
Unlinked(links, b) ==
    [l \in Lead |-> [p \in Property |->
        IF links[l][p] = b THEN None ELSE links[l][p]]]
UnlinkedFinals(events, sources, gone) ==
    {[e EXCEPT !.booking = IF e.source \in sources /\ @ \in gone THEN None ELSE @] :
        e \in events}
Sources == {"mira_conversation", "host"}

\* How the lead looks from a booking with these dates: what its conversation
\* shows, and the final prices of its calls on the property.
View(b, l, dates) ==
    [facts[b][l] EXCEPT !.finals =
        {IF e.dates = dates THEN "exact" ELSE "other" :
            e \in {x \in finals : x.lead = l /\ x.property = Of[b]}}]
Views(b, dates) == [l \in Lead |-> View(b, l, dates)]

\* The latest call, or the one the lead was made in; a lead that never called
\* has none, and no talk.
Calls(f, l) == IF f.talk # << >> THEN {l} ELSE {l, NoLead}

ShowPrices(r, f) ==
    [r EXCEPT !.initial = InitialPrice(f), !.negotiated = NegotiatedPrice(f)]

\* _apply_lead_evidence: what the lead's calls say now.
Evidence(r, b, l) ==
    {[ShowPrices(r, View(b, l, r.dates)) EXCEPT !.lead = l, !.call = c] :
        c \in Calls(facts[b][l], l)}

\* What a verdict leaves of the row.
Concluded(r, b, v) ==
    LET f == View(b, v.lead, r.dates)
        sure == ConfidentPrice(f, Score(f, r.identity))
        told(c) == [Pending(r) EXCEPT !.attribution = v.status, !.lead = v.lead,
                                      !.call = c]
        shown(c) == ShowPrices(told(c), f)
    IN  IF v.lead = NoLead THEN {told(NoLead)}
        ELSE {IF sure # 0 /\ shown(c).status # "confirmed"
              THEN SetFinalPrice(shown(c), sure, "mira_conversation", "mira")
              ELSE shown(c) : c \in Calls(f, v.lead)}

\* reconcile_booking: the rows it may leave.
Reconciled(r, b) ==
    IF r.kind # "reservation" THEN {r}
    ELSE IF r.reviewed THEN {Pending(r)}
    ELSE UNION {Concluded(r, b, v) : v \in Verdicts(Views(b, r.dates), r.identity)}

Init ==
    /\ feed = [b \in Synced |-> NoEvent]
    /\ facts \in [Booking -> [Lead -> FactSet]]
    /\ row = [b \in Booking |-> NoRow]
    /\ born = [b \in Booking |-> 0]
    /\ link = [l \in Lead |-> [p \in Property |-> None]]
    /\ finals = {}
    /\ sync = [s \in Sync |-> IdleSync]
    /\ host = [h \in Host |-> IdleHost]
    /\ changes = 0 /\ requests = 0

-----------------------------------------------------------------------------
(* The platform and the guests. *)

FeedChanges(b) ==
    /\ changes < MaxChanges
    /\ \E e \in (Event \cup {NoEvent}) \ {feed[b]} : feed' = [feed EXCEPT ![b] = e]
    /\ changes' = changes + 1
    /\ UNCHANGED <<facts, ledger, sync, host, requests>>

\* A call gives a lead's conversation another look; its events name no booking.
Talks(b, l) ==
    /\ requests < MaxRequests
    /\ \E f \in FactSet \ {facts[b][l]} : facts' = [facts EXCEPT ![b][l] = f]
    /\ requests' = requests + 1
    /\ UNCHANGED <<feed, ledger, sync, host, changes>>

-----------------------------------------------------------------------------
(* Calendar sync. *)

\* The scheduled job walks every property, the dashboard's button one.
SyncStarts(s) ==
    /\ sync[s].todo = {}
    /\ \/ /\ s \in Job
          /\ sync' = [sync EXCEPT ![s] = [pc |-> "idle", todo |-> Property]]
          /\ UNCHANGED requests
       \/ /\ s \notin Job
          /\ requests < MaxRequests
          /\ requests' = requests + 1
          /\ \E p \in Property :
                sync' = [sync EXCEPT ![s] = [pc |-> "idle", todo |-> {p}]]
    /\ UNCHANGED <<feed, facts, ledger, host, changes>>

\* parse_ical skips an event that does not end after it starts.
Parsed(e) == IF e # NoEvent /\ e.dates = 0 THEN NoEvent ELSE e

Fetches(s, p) ==
    /\ sync[s].pc = "idle" /\ p \in sync[s].todo
    /\ sync' = [sync EXCEPT ![s] = [pc |-> "fetched", todo |-> @.todo, of |-> p,
                                    seen |-> [b \in Synced |-> Parsed(feed[b])]]]
    /\ UNCHANGED <<feed, facts, ledger, host, counters>>

\* fetch_ical raises: the job goes on with the next property.
FetchFails(s, p) ==
    /\ sync[s].pc = "idle" /\ p \in sync[s].todo
    /\ sync' = [sync EXCEPT ![s].todo = @ \ {p}]
    /\ UNCHANGED <<feed, facts, ledger, host, counters>>

\* existing_by_uid: read after the feed has been fetched.
LoadsBookings(s) ==
    /\ sync[s].pc = "fetched"
    /\ sync' = [sync EXCEPT ![s] = [pc |-> "loaded", todo |-> @.todo, of |-> @.of,
                                    seen |-> @.seen,
                                    rows |-> [b \in Synced |-> row[b]]]]
    /\ UNCHANGED <<feed, facts, ledger, host, counters>>

Slots(s) == {b \in Synced : Of[b] = sync[s].of}
Known(s) == {b \in Slots(s) : sync[s].rows[b].id # 0}
Listed(s) == {b \in Slots(s) : sync[s].seen[b] # NoEvent}

RefreshedLast4(r, e) ==
    [r EXCEPT !.identity = IF e.last4 /\ @ = "none" THEN "last4" ELSE @]
Refreshed(r, e) ==
    [r EXCEPT !.dates = e.dates,
              !.identity = IF e.last4 /\ @ = "none" THEN "last4" ELSE @]
ClassifyVerbatim(summary) == summary
ClassifyKind(summary) ==
    IF summary = "Not available" THEN "blocked" ELSE "reservation"
FromEvent(b, e) ==
    [NewRow EXCEPT !.id = NewId(b), !.dates = e.dates,
                   !.identity = IF e.last4 THEN "last4" ELSE "none",
                   !.kind = ClassifyKind(e.summary)]
\* A failed savepoint leaves the plain booking behind.
Plain(r) == IF r.kind = "reservation"
            THEN [r EXCEPT !.status = "pending_confirmation"] ELSE r

\* The flush or the commit meets a row inserted, or deleted, meanwhile.
Collides(s) ==
    \/ \E b \in Listed(s) \ Known(s) : Exists(b)
    \/ \E b \in Listed(s) \cap Known(s) :
        LET loaded == sync[s].rows[b]
        IN  /\ Refreshed(loaded, sync[s].seen[b]) # loaded
            /\ row[b].id # loaded.id

NextProperty(s) ==
    sync' = [sync EXCEPT ![s] = [pc |-> "idle", todo |-> @.todo \ {@.of}]]
EndsJob(s) == sync' = [sync EXCEPT ![s] = IdleSync]

\* A final price that this sync writes is for the dates of an offer in the talk:
\* it shows the bookings after it nothing that the talk does not.  The last
\* booking that a lead is named for keeps the lead's events.
CommitsSync(s) ==
    /\ sync[s].pc = "loaded" /\ ~Collides(s)
    /\ NextProperty(s)
    /\ UNCHANGED <<feed, facts, host, counters>>
    /\ LET fresh == Listed(s) \ Known(s)
           gone == {b \in Known(s) \ Listed(s) : row[b].id = sync[s].rows[b].id}
           seen == sync[s].seen
           loaded == sync[s].rows
           inserted == [b \in fresh |-> FromEvent(b, seen[b])]
           kept == [l \in Lead |-> [p \in Property |->
                       IF link[l][p] \in gone THEN None ELSE link[l][p]]]
           left == UnlinkedFinals(finals, Sources, gone)
       IN  \E new \in [fresh -> UNION {Reconciled(inserted[b], b) \cup
                                       {Plain(inserted[b])} : b \in fresh}],
              last \in [Lead -> fresh \cup {None}] :
           LET claims(l) == {b \in fresh : new[b].lead = l}
               sold == {FinalPriceEvent(new[b], b, "mira_conversation") :
                           b \in {x \in fresh : new[x].by = "mira"}}
           IN  /\ \A b \in fresh : new[b] \in Reconciled(inserted[b], b) \cup
                                              {Plain(inserted[b])}
               /\ \A l \in Lead :
                     IF claims(l) = {} THEN last[l] = None ELSE last[l] \in claims(l)
               /\ row' = [b \in Booking |->
                     IF b \in fresh THEN new[b]
                     ELSE IF b \in gone THEN NoRow
                     ELSE IF b \in Known(s) \cap Listed(s) /\ Exists(b)
                     THEN Flush(loaded[b], Refreshed(loaded[b], seen[b]), row[b])
                     ELSE row[b]]
               /\ born' = [b \in Booking |-> IF b \in fresh THEN NewId(b) ELSE born[b]]
               /\ link' = [l \in Lead |->
                     IF last[l] = None THEN kept[l] ELSE Linked(kept, l, last[l])[l]]
               /\ finals' = {[e EXCEPT !.booking =
                     IF /\ e.lead \in Lead /\ e.property = sync[s].of
                        /\ last[e.lead] # None
                     THEN last[e.lead] ELSE @] : e \in left \cup sold}

\* The session is left without a rollback, so the job's next access to an
\* expired property raises again, in the handler too, and ends the job.
SyncAborts(s) ==
    /\ sync[s].pc = "loaded" /\ Collides(s)
    /\ EndsJob(s)
    /\ UNCHANGED <<feed, facts, ledger, host, counters>>

-----------------------------------------------------------------------------
(* The host's requests. *)

\* The booking is loaded; one that is not a reservation has no price to answer.
Opens(h, b) ==
    /\ host[h] = IdleHost
    /\ requests < MaxRequests
    /\ Exists(b)
    /\ \E q \in Requests :
        /\ q.op \in {"mira", "outside", "later"} => row[b].kind = "reservation"
        /\ host' = [host EXCEPT ![h] =
                       [op |-> q.op, of |-> b, req |-> q, loaded |-> row[b]]]
    /\ requests' = requests + 1
    /\ UNCHANGED <<feed, facts, ledger, sync, changes>>

\* The price the answer stands for; 0 is refused.
Value(h) ==
    IF host[h].req.amount # 0 \/ host[h].op = "outside" THEN host[h].req.amount
    ELSE DetectedPrice(host[h].loaded)

\* The row is not the one that was loaded: it was deleted meanwhile.
Lost(h) == row[host[h].of].id # host[h].loaded.id

Saves(h, wanted) ==
    /\ row' = [row EXCEPT ![host[h].of] = Flush(host[h].loaded, wanted, @)]
    /\ host' = [host EXCEPT ![h] = IdleHost]
    /\ UNCHANGED <<feed, facts, born, sync, counters>>

ConfirmPrice(h) ==
    /\ host[h].op \in {"mira", "outside"} /\ ~Lost(h)
    /\ Value(h) # 0
    /\ Saves(h, SetFinalPrice(host[h].loaded, Value(h),
                   IF host[h].op = "mira" THEN "host_confirmed" ELSE "host_entered",
                   "host"))
    /\ finals' = finals \cup {FinalPriceEvent(host[h].loaded, host[h].of, "host")}
    /\ UNCHANGED link

ConfirmLater(h) ==
    /\ host[h].op = "later" /\ ~Lost(h)
    /\ Saves(h, [ClearPrice(host[h].loaded) EXCEPT !.asked = TRUE])
    /\ UNCHANGED <<link, finals>>

DecideYes(h) ==
    /\ host[h].op = "match" /\ host[h].req.yes /\ ~Lost(h)
    /\ LET r == host[h].loaded
       IN  /\ r.lead # NoLead
           /\ \E e \in Evidence(r, host[h].of, r.lead) :
                 Saves(h, [e EXCEPT !.attribution = "confirmed", !.reviewed = TRUE])
           /\ link' = Linked(link, r.lead, host[h].of)
           /\ finals' = LinkedFinals(finals, r.lead, host[h].of)

\* Whatever came from the conversation is withdrawn with it.
WithdrawnShown(r) ==
    [(IF r.by = "mira" THEN ClearPrice(r) ELSE r) EXCEPT
        !.attribution = "not_attributed", !.reviewed = TRUE]
Withdrawn(r) ==
    [(IF r.by = "mira" THEN ClearPrice(r) ELSE r) EXCEPT
        !.attribution = "not_attributed", !.reviewed = TRUE,
        !.initial = 0, !.negotiated = 0]
DecideNo(h) ==
    /\ host[h].op = "match" /\ ~host[h].req.yes /\ ~Lost(h)
    /\ host[h].loaded.lead # NoLead
    /\ Saves(h, Withdrawn(host[h].loaded))
    /\ link' = Unlinked(link, host[h].of)
    /\ finals' = UnlinkedFinals(finals, {"mira_conversation"}, {host[h].of})

UpdateKind(h) ==
    /\ host[h].op = "kind" /\ ~Lost(h)
    /\ LET r == [host[h].loaded EXCEPT !.kind = host[h].req.kind]
       IN  Saves(h, IF r.kind = "reservation" THEN Pending(r) ELSE r)
    /\ UNCHANGED <<link, finals>>

\* A delete of a row that is gone already only warns.
CancelBooking(h) ==
    /\ host[h].op = "cancel"
    /\ IF Lost(h) THEN UNCHANGED <<row, link, finals>>
       ELSE /\ row' = [row EXCEPT ![host[h].of] = NoRow]
            /\ link' = Unlinked(link, host[h].of)
            /\ finals' = UnlinkedFinals(finals, Sources, {host[h].of})
    /\ host' = [host EXCEPT ![h] = IdleHost]
    /\ UNCHANGED <<feed, facts, born, sync, counters>>

\* No price in the answer, no conversation to decide about, or a row that was
\* deleted since it was loaded: nothing is written.
Refused(h) ==
    /\ \/ host[h].op \in {"mira", "outside", "later", "match", "kind"} /\ Lost(h)
       \/ host[h].op \in {"mira", "outside"} /\ Value(h) = 0
       \/ host[h].op = "match" /\ host[h].loaded.lead = NoLead
    /\ host' = [host EXCEPT ![h] = IdleHost]
    /\ UNCHANGED <<feed, facts, ledger, sync, counters>>

\* POST /bookings is one transaction: the reconciliation, or the lead that the
\* host closes into the booking, runs in a savepoint that may fail.
CreateBooking(b) ==
    /\ b \notin Synced /\ ~Exists(b)
    /\ requests < MaxRequests
    /\ \E kind \in Kind, dates \in HostDates, identity \in {"full", "none"},
          price \in Amount \cup {0}, l \in Lead \cup {NoLead}, ok \in BOOLEAN :
        LET plain == [NewRow EXCEPT !.id = NewId(b), !.dates = dates, !.kind = kind,
                                    !.identity = identity]
            told == IF price = 0 THEN plain
                    ELSE SetFinalPrice(plain, price, "host_entered", "host")
            attached == {Pending([e EXCEPT !.attribution = "confirmed",
                                           !.reviewed = TRUE]) :
                           e \in Evidence(told, b, l)}
            outcomes == IF ~ok THEN {told}
                        ELSE IF l # NoLead THEN attached
                        ELSE Reconciled(told, b)
            typed == IF price = 0 THEN {} ELSE {FinalPriceEvent(told, b, "host")}
        IN  \E new \in outcomes :
            LET sold == IF new.by = "mira"
                        THEN {FinalPriceEvent(new, b, "mira_conversation")} ELSE {}
                named == new.lead # NoLead
            IN  /\ row' = [row EXCEPT ![b] = new]
                /\ link' = IF named THEN Linked(link, new.lead, b) ELSE link
                /\ finals' = typed \cup sold \cup
                       (IF named THEN LinkedFinals(finals, new.lead, b) ELSE finals)
    /\ born' = [born EXCEPT ![b] = NewId(b)]
    /\ requests' = requests + 1
    /\ UNCHANGED <<feed, facts, sync, host, changes>>

-----------------------------------------------------------------------------
Carries(s) ==
    \/ LoadsBookings(s) \/ CommitsSync(s) \/ SyncAborts(s)
    \/ \E p \in Property : Fetches(s, p) \/ FetchFails(s, p)
\* What a started sync does next, seen from the sync alone.
Proceeds(s) ==
    \/ \E p \in Property : Fetches(s, p) \/ FetchFails(s, p)
    \/ LoadsBookings(s)
    \/ sync[s].pc = "loaded" /\ (NextProperty(s) \/ EndsJob(s))
HostStep(h) ==
    \/ ConfirmPrice(h) \/ ConfirmLater(h) \/ DecideYes(h) \/ DecideNo(h)
    \/ UpdateKind(h) \/ CancelBooking(h) \/ Refused(h)

Next ==
    \/ \E b \in Synced : FeedChanges(b)
    \/ \E b \in Booking, l \in Lead : Talks(b, l)
    \/ \E s \in Sync : SyncStarts(s) \/ Carries(s)
    \/ \E h \in Host : HostStep(h) \/ \E b \in Booking : Opens(h, b)
    \/ \E b \in Booking : CreateBooking(b)

Spec == Init /\ [][Next]_vars

\* The scheduler starts the job again and again, every request is carried
\* through, and a platform asked again and again answers in the end.
FairSpec ==
    /\ Spec
    /\ \A s \in Sync : WF_sync(Proceeds(s))
    /\ \A s \in Job : WF_vars(SyncStarts(s))
    /\ \A s \in Job, p \in Property : SF_vars(Fetches(s, p))
    /\ \A h \in Host : WF_vars(HostStep(h))

-----------------------------------------------------------------------------
HostState ==
    {IdleHost} \cup
    {r \in [op: {q.op : q \in Requests}, of: Booking, req: Requests, loaded: Row] :
        r.op = r.req.op}
Seen == [Synced -> Event \cup {NoEvent}]
SyncState ==
    [pc: {"idle"}, todo: SUBSET Property] \cup
    [pc: {"fetched"}, todo: SUBSET Property, of: Property, seen: Seen] \cup
    [pc: {"loaded"}, todo: SUBSET Property, of: Property, seen: Seen,
     rows: [Synced -> Row \cup {NoRow}]]

\* Every row, request and sync has the shape the code gives it, and a
\* request's operation is that of its payload.
TypeOK ==
    /\ feed \in Seen
    /\ facts \in [Booking -> [Lead -> FactSet]]
    /\ row \in [Booking -> Row \cup {NoRow}]
    /\ born \in [Booking -> Nat]
    /\ link \in [Lead -> [Property -> Booking \cup {None}]]
    /\ finals \subseteq FinalPrice
    /\ sync \in [Sync -> SyncState]
    /\ host \in [Host -> HostState]
    /\ {changes, requests} \subseteq Nat

\* A price is there exactly when the row says it is confirmed, with its source
\* and the one who confirmed it, whatever answers, verdicts and syncs meet in
\* the row (_set_final_price and the two places that take a price back).
PriceWhole ==
    \A b \in Booking : Exists(b) =>
        LET r == row[b]
        IN  /\ r.price # 0 <=> r.status = "confirmed"
            /\ r.price # 0 <=> r.source # "unknown"
            /\ r.price # 0 <=> r.by # "nobody"
            /\ r.by = "mira" <=> r.source = "mira_conversation"

\* After the host's No, nothing of the conversation is left at the booking: no
\* linked offer, no final price of Mira's among its price events, no detected
\* price, no price that Mira confirmed (decide_attribution); the host's own
\* final price events stay.  Mira's own price stands only beside an attribution
\* that holds or still waits for the host.
RejectionWithdraws ==
    \A b \in Booking : Exists(b) =>
        /\ row[b].reviewed /\ row[b].attribution = "not_attributed" =>
            /\ row[b].initial = 0 /\ row[b].negotiated = 0
            /\ \A l \in Lead, p \in Property : link[l][p] # b
            /\ \A e \in finals : e.booking = b => e.source # "mira_conversation"
        /\ row[b].by = "mira" =>
            row[b].attribution \in {"probable", "confirmed"} /\ row[b].lead # NoLead

Answers(b) ==
    \E h \in Host : host[h] # IdleHost /\ host[h].of = b /\ host'[h] = IdleHost
                    /\ host[h].op \in {"mira", "outside", "later", "cancel"}

\* "A price the host entered or confirmed is the host's own fact and is kept"
\* (decide_attribution): only the host's next answer about the price, or the
\* end of the booking, takes it away, whatever syncs and decisions do meanwhile.
HostFactKept ==
    [][\A b \in Booking :
          (Exists(b) /\ row[b].by = "host" /\ row'[b].id = row[b].id /\ ~Answers(b))
          => /\ row'[b].price = row[b].price
             /\ row'[b].by = "host"]_vars

\* The booking's own guest agreed to this price for the booking's own dates.
Settled(r, b) ==
    /\ r.lead \in Lead
    /\ LET f == facts[b][r.lead]
       IN  /\ f.within /\ f.phone = "same" /\ r.identity # "none"
           /\ \E i \in Quoted(f, "exact") :
                 /\ f.talk[i].type = "accepted_offer" /\ f.talk[i].price = r.price
                 /\ \A j \in Quoted(f, "exact") : f.talk[j].type \in Negotiation => j <= i

\* Mira records a price of her own only when the booking's guest, known by the
\* phone number, accepted it last for these dates (detect_prices); whatever
\* syncs and requests mix into a row, none of them makes a price Mira's.
MiraOnlyWhenSure ==
    [][\A b \in Booking :
          (/\ row'[b].id # 0 /\ row'[b].by = "mira"
           /\ ~(row[b].id = row'[b].id /\ row[b].by = "mira"))
          => Settled(row'[b], b)]_vars

\* When the feed and the host come to rest, the calendar agrees with the feed
\* for good: a missing event's booking is gone, every event has its booking at
\* its dates (sync_property_ical).
Agrees ==
    \A b \in Synced :
        /\ Parsed(feed[b]) # NoEvent <=> Exists(b)
        /\ Parsed(feed[b]) # NoEvent => row[b].dates = feed[b].dates
Converges == <>[]Agrees
=============================================================================
