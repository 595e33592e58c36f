# Verification of Mira

Mira (`mira-prod`) answers the telephone for hosts of short-term rentals: a FastAPI application
bridges Exotel or Twilio audio into a pipecat pipeline (Sarvam speech, a Groq, Anthropic or
OpenRouter LLM), keeps its data in Postgres and its call leases in Redis, and serves a Next.js
dashboard. This directory holds TLA+ models of the parts of the backend where several
processes, callbacks, timers and failures meet, the TLC runs that check them, and TLAPS proofs of
the properties that matter most.

Check one run with `tlc -config CallLifecycle.cfg MCCallLifecycle`, one proof module with
`tlapm CallLifecycle_proofs.tla`. `PROJECT.json` lists the components, runs, mutants, hazards and
theorems, and maps every definition to the source lines it models.

Paths below are relative to `src/backend/app/`.

## The commit that is modelled

About a hundred files of this commit hold unresolved merge markers
(`<<<<<<< HEAD` ... `>>>>>>> 368377a (20th October)`). Neither side runs as it stands. The models
follow the newer side, `368377a`, everywhere.
Line numbers are those of the files as they are, markers included.

What the code assumes and the models with it: one uvicorn worker (`call_coordinator.py`,
`handoff_signal.py` keep process-local state), a Redis client with a 3 s socket timeout and no
retries (redis-py 5), `expire_on_commit=False`, and SQLAlchemy's unit of work: a session
remembers what it loaded and its UPDATE writes the columns that differ, by primary key
(the operator `Flush` of `BusyRecovery`, `CallLifecycle` and `BookingLedger`).

## The system

| Component | State | Operations | Interacts with |
|---|---|---|---|
| Call lease (`services/call_coordinator.py`, `integrations/redis_lease_client.py`) | one Redis key per (host, property) with a fencing token and a TTL | acquire, renew, release (Lua scripts) | the pipeline acquires before the call, renews from a task and releases in `finally` |
| Busy recovery (`services/recovery_service.py`, `services/lead_service.py`) | columns of `leads`: status, availability state, follow-up type, two timestamps | arm on a rejected call, claim, send, save; clear on an answered call or a reply | started by a release that frees the line; sends through Twilio WhatsApp |
| Call lifecycle (`voice/pipeline.py`, `services/call_service.py`, `voice/handoff_signal.py`, `api/v1/take_call.py`, `api/v1/webhooks/exotel.py`, the sweep in `main.py`) | the `call_sessions` row, the pipeline's progress, the handoff event of the call, the telephone leg | create, claim a handoff, signal it, finalize, label, record a crash, status callbacks, connect-routing, sweep | five writers of one row, no common lock |
| Silence watchdog (`voice/silence_watchdog.py`) | timer task, strikes, pending end, closing state of the conversation | frames, timeouts, closing requests | the tools and guards request an end, the prompt layer reads the closing state |
| Calendar sync (`services/calendar_service.py`, `integrations/ical_client.py`) | `bookings` rows of a property, by calendar UID | fetch, insert, update, delete, reconcile the new ones in savepoints | a periodic job over all properties, a button of the dashboard |
| Booking reconciliation (`services/booking_reconciliation_service.py`, `api/v1/bookings.py`) | attribution, price and review columns of `bookings`, the `booking_id` of `price_events` | attribute a new booking to a lead, detect its prices; confirm a price, decide an attribution, change the kind, cancel, create | reads leads and their calls' prices; writes rows that the syncs write too |
| Negotiation (`voice/tools.py`, `services/tool_handlers.py`, `services/pricing_engine.py`, `services/negotiation_policy.py`, `voice/conversation_state.py`) | slots of the stay, history of offers, decision, quoted price and the prompt's hint; the host's rules | `get_pricing`, `negotiate_rate`, the tools that move the stay; the host's edits of rules | tools of one turn run together; the prompt shows the hint to the LLM |
| Health monitor (`observability/health.py`, `observability/probes.py`, `services/health_monitor_service.py`) | evidence, probes and state of each service in memory; `service_incidents` rows; alerts sent while the database is out | record a request or a probe, evaluate, open, follow and close an incident, mail | a tick per ten seconds; every call to an outside service reports to it |
| Call ownership (`services/call_ownership.py`) | none | host or Mira by the clock | decides the first route of a call |
| Other tools (`services/tool_handlers.py`) | none between calls | the LLM's tools | handoff, end_call reach the modelled parts |
| Slow tool filler, text and end-call guards (`voice/*_guard.py`, `voice/slow_tool_filler.py`) | timers and buffered text of a turn | frames of the pipeline | end-call guards request or withdraw an end |
| Other conversation state and the prompt (`voice/conversation_state.py`, `voice/state_prompt_sync.py`) | slots of the talk | updates by tools and guards | `closing_state` belongs to the watchdog's model |
| Lead temperature, market rates | none | pure functions of a lead or a date | tools, dashboard |
| Notifications, e-mail, summaries, classification, memory | rows written once | jobs after a call | a label is a step of the lifecycle |
| Dashboard API, onboarding, import, frontend | CRUD | requests | edit leads, bookings and properties |

`PROJECT.json` lists all 30 components with what is modelled of each.

### How they interact

A call arrives at the websocket. `run_voice_pipeline` asks the coordinator for the line: it is
granted and the pipeline is set up, or the caller is rejected, the row says failed and
MISSED_AGENT_BUSY, and the lead is armed. A call in progress can be claimed by the host's Take
Call link or by the guest's own request; the claim is one conditional UPDATE, and an in-process
event then makes the pipeline end with a handoff, after which Exotel's flow asks connect-routing
where to send the guest. When a call ends, its row is finalized and labelled, the lease is released,
and the release that really freed the line starts a recovery run over the armed leads. Status
callbacks from Exotel and a ten-minute sweep write the same row.

During the talk the LLM calls tools, several in one turn: they take what they need from the conversation
state, wait for the database, and write the price and the decision back. After the talk the lead's
conversation and its quoted prices stay in the database; when the platform's calendar later shows a
booking, the sync looks for the conversation it came from and the host confirms or rejects the match. Beside
all this every request to an outside service leaves its outcome in the health registry, and a tick per ten seconds
turns the evidence into incidents and mails.

### What is hard

* Everything runs on one event loop, so steps interleave at every `await`: the watchdog cancels a
  timer and waits for it, a session loads a row and waits for the network, a claim goes out while the
  row is being finalized.
* ORM sessions overwrite column by column what others committed since they loaded.
* A Redis request whose client gave up may still be executed; a lease may expire under a live call;
  the worker may die and leave leases, claims and rows behind.
* Callbacks come late, twice or out of order; a WhatsApp send may be accepted, refused or raise
  with the message already out.
* Two syncs and a dashboard request hold their own snapshot of one row, and of a feed that has changed since.
* A tool's answer arrives after the stay it was asked for has been replaced; the host edits the rules
  in the middle of a negotiation.
* The monitor must work while the database it records incidents in is itself the service that is down, and
  after a restart that lost its memory.
* Cleanup runs in `finally` blocks and crash handlers, and repeats decisions taken earlier.

### What makes each component correct

* Lease: a call that keeps its lease is alone on its line; nothing late or stale takes a lease from its
  owner; a failure lets a second call in, but only one for each failure; a dead call's lease goes away.
* Recovery: a guest hears "Mira is available" once per rejection and not after being answered, soon
  enough, and whatever one run does, a later rejection is still followed up.
* Lifecycle: one winner of a handoff; a guest being handed over is neither hung up on nor relabelled, nor refused
  where the host can be looked up and dialled; every call without a handoff ends in a terminal status.
* Watchdog: one end; strikes for silence only; the prompt and the hang-up agree; a silent guest does not
  hold the line.
* Bookings: a price is there with its status, source and author or not at all; a rejected match leaves nothing that
  the conversation said or Mira confirmed; the host's own price survives every sync; Mira prices only what the
  booking's guest accepted; the calendar ends up with the feed.
* Negotiation: the price the prompt shows is the one last quoted; discounts exclude each other; a
  concession is not taken back while both answers read the same terms.
* Health: one mail of each kind per outage, and none left out unless the turn for the worse was itself missed; the
  table agrees with the live state; no flapping.

## Modules

| Module | What it is |
|---|---|
| `RedisLease` | the key and the three scripts, as operators |
| `CallLease` | the line: calls, renewal tasks, strays, faults, crashes, time |
| `LineOwnership` | what the lease promises, abstractly; `CallLease` implements it (`Refines`) |
| `BusyRecovery` | leads, sessions, runs |
| `CallLifecycle` | one call, its row and the writers of the row |
| `SilenceWatchdog` | one call's watchdog, timers and closing requests |
| `Attribution` | which conversation a booking came from and what it says of the price: pure |
| `BookingLedger` | the bookings table, the feed, the syncs and the dashboard's requests |
| `DiscountRules` | the host's rules, stages, ceilings and the engine's price and decision: pure |
| `Negotiation` | one call's slots, its price tools in flight, the host's edits of the rules |
| `ServiceHealth` | one service's evidence and its verdicts: pure |
| `HealthMonitor` | the tick: incident rows, memory, mails, failures and restarts |
| `Extremes` | lemmas about greatest and least elements, which the proofs of bookings and negotiation share |
| `MC*` | symmetry sets and model values for TLC |
| `*_proofs` | the theorems of each component |

Each model is one line, one group of leads, one call, one host's calendar or one service. Lines share no key, runs
look at the leads of one property, and the handoff and the watchdog live in one call.

### `CallLease`: correspondence

`lease` is the Redis value with its remaining life in ticks; `stage` is how far `run_voice_pipeline`
got; `held` is whether it has a token; `loop` and `nap` are the renewal task and its sleep; `stray` is
the set of requests that Redis has not seen although the client has given up; `age` and `faults`
are history variables. A tick of 5 s makes the real constants TTL 9 and renewal 4. `Unavailable` is
`RedisLeaseUnavailable`: acquire fails open, renew stops the loop, release gives up. `Tick` waits for
renewals that are due when `Punctual` holds, and for nothing when it does not.

### `BusyRecovery`: correspondence

`db` holds the five columns that recovery reads or writes. A session (`sess`) is one rejected call, answered
call or reply between loading the row and committing; `HostMoves` is the dashboard's edit. A run goes through
`Release`, `Select` (the candidate query), `ClaimWins`/`ClaimLoses` (the conditional UPDATE of `_claim_lead`),
`Reads`, one of the sends, `Saves` (the unconditional write) and `Finish`; `Aborts` stops it anywhere. Of
timestamps only the age is kept, up to `Horizon`. `armed`, `sent`, `reclaimed` and `cleared` are history.

### `CallLifecycle`: correspondence

`row` has the three columns the writers contend for: `status`, whether `handoff_status` is set, and `call_type`
(all labels that a classified call may get are `CLASSIFIED`). `loaded` keeps what each ORM writer loaded.
`pipe` names the awaits of the pipeline's life between which others run: for a busy call `rejecting` and
`labelling busy`; else `setup`, `running`, `finished` (the handler runs), `finalizing`, `labelling`, `closing`,
`unwinding`; `crashing` and `labelling crash` are the crash handler. `event` is the entry in
`_handoff_events`; `outcome` is `is_host_handoff`; `frames` is the queue of EndFrames, whose first decides.
`line` is the guest's leg: with Mira, back in Exotel's flow, with the host, or over. `hooks` are callbacks on
their way, handled in any order. `ConnectRouting(db, dials, hours)` is the whole of connect-routing: `db` is that no
lookup raises (the `except` answers empty), `row.host` that the row has a `user_id`, and `row.number` or `dials` that there
is a number to dial, the one a claim has left or a usable one of the host's; each refusal ends the guest's leg.

### `SilenceWatchdog`: correspondence

`timer` is the state of each task ever created, `ref` is `_timer_task`, `wait` is who awaits which
cancellation, and `then` what the frame handler does afterwards. `prompts`, `ended`, `armed`
(`_end_requested`), `repeated` and `history` are the processor's fields. `guest`, `bot` and `lines` are the
speech around it. `closing` is the conversation state, which five places keep in step with `armed`.

### `Attribution` and `BookingLedger`: correspondence

A slot of `Booking` is a calendar UID or a booking made by hand; `born` counts the rows it has had, so that a row
deleted and inserted again is another row (`id`). `row` has the columns the writers contend for; dates and amounts are
small numbers, 0 is no price. `facts` is how a lead looks from a booking: who called, for which dates, how warm, which
offers. `link` says which booking the offers of a lead's talk name; `finals` is the set of final price events, each
with its source, its lead and property, and the booking it names. Every way to set a final price adds one
(`ConfirmPrice`, `Reconciled`, `CreateBooking`), an attribution moves those of the lead and property to its booking
whoever's they are (`LinkedFinals`, as `_link_events` does), and a No withdraws Mira's (`UnlinkedFinals`, by source).
The scores and the price detection read them back (`View`). The code filters lists of offers; the model keeps the
places of the offers in the talk (`Quoted`, `Among`), and the first or last of a filtered list is the least or
greatest place. `Score`, `IsProbable`, `Best` and `Verdicts` compute from it what `find_attribution_candidate` does,
as the set of verdicts where the code leaves a tie to the order of rows. A sync goes `fetched` (`Fetches`), `loaded`
(`LoadsBookings`), `CommitsSync` or `SyncAborts`, and a job goes on with `NextProperty` or ends as `EndsJob`; a
failing savepoint is the choice between `Reconciled` and `Plain`. A dashboard request is `Opens` and one of
`ConfirmPrice`, `ConfirmLater`, `DecideYes`, `DecideNo`, `UpdateKind`, `CancelBooking`, or `Refused`.

### `DiscountRules` and `Negotiation`: correspondence

`slots` is the stay the call talks about, `log` the list of offers, `decision` what the prompt's hint is made from,
`quoted` the quote, `status` the states of the rules that the host's text yields (`InForce` are those approved) and
`allowed` the host's consent, `pitched` the offers on cards, `tool` the price tools that wait. The code hands a tool
the very list object of offers, which `reset_negotiation_context` replaces: `Detach` keeps the old list with the tools
that hold it, so that what a late answer appends goes where the code appends it. `BeginPricing` and `BeginNegotiate`
are the wrappers up to their first wait, `FinishPricing` and `FinishNegotiate` the engine's answer with the callbacks;
`Interrupt` is the cancelled function call. Each of the engine's lookups may fail by itself, and its `except` answers
with a default: no rules (`Lookups`), negotiation allowed up to 15 % (`Policies`), the agent's own word for whether
the guest returns (`Repeat`). `Readings` are the ways one call may read them. `basis` is history: what the last
decision read and the events it was computed from. Amounts are whole numbers and a discount rounds down to one
(`Discounted`): the engine's comparisons and their order are kept, the paise are not.

### `ServiceHealth` and `HealthMonitor`: correspondence

The registry's deque of timed events is a function from age to outcomes counted up to a bound; one tick is one
evaluation, and `Shifted` lets that time pass. `Record`, `RecordProbe` and `RecordNotConfigured` are the three entry
points, `EvaluateFrom` is `evaluate` with its streak. `HealthMonitor` keeps the table (`rows`), the process's
`_open` (`tracked`), `_memory_alerts`, `_loaded` and the throttle (`hold`), and counts the mails of an
outage (`mailed`). `Tick(db, mail)` is the whole of `tick()`, with the mail accepted or not. The database answers
(`ok`), loses the commit after the mails went out (`lost`), refuses the work after a load that succeeded (`refused`),
fails in `_refresh_cache` after the incident was read (`seeded`), or cannot be reached for the load (`unreachable`).
A quiet moment (`Quiet`) is one that closes the service's incident with no open row and nothing in memory left; `mailed`
counts from there, and `clean` is history too: the database has answered since then. `AlarmOnce` and
`HistoryMatches` speak of clean outages, `DownAnnounced` of all, with the one exception that `Missed` states.

## Runs

| Run | Instance | Shows | Distinct states |
|---|---|---|---|
| `line_punctual` | 3 calls, TTL 9, renewal 4, set-up at most 2, lateness at most 1, 2 faults of any operation, symmetry | `DamageBounded`, `RejectionJustified`, `TypeOK` | 40,032 |
| `line_late` | 3 calls, TTL 3, renewal 1, no timing assumption, 2 faults | `ProtectedExclusive`, `OnlyOwnerOrTimeEvicts`, `AvailabilityTruthful`, `Refines`, `GhostsVanish` | 196,083 |
| `recovery_calm` | 1 lead, 3 runs, 1 session, 2 rejections, all answers of Twilio within the threshold, symmetry | `MessagesAccounted`, `NeverDoubleClaimed`, `AnsweredStaysQuiet` | 1,297,506 |
| `recovery_batch` | 2 leads (one without a telephone), 1 run, 1 session, all answers of Twilio | `MessagesTimely`, `RunsEnd`, `TypeOK` | 833,764 |
| `lifecycle` | 2 taps, 1 guest request, 2 callbacks, 1 EndFrame of the call's own | `OneWinner`, `HandoffNotHungUp`, `HandoffRouted`, `TransferLabelHolds`, `UnclaimedReachesTerminal`, `TypeOK` | 319,547 |
| `watchdog` | 3 timers, 1 closing request, timeout 2, 2 prompts | `EndsOnce`, `StrikesEarned`, `ClosingAgrees`, `SilenceEndsCall`, `TypeOK` | 238,825 |
| `bookings` | 1 property, 1 synced UID and 1 booking by hand, 1 lead in two guises, job and button, 1 request at a time, bookings by hand for one stay | `PriceWhole`, `RejectionWithdraws`, `HostFactKept`, `MiraOnlyWhenSure`, `Converges`, `TypeOK` | 761,953 |
| `negotiation` | 2 properties, a dated stay and a length, 2 tools, 2 offers, a staged, a flat and a stay-length rule, a host's cap of 8 under the defaults of 10 and 15, any lookup failing | `QuoteMatchesDecision`, `NeverStacked`, `NeverTakenBack`, `TypeOK` | 565,943 |
| `health` | window 1, 2 failed requests, probes of every kind, a throttle of 2 ticks, 2 rows, 1 restart or lost commit, every refusal of the database | `AlarmOnce`, `HistoryMatches`, `DownAnnounced`, `ImprovesSlowly`, `TypeOK` | 617,331 |

Three more runs, `recovery_rearm`, `negotiation_carried` and `health_outage`, end in a counterexample; see "Findings".

### Bounds, and why they are enough

* Lease: a third call is needed for a stray of the first to meet a lease of the second while a third asks.
  Two faults allow a lost acquire followed by a lost release or renewal. `line_punctual` has the code's
  timing in ticks of 5 s. `line_late` shortens the TTL, since without a timing assumption only the order of
  expiry and operations matters. Bounds: `MaxFaults`, and ages that stop at `TTL`.
* Recovery: two runs are what a double claim needs, a third claims the row that a refused run hands back under a
  newer one; two rejections are what a lost re-arming needs. `recovery_calm` has
  `Stale = SendMax = 1`: no claim is taken over while its run is still sending. `recovery_batch` has a single run, so
  nobody takes a claim over; it is about time: two leads, one of them skipped, make the
  last of a batch wait for the first. Bounds: `MaxArms`, `Horizon` (greater than every threshold that is compared).
* Lifecycle: with two taps and a request every pair of racing claimants occurs; two callbacks may be reordered; one
  own EndFrame and one of the handoff may race. Bounds: `MaxHooks`, `MaxEnds`.
* Watchdog: three timers allow a cancelled, an orphaned and a current one; one closing request may interrupt
  any await. Two prompts are the code's default. Bounds: `MaxRequests`, `MaxLines`, `QuietMax`.
* Bookings: two syncs are what a stale feed needs, one UID what they collide on; one lead that is probable by its
  negotiation and one that is exact by its number reach every verdict. Two changes of the feed let an event leave
  and return, two requests let a No follow a price. One dashboard request is open at a time: see "Findings"
  for two. Bounds: `MaxChanges`, `MaxRequests`.
* Negotiation: two tools of one turn are what the pipeline runs together; a second property and a second stay make
  two of the reasons for a new context occur, another property and other dates (with one number of guests and one length
  the other two do not; the theorems cover them); three events go past the last stage of a ladder of two. The host's cap
  lies below the default discount and below the cap that a failed lookup assumes, and the special rule above it.
  Bounds: `MaxTalk`, `MaxEdits`.
* Health: two counted errors reach every threshold of the passive verdict at window 1, one restart or lost commit
  falls between or into any ticks, refusals of the database are unbounded, a throttle of two ticks makes a tick pass
  without a delivery, two rows allow an incident to be reopened. Bounds: `MaxEvents`, `MaxErrors`, `MaxOpen`,
  `MaxFaults` (restarts and lost commits together).

Deadlock is checked for the line only. A call, a batch of leads with a bounded number of rejections and a
conversation come to their end, and the feed, the host and the outages of the other models are bounded, so the
other configurations say `CHECK_DEADLOCK FALSE`.

### Fairness, and why the code justifies it

* `CallLease`: time passes, and the event loop wakes set-up, renewals and the `finally` block. Nothing is assumed
  about Redis, strays or crashes. `GhostsVanish` then rests on the TTL.
* `BusyRecovery`: weak fairness of each run's own steps. Sends and queries have timeouts. Sessions, the host and the
  clock owe nothing.
* `CallLifecycle`: the pipeline's own code runs on; the maximum duration queues an EndFrame sooner or later
  (`EndQueued`); a callback being handled is handled; time passes; the sweep runs every ten minutes. Strong fairness
  of `SweepCommits`: its sessions may fail, but not every one of them for ever. A guest no pipeline answers hangs
  up at last.
* `SilenceWatchdog`: time, timers and waiting tasks run. Mira's lines start and end with strong
  fairness, since a guest who keeps interrupting disables them again and again.
* `BookingLedger`: a sync that runs goes on, the scheduler starts the job again, and the feed can be fetched
  sooner or later (strong fairness of `Fetches`, since a fetch may time out between two that do not). A request of
  the dashboard ends. The button, the host and the platform owe nothing.
* `Negotiation` and `HealthMonitor` state no fairness: their properties say what a step may not do. `DownAnnounced`
  is what the code gives in place of a liveness property: any tick with a working database and working deliveries
  suffices for an outage whose beginning was not missed.

## Findings

Each is a sentence of the repository that a run refutes.

* `recovery_rearm`: `recovery_service.py:256-257` says a stale "already notified" must not suppress a real
  follow-up. A rejection that commits between the acceptance of a message and its bookkeeping is overwritten by
  `notified`.
* `negotiation_carried`: `conversation_state.py:306` says the list of offers is cleared whenever the guest changes
  property, dates or guest count. `negotiate_rate` sees a change by comparing its arguments with the slots, which
  `check_calendar` and `get_pricing` have moved to the new dates before; the old offers count for the new stay.
* `health_outage`: `health_monitor_service.py:305-308` opens a missed incident "carrying over any alert already sent
  from memory so it isn't re-sent". The alert is taken out of the memory before the flush; a database that
  refuses once more loses it, and the mail goes out again.

Eight more configurations are kept beside the runs and end in a counterexample as well:

* `CallLease_missed_renewal.cfg` (`MissedRenewalTolerated`): `call_coordinator.py:61-62` promises a wide margin against a
  single missed renewal. The renewal loop returns for good on the first failed renewal, so 45 s after the last good
  one the line is open.
* `CallLifecycle_late_hook.cfg` (`FailureMeansUnfinished`): `pipeline.py:779-781` says MISSED_SYSTEM_FAILURE only means
  that the call never properly finished. A late in-progress callback reopens a completed row, and the crash handler or
  the sweep labels it so.
* `CallLifecycle_early_claim.cfg` (`ListeningWhenClaimed`): `handoff_signal.py:31-35` says a call is registered before it
  could possibly be claimed. The link goes out before the pipeline is built and registered.
* `CallLifecycle_unknown_host.cfg` (`HostKnown`): `exotel.py:389-391` says `user_id` is always set whenever a host is
  known. A row that a status callback creates takes its host from the property whose number was dialed
  (`call_service.py:198-208`), nobody for a Lead Agent's number, and the pipeline keeps a row it finds as it is
  (`:93-106`); connect-routing then refuses a guest whose handoff was claimed. `HandoffRouted` has it as a condition.
* `Negotiation_rules_lookup.cfg` (`ConcessionKept`) and `Negotiation_cap_lookup.cfg` (`WithinPolicy`): the repository
  promises neither, and both show why `NeverTakenBack` and `NeverStacked` speak of what was read. A lookup of the rules that
  fails (`pricing_engine.py:70-90`) leaves the default of 10 %, and a price conceded under a better rule is taken
  back. A lookup of the policy that fails (`:663-667`) allows 15 %, and the quote goes below a host's lower cap.
* `SilenceWatchdog_on_top.cfg` (`NeverHungUpOnTop`): `silence_watchdog.py:73-74` says a guest who speaks up during the
  closing line is never hung up on top of. The guest's speech stops Mira's audio before any transcript exists, and the
  end of the audio ends the call.
* `HealthMonitor_red.cfg` (`RedUntilSuccess`): `docs/observability.md:33` says an outage stays red until a call
  succeeds. A first failed probe, or an error too isolated for the window, counts as `up` in
  `observability/health.py:308` and `:320`, so failures alone can turn it green.

Seen while modelling and left without a configuration, because they have the cause of one above or because no
sentence in the repository promises otherwise:

* `recovery_service.py:507-508` against `:515`: a lead closed after it was listed is still claimed.
* `recovery_service.py:582-587` against `lead_service.py:145-146`: a refused send puts a guest who was answered
  meanwhile back into the queue. `AnsweredStaysQuiet` is stated with this exception.
* `call_service.py:139-141` against `:211-212`: a completed callback makes a rejected call look completed.
* `main.py:159-160` against `call_service.py:363`: a claimed call whose worker dies before the handoff is routed
  is not swept, although the sweep is there for calls that are stuck.
* `silence_watchdog.py:325` against `:341-342`: after an interruption the end of Mira's audio restarts the timer
  while the guest is still talking.
* `silence_watchdog.py:504`: the reference is cleared after the await, so a timer started meanwhile is orphaned.
  `StrikesEarned` bounds what that can cost.
* `booking_reconciliation_service.py:483-485`: two requests of the dashboard that load one booking before either
  commits write their columns one after the other; a price and its status may then come from different answers. With
  two slots in `Host`, `PriceWhole` and `HostFactKept` fail. `MiraOnlyWhenSure` does not: it is proved for any number
  of requests.
* `booking_reconciliation_service.py:331-338`: `_link_events` takes every price event of the lead on the property, so
  the final price event a host entered for one booking of a guest moves to the guest's next booking there.
* `booking_reconciliation_service.py:306-309`: once the host has priced a booking, a later Yes finds that final price
  event for the exact dates, takes it for the relevant offers, and clears the initial and negotiated prices detected
  from a quote for nights only.
* `booking_reconciliation_service.py:545`: a stay whose price nobody answered leaves the queue 90 days after its check-out.
  No property speaks of the queue.
* `calendar_service.py:280-282`: after a failed flush the job reads `property_.id` of an expired object in its
  `except` and ends; the properties after it keep their old calendar until the next run. `Converges` is what remains.
* `calendar_service.py:242-247`: a booking that leaves the feed and returns is a new row without the host's answers.
* `voice/tools.py:1433-1434`: `update_lead` and `check_calendar` move the dates and leave the last decision, so the
  prompt keeps the price of the old stay, and `state_prompt_sync.py:283` goes on saying that the guest's pushback "just
  earned" it, until the next price tool.
* `schemas/negotiation_rule.py` admits a ladder whose later stage gives less than an earlier one; then one more offer takes
  a concession back, as the host wrote it. `NeverTakenBack` is stated for ladders that climb.
* `observability/health.py:305-306`: the verdict `down` needs four requests, `degraded` does not. A service with two
  failures in three is degraded; a success makes it two in four, which is down. `WindowEdges` proves that this is the
  only place where a success counts against a service.
* `health_monitor_service.py:401-404`: mails go out before the commit that records them; if it is lost they go again.
* `health_monitor_service.py:219-223` and `:408`: `evaluate()` has moved on when the database refuses; a change
  between `degraded` and `down` in that tick is not written to a row that is open, the mail about it is
  not sent later either (`Missed`), and a recovery evaluated in such a tick leaves the incident open.
* `health_monitor_service.py:48-56`: an alert mailed from memory is lost with the process, and one throttle serves all
  services (`:442`).

## Proofs

Eight modules hold about 12,000 obligations, all proved by Z3, Zenon and LS4. The theorems hold for every value of the
constants that meets the named assumptions: `LeaseAssumption`, `TimingAssumption` (whose content is `SetupMax +
RenewInterval + Lateness < TTL`), `CallFinite`, `RecoveryAssumption`, `LifecycleAssumption`, `WatchdogAssumption`,
`LedgerAssumption`, `TalkAssumption` (finite sets of rules; percents, prices and nights are numbers) and, for health,
`WindowAssumption`, `StaleAssumption`, `BoundsAssumption`, `WaitsAssumption`, `HeardAssumption`, `LimitsAssumption`
and `NoneAssumption`.

**Lease.** `TypeCorrect`, `Exclusion`, `Damage`, `Refinement`, `Evictions`, `Announcements`, `Rejections`. The
invariant joins `TypeOK`, `KeyInv` (a protected call owns the key, and the key's remaining life and the call's age add
up to at least the TTL, which is why the key cannot expire first), `IdleInv` (a call that has not asked holds nothing)
and `StrayInv` (a release still on the wire belongs to a call that is gone). For `Damage`, `PunctualInv` bounds the
naps and ages of a punctual process, so that a call whose renewals never failed is protected, and `DamageInv` counts
the calls that lost their lease against the faults: each fault degrades one call at most. The refinement maps the
owner to the stored token and the calls that may still be granted the line to those that have not asked or whose
acquire is still on the wire; `AskInv` says that the latter never ask again. `Evictions` and `Announcements` need only
that a stored token has time to live (`AliveInv`). `Rejections` needs `FaultlessInv`: without faults the stored token
belongs to a call that is there or whose process is lost, and every acquire still on the wire is of a lost process.

**Recovery.** `TypeCorrect`, `Accounting`, `LeftAlone`, `InTime`, `SingleClaim`. `MessagesAccounted` is not inductive:
a claim in progress may still send. The invariant counts, for each lead, rights to send: the messages sent, the runs
that hold a claim and have not sent, and one more if the row is pending, never exceed the committed rejections plus
the takeovers. The other three rest on what a step may do to a row or a run (`Shapes`: a session keeps the timestamps
or clears them, a run touches the one row it claimed). `InTime`: a run is never further in time than the leads behind
it and the current one allow (`TimelyInv`). `SingleClaim`, where no send outlasts the threshold (`SendMax <= Stale`):
the claim of a row is no older than any run that works on it (`Fresh`), so one that has expired is of no run at work,
and runs at work and a pending row together never exceed the rejections (`Owed`). `LeftAlone`: a row whose guest was
answered is not armed, and only a refused run arms it again (`QuietInv`).

**Lifecycle.** `TypeCorrect`, `OneWinnerHolds`, `NotHungUp`, `Routed`, `LabelHolds`. The parts of the invariant follow
a handoff through the code: whoever won the claim, the event that was set, the EndFrame that was queued and the
decision that was taken all imply that the row is requested (`RequestOK`); while the guest is there, a requested call
in set-up, running or decided for a handoff stays in progress (`RoutableOK`), because a terminal callback means that
the guest has gone (`HooksOK`), the crash handler has seen the request (`CrashOK`) and the sweep has loaded only calls
that were not handed over (`SweepOK`). So `Routed` leaves connect-routing no reason to refuse but the three that
`HandoffRouted` names: a lookup that raises, a row without its host, no number to dial. No hang-up is asked for before
the decision (`HangOK`).

**Watchdog.** `TypeCorrect`, `SingleEnd`, `ClosingStateAgrees`, `Strikes`. `EndsOnce` needs that a call that goes on has
pushed no end and has prompts left (`FlagsOK`); `ClosingAgrees` is inductive next to the types. `Strikes` counts
twice. `SlotsOK`: the timers that run and the requests that wait are together at most the requests made and one, and one
fewer while the frame handler may still start a timer. `DueOK`: the strikes given and the timers that have slept
longer than the current window of quiet (`Due`) never exceed what the finished windows pay for; the end of a
window makes every running timer due, and pays for as many (`TickDue`).

**Bookings.** `Prices`, `Withdrawals`, `FactsKept`, under `[]Apart` (no two requests are open on one booking;
otherwise the statements are false, see "Findings"; a host with one tab of the dashboard meets it, and so do any
number of requests on different bookings). The invariant says of every row that it is whole and backed (`Good`), of an
open request that its booking, if it is still there, is the one it loaded in every column but the dates and the
telephone digits (`HostOK`: a sync writes no other, `Refreshes`, and a slot's next row has a new id), and of the links
and of Mira's final price events that none names a rejected booking (`LinkOK`). The host's own events may: the No
leaves them where they are (`FinalsMove`, `FinalsBeside`). `Moves` covers the transactions that insert, refresh and
delete rows together; `Reconciles` covers whatever verdict the attribution reaches.

`TypeCorrect` and `MirasPrices` need no such assumption. That Mira's own price is one the guest accepted is not lost
by mixing columns, because the one value `mira` of the author's column is written in one place only: a new row
reconciled in the flush that inserts it. Every other writer takes the author over from the row or from what it loaded,
and `Flush` leaves a column alone that its session did not change (`FlushSure`). What that one place writes is
`SurePrice`. With it, `Attributed` and `VerdictReached` say what the attribution means, for any facts: whom it may
name, that no guest who qualifies has stronger signals, that it always answers.

**Negotiation.** `TypeCorrect`, `HintIsQuote`, `OneDiscount`, `Concessions`. `OneDiscount` rests on `DecisionFair`, a
lemma about `DiscountRules` alone: whatever the rules, offers and ladders, the price that is answered is at least what
the most generous rule in force, or the cap that was read (the host's or the default's), leaves of the standard price,
also where the lookups returned only a part of the rules (`ReadingsKnown`). It goes through `Greatest` (the best of a
finite set of rules is one of them), `Stages`, `GrantedBounded` and `PriceFair`. The invariant adds that a tool in
flight holds a list of offers of one property (`ToolOK`, `LogOK`), which stays true when the state drops that list,
and that the slots are slots (`SlotsOK`); `HintIsQuote` then follows because a tool's answer writes decision and quote
together, and an answer that supersedes the decision takes it away. `Concessions` needs to know where a decision came
from: `BasisOK` says that its floor is what the terms read into `basis` grant at the stage that the offers of `basis`
have earned (`Earned`). A longer history earns no earlier stage, a ladder that climbs grants no less at a later one
(`LadderClimbs`), and so the floor of a later decision that read the same terms is no higher (`LaterIsLower`); that a
failed lookup counts as another reading is the condition `SameTerms`.

**Health.** `Invariance`, `TypeCorrect`, `MailedOnce`, `HistoryAgrees`, `Announced`, `SlowlyBetter`, `WindowEdges`.
The invariant has a part for every outage: the process follows no row that is not there (`FollowsOK`), and a row or a
memory that shows the alert as mailed is right, it went out since the last quiet moment (`ToldOK`). No step of a tick
breaks this, whatever the database does (`Honest`, from `SendTells` to `WorkTells`), and work that ends with the
service down has mailed or found it mailed (`WorkMails`): that is `Announced`. It says, for a clean outage, that the
row the process tracks is the only open one and in the live state, that its flags are the mails that went out, and
that the counts and the streak keep within their bounds after any restarts; the action properties follow from it and
from one tick. `WindowEdges` is about the registry alone: one more event in the window (`Recorded`, and `Room` for
what the bounds count) against the thresholds of `_passive_state`.

Every safety property that a passing run checks is a theorem. Only model-checked are the liveness properties
(`GhostsVanish`, `RunsEnd`, `UnclaimedReachesTerminal`, `SilenceEndsCall`, `Converges`): they rest on fairness and ENABLED
and are out of the prover's reach.

## Not modelled, and why

* What the LLM, the speech services and classification answer: text and probabilities. That a label is
  written, when and by whom, is modelled.
* The LLM failover and the STT reconnect loop: their states belong to libraries outside the repository.
* Request formats, TwiML and ExoML, websocket framing, the dashboard's CRUD, onboarding, import, search, e-mail:
  no state that several actors contend for.
* `call_coordinator.transfer` and `is_busy`: nothing calls them.
* The first route of a call (host or Mira), the token of the Take Call link, the WhatsApp text.
* `CallLease` and `BusyRecovery` are not composed: the release that frees the line is the last step of the one and
  the first of the other, and what a rejection that commits late loses is left as a hazard.
* The tools that only read, retrieval and recommendation, lead temperature, the window of `call_ownership`: answers
  computed from their arguments and the database, with unit tests beside the code.
* The text guards and the slow tool filler: each handles one response or one tool call in frame order, and what it
  decides hangs on wording.
* Usage metering, the admin monitor, the health digest, availability figures: counters and reports.
