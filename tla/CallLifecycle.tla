---------------------------- MODULE CallLifecycle ----------------------------
(***************************************************************************)
(* One telephone call and its call_sessions row, from Exotel's first       *)
(* request to the last writer of the row: the voice pipeline with its      *)
(* on_pipeline_finished handler and crash handler (voice/pipeline.py), the *)
(* Take Call page and the guest's own transfer request, the in-process     *)
(* handoff signal, Exotel's status and connect-routing webhooks, and the   *)
(* stuck-session sweep.                                                    *)
(*                                                                         *)
(* The claim of a handoff is one conditional UPDATE.  Every other writer   *)
(* is an ORM session that loads the row, awaits and writes the columns it  *)
(* changed.                                                                *)
(***************************************************************************)
EXTENDS Naturals, Sequences, FiniteSets

CONSTANTS
    Claimant,   \* Take Call taps of the host and transfer requests of the guest
    Host,       \* the claimants that are taps on the WhatsApp link
    MaxHooks,   \* bound on status callbacks
    MaxEnds     \* bound on EndFrames queued by the call itself

ASSUME LifecycleAssumption ==
    /\ IsFiniteSet(Claimant)
    /\ Host \subseteq Claimant
    /\ MaxHooks \in Nat
    /\ MaxEnds \in Nat

VARIABLES
    row,      \* the committed call_sessions row
    loaded,   \* for each ORM writer, the row it loaded, or NoRow
    pipe,     \* where the pipeline of the call is
    frames,   \* EndFrames queued on the worker: "end" or "handoff"
    outcome,  \* handoff_outcome.is_host_handoff
    event,    \* the call's entry in handoff_signal._handoff_events
    line,     \* the guest's telephone leg
    hang,     \* the hang-up request to Exotel
    claim,    \* what each claimant has done
    hook,     \* the status callback being handled
    hooks,    \* status callbacks on their way
    emitted,  \* number of status callbacks Exotel sent
    aged,     \* is the row older than the sweep's threshold?
    finished  \* has the pipeline recorded the call as completed?

vars == <<row, loaded, pipe, frames, outcome, event, line, hang, claim,
          hook, hooks, emitted, aged, finished>>
call == <<pipe, frames, outcome, event>>
phone == <<line, hang>>
callbacks == <<hook, hooks, emitted>>

Status == {"in_progress", "completed", "failed"}
CallType == {"UNKNOWN", "CLASSIFIED", "TRANSFERRED_TO_HOST",
             "MISSED_SYSTEM_FAILURE", "MISSED_AGENT_BUSY"}
\* host: user_id is set; number: handoff_destination_phone is.
Row == [status: Status, requested: BOOLEAN, type: CallType, host: BOOLEAN, number: BOOLEAN]
NoRow == [status |-> "absent"]
NewRow(host) == [status |-> "in_progress", requested |-> FALSE, type |-> "UNKNOWN",
                 host |-> host, number |-> FALSE]

Writer == {"pipeline", "hook", "sweep"}
\* Where no code of the call's own runs.
Idle == {"none", "rejected", "over", "dead"}
Exotel == {"in-progress", "completed", "no-answer"}

TypeOK ==
    /\ row \in Row \cup {NoRow}
    /\ loaded \in [Writer -> Row \cup {NoRow}]
    /\ pipe \in Idle \cup {"rejecting", "labelling busy", "setup", "running",
                 "finished", "finalizing", "labelling", "closing", "crashing",
                 "labelling crash", "unwinding"}
    /\ pipe # "none" => row \in Row
    /\ frames \in Seq({"end", "handoff"})
    /\ outcome \in BOOLEAN
    /\ event \in {"none", "clear", "set", "taken"}
    /\ line \in {"mira", "flow", "host", "over"}
    /\ hang \in {"no", "asked", "done"}
    /\ claim \in [Claimant -> {"idle", "won", "told", "lost"}]
    /\ hook \in Exotel \cup {"none"}
    /\ hooks \subseteq Exotel
    /\ emitted \in 0..MaxHooks
    /\ aged \in BOOLEAN
    /\ finished \in BOOLEAN

Init ==
    /\ row = NoRow
    /\ loaded = [w \in Writer |-> NoRow]
    /\ pipe = "none"
    /\ frames = <<>>
    /\ outcome = FALSE
    /\ event = "none"
    /\ line = "mira"
    /\ hang = "no"
    /\ claim = [k \in Claimant |-> "idle"]
    /\ hook = "none"
    /\ hooks = {}
    /\ emitted = 0
    /\ aged = FALSE
    /\ finished = FALSE

\* The UPDATE of a session that loaded old and leaves new.
Flush(cur, old, new) ==
    [f \in DOMAIN cur |-> IF new[f] # old[f] THEN new[f] ELSE cur[f]]

Loads(w) == loaded' = [loaded EXCEPT ![w] = row]
Unloads(w) == loaded' = [loaded EXCEPT ![w] = NoRow]

\* get_or_create_call_session: a row a callback created is used as it is,
\* whether or not the callback knew the host.
OrCreated(r, host) == IF r = NoRow THEN NewRow(host) ELSE r

\* hangup_call skips a call it has hung up; requests in flight are one here.
AskHangup == hang' = IF hang = "no" THEN "asked" ELSE hang
----------------------------------------------------------------------------
(* The pipeline *)

PipelineStarts ==
    /\ pipe = "none" /\ line = "mira"
    /\ row' = OrCreated(row, TRUE)
    /\ pipe' = "setup"
    /\ UNCHANGED <<loaded, frames, outcome, event, phone, claim, callbacks, aged, finished>>

\* acquire_or_reject answered BUSY_RECOVERY: the call is hung up, which may
\* fail, its stream is closed and record_busy_rejected_call begins.
BusyRejects ==
    /\ pipe = "none" /\ line = "mira"
    /\ row' = OrCreated(row, TRUE)
    /\ loaded' = [loaded EXCEPT !["pipeline"] = OrCreated(row, TRUE)]
    /\ pipe' = "rejecting"
    /\ \/ line' = "over" /\ hang' = "done"
       \/ line' = "flow" /\ hang' = "no"
    /\ UNCHANGED <<frames, outcome, event, claim, callbacks, aged, finished>>

RejectCommits ==
    LET old == loaded["pipeline"]
    IN  /\ pipe = "rejecting"
        /\ row' = Flush(row, old, [old EXCEPT !.status = "failed"])
        /\ Unloads("pipeline")
        /\ pipe' = "labelling busy"
        /\ UNCHANGED <<frames, outcome, event, phone, claim, callbacks, aged, finished>>

RejectLabels ==
    /\ pipe = "labelling busy"
    /\ row' = [row EXCEPT !.type = "MISSED_AGENT_BUSY"]
    /\ pipe' = "rejected"
    /\ UNCHANGED <<loaded, frames, outcome, event, phone, claim, callbacks, aged, finished>>

\* record_busy_rejected_call swallows its exceptions.
RejectFails ==
    /\ pipe \in {"rejecting", "labelling busy"}
    /\ pipe' = "rejected"
    /\ Unloads("pipeline")
    /\ UNCHANGED <<row, frames, outcome, event, phone, claim, callbacks, aged, finished>>

\* An exception between get_or_create_call_session and _run_pipeline.
SetupFails ==
    /\ pipe = "setup"
    /\ pipe' = "dead"
    /\ UNCHANGED <<row, loaded, frames, outcome, event, phone, claim, callbacks, aged, finished>>

Registers ==
    /\ pipe = "setup"
    /\ pipe' = "running"
    /\ event' = "clear"
    /\ UNCHANGED <<row, loaded, frames, outcome, phone, claim, callbacks, aged, finished>>

\* end_call, the silence watchdog or the maximum duration queue an EndFrame.
EndQueued ==
    /\ pipe = "running"
    /\ Len(SelectSeq(frames, LAMBDA f : f = "end")) < MaxEnds
    /\ frames' = Append(frames, "end")
    /\ UNCHANGED <<row, loaded, pipe, outcome, event, phone, claim, callbacks, aged, finished>>

\* _wait_and_trigger_handoff
HandoffQueued ==
    /\ pipe = "running"
    /\ event = "set"
    /\ event' = "taken"
    /\ frames' = Append(frames, "handoff")
    /\ UNCHANGED <<row, loaded, pipe, outcome, phone, claim, callbacks, aged, finished>>

\* on_pipeline_finished up to its first await.
Finishes(handoff) ==
    /\ pipe = "running"
    /\ pipe' = "finished"
    /\ outcome' = handoff
    /\ IF handoff THEN hang' = hang ELSE AskHangup
    /\ frames' = <<>>
    /\ UNCHANGED <<row, loaded, event, line, claim, callbacks, aged, finished>>

EndFrameDrains == frames # <<>> /\ Finishes(Head(frames) = "handoff")

\* on_client_disconnected cancels the worker.
Cancelled == line = "over" /\ Finishes(FALSE)

FinalizeLoads ==
    /\ pipe = "finished"
    /\ Loads("pipeline")
    /\ pipe' = "finalizing"
    /\ UNCHANGED <<row, frames, outcome, event, phone, claim, callbacks, aged, finished>>

\* Mutant: a handoff is finalized like any other call.
FinalizeCompletes ==
    LET old == loaded["pipeline"]
    IN  /\ pipe = "finalizing"
        /\ row' = Flush(row, old, [old EXCEPT !.status = "completed"])
        /\ Unloads("pipeline")
        /\ pipe' = "labelling"
        /\ finished' = ~outcome
        /\ UNCHANGED <<frames, outcome, event, phone, claim, callbacks, aged>>

FinalizeCommits ==
    LET old == loaded["pipeline"]
        final == IF outcome THEN "in_progress" ELSE "completed"
    IN  /\ pipe = "finalizing"
        /\ row' = Flush(row, old, [old EXCEPT !.status = final])
        /\ Unloads("pipeline")
        /\ pipe' = "labelling"
        /\ finished' = ~outcome
        /\ UNCHANGED <<frames, outcome, event, phone, claim, callbacks, aged>>

Labels ==
    /\ pipe = "labelling"
    /\ row' = [row EXCEPT !.type = IF outcome THEN "TRANSFERRED_TO_HOST" ELSE "CLASSIFIED"]
    /\ pipe' = "closing"
    /\ UNCHANGED <<loaded, frames, outcome, event, phone, claim, callbacks, aged, finished>>

\* pipecat swallows an exception of the handler.
HandlerFails ==
    /\ pipe \in {"finished", "finalizing", "labelling"}
    /\ pipe' = "closing"
    /\ Unloads("pipeline")
    /\ UNCHANGED <<row, frames, outcome, event, phone, claim, callbacks, aged, finished>>

\* The finally block around runner.run().
Closes ==
    /\ pipe = "closing"
    /\ pipe' = "unwinding"
    /\ event' = "none"
    /\ UNCHANGED <<row, loaded, frames, outcome, phone, claim, callbacks, aged, finished>>

\* An exception reaches _run_pipeline: while the pipeline is built, during the
\* call or in its teardown.
Raises ==
    /\ pipe \in {"setup", "running", "closing"}
    /\ pipe' = "crashing"
    /\ event' = "none"
    /\ frames' = <<>>
    /\ Loads("pipeline")
    /\ UNCHANGED <<row, outcome, phone, claim, callbacks, aged, finished>>

\* Mutant: the crash handler looks at the status only.
CrashRecordedAlways(old) == old.status = "in_progress"

CrashRecorded(old) == old.status = "in_progress" /\ ~old.requested

CrashCommits ==
    LET old == loaded["pipeline"]
    IN  /\ pipe = "crashing"
        /\ IF CrashRecorded(old)
           THEN /\ row' = Flush(row, old, [old EXCEPT !.status = "failed"])
                /\ pipe' = "labelling crash"
           ELSE /\ row' = row
                /\ pipe' = "unwinding"
        /\ Unloads("pipeline")
        /\ UNCHANGED <<frames, outcome, event, phone, claim, callbacks, aged, finished>>

CrashLabels ==
    /\ pipe = "labelling crash"
    /\ row' = [row EXCEPT !.type = "MISSED_SYSTEM_FAILURE"]
    /\ pipe' = "unwinding"
    /\ UNCHANGED <<loaded, frames, outcome, event, phone, claim, callbacks, aged, finished>>

\* The crash handler's own exceptions are swallowed.
CrashUnrecorded ==
    /\ pipe \in {"crashing", "labelling crash"}
    /\ pipe' = "unwinding"
    /\ Unloads("pipeline")
    /\ UNCHANGED <<row, frames, outcome, event, phone, claim, callbacks, aged, finished>>

\* Mutant: the finally block hangs up whatever the handler decided.
UnwindsAndHangsUp ==
    /\ pipe = "unwinding"
    /\ pipe' = "over"
    /\ AskHangup
    /\ UNCHANGED <<row, loaded, frames, outcome, event, line, claim, callbacks, aged, finished>>

\* The finally block of _run_pipeline.
Unwinds ==
    /\ pipe = "unwinding"
    /\ pipe' = "over"
    /\ IF outcome THEN hang' = hang ELSE AskHangup
    /\ UNCHANGED <<row, loaded, frames, outcome, event, line, claim, callbacks, aged, finished>>

\* A restart loses all but the row.
WorkerDies ==
    /\ pipe \notin Idle
    /\ pipe' = IF pipe \in {"rejecting", "labelling busy"} THEN "rejected" ELSE "dead"
    /\ event' = "none"
    /\ frames' = <<>>
    /\ loaded' = [w \in Writer |-> NoRow]
    /\ hook' = "none"
    /\ hang' = IF hang = "asked" THEN "no" ELSE hang
    /\ claim' = [k \in Claimant |-> IF claim[k] = "won" THEN "told" ELSE claim[k]]
    /\ UNCHANGED <<row, outcome, line, hooks, emitted, aged, finished>>
----------------------------------------------------------------------------
(* Handoff claims *)

\* Mutant: the host's tap checks the status it read and not handoff_status.
ClaimableAgain == row.status = "in_progress"

Claimable == row.status = "in_progress" /\ ~row.requested

\* A guest's request resolves the number to dial and stores it with its claim;
\* without a usable number it claims nothing.  A tap stores none.
StoresNumber(k) == k \notin Host

\* The link of a tap goes out with the row of a property's call; the guest asks
\* during the call.
Claims(k) ==
    /\ claim[k] = "idle"
    /\ IF k \in Host
       THEN pipe \notin {"none", "rejecting", "labelling busy", "rejected"} /\ row.host
       ELSE pipe = "running"
    /\ claim' = [claim EXCEPT ![k] = IF Claimable THEN "won" ELSE "lost"]
    /\ row' = IF Claimable
              THEN [row EXCEPT !.requested = TRUE, !.number = StoresNumber(k)]
              ELSE row
    /\ UNCHANGED <<loaded, call, phone, callbacks, aged, finished>>

\* request_handoff, whose answer nobody looks at.
Signals(k) ==
    /\ claim[k] = "won"
    /\ claim' = [claim EXCEPT ![k] = "told"]
    /\ event' = IF event = "clear" THEN "set" ELSE event
    /\ UNCHANGED <<row, loaded, pipe, frames, outcome, phone, callbacks, aged, finished>>
----------------------------------------------------------------------------
(* Exotel *)

HangupArrives ==
    /\ hang = "asked"
    /\ hang' = "done"
    /\ line' = "over"
    /\ UNCHANGED <<row, loaded, call, claim, callbacks, aged, finished>>

\* Only a hang-up that succeeded is remembered as requested.
HangupFails ==
    /\ hang = "asked"
    /\ hang' = "no"
    /\ UNCHANGED <<row, loaded, call, line, claim, callbacks, aged, finished>>

GuestLeaves ==
    /\ line # "over"
    /\ line' = "over"
    /\ UNCHANGED <<row, loaded, call, hang, claim, callbacks, aged, finished>>

\* The Voicebot stream is closed: Exotel goes on to the Connect applet.
StreamEnds ==
    /\ line = "mira"
    /\ pipe \notin {"none", "setup", "running"}
    /\ line' = "flow"
    /\ UNCHANGED <<row, loaded, call, hang, claim, callbacks, aged, finished>>

\* Whom connect-routing answers with: the host of a requested handoff, by the
\* number stored with the request or else the host's own, or, in hours the host
\* takes calls, the host of the dialed number.
Destination(dials, hours) ==
    IF row # NoRow /\ row.requested
    THEN row.status = "in_progress" /\ row.host /\ (row.number \/ dials)
    ELSE hours /\ dials

\* connect-routing for a call that was Mira's.  db: no lookup fails (a failed one
\* is answered like a refusal); dials: the host is found and has a usable phone;
\* hours: the host takes the calls of the dialed number now.
ConnectRouting(db, dials, hours) ==
    /\ line = "flow"
    /\ line' = IF db /\ Destination(dials, hours) THEN "host" ELSE "over"
    /\ UNCHANGED <<row, loaded, call, hang, claim, callbacks, aged, finished>>

\* Exotel reports the call in progress while it is, and terminal once it is over.
HookSent(s) ==
    /\ emitted < MaxHooks
    /\ s \notin hooks
    /\ (s = "in-progress") = (line # "over")
    /\ hooks' = hooks \cup {s}
    /\ emitted' = emitted + 1
    /\ UNCHANGED <<row, loaded, call, phone, claim, hook, aged, finished>>

\* Mutant: the status is stored as Exotel names it.
MapStatusVerbatim(s) == s

\* _map_exotel_status
MapStatus(s) ==
    CASE s = "completed"   -> "completed"
      [] s = "no-answer"   -> "failed"
      [] s = "in-progress" -> "in_progress"

\* attach_exotel_call; callbacks may be handled long after and in any order.
\* It knows the host of a property's number, and none of a Lead Agent's.
HookLoads(s) ==
    /\ hook = "none"
    /\ s \in hooks
    /\ hook' = s
    /\ hooks' = hooks \ {s}
    /\ \E known \in BOOLEAN :
          /\ row' = OrCreated(row, known)
          /\ loaded' = [loaded EXCEPT !["hook"] = OrCreated(row, known)]
    /\ UNCHANGED <<call, phone, claim, emitted, aged, finished>>

HookCommits ==
    LET old == loaded["hook"]
    IN  /\ hook # "none"
        /\ row' = Flush(row, old, [old EXCEPT !.status = MapStatus(hook)])
        /\ Unloads("hook")
        /\ hook' = "none"
        /\ UNCHANGED <<call, phone, claim, hooks, emitted, aged, finished>>
----------------------------------------------------------------------------
(* The sweep *)

\* A call lasts at most max_call_duration_seconds, a third of the threshold.
Ages ==
    /\ row # NoRow
    /\ pipe \in Idle
    /\ pipe = "none" => line = "over"
    /\ ~aged
    /\ aged' = TRUE
    /\ UNCHANGED <<row, loaded, call, phone, claim, callbacks, finished>>

\* Mutant: the sweep takes unclassified rows only.
StuckUnlabelled == aged /\ row.status = "in_progress" /\ ~row.requested /\ row.type = "UNKNOWN"

Stuck == aged /\ row.status = "in_progress" /\ ~row.requested

SweepLoads ==
    /\ Stuck
    /\ loaded["sweep"] = NoRow
    /\ Loads("sweep")
    /\ UNCHANGED <<row, call, phone, claim, callbacks, aged, finished>>

SweepCommits ==
    LET old == loaded["sweep"]
    IN  /\ old # NoRow
        /\ row' = Flush(row, old, [old EXCEPT !.status = "failed", !.type = "MISSED_SYSTEM_FAILURE"])
        /\ Unloads("sweep")
        /\ UNCHANGED <<call, phone, claim, callbacks, aged, finished>>

\* A database error ends a callback or a sweep before its commit.
SessionFails(w) ==
    /\ w # "pipeline" /\ loaded[w] # NoRow
    /\ Unloads(w)
    /\ hook' = IF w = "hook" THEN "none" ELSE hook
    /\ UNCHANGED <<row, call, phone, claim, hooks, emitted, aged, finished>>
----------------------------------------------------------------------------
PipelineStep ==
    \/ RejectCommits
    \/ RejectLabels
    \/ Registers
    \/ EndFrameDrains
    \/ Cancelled
    \/ FinalizeLoads
    \/ FinalizeCommits
    \/ Labels
    \/ Closes
    \/ CrashCommits
    \/ CrashLabels
    \/ Unwinds

Next ==
    \/ PipelineStarts
    \/ BusyRejects
    \/ PipelineStep
    \/ SetupFails
    \/ RejectFails
    \/ CrashUnrecorded
    \/ EndQueued
    \/ HandoffQueued
    \/ HandlerFails
    \/ Raises
    \/ WorkerDies
    \/ \E k \in Claimant : Claims(k) \/ Signals(k)
    \/ HangupArrives
    \/ HangupFails
    \/ GuestLeaves
    \/ StreamEnds
    \/ \E db, dials, hours \in BOOLEAN : ConnectRouting(db, dials, hours)
    \/ \E s \in Exotel : HookSent(s) \/ HookLoads(s)
    \/ HookCommits
    \/ Ages
    \/ SweepLoads
    \/ SweepCommits
    \/ \E w \in Writer : SessionFails(w)

Spec == Init /\ [][Next]_vars

\* The pipeline's own code runs on, the maximum duration ends every call, a
\* callback that is being handled is handled, time passes and the sweep runs
\* every ten minutes: not all its commits fail.  A guest whom no pipeline
\* answers does not wait for ever.
Fairness ==
    /\ WF_vars(pipe = "none" /\ GuestLeaves)
    /\ WF_vars(PipelineStep)
    /\ WF_vars(EndQueued)
    /\ WF_vars(HookCommits)
    /\ WF_vars(Ages)
    /\ WF_vars(SweepLoads)
    /\ SF_vars(SweepCommits)

FairSpec == Spec /\ Fairness
----------------------------------------------------------------------------
(* What the lifecycle is for *)

\* Of the host's taps and the guest's requests at most one becomes a handoff
\* ("no window where two things could both see it as claimable").
OneWinner ==
    Cardinality({k \in Claimant : claim[k] \in {"won", "told"}}) <= 1

\* Mira never hangs up on a guest she is handing over: neither the handler nor
\* the finally block nor the crash path asks Exotel to.
HandoffNotHungUp == outcome => hang = "no"

\* When Exotel asks where to connect a guest who is being handed over, the answer
\* is the host, provided that the lookups succeed, the row knows its host and
\* there is a number to dial: no finalization, crash, sweep or callback makes
\* connect-routing refuse.
HandoffRouted ==
    [][\A dials, hours \in BOOLEAN :
          ConnectRouting(TRUE, dials, hours) /\ outcome /\ row.host /\ (row.number \/ dials)
              => line' = "host"]_vars

\* A transferred call keeps its label: no crash in the teardown and no sweep
\* turns it into a system failure (pipeline.py:783-790).
TransferLabelHolds ==
    [][row # NoRow /\ row.type = "TRANSFERRED_TO_HOST"
          => row'.type = "TRANSFERRED_TO_HOST"]_vars

\* Without a handoff request every row ends in a terminal status, whatever
\* failed on the way (reconcile_stuck_call_sessions).
UnclaimedReachesTerminal ==
    <>[](row = NoRow \/ row.status # "in_progress" \/ row.requested)

\* A call recorded as a system failure never properly finished
\* (pipeline.py:779-781).
FailureMeansUnfinished ==
    row # NoRow /\ row.type = "MISSED_SYSTEM_FAILURE" => ~finished

\* "user_id is always set whenever a host is known" (exotel.py:389-391): the row
\* of a call Mira answers for a host names the host.
HostKnown == pipe = "running" => row.host

\* No call is claimed before its pipeline listens (handoff_signal.py:31-35).
ListeningWhenClaimed ==
    [][\A k \in Claimant : Claims(k) /\ claim'[k] = "won" => pipe # "setup"]_vars
=============================================================================
