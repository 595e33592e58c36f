----------------------------- MODULE BusyRecovery -----------------------------
(***************************************************************************)
(* The guests a busy line turned away.  A rejected call arms its lead      *)
(* (recovery_service.handle_busy_recovery); each release of the line       *)
(* spawns a process_availability_recovery run that claims the armed leads  *)
(* one by one, sends "Mira is available now" and records the outcome.      *)
(* Meanwhile the same rows are written by answered calls, by WhatsApp      *)
(* replies and by the host.                                                *)
(*                                                                         *)
(* Every writer but the claim is an ORM session that loads the row, awaits *)
(* and then writes the columns it changed, by primary key and without any  *)
(* condition (Flush).  The claim is one conditional UPDATE.  Any session   *)
(* or run may stop at any await: a database error, an httpx error that is  *)
(* not a TwilioError, or the death of the worker.                          *)
(***************************************************************************)
EXTENDS Integers, FiniteSets

CONSTANTS
    Lead,       \* rows of table leads for one line; a guest whose lead is
                \* closed and who is rejected again gets another row
    NoLead,
    Reachable,  \* the leads that have a phone number
    Run,        \* releases of the line, each spawning one run
    Session,    \* requests that may be in progress on these rows at a time
    Null,       \* a NULL timestamp
    Window,     \* AVAILABILITY_WINDOW in ticks
    Stale,      \* STALE_CLAIM_THRESHOLD in ticks
    SendMax,    \* ticks a run may spend on one lead
    Horizon,    \* ages are not told apart beyond this
    Outcomes,   \* what Twilio may answer: "accepted", "refused", "raises"
    MaxArms     \* bound on rejections per lead

ASSUME RecoveryAssumption ==
    /\ IsFiniteSet(Run) /\ IsFiniteSet(Lead)
    /\ NoLead \notin Lead
    /\ Reachable \subseteq Lead
    /\ Null \notin Int
    /\ Window \in Nat /\ Stale \in Nat /\ SendMax \in Nat
    /\ Horizon \in Nat
    /\ MaxArms \in Nat

\* In a run: told is armed[lead] when its message went out.
VARIABLES
    db,       \* the committed rows
    sess,     \* the ORM sessions of rejected calls, answered calls and replies
    run,      \* the availability runs
    armed,    \* rejections committed for each lead
    sent,     \* "available now" messages Twilio accepted for each lead
    reclaimed,\* claims taken over from a run that seemed dead
    cleared   \* has the guest been answered since the row was last made pending?

vars == <<db, sess, run, armed, sent, reclaimed, cleared>>
ghosts == <<armed, sent, reclaimed, cleared>>

Avail == {"none", "pending", "processing", "notified"}
Row == [status: {"absent", "open", "closed"}, avail: Avail,
        follow: {"callback", "other"}, since: 0..Horizon, claim: (0..Horizon) \cup {Null}]
NewRow == [status |-> "absent", avail |-> "none", follow |-> "other", since |-> 0, claim |-> Null]

Kind == {"off", "reject", "answer", "reply"}
Off == [kind |-> "off", lead |-> NoLead, old |-> NewRow]

Working == {"claimed", "sending", "saving"}
RunState == [at: {"idle", "select", "loop", "done"} \cup Working, todo: SUBSET Lead,
             lead: Lead \cup {NoLead}, old: Row, next: Avail,
             told: Nat, age: 0..Horizon, spent: 0..Horizon]
RunAt(at, todo, age) ==
    [at |-> at, todo |-> todo, lead |-> NoLead, old |-> NewRow, next |-> "none",
     told |-> 0, age |-> age, spent |-> 0]

TypeOK ==
    /\ db \in [Lead -> Row]
    /\ sess \in [Session -> [kind: Kind, lead: Lead \cup {NoLead}, old: Row]]
    /\ \A s \in Session : sess[s].kind # "off" => sess[s].lead \in Lead
    /\ run \in [Run -> RunState]
    /\ \A r \in Run : run[r].at \in Working => run[r].lead \in Lead
    /\ armed \in [Lead -> Nat]
    /\ sent \in [Lead -> Nat]
    /\ reclaimed \in [Lead -> Nat]
    /\ cleared \in [Lead -> BOOLEAN]

Init ==
    /\ db = [l \in Lead |-> NewRow]
    /\ sess = [s \in Session |-> Off]
    /\ run = [r \in Run |-> RunAt("idle", {}, 0)]
    /\ armed = [l \in Lead |-> 0]
    /\ sent = [l \in Lead |-> 0]
    /\ reclaimed = [l \in Lead |-> 0]
    /\ cleared = [l \in Lead |-> FALSE]

\* The UPDATE of a session that loaded old and leaves new: the columns whose
\* value differs from the loaded one, and no others.
Flush(cur, old, new) ==
    [f \in DOMAIN cur |-> IF new[f] # old[f] THEN new[f] ELSE cur[f]]

\* What a session keeps of the row it loaded: of the timestamps only whether
\* they are set, because no session computes with them.
Loaded(row) ==
    [row EXCEPT !.since = 0, !.claim = IF @ = Null THEN Null ELSE 0]
----------------------------------------------------------------------------
(* Rejected calls, answered calls, replies and the host *)

Begin(s, kind, l) ==
    /\ sess[s].kind = "off"
    /\ sess' = [sess EXCEPT ![s] = [kind |-> kind, lead |-> l, old |-> Loaded(db[l])]]
    /\ UNCHANGED <<db, run, ghosts>>

\* A lead of the guest that is still open is reused, otherwise one is created.
RejectLoads(s, l) ==
    /\ db[l].status # "closed"
    /\ \A t \in Session : sess[t].lead = l => db[l].status = "open" /\ sess[t].kind # "reject"
    /\ armed[l] < MaxArms
    /\ Begin(s, "reject", l)

AnswerLoads(s, l) ==
    /\ db[l].status = "open"
    /\ Begin(s, "answer", l)

ReplyLoads(s, l) ==
    /\ db[l].status = "open"
    /\ Begin(s, "reply", l)

RejectCommits(s) ==
    LET l   == sess[s].lead
        old == sess[s].old
        new == [old EXCEPT !.status = "open", !.avail = "pending", !.follow = "callback"]
    IN  /\ sess[s].kind = "reject"
        /\ db' = [db EXCEPT ![l] = [Flush(@, old, new) EXCEPT !.since = 0]]
        /\ sess' = [sess EXCEPT ![s] = Off]
        /\ armed' = [armed EXCEPT ![l] = @ + 1]
        /\ cleared' = [cleared EXCEPT ![l] = FALSE]
        /\ UNCHANGED <<run, sent, reclaimed>>

\* Mutant: an answered call leaves the follow-up armed.
AnswerCommitsArmed(s) ==
    LET l == sess[s].lead
    IN  /\ sess[s].kind = "answer"
        /\ sess' = [sess EXCEPT ![s] = Off]
        /\ cleared' = [cleared EXCEPT ![l] = @ \/ sess[s].old.avail # "none"]
        /\ UNCHANGED <<db, run, armed, sent, reclaimed>>

AnswerCommits(s) ==
    LET l   == sess[s].lead
        old == sess[s].old
        new == IF old.avail = "none" THEN old ELSE [old EXCEPT !.avail = "none", !.claim = Null]
    IN  /\ sess[s].kind = "answer"
        /\ db' = [db EXCEPT ![l] = Flush(@, old, new)]
        /\ sess' = [sess EXCEPT ![s] = Off]
        /\ cleared' = [cleared EXCEPT ![l] = @ \/ old.avail # "none"]
        /\ UNCHANGED <<run, armed, sent, reclaimed>>

ReplyCommits(s) ==
    LET l   == sess[s].lead
        old == sess[s].old
    IN  /\ sess[s].kind = "reply"
        /\ db' = [db EXCEPT ![l] = Flush(@, old, [old EXCEPT !.follow = "other"])]
        /\ sess' = [sess EXCEPT ![s] = Off]
        /\ UNCHANGED <<run, ghosts>>

SessionLost(s) ==
    /\ sess[s].kind # "off"
    /\ sess' = [sess EXCEPT ![s] = Off]
    /\ UNCHANGED <<db, run, ghosts>>

\* PATCH /leads: the host books or closes a lead, or opens it again.
HostMoves(l) ==
    /\ db[l].status # "absent"
    /\ db' = [db EXCEPT ![l].status = IF @ = "open" THEN "closed" ELSE "open"]
    /\ UNCHANGED <<sess, run, ghosts>>
----------------------------------------------------------------------------
(* process_availability_recovery *)

Release(r) ==
    /\ run[r].at = "idle"
    /\ run' = [run EXCEPT ![r] = RunAt("select", {}, 0)]
    /\ UNCHANGED <<db, sess, ghosts>>

\* Mutant: the candidate query without its window.
EverArmed ==
    {l \in Lead : db[l].status = "open" /\ db[l].avail \in {"pending", "processing"}}

Candidates ==
    {l \in Lead : /\ db[l].status = "open"
                  /\ db[l].since <= Window
                  /\ db[l].avail \in {"pending", "processing"}}

Select(r) ==
    /\ run[r].at = "select"
    /\ run' = [run EXCEPT ![r] = RunAt("loop", Candidates, 0)]
    /\ UNCHANGED <<db, sess, ghosts>>

\* stale_claim_before was computed when the run began, age ticks ago.
Expired(l, age) == db[l].claim # Null /\ db[l].claim > Stale + age

\* Mutant: the status of the row is read first and not part of the UPDATE.
ClaimableWhatever(l, age) == TRUE

\* Mutant: a claim in progress counts as abandoned.
ClaimableInFlight(l, age) == db[l].avail \in {"pending", "processing"}

Claimable(l, age) ==
    \/ db[l].avail = "pending"
    \/ db[l].avail = "processing" /\ Expired(l, age)

ClaimWins(r, l) ==
    /\ run[r].at = "loop"
    /\ l \in run[r].todo
    /\ Claimable(l, run[r].age)
    /\ db' = [db EXCEPT ![l].avail = "processing", ![l].claim = 0]
    /\ run' = [run EXCEPT ![r] = [RunAt("claimed", @.todo \ {l}, @.age) EXCEPT !.lead = l]]
    /\ reclaimed' = [reclaimed EXCEPT ![l] = IF db[l].avail = "processing" THEN @ + 1 ELSE @]
    /\ UNCHANGED <<sess, armed, sent, cleared>>

ClaimLoses(r, l) ==
    /\ run[r].at = "loop"
    /\ l \in run[r].todo
    /\ ~Claimable(l, run[r].age)
    /\ run' = [run EXCEPT ![r].todo = @ \ {l}]
    /\ UNCHANGED <<db, sess, ghosts>>

\* The run loads the row it claimed; a guest who replied, or has no number, is
\* recorded as notified without a message.
Reads(r) ==
    LET l == run[r].lead
        quiet == db[l].follow # "callback" \/ l \notin Reachable
    IN  /\ run[r].at = "claimed"
        /\ run' = [run EXCEPT ![r].old = Loaded(db[l]),
                              ![r].at = IF quiet THEN "saving" ELSE "sending",
                              ![r].next = IF quiet THEN "notified" ELSE "none"]
        /\ UNCHANGED <<db, sess, ghosts>>

SendAccepted(r) ==
    /\ "accepted" \in Outcomes
    /\ run[r].at = "sending"
    /\ run' = [run EXCEPT ![r].at = "saving", ![r].next = "notified",
                          ![r].told = armed[run[r].lead]]
    /\ sent' = [sent EXCEPT ![run[r].lead] = @ + 1]
    /\ UNCHANGED <<db, sess, armed, reclaimed, cleared>>

\* Mutant: a refused send leaves a status of its own.
SendRefusedFails(r) ==
    /\ "refused" \in Outcomes
    /\ run[r].at = "sending"
    /\ run' = [run EXCEPT ![r].at = "saving", ![r].next = "failed"]
    /\ UNCHANGED <<db, sess, ghosts>>

\* A TwilioError, or a Twilio that is switched off or not configured.
SendRefused(r) ==
    /\ "refused" \in Outcomes
    /\ run[r].at = "sending"
    /\ run' = [run EXCEPT ![r].at = "saving", ![r].next = "pending"]
    /\ UNCHANGED <<db, sess, ghosts>>

\* A timeout or connection error ends the whole run; the message may be out.
SendRaises(r) ==
    /\ "raises" \in Outcomes
    /\ run[r].at = "sending"
    /\ run' = [run EXCEPT ![r] = RunAt("done", {}, 0)]
    /\ \E out \in {0, 1} : sent' = [sent EXCEPT ![run[r].lead] = @ + out]
    /\ UNCHANGED <<db, sess, armed, reclaimed, cleared>>

\* What a run leaves of the row it worked on.
Outcome(r) ==
    LET old == run[r].old
    IN  Flush(db[run[r].lead], old, [old EXCEPT !.avail = run[r].next, !.claim = Null])

\* Mutant: a lead whose send was refused is tried again by the same run.
SavesAndRetries(r) ==
    LET l == run[r].lead
    IN  /\ run[r].at = "saving"
        /\ db' = [db EXCEPT ![l] = Outcome(r)]
        /\ run' = [run EXCEPT ![r] = RunAt("loop", IF @.next = "pending" THEN @.todo \cup {l} ELSE @.todo, @.age)]
        /\ cleared' = [cleared EXCEPT ![l] = @ /\ Outcome(r).avail # "pending"]
        /\ UNCHANGED <<sess, armed, sent, reclaimed>>

\* A run whose message was refused gives the row back, whoever wrote it since.
Saves(r) ==
    LET l == run[r].lead
    IN  /\ run[r].at = "saving"
        /\ db' = [db EXCEPT ![l] = Outcome(r)]
        /\ run' = [run EXCEPT ![r] = RunAt("loop", @.todo, @.age)]
        /\ cleared' = [cleared EXCEPT ![l] = @ /\ Outcome(r).avail # "pending"]
        /\ UNCHANGED <<sess, armed, sent, reclaimed>>

Finish(r) ==
    /\ run[r].at = "loop"
    /\ run[r].todo = {}
    /\ run' = [run EXCEPT ![r] = RunAt("done", {}, 0)]
    /\ UNCHANGED <<db, sess, ghosts>>

Aborts(r) ==
    /\ run[r].at \notin {"idle", "done"}
    /\ run' = [run EXCEPT ![r] = RunAt("done", {}, 0)]
    /\ UNCHANGED <<db, sess, ghosts>>
----------------------------------------------------------------------------
Older(n) == IF n < Horizon THEN n + 1 ELSE n

\* Time passes while runs wait for Twilio or the database, SendMax at most.
Tick ==
    /\ \A r \in Run : \/ run[r].at \in {"idle", "done"}
                      \/ run[r].at \in Working /\ run[r].spent < SendMax
    /\ db' = [l \in Lead |->
                [db[l] EXCEPT !.since = IF db[l].status = "absent" THEN @ ELSE Older(@),
                              !.claim = IF @ = Null THEN @ ELSE Older(@)]]
    /\ run' = [r \in Run |->
                IF run[r].at \in Working
                THEN [run[r] EXCEPT !.age = Older(@), !.spent = Older(@)]
                ELSE run[r]]
    /\ UNCHANGED <<sess, ghosts>>

SessionStep(s) ==
    \/ \E l \in Lead : RejectLoads(s, l) \/ AnswerLoads(s, l) \/ ReplyLoads(s, l)
    \/ RejectCommits(s)
    \/ AnswerCommits(s)
    \/ ReplyCommits(s)
    \/ SessionLost(s)

Claims(r) == \E l \in Lead : ClaimWins(r, l) \/ ClaimLoses(r, l)
Sends(r) == SendAccepted(r) \/ SendRefused(r) \/ SendRaises(r)

RunStep(r) ==
    Select(r) \/ Claims(r) \/ Reads(r) \/ Sends(r) \/ Saves(r) \/ Finish(r)

Next ==
    \/ \E s \in Session : SessionStep(s)
    \/ \E l \in Lead : HostMoves(l)
    \/ \E r \in Run : Release(r) \/ RunStep(r) \/ Aborts(r)
    \/ Tick

Spec == Init /\ [][Next]_vars

\* Every await of a run returns: the sends have a timeout.
FairSpec == Spec /\ \A r \in Run : WF_vars(RunStep(r))
----------------------------------------------------------------------------
(* What the follow-up is for *)

\* Every message is paid for by a rejection, or by a claim taken over from a
\* run that seemed dead: releases, failures, replies and other sessions never
\* make a guest hear "Mira is available" more often (_claim_lead, "exactly one
\* claimant").
MessagesAccounted == \A l \in Lead : sent[l] <= armed[l] + reclaimed[l]

InFlight(l) == {r \in Run : run[r].lead = l /\ run[r].at \in Working}

\* A claim is never taken over from a run that is still at work, and no more
\* runs work for a guest than he was rejected times, although every one of
\* them may hand the row back while another works on it (_claim_lead, "a
\* truly-still-in-flight processing row can never be double-claimed").
NeverDoubleClaimed ==
    [][\A r \in Run, l \in Lead :
          ClaimWins(r, l) => /\ Cardinality(InFlight(l)) < armed[l]
                             /\ db[l].avail = "processing" => InFlight(l) = {}]_vars

\* A guest who got through to Mira is not claimed for a message any more,
\* unless he is rejected again or a run that was sending to him meanwhile is
\* refused and gives the row back (lead_service.upsert_lead).
AnsweredStaysQuiet ==
    [][\A r \in Run, l \in Lead : ClaimWins(r, l) => ~cleared[l]]_vars

\* No guest hears "available now" longer after the rejection than the window
\* and the time one run takes over all the leads (AVAILABILITY_WINDOW).
MessagesTimely ==
    [][\A l \in Lead :
          sent'[l] # sent[l] => db[l].since <= Window + SendMax * Cardinality(Lead)]_vars

\* A run that was started comes to its end, whatever keeps arming leads.
RunsEnd == \A r \in Run : run[r].at = "select" ~> run[r].at = "done"

\* A guest rejected again after the message went out is still waiting: the
\* notified that the older message earned does not disarm the new rejection
\* (recovery_service.py:256-257).
RearmSurvives ==
    [][\A r \in Run : LET l == run[r].lead IN
          Saves(r) /\ run[r].told \in 1..(armed[l] - 1) /\ db[l].avail = "pending"
              => db'[l].avail = "pending"]_vars
=============================================================================
