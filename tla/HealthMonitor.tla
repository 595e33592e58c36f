---------------------------- MODULE HealthMonitor ---------------------------
(***************************************************************************)
(* Health monitoring of one service (services/health_monitor_service.py):  *)
(* tick() evaluates the registry, keeps the incident row of the service    *)
(* and sends the mails that are due; the process may restart and then      *)
(* loads its open incident again.  Services have rows and mails of their   *)
(* own, so the failing write of another service is, for this one, the      *)
(* database failing in that tick.                                          *)
(*                                                                         *)
(* In a tick the database answers ("ok"), loses the commit ("lost": the    *)
(* mails are out, the memory is written and the rows are as before) or     *)
(* refuses the tick's work ("refused"); while the process has not loaded   *)
(* its incident, it may also refuse that ("unreachable"), or let the row   *)
(* be read and then refuse the cache's query ("seeded").                   *)
(***************************************************************************)
EXTENDS ServiceHealth

CONSTANTS
    None,
    DegradedAfter,  \* ticks until a degraded service is mailed (10 minutes)
    ReminderAfter,  \* ticks until a reminder (120 minutes)
    SendRetry,      \* ticks a failed delivery stops the next ones (120 s)
    Heard,          \* bound: what requests may come to
    MaxOpen,        \* bound: rows open at once
    MaxFaults       \* bound: commits lost and restarts of the process, together

ASSUME WaitsAssumption ==
    DegradedAfter \in Nat /\ ReminderAfter \in Nat /\ SendRetry \in Nat
ASSUME HeardAssumption == Heard \subseteq Outcome
ASSUME LimitsAssumption ==
    MaxOpen \in Nat /\ MaxFaults \in Nat

VARIABLES
    credits,   \* the service is a credits account
    rows,      \* service_incidents: the open rows
    loaded,    \* _loaded
    tracked,   \* _open: the row the process keeps for the service
    offset,    \* _count_offset and
    baseline,  \* _count_baseline of that row
    memory,    \* _memory_alerts: an alert was mailed without a row
    hold,      \* ticks until a delivery is tried again
    lost, restarts,  \* counters of the bound
    mailed,    \* history: mails of each kind since the last quiet moment, up
               \* to two
    clean      \* history: the database answered since the last quiet moment

monitor == <<credits, rows, loaded, tracked, offset, baseline, memory, hold,
             lost, restarts, mailed, clean>>
vars == <<registry, monitor>>

Id == 1 .. MaxOpen
Gone == 0   \* the id of a row whose insert was lost
Counts == 0 .. (MaxFaults + 1) * MaxErrors

(* An open ServiceIncident: last is the age of its last mail, counted its  *)
(* errors_at_last_alert.                                                   *)
Row == [state: Failing, age: 0 .. DegradedAfter, down: BOOLEAN, degraded: BOOLEAN,
        last: 0 .. ReminderAfter \cup {None}, count: Counts, counted: Counts]
ASSUME NoneAssumption == None \notin Nat /\ None \notin Row

TypeOK ==
    /\ RegistryOK
    /\ credits \in BOOLEAN
    /\ rows \in [Id -> Row \cup {None}]
    /\ loaded \in BOOLEAN
    /\ tracked \in Id \cup {None, Gone}
    /\ offset \in Counts /\ baseline \in 0 .. MaxErrors
    /\ memory \in BOOLEAN
    /\ hold \in 0 .. SendRetry
    /\ lost \in 0 .. MaxFaults /\ restarts \in 0 .. MaxFaults
    /\ mailed \in [{"down", "degraded"} -> 0 .. 2]
    /\ clean \in BOOLEAN

Init ==
    /\ RegistryInit
    /\ credits \in BOOLEAN
    /\ rows = [i \in Id |-> None]
    /\ loaded = FALSE /\ tracked = None
    /\ offset = 0 /\ baseline = 0
    /\ memory = FALSE /\ hold = 0
    /\ lost = 0 /\ restarts = 0
    /\ mailed = [k \in {"down", "degraded"} |-> 0]
    /\ clean = TRUE

-----------------------------------------------------------------------------
(* Time.                                                                   *)

Older(age, cap) == IF age = None \/ age = cap THEN age ELSE age + 1
AgedRows == [i \in Id |-> IF rows[i] = None THEN None
                          ELSE [rows[i] EXCEPT !.age = Older(@, DegradedAfter),
                                               !.last = Older(@, ReminderAfter)]]
Held == IF hold > 0 THEN hold - 1 ELSE 0

-----------------------------------------------------------------------------
(* A tick works on a draft: the row of the incident, the process's memory  *)
(* and the mails sent so far.  old and new are the state before and after  *)
(* the evaluation, mail what the mail service answers.                     *)

Mail == {"sent", "refused"}

(* _send_alert: after a failed delivery none is tried for a while. *)
MarkedLast(row, kind) == [row EXCEPT !.last = 0, !.counted = row.count]

Marked(row, kind) ==
    [row EXCEPT !.down = @ \/ kind = "down",
                !.degraded = @ \/ kind = "degraded",
                !.last = 0, !.counted = row.count]

Send(d, kind, mail) ==
    IF d.hold > 0 THEN d
    ELSE IF mail = "refused" THEN [d EXCEPT !.hold = SendRetry]
    ELSE [d EXCEPT !.sent = @ \cup {kind},
                   !.row = IF @ = None THEN None ELSE Marked(@, kind)]

(* _alert_from_memory *)
RecoverFromMemory(d, old, new, mail) ==
    IF new # old /\ new = "up" /\ d.memory
    THEN Send([d EXCEPT !.memory = FALSE], "resolved", mail) ELSE d

AlertFromMemory(d, old, new, mail) ==
    IF new # old /\ new = "down" /\ d.tracked = None /\ ~d.memory
    THEN LET e == Send(d, "down", mail)
         IN  [e EXCEPT !.memory = "down" \in e.sent]
    ELSE RecoverFromMemory(d, old, new, mail)

(* An incident begins; its failures are those still in the window. *)
Free == CHOOSE i \in Id : rows[i] = None
NewRow(s, mailedBefore) ==
    [state |-> s, age |-> 0, down |-> mailedBefore, degraded |-> FALSE,
     last |-> IF mailedBefore THEN 0 ELSE None, count |-> 0, counted |-> 0]
Opened(d, row) ==
    [d EXCEPT !.row = row, !.tracked = Free, !.offset = 0,
              !.baseline = IF errors > RecentErrors THEN errors - RecentErrors
                           ELSE 0]

(* _apply_transitions *)
ClosesUp(s) == s = "up"
Closes(s) == s \in {"up", "not_configured"}

Apply(d, old, new, mail) ==
    IF new # old /\ new \in Failing
    THEN IF d.row = None THEN Opened(d, NewRow(new, FALSE))
         ELSE [d EXCEPT !.row.state = new]
    ELSE IF new # old /\ Closes(new) /\ d.row # None
    THEN LET e == IF d.row.last # None /\ new = "up"
                  THEN Send(d, "resolved", mail) ELSE d
         IN  [e EXCEPT !.row = None, !.tracked = None]
    ELSE d

(* _reconcile_missing *)
Reconcile(d, new) ==
    IF new \in Failing /\ d.tracked = None
    THEN Opened([d EXCEPT !.memory = FALSE], NewRow(new, d.memory))
    ELSE d

(* _sync_counts *)
SyncCounts(d) ==
    [d EXCEPT !.row.count =
        d.offset + (IF errors > d.baseline THEN errors - d.baseline ELSE 0)]

(* _maybe_alert *)
DueFirst(row) ==
    IF row.state = "down" /\ row.last = None THEN {"down"}
    ELSE IF row.state = "degraded" /\ row.last = None /\ row.age >= DegradedAfter
    THEN {"degraded"} ELSE {}

Due(row) ==
    IF row.state = "down" /\ ~row.down THEN {"down"}
    ELSE IF /\ row.state = "degraded" /\ ~row.degraded /\ ~row.down
            /\ row.age >= DegradedAfter
    THEN {"degraded"}
    ELSE IF /\ row.state = "down" /\ ~credits /\ row.last # None
            /\ row.last >= ReminderAfter /\ row.count > row.counted
    THEN {"reminder"}
    ELSE {}

Alert(d, mail) ==
    IF Due(d.row) = {} THEN d
    ELSE Send(d, CHOOSE k \in Due(d.row) : TRUE, mail)

(* The loop over _open. *)
Follow(d, mail) ==
    IF d.row = None THEN [d EXCEPT !.tracked = None]
    ELSE Alert(SyncCounts(d), mail)

Work(d, old, new, mail) ==
    Follow(Reconcile(Apply(RecoverFromMemory(d, old, new, mail),
                           old, new, mail), new), mail)

(* The same when the database refuses: the first query ends the work, and  *)
(* the alert is sent from memory.                                          *)
Refused(d, old, new, mail) ==
    LET e == RecoverFromMemory(d, old, new, mail)
        missing == new = old /\ new \in Failing /\ d.tracked = None
    IN  AlertFromMemory([e EXCEPT !.memory = @ /\ ~missing], old, new, mail)

-----------------------------------------------------------------------------
Answer == {"ok", "lost", "refused", "seeded", "unreachable"}

(* _ensure_loaded *)
Loading(db) == ~loaded /\ db # "unreachable"
Load(db) ==
    IF Loading(db) /\ \E i \in Id : rows[i] # None
    THEN {i \in Id : rows[i] # None} ELSE {tracked}
Current(db, t) == IF Loading(db) /\ t \in Id THEN rows[t].state ELSE state

(* The draft a tick begins with: t is the row the process follows.         *)
Begun(db, t) ==
    LET known == Loading(db) /\ t \in Id
    IN  [row |-> IF t \in Id THEN AgedRows[t] ELSE None,
         tracked |-> t, memory |-> memory,
         offset |-> IF known THEN rows[t].count ELSE offset,
         baseline |-> IF known THEN errors ELSE baseline,
         hold |-> Held, sent |-> {}]

(* and the one it ends with, when evaluate() has found the state new. *)
Ended(db, t, new, mail) ==
    LET old == Current(db, t)
    IN  CASE db \in {"ok", "lost"} -> Work(Begun(db, t), old, new, mail)
          [] db = "refused" -> Refused(Begun(db, t), old, new, mail)
          [] db \in {"seeded", "unreachable"} ->
                AlertFromMemory(Begun(db, t), old, new, mail)

Stored(t, d) ==
    [i \in Id |-> IF i = d.tracked THEN d.row
                  ELSE IF i = t THEN None ELSE AgedRows[i]]

(* A moment without an outage: nothing is failing, the table shows no open *)
(* incident and no alert waits in memory to be recorded.                   *)
Quiet == Closes(state) /\ (\A i \in Id : rows[i] = None) /\ ~memory

Mailed(d, quiet) ==
    [k \in DOMAIN mailed |->
        IF quiet THEN 0
        ELSE IF k \in d.sent /\ mailed[k] < 2 THEN mailed[k] + 1
        ELSE mailed[k]]

(* tick() *)
Tick(db, mail) == \E t \in Load(db) :
    /\ loaded => db \notin {"seeded", "unreachable"}
    /\ db \in {"ok", "lost"} => \E i \in Id : rows[i] = None
    /\ EvaluateFrom(Current(db, t))
    /\ \E d \in {Ended(db, t, state', mail)} :
          /\ db = "lost" => lost + restarts < MaxFaults /\ Stored(t, d) # AgedRows
          /\ loaded' = (db \notin {"seeded", "unreachable"})
          /\ rows' = IF db = "ok" THEN Stored(t, d) ELSE AgedRows
          /\ tracked' = IF db = "lost" /\ d.tracked \in Id /\
                           AgedRows[d.tracked] = None
                        THEN Gone ELSE d.tracked
          /\ offset' = d.offset /\ baseline' = d.baseline
          /\ memory' = d.memory /\ hold' = d.hold
          /\ lost' = IF db = "lost" THEN lost + 1 ELSE lost
          /\ mailed' = Mailed(d, Quiet')
          /\ clean' = (db = "ok" /\ (clean \/ Quiet'))
    /\ UNCHANGED <<credits, restarts>>

(* The evidence between two ticks. *)
Request == \E o \in Heard : Record(o) /\ UNCHANGED monitor
Probe == \E s \in {"ok", "degraded", "down"} :
            RecordProbe(s, credits) /\ UNCHANGED monitor
Unset == credits /\ RecordNotConfigured /\ UNCHANGED monitor

(* A redeploy: all but the table is lost. *)
Restart ==
    /\ lost + restarts < MaxFaults
    /\ restarts' = restarts + 1
    /\ window' = Empty
    /\ probe' = NoProbe /\ state' = "unknown" /\ streak' = 0 /\ errors' = 0
    /\ better' = FALSE
    /\ loaded' = FALSE /\ tracked' = None
    /\ offset' = 0 /\ baseline' = 0
    /\ memory' = FALSE /\ hold' = 0
    /\ UNCHANGED <<credits, rows, lost, mailed, clean>>

Next ==
    \/ Request \/ Probe \/ Unset \/ Restart
    \/ \E db \in Answer, mail \in Mail : Tick(db, mail)

Spec == Init /\ [][Next]_vars

-----------------------------------------------------------------------------
(* Properties.                                                             *)

(* "One incident = at most one email of each kind" (the reminder apart),   *)
(* restarts and failed deliveries included, while the database answers.    *)
AlarmOnce == clean => \A k \in DOMAIN mailed : mailed[k] <= 1

(* While the database answers, the service has an open incident exactly    *)
(* when it is failing, in the state it is in, and the process follows it.  *)
HistoryMatches ==
    clean /\ loaded =>
        /\ state \in Failing <=> tracked \in Id
        /\ \A i \in Id : rows[i] # None <=> i = tracked
        /\ tracked \in Id => rows[tracked].state = state

(* A failing service is shown better only after two evaluations in a row   *)
(* that found it better; the tick that loads an incident apart.            *)
ImprovesSlowly ==
    [][(/\ state \in Failing /\ loaded' = loaded
        /\ state' \in {"up", "degraded"}
        /\ Severity[state'] < Severity[state]
        /\ ~\E mail \in Mail : Tick("seeded", mail)) => better]_vars

(* The transition to down was evaluated in a tick whose work was refused,  *)
(* or whose row was lost, so that no later tick sees it.                   *)
Missed ==
    /\ loaded /\ state = "down"
    /\ tracked \in Id => rows[tracked].state # "down"
    /\ tracked # None

(* A tick that the database answers, that no throttle holds back and whose *)
(* deliveries succeed leaves no service down that was not mailed about     *)
(* since the last quiet moment, whatever restarts, refused deliveries,     *)
(* escalations, alerts from memory and refusals of the database came       *)
(* before it; a transition to down that was missed apart.                  *)
DownAnnounced ==
    [][(state' = "down" /\ mailed'["down"] = 0 /\ hold <= 1 /\ ~Missed)
         => ~Tick("ok", "sent")]_vars

(* _reconcile_missing opens an incident "carrying over any alert already   *)
(* sent from memory so it isn't re-sent".                                  *)
NotResent == mailed["down"] <= 1
=============================================================================
