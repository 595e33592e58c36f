-------------------------- MODULE HealthMonitor_proofs --------------------------
(***************************************************************************)
(* While the database answers, one incident is mailed once and the table   *)
(* agrees with the live state; and whatever was refused or lost before, a  *)
(* service whose transition to down was seen does not stay unmailed.  For  *)
(* any window, waits, number of restarts and of commits lost.              *)
(***************************************************************************)
EXTENDS HealthMonitor, FiniteSetTheorems, TLAPS

\* The inductive invariant.  Failures are counted where they are found, the
\* streak is the better evaluation, and a process adds at most its own errors
\* to a row's count.
EvidenceOK == probe.failures <= errors + 1
StreakOK == better <=> streak = 1
CountsOK ==
    /\ offset <= restarts * MaxErrors
    /\ \A i \in Id : rows[i] # None =>
          rows[i].count <= (IF loaded THEN restarts + 1 ELSE restarts) * MaxErrors

\* While the database answers there is at most one open row, and its flags
\* are the mails that were sent.
NoRow == \A i \in Id : rows[i] = None
Sole == \A i, j \in Id : rows[i] # None /\ rows[j] # None => i = j
Flags(row) ==
    /\ mailed["down"] = (IF row.down THEN 1 ELSE 0)
    /\ mailed["degraded"] = (IF row.degraded THEN 1 ELSE 0)
NoMail == mailed["down"] = 0 /\ mailed["degraded"] = 0
MailsMatch ==
    /\ \A i \in Id : rows[i] # None => Flags(rows[i])
    /\ NoRow => NoMail

\* Whatever the database did: a row that is followed is there, and an alert
\* that a row or the memory shows was mailed since the last quiet moment.
FollowsOK ==
    /\ tracked \in Id => rows[tracked] # None
    /\ ~loaded => tracked # Gone
ToldOK ==
    /\ memory => mailed["down"] # 0
    /\ \A i \in Id : rows[i] # None /\ rows[i].down => mailed["down"] # 0

CleanOK == clean =>
    /\ ~memory
    /\ Sole
    /\ HistoryMatches
    /\ ~loaded => state \notin Failing
    /\ MailsMatch

IInv == TypeOK /\ EvidenceOK /\ StreakOK /\ CountsOK /\ FollowsOK /\ ToldOK /\ CleanOK

\* What the mails a draft has sent may be.
Mails == {"down", "degraded", "resolved", "reminder"}
Draft ==
    [row: Row \cup {None}, tracked: Id \cup {None, Gone}, memory: BOOLEAN,
     offset: 0 .. restarts * MaxErrors, baseline: 0 .. MaxErrors,
     hold: 0 .. SendRetry, sent: SUBSET Mails]
-----------------------------------------------------------------------------
\* The counters.
LEMMA Limits ==
    /\ Window \in Nat \ {0} /\ Stale \in Nat /\ MaxEvents \in Nat /\ MaxErrors \in Nat
    /\ DegradedAfter \in Nat /\ ReminderAfter \in Nat /\ SendRetry \in Nat
    /\ MaxOpen \in Nat /\ MaxFaults \in Nat
BY WindowAssumption, StaleAssumption, BoundsAssumption, WaitsAssumption, LimitsAssumption

LEMMA Product ==
    ASSUME NEW n \in 0 .. MaxFaults
    PROVE /\ n * MaxErrors \in Nat
          /\ (n + 1) * MaxErrors = n * MaxErrors + MaxErrors
          /\ n * MaxErrors + MaxErrors <= (MaxFaults + 1) * MaxErrors
<1>1. n \in Nat /\ MaxErrors \in Nat /\ MaxFaults \in Nat /\ MaxFaults - n \in Nat
  BY Limits
<1>2. n * MaxErrors \in Nat
  BY <1>1
<1>3. (n + 1) * MaxErrors = n * MaxErrors + MaxErrors
  BY <1>1
<1>4. (MaxFaults - n) * MaxErrors \in Nat
  BY <1>1
<1>5. (MaxFaults + 1) * MaxErrors = (n + 1) * MaxErrors + (MaxFaults - n) * MaxErrors
  BY <1>1
<1> QED BY <1>1, <1>2, <1>3, <1>4, <1>5

LEMMA CountIn ==
    ASSUME NEW o \in Outcome, RegistryOK
    PROVE Count(o) \in Nat /\ window[o][0] \in Nat /\ window[o][0] <= Count(o)
<1> DEFINE All == Age \X (1 .. MaxEvents)
           Of == {e \in All : e[2] <= window[o][e[1]]}
           n == window[o][0]
           f == [k \in 1 .. n |-> <<0, k>>]
<1>1. 0 \in Age /\ n \in 0 .. MaxEvents /\ MaxEvents \in Nat
  BY Limits DEF RegistryOK, Age
<1>2. IsFiniteSet(Age) /\ IsFiniteSet(1 .. MaxEvents)
  BY Limits, FS_Interval DEF Age
<1>3. IsFiniteSet(All)
  BY <1>2, FS_Product
<1>4. IsFiniteSet(Of)
  BY <1>3, FS_Subset
<1>5. f \in Injection(1 .. n, Of)
  <2>1. \A k \in 1 .. n : <<0, k>> \in Of
    BY <1>1
  <2>2. f \in [1 .. n -> Of]
    BY <2>1
  <2> QED BY <2>2 DEF Injection, IsInjective
<1>6. Cardinality(1 .. n) <= Cardinality(Of)
  BY <1>4, <1>5, FS_Injection
<1>7. Cardinality(1 .. n) = n
  BY <1>1, FS_Interval
<1>8. Cardinality(Of) \in Nat
  BY <1>4, FS_CardinalityType
<1> QED BY <1>1, <1>6, <1>7, <1>8 DEF Count

\* A window that takes another outcome has room for it.
LEMMA Room ==
    ASSUME RegistryOK, NEW o \in Outcome, Record(o)
    PROVE window[o][0] \in Nat /\ window[o][0] + 1 \in 0 .. MaxEvents
<1>1. /\ Count("ok") \in Nat /\ Count("warn") \in Nat /\ Count("err") \in Nat
      /\ window[o][0] \in Nat /\ window[o][0] <= Count(o)
  BY CountIn DEF Outcome
<1>2. o = "ok" \/ o = "warn" \/ o = "err"
  BY DEF Outcome
<1> DEFINE all == Count("ok") + Count("warn") + Count("err")
<1>3. Count(o) <= all /\ all \in Int /\ Count(o) \in Nat
  BY <1>1, <1>2
<1>4. all < MaxEvents
  BY DEF Record
<1> HIDE DEF all
<1> QED BY <1>1, <1>3, <1>4, Limits

\* The registry's evidence.
LEMMA Candidates ==
    ASSUME NEW c \in State
    PROVE Candidate(c) \in State /\ (c \in Failing => Candidate(c) # "unknown")
<1>1. PassiveState \in State /\ ProbeState \in State
  BY DEF PassiveState, ProbeState, State
<1>2. Worst(PassiveState, ProbeState) \in State
  BY <1>1 DEF Worst
<1> HIDE DEF PassiveState, ProbeState
<1>3. "not_configured" \in State /\ "unknown" \in State
  BY DEF State
<1> QED BY <1>2, <1>3 DEF Candidate, Failing

LEMMA Evaluates ==
    ASSUME RegistryOK, EvidenceOK, StreakOK, NEW c \in State, EvaluateFrom(c)
    PROVE /\ RegistryOK' /\ EvidenceOK' /\ StreakOK'
          /\ c \in Failing => state' # "unknown"
          /\ (c \in Failing /\ Severity[state'] < Severity[c] /\ state' \in {"up", "degraded"})
               => better
<1> DEFINE x == Candidate(c)
<1>1. x \in State /\ (c \in Failing => x # "unknown")
  BY Candidates
<1> HIDE DEF x
<1>2. /\ state' = IF Waits(c, x) THEN c ELSE x
      /\ streak' = Streak(c, x) /\ better' = Waits(c, x)
      /\ window' = Shifted /\ errors' = errors
      /\ probe' = [probe EXCEPT !.age = IF @ <= Stale THEN @ + 1 ELSE @]
  BY DEF EvaluateFrom, x
<1>3. streak \in 0 .. 1
  BY DEF RegistryOK, RecoveryEvaluations
<1>4. Waits(c, x) <=> Improving(c, x) /\ streak = 0
  BY <1>3 DEF Waits, RecoveryEvaluations
<1>5. streak' = (IF Waits(c, x) THEN 1 ELSE 0)
  BY <1>2, <1>3, <1>4 DEF Streak
<1>6. better' \in BOOLEAN /\ StreakOK' /\ streak' \in 0 .. 1
  <2>1. Waits(c, x) \in BOOLEAN
    BY DEF Waits
  <2>2. better' \in BOOLEAN
    BY <1>2, <2>1
  <2>3. CASE Waits(c, x)
    BY <1>2, <1>5, <2>1, <2>3 DEF StreakOK
  <2>4. CASE ~Waits(c, x)
    BY <1>2, <1>5, <2>1, <2>4 DEF StreakOK
  <2> QED BY <2>2, <2>3, <2>4
<1>7. Shifted \in [Outcome -> [Age -> 0 .. MaxEvents]]
  <2>1. \A a \in Age : a # 0 => a - 1 \in Age
    BY Limits DEF Age
  <2>2. 0 \in 0 .. MaxEvents
    BY Limits
  <2> QED BY <2>1, <2>2 DEF Shifted, RegistryOK
<1>8. probe' \in [status: {"none", "ok", "degraded", "down"},
                  failures: 0 .. MaxErrors + ProbeDownAfter,
                  age: 0 .. Stale + 1, configured: BOOLEAN]
      /\ probe'.failures = probe.failures
  BY <1>2, Limits DEF RegistryOK
<1>9. state' \in State /\ (c \in Failing => state' # "unknown")
  BY <1>1, <1>2 DEF Failing
<1>10. RegistryOK'
  BY <1>2, <1>6, <1>7, <1>8, <1>9 DEF RegistryOK, RecoveryEvaluations
<1>11. EvidenceOK'
  BY <1>2, <1>8 DEF EvidenceOK
<1>12. ASSUME c \in Failing, Severity[state'] < Severity[c], state' \in {"up", "degraded"}
       PROVE better
  <2>1. Severity[c] \in Int
    BY DEF Severity, State
  <2>2. ~Waits(c, x) /\ state' = x
    BY <1>2, <1>12, <2>1
  <2>3. Improving(c, x)
    BY <1>12, <2>2 DEF Improving
  <2> QED BY <1>3, <1>4, <2>2, <2>3 DEF StreakOK
<1> QED BY <1>6, <1>9, <1>10, <1>11, <1>12
-----------------------------------------------------------------------------
\* The draft.
LEMMA Nones ==
    /\ None \notin Id /\ Gone \notin Id /\ None # Gone /\ None \notin Row
    /\ \A n \in Nat : n # None
<1>1. None \notin Nat /\ None \notin Row
  BY NoneAssumption
<1> QED BY <1>1, Limits DEF Id, Gone

LEMMA MarkedRow ==
    ASSUME NEW row \in Row, NEW kind \in Mails
    PROVE /\ Marked(row, kind) \in Row
          /\ Marked(row, kind).state = row.state /\ Marked(row, kind).count = row.count
          /\ Marked(row, kind).down = (row.down \/ kind = "down")
          /\ Marked(row, kind).degraded = (row.degraded \/ kind = "degraded")
<1>1. 0 \in 0 .. ReminderAfter
  BY Limits
<1>2. row.down \in BOOLEAN /\ row.degraded \in BOOLEAN /\ row.count \in Counts
  BY DEF Row
<1>3. (row.down \/ kind = "down") \in BOOLEAN /\ (row.degraded \/ kind = "degraded") \in BOOLEAN
  OBVIOUS
<1> DEFINE a == row.down \/ kind = "down"
           b == row.degraded \/ kind = "degraded"
<1>4. Marked(row, kind) = [row EXCEPT !.down = a, !.degraded = b, !.last = 0, !.counted = row.count]
  BY DEF Marked
<1>5. a \in BOOLEAN /\ b \in BOOLEAN
  BY <1>3
<1> HIDE DEF a, b
<1>6. /\ Marked(row, kind) \in Row
      /\ Marked(row, kind).state = row.state /\ Marked(row, kind).count = row.count
      /\ Marked(row, kind).down = a /\ Marked(row, kind).degraded = b
  BY <1>1, <1>2, <1>4, <1>5 DEF Row
<1> QED BY <1>6 DEF a, b

\* A mail is out when deliveries are not held and this one succeeds.
Out(d, mail) == d.hold = 0 /\ mail = "sent"
LEMMA Sends ==
    ASSUME NEW d \in Draft, NEW kind \in Mails, NEW mail \in Mail
    PROVE LET e == Send(d, kind, mail)
          IN  /\ e \in Draft
              /\ e.tracked = d.tracked /\ e.memory = d.memory
              /\ e.offset = d.offset /\ e.baseline = d.baseline
              /\ e.sent = (IF Out(d, mail) THEN d.sent \cup {kind} ELSE d.sent)
              /\ e.row = (IF Out(d, mail) /\ d.row # None THEN Marked(d.row, kind) ELSE d.row)
<1> DEFINE e == Send(d, kind, mail)
<1>1. SendRetry \in 0 .. SendRetry /\ d.hold \in Nat /\ d.sent \cup {kind} \in SUBSET Mails
  BY Limits DEF Draft
<1>2. d.row # None => Marked(d.row, kind) \in Row
  BY MarkedRow DEF Draft
<1>3. CASE d.hold > 0
  BY <1>1, <1>3 DEF Send, Out, Mail
<1>4. CASE ~(d.hold > 0) /\ mail = "refused"
  <2>1. e = [d EXCEPT !.hold = SendRetry]
    BY <1>4 DEF Send
  <2>2. e \in Draft /\ e.row = d.row /\ e.sent = d.sent
    BY <1>1, <2>1 DEF Draft
  <2>3. e.tracked = d.tracked /\ e.memory = d.memory /\ e.offset = d.offset /\ e.baseline = d.baseline
    BY <2>1 DEF Draft
  <2> QED BY <1>4, <2>2, <2>3 DEF Out, Mail
<1>5. CASE ~(d.hold > 0) /\ mail = "sent"
  <2> DEFINE r == IF d.row = None THEN None ELSE Marked(d.row, kind)
             s == d.sent \cup {kind}
  <2>1. e = [d EXCEPT !.sent = s, !.row = r]
    BY <1>5 DEF Send
  <2>2. r \in Row \cup {None} /\ s \in SUBSET Mails
    BY <1>1, <1>2
  <2>3. Out(d, mail) /\ (r = IF Out(d, mail) /\ d.row # None THEN Marked(d.row, kind) ELSE d.row)
    BY <1>1, <1>5 DEF Out
  <2> HIDE DEF r
  <2>4. e \in Draft /\ e.row = r /\ e.sent = s
    BY <2>1, <2>2 DEF Draft
  <2>5. e.tracked = d.tracked /\ e.memory = d.memory /\ e.offset = d.offset /\ e.baseline = d.baseline
    BY <2>1 DEF Draft
  <2> QED BY <2>3, <2>4, <2>5
<1> QED BY <1>3, <1>4, <1>5 DEF Mail

\* A sent mail keeps what the incident is.
LEMMA SentRow ==
    ASSUME NEW d \in Draft, NEW kind \in Mails, NEW mail \in Mail
    PROVE LET e == Send(d, kind, mail)
          IN  /\ e.row = None <=> d.row = None
              /\ e.row # None =>
                    /\ e.row.state = d.row.state /\ e.row.count = d.row.count
                    /\ e.row.down = (d.row.down \/ (Out(d, mail) /\ kind = "down"))
                    /\ e.row.degraded = (d.row.degraded \/ (Out(d, mail) /\ kind = "degraded"))
<1> DEFINE e == Send(d, kind, mail)
<1>1. e.row = (IF Out(d, mail) /\ d.row # None THEN Marked(d.row, kind) ELSE d.row)
  BY Sends DEF Out
<1>2. CASE Out(d, mail) /\ d.row # None
  <2>1. d.row \in Row
    BY <1>2 DEF Draft
  <2>2. Marked(d.row, kind) \in Row
    BY <2>1, MarkedRow
  <2> QED BY <1>1, <1>2, <2>1, <2>2, MarkedRow, Nones
<1>3. CASE d.row = None
  BY <1>1, <1>3
<1>4. CASE ~Out(d, mail) /\ d.row # None
  <2>1. d.row \in Row /\ e.row = d.row
    BY <1>1, <1>4 DEF Draft
  <2>2. d.row.down \in BOOLEAN /\ d.row.degraded \in BOOLEAN
    BY <2>1 DEF Row
  <2> QED BY <1>4, <2>1, <2>2
<1> QED BY <1>2, <1>3, <1>4

LEMMA NewRows ==
    ASSUME NEW s \in Failing, NEW b \in BOOLEAN
    PROVE /\ NewRow(s, b) \in Row
          /\ NewRow(s, b).state = s /\ NewRow(s, b).down = b /\ NewRow(s, b).degraded = FALSE
<1>1. (MaxFaults + 1) * MaxErrors \in Nat
  BY Limits
<1>2. 0 \in Counts
  BY <1>1 DEF Counts
<1>3. 0 \in 0 .. DegradedAfter /\ (IF b THEN 0 ELSE None) \in 0 .. ReminderAfter \cup {None}
  BY Limits
<1> QED BY <1>2, <1>3 DEF NewRow, Row

LEMMA Opens ==
    ASSUME TypeOK, NEW d \in Draft, NEW row \in Row, Free \in Id
    PROVE LET e == Opened(d, row)
          IN  /\ e \in Draft /\ e.row = row /\ e.tracked = Free
              /\ e.memory = d.memory /\ e.hold = d.hold /\ e.sent = d.sent
<1> DEFINE e == Opened(d, row)
<1> DEFINE base == IF errors > RecentErrors THEN errors - RecentErrors ELSE 0
<1>1. RecentErrors \in Nat
  <2>1. Count("err") \in Nat
    BY CountIn DEF TypeOK, Outcome
  <2>2. probe.failures \in Nat
    BY Limits DEF TypeOK, RegistryOK, ProbeDownAfter
  <2> QED BY <2>1, <2>2 DEF RecentErrors
<1>2. errors \in 0 .. MaxErrors /\ MaxErrors \in Nat
  BY Limits DEF TypeOK, RegistryOK
<1>3. base \in 0 .. MaxErrors
  BY <1>1, <1>2
<1>4. 0 \in 0 .. restarts * MaxErrors
  BY Product DEF TypeOK
<1>5. e = [d EXCEPT !.row = row, !.tracked = Free, !.offset = 0, !.baseline = base]
  BY DEF Opened
<1> HIDE DEF base
<1> QED BY <1>3, <1>4, <1>5 DEF Draft

LEMMA Recovers ==
    ASSUME NEW d \in Draft, NEW old \in State, NEW new \in State, NEW mail \in Mail
    PROVE LET e == RecoverFromMemory(d, old, new, mail)
          IN  /\ e \in Draft /\ e.tracked = d.tracked
              /\ ~d.memory => e = d
<1> DEFINE e == RecoverFromMemory(d, old, new, mail)
<1>1. CASE new # old /\ new = "up" /\ d.memory
  <2> DEFINE f == [d EXCEPT !.memory = FALSE]
  <2>1. f \in Draft /\ f.tracked = d.tracked
    BY DEF Draft
  <2>2. e = Send(f, "resolved", mail)
    BY <1>1 DEF RecoverFromMemory
  <2> HIDE DEF f
  <2>3. "resolved" \in Mails
    BY DEF Mails
  <2>4. Send(f, "resolved", mail) \in Draft /\ Send(f, "resolved", mail).tracked = f.tracked
    BY <2>1, <2>3, Sends DEF Out
  <2> QED BY <1>1, <2>1, <2>2, <2>4
<1>2. CASE ~(new # old /\ new = "up" /\ d.memory)
  BY <1>2 DEF RecoverFromMemory
<1> QED BY <1>1, <1>2

LEMMA FromMemory ==
    ASSUME NEW d \in Draft, NEW old \in State, NEW new \in State, NEW mail \in Mail
    PROVE LET e == AlertFromMemory(d, old, new, mail)
          IN  e \in Draft /\ e.tracked = d.tracked
<1> DEFINE e == AlertFromMemory(d, old, new, mail)
<1>1. CASE new # old /\ new = "down" /\ d.tracked = None /\ ~d.memory
  <2> DEFINE f == Send(d, "down", mail)
             m == "down" \in f.sent
  <2>1. "down" \in Mails
    BY DEF Mails
  <2>2. f \in Draft /\ f.tracked = d.tracked
    BY <2>1, Sends DEF Out
  <2>3. e = [f EXCEPT !.memory = m]
    BY <1>1 DEF AlertFromMemory
  <2>4. m \in BOOLEAN
    OBVIOUS
  <2> HIDE DEF f, m
  <2> QED BY <2>2, <2>3, <2>4 DEF Draft
<1>2. CASE ~(new # old /\ new = "down" /\ d.tracked = None /\ ~d.memory)
  <2>1. e = RecoverFromMemory(d, old, new, mail)
    BY <1>2 DEF AlertFromMemory
  <2> QED BY <2>1, Recovers DEF RecoverFromMemory
<1> QED BY <1>1, <1>2

LEMMA Applies ==
    ASSUME TypeOK, NEW d \in Draft, NEW old \in State, NEW new \in State,
           NEW mail \in Mail, Free \in Id
    PROVE LET e == Apply(d, old, new, mail)
          IN  /\ e \in Draft
              /\ e.memory = d.memory
              /\ (new # old /\ new \in Failing /\ d.row = None) =>
                    /\ e.row # None /\ e.row.state = new /\ ~e.row.down /\ ~e.row.degraded
                    /\ e.tracked = Free /\ e.hold = d.hold /\ e.sent = d.sent
              /\ (new # old /\ new \in Failing /\ d.row # None) =>
                    /\ e.row # None /\ e.row.state = new
                    /\ e.row.down = d.row.down /\ e.row.degraded = d.row.degraded
                    /\ e.tracked = d.tracked /\ e.hold = d.hold /\ e.sent = d.sent
              /\ (new # old /\ new \in {"up", "not_configured"} /\ d.row # None) => e.row = None /\ e.tracked = None
              /\ (new = old \/ (new \notin Failing /\ d.row = None)) => e = d
<1> DEFINE e == Apply(d, old, new, mail)
<1>1. CASE new # old /\ new \in Failing /\ d.row = None
  <2>1. e = Opened(d, NewRow(new, FALSE))
    BY <1>1 DEF Apply
  <2> DEFINE r == NewRow(new, FALSE)
  <2>2. r \in Row /\ r # None /\ r.state = new /\ ~r.down /\ ~r.degraded
    BY <1>1, NewRows, Nones
  <2> HIDE DEF e, r
  <2>3. /\ e \in Draft /\ e.row = r /\ e.tracked = Free
        /\ e.memory = d.memory /\ e.hold = d.hold /\ e.sent = d.sent
    BY <2>1, <2>2, Opens DEF r
  <2> USE DEF e
  <2> QED BY <1>1, <2>2, <2>3
<1>2. CASE new # old /\ new \in Failing /\ d.row # None
  <2>1. e = [d EXCEPT !.row.state = new]
    BY <1>2 DEF Apply
  <2>2. [d.row EXCEPT !.state = new] \in Row
    BY <1>2 DEF Draft, Row
  <2> DEFINE r == [d.row EXCEPT !.state = new]
  <2>3. e = [d EXCEPT !.row = r] /\ r \in Row
    BY <2>1, <2>2
  <2> HIDE DEF e, r
  <2>4. /\ e \in Draft /\ e.row = r /\ e.tracked = d.tracked
        /\ e.memory = d.memory /\ e.hold = d.hold /\ e.sent = d.sent
    BY <2>3 DEF Draft
  <2>5. /\ e.row # None /\ e.row.state = new
        /\ e.row.down = d.row.down /\ e.row.degraded = d.row.degraded
    <3>1. r # None
      BY <2>3, Nones
    <3>2. r.state = new /\ r.down = d.row.down /\ r.degraded = d.row.degraded
      BY <1>2 DEF r, Draft, Row
    <3> QED BY <2>4, <3>1, <3>2
  <2> USE DEF e
  <2> QED BY <1>2, <2>4, <2>5 DEF Failing
<1>3. CASE new # old /\ new \in {"up", "not_configured"} /\ d.row # None
  <2> DEFINE f == IF d.row.last # None /\ new = "up" THEN Send(d, "resolved", mail) ELSE d
  <2>1. new \notin Failing
    BY <1>3 DEF Failing
  <2>2. e = [f EXCEPT !.row = None, !.tracked = None]
    BY <1>3, <2>1 DEF Apply, Closes
  <2>3. "resolved" \in Mails
    BY DEF Mails
  <2>4. f \in Draft /\ f.memory = d.memory
    BY <2>3, Sends DEF Out
  <2> HIDE DEF f
  <2> QED BY <1>3, <2>1, <2>2, <2>4 DEF Draft
<1>4. CASE new = old \/ (new \notin Failing /\ d.row = None) \/ new = "unknown"
  <2>1. e = d
    BY <1>4 DEF Apply, Closes, Failing
  <2> QED BY <1>4, <2>1 DEF Failing
<1>5. new \in Failing \/ new = "unknown" \/ new \in {"up", "not_configured"}
  BY DEF State, Failing
<1> QED BY <1>1, <1>2, <1>3, <1>4, <1>5

LEMMA Reconciles ==
    ASSUME TypeOK, NEW d \in Draft, NEW new \in State, Free \in Id
    PROVE LET e == Reconcile(d, new)
          IN  /\ e \in Draft
              /\ (new \in Failing /\ d.tracked = None) =>
                    /\ e.row # None /\ e.row.state = new /\ e.row.down = d.memory
                    /\ ~e.row.degraded /\ e.tracked = Free /\ ~e.memory
                    /\ e.hold = d.hold /\ e.sent = d.sent
              /\ ~(new \in Failing /\ d.tracked = None) => e = d
<1> DEFINE e == Reconcile(d, new)
<1>1. CASE new \in Failing /\ d.tracked = None
  <2> DEFINE f == [d EXCEPT !.memory = FALSE]
  <2>1. f \in Draft /\ ~f.memory /\ f.hold = d.hold /\ f.sent = d.sent
    BY DEF Draft
  <2>2. e = Opened(f, NewRow(new, d.memory))
    BY <1>1 DEF Reconcile
  <2>3. d.memory \in BOOLEAN
    BY DEF Draft
  <2> DEFINE r == NewRow(new, d.memory)
  <2>4. /\ r \in Row /\ r # None
        /\ r.state = new /\ r.down = d.memory /\ ~r.degraded
    BY <1>1, <2>3, NewRows, Nones
  <2> HIDE DEF f, r
  <2>5. /\ e \in Draft /\ e.row = r /\ e.tracked = Free
        /\ e.memory = f.memory /\ e.hold = f.hold /\ e.sent = f.sent
    BY <2>1, <2>2, <2>4, Opens DEF r
  <2> QED BY <1>1, <2>1, <2>4, <2>5
<1>2. CASE ~(new \in Failing /\ d.tracked = None)
  BY <1>2 DEF Reconcile
<1> QED BY <1>1, <1>2

\* What is due for a row is at most one mail.
LEMMA Dues ==
    ASSUME NEW row \in Row
    PROVE /\ Due(row) \subseteq Mails
          /\ Due(row) # {} => (CHOOSE k \in Due(row) : TRUE) \in Due(row)
          /\ \A k, l \in Due(row) : k = l
          /\ "down" \in Due(row) => ~row.down
          /\ "degraded" \in Due(row) => ~row.degraded
          /\ (row.state = "down" /\ ~row.down) => Due(row) = {"down"}
<1>1. \/ Due(row) = {"down"} /\ row.state = "down" /\ ~row.down
      \/ Due(row) = {"degraded"} /\ row.state = "degraded" /\ ~row.degraded
      \/ Due(row) = {"reminder"} /\ ~(row.state = "down" /\ ~row.down)
      \/ Due(row) = {} /\ ~(row.state = "down" /\ ~row.down)
  BY DEF Due
<1>2. Due(row) # {} => (CHOOSE k \in Due(row) : TRUE) \in Due(row)
  OBVIOUS
<1> QED BY <1>1, <1>2 DEF Mails

LEMMA Alerts ==
    ASSUME NEW d \in Draft, d.row # None, NEW mail \in Mail
    PROVE LET e == Alert(d, mail)
          IN  /\ e \in Draft /\ e.row # None
              /\ e.row.state = d.row.state /\ e.row.count = d.row.count
              /\ e.tracked = d.tracked /\ e.memory = d.memory
<1> DEFINE k == CHOOSE k \in Due(d.row) : TRUE
<1>1. d.row \in Row
  BY DEF Draft
<1>2. CASE Due(d.row) = {}
  BY <1>2 DEF Alert
<1>3. CASE Due(d.row) # {}
  <2>1. Alert(d, mail) = Send(d, k, mail)
    BY <1>3 DEF Alert
  <2>2. k \in Mails
    BY <1>1, <1>3, Dues
  <2> HIDE DEF k
  <2>3. /\ Send(d, k, mail) \in Draft /\ Send(d, k, mail).tracked = d.tracked
        /\ Send(d, k, mail).memory = d.memory
    BY <2>2, Sends DEF Out
  <2>4. /\ Send(d, k, mail).row # None
        /\ Send(d, k, mail).row.state = d.row.state
        /\ Send(d, k, mail).row.count = d.row.count
    BY <2>2, SentRow DEF Out
  <2> QED BY <2>1, <2>3, <2>4
<1> QED BY <1>2, <1>3

\* The flags follow the mails, and a service that is down is mailed about.
LEMMA AlertFlags ==
    ASSUME NEW d \in Draft, d.row # None, d.sent = {}, NEW mail \in Mail
    PROVE LET e == Alert(d, mail)
          IN  /\ e.row.down = (d.row.down \/ "down" \in e.sent)
              /\ e.row.degraded = (d.row.degraded \/ "degraded" \in e.sent)
              /\ "down" \in e.sent => ~d.row.down
              /\ "degraded" \in e.sent => ~d.row.degraded
              /\ (d.row.state = "down" /\ Out(d, mail)) => e.row.down
<1> DEFINE k == CHOOSE k \in Due(d.row) : TRUE
           f == Send(d, k, mail)
<1>1. d.row \in Row /\ d.row.down \in BOOLEAN /\ d.row.degraded \in BOOLEAN
  BY DEF Draft, Row
<1>2. CASE Due(d.row) = {}
  <2>1. Alert(d, mail) = d
    BY <1>2 DEF Alert
  <2>2. d.row.state = "down" => d.row.down
    BY <1>1, <1>2, Dues
  <2> QED BY <1>1, <2>1, <2>2
<1>3. CASE Due(d.row) # {}
  <2>1. Alert(d, mail) = f
    BY <1>3 DEF Alert
  <2>2. k \in Mails /\ k \in Due(d.row)
    BY <1>1, <1>3, Dues
  <2>3. /\ k = "down" => ~d.row.down
        /\ k = "degraded" => ~d.row.degraded
        /\ (d.row.state = "down" /\ ~d.row.down) => k = "down"
    BY <1>1, <2>2, Dues
  <2> HIDE DEF k
  <2>4. f.sent = (IF Out(d, mail) THEN d.sent \cup {k} ELSE d.sent)
    BY <2>2, Sends DEF Out
  <2>5. f.sent = (IF Out(d, mail) THEN {k} ELSE {})
    BY <2>4
  <2>6. /\ f.row.down = (d.row.down \/ (Out(d, mail) /\ k = "down"))
        /\ f.row.degraded = (d.row.degraded \/ (Out(d, mail) /\ k = "degraded"))
    BY <2>2, SentRow DEF Out
  <2> HIDE DEF f
  <2>7. CASE Out(d, mail)
    BY <1>1, <2>1, <2>3, <2>5, <2>6, <2>7
  <2>8. CASE ~Out(d, mail)
    BY <1>1, <2>1, <2>3, <2>5, <2>6, <2>8
  <2> QED BY <2>7, <2>8
<1> QED BY <1>2, <1>3

LEMMA Counted ==
    ASSUME TypeOK, NEW d \in Draft, d.row # None
    PROVE LET e == SyncCounts(d)
          IN  /\ e \in Draft /\ e.row # None
              /\ e.row.count <= (restarts + 1) * MaxErrors
              /\ e.row.state = d.row.state
              /\ e.row.down = d.row.down /\ e.row.degraded = d.row.degraded
              /\ e.tracked = d.tracked /\ e.memory = d.memory
              /\ e.hold = d.hold /\ e.sent = d.sent
<1> DEFINE n == d.offset + (IF errors > d.baseline THEN errors - d.baseline ELSE 0)
           r == [d.row EXCEPT !.count = n]
<1>1. /\ d.offset \in 0 .. restarts * MaxErrors /\ d.baseline \in 0 .. MaxErrors
      /\ d.row \in Row
  BY DEF Draft
<1>2. errors \in 0 .. MaxErrors /\ MaxErrors \in Nat /\ restarts \in 0 .. MaxFaults
  BY Limits DEF TypeOK, RegistryOK
<1>3. /\ restarts * MaxErrors \in Nat
      /\ (restarts + 1) * MaxErrors = restarts * MaxErrors + MaxErrors
      /\ restarts * MaxErrors + MaxErrors <= (MaxFaults + 1) * MaxErrors
      /\ (MaxFaults + 1) * MaxErrors \in Nat
  BY <1>2, Product, Limits
<1> DEFINE a == restarts * MaxErrors
           b == (MaxFaults + 1) * MaxErrors
           c == (restarts + 1) * MaxErrors
<1>4. n \in 0 .. b /\ n <= c
  <2>1. a \in Nat /\ b \in Nat /\ c = a + MaxErrors /\ a + MaxErrors <= b /\ d.offset \in 0 .. a
    BY <1>1, <1>3
  <2> HIDE DEF a, b, c
  <2> QED BY <1>1, <1>2, <2>1
<1>5. n \in Counts
  BY <1>4 DEF Counts
<1>6. SyncCounts(d) = [d EXCEPT !.row.count = n]
  BY DEF SyncCounts
<1>7. SyncCounts(d) = [d EXCEPT !.row = r]
  BY <1>6
<1> HIDE DEF n, c
<1>8. /\ r \in Row /\ r.count = n /\ r.state = d.row.state
      /\ r.down = d.row.down /\ r.degraded = d.row.degraded
  BY <1>1, <1>5 DEF Row
<1> HIDE DEF r
<1>9. /\ SyncCounts(d) \in Draft /\ SyncCounts(d).row = r
      /\ SyncCounts(d).tracked = d.tracked /\ SyncCounts(d).memory = d.memory
      /\ SyncCounts(d).hold = d.hold /\ SyncCounts(d).sent = d.sent
  BY <1>7, <1>8 DEF Draft
<1>10. n <= (restarts + 1) * MaxErrors
  BY <1>4 DEF c
<1> QED BY <1>8, <1>9, <1>10, Nones

\* What a tick's work on the database leaves, whatever was lost before.
LEMMA Works ==
    ASSUME TypeOK, NEW d \in Draft, NEW old \in State, NEW new \in State,
           NEW mail \in Mail, Free \in Id
    PROVE LET w == Work(d, old, new, mail)
          IN  /\ w \in Draft
              /\ w.row = None => w.tracked = None
              /\ w.row # None => w.row.count <= (restarts + 1) * MaxErrors
<1> DEFINE e == RecoverFromMemory(d, old, new, mail)
           f == Apply(e, old, new, mail)
           g == Reconcile(f, new)
           w == Work(d, old, new, mail)
<1>1. e \in Draft
  BY Recovers
<1> HIDE DEF e
<1>2. f \in Draft
  BY <1>1, Applies
<1> HIDE DEF f
<1>3. g \in Draft
  BY <1>2, Reconciles
<1>4. w = Follow(g, mail)
  BY DEF Work, e, f, g
<1> HIDE DEF g, w
<1>5. CASE g.row = None
  <2>1. w = [g EXCEPT !.tracked = None]
    BY <1>4, <1>5 DEF Follow
  <2>2. w \in Draft /\ w.row = None /\ w.tracked = None
    BY <1>3, <1>5, <2>1 DEF Draft
  <2> QED BY <2>2 DEF w
<1>6. CASE g.row # None
  <2> DEFINE h == SyncCounts(g)
  <2>1. h \in Draft /\ h.row # None /\ h.row.count <= (restarts + 1) * MaxErrors
    BY <1>3, <1>6, Counted
  <2>2. w = Alert(h, mail)
    BY <1>4, <1>6 DEF Follow
  <2> HIDE DEF h
  <2>3. Alert(h, mail) \in Draft /\ Alert(h, mail).row # None /\ Alert(h, mail).row.count = h.row.count
    BY <2>1, Alerts
  <2>4. w \in Draft /\ w.row # None /\ w.row.count <= (restarts + 1) * MaxErrors
    BY <2>1, <2>2, <2>3
  <2> QED BY <2>4 DEF w
<1> QED BY <1>5, <1>6

\* A draft that agrees with the state before, and whose alerts are stored.
Agrees(d, old) ==
    /\ ~d.memory /\ d.sent = {}
    /\ d.row # None <=> d.tracked \in Id
    /\ d.row # None => d.row.state = old /\ old \in Failing
    /\ d.row = None => old \notin Failing
WasDown(d) == d.row # None /\ d.row.down
WasDegraded(d) == d.row # None /\ d.row.degraded

\* The draft before the alerts: the row of a failing service is there, in
\* its new state and with the flags it had.
LEMMA Reconciled ==
    ASSUME TypeOK, NEW d \in Draft, NEW old \in State, NEW new \in State,
           NEW mail \in Mail, Free \in Id, Agrees(d, old), old \in Failing => new # "unknown"
    PROVE LET g == Reconcile(Apply(RecoverFromMemory(d, old, new, mail), old, new, mail), new)
          IN  /\ g \in Draft /\ ~g.memory
              /\ new \notin Failing => g.row = None /\ (d.row = None => g.sent = {})
              /\ new \in Failing =>
                    /\ g.row # None /\ g.row.state = new
                    /\ g.row.down = WasDown(d) /\ g.row.degraded = WasDegraded(d)
                    /\ g.tracked = (IF d.row # None THEN d.tracked ELSE Free)
                    /\ g.hold = d.hold /\ g.sent = {}
<1> DEFINE f == Apply(d, old, new, mail)
           g == Reconcile(f, new)
<1>1. RecoverFromMemory(d, old, new, mail) = d
  BY Recovers DEF Agrees
<1>2. f \in Draft /\ f.memory = d.memory
  BY Applies
<1>3. new \in {"up", "not_configured"} \/ new = "unknown" \/ new \in Failing
  BY DEF State, Failing
<1>4. d.row \in Row \cup {None} /\ ~d.memory /\ d.sent = {}
  BY DEF Draft, Agrees
<1>5. CASE new \notin Failing /\ d.row = None
  <2>1. f = d
    BY <1>5, Applies
  <2>2. g = f
    BY <1>2, <1>5, Reconciles
  <2> QED BY <1>1, <1>2, <1>4, <1>5, <2>1, <2>2
<1>6. CASE new \notin Failing /\ d.row # None
  <2>1. new # old /\ new \in {"up", "not_configured"}
    BY <1>3, <1>6 DEF Agrees
  <2>2. f.row = None
    BY <1>6, <2>1, Applies
  <2>3. g = f
    BY <1>2, <1>6, Reconciles
  <2> QED BY <1>1, <1>2, <1>4, <1>6, <2>2, <2>3
<1>7. CASE new \in Failing /\ d.row = None
  <2>1. new # old
    BY <1>7 DEF Agrees
  <2>2. /\ f.row # None /\ f.row.state = new /\ ~f.row.down /\ ~f.row.degraded
        /\ f.tracked = Free /\ f.hold = d.hold /\ f.sent = d.sent
    BY <1>7, <2>1, Applies
  <2>3. f.tracked # None
    BY <2>2, Nones
  <2>4. g = f
    BY <1>2, <2>3, Reconciles
  <2>5. f.row.down \in BOOLEAN /\ f.row.degraded \in BOOLEAN
    BY <1>2, <2>2 DEF Draft, Row
  <2> QED BY <1>1, <1>2, <1>4, <1>7, <2>2, <2>4, <2>5 DEF WasDown, WasDegraded
<1>8. CASE new \in Failing /\ d.row # None
  <2>1. d.row \in Row /\ d.row.down \in BOOLEAN /\ d.row.degraded \in BOOLEAN
    BY <1>4, <1>8 DEF Row
  <2>2. d.tracked \in Id /\ d.tracked # None
    BY <1>8, Nones DEF Agrees
  <2>3. /\ f.row # None /\ f.row.state = new /\ f.tracked = d.tracked
        /\ f.row.down = d.row.down /\ f.row.degraded = d.row.degraded
        /\ f.hold = d.hold /\ f.sent = d.sent
    <3>1. CASE new = old
      <4>1. f = d
        BY <3>1, Applies
      <4> QED BY <1>8, <3>1, <4>1 DEF Agrees
    <3>2. CASE new # old
      BY <1>8, <3>2, Applies
    <3> QED BY <3>1, <3>2
  <2>4. g = f
    BY <1>2, <2>2, <2>3, Reconciles
  <2> QED BY <1>1, <1>2, <1>4, <1>8, <2>1, <2>3, <2>4 DEF WasDown, WasDegraded
<1> QED BY <1>5, <1>6, <1>7, <1>8

LEMMA CleanWork ==
    ASSUME TypeOK, NEW d \in Draft, NEW old \in State, NEW new \in State,
           NEW mail \in Mail, Free \in Id, Agrees(d, old), old \in Failing => new # "unknown"
    PROVE LET w == Work(d, old, new, mail)
          IN  /\ w \in Draft /\ ~w.memory
              /\ new \notin Failing => w.row = None /\ w.tracked = None /\ (d.row = None => w.sent = {})
              /\ new \in Failing =>
                    /\ w.row # None /\ w.row.state = new
                    /\ w.tracked = (IF d.row # None THEN d.tracked ELSE Free)
                    /\ w.row.down = (WasDown(d) \/ "down" \in w.sent)
                    /\ w.row.degraded = (WasDegraded(d) \/ "degraded" \in w.sent)
                    /\ "down" \in w.sent => ~WasDown(d)
                    /\ "degraded" \in w.sent => ~WasDegraded(d)
                    /\ (new = "down" /\ Out(d, mail)) => w.row.down
<1> DEFINE g == Reconcile(Apply(RecoverFromMemory(d, old, new, mail), old, new, mail), new)
           w == Work(d, old, new, mail)
<1>1. /\ g \in Draft /\ ~g.memory
      /\ new \notin Failing => g.row = None /\ (d.row = None => g.sent = {})
      /\ new \in Failing =>
            /\ g.row # None /\ g.row.state = new
            /\ g.row.down = WasDown(d) /\ g.row.degraded = WasDegraded(d)
            /\ g.tracked = (IF d.row # None THEN d.tracked ELSE Free)
            /\ g.hold = d.hold /\ g.sent = {}
  BY Reconciled
<1>2. w = Follow(g, mail)
  BY DEF Work
<1> HIDE DEF g, w
<1>3. CASE new \notin Failing
  <2>1. w = [g EXCEPT !.tracked = None]
    BY <1>1, <1>2, <1>3 DEF Follow
  <2>2. /\ w \in Draft /\ w.row = None /\ w.tracked = None
        /\ w.memory = g.memory /\ w.sent = g.sent
    BY <1>1, <1>3, <2>1 DEF Draft
  <2> QED BY <1>1, <1>3, <2>2 DEF w
<1>4. CASE new \in Failing
  <2> DEFINE h == SyncCounts(g)
             a == Alert(h, mail)
  <2>1. /\ h \in Draft /\ h.row # None /\ h.row.state = g.row.state
        /\ h.row.down = g.row.down /\ h.row.degraded = g.row.degraded
        /\ h.tracked = g.tracked /\ h.memory = g.memory
        /\ h.hold = g.hold /\ h.sent = g.sent
    BY <1>1, <1>4, Counted
  <2>2. w = a
    BY <1>1, <1>2, <1>4 DEF Follow
  <2> HIDE DEF h
  <2>3. /\ a \in Draft /\ a.row # None /\ a.row.state = h.row.state
        /\ a.tracked = h.tracked /\ a.memory = h.memory
    BY <2>1, Alerts
  <2>4. /\ a.row.down = (h.row.down \/ "down" \in a.sent)
        /\ a.row.degraded = (h.row.degraded \/ "degraded" \in a.sent)
        /\ "down" \in a.sent => ~h.row.down
        /\ "degraded" \in a.sent => ~h.row.degraded
        /\ (h.row.state = "down" /\ Out(h, mail)) => a.row.down
    BY <1>1, <1>4, <2>1, AlertFlags DEF Out
  <2> HIDE DEF a
  <2>5. Out(d, mail) => Out(h, mail)
    BY <1>1, <1>4, <2>1 DEF Out
  <2>6. /\ w \in Draft /\ ~w.memory /\ w.row # None /\ w.row.state = new
        /\ w.tracked = (IF d.row # None THEN d.tracked ELSE Free)
    BY <1>1, <1>4, <2>1, <2>2, <2>3
  <2>7. /\ w.row.down = (WasDown(d) \/ "down" \in w.sent)
        /\ w.row.degraded = (WasDegraded(d) \/ "degraded" \in w.sent)
        /\ "down" \in w.sent => ~WasDown(d)
        /\ "degraded" \in w.sent => ~WasDegraded(d)
        /\ (new = "down" /\ Out(d, mail)) => w.row.down
    BY <1>1, <1>4, <2>1, <2>2, <2>4, <2>5
  <2> QED BY <1>4, <2>6, <2>7 DEF w
<1> QED BY <1>3, <1>4

-----------------------------------------------------------------------------
\* What a draft shows as mailed was mailed.
Told(d) == mailed["down"] # 0 \/ "down" \in d.sent
Honest(d) == d.memory \/ (d.row # None /\ d.row.down) => Told(d)

LEMMA SendTells ==
    ASSUME NEW d \in Draft, Honest(d), NEW kind \in Mails, NEW mail \in Mail
    PROVE LET e == Send(d, kind, mail)
          IN  Honest(e) /\ (Told(d) => Told(e))
<1> DEFINE e == Send(d, kind, mail)
<1>1. /\ e.memory = d.memory
      /\ e.sent = (IF Out(d, mail) THEN d.sent \cup {kind} ELSE d.sent)
  BY Sends DEF Out
<1>2. /\ e.row = None <=> d.row = None
      /\ e.row # None => e.row.down = (d.row.down \/ (Out(d, mail) /\ kind = "down"))
  BY SentRow DEF Out
<1> HIDE DEF e
<1>3. Told(d) => Told(e)
  BY <1>1 DEF Told
<1>4. (Out(d, mail) /\ kind = "down") => Told(e)
  BY <1>1 DEF Told
<1>5. Honest(e)
  <2>1. CASE d.memory
    BY <1>3, <2>1 DEF Honest
  <2>2. CASE ~d.memory /\ e.row # None /\ e.row.down
    <3>1. d.row # None /\ (d.row.down \/ (Out(d, mail) /\ kind = "down"))
      BY <1>2, <2>2
    <3> QED BY <1>3, <1>4, <3>1 DEF Honest
  <2>3. CASE ~d.memory /\ ~(e.row # None /\ e.row.down)
    BY <1>1, <2>3 DEF Honest
  <2> QED BY <2>1, <2>2, <2>3
<1> QED BY <1>3, <1>5 DEF e

LEMMA RecoversTells ==
    ASSUME NEW d \in Draft, Honest(d), NEW old \in State, NEW new \in State, NEW mail \in Mail
    PROVE LET e == RecoverFromMemory(d, old, new, mail)
          IN  Honest(e)
<1>1. CASE new # old /\ new = "up" /\ d.memory
  <2> DEFINE f == [d EXCEPT !.memory = FALSE]
  <2>1. f \in Draft /\ ~f.memory /\ f.row = d.row /\ f.sent = d.sent
    BY DEF Draft
  <2> HIDE DEF f
  <2>2. Honest(f)
    BY <2>1 DEF Honest, Told
  <2>3. "resolved" \in Mails
    BY DEF Mails
  <2>4. Honest(Send(f, "resolved", mail))
    BY <2>1, <2>2, <2>3, SendTells
  <2> QED BY <1>1, <2>4 DEF RecoverFromMemory, f
<1>2. CASE ~(new # old /\ new = "up" /\ d.memory)
  BY <1>2 DEF RecoverFromMemory
<1> QED BY <1>1, <1>2

LEMMA MemoryTells ==
    ASSUME NEW d \in Draft, Honest(d), NEW old \in State, NEW new \in State, NEW mail \in Mail
    PROVE Honest(AlertFromMemory(d, old, new, mail))
<1>1. CASE new # old /\ new = "down" /\ d.tracked = None /\ ~d.memory
  <2> DEFINE f == Send(d, "down", mail)
             m == "down" \in f.sent
             e == [f EXCEPT !.memory = m]
  <2>1. "down" \in Mails
    BY DEF Mails
  <2>2. f \in Draft /\ Honest(f)
    BY <2>1, Sends, SendTells DEF Out
  <2>3. AlertFromMemory(d, old, new, mail) = e
    BY <1>1 DEF AlertFromMemory
  <2>4. m => Told(f)
    BY DEF Told
  <2> HIDE DEF f, m
  <2>5. e.memory = m /\ e.row = f.row /\ e.sent = f.sent
    BY <2>2 DEF Draft
  <2> HIDE DEF e
  <2>6. Told(e) <=> Told(f)
    BY <2>5 DEF Told
  <2>7. Honest(e)
    BY <2>2, <2>4, <2>5, <2>6 DEF Honest
  <2> QED BY <2>3, <2>7
<1>2. CASE ~(new # old /\ new = "down" /\ d.tracked = None /\ ~d.memory)
  BY <1>2, RecoversTells DEF AlertFromMemory
<1> QED BY <1>1, <1>2

LEMMA ApplyTells ==
    ASSUME TypeOK, NEW d \in Draft, Honest(d), NEW old \in State, NEW new \in State,
           NEW mail \in Mail, Free \in Id
    PROVE Honest(Apply(d, old, new, mail))
<1> DEFINE e == Apply(d, old, new, mail)
<1>1. CASE new # old /\ new \in Failing /\ d.row = None
  <2>1. e.memory = d.memory /\ ~e.row.down /\ e.sent = d.sent
    BY <1>1, Applies
  <2> HIDE DEF e
  <2>2. Honest(e)
    BY <2>1 DEF Honest, Told
  <2> QED BY <2>2 DEF e
<1>2. CASE new # old /\ new \in Failing /\ d.row # None
  <2>1. e.memory = d.memory /\ e.row.down = d.row.down /\ e.sent = d.sent
    BY <1>2, Applies
  <2> HIDE DEF e
  <2>2. Honest(e)
    BY <1>2, <2>1 DEF Honest, Told
  <2> QED BY <2>2 DEF e
<1>3. CASE new # old /\ new \in {"up", "not_configured"} /\ d.row # None
  <2> DEFINE f == IF d.row.last # None /\ new = "up" THEN Send(d, "resolved", mail) ELSE d
             g == [f EXCEPT !.row = None, !.tracked = None]
  <2>1. "resolved" \in Mails /\ new \notin Failing
    BY <1>3 DEF Mails, Failing
  <2>2. f \in Draft /\ Honest(f)
    BY <2>1, Sends, SendTells DEF Out
  <2>3. e = g
    BY <1>3, <2>1 DEF Apply, Closes
  <2> HIDE DEF f
  <2>4. g.memory = f.memory /\ g.row = None /\ g.sent = f.sent
    BY <2>2 DEF Draft
  <2> HIDE DEF g
  <2>5. Honest(g)
    BY <2>2, <2>4 DEF Honest, Told
  <2> QED BY <2>3, <2>5
<1>4. CASE new = old \/ (new \notin Failing /\ d.row = None) \/ new = "unknown"
  BY <1>4 DEF Apply, Closes, Failing
<1>5. new \in Failing \/ new = "unknown" \/ new \in {"up", "not_configured"}
  BY DEF State, Failing
<1> QED BY <1>1, <1>2, <1>3, <1>4, <1>5

LEMMA ReconcileTells ==
    ASSUME TypeOK, NEW d \in Draft, Honest(d), NEW new \in State, Free \in Id
    PROVE Honest(Reconcile(d, new))
<1> DEFINE e == Reconcile(d, new)
<1>1. CASE new \in Failing /\ d.tracked = None
  <2>1. e.row.down = d.memory /\ ~e.memory /\ e.sent = d.sent
    BY <1>1, Reconciles
  <2> HIDE DEF e
  <2>2. Honest(e)
    BY <2>1 DEF Honest, Told
  <2> QED BY <2>2 DEF e
<1>2. CASE ~(new \in Failing /\ d.tracked = None)
  BY <1>2 DEF Reconcile
<1> QED BY <1>1, <1>2

LEMMA AlertTells ==
    ASSUME NEW d \in Draft, Honest(d), d.row # None, NEW mail \in Mail
    PROVE Honest(Alert(d, mail))
<1>1. CASE Due(d.row) = {}
  BY <1>1 DEF Alert
<1>2. CASE Due(d.row) # {}
  <2> DEFINE k == CHOOSE k \in Due(d.row) : TRUE
  <2>1. Alert(d, mail) = Send(d, k, mail)
    BY <1>2 DEF Alert
  <2>2. d.row \in Row
    BY DEF Draft
  <2>3. k \in Mails
    BY <1>2, <2>2, Dues
  <2> HIDE DEF k
  <2> QED BY <2>1, <2>3, SendTells
<1> QED BY <1>1, <1>2

LEMMA FollowTells ==
    ASSUME TypeOK, NEW d \in Draft, Honest(d), NEW mail \in Mail
    PROVE Honest(Follow(d, mail))
<1>1. CASE d.row = None
  <2> DEFINE e == [d EXCEPT !.tracked = None]
  <2>1. Follow(d, mail) = e
    BY <1>1 DEF Follow
  <2>2. e.row = d.row /\ e.memory = d.memory /\ e.sent = d.sent
    BY DEF Draft
  <2> HIDE DEF e
  <2>3. Honest(e)
    BY <2>2 DEF Honest, Told
  <2> QED BY <2>1, <2>3
<1>2. CASE d.row # None
  <2> DEFINE h == SyncCounts(d)
  <2>1. /\ h \in Draft /\ h.row # None /\ h.row.down = d.row.down
        /\ h.memory = d.memory /\ h.sent = d.sent
    BY <1>2, Counted
  <2>2. Follow(d, mail) = Alert(h, mail)
    BY <1>2 DEF Follow
  <2> HIDE DEF h
  <2>3. Honest(h)
    BY <1>2, <2>1 DEF Honest, Told
  <2> QED BY <2>1, <2>2, <2>3, AlertTells
<1> QED BY <1>1, <1>2

LEMMA WorkTells ==
    ASSUME TypeOK, NEW d \in Draft, Honest(d), NEW old \in State, NEW new \in State,
           NEW mail \in Mail, Free \in Id
    PROVE Honest(Work(d, old, new, mail))
<1> DEFINE e == RecoverFromMemory(d, old, new, mail)
           f == Apply(e, old, new, mail)
           g == Reconcile(f, new)
<1>1. e \in Draft /\ Honest(e)
  BY Recovers, RecoversTells
<1> HIDE DEF e
<1>2. f \in Draft /\ Honest(f)
  BY <1>1, Applies, ApplyTells
<1> HIDE DEF f
<1>3. g \in Draft /\ Honest(g)
  BY <1>2, Reconciles, ReconcileTells
<1>4. Work(d, old, new, mail) = Follow(g, mail)
  BY DEF Work, e, f, g
<1> HIDE DEF g
<1> QED BY <1>3, <1>4, FollowTells

\* A service that is found down is told of by the work of a tick that may
\* deliver, when the row that is followed is there and shows it down, or the
\* transition is this tick's.
LEMMA WorkMails ==
    ASSUME TypeOK, NEW d \in Draft, Honest(d), NEW old \in State, Free \in Id,
           d.hold = 0, d.sent = {}, d.tracked = Gone => old # "down",
           d.row # None <=> d.tracked \in Id,
           d.row # None => old # "down" \/ d.row.state = "down"
    PROVE Told(Work(d, old, "down", "sent"))
<1> DEFINE f == Apply(d, old, "down", "sent")
           g == Reconcile(f, "down")
           h == SyncCounts(g)
           a == Alert(h, "sent")
<1>1. "down" \in State /\ "down" \in Failing /\ "sent" \in Mail
  BY DEF State, Failing, Mail
<1>2. d.tracked \in {None, Gone} \/ d.tracked \in Id
  BY DEF Draft
<1>3. f \in Draft
  BY <1>1, Applies
<1>4. /\ g \in Draft /\ g.row # None /\ g.row.state = "down"
      /\ g.hold = 0 /\ g.sent = {}
  <2>1. CASE d.row = None /\ old = "down"
    <3>1. f = d
      BY <1>1, <2>1, Applies
    <3>2. d.tracked = None
      BY <1>2, <2>1
    <3> QED BY <1>1, <3>1, <3>2, Reconciles
  <2>2. CASE d.row = None /\ old # "down"
    <3>1. /\ f.row # None /\ f.row.state = "down" /\ f.tracked = Free
          /\ f.hold = d.hold /\ f.sent = d.sent
      BY <1>1, <2>2, Applies
    <3>2. f.tracked # None
      BY <3>1, Nones
    <3>3. g = f
      BY <1>1, <1>3, <3>2, Reconciles
    <3> QED BY <1>3, <3>1, <3>3
  <2>3. CASE d.row # None
    <3>1. /\ f.row # None /\ f.row.state = "down" /\ f.tracked = d.tracked
          /\ f.hold = d.hold /\ f.sent = d.sent
      <4>1. CASE old = "down"
        <5>1. f = d
          BY <1>1, <4>1, Applies
        <5> QED BY <2>3, <4>1, <5>1
      <4>2. CASE old # "down"
        BY <1>1, <2>3, <4>2, Applies
      <4> QED BY <4>1, <4>2
    <3>2. f.tracked # None
      BY <2>3, <3>1, Nones
    <3>3. g = f
      BY <1>1, <1>3, <3>2, Reconciles
    <3> QED BY <1>3, <3>1, <3>3
  <2> QED BY <2>1, <2>2, <2>3
<1>5. RecoverFromMemory(d, old, "down", "sent") = d
  BY DEF RecoverFromMemory
<1>6. Work(d, old, "down", "sent") = Follow(g, "sent")
  BY <1>5 DEF Work
<1>7. Honest(Work(d, old, "down", "sent"))
  BY <1>1, WorkTells
<1> HIDE DEF g
<1>8. /\ h \in Draft /\ h.row # None /\ h.row.state = "down"
      /\ h.hold = 0 /\ h.sent = {}
  BY <1>4, Counted
<1>9. Follow(g, "sent") = a
  BY <1>4 DEF Follow
<1> HIDE DEF h
<1>10. a.row # None /\ a.row.down
  BY <1>1, <1>8, Alerts, AlertFlags DEF Out
<1> QED BY <1>6, <1>7, <1>9, <1>10 DEF Honest

-----------------------------------------------------------------------------
\* The tick.
LEMMA Aged ==
    ASSUME TypeOK
    PROVE /\ AgedRows \in [Id -> Row \cup {None}]
          /\ \A i \in Id :
                /\ AgedRows[i] = None <=> rows[i] = None
                /\ rows[i] # None =>
                      /\ AgedRows[i].state = rows[i].state /\ AgedRows[i].count = rows[i].count
                      /\ AgedRows[i].down = rows[i].down /\ AgedRows[i].degraded = rows[i].degraded
<1> SUFFICES ASSUME NEW i \in Id
             PROVE  /\ AgedRows[i] \in Row \cup {None}
                    /\ AgedRows[i] = None <=> rows[i] = None
                    /\ rows[i] # None =>
                          /\ AgedRows[i].state = rows[i].state /\ AgedRows[i].count = rows[i].count
                          /\ AgedRows[i].down = rows[i].down /\ AgedRows[i].degraded = rows[i].degraded
  BY DEF AgedRows
<1>1. CASE rows[i] = None
  BY <1>1 DEF AgedRows
<1>2. CASE rows[i] # None
  <2> DEFINE r == rows[i]
             a == Older(r.age, DegradedAfter)
             l == Older(r.last, ReminderAfter)
             s == [r EXCEPT !.age = a, !.last = l]
  <2>1. r \in Row /\ r.age \in 0 .. DegradedAfter /\ r.last \in 0 .. ReminderAfter \cup {None}
    BY <1>2 DEF TypeOK, Row
  <2>2. a \in 0 .. DegradedAfter
    BY <2>1, Limits, Nones DEF Older
  <2>3. l \in 0 .. ReminderAfter \cup {None}
    BY <2>1, Limits DEF Older
  <2>4. AgedRows[i] = s
    BY <1>2 DEF AgedRows
  <2> HIDE DEF a, l
  <2>5. s \in Row /\ s.state = r.state /\ s.count = r.count /\ s.down = r.down /\ s.degraded = r.degraded
    BY <2>1, <2>2, <2>3 DEF Row
  <2> HIDE DEF s
  <2> QED BY <1>2, <2>4, <2>5, Nones
<1> QED BY <1>1, <1>2

LEMMA Begins ==
    ASSUME IInv, NEW db, NEW t \in Load(db)
    PROVE /\ Begun(db, t) \in Draft
          /\ t \in Id \cup {None, Gone}
          /\ Current(db, t) \in State
          /\ hold <= 1 => Begun(db, t).hold = 0
          /\ Loading(db) => (t \in Id /\ rows[t] # None) \/ (NoRow /\ t = None)
          /\ ~Loading(db) => t = tracked
          /\ t \in Id => rows[t] # None
          /\ ~loaded => t # Gone
          /\ Begun(db, t).row # None <=> t \in Id
          /\ Honest(Begun(db, t))
<1> USE DEF IInv
<1>1. Loading(db) => (t \in Id /\ rows[t] # None) \/ (NoRow /\ t = None)
  <2> SUFFICES ASSUME Loading(db) PROVE (t \in Id /\ rows[t] # None) \/ (NoRow /\ t = None)
    OBVIOUS
  <2>1. CASE NoRow
    <3>1. t = tracked /\ tracked \notin Id /\ tracked # Gone
      BY <2>1 DEF Load, NoRow, FollowsOK, Loading
    <3> QED BY <2>1, <3>1 DEF TypeOK
  <2>2. CASE ~NoRow
    BY <2>2 DEF Load, NoRow
  <2> QED BY <2>1, <2>2
<1>2. ~Loading(db) => t = tracked
  BY DEF Load
<1>3. t \in Id \cup {None, Gone}
  BY <1>1, <1>2 DEF TypeOK
<1>4. (Loading(db) /\ t \in Id) => rows[t] \in Row
  BY <1>1, Nones DEF TypeOK, NoRow
<1>5. Current(db, t) \in State
  <2>1. state \in State
    BY DEF TypeOK, RegistryOK
  <2>2. \A r \in Row : r.state \in State
    BY DEF Row, Failing, State
  <2> QED BY <1>4, <2>1, <2>2 DEF Current
<1>6. Held \in 0 .. SendRetry /\ (hold <= 1 => Held = 0)
  BY Limits DEF TypeOK, Held
<1> DEFINE known == Loading(db) /\ t \in Id
           o == IF known THEN rows[t].count ELSE offset
           b == IF known THEN errors ELSE baseline
           r == IF t \in Id THEN AgedRows[t] ELSE None
<1>7. o \in 0 .. restarts * MaxErrors
  <2>1. restarts * MaxErrors \in Nat /\ (MaxFaults + 1) * MaxErrors \in Nat
    BY Product, Limits DEF TypeOK
  <2>2. CASE known
    <3>1. rows[t].count \in Nat
      BY <1>4, <2>1, <2>2 DEF Row, Counts
    <3>2. rows[t].count <= restarts * MaxErrors
      BY <1>1, <2>2, Nones DEF CountsOK, Loading, NoRow
    <3> QED BY <2>1, <2>2, <3>1, <3>2
  <2>3. CASE ~known
    <3>1. offset \in Nat /\ offset <= restarts * MaxErrors
      BY <2>1 DEF TypeOK, CountsOK, Counts
    <3> QED BY <2>1, <2>3, <3>1
  <2> QED BY <2>2, <2>3
<1>8. b \in 0 .. MaxErrors
  BY DEF TypeOK, RegistryOK
<1>9. r \in Row \cup {None}
  BY Aged
<1>10. Begun(db, t) = [row |-> r, tracked |-> t, memory |-> memory, offset |-> o,
                       baseline |-> b, hold |-> Held, sent |-> {}]
  BY DEF Begun
<1>11. memory \in BOOLEAN
  BY DEF TypeOK
<1> HIDE DEF o, b, r
<1>12. /\ Begun(db, t) \in Draft /\ Begun(db, t).hold = Held
       /\ Begun(db, t).row = r /\ Begun(db, t).memory = memory
  BY <1>3, <1>6, <1>7, <1>8, <1>9, <1>10, <1>11 DEF Draft
<1>13. t \in Id => rows[t] # None
  BY <1>1, <1>2, Nones DEF FollowsOK
<1>14. ~loaded => t # Gone
  BY <1>1, <1>2, Nones DEF FollowsOK
<1>15. /\ r # None <=> t \in Id
       /\ r # None => r.down = rows[t].down
  BY <1>13, Aged DEF r
<1>16. Honest(Begun(db, t))
  BY <1>12, <1>13, <1>15 DEF Honest, Told, ToldOK
<1> QED BY <1>1, <1>2, <1>3, <1>5, <1>6, <1>12, <1>13, <1>14, <1>15, <1>16

LEMMA FreeRow == (\E i \in Id : rows[i] = None) => Free \in Id /\ rows[Free] = None
BY DEF Free

LEMMA Ends ==
    ASSUME IInv, NEW db \in Answer, NEW t \in Load(db), NEW new \in State, NEW mail \in Mail,
           db \in {"ok", "lost"} => \E i \in Id : rows[i] = None
    PROVE LET d == Ended(db, t, new, mail)
          IN  /\ d \in Draft /\ Honest(d)
              /\ db \notin {"ok", "lost"} => d.tracked = t
              /\ db \in {"ok", "lost"} =>
                    /\ d = Work(Begun(db, t), Current(db, t), new, mail)
                    /\ d.row = None => d.tracked = None
                    /\ d.row # None => d.row.count <= (restarts + 1) * MaxErrors
<1> DEFINE b == Begun(db, t)
           old == Current(db, t)
           d == Ended(db, t, new, mail)
<1>1. b \in Draft /\ old \in State /\ TypeOK /\ Honest(b)
  BY Begins DEF IInv
<1>2. b.tracked = t
  BY DEF Begun
<1> HIDE DEF b, old
<1>3. CASE db \in {"ok", "lost"}
  <2>1. d = Work(b, old, new, mail)
    BY <1>3 DEF Ended, b, old
  <2>2. Free \in Id
    BY <1>3, FreeRow
  <2>3. /\ Work(b, old, new, mail) \in Draft
        /\ Work(b, old, new, mail).row = None => Work(b, old, new, mail).tracked = None
        /\ Work(b, old, new, mail).row # None =>
              Work(b, old, new, mail).row.count <= (restarts + 1) * MaxErrors
    BY <1>1, <2>2, Works
  <2>4. Honest(Work(b, old, new, mail))
    BY <1>1, <2>2, WorkTells
  <2> QED BY <1>3, <2>1, <2>3, <2>4 DEF b, old
<1>4. CASE db = "refused"
  <2> DEFINE e == RecoverFromMemory(b, old, new, mail)
             m == e.memory /\ ~(new = old /\ new \in Failing /\ b.tracked = None)
             f == [e EXCEPT !.memory = m]
  <2>1. e \in Draft /\ e.tracked = t /\ Honest(e)
    BY <1>1, <1>2, Recovers, RecoversTells
  <2>2. d = AlertFromMemory(f, old, new, mail)
    BY <1>4 DEF Ended, Refused, b, old
  <2>3. m \in BOOLEAN /\ (m => e.memory)
    BY <2>1 DEF Draft
  <2> HIDE DEF e, m
  <2>4. f \in Draft /\ f.tracked = e.tracked /\ f.memory = m /\ f.row = e.row /\ f.sent = e.sent
    BY <2>1, <2>3 DEF Draft
  <2> HIDE DEF f, d
  <2>5. Honest(f)
    BY <2>1, <2>3, <2>4 DEF Honest, Told
  <2>6. /\ AlertFromMemory(f, old, new, mail) \in Draft
        /\ AlertFromMemory(f, old, new, mail).tracked = f.tracked
        /\ Honest(AlertFromMemory(f, old, new, mail))
    BY <1>1, <2>4, <2>5, FromMemory, MemoryTells
  <2> QED BY <1>4, <2>1, <2>2, <2>4, <2>6 DEF d
<1>5. CASE db \in {"seeded", "unreachable"}
  <2>1. d = AlertFromMemory(b, old, new, mail)
    BY <1>5 DEF Ended, b, old
  <2>2. /\ AlertFromMemory(b, old, new, mail) \in Draft
        /\ AlertFromMemory(b, old, new, mail).tracked = b.tracked
        /\ Honest(AlertFromMemory(b, old, new, mail))
    BY <1>1, FromMemory, MemoryTells
  <2> QED BY <1>2, <1>5, <2>1, <2>2
<1> QED BY <1>3, <1>4, <1>5 DEF Answer

\* The facts of one tick, with the draft it ends with.
Ticked(db, t, d) ==
    /\ d \in Draft /\ Honest(d)
    /\ rows' = IF db = "ok" THEN Stored(t, d) ELSE AgedRows
    /\ loaded => db \notin {"seeded", "unreachable"}
    /\ loaded' = (db \notin {"seeded", "unreachable"})
    /\ tracked' = IF db = "lost" /\ d.tracked \in Id /\ AgedRows[d.tracked] = None
                 THEN Gone ELSE d.tracked
    /\ offset' = d.offset /\ baseline' = d.baseline
    /\ memory' = d.memory /\ hold' = d.hold
    /\ lost' = (IF db = "lost" THEN lost + 1 ELSE lost)
    /\ mailed' = Mailed(d, Quiet')
    /\ clean' = (db = "ok" /\ (clean \/ Quiet'))
    /\ db = "lost" => lost + restarts < MaxFaults
    /\ db \notin {"ok", "lost"} => d.tracked = t
    /\ db \in {"ok", "lost"} =>
          /\ Free \in Id /\ rows[Free] = None
          /\ d.row = None => d.tracked = None
          /\ d.row # None => d.row.count <= (restarts + 1) * MaxErrors
    /\ UNCHANGED <<credits, restarts>>

LEMMA TickFacts ==
    ASSUME IInv, NEW db \in Answer, NEW mail \in Mail, Tick(db, mail)
    PROVE \E t \in Load(db) :
             /\ EvaluateFrom(Current(db, t))
             /\ RegistryOK' /\ EvidenceOK' /\ StreakOK'
             /\ Current(db, t) \in Failing => state' # "unknown"
             /\ Ticked(db, t, Ended(db, t, state', mail))
<1>1. PICK t \in Load(db) :
        /\ loaded => db \notin {"seeded", "unreachable"}
        /\ db \in {"ok", "lost"} => \E i \in Id : rows[i] = None
        /\ EvaluateFrom(Current(db, t))
        /\ \E d \in {Ended(db, t, state', mail)} :
               /\ db = "lost" => lost + restarts < MaxFaults /\ Stored(t, d) # AgedRows
               /\ loaded' = (db \notin {"seeded", "unreachable"})
               /\ rows' = IF db = "ok" THEN Stored(t, d) ELSE AgedRows
               /\ tracked' = IF db = "lost" /\ d.tracked \in Id /\
                                AgedRows[d.tracked] = None
                             THEN Gone ELSE d.tracked
               /\ offset' = d.offset /\ baseline' = d.baseline
               /\ memory' = d.memory /\ hold' = d.hold
               /\ lost' = IF db = "lost" THEN lost + 1 ELSE lost
               /\ mailed' = Mailed(d, Quiet')
               /\ clean' = (db = "ok" /\ (clean \/ Quiet'))
        /\ UNCHANGED <<credits, restarts>>
  BY Zenon DEF Tick
<1>2. Current(db, t) \in State
  BY Begins
<1>3. /\ RegistryOK' /\ EvidenceOK' /\ StreakOK'
      /\ Current(db, t) \in Failing => state' # "unknown"
  BY <1>1, <1>2, Evaluates DEF IInv, TypeOK
<1>4. state' \in State
  BY <1>3 DEF RegistryOK
<1> DEFINE d == Ended(db, t, state', mail)
<1>5. db \in {"ok", "lost"} => \E i \in Id : rows[i] = None
  BY <1>1
<1>6. /\ d \in Draft /\ Honest(d)
      /\ db \notin {"ok", "lost"} => d.tracked = t
      /\ db \in {"ok", "lost"} =>
            /\ d.row = None => d.tracked = None
            /\ d.row # None => d.row.count <= (restarts + 1) * MaxErrors
  BY <1>4, <1>5, Ends
<1>7. db \in {"ok", "lost"} => Free \in Id /\ rows[Free] = None
  BY <1>5, FreeRow
<1>8. /\ db = "lost" => lost + restarts < MaxFaults /\ Stored(t, d) # AgedRows
      /\ loaded' = (db \notin {"seeded", "unreachable"})
      /\ rows' = IF db = "ok" THEN Stored(t, d) ELSE AgedRows
      /\ tracked' = IF db = "lost" /\ d.tracked \in Id /\
                   AgedRows[d.tracked] = None
                   THEN Gone ELSE d.tracked
      /\ offset' = d.offset /\ baseline' = d.baseline
      /\ memory' = d.memory /\ hold' = d.hold
      /\ lost' = IF db = "lost" THEN lost + 1 ELSE lost
      /\ mailed' = Mailed(d, Quiet')
      /\ clean' = (db = "ok" /\ (clean \/ Quiet'))
  BY <1>1, Zenon DEF d
<1> HIDE DEF d
<1>9. Ticked(db, t, d)
  BY <1>1, <1>6, <1>7, <1>8, Zenon DEF Ticked
<1> QED BY <1>1, <1>3, <1>9 DEF d

LEMMA StoredIn ==
    ASSUME TypeOK, NEW db, NEW t, NEW d \in Draft
    PROVE /\ Stored(t, d) \in [Id -> Row \cup {None}]
          /\ \A i \in Id : Stored(t, d)[i] = (IF i = d.tracked THEN d.row
                                             ELSE IF i = t THEN None ELSE AgedRows[i])
<1>1. d.row \in Row \cup {None}
  BY DEF Draft
<1> QED BY <1>1, Aged DEF Stored

LEMMA TickTypes ==
    ASSUME IInv, NEW db \in Answer, NEW t \in Load(db), NEW d,
           Ticked(db, t, d), RegistryOK'
    PROVE TypeOK' /\ CountsOK' /\ FollowsOK'
<1> USE DEF IInv
<1>1. rows' \in [Id -> Row \cup {None}]
  BY StoredIn, Aged DEF Ticked
<1>2. tracked' \in Id \cup {None, Gone}
  BY DEF Ticked, Draft
<1>3. restarts' = restarts /\ restarts \in 0 .. MaxFaults
  BY DEF Ticked, TypeOK
<1>4. /\ restarts * MaxErrors \in Nat
      /\ (restarts + 1) * MaxErrors = restarts * MaxErrors + MaxErrors
      /\ restarts * MaxErrors + MaxErrors <= (MaxFaults + 1) * MaxErrors
      /\ (MaxFaults + 1) * MaxErrors \in Nat /\ MaxErrors \in Nat
  BY <1>3, Product, Limits
<1>5. offset' \in 0 .. restarts * MaxErrors
  BY DEF Ticked, Draft
<1>6. offset' \in Counts /\ offset' <= restarts' * MaxErrors
  <2> DEFINE a == restarts * MaxErrors
             b == (MaxFaults + 1) * MaxErrors
  <2>1. a \in Nat /\ b \in Nat /\ a <= b /\ offset' \in 0 .. a
    BY <1>4, <1>5
  <2> HIDE DEF a, b
  <2>2. offset' \in 0 .. b /\ offset' <= a
    BY <2>1
  <2> QED BY <1>3, <2>2 DEF Counts, a, b
<1>7. mailed' \in [{"down", "degraded"} -> 0 .. 2]
  BY DEF Ticked, Mailed, TypeOK
<1>8. lost' \in 0 .. MaxFaults
  BY Limits DEF Ticked, TypeOK
<1>9. baseline' \in 0 .. MaxErrors /\ hold' \in 0 .. SendRetry /\ memory' \in BOOLEAN
  BY DEF Ticked, Draft
<1>10. loaded' \in BOOLEAN /\ clean' \in BOOLEAN
  <2>1. loaded' = (db \notin {"seeded", "unreachable"})
    BY Zenon DEF Ticked
  <2>2. clean' = (db = "ok" /\ (clean \/ Quiet'))
    BY Zenon DEF Ticked
  <2> QED BY <2>1, <2>2
<1>11. credits' \in BOOLEAN /\ restarts' \in 0 .. MaxFaults
  BY DEF Ticked, TypeOK
<1>12. TypeOK'
  BY <1>1, <1>2, <1>6, <1>7, <1>8, <1>9, <1>10, <1>11 DEF TypeOK
<1>13. ASSUME NEW i \in Id, rows'[i] # None
       PROVE rows'[i].count <= (IF loaded' THEN restarts' + 1 ELSE restarts') * MaxErrors
  <2>1. \A j \in Id : AgedRows[j] # None =>
           /\ AgedRows[j].count = rows[j].count
           /\ rows[j].count <= (IF loaded THEN restarts + 1 ELSE restarts) * MaxErrors
    BY Aged DEF CountsOK
  <2>2. CASE rows'[i] = AgedRows[i]
    <3>1. AgedRows[i] \in Row /\ AgedRows[i].count \in 0 .. (MaxFaults + 1) * MaxErrors
      BY <1>1, <1>13, <2>2 DEF Row, Counts
    <3>2. AgedRows[i].count <= (IF loaded THEN restarts + 1 ELSE restarts) * MaxErrors
      BY <1>13, <2>1, <2>2
    <3>3. AgedRows[i].count <= (restarts + 1) * MaxErrors
      <4> DEFINE a == restarts * MaxErrors
                 b == (restarts + 1) * MaxErrors
                 c == AgedRows[i].count
      <4>1. a \in Nat /\ b = a + MaxErrors /\ c \in Nat /\ c <= (IF loaded THEN b ELSE a)
        BY <1>4, <3>1, <3>2
      <4> HIDE DEF a, b, c
      <4>2. c <= b
        BY <1>4, <4>1
      <4> QED BY <4>2 DEF b, c
    <3>4. loaded => loaded'
      BY DEF Ticked
    <3> QED BY <1>3, <2>2, <3>2, <3>3, <3>4
  <2>3. CASE rows'[i] # AgedRows[i]
    <3>1. db = "ok" /\ rows' = Stored(t, d) /\ loaded'
      <4>1. db = "ok" /\ rows' = Stored(t, d)
        BY <2>3 DEF Ticked
      <4> QED BY <4>1 DEF Ticked
    <3>2. d \in Draft /\ (d.row # None => d.row.count <= (restarts + 1) * MaxErrors)
      BY <3>1 DEF Ticked
    <3>3. rows'[i] = d.row
      BY <1>13, <2>3, <3>1, <3>2, StoredIn DEF Ticked
    <3> DEFINE b == (restarts + 1) * MaxErrors
    <3>4. b = (restarts' + 1) * MaxErrors
      BY <1>3
    <3>5. d.row # None => d.row.count <= b
      BY <3>2
    <3> HIDE DEF b
    <3>6. rows'[i].count <= b
      BY <1>13, <3>3, <3>5
    <3> QED BY <3>1, <3>4, <3>6
  <2> QED BY <2>2, <2>3
<1>14. FollowsOK'
  <2>1. t \in Id => rows[t] # None
    BY Begins
  <2>2. ~loaded => t # Gone
    BY Begins
  <2>3. CASE db = "ok"
    <3>1. rows' = Stored(t, d) /\ tracked' = d.tracked /\ loaded' /\ d \in Draft
      BY <2>3 DEF Ticked
    <3>2. d.row = None => d.tracked = None
      BY <2>3 DEF Ticked
    <3>3. d.tracked \in Id => rows'[d.tracked] = d.row
      BY <3>1, StoredIn
    <3> QED BY <3>1, <3>2, <3>3, Nones DEF FollowsOK
  <2>4. CASE db = "lost"
    <3>1. rows' = AgedRows /\ loaded'
      BY <2>4 DEF Ticked
    <3>2. tracked' = IF d.tracked \in Id /\ AgedRows[d.tracked] = None THEN Gone ELSE d.tracked
      BY <2>4 DEF Ticked
    <3> QED BY <3>1, <3>2, Nones DEF FollowsOK
  <2>5. CASE db \notin {"ok", "lost"}
    <3>1. rows' = AgedRows /\ tracked' = t
      BY <2>5 DEF Ticked
    <3>2. t \in Id => AgedRows[t] # None
      BY <2>1, Aged
    <3>3. ~loaded' => ~loaded
      BY <2>5 DEF Ticked
    <3> QED BY <2>2, <3>1, <3>2, <3>3 DEF FollowsOK
  <2> QED BY <2>3, <2>4, <2>5
<1> QED BY <1>6, <1>12, <1>13, <1>14 DEF CountsOK

\* A tick with a database that answers, when it answered before.
LEMMA CleanBegins ==
    ASSUME IInv, clean, NEW t \in Load("ok")
    PROVE LET b == Begun("ok", t)
          IN  /\ Agrees(b, Current("ok", t))
              /\ b.row # None <=> t \in Id
              /\ t \in Id => rows[t] # None
              /\ \A i \in Id : rows[i] # None => i = t
              /\ mailed["down"] = (IF WasDown(b) THEN 1 ELSE 0)
              /\ mailed["degraded"] = (IF WasDegraded(b) THEN 1 ELSE 0)
<1> USE DEF IInv
<1> DEFINE b == Begun("ok", t)
           old == Current("ok", t)
<1>1. /\ b.row = (IF t \in Id THEN AgedRows[t] ELSE None) /\ b.tracked = t
      /\ b.memory = memory /\ b.sent = {}
  BY DEF Begun
<1>2. ~memory /\ Sole /\ HistoryMatches /\ MailsMatch /\ (~loaded => state \notin Failing)
  BY DEF CleanOK
<1>3. Loading("ok") <=> ~loaded
  BY DEF Loading, TypeOK
<1>4. /\ t \in Id => rows[t] # None /\ rows[t].state = old
      /\ t \notin Id => NoRow /\ old \notin Failing
      /\ \A i \in Id : rows[i] # None => i = t
  <2>1. CASE loaded
    <3>1. t = tracked /\ old = state
      BY <1>3, <2>1, Begins DEF Current
    <3>2. /\ state \in Failing <=> tracked \in Id
          /\ \A i \in Id : rows[i] # None <=> i = tracked
          /\ tracked \in Id => rows[tracked].state = state
      BY <1>2, <2>1 DEF HistoryMatches
    <3> QED BY <3>1, <3>2 DEF NoRow
  <2>2. CASE ~loaded
    <3>1. (t \in Id /\ rows[t] # None) \/ (NoRow /\ t = None)
      BY <1>3, <2>2, Begins
    <3>2. old = IF t \in Id THEN rows[t].state ELSE state
      BY <1>3, <2>2 DEF Current
    <3> QED BY <1>2, <2>2, <3>1, <3>2, Nones DEF Sole, NoRow
  <2> QED BY <2>1, <2>2
<1>5. CASE t \in Id
  <2>1. rows[t] \in Row /\ rows[t].state \in Failing
    BY <1>4, <1>5 DEF TypeOK, Row
  <2>2. /\ b.row # None /\ b.row.state = old
        /\ b.row.down = rows[t].down /\ b.row.degraded = rows[t].degraded
    BY <1>1, <1>4, <1>5, Aged
  <2>3. Flags(rows[t])
    BY <1>2, <1>4, <1>5 DEF MailsMatch
  <2>4. Agrees(b, old)
    BY <1>1, <1>2, <1>4, <1>5, <2>1, <2>2 DEF Agrees
  <2>5. WasDown(b) = b.row.down /\ WasDegraded(b) = b.row.degraded
    <3>1. b.row.down \in BOOLEAN /\ b.row.degraded \in BOOLEAN
      BY <2>1, <2>2 DEF Row
    <3> QED BY <2>2, <3>1 DEF WasDown, WasDegraded
  <2>6. /\ mailed["down"] = (IF WasDown(b) THEN 1 ELSE 0)
        /\ mailed["degraded"] = (IF WasDegraded(b) THEN 1 ELSE 0)
    BY <2>2, <2>3, <2>5 DEF Flags
  <2> QED BY <1>4, <1>5, <2>2, <2>4, <2>6
<1>6. CASE t \notin Id
  <2>1. b.row = None
    BY <1>1, <1>6
  <2>2. Agrees(b, old)
    BY <1>1, <1>2, <1>4, <1>6, <2>1 DEF Agrees
  <2>3. ~WasDown(b) /\ ~WasDegraded(b)
    BY <2>1 DEF WasDown, WasDegraded
  <2>4. mailed["down"] = 0 /\ mailed["degraded"] = 0
    BY <1>2, <1>4, <1>6 DEF MailsMatch, NoMail
  <2>5. \A i \in Id : rows[i] = None
    BY <1>4, <1>6 DEF NoRow
  <2> QED BY <1>6, <2>1, <2>2, <2>3, <2>4, <2>5
<1> QED BY <1>5, <1>6

LEMMA MailedNow ==
    ASSUME TypeOK, NEW d, NEW q \in BOOLEAN, NEW k \in {"down", "degraded"}
    PROVE /\ q => Mailed(d, q)[k] = 0
          /\ ~q => Mailed(d, q)[k] = (IF k \in d.sent /\ mailed[k] < 2 THEN mailed[k] + 1
                                     ELSE mailed[k])
BY DEF Mailed, TypeOK

\* What is shown as mailed stays true through a tick.
LEMMA TickTells ==
    ASSUME IInv, NEW db \in Answer, NEW t \in Load(db), NEW d, Ticked(db, t, d)
    PROVE /\ ToldOK'
          /\ Told(d) /\ ~Quiet' => mailed'["down"] # 0
<1>1. TypeOK /\ ToldOK
  BY DEF IInv
<1>2. /\ d \in Draft /\ Honest(d) /\ memory' = d.memory
      /\ mailed' = Mailed(d, Quiet')
      /\ rows' = IF db = "ok" THEN Stored(t, d) ELSE AgedRows
  BY DEF Ticked
<1>3. Quiet' \in BOOLEAN
  BY DEF Quiet
<1>4. mailed["down"] \in 0 .. 2
  BY <1>1 DEF TypeOK
<1>5. Told(d) /\ ~Quiet' => mailed'["down"] # 0
  <2> DEFINE q == Quiet'
  <2>1. q \in BOOLEAN /\ mailed' = Mailed(d, q)
    BY <1>2, <1>3
  <2> HIDE DEF q
  <2>2. ~q => mailed'["down"] = (IF "down" \in d.sent /\ mailed["down"] < 2
                                THEN mailed["down"] + 1 ELSE mailed["down"])
    BY <1>1, <2>1, MailedNow
  <2>3. Told(d) /\ ~q => mailed'["down"] # 0
    BY <1>4, <2>2 DEF Told
  <2> QED BY <2>3 DEF q
<1>6. memory' => mailed'["down"] # 0
  BY <1>2, <1>5 DEF Honest, Quiet
<1>7. ASSUME NEW i \in Id, rows'[i] # None, rows'[i].down
      PROVE mailed'["down"] # 0
  <2>1. ~Quiet'
    BY <1>7 DEF Quiet
  <2>2. Told(d)
    <3>1. CASE rows'[i] = AgedRows[i]
      <4>1. rows[i] # None /\ rows[i].down
        BY <1>1, <1>7, <3>1, Aged
      <4> QED BY <1>1, <4>1 DEF ToldOK, Told
    <3>2. CASE rows'[i] # AgedRows[i]
      <4>1. rows' = Stored(t, d)
        BY <1>2, <3>2
      <4>2. rows'[i] = d.row
        BY <1>1, <1>2, <1>7, <3>2, <4>1, StoredIn
      <4> QED BY <1>2, <1>7, <4>2 DEF Honest
    <3> QED BY <3>1, <3>2
  <2> QED BY <1>5, <2>1, <2>2
<1> QED BY <1>5, <1>6, <1>7 DEF ToldOK

LEMMA TickCleans ==
    ASSUME IInv, clean, NEW mail \in Mail, NEW t \in Load("ok"),
           state' \in State, Current("ok", t) \in Failing => state' # "unknown",
           Ticked("ok", t, Ended("ok", t, state', mail)),
           Ended("ok", t, state', mail) = Work(Begun("ok", t), Current("ok", t), state', mail)
    PROVE CleanOK'
<1> DEFINE b == Begun("ok", t)
           old == Current("ok", t)
           d == Ended("ok", t, state', mail)
<1>1. /\ Agrees(b, old)
      /\ b.row # None <=> t \in Id
      /\ t \in Id => rows[t] # None
      /\ \A i \in Id : rows[i] # None => i = t
      /\ mailed["down"] = (IF WasDown(b) THEN 1 ELSE 0)
      /\ mailed["degraded"] = (IF WasDegraded(b) THEN 1 ELSE 0)
  BY CleanBegins
<1>2. b \in Draft /\ old \in State /\ (hold <= 1 => b.hold = 0) /\ b.tracked = t
  BY Begins DEF Begun
<1>3. Free \in Id /\ rows[Free] = None /\ TypeOK
  BY DEF Ticked, IInv
<1> HIDE DEF b, old, d
<1>4. d = Work(b, old, state', mail)
  BY DEF b, old, d
<1>5. /\ d \in Draft /\ ~d.memory
      /\ state' \notin Failing => d.row = None /\ d.tracked = None /\ (b.row = None => d.sent = {})
      /\ state' \in Failing =>
            /\ d.row # None /\ d.row.state = state'
            /\ d.tracked = (IF b.row # None THEN b.tracked ELSE Free)
            /\ d.row.down = (WasDown(b) \/ "down" \in d.sent)
            /\ d.row.degraded = (WasDegraded(b) \/ "degraded" \in d.sent)
            /\ "down" \in d.sent => ~WasDown(b)
            /\ "degraded" \in d.sent => ~WasDegraded(b)
            /\ (state' = "down" /\ Out(b, mail)) => d.row.down
  <2>1. old \in Failing => state' # "unknown"
    BY DEF old
  <2> DEFINE new == state'
             w == Work(b, old, new, mail)
  <2>2. /\ w \in Draft /\ ~w.memory
        /\ new \notin Failing => w.row = None /\ w.tracked = None /\ (b.row = None => w.sent = {})
        /\ new \in Failing =>
              /\ w.row # None /\ w.row.state = new
              /\ w.tracked = (IF b.row # None THEN b.tracked ELSE Free)
              /\ w.row.down = (WasDown(b) \/ "down" \in w.sent)
              /\ w.row.degraded = (WasDegraded(b) \/ "degraded" \in w.sent)
              /\ "down" \in w.sent => ~WasDown(b)
              /\ "degraded" \in w.sent => ~WasDegraded(b)
              /\ (new = "down" /\ Out(b, mail)) => w.row.down
    BY <1>1, <1>2, <1>3, <2>1, CleanWork DEF b, old
  <2> QED BY <1>4, <2>2
<1>6. /\ rows' = Stored(t, d) /\ loaded' /\ tracked' = d.tracked /\ memory' = d.memory
      /\ mailed' = Mailed(d, Quiet') /\ Quiet' \in BOOLEAN
  BY DEF Ticked, d, Quiet
<1>7. \A i \in Id : rows'[i] = (IF i = d.tracked THEN d.row ELSE None)
  <2>1. \A i \in Id : i # t => AgedRows[i] = None
    BY <1>1, <1>3, Aged
  <2> QED BY <1>3, <1>5, <1>6, <2>1, StoredIn
<1>8. CASE state' \notin Failing
  <2>1. /\ \A i \in Id : rows'[i] = None
        /\ tracked' \notin Id /\ ~memory'
    BY <1>5, <1>6, <1>7, <1>8, Nones
  <2>2. mailed'["down"] = 0 /\ mailed'["degraded"] = 0
    <3>1. CASE Closes(state')
      <4>1. Quiet'
        BY <2>1, <3>1 DEF Quiet, Closes
      <4> QED BY <1>3, <1>6, <4>1, MailedNow
    <3>2. CASE ~Closes(state')
      <4>1. state' = "unknown"
        BY <1>8, <3>2 DEF Closes, Failing, State
      <4>2. old \notin Failing
        BY <4>1 DEF old
      <4>3. b.row = None /\ d.sent = {}
        BY <1>1, <1>5, <1>8, <4>2 DEF Agrees
      <4>4. mailed["down"] = 0 /\ mailed["degraded"] = 0
        BY <1>1, <4>3 DEF WasDown, WasDegraded
      <4>5. ~Quiet'
        BY <3>2 DEF Quiet, Closes
      <4> QED BY <1>3, <1>6, <4>3, <4>4, <4>5, MailedNow
    <3> QED BY <3>1, <3>2
  <2> QED BY <1>8, <2>1, <2>2
       DEF CleanOK, Sole, HistoryMatches, MailsMatch, NoRow, NoMail, Flags, Failing
<1>9. CASE state' \in Failing
  <2>1. d.tracked \in Id /\ d.row # None
    BY <1>1, <1>2, <1>3, <1>5, <1>9
  <2>2. /\ \A i \in Id : rows'[i] # None <=> i = tracked'
        /\ tracked' \in Id /\ rows'[tracked'] = d.row /\ ~memory'
    BY <1>5, <1>6, <1>7, <2>1
  <2>3. d.row.down \in BOOLEAN /\ d.row.degraded \in BOOLEAN /\ d.row.state = state'
    BY <1>5, <1>9, <2>1 DEF Draft, Row
  <2>7. ~Quiet'
    BY <1>9 DEF Quiet, Closes, Failing
  <2>4. mailed'["down"] = (IF d.row.down THEN 1 ELSE 0)
    <3>1. mailed'["down"] = IF "down" \in d.sent /\ mailed["down"] < 2 THEN mailed["down"] + 1
                            ELSE mailed["down"]
      BY <1>3, <1>6, <2>7, MailedNow
    <3> QED BY <1>1, <1>5, <1>9, <2>3, <3>1
  <2>5. mailed'["degraded"] = (IF d.row.degraded THEN 1 ELSE 0)
    <3>1. mailed'["degraded"] = IF "degraded" \in d.sent /\ mailed["degraded"] < 2
                                THEN mailed["degraded"] + 1 ELSE mailed["degraded"]
      BY <1>3, <1>6, <2>7, MailedNow
    <3> QED BY <1>1, <1>5, <1>9, <2>3, <3>1
  <2>6. CleanOK'
    <3>1. HistoryMatches'
      BY <1>9, <2>2, <2>3 DEF HistoryMatches
    <3>2. Sole'
      BY <2>2 DEF Sole
    <3>3. MailsMatch'
      BY <2>2, <2>4, <2>5 DEF MailsMatch, Flags, NoRow
    <3> QED BY <1>6, <2>2, <3>1, <3>2, <3>3 DEF CleanOK
  <2> QED BY <2>6
<1> QED BY <1>8, <1>9

\* A quiet tick makes the book clean again.
LEMMA QuietCleans ==
    ASSUME IInv, NEW t \in Load("ok"), NEW d, Ticked("ok", t, d), Quiet'
    PROVE CleanOK'
<1>1. d \in Draft /\ (d.row = None => d.tracked = None) /\ TypeOK
  BY DEF Ticked, IInv
<1>2. /\ rows' = Stored(t, d) /\ loaded' /\ tracked' = d.tracked
      /\ mailed' = Mailed(d, Quiet')
  BY DEF Ticked
<1>3. Closes(state') /\ (\A i \in Id : rows'[i] = None) /\ ~memory'
  BY DEF Quiet, Closes
<1>4. tracked' \notin Id
  <2>1. d.tracked \in Id => d.row = None
    BY <1>1, <1>2, <1>3, StoredIn
  <2> QED BY <1>1, <1>2, <2>1, Nones
<1>5. state' \notin Failing /\ state' \in State
  BY <1>3 DEF Closes, Failing, State
<1>6. mailed'["down"] = 0 /\ mailed'["degraded"] = 0
  <2>1. mailed' = Mailed(d, TRUE)
    BY <1>2
  <2> QED BY <1>1, <2>1, MailedNow
<1> QED BY <1>2, <1>3, <1>4, <1>5, <1>6
     DEF CleanOK, Sole, HistoryMatches, MailsMatch, NoRow, NoMail, Flags

LEMMA TickKeeps ==
    ASSUME IInv, NEW db \in Answer, NEW mail \in Mail, Tick(db, mail)
    PROVE IInv'
<1>1. PICK t \in Load(db) :
         /\ EvaluateFrom(Current(db, t))
         /\ RegistryOK' /\ EvidenceOK' /\ StreakOK'
         /\ Current(db, t) \in Failing => state' # "unknown"
         /\ Ticked(db, t, Ended(db, t, state', mail))
  BY TickFacts
<1> DEFINE d == Ended(db, t, state', mail)
<1>2. TypeOK' /\ CountsOK' /\ FollowsOK' /\ ToldOK'
  BY <1>1, TickTypes, TickTells
<1>3. state' \in State
  BY <1>1 DEF RegistryOK
<1>4. clean' <=> db = "ok" /\ (clean \/ Quiet')
  BY <1>1 DEF Ticked
<1>5. CASE db = "ok" /\ clean
  <2>1. d = Work(Begun(db, t), Current(db, t), state', mail)
    BY <1>5 DEF Ended
  <2>2. CleanOK'
    BY <1>1, <1>3, <1>5, <2>1, TickCleans
  <2> QED BY <1>1, <1>2, <2>2 DEF IInv
<1>6. CASE db = "ok" /\ ~clean /\ clean'
  <2>1. CleanOK'
    BY <1>1, <1>4, <1>6, QuietCleans
  <2> QED BY <1>1, <1>2, <2>1 DEF IInv
<1>7. CASE ~clean'
  BY <1>1, <1>2, <1>7 DEF IInv, CleanOK
<1> QED BY <1>4, <1>5, <1>6, <1>7

\* What a step leaves alone keeps the incidents as they were.
LEMMA Frame ==
    ASSUME IInv, UNCHANGED monitor, state' = state, RegistryOK', EvidenceOK', StreakOK'
    PROVE IInv'
<1> USE DEF IInv, monitor
<1>1. TypeOK'
  BY DEF TypeOK
<1>2. CountsOK' /\ FollowsOK' /\ ToldOK'
  BY DEF CountsOK, FollowsOK, ToldOK
<1>3. CleanOK'
  BY DEF CleanOK, Sole, HistoryMatches, MailsMatch, NoRow, NoMail, Flags
<1> QED BY <1>1, <1>2, <1>3

LEMMA RequestKeeps == IInv /\ Request => IInv'
<1> SUFFICES ASSUME IInv, Request PROVE IInv'
  OBVIOUS
<1>1. PICK o \in Heard : Record(o) /\ UNCHANGED monitor
  BY DEF Request
<1>2. RegistryOK /\ EvidenceOK /\ StreakOK /\ o \in Outcome /\ 0 \in Age
  BY HeardAssumption, Limits DEF IInv, TypeOK, Age
<1>5. window[o][0] + 1 \in 0 .. MaxEvents
  BY <1>1, <1>2, Room
<1>6. window' \in [Outcome -> [Age -> 0 .. MaxEvents]]
  BY <1>1, <1>2, <1>5 DEF Record, RegistryOK
<1>7. errors' \in 0 .. MaxErrors /\ errors' >= errors
  BY <1>1, <1>2, Limits DEF Record, RegistryOK
<1>8. RegistryOK'
  BY <1>1, <1>2, <1>6, <1>7 DEF Record, RegistryOK
<1>9. EvidenceOK'
  <2>1. probe.failures \in Nat /\ errors \in Nat /\ errors' \in Nat
    BY <1>2, <1>7, Limits DEF RegistryOK, ProbeDownAfter
  <2> QED BY <1>1, <1>2, <1>7, <2>1 DEF EvidenceOK, Record
<1>10. StreakOK' /\ state' = state
  BY <1>1, <1>2 DEF StreakOK, Record
<1> QED BY <1>1, <1>8, <1>9, <1>10, Frame

LEMMA ProbeKeeps == IInv /\ Probe => IInv'
<1> SUFFICES ASSUME IInv, Probe PROVE IInv'
  OBVIOUS
<1>1. PICK s \in {"ok", "degraded", "down"} : RecordProbe(s, credits) /\ UNCHANGED monitor
  BY DEF Probe
<1>2. RegistryOK /\ EvidenceOK /\ StreakOK
  BY DEF IInv, TypeOK
<1> DEFINE n == IF s # "down" THEN 0
               ELSE IF credits /\ probe.failures = 0 THEN ProbeDownAfter
               ELSE probe.failures + 1
<1>3. probe.failures \in Nat /\ errors \in 0 .. MaxErrors /\ probe.failures <= errors + 1 /\ MaxErrors \in Nat
  BY <1>2, Limits DEF RegistryOK, ProbeDownAfter, EvidenceOK
<1>4. /\ s = "down" => errors < MaxErrors
      /\ errors' = IF s = "down" THEN errors + 1 ELSE errors
      /\ probe' = [status |-> s, age |-> 0, configured |-> TRUE, failures |-> n]
      /\ UNCHANGED <<window, state, streak, better>>
  BY <1>1 DEF RecordProbe
<1>5. errors' \in 0 .. MaxErrors
  BY <1>3, <1>4
<1>6. n \in 0 .. MaxErrors + ProbeDownAfter /\ n <= errors' + 1
  BY <1>3, <1>4, <1>5 DEF ProbeDownAfter
<1> HIDE DEF n
<1>7. 0 \in 0 .. Stale + 1
  BY Limits
<1>8. RegistryOK' /\ probe'.failures = n
  BY <1>2, <1>4, <1>5, <1>6, <1>7 DEF RegistryOK
<1>9. EvidenceOK'
  BY <1>6, <1>8 DEF EvidenceOK
<1>10. StreakOK'
  BY <1>2, <1>4 DEF StreakOK
<1> QED BY <1>1, <1>4, <1>8, <1>9, <1>10, Frame

LEMMA UnsetKeeps == IInv /\ Unset => IInv'
<1> SUFFICES ASSUME IInv, Unset PROVE IInv'
  OBVIOUS
<1>1. /\ probe' = [probe EXCEPT !.configured = FALSE, !.failures = 0, !.age = 0]
      /\ UNCHANGED <<window, state, streak, errors, better>> /\ UNCHANGED monitor
  BY DEF Unset, RecordNotConfigured
<1>2. RegistryOK /\ EvidenceOK /\ StreakOK
  BY DEF IInv, TypeOK
<1>3. 0 \in 0 .. MaxErrors + ProbeDownAfter /\ 0 \in 0 .. Stale + 1
  BY Limits DEF ProbeDownAfter
<1>4. probe'.failures = 0
  BY <1>1, <1>2 DEF RegistryOK
<1>5. RegistryOK'
  BY <1>1, <1>2, <1>3 DEF RegistryOK
<1>6. EvidenceOK' /\ StreakOK'
  BY <1>1, <1>2, <1>4, Limits DEF EvidenceOK, StreakOK, RegistryOK
<1> QED BY <1>1, <1>5, <1>6, Frame

LEMMA RestartKeeps == IInv /\ Restart => IInv'
<1> SUFFICES ASSUME IInv, Restart PROVE IInv'
  OBVIOUS
<1> USE DEF Restart
<1>1. TypeOK /\ CountsOK /\ CleanOK /\ MaxErrors \in Nat /\ MaxFaults \in Nat
  BY Limits DEF IInv
<1>2. restarts' \in 0 .. MaxFaults /\ restarts' = restarts + 1
  BY <1>1 DEF TypeOK
<1>3. RegistryOK'
  <2>1. 0 \in 0 .. MaxErrors + ProbeDownAfter /\ 0 \in 0 .. Stale + 1 /\ 0 \in 0 .. MaxEvents
    BY Limits DEF ProbeDownAfter
  <2>2. window' \in [Outcome -> [Age -> 0 .. MaxEvents]]
    BY <2>1 DEF Empty
  <2>3. probe' \in [status: {"none", "ok", "degraded", "down"},
                   failures: 0 .. MaxErrors + ProbeDownAfter,
                   age: 0 .. Stale + 1, configured: BOOLEAN]
    BY <2>1 DEF NoProbe
  <2>4. streak' \in 0 .. RecoveryEvaluations - 1 /\ errors' \in 0 .. MaxErrors /\ state' \in State
    BY Limits DEF RecoveryEvaluations, State
  <2>5. better' \in BOOLEAN
    OBVIOUS
  <2> QED BY <2>2, <2>3, <2>4, <2>5 DEF RegistryOK
<1>4. EvidenceOK' /\ StreakOK'
  BY DEF EvidenceOK, StreakOK, NoProbe
<1>5. 0 \in Counts
  BY <1>1 DEF Counts
<1>6. TypeOK'
  <2>1. /\ credits' \in BOOLEAN /\ rows' \in [Id -> Row \cup {None}]
        /\ lost' \in 0 .. MaxFaults /\ mailed' \in [{"down", "degraded"} -> 0 .. 2]
        /\ clean' \in BOOLEAN
    BY <1>1 DEF TypeOK
  <2>2. /\ tracked' \in Id \cup {None, Gone} /\ offset' \in Counts
        /\ baseline' \in 0 .. MaxErrors /\ hold' \in 0 .. SendRetry
    BY <1>5, Limits
  <2>3. loaded' \in BOOLEAN /\ memory' \in BOOLEAN
    OBVIOUS
  <2> QED BY <1>2, <1>3, <2>1, <2>2, <2>3 DEF TypeOK
<1>7. CountsOK'
  <2>1. restarts' * MaxErrors \in Nat
    BY <1>2, Product
  <2>2. \A i \in Id : rows[i] # None => rows[i].count <= (restarts + 1) * MaxErrors
    <3> TAKE i \in Id
    <3> HAVE rows[i] # None
    <3>1. rows[i].count \in Nat
      BY <1>1 DEF TypeOK, Row, Counts
    <3>2. rows[i].count <= (IF loaded THEN restarts + 1 ELSE restarts) * MaxErrors
      BY <1>1 DEF CountsOK
    <3>3. restarts * MaxErrors \in Nat /\ (restarts + 1) * MaxErrors = restarts * MaxErrors + MaxErrors
      BY <1>1, Product DEF TypeOK
    <3> DEFINE a == restarts * MaxErrors
               b == (restarts + 1) * MaxErrors
               c == rows[i].count
    <3>4. a \in Nat /\ b = a + MaxErrors /\ c \in Nat /\ c <= (IF loaded THEN b ELSE a)
      BY <3>1, <3>2, <3>3
    <3> HIDE DEF a, b, c
    <3>5. c <= b
      BY <1>1, <3>4
    <3> QED BY <3>5 DEF b, c
  <2> QED BY <1>2, <2>1, <2>2 DEF CountsOK
<1>8. FollowsOK' /\ ToldOK'
  BY Nones DEF FollowsOK, ToldOK, IInv
<1>9. CleanOK'
  BY <1>1 DEF CleanOK, Sole, HistoryMatches, MailsMatch, NoRow, NoMail, Flags, Failing
<1> QED BY <1>3, <1>4, <1>6, <1>7, <1>8, <1>9 DEF IInv

-----------------------------------------------------------------------------
LEMMA InitOK == Init => IInv
<1> SUFFICES ASSUME Init PROVE IInv
  OBVIOUS
<1> USE DEF Init, RegistryInit
<1>1. 0 \in Counts
  <2>1. (MaxFaults + 1) * MaxErrors \in Nat
    BY Limits
  <2> QED BY <2>1 DEF Counts
<1>2. RegistryOK
  <2>1. 0 \in 0 .. MaxErrors + ProbeDownAfter /\ 0 \in 0 .. Stale + 1 /\ 0 \in 0 .. MaxEvents
    BY Limits DEF ProbeDownAfter
  <2>2. window \in [Outcome -> [Age -> 0 .. MaxEvents]]
    BY <2>1 DEF Empty
  <2>3. probe \in [status: {"none", "ok", "degraded", "down"},
                  failures: 0 .. MaxErrors + ProbeDownAfter,
                  age: 0 .. Stale + 1, configured: BOOLEAN]
    BY <2>1 DEF NoProbe
  <2>4. streak \in 0 .. RecoveryEvaluations - 1 /\ errors \in 0 .. MaxErrors /\ state \in State
    BY Limits DEF RecoveryEvaluations, State
  <2>5. better \in BOOLEAN
    OBVIOUS
  <2> QED BY <2>2, <2>3, <2>4, <2>5 DEF RegistryOK
<1>3. TypeOK
  <2>1. rows \in [Id -> Row \cup {None}]
    OBVIOUS
  <2>2. /\ tracked \in Id \cup {None, Gone} /\ offset \in Counts /\ baseline \in 0 .. MaxErrors
        /\ hold \in 0 .. SendRetry /\ lost \in 0 .. MaxFaults /\ restarts \in 0 .. MaxFaults
        /\ mailed \in [{"down", "degraded"} -> 0 .. 2]
    BY <1>1, Limits
  <2>3. loaded \in BOOLEAN /\ memory \in BOOLEAN /\ clean \in BOOLEAN /\ credits \in BOOLEAN
    OBVIOUS
  <2> QED BY <1>2, <2>1, <2>2, <2>3 DEF TypeOK
<1>4. EvidenceOK /\ StreakOK /\ FollowsOK /\ ToldOK
  BY Nones DEF EvidenceOK, StreakOK, FollowsOK, ToldOK, NoProbe
<1>5. CountsOK
  <2>1. restarts * MaxErrors \in Nat
    BY Limits
  <2> QED BY <2>1, Limits DEF CountsOK
<1>6. CleanOK
  BY Nones DEF CleanOK, Sole, HistoryMatches, MailsMatch, NoRow, NoMail, Flags, Failing
<1> QED BY <1>3, <1>4, <1>5, <1>6 DEF IInv

LEMMA StepOK == IInv /\ [Next]_vars => IInv'
<1> SUFFICES ASSUME IInv, [Next]_vars PROVE IInv'
  OBVIOUS
<1>1. CASE Request
  BY <1>1, RequestKeeps
<1>2. CASE Probe
  BY <1>2, ProbeKeeps
<1>3. CASE Unset
  BY <1>3, UnsetKeeps
<1>4. CASE Restart
  BY <1>4, RestartKeeps
<1>5. ASSUME NEW db \in Answer, NEW mail \in Mail, Tick(db, mail)
      PROVE IInv'
  BY <1>5, TickKeeps
<1>6. CASE UNCHANGED vars
  <2>1. UNCHANGED monitor /\ UNCHANGED registry
    BY <1>6 DEF vars
  <2>2. RegistryOK' /\ EvidenceOK' /\ StreakOK' /\ state' = state
    BY <2>1 DEF IInv, TypeOK, RegistryOK, EvidenceOK, StreakOK, registry
  <2> QED BY <2>1, <2>2, Frame
<1> QED BY <1>1, <1>2, <1>3, <1>4, <1>5, <1>6 DEF Next

THEOREM Invariance == Spec => []IInv
<1>1. Init => IInv
  BY InitOK
<1>2. IInv /\ [Next]_vars => IInv'
  BY StepOK
<1> QED BY <1>1, <1>2, PTL DEF Spec

\* Every variable keeps its type: in particular what an incident has counted
\* is bounded by what the processes since its beginning counted.
THEOREM TypeCorrect == Spec => []TypeOK
<1>1. IInv => TypeOK
  BY DEF IInv
<1> QED BY <1>1, Invariance, PTL

\* While the database answers, an outage is mailed at most once of each kind,
\* whatever restarts, failed deliveries and escalations there are in it.
THEOREM MailedOnce == Spec => []AlarmOnce
<1>1. IInv => AlarmOnce
  <2> SUFFICES ASSUME IInv, clean, NEW k \in DOMAIN mailed PROVE mailed[k] <= 1
    BY DEF AlarmOnce
  <2>1. k = "down" \/ k = "degraded"
    BY DEF IInv, TypeOK
  <2>2. MailsMatch
    BY DEF IInv, CleanOK
  <2>3. CASE NoRow
    BY <2>1, <2>2, <2>3 DEF MailsMatch, NoMail
  <2>4. CASE ~NoRow
    <3>1. PICK i \in Id : Flags(rows[i])
      BY <2>2, <2>4 DEF MailsMatch, NoRow
    <3> QED BY <2>1, <3>1 DEF Flags
  <2> QED BY <2>3, <2>4
<1> QED BY <1>1, Invariance, PTL

\* While the database answers, the table, the memory and the live state agree.
THEOREM HistoryAgrees == Spec => []HistoryMatches
<1>1. IInv => HistoryMatches
  BY DEF IInv, CleanOK, HistoryMatches
<1> QED BY <1>1, Invariance, PTL

\* A tick that the database answers and that may deliver leaves no service
\* down that was not mailed about since the last quiet moment, whatever was
\* refused, lost or restarted before; a transition that was missed apart.
THEOREM Announced == Spec => DownAnnounced
<1>1. IInv /\ [Next]_vars =>
        [(state' = "down" /\ mailed'["down"] = 0 /\ hold <= 1 /\ ~Missed)
           => ~Tick("ok", "sent")]_vars
  <2> SUFFICES ASSUME IInv, state' = "down", mailed'["down"] = 0, hold <= 1, ~Missed,
                      Tick("ok", "sent")
               PROVE FALSE
    BY Zenon
  <2>1. "ok" \in Answer /\ "sent" \in Mail
    BY DEF Answer, Mail
  <2>2. PICK t \in Load("ok") : Ticked("ok", t, Ended("ok", t, state', "sent"))
    BY <2>1, TickFacts
  <2> DEFINE b == Begun("ok", t)
             old == Current("ok", t)
  <2>3. Ended("ok", t, state', "sent") = Work(b, old, "down", "sent")
    BY DEF Ended
  <2>4. /\ b \in Draft /\ old \in State /\ b.hold = 0 /\ Honest(b)
        /\ b.row # None <=> t \in Id
        /\ t \in Id => rows[t] # None
        /\ ~loaded => t # Gone
        /\ loaded => t = tracked
    BY Begins DEF Loading
  <2>5. /\ b.tracked = t /\ b.sent = {}
        /\ b.row = IF t \in Id THEN AgedRows[t] ELSE None
    BY DEF Begun
  <2>6. (t = Gone => old # "down") /\ (t \in Id => old # "down" \/ b.row.state = "down")
    <3>1. t \in Id => b.row.state = rows[t].state
      BY <2>4, <2>5, Aged DEF IInv
    <3>2. CASE ~loaded
      <4>1. t \in Id => old = rows[t].state
        BY <3>2 DEF Current, Loading
      <4> QED BY <2>4, <3>1, <3>2, <4>1
    <3>3. CASE loaded
      <4>1. old = state /\ t = tracked
        BY <2>4, <3>3 DEF Current, Loading
      <4>2. state = "down" => tracked = None \/ (tracked \in Id /\ rows[tracked].state = "down")
        BY <3>3 DEF Missed
      <4> QED BY <3>1, <4>1, <4>2, Nones
    <3> QED BY <3>2, <3>3
  <2>7. Free \in Id /\ TypeOK
    BY <2>2 DEF Ticked, IInv
  <2>8. Told(Work(b, old, "down", "sent"))
    <3> HIDE DEF b, old
    <3> QED BY <2>4, <2>5, <2>6, <2>7, WorkMails
  <2>9. ~Quiet'
    BY DEF Quiet, Closes
  <2>10. mailed'["down"] # 0
    BY <2>1, <2>2, <2>3, <2>8, <2>9, TickTells
  <2> QED BY <2>10
<1> QED BY <1>1, Invariance, PTL DEF Spec, DownAnnounced

\* A failing service is shown better at the second better evaluation only.
THEOREM SlowlyBetter == Spec => ImprovesSlowly
<1>1. IInv /\ [Next]_vars =>
        [(/\ state \in Failing /\ loaded' = loaded
          /\ state' \in {"up", "degraded"}
          /\ Severity[state'] < Severity[state]
          /\ ~\E mail \in Mail : Tick("seeded", mail)) => better]_vars
  <2> SUFFICES ASSUME IInv, [Next]_vars, state \in Failing, loaded' = loaded,
                      state' \in {"up", "degraded"}, Severity[state'] < Severity[state],
                      ~\E mail \in Mail : Tick("seeded", mail)
               PROVE better
    BY Zenon
  <2>1. Severity[state] \in Int /\ state' # state
    BY DEF Severity, State, Failing
  <2>2. ASSUME NEW db \in Answer, NEW mail \in Mail, Tick(db, mail)
        PROVE better
    <3>1. PICK t \in Load(db) :
             /\ EvaluateFrom(Current(db, t))
             /\ Ticked(db, t, Ended(db, t, state', mail))
      BY <2>2, TickFacts
    <3>2. ~Loading(db)
      <4>1. /\ loaded => db \notin {"seeded", "unreachable"}
            /\ loaded' = (db \notin {"seeded", "unreachable"})
        BY <3>1, Zenon DEF Ticked
      <4>2. db # "seeded"
        BY <2>2
      <4>3. loaded = (db \notin {"seeded", "unreachable"})
        BY <4>1, Zenon
      <4>4. CASE loaded
        BY <4>4 DEF Loading
      <4>5. CASE ~loaded
        BY <4>2, <4>3, <4>5 DEF Loading
      <4> QED BY <4>4, <4>5
    <3>3. Current(db, t) = state
      BY <3>2 DEF Current
    <3>4. RegistryOK /\ EvidenceOK /\ StreakOK /\ state \in State
      BY DEF IInv, TypeOK, RegistryOK
    <3> QED BY <3>1, <3>3, <3>4, Evaluates
  <2>3. ASSUME Request \/ Probe \/ Unset \/ UNCHANGED vars PROVE FALSE
    <3>1. state' = state
      BY <2>3 DEF Request, Record, Probe, RecordProbe, Unset, RecordNotConfigured, vars, registry
    <3> QED BY <2>1, <3>1
  <2>4. ASSUME Restart PROVE FALSE
    BY <2>4 DEF Restart
  <2> QED BY <2>2, <2>3, <2>4 DEF Next
<1> QED BY <1>1, Invariance, PTL DEF Spec, ImprovesSlowly
-----------------------------------------------------------------------------
(* The edges of the window's verdict *)

\* An outcome adds one to its kind and nothing to the others.
LEMMA Recorded ==
    ASSUME RegistryOK, NEW o \in Outcome, Record(o), NEW p \in Outcome
    PROVE Count(p)' = IF p = o THEN Count(p) + 1 ELSE Count(p)
<1> DEFINE All == Age \X (1 .. MaxEvents)
           Of == {e \in All : e[2] <= window[p][e[1]]}
           Next1 == {e \in All : e[2] <= window'[p][e[1]]}
           n == window[o][0]
           new == <<0, n + 1>>
<1>1. window' = [window EXCEPT ![o][0] = n + 1] /\ 0 \in Age
  BY Limits DEF Record, Age
<1>2. window \in [Outcome -> [Age -> 0 .. MaxEvents]]
  BY DEF RegistryOK
<1>3. Count(p) = Cardinality(Of) /\ Count(p)' = Cardinality(Next1)
  BY DEF Count
<1>4. CASE p # o
  <2>1. window'[p] = window[p]
    BY <1>1, <1>2, <1>4
  <2> QED BY <1>3, <1>4, <2>1
<1>5. CASE p = o
  <2>1. n \in Nat /\ n + 1 \in 1 .. MaxEvents
    BY Room, Limits
  <2>2. new \in All /\ new \notin Of
    BY <1>1, <1>5, <2>1
  <2>3. \A a \in Age : window'[p][a] = IF a = 0 THEN n + 1 ELSE window[p][a]
    BY <1>1, <1>2, <1>5
  <2>4. Next1 = Of \cup {new}
    <3>1. ASSUME NEW e \in All PROVE e \in Next1 <=> e \in Of \cup {new}
      <4>1. PICK a \in Age, k \in 1 .. MaxEvents : e = <<a, k>>
        OBVIOUS
      <4>2. e \in Next1 <=> k <= window'[p][a]
        BY <4>1
      <4>3. e \in Of <=> k <= window[p][a]
        BY <4>1
      <4>4. e = new <=> a = 0 /\ k = n + 1
        BY <4>1
      <4>5. window[p][0] = n
        BY <1>5
      <4>6. a = 0 => (k <= n + 1 <=> k <= n \/ k = n + 1)
        BY <2>1
      <4> HIDE DEF Next1, Of, new, n
      <4> QED BY <2>3, <4>2, <4>3, <4>4, <4>5, <4>6
    <3>2. Next1 \subseteq All /\ Of \cup {new} \subseteq All
      BY <2>2
    <3> HIDE DEF Next1, Of, new
    <3> QED BY <3>1, <3>2
  <2>5. IsFiniteSet(Of)
    <3>1. IsFiniteSet(Age) /\ IsFiniteSet(1 .. MaxEvents)
      BY Limits, FS_Interval DEF Age
    <3>2. IsFiniteSet(All)
      BY <3>1, FS_Product
    <3> QED BY <3>2, FS_Subset
  <2> HIDE DEF Next1, Of, new
  <2>6. Cardinality(Of \cup {new}) = Cardinality(Of) + 1
    BY <2>2, <2>5, FS_AddElement
  <2> QED BY <1>3, <1>5, <2>4, <2>6
<1> QED BY <1>4, <1>5

\* In the window alone a failure or a warning never makes a service look
\* better.  A success may make it look worse, in one place: with it there are
\* four requests, the least that _passive_state needs for an outage, and two
\* failures in three, degraded until then, become two in four, down.
THEOREM WindowEdges ==
    ASSUME RegistryOK, NEW o \in Outcome, Record(o)
    PROVE /\ o # "ok" => Severity[PassiveState] <= Severity[PassiveState']
          /\ o = "ok" /\ Severity[PassiveState'] > Severity[PassiveState] =>
                \/ PassiveState = "unknown" /\ PassiveState' = "up"
                \/ /\ Count("ok") + Count("err") = 3 /\ Count("err") >= 2
                   /\ PassiveState = "degraded" /\ PassiveState' = "down"
<1> DEFINE ok == Count("ok")
           err == Count("err")
           warn == Count("warn")
           Verdict(x, y, z) ==
               IF (x + y >= 4 /\ 2 * y >= x + y) \/ (y >= 5 /\ x = 0) THEN "down"
               ELSE IF (y >= 2 /\ 5 * y >= x + y) \/ z >= 3 THEN "degraded"
               ELSE IF x + y = 0 THEN "unknown" ELSE "up"
           s == PassiveState
           t == PassiveState'
<1>1. ok \in Nat /\ err \in Nat /\ warn \in Nat
  BY CountIn DEF Outcome
<1>2. s = Verdict(ok, err, warn)
  BY DEF PassiveState
<1>3. t = Verdict(ok', err', warn')
  BY DEF PassiveState
<1>4. \/ o = "ok" /\ ok' = ok + 1 /\ err' = err /\ warn' = warn
      \/ o = "err" /\ ok' = ok /\ err' = err + 1 /\ warn' = warn
      \/ o = "warn" /\ ok' = ok /\ err' = err /\ warn' = warn + 1
  BY Recorded DEF Outcome
<1>5. /\ Severity["unknown"] = -1 /\ Severity["up"] = 0
      /\ Severity["degraded"] = 1 /\ Severity["down"] = 2
  BY DEF Severity, State
<1> HIDE DEF ok, err, warn, s, t
<1>6. CASE o = "ok"
  <2>1. ok' = ok + 1 /\ err' = err /\ warn' = warn
    BY <1>4, <1>6
  <2>2. t = Verdict(ok + 1, err, warn)
    BY <1>3, <2>1
  <2> QED BY <1>1, <1>2, <1>5, <1>6, <2>2 DEF s, t, ok, err
<1>7. CASE o = "err"
  <2>1. t = Verdict(ok, err + 1, warn)
    BY <1>3, <1>4, <1>7
  <2>2. Severity[s] <= Severity[t]
    BY <1>1, <1>2, <1>5, <2>1
  <2> QED BY <1>7, <2>2 DEF s, t
<1>8. CASE o = "warn"
  <2>1. t = Verdict(ok, err, warn + 1)
    BY <1>3, <1>4, <1>8
  <2>2. Severity[s] <= Severity[t]
    BY <1>1, <1>2, <1>5, <2>1
  <2> QED BY <1>8, <2>2 DEF s, t
<1> QED BY <1>6, <1>7, <1>8 DEF Outcome
=============================================================================
