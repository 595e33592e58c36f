------------------------- MODULE BusyRecovery_proofs -------------------------
(***************************************************************************)
(* Type correctness, the accounting of messages, and what a claim and a    *)
(* message may never do, for any number of leads, runs and sessions, any   *)
(* bounds and any answers of Twilio.                                       *)
(***************************************************************************)
EXTENDS BusyRecovery, FiniteSetTheorems, TLAPS

LEMMA NewRowType == NewRow \in Row
  BY RecoveryAssumption DEF NewRow, Row, Avail

LEMMA FlushType ==
  ASSUME NEW cur \in Row, NEW old \in Row, NEW new \in Row
  PROVE  /\ Flush(cur, old, new) \in Row
         /\ Flush(cur, old, new).avail = IF new.avail # old.avail THEN new.avail ELSE cur.avail
         /\ Flush(cur, old, new).claim = IF new.claim # old.claim THEN new.claim ELSE cur.claim
         /\ Flush(cur, old, new).since = IF new.since # old.since THEN new.since ELSE cur.since
  BY DEF Flush, Row

LEMMA LoadedType ==
  ASSUME NEW row \in Row
  PROVE  Loaded(row) \in Row
  <1> DEFINE c == IF row.claim = Null THEN Null ELSE 0
  <1>1. c \in (0..Horizon) \cup {Null} /\ 0 \in 0..Horizon
    BY RecoveryAssumption
  <1>2. Loaded(row) = [row EXCEPT !.since = 0, !.claim = c]
    BY DEF Loaded
  <1> HIDE DEF c
  <1>3. QED
    BY <1>1, <1>2 DEF Row

LEMMA OlderType ==
  ASSUME NEW n \in 0..Horizon
  PROVE  Older(n) \in 0..Horizon
  BY RecoveryAssumption DEF Older

LEMMA RunAtType ==
  ASSUME NEW at \in {"idle", "select", "loop", "done"} \cup Working, NEW todo \in SUBSET Lead,
         NEW age \in 0..Horizon
  PROVE  /\ RunAt(at, todo, age) \in RunState
         /\ RunAt(at, todo, age).at = at
         /\ RunAt(at, todo, age).lead = NoLead
         /\ RunAt(at, todo, age).age = age
         /\ RunAt(at, todo, age).todo = todo
  BY NewRowType, RecoveryAssumption DEF RunAt, RunState, Avail

(* The parts of TypeOK *)
DbOK == db \in [Lead -> Row]
SessOK ==
    /\ sess \in [Session -> [kind: Kind, lead: Lead \cup {NoLead}, old: Row]]
    /\ \A s \in Session : sess[s].kind # "off" => sess[s].lead \in Lead
RunOK ==
    /\ run \in [Run -> RunState]
    /\ \A r \in Run : run[r].at \in Working => run[r].lead \in Lead
GhostsOK ==
    /\ armed \in [Lead -> Nat]
    /\ sent \in [Lead -> Nat]
    /\ reclaimed \in [Lead -> Nat]
    /\ cleared \in [Lead -> BOOLEAN]

LEMMA TypeParts == TypeOK <=> DbOK /\ SessOK /\ RunOK /\ GhostsOK
  BY DEF TypeOK, DbOK, SessOK, RunOK, GhostsOK

LEMMA BeginType ==
  ASSUME TypeOK, NEW s \in Session, NEW kind \in Kind, NEW l \in Lead, Begin(s, kind, l)
  PROVE  TypeOK'
  <1>1. Loaded(db[l]) \in Row
    BY LoadedType DEF TypeOK
  <1>2. SessOK'
    <2>1. [kind |-> kind, lead |-> l, old |-> Loaded(db[l])] \in [kind: Kind, lead: Lead \cup {NoLead}, old: Row]
      BY <1>1
    <2>2. QED
      BY <2>1 DEF TypeOK, SessOK, Begin
  <1>3. DbOK' /\ RunOK' /\ GhostsOK'
    BY DEF TypeOK, Begin, ghosts, DbOK, RunOK, GhostsOK
  <1>4. QED
    BY <1>2, <1>3 DEF TypeOK, DbOK, SessOK, RunOK, GhostsOK

\* A session that ends.
LEMMA SessOffType ==
  ASSUME SessOK, NEW s \in Session, sess' = [sess EXCEPT ![s] = Off]
  PROVE  SessOK'
  <1>1. Off \in [kind: Kind, lead: Lead \cup {NoLead}, old: Row] /\ Off.kind = "off"
    BY NewRowType DEF Off, Kind
  <1>2. QED
    BY <1>1 DEF SessOK

\* A run that changes its state.
LEMMA RunUpdateType ==
  ASSUME RunOK, NEW r \in Run, NEW x \in RunState, x.at \in Working => x.lead \in Lead,
         run' = [run EXCEPT ![r] = x]
  PROVE  RunOK'
  BY DEF RunOK

\* One row gets a new value.
LEMMA DbUpdateType ==
  ASSUME DbOK, NEW l \in Lead, NEW x \in Row, db' = [db EXCEPT ![l] = x]
  PROVE  DbOK'
  BY DEF DbOK

----------------------------------------------------------------------------
(* The accounting.  A right to send one message lies in a pending row, or  *)
(* in the hands of a run that claimed the row and has not sent; a rejection *)
(* makes one, a takeover of a claim makes one, a message uses one up.      *)

Token(row) == IF row.avail = "pending" THEN 1 ELSE 0

Carries(x, l) ==
    /\ x.lead = l
    /\ \/ x.at \in {"claimed", "sending"}
       \/ x.at = "saving" /\ x.next = "pending"

Weight(x, l) == IF Carries(x, l) THEN 1 ELSE 0

Held(l) == {r \in Run : Carries(run[r], l)}

Account ==
    \A l \in Lead :
        sent[l] + Token(db[l]) + Cardinality(Held(l)) <= armed[l] + reclaimed[l]

IInv == TypeOK /\ Account

LEMMA HeldFinite ==
  ASSUME NEW l \in Lead
  PROVE  IsFiniteSet(Held(l)) /\ Cardinality(Held(l)) \in Nat
  BY RecoveryAssumption, FS_Subset, FS_CardinalityType DEF Held

\* Only the run that moves gains or loses the right.
LEMMA HeldUpdate ==
  ASSUME RunOK, NEW r \in Run, NEW x, run' = [run EXCEPT ![r] = x], NEW l \in Lead
  PROVE  /\ Cardinality(Held(l)') + Weight(run[r], l) = Cardinality(Held(l)) + Weight(x, l)
         /\ Cardinality(Held(l)') \in Nat
  <1>1. IsFiniteSet(Held(l)) /\ Cardinality(Held(l)) \in Nat
    BY HeldFinite
  <1>2. \A q \in Run : run'[q] = IF q = r THEN x ELSE run[q]
    BY DEF RunOK
  <1>3. CASE Carries(x, l) <=> Carries(run[r], l)
    <2>1. Held(l)' = Held(l)
      BY <1>2, <1>3 DEF Held
    <2>2. QED
      BY <2>1, <1>1, <1>3 DEF Weight
  <1>4. CASE Carries(x, l) /\ ~Carries(run[r], l)
    <2>1. r \notin Held(l) /\ Held(l)' = Held(l) \cup {r}
      BY <1>2, <1>4 DEF Held
    <2>2. Cardinality(Held(l)') = Cardinality(Held(l)) + 1
      BY <2>1, <1>1, FS_AddElement
    <2>3. QED
      BY <2>2, <1>1, <1>4 DEF Weight
  <1>5. CASE ~Carries(x, l) /\ Carries(run[r], l)
    <2>1. r \in Held(l) /\ Held(l)' = Held(l) \ {r}
      BY <1>2, <1>5 DEF Held
    <2>2. Cardinality(Held(l)') = Cardinality(Held(l)) - 1
      BY <2>1, <1>1, FS_RemoveElement
    <2>3. Cardinality(Held(l)') \in Nat
      BY <2>1, <1>1, FS_RemoveElement, FS_CardinalityType
    <2>4. QED
      BY <2>2, <2>3, <1>1, <1>5 DEF Weight
  <1>6. QED
    BY <1>3, <1>4, <1>5

\* Where no run moves, rights change hands only through the row.
LEMMA HeldSame ==
  ASSUME NEW l \in Lead,
         \A q \in Run : Carries(run'[q], l) <=> Carries(run[q], l)
  PROVE  Held(l)' = Held(l)
  BY DEF Held

LEMMA TokenType ==
  ASSUME NEW row
  PROVE  Token(row) \in {0, 1}
  BY DEF Token

\* The runs are as they were: the account may only be spoiled by the row.
LEMMA QuietRuns ==
  ASSUME IInv, run' = run, NEW l \in Lead,
         sent'[l] = sent[l], reclaimed'[l] = reclaimed[l], armed'[l] \in Nat,
         Token(db'[l]) + armed[l] <= Token(db[l]) + armed'[l]
  PROVE  sent'[l] + Token(db'[l]) + Cardinality(Held(l)') <= armed'[l] + reclaimed'[l]
  <1>1. Held(l)' = Held(l)
    BY HeldSame
  <1>2. Cardinality(Held(l)) \in Nat /\ Token(db[l]) \in {0, 1} /\ Token(db'[l]) \in {0, 1}
    BY HeldFinite, TokenType
  <1>3. sent[l] + Token(db[l]) + Cardinality(Held(l)) <= armed[l] + reclaimed[l]
    BY DEF IInv, Account
  <1>4. sent[l] \in Nat /\ armed[l] \in Nat /\ reclaimed[l] \in Nat
    BY DEF IInv, TypeOK
  <1>5. QED
    BY <1>1, <1>2, <1>3, <1>4

LEMMA BeginStep ==
  ASSUME IInv, NEW s \in Session, NEW kind \in Kind, NEW l \in Lead, Begin(s, kind, l)
  PROVE  IInv'
  <1>1. TypeOK'
    BY BeginType DEF IInv
  <1>2. Account'
    <2> SUFFICES ASSUME NEW m \in Lead
                 PROVE  sent'[m] + Token(db'[m]) + Cardinality(Held(m)') <= armed'[m] + reclaimed'[m]
      BY DEF Account
    <2>1. run' = run /\ db' = db /\ armed' = armed /\ sent' = sent /\ reclaimed' = reclaimed
      BY DEF Begin, ghosts
    <2>2. armed[m] \in Nat /\ Token(db[m]) \in {0, 1}
      BY TokenType DEF IInv, TypeOK
    <2>3. QED
      BY <2>1, <2>2, QuietRuns
  <1>3. QED
    BY <1>1, <1>2 DEF IInv

LEMMA RejectStep ==
  ASSUME IInv, NEW s \in Session, RejectCommits(s)
  PROVE  IInv'
  <1> DEFINE l == sess[s].lead
             old == sess[s].old
             new == [old EXCEPT !.status = "open", !.avail = "pending", !.follow = "callback"]
             row == [Flush(db[l], old, new) EXCEPT !.since = 0]
  <1>1. l \in Lead /\ old \in Row /\ db[l] \in Row
    BY DEF RejectCommits, IInv, TypeOK
  <1>2. new \in Row /\ row \in Row
    <2>1. new \in Row
      BY <1>1 DEF Row, Avail
    <2>2. Flush(db[l], old, new) \in Row
      BY <1>1, <2>1, FlushType
    <2>3. QED
      BY <2>1, <2>2, RecoveryAssumption DEF Row
  <1>3. /\ db' = [db EXCEPT ![l] = row]
        /\ sess' = [sess EXCEPT ![s] = Off]
        /\ armed' = [armed EXCEPT ![l] = @ + 1]
        /\ cleared' = [cleared EXCEPT ![l] = FALSE]
        /\ run' = run /\ sent' = sent /\ reclaimed' = reclaimed
    BY DEF RejectCommits
  <1> HIDE DEF l, old, new, row
  <1>4. TypeOK'
    <2>1. DbOK' /\ SessOK'
      BY <1>1, <1>2, <1>3, DbUpdateType, SessOffType, TypeParts DEF IInv
    <2>2. RunOK' /\ GhostsOK'
      BY <1>1, <1>3, TypeParts DEF IInv, RunOK, GhostsOK
    <2>3. QED
      BY <2>1, <2>2 DEF TypeOK, DbOK, SessOK, RunOK, GhostsOK
  <1>5. Account'
    <2> SUFFICES ASSUME NEW m \in Lead
                 PROVE  sent'[m] + Token(db'[m]) + Cardinality(Held(m)') <= armed'[m] + reclaimed'[m]
      BY DEF Account
    <2>1. armed[m] \in Nat /\ armed'[m] = IF m = l THEN armed[m] + 1 ELSE armed[m]
      BY <1>3 DEF IInv, TypeOK
    <2>2. m # l => db'[m] = db[m]
      BY <1>3 DEF IInv, TypeOK
    <2>3. Token(db[m]) \in {0, 1} /\ Token(db'[m]) \in {0, 1} /\ armed'[m] \in Nat
      BY <2>1, TokenType
    <2>4. Token(db'[m]) + armed[m] <= Token(db[m]) + armed'[m]
      BY <2>1, <2>2, <2>3
    <2>5. QED
      BY <1>3, <2>3, <2>4, QuietRuns
  <1>6. QED
    BY <1>4, <1>5 DEF IInv

\* A session that writes one row without arming it, whatever it does to cleared.
LEMMA RowWriteStep ==
  ASSUME IInv, NEW l \in Lead, NEW row \in Row, Token(row) <= Token(db[l]),
         db' = [db EXCEPT ![l] = row], SessOK',
         cleared' \in [Lead -> BOOLEAN],
         run' = run, sent' = sent, armed' = armed, reclaimed' = reclaimed
  PROVE  IInv'
  <1>1. TypeOK'
    <2>1. DbOK'
      BY DbUpdateType, TypeParts DEF IInv
    <2>2. RunOK' /\ GhostsOK'
      BY TypeParts DEF IInv, RunOK, GhostsOK
    <2>3. QED
      BY <2>1, <2>2 DEF TypeOK, DbOK, SessOK, RunOK, GhostsOK
  <1>2. Account'
    <2> SUFFICES ASSUME NEW m \in Lead
                 PROVE  sent'[m] + Token(db'[m]) + Cardinality(Held(m)') <= armed'[m] + reclaimed'[m]
      BY DEF Account
    <2>1. db'[m] = IF m = l THEN row ELSE db[m]
      BY DEF IInv, TypeOK
    <2>2. Token(db[m]) \in {0, 1} /\ Token(db'[m]) \in {0, 1} /\ armed[m] \in Nat
      BY TokenType DEF IInv, TypeOK
    <2>3. Token(db'[m]) <= Token(db[m])
      BY <2>1, <2>2
    <2>4. Token(db'[m]) + armed[m] <= Token(db[m]) + armed'[m]
      BY <2>2, <2>3
    <2>5. QED
      BY <2>2, <2>4, QuietRuns
  <1>3. QED
    BY <1>1, <1>2 DEF IInv

LEMMA AnswerStep ==
  ASSUME IInv, NEW s \in Session, AnswerCommits(s)
  PROVE  IInv'
  <1> DEFINE l == sess[s].lead
             old == sess[s].old
             new == IF old.avail = "none" THEN old ELSE [old EXCEPT !.avail = "none", !.claim = Null]
             row == Flush(db[l], old, new)
  <1>1. l \in Lead /\ old \in Row /\ db[l] \in Row
    BY DEF AnswerCommits, IInv, TypeOK
  <1>2. new \in Row /\ new.avail = "none"
    BY <1>1 DEF Row, Avail
  <1>3. /\ db' = [db EXCEPT ![l] = row]
        /\ sess' = [sess EXCEPT ![s] = Off]
        /\ cleared' = [cleared EXCEPT ![l] = @ \/ old.avail # "none"]
        /\ run' = run /\ sent' = sent /\ armed' = armed /\ reclaimed' = reclaimed
    BY DEF AnswerCommits
  <1> HIDE DEF l, old, new
  <1>4. row \in Row /\ row.avail = IF new.avail # old.avail THEN new.avail ELSE db[l].avail
    BY <1>1, <1>2, FlushType
  <1> HIDE DEF row
  <1>5. Token(row) <= Token(db[l])
    BY <1>2, <1>4 DEF Token
  <1>6. SessOK'
    BY <1>3, SessOffType, TypeParts DEF IInv
  <1>7. cleared' \in [Lead -> BOOLEAN]
    BY <1>1, <1>3 DEF IInv, TypeOK
  <1>8. QED
    BY <1>1, <1>3, <1>4, <1>5, <1>6, <1>7, RowWriteStep

LEMMA ReplyStep ==
  ASSUME IInv, NEW s \in Session, ReplyCommits(s)
  PROVE  IInv'
  <1> DEFINE l == sess[s].lead
             old == sess[s].old
             new == [old EXCEPT !.follow = "other"]
             row == Flush(db[l], old, new)
  <1>1. l \in Lead /\ old \in Row /\ db[l] \in Row
    BY DEF ReplyCommits, IInv, TypeOK
  <1>2. new \in Row /\ new.avail = old.avail
    BY <1>1 DEF Row
  <1>3. row \in Row /\ row.avail = db[l].avail
    BY <1>1, <1>2, FlushType
  <1>4. /\ db' = [db EXCEPT ![l] = row]
        /\ sess' = [sess EXCEPT ![s] = Off]
        /\ cleared' = cleared
        /\ run' = run /\ sent' = sent /\ armed' = armed /\ reclaimed' = reclaimed
    BY DEF ReplyCommits, ghosts
  <1> HIDE DEF l, old, new, row
  <1>5. Token(row) <= Token(db[l])
    BY <1>3 DEF Token
  <1>6. SessOK' /\ cleared' \in [Lead -> BOOLEAN]
    BY <1>4, SessOffType, TypeParts DEF IInv, TypeOK
  <1>7. QED
    BY <1>1, <1>3, <1>4, <1>5, <1>6, RowWriteStep

LEMMA SessionLostStep ==
  ASSUME IInv, NEW s \in Session, SessionLost(s)
  PROVE  IInv'
  <1>1. SessOK'
    BY SessOffType, TypeParts DEF IInv, SessionLost
  <1>2. TypeOK'
    BY <1>1, TypeParts DEF IInv, TypeOK, SessOK, SessionLost, ghosts
  <1>3. Account'
    <2> SUFFICES ASSUME NEW m \in Lead
                 PROVE  sent'[m] + Token(db'[m]) + Cardinality(Held(m)') <= armed'[m] + reclaimed'[m]
      BY DEF Account
    <2>1. run' = run /\ db' = db /\ armed' = armed /\ sent' = sent /\ reclaimed' = reclaimed
      BY DEF SessionLost, ghosts
    <2>2. armed[m] \in Nat /\ Token(db[m]) \in {0, 1}
      BY TokenType DEF IInv, TypeOK
    <2>3. QED
      BY <2>1, <2>2, QuietRuns
  <1>4. QED
    BY <1>2, <1>3 DEF IInv

LEMMA HostStep ==
  ASSUME IInv, NEW l \in Lead, HostMoves(l)
  PROVE  IInv'
  <1> DEFINE row == [db[l] EXCEPT !.status = IF @ = "open" THEN "closed" ELSE "open"]
  <1>1. db[l] \in Row
    BY DEF IInv, TypeOK
  <1>2. row \in Row /\ row.avail = db[l].avail
    BY <1>1 DEF Row
  <1>3. /\ db' = [db EXCEPT ![l] = row]
        /\ sess' = sess /\ cleared' = cleared
        /\ run' = run /\ sent' = sent /\ armed' = armed /\ reclaimed' = reclaimed
    BY DEF HostMoves, ghosts, IInv, TypeOK
  <1> HIDE DEF row
  <1>4. Token(row) <= Token(db[l])
    BY <1>2 DEF Token
  <1>5. SessOK' /\ cleared' \in [Lead -> BOOLEAN]
    BY <1>3, TypeParts DEF IInv, TypeOK, SessOK
  <1>6. QED
    BY <1>2, <1>3, <1>4, <1>5, RowWriteStep

LEMMA TickStep ==
  ASSUME IInv, Tick
  PROVE  IInv'
  <1> DEFINE aged(row) == [row EXCEPT !.since = IF row.status = "absent" THEN @ ELSE Older(@),
                                      !.claim = IF @ = Null THEN @ ELSE Older(@)]
             worn(x) == [x EXCEPT !.age = Older(@), !.spent = Older(@)]
  <1>1. /\ \A l \in Lead : db[l] \in Row
        /\ \A r \in Run : run[r] \in RunState
    BY DEF IInv, TypeOK
  <1>2. ASSUME NEW row \in Row
        PROVE  aged(row) \in Row /\ aged(row).avail = row.avail
    <2>1. row.since \in 0..Horizon /\ row.claim \in (0..Horizon) \cup {Null}
      BY DEF Row
    <2>2. Older(row.since) \in 0..Horizon /\ (row.claim # Null => Older(row.claim) \in 0..Horizon)
      BY <2>1, OlderType
    <2>3. QED
      BY <2>1, <2>2 DEF Row
  <1>3. ASSUME NEW x \in RunState
        PROVE  worn(x) \in RunState /\ worn(x).lead = x.lead /\ worn(x).at = x.at /\ worn(x).next = x.next
    <2>1. Older(x.age) \in 0..Horizon /\ Older(x.spent) \in 0..Horizon
      BY OlderType DEF RunState
    <2>2. QED
      BY <2>1 DEF RunState
  <1>4. /\ db' = [l \in Lead |-> aged(db[l])]
        /\ run' = [r \in Run |-> IF run[r].at \in Working THEN worn(run[r]) ELSE run[r]]
        /\ sess' = sess /\ armed' = armed /\ sent' = sent /\ reclaimed' = reclaimed /\ cleared' = cleared
    BY DEF Tick, ghosts
  <1> HIDE DEF aged, worn
  <1>5. \A r \in Run : /\ run'[r] \in RunState
                       /\ run'[r].lead = run[r].lead /\ run'[r].at = run[r].at
                       /\ run'[r].next = run[r].next
    BY <1>1, <1>3, <1>4
  <1>6. \A l \in Lead : db'[l] \in Row /\ db'[l].avail = db[l].avail
    BY <1>1, <1>2, <1>4
  <1>7. TypeOK'
    BY <1>4, <1>5, <1>6 DEF IInv, TypeOK
  <1>8. Account'
    <2> SUFFICES ASSUME NEW m \in Lead
                 PROVE  sent'[m] + Token(db'[m]) + Cardinality(Held(m)') <= armed'[m] + reclaimed'[m]
      BY DEF Account
    <2>1. \A q \in Run : Carries(run'[q], m) <=> Carries(run[q], m)
      BY <1>5 DEF Carries
    <2>2. Held(m)' = Held(m)
      BY <2>1, HeldSame
    <2>3. Token(db'[m]) = Token(db[m])
      BY <1>6 DEF Token
    <2>4. QED
      BY <1>4, <2>2, <2>3 DEF IInv, Account
  <1>9. QED
    BY <1>7, <1>8 DEF IInv

----------------------------------------------------------------------------
\* One run moves: the account holds if the move balances for every lead.
LEMMA RunMoves ==
  ASSUME IInv, NEW r \in Run, NEW x \in RunState, x.at \in Working => x.lead \in Lead,
         run' = [run EXCEPT ![r] = x], sess' = sess, armed' = armed,
         cleared' \in [Lead -> BOOLEAN],
         DbOK', sent' \in [Lead -> Nat], reclaimed' \in [Lead -> Nat],
         \A l \in Lead :
            sent'[l] + Token(db'[l]) + Weight(x, l) + reclaimed[l]
                <= sent[l] + Token(db[l]) + Weight(run[r], l) + reclaimed'[l]
  PROVE  IInv'
  <1>1. TypeOK'
    <2>1. RunOK'
      BY RunUpdateType, TypeParts DEF IInv
    <2>2. SessOK' /\ GhostsOK'
      BY TypeParts DEF IInv, SessOK, GhostsOK
    <2>3. QED
      BY <2>1, <2>2 DEF TypeOK, DbOK, SessOK, RunOK, GhostsOK
  <1>2. Account'
    <2> SUFFICES ASSUME NEW l \in Lead
                 PROVE  sent'[l] + Token(db'[l]) + Cardinality(Held(l)') <= armed'[l] + reclaimed'[l]
      BY DEF Account
    <2>1. /\ Cardinality(Held(l)') + Weight(run[r], l) = Cardinality(Held(l)) + Weight(x, l)
          /\ Cardinality(Held(l)') \in Nat
      BY HeldUpdate, TypeParts DEF IInv
    <2>2. sent[l] + Token(db[l]) + Cardinality(Held(l)) <= armed[l] + reclaimed[l]
      BY DEF IInv, Account
    <2>3. Cardinality(Held(l)) \in Nat
      BY HeldFinite
    <2>4. /\ Token(db[l]) \in {0, 1} /\ Token(db'[l]) \in {0, 1}
          /\ Weight(x, l) \in {0, 1} /\ Weight(run[r], l) \in {0, 1}
      BY DEF Token, Weight
    <2>5. /\ sent[l] \in Nat /\ sent'[l] \in Nat /\ armed[l] \in Nat
          /\ reclaimed[l] \in Nat /\ reclaimed'[l] \in Nat
      BY DEF IInv, TypeOK
    <2>6. sent'[l] + Token(db'[l]) + Weight(x, l) + reclaimed[l]
                <= sent[l] + Token(db[l]) + Weight(run[r], l) + reclaimed'[l]
      OBVIOUS
    <2>7. QED
      BY <2>1, <2>2, <2>3, <2>4, <2>5, <2>6
  <1>3. QED
    BY <1>1, <1>2 DEF IInv

\* A run that touches no row and counts nothing may only give up its right.
LEMMA RunMovesAlone ==
  ASSUME IInv, NEW r \in Run, NEW x \in RunState, x.at \in Working => x.lead \in Lead,
         run' = [run EXCEPT ![r] = x], UNCHANGED <<db, sess, ghosts>>,
         \A l \in Lead : Carries(x, l) => Carries(run[r], l)
  PROVE  IInv'
  <1>1. /\ db' = db /\ sess' = sess /\ armed' = armed /\ sent' = sent
        /\ reclaimed' = reclaimed /\ cleared' = cleared
    BY DEF ghosts
  <1>2. /\ DbOK' /\ sent' \in [Lead -> Nat] /\ reclaimed' \in [Lead -> Nat]
        /\ cleared' \in [Lead -> BOOLEAN]
    BY <1>1 DEF IInv, TypeOK, DbOK
  <1>3. ASSUME NEW l \in Lead
        PROVE  sent'[l] + Token(db'[l]) + Weight(x, l) + reclaimed[l]
                  <= sent[l] + Token(db[l]) + Weight(run[r], l) + reclaimed'[l]
    <2>1. Weight(x, l) \in {0, 1} /\ Weight(run[r], l) \in {0, 1} /\ Weight(x, l) <= Weight(run[r], l)
      BY DEF Weight
    <2>2. sent[l] \in Nat /\ reclaimed[l] \in Nat /\ Token(db[l]) \in {0, 1}
      BY TokenType DEF IInv, TypeOK
    <2>3. QED
      BY <1>1, <2>1, <2>2
  <1>4. QED
    BY <1>1, <1>2, <1>3, RunMoves

LEMMA RunAtCarriesNothing ==
  ASSUME NEW at, NEW todo, NEW age, NEW l \in Lead
  PROVE  ~Carries(RunAt(at, todo, age), l)
  BY RecoveryAssumption DEF RunAt, Carries

\* Release, Select, Finish and Aborts put the run into a state of no lead.
LEMMA RunResets ==
  ASSUME IInv, NEW r \in Run, NEW at \in {"idle", "select", "loop", "done"},
         NEW todo \in SUBSET Lead, NEW age \in 0..Horizon,
         run' = [run EXCEPT ![r] = RunAt(at, todo, age)], UNCHANGED <<db, sess, ghosts>>
  PROVE  IInv'
  <1>1. RunAt(at, todo, age) \in RunState /\ RunAt(at, todo, age).at = at
    BY RunAtType
  <1>2. at \notin Working
    BY DEF Working
  <1>3. QED
    BY <1>1, <1>2, RunAtCarriesNothing, RunMovesAlone

LEMMA PlainRunSteps ==
  ASSUME IInv, NEW r \in Run, Release(r) \/ Select(r) \/ Finish(r) \/ Aborts(r)
  PROVE  IInv'
  <1>1. 0 \in 0..Horizon /\ Candidates \in SUBSET Lead /\ {} \in SUBSET Lead
    BY RecoveryAssumption DEF Candidates
  <1>2. CASE Release(r)
    BY <1>1, <1>2, RunResets DEF Release
  <1>3. CASE Select(r)
    BY <1>1, <1>3, RunResets DEF Select
  <1>4. CASE Finish(r)
    BY <1>1, <1>4, RunResets DEF Finish
  <1>5. CASE Aborts(r)
    BY <1>1, <1>5, RunResets DEF Aborts
  <1>6. QED
    BY <1>2, <1>3, <1>4, <1>5

LEMMA ClaimLosesStep ==
  ASSUME IInv, NEW r \in Run, NEW l \in Lead, ClaimLoses(r, l)
  PROVE  IInv'
  <1> DEFINE x == [run[r] EXCEPT !.todo = @ \ {l}]
  <1>1. run[r] \in RunState /\ (run[r].at \in Working => run[r].lead \in Lead)
    BY DEF IInv, TypeOK
  <1>2. /\ x \in RunState /\ x.at = run[r].at /\ x.lead = run[r].lead /\ x.next = run[r].next
    BY <1>1 DEF RunState
  <1>3. run' = [run EXCEPT ![r] = x] /\ UNCHANGED <<db, sess, ghosts>>
    BY DEF ClaimLoses, IInv, TypeOK
  <1> HIDE DEF x
  <1>4. \A m \in Lead : Carries(x, m) => Carries(run[r], m)
    BY <1>2 DEF Carries
  <1>5. QED
    BY <1>1, <1>2, <1>3, <1>4, RunMovesAlone

\* A claim takes the right from a pending row, or makes one by a takeover.
LEMMA ClaimWinsStep ==
  ASSUME IInv, NEW r \in Run, NEW l \in Lead, ClaimWins(r, l)
  PROVE  IInv'
  <1> DEFINE base == RunAt("claimed", run[r].todo \ {l}, run[r].age)
             x == [base EXCEPT !.lead = l]
             row == [db[l] EXCEPT !.avail = "processing", !.claim = 0]
  <1>1. run[r] \in RunState /\ run[r].at = "loop" /\ db[l] \in Row /\ armed[l] \in Nat
    BY DEF IInv, TypeOK, ClaimWins
  <1>2. x \in RunState /\ x.at = "claimed" /\ x.lead = l
    <2>1. run[r].todo \ {l} \in SUBSET Lead /\ run[r].age \in 0..Horizon /\ "claimed" \in Working
      BY <1>1 DEF RunState, Working
    <2>2. base \in RunState /\ base.at = "claimed"
      BY <2>1, RunAtType
    <2> HIDE DEF base
    <2>3. QED
      BY <1>1, <2>2 DEF RunState
  <1>3. row \in Row /\ row.avail = "processing"
    <2>1. 0 \in (0..Horizon) \cup {Null} /\ "processing" \in Avail
      BY RecoveryAssumption DEF Avail
    <2>2. QED
      BY <1>1, <2>1 DEF Row
  <1>4. /\ db' = [db EXCEPT ![l] = row]
        /\ run' = [run EXCEPT ![r] = x]
        /\ reclaimed' = [reclaimed EXCEPT ![l] = IF db[l].avail = "processing" THEN @ + 1 ELSE @]
        /\ sess' = sess /\ armed' = armed /\ sent' = sent /\ cleared' = cleared
        /\ db[l].avail \in {"pending", "processing"}
    BY DEF ClaimWins, Claimable, IInv, TypeOK
  <1> HIDE DEF x, row
  <1>5. DbOK'
    BY <1>3, <1>4, DbUpdateType, TypeParts DEF IInv
  <1>6. sent' \in [Lead -> Nat] /\ reclaimed' \in [Lead -> Nat] /\ cleared' \in [Lead -> BOOLEAN]
    BY <1>4 DEF IInv, TypeOK
  <1>7. ASSUME NEW m \in Lead
        PROVE  sent'[m] + Token(db'[m]) + Weight(x, m) + reclaimed[m]
                  <= sent[m] + Token(db[m]) + Weight(run[r], m) + reclaimed'[m]
    <2>1. sent[m] \in Nat /\ reclaimed[m] \in Nat /\ sent'[m] = sent[m]
      BY <1>4 DEF IInv, TypeOK
    <2>2. Weight(run[r], m) = 0
      BY <1>1 DEF Weight, Carries
    <2>3. CASE m # l
      <3>1. Weight(x, m) = 0 /\ db'[m] = db[m] /\ reclaimed'[m] = reclaimed[m]
        BY <1>2, <1>4, <2>3 DEF Weight, Carries, IInv, TypeOK
      <3>2. Token(db[m]) \in {0, 1}
        BY TokenType
      <3>3. QED
        BY <2>1, <2>2, <3>1, <3>2
    <2>4. CASE m = l
      <3>1. db'[m] = row
        BY <1>4, <2>4 DEF IInv, TypeOK
      <3>2. Token(db'[m]) = 0 /\ Weight(x, m) \in {0, 1}
        BY <1>3, <3>1 DEF Token, Weight
      <3>3. Token(db[m]) + reclaimed'[m] = reclaimed[m] + 1
        BY <1>4, <2>1, <2>4 DEF Token, IInv, TypeOK
      <3>4. Token(db[m]) \in {0, 1} /\ reclaimed'[m] \in Nat
        BY <1>6, TokenType
      <3>5. QED
        BY <2>1, <2>2, <3>2, <3>3, <3>4
    <2>5. QED
      BY <2>3, <2>4
  <1>8. QED
    BY <1>2, <1>4, <1>5, <1>6, <1>7, RunMoves

LEMMA ReadsStep ==
  ASSUME IInv, NEW r \in Run, Reads(r)
  PROVE  IInv'
  <1> DEFINE l == run[r].lead
             quiet == db[l].follow # "callback" \/ l \notin Reachable
             x == [run[r] EXCEPT !.old = Loaded(db[l]),
                                 !.at = IF quiet THEN "saving" ELSE "sending",
                                 !.next = IF quiet THEN "notified" ELSE "none"]
  <1>1. run[r] \in RunState /\ run[r].at = "claimed" /\ l \in Lead
    BY DEF IInv, TypeOK, Reads, Working
  <1>2. Loaded(db[l]) \in Row
    BY <1>1, LoadedType DEF IInv, TypeOK
  <1>3. run' = [run EXCEPT ![r] = x] /\ UNCHANGED <<db, sess, ghosts>>
    BY DEF Reads, IInv, TypeOK
  <1>4. /\ x \in RunState /\ x.lead = l
    BY <1>1, <1>2 DEF RunState, Working, Avail
  <1> HIDE DEF x
  <1>5. \A m \in Lead : Carries(x, m) => Carries(run[r], m)
    BY <1>1, <1>4 DEF Carries
  <1>6. QED
    BY <1>1, <1>3, <1>4, <1>5, RunMovesAlone

LEMMA SendRefusedStep ==
  ASSUME IInv, NEW r \in Run, SendRefused(r)
  PROVE  IInv'
  <1> DEFINE x == [run[r] EXCEPT !.at = "saving", !.next = "pending"]
  <1>1. run[r] \in RunState /\ run[r].at = "sending" /\ run[r].lead \in Lead
    BY DEF IInv, TypeOK, SendRefused, Working
  <1>2. x \in RunState /\ x.lead = run[r].lead
    BY <1>1 DEF RunState, Working, Avail
  <1>3. run' = [run EXCEPT ![r] = x] /\ UNCHANGED <<db, sess, ghosts>>
    BY DEF SendRefused, IInv, TypeOK
  <1> HIDE DEF x
  <1>4. \A m \in Lead : Carries(x, m) => Carries(run[r], m)
    BY <1>1, <1>2 DEF Carries
  <1>5. QED
    BY <1>1, <1>2, <1>3, <1>4, RunMovesAlone

\* The message uses the run's right up.
LEMMA SpendRight ==
  ASSUME IInv, NEW r \in Run, run[r].at = "sending", NEW x \in RunState,
         x.at \in Working => x.lead \in Lead, \A m \in Lead : ~Carries(x, m),
         NEW out \in {0, 1}, sent' = [sent EXCEPT ![run[r].lead] = @ + out],
         run' = [run EXCEPT ![r] = x],
         db' = db, sess' = sess, armed' = armed, reclaimed' = reclaimed, cleared' = cleared
  PROVE  IInv'
  <1>1. run[r].lead \in Lead
    BY DEF IInv, TypeOK, Working
  <1>2. /\ DbOK' /\ sent' \in [Lead -> Nat] /\ reclaimed' \in [Lead -> Nat]
        /\ cleared' \in [Lead -> BOOLEAN]
    BY <1>1 DEF IInv, TypeOK, DbOK
  <1>3. ASSUME NEW m \in Lead
        PROVE  sent'[m] + Token(db'[m]) + Weight(x, m) + reclaimed[m]
                  <= sent[m] + Token(db[m]) + Weight(run[r], m) + reclaimed'[m]
    <2>1. sent[m] \in Nat /\ reclaimed[m] \in Nat /\ Token(db[m]) \in {0, 1}
      BY TokenType DEF IInv, TypeOK
    <2>2. Weight(x, m) = 0
      BY DEF Weight
    <2>3. Weight(run[r], m) = IF m = run[r].lead THEN 1 ELSE 0
      BY DEF Weight, Carries
    <2>4. sent'[m] = IF m = run[r].lead THEN sent[m] + out ELSE sent[m]
      BY DEF IInv, TypeOK
    <2>5. QED
      BY <2>1, <2>2, <2>3, <2>4
  <1>4. QED
    BY <1>2, <1>3, RunMoves

LEMMA SendAcceptedStep ==
  ASSUME IInv, NEW r \in Run, SendAccepted(r)
  PROVE  IInv'
  <1> DEFINE x == [run[r] EXCEPT !.at = "saving", !.next = "notified", !.told = armed[run[r].lead]]
  <1>1. run[r] \in RunState /\ run[r].at = "sending" /\ run[r].lead \in Lead
    BY DEF IInv, TypeOK, SendAccepted, Working
  <1>2. armed[run[r].lead] \in Nat
    BY <1>1 DEF IInv, TypeOK
  <1>3. x \in RunState /\ x.lead = run[r].lead /\ x.at = "saving" /\ x.next = "notified"
    BY <1>1, <1>2 DEF RunState, Working, Avail
  <1>4. /\ run' = [run EXCEPT ![r] = x]
        /\ sent' = [sent EXCEPT ![run[r].lead] = @ + 1]
        /\ db' = db /\ sess' = sess /\ armed' = armed /\ reclaimed' = reclaimed /\ cleared' = cleared
    BY DEF SendAccepted, IInv, TypeOK
  <1> HIDE DEF x
  <1>5. \A m \in Lead : ~Carries(x, m)
    BY <1>3 DEF Carries
  <1>6. QED
    BY <1>1, <1>3, <1>4, <1>5, SpendRight

LEMMA SendRaisesStep ==
  ASSUME IInv, NEW r \in Run, SendRaises(r)
  PROVE  IInv'
  <1>1. PICK out \in {0, 1} : sent' = [sent EXCEPT ![run[r].lead] = @ + out]
    BY DEF SendRaises
  <1>2. /\ run' = [run EXCEPT ![r] = RunAt("done", {}, 0)]
        /\ run[r].at = "sending"
        /\ db' = db /\ sess' = sess /\ armed' = armed /\ reclaimed' = reclaimed /\ cleared' = cleared
    BY DEF SendRaises
  <1>3. 0 \in 0..Horizon /\ {} \in SUBSET Lead
    BY RecoveryAssumption
  <1>4. RunAt("done", {}, 0) \in RunState /\ RunAt("done", {}, 0).at \notin Working
    BY <1>3, RunAtType DEF Working
  <1>5. QED
    BY <1>1, <1>2, <1>4, RunAtCarriesNothing, SpendRight

\* A refused run gives its right back to the row, unless the row has one.
LEMMA SavesStep ==
  ASSUME IInv, NEW r \in Run, Saves(r)
  PROVE  IInv'
  <1> DEFINE l == run[r].lead
             old == run[r].old
             new == [old EXCEPT !.avail = run[r].next, !.claim = Null]
             row == Outcome(r)
             x == RunAt("loop", run[r].todo, run[r].age)
  <1>1. /\ run[r] \in RunState /\ run[r].at = "saving" /\ l \in Lead
        /\ old \in Row /\ db[l] \in Row /\ run[r].next \in Avail
    BY DEF IInv, TypeOK, Saves, Working, RunState
  <1>2. new \in Row /\ new.avail = run[r].next
    BY <1>1 DEF Row
  <1>3. /\ db' = [db EXCEPT ![l] = row]
        /\ run' = [run EXCEPT ![r] = x]
        /\ sess' = sess /\ armed' = armed /\ sent' = sent /\ reclaimed' = reclaimed
        /\ cleared' = [cleared EXCEPT ![l] = @ /\ row.avail # "pending"]
    BY DEF Saves
  <1>4. x \in RunState /\ x.at \notin Working
    <2>1. run[r].todo \in SUBSET Lead /\ run[r].age \in 0..Horizon
      BY <1>1 DEF RunState
    <2>2. x \in RunState /\ x.at = "loop"
      BY <2>1, RunAtType
    <2>3. QED
      BY <2>2 DEF Working
  <1>5. \A m \in Lead : Weight(x, m) = 0
    BY RunAtCarriesNothing DEF Weight
  <1>6. l = run[r].lead
    OBVIOUS
  <1>11. row = Flush(db[l], old, new)
    BY DEF Outcome
  <1> HIDE DEF l, old, new, x
  <1>7. row \in Row /\ row.avail \in {run[r].next, db[l].avail}
    BY <1>1, <1>2, <1>11, FlushType
  <1> HIDE DEF row
  <1>8. /\ DbOK' /\ sent' \in [Lead -> Nat] /\ reclaimed' \in [Lead -> Nat]
        /\ cleared' \in [Lead -> BOOLEAN]
    BY <1>1, <1>3, <1>7, DbUpdateType, TypeParts DEF IInv, TypeOK
  <1>9. ASSUME NEW m \in Lead
        PROVE  sent'[m] + Token(db'[m]) + Weight(x, m) + reclaimed[m]
                  <= sent[m] + Token(db[m]) + Weight(run[r], m) + reclaimed'[m]
    <2>1. sent[m] \in Nat /\ reclaimed[m] \in Nat /\ Token(db[m]) \in {0, 1}
      BY TokenType DEF IInv, TypeOK
    <2>2. Weight(run[r], m) \in {0, 1} /\ Weight(x, m) = 0
      BY <1>5 DEF Weight
    <2>3. db'[m] = IF m = l THEN row ELSE db[m]
      BY <1>3 DEF IInv, TypeOK
    <2>4. Token(db'[m]) <= Token(db[m]) + Weight(run[r], m)
      <3>1. CASE m # l
        BY <2>1, <2>2, <2>3, <3>1
      <3>2. CASE m = l /\ run[r].next = "pending"
        <4>1. Weight(run[r], m) = 1
          BY <1>1, <1>6, <3>2 DEF Weight, Carries
        <4>2. Token(db'[m]) \in {0, 1}
          BY TokenType
        <4>3. QED
          BY <2>1, <4>1, <4>2
      <3>3. CASE m = l /\ run[r].next # "pending"
        <4>1. Token(db'[m]) <= Token(db[m])
          BY <1>7, <2>3, <3>3 DEF Token
        <4>2. Token(db'[m]) \in {0, 1}
          BY TokenType
        <4>3. QED
          BY <2>1, <2>2, <4>1, <4>2
      <3>4. QED
        BY <3>1, <3>2, <3>3
    <2>5. Token(db'[m]) \in {0, 1}
      BY TokenType
    <2>6. QED
      BY <1>3, <2>1, <2>2, <2>4, <2>5
  <1>10. QED
    BY <1>3, <1>4, <1>8, <1>9, RunMoves
----------------------------------------------------------------------------
LEMMA InitInv == Init => IInv
  <1> SUFFICES ASSUME Init PROVE IInv
    OBVIOUS
  <1>1. 0 \in 0..Horizon /\ {} \in SUBSET Lead
    BY RecoveryAssumption
  <1>2. RunAt("idle", {}, 0) \in RunState /\ RunAt("idle", {}, 0).at \notin Working
    BY <1>1, RunAtType DEF Working
  <1>3. Off \in [kind: Kind, lead: Lead \cup {NoLead}, old: Row] /\ Off.kind = "off"
    BY NewRowType DEF Off, Kind
  <1>4. TypeOK
    BY <1>2, <1>3, NewRowType DEF Init, TypeOK
  <1>5. Account
    <2> SUFFICES ASSUME NEW l \in Lead
                 PROVE  sent[l] + Token(db[l]) + Cardinality(Held(l)) <= armed[l] + reclaimed[l]
      BY DEF Account
    <2>1. Held(l) = {}
      BY RunAtCarriesNothing DEF Init, Held
    <2>2. Cardinality(Held(l)) = 0
      BY <2>1, FS_EmptySet
    <2>3. Token(db[l]) = 0
      BY DEF Init, Token, NewRow
    <2>4. QED
      BY <2>2, <2>3 DEF Init
  <1>6. QED
    BY <1>4, <1>5 DEF IInv

LEMMA NextInv == IInv /\ [Next]_vars => IInv'
  <1> SUFFICES ASSUME IInv, [Next]_vars PROVE IInv'
    OBVIOUS
  <1>1. ASSUME NEW s \in Session, NEW l \in Lead, RejectLoads(s, l) \/ AnswerLoads(s, l) \/ ReplyLoads(s, l)
        PROVE  IInv'
    BY <1>1, BeginStep DEF RejectLoads, AnswerLoads, ReplyLoads, Kind
  <1>2. ASSUME NEW s \in Session, SessionStep(s)
        PROVE  IInv'
    BY <1>1, <1>2, RejectStep, AnswerStep, ReplyStep, SessionLostStep DEF SessionStep
  <1>3. ASSUME NEW r \in Run, Release(r) \/ RunStep(r) \/ Aborts(r)
        PROVE  IInv'
    <2>1. CASE Release(r) \/ Select(r) \/ Finish(r) \/ Aborts(r)
      BY <2>1, PlainRunSteps
    <2>2. CASE Claims(r)
      BY <2>2, ClaimWinsStep, ClaimLosesStep DEF Claims
    <2>3. CASE Reads(r)
      BY <2>3, ReadsStep
    <2>4. CASE Sends(r)
      BY <2>4, SendAcceptedStep, SendRefusedStep, SendRaisesStep DEF Sends
    <2>5. CASE Saves(r)
      BY <2>5, SavesStep
    <2>6. QED
      BY <1>3, <2>1, <2>2, <2>3, <2>4, <2>5 DEF RunStep
  <1>4. CASE UNCHANGED vars
    <2>1. Account' <=> Account
      BY <1>4 DEF vars, Account, Held
    <2>2. QED
      BY <1>4, <2>1 DEF vars, IInv, TypeOK
  <1>5. QED
    BY <1>2, <1>3, <1>4, HostStep, TickStep DEF Next

LEMMA Invariance == Spec => []IInv
  BY InitInv, NextInv, PTL DEF Spec

\* The leads, the sessions and the runs are well typed in every reachable
\* state (BusyRecovery's rows, ORM sessions and availability runs).
THEOREM TypeCorrect == Spec => []TypeOK
  <1>1. IInv => TypeOK
    BY DEF IInv
  <1>2. QED
    BY <1>1, Invariance, PTL

\* However releases, re-armings, answered calls, replies, failures and stops
\* interleave, the messages sent to a guest never exceed the rejections and
\* the takeovers of claims that seemed abandoned (_claim_lead).
THEOREM Accounting == Spec => []MessagesAccounted
  <1>1. IInv => MessagesAccounted
    <2> SUFFICES ASSUME IInv, NEW l \in Lead
                 PROVE  sent[l] <= armed[l] + reclaimed[l]
      BY DEF MessagesAccounted
    <2>1. sent[l] + Token(db[l]) + Cardinality(Held(l)) <= armed[l] + reclaimed[l]
      BY DEF IInv, Account
    <2>2. Token(db[l]) \in {0, 1} /\ Cardinality(Held(l)) \in Nat
      BY TokenType, HeldFinite
    <2>3. sent[l] \in Nat /\ armed[l] \in Nat /\ reclaimed[l] \in Nat
      BY DEF IInv, TypeOK
    <2>4. QED
      BY <2>1, <2>2, <2>3
  <1>2. QED
    BY <1>1, Invariance, PTL
----------------------------------------------------------------------------
(* What the other theorems need to know of a step *)

\* What a session or the host may do to a row.
RowKept(m) ==
    /\ db'[m].claim \in {Null, db[m].claim}
    /\ db'[m].since \in {0, db[m].since}
    /\ armed'[m] \in {armed[m], armed[m] + 1}
    /\ \/ db'[m].avail \in {db[m].avail, "none"}
       \/ db'[m].avail = "pending" /\ armed'[m] = armed[m] + 1
    /\ cleared'[m] => \/ cleared[m] /\ db'[m].avail = db[m].avail
                      \/ db'[m].avail = "none"

SessionShape == run' = run /\ sent' = sent /\ \A m \in Lead : RowKept(m)

LEMMA RowsSame ==
  ASSUME db' = db, armed' = armed, cleared' = cleared, sent' = sent, run' = run
  PROVE  SessionShape
  BY DEF SessionShape, RowKept

\* One row of db changes, and what is known of it.
LEMMA RowShape ==
  ASSUME TypeOK, NEW l \in Lead, NEW row, db' = [db EXCEPT ![l] = row],
         run' = run, sent' = sent,
         NEW more \in {0, 1}, armed' = [armed EXCEPT ![l] = @ + more],
         \A m \in Lead \ {l} : cleared'[m] = cleared[m],
         row.claim \in {Null, db[l].claim}, row.since \in {0, db[l].since},
         \/ row.avail \in {db[l].avail, "none"}
         \/ row.avail = "pending" /\ more = 1,
         cleared'[l] => (cleared[l] /\ row.avail = db[l].avail) \/ row.avail = "none"
  PROVE  SessionShape
  <1> SUFFICES ASSUME NEW m \in Lead PROVE RowKept(m)
    BY DEF SessionShape
  <1>1. armed[m] \in Nat /\ armed'[m] = IF m = l THEN armed[m] + more ELSE armed[m]
    BY DEF TypeOK
  <1>2. db'[m] = IF m = l THEN row ELSE db[m]
    BY DEF TypeOK
  <1>3. CASE m = l
    BY <1>1, <1>2, <1>3 DEF RowKept
  <1>4. CASE m # l
    BY <1>1, <1>2, <1>4 DEF RowKept
  <1>5. QED
    BY <1>3, <1>4

LEMMA RejectShape ==
  ASSUME TypeOK, NEW s \in Session, RejectCommits(s)
  PROVE  SessionShape
  <1> DEFINE l == sess[s].lead
             old == sess[s].old
             new == [old EXCEPT !.status = "open", !.avail = "pending", !.follow = "callback"]
             row == [Flush(db[l], old, new) EXCEPT !.since = 0]
  <1>1. l \in Lead /\ old \in Row /\ db[l] \in Row
    BY DEF RejectCommits, TypeOK
  <1>2. new \in Row /\ new.avail = "pending" /\ new.claim = old.claim
    BY <1>1 DEF Row, Avail
  <1>3. /\ db' = [db EXCEPT ![l] = row]
        /\ armed' = [armed EXCEPT ![l] = @ + 1]
        /\ cleared' = [cleared EXCEPT ![l] = FALSE]
        /\ run' = run /\ sent' = sent
    BY DEF RejectCommits
  <1> HIDE DEF l, old, new
  <1>4. row.avail \in {"pending", db[l].avail} /\ row.claim = db[l].claim /\ row.since = 0
    <2>1. Flush(db[l], old, new) \in Row
      BY <1>1, <1>2, FlushType
    <2>2. /\ Flush(db[l], old, new).avail \in {"pending", db[l].avail}
          /\ Flush(db[l], old, new).claim = db[l].claim
      BY <1>1, <1>2, FlushType
    <2>3. QED
      BY <2>1, <2>2 DEF Row
  <1> HIDE DEF row
  <1>5. ~cleared'[l] /\ \A m \in Lead \ {l} : cleared'[m] = cleared[m]
    BY <1>1, <1>3 DEF TypeOK
  <1>6. QED
    BY <1>1, <1>3, <1>4, <1>5, RowShape

LEMMA AnswerShape ==
  ASSUME TypeOK, NEW s \in Session, AnswerCommits(s)
  PROVE  SessionShape
  <1> DEFINE l == sess[s].lead
             old == sess[s].old
             new == IF old.avail = "none" THEN old ELSE [old EXCEPT !.avail = "none", !.claim = Null]
             row == Flush(db[l], old, new)
  <1>1. l \in Lead /\ old \in Row /\ db[l] \in Row
    BY DEF AnswerCommits, TypeOK
  <1>2. /\ new \in Row /\ new.avail = "none" /\ new.since = old.since
        /\ new.claim \in {old.claim, Null}
    BY <1>1 DEF Row, Avail
  <1>3. /\ db' = [db EXCEPT ![l] = row]
        /\ armed' = armed /\ run' = run /\ sent' = sent
        /\ cleared' = [cleared EXCEPT ![l] = @ \/ old.avail # "none"]
    BY DEF AnswerCommits
  <1> HIDE DEF l, old, new
  <1>4. /\ row.avail = IF old.avail # "none" THEN "none" ELSE db[l].avail
        /\ row.claim \in {Null, db[l].claim} /\ row.since = db[l].since
    BY <1>1, <1>2, FlushType
  <1> HIDE DEF row
  <1>5. /\ cleared'[l] = (cleared[l] \/ old.avail # "none")
        /\ \A m \in Lead \ {l} : cleared'[m] = cleared[m]
    BY <1>1, <1>3 DEF TypeOK
  <1>6. armed' = [armed EXCEPT ![l] = @ + 0]
    BY <1>1, <1>3 DEF TypeOK
  <1>7. cleared'[l] => (cleared[l] /\ row.avail = db[l].avail) \/ row.avail = "none"
    BY <1>4, <1>5
  <1>8. QED
    BY <1>1, <1>3, <1>4, <1>5, <1>6, <1>7, RowShape

LEMMA ReplyShape ==
  ASSUME TypeOK, NEW s \in Session, ReplyCommits(s)
  PROVE  SessionShape
  <1> DEFINE l == sess[s].lead
             old == sess[s].old
             new == [old EXCEPT !.follow = "other"]
             row == Flush(db[l], old, new)
  <1>1. l \in Lead /\ old \in Row /\ db[l] \in Row
    BY DEF ReplyCommits, TypeOK
  <1>2. new \in Row /\ new.avail = old.avail /\ new.since = old.since /\ new.claim = old.claim
    BY <1>1 DEF Row
  <1>3. /\ db' = [db EXCEPT ![l] = row]
        /\ armed' = armed /\ run' = run /\ sent' = sent /\ cleared' = cleared
    BY DEF ReplyCommits, ghosts
  <1> HIDE DEF l, old, new
  <1>4. row.avail = db[l].avail /\ row.claim = db[l].claim /\ row.since = db[l].since
    BY <1>1, <1>2, FlushType
  <1> HIDE DEF row
  <1>5. armed' = [armed EXCEPT ![l] = @ + 0]
    BY <1>1, <1>3 DEF TypeOK
  <1>6. QED
    BY <1>1, <1>3, <1>4, <1>5, RowShape

LEMMA HostShape ==
  ASSUME TypeOK, NEW l \in Lead, HostMoves(l)
  PROVE  SessionShape
  <1> DEFINE row == [db[l] EXCEPT !.status = IF @ = "open" THEN "closed" ELSE "open"]
  <1>1. db[l] \in Row
    BY DEF TypeOK
  <1>2. row.avail = db[l].avail /\ row.claim = db[l].claim /\ row.since = db[l].since
    BY <1>1 DEF Row
  <1>3. /\ db' = [db EXCEPT ![l] = row]
        /\ armed' = armed /\ run' = run /\ sent' = sent /\ cleared' = cleared
    BY DEF HostMoves, ghosts, TypeOK
  <1> HIDE DEF row
  <1>4. armed' = [armed EXCEPT ![l] = @ + 0]
    BY <1>3 DEF TypeOK
  <1>5. QED
    BY <1>2, <1>3, <1>4, RowShape

LEMMA SessionSteps ==
  ASSUME TypeOK, (\E s \in Session : SessionStep(s)) \/ (\E l \in Lead : HostMoves(l))
  PROVE  SessionShape
  <1>1. ASSUME NEW s \in Session, SessionStep(s)
        PROVE  SessionShape
    <2>1. CASE \E l \in Lead : RejectLoads(s, l) \/ AnswerLoads(s, l) \/ ReplyLoads(s, l)
      <3>1. PICK l \in Lead : RejectLoads(s, l) \/ AnswerLoads(s, l) \/ ReplyLoads(s, l)
        BY <2>1
      <3>2. UNCHANGED <<db, run, ghosts>>
        BY <3>1 DEF RejectLoads, AnswerLoads, ReplyLoads, Begin
      <3>3. QED
        BY <3>2, RowsSame DEF ghosts
    <2>2. CASE SessionLost(s)
      BY <2>2, RowsSame DEF SessionLost, ghosts
    <2>3. QED
      BY <1>1, <2>1, <2>2, RejectShape, AnswerShape, ReplyShape DEF SessionStep
  <1>2. QED
    BY <1>1, HostShape
----------------------------------------------------------------------------
\* What a run may do to itself when it touches no row.
Paces(y, x) ==
    \/ x.at \in {"idle", "select", "done"}
    \/ x.at = "loop" /\ x.age = 0 /\ x.todo = Candidates
    \/ x.at = "loop" /\ y.at = "loop" /\ x.age = y.age /\ x.todo \subseteq y.todo
    \/ /\ x.at \in Working /\ y.at \in Working
       /\ x.lead = y.lead /\ x.todo = y.todo /\ x.age = y.age /\ x.spent = y.spent
       /\ x.at = "saving" => x.next \in {"notified", "pending"}

PlainShape(r) ==
    /\ db' = db /\ armed' = armed /\ cleared' = cleared
    /\ \A q \in Run \ {r} : run'[q] = run[q]
    /\ Paces(run[r], run'[r])

LEMMA RunUpdated ==
  ASSUME TypeOK, NEW r \in Run, NEW x, run' = [run EXCEPT ![r] = x]
  PROVE  run'[r] = x /\ \A q \in Run \ {r} : run'[q] = run[q]
  BY DEF TypeOK

LEMMA RunStarts ==
  ASSUME TypeOK, NEW r \in Run, NEW at, NEW todo, NEW age,
         run' = [run EXCEPT ![r] = RunAt(at, todo, age)]
  PROVE  /\ run'[r].at = at /\ run'[r].todo = todo /\ run'[r].age = age
         /\ \A q \in Run \ {r} : run'[q] = run[q]
  <1> DEFINE x == RunAt(at, todo, age)
  <1>1. x.at = at /\ x.todo = todo /\ x.age = age
    BY DEF RunAt
  <1> HIDE DEF x
  <1>2. run'[r] = x /\ \A q \in Run \ {r} : run'[q] = run[q]
    BY RunUpdated DEF x
  <1>3. QED
    BY <1>1, <1>2

LEMMA PlainSteps ==
  ASSUME TypeOK, NEW r \in Run,
         \/ Release(r) \/ Select(r) \/ Finish(r) \/ Aborts(r) \/ Reads(r) \/ Sends(r)
         \/ \E l \in Lead : ClaimLoses(r, l)
  PROVE  PlainShape(r)
  <1>1. run[r] \in RunState
    BY DEF TypeOK
  <1>2. CASE Release(r) \/ Finish(r) \/ Aborts(r)
    <2>1. PICK at \in {"select", "done"} : run' = [run EXCEPT ![r] = RunAt(at, {}, 0)]
      BY <1>2 DEF Release, Finish, Aborts
    <2>2. run'[r].at = at /\ \A q \in Run \ {r} : run'[q] = run[q]
      BY <2>1, RunStarts
    <2>3. db' = db /\ armed' = armed /\ cleared' = cleared
      BY <1>2 DEF Release, Finish, Aborts, ghosts
    <2>4. QED
      BY <2>2, <2>3 DEF PlainShape, Paces
  <1>3. CASE Select(r)
    <2>1. run' = [run EXCEPT ![r] = RunAt("loop", Candidates, 0)]
      BY <1>3 DEF Select
    <2>2. /\ run'[r].at = "loop" /\ run'[r].todo = Candidates /\ run'[r].age = 0
          /\ \A q \in Run \ {r} : run'[q] = run[q]
      BY <2>1, RunStarts
    <2>3. db' = db /\ armed' = armed /\ cleared' = cleared
      BY <1>3 DEF Select, ghosts
    <2>4. QED
      BY <2>2, <2>3 DEF PlainShape, Paces
  <1>4. CASE \E l \in Lead : ClaimLoses(r, l)
    <2>1. PICK l \in Lead : ClaimLoses(r, l)
      BY <1>4
    <2> DEFINE x == [run[r] EXCEPT !.todo = @ \ {l}]
    <2>2. x.at = "loop" /\ x.age = run[r].age /\ x.todo = run[r].todo \ {l}
      BY <1>1, <2>1 DEF RunState, ClaimLoses
    <2>3. run' = [run EXCEPT ![r] = x] /\ UNCHANGED <<db, sess, ghosts>> /\ run[r].at = "loop"
      BY <2>1 DEF ClaimLoses, TypeOK
    <2> HIDE DEF x
    <2>4. QED
      BY <2>2, <2>3, RunUpdated DEF PlainShape, Paces, ghosts
  <1>5. CASE Reads(r)
    <2> DEFINE quiet == db[run[r].lead].follow # "callback" \/ run[r].lead \notin Reachable
               x == [run[r] EXCEPT !.old = Loaded(db[run[r].lead]),
                                   !.at = IF quiet THEN "saving" ELSE "sending",
                                   !.next = IF quiet THEN "notified" ELSE "none"]
    <2>1. /\ x.at \in {"saving", "sending"} /\ (x.at = "saving" => x.next = "notified")
          /\ x.lead = run[r].lead /\ x.todo = run[r].todo /\ x.age = run[r].age /\ x.spent = run[r].spent
      BY <1>1 DEF RunState
    <2>2. run' = [run EXCEPT ![r] = x] /\ UNCHANGED <<db, sess, ghosts>> /\ run[r].at = "claimed"
      BY <1>5 DEF Reads, TypeOK
    <2> HIDE DEF x
    <2>3. QED
      BY <2>1, <2>2, RunUpdated DEF PlainShape, Paces, Working, ghosts
  <1>6. CASE SendAccepted(r)
    <2> DEFINE x == [run[r] EXCEPT !.at = "saving", !.next = "notified", !.told = armed[run[r].lead]]
    <2>1. /\ x.at = "saving" /\ x.next = "notified"
          /\ x.lead = run[r].lead /\ x.todo = run[r].todo /\ x.age = run[r].age /\ x.spent = run[r].spent
      BY <1>1 DEF RunState
    <2>2. /\ run' = [run EXCEPT ![r] = x] /\ run[r].at = "sending"
          /\ db' = db /\ armed' = armed /\ cleared' = cleared
      BY <1>6 DEF SendAccepted, TypeOK
    <2> HIDE DEF x
    <2>3. QED
      BY <2>1, <2>2, RunUpdated DEF PlainShape, Paces, Working
  <1>7. CASE SendRefused(r)
    <2> DEFINE x == [run[r] EXCEPT !.at = "saving", !.next = "pending"]
    <2>1. /\ x.at = "saving" /\ x.next = "pending"
          /\ x.lead = run[r].lead /\ x.todo = run[r].todo /\ x.age = run[r].age /\ x.spent = run[r].spent
      BY <1>1 DEF RunState
    <2>2. run' = [run EXCEPT ![r] = x] /\ UNCHANGED <<db, sess, ghosts>> /\ run[r].at = "sending"
      BY <1>7 DEF SendRefused, TypeOK
    <2> HIDE DEF x
    <2>3. QED
      BY <2>1, <2>2, RunUpdated DEF PlainShape, Paces, Working, ghosts
  <1>8. CASE SendRaises(r)
    <2>1. /\ run' = [run EXCEPT ![r] = RunAt("done", {}, 0)]
          /\ db' = db /\ armed' = armed /\ cleared' = cleared
      BY <1>8 DEF SendRaises
    <2>2. run'[r].at = "done" /\ \A q \in Run \ {r} : run'[q] = run[q]
      BY <2>1, RunStarts
    <2>3. QED
      BY <2>1, <2>2 DEF PlainShape, Paces
  <1>9. QED
    BY <1>2, <1>3, <1>4, <1>5, <1>6, <1>7, <1>8 DEF Sends

WinShape(r, l) ==
    /\ run[r].at = "loop" /\ l \in run[r].todo
    /\ db[l].avail = "pending" \/ (db[l].avail = "processing" /\ Expired(l, run[r].age))
    /\ armed' = armed /\ cleared' = cleared
    /\ \A q \in Run \ {r} : run'[q] = run[q]
    /\ run'[r].at = "claimed" /\ run'[r].lead = l /\ run'[r].todo = run[r].todo \ {l}
    /\ run'[r].age = run[r].age /\ run'[r].spent = 0
    /\ \A m \in Lead \ {l} : db'[m] = db[m]
    /\ db'[l].avail = "processing" /\ db'[l].claim = 0 /\ db'[l].since = db[l].since

LEMMA WinSteps ==
  ASSUME TypeOK, NEW r \in Run, NEW l \in Lead, ClaimWins(r, l)
  PROVE  WinShape(r, l)
  <1> DEFINE base == RunAt("claimed", run[r].todo \ {l}, run[r].age)
             x == [base EXCEPT !.lead = l]
             row == [db[l] EXCEPT !.avail = "processing", !.claim = 0]
  <1>1. run[r] \in RunState /\ db[l] \in Row /\ run[r].at = "loop" /\ l \in run[r].todo
    BY DEF TypeOK, ClaimWins
  <1>2. /\ x.at = "claimed" /\ x.lead = l /\ x.todo = run[r].todo \ {l}
        /\ x.age = run[r].age /\ x.spent = 0
    BY DEF RunAt
  <1>3. row.avail = "processing" /\ row.claim = 0 /\ row.since = db[l].since
    BY <1>1 DEF Row
  <1>4. /\ db' = [db EXCEPT ![l] = row] /\ run' = [run EXCEPT ![r] = x]
        /\ armed' = armed /\ cleared' = cleared
    BY DEF ClaimWins, TypeOK
  <1>5. db[l].avail = "pending" \/ (db[l].avail = "processing" /\ Expired(l, run[r].age))
    BY DEF ClaimWins, Claimable
  <1> HIDE DEF x, row
  <1>6. db'[l] = row /\ \A m \in Lead \ {l} : db'[m] = db[m]
    BY <1>4 DEF TypeOK
  <1>7. run'[r] = x /\ \A q \in Run \ {r} : run'[q] = run[q]
    BY <1>4, RunUpdated
  <1>8. QED
    BY <1>1, <1>2, <1>3, <1>4, <1>5, <1>6, <1>7 DEF WinShape

SaveShape(r) ==
    LET l == run[r].lead
    IN  /\ run[r].at = "saving"
        /\ armed' = armed
        /\ \A q \in Run \ {r} : run'[q] = run[q]
        /\ run'[r].at = "loop" /\ run'[r].todo = run[r].todo /\ run'[r].age = run[r].age
        /\ \A m \in Lead \ {l} : db'[m] = db[m] /\ cleared'[m] = cleared[m]
        /\ db'[l].avail \in {run[r].next, db[l].avail}
        /\ db'[l].claim \in {Null, db[l].claim} /\ db'[l].since = db[l].since
        /\ cleared'[l] => cleared[l] /\ db'[l].avail # "pending"

LEMMA SaveSteps ==
  ASSUME TypeOK, NEW r \in Run, Saves(r)
  PROVE  run[r].lead \in Lead /\ SaveShape(r)
  <1> DEFINE l == run[r].lead
             old == run[r].old
             new == [old EXCEPT !.avail = run[r].next, !.claim = Null]
             row == Outcome(r)
  <1>1. /\ run[r] \in RunState /\ run[r].at = "saving" /\ l \in Lead
        /\ old \in Row /\ db[l] \in Row /\ run[r].next \in Avail
    BY DEF TypeOK, Saves, Working, RunState
  <1>2. new \in Row /\ new.avail = run[r].next /\ new.claim = Null /\ new.since = old.since
    BY <1>1 DEF Row
  <1>3. /\ db' = [db EXCEPT ![l] = row]
        /\ run' = [run EXCEPT ![r] = RunAt("loop", run[r].todo, run[r].age)]
        /\ armed' = armed
        /\ cleared' = [cleared EXCEPT ![l] = @ /\ row.avail # "pending"]
    BY DEF Saves
  <1>4. row = Flush(db[l], old, new)
    BY DEF Outcome
  <1>5. l = run[r].lead
    OBVIOUS
  <1> HIDE DEF l, old, new
  <1>6. /\ row.avail \in {run[r].next, db[l].avail}
        /\ row.claim \in {Null, db[l].claim} /\ row.since = db[l].since
    BY <1>1, <1>2, <1>4, FlushType
  <1> HIDE DEF row
  <1>7. db'[l] = row /\ \A m \in Lead \ {l} : db'[m] = db[m]
    BY <1>1, <1>3 DEF TypeOK
  <1>8. /\ cleared'[l] = (cleared[l] /\ row.avail # "pending")
        /\ \A m \in Lead \ {l} : cleared'[m] = cleared[m]
    BY <1>1, <1>3 DEF TypeOK
  <1>9. /\ \A q \in Run \ {r} : run'[q] = run[q]
        /\ run'[r].at = "loop" /\ run'[r].todo = run[r].todo /\ run'[r].age = run[r].age
    BY <1>3, RunStarts
  <1>10. cleared'[l] => cleared[l] /\ db'[l].avail # "pending"
    BY <1>7, <1>8
  <1>11. /\ db'[l].avail \in {run[r].next, db[l].avail}
         /\ db'[l].claim \in {Null, db[l].claim} /\ db'[l].since = db[l].since
    BY <1>6, <1>7
  <1>12. \A m \in Lead \ {l} : db'[m] = db[m] /\ cleared'[m] = cleared[m]
    BY <1>7, <1>8
  <1>13. QED
    BY <1>1, <1>3, <1>5, <1>9, <1>10, <1>11, <1>12 DEF SaveShape
TickShape ==
    /\ armed' = armed /\ cleared' = cleared
    /\ \A l \in Lead : /\ db'[l].avail = db[l].avail
                       /\ db'[l].claim = IF db[l].claim = Null THEN Null ELSE Older(db[l].claim)
                       /\ db'[l].since \in {db[l].since, Older(db[l].since)}
    /\ \A r \in Run :
          \/ run[r].at \in {"idle", "done"} /\ run'[r] = run[r]
          \/ /\ run[r].at \in Working /\ run[r].spent < SendMax
             /\ run'[r].at = run[r].at /\ run'[r].lead = run[r].lead
             /\ run'[r].todo = run[r].todo /\ run'[r].next = run[r].next
             /\ run'[r].age = Older(run[r].age) /\ run'[r].spent = Older(run[r].spent)

LEMMA TickSteps ==
  ASSUME TypeOK, Tick
  PROVE  TickShape
  <1>1. armed' = armed /\ cleared' = cleared
    BY DEF Tick, ghosts
  <1>2. ASSUME NEW l \in Lead
        PROVE  /\ db'[l].avail = db[l].avail
               /\ db'[l].claim = IF db[l].claim = Null THEN Null ELSE Older(db[l].claim)
               /\ db'[l].since \in {db[l].since, Older(db[l].since)}
    <2>1. db[l] \in Row
      BY DEF TypeOK
    <2>2. db'[l] = [db[l] EXCEPT !.since = IF db[l].status = "absent" THEN @ ELSE Older(@),
                                 !.claim = IF @ = Null THEN @ ELSE Older(@)]
      BY DEF Tick
    <2>3. QED
      BY <2>1, <2>2 DEF Row
  <1>3. ASSUME NEW r \in Run
        PROVE  \/ run[r].at \in {"idle", "done"} /\ run'[r] = run[r]
               \/ /\ run[r].at \in Working /\ run[r].spent < SendMax
                  /\ run'[r].at = run[r].at /\ run'[r].lead = run[r].lead
                  /\ run'[r].todo = run[r].todo /\ run'[r].next = run[r].next
                  /\ run'[r].age = Older(run[r].age) /\ run'[r].spent = Older(run[r].spent)
    <2>1. run[r] \in RunState
      BY DEF TypeOK
    <2>2. CASE run[r].at \in Working /\ run[r].spent < SendMax
      <3>1. run'[r] = [run[r] EXCEPT !.age = Older(@), !.spent = Older(@)]
        BY <2>2 DEF Tick
      <3>2. QED
        BY <2>1, <2>2, <3>1 DEF RunState
    <2>3. CASE run[r].at \in {"idle", "done"}
      <3>1. run'[r] = run[r]
        BY <2>3 DEF Tick, Working
      <3>2. QED
        BY <2>3, <3>1
    <2>4. QED
      BY <2>2, <2>3 DEF Tick
  <1>4. QED
    BY <1>1, <1>2, <1>3 DEF TickShape

\* Every step has one of these shapes.
LEMMA Shapes ==
  ASSUME TypeOK, [Next]_vars
  PROVE  \/ SessionShape
         \/ \E r \in Run : PlainShape(r)
         \/ \E r \in Run, l \in Lead : WinShape(r, l)
         \/ \E r \in Run : run[r].lead \in Lead /\ SaveShape(r)
         \/ TickShape
  <1>1. CASE UNCHANGED vars
    BY <1>1, RowsSame DEF vars
  <1>2. CASE (\E s \in Session : SessionStep(s)) \/ (\E l \in Lead : HostMoves(l))
    BY <1>2, SessionSteps
  <1>3. CASE \E r \in Run : Release(r) \/ RunStep(r) \/ Aborts(r)
    <2>1. PICK r \in Run : Release(r) \/ RunStep(r) \/ Aborts(r)
      BY <1>3
    <2>2. CASE Saves(r)
      BY <2>2, SaveSteps
    <2>3. CASE \E l \in Lead : ClaimWins(r, l)
      BY <2>3, WinSteps
    <2>4. CASE \/ Release(r) \/ Select(r) \/ Finish(r) \/ Aborts(r) \/ Reads(r) \/ Sends(r)
               \/ \E l \in Lead : ClaimLoses(r, l)
      BY <2>4, PlainSteps
    <2>5. QED
      BY <2>1, <2>2, <2>3, <2>4 DEF RunStep, Claims
  <1>4. CASE Tick
    BY <1>4, TickSteps
  <1>5. QED
    BY <1>1, <1>2, <1>3, <1>4 DEF Next
----------------------------------------------------------------------------
(* AnsweredStaysQuiet.  A row whose guest was answered is not armed, and a *)
(* run that saves hands a row back only as pending or as notified.         *)

Named(r) == run[r].at = "saving" => run[r].next \in {"notified", "pending"}
Calm(l) == cleared[l] => db[l].avail \in {"none", "notified"}
QuietInv == (\A r \in Run : Named(r)) /\ (\A l \in Lead : Calm(l))

LEMMA QuietStep ==
  ASSUME TypeOK, QuietInv, [Next]_vars
  PROVE  QuietInv'
  <1>1. CASE SessionShape
    BY <1>1 DEF SessionShape, RowKept, QuietInv, Named, Calm
  <1>2. ASSUME NEW r \in Run, PlainShape(r)
        PROVE  QuietInv'
    <2>1. \A l \in Lead : Calm(l)'
      BY <1>2 DEF PlainShape, QuietInv, Calm
    <2>2. \A q \in Run : Named(q)'
      BY <1>2 DEF PlainShape, Paces, QuietInv, Named
    <2>3. QED
      BY <2>1, <2>2 DEF QuietInv
  <1>3. ASSUME NEW r \in Run, NEW l \in Lead, WinShape(r, l)
        PROVE  QuietInv'
    <2>1. \A m \in Lead : Calm(m)'
      BY <1>3 DEF WinShape, QuietInv, Calm
    <2>2. \A q \in Run : Named(q)'
      BY <1>3 DEF WinShape, QuietInv, Named
    <2>3. QED
      BY <2>1, <2>2 DEF QuietInv
  <1>4. ASSUME NEW r \in Run, run[r].lead \in Lead, SaveShape(r)
        PROVE  QuietInv'
    <2>1. \A m \in Lead : Calm(m)'
      BY <1>4 DEF SaveShape, QuietInv, Calm, Named
    <2>2. \A q \in Run : Named(q)'
      BY <1>4 DEF SaveShape, QuietInv, Named
    <2>3. QED
      BY <2>1, <2>2 DEF QuietInv
  <1>5. CASE TickShape
    <2>1. \A m \in Lead : Calm(m)'
      BY <1>5 DEF TickShape, QuietInv, Calm
    <2>2. \A q \in Run : Named(q)'
      BY <1>5 DEF TickShape, QuietInv, Named, Working
    <2>3. QED
      BY <2>1, <2>2 DEF QuietInv
  <1>6. QED
    BY <1>1, <1>2, <1>3, <1>4, <1>5, Shapes
----------------------------------------------------------------------------
(* MessagesTimely.  A run is never further in time than its finished leads *)
(* and the current one allow, and the leads it has yet to do were armed    *)
(* within the window when it began.                                        *)

Time(n) == SendMax * n

LEMMA TimeGrows ==
  ASSUME NEW n \in Nat
  PROVE  /\ Time(n) \in Nat
         /\ Time(n + 1) = Time(n) + SendMax
         /\ n > 0 => SendMax <= Time(n)
         /\ \A m \in Nat : m <= n => Time(m) <= Time(n)
  BY RecoveryAssumption DEF Time

\* The time the leads that are no longer in todo may have taken.
Turns(todo) == Time(Cardinality(Lead \ todo))

LEMMA TurnsGrow ==
  ASSUME NEW todo \in SUBSET Lead
  PROVE  /\ Turns(todo) \in Nat
         /\ Turns(todo) <= Time(Cardinality(Lead))
         /\ \A some \in SUBSET todo : Turns(todo) <= Turns(some)
         /\ \A l \in todo : Turns(todo \ {l}) = Turns(todo) + SendMax
         /\ \A l \in Lead \ todo : SendMax <= Turns(todo)
  <1>1. \A s \in SUBSET Lead : IsFiniteSet(s) /\ Cardinality(s) \in Nat /\ Cardinality(s) <= Cardinality(Lead)
    BY RecoveryAssumption, FS_Subset, FS_CardinalityType
  <1>2. Turns(todo) \in Nat /\ Turns(todo) <= Time(Cardinality(Lead))
    <2>1. Lead \ todo \in SUBSET Lead /\ Lead \in SUBSET Lead
      OBVIOUS
    <2>2. QED
      BY <1>1, <2>1, TimeGrows DEF Turns
  <1>3. ASSUME NEW some \in SUBSET todo
        PROVE  Turns(todo) <= Turns(some)
    <2>1. Lead \ todo \subseteq Lead \ some /\ Lead \ some \in SUBSET Lead /\ Lead \ todo \in SUBSET Lead
      OBVIOUS
    <2>2. Cardinality(Lead \ todo) <= Cardinality(Lead \ some)
      BY <1>1, <2>1, FS_Subset
    <2>3. QED
      BY <1>1, <2>1, <2>2, TimeGrows DEF Turns
  <1>4. ASSUME NEW l \in todo
        PROVE  Turns(todo \ {l}) = Turns(todo) + SendMax
    <2>1. Lead \ (todo \ {l}) = (Lead \ todo) \cup {l} /\ l \notin Lead \ todo /\ Lead \ todo \in SUBSET Lead
      OBVIOUS
    <2>2. Cardinality(Lead \ (todo \ {l})) = Cardinality(Lead \ todo) + 1
      BY <1>1, <2>1, FS_AddElement
    <2>3. QED
      BY <1>1, <2>1, <2>2, TimeGrows DEF Turns
  <1>5. ASSUME NEW l \in Lead \ todo
        PROVE  SendMax <= Turns(todo)
    <2>1. Lead \ todo \in SUBSET Lead /\ Lead \ todo # {}
      OBVIOUS
    <2>2. Cardinality(Lead \ todo) > 0
      BY <1>1, <2>1, FS_EmptySet
    <2>3. QED
      BY <1>1, <2>1, <2>2, TimeGrows DEF Turns
  <1>6. QED
    BY <1>2, <1>3, <1>4, <1>5

\* A run between two leads, and a run that works on one.
Waiting(r) ==
    run[r].at = "loop" =>
      /\ run[r].age <= Turns(run[r].todo)
      /\ \A l \in run[r].todo : db[l].since <= Window + run[r].age
Engaged(r) ==
    run[r].at \in Working =>
      /\ run[r].lead \in Lead \ run[r].todo
      /\ run[r].spent <= SendMax
      /\ run[r].age + SendMax <= Turns(run[r].todo) + run[r].spent
      /\ \A l \in run[r].todo \cup {run[r].lead} : db[l].since <= Window + run[r].age

TimelyInv == \A r \in Run : Waiting(r) /\ Engaged(r)

LEMMA RunNumbers ==
  ASSUME TypeOK, NEW r \in Run
  PROVE  /\ run[r].age \in Nat /\ run[r].spent \in Nat
         /\ run[r].age <= Horizon /\ run[r].spent <= Horizon
         /\ run[r].todo \in SUBSET Lead
         /\ run[r].at \in Working => run[r].lead \in Lead
         /\ run[r].at = "loop" => run[r].at \notin Working
  BY RecoveryAssumption DEF TypeOK, RunState, Working

LEMMA RowNumbers ==
  ASSUME TypeOK, NEW l \in Lead
  PROVE  /\ db[l].since \in Nat /\ db[l].since <= Horizon
         /\ db[l].claim # Null => db[l].claim \in Nat /\ db[l].claim <= Horizon
  BY RecoveryAssumption DEF TypeOK, Row

\* Rows whose rejection is no older than before leave the runs in time.
LEMMA TimelyKept ==
  ASSUME TypeOK, TypeOK', TimelyInv, \A l \in Lead : db'[l].since <= db[l].since,
         NEW q \in Run, run'[q] = run[q]
  PROVE  Waiting(q)' /\ Engaged(q)'
  <1>1. \A l \in Lead : db[l].since \in Nat /\ db'[l].since \in Nat /\ db'[l].since <= db[l].since
    BY RowNumbers DEF TypeOK, Row
  <1>2. run[q].age \in Nat /\ Window \in Nat /\ run[q].todo \in SUBSET Lead
        /\ (run[q].at \in Working => run[q].lead \in Lead)
    BY RunNumbers, RecoveryAssumption
  <1>3. \A l \in Lead : db[l].since <= Window + run[q].age => db'[l].since <= Window + run[q].age
    BY <1>1, <1>2
  <1>4. Waiting(q) /\ Engaged(q)
    BY DEF TimelyInv
  <1>5. Waiting(q)'
    BY <1>2, <1>3, <1>4 DEF Waiting
  <1>6. Engaged(q)'
    BY <1>2, <1>3, <1>4 DEF Engaged
  <1>7. QED
    BY <1>5, <1>6
LEMMA TimelySession ==
  ASSUME TypeOK, TypeOK', TimelyInv, SessionShape
  PROVE  TimelyInv'
  <1>1. \A l \in Lead : db'[l].since <= db[l].since
    BY RowNumbers DEF SessionShape, RowKept
  <1>2. \A q \in Run : run'[q] = run[q]
    BY DEF SessionShape
  <1>3. QED
    BY <1>1, <1>2, TimelyKept DEF TimelyInv

LEMMA TimelyPlain ==
  ASSUME TypeOK, TypeOK', TimelyInv, NEW r \in Run, PlainShape(r)
  PROVE  TimelyInv'
  <1>1. db' = db /\ (\A q \in Run \ {r} : run'[q] = run[q]) /\ Paces(run[r], run'[r])
    BY DEF PlainShape
  <1>2. \A l \in Lead : db'[l].since <= db[l].since
    BY <1>1, RowNumbers
  <1>3. Waiting(r) /\ Engaged(r)
    BY DEF TimelyInv
  <1>4. /\ run[r].age \in Nat /\ run[r].todo \in SUBSET Lead
        /\ run'[r].age \in Nat /\ run'[r].todo \in SUBSET Lead
        /\ "loop" \notin Working
    BY RunNumbers DEF TypeOK, RunState, Working
  <1>5. Waiting(r)'
    <2> SUFFICES ASSUME run'[r].at = "loop"
                 PROVE  /\ run'[r].age <= Turns(run'[r].todo)
                        /\ \A l \in run'[r].todo : db[l].since <= Window + run'[r].age
      BY <1>1 DEF Waiting
    <2>1. CASE run'[r].age = 0 /\ run'[r].todo = Candidates
      <3>1. \A l \in Candidates : db[l].since <= Window
        BY DEF Candidates
      <3>2. Turns(run'[r].todo) \in Nat
        BY <1>4, TurnsGrow
      <3>3. QED
        BY <2>1, <3>1, <3>2, RecoveryAssumption
    <2>2. CASE run[r].at = "loop" /\ run'[r].age = run[r].age /\ run'[r].todo \subseteq run[r].todo
      <3>1. /\ Turns(run[r].todo) <= Turns(run'[r].todo)
            /\ Turns(run[r].todo) \in Nat /\ Turns(run'[r].todo) \in Nat
        BY <1>4, <2>2, TurnsGrow
      <3>2. QED
        BY <1>3, <1>4, <2>2, <3>1 DEF Waiting
    <2>3. QED
      BY <1>1, <1>4, <2>1, <2>2 DEF Paces
  <1>6. Engaged(r)'
    <2> SUFFICES ASSUME run'[r].at \in Working
                 PROVE  /\ run'[r].lead \in Lead \ run'[r].todo
                        /\ run'[r].spent <= SendMax
                        /\ run'[r].age + SendMax <= Turns(run'[r].todo) + run'[r].spent
                        /\ \A l \in run'[r].todo \cup {run'[r].lead} : db[l].since <= Window + run'[r].age
      BY <1>1 DEF Engaged
    <2>1. /\ run[r].at \in Working /\ run'[r].lead = run[r].lead /\ run'[r].todo = run[r].todo
          /\ run'[r].age = run[r].age /\ run'[r].spent = run[r].spent
      BY <1>1, <1>4 DEF Paces, Working
    <2>2. QED
      BY <1>3, <2>1 DEF Engaged
  <1>7. ASSUME NEW q \in Run \ {r}
        PROVE  Waiting(q)' /\ Engaged(q)'
    BY <1>1, <1>2, TimelyKept
  <1>8. QED
    BY <1>5, <1>6, <1>7 DEF TimelyInv

LEMMA TimelyWin ==
  ASSUME TypeOK, TypeOK', TimelyInv, NEW r \in Run, NEW l \in Lead, WinShape(r, l)
  PROVE  TimelyInv'
  <1>1. /\ run[r].at = "loop" /\ l \in run[r].todo /\ (\A q \in Run \ {r} : run'[q] = run[q])
        /\ run'[r].at = "claimed" /\ run'[r].lead = l /\ run'[r].todo = run[r].todo \ {l}
        /\ run'[r].age = run[r].age /\ run'[r].spent = 0
        /\ \A m \in Lead : db'[m].since = db[m].since
    BY DEF WinShape
  <1>2. \A m \in Lead : db'[m].since <= db[m].since
    BY <1>1, RowNumbers
  <1>3. /\ run[r].age <= Turns(run[r].todo)
        /\ \A m \in run[r].todo : db[m].since <= Window + run[r].age
    BY <1>1 DEF TimelyInv, Waiting
  <1>4. run[r].age \in Nat /\ run[r].todo \in SUBSET Lead
    BY RunNumbers
  <1>5. Turns(run[r].todo \ {l}) = Turns(run[r].todo) + SendMax /\ Turns(run[r].todo) \in Nat
    BY <1>1, <1>4, TurnsGrow
  <1>6. Engaged(r)'
    BY <1>1, <1>3, <1>4, <1>5, RecoveryAssumption DEF Engaged
  <1>7. Waiting(r)'
    BY <1>1 DEF Waiting
  <1>8. ASSUME NEW q \in Run \ {r}
        PROVE  Waiting(q)' /\ Engaged(q)'
    BY <1>1, <1>2, TimelyKept
  <1>9. QED
    BY <1>6, <1>7, <1>8 DEF TimelyInv

LEMMA TimelySave ==
  ASSUME TypeOK, TypeOK', TimelyInv, NEW r \in Run, run[r].lead \in Lead, SaveShape(r)
  PROVE  TimelyInv'
  <1>1. /\ run[r].at = "saving" /\ (\A q \in Run \ {r} : run'[q] = run[q])
        /\ run'[r].at = "loop" /\ run'[r].todo = run[r].todo /\ run'[r].age = run[r].age
        /\ \A m \in Lead : db'[m].since = db[m].since
    BY DEF SaveShape
  <1>2. \A m \in Lead : db'[m].since <= db[m].since
    BY <1>1, RowNumbers
  <1>3. /\ run[r].spent <= SendMax
        /\ run[r].age + SendMax <= Turns(run[r].todo) + run[r].spent
        /\ \A m \in run[r].todo : db[m].since <= Window + run[r].age
    BY <1>1 DEF TimelyInv, Engaged, Working
  <1>4. run[r].age \in Nat /\ run[r].spent \in Nat /\ run[r].todo \in SUBSET Lead
    BY RunNumbers
  <1>5. Turns(run[r].todo) \in Nat
    BY <1>4, TurnsGrow
  <1>6. run[r].age <= Turns(run[r].todo)
    BY <1>3, <1>4, <1>5, RecoveryAssumption
  <1>7. Waiting(r)'
    BY <1>1, <1>3, <1>4, <1>6 DEF Waiting
  <1>8. Engaged(r)'
    BY <1>1 DEF Engaged, Working
  <1>9. ASSUME NEW q \in Run \ {r}
        PROVE  Waiting(q)' /\ Engaged(q)'
    BY <1>1, <1>2, TimelyKept
  <1>10. QED
    BY <1>7, <1>8, <1>9 DEF TimelyInv

LEMMA TimelyTick ==
  ASSUME TypeOK, TypeOK', TimelyInv, TickShape
  PROVE  TimelyInv'
  <1> SUFFICES ASSUME NEW r \in Run PROVE Waiting(r)' /\ Engaged(r)'
    BY DEF TimelyInv
  <1>1. CASE run[r].at \in {"idle", "done"} /\ run'[r] = run[r]
    BY <1>1 DEF Waiting, Engaged, Working
  <1>2. CASE /\ run[r].at \in Working /\ run[r].spent < SendMax
             /\ run'[r].at = run[r].at /\ run'[r].lead = run[r].lead
             /\ run'[r].todo = run[r].todo
             /\ run'[r].age = Older(run[r].age) /\ run'[r].spent = Older(run[r].spent)
    <2>1. /\ run[r].age \in Nat /\ run[r].spent \in Nat
          /\ run[r].age <= Horizon /\ run[r].spent <= Horizon
          /\ run[r].todo \in SUBSET Lead /\ run[r].lead \in Lead
      BY <1>2, RunNumbers
    <2>2. /\ run[r].lead \in Lead \ run[r].todo
          /\ run[r].age + SendMax <= Turns(run[r].todo) + run[r].spent
          /\ \A l \in run[r].todo \cup {run[r].lead} : db[l].since <= Window + run[r].age
      BY <1>2 DEF TimelyInv, Engaged
    <2>3. Turns(run[r].todo) \in Nat /\ SendMax <= Turns(run[r].todo)
      BY <2>1, <2>2, TurnsGrow
    <2>4. Older(run[r].spent) <= SendMax
      BY <1>2, <2>1, RecoveryAssumption DEF Older
    <2>5. Older(run[r].age) + SendMax <= Turns(run[r].todo) + Older(run[r].spent)
      BY <2>1, <2>2, <2>3, RecoveryAssumption DEF Older
    <2>6. ASSUME NEW l \in Lead, db[l].since <= Window + run[r].age
          PROVE  db'[l].since <= Window + Older(run[r].age)
      <3>1. db[l].since \in Nat /\ db[l].since <= Horizon
        BY RowNumbers
      <3>2. db'[l].since \in {db[l].since, Older(db[l].since)}
        BY DEF TickShape
      <3>3. Older(db[l].since) <= Window + Older(run[r].age) /\ db[l].since <= Window + Older(run[r].age)
        BY <2>1, <2>6, <3>1, RecoveryAssumption DEF Older
      <3>4. QED
        BY <3>2, <3>3
    <2>7. Engaged(r)'
      BY <1>2, <2>1, <2>2, <2>4, <2>5, <2>6 DEF Engaged
    <2>8. Waiting(r)'
      BY <1>2 DEF Waiting, Working
    <2>9. QED
      BY <2>7, <2>8
  <1>3. QED
    BY <1>1, <1>2 DEF TickShape

LEMMA TimelyStep ==
  ASSUME TypeOK, TypeOK', TimelyInv, [Next]_vars
  PROVE  TimelyInv'
  BY Shapes, TimelySession, TimelyPlain, TimelyWin, TimelySave, TimelyTick
----------------------------------------------------------------------------
(* NeverDoubleClaimed.  The claim of a row is no older than any run that   *)
(* works on it, and no more runs work on it than it has been armed.        *)

Fresh(r) ==
    run[r].at \in Working =>
      LET claim == db[run[r].lead].claim IN claim # Null => claim <= run[r].spent

Owed(l) ==
    /\ Cardinality(InFlight(l)) + Token(db[l]) <= armed[l]
    /\ db[l].avail \in {"pending", "processing"} => armed[l] >= 1

ClaimInv == (\A r \in Run : Fresh(r)) /\ (\A l \in Lead : Owed(l))

LEMMA FlightFinite ==
  ASSUME NEW l \in Lead
  PROVE  IsFiniteSet(InFlight(l)) /\ Cardinality(InFlight(l)) \in Nat
  BY RecoveryAssumption, FS_Subset, FS_CardinalityType DEF InFlight

\* The work of one run counts for the lead it works on.
Works(x, l) == IF x.lead = l /\ x.at \in Working THEN 1 ELSE 0

LEMMA FlightUpdate ==
  ASSUME NEW r \in Run, \A q \in Run \ {r} : run'[q] = run[q], NEW l \in Lead
  PROVE  /\ Cardinality(InFlight(l)') + Works(run[r], l) = Cardinality(InFlight(l)) + Works(run'[r], l)
         /\ Cardinality(InFlight(l)') \in Nat
  <1>1. IsFiniteSet(InFlight(l)) /\ Cardinality(InFlight(l)) \in Nat
    BY FlightFinite
  <1>2. CASE Works(run'[r], l) = Works(run[r], l)
    <2>1. InFlight(l)' = InFlight(l)
      BY <1>2 DEF InFlight, Works
    <2>2. Works(run[r], l) \in {0, 1}
      BY DEF Works
    <2>3. QED
      BY <1>1, <1>2, <2>1, <2>2
  <1>3. CASE Works(run'[r], l) = 1 /\ Works(run[r], l) = 0
    <2>1. r \notin InFlight(l) /\ InFlight(l)' = InFlight(l) \cup {r}
      BY <1>3 DEF InFlight, Works
    <2>2. Cardinality(InFlight(l)') = Cardinality(InFlight(l)) + 1
      BY <2>1, <1>1, FS_AddElement
    <2>3. QED
      BY <1>1, <1>3, <2>2
  <1>4. CASE Works(run'[r], l) = 0 /\ Works(run[r], l) = 1
    <2>1. r \in InFlight(l) /\ InFlight(l)' = InFlight(l) \ {r}
      BY <1>4 DEF InFlight, Works
    <2>2. Cardinality(InFlight(l)') = Cardinality(InFlight(l)) - 1 /\ Cardinality(InFlight(l)') \in Nat
      BY <2>1, <1>1, FS_RemoveElement, FS_CardinalityType
    <2>3. QED
      BY <1>1, <1>4, <2>2
  <1>5. QED
    BY <1>2, <1>3, <1>4 DEF Works
\* A claim that has expired is of no run that is still at work.
LEMMA ExpiredAlone ==
  ASSUME SendMax <= Stale, TypeOK, TimelyInv, ClaimInv,
         NEW l \in Lead, NEW age \in Nat, Expired(l, age)
  PROVE  InFlight(l) = {}
  <1> SUFFICES ASSUME NEW r \in InFlight(l) PROVE FALSE
    OBVIOUS
  <1>1. r \in Run /\ run[r].lead = l /\ run[r].at \in Working
    BY DEF InFlight
  <1>2. db[l].claim # Null /\ db[l].claim > Stale + age
    BY DEF Expired
  <1>3. db[l].claim <= run[r].spent
    BY <1>1, <1>2 DEF ClaimInv, Fresh
  <1>4. run[r].spent <= SendMax /\ run[r].spent \in Nat
    BY <1>1, RunNumbers DEF TimelyInv, Engaged
  <1>5. db[l].claim \in Nat
    BY <1>2, RowNumbers
  <1>6. QED
    BY <1>2, <1>3, <1>4, <1>5, RecoveryAssumption

LEMMA OwedNumbers ==
  ASSUME TypeOK, NEW l \in Lead
  PROVE  /\ Cardinality(InFlight(l)) \in Nat /\ armed[l] \in Nat
         /\ Token(db[l]) \in {0, 1} /\ (Token(db[l]) = 1 <=> db[l].avail = "pending")
  BY FlightFinite DEF TypeOK, Token

LEMMA ClaimSession ==
  ASSUME TypeOK, TypeOK', ClaimInv, SessionShape
  PROVE  ClaimInv'
  <1>1. run' = run
    BY DEF SessionShape
  <1>2. ASSUME NEW r \in Run
        PROVE  Fresh(r)'
    <2> SUFFICES ASSUME run[r].at \in Working, db'[run[r].lead].claim # Null
                 PROVE  db'[run[r].lead].claim <= run[r].spent
      BY <1>1 DEF Fresh
    <2>1. run[r].lead \in Lead
      BY RunNumbers
    <2>2. db'[run[r].lead].claim = db[run[r].lead].claim
      BY <2>1 DEF SessionShape, RowKept
    <2>3. QED
      BY <2>2 DEF ClaimInv, Fresh
  <1>3. ASSUME NEW l \in Lead
        PROVE  Owed(l)'
    <2>1. InFlight(l)' = InFlight(l)
      BY <1>1 DEF InFlight
    <2>2. /\ Cardinality(InFlight(l)) \in Nat /\ armed[l] \in Nat
          /\ Token(db[l]) \in {0, 1} /\ (Token(db[l]) = 1 <=> db[l].avail = "pending")
      BY OwedNumbers
    <2>3. Token(db'[l]) \in {0, 1} /\ (Token(db'[l]) = 1 <=> db'[l].avail = "pending")
      BY DEF Token
    <2>4. /\ armed'[l] \in {armed[l], armed[l] + 1}
          /\ \/ db'[l].avail \in {db[l].avail, "none"}
             \/ db'[l].avail = "pending" /\ armed'[l] = armed[l] + 1
      BY DEF SessionShape, RowKept
    <2>5. Owed(l)
      BY DEF ClaimInv
    <2>6. Cardinality(InFlight(l)) + Token(db'[l]) <= armed'[l]
      BY <2>2, <2>3, <2>4, <2>5 DEF Owed
    <2>7. db'[l].avail \in {"pending", "processing"} => armed'[l] >= 1
      BY <2>2, <2>4, <2>5 DEF Owed
    <2>8. QED
      BY <2>1, <2>6, <2>7 DEF Owed
  <1>4. QED
    BY <1>2, <1>3 DEF ClaimInv

LEMMA ClaimPlain ==
  ASSUME TypeOK, TypeOK', ClaimInv, NEW r \in Run, PlainShape(r)
  PROVE  ClaimInv'
  <1>1. /\ db' = db /\ armed' = armed /\ (\A q \in Run \ {r} : run'[q] = run[q])
        /\ Paces(run[r], run'[r])
    BY DEF PlainShape
  <1>2. run'[r].at \in Working => /\ run[r].at \in Working /\ run'[r].lead = run[r].lead
                                  /\ run'[r].spent = run[r].spent
    BY <1>1 DEF Paces, Working
  <1>3. ASSUME NEW q \in Run
        PROVE  Fresh(q)'
    BY <1>1, <1>2 DEF ClaimInv, Fresh
  <1>4. ASSUME NEW l \in Lead
        PROVE  Owed(l)'
    <2>1. /\ Cardinality(InFlight(l)') + Works(run[r], l) = Cardinality(InFlight(l)) + Works(run'[r], l)
          /\ Cardinality(InFlight(l)') \in Nat
      BY <1>1, FlightUpdate
    <2>2. Works(run[r], l) \in {0, 1} /\ Works(run'[r], l) \in {0, 1} /\ Works(run'[r], l) <= Works(run[r], l)
      BY <1>2 DEF Works
    <2>3. Cardinality(InFlight(l)) \in Nat /\ armed[l] \in Nat /\ Token(db[l]) \in {0, 1}
      BY OwedNumbers
    <2>4. Owed(l)
      BY DEF ClaimInv
    <2>5. Cardinality(InFlight(l)') + Token(db[l]) <= armed[l]
      BY <2>1, <2>2, <2>3, <2>4 DEF Owed
    <2>6. QED
      BY <1>1, <2>4, <2>5 DEF Owed
  <1>5. QED
    BY <1>3, <1>4 DEF ClaimInv

LEMMA ClaimWin ==
  ASSUME SendMax <= Stale, TypeOK, TypeOK', TimelyInv, ClaimInv,
         NEW r \in Run, NEW l \in Lead, WinShape(r, l)
  PROVE  ClaimInv'
  <1>1. /\ run[r].at = "loop" /\ armed' = armed /\ (\A q \in Run \ {r} : run'[q] = run[q])
        /\ db[l].avail = "pending" \/ (db[l].avail = "processing" /\ Expired(l, run[r].age))
        /\ run'[r].at = "claimed" /\ run'[r].lead = l /\ run'[r].spent = 0
        /\ \A m \in Lead \ {l} : db'[m] = db[m]
        /\ db'[l].avail = "processing" /\ db'[l].claim = 0
    BY DEF WinShape
  <1>2. ASSUME NEW q \in Run
        PROVE  Fresh(q)'
    <2> SUFFICES ASSUME run'[q].at \in Working, db'[run'[q].lead].claim # Null
                 PROVE  db'[run'[q].lead].claim <= run'[q].spent
      BY DEF Fresh
    <2>1. run'[q].spent \in Nat /\ run'[q].lead \in Lead
      BY RecoveryAssumption DEF TypeOK, RunState
    <2>2. CASE run'[q].lead = l
      BY <1>1, <2>1, <2>2
    <2>3. CASE run'[q].lead # l
      BY <1>1, <2>1, <2>3 DEF ClaimInv, Fresh
    <2>4. QED
      BY <2>2, <2>3
  <1>3. ASSUME NEW m \in Lead
        PROVE  Owed(m)'
    <2>1. /\ Cardinality(InFlight(m)') + Works(run[r], m) = Cardinality(InFlight(m)) + Works(run'[r], m)
          /\ Cardinality(InFlight(m)') \in Nat
      BY <1>1, FlightUpdate
    <2>2. Works(run[r], m) = 0 /\ Works(run'[r], m) = IF m = l THEN 1 ELSE 0
      BY <1>1 DEF Works, Working
    <2>3. /\ Cardinality(InFlight(m)) \in Nat /\ armed[m] \in Nat
          /\ Token(db[m]) \in {0, 1} /\ (Token(db[m]) = 1 <=> db[m].avail = "pending")
      BY OwedNumbers
    <2>4. Owed(m)
      BY DEF ClaimInv
    <2>5. CASE m # l
      <3>1. Cardinality(InFlight(m)') + Token(db[m]) <= armed[m]
        BY <2>1, <2>2, <2>3, <2>4, <2>5 DEF Owed
      <3>2. QED
        BY <1>1, <2>4, <2>5, <3>1 DEF Owed
    <2>6. CASE m = l
      <3>1. Token(db'[m]) = 0
        BY <1>1, <2>6 DEF Token
      <3>2. Cardinality(InFlight(m)) + 1 <= armed[m]
        <4>1. CASE db[l].avail = "pending"
          BY <2>3, <2>4, <2>6, <4>1 DEF Owed
        <4>2. CASE db[l].avail = "processing" /\ Expired(l, run[r].age)
          <5>1. run[r].age \in Nat
            BY RunNumbers
          <5>2. Cardinality(InFlight(l)) = 0
            BY <4>2, <5>1, ExpiredAlone, FS_EmptySet
          <5>3. QED
            BY <2>3, <2>4, <2>6, <4>2, <5>2 DEF Owed
        <4>3. QED
          BY <1>1, <4>1, <4>2
      <3>3. Cardinality(InFlight(m)') <= armed[m] /\ armed[m] >= 1
        BY <2>1, <2>2, <2>3, <2>6, <3>2
      <3>4. QED
        BY <1>1, <2>1, <3>1, <3>3 DEF Owed
    <2>7. QED
      BY <2>5, <2>6
  <1>4. QED
    BY <1>2, <1>3 DEF ClaimInv

LEMMA ClaimSave ==
  ASSUME TypeOK, TypeOK', QuietInv, ClaimInv, NEW r \in Run, run[r].lead \in Lead, SaveShape(r)
  PROVE  ClaimInv'
  <1> DEFINE l == run[r].lead
  <1>1. /\ run[r].at = "saving" /\ armed' = armed /\ (\A q \in Run \ {r} : run'[q] = run[q])
        /\ run'[r].at = "loop"
        /\ \A m \in Lead \ {l} : db'[m] = db[m]
        /\ db'[l].avail \in {run[r].next, db[l].avail}
        /\ db'[l].claim \in {Null, db[l].claim}
    BY DEF SaveShape
  <1>2. l \in Lead /\ run[r].next \in {"notified", "pending"}
    BY <1>1 DEF QuietInv, Named
  <1>3. \A m \in Lead : db'[m].claim \in {Null, db[m].claim}
    BY <1>1
  <1>4. ASSUME NEW q \in Run
        PROVE  Fresh(q)'
    <2> SUFFICES ASSUME run'[q].at \in Working, db'[run'[q].lead].claim # Null
                 PROVE  db'[run'[q].lead].claim <= run'[q].spent
      BY DEF Fresh
    <2>1. run'[q] = run[q]
      BY <1>1 DEF Working
    <2>2. run[q].lead \in Lead
      BY <2>1, RunNumbers
    <2>3. db'[run[q].lead].claim = db[run[q].lead].claim
      BY <1>3, <2>1, <2>2
    <2>4. QED
      BY <2>1, <2>3 DEF ClaimInv, Fresh
  <1>5. ASSUME NEW m \in Lead
        PROVE  Owed(m)'
    <2>1. /\ Cardinality(InFlight(m)') + Works(run[r], m) = Cardinality(InFlight(m)) + Works(run'[r], m)
          /\ Cardinality(InFlight(m)') \in Nat
      BY <1>1, FlightUpdate
    <2>2. Works(run'[r], m) = 0 /\ Works(run[r], m) = IF m = l THEN 1 ELSE 0
      BY <1>1 DEF Works, Working
    <2>3. /\ Cardinality(InFlight(m)) \in Nat /\ armed[m] \in Nat
          /\ Token(db[m]) \in {0, 1} /\ (Token(db[m]) = 1 <=> db[m].avail = "pending")
      BY OwedNumbers
    <2>4. Owed(m)
      BY DEF ClaimInv
    <2>5. CASE m # l
      <3>1. Cardinality(InFlight(m)') + Token(db[m]) <= armed[m]
        BY <2>1, <2>2, <2>3, <2>4, <2>5 DEF Owed
      <3>2. QED
        BY <1>1, <2>4, <2>5, <3>1 DEF Owed
    <2>6. CASE m = l
      <3>1. Token(db'[m]) \in {0, 1}
        BY TokenType
      <3>2. Cardinality(InFlight(m)) = Cardinality(InFlight(m)') + 1 /\ armed[m] >= 1
        BY <2>1, <2>2, <2>3, <2>4, <2>6 DEF Owed
      <3>3. Cardinality(InFlight(m)') + Token(db'[m]) <= armed[m]
        BY <2>1, <2>3, <2>4, <3>1, <3>2 DEF Owed
      <3>4. QED
        BY <1>1, <3>2, <3>3 DEF Owed
    <2>7. QED
      BY <2>5, <2>6
  <1>6. QED
    BY <1>4, <1>5 DEF ClaimInv

LEMMA ClaimTick ==
  ASSUME TypeOK, TypeOK', ClaimInv, TickShape
  PROVE  ClaimInv'
  <1>1. ASSUME NEW r \in Run
        PROVE  Fresh(r)'
    <2> SUFFICES ASSUME run'[r].at \in Working, db'[run'[r].lead].claim # Null
                 PROVE  db'[run'[r].lead].claim <= run'[r].spent
      BY DEF Fresh
    <2>1. run[r].at \in Working /\ run'[r].lead = run[r].lead /\ run'[r].spent = Older(run[r].spent)
      BY DEF TickShape, Working
    <2>2. run[r].lead \in Lead /\ run[r].spent \in Nat /\ run[r].spent <= Horizon
      BY <2>1, RunNumbers
    <2>3. /\ db[run[r].lead].claim # Null
          /\ db'[run[r].lead].claim = Older(db[run[r].lead].claim)
      BY <2>1, <2>2 DEF TickShape
    <2>4. /\ db[run[r].lead].claim \in Nat /\ db[run[r].lead].claim <= Horizon
          /\ db[run[r].lead].claim <= run[r].spent
      BY <2>1, <2>2, <2>3, RowNumbers DEF ClaimInv, Fresh
    <2>5. QED
      BY <2>1, <2>2, <2>3, <2>4, RecoveryAssumption DEF Older
  <1>2. ASSUME NEW l \in Lead
        PROVE  Owed(l)'
    <2>1. InFlight(l)' = InFlight(l)
      BY DEF TickShape, InFlight, Working
    <2>2. Token(db'[l]) = Token(db[l]) /\ db'[l].avail = db[l].avail /\ armed' = armed
      BY DEF TickShape, Token
    <2>3. QED
      BY <2>1, <2>2 DEF ClaimInv, Owed
  <1>3. QED
    BY <1>1, <1>2 DEF ClaimInv

LEMMA ClaimStep ==
  ASSUME SendMax <= Stale, TypeOK, TypeOK', QuietInv, TimelyInv, ClaimInv, [Next]_vars
  PROVE  ClaimInv'
  BY Shapes, ClaimSession, ClaimPlain, ClaimWin, ClaimSave, ClaimTick
----------------------------------------------------------------------------
LEMMA FirstState ==
  ASSUME Init
  PROVE  QuietInv /\ TimelyInv /\ ClaimInv
  <1>1. \A r \in Run : run[r].at = "idle"
    BY DEF Init, RunAt
  <1>2. \A l \in Lead : db[l].avail = "none" /\ ~cleared[l] /\ armed[l] = 0
    BY DEF Init, NewRow
  <1>3. QuietInv
    BY <1>1, <1>2 DEF QuietInv, Named, Calm
  <1>4. TimelyInv
    BY <1>1 DEF TimelyInv, Waiting, Engaged, Working
  <1>5. ASSUME NEW l \in Lead
        PROVE  Owed(l)
    <2>1. InFlight(l) = {}
      BY <1>1 DEF InFlight, Working
    <2>2. Cardinality(InFlight(l)) = 0
      BY <2>1, FS_EmptySet
    <2>3. QED
      BY <1>2, <2>2 DEF Owed, Token
  <1>6. \A r \in Run : Fresh(r)
    BY <1>1 DEF Fresh, Working
  <1>7. QED
    BY <1>3, <1>4, <1>5, <1>6 DEF ClaimInv

\* A guest who got through to Mira is not claimed for a message, unless he was
\* rejected again or a run at work gave the row back (upsert_lead, _claim_lead).
THEOREM LeftAlone == Spec => AnsweredStaysQuiet
  <1>1. Init => QuietInv
    BY FirstState
  <1>2. TypeOK /\ QuietInv /\ [Next]_vars => QuietInv'
    BY QuietStep
  <1>3. QuietInv => \A r \in Run, l \in Lead : ClaimWins(r, l) => ~cleared[l]
    BY DEF QuietInv, Calm, ClaimWins, Claimable
  <1>4. QED
    BY <1>1, <1>2, <1>3, TypeCorrect, PTL DEF Spec, AnsweredStaysQuiet

\* No guest hears "available now" longer after his rejection than the window
\* and the time of one run over all the leads (AVAILABILITY_WINDOW).
THEOREM InTime == Spec => MessagesTimely
  <1>1. Init => TimelyInv
    BY FirstState
  <1>2. TypeOK /\ TypeOK' /\ TimelyInv /\ [Next]_vars => TimelyInv'
    BY TimelyStep
  <1>3. ASSUME TypeOK, TimelyInv, [Next]_vars, NEW l \in Lead, sent'[l] # sent[l]
        PROVE  db[l].since <= Window + SendMax * Cardinality(Lead)
    <2>1. PICK r \in Run : run[r].at = "sending" /\ run[r].lead = l
      <3>1. ~SessionShape
        BY <1>3 DEF SessionShape
      <3>2. ~UNCHANGED vars /\ ~Tick
        BY <1>3 DEF vars, Tick, ghosts
      <3>3. ~(\E s \in Session : SessionStep(s)) /\ ~(\E m \in Lead : HostMoves(m))
        BY <1>3, <3>1, SessionSteps
      <3>4. PICK r \in Run : Release(r) \/ RunStep(r) \/ Aborts(r)
        BY <1>3, <3>2, <3>3 DEF Next
      <3>5. SendAccepted(r) \/ SendRaises(r)
        BY <1>3, <3>4 DEF Release, Aborts, RunStep, Select, Claims, ClaimWins, ClaimLoses,
                          Reads, Sends, SendRefused, Saves, Finish, ghosts
      <3>6. run[r].at = "sending" /\ run[r].lead = l
        BY <1>3, <3>5 DEF SendAccepted, SendRaises, TypeOK
      <3>7. QED
        BY <3>6
    <2>2. /\ run[r].spent <= SendMax
          /\ run[r].age + SendMax <= Turns(run[r].todo) + run[r].spent
          /\ db[l].since <= Window + run[r].age
      BY <1>3, <2>1 DEF TimelyInv, Engaged, Working
    <2>3. /\ run[r].age \in Nat /\ run[r].spent \in Nat /\ run[r].todo \in SUBSET Lead
          /\ db[l].since \in Nat
      BY <1>3, RunNumbers, RowNumbers
    <2>4. Turns(run[r].todo) \in Nat /\ Turns(run[r].todo) <= Time(Cardinality(Lead))
      BY <2>3, TurnsGrow
    <2>5. Time(Cardinality(Lead)) \in Nat
      BY RecoveryAssumption, FS_CardinalityType, TimeGrows
    <2>6. db[l].since <= Window + Time(Cardinality(Lead))
      BY <2>2, <2>3, <2>4, <2>5, RecoveryAssumption
    <2>7. QED
      BY <2>6 DEF Time
  <1>4. TypeOK /\ TimelyInv /\ [Next]_vars
           => \A l \in Lead : sent'[l] # sent[l] => db[l].since <= Window + SendMax * Cardinality(Lead)
    BY <1>3
  <1>5. QED
    BY <1>1, <1>2, <1>4, TypeCorrect, PTL DEF Spec, MessagesTimely

\* Where no run spends longer on a lead than the threshold, a claim is never
\* taken over from a run at work, and no guest has more runs at work than he
\* was rejected times (_claim_lead, STALE_CLAIM_THRESHOLD).
THEOREM SingleClaim ==
  ASSUME SendMax <= Stale
  PROVE  Spec => NeverDoubleClaimed
  <1>1. Init => QuietInv /\ TimelyInv /\ ClaimInv
    BY FirstState
  <1>2. TypeOK /\ TypeOK' /\ QuietInv /\ TimelyInv /\ ClaimInv /\ [Next]_vars
           => QuietInv' /\ TimelyInv' /\ ClaimInv'
    BY QuietStep, TimelyStep, ClaimStep
  <1>3. ASSUME TypeOK, TimelyInv, ClaimInv, NEW r \in Run, NEW l \in Lead, ClaimWins(r, l)
        PROVE  /\ Cardinality(InFlight(l)) < armed[l]
               /\ db[l].avail = "processing" => InFlight(l) = {}
    <2>1. db[l].avail = "pending" \/ (db[l].avail = "processing" /\ Expired(l, run[r].age))
      BY <1>3 DEF ClaimWins, Claimable
    <2>2. run[r].age \in Nat
      BY <1>3, RunNumbers
    <2>3. db[l].avail = "processing" => InFlight(l) = {}
      BY <1>3, <2>1, <2>2, ExpiredAlone
    <2>4. /\ Cardinality(InFlight(l)) \in Nat /\ armed[l] \in Nat
          /\ Token(db[l]) \in {0, 1} /\ (Token(db[l]) = 1 <=> db[l].avail = "pending")
      BY <1>3, OwedNumbers
    <2>5. Owed(l)
      BY <1>3 DEF ClaimInv
    <2>6. CASE db[l].avail = "pending"
      BY <2>3, <2>4, <2>5, <2>6 DEF Owed
    <2>7. CASE db[l].avail = "processing"
      <3>1. Cardinality(InFlight(l)) = 0
        BY <2>3, <2>7, FS_EmptySet
      <3>2. QED
        BY <2>3, <2>4, <2>5, <2>7, <3>1 DEF Owed
    <2>8. QED
      BY <2>1, <2>6, <2>7
  <1>4. TypeOK /\ TimelyInv /\ ClaimInv
           => \A r \in Run, l \in Lead :
                 ClaimWins(r, l) => /\ Cardinality(InFlight(l)) < armed[l]
                                    /\ db[l].avail = "processing" => InFlight(l) = {}
    BY <1>3
  <1>5. QED
    BY <1>1, <1>2, <1>4, TypeCorrect, PTL DEF Spec, NeverDoubleClaimed
=============================================================================
