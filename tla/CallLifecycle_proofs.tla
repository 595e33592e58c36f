------------------------ MODULE CallLifecycle_proofs ------------------------
(***************************************************************************)
(* The handoff of a call, for any number of taps and requests, status      *)
(* callbacks and failures: one winner, no hang-up, no refusal and no lost  *)
(* label.                                                                  *)
(***************************************************************************)
EXTENDS CallLifecycle, FiniteSetTheorems, TLAPS

(* The inductive invariant, in parts *)

RowOK ==
    /\ row \in Row \cup {NoRow}
    /\ pipe # "none" => row \in Row

\* A writer that has loaded the row has it, and the row stays.
LoadedOK ==
    /\ loaded \in [Writer -> Row \cup {NoRow}]
    /\ \A w \in Writer : loaded[w] # NoRow => row \in Row
    /\ pipe \in {"rejecting", "finalizing", "crashing"} => loaded["pipeline"] \in Row
    /\ hook # "none" => loaded["hook"] \in Row

PlainOK ==
    /\ pipe \in Idle \cup {"rejecting", "labelling busy", "setup", "running",
                 "finished", "finalizing", "labelling", "closing", "crashing",
                 "labelling crash", "unwinding"}
    /\ frames \in Seq({"end", "handoff"})
    /\ outcome \in BOOLEAN
    /\ event \in {"none", "clear", "set", "taken"}
    /\ line \in {"mira", "flow", "host", "over"}
    /\ hang \in {"no", "asked", "done"}
    /\ claim \in [Claimant -> {"idle", "won", "told", "lost"}]
    /\ hook \in Exotel \cup {"none"}
    /\ hooks \subseteq Exotel
    /\ emitted \in 0..MaxHooks
    /\ aged \in BOOLEAN
    /\ finished \in BOOLEAN

\* Nobody hangs up before the call is finished, and whatever ends without the
\* handler's decision for a handoff has none.
HangOK ==
    /\ pipe \in {"none", "setup", "running"} => hang = "no"
    /\ pipe \in {"none", "setup", "running", "rejecting", "labelling busy",
                 "rejected", "labelling crash"} => ~outcome
    /\ outcome => hang = "no"

\* A handoff on its way was requested in the row, by one claimant.
RequestOK ==
    /\ \A k \in Claimant : claim[k] \in {"won", "told"} => row \in Row /\ row.requested
    /\ \A j, k \in Claimant :
          claim[j] \in {"won", "told"} /\ claim[k] \in {"won", "told"} => j = k
    /\ event \in {"set", "taken"} => row \in Row /\ row.requested
    /\ (\E i \in 1..Len(frames) : frames[i] = "handoff") => row \in Row /\ row.requested
    /\ outcome => row \in Row /\ row.requested
    /\ pipe = "none" /\ row \in Row => ~row.requested

\* A terminal callback means that the guest is gone.
HooksOK == (hooks \cup {hook}) \cap {"completed", "no-answer"} # {} => line = "over"

\* The sweep looks at calls whose pipeline is gone and that were not handed over.
SweepOK ==
    /\ aged => row \in Row /\ pipe \in Idle /\ (pipe = "none" => line = "over")
    /\ loaded["sweep"] # NoRow => aged /\ ~outcome

\* The crash handler of a handed-over call has seen the request.
CrashOK == pipe = "crashing" /\ outcome => loaded["pipeline"].requested

\* A requested handoff stays routable while the guest is there.
RoutableOK ==
    row \in Row /\ row.requested /\ line # "over" /\ (pipe \in {"setup", "running"} \/ outcome)
        => row.status = "in_progress"

LabelOK == row \in Row /\ row.type = "TRANSFERRED_TO_HOST" => outcome

IInv == RowOK /\ LoadedOK /\ PlainOK /\ HangOK /\ RequestOK /\ HooksOK /\ SweepOK
        /\ CrashOK /\ RoutableOK /\ LabelOK
----------------------------------------------------------------------------
LEMMA RowShape ==
    /\ NoRow \notin Row
    /\ \A b \in BOOLEAN :
          /\ NewRow(b) \in Row
          /\ NewRow(b).status = "in_progress"
          /\ ~NewRow(b).requested
          /\ NewRow(b).type = "UNKNOWN"
    /\ \A r \in Row : r.status \in Status /\ r.requested \in BOOLEAN /\ r.type \in CallType
BY DEF NoRow, NewRow, Row, Status, CallType

LEMMA FlushType ==
    ASSUME NEW cur \in Row, NEW old \in Row, NEW new \in Row
    PROVE  /\ Flush(cur, old, new) \in Row
           /\ Flush(cur, old, new).status = IF new.status # old.status THEN new.status ELSE cur.status
           /\ Flush(cur, old, new).requested = IF new.requested # old.requested THEN new.requested ELSE cur.requested
           /\ Flush(cur, old, new).type = IF new.type # old.type THEN new.type ELSE cur.type
BY DEF Flush, Row

LEMMA RowUpdate ==
    ASSUME NEW r \in Row
    PROVE  /\ \A s \in Status : LET new == [r EXCEPT !.status = s]
                                IN  new \in Row /\ new.status = s
                                    /\ new.requested = r.requested /\ new.type = r.type
           /\ \A t \in CallType : LET new == [r EXCEPT !.type = t]
                                  IN  new \in Row /\ new.type = t
                                      /\ new.requested = r.requested /\ new.status = r.status
           /\ \A b \in BOOLEAN : LET new == [r EXCEPT !.requested = TRUE, !.number = b]
                                 IN  new \in Row /\ new.requested
                                     /\ new.status = r.status /\ new.type = r.type
BY DEF Row

\* A session that writes a status.
LEMMA StatusWrite ==
    ASSUME NEW cur \in Row, NEW old \in Row, NEW s \in Status
    PROVE  LET new == Flush(cur, old, [old EXCEPT !.status = s])
           IN  /\ new \in Row
               /\ new.status \in {s, cur.status}
               /\ new.requested = cur.requested
               /\ new.type = cur.type
<1> DEFINE upd == [old EXCEPT !.status = s]
           new == Flush(cur, old, upd)
<1>1. /\ upd \in Row
      /\ upd.status = s
      /\ upd.requested = old.requested
      /\ upd.type = old.type
  BY RowUpdate
<1> HIDE DEF upd
<1>2. /\ new \in Row
      /\ new.status = IF upd.status # old.status THEN upd.status ELSE cur.status
      /\ new.requested = IF upd.requested # old.requested THEN upd.requested ELSE cur.requested
      /\ new.type = IF upd.type # old.type THEN upd.type ELSE cur.type
  BY <1>1, FlushType
<1>3. /\ new \in Row
      /\ new.status \in {s, cur.status}
      /\ new.requested = cur.requested
      /\ new.type = cur.type
  BY <1>1, <1>2
<1> QED BY <1>3 DEF upd

\* The sweep's session writes the label as well.
LEMMA SweepWrite ==
    ASSUME NEW cur \in Row, NEW old \in Row
    PROVE  LET new == Flush(cur, old, [old EXCEPT !.status = "failed",
                                                  !.type = "MISSED_SYSTEM_FAILURE"])
           IN  /\ new \in Row
               /\ new.requested = cur.requested
               /\ new.type \in {"MISSED_SYSTEM_FAILURE", cur.type}
<1> DEFINE upd == [old EXCEPT !.status = "failed", !.type = "MISSED_SYSTEM_FAILURE"]
<1>1. /\ upd \in Row
      /\ upd.requested = old.requested
      /\ upd.type = "MISSED_SYSTEM_FAILURE"
  BY DEF Row, Status, CallType
<1> HIDE DEF upd
<1>2. /\ Flush(cur, old, upd) \in Row
      /\ Flush(cur, old, upd).requested
             = IF upd.requested # old.requested THEN upd.requested ELSE cur.requested
      /\ Flush(cur, old, upd).type
             = IF upd.type # old.type THEN upd.type ELSE cur.type
  BY <1>1, FlushType
<1>3. /\ Flush(cur, old, upd) \in Row
      /\ Flush(cur, old, upd).requested = cur.requested
      /\ Flush(cur, old, upd).type \in {"MISSED_SYSTEM_FAILURE", cur.type}
  BY <1>1, <1>2
<1> QED BY <1>3 DEF upd

LEMMA Created ==
    ASSUME RowOK, NEW b \in BOOLEAN
    PROVE  /\ OrCreated(row, b) \in Row
           /\ row \in Row => OrCreated(row, b) = row
           /\ row \notin Row => /\ OrCreated(row, b).status = "in_progress"
                               /\ ~OrCreated(row, b).requested
                               /\ OrCreated(row, b).type = "UNKNOWN"
BY RowShape DEF RowOK, OrCreated

\* What an action leaves alone.
LEMMA HangFrame ==
    ASSUME HangOK, UNCHANGED <<pipe, hang, outcome>>
    PROVE  HangOK'
BY DEF HangOK

LEMMA PlainFrame ==
    ASSUME PlainOK,
           UNCHANGED <<pipe, frames, outcome, event, line, hang, hook, aged, finished>>,
           claim' \in [Claimant -> {"idle", "won", "told", "lost"}],
           hooks' \subseteq Exotel,
           emitted' \in 0..MaxHooks
    PROVE  PlainOK'
<1>1. /\ pipe' \in Idle \cup {"rejecting", "labelling busy", "setup", "running",
                 "finished", "finalizing", "labelling", "closing", "crashing",
                 "labelling crash", "unwinding"}
      /\ frames' \in Seq({"end", "handoff"})
      /\ event' \in {"none", "clear", "set", "taken"}
      /\ line' \in {"mira", "flow", "host", "over"}
      /\ hang' \in {"no", "asked", "done"}
  BY DEF PlainOK
<1>2. outcome' \in BOOLEAN /\ aged' \in BOOLEAN /\ finished' \in BOOLEAN
  BY DEF PlainOK
<1>3. hook' \in Exotel \cup {"none"}
  BY DEF PlainOK
<1> QED BY <1>1, <1>2, <1>3 DEF PlainOK

LEMMA Frame ==
    ASSUME IInv
    PROVE  /\ UNCHANGED <<row, pipe>> => RowOK'
           /\ UNCHANGED <<row, loaded, pipe, hook>> => LoadedOK'
           /\ UNCHANGED <<pipe, frames, outcome, event, line, hang, claim, hook,
                          hooks, emitted, aged, finished>> => PlainOK'
           /\ UNCHANGED <<pipe, hang, outcome>> => HangOK'
           /\ UNCHANGED <<claim, row, event, frames, outcome, pipe>> => RequestOK'
           /\ UNCHANGED <<hooks, hook, line>> => HooksOK'
           /\ UNCHANGED <<aged, row, pipe, line, loaded, outcome>> => SweepOK'
           /\ UNCHANGED <<pipe, outcome, loaded>> => CrashOK'
           /\ UNCHANGED <<row, line, pipe, outcome>> => RoutableOK'
           /\ UNCHANGED <<row, outcome>> => LabelOK'
<1>1. UNCHANGED <<row, pipe>> => RowOK'
  BY DEF IInv, RowOK
<1>2. UNCHANGED <<row, loaded, pipe, hook>> => LoadedOK'
  BY DEF IInv, LoadedOK
<1>3. UNCHANGED <<pipe, frames, outcome, event, line, hang, claim, hook,
                  hooks, emitted, aged, finished>> => PlainOK'
  BY DEF IInv, PlainOK
<1>4. UNCHANGED <<pipe, hang, outcome>> => HangOK'
  BY HangFrame DEF IInv
<1>5. UNCHANGED <<claim, row, event, frames, outcome, pipe>> => RequestOK'
  BY DEF IInv, RequestOK
<1>6. UNCHANGED <<hooks, hook, line>> => HooksOK'
  BY DEF IInv, HooksOK
<1>7. UNCHANGED <<aged, row, pipe, line, loaded, outcome>> => SweepOK'
  BY DEF IInv, SweepOK
<1>8. UNCHANGED <<pipe, outcome, loaded>> => CrashOK'
  BY DEF IInv, CrashOK
<1>9. UNCHANGED <<row, line, pipe, outcome>> => RoutableOK'
  BY DEF IInv, RoutableOK
<1>10. UNCHANGED <<row, outcome>> => LabelOK'
  BY DEF IInv, LabelOK
<1> QED BY <1>1, <1>2, <1>3, <1>4, <1>5, <1>6, <1>7, <1>8, <1>9, <1>10

LEMMA NoFrames ==
    /\ <<>> \in Seq({"end", "handoff"})
    /\ ~(\E i \in 1..Len(<<>>) : <<>>[i] = "handoff")
OBVIOUS
----------------------------------------------------------------------------
LEMMA PipelineStartsStep == ASSUME IInv, PipelineStarts PROVE IInv'
<1>1. /\ row' \in Row
      /\ row \in Row => row' = row
      /\ row \notin Row => /\ row'.status = "in_progress"
                          /\ ~row'.requested
                          /\ row'.type = "UNKNOWN"
  BY Created DEF PipelineStarts, IInv
<1>2. RowOK'
  BY <1>1 DEF PipelineStarts, IInv, RowOK
<1>3. LoadedOK'
  BY <1>1, RowShape DEF PipelineStarts, callbacks, IInv, RowOK, LoadedOK, Writer
<1>4. PlainOK'
  BY DEF PipelineStarts, phone, callbacks, IInv, PlainOK, Idle
<1>5. HangOK'
  BY DEF PipelineStarts, phone, IInv, HangOK
<1>6. RequestOK'
  BY <1>1, RowShape DEF PipelineStarts, IInv, RequestOK, RowOK
<1>7. SweepOK'
  BY <1>1 DEF PipelineStarts, phone, IInv, SweepOK, Idle
<1>8. CrashOK'
  BY DEF PipelineStarts, IInv, CrashOK
<1>9. RoutableOK'
  BY <1>1, RowShape DEF PipelineStarts, phone, IInv, RoutableOK, RequestOK
<1>10. LabelOK'
  BY <1>1, RowShape DEF PipelineStarts, IInv, LabelOK
<1>11. HooksOK'
  BY Frame DEF PipelineStarts, phone, callbacks, IInv
<1> QED BY <1>2, <1>3, <1>4, <1>5, <1>6, <1>7, <1>8, <1>9, <1>10, <1>11 DEF IInv

LEMMA BusyRejectsStep == ASSUME IInv, BusyRejects PROVE IInv'
<1>1. /\ row' \in Row
      /\ row \in Row => row' = row
      /\ row \notin Row => /\ row'.status = "in_progress"
                          /\ ~row'.requested
                          /\ row'.type = "UNKNOWN"
  BY Created DEF BusyRejects, IInv
<1>2. RowOK'
  BY <1>1 DEF BusyRejects, IInv, RowOK
<1>3. LoadedOK'
  BY <1>1, RowShape DEF BusyRejects, callbacks, IInv, RowOK, LoadedOK, Writer
<1>4. PlainOK'
  BY DEF BusyRejects, callbacks, IInv, PlainOK, Idle
<1>5. HangOK'
  BY DEF BusyRejects, IInv, HangOK
<1>6. RequestOK'
  BY <1>1, RowShape DEF BusyRejects, IInv, RequestOK, RowOK
<1>7. HooksOK'
  BY DEF BusyRejects, callbacks, IInv, HooksOK
<1>8. SweepOK'
  BY <1>1, RowShape DEF BusyRejects, IInv, SweepOK, Idle, LoadedOK, Writer
<1>9. CrashOK'
  BY DEF BusyRejects, IInv, CrashOK
<1>10. RoutableOK'
  BY <1>1, RowShape DEF BusyRejects, IInv, RoutableOK, RequestOK, HangOK
<1>11. LabelOK'
  BY <1>1, RowShape DEF BusyRejects, IInv, LabelOK
<1> QED BY <1>2, <1>3, <1>4, <1>5, <1>6, <1>7, <1>8, <1>9, <1>10, <1>11 DEF IInv

LEMMA RejectCommitsStep == ASSUME IInv, RejectCommits PROVE IInv'
<1>1. row \in Row /\ loaded["pipeline"] \in Row /\ "failed" \in Status
  BY DEF RejectCommits, IInv, RowOK, LoadedOK, Status
<1>2. /\ row \in Row /\ row' \in Row
      /\ row'.status \in {"failed", row.status}
      /\ row'.requested = row.requested
      /\ row'.type = row.type
  BY <1>1, StatusWrite DEF RejectCommits
<1>3. RowOK'
  BY <1>2 DEF RejectCommits, IInv, RowOK
<1>4. LoadedOK'
  BY <1>2, RowShape DEF RejectCommits, Unloads, callbacks, IInv, RowOK, LoadedOK, Writer
<1>5. PlainOK'
  BY DEF RejectCommits, phone, callbacks, IInv, PlainOK, Idle
<1>6. HangOK'
  BY DEF RejectCommits, phone, IInv, HangOK
<1>7. RequestOK'
  BY <1>2 DEF RejectCommits, IInv, RequestOK
<1>8. SweepOK'
  BY <1>2, RowShape DEF RejectCommits, Unloads, phone, IInv, SweepOK, Idle, LoadedOK,
      Writer
<1>9. CrashOK'
  BY DEF RejectCommits, Unloads, IInv, CrashOK
<1>10. RoutableOK'
  BY <1>2 DEF RejectCommits, phone, IInv, RoutableOK, HangOK
<1>11. LabelOK'
  BY <1>2 DEF RejectCommits, IInv, LabelOK
<1>12. HooksOK'
  BY Frame DEF RejectCommits, phone, callbacks, IInv
<1> QED BY <1>3, <1>4, <1>5, <1>6, <1>7, <1>8, <1>9, <1>10, <1>11, <1>12 DEF IInv

LEMMA RejectLabelsStep == ASSUME IInv, RejectLabels PROVE IInv'
<1>1. row \in Row /\ "MISSED_AGENT_BUSY" \in CallType
  BY DEF RejectLabels, IInv, RowOK, CallType
<1>2. /\ row \in Row /\ row' \in Row
      /\ row'.type = "MISSED_AGENT_BUSY"
      /\ row'.requested = row.requested
      /\ row'.status = row.status
  BY <1>1, RowUpdate DEF RejectLabels
<1>3. RowOK'
  BY <1>2 DEF RejectLabels, IInv, RowOK
<1>4. LoadedOK'
  BY <1>2, RowShape DEF RejectLabels, callbacks, IInv, RowOK, LoadedOK, Writer
<1>5. PlainOK'
  BY DEF RejectLabels, phone, callbacks, IInv, PlainOK, Idle
<1>6. HangOK'
  BY DEF RejectLabels, phone, IInv, HangOK
<1>7. RequestOK'
  BY <1>2 DEF RejectLabels, IInv, RequestOK
<1>8. SweepOK'
  BY <1>2 DEF RejectLabels, phone, IInv, SweepOK, Idle
<1>9. CrashOK'
  BY DEF RejectLabels, IInv, CrashOK
<1>10. RoutableOK'
  BY <1>2 DEF RejectLabels, phone, IInv, RoutableOK
<1>11. LabelOK'
  BY <1>2 DEF RejectLabels, IInv, LabelOK
<1>12. HooksOK'
  BY Frame DEF RejectLabels, phone, callbacks, IInv
<1> QED BY <1>3, <1>4, <1>5, <1>6, <1>7, <1>8, <1>9, <1>10, <1>11, <1>12 DEF IInv

LEMMA RejectFailsStep == ASSUME IInv, RejectFails PROVE IInv'
<1>1. RowOK'
  BY DEF RejectFails, IInv, RowOK
<1>2. LoadedOK'
  BY RowShape DEF RejectFails, Unloads, callbacks, IInv, RowOK, LoadedOK, Writer
<1>3. PlainOK'
  BY DEF RejectFails, phone, callbacks, IInv, PlainOK, Idle
<1>4. HangOK'
  BY DEF RejectFails, phone, IInv, HangOK
<1>5. RequestOK'
  BY DEF RejectFails, IInv, RequestOK, RowOK
<1>6. SweepOK'
  BY RowShape DEF RejectFails, Unloads, phone, IInv, SweepOK, Idle, LoadedOK, Writer
<1>7. CrashOK'
  BY DEF RejectFails, Unloads, IInv, CrashOK
<1>8. RoutableOK'
  BY DEF RejectFails, phone, IInv, RoutableOK
<1>9. HooksOK' /\ LabelOK'
  BY Frame DEF RejectFails, phone, callbacks, IInv
<1> QED BY <1>1, <1>2, <1>3, <1>4, <1>5, <1>6, <1>7, <1>8, <1>9 DEF IInv

LEMMA SetupFailsStep == ASSUME IInv, SetupFails PROVE IInv'
<1>1. RowOK'
  BY DEF SetupFails, IInv, RowOK
<1>2. LoadedOK'
  BY RowShape DEF SetupFails, callbacks, IInv, RowOK, LoadedOK, Writer
<1>3. PlainOK'
  BY DEF SetupFails, phone, callbacks, IInv, PlainOK, Idle
<1>4. HangOK'
  BY DEF SetupFails, phone, IInv, HangOK
<1>5. RequestOK'
  BY DEF SetupFails, IInv, RequestOK, RowOK
<1>6. SweepOK'
  BY DEF SetupFails, phone, IInv, SweepOK, Idle
<1>7. CrashOK'
  BY DEF SetupFails, IInv, CrashOK
<1>8. RoutableOK'
  BY DEF SetupFails, phone, IInv, RoutableOK
<1>9. HooksOK' /\ LabelOK'
  BY Frame DEF SetupFails, phone, callbacks, IInv
<1> QED BY <1>1, <1>2, <1>3, <1>4, <1>5, <1>6, <1>7, <1>8, <1>9 DEF IInv

LEMMA RegistersStep == ASSUME IInv, Registers PROVE IInv'
<1>1. RowOK'
  BY DEF Registers, IInv, RowOK
<1>2. LoadedOK'
  BY RowShape DEF Registers, callbacks, IInv, RowOK, LoadedOK, Writer
<1>3. PlainOK'
  BY DEF Registers, phone, callbacks, IInv, PlainOK, Idle
<1>4. HangOK'
  BY DEF Registers, phone, IInv, HangOK
<1>5. RequestOK'
  BY DEF Registers, IInv, RequestOK, RowOK
<1>6. SweepOK'
  BY DEF Registers, phone, IInv, SweepOK, Idle
<1>7. CrashOK'
  BY DEF Registers, IInv, CrashOK
<1>8. RoutableOK'
  BY DEF Registers, phone, IInv, RoutableOK
<1>9. HooksOK' /\ LabelOK'
  BY Frame DEF Registers, phone, callbacks, IInv
<1> QED BY <1>1, <1>2, <1>3, <1>4, <1>5, <1>6, <1>7, <1>8, <1>9 DEF IInv

LEMMA EndQueuedStep == ASSUME IInv, EndQueued PROVE IInv'
<1>1. PlainOK'
  BY DEF EndQueued, phone, callbacks, IInv, PlainOK
<1>2. RequestOK'
  BY DEF EndQueued, IInv, RequestOK, RowOK
<1>3. RowOK' /\ LoadedOK' /\ HangOK' /\ HooksOK' /\ SweepOK' /\ CrashOK' /\ RoutableOK'
    /\ LabelOK'
  BY Frame DEF EndQueued, phone, callbacks, IInv
<1> QED BY <1>1, <1>2, <1>3 DEF IInv

LEMMA HandoffQueuedStep == ASSUME IInv, HandoffQueued PROVE IInv'
<1>1. PlainOK'
  BY DEF HandoffQueued, phone, callbacks, IInv, PlainOK
<1>2. RequestOK'
  BY DEF HandoffQueued, IInv, RequestOK, RowOK
<1>3. RowOK' /\ LoadedOK' /\ HangOK' /\ HooksOK' /\ SweepOK' /\ CrashOK' /\ RoutableOK'
    /\ LabelOK'
  BY Frame DEF HandoffQueued, phone, callbacks, IInv
<1> QED BY <1>1, <1>2, <1>3 DEF IInv

LEMMA EndFrameDrainsStep == ASSUME IInv, EndFrameDrains PROVE IInv'
<1>1. RowOK'
  BY DEF EndFrameDrains, Finishes, IInv, RowOK
<1>2. LoadedOK'
  BY RowShape DEF EndFrameDrains, Finishes, callbacks, IInv, RowOK, LoadedOK, Writer
<1>3. PlainOK'
  BY NoFrames DEF EndFrameDrains, Finishes, AskHangup, callbacks, IInv, PlainOK, Idle
<1>4. HangOK'
  BY DEF EndFrameDrains, Finishes, AskHangup, IInv, HangOK
<1>5. RequestOK'
  BY NoFrames DEF EndFrameDrains, Finishes, IInv, RequestOK, RowOK, PlainOK
<1>6. SweepOK'
  BY DEF EndFrameDrains, Finishes, IInv, SweepOK, Idle
<1>7. CrashOK'
  BY DEF EndFrameDrains, Finishes, IInv, CrashOK
<1>8. RoutableOK'
  BY DEF EndFrameDrains, Finishes, IInv, RoutableOK, RequestOK, PlainOK
<1>9. LabelOK'
  BY DEF EndFrameDrains, Finishes, IInv, LabelOK, HangOK
<1>10. HooksOK'
  BY Frame DEF EndFrameDrains, Finishes, callbacks, IInv
<1> QED BY <1>1, <1>2, <1>3, <1>4, <1>5, <1>6, <1>7, <1>8, <1>9, <1>10 DEF IInv

LEMMA CancelledStep == ASSUME IInv, Cancelled PROVE IInv'
<1>1. RowOK'
  BY DEF Cancelled, Finishes, IInv, RowOK
<1>2. LoadedOK'
  BY RowShape DEF Cancelled, Finishes, callbacks, IInv, RowOK, LoadedOK, Writer
<1>3. PlainOK'
  BY NoFrames DEF Cancelled, Finishes, AskHangup, callbacks, IInv, PlainOK, Idle
<1>4. HangOK'
  BY DEF Cancelled, Finishes, AskHangup, IInv, HangOK
<1>5. RequestOK'
  BY NoFrames DEF Cancelled, Finishes, IInv, RequestOK, RowOK
<1>6. SweepOK'
  BY DEF Cancelled, Finishes, IInv, SweepOK, Idle
<1>7. CrashOK'
  BY DEF Cancelled, Finishes, IInv, CrashOK
<1>8. RoutableOK'
  BY DEF Cancelled, Finishes, IInv, RoutableOK
<1>9. LabelOK'
  BY DEF Cancelled, Finishes, IInv, LabelOK, HangOK
<1>10. HooksOK'
  BY Frame DEF Cancelled, Finishes, callbacks, IInv
<1> QED BY <1>1, <1>2, <1>3, <1>4, <1>5, <1>6, <1>7, <1>8, <1>9, <1>10 DEF IInv

LEMMA FinalizeLoadsStep == ASSUME IInv, FinalizeLoads PROVE IInv'
<1>1. RowOK'
  BY DEF FinalizeLoads, IInv, RowOK
<1>2. LoadedOK'
  BY RowShape DEF FinalizeLoads, Loads, callbacks, IInv, RowOK, LoadedOK, Writer
<1>3. PlainOK'
  BY DEF FinalizeLoads, phone, callbacks, IInv, PlainOK, Idle
<1>4. HangOK'
  BY DEF FinalizeLoads, phone, IInv, HangOK
<1>5. RequestOK'
  BY DEF FinalizeLoads, IInv, RequestOK, RowOK
<1>6. SweepOK'
  BY RowShape DEF FinalizeLoads, Loads, phone, IInv, SweepOK, Idle, LoadedOK, Writer
<1>7. CrashOK'
  BY DEF FinalizeLoads, Loads, IInv, CrashOK
<1>8. RoutableOK'
  BY DEF FinalizeLoads, phone, IInv, RoutableOK
<1>9. HooksOK' /\ LabelOK'
  BY Frame DEF FinalizeLoads, phone, callbacks, IInv
<1> QED BY <1>1, <1>2, <1>3, <1>4, <1>5, <1>6, <1>7, <1>8, <1>9 DEF IInv

LEMMA FinalizeCommitsStep == ASSUME IInv, FinalizeCommits PROVE IInv'
<1>1. row \in Row /\ loaded["pipeline"] \in Row /\ (IF outcome THEN "in_progress" ELSE
    "completed") \in Status
  BY DEF FinalizeCommits, IInv, RowOK, LoadedOK, Status
<1>2. /\ row \in Row /\ row' \in Row
      /\ row'.status \in {IF outcome THEN "in_progress" ELSE "completed", row.status}
      /\ row'.requested = row.requested
      /\ row'.type = row.type
  BY <1>1, StatusWrite DEF FinalizeCommits
<1>3. RowOK'
  BY <1>2 DEF FinalizeCommits, IInv, RowOK
<1>4. LoadedOK'
  BY <1>2, RowShape DEF FinalizeCommits, Unloads, callbacks, IInv, RowOK, LoadedOK,
      Writer
<1>5. PlainOK'
  BY DEF FinalizeCommits, phone, callbacks, IInv, PlainOK, Idle
<1>6. HangOK'
  BY DEF FinalizeCommits, phone, IInv, HangOK
<1>7. RequestOK'
  BY <1>2 DEF FinalizeCommits, IInv, RequestOK
<1>8. SweepOK'
  BY <1>2, RowShape DEF FinalizeCommits, Unloads, phone, IInv, SweepOK, Idle, LoadedOK,
      Writer
<1>9. CrashOK'
  BY DEF FinalizeCommits, Unloads, IInv, CrashOK
<1>10. RoutableOK'
  BY <1>2 DEF FinalizeCommits, phone, IInv, RoutableOK
<1>11. LabelOK'
  BY <1>2 DEF FinalizeCommits, IInv, LabelOK
<1>12. HooksOK'
  BY Frame DEF FinalizeCommits, phone, callbacks, IInv
<1> QED BY <1>3, <1>4, <1>5, <1>6, <1>7, <1>8, <1>9, <1>10, <1>11, <1>12 DEF IInv

LEMMA LabelsStep == ASSUME IInv, Labels PROVE IInv'
<1>1. row \in Row /\ (IF outcome THEN "TRANSFERRED_TO_HOST" ELSE "CLASSIFIED") \in
    CallType
  BY DEF Labels, IInv, RowOK, CallType
<1>2. /\ row \in Row /\ row' \in Row
      /\ row'.type = IF outcome THEN "TRANSFERRED_TO_HOST" ELSE "CLASSIFIED"
      /\ row'.requested = row.requested
      /\ row'.status = row.status
  BY <1>1, RowUpdate DEF Labels
<1>3. RowOK'
  BY <1>2 DEF Labels, IInv, RowOK
<1>4. LoadedOK'
  BY <1>2, RowShape DEF Labels, callbacks, IInv, RowOK, LoadedOK, Writer
<1>5. PlainOK'
  BY DEF Labels, phone, callbacks, IInv, PlainOK, Idle
<1>6. HangOK'
  BY DEF Labels, phone, IInv, HangOK
<1>7. RequestOK'
  BY <1>2 DEF Labels, IInv, RequestOK
<1>8. SweepOK'
  BY <1>2 DEF Labels, phone, IInv, SweepOK, Idle
<1>9. CrashOK'
  BY DEF Labels, IInv, CrashOK
<1>10. RoutableOK'
  BY <1>2 DEF Labels, phone, IInv, RoutableOK
<1>11. LabelOK'
  BY <1>2 DEF Labels, IInv, LabelOK
<1>12. HooksOK'
  BY Frame DEF Labels, phone, callbacks, IInv
<1> QED BY <1>3, <1>4, <1>5, <1>6, <1>7, <1>8, <1>9, <1>10, <1>11, <1>12 DEF IInv

LEMMA HandlerFailsStep == ASSUME IInv, HandlerFails PROVE IInv'
<1>1. RowOK'
  BY DEF HandlerFails, IInv, RowOK
<1>2. LoadedOK'
  BY RowShape DEF HandlerFails, Unloads, callbacks, IInv, RowOK, LoadedOK, Writer
<1>3. PlainOK'
  BY DEF HandlerFails, phone, callbacks, IInv, PlainOK, Idle
<1>4. HangOK'
  BY DEF HandlerFails, phone, IInv, HangOK
<1>5. RequestOK'
  BY DEF HandlerFails, IInv, RequestOK, RowOK
<1>6. SweepOK'
  BY RowShape DEF HandlerFails, Unloads, phone, IInv, SweepOK, Idle, LoadedOK, Writer
<1>7. CrashOK'
  BY DEF HandlerFails, Unloads, IInv, CrashOK
<1>8. RoutableOK'
  BY DEF HandlerFails, phone, IInv, RoutableOK
<1>9. HooksOK' /\ LabelOK'
  BY Frame DEF HandlerFails, phone, callbacks, IInv
<1> QED BY <1>1, <1>2, <1>3, <1>4, <1>5, <1>6, <1>7, <1>8, <1>9 DEF IInv

LEMMA ClosesStep == ASSUME IInv, Closes PROVE IInv'
<1>1. RowOK'
  BY DEF Closes, IInv, RowOK
<1>2. LoadedOK'
  BY RowShape DEF Closes, callbacks, IInv, RowOK, LoadedOK, Writer
<1>3. PlainOK'
  BY DEF Closes, phone, callbacks, IInv, PlainOK, Idle
<1>4. HangOK'
  BY DEF Closes, phone, IInv, HangOK
<1>5. RequestOK'
  BY DEF Closes, IInv, RequestOK, RowOK
<1>6. SweepOK'
  BY DEF Closes, phone, IInv, SweepOK, Idle
<1>7. CrashOK'
  BY DEF Closes, IInv, CrashOK
<1>8. RoutableOK'
  BY DEF Closes, phone, IInv, RoutableOK
<1>9. HooksOK' /\ LabelOK'
  BY Frame DEF Closes, phone, callbacks, IInv
<1> QED BY <1>1, <1>2, <1>3, <1>4, <1>5, <1>6, <1>7, <1>8, <1>9 DEF IInv

LEMMA RaisesStep == ASSUME IInv, Raises PROVE IInv'
<1>1. RowOK'
  BY DEF Raises, IInv, RowOK
<1>2. LoadedOK'
  BY RowShape DEF Raises, Loads, callbacks, IInv, RowOK, LoadedOK, Writer
<1>3. PlainOK'
  BY NoFrames DEF Raises, phone, callbacks, IInv, PlainOK, Idle
<1>4. HangOK'
  BY DEF Raises, phone, IInv, HangOK
<1>5. RequestOK'
  BY NoFrames DEF Raises, IInv, RequestOK, RowOK
<1>6. SweepOK'
  BY RowShape DEF Raises, Loads, phone, IInv, SweepOK, Idle, LoadedOK, Writer
<1>7. CrashOK'
  BY DEF Raises, Loads, IInv, CrashOK, RequestOK, HangOK, LoadedOK, Writer
<1>8. RoutableOK'
  BY DEF Raises, phone, IInv, RoutableOK
<1>9. HooksOK' /\ LabelOK'
  BY Frame DEF Raises, phone, callbacks, IInv
<1> QED BY <1>1, <1>2, <1>3, <1>4, <1>5, <1>6, <1>7, <1>8, <1>9 DEF IInv

LEMMA CrashCommitsStep == ASSUME IInv, CrashCommits PROVE IInv'
<1>1. row \in Row /\ loaded["pipeline"] \in Row /\ "failed" \in Status
  BY DEF CrashCommits, IInv, RowOK, LoadedOK, Status
<1>2. /\ row \in Row /\ row' \in Row
      /\ row'.status \in {"failed", row.status}
      /\ row'.requested = row.requested
      /\ row'.type = row.type
  <2>1. CASE CrashRecorded(loaded["pipeline"])
    <3>1. row' = Flush(row, loaded["pipeline"],
                       [loaded["pipeline"] EXCEPT !.status = "failed"])
      BY <2>1 DEF CrashCommits
    <3> QED BY <3>1, <1>1, StatusWrite
  <2>2. CASE ~CrashRecorded(loaded["pipeline"])
    BY <2>2, <1>1 DEF CrashCommits
  <2> QED BY <2>1, <2>2
<1>3. RowOK'
  BY <1>2 DEF CrashCommits, IInv, RowOK
<1>4. LoadedOK'
  BY <1>2, RowShape DEF CrashCommits, Unloads, CrashRecorded, callbacks, IInv, RowOK,
      LoadedOK, Writer
<1>5. PlainOK'
  BY DEF CrashCommits, phone, callbacks, IInv, PlainOK, Idle
<1>6. HangOK'
  BY DEF CrashCommits, CrashRecorded, phone, IInv, HangOK, CrashOK
<1>7. RequestOK'
  BY <1>2 DEF CrashCommits, IInv, RequestOK
<1>8. SweepOK'
  BY <1>2, RowShape DEF CrashCommits, Unloads, phone, IInv, SweepOK, Idle, LoadedOK,
      Writer
<1>9. CrashOK'
  BY DEF CrashCommits, Unloads, CrashRecorded, IInv, CrashOK
<1>10. RoutableOK'
  BY <1>2 DEF CrashCommits, CrashRecorded, phone, IInv, RoutableOK, CrashOK, HangOK
<1>11. LabelOK'
  BY <1>2 DEF CrashCommits, IInv, LabelOK
<1>12. HooksOK'
  BY Frame DEF CrashCommits, phone, callbacks, IInv
<1> QED BY <1>3, <1>4, <1>5, <1>6, <1>7, <1>8, <1>9, <1>10, <1>11, <1>12 DEF IInv

LEMMA CrashLabelsStep == ASSUME IInv, CrashLabels PROVE IInv'
<1>1. row \in Row /\ "MISSED_SYSTEM_FAILURE" \in CallType
  BY DEF CrashLabels, IInv, RowOK, CallType
<1>2. /\ row \in Row /\ row' \in Row
      /\ row'.type = "MISSED_SYSTEM_FAILURE"
      /\ row'.requested = row.requested
      /\ row'.status = row.status
  BY <1>1, RowUpdate DEF CrashLabels
<1>3. RowOK'
  BY <1>2 DEF CrashLabels, IInv, RowOK
<1>4. LoadedOK'
  BY <1>2, RowShape DEF CrashLabels, callbacks, IInv, RowOK, LoadedOK, Writer
<1>5. PlainOK'
  BY DEF CrashLabels, phone, callbacks, IInv, PlainOK, Idle
<1>6. HangOK'
  BY DEF CrashLabels, phone, IInv, HangOK
<1>7. RequestOK'
  BY <1>2 DEF CrashLabels, IInv, RequestOK
<1>8. SweepOK'
  BY <1>2 DEF CrashLabels, phone, IInv, SweepOK, Idle
<1>9. CrashOK'
  BY DEF CrashLabels, IInv, CrashOK
<1>10. RoutableOK'
  BY <1>2 DEF CrashLabels, phone, IInv, RoutableOK
<1>11. LabelOK'
  BY <1>2 DEF CrashLabels, IInv, LabelOK, HangOK
<1>12. HooksOK'
  BY Frame DEF CrashLabels, phone, callbacks, IInv
<1> QED BY <1>3, <1>4, <1>5, <1>6, <1>7, <1>8, <1>9, <1>10, <1>11, <1>12 DEF IInv

LEMMA CrashUnrecordedStep == ASSUME IInv, CrashUnrecorded PROVE IInv'
<1>1. RowOK'
  BY DEF CrashUnrecorded, IInv, RowOK
<1>2. LoadedOK'
  BY RowShape DEF CrashUnrecorded, Unloads, callbacks, IInv, RowOK, LoadedOK, Writer
<1>3. PlainOK'
  BY DEF CrashUnrecorded, phone, callbacks, IInv, PlainOK, Idle
<1>4. HangOK'
  BY DEF CrashUnrecorded, phone, IInv, HangOK
<1>5. RequestOK'
  BY DEF CrashUnrecorded, IInv, RequestOK, RowOK
<1>6. SweepOK'
  BY RowShape DEF CrashUnrecorded, Unloads, phone, IInv, SweepOK, Idle, LoadedOK, Writer
<1>7. CrashOK'
  BY DEF CrashUnrecorded, Unloads, IInv, CrashOK
<1>8. RoutableOK'
  BY DEF CrashUnrecorded, phone, IInv, RoutableOK
<1>9. HooksOK' /\ LabelOK'
  BY Frame DEF CrashUnrecorded, phone, callbacks, IInv
<1> QED BY <1>1, <1>2, <1>3, <1>4, <1>5, <1>6, <1>7, <1>8, <1>9 DEF IInv

LEMMA UnwindsStep == ASSUME IInv, Unwinds PROVE IInv'
<1>1. RowOK'
  BY DEF Unwinds, IInv, RowOK
<1>2. LoadedOK'
  BY RowShape DEF Unwinds, callbacks, IInv, RowOK, LoadedOK, Writer
<1>3. PlainOK'
  BY DEF Unwinds, AskHangup, callbacks, IInv, PlainOK, Idle
<1>4. HangOK'
  BY DEF Unwinds, AskHangup, IInv, HangOK
<1>5. RequestOK'
  BY DEF Unwinds, IInv, RequestOK, RowOK
<1>6. SweepOK'
  BY DEF Unwinds, IInv, SweepOK, Idle
<1>7. CrashOK'
  BY DEF Unwinds, IInv, CrashOK
<1>8. RoutableOK'
  BY DEF Unwinds, IInv, RoutableOK
<1>9. HooksOK' /\ LabelOK'
  BY Frame DEF Unwinds, callbacks, IInv
<1> QED BY <1>1, <1>2, <1>3, <1>4, <1>5, <1>6, <1>7, <1>8, <1>9 DEF IInv

LEMMA WorkerDiesStep == ASSUME IInv, WorkerDies PROVE IInv'
<1>1. /\ pipe \notin Idle /\ pipe' \in {"rejected", "dead"}
      /\ pipe' = "rejected" => pipe \in {"rejecting", "labelling busy"}
      /\ row \in Row
  BY DEF WorkerDies, IInv, RowOK, Idle
<1>2. /\ claim' \in [Claimant -> {"idle", "won", "told", "lost"}]
      /\ \A k \in Claimant : claim'[k] \in {"won", "told"} => claim[k] \in {"won",
          "told"}
  BY DEF WorkerDies, IInv, PlainOK
<1>3. \A w \in Writer : loaded'[w] = NoRow
  BY DEF WorkerDies
<1>4. RowOK'
  BY <1>1 DEF WorkerDies, IInv, RowOK
<1>5. LoadedOK'
  BY <1>1, <1>3, RowShape DEF WorkerDies, IInv, LoadedOK, Writer
<1>6a. pipe' \in Idle
  BY <1>1 DEF Idle
<1>6. PlainOK'
  BY <1>6a, <1>2, NoFrames DEF WorkerDies, IInv, PlainOK
<1>7. HangOK'
  BY <1>1 DEF WorkerDies, IInv, HangOK
<1>8. RequestOK'
  BY <1>1, <1>2, NoFrames DEF WorkerDies, IInv, RequestOK
<1>9. HooksOK'
  BY DEF WorkerDies, IInv, HooksOK
<1>10. SweepOK'
  BY <1>1, <1>3, RowShape DEF WorkerDies, IInv, SweepOK, Writer
<1>11. CrashOK'
  BY <1>1 DEF CrashOK
<1>12. RoutableOK'
  BY <1>1 DEF WorkerDies, IInv, RoutableOK
<1>13. LabelOK'
  BY Frame DEF WorkerDies, IInv
<1> QED BY <1>4, <1>5, <1>6, <1>7, <1>8, <1>9, <1>10, <1>11, <1>12, <1>13 DEF IInv

LEMMA ClaimsStep == ASSUME IInv, NEW k \in Claimant, Claims(k) PROVE IInv'
<1>1. /\ row \in Row /\ row' \in Row
      /\ row'.type = row.type
      /\ row'.status = row.status
      /\ IF Claimable THEN row'.requested ELSE row' = row
  BY RowUpdate DEF Claims, StoresNumber, IInv, RowOK, PlainOK, Idle
<1>2. /\ claim' \in [Claimant -> {"idle", "won", "told", "lost"}]
      /\ \A j \in Claimant : j # k => claim'[j] = claim[j]
      /\ claim'[k] = IF Claimable THEN "won" ELSE "lost"
  BY DEF Claims, IInv, PlainOK
<1>3. RowOK'
  BY <1>1 DEF Claims, call, IInv, RowOK
<1>4. LoadedOK'
  BY <1>1, RowShape DEF Claims, call, callbacks, IInv, RowOK, LoadedOK, Writer
<1>5. PlainOK'
  <2>1. UNCHANGED <<pipe, frames, outcome, event, line, hang, hook, hooks, emitted,
                    aged, finished>>
    BY DEF Claims, call, phone, callbacks
  <2>2. PlainOK /\ hooks \subseteq Exotel /\ emitted \in 0..MaxHooks
    BY DEF IInv, PlainOK
  <2>3. hooks' \subseteq Exotel /\ emitted' \in 0..MaxHooks
    BY <2>1, <2>2
  <2> QED BY <1>2, <2>1, <2>2, <2>3, PlainFrame
<1>6. RequestOK'
  <2>1. CASE Claimable
    BY <2>1, <1>1, <1>2 DEF Claims, Claimable, call, IInv, RequestOK, PlainOK, Idle
  <2>2. CASE ~Claimable
    BY <2>2, <1>1, <1>2 DEF Claims, call, IInv, RequestOK, PlainOK
  <2> QED BY <2>1, <2>2
<1>7. SweepOK'
  BY <1>1 DEF Claims, call, phone, IInv, SweepOK
<1>8. RoutableOK'
  BY <1>1 DEF Claims, Claimable, call, phone, IInv, RoutableOK
<1>9. LabelOK'
  BY <1>1 DEF Claims, call, IInv, LabelOK
<1>10. HangOK' /\ HooksOK' /\ CrashOK'
  BY Frame DEF Claims, call, phone, callbacks, IInv
<1> QED BY <1>3, <1>4, <1>5, <1>6, <1>7, <1>8, <1>9, <1>10 DEF IInv

LEMMA SignalsStep == ASSUME IInv, NEW k \in Claimant, Signals(k) PROVE IInv'
<1>1. PlainOK'
  BY DEF Signals, phone, callbacks, IInv, PlainOK
<1>2. RequestOK'
  BY DEF Signals, IInv, RequestOK, RowOK
<1>3. RowOK' /\ LoadedOK' /\ HangOK' /\ HooksOK' /\ SweepOK' /\ CrashOK' /\ RoutableOK'
    /\ LabelOK'
  BY Frame DEF Signals, phone, callbacks, IInv
<1> QED BY <1>1, <1>2, <1>3 DEF IInv

LEMMA HangupArrivesStep == ASSUME IInv, HangupArrives PROVE IInv'
<1>1. PlainOK'
  BY DEF HangupArrives, call, callbacks, IInv, PlainOK
<1>2. HangOK'
  BY DEF HangupArrives, call, IInv, HangOK
<1>3. HooksOK'
  BY DEF HangupArrives, callbacks, IInv, HooksOK
<1>4. SweepOK'
  BY DEF HangupArrives, call, IInv, SweepOK
<1>5. RoutableOK'
  BY DEF HangupArrives, call, IInv, RoutableOK
<1>6. RowOK' /\ LoadedOK' /\ RequestOK' /\ CrashOK' /\ LabelOK'
  BY Frame DEF HangupArrives, call, callbacks, IInv
<1> QED BY <1>1, <1>2, <1>3, <1>4, <1>5, <1>6 DEF IInv

LEMMA HangupFailsStep == ASSUME IInv, HangupFails PROVE IInv'
<1>1. PlainOK'
  BY DEF HangupFails, call, callbacks, IInv, PlainOK
<1>2. HangOK'
  BY DEF HangupFails, call, IInv, HangOK
<1>3. RowOK' /\ LoadedOK' /\ RequestOK' /\ HooksOK' /\ SweepOK' /\ CrashOK' /\
    RoutableOK' /\ LabelOK'
  BY Frame DEF HangupFails, call, callbacks, IInv
<1> QED BY <1>1, <1>2, <1>3 DEF IInv

LEMMA GuestLeavesStep == ASSUME IInv, GuestLeaves PROVE IInv'
<1>1. PlainOK'
  BY DEF GuestLeaves, call, callbacks, IInv, PlainOK
<1>2. HooksOK'
  BY DEF GuestLeaves, callbacks, IInv, HooksOK
<1>3. SweepOK'
  BY DEF GuestLeaves, call, IInv, SweepOK
<1>4. RoutableOK'
  BY DEF GuestLeaves, call, IInv, RoutableOK
<1>5. RowOK' /\ LoadedOK' /\ HangOK' /\ RequestOK' /\ CrashOK' /\ LabelOK'
  BY Frame DEF GuestLeaves, call, callbacks, IInv
<1> QED BY <1>1, <1>2, <1>3, <1>4, <1>5 DEF IInv

LEMMA StreamEndsStep == ASSUME IInv, StreamEnds PROVE IInv'
<1>1. PlainOK'
  BY DEF StreamEnds, call, callbacks, IInv, PlainOK
<1>2. HooksOK'
  BY DEF StreamEnds, callbacks, IInv, HooksOK
<1>3. SweepOK'
  BY DEF StreamEnds, call, IInv, SweepOK
<1>4. RoutableOK'
  BY DEF StreamEnds, call, IInv, RoutableOK
<1>5. RowOK' /\ LoadedOK' /\ HangOK' /\ RequestOK' /\ CrashOK' /\ LabelOK'
  BY Frame DEF StreamEnds, call, callbacks, IInv
<1> QED BY <1>1, <1>2, <1>3, <1>4, <1>5 DEF IInv

LEMMA ConnectRoutingStep ==
    ASSUME IInv, NEW db \in BOOLEAN, NEW dials \in BOOLEAN, NEW hours \in BOOLEAN,
           ConnectRouting(db, dials, hours)
    PROVE  IInv'
<1> DEFINE connected == db /\ Destination(dials, hours)
<1>1. line = "flow" /\ line' = IF connected THEN "host" ELSE "over"
  BY DEF ConnectRouting
<1> HIDE DEF connected
<1>2. PlainOK'
  BY <1>1 DEF ConnectRouting, call, callbacks, IInv, PlainOK
<1>3. HooksOK'
  BY <1>1 DEF ConnectRouting, callbacks, IInv, HooksOK
<1>4. SweepOK'
  BY <1>1 DEF ConnectRouting, call, IInv, SweepOK
<1>5. RoutableOK'
  BY <1>1 DEF ConnectRouting, call, IInv, RoutableOK
<1>6. RowOK' /\ LoadedOK' /\ HangOK' /\ RequestOK' /\ CrashOK' /\ LabelOK'
  BY Frame DEF ConnectRouting, call, callbacks, IInv
<1> QED BY <1>2, <1>3, <1>4, <1>5, <1>6 DEF IInv

LEMMA HookSentStep == ASSUME IInv, NEW s \in Exotel, HookSent(s) PROVE IInv'
<1>1. PlainOK'
  <2>1. emitted \in 0..MaxHooks /\ emitted < MaxHooks /\ emitted' = emitted + 1
    BY DEF HookSent, IInv, PlainOK
  <2>2. emitted' \in 0..MaxHooks
    BY <2>1, LifecycleAssumption
  <2>3. hooks' \subseteq Exotel
    BY DEF HookSent, IInv, PlainOK
  <2>4. UNCHANGED <<pipe, frames, outcome, event, line, hang, hook, aged, finished>>
    BY DEF HookSent, call, phone
  <2>5. claim' \in [Claimant -> {"idle", "won", "told", "lost"}]
    BY DEF HookSent, IInv, PlainOK
  <2>6. PlainOK
    BY DEF IInv
  <2> QED BY <2>2, <2>3, <2>4, <2>5, <2>6, PlainFrame
<1>2. HooksOK'
  BY DEF HookSent, phone, IInv, HooksOK
<1>3. RowOK' /\ LoadedOK' /\ HangOK' /\ RequestOK' /\ SweepOK' /\ CrashOK' /\
    RoutableOK' /\ LabelOK'
  BY Frame DEF HookSent, call, phone, IInv
<1> QED BY <1>1, <1>2, <1>3 DEF IInv

LEMMA HookLoadsStep == ASSUME IInv, NEW s \in Exotel, HookLoads(s) PROVE IInv'
<1>1. /\ row' \in Row
      /\ row \in Row => row' = row
      /\ row \notin Row => /\ row'.status = "in_progress"
                          /\ ~row'.requested
                          /\ row'.type = "UNKNOWN"
  <2>1. PICK known \in BOOLEAN : row' = OrCreated(row, known)
    BY DEF HookLoads
  <2> QED BY <2>1, Created DEF IInv
<1>2. RowOK'
  BY <1>1 DEF HookLoads, call, IInv, RowOK
<1>3. LoadedOK'
  BY <1>1, RowShape DEF HookLoads, call, IInv, RowOK, LoadedOK, Writer
<1>4. PlainOK'
  BY DEF HookLoads, call, phone, IInv, PlainOK
<1>5. RequestOK'
  BY <1>1, RowShape DEF HookLoads, call, IInv, RequestOK, RowOK
<1>6. HooksOK'
  BY DEF HookLoads, phone, IInv, HooksOK
<1>7. SweepOK'
  BY <1>1, RowShape DEF HookLoads, call, phone, IInv, SweepOK, RowOK, LoadedOK, Writer
<1>8. CrashOK'
  BY DEF HookLoads, call, IInv, CrashOK
<1>9. RoutableOK'
  BY <1>1, RowShape DEF HookLoads, call, phone, IInv, RoutableOK, RequestOK
<1>10. LabelOK'
  BY <1>1, RowShape DEF HookLoads, call, IInv, LabelOK
<1>11. HangOK'
  BY Frame DEF HookLoads, call, phone, IInv
<1> QED BY <1>2, <1>3, <1>4, <1>5, <1>6, <1>7, <1>8, <1>9, <1>10, <1>11 DEF IInv

LEMMA HookCommitsStep == ASSUME IInv, HookCommits PROVE IInv'
<1>1. hook \in Exotel /\ MapStatus(hook) \in Status
      /\ (MapStatus(hook) = "in_progress" \/ hook \in {"completed", "no-answer"})
  BY DEF HookCommits, IInv, PlainOK, Exotel, Status, MapStatus
<1>2. row \in Row /\ loaded["hook"] \in Row /\ MapStatus(hook) \in Status
  BY <1>1, RowShape DEF HookCommits, IInv, RowOK, LoadedOK, Writer
<1>3. /\ row \in Row /\ row' \in Row
      /\ row'.status \in {MapStatus(hook), row.status}
      /\ row'.requested = row.requested
      /\ row'.type = row.type
  BY <1>2, StatusWrite DEF HookCommits
<1>4. RowOK'
  BY <1>3 DEF HookCommits, call, IInv, RowOK
<1>5. LoadedOK'
  BY <1>3, RowShape DEF HookCommits, Unloads, call, IInv, RowOK, LoadedOK, Writer
<1>6. PlainOK'
  BY DEF HookCommits, call, phone, IInv, PlainOK
<1>7. RequestOK'
  BY <1>3 DEF HookCommits, call, IInv, RequestOK
<1>8. HooksOK'
  BY DEF HookCommits, phone, IInv, HooksOK
<1>9. SweepOK'
  BY <1>3, RowShape DEF HookCommits, Unloads, call, phone, IInv, SweepOK, LoadedOK,
      Writer
<1>10. CrashOK'
  BY DEF HookCommits, Unloads, call, IInv, CrashOK
<1>11. RoutableOK'
  BY <1>3, <1>1 DEF HookCommits, call, phone, IInv, RoutableOK, HooksOK, PlainOK
<1>12. LabelOK'
  BY <1>3 DEF HookCommits, call, IInv, LabelOK
<1>13. HangOK'
  BY Frame DEF HookCommits, call, phone, IInv
<1> QED BY <1>4, <1>5, <1>6, <1>7, <1>8, <1>9, <1>10, <1>11, <1>12, <1>13 DEF IInv

LEMMA AgesStep == ASSUME IInv, Ages PROVE IInv'
<1>1. PlainOK'
  BY DEF Ages, call, phone, callbacks, IInv, PlainOK
<1>2. SweepOK'
  BY DEF Ages, call, phone, IInv, SweepOK, RowOK
<1>3. RowOK' /\ LoadedOK' /\ HangOK' /\ RequestOK' /\ HooksOK' /\ CrashOK' /\
    RoutableOK' /\ LabelOK'
  BY Frame DEF Ages, call, phone, callbacks, IInv
<1> QED BY <1>1, <1>2, <1>3 DEF IInv

LEMMA SweepLoadsStep == ASSUME IInv, SweepLoads PROVE IInv'
<1>1. LoadedOK'
  BY RowShape DEF SweepLoads, Loads, call, callbacks, IInv, RowOK, LoadedOK, Writer
<1>2. SweepOK'
  BY RowShape DEF SweepLoads, Stuck, Loads, call, phone, IInv, SweepOK, RowOK,
      RequestOK, LoadedOK, Writer
<1>3. CrashOK'
  BY DEF SweepLoads, Loads, call, IInv, CrashOK
<1>4. RowOK' /\ PlainOK' /\ HangOK' /\ RequestOK' /\ HooksOK' /\ RoutableOK' /\ LabelOK'
  BY Frame DEF SweepLoads, call, phone, callbacks, IInv
<1> QED BY <1>1, <1>2, <1>3, <1>4 DEF IInv

LEMMA SweepCommitsStep == ASSUME IInv, SweepCommits PROVE IInv'
<1>1. /\ row \in Row /\ row' \in Row
      /\ row'.requested = row.requested
      /\ row'.type \in {"MISSED_SYSTEM_FAILURE", row.type}
  BY SweepWrite DEF SweepCommits, IInv, LoadedOK, Writer
<1>2. RowOK'
  BY <1>1 DEF SweepCommits, call, IInv, RowOK
<1>3. LoadedOK'
  BY <1>1, RowShape DEF SweepCommits, Unloads, call, callbacks, IInv, RowOK, LoadedOK,
      Writer
<1>4. RequestOK'
  BY <1>1 DEF SweepCommits, call, IInv, RequestOK
<1>5. SweepOK'
  BY <1>1, RowShape DEF SweepCommits, Unloads, call, phone, IInv, SweepOK, LoadedOK,
      Writer
<1>6. CrashOK'
  BY DEF SweepCommits, Unloads, call, IInv, CrashOK
<1>7. RoutableOK'
  BY <1>1 DEF SweepCommits, call, phone, IInv, RoutableOK, SweepOK, Idle
<1>8. LabelOK'
  BY <1>1 DEF SweepCommits, call, IInv, LabelOK
<1>9. PlainOK' /\ HangOK' /\ HooksOK'
  BY Frame DEF SweepCommits, call, phone, callbacks, IInv
<1> QED BY <1>2, <1>3, <1>4, <1>5, <1>6, <1>7, <1>8, <1>9 DEF IInv

LEMMA SessionFailsStep == ASSUME IInv, NEW w \in Writer, SessionFails(w) PROVE IInv'
<1>1. LoadedOK'
  BY RowShape DEF SessionFails, Unloads, call, IInv, RowOK, LoadedOK, Writer
<1>2. PlainOK'
  BY DEF SessionFails, call, phone, IInv, PlainOK
<1>3. HooksOK'
  BY DEF SessionFails, phone, IInv, HooksOK
<1>4. SweepOK'
  BY RowShape DEF SessionFails, Unloads, call, phone, IInv, SweepOK, LoadedOK, Writer
<1>5. CrashOK'
  BY DEF SessionFails, Unloads, call, IInv, CrashOK
<1>6. RowOK' /\ HangOK' /\ RequestOK' /\ RoutableOK' /\ LabelOK'
  BY Frame DEF SessionFails, call, phone, IInv
<1> QED BY <1>1, <1>2, <1>3, <1>4, <1>5, <1>6 DEF IInv
----------------------------------------------------------------------------
(* The invariant *)

LEMMA InitIInv == Init => IInv
<1> SUFFICES ASSUME Init PROVE IInv
  OBVIOUS
<1>1. RowOK
  BY DEF Init, RowOK
<1>2. LoadedOK
  BY RowShape DEF Init, LoadedOK, Writer
<1>3. PlainOK
  <2>1. 0 \in 0..MaxHooks
    BY LifecycleAssumption
  <2>2. "none" \in Idle
    BY DEF Idle
  <2> QED BY <2>1, <2>2, NoFrames DEF Init, PlainOK
<1>4. HangOK /\ HooksOK /\ CrashOK
  BY DEF Init, HangOK, HooksOK, CrashOK
<1>5. RequestOK
  BY NoFrames, RowShape DEF Init, RequestOK
<1>6. SweepOK
  BY DEF Init, SweepOK, Writer
<1>7. RoutableOK /\ LabelOK
  BY RowShape DEF Init, RoutableOK, LabelOK
<1> QED BY <1>1, <1>2, <1>3, <1>4, <1>5, <1>6, <1>7 DEF IInv

LEMMA StutterStep == IInv /\ UNCHANGED vars => IInv'
<1> SUFFICES ASSUME IInv, UNCHANGED vars PROVE IInv'
  OBVIOUS
<1>1. RowOK' /\ LoadedOK' /\ PlainOK' /\ HangOK' /\ RequestOK'
  BY Frame DEF vars
<1>2. HooksOK' /\ SweepOK' /\ CrashOK' /\ RoutableOK' /\ LabelOK'
  BY Frame DEF vars
<1> QED BY <1>1, <1>2 DEF IInv

LEMMA PipelineIInv == ASSUME IInv, PipelineStep PROVE IInv'
BY RejectCommitsStep, RejectLabelsStep, RegistersStep, EndFrameDrainsStep, CancelledStep,
   FinalizeLoadsStep, FinalizeCommitsStep, LabelsStep, ClosesStep, CrashCommitsStep,
   CrashLabelsStep, UnwindsStep
   DEF PipelineStep

LEMMA NextIInv == IInv /\ [Next]_vars => IInv'
<1> SUFFICES ASSUME IInv, Next PROVE IInv'
  BY StutterStep
<1>1. CASE PipelineStarts \/ BusyRejects \/ PipelineStep \/ SetupFails \/ RejectFails
           \/ CrashUnrecorded
  BY <1>1, PipelineStartsStep, BusyRejectsStep, PipelineIInv, SetupFailsStep,
     RejectFailsStep, CrashUnrecordedStep
<1>2. CASE EndQueued \/ HandoffQueued \/ HandlerFails \/ Raises \/ WorkerDies
  BY <1>2, EndQueuedStep, HandoffQueuedStep, HandlerFailsStep, RaisesStep, WorkerDiesStep
<1>3. ASSUME NEW k \in Claimant, Claims(k) \/ Signals(k) PROVE IInv'
  BY <1>3, ClaimsStep, SignalsStep
<1>4. CASE \/ HangupArrives \/ HangupFails \/ GuestLeaves \/ StreamEnds
           \/ \E db, dials, hours \in BOOLEAN : ConnectRouting(db, dials, hours)
  BY <1>4, HangupArrivesStep, HangupFailsStep, GuestLeavesStep, StreamEndsStep,
     ConnectRoutingStep
<1>5. ASSUME NEW s \in Exotel, HookSent(s) \/ HookLoads(s) PROVE IInv'
  BY <1>5, HookSentStep, HookLoadsStep
<1>6. CASE HookCommits \/ Ages \/ SweepLoads \/ SweepCommits
  BY <1>6, HookCommitsStep, AgesStep, SweepLoadsStep, SweepCommitsStep
<1>7. ASSUME NEW w \in Writer, SessionFails(w) PROVE IInv'
  BY <1>7, SessionFailsStep
<1> QED BY <1>1, <1>2, <1>3, <1>4, <1>5, <1>6, <1>7 DEF Next

\* The parts of the invariant hold in every state of a call.
THEOREM Invariance == Spec => []IInv
BY InitIInv, NextIInv, PTL DEF Spec
----------------------------------------------------------------------------
(* What it implies *)

\* The row, its ORM copies, the pipeline, the line and the callbacks have their
\* types, and a call whose pipeline has started has a row.
THEOREM TypeCorrect == Spec => []TypeOK
<1>1. IInv => TypeOK
  <2> SUFFICES ASSUME IInv PROVE TypeOK
    OBVIOUS
  <2>1. RowOK /\ LoadedOK /\ PlainOK
    BY DEF IInv
  <2> QED BY <2>1 DEF RowOK, LoadedOK, PlainOK, TypeOK
<1> QED BY <1>1, Invariance, PTL

\* The conditional UPDATE lets one of any number of taps and requests win
\* (take_call.py:242-257).
THEOREM OneWinnerHolds == Spec => []OneWinner
<1>1. IInv => OneWinner
  <2> SUFFICES ASSUME IInv PROVE OneWinner
    OBVIOUS
  <2> DEFINE winners == {k \in Claimant : claim[k] \in {"won", "told"}}
  <2>1. \A j, k \in winners : j = k
    BY DEF IInv, RequestOK
  <2>2. CASE winners = {}
    BY <2>2, FS_EmptySet DEF OneWinner
  <2>3. ASSUME NEW k \in winners PROVE OneWinner
    <3>1. winners = {k}
      BY <2>1
    <3>2. Cardinality({k}) = 1
      BY FS_Singleton
    <3> QED BY <3>1, <3>2 DEF OneWinner
  <2> QED BY <2>2, <2>3
<1> QED BY <1>1, Invariance, PTL

\* No hang-up is asked for once on_pipeline_finished has decided for a handoff.
THEOREM NotHungUp == Spec => []HandoffNotHungUp
<1>1. IInv => HandoffNotHungUp
  BY DEF IInv, HangOK, HandoffNotHungUp
<1> QED BY <1>1, Invariance, PTL

\* connect-routing finds the call of a guest being handed over in progress and
\* requested, whoever wrote the row since: with lookups that succeed, a row that
\* knows the host and a number to dial it answers with the host.
THEOREM Routed == Spec => HandoffRouted
<1>1. IInv => \A dials, hours \in BOOLEAN :
                  ConnectRouting(TRUE, dials, hours) /\ outcome /\ row.host
                      /\ (row.number \/ dials) => line' = "host"
  <2> SUFFICES ASSUME IInv, NEW dials \in BOOLEAN, NEW hours \in BOOLEAN,
                      ConnectRouting(TRUE, dials, hours), outcome, row.host,
                      row.number \/ dials
               PROVE  line' = "host"
    OBVIOUS
  <2>1. row \in Row /\ row # NoRow /\ row.requested
    BY RowShape DEF IInv, RequestOK
  <2>2. line = "flow"
    BY DEF ConnectRouting
  <2>3. row.status = "in_progress"
    BY <2>1, <2>2 DEF IInv, RoutableOK
  <2>4. Destination(dials, hours)
    BY <2>1, <2>3 DEF Destination
  <2> QED BY <2>4 DEF ConnectRouting
<1>2. IInv /\ [Next]_vars
          => [\A dials, hours \in BOOLEAN :
                  ConnectRouting(TRUE, dials, hours) /\ outcome /\ row.host
                      /\ (row.number \/ dials) => line' = "host"]_vars
  BY <1>1
<1> QED BY <1>2, Invariance, PTL DEF Spec, HandoffRouted

LEMMA LabelKept ==
    ASSUME IInv, Next, row # NoRow, row.type = "TRANSFERRED_TO_HOST"
    PROVE  row'.type = "TRANSFERRED_TO_HOST"
<1>1. row \in Row /\ outcome /\ row.requested
  BY DEF IInv, RowOK, LabelOK, RequestOK
<1>2. pipe \notin {"none", "rejecting", "labelling busy", "labelling crash"}
  BY <1>1 DEF IInv, HangOK
<1>3. CASE FinalizeCommits
  <2>1. /\ loaded["pipeline"] \in Row
        /\ (IF outcome THEN "in_progress" ELSE "completed") \in Status
    BY <1>3 DEF FinalizeCommits, IInv, LoadedOK, Status
  <2> QED BY <1>1, <1>3, <2>1, StatusWrite DEF FinalizeCommits
<1>4. CASE Labels
  <2>1. "TRANSFERRED_TO_HOST" \in CallType
    BY DEF CallType
  <2>2. row' = [row EXCEPT !.type = "TRANSFERRED_TO_HOST"]
    BY <1>1, <1>4 DEF Labels
  <2> QED BY <1>1, <2>1, <2>2, RowUpdate
<1>5. CASE CrashCommits
  <2>1. ~CrashRecorded(loaded["pipeline"])
    BY <1>1, <1>5 DEF CrashCommits, CrashRecorded, IInv, CrashOK
  <2> QED BY <1>5, <2>1 DEF CrashCommits
<1>6. CASE HookCommits
  <2>1. hook \in Exotel /\ MapStatus(hook) \in Status
    BY <1>6 DEF HookCommits, IInv, PlainOK, Exotel, Status, MapStatus
  <2>2. loaded["hook"] \in Row
    BY <1>6 DEF HookCommits, IInv, LoadedOK
  <2> QED BY <1>1, <1>6, <2>1, <2>2, StatusWrite DEF HookCommits
<1>7. ASSUME NEW k \in Claimant, Claims(k) PROVE row'.type = "TRANSFERRED_TO_HOST"
  BY <1>1, <1>7, RowUpdate DEF Claims, StoresNumber
<1>8. ASSUME NEW s \in Exotel, HookLoads(s) PROVE row'.type = "TRANSFERRED_TO_HOST"
  <2>1. PICK known \in BOOLEAN : row' = OrCreated(row, known)
    BY <1>8 DEF HookLoads
  <2> QED BY <1>1, <2>1, Created DEF IInv
<1>9. CASE SweepCommits
  BY <1>1, <1>9 DEF SweepCommits, IInv, SweepOK
<1>10. CASE PipelineStep
  BY <1>2, <1>3, <1>4, <1>5, <1>10
     DEF PipelineStep, RejectCommits, RejectLabels, Registers, EndFrameDrains, Cancelled,
         Finishes, FinalizeLoads, Closes, CrashLabels, Unwinds
<1>11. CASE UNCHANGED row
  BY <1>11
<1>12. row' = row \/ PipelineStep \/ HookCommits \/ SweepCommits
       \/ (\E k \in Claimant : Claims(k)) \/ (\E s \in Exotel : HookLoads(s))
  BY <1>2 DEF Next, PipelineStarts, BusyRejects, SetupFails, RejectFails, CrashUnrecorded,
     EndQueued, HandoffQueued, HandlerFails, Raises, WorkerDies, Signals, HangupArrives,
     HangupFails, GuestLeaves, StreamEnds, ConnectRouting, HookSent, Ages,
     SweepLoads, SessionFails
<1> QED BY <1>6, <1>7, <1>8, <1>9, <1>10, <1>11, <1>12

\* Once post-processing has labelled a call TRANSFERRED_TO_HOST, no crash in the
\* teardown, callback or sweep labels it otherwise.
THEOREM LabelHolds == Spec => TransferLabelHolds
<1>1. IInv /\ [Next]_vars
          => [row # NoRow /\ row.type = "TRANSFERRED_TO_HOST"
                 => row'.type = "TRANSFERRED_TO_HOST"]_vars
  BY LabelKept
<1> QED BY <1>1, Invariance, PTL DEF Spec, TransferLabelHolds
=============================================================================
