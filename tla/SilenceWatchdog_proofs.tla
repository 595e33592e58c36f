------------------------ MODULE SilenceWatchdog_proofs ------------------------
(***************************************************************************)
(* The watchdog ends a call once, and the prompt's closing state agrees    *)
(* with the hang-up that is pending, for any number of timers and requests *)
(* interleaved at every await; and no guest is given more strikes than     *)
(* silence has earned, but for one timer that each request may leave over. *)
(***************************************************************************)
EXTENDS SilenceWatchdog, Integers, FiniteSetTheorems, TLAPS

\* The inductive invariant, in parts that the handlers touch together.  A
\* call that goes on has strikes left and no EndWorkerFrame on its way.
ClockOK ==
    /\ timer \in [Timer -> [at: {"off", "sleeping", "cancelled"}, age: 0..Timeout]]
    /\ ref \in Timer \cup {NoTimer}
    /\ wait \in [Task -> Timer \cup {NoTimer}]
    /\ then \in {"nothing", "restart", "restart and clear"}
FlagsOK ==
    /\ prompts \in 0..MaxPrompts + 1
    /\ ended \in BOOLEAN
    /\ ends \in 0..1
    /\ ~ended => ends = 0 /\ prompts <= MaxPrompts
RequestOK ==
    /\ armed \in BOOLEAN
    /\ closing \in {"open", "farewell_pending", "closed"}
TurnOK == repeated \in BOOLEAN /\ history \in 0..2
SpeechOK ==
    /\ guest \in {"silent", "speaking", "heard"}
    /\ bot \in {"silent", "speaking"}
    /\ lines \in 0..MaxLines
GhostsOK == requests \in 0..MaxRequests /\ quiet \in 0..QuietMax

IInv == ClockOK /\ FlagsOK /\ RequestOK /\ TurnOK /\ SpeechOK /\ GhostsOK /\ ClosingAgrees
----------------------------------------------------------------------------
LEMMA CapIn == ASSUME NEW cap \in Nat, NEW n \in Nat PROVE Capped(n, cap) \in 0..cap
BY DEF Capped

LEMMA Bounds == Timeout \in Nat /\ MaxPrompts \in Nat /\ MaxRequests \in Nat /\ QuietMax \in Nat
<1>1. Timeout \in Nat /\ MaxPrompts \in Nat /\ MaxRequests \in Nat
  BY WatchdogAssumption
<1> QED BY <1>1 DEF QuietMax

LEMMA MoreLines == ASSUME SpeechOK PROVE Capped(lines + 1, MaxLines) \in 0..MaxLines
<1>1. MaxLines \in Nat /\ lines + 1 \in Nat
  BY DEF SpeechOK, MaxLines
<1> QED BY <1>1, CapIn

LEMMA TurnCleared ==
    ASSUME TurnOK, repeated' \in {FALSE, repeated}, history' \in {0, history}
    PROVE TurnOK'
<1>1. history' \in 0..2
  BY DEF TurnOK
<1>2. repeated' \in BOOLEAN
  BY DEF TurnOK
<1> QED BY <1>1, <1>2 DEF TurnOK

LEMMA TimerStates ==
    /\ Off \in [at: {"off", "sleeping", "cancelled"}, age: 0..Timeout]
    /\ Started \in [at: {"off", "sleeping", "cancelled"}, age: 0..Timeout]
<1>1. 0 \in 0..Timeout
  BY Bounds
<1> QED BY <1>1 DEF Off, Started

\* What a step leaves alone stays as it was.
LEMMA Frame ==
    ASSUME IInv
    PROVE /\ UNCHANGED clock => ClockOK'
          /\ UNCHANGED flags => FlagsOK'
          /\ UNCHANGED request => RequestOK'
          /\ UNCHANGED turn => TurnOK'
          /\ UNCHANGED speech => SpeechOK'
          /\ UNCHANGED ghosts => GhostsOK'
          /\ UNCHANGED <<ended, armed, closing>> => ClosingAgrees'
<1>1. UNCHANGED clock => ClockOK'
  BY DEF IInv, ClockOK, clock
<1>2. UNCHANGED flags => FlagsOK'
  BY DEF IInv, FlagsOK, flags
<1>3. UNCHANGED request => RequestOK'
  BY DEF IInv, RequestOK, request
<1>4. UNCHANGED turn => TurnOK'
  BY DEF IInv, TurnOK, turn
<1>5. UNCHANGED speech => SpeechOK'
  BY DEF IInv, SpeechOK, speech
<1>6. UNCHANGED ghosts => GhostsOK'
  BY DEF IInv, GhostsOK, ghosts
<1>7. UNCHANGED <<ended, armed, closing>> => ClosingAgrees'
  BY DEF IInv, ClosingAgrees
<1> QED BY <1>1, <1>2, <1>3, <1>4, <1>5, <1>6, <1>7

LEMMA InitIInv == Init => IInv
<1> SUFFICES ASSUME Init PROVE IInv
  OBVIOUS
<1>1. ClockOK
  BY TimerStates DEF Init, ClockOK
<1>2. FlagsOK
  <2>1. prompts \in 0..MaxPrompts + 1 /\ prompts <= MaxPrompts
    BY Bounds DEF Init
  <2>2. ends \in 0..1 /\ ends = 0
    BY DEF Init
  <2>3. ended \in BOOLEAN
    BY DEF Init
  <2> QED BY <2>1, <2>2, <2>3 DEF FlagsOK
<1>3. RequestOK /\ TurnOK /\ ClosingAgrees
  <2>1. RequestOK
    BY DEF Init, RequestOK
  <2>2. TurnOK
    <3>1. history \in 0..2
      BY DEF Init
    <3> QED BY <3>1 DEF Init, TurnOK
  <2>3. ~armed /\ closing # "farewell_pending"
    BY DEF Init
  <2> QED BY <2>1, <2>2, <2>3 DEF ClosingAgrees
<1>4. SpeechOK
  BY DEF Init, SpeechOK, MaxLines
<1>5. GhostsOK
  BY Bounds DEF Init, GhostsOK
<1> QED BY <1>1, <1>2, <1>3, <1>4, <1>5 DEF IInv
----------------------------------------------------------------------------
(* What a handler may do to the timers *)

LEMMA CreateTyped ==
    ASSUME ClockOK, Create
    PROVE /\ timer' \in [Timer -> [at: {"off", "sleeping", "cancelled"}, age: 0..Timeout]]
          /\ ref' \in Timer
<1>1. PICK t \in Fresh : timer' = [timer EXCEPT ![t] = Started] /\ ref' = t
  BY DEF Create
<1>2. t \in Timer
  BY <1>1 DEF Fresh
<1> QED BY <1>1, <1>2, TimerStates DEF ClockOK

LEMMA CancelTyped ==
    ASSUME ClockOK, NEW k \in Task, Cancel(k)
    PROVE /\ timer' \in [Timer -> [at: {"off", "sleeping", "cancelled"}, age: 0..Timeout]]
          /\ ref' \in Timer \cup {NoTimer}
          /\ wait' \in [Task -> Timer \cup {NoTimer}]
<1>1. CASE ref # NoTimer /\ timer[ref].at = "sleeping"
  <2>1. ref \in Timer
    BY <1>1 DEF ClockOK
  <2>2. [timer[ref] EXCEPT !.at = "cancelled"]
           \in [at: {"off", "sleeping", "cancelled"}, age: 0..Timeout]
    BY <2>1 DEF ClockOK
  <2>3. timer' = [timer EXCEPT ![ref] = [timer[ref] EXCEPT !.at = "cancelled"]]
    BY <1>1 DEF Cancel
  <2> QED BY <2>1, <2>2, <2>3 DEF ClockOK, Cancel
<1>2. CASE ~(ref # NoTimer /\ timer[ref].at = "sleeping")
  BY <1>2 DEF ClockOK, Cancel
<1> QED BY <1>1, <1>2

LEMMA CancelsTyped == ASSUME ClockOK, Cancels PROVE ClockOK'
<1>1. Frames \in Task
  BY DEF Task
<1>2. Cancel(Frames) /\ then' = "nothing"
  BY DEF Cancels
<1> QED BY <1>1, <1>2, CancelTyped DEF ClockOK

LEMMA RestartsTyped ==
    ASSUME ClockOK, NEW next \in {"restart", "restart and clear"}, Restarts(next)
    PROVE ClockOK'
<1>1. CASE ref = NoTimer
  <2>1. Create /\ UNCHANGED <<wait, then>>
    BY <1>1 DEF Restarts
  <2>2. /\ timer' \in [Timer -> [at: {"off", "sleeping", "cancelled"}, age: 0..Timeout]]
        /\ ref' \in Timer
    BY <2>1, CreateTyped
  <2> QED BY <2>1, <2>2 DEF ClockOK
<1>2. CASE ref # NoTimer
  <2>1. Cancel(Frames) /\ then' = next
    BY <1>2 DEF Restarts
  <2>2. Frames \in Task
    BY DEF Task
  <2> QED BY <2>1, <2>2, CancelTyped DEF ClockOK
<1> QED BY <1>1, <1>2
----------------------------------------------------------------------------
(* The steps *)

LEMMA TimerStopsStep == ASSUME IInv, NEW t \in Timer, TimerStops(t) PROVE IInv'
<1>1. ClockOK'
  BY TimerStates DEF IInv, TimerStops, ClockOK
<1> QED BY <1>1, Frame DEF IInv, TimerStops, flags, request

LEMMA TimesOutStep == ASSUME IInv, NEW t \in Timer, TimesOut(t) PROVE IInv'
<1>1. ClockOK'
  <2>1. /\ UNCHANGED <<wait, then>>
        /\ \/ timer' = [timer EXCEPT ![t] = Off] /\ ref' = NoTimer
           \/ timer' = [timer EXCEPT ![t] = Started] /\ ref' = t
    BY DEF TimesOut
  <2>2. CASE timer' = [timer EXCEPT ![t] = Off] /\ ref' = NoTimer
    BY <2>1, <2>2, TimerStates DEF IInv, ClockOK
  <2>3. CASE timer' = [timer EXCEPT ![t] = Started] /\ ref' = t
    BY <2>1, <2>3, TimerStates DEF IInv, ClockOK
  <2> QED BY <2>1, <2>2, <2>3
<1>2. FlagsOK'
  <2>1. CASE ended
    BY <2>1, Frame DEF TimesOut
  <2>2. CASE ~ended /\ prompts = MaxPrompts
    <3>1. prompts' = prompts + 1 /\ ended' = TRUE /\ ends' = ends + 1
      BY <2>2 DEF TimesOut
    <3>2. ends = 0
      BY <2>2 DEF IInv, FlagsOK
    <3> QED BY <2>2, <3>1, <3>2, Bounds DEF FlagsOK
  <2>3. CASE ~ended /\ prompts # MaxPrompts
    <3>1. prompts' = prompts + 1 /\ ended' = ended /\ ends' = ends
      BY <2>3 DEF TimesOut
    <3>2. prompts \in 0..MaxPrompts + 1 /\ prompts <= MaxPrompts /\ ends = 0
      BY <2>3 DEF IInv, FlagsOK
    <3>3. prompts' \in 0..MaxPrompts + 1 /\ prompts' <= MaxPrompts
      BY <2>3, <3>1, <3>2, Bounds
    <3>4. ends' \in 0..1 /\ ends' = 0
      BY <3>1, <3>2
    <3>5. ended' \in BOOLEAN
      BY <3>1 DEF IInv, FlagsOK
    <3> QED BY <3>3, <3>4, <3>5 DEF FlagsOK
  <2> QED BY <2>1, <2>2, <2>3
<1>3. SpeechOK'
  BY MoreLines DEF IInv, TimesOut, SpeechOK
<1>4. ClosingAgrees'
  <2>1. UNCHANGED <<armed, closing>> /\ (ended' = ended \/ ended' = TRUE)
    BY DEF TimesOut, request, flags
  <2> QED BY <2>1 DEF IInv, ClosingAgrees
<1> QED BY <1>1, <1>2, <1>3, <1>4, Frame DEF IInv, TimesOut

LEMMA TickStep == ASSUME IInv, Tick PROVE IInv'
<1>1. GhostsOK'
  <2>1. quiet + 1 \in Nat
    BY Bounds DEF IInv, GhostsOK
  <2>2. Capped(quiet + 1, QuietMax) \in 0..QuietMax
    BY <2>1, CapIn, Bounds
  <2> QED BY <2>2 DEF IInv, GhostsOK, Tick
<1>2. ClockOK'
  <2>1. ASSUME NEW t \in Timer
        PROVE [timer[t] EXCEPT !.age = Capped(timer[t].age + 1, Timeout)]
                 \in [at: {"off", "sleeping", "cancelled"}, age: 0..Timeout]
    <3>1. timer[t] \in [at: {"off", "sleeping", "cancelled"}, age: 0..Timeout]
      BY DEF IInv, ClockOK
    <3>2. timer[t].age + 1 \in Nat
      BY <3>1
    <3>3. Capped(timer[t].age + 1, Timeout) \in 0..Timeout
      BY <3>2, CapIn, Bounds
    <3> QED BY <3>1, <3>3
  <2>2. timer' = [t \in Timer |->
                     IF timer[t].at = "sleeping"
                     THEN [timer[t] EXCEPT !.age = Capped(timer[t].age + 1, Timeout)]
                     ELSE timer[t]]
    BY DEF Tick
  <2>3. UNCHANGED <<ref, wait, then>>
    BY DEF Tick
  <2> QED BY <2>1, <2>2, <2>3 DEF IInv, ClockOK
<1> QED BY <1>1, <1>2, Frame DEF IInv, Tick, flags, request

LEMMA BotStartsStep == ASSUME IInv, BotStarts PROVE IInv'
<1>1. ClockOK'
  <2>1. CASE ended
    BY <2>1, Frame DEF BotStarts
  <2>2. CASE ~ended
    BY <2>2, CancelsTyped DEF IInv, BotStarts
  <2> QED BY <2>1, <2>2
<1>2. SpeechOK'
  BY DEF IInv, BotStarts, SpeechOK, MaxLines
<1> QED BY <1>1, <1>2, Frame DEF IInv, BotStarts, flags, request

LEMMA BotStopsStep == ASSUME IInv, BotStops PROVE IInv'
<1>1. SpeechOK' /\ GhostsOK'
  BY Frame DEF IInv, BotStops, SpeechOK
<1>2. CASE ended
  <2>1. UNCHANGED <<clock, flags, closing, turn, armed>>
    BY <1>2 DEF BotStops
  <2> QED BY <1>1, <2>1, Frame DEF IInv, flags, request
<1>3. CASE ~ended /\ armed
  <2>1. /\ ended' = TRUE /\ ends' = ends + 1 /\ prompts' = prompts
        /\ closing' = "closed" /\ armed' = armed
        /\ repeated' = FALSE /\ history' = 0
        /\ UNCHANGED clock
    BY <1>3 DEF BotStops
  <2>2. ends = 0
    BY <1>3 DEF IInv, FlagsOK
  <2>3. FlagsOK'
    BY <2>1, <2>2 DEF IInv, FlagsOK
  <2>4. RequestOK' /\ ClosingAgrees'
    BY <2>1 DEF IInv, RequestOK, ClosingAgrees
  <2>5. TurnOK'
    <3>1. history' \in 0..2
      BY <2>1
    <3> QED BY <2>1, <3>1 DEF TurnOK
  <2> QED BY <1>1, <2>1, <2>3, <2>4, <2>5, Frame DEF IInv
<1>4. CASE ~ended /\ ~armed
  <2>1. /\ Restarts("restart and clear")
        /\ IF ref = NoTimer THEN repeated' = FALSE /\ history' = 0 ELSE UNCHANGED turn
        /\ UNCHANGED <<flags, closing, armed>>
    BY <1>4 DEF BotStops
  <2>2. ClockOK'
    BY <2>1, RestartsTyped DEF IInv
  <2>3. TurnOK'
    <3>1. repeated' \in {FALSE, repeated} /\ history' \in {0, history}
      BY <2>1 DEF turn
    <3> QED BY <3>1, TurnCleared DEF IInv
  <2> QED BY <1>1, <2>1, <2>2, <2>3, Frame DEF IInv, flags, request
<1> QED BY <1>2, <1>3, <1>4

LEMMA UserStartsStep == ASSUME IInv, UserStarts PROVE IInv'
<1>1. ClockOK'
  BY CancelsTyped DEF IInv, UserStarts
<1>2. SpeechOK'
  BY DEF IInv, UserStarts, SpeechOK
<1> QED BY <1>1, <1>2, Frame DEF IInv, UserStarts, flags, request

LEMMA UserHushesStep == ASSUME IInv, UserHushes PROVE IInv'
<1>1. SpeechOK'
  BY DEF IInv, UserHushes, SpeechOK
<1> QED BY <1>1, Frame DEF IInv, UserHushes, flags, request

\* A request that is called off leaves the closing state open.
LEMMA ReopensStep ==
    ASSUME IInv, Reopens, ended' = ended PROVE RequestOK' /\ ClosingAgrees'
<1>1. RequestOK'
  BY DEF IInv, RequestOK, Reopens
<1>2. ~armed'
  BY DEF Reopens
<1>3. ~ended => closing' # "farewell_pending"
  BY DEF IInv, Reopens, ClosingAgrees
<1> QED BY <1>1, <1>2, <1>3 DEF ClosingAgrees

LEMMA UserStopsStep == ASSUME IInv, UserStops PROVE IInv'
<1>1. ClockOK'
  BY RestartsTyped DEF IInv, UserStops
<1>2. SpeechOK'
  BY MoreLines DEF IInv, UserStops, SpeechOK
<1>3. FlagsOK'
  <2>1. UNCHANGED <<ended, ends>> /\ (prompts' = prompts \/ prompts' = 0)
    BY DEF UserStops
  <2> QED BY <2>1, Bounds DEF IInv, FlagsOK
<1>4. GhostsOK'
  <2>1. requests' = requests /\ (quiet' = quiet \/ quiet' = 0)
    BY DEF UserStops
  <2> QED BY <2>1, Bounds DEF IInv, GhostsOK
<1>5. TurnOK'
  BY DEF IInv, UserStops, TurnOK
<1>6. RequestOK' /\ ClosingAgrees'
  BY ReopensStep DEF UserStops
<1> QED BY <1>1, <1>2, <1>3, <1>4, <1>5, <1>6 DEF IInv

LEMMA TranscriptStep == ASSUME IInv, Transcript PROVE IInv'
<1>1. TurnOK'
  <2>1. history + 1 \in Nat /\ 2 \in Nat
    BY DEF IInv, TurnOK
  <2>2. Capped(history + 1, 2) \in 0..2
    BY <2>1, CapIn
  <2>3. repeated' \in BOOLEAN /\ history' = Capped(history + 1, 2)
    BY DEF Transcript
  <2> QED BY <2>2, <2>3 DEF TurnOK
<1>2. SpeechOK'
  BY DEF IInv, Transcript, SpeechOK
<1>3. RequestOK' /\ ClosingAgrees'
  BY ReopensStep DEF Transcript, flags
<1> QED BY <1>1, <1>2, <1>3, Frame DEF IInv, Transcript

LEMMA RequestsEndStep ==
    ASSUME IInv, NEW k \in Request, RequestsEnd(k) PROVE IInv'
<1>1. ClockOK'
  <2>1. k \in Task /\ Cancel(k) /\ then' = then
    BY DEF RequestsEnd, Task
  <2> QED BY <2>1, CancelTyped DEF IInv, ClockOK
<1>2. GhostsOK'
  BY Bounds DEF IInv, RequestsEnd, GhostsOK
<1>3. RequestOK' /\ ClosingAgrees'
  BY DEF RequestsEnd, RequestOK, ClosingAgrees
<1> QED BY <1>1, <1>2, <1>3, Frame DEF IInv, RequestsEnd

LEMMA RequestResumesStep ==
    ASSUME IInv, NEW k \in Request, RequestResumes(k) PROVE IInv'
<1>1. ClockOK'
  BY DEF IInv, RequestResumes, ClockOK
<1> QED BY <1>1, Frame DEF IInv, RequestResumes, flags, request

LEMMA CancelsRequestStep == ASSUME IInv, CancelsRequest PROVE IInv'
<1>1. RequestOK' /\ ClosingAgrees'
  BY DEF CancelsRequest, RequestOK, ClosingAgrees
<1> QED BY <1>1, Frame DEF IInv, CancelsRequest

LEMMA FramesResumeStep == ASSUME IInv, FramesResume PROVE IInv'
<1>1. ClockOK'
  <2>1. wait' \in [Task -> Timer \cup {NoTimer}] /\ then' = "nothing"
    BY DEF IInv, FramesResume, ClockOK
  <2>2. CASE then = "nothing"
    BY <2>1, <2>2 DEF IInv, FramesResume, ClockOK
  <2>3. CASE then # "nothing"
    <3>1. Create
      BY <2>3 DEF FramesResume
    <3> QED BY <2>1, <3>1, CreateTyped DEF IInv, ClockOK
  <2> QED BY <2>2, <2>3
<1>2. TurnOK'
  <2>1. repeated' \in {FALSE, repeated} /\ history' \in {0, history}
    BY DEF FramesResume, turn
  <2> QED BY <2>1, TurnCleared DEF IInv
<1> QED BY <1>1, <1>2, Frame DEF IInv, FramesResume, flags, request

LEMMA NextIInv == ASSUME IInv, [Next]_vars PROVE IInv'
<1>1. CASE TimerStep
  BY <1>1, TimerStopsStep, TimesOutStep DEF TimerStep
<1>2. CASE FramesResume
  BY <1>2, FramesResumeStep
<1>3. CASE Tick
  BY <1>3, TickStep
<1>4. CASE BotStarts
  BY <1>4, BotStartsStep
<1>5. CASE BotStops
  BY <1>5, BotStopsStep
<1>6. CASE UserStarts
  BY <1>6, UserStartsStep
<1>7. CASE UserStops
  BY <1>7, UserStopsStep
<1>8. CASE UserHushes
  BY <1>8, UserHushesStep
<1>9. CASE Transcript
  BY <1>9, TranscriptStep
<1>10. CASE \E k \in Request : RequestsEnd(k) \/ RequestResumes(k)
  BY <1>10, RequestsEndStep, RequestResumesStep
<1>11. CASE CancelsRequest
  BY <1>11, CancelsRequestStep
<1>12. CASE UNCHANGED vars
  <2>1. UNCHANGED clock /\ UNCHANGED flags /\ UNCHANGED request /\ UNCHANGED turn
        /\ UNCHANGED speech /\ UNCHANGED ghosts /\ UNCHANGED <<ended, armed, closing>>
    BY <1>12 DEF vars, clock, flags, request, turn, speech, ghosts
  <2> QED BY <2>1, Frame DEF IInv
<1> QED BY <1>1, <1>2, <1>3, <1>4, <1>5, <1>6, <1>7, <1>8, <1>9, <1>10, <1>11, <1>12
        DEF Next

\* The invariant holds in every reachable state.
LEMMA Invariance == Spec => []IInv
<1>1. Init => IInv
  BY InitIInv
<1>2. IInv /\ [Next]_vars => IInv'
  BY NextIInv
<1> QED BY <1>1, <1>2, PTL DEF Spec
----------------------------------------------------------------------------
\* The watchdog's state is well typed: strikes stop at one past the last prompt.
THEOREM TypeCorrect == Spec => []TypeOK
<1>1. ASSUME IInv PROVE TypeOK
  <2>1. ends \in Nat
    <3>1. ends \in 0..1
      BY <1>1 DEF IInv, FlagsOK
    <3> QED BY <3>1
  <2> QED BY <1>1, <2>1, Zenon
          DEF IInv, TypeOK, ClockOK, FlagsOK, RequestOK, TurnOK, SpeechOK, GhostsOK
<1> QED BY <1>1, Invariance, PTL

\* The call is ended at most once, whatever timers, frames and requests do
\* (_ended in process_frame and in _on_timeout).
THEOREM SingleEnd == Spec => []EndsOnce
<1>1. IInv => EndsOnce
  BY DEF IInv, FlagsOK, EndsOnce
<1> QED BY <1>1, Invariance, PTL

\* The prompt layer believes in a pending farewell exactly as long as the end
\* of Mira's audio would end the call (silence_watchdog, conversation_state).
THEOREM ClosingStateAgrees == Spec => []ClosingAgrees
<1>1. IInv => ClosingAgrees
  BY DEF IInv
<1> QED BY <1>1, Invariance, PTL
----------------------------------------------------------------------------
(* Strikes.  A timer that has slept longer than the current window of quiet *)
(* owes nothing to it: it is due, and its strike is paid for by the windows *)
(* already counted or by a request that let it live on.                     *)

Live == {t \in Timer : timer[t].at # "off"}
Waiters == {k \in Request : wait[k] # NoTimer}
Due == {t \in Timer : timer[t].at = "sleeping" /\ timer[t].age > (quiet % Timeout)}
Allowed == (requests + 1) * (quiet \div Timeout) + requests

\* One timer task, and one more for every request that is no longer waiting.
SlotsOK ==
    /\ ref # NoTimer => ref \in Live
    /\ Cardinality(Live) + Cardinality(Waiters) <= requests + 1
    /\ ref = NoTimer /\ wait[Frames] = NoTimer
          => Cardinality(Live) + Cardinality(Waiters) <= requests
    /\ wait[Frames] # NoTimer
          => Cardinality(Live \ {wait[Frames]}) + Cardinality(Waiters) <= requests
DueOK == IF ended THEN prompts <= Allowed ELSE prompts + Cardinality(Due) <= Allowed

LEMMA Timers ==
    ASSUME NEW S \in SUBSET Timer, NEW R \in SUBSET S
    PROVE /\ IsFiniteSet(S) /\ Cardinality(S) \in Nat
          /\ IsFiniteSet(R) /\ Cardinality(R) \in Nat /\ Cardinality(R) <= Cardinality(S)
<1>1. IsFiniteSet(S)
  BY WatchdogAssumption, FS_Subset
<1>2. IsFiniteSet(R) /\ Cardinality(R) <= Cardinality(S)
  BY <1>1, FS_Subset
<1> QED BY <1>1, <1>2, FS_CardinalityType

LEMMA Without ==
    ASSUME NEW S \in SUBSET Timer, NEW t \in S
    PROVE Cardinality(S \ {t}) = Cardinality(S) - 1
BY Timers, FS_RemoveElement

LEMMA Waiting ==
    ASSUME NEW S \in SUBSET Request
    PROVE IsFiniteSet(S) /\ Cardinality(S) \in Nat
<1>1. IsFiniteSet(S)
  BY WatchdogAssumption, FS_Subset
<1> QED BY <1>1, FS_CardinalityType

LEMMA Numbers ==
    ASSUME IInv
    PROVE requests \in Nat /\ quiet \in Nat /\ quiet <= QuietMax /\ prompts \in Nat
          /\ ended \in BOOLEAN /\ (~ended => prompts <= MaxPrompts)
          /\ Live \in SUBSET Timer /\ Due \in SUBSET Live /\ Waiters \in SUBSET Request
<1>1. requests \in Nat /\ quiet \in Nat /\ quiet <= QuietMax
  BY Bounds DEF IInv, GhostsOK
<1>2. prompts \in Nat /\ ended \in BOOLEAN /\ (~ended => prompts <= MaxPrompts)
  BY Bounds DEF IInv, FlagsOK
<1> QED BY <1>1, <1>2 DEF Live, Due, Waiters

----------------------------------------------------------------------------
(* The timers that are left *)

LEMMA Awaits ==
    ASSUME IInv, NEW k \in Request, NEW u, wait' = [wait EXCEPT ![k] = u]
    PROVE /\ wait'[Frames] = wait[Frames] /\ wait'[k] = u
          /\ \A j \in Request : j # k => wait'[j] = wait[j]
<1>1. k \in Task /\ k # Frames /\ Frames \in Task /\ Request \subseteq Task
  BY WatchdogAssumption DEF Task
<1>2. wait \in [Task -> Timer \cup {NoTimer}]
  BY DEF IInv, ClockOK
<1> QED BY <1>1, <1>2

LEMMA SlotsKept ==
    ASSUME SlotsOK, Live' = Live, UNCHANGED <<wait, requests>>, ref' = ref \/ ref' \in Live
    PROVE SlotsOK'
<1>1. Waiters' = Waiters
  BY DEF Waiters
<1>2. CASE ref' = ref
  BY <1>1, <1>2 DEF SlotsOK
<1>3. CASE ref' \in Live
  <2>1. ref' # NoTimer
    BY <1>3, WatchdogAssumption DEF Live
  <2> QED BY <1>1, <1>3, <2>1 DEF SlotsOK
<1> QED BY <1>2, <1>3

LEMMA SlotsStopped ==
    ASSUME IInv, SlotsOK, NEW t \in Live, timer' = [timer EXCEPT ![t] = Off],
           ref' = NoTimer, UNCHANGED <<wait, requests>>
    PROVE SlotsOK'
<1>1. Waiters' = Waiters /\ Live' = Live \ {t}
  BY DEF Waiters, Live, Off, IInv, ClockOK
<1>2. Cardinality(Live') = Cardinality(Live) - 1
  BY <1>1, Without, Numbers
<1>3. wait[Frames] # NoTimer
        => Cardinality(Live' \ {wait[Frames]}) <= Cardinality(Live \ {wait[Frames]})
  BY <1>1, Timers, Numbers
<1>4. /\ Cardinality(Live) \in Nat /\ Cardinality(Waiters) \in Nat /\ requests \in Nat
      /\ Cardinality(Live \ {wait[Frames]}) \in Nat /\ Cardinality(Live' \ {wait[Frames]}) \in Nat
  BY <1>1, Timers, Waiting, Numbers
<1> QED BY <1>1, <1>2, <1>3, <1>4 DEF SlotsOK

LEMMA LiveCreated ==
    ASSUME IInv, Create
    PROVE /\ ref' \in Live' /\ ref' # NoTimer
          /\ \A t \in Timer : timer'[t] = timer[t] \/ (t = ref' /\ timer'[t] = Started)
          /\ Cardinality(Live') <= Cardinality(Live) + 1 /\ Cardinality(Live') \in Nat
<1>1. PICK n \in Fresh : timer' = [timer EXCEPT ![n] = Started] /\ ref' = n
  BY DEF Create
<1>2. n \in Timer
  BY DEF Fresh
<1>3. Live' = Live \cup {n} /\ n \in Live'
  BY <1>1, <1>2 DEF Live, Started, IInv, ClockOK
<1>4. IsFiniteSet(Live) /\ Cardinality(Live) \in Nat
  BY Timers, Numbers
<1>5. Cardinality(Live') <= Cardinality(Live) + 1 /\ Cardinality(Live') \in Nat
  BY <1>3, <1>4, FS_AddElement
<1>6. n # NoTimer
  BY <1>2, WatchdogAssumption
<1> QED BY <1>1, <1>2, <1>3, <1>5, <1>6 DEF IInv, ClockOK

LEMMA LiveCancelled ==
    ASSUME IInv, NEW k \in Task, Cancel(k)
    PROVE /\ Live' = Live
          /\ \A t \in Timer : timer'[t] = timer[t] \/ timer'[t].at = "cancelled"
          /\ ref # NoTimer => timer'[ref].at # "sleeping"
          /\ wait' = [wait EXCEPT ![k] = ref] /\ ref' = ref
<1>1. ref \in Timer \cup {NoTimer}
  BY DEF IInv, ClockOK
<1>2. CASE ref # NoTimer /\ timer[ref].at = "sleeping"
  BY <1>1, <1>2 DEF Cancel, Live, IInv, ClockOK
<1>3. CASE ~(ref # NoTimer /\ timer[ref].at = "sleeping")
  BY <1>1, <1>3 DEF Cancel, Live, IInv, ClockOK
<1> QED BY <1>2, <1>3

LEMMA SlotsCancelled ==
    ASSUME IInv, SlotsOK, HandlerFree, Cancel(Frames), requests' = requests
    PROVE SlotsOK'
<1>1. Frames \in Task /\ Frames \notin Request
  BY WatchdogAssumption DEF Task
<1>2. Live' = Live /\ wait' = [wait EXCEPT ![Frames] = ref] /\ ref' = ref
  BY <1>1, LiveCancelled
<1>3. wait \in [Task -> Timer \cup {NoTimer}]
  BY DEF IInv, ClockOK
<1>4. Waiters' = Waiters /\ wait'[Frames] = ref
  BY <1>1, <1>2, <1>3 DEF Waiters, Task
<1>5. CASE ref = NoTimer
  BY <1>2, <1>4, <1>5 DEF SlotsOK, HandlerFree
<1>6. CASE ref # NoTimer
  <2>1. Cardinality(Live \ {ref}) = Cardinality(Live) - 1
    BY <1>6, Without, Numbers DEF SlotsOK
  <2>2. Cardinality(Live) \in Nat /\ Cardinality(Waiters) \in Nat /\ requests \in Nat
    BY Timers, Waiting, Numbers
  <2>3. Cardinality(Live' \ {wait'[Frames]}) = Cardinality(Live) - 1
    BY <1>2, <1>4, <2>1
  <2>4. /\ ref' \in Live' /\ ref' # NoTimer
        /\ Cardinality(Live') = Cardinality(Live)
        /\ Cardinality(Waiters') = Cardinality(Waiters)
        /\ Cardinality(Live) + Cardinality(Waiters) <= requests + 1
    BY <1>2, <1>4, <1>6 DEF SlotsOK
  <2> QED BY <2>2, <2>3, <2>4 DEF SlotsOK
<1> QED BY <1>5, <1>6

LEMMA SlotsCreated ==
    ASSUME IInv, SlotsOK, ref = NoTimer, HandlerFree, Create, UNCHANGED <<wait, requests>>
    PROVE SlotsOK'
<1>1. Waiters' = Waiters
  BY DEF Waiters
<1>2. Cardinality(Live) \in Nat /\ Cardinality(Waiters) \in Nat /\ requests \in Nat
  BY Timers, Waiting, Numbers
<1> QED BY <1>1, <1>2, LiveCreated DEF SlotsOK, HandlerFree

LEMMA SlotsRestarted ==
    ASSUME IInv, SlotsOK, HandlerFree, NEW next, Restarts(next), requests' = requests
    PROVE SlotsOK'
BY SlotsCancelled, SlotsCreated DEF Restarts

LEMMA SlotsRequested ==
    ASSUME IInv, SlotsOK, NEW k \in Request, Cancel(k), requests' = requests + 1
    PROVE SlotsOK'
<1>1. k \in Task /\ k # Frames /\ Frames \in Task
  BY WatchdogAssumption DEF Task
<1>2. Live' = Live /\ wait' = [wait EXCEPT ![k] = ref] /\ ref' = ref
  BY <1>1, LiveCancelled
<1>3. wait'[Frames] = wait[Frames] /\ Waiters' \in SUBSET (Waiters \cup {k})
  <2>1. /\ wait'[Frames] = wait[Frames]
        /\ \A j \in Request : j # k => wait'[j] = wait[j]
    BY <1>2, Awaits
  <2>2. \A j \in Waiters' : j \in Request /\ wait'[j] # NoTimer
    BY DEF Waiters
  <2>3. \A j \in Waiters' : j \in Waiters \cup {k}
    BY <2>1, <2>2 DEF Waiters
  <2> QED BY <2>1, <2>3
<1>4. IsFiniteSet(Waiters) /\ Cardinality(Waiters) \in Nat
  BY Waiting, Numbers
<1>5. IsFiniteSet(Waiters \cup {k}) /\ Cardinality(Waiters \cup {k}) <= Cardinality(Waiters) + 1
      /\ Cardinality(Waiters \cup {k}) \in Nat
  <2>1. /\ IsFiniteSet(Waiters \cup {k})
        /\ \/ Cardinality(Waiters \cup {k}) = Cardinality(Waiters)
           \/ Cardinality(Waiters \cup {k}) = Cardinality(Waiters) + 1
    BY <1>4, FS_AddElement
  <2> QED BY <1>4, <2>1
<1>6. Cardinality(Waiters') <= Cardinality(Waiters) + 1 /\ Cardinality(Waiters') \in Nat
  <2>1. IsFiniteSet(Waiters') /\ Cardinality(Waiters') <= Cardinality(Waiters \cup {k})
    BY <1>3, <1>5, FS_Subset
  <2> QED BY <1>4, <1>5, <2>1, FS_CardinalityType
<1>7. Cardinality(Live) \in Nat /\ Cardinality(Live \ {wait[Frames]}) \in Nat /\ requests \in Nat
  BY Timers, Numbers
<1> QED BY <1>2, <1>3, <1>4, <1>6, <1>7 DEF SlotsOK

LEMMA SlotsReturned ==
    ASSUME IInv, SlotsOK, NEW k \in Request, RequestResumes(k)
    PROVE SlotsOK'
<1>1. k \in Task /\ k # Frames /\ Frames \in Task
  BY WatchdogAssumption DEF Task
<1>2. Live' = Live /\ wait' = [wait EXCEPT ![k] = NoTimer] /\ ref' = NoTimer
      /\ requests' = requests
  BY DEF RequestResumes, Live, ghosts
<1>3. wait'[Frames] = wait[Frames] /\ Waiters' = Waiters \ {k} /\ k \in Waiters
  <2>1. /\ wait'[Frames] = wait[Frames] /\ wait'[k] = NoTimer
        /\ \A j \in Request : j # k => wait'[j] = wait[j]
    BY <1>2, Awaits
  <2>2. wait[k] # NoTimer
    BY DEF RequestResumes
  <2> QED BY <2>1, <2>2, Zenon DEF Waiters
<1>4. IsFiniteSet(Waiters) /\ Cardinality(Waiters) \in Nat
  BY Waiting, Numbers
<1>5. Cardinality(Waiters') = Cardinality(Waiters) - 1
  BY <1>3, <1>4, FS_RemoveElement
<1>6. Cardinality(Live) \in Nat /\ Cardinality(Live \ {wait[Frames]}) \in Nat /\ requests \in Nat
  BY Timers, Numbers
<1> QED BY <1>2, <1>3, <1>4, <1>5, <1>6 DEF SlotsOK

LEMMA SlotsResumed == ASSUME IInv, SlotsOK, FramesResume PROVE SlotsOK'
<1>1. Frames \in Task /\ Frames \notin Request
  BY WatchdogAssumption DEF Task
<1>2. wait' = [wait EXCEPT ![Frames] = NoTimer] /\ requests' = requests
  BY DEF FramesResume, ghosts
<1>3. wait'[Frames] = NoTimer /\ Waiters' = Waiters
  BY <1>1, <1>2 DEF Waiters, IInv, ClockOK, Task
<1>4. Live \ {wait[Frames]} = Live
  <2>0. timer[wait[Frames]] = Off
    BY Zenon DEF FramesResume
  <2>1. timer[wait[Frames]].at = "off"
    BY <2>0 DEF Off
  <2>2. wait[Frames] \notin Live
    BY <2>1 DEF Live
  <2> QED BY <2>2
<1>5. Cardinality(Live) + Cardinality(Waiters) <= requests
  BY <1>4 DEF SlotsOK, FramesResume
<1>6. Cardinality(Live) \in Nat /\ Cardinality(Waiters) \in Nat /\ requests \in Nat
  BY Timers, Waiting, Numbers
<1>7. CASE then = "nothing"
  <2>1. ref' = NoTimer /\ Live' = Live
    BY <1>7 DEF FramesResume, Live
  <2> QED BY <1>2, <1>3, <1>5, <1>6, <2>1 DEF SlotsOK
<1>8. CASE then # "nothing"
  <2>1. Create
    BY <1>8 DEF FramesResume
  <2> QED BY <1>2, <1>3, <1>5, <1>6, <2>1, LiveCreated DEF SlotsOK
<1> QED BY <1>7, <1>8
----------------------------------------------------------------------------
(* Windows of quiet *)

LEMMA DivMod ==
    ASSUME NEW q \in Nat
    PROVE /\ q \div Timeout \in Nat /\ (q % Timeout) \in 0..Timeout - 1
          /\ q = Timeout * (q \div Timeout) + (q % Timeout)
BY WatchdogAssumption, SMTT(30)

LEMMA NoLonger ==
    ASSUME NEW a \in Nat, NEW b \in Nat, NEW c \in 0..Timeout - 1, NEW d \in 0..Timeout - 1,
           Timeout * a + c = Timeout * b + d
    PROVE a <= b
<1>1. Timeout \in Nat \ {0}
  BY WatchdogAssumption
<1> SUFFICES ASSUME a >= b + 1 PROVE FALSE
  OBVIOUS
<1>2. Timeout * a >= Timeout * (b + 1)
  BY <1>1, SMTT(30)
<1>3. Timeout * (b + 1) = Timeout * b + Timeout
  BY <1>1, SMTT(30)
<1>4. Timeout * a \in Nat /\ Timeout * b \in Nat
  BY <1>1
<1> QED BY <1>1, <1>2, <1>3, <1>4

LEMMA Windows ==
    ASSUME NEW q \in Nat, NEW a \in Nat, NEW c \in 0..Timeout - 1, q = Timeout * a + c
    PROVE q \div Timeout = a /\ (q % Timeout) = c
<1>1. /\ q \div Timeout \in Nat /\ (q % Timeout) \in 0..Timeout - 1
      /\ q = Timeout * (q \div Timeout) + (q % Timeout)
  BY DivMod
<1>2. q \div Timeout <= a /\ a <= q \div Timeout
  BY <1>1, NoLonger
<1> QED BY <1>1, <1>2, WatchdogAssumption

\* One more tick of quiet: the same window, or the first tick of the next.
LEMMA NextTick ==
    ASSUME NEW q \in Nat
    PROVE \/ /\ (q + 1) \div Timeout = q \div Timeout
             /\ ((q + 1) % Timeout) = (q % Timeout) + 1 /\ (q % Timeout) + 1 < Timeout
          \/ (q + 1) \div Timeout = (q \div Timeout) + 1 /\ ((q + 1) % Timeout) = 0
<1> DEFINE a == q \div Timeout
           c == q % Timeout
<1>1. a \in Nat /\ c \in 0..Timeout - 1 /\ q = Timeout * a + c
  BY DivMod
<1> HIDE DEF a, c
<1>2. Timeout \in Nat \ {0}
  BY WatchdogAssumption
<1>3. CASE c + 1 < Timeout
  <2>1. q + 1 = Timeout * a + (c + 1) /\ c + 1 \in 0..Timeout - 1
    BY <1>1, <1>2, <1>3
  <2>2. (q + 1) \div Timeout = a /\ ((q + 1) % Timeout) = c + 1
    BY <1>1, <2>1, Windows
  <2> QED BY <1>3, <2>2 DEF a, c
<1>4. CASE c = Timeout - 1
  <2>1. q + 1 = Timeout * (a + 1) + 0 /\ 0 \in 0..Timeout - 1
    BY <1>1, <1>2, <1>4
  <2>2. (q + 1) \div Timeout = a + 1 /\ ((q + 1) % Timeout) = 0
    BY <1>1, <2>1, Windows
  <2> QED BY <1>4, <2>2 DEF a, c
<1> QED BY <1>1, <1>2, <1>3, <1>4

\* Strikes allowed: they grow with requests and with windows.
LEMMA AllowedGrows ==
    ASSUME NEW r \in Nat, NEW s \in Nat, NEW d \in Nat, NEW e \in Nat, r <= s, d <= e
    PROVE /\ (r + 1) * d + r <= (s + 1) * e + s
          /\ (r + 1) * d + r \in Nat /\ (s + 1) * e + s \in Nat
          /\ (r + 1) * (d + 1) + r = (r + 1) * d + r + (r + 1)
<1>1. /\ (r + 1) * d \in Nat /\ (s + 1) * e \in Nat /\ (s + 1) * d \in Nat
  OBVIOUS
<1>2. (r + 1) * d <= (s + 1) * d
  BY SMTT(30)
<1>3. (s + 1) * d <= (s + 1) * e
  BY SMTT(30)
<1>4. (r + 1) * (d + 1) = (r + 1) * d + (r + 1)
  BY SMTT(30)
<1> QED BY <1>1, <1>2, <1>3, <1>4

----------------------------------------------------------------------------
(* The strikes that are due *)

\* A timer that is new, cancelled or stopped is not due.
LEMMA DueShrinks ==
    ASSUME IInv, quiet' = quiet,
           \A t \in Timer : \/ timer'[t] = timer[t] \/ timer'[t].at # "sleeping"
                            \/ timer'[t].age = 0
    PROVE Due' \in SUBSET Due
<1>1. quiet \in Nat
  BY Numbers
<1>2. (quiet % Timeout) \in 0..Timeout - 1
  BY <1>1, DivMod
<1>3. (quiet % Timeout) \in Nat
  BY <1>2, WatchdogAssumption
<1>4. ASSUME NEW t \in Due' PROVE t \in Due
  <2>1. t \in Timer /\ timer'[t].at = "sleeping" /\ timer'[t].age > (quiet % Timeout)
    BY <1>4 DEF Due
  <2>2. timer'[t] = timer[t]
    BY <1>3, <2>1
  <2> QED BY <2>1, <2>2 DEF Due
<1> QED BY <1>4

LEMMA DueKept ==
    ASSUME IInv, IInv', DueOK, Due' \in SUBSET Due, UNCHANGED <<prompts, quiet>>,
           requests' = requests \/ requests' = requests + 1, ended' = ended \/ ended' = TRUE
    PROVE DueOK'
<1>1. /\ requests \in Nat /\ quiet \in Nat /\ prompts \in Nat
      /\ ended \in BOOLEAN /\ Due \in SUBSET Timer
  BY Numbers
<1>2. requests' \in Nat /\ requests <= requests'
  BY <1>1
<1>3. quiet \div Timeout \in Nat
  BY <1>1, DivMod
<1>4. Allowed <= Allowed' /\ Allowed \in Nat /\ Allowed' \in Nat
  BY <1>1, <1>2, <1>3, AllowedGrows DEF Allowed
<1>5. Cardinality(Due) \in Nat /\ Cardinality(Due') \in Nat /\ Cardinality(Due') <= Cardinality(Due)
  BY <1>1, Timers
<1>6. prompts <= Allowed /\ (~ended => prompts + Cardinality(Due) <= Allowed)
  BY <1>1, <1>4, <1>5 DEF DueOK
<1>7. prompts' <= Allowed'
  BY <1>1, <1>4, <1>6
<1>8. ~ended' => prompts' + Cardinality(Due') <= Allowed'
  BY <1>1, <1>4, <1>5, <1>6
<1> QED BY <1>7, <1>8 DEF DueOK

\* A strike is paid for by the timer that was due.
LEMMA DueStruck ==
    ASSUME IInv, DueOK, ~ended, NEW t \in Due, Due' \in SUBSET (Due \ {t}),
           prompts' = prompts + 1, UNCHANGED <<quiet, requests>>
    PROVE DueOK'
<1>1. prompts \in Nat /\ Due \in SUBSET Timer
  BY Numbers
<1>2. Allowed' = Allowed
  BY DEF Allowed
<1>3. Cardinality(Due \ {t}) = Cardinality(Due) - 1
  BY <1>1, Without
<1>4. Cardinality(Due) \in Nat /\ Cardinality(Due') \in Nat
      /\ Cardinality(Due') <= Cardinality(Due \ {t})
  BY <1>1, Timers
<1>5. prompts + Cardinality(Due) <= Allowed
  BY DEF DueOK
<1>6. Allowed \in Int
  <2>1. requests \in Nat /\ quiet \div Timeout \in Nat
    BY Numbers, DivMod
  <2> QED BY <2>1, AllowedGrows DEF Allowed
<1>7. prompts' + Cardinality(Due') <= Allowed' /\ prompts' <= Allowed'
  BY <1>1, <1>2, <1>3, <1>4, <1>5, <1>6
<1> QED BY <1>7 DEF DueOK

LEMMA ReturnsDue ==
    ASSUME IInv, IInv', SlotsOK, HandlerFree, quiet' = 0, prompts' = 0,
           UNCHANGED <<requests, ended>>, Restarts("restart")
    PROVE DueOK'
<1>1. Due' \in SUBSET Timer /\ requests \in Nat /\ ended \in BOOLEAN /\ Live \in SUBSET Timer
  BY Numbers DEF Due
<1>2. (0 \div Timeout) = 0 /\ (0 % Timeout) = 0
  <2>1. 0 \in 0..Timeout - 1 /\ 0 = Timeout * 0 + 0
    BY WatchdogAssumption
  <2> QED BY <2>1, Windows
<1>3. Allowed' = requests
  BY <1>1, <1>2 DEF Allowed
<1>4. Cardinality(Due') <= requests
  <2>1. CASE ref = NoTimer
    <3>1. Create
      BY <2>1 DEF Restarts
    <3>2. \A t \in Due' : timer'[t].age > 0 /\ timer'[t].at = "sleeping" /\ t \in Timer
      BY <1>2 DEF Due
    <3>3. \A t \in Due' : timer'[t] = timer[t]
      BY <3>1, <3>2, LiveCreated DEF Started
    <3>4. Due' \in SUBSET Live
      BY <3>2, <3>3 DEF Live
    <3>5. Cardinality(Live) + Cardinality(Waiters) <= requests
      BY <2>1 DEF SlotsOK, HandlerFree
    <3> QED BY <1>1, <3>4, <3>5, Timers, Waiting, Numbers
  <2>2. CASE ref # NoTimer
    <3>1. Cancel(Frames) /\ Frames \in Task
      BY <2>2 DEF Restarts, Task
    <3>2. \A t \in Due' : timer'[t].at = "sleeping" /\ t \in Timer
      BY DEF Due
    <3>3. \A t \in Due' : timer'[t] = timer[t] /\ t # ref
      BY <2>2, <3>1, <3>2, LiveCancelled
    <3>4. Due' \in SUBSET (Live \ {ref}) /\ ref \in Live
      BY <2>2, <3>2, <3>3 DEF Live, SlotsOK
    <3>5. Cardinality(Live \ {ref}) = Cardinality(Live) - 1
      BY <1>1, <3>4, Without
    <3>6. Cardinality(Live) + Cardinality(Waiters) <= requests + 1
      BY DEF SlotsOK
    <3> QED BY <1>1, <3>4, <3>5, <3>6, Timers, Waiting, Numbers
  <2> QED BY <2>1, <2>2
<1>5. Cardinality(Due') \in Nat
  BY <1>1, Timers
<1>6. prompts' <= Allowed' /\ prompts' + Cardinality(Due') <= Allowed'
  BY <1>1, <1>3, <1>4, <1>5
<1> QED BY <1>6 DEF DueOK

\* The timers sleep on; at the end of a window every live one may be due, and
\* the window pays for one strike more than there are requests.
LEMMA TickDue == ASSUME IInv, IInv', SlotsOK, DueOK, Tick PROVE DueOK'
<1>1. /\ requests \in Nat /\ quiet \in Nat /\ prompts \in Nat /\ ended \in BOOLEAN
      /\ quiet <= QuietMax /\ Live \in SUBSET Timer /\ Due \in SUBSET Timer
      /\ Due' \in SUBSET Timer
  BY Numbers DEF Due
<1>2. UNCHANGED <<prompts, ended, requests>> /\ quiet' = Capped(quiet + 1, QuietMax)
  BY DEF Tick, flags
<1>3. Timeout \in Nat \ {0} /\ QuietMax \in Nat /\ MaxPrompts \in Nat
  BY Bounds, WatchdogAssumption
<1>4. quiet \div Timeout \in Nat /\ (quiet % Timeout) \in 0..Timeout - 1
  BY <1>1, DivMod
<1>5. timer \in [Timer -> [at: {"off", "sleeping", "cancelled"}, age: 0..Timeout]]
  BY DEF IInv, ClockOK
<1>6. ASSUME NEW t \in Due'
      PROVE /\ t \in Timer /\ timer[t].at = "sleeping" /\ timer[t].age \in Nat
            /\ Capped(timer[t].age + 1, Timeout) > (quiet' % Timeout)
  <2>1. t \in Timer /\ timer'[t].at = "sleeping" /\ timer'[t].age > (quiet' % Timeout)
    BY <1>6 DEF Due
  <2>2. timer'[t] = IF timer[t].at = "sleeping"
                    THEN [timer[t] EXCEPT !.age = Capped(timer[t].age + 1, Timeout)]
                    ELSE timer[t]
    BY <2>1 DEF Tick
  <2>3. timer[t] \in [at: {"off", "sleeping", "cancelled"}, age: 0..Timeout]
    BY <1>5, <2>1
  <2>4. timer[t].at = "sleeping" /\ timer'[t].age = Capped(timer[t].age + 1, Timeout)
    BY <2>1, <2>2, <2>3
  <2> QED BY <2>1, <2>3, <2>4
<1>7. Due' \in SUBSET Live
  BY <1>6 DEF Live
<1>8. Cardinality(Due') <= requests + 1 /\ Cardinality(Due') \in Nat
  <2>1. Cardinality(Live) + Cardinality(Waiters) <= requests + 1
    BY DEF SlotsOK
  <2> QED BY <1>1, <1>7, <2>1, Timers, Waiting, Numbers
<1>9. Cardinality(Due) \in Nat
  BY <1>1, Timers
<1>10. Allowed \in Nat
  BY <1>1, <1>4, AllowedGrows DEF Allowed
<1>11. prompts <= Allowed /\ (~ended => prompts + Cardinality(Due) <= Allowed)
  BY <1>1, <1>9, <1>10 DEF DueOK
<1>12. CASE quiet + 1 > QuietMax
  <2>1. quiet' = quiet /\ quiet = QuietMax
    BY <1>1, <1>2, <1>3, <1>12 DEF Capped
  <2>2. Allowed' = Allowed
    BY <1>2, <2>1 DEF Allowed
  <2>3. quiet = Timeout * (MaxPrompts + 1) + 0 /\ 0 \in 0..Timeout - 1 /\ MaxPrompts + 1 \in Nat
    BY <1>3, <2>1 DEF QuietMax
  <2>4. quiet \div Timeout = MaxPrompts + 1
    BY <1>1, <2>3, Windows
  <2>5. Allowed = (requests + 1) * MaxPrompts + requests + (requests + 1)
    BY <1>1, <1>3, <2>4, AllowedGrows DEF Allowed
  <2>6. (requests + 1) * MaxPrompts >= MaxPrompts /\ (requests + 1) * MaxPrompts \in Nat
    BY <1>1, <1>3, SMTT(30)
  <2>7. ~ended => prompts <= MaxPrompts
    BY Numbers
  <2>8. prompts' <= Allowed'
    BY <1>2, <1>11, <2>2
  <2>9. ~ended' => prompts' + Cardinality(Due') <= Allowed'
    BY <1>1, <1>2, <1>3, <1>8, <2>2, <2>5, <2>6, <2>7
  <2> QED BY <2>8, <2>9 DEF DueOK
<1>13. CASE quiet + 1 <= QuietMax
  <2>1. quiet' = quiet + 1
    BY <1>1, <1>2, <1>3, <1>13 DEF Capped
  <2>2. CASE /\ (quiet + 1) \div Timeout = quiet \div Timeout
             /\ ((quiet + 1) % Timeout) = (quiet % Timeout) + 1
             /\ (quiet % Timeout) + 1 < Timeout
    <3>1. Allowed' = Allowed
      BY <1>2, <2>1, <2>2 DEF Allowed
    <3>2. ASSUME NEW t \in Due' PROVE t \in Due
      <4>1. Capped(timer[t].age + 1, Timeout) > (quiet % Timeout) + 1
        BY <1>6, <2>1, <2>2
      <4>2. timer[t].age > (quiet % Timeout)
        BY <1>3, <1>4, <1>6, <4>1 DEF Capped
      <4> QED BY <1>6, <4>2 DEF Due
    <3>3. Cardinality(Due') <= Cardinality(Due)
      BY <1>1, <3>2, Timers
    <3>4. prompts' <= Allowed' /\ (~ended' => prompts' + Cardinality(Due') <= Allowed')
      BY <1>1, <1>2, <1>8, <1>9, <1>10, <1>11, <3>1, <3>3
    <3> QED BY <3>4 DEF DueOK
  <2>3. CASE (quiet + 1) \div Timeout = (quiet \div Timeout) + 1
    <3>1. Allowed' = Allowed + (requests + 1)
      BY <1>1, <1>2, <1>4, <2>1, <2>3, AllowedGrows DEF Allowed
    <3>2. prompts' <= Allowed' /\ (~ended' => prompts' + Cardinality(Due') <= Allowed')
      BY <1>1, <1>2, <1>8, <1>9, <1>10, <1>11, <3>1
    <3> QED BY <3>2 DEF DueOK
  <2> QED BY <1>1, <2>2, <2>3, NextTick
<1> QED BY <1>1, <1>3, <1>12, <1>13
----------------------------------------------------------------------------
(* The steps keep both *)

StrikeInv == IInv /\ SlotsOK /\ DueOK

\* What a restart or a cancellation leaves is not due.
LEMMA RestartsQuietly ==
    ASSUME IInv, NEW next, Restarts(next), quiet' = quiet PROVE Due' \in SUBSET Due
<1>1. CASE ref = NoTimer
  <2>1. Create
    BY <1>1 DEF Restarts
  <2>2. \A t \in Timer : timer'[t] = timer[t] \/ timer'[t].age = 0
    BY <2>1, LiveCreated DEF Started
  <2> QED BY <2>2, DueShrinks
<1>2. CASE ref # NoTimer
  <2>1. Cancel(Frames) /\ Frames \in Task
    BY <1>2 DEF Restarts, Task
  <2>2. \A t \in Timer : timer'[t] = timer[t] \/ timer'[t].at # "sleeping"
    BY <2>1, LiveCancelled
  <2> QED BY <2>2, DueShrinks
<1> QED BY <1>1, <1>2

LEMMA CancelsQuietly ==
    ASSUME IInv, NEW k \in Task, Cancel(k), quiet' = quiet PROVE Due' \in SUBSET Due
<1>1. \A t \in Timer : timer'[t] = timer[t] \/ timer'[t].at # "sleeping"
  BY LiveCancelled
<1> QED BY <1>1, DueShrinks

LEMMA IdleStrikes ==
    ASSUME StrikeInv, IInv', UNCHANGED <<timer, ref, wait, prompts, quiet, requests>>,
           ended' = ended \/ ended' = TRUE
    PROVE SlotsOK' /\ DueOK'
<1>1. Live' = Live /\ Due' = Due
  BY DEF Live, Due
<1>2. SlotsOK'
  BY <1>1, SlotsKept DEF StrikeInv
<1> QED BY <1>1, <1>2, DueKept DEF StrikeInv

LEMMA TimerStopsStrikes ==
    ASSUME StrikeInv, IInv', NEW t \in Timer, TimerStops(t) PROVE SlotsOK' /\ DueOK'
<1>1. t \in Live
  BY DEF TimerStops, Live
<1>2. SlotsOK'
  BY <1>1, SlotsStopped DEF StrikeInv, TimerStops, ghosts
<1>3. \A u \in Timer : timer'[u] = timer[u] \/ timer'[u].at # "sleeping"
  BY DEF TimerStops, Off, StrikeInv, IInv, ClockOK
<1>4. UNCHANGED <<prompts, ended, quiet, requests>>
  BY DEF TimerStops, flags, ghosts
<1>5. Due' \in SUBSET Due
  BY <1>3, <1>4, DueShrinks DEF StrikeInv
<1> QED BY <1>2, <1>4, <1>5, DueKept DEF StrikeInv

LEMMA TimesOutStrikes ==
    ASSUME StrikeInv, IInv', NEW t \in Timer, TimesOut(t) PROVE SlotsOK' /\ DueOK'
<1>1. /\ UNCHANGED <<wait, quiet, requests>> /\ timer[t] = [at |-> "sleeping", age |-> Timeout]
      /\ \/ timer' = [timer EXCEPT ![t] = Off] /\ ref' = NoTimer
         \/ timer' = [timer EXCEPT ![t] = Started] /\ ref' = t
  BY DEF TimesOut, ghosts
<1>2. timer[t].at = "sleeping" /\ timer[t].age = Timeout
  BY <1>1
<1>3. t \in Live
  BY <1>2 DEF Live
<1>4. SlotsOK'
  <2>1. CASE timer' = [timer EXCEPT ![t] = Off] /\ ref' = NoTimer
    BY <1>1, <1>3, <2>1, SlotsStopped DEF StrikeInv
  <2>2. CASE timer' = [timer EXCEPT ![t] = Started] /\ ref' = t
    <3>1. Live' = Live
      BY <1>2, <2>2 DEF Live, Started, StrikeInv, IInv, ClockOK
    <3> QED BY <1>1, <1>3, <2>2, <3>1, SlotsKept DEF StrikeInv
  <2> QED BY <1>1, <2>1, <2>2
<1>5. /\ timer'[t].at # "sleeping" \/ timer'[t].age = 0
      /\ \A u \in Timer : u # t => timer'[u] = timer[u]
  <2>1. DOMAIN timer = Timer
    BY DEF StrikeInv, IInv, ClockOK
  <2>2. CASE timer' = [timer EXCEPT ![t] = Off]
    BY <2>1, <2>2 DEF Off
  <2>3. CASE timer' = [timer EXCEPT ![t] = Started]
    BY <2>1, <2>3 DEF Started
  <2> QED BY <1>1, <2>2, <2>3
<1>6. Due' \in SUBSET Due
  BY <1>1, <1>5, DueShrinks DEF StrikeInv
<1>7. CASE ended
  <2>1. UNCHANGED flags
    BY <1>7 DEF TimesOut
  <2>2. UNCHANGED <<prompts, ended>>
    BY <2>1 DEF flags
  <2> QED BY <1>1, <1>4, <1>6, <2>2, DueKept DEF StrikeInv
<1>8. CASE ~ended
  <2>1. quiet \in Nat
    BY Numbers DEF StrikeInv
  <2>2. (quiet % Timeout) \in 0..Timeout - 1 /\ Timeout \in Nat
    BY <2>1, DivMod, WatchdogAssumption
  <2>3. t \in Due
    BY <1>2, <2>2 DEF Due
  <2>4. t \notin Due'
    <3>1. (quiet' % Timeout) \in Nat
      BY <1>1, <2>2
    <3>2. ~(timer'[t].at = "sleeping" /\ timer'[t].age > (quiet' % Timeout))
      BY <1>5, <3>1
    <3> QED BY <3>2 DEF Due
  <2>5. prompts' = prompts + 1
    BY <1>8 DEF TimesOut
  <2> QED BY <1>1, <1>4, <1>6, <1>8, <2>3, <2>4, <2>5, DueStruck DEF StrikeInv
<1> QED BY <1>7, <1>8

LEMMA FramesResumeStrikes ==
    ASSUME StrikeInv, IInv', FramesResume PROVE SlotsOK' /\ DueOK'
<1>1. UNCHANGED <<prompts, ended, quiet, requests>>
  BY DEF FramesResume, flags, ghosts
<1>2. Due' \in SUBSET Due
  <2>1. CASE then = "nothing"
    <3>1. timer' = timer
      BY <2>1 DEF FramesResume
    <3> QED BY <1>1, <3>1, DueShrinks DEF StrikeInv
  <2>2. CASE then # "nothing"
    <3>1. Create
      BY <2>2 DEF FramesResume
    <3>2. \A t \in Timer : timer'[t] = timer[t] \/ timer'[t].age = 0
      BY <3>1, LiveCreated DEF Started, StrikeInv
    <3> QED BY <1>1, <3>2, DueShrinks DEF StrikeInv
  <2> QED BY <2>1, <2>2
<1> QED BY <1>1, <1>2, DueKept, SlotsResumed DEF StrikeInv

LEMMA TickStrikes == ASSUME StrikeInv, IInv', Tick PROVE SlotsOK' /\ DueOK'
<1>1. Live' = Live
  <2>1. ASSUME NEW t \in Timer PROVE timer'[t].at = timer[t].at
    BY DEF Tick, StrikeInv, IInv, ClockOK
  <2> QED BY <2>1 DEF Live
<1> QED BY <1>1, SlotsKept, TickDue DEF StrikeInv, Tick

\* A frame that cancels or restarts the timer and is not the guest's turn.
LEMMA FrameStrikes ==
    ASSUME StrikeInv, IInv', HandlerFree, UNCHANGED <<prompts, ended, quiet, requests>>,
           Cancels \/ (\E next \in {"restart", "restart and clear"} : Restarts(next))
    PROVE SlotsOK' /\ DueOK'
<1>1. Frames \in Task
  BY DEF Task
<1>2. SlotsOK' /\ Due' \in SUBSET Due
  <2>1. CASE Cancels
    <3>1. Cancel(Frames)
      BY <2>1 DEF Cancels
    <3> QED BY <1>1, <3>1, SlotsCancelled, CancelsQuietly DEF StrikeInv
  <2>2. ASSUME NEW next \in {"restart", "restart and clear"}, Restarts(next)
        PROVE SlotsOK' /\ Due' \in SUBSET Due
    BY <2>2, SlotsRestarted, RestartsQuietly DEF StrikeInv
  <2> QED BY <2>1, <2>2
<1> QED BY <1>2, DueKept DEF StrikeInv

LEMMA BotStartsStrikes == ASSUME StrikeInv, IInv', BotStarts PROVE SlotsOK' /\ DueOK'
<1>1. UNCHANGED <<prompts, ended, quiet, requests>> /\ HandlerFree
  BY DEF BotStarts, flags, ghosts
<1>2. CASE ended
  <2>1. UNCHANGED <<timer, ref, wait>>
    BY <1>2 DEF BotStarts, clock
  <2> QED BY <1>1, <2>1, IdleStrikes
<1>3. CASE ~ended
  <2>1. Cancels
    BY <1>3 DEF BotStarts
  <2> QED BY <1>1, <2>1, FrameStrikes
<1> QED BY <1>2, <1>3

LEMMA BotStopsStrikes == ASSUME StrikeInv, IInv', BotStops PROVE SlotsOK' /\ DueOK'
<1>1. UNCHANGED <<quiet, requests>> /\ HandlerFree
  BY DEF BotStops, ghosts
<1>2. CASE ended
  <2>1. UNCHANGED <<timer, ref, wait, prompts, ended>>
    BY <1>2 DEF BotStops, clock, flags
  <2> QED BY <1>1, <2>1, IdleStrikes
<1>3. CASE ~ended /\ armed
  <2>1. UNCHANGED <<timer, ref, wait, prompts>> /\ ended' = TRUE
    BY <1>3 DEF BotStops, clock
  <2> QED BY <1>1, <2>1, IdleStrikes
<1>4. CASE ~ended /\ ~armed
  <2>1. Restarts("restart and clear") /\ UNCHANGED <<prompts, ended>>
    BY <1>4 DEF BotStops, flags
  <2> QED BY <1>1, <2>1, FrameStrikes
<1> QED BY <1>2, <1>3, <1>4

LEMMA UserStartsStrikes == ASSUME StrikeInv, IInv', UserStarts PROVE SlotsOK' /\ DueOK'
<1>1. UNCHANGED <<prompts, ended, quiet, requests>> /\ HandlerFree /\ Cancels
  BY DEF UserStarts, flags, ghosts
<1> QED BY <1>1, FrameStrikes

LEMMA UserStopsStrikes == ASSUME StrikeInv, IInv', UserStops PROVE SlotsOK' /\ DueOK'
<1>1. HandlerFree /\ Restarts("restart") /\ UNCHANGED <<ended, requests>>
  BY DEF UserStops
<1>2. CASE repeated
  <2>1. UNCHANGED <<prompts, quiet>>
    BY <1>2 DEF UserStops
  <2> QED BY <1>1, <2>1, FrameStrikes
<1>3. CASE ~repeated
  <2>1. prompts' = 0 /\ quiet' = 0
    BY <1>3 DEF UserStops
  <2> QED BY <1>1, <2>1, ReturnsDue, SlotsRestarted DEF StrikeInv
<1> QED BY <1>2, <1>3

LEMMA RequestStrikes ==
    ASSUME StrikeInv, IInv', NEW k \in Request, RequestsEnd(k) \/ RequestResumes(k)
    PROVE SlotsOK' /\ DueOK'
<1>1. k \in Task /\ requests \in Nat
  BY Numbers DEF Task, StrikeInv
<1>2. CASE RequestsEnd(k)
  <2>1. Cancel(k) /\ requests' = requests + 1 /\ UNCHANGED <<prompts, ended, quiet>>
    BY <1>2 DEF RequestsEnd, flags
  <2> QED BY <1>1, <2>1, SlotsRequested, CancelsQuietly, DueKept DEF StrikeInv
<1>3. CASE RequestResumes(k)
  <2>1. UNCHANGED <<timer, prompts, ended, quiet, requests>>
    BY <1>3 DEF RequestResumes, flags, ghosts
  <2>2. Due' \in SUBSET Due
    BY <2>1 DEF Due
  <2> QED BY <1>3, <2>1, <2>2, SlotsReturned, DueKept DEF StrikeInv
<1> QED BY <1>2, <1>3

LEMMA InitStrikes == Init => SlotsOK /\ DueOK
<1> SUFFICES ASSUME Init PROVE SlotsOK /\ DueOK
  OBVIOUS
<1>1. Live = {} /\ Waiters = {} /\ Due = {}
  <2>1. \A t \in Timer : timer[t].at = "off"
    BY DEF Init, Off
  <2>2. \A k \in Request : wait[k] = NoTimer
    BY DEF Init, Task
  <2> QED BY <2>1, <2>2 DEF Live, Waiters, Due
<1>2. Cardinality({}) = 0
  BY FS_EmptySet
<1>3. ref = NoTimer /\ requests = 0 /\ prompts = 0 /\ ~ended /\ wait[Frames] = NoTimer /\ quiet = 0
  BY DEF Init, Task
<1>4. SlotsOK
  BY <1>1, <1>2, <1>3 DEF SlotsOK
<1>5. Allowed \in Nat
  <2>1. quiet \in Nat /\ requests \in Nat
    BY <1>3
  <2>2. quiet \div Timeout \in Nat
    BY <2>1, DivMod
  <2> QED BY <2>1, <2>2, AllowedGrows DEF Allowed
<1> QED BY <1>1, <1>2, <1>3, <1>4, <1>5 DEF DueOK

LEMMA NextStrikes == ASSUME StrikeInv, [Next]_vars PROVE StrikeInv'
<1>1. IInv'
  BY NextIInv DEF StrikeInv
<1>2. SlotsOK' /\ DueOK'
  <2>1. CASE TimerStep
    BY <1>1, <2>1, TimerStopsStrikes, TimesOutStrikes DEF TimerStep
  <2>2. CASE FramesResume
    BY <1>1, <2>2, FramesResumeStrikes
  <2>3. CASE Tick
    BY <1>1, <2>3, TickStrikes
  <2>4. CASE BotStarts
    BY <1>1, <2>4, BotStartsStrikes
  <2>5. CASE BotStops
    BY <1>1, <2>5, BotStopsStrikes
  <2>6. CASE UserStarts
    BY <1>1, <2>6, UserStartsStrikes
  <2>7. CASE UserStops
    BY <1>1, <2>7, UserStopsStrikes
  <2>8. CASE \E k \in Request : RequestsEnd(k) \/ RequestResumes(k)
    BY <1>1, <2>8, RequestStrikes
  <2>9. CASE UserHushes \/ Transcript \/ CancelsRequest \/ UNCHANGED vars
    <3>1. UNCHANGED <<timer, ref, wait, prompts, ended, quiet, requests>>
      BY <2>9 DEF UserHushes, Transcript, CancelsRequest, vars, clock, flags, ghosts
    <3> QED BY <1>1, <3>1, IdleStrikes
  <2> QED BY <2>1, <2>2, <2>3, <2>4, <2>5, <2>6, <2>7, <2>8, <2>9 DEF Next
<1> QED BY <1>1, <1>2 DEF StrikeInv

\* No guest is given a strike that silence did not earn, except for the one
\* timer that each closing request may leave running (silence_watchdog.py,
\* _cancel_timer against _restart_timer).
THEOREM Strikes == Spec => []StrikesEarned
<1>1. Init => StrikeInv
  BY InitIInv, InitStrikes DEF StrikeInv
<1>2. StrikeInv /\ [Next]_vars => StrikeInv'
  BY NextStrikes
<1>3. StrikeInv => StrikesEarned
  <2> SUFFICES ASSUME StrikeInv PROVE StrikesEarned
    OBVIOUS
  <2>1. requests \in Nat /\ quiet \in Nat /\ prompts \in Nat /\ Due \in SUBSET Timer
    BY Numbers DEF StrikeInv
  <2>2. quiet \div Timeout \in Nat /\ Cardinality(Due) \in Nat
    BY <2>1, DivMod, Timers
  <2>3. Allowed \in Nat
    BY <2>1, <2>2, AllowedGrows DEF Allowed
  <2>4. prompts <= Allowed
    BY <2>1, <2>2, <2>3 DEF StrikeInv, DueOK
  <2> QED BY <2>4 DEF StrikesEarned, Allowed
<1> QED BY <1>1, <1>2, <1>3, PTL DEF Spec
=============================================================================
