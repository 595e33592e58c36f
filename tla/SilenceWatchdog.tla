--------------------------- MODULE SilenceWatchdog ---------------------------
(***************************************************************************)
(* The processor that ends a call whose guest is silent or whose closing   *)
(* line has been spoken (voice/silence_watchdog.py), with the closing      *)
(* requests of end_call and of the end-call guards.                        *)
(*                                                                         *)
(* Everything runs on one event loop.  Frames are handled one at a time,   *)
(* but cancelling a timer awaits the timer's task, and in that await a     *)
(* closing request, a transcript or another timer may run; push_frame only *)
(* puts a frame into a queue.                                              *)
(***************************************************************************)
EXTENDS Naturals, FiniteSets

CONSTANTS
    Timer,       \* timer tasks
    NoTimer,
    Request,     \* closing requests in progress at a time
    Timeout,     \* timeout_seconds in ticks
    MaxPrompts,
    MaxRequests  \* bound on closing requests in a call

Frames == "frames"
Task == Request \cup {Frames}

ASSUME WatchdogAssumption ==
    /\ NoTimer \notin Timer
    /\ IsFiniteSet(Timer) /\ IsFiniteSet(Request)
    /\ Frames \notin Request
    /\ Timeout \in Nat \ {0}
    /\ MaxPrompts \in Nat
    /\ MaxRequests \in Nat

VARIABLES
    timer,     \* the state and the age of each timer task
    ref,       \* _timer_task
    wait,      \* the timer a task awaits the cancellation of, or NoTimer
    then,      \* what the frame handler does after that await
    prompts,   \* _prompts_sent
    ended,     \* _ended
    armed,     \* _end_requested
    repeated,  \* _pending_turn_is_repetition_candidate
    history,   \* transcripts in _recent_transcripts, counted up to two
    closing,   \* ConversationState.closing_state
    guest,     \* is the guest speaking, and has a transcript arrived of it?
    bot,       \* is Mira's audio on the line?
    lines,     \* utterances of Mira on their way to the line
    ends,      \* EndWorkerFrames pushed
    requests,  \* closing requests made
    quiet      \* ticks since the guest's last turn that counted

vars == <<timer, ref, wait, then, prompts, ended, armed, repeated, history,
          closing, guest, bot, lines, ends, requests, quiet>>
clock == <<timer, ref, wait, then>>
flags == <<prompts, ended, ends>>
request == <<armed, closing>>
turn == <<repeated, history>>
speech == <<guest, bot, lines>>
ghosts == <<requests, quiet>>

MaxLines == 2
Capped(n, cap) == IF n > cap THEN cap ELSE n
QuietMax == (MaxPrompts + 1) * Timeout

Off == [at |-> "off", age |-> 0]
Started == [at |-> "sleeping", age |-> 0]

TypeOK ==
    /\ timer \in [Timer -> [at: {"off", "sleeping", "cancelled"}, age: 0..Timeout]]
    /\ ref \in Timer \cup {NoTimer}
    /\ wait \in [Task -> Timer \cup {NoTimer}]
    /\ then \in {"nothing", "restart", "restart and clear"}
    /\ prompts \in 0..MaxPrompts + 1
    /\ ended \in BOOLEAN
    /\ armed \in BOOLEAN
    /\ repeated \in BOOLEAN
    /\ history \in 0..2
    /\ closing \in {"open", "farewell_pending", "closed"}
    /\ guest \in {"silent", "speaking", "heard"}
    /\ bot \in {"silent", "speaking"}
    /\ lines \in 0..MaxLines
    /\ ends \in Nat
    /\ requests \in 0..MaxRequests
    /\ quiet \in 0..QuietMax

\* The greeting is on its way.
Init ==
    /\ timer = [t \in Timer |-> Off]
    /\ ref = NoTimer
    /\ wait = [k \in Task |-> NoTimer]
    /\ then = "nothing"
    /\ prompts = 0
    /\ ended = FALSE
    /\ armed = FALSE
    /\ repeated = FALSE
    /\ history = 0
    /\ closing = "open"
    /\ guest = "silent"
    /\ bot = "silent"
    /\ lines = 1
    /\ ends = 0
    /\ requests = 0
    /\ quiet = 0

Fresh == {t \in Timer : timer[t] = Off /\ \A k \in Task : wait[k] # t}
----------------------------------------------------------------------------
(* Timers *)

\* _restart_timer without a timer to cancel.
Create == \E t \in Fresh : timer' = [timer EXCEPT ![t] = Started] /\ ref' = t

\* _cancel_timer up to its await, which is taken only if there is a timer.
Cancel(k) ==
    /\ timer' = IF ref # NoTimer /\ timer[ref].at = "sleeping"
                THEN [timer EXCEPT ![ref].at = "cancelled"] ELSE timer
    /\ wait' = [wait EXCEPT ![k] = ref]
    /\ ref' = ref

Cancels == Cancel(Frames) /\ then' = "nothing"

\* Mutant: a restart does not cancel.
RestartsOnly(next) == Create /\ UNCHANGED <<wait, then>>

Restarts(next) ==
    IF ref = NoTimer
    THEN Create /\ UNCHANGED <<wait, then>>
    ELSE Cancel(Frames) /\ then' = next

\* A cancelled timer task comes to its end: its finally block clears the
\* reference whichever timer it names.
TimerStops(t) ==
    /\ timer[t].at = "cancelled"
    /\ timer' = [timer EXCEPT ![t] = Off]
    /\ ref' = NoTimer
    /\ UNCHANGED <<wait, then, flags, request, turn, speech, ghosts>>

\* The await of a cancellation is over.
RequestResumes(k) ==
    /\ k \in Request
    /\ wait[k] # NoTimer /\ timer[wait[k]] = Off
    /\ wait' = [wait EXCEPT ![k] = NoTimer]
    /\ ref' = NoTimer
    /\ UNCHANGED <<timer, then, flags, request, turn, speech, ghosts>>

FramesResume ==
    /\ wait[Frames] # NoTimer /\ timer[wait[Frames]] = Off
    /\ wait' = [wait EXCEPT ![Frames] = NoTimer]
    /\ IF then = "nothing" THEN ref' = NoTimer /\ UNCHANGED timer ELSE Create
    /\ IF then = "restart and clear"
       THEN repeated' = FALSE /\ history' = 0
       ELSE UNCHANGED turn
    /\ then' = "nothing"
    /\ UNCHANGED <<flags, request, speech, ghosts>>

\* Mutant: the timer does not look at an end that is already on its way.
TimesOutAgain(t) ==
    /\ timer[t] = [at |-> "sleeping", age |-> Timeout]
    /\ prompts' = prompts + 1
    /\ IF prompts = MaxPrompts
       THEN /\ ended' = TRUE
            /\ ends' = ends + 1
            /\ timer' = [timer EXCEPT ![t] = Off]
            /\ ref' = NoTimer
       ELSE /\ timer' = [timer EXCEPT ![t] = Started]
            /\ ref' = t
            /\ UNCHANGED <<ended, ends>>
    /\ lines' = Capped(lines + 1, MaxLines)
    /\ UNCHANGED <<wait, then, request, turn, guest, bot, ghosts>>

\* Mutant: one prompt too many.
TimesOutLate(t) ==
    /\ timer[t] = [at |-> "sleeping", age |-> Timeout]
    /\ IF ended
       THEN /\ timer' = [timer EXCEPT ![t] = Off]
            /\ ref' = NoTimer
            /\ UNCHANGED <<flags, lines>>
       ELSE /\ prompts' = prompts + 1
            /\ lines' = Capped(lines + 1, MaxLines)
            /\ IF prompts > MaxPrompts
               THEN /\ ended' = TRUE
                    /\ ends' = ends + 1
                    /\ timer' = [timer EXCEPT ![t] = Off]
                    /\ ref' = NoTimer
               ELSE /\ timer' = [timer EXCEPT ![t] = Started]
                    /\ ref' = t
                    /\ UNCHANGED <<ended, ends>>
    /\ UNCHANGED <<wait, then, request, turn, guest, bot, ghosts>>

\* _on_timeout after its sleep.
TimesOut(t) ==
    /\ timer[t] = [at |-> "sleeping", age |-> Timeout]
    /\ IF ended
       THEN /\ timer' = [timer EXCEPT ![t] = Off]
            /\ ref' = NoTimer
            /\ UNCHANGED <<flags, lines>>
       ELSE /\ prompts' = prompts + 1
            /\ lines' = Capped(lines + 1, MaxLines)
            /\ IF prompts = MaxPrompts
               THEN /\ ended' = TRUE
                    /\ ends' = ends + 1
                    /\ timer' = [timer EXCEPT ![t] = Off]
                    /\ ref' = NoTimer
               ELSE /\ timer' = [timer EXCEPT ![t] = Started]
                    /\ ref' = t
                    /\ UNCHANGED <<ended, ends>>
    /\ UNCHANGED <<wait, then, request, turn, guest, bot, ghosts>>

\* The loop runs on with every task that is ready; a timer may be late.
Tick ==
    /\ \A k \in Task : wait[k] = NoTimer
    /\ timer' = [t \in Timer |->
                    IF timer[t].at = "sleeping"
                    THEN [timer[t] EXCEPT !.age = Capped(@ + 1, Timeout)] ELSE timer[t]]
    /\ quiet' = Capped(quiet + 1, QuietMax)
    /\ UNCHANGED <<ref, wait, then, flags, request, turn, speech, requests>>
----------------------------------------------------------------------------
(* Frames *)

HandlerFree == wait[Frames] = NoTimer

BotStarts ==
    /\ HandlerFree
    /\ bot = "silent" /\ lines > 0
    /\ bot' = "speaking"
    /\ lines' = lines - 1
    /\ IF ended THEN UNCHANGED clock ELSE Cancels
    /\ UNCHANGED <<flags, request, turn, guest, ghosts>>

\* Mutant: Mira's own prompt counts as a turn.
BotStopsForgiving ==
    /\ HandlerFree
    /\ bot = "speaking"
    /\ bot' = "silent"
    /\ IF ended
       THEN UNCHANGED <<clock, flags, closing, turn>>
       ELSE IF armed
       THEN /\ ended' = TRUE
            /\ ends' = ends + 1
            /\ closing' = "closed"
            /\ repeated' = FALSE /\ history' = 0
            /\ UNCHANGED <<clock, prompts>>
       ELSE /\ Restarts("restart and clear")
            /\ prompts' = 0
            /\ IF ref = NoTimer THEN repeated' = FALSE /\ history' = 0 ELSE UNCHANGED turn
            /\ UNCHANGED <<ended, ends, closing>>
    /\ UNCHANGED <<armed, guest, lines, ghosts>>

\* Mira's audio ends, or the guest cuts it off.
BotStops ==
    /\ HandlerFree
    /\ bot = "speaking"
    /\ bot' = "silent"
    /\ IF ended
       THEN UNCHANGED <<clock, flags, closing, turn>>
       ELSE IF armed
       THEN /\ ended' = TRUE
            /\ ends' = ends + 1
            /\ closing' = "closed"
            /\ repeated' = FALSE /\ history' = 0
            /\ UNCHANGED <<clock, prompts>>
       ELSE /\ Restarts("restart and clear")
            /\ IF ref = NoTimer THEN repeated' = FALSE /\ history' = 0 ELSE UNCHANGED turn
            /\ UNCHANGED <<flags, closing>>
    /\ UNCHANGED <<armed, guest, lines, ghosts>>

UserStarts ==
    /\ HandlerFree
    /\ guest = "silent"
    /\ guest' = "speaking"
    /\ Cancels
    /\ UNCHANGED <<flags, request, turn, bot, lines, ghosts>>

\* Mutant: the request is called off and the prompt layer is not told.
ReopensSilently == armed' = FALSE /\ closing' = closing

\* A request that was pending is called off.
Reopens ==
    /\ armed' = FALSE
    /\ closing' = IF armed THEN "open" ELSE closing

\* The turn-stop strategy waits for a transcript.
UserStops ==
    /\ HandlerFree
    /\ guest = "heard"
    /\ guest' = "silent"
    /\ prompts' = IF repeated THEN prompts ELSE 0
    /\ quiet' = IF repeated THEN quiet ELSE 0
    /\ Reopens
    /\ repeated' = FALSE
    /\ Restarts("restart")
    /\ lines' = Capped(lines + 1, MaxLines)
    /\ UNCHANGED <<ended, ends, history, bot, requests>>

\* Noise or breath: no transcript, and no UserStoppedSpeakingFrame.
UserHushes ==
    /\ guest = "speaking"
    /\ guest' = "silent"
    /\ UNCHANGED <<clock, flags, request, turn, bot, lines, ghosts>>

\* A third similar transcript since Mira last spoke may look like background.
Transcript ==
    /\ guest # "silent"
    /\ guest' = "heard"
    /\ repeated' \in IF history = 2 THEN BOOLEAN ELSE {FALSE}
    /\ history' = Capped(history + 1, 2)
    /\ Reopens
    /\ UNCHANGED <<clock, flags, bot, lines, ghosts>>
----------------------------------------------------------------------------
(* Closing requests *)

\* end_call, decline_irrelevant_call or the end-call reliability guard.
RequestsEnd(k) ==
    /\ wait[k] = NoTimer
    /\ requests < MaxRequests
    /\ requests' = requests + 1
    /\ armed' = TRUE
    /\ closing' = "farewell_pending"
    /\ Cancel(k)
    /\ UNCHANGED <<then, flags, turn, speech, quiet>>

\* The premature-end-call guard, in the turn of a request.
CancelsRequest ==
    /\ requests > 0
    /\ armed' = FALSE
    /\ closing' = "open"
    /\ UNCHANGED <<clock, flags, turn, speech, ghosts>>
----------------------------------------------------------------------------
TimerStep == \E t \in Timer : TimerStops(t) \/ TimesOut(t)

Next ==
    \/ TimerStep
    \/ FramesResume
    \/ Tick
    \/ BotStarts
    \/ BotStops
    \/ UserStarts
    \/ UserStops
    \/ UserHushes
    \/ Transcript
    \/ \E k \in Request : RequestsEnd(k) \/ RequestResumes(k)
    \/ CancelsRequest

Spec == Init /\ [][Next]_vars

\* Time passes, the event loop runs what is ready, and Mira's lines are spoken
\* to their end.
Fairness ==
    /\ WF_vars(Tick)
    /\ \A t \in Timer : WF_vars(TimerStops(t)) /\ WF_vars(TimesOut(t))
    /\ WF_vars(FramesResume)
    /\ \A k \in Request : WF_vars(RequestResumes(k))
    /\ SF_vars(BotStarts)
    /\ SF_vars(BotStops)

FairSpec == Spec /\ Fairness
----------------------------------------------------------------------------
(* What the watchdog is for *)

\* The call is ended once: a timer and the end of the closing line never both
\* push an EndWorkerFrame (_ended in process_frame and _on_timeout).
EndsOnce == ends <= 1

\* Every strike is a timeout of silence.  A request that returns while the
\* frame handler is restarting the timer can leave a second timer running, and
\* each request at most one (_cancel_timer, _restart_timer).
StrikesEarned ==
    prompts <= (requests + 1) * (quiet \div Timeout) + requests

\* As long as the call goes on, the state the prompt is built from says that a
\* farewell is pending exactly when the next end of Mira's audio will end the
\* call (conversation_state.py:579-603, kept in step at five places).
ClosingAgrees == ~ended => (closing = "farewell_pending" <=> armed)

\* A call whose guest never answers the greeting ends.
SilenceEndsCall == [](guest = "silent" /\ requests = 0) => <>ended

\* A guest who speaks up while the closing line is playing is not hung up on
\* (silence_watchdog.py:73-74).
NeverHungUpOnTop ==
    [][closing' = "closed" /\ closing # "closed" => guest = "silent"]_vars
=============================================================================
