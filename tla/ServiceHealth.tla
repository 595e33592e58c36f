---------------------------- MODULE ServiceHealth ---------------------------
(***************************************************************************)
(* The in-memory registry of service health (app/observability/health.py), *)
(* for one service: two kinds of evidence, the outcomes of real requests   *)
(* in a sliding window and the last probe, folded into one state by        *)
(* evaluate().                                                             *)
(*                                                                         *)
(* Time passes at the evaluations, every ten seconds in the code: an       *)
(* outcome is in the window of the next Window evaluations, a probe is     *)
(* fresh for Stale of them.                                                *)
(***************************************************************************)
EXTENDS Integers, FiniteSets

CONSTANTS
    Window,     \* evaluations an outcome is counted in (300 s in the code)
    Stale,      \* evaluations a probe is believed (600 s, credits 1800 s)
    MaxEvents,  \* bound: outcomes in the window
    MaxErrors   \* bound: failures a process counts

ASSUME WindowAssumption == Window \in Nat \ {0}
ASSUME StaleAssumption == Stale \in Nat
ASSUME BoundsAssumption == MaxEvents \in Nat /\ MaxErrors \in Nat

VARIABLES
    window,   \* events: how many outcomes of a kind there are of each age
    probe,    \* the last probe, and whether the service is configured
    state,    \* the state evaluate() keeps
    streak,   \* better_streak: better evaluations in a row
    errors,   \* errors_total
    better    \* history: the last evaluation found better than the state

registry == <<window, probe, state, streak, errors, better>>

Outcome == {"ok", "warn", "err"}
State == {"unknown", "not_configured", "up", "degraded", "down"}
Age == 0 .. Window - 1
Failing == {"degraded", "down"}

Severity == [s \in State |->
    CASE s = "not_configured" -> -2 [] s = "unknown" -> -1 [] s = "up" -> 0
      [] s = "degraded" -> 1 [] s = "down" -> 2]

ProbeDownAfter == 2
RecoveryEvaluations == 2

Empty == [o \in Outcome |-> [a \in Age |-> 0]]
NoProbe == [status |-> "none", failures |-> 0, age |-> 0, configured |-> TRUE]

RegistryOK ==
    /\ window \in [Outcome -> [Age -> 0 .. MaxEvents]]
    /\ probe \in [status: {"none", "ok", "degraded", "down"},
                  failures: 0 .. MaxErrors + ProbeDownAfter,
                  age: 0 .. Stale + 1, configured: BOOLEAN]
    /\ state \in State
    /\ streak \in 0 .. RecoveryEvaluations - 1
    /\ errors \in 0 .. MaxErrors
    /\ better \in BOOLEAN

RegistryInit ==
    /\ window = Empty
    /\ probe = NoProbe
    /\ state = "unknown"
    /\ streak = 0
    /\ errors = 0
    /\ better = FALSE

-----------------------------------------------------------------------------
(* Evidence.                                                               *)

(* How many outcomes of a kind: the n-th of an age is <<age, n>>.           *)
Count(o) == Cardinality({e \in Age \X (1 .. MaxEvents) : e[2] <= window[o][e[1]]})

(* What the window alone says. *)
PassiveState ==
    LET ok == Count("ok")  err == Count("err")  warn == Count("warn")
        total == ok + err
    IN  IF (total >= 4 /\ 2 * err >= total) \/ (err >= 5 /\ ok = 0)
        THEN "down"
        ELSE IF (err >= 2 /\ 5 * err >= total) \/ warn >= 3
        THEN "degraded"
        ELSE IF total = 0 THEN "unknown" ELSE "up"

(* What the last probe says: one failure is not yet believed. *)
ProbeState ==
    IF probe.status = "none" \/ probe.age > Stale THEN "unknown"
    ELSE IF probe.failures >= ProbeDownAfter THEN "down"
    ELSE IF probe.status = "degraded" THEN "degraded" ELSE "up"

Worst(s, t) == IF Severity[s] >= Severity[t] THEN s ELSE t

(* No evidence holds the state that is known. *)
Candidate(current) ==
    LET worst == Worst(PassiveState, ProbeState)
    IN  IF ~probe.configured THEN "not_configured"
        ELSE IF worst # "unknown" THEN worst
        ELSE IF current = "not_configured" THEN "unknown" ELSE current

RecentErrors == Count("err") + probe.failures

-----------------------------------------------------------------------------
(* A real request ended. *)
Record(o) ==
    /\ Count("ok") + Count("warn") + Count("err") < MaxEvents
    /\ o = "err" => errors < MaxErrors
    /\ window' = [window EXCEPT ![o][0] = @ + 1]
    /\ errors' = IF o = "err" THEN errors + 1 ELSE errors
    /\ UNCHANGED <<probe, state, streak, better>>

(* A probe ended; a confirmed failure is believed at once. *)
RecordProbe(status, confirmed) ==
    /\ status = "down" => errors < MaxErrors
    /\ probe' = [status |-> status, age |-> 0, configured |-> TRUE,
                 failures |->
                    IF status # "down" THEN 0
                    ELSE IF confirmed /\ probe.failures = 0 THEN ProbeDownAfter
                    ELSE probe.failures + 1]
    /\ errors' = IF status = "down" THEN errors + 1 ELSE errors
    /\ UNCHANGED <<window, state, streak, better>>

(* The account has no balance to read. *)
RecordNotConfigured ==
    /\ probe' = [probe EXCEPT !.configured = FALSE, !.failures = 0, !.age = 0]
    /\ UNCHANGED <<window, state, streak, errors, better>>

(* The next evaluation is ten seconds later. *)
Shifted ==
    [o \in Outcome |-> [a \in Age |-> IF a = 0 THEN 0 ELSE window[o][a - 1]]]

(* evaluate(): worse at once, better at the second better evaluation.      *)
(* current is the state before it.                                         *)
Improving(current, candidate) ==
    /\ Severity[candidate] < Severity[current]
    /\ current \in Failing
    /\ candidate # "not_configured"

Waits(current, candidate) ==
    Improving(current, candidate) /\ streak + 1 < RecoveryEvaluations

StreakKept(current, candidate) ==
    IF Waits(current, candidate) THEN streak + 1
    ELSE IF candidate = current THEN streak ELSE 0
StreakRuns(current, candidate) ==
    IF Improving(current, candidate) THEN streak + 1 ELSE 0

Streak(current, candidate) ==
    IF Waits(current, candidate) THEN streak + 1 ELSE 0

EvaluateFrom(current) ==
    \E candidate \in {Candidate(current)} :
        /\ state' = IF Waits(current, candidate) THEN current ELSE candidate
        /\ streak' = Streak(current, candidate)
        /\ better' = Waits(current, candidate)
        /\ window' = Shifted
        /\ probe' = [probe EXCEPT !.age = IF @ <= Stale THEN @ + 1 ELSE @]
        /\ UNCHANGED errors

-----------------------------------------------------------------------------
(* "A Sarvam outage stays red until a call succeeds, rather than going     *)
(* green because nobody called."                                           *)
RedUntilSuccess ==
    [][(state \in Failing /\ state' = "up")
         => (Count("ok") > 0 \/ probe.status = "ok")]_registry
=============================================================================
