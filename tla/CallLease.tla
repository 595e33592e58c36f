------------------------------ MODULE CallLease ------------------------------
(***************************************************************************)
(* Who may talk on a line.  CallCoordinator (services/call_coordinator.py) *)
(* hands out one fenced lease per (host, property); voice/pipeline.py      *)
(* acquires it when a call arrives, renews it from a background task while *)
(* the call lives and releases it in the finally block.  Redis may be      *)
(* unreachable for any operation, a request the client gave up on may      *)
(* still reach Redis later (a stray), and the one worker process may crash *)
(* at any moment.                                                          *)
(*                                                                         *)
(* One instance of this module is one line.  Lines share nothing: every    *)
(* operation names exactly one key.                                        *)
(***************************************************************************)
EXTENDS RedisLease, FiniteSets

CONSTANTS
    RenewInterval,  \* _LEASE_RENEWAL_INTERVAL_SECONDS in ticks
    SetupMax,       \* ticks a punctual process spends between acquire and _run_pipeline
    Lateness,       \* ticks a punctual renewal may come late
    Punctual,       \* is the process held to SetupMax and Lateness?
    FaultyOps,      \* the operations whose Redis round trip may fail
    MaxFaults       \* bound on failed round trips

ASSUME TimingAssumption ==
    /\ RenewInterval \in Nat \ {0}
    /\ SetupMax \in Nat
    /\ Lateness \in Nat
    /\ MaxFaults \in Nat
    /\ Punctual \in BOOLEAN
    /\ SetupMax + RenewInterval + Lateness < TTL

ASSUME CallFinite == IsFiniteSet(Call)

VARIABLES
    lease,   \* the Redis key of the line
    stage,   \* how far run_voice_pipeline got for each call
    held,    \* did acquire_or_reject return a Lease object (call_lease_token)?
    loop,    \* the call's _renew_call_lease_periodically task
    nap,     \* ticks the task has slept
    age,     \* ticks since the call's lease was last granted or renewed, at most TTL
    stray,   \* requests no client waits for any more, not yet seen by Redis
    faults   \* Redis round trips that failed

vars == <<lease, stage, held, loop, nap, age, stray, faults>>

Stage == {"idle", "setup", "live", "ending", "ended", "freed", "rejected", "dead"}
LoopState == {"off", "sleeping", "stopped"}
Request == [op: {"acquire", "renew", "release"}, call: Call]

TypeOK ==
    /\ lease \in Lease
    /\ lease.token = NoCall <=> lease = Free
    /\ stage \in [Call -> Stage]
    /\ held \in [Call -> BOOLEAN]
    /\ loop \in [Call -> LoopState]
    /\ nap \in [Call -> 0..TTL]
    /\ age \in [Call -> 0..TTL]
    /\ stray \subseteq Request
    /\ faults \in 0..MaxFaults

Init ==
    /\ lease = Free
    /\ stage = [c \in Call |-> "idle"]
    /\ held = [c \in Call |-> FALSE]
    /\ loop = [c \in Call |-> "off"]
    /\ nap = [c \in Call |-> 0]
    /\ age = [c \in Call |-> 0]
    /\ stray = {}
    /\ faults = 0

\* A guest is talking to Mira, or is about to.
Active(c) == stage[c] \in {"setup", "live"}

Req(op, c) == [op |-> op, call |-> c]

\* The round trip of op raised RedisLeaseUnavailable: the request was lost, or
\* only its reply was and Redis still executes it.
Unavailable(op, c) ==
    /\ op \in FaultyOps
    /\ faults < MaxFaults
    /\ faults' = faults + 1
    /\ \/ stray' = stray
       \/ stray' = stray \cup {Req(op, c)}
----------------------------------------------------------------------------
(* acquire_or_reject *)

AcquireGranted(c) ==
    /\ stage[c] = "idle"
    /\ lease = Free
    /\ lease' = SetNX(lease, c)
    /\ stage' = [stage EXCEPT ![c] = "setup"]
    /\ held' = [held EXCEPT ![c] = TRUE]
    /\ age' = [age EXCEPT ![c] = 0]
    /\ UNCHANGED <<loop, nap, stray, faults>>

AcquireBusy(c) ==
    /\ stage[c] = "idle"
    /\ lease # Free
    /\ stage' = [stage EXCEPT ![c] = "rejected"]
    /\ UNCHANGED <<lease, held, loop, nap, age, stray, faults>>

\* Fails open: the call starts without a lease.
AcquireUnavailable(c) ==
    /\ stage[c] = "idle"
    /\ Unavailable("acquire", c)
    /\ stage' = [stage EXCEPT ![c] = "setup"]
    /\ UNCHANGED <<lease, held, loop, nap, age>>
----------------------------------------------------------------------------
(* run_voice_pipeline between acquire and _run_pipeline, and _run_pipeline *)

StartPipeline(c) ==
    /\ stage[c] = "setup"
    /\ stage' = [stage EXCEPT ![c] = "live"]
    /\ loop' = [loop EXCEPT ![c] = IF held[c] THEN "sleeping" ELSE "off"]
    /\ nap' = [nap EXCEPT ![c] = 0]
    /\ UNCHANGED <<lease, held, age, stray, faults>>

\* An exception before _run_pipeline's try block: nothing releases the lease.
SetupFails(c) ==
    /\ stage[c] = "setup"
    /\ stage' = [stage EXCEPT ![c] = "dead"]
    /\ held' = [held EXCEPT ![c] = FALSE]
    /\ age' = [age EXCEPT ![c] = 0]
    /\ UNCHANGED <<lease, loop, nap, stray, faults>>

Due(c) == loop[c] = "sleeping" /\ nap[c] >= RenewInterval

RenewOk(c) ==
    /\ Due(c)
    /\ lease.token = c
    /\ lease' = RenewScript(lease, c)
    /\ nap' = [nap EXCEPT ![c] = 0]
    /\ age' = [age EXCEPT ![c] = 0]
    /\ UNCHANGED <<stage, held, loop, stray, faults>>

\* The task returns; its clocks are not looked at any more.
LoopStops(c) ==
    /\ loop' = [loop EXCEPT ![c] = "stopped"]
    /\ nap' = [nap EXCEPT ![c] = 0]
    /\ age' = [age EXCEPT ![c] = 0]

\* The script found no lease of this token: the task returns.
RenewStale(c) ==
    /\ Due(c)
    /\ lease.token # c
    /\ LoopStops(c)
    /\ UNCHANGED <<lease, stage, held, stray, faults>>

\* A failed round trip gives None as well: the task returns.
RenewUnavailable(c) ==
    /\ Due(c)
    /\ Unavailable("renew", c)
    /\ LoopStops(c)
    /\ UNCHANGED <<lease, stage, held>>

\* Mutant: the finally block forgets to cancel the renewal task.
EndPipelineKeepsLoop(c) ==
    /\ stage[c] = "live"
    /\ stage' = [stage EXCEPT ![c] = IF held[c] THEN "ending" ELSE "ended"]
    /\ UNCHANGED <<lease, held, loop, nap, age, stray, faults>>

\* Mutant: a teardown without the finally block's release.
EndPipelineWithoutRelease(c) ==
    /\ stage[c] = "live"
    /\ stage' = [stage EXCEPT ![c] = "ended"]
    /\ held' = [held EXCEPT ![c] = FALSE]
    /\ loop' = [loop EXCEPT ![c] = "off"]
    /\ nap' = [nap EXCEPT ![c] = 0]
    /\ age' = [age EXCEPT ![c] = 0]
    /\ UNCHANGED <<lease, stray, faults>>

\* The pipeline returned, raised or was cancelled: the finally block cancels
\* the renewal task, whose request may be on its way, and goes on to release.
EndPipeline(c) ==
    /\ stage[c] = "live"
    /\ stage' = [stage EXCEPT ![c] = IF held[c] THEN "ending" ELSE "ended"]
    /\ loop' = [loop EXCEPT ![c] = "off"]
    /\ nap' = [nap EXCEPT ![c] = 0]
    /\ age' = [age EXCEPT ![c] = 0]
    /\ \/ stray' = stray
       \/ Due(c) /\ stray' = stray \cup {Req("renew", c)}
    /\ UNCHANGED <<lease, held, faults>>

\* release() answered True: process_availability_recovery is spawned.
ReleaseFrees(c) ==
    /\ stage[c] = "ending"
    /\ lease.token = c
    /\ lease' = ReleaseScript(lease, c)
    /\ stage' = [stage EXCEPT ![c] = "freed"]
    /\ held' = [held EXCEPT ![c] = FALSE]
    /\ UNCHANGED <<loop, nap, age, stray, faults>>

\* Mutant: the availability follow-up is fired whatever release() answered.
ReleaseStaleFires(c) ==
    /\ stage[c] = "ending"
    /\ lease.token # c
    /\ lease' = ReleaseScript(lease, c)
    /\ stage' = [stage EXCEPT ![c] = "freed"]
    /\ held' = [held EXCEPT ![c] = FALSE]
    /\ UNCHANGED <<loop, nap, age, stray, faults>>

\* release() answered False: the token no longer matches.
ReleaseStale(c) ==
    /\ stage[c] = "ending"
    /\ lease.token # c
    /\ lease' = ReleaseScript(lease, c)
    /\ stage' = [stage EXCEPT ![c] = "ended"]
    /\ held' = [held EXCEPT ![c] = FALSE]
    /\ UNCHANGED <<loop, nap, age, stray, faults>>

ReleaseUnavailable(c) ==
    /\ stage[c] = "ending"
    /\ Unavailable("release", c)
    /\ stage' = [stage EXCEPT ![c] = "ended"]
    /\ held' = [held EXCEPT ![c] = FALSE]
    /\ UNCHANGED <<lease, loop, nap, age>>
----------------------------------------------------------------------------
(* Redis, time and the process *)

Apply(l, r) ==
    CASE r.op = "acquire" -> SetNX(l, r.call)
      [] r.op = "renew"   -> RenewScript(l, r.call)
      [] r.op = "release" -> ReleaseScript(l, r.call)

StrayArrives(r) ==
    /\ r \in stray
    /\ lease' = Apply(lease, r)
    /\ stray' = stray \ {r}
    /\ UNCHANGED <<stage, held, loop, nap, age, faults>>

StrayLost(r) ==
    /\ r \in stray
    /\ stray' = stray \ {r}
    /\ UNCHANGED <<lease, stage, held, loop, nap, age, faults>>

\* The worker dies.  A request it was waiting for may still be on the wire; a
\* caller whose acquire is on the wire is lost with the worker.
InFlight ==
    {Req("acquire", c) : c \in {d \in Call : stage[d] = "idle"}}
        \cup {Req("renew", c) : c \in {d \in Call : Due(d)}}
        \cup {Req("release", c) : c \in {d \in Call : stage[d] = "ending"}}

Crash ==
    \E sent \in SUBSET InFlight :
        LET Lost == {c \in Call : \/ stage[c] \in {"setup", "live", "ending"}
                                 \/ Req("acquire", c) \in sent}
        IN  /\ Lost # {}
            /\ stage' = [c \in Call |-> IF c \in Lost THEN "dead" ELSE stage[c]]
            /\ held' = [c \in Call |-> FALSE]
            /\ loop' = [c \in Call |-> "off"]
            /\ nap' = [c \in Call |-> 0]
            /\ age' = [c \in Call |-> 0]
            /\ stray' = stray \cup sent
            /\ UNCHANGED <<lease, faults>>

\* The call is about to overstay what a punctual process takes for this step.
Overdue(c) ==
    /\ held[c]
    /\ \/ stage[c] = "setup" /\ age[c] >= SetupMax
       \/ loop[c] = "sleeping" /\ nap[c] >= RenewInterval + Lateness
       \/ stage[c] = "ending"

\* The call relies on its lease: it has one and has not given up renewing it.
Clocked(c) ==
    /\ held[c]
    /\ stage[c] = "setup" \/ loop[c] = "sleeping"

Older(n) == IF n < TTL THEN n + 1 ELSE n

Tick ==
    /\ Punctual => \A c \in Call : ~Overdue(c)
    /\ lease' = Expire(lease)
    /\ nap' = [c \in Call |-> IF loop[c] = "sleeping" THEN Older(nap[c]) ELSE nap[c]]
    /\ age' = [c \in Call |-> IF Clocked(c) THEN Older(age[c]) ELSE age[c]]
    /\ UNCHANGED <<stage, held, loop, stray, faults>>
----------------------------------------------------------------------------
Acquire(c) == AcquireGranted(c) \/ AcquireBusy(c) \/ AcquireUnavailable(c)
Renew(c)   == RenewOk(c) \/ RenewStale(c) \/ RenewUnavailable(c)
Release(c) == ReleaseFrees(c) \/ ReleaseStale(c) \/ ReleaseUnavailable(c)

CallStep(c) ==
    \/ Acquire(c)
    \/ StartPipeline(c)
    \/ SetupFails(c)
    \/ Renew(c)
    \/ EndPipeline(c)
    \/ Release(c)

StrayStep(r) == StrayArrives(r) \/ StrayLost(r)

Next ==
    \/ \E c \in Call : CallStep(c)
    \/ \E r \in Request : StrayStep(r)
    \/ Crash
    \/ Tick

Spec == Init /\ [][Next]_vars

\* Time passes, and the steps a tick waits for are taken: setup runs on, the
\* event loop wakes the renewal task, and the finally block reaches release.
Fairness ==
    /\ WF_vars(Tick)
    /\ \A c \in Call :
        /\ WF_vars(StartPipeline(c))
        /\ WF_vars(Renew(c))
        /\ WF_vars(Release(c))

FairSpec == Spec /\ Fairness
----------------------------------------------------------------------------
(* What the lease is for *)

\* A call whose lease is being kept alive and was refreshed within the TTL.
Protected(c) == Active(c) /\ Clocked(c) /\ age[c] < TTL

\* A call refreshed within the TTL owns the key, however late, lost or
\* reordered the other calls' requests are: two protected calls never coexist
\* on a line (redis_lease_client scripts, pipeline acquire/renew/release).
ProtectedExclusive ==
    /\ \A c \in Call : Protected(c) => lease.token = c
    /\ \A c, d \in Call : Protected(c) /\ Protected(d) => c = d

\* Failing open costs at most one extra concurrent call per failed round trip:
\* with a punctual process and f failures, at most 1 + f calls are on the line
\* (acquire_or_reject's "degraded but available").
DamageBounded ==
    Punctual => Cardinality({c \in Call : Active(c)}) <= 1 + faults

\* A call's lease ends with its own release, with the release request it gave
\* up on, or with its time to live; no late renew, release or acquire of another
\* call ends it, and it never passes straight to another call.
OnlyOwnerOrTimeEvicts ==
    [][\A c \in Call :
          lease.token = c /\ lease'.token # c =>
              /\ lease' = Free
              /\ \/ stage[c] = "ending" /\ stage'[c] = "freed"
                 \/ Req("release", c) \in stray \ stray'
                 \/ lease.ttl = 1]_vars

\* The availability follow-up is fired only at the moment the line really
\* becomes free: no protected call is on it ("a busy-recovery guest could be
\* told Mira is available now while Mira is still busy" is ruled out for every
\* call that still has its lease).
AvailabilityTruthful ==
    [][\A c \in Call :
          stage[c] # "freed" /\ stage'[c] = "freed" =>
              lease' = Free /\ \A d \in Call : ~Protected(d)']_vars

\* Without a failed round trip, a caller is turned away only while the lease
\* belongs to a call in progress or to one lost to a crash or a failed setup.
RejectionJustified ==
    [][\A c \in Call :
          stage[c] # "rejected" /\ stage'[c] = "rejected" /\ faults = 0 =>
              stage[lease.token] \in {"setup", "live", "ending", "dead"}]_vars

\* A lease whose call is gone is not kept alive for ever: the line becomes free,
\* or is taken by a call that is there ("capping stuck busy after a crash").
GhostsVanish ==
    \A c \in Call :
        (lease.token = c /\ ~Active(c)) ~> (lease.token # c)

\* The abstract line: its owner is the stored token, and a call may still be
\* given the line while it has not asked or its acquire is still on the wire.
Fresh == {c \in Call : stage[c] = "idle" \/ Req("acquire", c) \in stray}

Abs == INSTANCE LineOwnership WITH owner <- lease.token, fresh <- Fresh

\* The line as the pipeline runs it implements LineOwnership: one owner at a
\* time, and no stray or stale request revives a tenancy that ended.
Refines == Abs!Spec

\* One missed renewal does not let a second call onto the line
\* (call_coordinator.py:61-62, "a wide safety margin against a single missed
\* renewal tick").
MissedRenewalTolerated == Cardinality({c \in Call : Active(c)}) <= 1
=============================================================================
