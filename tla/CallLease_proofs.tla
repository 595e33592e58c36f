--------------------------- MODULE CallLease_proofs ---------------------------
(***************************************************************************)
(* Theorems about CallLease, for every set of calls, every TTL, renewal    *)
(* interval and number of failures.                                        *)
(***************************************************************************)
EXTENDS CallLease, FiniteSetTheorems, TLAPS

-----------------------------------------------------------------------------
(* The operations on the key *)

\* Every operation of redis_lease_client maps a lease to a lease whose token is
\* present exactly when the key is.
GoodLease(l) == l \in Lease /\ (l.token = NoCall <=> l = Free)

LEMMA GrantedGood ==
    ASSUME NEW c \in Call
    PROVE  GoodLease(Granted(c)) /\ Granted(c).token = c /\ Granted(c).ttl = TTL
BY LeaseAssumption DEF GoodLease, Granted, Lease, Free

LEMMA FreeGood == GoodLease(Free)
BY LeaseAssumption DEF GoodLease, Lease, Free

\* The scripts keep the stored value well formed.
LEMMA ScriptsGood ==
    ASSUME NEW l, GoodLease(l), NEW c \in Call
    PROVE  /\ GoodLease(SetNX(l, c))
           /\ GoodLease(RenewScript(l, c))
           /\ GoodLease(ReleaseScript(l, c))
BY GrantedGood, FreeGood DEF SetNX, RenewScript, ReleaseScript

\* So does the passing of time.
LEMMA ExpireGood ==
    ASSUME NEW l, GoodLease(l)
    PROVE  GoodLease(Expire(l))
<1>1. CASE l.ttl <= 1
  BY <1>1, FreeGood DEF Expire
<1>2. CASE ~(l.ttl <= 1)
  BY <1>2, LeaseAssumption DEF Expire, GoodLease, Lease, Free
<1> QED BY <1>1, <1>2

\* A request that reaches Redis late is one of the three operations.
LEMMA ApplyGood ==
    ASSUME NEW l, GoodLease(l), NEW r \in Request
    PROVE  GoodLease(Apply(l, r))
<1>1. r.call \in Call /\ r.op \in {"acquire", "renew", "release"}
  BY DEF Request
<1> QED BY <1>1, ScriptsGood DEF Apply

LEMMA ReqType == \A c \in Call, op \in {"acquire", "renew", "release"} : Req(op, c) \in Request
BY DEF Req, Request

-----------------------------------------------------------------------------
(* Type correctness *)

LEMMA InitType == Init => TypeOK
BY FreeGood, LeaseAssumption, TimingAssumption
   DEF Init, TypeOK, GoodLease, Stage, LoopState, Free, Lease

LEMMA TypeLease == TypeOK <=> /\ GoodLease(lease)
                              /\ stage \in [Call -> Stage]
                              /\ held \in [Call -> BOOLEAN]
                              /\ loop \in [Call -> LoopState]
                              /\ nap \in [Call -> 0..TTL]
                              /\ age \in [Call -> 0..TTL]
                              /\ stray \subseteq Request
                              /\ faults \in 0..MaxFaults
BY DEF TypeOK, GoodLease

LEMMA UnavailableType ==
    ASSUME NEW c \in Call, NEW op \in {"acquire", "renew", "release"},
           TypeOK, Unavailable(op, c)
    PROVE  /\ stray' \subseteq Request
           /\ faults' \in 0..MaxFaults
           /\ faults' = faults + 1
BY ReqType, TimingAssumption DEF TypeOK, Unavailable

LEMMA NextType == TypeOK /\ [Next]_vars => TypeOK'
<1> SUFFICES ASSUME TypeOK, [Next]_vars PROVE TypeOK'
  OBVIOUS
<1> USE LeaseAssumption, TimingAssumption
<1>0. GoodLease(lease) /\ stage \in [Call -> Stage] /\ held \in [Call -> BOOLEAN]
      /\ loop \in [Call -> LoopState] /\ nap \in [Call -> 0..TTL] /\ age \in [Call -> 0..TTL]
      /\ stray \subseteq Request /\ faults \in 0..MaxFaults
  BY TypeLease
<1>t. ASSUME GoodLease(lease)', stage' \in [Call -> Stage], held' \in [Call -> BOOLEAN],
             loop' \in [Call -> LoopState], nap' \in [Call -> 0..TTL], age' \in [Call -> 0..TTL],
             stray' \subseteq Request, faults' \in 0..MaxFaults
      PROVE  TypeOK'
  BY <1>t DEF TypeOK, GoodLease
<1>1. ASSUME NEW c \in Call, Acquire(c) PROVE TypeOK'
  <2>1. CASE AcquireGranted(c)
    <3>1. GoodLease(lease)'
      BY <1>0, <2>1, ScriptsGood DEF AcquireGranted, GoodLease
    <3> QED BY <3>1, <1>0, <2>1, <1>t DEF AcquireGranted, Stage
  <2>2. CASE AcquireBusy(c)
    BY <1>0, <2>2, <1>t DEF AcquireBusy, Stage, GoodLease
  <2>3. CASE AcquireUnavailable(c)
    BY <1>0, <2>3, <1>t, UnavailableType DEF AcquireUnavailable, Stage, GoodLease
  <2> QED BY <1>1, <2>1, <2>2, <2>3 DEF Acquire
<1>2. ASSUME NEW c \in Call, StartPipeline(c) PROVE TypeOK'
  BY <1>0, <1>2, <1>t DEF StartPipeline, Stage, LoopState, GoodLease
<1>3. ASSUME NEW c \in Call, SetupFails(c) PROVE TypeOK'
  BY <1>0, <1>3, <1>t DEF SetupFails, Stage, GoodLease
<1>4. ASSUME NEW c \in Call, Renew(c) PROVE TypeOK'
  <2>1. CASE RenewOk(c)
    <3>1. GoodLease(lease)'
      BY <1>0, <2>1, ScriptsGood DEF RenewOk, GoodLease
    <3> QED BY <3>1, <1>0, <2>1, <1>t DEF RenewOk
  <2>2. CASE RenewStale(c)
    BY <1>0, <2>2, <1>t DEF RenewStale, LoopStops, LoopState, GoodLease
  <2>3. CASE RenewUnavailable(c)
    BY <1>0, <2>3, <1>t, UnavailableType DEF RenewUnavailable, LoopStops, LoopState, GoodLease
  <2> QED BY <1>4, <2>1, <2>2, <2>3 DEF Renew
<1>5. ASSUME NEW c \in Call, EndPipeline(c) PROVE TypeOK'
  <2>1. stray' \subseteq Request
    BY <1>0, <1>5, ReqType DEF EndPipeline
  <2> QED BY <2>1, <1>0, <1>5, <1>t DEF EndPipeline, Stage, LoopState, GoodLease
<1>6. ASSUME NEW c \in Call, Release(c) PROVE TypeOK'
  <2>1. CASE ReleaseFrees(c)
    <3>1. GoodLease(lease)'
      BY <1>0, <2>1, ScriptsGood DEF ReleaseFrees, GoodLease
    <3> QED BY <3>1, <1>0, <2>1, <1>t DEF ReleaseFrees, Stage
  <2>2. CASE ReleaseStale(c)
    <3>1. GoodLease(lease)'
      BY <1>0, <2>2, ScriptsGood DEF ReleaseStale, GoodLease
    <3> QED BY <3>1, <1>0, <2>2, <1>t DEF ReleaseStale, Stage
  <2>3. CASE ReleaseUnavailable(c)
    BY <1>0, <2>3, <1>t, UnavailableType DEF ReleaseUnavailable, Stage, GoodLease
  <2> QED BY <1>6, <2>1, <2>2, <2>3 DEF Release
<1>7. ASSUME NEW r \in Request, StrayStep(r) PROVE TypeOK'
  <2>1. CASE StrayArrives(r)
    <3>1. GoodLease(lease)'
      BY <1>0, <2>1, ApplyGood DEF StrayArrives, GoodLease
    <3> QED BY <3>1, <1>0, <2>1, <1>t DEF StrayArrives
  <2>2. CASE StrayLost(r)
    BY <1>0, <2>2, <1>t DEF StrayLost, GoodLease
  <2> QED BY <1>7, <2>1, <2>2 DEF StrayStep
<1>8. CASE Crash
  <2>1. stray' \subseteq Request
    BY <1>0, <1>8, ReqType DEF Crash, InFlight
  <2> QED BY <2>1, <1>0, <1>8, <1>t DEF Crash, Stage, LoopState, GoodLease
<1>9. CASE Tick
  <2>1. GoodLease(lease)'
    BY <1>0, <1>9, ExpireGood DEF Tick, GoodLease
  <2>2. \A n \in 0..TTL : Older(n) \in 0..TTL
    BY DEF Older
  <2>3. nap' \in [Call -> 0..TTL] /\ age' \in [Call -> 0..TTL]
    BY <2>2, <1>0, <1>9 DEF Tick
  <2> QED BY <2>1, <2>3, <1>0, <1>9, <1>t DEF Tick
<1>10. CASE UNCHANGED vars
  BY <1>0, <1>10, <1>t DEF vars, GoodLease
<1> QED
  BY <1>1, <1>2, <1>3, <1>4, <1>5, <1>6, <1>7, <1>8, <1>9, <1>10 DEF Next, CallStep

\* Every state of the line is well typed, whatever fails.
THEOREM TypeCorrect == Spec => []TypeOK
BY InitType, NextType, PTL DEF Spec

-----------------------------------------------------------------------------
(* A protected call owns the key *)

\* The key outlives the protection of the call it belongs to.
KeyInv == \A c \in Call : Protected(c) => lease.token = c /\ lease.ttl + age[c] >= TTL

\* A call that has not asked has no lease; only a live call that was given one
\* has a renewal task.
IdleInv == \A c \in Call : /\ stage[c] = "idle" => ~held[c]
                           /\ loop[c] # "off" => held[c] /\ stage[c] = "live"

\* Only a call that is over can have left a release request behind.
StrayInv == \A c \in Call : Req("release", c) \in stray => stage[c] \in {"ended", "dead"}

LeaseInv == TypeOK /\ KeyInv /\ IdleInv /\ StrayInv

LEMMA InitLease == Init => LeaseInv
BY InitType DEF Init, LeaseInv, KeyInv, IdleInv, StrayInv, Protected, Active, Clocked

\* Requests are identified by their operation and their call.
LEMMA ReqUnique ==
    \A c, d \in Call, o, p \in {"acquire", "renew", "release"} :
        Req(o, c) = Req(p, d) => o = p /\ c = d
BY DEF Req

\* A failed round trip leaves behind at most its own request.
LEMMA UnavailableStray ==
    ASSUME NEW c \in Call, NEW op \in {"acquire", "renew", "release"}, Unavailable(op, c)
    PROVE  stray' \subseteq stray \cup {Req(op, c)}
BY DEF Unavailable

\* A renewal task that returns takes no other call's protection away.
LEMMA StoppedKey ==
    ASSUME LeaseInv, NEW c \in Call, Due(c), LoopStops(c), UNCHANGED <<lease, stage, held>>
    PROVE  KeyInv'
<1>1. ASSUME NEW d \in Call, Protected(d)'
      PROVE  lease'.token = d /\ lease'.ttl + age'[d] >= TTL
  <2>1. loop \in [Call -> LoopState] /\ age \in [Call -> 0..TTL]
    BY DEF LeaseInv, TypeOK
  <2>2. stage[c] = "live"
    BY DEF Due, LeaseInv, IdleInv
  <2>3. CASE d = c
    BY <2>1, <2>2, <2>3, <1>1 DEF LoopStops, Protected, Clocked
  <2>4. CASE d # c
    BY <2>1, <2>4, <1>1 DEF LoopStops, Protected, Clocked, Active, LeaseInv, KeyInv
  <2> QED BY <2>3, <2>4
<1> QED BY <1>1 DEF KeyInv

LEMMA NextLease == LeaseInv /\ [Next]_vars => LeaseInv'
<1> SUFFICES ASSUME LeaseInv, [Next]_vars PROVE KeyInv' /\ IdleInv' /\ StrayInv'
  BY NextType DEF LeaseInv
<1> USE LeaseAssumption, TimingAssumption
<1>0. /\ GoodLease(lease) /\ stage \in [Call -> Stage] /\ held \in [Call -> BOOLEAN]
      /\ loop \in [Call -> LoopState] /\ nap \in [Call -> 0..TTL] /\ age \in [Call -> 0..TTL]
      /\ stray \subseteq Request /\ lease.ttl \in 0..TTL
  BY TypeLease DEF LeaseInv, GoodLease, Lease
<1>i. KeyInv /\ IdleInv /\ StrayInv
  BY DEF LeaseInv
<1> USE DEF Protected, Active, Clocked
<1>1. ASSUME NEW c \in Call, Acquire(c) PROVE KeyInv' /\ IdleInv' /\ StrayInv'
  <2>1. CASE AcquireGranted(c)
    <3>1. lease' = Granted(c) /\ lease.token = NoCall
      BY <2>1 DEF AcquireGranted, SetNX, Free
    <3>2. ASSUME NEW d \in Call, Protected(d)'
          PROVE  lease'.token = d /\ lease'.ttl + age'[d] >= TTL
      <4>1. CASE d = c
        <5>1. lease'.token = c /\ lease'.ttl = TTL
          BY <3>1, GrantedGood
        <5>2. age'[c] = 0
          BY <2>1, <1>0 DEF AcquireGranted
        <5> QED BY <4>1, <5>1, <5>2
      <4>2. CASE d # c
        <5>1. Protected(d)
          BY <4>2, <3>2, <2>1, <1>0 DEF AcquireGranted
        <5> QED BY <5>1, <3>1, <1>i DEF KeyInv
      <4> QED BY <4>1, <4>2
    <3>3. KeyInv'
      BY <3>2 DEF KeyInv
    <3> QED BY <3>3, <2>1, <1>0, <1>i DEF AcquireGranted, IdleInv, StrayInv
  <2>2. CASE AcquireBusy(c)
    BY <2>2, <1>0, <1>i DEF AcquireBusy, KeyInv, IdleInv, StrayInv
  <2>3. CASE AcquireUnavailable(c)
    <3>1. StrayInv'
      BY <2>3, <1>0, <1>i, UnavailableStray, ReqUnique DEF AcquireUnavailable, StrayInv
    <3> QED BY <3>1, <2>3, <1>0, <1>i DEF AcquireUnavailable, KeyInv, IdleInv
  <2> QED BY <1>1, <2>1, <2>2, <2>3 DEF Acquire
<1>2. ASSUME NEW c \in Call, StartPipeline(c) PROVE KeyInv' /\ IdleInv' /\ StrayInv'
  BY <1>2, <1>0, <1>i DEF StartPipeline, KeyInv, IdleInv, StrayInv
<1>3. ASSUME NEW c \in Call, SetupFails(c) PROVE KeyInv' /\ IdleInv' /\ StrayInv'
  BY <1>3, <1>0, <1>i DEF SetupFails, KeyInv, IdleInv, StrayInv
<1>4. ASSUME NEW c \in Call, Renew(c) PROVE KeyInv' /\ IdleInv' /\ StrayInv'
  <2>1. CASE RenewOk(c)
    <3>1. lease' = Granted(c)
      BY <2>1 DEF RenewOk, RenewScript
    <3>2. ASSUME NEW d \in Call, Protected(d)'
          PROVE  lease'.token = d /\ lease'.ttl + age'[d] >= TTL
      <4>1. CASE d = c
        <5>1. lease'.token = c /\ lease'.ttl = TTL
          BY <3>1, GrantedGood
        <5>2. age'[c] = 0
          BY <2>1, <1>0 DEF RenewOk
        <5> QED BY <4>1, <5>1, <5>2
      <4>2. CASE d # c
        <5>1. Protected(d)
          BY <4>2, <3>2, <2>1, <1>0 DEF RenewOk
        <5>2. lease.token = c /\ lease.token = d
          BY <5>1, <2>1, <1>i DEF KeyInv, RenewOk
        <5> QED BY <5>2, <4>2
      <4> QED BY <4>1, <4>2
    <3>3. KeyInv'
      BY <3>2 DEF KeyInv
    <3> QED BY <3>3, <2>1, <1>0, <1>i DEF RenewOk, IdleInv, StrayInv
  <2>2. CASE RenewStale(c)
    <3>1. KeyInv'
      BY <2>2, StoppedKey DEF RenewStale
    <3> QED BY <3>1, <2>2, <1>0, <1>i DEF RenewStale, Due, LoopStops, IdleInv, StrayInv
  <2>3. CASE RenewUnavailable(c)
    <3>1. StrayInv'
      BY <2>3, <1>0, <1>i, UnavailableStray, ReqUnique DEF RenewUnavailable, StrayInv
    <3>2. KeyInv'
      BY <2>3, StoppedKey DEF RenewUnavailable
    <3> QED BY <3>1, <3>2, <2>3, <1>0, <1>i DEF RenewUnavailable, Due, LoopStops, IdleInv
  <2> QED BY <1>4, <2>1, <2>2, <2>3 DEF Renew
<1>5. ASSUME NEW c \in Call, EndPipeline(c) PROVE KeyInv' /\ IdleInv' /\ StrayInv'
  <2>1. StrayInv'
    BY <1>5, <1>0, <1>i, ReqUnique DEF EndPipeline, StrayInv
  <2> QED BY <2>1, <1>5, <1>0, <1>i DEF EndPipeline, KeyInv, IdleInv
<1>6. ASSUME NEW c \in Call, Release(c) PROVE KeyInv' /\ IdleInv' /\ StrayInv'
  <2>1. CASE ReleaseFrees(c)
    BY <2>1, <1>0, <1>i DEF ReleaseFrees, KeyInv, IdleInv, StrayInv
  <2>2. CASE ReleaseStale(c)
    BY <2>2, <1>0, <1>i DEF ReleaseStale, ReleaseScript, KeyInv, IdleInv, StrayInv
  <2>3. CASE ReleaseUnavailable(c)
    <3>1. StrayInv'
      BY <2>3, <1>0, <1>i, UnavailableStray, ReqUnique DEF ReleaseUnavailable, StrayInv
    <3> QED BY <3>1, <2>3, <1>0, <1>i DEF ReleaseUnavailable, KeyInv, IdleInv
  <2> QED BY <1>6, <2>1, <2>2, <2>3 DEF Release
<1>7. ASSUME NEW r \in Request, StrayStep(r) PROVE KeyInv' /\ IdleInv' /\ StrayInv'
  <2>1. CASE StrayArrives(r)
    <3>1. r.call \in Call /\ r = Req(r.op, r.call) /\ r.op \in {"acquire", "renew", "release"}
      BY DEF Request, Req
    <3>2. ASSUME NEW d \in Call, Protected(d)
          PROVE  lease'.token = d /\ lease'.ttl >= lease.ttl
      <4>1. lease.token = d
        BY <3>2, <1>i DEF KeyInv
      <4>2. d # r.call \/ r.op # "release"
        BY <2>1, <3>1, <3>2, <1>i DEF StrayArrives, StrayInv
      <4> QED BY <4>1, <4>2, <3>1, <2>1, <1>0
              DEF StrayArrives, Apply, SetNX, RenewScript, ReleaseScript, Granted, GoodLease, Free
    <3>3. ASSUME NEW d \in Call, Protected(d)'
          PROVE  lease'.token = d /\ lease'.ttl + age'[d] >= TTL
      <4>1. Protected(d) /\ age'[d] = age[d] /\ age[d] \in 0..TTL
        BY <3>3, <2>1, <1>0 DEF StrayArrives
      <4>2. lease.ttl + age[d] >= TTL
        BY <4>1, <1>i DEF KeyInv
      <4>3. lease'.token = d /\ lease'.ttl >= lease.ttl
        BY <3>2, <4>1
      <4>4. lease'.ttl \in 0..TTL
        BY NextType DEF LeaseInv, TypeOK, Lease
      <4> QED BY <4>1, <4>2, <4>3, <4>4, <1>0
    <3>4. KeyInv'
      BY <3>3 DEF KeyInv
    <3> QED BY <3>4, <2>1, <1>0, <1>i DEF StrayArrives, IdleInv, StrayInv
  <2>2. CASE StrayLost(r)
    BY <2>2, <1>0, <1>i DEF StrayLost, KeyInv, IdleInv, StrayInv
  <2> QED BY <1>7, <2>1, <2>2 DEF StrayStep
<1>8. CASE Crash
  <2>1. PICK sent \in SUBSET InFlight :
          LET Lost == {c \in Call : \/ stage[c] \in {"setup", "live", "ending"}
                                   \/ Req("acquire", c) \in sent}
          IN  /\ stage' = [c \in Call |-> IF c \in Lost THEN "dead" ELSE stage[c]]
              /\ held' = [c \in Call |-> FALSE]
              /\ stray' = stray \cup sent
    BY <1>8 DEF Crash
  <2>2. \A c \in Call : stage'[c] \notin {"setup", "live", "ending"}
    BY <2>1
  <2>3. \A c \in Call : Req("release", c) \in sent => stage[c] = "ending"
    BY <2>1, ReqUnique DEF InFlight
  <2>4. StrayInv'
    BY <2>1, <2>3, <1>0, <1>i DEF StrayInv
  <2>5. \A c \in Call : ~held'[c] /\ loop'[c] = "off"
    BY <1>8 DEF Crash
  <2> QED BY <2>2, <2>4, <2>5 DEF KeyInv, IdleInv
<1>9. CASE Tick
  <2>1. ASSUME NEW c \in Call, Protected(c)'
        PROVE  lease'.token = c /\ lease'.ttl + age'[c] >= TTL
    <3>1. Clocked(c) /\ Active(c) /\ age'[c] = Older(age[c]) /\ age'[c] < TTL
      BY <2>1, <1>9 DEF Tick
    <3>2. age[c] < TTL /\ age'[c] = age[c] + 1
      BY <3>1, <1>0 DEF Older
    <3>3. lease.token = c /\ lease.ttl + age[c] >= TTL
      BY <3>1, <3>2, <1>i DEF KeyInv
    <3>4. lease.ttl > 1
      BY <3>1, <3>2, <3>3, <1>0
    <3>5. lease' = [lease EXCEPT !.ttl = lease.ttl - 1]
      BY <3>4, <1>9, <1>0 DEF Tick, Expire
    <3>6. lease'.token = c /\ lease'.ttl = lease.ttl - 1
      BY <3>3, <3>5, <1>0 DEF GoodLease, Lease
    <3> QED BY <3>2, <3>3, <3>6, <1>0
  <2>2. KeyInv'
    BY <2>1 DEF KeyInv
  <2> QED BY <2>2, <1>9, <1>0, <1>i DEF Tick, IdleInv, StrayInv
<1>10. CASE UNCHANGED vars
  BY <1>10, <1>i DEF vars, KeyInv, IdleInv, StrayInv
<1> QED
  BY <1>1, <1>2, <1>3, <1>4, <1>5, <1>6, <1>7, <1>8, <1>9, <1>10 DEF Next, CallStep

THEOREM LeaseInvariant == Spec => []LeaseInv
BY InitLease, NextLease, PTL DEF Spec

\* However requests are lost, delayed or reordered and whenever the process
\* crashes, a call that refreshed its lease within the TTL owns the key, so two
\* such calls are never on the line together.
THEOREM Exclusion == Spec => []ProtectedExclusive
<1>1. LeaseInv => ProtectedExclusive
  BY DEF LeaseInv, KeyInv, ProtectedExclusive
<1> QED BY <1>1, LeaseInvariant, PTL

-----------------------------------------------------------------------------
(* What failing open costs *)

\* A call on the line that has no lease it still looks after.
Degraded == {c \in Call : Active(c) /\ ~Clocked(c)}

\* A punctual call renews well before the TTL.
PunctualInv ==
    Punctual =>
        \A c \in Call :
            /\ stage[c] = "setup" /\ held[c] => age[c] <= SetupMax
            /\ loop[c] = "sleeping" => nap[c] <= RenewInterval + Lateness /\ age[c] <= SetupMax + nap[c]

DamageInv == Punctual => Cardinality(Degraded) <= faults

LEMMA InitPunctual == Init => PunctualInv
BY TimingAssumption DEF Init, PunctualInv

LEMMA NextPunctual == LeaseInv /\ PunctualInv /\ [Next]_vars => PunctualInv'
<1> SUFFICES ASSUME LeaseInv, PunctualInv, [Next]_vars, Punctual, NEW c \in Call
             PROVE  /\ stage'[c] = "setup" /\ held'[c] => age'[c] <= SetupMax
                    /\ loop'[c] = "sleeping" => nap'[c] <= RenewInterval + Lateness
                                               /\ age'[c] <= SetupMax + nap'[c]
  BY DEF PunctualInv
<1> USE LeaseAssumption, TimingAssumption
<1>0. /\ stage \in [Call -> Stage] /\ held \in [Call -> BOOLEAN] /\ loop \in [Call -> LoopState]
      /\ nap \in [Call -> 0..TTL] /\ age \in [Call -> 0..TTL]
  BY DEF LeaseInv, TypeOK
<1>i. /\ stage[c] = "setup" /\ held[c] => age[c] <= SetupMax
      /\ loop[c] = "sleeping" => nap[c] <= RenewInterval + Lateness /\ age[c] <= SetupMax + nap[c]
      /\ stage[c] = "idle" => ~held[c]
      /\ loop[c] # "off" => held[c] /\ stage[c] = "live"
  BY DEF PunctualInv, LeaseInv, IdleInv
<1>1. ASSUME NEW d \in Call, CallStep(d)
      PROVE  /\ stage'[c] = "setup" /\ held'[c] => age'[c] <= SetupMax
             /\ loop'[c] = "sleeping" => nap'[c] <= RenewInterval + Lateness
                                        /\ age'[c] <= SetupMax + nap'[c]
  <2>1. CASE d = c
    <3>1. CASE Acquire(d)
      BY <2>1, <3>1, <1>0, <1>i DEF Acquire, AcquireGranted, AcquireBusy, AcquireUnavailable
    <3>2. CASE StartPipeline(d)
      BY <2>1, <3>2, <1>0, <1>i DEF StartPipeline
    <3>3. CASE SetupFails(d)
      BY <2>1, <3>3, <1>0, <1>i DEF SetupFails
    <3>4. CASE Renew(d)
      BY <2>1, <3>4, <1>0, <1>i DEF Renew, RenewOk, RenewStale, RenewUnavailable, LoopStops, Due
    <3>5. CASE EndPipeline(d)
      BY <2>1, <3>5, <1>0, <1>i DEF EndPipeline
    <3>6. CASE Release(d)
      BY <2>1, <3>6, <1>0, <1>i DEF Release, ReleaseFrees, ReleaseStale, ReleaseUnavailable
    <3> QED BY <1>1, <3>1, <3>2, <3>3, <3>4, <3>5, <3>6 DEF CallStep
  <2>2. CASE d # c
    <3>1. /\ stage'[c] = stage[c] /\ held'[c] = held[c] /\ loop'[c] = loop[c]
          /\ nap'[c] = nap[c] /\ age'[c] = age[c]
      BY <2>2, <1>1, <1>0
         DEF CallStep, Acquire, AcquireGranted, AcquireBusy, AcquireUnavailable, StartPipeline,
             SetupFails, Renew, RenewOk, RenewStale, RenewUnavailable, LoopStops, EndPipeline,
             Release, ReleaseFrees, ReleaseStale, ReleaseUnavailable
    <3> QED BY <3>1, <1>i
  <2> QED BY <2>1, <2>2
<1>2. CASE \E r \in Request : StrayStep(r)
  BY <1>2, <1>i DEF StrayStep, StrayArrives, StrayLost
<1>3. CASE Crash
  BY <1>3 DEF Crash
<1>4. CASE Tick
  <2>1. ~Overdue(c)
    BY <1>4 DEF Tick
  <2>2. /\ stage'[c] = stage[c] /\ held'[c] = held[c] /\ loop'[c] = loop[c]
        /\ nap'[c] = IF loop[c] = "sleeping" THEN Older(nap[c]) ELSE nap[c]
        /\ age'[c] = IF Clocked(c) THEN Older(age[c]) ELSE age[c]
    BY <1>4 DEF Tick
  <2>3. nap[c] \in 0..TTL /\ age[c] \in 0..TTL
    BY <1>0
  <2>4. CASE stage[c] = "setup" /\ held[c]
    BY <2>1, <2>2, <2>3, <2>4, <1>i DEF Overdue, Older, Clocked
  <2>5. CASE loop[c] = "sleeping"
    BY <2>1, <2>2, <2>3, <2>5, <1>i DEF Overdue, Older, Clocked
  <2> QED BY <2>2, <2>4, <2>5
<1>5. CASE UNCHANGED vars
  BY <1>5, <1>i DEF vars
<1> QED BY <1>1, <1>2, <1>3, <1>4, <1>5 DEF Next

\* With a punctual process every call that looks after its lease is protected.
LEMMA ClockedProtected ==
    LeaseInv /\ PunctualInv /\ Punctual => \A c \in Call : Active(c) /\ Clocked(c) => Protected(c)
BY LeaseAssumption, TimingAssumption
   DEF LeaseInv, TypeOK, PunctualInv, IdleInv, Protected, Clocked, Active

LEMMA DegradedFinite == IsFiniteSet(Degraded) /\ Cardinality(Degraded) \in Nat
<1>1. Degraded \subseteq Call
  BY DEF Degraded
<1> QED BY <1>1, CallFinite, FS_Subset, FS_CardinalityType

\* One step adds at most one degraded call, and only with a failed round trip.
LEMMA NextDegraded ==
    ASSUME LeaseInv, PunctualInv, Punctual, [Next]_vars
    PROVE  \/ Degraded' \subseteq Degraded /\ faults' = faults
           \/ faults' = faults + 1 /\ \E c \in Call : Degraded' \subseteq Degraded \cup {c}
<1>0. /\ stage \in [Call -> Stage] /\ held \in [Call -> BOOLEAN] /\ loop \in [Call -> LoopState]
  BY DEF LeaseInv, TypeOK
<1>i. \A c \in Call : /\ stage[c] = "idle" => ~held[c]
                      /\ loop[c] # "off" => held[c] /\ stage[c] = "live"
  BY DEF LeaseInv, IdleInv
<1> USE DEF Degraded, Active, Clocked
<1>1. ASSUME NEW c \in Call, CallStep(c)
      PROVE  \/ Degraded' \subseteq Degraded /\ faults' = faults
             \/ faults' = faults + 1 /\ Degraded' \subseteq Degraded \cup {c}
  <2>1. CASE AcquireGranted(c) \/ AcquireBusy(c)
    BY <2>1, <1>0, <1>i DEF AcquireGranted, AcquireBusy
  <2>2. CASE AcquireUnavailable(c)
    BY <2>2, <1>0, <1>i DEF AcquireUnavailable, Unavailable
  <2>3. CASE StartPipeline(c)
    BY <2>3, <1>0, <1>i DEF StartPipeline
  <2>4. CASE SetupFails(c)
    BY <2>4, <1>0, <1>i DEF SetupFails
  <2>5. CASE RenewOk(c)
    BY <2>5, <1>0, <1>i DEF RenewOk
  <2>6. CASE RenewStale(c)
    <3>1. Active(c) /\ Clocked(c)
      BY <2>6, <1>i DEF RenewStale, Due
    <3>2. lease.token = c
      BY <3>1, ClockedProtected DEF LeaseInv, KeyInv
    <3> QED BY <3>2, <2>6 DEF RenewStale
  <2>7. CASE RenewUnavailable(c)
    BY <2>7, <1>0, <1>i DEF RenewUnavailable, Unavailable, LoopStops, Due
  <2>8. CASE EndPipeline(c)
    BY <2>8, <1>0, <1>i DEF EndPipeline
  <2>9. CASE ReleaseFrees(c) \/ ReleaseStale(c)
    BY <2>9, <1>0, <1>i DEF ReleaseFrees, ReleaseStale
  <2>10. CASE ReleaseUnavailable(c)
    BY <2>10, <1>0, <1>i DEF ReleaseUnavailable, Unavailable
  <2> QED BY <1>1, <2>1, <2>2, <2>3, <2>4, <2>5, <2>6, <2>7, <2>8, <2>9, <2>10
          DEF CallStep, Acquire, Renew, Release
<1>2. CASE \E r \in Request : StrayStep(r)
  BY <1>2 DEF StrayStep, StrayArrives, StrayLost
<1>3. CASE Crash
  BY <1>3, <1>0 DEF Crash
<1>4. CASE Tick
  BY <1>4 DEF Tick
<1>5. CASE UNCHANGED vars
  BY <1>5 DEF vars
<1> QED BY <1>1, <1>2, <1>3, <1>4, <1>5 DEF Next

LEMMA NextDamage == LeaseInv /\ PunctualInv /\ DamageInv /\ [Next]_vars => DamageInv'
<1> SUFFICES ASSUME LeaseInv, PunctualInv, DamageInv, [Next]_vars, Punctual
             PROVE  Cardinality(Degraded') <= faults'
  BY DEF DamageInv
<1>1. Cardinality(Degraded) <= faults /\ faults \in Nat
  BY DEF DamageInv, LeaseInv, TypeOK
<1>2. CASE Degraded' \subseteq Degraded /\ faults' = faults
  <2>1. Cardinality(Degraded') <= Cardinality(Degraded) /\ Cardinality(Degraded') \in Nat
    BY <1>2, DegradedFinite, FS_Subset, FS_CardinalityType
  <2> QED BY <1>1, <1>2, <2>1, DegradedFinite
<1>3. ASSUME faults' = faults + 1, NEW c \in Call, Degraded' \subseteq Degraded \cup {c}
      PROVE  Cardinality(Degraded') <= faults'
  <2>1. IsFiniteSet(Degraded \cup {c}) /\ Cardinality(Degraded \cup {c}) <= Cardinality(Degraded) + 1
    BY DegradedFinite, FS_AddElement
  <2>2. Cardinality(Degraded') <= Cardinality(Degraded \cup {c}) /\ Cardinality(Degraded') \in Nat
        /\ Cardinality(Degraded \cup {c}) \in Nat
    BY <1>3, <2>1, FS_Subset, FS_CardinalityType
  <2> QED BY <1>1, <1>3, <2>1, <2>2, DegradedFinite
<1> QED BY <1>2, <1>3, NextDegraded

LEMMA InitDamage == Init => DamageInv
<1> SUFFICES ASSUME Init PROVE Cardinality(Degraded) <= faults
  BY DEF DamageInv
<1>1. Degraded = {}
  BY DEF Init, Degraded, Active
<1> QED BY <1>1, FS_EmptySet DEF Init

LEMMA DamageFollows == LeaseInv /\ PunctualInv /\ DamageInv => DamageBounded
<1> SUFFICES ASSUME LeaseInv, PunctualInv, DamageInv, Punctual
             PROVE  Cardinality({c \in Call : Active(c)}) <= 1 + faults
  BY DEF DamageBounded
<1> DEFINE Busy == {c \in Call : Active(c)}
<1>0. faults \in Nat /\ Cardinality(Degraded) <= faults
  BY DEF LeaseInv, TypeOK, DamageInv
<1>1. Busy \subseteq Degraded \cup {lease.token}
  <2> SUFFICES ASSUME NEW c \in Call, Active(c), Clocked(c) PROVE c = lease.token
    BY DEF Degraded
  <2> QED BY ClockedProtected DEF LeaseInv, KeyInv
<1>2. /\ IsFiniteSet(Degraded \cup {lease.token})
      /\ Cardinality(Degraded \cup {lease.token}) <= Cardinality(Degraded) + 1
  BY DegradedFinite, FS_AddElement
<1>3. /\ Cardinality(Busy) <= Cardinality(Degraded \cup {lease.token})
      /\ Cardinality(Busy) \in Nat
      /\ Cardinality(Degraded \cup {lease.token}) \in Nat
  BY <1>1, <1>2, FS_Subset, FS_CardinalityType
<1> HIDE DEF Busy
<1>4. Cardinality(Busy) <= 1 + faults
  BY <1>0, <1>2, <1>3, DegradedFinite
<1> QED BY <1>4 DEF Busy

\* On a process that keeps its renewal schedule, f failed round trips put at most
\* 1 + f calls on the line.
THEOREM Damage == Spec => []DamageBounded
<1>1. Init => LeaseInv /\ PunctualInv /\ DamageInv
  BY InitLease, InitPunctual, InitDamage
<1>2. LeaseInv /\ PunctualInv /\ DamageInv /\ [Next]_vars => (LeaseInv /\ PunctualInv /\ DamageInv)'
  BY NextLease, NextPunctual, NextDamage
<1> QED BY <1>1, <1>2, DamageFollows, PTL DEF Spec

-----------------------------------------------------------------------------
(* The lease implements the abstract line *)

\* A call that has not asked has no acquire on the wire.
AskInv == \A c \in Call : Req("acquire", c) \in stray => stage[c] # "idle"

LEMMA NextAsk == LeaseInv /\ AskInv /\ [Next]_vars => AskInv'
<1> SUFFICES ASSUME LeaseInv, AskInv, [Next]_vars, NEW c \in Call, Req("acquire", c) \in stray'
             PROVE  stage'[c] # "idle"
  BY DEF AskInv
<1>0. stage \in [Call -> Stage] /\ (Req("acquire", c) \in stray => stage[c] # "idle")
  BY DEF LeaseInv, TypeOK, AskInv
<1>1. ASSUME NEW d \in Call, CallStep(d) PROVE stage'[c] # "idle"
  <2>1. CASE Acquire(d)
    BY <2>1, <1>0, UnavailableStray, ReqUnique
       DEF Acquire, AcquireGranted, AcquireBusy, AcquireUnavailable
  <2>2. CASE StartPipeline(d) \/ SetupFails(d) \/ EndPipeline(d)
    BY <2>2, <1>0, ReqUnique DEF StartPipeline, SetupFails, EndPipeline
  <2>3. CASE Renew(d)
    BY <2>3, <1>0, UnavailableStray, ReqUnique
       DEF Renew, RenewOk, RenewStale, RenewUnavailable, LoopStops
  <2>4. CASE Release(d)
    BY <2>4, <1>0, UnavailableStray, ReqUnique
       DEF Release, ReleaseFrees, ReleaseStale, ReleaseUnavailable
  <2> QED BY <1>1, <2>1, <2>2, <2>3, <2>4 DEF CallStep
<1>2. CASE \E r \in Request : StrayStep(r)
  BY <1>2, <1>0 DEF StrayStep, StrayArrives, StrayLost
<1>3. CASE Crash
  BY <1>3, <1>0 DEF Crash
<1>4. CASE Tick \/ UNCHANGED vars
  BY <1>4, <1>0 DEF Tick, vars
<1> QED BY <1>1, <1>2, <1>3, <1>4 DEF Next

LEMMA InitRefines == Init => Abs!Init
BY DEF Init, Abs!Init, Fresh, Free

LEMMA NextRefines == LeaseInv /\ AskInv /\ [Next]_vars => [Abs!Next]_<<lease.token, Fresh>>
<1> SUFFICES ASSUME LeaseInv, AskInv, [Next]_vars
             PROVE  Abs!Next \/ UNCHANGED <<lease.token, Fresh>>
  OBVIOUS
<1>0. stage \in [Call -> Stage] /\ stray \subseteq Request /\ GoodLease(lease)
  BY TypeLease DEF LeaseInv
<1>w. ASSUME lease'.token = lease.token, Fresh' \subseteq Fresh PROVE Abs!Next
  BY <1>w DEF Abs!Next, Abs!Withdraw
<1>d. ASSUME lease' = Free, Fresh' = Fresh PROVE Abs!Next
  BY <1>d DEF Abs!Next, Abs!Drop, Free
<1>1. ASSUME NEW c \in Call, Acquire(c) PROVE Abs!Next
  <2>1. CASE AcquireGranted(c)
    <3>1. lease.token = NoCall /\ lease'.token = c
      BY <2>1, GrantedGood DEF AcquireGranted, SetNX, Free
    <3>2. c \in Fresh /\ Fresh' = Fresh \ {c}
      BY <2>1, <1>0 DEF AcquireGranted, Fresh, AskInv
    <3> QED BY <3>1, <3>2 DEF Abs!Next, Abs!Take
  <2>2. CASE AcquireBusy(c)
    BY <2>2, <1>0, <1>w DEF AcquireBusy, Fresh
  <2>3. CASE AcquireUnavailable(c)
    <3>1. Fresh' \subseteq Fresh
      BY <2>3, <1>0, UnavailableStray, ReqUnique DEF AcquireUnavailable, Fresh
    <3> QED BY <3>1, <2>3, <1>w DEF AcquireUnavailable
  <2> QED BY <1>1, <2>1, <2>2, <2>3 DEF Acquire
<1>2. ASSUME NEW c \in Call, StartPipeline(c) \/ SetupFails(c) \/ EndPipeline(c) PROVE Abs!Next
  <2>1. Fresh' \subseteq Fresh
    BY <1>2, <1>0, ReqUnique DEF StartPipeline, SetupFails, EndPipeline, Fresh
  <2> QED BY <2>1, <1>2, <1>w DEF StartPipeline, SetupFails, EndPipeline
<1>3. ASSUME NEW c \in Call, Renew(c) PROVE Abs!Next
  <2>1. lease'.token = lease.token
    BY <1>3, GrantedGood DEF Renew, RenewOk, RenewStale, RenewUnavailable, RenewScript
  <2>2. Fresh' \subseteq Fresh
    BY <1>3, <1>0, UnavailableStray, ReqUnique
       DEF Renew, RenewOk, RenewStale, RenewUnavailable, LoopStops, Fresh
  <2> QED BY <2>1, <2>2, <1>w
<1>4. ASSUME NEW c \in Call, Release(c) PROVE Abs!Next
  <2>1. CASE ReleaseFrees(c)
    BY <2>1, <1>0, <1>d DEF ReleaseFrees, ReleaseScript, Fresh
  <2>2. CASE ReleaseStale(c)
    BY <2>2, <1>0, <1>w DEF ReleaseStale, ReleaseScript, Fresh
  <2>3. CASE ReleaseUnavailable(c)
    <3>1. Fresh' \subseteq Fresh
      BY <2>3, <1>0, UnavailableStray, ReqUnique DEF ReleaseUnavailable, Fresh
    <3> QED BY <3>1, <2>3, <1>w DEF ReleaseUnavailable
  <2> QED BY <1>4, <2>1, <2>2, <2>3 DEF Release
<1>5. ASSUME NEW r \in Request, StrayStep(r) PROVE Abs!Next
  <2>1. r.call \in Call /\ r = Req(r.op, r.call) /\ r.op \in {"acquire", "renew", "release"}
    BY DEF Request, Req
  <2>2. r \in stray /\ Fresh' \subseteq Fresh
    BY <1>5 DEF StrayStep, StrayArrives, StrayLost, Fresh
  <2>3. CASE lease'.token = lease.token
    BY <2>2, <2>3, <1>w
  <2>4. CASE lease'.token # lease.token /\ r.op = "acquire"
    <3>1. lease' = SetNX(lease, r.call)
      BY <2>4, <1>5 DEF StrayStep, StrayArrives, StrayLost, Apply
    <3>2. lease.token = NoCall /\ lease'.token = r.call
      BY <3>1, <2>1, <2>4, GrantedGood DEF SetNX, Free
    <3>3. r.call \in Fresh /\ Fresh' = Fresh \ {r.call}
      BY <2>1, <2>2, <2>4, <1>5, ReqUnique DEF StrayStep, StrayArrives, StrayLost, Fresh, AskInv
    <3> QED BY <3>2, <3>3, <2>1 DEF Abs!Next, Abs!Take
  <2>5. CASE lease'.token # lease.token /\ r.op # "acquire"
    <3>1. lease' = Free
      BY <2>1, <2>5, <1>5, GrantedGood
         DEF StrayStep, StrayArrives, StrayLost, Apply, RenewScript, ReleaseScript
    <3>2. Fresh' = Fresh
      BY <2>1, <2>5, <1>5, ReqUnique DEF StrayStep, StrayArrives, StrayLost, Fresh
    <3> QED BY <3>1, <3>2, <1>d
  <2> QED BY <2>3, <2>4, <2>5
<1>6. CASE Crash
  <2>1. Fresh' \subseteq Fresh
    <3>1. PICK sent \in SUBSET InFlight :
            LET Lost == {c \in Call : \/ stage[c] \in {"setup", "live", "ending"}
                                     \/ Req("acquire", c) \in sent}
            IN  /\ stage' = [c \in Call |-> IF c \in Lost THEN "dead" ELSE stage[c]]
                /\ stray' = stray \cup sent
      BY <1>6 DEF Crash
    <3>2. \A c \in Call : Req("acquire", c) \in sent => stage[c] = "idle"
      BY ReqUnique DEF InFlight
    <3> QED BY <3>1, <3>2, <1>0 DEF Fresh
  <2> QED BY <2>1, <1>6, <1>w DEF Crash
<1>7. CASE Tick
  <2>1. Fresh' = Fresh
    BY <1>7 DEF Tick, Fresh
  <2>2. lease' = Free \/ lease'.token = lease.token
    BY <1>7, <1>0 DEF Tick, Expire, GoodLease, Lease
  <2> QED BY <2>1, <2>2, <1>w, <1>d
<1>8. CASE UNCHANGED vars
  BY <1>8 DEF vars, Fresh
<1> QED BY <1>1, <1>2, <1>3, <1>4, <1>5, <1>6, <1>7, <1>8 DEF Next, CallStep

\* Redis, the scripts and the pipeline together implement the abstract line: one
\* owner at a time, each call at most one tenancy.
THEOREM Refinement == Spec => Refines
<1>1. Init => LeaseInv /\ AskInv /\ Abs!Init
  BY InitLease, InitRefines DEF Init, AskInv
<1>2. LeaseInv /\ AskInv /\ [Next]_vars => (LeaseInv /\ AskInv)'
  BY NextLease, NextAsk
<1> QED BY <1>1, <1>2, NextRefines, PTL DEF Spec, Refines, Abs!Spec

-----------------------------------------------------------------------------
(* How a tenancy ends, and when the line is announced or refused *)

\* Every step of a call but its own acquisition, renewal or release leaves the
\* key alone.
LEMMA KeyMoves ==
    ASSUME NEW c \in Call, CallStep(c), ~AcquireGranted(c), ~RenewOk(c), ~ReleaseFrees(c)
    PROVE  lease' = lease
BY DEF CallStep, Acquire, AcquireBusy, AcquireUnavailable, StartPipeline, SetupFails, Renew,
       RenewStale, RenewUnavailable, EndPipeline, Release, ReleaseStale, ReleaseScript,
       ReleaseUnavailable

\* A key that is there has time to live.
AliveInv == lease # Free => lease.ttl > 0

LEMMA NextAlive == LeaseInv /\ AliveInv /\ [Next]_vars => AliveInv'
<1> SUFFICES ASSUME LeaseInv, AliveInv, [Next]_vars PROVE AliveInv'
  OBVIOUS
<1> USE LeaseAssumption
<1>0. GoodLease(lease) /\ lease.ttl \in 0..TTL
  BY TypeLease DEF LeaseInv, GoodLease, Lease
<1>1. ASSUME NEW c \in Call PROVE Granted(c).ttl > 0
  BY GrantedGood
<1>2. ASSUME NEW c \in Call, CallStep(c) PROVE AliveInv'
  <2>1. CASE AcquireGranted(c)
    BY <2>1, <1>1 DEF AcquireGranted, SetNX, AliveInv
  <2>2. CASE RenewOk(c)
    BY <2>2, <1>1 DEF RenewOk, RenewScript, AliveInv
  <2>3. CASE ReleaseFrees(c)
    BY <2>3 DEF ReleaseFrees, ReleaseScript, AliveInv
  <2> QED BY <1>2, <2>1, <2>2, <2>3, KeyMoves DEF AliveInv
<1>3. ASSUME NEW r \in Request, StrayStep(r) PROVE AliveInv'
  <2>1. r.call \in Call /\ r.op \in {"acquire", "renew", "release"}
    BY DEF Request
  <2>2. CASE StrayArrives(r)
    BY <2>1, <2>2, <1>1 DEF StrayArrives, Apply, SetNX, RenewScript, ReleaseScript, AliveInv
  <2> QED BY <1>3, <2>2 DEF StrayStep, StrayLost, AliveInv
<1>4. CASE Tick
  <2>1. lease' = Expire(lease)
    BY <1>4 DEF Tick
  <2>2. CASE lease.ttl <= 1
    BY <2>1, <2>2 DEF Expire, AliveInv
  <2>3. CASE lease.ttl > 1
    <3>1. lease' = [lease EXCEPT !.ttl = lease.ttl - 1]
      BY <2>1, <2>3, <1>0 DEF Expire
    <3>2. lease'.ttl = lease.ttl - 1
      BY <3>1, <1>0 DEF GoodLease, Lease
    <3> QED BY <3>2, <2>3, <1>0 DEF AliveInv
  <2> QED BY <2>2, <2>3, <1>0
<1>5. CASE Crash \/ UNCHANGED vars
  BY <1>5 DEF Crash, vars, AliveInv
<1> QED BY <1>2, <1>3, <1>4, <1>5 DEF Next

LEMMA StepEvicts ==
    ASSUME LeaseInv, AliveInv, [Next]_vars, NEW c \in Call, lease.token = c, lease'.token # c
    PROVE  /\ lease' = Free
           /\ \/ stage[c] = "ending" /\ stage'[c] = "freed"
              \/ Req("release", c) \in stray \ stray'
              \/ lease.ttl = 1
<1> USE LeaseAssumption
<1>0. /\ GoodLease(lease) /\ lease # Free /\ lease.ttl \in 0..TTL /\ stage \in [Call -> Stage]
  BY TypeLease DEF LeaseInv, TypeOK, GoodLease, Lease, Free
<1>1. ASSUME NEW d \in Call, CallStep(d)
      PROVE  lease' = Free /\ stage[c] = "ending" /\ stage'[c] = "freed"
  <2>1. ~AcquireGranted(d)
    BY <1>0 DEF AcquireGranted
  <2>2. ~RenewOk(d)
    BY <1>0, GrantedGood DEF RenewOk, RenewScript
  <2>3. ReleaseFrees(d)
    BY <1>1, <2>1, <2>2, KeyMoves
  <2> QED BY <2>3, <1>0 DEF ReleaseFrees, ReleaseScript
<1>2. ASSUME NEW r \in Request, StrayStep(r)
      PROVE  lease' = Free /\ Req("release", c) \in stray \ stray'
  <2>1. r.call \in Call /\ r = Req(r.op, r.call) /\ r.op \in {"acquire", "renew", "release"}
    BY DEF Request, Req
  <2>2. StrayArrives(r)
    BY <1>2 DEF StrayStep, StrayLost
  <2>3. r.op = "release" /\ r.call = c /\ lease' = Free
    BY <2>1, <2>2, <1>0, GrantedGood
       DEF StrayArrives, Apply, SetNX, RenewScript, ReleaseScript
  <2> QED BY <2>1, <2>2, <2>3 DEF StrayArrives
<1>3. ~Crash
  BY DEF Crash
<1>4. CASE Tick
  <2>1. lease' = Expire(lease)
    BY <1>4 DEF Tick
  <2>2. lease.ttl <= 1 /\ lease' = Free
    BY <2>1, <1>0 DEF Expire, GoodLease, Lease
  <2>3. lease.ttl > 0
    BY <1>0 DEF AliveInv
  <2> QED BY <2>2, <2>3, <1>0
<1>5. ~UNCHANGED vars
  BY DEF vars
<1> QED BY <1>1, <1>2, <1>3, <1>4, <1>5 DEF Next

\* Whatever is lost, late or repeated, a call's lease ends by its own release,
\* by the release request it gave up on or by its time to live.
THEOREM Evictions == Spec => OnlyOwnerOrTimeEvicts
<1>1. Init => AliveInv
  BY DEF Init, AliveInv
<1>2. LeaseInv /\ AliveInv /\ [Next]_vars =>
        [\A c \in Call :
           lease.token = c /\ lease'.token # c =>
              /\ lease' = Free
              /\ \/ stage[c] = "ending" /\ stage'[c] = "freed"
                 \/ Req("release", c) \in stray \ stray'
                 \/ lease.ttl = 1]_vars
  BY StepEvicts
<1> QED BY <1>1, <1>2, NextAlive, LeaseInvariant, PTL DEF Spec, OnlyOwnerOrTimeEvicts

LEMMA StepAnnounces ==
    ASSUME LeaseInv, [Next]_vars, NEW c \in Call, stage[c] # "freed", stage'[c] = "freed"
    PROVE  lease' = Free /\ \A d \in Call : ~Protected(d)'
<1>0. /\ stage \in [Call -> Stage] /\ held \in [Call -> BOOLEAN]
  BY DEF LeaseInv, TypeOK
<1>1. PICK d \in Call : CallStep(d)
  BY DEF Next, StrayStep, StrayArrives, StrayLost, Crash, Tick, vars
<1>2. ReleaseFrees(d)
  BY <1>0, <1>1 DEF CallStep, Acquire, AcquireGranted, AcquireBusy, AcquireUnavailable,
     StartPipeline, SetupFails, Renew, RenewOk, RenewStale, RenewUnavailable, EndPipeline,
     Release, ReleaseStale, ReleaseUnavailable
<1>3. lease' = Free
  BY <1>2 DEF ReleaseFrees, ReleaseScript
<1>4. LeaseInv'
  BY NextLease
<1>5. lease'.token = NoCall
  BY <1>3 DEF Free
<1> QED BY <1>3, <1>4, <1>5, LeaseAssumption DEF LeaseInv, KeyInv

\* The follow-up for rejected guests starts only at a release after which no
\* call that still has its lease is on the line.
THEOREM Announcements == Spec => AvailabilityTruthful
<1>1. LeaseInv /\ [Next]_vars =>
        [\A c \in Call :
           stage[c] # "freed" /\ stage'[c] = "freed" =>
              lease' = Free /\ \A d \in Call : ~Protected(d)']_vars
  BY StepAnnounces
<1> QED BY <1>1, LeaseInvariant, PTL DEF Spec, AvailabilityTruthful

\* Without a failed round trip the stored token is that of a call that is there
\* or was lost with its process, and an acquire on the wire is of a lost call.
FaultlessInv ==
    faults = 0 =>
        \A c \in Call :
            /\ lease.token = c => stage[c] \in {"setup", "live", "ending", "dead"}
            /\ stage[c] \in {"setup", "live"} => held[c]
            /\ Req("acquire", c) \in stray => stage[c] = "dead"

LEMMA NextFaultless == LeaseInv /\ FaultlessInv /\ [Next]_vars => FaultlessInv'
<1> SUFFICES ASSUME LeaseInv, FaultlessInv, [Next]_vars, faults' = 0, NEW c \in Call
             PROVE  /\ lease'.token = c => stage'[c] \in {"setup", "live", "ending", "dead"}
                    /\ stage'[c] \in {"setup", "live"} => held'[c]
                    /\ Req("acquire", c) \in stray' => stage'[c] = "dead"
  BY DEF FaultlessInv
<1> USE LeaseAssumption
<1>0. /\ stage \in [Call -> Stage] /\ held \in [Call -> BOOLEAN] /\ faults \in Nat
      /\ GoodLease(lease) /\ lease.token \in Call \cup {NoCall}
  BY TypeLease DEF LeaseInv, TypeOK, GoodLease, Lease
<1>1. faults = 0
  BY <1>0 DEF Next, CallStep, Acquire, AcquireGranted, AcquireBusy, AcquireUnavailable,
     StartPipeline, SetupFails, Renew, RenewOk, RenewStale, RenewUnavailable, EndPipeline, Release,
     ReleaseFrees, ReleaseStale, ReleaseUnavailable, Unavailable, StrayStep, StrayArrives,
     StrayLost, Crash, Tick, vars
<1>2. /\ lease.token = c => stage[c] \in {"setup", "live", "ending", "dead"}
      /\ stage[c] \in {"setup", "live"} => held[c]
      /\ Req("acquire", c) \in stray => stage[c] = "dead"
  BY <1>1 DEF FaultlessInv
<1>3. ASSUME NEW d \in Call, CallStep(d)
      PROVE  /\ lease'.token = c => stage'[c] \in {"setup", "live", "ending", "dead"}
             /\ stage'[c] \in {"setup", "live"} => held'[c]
             /\ Req("acquire", c) \in stray' => stage'[c] = "dead"
  <2>1. CASE AcquireGranted(d)
    BY <2>1, <1>0, <1>2, GrantedGood DEF AcquireGranted, SetNX, Granted
  <2>2. CASE AcquireBusy(d)
    BY <2>2, <1>0, <1>2 DEF AcquireBusy
  <2>3. CASE StartPipeline(d) \/ SetupFails(d)
    BY <2>3, <1>0, <1>2 DEF StartPipeline, SetupFails
  <2>4. CASE RenewOk(d)
    BY <2>4, <1>0, <1>2, GrantedGood DEF RenewOk, RenewScript, Granted
  <2>5. CASE RenewStale(d)
    BY <2>5, <1>2 DEF RenewStale
  <2>6. CASE EndPipeline(d)
    BY <2>6, <1>0, <1>2, ReqUnique DEF EndPipeline
  <2>7. CASE ReleaseFrees(d)
    BY <2>7, <1>0, <1>2 DEF ReleaseFrees, ReleaseScript, Free
  <2>8. CASE ReleaseStale(d)
    BY <2>8, <1>0, <1>2 DEF ReleaseStale, ReleaseScript
  <2>9. ~AcquireUnavailable(d) /\ ~RenewUnavailable(d) /\ ~ReleaseUnavailable(d)
    BY <1>1 DEF AcquireUnavailable, RenewUnavailable, ReleaseUnavailable, Unavailable
  <2> QED BY <1>3, <2>1, <2>2, <2>3, <2>4, <2>5, <2>6, <2>7, <2>8, <2>9
          DEF CallStep, Acquire, Renew, Release
<1>4. ASSUME NEW r \in Request, StrayStep(r)
      PROVE  /\ lease'.token = c => stage'[c] \in {"setup", "live", "ending", "dead"}
             /\ stage'[c] \in {"setup", "live"} => held'[c]
             /\ Req("acquire", c) \in stray' => stage'[c] = "dead"
  <2>1. r.call \in Call /\ r = Req(r.op, r.call) /\ r.op \in {"acquire", "renew", "release"}
    BY DEF Request, Req
  <2>2. stage' = stage /\ held' = held /\ stray' \subseteq stray
    BY <1>4 DEF StrayStep, StrayArrives, StrayLost
  <2>3. ASSUME lease'.token = c, lease.token # c
        PROVE  Req("acquire", c) \in stray
    <3>1. StrayArrives(r)
      BY <1>4, <2>3 DEF StrayStep, StrayLost
    <3>2. r.op = "acquire" /\ r.call = c
      BY <3>1, <2>1, <2>3, <1>0, GrantedGood
         DEF StrayArrives, Apply, SetNX, RenewScript, ReleaseScript, Granted, Free
    <3> QED BY <3>1, <3>2, <2>1 DEF StrayArrives
  <2> QED BY <2>2, <2>3, <1>2
<1>5. CASE Crash
  <2>1. PICK sent \in SUBSET InFlight :
          LET Lost == {d \in Call : \/ stage[d] \in {"setup", "live", "ending"}
                                   \/ Req("acquire", d) \in sent}
          IN  /\ stage' = [d \in Call |-> IF d \in Lost THEN "dead" ELSE stage[d]]
              /\ stray' = stray \cup sent
              /\ lease' = lease
    BY <1>5 DEF Crash
  <2> QED BY <2>1, <1>2
<1>6. CASE Tick
  <2>1. lease' = Expire(lease) /\ stage' = stage /\ held' = held /\ stray' = stray
    BY <1>6 DEF Tick
  <2>2. lease'.token \in {NoCall, lease.token}
    BY <2>1, <1>0 DEF Expire, Free, GoodLease, Lease
  <2> QED BY <2>1, <2>2, <1>2
<1>7. CASE UNCHANGED vars
  BY <1>7, <1>2 DEF vars
<1> QED BY <1>3, <1>4, <1>5, <1>6, <1>7 DEF Next

LEMMA StepRejects ==
    ASSUME LeaseInv, FaultlessInv, [Next]_vars, NEW c \in Call,
           stage[c] # "rejected", stage'[c] = "rejected", faults = 0
    PROVE  stage[lease.token] \in {"setup", "live", "ending", "dead"}
<1>0. /\ stage \in [Call -> Stage] /\ (lease.token = NoCall => lease = Free)
      /\ lease.token \in Call \cup {NoCall}
  BY TypeLease DEF LeaseInv, TypeOK, GoodLease, Lease
<1>1. PICK d \in Call : CallStep(d)
  BY DEF Next, StrayStep, StrayArrives, StrayLost, Crash, Tick, vars
<1>2. AcquireBusy(d)
  BY <1>0, <1>1 DEF CallStep, Acquire, AcquireGranted, AcquireUnavailable,
     StartPipeline, SetupFails, Renew, RenewOk, RenewStale, RenewUnavailable, EndPipeline,
     Release, ReleaseFrees, ReleaseStale, ReleaseUnavailable
<1>3. lease.token \in Call
  BY <1>0, <1>2 DEF AcquireBusy
<1> QED BY <1>3 DEF FaultlessInv

\* As long as every round trip is answered, a caller is turned away only for a
\* call that is there or whose process was lost with its lease.
THEOREM Rejections == Spec => RejectionJustified
<1>1. Init => FaultlessInv
  <2>1. Free.token = NoCall
    BY DEF Free
  <2> QED BY <2>1, LeaseAssumption DEF Init, FaultlessInv
<1>2. LeaseInv /\ FaultlessInv /\ [Next]_vars =>
        [\A c \in Call :
           stage[c] # "rejected" /\ stage'[c] = "rejected" /\ faults = 0 =>
              stage[lease.token] \in {"setup", "live", "ending", "dead"}]_vars
  BY StepRejects
<1> QED BY <1>1, <1>2, NextFaultless, LeaseInvariant, PTL DEF Spec, RejectionJustified
=============================================================================
