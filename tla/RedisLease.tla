----------------------------- MODULE RedisLease -----------------------------
(***************************************************************************)
(* The one Redis key call_lease:<host>:<property> of a line, and the       *)
(* operations of integrations/redis_lease_client.py on it.  Each of them   *)
(* is one SET NX EX or one Lua script, so each is one atomic function of   *)
(* the stored value.  A stored value is abstracted to its fencing token;   *)
(* time to live is counted in ticks.                                       *)
(***************************************************************************)
EXTENDS Naturals

CONSTANTS
    Call,    \* calls; a call that acquires gets one fresh token, named by the call
    NoCall,  \* the absent token
    TTL      \* DEFAULT_LEASE_TTL in ticks

ASSUME LeaseAssumption ==
    /\ NoCall \notin Call
    /\ TTL \in Nat \ {0}

Lease == [token: Call \cup {NoCall}, ttl: 0..TTL]

Free == [token |-> NoCall, ttl |-> 0]

Granted(c) == [token |-> c, ttl |-> TTL]

\* Mutant: SET without NX overwrites the holder.
SetAlways(l, c) == Granted(c)

\* SET key value NX EX ttl
SetNX(l, c) == IF l = Free THEN Granted(c) ELSE l

\* Mutant: the renew script answers 1 but forgets EXPIRE.
RenewWithoutExpire(l, c) == l

\* Mutant: renewing by a plain SET brings back a key that is gone.
RenewBySet(l, c) == IF l = Free \/ l.token = c THEN Granted(c) ELSE l

\* _RENEW_SCRIPT: EXPIRE if the stored token is the caller's
RenewScript(l, c) == IF l.token = c THEN Granted(c) ELSE l

\* Mutant: releasing without comparing the stored token.
ReleaseAnyToken(l, c) == Free

\* Mutant: the value is blanked, the key stays.
ReleaseBlanks(l, c) == IF l.token = c THEN [l EXCEPT !.token = NoCall] ELSE l

\* _RELEASE_SCRIPT: DEL if the stored token is the caller's
ReleaseScript(l, c) == IF l.token = c THEN Free ELSE l

\* One tick of the key's time to live
Expire(l) == IF l.ttl <= 1 THEN Free ELSE [l EXCEPT !.ttl = @ - 1]
=============================================================================
