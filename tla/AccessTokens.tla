----------------------------- MODULE AccessTokens -----------------------------
(***************************************************************************)
(* The access-token half of auth-service: JWTs that are valid by           *)
(* themselves until they expire, and the blacklist in Redis and Postgres   *)
(* by which a logout takes one back earlier (crud/auth.py, api/routes.py,  *)
(* api/dependencies.py).                                                   *)
(*                                                                         *)
(* Time runs in ticks, TicksPerSecond to the second: the exp claim, the    *)
(* check of that claim and the TTL of a Redis key are whole seconds, the   *)
(* comparisons in Postgres are not, and the difference matters.            *)
(***************************************************************************)
EXTENDS Integers

CONSTANTS
    Jtis,            \* jti claims: one for each access token
    Workers,         \* request slots over all the replicas of the service
    AccessLife,      \* ACCESS_TOKEN_EXPIRE_MINUTES, in seconds
    ShadowLife,      \* IMPERSONATION_TOKEN_EXPIRE_MINUTES, in seconds
    TicksPerSecond,
    MaxTime,         \* bound: the clock stops here
    NoJti

ASSUME AccessConstants ==
    /\ NoJti \notin Jtis
    /\ AccessLife \in Nat /\ ShadowLife \in Nat /\ MaxTime \in Nat
    /\ TicksPerSecond \in Nat \ {0}

VARIABLES
    now,        \* the clock, in ticks
    issued,     \* access tokens that were handed out
    exp,        \* exp[j]: the exp claim, in seconds
    live,       \* access tokens whose refresh token is still active
    redis,      \* redis[j]: the tick at which the key bl:j expires
    redisUp,    \* can Redis be reached
    blacklist,  \* jtis with a row in token_blacklist
    worker,     \* worker[w]: where request w is, and its local variables
    presented,  \* history: access tokens that came with a logout request
    loggedOut   \* history: access tokens whose logout was answered 204

tokenVars == <<issued, exp, live>>
storeVars == <<redis, redisUp, blacklist>>
historyVars == <<presented, loggedOut>>
vars == <<now, issued, exp, live, redis, redisUp, blacklist, worker,
          presented, loggedOut>>

Locations == {"idle", "decode", "setex", "insert", "redis", "table", "valid", "revoked"}

Idle == [pc |-> "idle", jti |-> NoJti, ttl |-> 0, after |-> FALSE]

TypeOK ==
    /\ now \in Nat
    /\ issued \subseteq Jtis
    /\ exp \in [Jtis -> Int]
    /\ live \subseteq issued
    /\ redis \in [Jtis -> Int]
    /\ redisUp \in BOOLEAN
    /\ blacklist \subseteq issued
    /\ worker \in [Workers -> [pc : Locations,
                               jti : Jtis \union {NoJti},
                               ttl : Int,       \* seconds for SETEX
                               after : BOOLEAN]] \* verify began after the 204
    /\ presented \subseteq issued
    /\ loggedOut \subseteq issued

Init ==
    /\ now = 0
    /\ issued = {} /\ live = {} /\ blacklist = {}
    /\ exp = [j \in Jtis |-> 0]
    /\ redis = [j \in Jtis |-> 0]
    /\ redisUp = TRUE
    /\ worker = [w \in Workers |-> Idle]
    /\ presented = {} /\ loggedOut = {}

-----------------------------------------------------------------------------
(* What a token and its blacklist entries say *)

\* expires_at of the row of j: fromtimestamp(payload.exp).
ExpiresAt(j) == exp[j] * TicksPerSecond

\* python-jose refuses a token when exp < now, with now cut to seconds.
Decodes(j) == now \div TicksPerSecond <= exp[j]

\* Mutant of InRedis: an outage of Redis counts as a hit.
InRedisFailClosed(j) == ~redisUp \/ now < redis[j]

InRedis(j) == redisUp /\ now < redis[j]

Finish(w) == worker' = [worker EXCEPT ![w] = Idle]

-----------------------------------------------------------------------------
(* Tokens are handed out; RefreshSessions models the refresh tokens *)

HandOut(j, life) ==
    /\ j \in Jtis \ issued
    /\ now + life * TicksPerSecond < MaxTime
    /\ issued' = issued \union {j}
    /\ exp' = [exp EXCEPT ![j] = (now + life * TicksPerSecond) \div TicksPerSecond]
    /\ UNCHANGED <<now, storeVars, worker, historyVars>>

TokenLogin(j) == HandOut(j, AccessLife) /\ live' = live \union {j}

Refresh(old, j) ==
    /\ old \in live
    /\ HandOut(j, AccessLife)
    /\ live' = (live \ {old}) \union {j}

\* The shadow token comes without a refresh token.
ShadowToken(j) == HandOut(j, ShadowLife) /\ UNCHANGED live

\* revoke-all and the expiry of a refresh token leave access tokens alone.
EndSession(j) ==
    /\ j \in live
    /\ live' = live \ {j}
    /\ UNCHANGED <<now, issued, exp, storeVars, worker, historyVars>>

-----------------------------------------------------------------------------
(* POST /auth/logout *)

\* The commit of revoke_refresh_token; the client may present any access
\* token next to its refresh token, or none.
LogoutRevoke(w, r, j) ==
    /\ worker[w] = Idle
    /\ r \in live
    /\ live' = live \ {r}
    /\ worker' = [worker EXCEPT ![w] = [Idle EXCEPT !.pc = "decode", !.jti = j]]
    /\ presented' = presented \union ({j} \ {NoJti})
    /\ UNCHANGED <<now, issued, exp, storeVars, loggedOut>>

\* Nothing to blacklist: 204.
LogoutSkip(w) ==
    /\ worker[w].pc = "decode"
    /\ worker[w].jti # NoJti => ~Decodes(worker[w].jti)
    /\ Finish(w)
    /\ UNCHANGED <<now, tokenVars, storeVars, historyVars>>

\* The TTL is the rest of the token's life in whole seconds; a token in its
\* last second gets no key.
LogoutDecode(w) ==
    LET j == worker[w].jti
        ttl == (ExpiresAt(j) - now) \div TicksPerSecond
    IN
    /\ worker[w].pc = "decode"
    /\ j # NoJti /\ Decodes(j)
    /\ worker' = [worker EXCEPT ![w].pc = IF ttl > 0 THEN "setex" ELSE "insert",
                                ![w].ttl = ttl]
    /\ UNCHANGED <<now, tokenVars, storeVars, historyVars>>

\* SETEX; when Redis cannot be reached the exception is swallowed.
LogoutSetex(w) ==
    /\ worker[w].pc = "setex"
    /\ redis' = IF redisUp
                THEN [redis EXCEPT ![worker[w].jti] =
                         now + worker[w].ttl * TicksPerSecond]
                ELSE redis
    /\ worker' = [worker EXCEPT ![w].pc = "insert"]
    /\ UNCHANGED <<now, tokenVars, redisUp, blacklist, historyVars>>

\* The durable row, and 204.
LogoutInsert(w) ==
    LET j == worker[w].jti IN
    /\ worker[w].pc = "insert"
    /\ j \notin blacklist
    /\ blacklist' = blacklist \union {j}
    /\ loggedOut' = loggedOut \union {j}
    /\ Finish(w)
    /\ UNCHANGED <<now, tokenVars, redis, redisUp, presented>>

\* A second row for the same jti violates the unique constraint: 500.
LogoutDuplicate(w) ==
    /\ worker[w].pc = "insert"
    /\ worker[w].jti \in blacklist
    /\ Finish(w)
    /\ UNCHANGED <<now, tokenVars, storeVars, historyVars>>

-----------------------------------------------------------------------------
(* POST /auth/verify, and get_current_user before every protected route *)

VerifyDecode(w, j) ==
    /\ worker[w] = Idle
    /\ j \in issued
    /\ Decodes(j)
    /\ worker' = [worker EXCEPT ![w] = [pc |-> "redis", jti |-> j, ttl |-> 0,
                                        after |-> j \in loggedOut]]
    /\ UNCHANGED <<now, tokenVars, storeVars, historyVars>>

\* Mutant of VerifyRedis: a miss is trusted while Redis can be reached.
VerifyRedisTrusted(w) ==
    /\ worker[w].pc = "redis"
    /\ worker' = [worker EXCEPT ![w].pc =
                     IF InRedis(worker[w].jti) THEN "revoked"
                     ELSE IF redisUp THEN "valid" ELSE "table"]
    /\ UNCHANGED <<now, tokenVars, storeVars, historyVars>>

\* A miss and an unreachable Redis both fall through to Postgres.
VerifyRedis(w) ==
    /\ worker[w].pc = "redis"
    /\ worker' = [worker EXCEPT ![w].pc =
                     IF InRedis(worker[w].jti) THEN "revoked" ELSE "table"]
    /\ UNCHANGED <<now, tokenVars, storeVars, historyVars>>

VerifyTable(w) ==
    /\ worker[w].pc = "table"
    /\ worker' = [worker EXCEPT ![w].pc =
                     IF worker[w].jti \in blacklist THEN "revoked" ELSE "valid"]
    /\ UNCHANGED <<now, tokenVars, storeVars, historyVars>>

VerifyAnswered(w) ==
    /\ worker[w].pc \in {"valid", "revoked"}
    /\ Finish(w)
    /\ UNCHANGED <<now, tokenVars, storeVars, historyVars>>

-----------------------------------------------------------------------------
(* Maintenance, time and failures *)

\* Mutant of Cleanup: only refresh_tokens is pruned.
CleanupOtherTable == UNCHANGED vars

\* DELETE FROM token_blacklist WHERE expires_at < now.
Cleanup ==
    /\ blacklist' = {j \in blacklist : ~(ExpiresAt(j) < now)}
    /\ UNCHANGED <<now, tokenVars, redis, redisUp, worker, historyVars>>

\* Redis forgets a key: LRU eviction, FLUSHDB, or a restart without a dump.
RedisLose(j) ==
    /\ redis' = [redis EXCEPT ![j] = 0]
    /\ UNCHANGED <<now, tokenVars, redisUp, blacklist, worker, historyVars>>

RedisFlip ==
    /\ redisUp' = ~redisUp
    /\ UNCHANGED <<now, tokenVars, redis, blacklist, worker, historyVars>>

\* A crash, a lost connection or a failed commit ends the request.
Abort(w) ==
    /\ worker[w] # Idle
    /\ Finish(w)
    /\ UNCHANGED <<now, tokenVars, storeVars, historyVars>>

Tick ==
    /\ now < MaxTime
    /\ now' = now + 1
    /\ UNCHANGED <<tokenVars, storeVars, worker, historyVars>>

-----------------------------------------------------------------------------
LogoutStep(w) ==
    \/ LogoutSkip(w) \/ LogoutDecode(w) \/ LogoutSetex(w)
    \/ LogoutInsert(w) \/ LogoutDuplicate(w)

VerifyStep(w) == VerifyRedis(w) \/ VerifyTable(w) \/ VerifyAnswered(w)

Next ==
    \/ \E j \in Jtis : TokenLogin(j) \/ ShadowToken(j) \/ EndSession(j) \/ RedisLose(j)
    \/ \E old, j \in Jtis : Refresh(old, j)
    \/ \E w \in Workers, r \in Jtis, j \in issued \union {NoJti} : LogoutRevoke(w, r, j)
    \/ \E w \in Workers, j \in Jtis : VerifyDecode(w, j)
    \/ \E w \in Workers : LogoutStep(w) \/ VerifyStep(w) \/ Abort(w)
    \/ Cleanup
    \/ RedisFlip
    \/ Tick

Spec == Init /\ [][Next]_vars

\* The clock runs and notification-service calls the cleanup every day.
FairSpec == Spec /\ WF_vars(Tick) /\ WF_vars(Cleanup)

-----------------------------------------------------------------------------
(* Properties *)

\* An access token whose logout was answered 204 keeps its row for the rest
\* of its life: the cleanup that races with it prunes expired rows only.
LogoutDurable == \A j \in loggedOut : now <= ExpiresAt(j) => j \in blacklist

\* A verification that starts after the 204 never accepts the token before it
\* expires, although it reads Redis and Postgres at different moments and
\* Redis may lose the key, be down for the write, or be down for the read.
LogoutIsFinal ==
    \A w \in Workers :
        worker[w].pc = "valid" /\ worker[w].after => now > ExpiresAt(worker[w].jti)

\* Only a logout takes an access token back: an outage of Redis, an old key
\* or a duplicate request never makes auth-service refuse a live session.
NoFalseRevocation ==
    \A w \in Workers : worker[w].pc = "revoked" => worker[w].jti \in presented

\* The table stays compact: every row is deleted once its token has expired.
BlacklistPruned == \A j \in Jtis : j \in blacklist ~> j \notin blacklist
=============================================================================
