--------------------------- MODULE RefreshSessions ---------------------------
(***************************************************************************)
(* The refresh-token half of auth-service: the rows of refresh_tokens and  *)
(* the login, refresh, logout, revoke-all and cleanup handlers that read   *)
(* and write them (api/routes.py and crud/auth.py).                        *)
(*                                                                         *)
(* A handler is a coroutine: other requests run at each of its awaits, so  *)
(* the code between two awaits is one action and worker[w] remembers what  *)
(* the coroutine holds in its local variables.  Every await of the         *)
(* database is a statement of its own in READ COMMITTED; nothing locks a   *)
(* row between the SELECT of a handler and its UPDATE.                     *)
(***************************************************************************)
EXTENDS Naturals

CONSTANTS
    Users,     \* users known to user-db-access-service
    Tokens,    \* raw refresh tokens; a row stores the hash of one
    Workers,   \* request slots over all the replicas of the service
    RoleOf,    \* RoleOf[u]: the role claim of u's access tokens
    TenantOf,  \* TenantOf[u]: the owner_id of u's tenant
    NoUser,
    NoToken

ASSUME SessionConstants ==
    /\ NoUser \notin Users
    /\ NoToken \notin Tokens
    /\ RoleOf \in [Users -> STRING]
    /\ DOMAIN TenantOf = Users

VARIABLES
    row,      \* row[t]: the is_revoked column of t's row, "none" without a row
    userOf,   \* userOf[t]: user_id of t's row, kept after the row is deleted
    expired,  \* tokens with a row whose expires_at has passed
    worker,   \* worker[w]: where request w is, and its local variables
    parent,   \* history: the token t was exchanged for
    root,     \* history: the login token at the head of t's chain
    refused,  \* history: tokens a client was told are not (or no longer) valid
    cutOff    \* history: login chains that existed at a revoke-all

tableVars == <<row, userOf, expired>>
historyVars == <<parent, root, refused, cutOff>>
vars == <<row, userOf, expired, worker, parent, root, refused, cutOff>>

Locations == {"idle", "login", "fetch", "expire", "store", "logout"}

Idle == [pc |-> "idle", token |-> NoToken, user |-> NoUser]

Request(at, t, u) == [pc |-> at, token |-> t, user |-> u]

\* secrets.token_urlsafe(48): a token no row has ever had.  Any other token
\* may be presented by a client from the moment its row is committed.
Fresh(t) == userOf[t] = NoUser

TypeOK ==
    /\ row \in [Tokens -> {"none", "active", "revoked"}]
    /\ userOf \in [Tokens -> Users \union {NoUser}]
    /\ expired \subseteq Tokens
    /\ worker \in [Workers -> [pc : Locations,
                               token : Tokens \union {NoToken},
                               user : Users \union {NoUser}]]
    /\ parent \in [Tokens -> Tokens \union {NoToken}]
    /\ root \in [Tokens -> Tokens \union {NoToken}]
    /\ refused \subseteq Tokens
    /\ cutOff \subseteq Tokens

Init ==
    /\ row = [t \in Tokens |-> "none"]
    /\ userOf = [t \in Tokens |-> NoUser]
    /\ expired = {}
    /\ worker = [w \in Workers |-> Idle]
    /\ parent = [t \in Tokens |-> NoToken]
    /\ root = [t \in Tokens |-> NoToken]
    /\ refused = {}
    /\ cutOff = {}

-----------------------------------------------------------------------------
(* Statements on the table *)

\* UPDATE refresh_tokens SET is_revoked = true WHERE id = ...; the flush of a
\* changed ORM object does not look at the old value of the column.
MarkRevoked(t) == row' = [row EXCEPT ![t] = "revoked"]

\* store_refresh_token: the INSERT of a new row and its commit.
Insert(t, u) ==
    /\ row' = [row EXCEPT ![t] = "active"]
    /\ userOf' = [userOf EXCEPT ![t] = u]

\* The handler returns, or dies with what it had not committed.
Finish(w) == worker' = [worker EXCEPT ![w] = Idle]

-----------------------------------------------------------------------------
(* POST /auth/login *)

\* user-db-access-service has answered authenticated = true for u.
LoginAuthenticate(w, u) ==
    /\ worker[w] = Idle
    /\ worker' = [worker EXCEPT ![w] = Request("login", NoToken, u)]
    /\ UNCHANGED <<tableVars, historyVars>>

LoginStore(w, t) ==
    /\ worker[w].pc = "login"
    /\ Fresh(t)
    /\ Insert(t, worker[w].user)
    /\ root' = [root EXCEPT ![t] = t]
    /\ Finish(w)
    /\ UNCHANGED <<expired, parent, refused, cutOff>>

-----------------------------------------------------------------------------
(* POST /auth/refresh *)

\* verify_refresh_token finds an active row: the coroutine goes on to ask
\* user-db-access-service for the user, or to revoke the row if it expired.
RefreshVerify(w, t) ==
    /\ worker[w] = Idle
    /\ row[t] = "active"
    /\ worker' = [worker EXCEPT ![w] =
                     Request(IF t \in expired THEN "expire" ELSE "fetch",
                             t, userOf[t])]
    /\ UNCHANGED <<tableVars, historyVars>>

\* No active row: verify_refresh_token returns None to a refresh,
\* revoke_refresh_token returns False to a logout, and the client gets 401.
Refuse(t) ==
    /\ ~Fresh(t)
    /\ row[t] # "active"
    /\ refused' = refused \union {t}
    /\ UNCHANGED <<tableVars, worker, parent, root, cutOff>>

\* The expired row is revoked and the client gets 401.
RefreshExpire(w) ==
    LET t == worker[w].token IN
    /\ worker[w].pc = "expire"
    /\ row[t] # "none"
    /\ MarkRevoked(t)
    /\ refused' = refused \union {t}
    /\ Finish(w)
    /\ UNCHANGED <<userOf, expired, parent, root, cutOff>>

\* Whatever the user service answered, the old row is revoked: first commit.
RefreshRotate(w) ==
    /\ worker[w].pc = "fetch"
    /\ row[worker[w].token] # "none"
    /\ MarkRevoked(worker[w].token)
    /\ worker' = [worker EXCEPT ![w].pc = "store"]
    /\ UNCHANGED <<userOf, expired, historyVars>>

\* Mutant of RefreshStore: the old token is handed out again.
RefreshStoreSame(w, t) ==
    /\ worker[w].pc = "store"
    /\ t = worker[w].token
    /\ row' = [row EXCEPT ![t] = "active"]
    /\ Finish(w)
    /\ UNCHANGED <<userOf, expired, historyVars>>

\* The new row is inserted for the user the old row named: second commit.
RefreshStore(w, t) ==
    LET old == worker[w].token IN
    /\ worker[w].pc = "store"
    /\ Fresh(t)
    /\ Insert(t, worker[w].user)
    /\ parent' = [parent EXCEPT ![t] = old]
    /\ root' = [root EXCEPT ![t] = root[old]]
    /\ Finish(w)
    /\ UNCHANGED <<expired, refused, cutOff>>

-----------------------------------------------------------------------------
(* POST /auth/logout; AccessTokens models what it does with the access token *)

LogoutSelect(w, t) ==
    /\ worker[w] = Idle
    /\ row[t] = "active"
    /\ worker' = [worker EXCEPT ![w] = Request("logout", t, userOf[t])]
    /\ UNCHANGED <<tableVars, historyVars>>

\* Mutant of LogoutRevoke: the change of the row is never committed.
LogoutForgetCommit(w) ==
    /\ worker[w].pc = "logout"
    /\ row[worker[w].token] # "none"
    /\ refused' = refused \union {worker[w].token}
    /\ Finish(w)
    /\ UNCHANGED <<tableVars, parent, root, cutOff>>

\* Mutant of LogoutRevoke: it waits for the row to be as it was selected.
LogoutCompareAndSet(w) ==
    LET t == worker[w].token IN
    /\ worker[w].pc = "logout"
    /\ row[t] = "active"
    /\ MarkRevoked(t)
    /\ refused' = refused \union {t}
    /\ Finish(w)
    /\ UNCHANGED <<userOf, expired, parent, root, cutOff>>

LogoutRevoke(w) ==
    LET t == worker[w].token IN
    /\ worker[w].pc = "logout"
    /\ row[t] # "none"
    /\ MarkRevoked(t)
    /\ refused' = refused \union {t}
    /\ Finish(w)
    /\ UNCHANGED <<userOf, expired, parent, root, cutOff>>

-----------------------------------------------------------------------------
(* POST /auth/revoke-all, the cleanup endpoints, time and failures *)

MayRevokeAll(caller, u) ==
    \/ RoleOf[caller] = "superadmin"
    \/ caller = u
    \/ RoleOf[caller] \in {"owner", "admin"} /\ TenantOf[caller] = TenantOf[u]

\* One UPDATE over the active rows of u.
RevokeAll(caller, u) ==
    LET mine == {t \in Tokens : userOf[t] = u} IN
    /\ MayRevokeAll(caller, u)
    /\ row' = [t \in Tokens |-> IF t \in mine /\ row[t] = "active"
                                THEN "revoked" ELSE row[t]]
    /\ refused' = refused \union mine
    /\ cutOff' = cutOff \union {root[t] : t \in mine}
    /\ UNCHANGED <<userOf, expired, worker, parent, root>>

\* DELETE FROM refresh_tokens WHERE expires_at < now.
Cleanup ==
    /\ row' = [t \in Tokens |-> IF t \in expired THEN "none" ELSE row[t]]
    /\ expired' = {}
    /\ UNCHANGED <<userOf, worker, historyVars>>

\* The clock passes the expires_at of t's row.
Expire(t) ==
    /\ row[t] # "none"
    /\ expired' = expired \union {t}
    /\ UNCHANGED <<row, userOf, worker, historyVars>>

\* StaleDataError: Cleanup deleted the row between SELECT and UPDATE.
UpdateFindsNoRow(w) ==
    /\ worker[w].pc \in {"expire", "fetch", "logout"}
    /\ row[worker[w].token] = "none"
    /\ Finish(w)
    /\ UNCHANGED <<tableVars, historyVars>>

\* A crash, a lost connection, a commit that fails or a user service that
\* refuses: the handler ends, the open transaction is rolled back.
Abort(w) ==
    /\ worker[w] # Idle
    /\ Finish(w)
    /\ UNCHANGED <<tableVars, historyVars>>

-----------------------------------------------------------------------------
Handler(w) ==
    \/ \E t \in Tokens : LoginStore(w, t) \/ RefreshStore(w, t)
    \/ RefreshExpire(w)
    \/ RefreshRotate(w)
    \/ LogoutRevoke(w)
    \/ UpdateFindsNoRow(w)

Next ==
    \/ \E w \in Workers, u \in Users : LoginAuthenticate(w, u)
    \/ \E w \in Workers, t \in Tokens :
         RefreshVerify(w, t) \/ LogoutSelect(w, t)
    \/ \E w \in Workers : Handler(w) \/ Abort(w)
    \/ \E caller, u \in Users : RevokeAll(caller, u)
    \/ Cleanup
    \/ \E t \in Tokens : Expire(t) \/ Refuse(t)

Spec == Init /\ [][Next]_vars

\* notification-service calls the internal cleanup endpoint every day, and the
\* event loop resumes every coroutine whose await is answered.
SessionFairness ==
    /\ WF_vars(Cleanup)
    /\ \A w \in Workers : WF_vars(Handler(w))
-----------------------------------------------------------------------------
(* Properties *)

ChildrenOf(t) == {n \in Tokens : parent[n] = t}

\* The rotation of /auth/refresh commits the revocation of the old row before
\* the insertion of the new one, so that no crash, race with logout,
\* revoke-all or cleanup leaves a token usable next to its own successor.
PredecessorClosed ==
    \A t \in Tokens : parent[t] # NoToken => row[parent[t]] # "active"

\* A client that was answered 401 for a token, or 204 for its logout, or that
\* a revoke-all covered, never gets a session from that token again: no
\* in-flight handler brings a revoked or deleted row back to life.
RefusedIsFinal == \A t \in refused : row[t] # "active"

\* Requests that race may each exchange the same token, because nothing locks
\* it between SELECT and UPDATE; but once one of them has handed out its
\* successor, no request that starts with the old token gets past its SELECT,
\* so a stolen or repeated token opens no further branch.
ExchangedOnce ==
    [][\A w \in Workers, t \in Tokens :
          worker[w] = Idle /\ worker'[w] # Idle /\ worker'[w].token = t
              => ChildrenOf(t) = {}]_vars

\* "Revoke every refresh token for a user (logout everywhere)": no session
\* that existed when the user was logged out everywhere is usable later.
LogoutEverywhere == \A t \in Tokens : row[t] = "active" => root[t] \notin cutOff

\* Tokens are opened once, closed for good, and succeeded only when closed,
\* whatever the interleaving: see SessionLifecycle.
Status(t) == IF Fresh(t) THEN "unissued"
             ELSE IF row[t] = "active" THEN "open" ELSE "closed"

Lifecycle == INSTANCE SessionLifecycle WITH
                 status <- [t \in Tokens |-> Status(t)],
                 predecessor <- parent

LifecycleRefined == Lifecycle!LifecycleSpec

\* The daily cleanup removes the row of every expired token, also one that
\* was revoked or that a handler still holds.
ExpiredRowsPruned ==
    \A t \in Tokens : t \in expired ~> row[t] = "none"

\* No request waits for another one: the handlers take no lock, and every
\* conflict with a concurrent request ends in an answer or an error.  (An
\* instance that has used all its tokens up can start no more sessions.)
RequestsEnd ==
    \A w \in Workers :
        worker[w] # Idle ~> worker[w] = Idle \/ ~ \E t \in Tokens : Fresh(t)

\* Together: neither a row nor a request stays for ever.
SessionsSettle == ExpiredRowsPruned /\ RequestsEnd
=============================================================================
