---------------------------- MODULE BrowserSession ----------------------------
(***************************************************************************)
(* The session of one browser at the frontend service.  The tokens of      *)
(* auth-service live in HttpOnly cookies that all the tabs share; a request*)
(* takes along the cookies of the moment it is sent, and its response may  *)
(* set others when it arrives, in any order with the responses to the      *)
(* other tabs, or not at all.  The page handlers renew the tokens of a     *)
(* request themselves (service_client.py); the scripts of the pages do it  *)
(* through the proxy when a call is answered 401 (authFetch in base.html). *)
(***************************************************************************)
EXTENDS Naturals

CONSTANTS
    Tabs,        \* each has one request under way
    Fetches,     \* the calls a page handler makes at once (asyncio.gather)
    Refreshes,   \* refresh tokens
    Persons,     \* who sign in with this browser
    Admin,       \* the superadmin among them
    Nothing,     \* no cookie
    Untouched    \* no Set-Cookie in the response

ASSUME BrowserConstants ==
    /\ Admin \in Persons
    /\ Nothing \notin Refreshes /\ Untouched \notin Refreshes /\ Nothing # Untouched

VARIABLES
    jar,         \* the cookies of the browser
    tokens,      \* tokens[t]: whose it is, and the state of its row
    dead,        \* access tokens that are blacklisted or out of time
    tab,         \* tab[q]: the request of q and where it is
    loading,     \* loading[q]: request.state and the calls of a page handler
    left,        \* the browser was told to forget its cookies, and nobody signed in since
    carried,     \* history: tabs with a request from before that moment
    late,        \* history: such a request was answered with cookies afterwards
    slipped      \* history: tokens revoked by a request whose response was lost

browserVars == <<jar, tokens, dead, tab, loading, left, carried, late, slipped>>
browserHistory == <<left, carried, late>>

Cookies == {"access", "refresh", "adminAccess", "adminRefresh"}

\* An access token goes with the refresh token it was issued with, or the one
\* of the superadmin it shadows somebody for.
AccessTokensOf == [of : Persons, twin : Refreshes, shadow : BOOLEAN]

ASSUME CookieConstants == Nothing \notin AccessTokensOf /\ Untouched \notin AccessTokensOf

EmptyJar == [k \in Cookies |-> Nothing]
NoCookies == [k \in Cookies |-> Untouched]
AtHome == [goal |-> "rest", kind |-> "rest", at |-> "rest", sent |-> EmptyJar,
           told |-> "", reply |-> NoCookies, again |-> FALSE]
BlankPage == [fetch |-> [f \in Fetches |-> "todo"], attempted |-> FALSE, exchanges |-> 0]

Goals == {"page", "call", "login", "impersonate", "return", "logout"}

\* What the scripts send with authFetch.
AuthFetched == {"call", "impersonate", "return", "logout"}

BrowserTypeOK ==
    LET isJar(j, absent) == /\ DOMAIN j = Cookies
                            /\ j.access \in AccessTokensOf \union absent
                            /\ j.adminAccess \in AccessTokensOf \union absent
                            /\ j.refresh \in Refreshes \union absent
                            /\ j.adminRefresh \in Refreshes \union absent
    IN
    /\ isJar(jar, {Nothing})
    /\ tokens \in [Refreshes -> [of : Persons \union {Nothing},
                                 row : {"none", "active", "revoked"}]]
    /\ dead \subseteq AccessTokensOf
    /\ \A q \in Tabs :
          /\ tab[q].goal \in Goals \union {"rest"}
          /\ tab[q].kind \in Goals \union {"rest", "refresh", "clear"}
          /\ tab[q].at \in {"rest", "server", "rotating", "reply"}
          /\ tab[q].told \in {"", "ok", "denied", "failed"}
          /\ tab[q].again \in BOOLEAN
          /\ isJar(tab[q].sent, {Nothing}) /\ isJar(tab[q].reply, {Nothing, Untouched})
    /\ loading \in [Tabs -> [fetch : [Fetches -> {"todo", "asking", "rotating", "with", "without"}],
                          attempted : BOOLEAN, exchanges : Nat]]
    /\ left \in BOOLEAN /\ late \in BOOLEAN
    /\ carried \subseteq Tabs
    /\ slipped \subseteq Refreshes

BrowserInit ==
    /\ jar = EmptyJar
    /\ tokens = [t \in Refreshes |-> [of |-> Nothing, row |-> "none"]]
    /\ dead = {}
    /\ tab = [q \in Tabs |-> AtHome]
    /\ loading = [q \in Tabs |-> BlankPage]
    /\ left = FALSE /\ carried = {} /\ late = FALSE
    /\ slipped = {}

-----------------------------------------------------------------------------
(* The scripts of the pages *)

\* The request `kind` on the way to `goal`, with the cookies of the moment.
Asked(goal, kind, cookies, again) ==
    [AtHome EXCEPT !.goal = goal, !.kind = kind, !.at = "server", !.sent = cookies,
                   !.again = again]

Start(q) ==
    /\ tab[q].at = "rest"
    /\ \E goal \in Goals :
          /\ goal \in {"page", "login"} \/ jar # EmptyJar
          /\ tab' = [tab EXCEPT ![q] = Asked(goal, goal, jar, FALSE)]
    /\ UNCHANGED <<jar, tokens, dead, loading, browserHistory, slipped>>

\* authFetch renews the tokens once after a 401 and calls again; the form that
\* logs out clears the cookies afterwards, whatever became of the first call.
After(q, told, cookies) ==
    LET s == tab[q]  leaves == s.goal = "logout" /\ s.kind # "clear" IN
    CASE s.kind = "refresh" /\ told = "ok" -> Asked(s.goal, s.goal, cookies, TRUE)
      [] s.kind \in AuthFetched /\ told = "denied" /\ ~s.again ->
             Asked(s.goal, "refresh", cookies, FALSE)
      [] leaves /\ ~(s.kind = "refresh" /\ told = "ok")
                /\ ~(s.kind = "logout" /\ told = "denied" /\ ~s.again) ->
             Asked(s.goal, "clear", cookies, TRUE)
      [] OTHER -> AtHome

\* The response arrives, and the browser keeps its cookies.
Receive(q) ==
    LET s == tab[q]
        cookies == [k \in Cookies |-> IF s.reply[k] = Untouched THEN jar[k] ELSE s.reply[k]]
    IN
    /\ s.at = "reply"
    /\ jar' = cookies
    /\ tab' = [tab EXCEPT ![q] = After(q, s.told, cookies)]
    /\ loading' = [loading EXCEPT ![q] = BlankPage]
    /\ left' = (s.kind = "clear" \/ (left /\ ~(s.kind = "login" /\ s.told = "ok")))
    /\ carried' = IF s.kind = "clear" THEN {r \in Tabs : tab[r].at # "rest"} \ {q}
                  ELSE carried \ {q}
    /\ late' = (s.kind # "clear" /\ (late \/ (q \in carried /\ s.reply # NoCookies)))
    /\ UNCHANGED <<tokens, dead, slipped>>

\* The response is lost on its way, or the request does not get through (503).
Lose(q) ==
    LET s == tab[q] IN
    /\ s.at = "reply" \/ (s.at = "server" /\ s.kind # "page")
    /\ tab' = [tab EXCEPT ![q] = After(q, "failed", jar)]
    /\ loading' = [loading EXCEPT ![q] = BlankPage]
    /\ carried' = carried \ {q}
    /\ slipped' = slipped \union
          (IF s.kind = "clear" THEN {jar.refresh} \ {Nothing}
           ELSE IF s.kind \in {"refresh", "page"} /\ s.reply # NoCookies
                THEN {s.sent.refresh} ELSE {})
    /\ UNCHANGED <<jar, tokens, dead, left, late>>

\* Max-Age of the cookie, and the lifetime of the token in it.
AccessCookieExpires ==
    /\ jar.access # Nothing
    /\ jar' = [jar EXCEPT !.access = Nothing]
    /\ UNCHANGED <<tokens, dead, tab, loading, browserHistory, slipped>>

AccessTokenExpires ==
    /\ jar.access \notin dead \union {Nothing}
    /\ dead' = dead \union {jar.access}
    /\ UNCHANGED <<jar, tokens, tab, loading, browserHistory, slipped>>

-----------------------------------------------------------------------------
(* The proxy, and auth-service behind it *)

Respond(q, told, reply) ==
    tab' = [tab EXCEPT ![q].at = "reply", ![q].told = told, ![q].reply = reply]

At(q, kind) == tab[q].kind = kind /\ tab[q].at = "server"

IsActive(t) == t # Nothing /\ tokens[t].row = "active"

Accepted(access) == access \notin dead \union {Nothing}

AccessFor(t, who) == [of |-> who, twin |-> t, shadow |-> FALSE]

\* Both cookies of a login or a refresh.
Pair(t, who) == [NoCookies EXCEPT !.access = AccessFor(t, who), !.refresh = t]

Issue(t, who) == [tokens EXCEPT ![t] = [of |-> who, row |-> "active"]]

\* A login that is refused changes nothing, like one that is lost.
Login(q) ==
    /\ At(q, "login")
    /\ \E t \in Refreshes, who \in Persons :
          /\ tokens[t].row = "none"
          /\ tokens' = Issue(t, who)
          /\ Respond(q, "ok", Pair(t, who))
    /\ UNCHANGED <<jar, dead, loading, browserHistory, slipped>>

\* POST /refresh looks the token up ...
RefreshVerify(q) ==
    /\ At(q, "refresh")
    /\ IF IsActive(tab[q].sent.refresh)
       THEN tab' = [tab EXCEPT ![q].at = "rotating"]
       ELSE Respond(q, "denied", NoCookies)
    /\ UNCHANGED <<jar, tokens, dead, loading, browserHistory, slipped>>

\* ... revokes it, and stores a new one, or fails to.
Rotate(old, new) ==
    /\ tokens[new].row = "none"
    /\ tokens' = [Issue(new, tokens[old].of) EXCEPT ![old].row = "revoked"]

Revoke(old) == tokens' = [tokens EXCEPT ![old].row = "revoked"]

RefreshRotate(q) ==
    LET old == tab[q].sent.refresh IN
    /\ tab[q].at = "rotating"
    /\ \/ \E new \in Refreshes :
             /\ Rotate(old, new)
             /\ Respond(q, "ok", Pair(new, tokens[old].of))
             /\ UNCHANGED slipped
       \/ /\ Revoke(old)
          /\ Respond(q, "failed", NoCookies)
          /\ slipped' = slipped \union {old}
    /\ UNCHANGED <<jar, dead, loading, browserHistory>>

\* The proxy adds both tokens to the body.  auth-service wants the refresh token
\* (422) and an active one (401).  It answers 204, where the proxy deletes
\* cookies only with 200.
Logout(q) ==
    LET t == tab[q].sent.refresh IN
    /\ At(q, "logout")
    /\ IF IsActive(t)
       THEN /\ Revoke(t)
            /\ dead' = dead \union ({tab[q].sent.access} \ {Nothing})
            /\ Respond(q, "ok", NoCookies)
       ELSE /\ Respond(q, IF t = Nothing THEN "failed" ELSE "denied", NoCookies)
            /\ UNCHANGED <<tokens, dead>>
    /\ UNCHANGED <<jar, loading, browserHistory, slipped>>

Cleared == EmptyJar

\* POST /logout of the frontend itself
ClearCookies(q) ==
    /\ At(q, "clear")
    /\ Respond(q, "ok", Cleared)
    /\ UNCHANGED <<jar, tokens, dead, loading, browserHistory, slipped>>

\* Mutant of Disguise: the refresh token of the superadmin stays beside the shadow.
DisguiseKeepsRefresh(sent, shadow) ==
    [access |-> shadow, refresh |-> Untouched, adminAccess |-> sent.access,
     adminRefresh |-> IF sent.refresh = Nothing THEN Untouched ELSE sent.refresh]

\* The cookies the request came with are put aside, the shadow token has no
\* refresh token.
Disguise(sent, shadow) ==
    [access |-> shadow, refresh |-> Nothing, adminAccess |-> sent.access,
     adminRefresh |-> IF sent.refresh = Nothing THEN Untouched ELSE sent.refresh]

BecomeShadow(q) ==
    LET sent == tab[q].sent IN
    /\ At(q, "impersonate")
    /\ IF ~Accepted(sent.access)
       THEN Respond(q, "denied", NoCookies) /\ UNCHANGED dead
       ELSE IF sent.access.of # Admin \/ sent.access.shadow
       THEN Respond(q, "failed", NoCookies) /\ UNCHANGED dead
       ELSE \E who \in Persons \ {Admin} :
               LET shadow == [of |-> who, twin |-> sent.access.twin, shadow |-> TRUE] IN
               /\ Respond(q, "ok", Disguise(sent, shadow))
               /\ dead' = dead \ {shadow}
    /\ UNCHANGED <<jar, tokens, loading, browserHistory, slipped>>

\* /api/auth/impersonation/return matches the route of the proxy that is
\* registered first, and auth-service answers 404.
Return(q) ==
    /\ At(q, "return")
    /\ Respond(q, "failed", NoCookies)
    /\ UNCHANGED <<jar, tokens, dead, loading, browserHistory, slipped>>

\* Any other call: the cookie becomes the Authorization header.
Call(q) ==
    /\ At(q, "call")
    /\ Respond(q, IF Accepted(tab[q].sent.access) THEN "ok" ELSE "denied", NoCookies)
    /\ UNCHANGED <<jar, tokens, dead, loading, browserHistory, slipped>>

-----------------------------------------------------------------------------
(* The page handlers *)

FetchIs(q, f, how) == loading' = [loading EXCEPT ![q].fetch[f] = how]

HasHeader(q) == tab[q].sent.access # Nothing \/ tab[q].reply.access # Untouched

\* Mutant of MayAttempt: every call of the page tries.
MayAttemptAgain(q) == tab[q].sent.refresh # Nothing

MayAttempt(q) == ~loading[q].attempted /\ tab[q].sent.refresh # Nothing

\* _ensure_auth: the cookie, or what another call of this request was given; the
\* first that finds neither asks for it, the others go without.
EnsureAuth(q, f) ==
    /\ At(q, "page") /\ loading[q].fetch[f] = "todo"
    /\ IF HasHeader(q) THEN FetchIs(q, f, "with")
       ELSE loading' = [loading EXCEPT ![q].attempted = TRUE,
                                 ![q].fetch[f] = IF MayAttempt(q) THEN "asking" ELSE "without"]
    /\ UNCHANGED <<jar, tokens, dead, tab, browserHistory, slipped>>

EnsureAuthVerify(q, f) ==
    /\ At(q, "page") /\ loading[q].fetch[f] = "asking"
    /\ \/ IsActive(tab[q].sent.refresh) /\ FetchIs(q, f, "rotating")
       \/ FetchIs(q, f, "without")
    /\ UNCHANGED <<jar, tokens, dead, tab, browserHistory, slipped>>

\* propagate_refreshed_cookie
Renewed(t, who) == Pair(t, who)

\* The new pair is kept in request.state for the response.
EnsureAuthRotate(q, f) ==
    LET old == tab[q].sent.refresh IN
    /\ At(q, "page") /\ loading[q].fetch[f] = "rotating"
    /\ \/ \E new \in Refreshes :
             /\ Rotate(old, new)
             /\ tab' = [tab EXCEPT ![q].reply = Renewed(new, tokens[old].of)]
             /\ loading' = [loading EXCEPT ![q].fetch[f] = "with", ![q].exchanges = @ + 1]
             /\ UNCHANGED slipped
       \/ /\ Revoke(old)
          /\ FetchIs(q, f, "without")
          /\ slipped' = slipped \union {old}
          /\ UNCHANGED tab
    /\ UNCHANGED <<jar, dead, browserHistory>>

\* The page is drawn with what the calls returned, nothing for those without a
\* token; TokenRefreshMiddleware adds the cookies.
PageDone(q) ==
    /\ At(q, "page")
    /\ \A f \in Fetches : loading[q].fetch[f] \in {"with", "without"}
    /\ Respond(q, "ok", tab[q].reply)
    /\ UNCHANGED <<jar, tokens, dead, loading, browserHistory, slipped>>

BrowserNext ==
    \/ \E q \in Tabs :
          \/ Start(q) \/ Receive(q) \/ Lose(q)
          \/ Login(q) \/ RefreshVerify(q) \/ RefreshRotate(q) \/ Logout(q)
          \/ ClearCookies(q) \/ BecomeShadow(q) \/ Return(q) \/ Call(q)
          \/ PageDone(q)
          \/ \E f \in Fetches : EnsureAuth(q, f) \/ EnsureAuthVerify(q, f) \/ EnsureAuthRotate(q, f)
    \/ AccessCookieExpires \/ AccessTokenExpires

BrowserSpec == BrowserInit /\ [][BrowserNext]_browserVars

-----------------------------------------------------------------------------
(* Properties *)

\* The two cookies the browser works with come from one login, however the
\* responses were reordered; beside the token of a shadow there is no refresh
\* token that would turn it into the superadmin again.
JarIsOnePerson ==
    jar.access # Nothing /\ jar.refresh # Nothing =>
        ~jar.access.shadow /\ jar.access.twin = jar.refresh

\* After the cookies were cleared the browser has none until somebody signs in,
\* unless a request that was under way at the time was answered with new ones.
LeftMeansLeft == left /\ ~late => jar = EmptyJar

\* The concurrent calls of one page exchange the refresh token at most once.
OneExchangePerPage == \A q \in Tabs : loading[q].exchanges <= 1

\* The browser is never left with a refresh token that is revoked and nothing
\* under way to replace or clear it, unless the response that would have done so
\* was lost, or auth-service failed between the revocation and the new token.
StrandedHasCause ==
    LET t == jar.refresh
        underWay(q) == tab[q].at # "rest" /\ (tab[q].sent.refresh = t \/ tab[q].goal = "logout")
    IN  t # Nothing /\ ~IsActive(t) /\ (\A q \in Tabs : ~underWay(q)) => t \in slipped

\* Together: the cookies are those of one login or of none, in whatever order
\* the responses that set and delete them arrive.
JarIsConsistent == JarIsOnePerson /\ LeftMeansLeft

\* Together: a session is carried on by one exchange at a time, and ends
\* without its user's doing only where an answer got lost.
SessionIsCarriedOn == OneExchangePerPage /\ StrandedHasCause
=============================================================================
