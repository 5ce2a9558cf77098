---------------------------- MODULE BrowserProofs ----------------------------
(***************************************************************************)
(* Theorems about what a browser has of the system: its session at the     *)
(* frontend service, for any number of tabs, people, tokens and calls of a *)
(* page; and the lists that its scripts read page by page, for any number  *)
(* of rows, any values to order them by and any length of a page.          *)
(***************************************************************************)
EXTENDS BrowserSession, PagedLists, FiniteSetTheorems, SequenceTheorems, TLAPS

-----------------------------------------------------------------------------
(***************************************************************************)
(* BrowserSession.  The invariant ties the jar to the requests and the     *)
(* replies on their way: cookies are sent as they were when a request      *)
(* began, and taken over when its reply comes.                             *)
(***************************************************************************)

\* Cookies, where there may be none.
Jars(absent) == [access : AccessTokensOf \union absent, refresh : Refreshes \union absent,
                 adminAccess : AccessTokensOf \union absent,
                 adminRefresh : Refreshes \union absent]

\* The cookies a request carries.
Sent == Jars({Nothing})

\* The cookies a reply sets, clears or leaves alone.
Replies == Jars({Nothing, Untouched})

\* What a tab is after.
GoalsOrRest == Goals \union {"rest"}

\* The requests a tab makes.
Kinds == Goals \union {"rest", "refresh", "clear"}

\* What a tab holds.
TabStates ==
    [goal : GoalsOrRest, kind : Kinds,
     at : {"rest", "server", "rotating", "reply"}, sent : Sent,
     told : {"", "ok", "denied", "failed"}, reply : Replies, again : BOOLEAN]

\* A page that is made, with its calls.
PageStates ==
    [fetch : [Fetches -> {"todo", "asking", "rotating", "with", "without"}],
     attempted : BOOLEAN, exchanges : {0, 1}]

\* The parts of the state have their types.
BrowserTyped ==
    /\ jar \in Sent
    /\ tokens \in [Refreshes -> [of : Persons \union {Nothing}, row : {"none", "active", "revoked"}]]
    /\ dead \subseteq AccessTokensOf
    /\ tab \in [Tabs -> TabStates]
    /\ loading \in [Tabs -> PageStates]
    /\ left \in BOOLEAN /\ late \in BOOLEAN
    /\ carried \subseteq Tabs
    /\ slipped \subseteq Refreshes

\* Both cookies of one login, or neither is touched; or one of them goes.
OnePair(reply) ==
    \/ reply.access = Untouched /\ reply.refresh = Untouched
    \/ /\ reply.access # Untouched /\ reply.refresh # Untouched
       /\ reply.access # Nothing /\ reply.refresh # Nothing =>
             ~reply.access.shadow /\ reply.access.twin = reply.refresh

\* A request is where its kind can be.
RequestFits(s) ==
    /\ s.at = "rest" => s = AtHome
    /\ \/ s.kind = s.goal \/ s.kind = "refresh"
       \/ s.kind = "clear" /\ s.goal = "logout"
    /\ s.at = "rotating" => s.kind = "refresh" /\ s.sent.refresh # Nothing
    /\ s.at \in {"server", "rotating"} /\ s.kind # "page" => s.reply = NoCookies
    /\ s.at = "reply" /\ s.kind = "clear" => s.reply = Cleared
    /\ s.kind \in {"refresh", "page"} /\ s.reply # NoCookies => s.sent.refresh # Nothing
    /\ s.kind \notin {"login", "clear"} /\ s.sent = EmptyJar => s.reply = NoCookies
    /\ s.kind = "login" /\ s.reply # NoCookies => s.told = "ok"
    /\ OnePair(s.reply)

\* So does every request.
RequestsFit == \A q \in Tabs : RequestFits(tab[q])

\* A call of a page that exchanges its refresh token.
Exchanging(q, f) == loading[q].fetch[f] \in {"asking", "rotating"}

\* Only a page that is made has calls.
PagesFit ==
    \A q \in Tabs :
        /\ ~loading[q].attempted =>
              loading[q].exchanges = 0 /\ \A f \in Fetches : ~Exchanging(q, f)
        /\ \A f \in Fetches : Exchanging(q, f) =>
              /\ tab[q].kind = "page" /\ tab[q].at = "server" /\ tab[q].sent.refresh # Nothing
              /\ loading[q].exchanges = 0
              /\ \A g \in Fetches : Exchanging(q, g) => g = f

\* A reply that brings a new pair.
New(reply) == reply.refresh \notin {Nothing, Untouched}

\* A token that nobody was given has no row.
TokensFit ==
    /\ \A t \in Refreshes : tokens[t].row # "none" => tokens[t].of \in Persons
    /\ jar.refresh # Nothing => tokens[jar.refresh].row # "none"
    /\ \A q \in Tabs : tab[q].sent.refresh # Nothing => tokens[tab[q].sent.refresh].row # "none"

\* A token that is on its way to the browser is nobody else's business yet.
NewIsUnseen ==
    \A q \in Tabs : New(tab[q].reply) =>
        LET n == tab[q].reply.refresh IN
        /\ IsActive(n) /\ jar.refresh # n
        /\ \A r \in Tabs : tab[r].sent.refresh # n /\ (r # q => tab[r].reply.refresh # n)

\* A tab that has a token in its request or in its reply.
Carries(q, t) ==
    /\ tab[q].at # "rest"
    /\ \/ tab[q].goal = "logout"
       \/ tab[q].kind \in {"refresh", "page"} /\ tab[q].sent.refresh = t /\ New(tab[q].reply)

\* An exchanged token that the jar still has is about to be replaced.
RenewalComes ==
    jar.refresh # Nothing /\ ~IsActive(jar.refresh) /\ jar.refresh \notin slipped =>
        \E q \in Tabs : Carries(q, jar.refresh)

\* After a logout, only requests that were on their way carry cookies.
OnlyTheCarried == left /\ ~late => \A q \in Tabs \ carried : tab[q].sent = EmptyJar

\* The invariant.
BrowserInv ==
    /\ BrowserTyped
    /\ RequestsFit
    /\ PagesFit
    /\ TokensFit
    /\ NewIsUnseen
    /\ RenewalComes
    /\ OnlyTheCarried
    /\ JarIsOnePerson
    /\ LeftMeansLeft

-----------------------------------------------------------------------------
(* What the operators of the module return *)

\* The jars that the module names.
LEMMA JarsTyped ==
    /\ EmptyJar \in Sent /\ EmptyJar \in Replies /\ NoCookies \in Replies
    /\ EmptyJar.access = Nothing /\ EmptyJar.refresh = Nothing
    /\ NoCookies.access = Untouched /\ NoCookies.refresh = Untouched
    /\ NoCookies # EmptyJar
BY BrowserConstants DEF EmptyJar, NoCookies, Cookies, Sent, Replies, Jars

\* A request on its way to the server has no answer yet.
LEMMA OnTheWay ==
    ASSUME NEW next \in TabStates, next.at = "server", next.reply = NoCookies,
           \/ next.kind = next.goal \/ next.kind = "refresh"
           \/ next.kind = "clear" /\ next.goal = "logout"
    PROVE  RequestFits(next)
BY JarsTyped DEF RequestFits, OnePair

\* A tab at rest.
LEMMA HomeTyped ==
    /\ AtHome \in TabStates
    /\ AtHome.at = "rest" /\ AtHome.kind = "rest" /\ AtHome.goal = "rest"
    /\ AtHome.sent = EmptyJar /\ AtHome.reply = NoCookies
BY JarsTyped DEF AtHome, TabStates, Goals, GoalsOrRest, Kinds

\* What a tab's request consists of.
LEMMA PartsOfTab ==
    ASSUME BrowserInv, NEW q \in Tabs
    PROVE  /\ tab[q] \in TabStates /\ RequestFits(tab[q])
           /\ tab[q].goal \in GoalsOrRest
           /\ tab[q].kind \in Kinds
           /\ tab[q].at \in {"rest", "server", "rotating", "reply"}
           /\ tab[q].sent \in Sent /\ tab[q].reply \in Replies
           /\ tab[q].told \in {"", "ok", "denied", "failed"} /\ tab[q].again \in BOOLEAN
BY DEF BrowserInv, BrowserTyped, RequestsFit, TabStates

\* The cookies of a jar.
LEMMA PartsOfJar ==
    /\ \A j \in Sent : j.access \in AccessTokensOf \union {Nothing}
                       /\ j.refresh \in Refreshes \union {Nothing}
    /\ \A j \in Replies : j.access \in AccessTokensOf \union {Nothing, Untouched}
                          /\ j.refresh \in Refreshes \union {Nothing, Untouched}
BY DEF Sent, Replies, Jars

\* How a request can have been answered.
Verdicts == {"", "ok", "denied", "failed"}

\* Where the script goes after an answer: to rest, or to one more request.  Who
\* is on the way out stays on it until the cookies are cleared.
LEMMA AfterFits ==
    ASSUME BrowserInv, NEW q \in Tabs, tab[q].at # "rest", NEW cookies \in Sent,
           NEW told \in Verdicts,
           NEW next, next = After(q, told, cookies)
    PROVE  /\ next \in TabStates /\ RequestFits(next)
           /\ next.reply = NoCookies /\ next.sent \in {cookies, EmptyJar}
           /\ next.at \in {"rest", "server"} /\ (next.at = "rest" => next.sent = EmptyJar)
           /\ tab[q].goal = "logout" /\ tab[q].kind # "clear" =>
                 next.goal = "logout" /\ next.at = "server"
           /\ tab[q].kind = "clear" => next.sent = EmptyJar
<1> DEFINE s == tab[q]
           renewed == s.kind = "refresh" /\ told = "ok"
           renews == s.kind \in AuthFetched /\ told = "denied" /\ ~s.again
           leaves == s.goal = "logout" /\ s.kind # "clear"
<1>1. /\ s.goal \in GoalsOrRest /\ s.again \in BOOLEAN
      /\ s.kind \in Kinds
      /\ s.kind = s.goal \/ s.kind = "refresh" \/ (s.kind = "clear" /\ s.goal = "logout")
    BY PartsOfTab DEF RequestFits
<1>3. RequestFits(AtHome)
    BY HomeTyped, JarsTyped DEF RequestFits, OnePair
<1>4. CASE renewed
    <2>1. next = [AtHome EXCEPT !.goal = s.goal, !.kind = s.goal, !.at = "server",
                                !.sent = cookies, !.again = TRUE]
        BY <1>4, <1>1 DEF After, AuthFetched, Asked
    <2>2. /\ next \in TabStates /\ next.goal = s.goal /\ next.kind = s.goal
          /\ next.at = "server" /\ next.sent = cookies /\ next.reply = NoCookies
        BY <2>1, <1>1, JarsTyped DEF AtHome, TabStates, Goals, GoalsOrRest, Kinds
    <2>3. RequestFits(next)
        BY <1>4, <2>2, OnTheWay
    <2>4. QED
        BY <1>4, <2>2, <2>3, <1>1 DEF AuthFetched
<1>5. CASE renews
    <2>1. next = [AtHome EXCEPT !.goal = s.goal, !.kind = "refresh", !.at = "server",
                                !.sent = cookies, !.again = FALSE]
        BY <1>5, <1>1 DEF After, AuthFetched, Asked
    <2>2. /\ next \in TabStates /\ next.goal = s.goal /\ next.kind = "refresh"
          /\ next.at = "server" /\ next.sent = cookies /\ next.reply = NoCookies
        BY <2>1, <1>1, JarsTyped DEF AtHome, TabStates, Goals, GoalsOrRest, Kinds
    <2>3. RequestFits(next)
        BY <1>5, <2>2, OnTheWay
    <2>4. QED
        BY <1>5, <2>2, <2>3, <1>1 DEF AuthFetched
<1>6. CASE leaves /\ ~renewed /\ ~renews
    <2>1. next = [AtHome EXCEPT !.goal = s.goal, !.kind = "clear", !.at = "server",
                                !.sent = cookies, !.again = TRUE]
        BY <1>6, <1>1 DEF After, AuthFetched, Asked
    <2>2. /\ next \in TabStates /\ next.goal = s.goal /\ next.kind = "clear"
          /\ next.at = "server" /\ next.sent = cookies /\ next.reply = NoCookies
        BY <2>1, <1>1, JarsTyped DEF AtHome, TabStates, Goals, GoalsOrRest, Kinds
    <2>3. RequestFits(next)
        BY <1>6, <2>2, OnTheWay
    <2>4. QED
        BY <1>6, <2>2, <2>3, <1>1 DEF AuthFetched
<1>7. CASE ~leaves /\ ~renewed /\ ~renews
    <2>1. next = AtHome
        BY <1>7 DEF After, AuthFetched
    <2>2. QED
        BY <1>1, <1>3, <1>7, <2>1, HomeTyped
<1>8. QED
    BY <1>4, <1>5, <1>6, <1>7

\* The pair of a login or an exchange.
LEMMA PairTyped ==
    ASSUME NEW t \in Refreshes, NEW who \in Persons
    PROVE  /\ Pair(t, who) \in Replies /\ Pair(t, who) # NoCookies
           /\ Pair(t, who).refresh = t /\ OnePair(Pair(t, who)) /\ New(Pair(t, who))
<1> DEFINE pair == Pair(t, who)
<1>1. AccessFor(t, who) \in AccessTokensOf /\ ~AccessFor(t, who).shadow
      /\ AccessFor(t, who).twin = t
    BY DEF AccessFor, AccessTokensOf
<1>2. pair \in Replies /\ pair.refresh = t /\ pair.access = AccessFor(t, who)
    BY <1>1, JarsTyped DEF Pair, Replies, Jars
<1> HIDE DEF pair
<1>3. t # Nothing /\ t # Untouched
    BY BrowserConstants
<1>4. pair # NoCookies
    BY <1>2, <1>3, JarsTyped
<1>5. QED
    BY <1>1, <1>2, <1>3, <1>4, CookieConstants DEF pair, OnePair, New

-----------------------------------------------------------------------------
(* One request moves *)

\* The rows of refresh_tokens.
TokenStates == [of : Persons \union {Nothing}, row : {"none", "active", "revoked"}]

\* The other tabs keep the requests they have.
LEMMA TabMoves ==
    ASSUME BrowserInv, NEW q \in Tabs, NEW next \in TabStates, RequestFits(next),
           tab' = [tab EXCEPT ![q] = next]
    PROVE  /\ tab' \in [Tabs -> TabStates] /\ RequestsFit'
           /\ tab'[q] = next /\ \A r \in Tabs : r # q => tab'[r] = tab[r]
<1>1. tab \in [Tabs -> TabStates] /\ \A r \in Tabs : RequestFits(tab[r])
    BY DEF BrowserInv, BrowserTyped, RequestsFit
<1>2. tab' \in [Tabs -> TabStates] /\ tab'[q] = next /\ \A r \in Tabs : r # q => tab'[r] = tab[r]
    BY <1>1
<1>3. \A r \in Tabs : RequestFits(tab'[r])
    BY <1>1, <1>2
<1>4. QED
    BY <1>2, <1>3 DEF RequestsFit, RequestFits, OnePair

\* The calls of the pages stay as they are.
LEMMA PagesRest ==
    ASSUME BrowserInv, NEW q \in Tabs, NEW next \in TabStates,
           \A r \in Tabs : r # q => tab'[r] = tab[r], tab'[q] = next,
           loading' = loading, \A f \in Fetches : ~Exchanging(q, f)
    PROVE  PagesFit'
BY DEF BrowserInv, PagesFit, Exchanging

\* The calls of one page are over.
LEMMA PageLeft ==
    ASSUME BrowserInv, NEW q \in Tabs, NEW next \in TabStates,
           \A r \in Tabs : r # q => tab'[r] = tab[r], tab'[q] = next,
           loading' = [loading EXCEPT ![q] = BlankPage]
    PROVE  PagesFit' /\ loading' \in [Tabs -> PageStates]
<1>1. loading \in [Tabs -> PageStates]
    BY DEF BrowserInv, BrowserTyped
<1>2. BlankPage \in PageStates /\ BlankPage.exchanges = 0
      /\ \A f \in Fetches : BlankPage.fetch[f] = "todo"
    BY DEF BlankPage, PageStates
<1>3. loading' \in [Tabs -> PageStates] /\ loading'[q] = BlankPage
      /\ \A r \in Tabs : r # q => loading'[r] = loading[r]
    BY <1>1, <1>2
<1>4. PagesFit'
    BY <1>2, <1>3 DEF BrowserInv, PagesFit, Exchanging
<1>5. QED
    BY <1>3, <1>4

\* The token a request was sent with is one that was issued, or none.
LEMMA SentIsIssued ==
    ASSUME BrowserInv, NEW q \in Tabs, tab[q].sent.refresh # Nothing
    PROVE  /\ tab[q].sent.refresh \in Refreshes
           /\ tokens[tab[q].sent.refresh].row \in {"active", "revoked"}
           /\ tokens[tab[q].sent.refresh].of \in Persons
<1>1. tab[q].sent.refresh \in Refreshes
    BY PartsOfTab, PartsOfJar
<1>2. tokens[tab[q].sent.refresh] \in TokenStates
    BY <1>1 DEF BrowserInv, BrowserTyped, TokenStates
<1>3. QED
    BY <1>1, <1>2 DEF BrowserInv, TokensFit, TokenStates

\* A request that is answered, or goes on, with no new token: the token it was
\* sent with may be revoked by it, if that is noted or the user is on the way out.
LEMMA TokensRest ==
    ASSUME BrowserInv, NEW q \in Tabs, NEW next \in TabStates,
           \A r \in Tabs : r # q => tab'[r] = tab[r], tab'[q] = next,
           jar' = jar, slipped \subseteq slipped',
           tab[q].at # "rest", next.at # "rest",
           next.goal = tab[q].goal, next.kind = tab[q].kind, next.sent = tab[q].sent,
           New(tab[q].reply) \/ New(next.reply) => next.reply = tab[q].reply,
           \/ tokens' = tokens
           \/ /\ tab[q].sent.refresh # Nothing
              /\ tokens' = [tokens EXCEPT ![tab[q].sent.refresh].row = "revoked"]
              /\ tab[q].goal = "logout" \/ tab[q].sent.refresh \in slipped'
    PROVE  /\ tokens' \in [Refreshes -> TokenStates] /\ TokensFit' /\ NewIsUnseen' /\ RenewalComes'
<1> DEFINE old == tab[q].sent.refresh
           j == jar.refresh
<1>1. tokens \in [Refreshes -> TokenStates] /\ j \in Refreshes \union {Nothing}
    BY PartsOfJar DEF BrowserInv, BrowserTyped, TokenStates
<1>2. old # Nothing => old \in Refreshes /\ tokens[old].row # "none" /\ tokens[old].of \in Persons
    BY SentIsIssued
<1>3. /\ tokens' \in [Refreshes -> TokenStates]
      /\ \A t \in Refreshes : t # old \/ tokens' = tokens => tokens'[t] = tokens[t]
      /\ \A t \in Refreshes : tokens'[t].of = tokens[t].of
      /\ \A t \in Refreshes : tokens'[t].row # "none" <=> tokens[t].row # "none"
    BY <1>1, <1>2 DEF TokenStates
<1>4. tokens' # tokens => old # Nothing /\ (tab[q].goal = "logout" \/ old \in slipped')
    OBVIOUS
<1>5. \A r \in Tabs : /\ tab'[r].sent = tab[r].sent /\ tab'[r].goal = tab[r].goal
                      /\ tab'[r].kind = tab[r].kind
                      /\ New(tab'[r].reply) => tab'[r].reply = tab[r].reply
                      /\ New(tab[r].reply) => tab'[r].reply = tab[r].reply
                      /\ tab[r].at # "rest" => tab'[r].at # "rest"
    OBVIOUS
<1>6. \A r \in Tabs : tab[r].sent.refresh \in Refreshes \union {Nothing}
                      /\ tab[r].reply.refresh \in Refreshes \union {Nothing, Untouched}
    BY PartsOfTab, PartsOfJar
<1>7. TokensFit'
    BY <1>1, <1>3, <1>5, <1>6 DEF BrowserInv, TokensFit
<1>8. NewIsUnseen'
    <2> SUFFICES ASSUME NEW r \in Tabs, New(tab'[r].reply)
                 PROVE  LET n == tab'[r].reply.refresh IN
                        /\ n # Nothing /\ tokens'[n].row = "active" /\ jar.refresh # n
                        /\ \A p \in Tabs : tab'[p].sent.refresh # n
                                           /\ (p # r => tab'[p].reply.refresh # n)
        BY DEF NewIsUnseen, New, IsActive
    <2> DEFINE n == tab[r].reply.refresh
    <2>1. tab'[r].reply = tab[r].reply /\ New(tab[r].reply) /\ n \in Refreshes
        BY <1>5, <1>6 DEF New
    <2>2. /\ n # Nothing /\ n # Untouched /\ tokens[n].row = "active" /\ jar.refresh # n
          /\ \A p \in Tabs : tab[p].sent.refresh # n /\ (p # r => tab[p].reply.refresh # n)
        BY <2>1 DEF BrowserInv, NewIsUnseen, New, IsActive
    <2>3. tokens'[n].row = "active"
        BY <2>1, <2>2, <1>3
    <2>4. \A p \in Tabs : p # r /\ tab'[p].reply.refresh = n => FALSE
        BY <2>2, <1>5 DEF New
    <2>5. QED
        BY <2>1, <2>2, <2>3, <2>4, <1>5
<1>9. RenewalComes'
    <2> SUFFICES ASSUME j # Nothing, tokens'[j].row # "active", j \notin slipped'
                 PROVE  \E r \in Tabs :
                            /\ tab'[r].at # "rest"
                            /\ \/ tab'[r].goal = "logout"
                               \/ tab'[r].kind \in {"refresh", "page"} /\ tab'[r].sent.refresh = j
                                  /\ New(tab'[r].reply)
        BY DEF RenewalComes, Carries, New, IsActive
    <2>1. CASE tokens[j].row = "active"
        <3>1. j = old /\ tokens' # tokens
            BY <2>1, <1>1, <1>3
        <3>2. tab'[q].at # "rest" /\ tab'[q].goal = "logout"
            BY <3>1, <1>4
        <3>3. QED
            BY <3>2
    <2>2. CASE tokens[j].row # "active"
        <3>1. PICK r \in Tabs : Carries(r, j)
            BY <2>2 DEF BrowserInv, RenewalComes, IsActive
        <3>2. QED
            BY <3>1, <1>5 DEF Carries
    <2>3. QED
        BY <2>1, <2>2
<1>10. QED
    BY <1>3, <1>7, <1>8, <1>9

\* A new token is issued, for a login or in exchange for the one the request was
\* sent with, and the answer of the request has the pair of it.
LEMMA TokenComes ==
    ASSUME BrowserInv, NEW q \in Tabs, NEW next \in TabStates,
           \A r \in Tabs : r # q => tab'[r] = tab[r], tab'[q] = next,
           jar' = jar, slipped' = slipped,
           tab[q].at # "rest", next.at # "rest",
           next.goal = tab[q].goal, next.kind = tab[q].kind, next.sent = tab[q].sent,
           NEW t \in Refreshes, NEW who \in Persons, tokens[t].row = "none",
           next.reply = Pair(t, who),
           \/ tokens' = Issue(t, who)
           \/ /\ tab[q].sent.refresh # Nothing /\ tab[q].kind \in {"refresh", "page"}
              /\ tokens' = [Issue(t, who) EXCEPT ![tab[q].sent.refresh].row = "revoked"]
    PROVE  /\ tokens' \in [Refreshes -> TokenStates] /\ TokensFit' /\ NewIsUnseen' /\ RenewalComes'
<1> DEFINE old == tab[q].sent.refresh
           j == jar.refresh
<1>1. tokens \in [Refreshes -> TokenStates] /\ j \in Refreshes \union {Nothing}
    BY PartsOfJar DEF BrowserInv, BrowserTyped, TokenStates
<1>2. /\ next.reply.refresh = t /\ New(next.reply)
      /\ t # Nothing /\ t # Untouched
    BY PairTyped DEF New
<1>3. old # Nothing => old \in Refreshes /\ tokens[old].row # "none" /\ tokens[old].of \in Persons
    BY SentIsIssued
<1>4. /\ tokens' \in [Refreshes -> TokenStates] /\ tokens'[t].row = "active" /\ tokens'[t].of = who
      /\ \A s \in Refreshes : s \notin {t, old} => tokens'[s] = tokens[s]
      /\ \A s \in Refreshes : s # t => tokens'[s].of = tokens[s].of
      /\ \A s \in Refreshes : tokens[s].row # "none" => tokens'[s].row # "none"
      /\ \A s \in Refreshes : s # t /\ tokens'[s].row # "none" => tokens[s].row # "none"
      /\ old \in Refreshes /\ tokens'[old] # tokens[old] /\ old # t =>
            tab[q].kind \in {"refresh", "page"}
    BY <1>1, <1>3 DEF TokenStates, Issue
<1>5. \A r \in Tabs : /\ tab'[r].sent = tab[r].sent /\ tab'[r].goal = tab[r].goal
                      /\ tab'[r].kind = tab[r].kind
                      /\ tab[r].at # "rest" => tab'[r].at # "rest"
                      /\ r # q => tab'[r].reply = tab[r].reply
    OBVIOUS
<1>6. \A r \in Tabs : tab[r].sent.refresh \in Refreshes \union {Nothing}
                      /\ tab[r].reply.refresh \in Refreshes \union {Nothing, Untouched}
    BY PartsOfTab, PartsOfJar
<1>7. j # t /\ \A r \in Tabs : tab[r].sent.refresh # t
    BY <1>2 DEF BrowserInv, TokensFit
<1>8. TokensFit'
    BY <1>1, <1>4, <1>5, <1>6 DEF BrowserInv, TokensFit
<1>9. NewIsUnseen'
    <2> SUFFICES ASSUME NEW r \in Tabs, New(tab'[r].reply)
                 PROVE  LET n == tab'[r].reply.refresh IN
                        /\ n # Nothing /\ tokens'[n].row = "active" /\ jar.refresh # n
                        /\ \A p \in Tabs : tab'[p].sent.refresh # n
                                           /\ (p # r => tab'[p].reply.refresh # n)
        BY DEF NewIsUnseen, New, IsActive
    <2>0. \A p \in Tabs : p # q => tab[p].reply.refresh # t
        BY <1>2 DEF BrowserInv, NewIsUnseen, New, IsActive
    <2>1. CASE r = q
        BY <2>0, <2>1, <1>2, <1>4, <1>5, <1>7
    <2>2. CASE r # q
        <3> DEFINE n == tab[r].reply.refresh
        <3>1. tab'[r].reply = tab[r].reply /\ New(tab[r].reply) /\ n \in Refreshes
            BY <2>2, <1>5, <1>6 DEF New
        <3>2. /\ n # Nothing /\ n # Untouched /\ tokens[n].row = "active" /\ jar.refresh # n
              /\ \A p \in Tabs : tab[p].sent.refresh # n /\ (p # r => tab[p].reply.refresh # n)
            BY <3>1 DEF BrowserInv, NewIsUnseen, New, IsActive
        <3>3. n # t /\ n # old
            BY <3>2
        <3>4. tokens'[n].row = "active"
            BY <3>1, <3>2, <3>3, <1>4
        <3>5. QED
            BY <2>2, <3>1, <3>2, <3>3, <3>4, <1>2, <1>5
    <2>3. QED
        BY <2>1, <2>2
<1>10. RenewalComes'
    <2> SUFFICES ASSUME j # Nothing, tokens'[j].row # "active", j \notin slipped'
                 PROVE  \E r \in Tabs :
                            /\ tab'[r].at # "rest"
                            /\ \/ tab'[r].goal = "logout"
                               \/ tab'[r].kind \in {"refresh", "page"} /\ tab'[r].sent.refresh = j
                                  /\ New(tab'[r].reply)
        BY DEF RenewalComes, Carries, New, IsActive
    <2>1. CASE tokens[j].row = "active"
        <3>1. j = old /\ tab[q].kind \in {"refresh", "page"}
            BY <2>1, <1>1, <1>4, <1>7
        <3>2. QED
            BY <3>1, <1>2, <1>5
    <2>2. CASE tokens[j].row # "active"
        <3>1. PICK r \in Tabs : Carries(r, j)
            BY <2>2 DEF BrowserInv, RenewalComes, IsActive
        <3>2. QED
            BY <3>1, <1>2, <1>5 DEF Carries
    <2>3. QED
        BY <2>1, <2>2
<1>11. QED
    BY <1>4, <1>8, <1>9, <1>10

-----------------------------------------------------------------------------
(* The steps of the services *)

\* As long as the jar stays, and what the requests were sent with.
LEMMA JarRests ==
    ASSUME BrowserInv, UNCHANGED <<jar, browserHistory>>,
           \A r \in Tabs : tab'[r].sent = tab[r].sent
    PROVE  OnlyTheCarried' /\ LeftMeansLeft' /\ JarIsOnePerson'
BY DEF BrowserInv, OnlyTheCarried, LeftMeansLeft, JarIsOnePerson, browserHistory

\* A request is answered, or goes on, with no new token.
LEMMA AnswerStep ==
    ASSUME BrowserInv, NEW q \in Tabs, NEW next \in TabStates, RequestFits(next),
           tab' = [tab EXCEPT ![q] = next],
           UNCHANGED <<jar, loading, browserHistory>>,
           slipped \subseteq slipped', slipped' \subseteq Refreshes, dead' \subseteq AccessTokensOf,
           tab[q].at # "rest", next.at # "rest",
           next.goal = tab[q].goal, next.kind = tab[q].kind, next.sent = tab[q].sent,
           New(tab[q].reply) \/ New(next.reply) => next.reply = tab[q].reply,
           \A f \in Fetches : ~Exchanging(q, f),
           \/ tokens' = tokens
           \/ /\ tab[q].sent.refresh # Nothing
              /\ tokens' = [tokens EXCEPT ![tab[q].sent.refresh].row = "revoked"]
              /\ tab[q].goal = "logout" \/ tab[q].sent.refresh \in slipped'
    PROVE  BrowserInv'
<1>1. /\ tab' \in [Tabs -> TabStates] /\ RequestsFit'
      /\ tab'[q] = next /\ \A r \in Tabs : r # q => tab'[r] = tab[r]
    BY TabMoves
<1>2. PagesFit'
    BY <1>1, PagesRest
<1>3. tokens' \in [Refreshes -> TokenStates] /\ TokensFit' /\ NewIsUnseen' /\ RenewalComes'
    BY <1>1, TokensRest
<1>4. OnlyTheCarried' /\ LeftMeansLeft' /\ JarIsOnePerson'
    <2>1. \A r \in Tabs : tab'[r].sent = tab[r].sent
        BY <1>1
    <2>2. QED
        BY <2>1, JarRests
<1>5. BrowserTyped'
    BY <1>1, <1>3 DEF BrowserInv, BrowserTyped, TokenStates, browserHistory
<1>6. QED
    BY <1>1, <1>2, <1>3, <1>4, <1>5 DEF BrowserInv

\* A request gets a new pair.
LEMMA IssueStep ==
    ASSUME BrowserInv, NEW q \in Tabs, NEW next \in TabStates, RequestFits(next),
           tab' = [tab EXCEPT ![q] = next],
           UNCHANGED <<jar, dead, browserHistory, slipped>>,
           loading' \in [Tabs -> PageStates], PagesFit',
           tab[q].at # "rest", next.at # "rest",
           next.goal = tab[q].goal, next.kind = tab[q].kind, next.sent = tab[q].sent,
           NEW t \in Refreshes, NEW who \in Persons, tokens[t].row = "none",
           next.reply = Pair(t, who),
           \/ tokens' = Issue(t, who)
           \/ /\ tab[q].sent.refresh # Nothing /\ tab[q].kind \in {"refresh", "page"}
              /\ tokens' = [Issue(t, who) EXCEPT ![tab[q].sent.refresh].row = "revoked"]
    PROVE  BrowserInv'
<1>1. /\ tab' \in [Tabs -> TabStates] /\ RequestsFit'
      /\ tab'[q] = next /\ \A r \in Tabs : r # q => tab'[r] = tab[r]
    BY TabMoves
<1>2. jar' = jar /\ slipped' = slipped /\ dead' = dead
    OBVIOUS
<1>3. tokens' \in [Refreshes -> TokenStates] /\ TokensFit' /\ NewIsUnseen' /\ RenewalComes'
    BY <1>1, <1>2, TokenComes
<1>4. OnlyTheCarried' /\ LeftMeansLeft' /\ JarIsOnePerson'
    <2>1. \A r \in Tabs : tab'[r].sent = tab[r].sent
        BY <1>1
    <2>2. QED
        BY <2>1, JarRests
<1>5. BrowserTyped'
    BY <1>1, <1>3 DEF BrowserInv, BrowserTyped, TokenStates, browserHistory
<1>6. QED
    BY <1>1, <1>3, <1>4, <1>5 DEF BrowserInv

\* Only a page at the server is waiting for calls of its own.
LEMMA NoExchange ==
    ASSUME BrowserInv, NEW q \in Tabs, tab[q].kind # "page" \/ tab[q].at # "server"
    PROVE  \A f \in Fetches : ~Exchanging(q, f)
BY DEF BrowserInv, PagesFit

\* auth-service or the proxy answers a call of the scripts without a new token.
LEMMA CallAnswered ==
    ASSUME BrowserInv, NEW q \in Tabs, tab[q].at \in {"server", "rotating"}, tab[q].kind # "page",
           NEW told \in {"", "ok", "denied", "failed"},
           NEW reply \in Replies, Respond(q, told, reply), ~New(reply), OnePair(reply),
           tab[q].kind = "clear" => reply = Cleared,
           tab[q].kind \in {"refresh", "login"} => reply = NoCookies,
           tab[q].kind # "clear" /\ tab[q].sent = EmptyJar => reply = NoCookies,
           UNCHANGED <<jar, loading, browserHistory>>,
           slipped \subseteq slipped', slipped' \subseteq Refreshes, dead' \subseteq AccessTokensOf,
           \/ tokens' = tokens
           \/ /\ tab[q].sent.refresh # Nothing
              /\ tokens' = [tokens EXCEPT ![tab[q].sent.refresh].row = "revoked"]
              /\ tab[q].goal = "logout" \/ tab[q].sent.refresh \in slipped'
    PROVE  BrowserInv'
<1> DEFINE next == [tab[q] EXCEPT !.at = "reply", !.told = told, !.reply = reply]
<1>1. /\ next \in TabStates /\ tab' = [tab EXCEPT ![q] = next]
      /\ next.at = "reply" /\ next.told = told /\ next.reply = reply
      /\ next.goal = tab[q].goal /\ next.kind = tab[q].kind /\ next.sent = tab[q].sent
    <2>1. tab \in [Tabs -> TabStates]
        BY DEF BrowserInv, BrowserTyped
    <2>2. next \in TabStates /\ next.at = "reply" /\ next.told = told /\ next.reply = reply
          /\ next.goal = tab[q].goal /\ next.kind = tab[q].kind /\ next.sent = tab[q].sent
        BY <2>1 DEF TabStates
    <2>3. tab' = [tab EXCEPT ![q] = next]
        BY <2>1 DEF Respond
    <2>4. QED
        BY <2>2, <2>3
<1> HIDE DEF next
<1>2. tab[q] \in TabStates /\ RequestFits(tab[q])
    BY PartsOfTab
<1>3. tab[q].reply = NoCookies
    BY <1>2 DEF RequestFits
<1>4. RequestFits(next)
    BY <1>1, <1>2 DEF RequestFits
<1>5. ~New(tab[q].reply) /\ ~New(next.reply)
    BY <1>1, <1>3, JarsTyped DEF New
<1>6. QED
    BY <1>1, <1>4, <1>5, NoExchange, AnswerStep

\* An answer without cookies.
LEMMA BareAnswer ==
    ASSUME BrowserInv, NEW q \in Tabs, tab[q].at \in {"server", "rotating"},
           tab[q].kind \notin {"page", "clear"},
           NEW told \in {"", "ok", "denied", "failed"}, Respond(q, told, NoCookies),
           UNCHANGED <<jar, loading, browserHistory>>,
           slipped \subseteq slipped', slipped' \subseteq Refreshes, dead' \subseteq AccessTokensOf,
           \/ tokens' = tokens
           \/ /\ tab[q].sent.refresh # Nothing
              /\ tokens' = [tokens EXCEPT ![tab[q].sent.refresh].row = "revoked"]
              /\ tab[q].goal = "logout" \/ tab[q].sent.refresh \in slipped'
    PROVE  BrowserInv'
<1> DEFINE reply == NoCookies
<1>1. reply \in Replies /\ ~New(reply) /\ OnePair(reply) /\ reply = NoCookies
    BY JarsTyped DEF New, OnePair
<1>2. Respond(q, told, reply)
    OBVIOUS
<1> HIDE DEF reply
<1>3. QED
    BY <1>1, <1>2, CallAnswered

\* What stays when a step says so.
LEMMA TypedSets == BrowserInv => dead \subseteq AccessTokensOf /\ slipped \subseteq Refreshes
BY DEF BrowserInv, BrowserTyped

\* A reply that sets no cookie.
LEMMA ReturnStep ==
    ASSUME BrowserInv, NEW q \in Tabs, Return(q) PROVE BrowserInv'
BY TypedSets, BareAnswer DEF Return, At

\* A page calls the api with the access token it has.
LEMMA CallStep ==
    ASSUME BrowserInv, NEW q \in Tabs, Call(q) PROVE BrowserInv'
<1> DEFINE told == IF Accepted(tab[q].sent.access) THEN "ok" ELSE "denied"
<1>1. told \in {"", "ok", "denied", "failed"} /\ Respond(q, told, NoCookies)
    BY DEF Call
<1> HIDE DEF told
<1>2. QED
    BY <1>1, TypedSets, BareAnswer DEF Call, At

\* The login page clears the cookies.
LEMMA ClearStep ==
    ASSUME BrowserInv, NEW q \in Tabs, ClearCookies(q) PROVE BrowserInv'
<1> DEFINE reply == Cleared
<1>1. reply \in Replies /\ ~New(reply) /\ OnePair(reply) /\ reply = Cleared
    BY JarsTyped, BrowserConstants, CookieConstants DEF Cleared, New, OnePair
<1>2. Respond(q, "ok", reply) /\ tab[q].kind = "clear" /\ tab[q].at = "server"
    BY DEF ClearCookies, At
<1>3. UNCHANGED <<jar, tokens, dead, loading, browserHistory, slipped>>
    BY DEF ClearCookies
<1> HIDE DEF reply
<1>4. QED
    BY <1>1, <1>2, <1>3, TypedSets, CallAnswered

\* The cookies that put somebody else's token before that of the superadmin.
LEMMA DisguiseTyped ==
    ASSUME NEW sent \in Sent, sent.access # Nothing, NEW shadow \in AccessTokensOf,
           NEW reply, reply = Disguise(sent, shadow)
    PROVE  reply \in Replies /\ ~New(reply) /\ OnePair(reply)
<1>1. sent.access \in AccessTokensOf /\ sent.refresh \in Refreshes \union {Nothing}
    BY PartsOfJar
<1>2. reply \in Replies /\ reply.refresh = Nothing /\ reply.access = shadow
    BY <1>1 DEF Disguise, Replies, Jars
<1>3. QED
    BY <1>2, BrowserConstants, CookieConstants DEF New, OnePair

\* A superadmin gets a token for somebody, and the own pair is kept aside.
LEMMA ShadowStep ==
    ASSUME BrowserInv, NEW q \in Tabs, BecomeShadow(q) PROVE BrowserInv'
<1> DEFINE sent == tab[q].sent
<1>1. /\ tab[q].kind = "impersonate" /\ tab[q].at = "server" /\ sent \in Sent
      /\ UNCHANGED <<jar, tokens, loading, browserHistory, slipped>>
    BY PartsOfTab DEF BecomeShadow, At
<1>2. \/ \E told \in {"denied", "failed"} : Respond(q, told, NoCookies) /\ dead' = dead
      \/ /\ Accepted(sent.access) /\ sent.access.of = Admin
         /\ \E who \in Persons \ {Admin} :
               LET shadow == [of |-> who, twin |-> sent.access.twin, shadow |-> TRUE] IN
               Respond(q, "ok", Disguise(sent, shadow)) /\ dead' = dead \ {shadow}
    BY DEF BecomeShadow
<1>3. CASE \E told \in {"denied", "failed"} : Respond(q, told, NoCookies) /\ dead' = dead
    BY <1>1, <1>3, TypedSets, BareAnswer
<1>4. ASSUME Accepted(sent.access), NEW who \in Persons \ {Admin},
             Respond(q, "ok", Disguise(sent, [of |-> who, twin |-> sent.access.twin, shadow |-> TRUE])),
             dead' = dead \ {[of |-> who, twin |-> sent.access.twin, shadow |-> TRUE]}
      PROVE  BrowserInv'
    <2> DEFINE shadow == [of |-> who, twin |-> sent.access.twin, shadow |-> TRUE]
               reply == Disguise(sent, shadow)
    <2>1. sent.access # Nothing /\ sent.access \in AccessTokensOf
        BY <1>1, <1>4, PartsOfJar DEF Accepted
    <2>2. shadow \in AccessTokensOf
        BY <2>1 DEF AccessTokensOf
    <2>3. Respond(q, "ok", reply) /\ dead' \subseteq dead
        BY <1>4
    <2> HIDE DEF shadow
    <2>4. reply \in Replies /\ ~New(reply) /\ OnePair(reply)
        BY <1>1, <2>1, <2>2, DisguiseTyped
    <2>5. sent # EmptyJar
        BY <2>1, JarsTyped
    <2> HIDE DEF reply
    <2>6. QED
        BY <1>1, <2>3, <2>4, <2>5, TypedSets, CallAnswered
<1>5. QED
    BY <1>2, <1>3, <1>4

\* A logout revokes the refresh token and clears the cookies.
LEMMA LogoutStep ==
    ASSUME BrowserInv, NEW q \in Tabs, Logout(q) PROVE BrowserInv'
<1> DEFINE t == tab[q].sent.refresh
           told == IF t = Nothing THEN "failed" ELSE "denied"
<1>1. /\ tab[q].kind = "logout" /\ tab[q].at = "server"
      /\ UNCHANGED <<jar, loading, browserHistory, slipped>>
    BY DEF Logout, At
<1>2. tab[q].goal = "logout" /\ tab[q].sent.access \in AccessTokensOf \union {Nothing}
    BY <1>1, PartsOfTab, PartsOfJar DEF RequestFits
<1>3. CASE IsActive(t)
    <2>1. /\ t # Nothing /\ tokens' = [tokens EXCEPT ![t].row = "revoked"]
          /\ dead' = dead \union ({tab[q].sent.access} \ {Nothing})
          /\ Respond(q, "ok", NoCookies)
        BY <1>3 DEF Logout, IsActive, Revoke
    <2>2. dead' \subseteq AccessTokensOf
        BY <1>2, <2>1, TypedSets
    <2>3. QED
        BY <1>1, <1>2, <2>1, <2>2, TypedSets, BareAnswer
<1>4. CASE ~IsActive(t)
    <2>1. Respond(q, told, NoCookies) /\ told \in {"", "ok", "denied", "failed"}
          /\ tokens' = tokens /\ dead' = dead
        BY <1>4 DEF Logout
    <2> HIDE DEF told
    <2>2. QED
        BY <1>1, <2>1, TypedSets, BareAnswer
<1>5. QED
    BY <1>3, <1>4

\* The auth-service looks a refresh token up.
LEMMA RefreshVerifyStep ==
    ASSUME BrowserInv, NEW q \in Tabs, RefreshVerify(q) PROVE BrowserInv'
<1>1. /\ tab[q].kind = "refresh" /\ tab[q].at = "server"
      /\ UNCHANGED <<jar, tokens, dead, loading, browserHistory, slipped>>
    BY DEF RefreshVerify, At
<1>2. CASE IsActive(tab[q].sent.refresh)
    <2> DEFINE next == [tab[q] EXCEPT !.at = "rotating"]
    <2>1. tab \in [Tabs -> TabStates]
        BY DEF BrowserInv, BrowserTyped
    <2>2. /\ next \in TabStates /\ next.at = "rotating" /\ next.reply = tab[q].reply
          /\ next.goal = tab[q].goal /\ next.kind = tab[q].kind /\ next.sent = tab[q].sent
        BY <2>1 DEF TabStates
    <2>3. tab' = [tab EXCEPT ![q] = next]
        BY <1>2, <2>1 DEF RefreshVerify
    <2> HIDE DEF next
    <2>4. RequestFits(next)
        BY <1>1, <1>2, <2>2, PartsOfTab DEF RequestFits, IsActive
    <2>5. QED
        BY <1>1, <2>2, <2>3, <2>4, TypedSets, NoExchange, AnswerStep
<1>3. CASE ~IsActive(tab[q].sent.refresh)
    <2>1. Respond(q, "denied", NoCookies)
        BY <1>3 DEF RefreshVerify
    <2>2. QED
        BY <1>1, <2>1, TypedSets, BareAnswer
<1>4. QED
    BY <1>2, <1>3

\* The auth-service exchanges it for a new pair.
LEMMA RefreshRotateStep ==
    ASSUME BrowserInv, NEW q \in Tabs, RefreshRotate(q) PROVE BrowserInv'
<1> DEFINE old == tab[q].sent.refresh
<1>1. /\ tab[q].at = "rotating" /\ UNCHANGED <<jar, dead, loading, browserHistory>>
      /\ \/ /\ slipped' = slipped
            /\ \E new \in Refreshes : /\ tokens[new].row = "none"
                                      /\ Respond(q, "ok", Pair(new, tokens[old].of))
                                      /\ tokens' = [Issue(new, tokens[old].of) EXCEPT ![old].row = "revoked"]
         \/ /\ tokens' = [tokens EXCEPT ![old].row = "revoked"] /\ slipped' = slipped \union {old}
            /\ Respond(q, "failed", NoCookies)
    BY DEF RefreshRotate, Rotate, Revoke
<1>2. tab[q].kind = "refresh" /\ old # Nothing
    BY <1>1, PartsOfTab DEF RequestFits
<1>3. old \in Refreshes /\ tokens[old].of \in Persons
    BY <1>2, SentIsIssued
<1>4. ASSUME NEW new \in Refreshes, tokens[new].row = "none", slipped' = slipped,
             Respond(q, "ok", Pair(new, tokens[old].of)),
             tokens' = [Issue(new, tokens[old].of) EXCEPT ![old].row = "revoked"]
      PROVE  BrowserInv'
    <2> DEFINE who == tokens[old].of
               reply == Pair(new, who)
               next == [tab[q] EXCEPT !.at = "reply", !.told = "ok", !.reply = reply]
    <2>1. tab \in [Tabs -> TabStates] /\ loading' \in [Tabs -> PageStates]
        BY <1>1 DEF BrowserInv, BrowserTyped
    <2>2. reply \in Replies /\ OnePair(reply)
        BY <1>3, PairTyped
    <2>3. tab' = [tab EXCEPT ![q] = next]
        BY <1>4, <2>1 DEF Respond
    <2> HIDE DEF reply
    <2>4. next \in TabStates /\ next.at = "reply" /\ next.told = "ok" /\ next.reply = reply
          /\ next.goal = tab[q].goal /\ next.kind = tab[q].kind /\ next.sent = tab[q].sent
        BY <2>1, <2>2 DEF TabStates
    <2> HIDE DEF next
    <2>5. RequestFits(next)
        BY <1>2, <2>2, <2>4, JarsTyped, PartsOfTab DEF RequestFits
    <2>6. PagesFit'
        <3>1. tab'[q] = next /\ \A r \in Tabs : r # q => tab'[r] = tab[r]
            BY <2>3, <2>4, <2>5, TabMoves
        <3>2. QED
            BY <1>1, <1>2, <2>4, <3>1, NoExchange, PagesRest
    <2>7. next.reply = Pair(new, who) /\ who \in Persons
        BY <2>4, <1>3 DEF reply
    <2>8. tokens' = [Issue(new, who) EXCEPT ![tab[q].sent.refresh].row = "revoked"]
        BY <1>4
    <2> HIDE DEF who
    <2>9. UNCHANGED <<jar, dead, browserHistory, slipped>>
        BY <1>1, <1>4
    <2>10. tab[q].at # "rest" /\ next.at # "rest" /\ tokens[new].row = "none"
        BY <1>1, <1>4, <2>4
    <2>11. QED
        BY <1>2, <2>1, <2>3, <2>4, <2>5, <2>6, <2>7, <2>8, <2>9, <2>10, IssueStep
<1>5. CASE /\ tokens' = [tokens EXCEPT ![old].row = "revoked"] /\ slipped' = slipped \union {old}
           /\ Respond(q, "failed", NoCookies)
    <2>1. slipped \subseteq slipped' /\ slipped' \subseteq Refreshes /\ old \in slipped'
        BY <1>3, <1>5, TypedSets
    <2>2. QED
        BY <1>1, <1>2, <1>5, <2>1, TypedSets, BareAnswer
<1>6. QED
    BY <1>1, <1>4, <1>5

\* A login issues a pair.
LEMMA LoginStep ==
    ASSUME BrowserInv, NEW q \in Tabs, Login(q) PROVE BrowserInv'
<1>1. /\ tab[q].kind = "login" /\ tab[q].at = "server"
      /\ UNCHANGED <<jar, dead, loading, browserHistory, slipped>>
    BY DEF Login, At
<1>2. PICK t \in Refreshes, who \in Persons : tokens[t].row = "none" /\ tokens' = Issue(t, who)
                                              /\ Respond(q, "ok", Pair(t, who))
    BY DEF Login
<1> DEFINE reply == Pair(t, who)
           next == [tab[q] EXCEPT !.at = "reply", !.told = "ok", !.reply = reply]
<1>3. tab \in [Tabs -> TabStates] /\ loading' \in [Tabs -> PageStates] /\ who \in Persons
    BY <1>1, <1>2 DEF BrowserInv, BrowserTyped
<1>4. reply \in Replies /\ OnePair(reply)
    BY <1>3, PairTyped
<1>5. tab' = [tab EXCEPT ![q] = next]
    BY <1>2, <1>3 DEF Respond
<1> HIDE DEF reply
<1>6. next \in TabStates /\ next.at = "reply" /\ next.told = "ok" /\ next.reply = reply
      /\ next.goal = tab[q].goal /\ next.kind = tab[q].kind /\ next.sent = tab[q].sent
    BY <1>3, <1>4 DEF TabStates
<1> HIDE DEF next
<1>7. RequestFits(next)
    BY <1>1, <1>4, <1>6, PartsOfTab DEF RequestFits
<1>8. PagesFit'
    <2>1. tab'[q] = next /\ \A r \in Tabs : r # q => tab'[r] = tab[r]
        BY <1>5, <1>6, <1>7, TabMoves
    <2>2. QED
        BY <1>1, <1>6, <2>1, NoExchange, PagesRest
<1>9. next.reply = Pair(t, who)
    BY <1>6 DEF reply
<1>10. QED
    BY <1>1, <1>2, <1>3, <1>5, <1>6, <1>7, <1>8, <1>9, IssueStep

-----------------------------------------------------------------------------
(* The calls of a page *)

\* The page is answered, with what its calls were given.
LEMMA PageStep ==
    ASSUME BrowserInv, NEW q \in Tabs, PageDone(q) PROVE BrowserInv'
<1> DEFINE next == [tab[q] EXCEPT !.at = "reply", !.told = "ok", !.reply = tab[q].reply]
<1>1. /\ tab[q].kind = "page" /\ tab[q].at = "server"
      /\ \A f \in Fetches : ~Exchanging(q, f)
      /\ UNCHANGED <<jar, tokens, dead, loading, browserHistory, slipped>>
    BY DEF PageDone, At, Exchanging
<1>2. tab \in [Tabs -> TabStates]
    BY DEF BrowserInv, BrowserTyped
<1>3. next \in TabStates /\ next.at = "reply" /\ next.told = "ok" /\ next.reply = tab[q].reply
      /\ next.goal = tab[q].goal /\ next.kind = tab[q].kind /\ next.sent = tab[q].sent
    BY <1>2 DEF TabStates
<1>4. tab' = [tab EXCEPT ![q] = next]
    BY <1>2 DEF PageDone, Respond
<1> HIDE DEF next
<1>5. RequestFits(next)
    BY <1>1, <1>3, PartsOfTab DEF RequestFits
<1>6. QED
    BY <1>1, <1>3, <1>4, <1>5, TypedSets, AnswerStep

\* One call of a page goes on.
LEMMA FetchMoves ==
    ASSUME BrowserInv, NEW q \in Tabs, NEW f \in Fetches,
           NEW how \in {"todo", "asking", "rotating", "with", "without"},
           FetchIs(q, f, how)
    PROVE  /\ loading' \in [Tabs -> PageStates]
           /\ \A r \in Tabs : /\ loading'[r].attempted = loading[r].attempted
                              /\ loading'[r].exchanges = loading[r].exchanges
                              /\ \A g \in Fetches : r # q \/ g # f =>
                                    loading'[r].fetch[g] = loading[r].fetch[g]
           /\ loading'[q].fetch[f] = how
<1>1. loading \in [Tabs -> PageStates]
    BY DEF BrowserInv, BrowserTyped
<1>2. QED
    BY <1>1 DEF FetchIs, PageStates

\* A step that only moves the calls of a page.
LEMMA CallsMove ==
    ASSUME BrowserInv, UNCHANGED <<jar, tokens, dead, tab, browserHistory, slipped>>,
           loading' \in [Tabs -> PageStates], PagesFit'
    PROVE  BrowserInv'
<1>1. BrowserTyped'
    BY DEF BrowserInv, BrowserTyped, browserHistory
<1>2. RequestsFit' /\ TokensFit' /\ OnlyTheCarried' /\ LeftMeansLeft' /\ JarIsOnePerson'
    BY DEF BrowserInv, RequestsFit, RequestFits, OnePair, TokensFit, OnlyTheCarried, LeftMeansLeft,
           JarIsOnePerson, browserHistory
<1>3. NewIsUnseen' /\ RenewalComes'
    BY DEF BrowserInv, NewIsUnseen, RenewalComes, Carries, New, IsActive
<1>4. QED
    BY <1>1, <1>2, <1>3 DEF BrowserInv

\* A call of a page asks for a new pair.
LEMMA VerifyCallStep ==
    ASSUME BrowserInv, NEW q \in Tabs, NEW f \in Fetches, EnsureAuthVerify(q, f) PROVE BrowserInv'
<1>1. /\ loading[q].fetch[f] = "asking" /\ UNCHANGED <<jar, tokens, dead, tab, browserHistory, slipped>>
      /\ FetchIs(q, f, "rotating") \/ FetchIs(q, f, "without")
    BY DEF EnsureAuthVerify
<1>2. /\ loading' \in [Tabs -> PageStates]
      /\ \A r \in Tabs : /\ loading'[r].attempted = loading[r].attempted
                         /\ loading'[r].exchanges = loading[r].exchanges
                         /\ \A g \in Fetches : r # q \/ g # f =>
                               loading'[r].fetch[g] = loading[r].fetch[g]
      /\ loading'[q].fetch[f] \in {"rotating", "without"}
    BY <1>1, FetchMoves
<1>3. PagesFit'
    BY <1>1, <1>2 DEF BrowserInv, PagesFit, Exchanging
<1>4. QED
    BY <1>1, <1>2, <1>3, CallsMove

\* A call of a page looks at its access token.
LEMMA EnsureStep ==
    ASSUME BrowserInv, NEW q \in Tabs, NEW f \in Fetches, EnsureAuth(q, f) PROVE BrowserInv'
<1>1. /\ tab[q].kind = "page" /\ tab[q].at = "server" /\ loading[q].fetch[f] = "todo"
      /\ UNCHANGED <<jar, tokens, dead, tab, browserHistory, slipped>>
    BY DEF EnsureAuth, At
<1>2. loading \in [Tabs -> PageStates]
    BY DEF BrowserInv, BrowserTyped
<1>3. CASE FetchIs(q, f, "with")
    <2>1. /\ loading' \in [Tabs -> PageStates]
          /\ \A r \in Tabs : /\ loading'[r].attempted = loading[r].attempted
                             /\ loading'[r].exchanges = loading[r].exchanges
                             /\ \A g \in Fetches : r # q \/ g # f =>
                                   loading'[r].fetch[g] = loading[r].fetch[g]
          /\ loading'[q].fetch[f] = "with"
        BY <1>3, FetchMoves
    <2>2. PagesFit'
        BY <1>1, <2>1 DEF BrowserInv, PagesFit, Exchanging
    <2>3. QED
        BY <1>1, <2>1, <2>2, CallsMove
<1>4. CASE ~FetchIs(q, f, "with")
    <2> DEFINE how == IF MayAttempt(q) THEN "asking" ELSE "without"
    <2>1. loading' = [loading EXCEPT ![q].attempted = TRUE, ![q].fetch[f] = how]
        BY <1>4 DEF EnsureAuth
    <2>2. /\ how \in {"asking", "without"}
          /\ how = "asking" => ~loading[q].attempted /\ tab[q].sent.refresh # Nothing
        BY DEF MayAttempt
    <2> HIDE DEF how
    <2>3. /\ loading' \in [Tabs -> PageStates]
          /\ \A r \in Tabs : /\ loading'[r].exchanges = loading[r].exchanges
                             /\ r # q => loading'[r].attempted = loading[r].attempted
                             /\ \A g \in Fetches : r # q \/ g # f =>
                                   loading'[r].fetch[g] = loading[r].fetch[g]
          /\ loading'[q].attempted /\ loading'[q].fetch[f] = how
        BY <1>2, <2>1, <2>2 DEF PageStates
    <2>4. PagesFit'
        BY <1>1, <2>2, <2>3 DEF BrowserInv, PagesFit, Exchanging
    <2>5. QED
        BY <1>1, <2>3, <2>4, CallsMove
<1>5. QED
    BY <1>3, <1>4

\* A call of a page exchanges the refresh token.
LEMMA RotateCallStep ==
    ASSUME BrowserInv, NEW q \in Tabs, NEW f \in Fetches, EnsureAuthRotate(q, f) PROVE BrowserInv'
<1> DEFINE old == tab[q].sent.refresh
<1>1. /\ tab[q].kind = "page" /\ tab[q].at = "server" /\ loading[q].fetch[f] = "rotating"
      /\ UNCHANGED <<jar, dead, browserHistory>>
      /\ \/ /\ slipped' = slipped
            /\ loading' = [loading EXCEPT ![q].fetch[f] = "with", ![q].exchanges = @ + 1]
            /\ \E new \in Refreshes : /\ tokens[new].row = "none"
                                      /\ tab' = [tab EXCEPT ![q].reply = Pair(new, tokens[old].of)]
                                      /\ tokens' = [Issue(new, tokens[old].of) EXCEPT ![old].row = "revoked"]
         \/ /\ tokens' = [tokens EXCEPT ![old].row = "revoked"] /\ slipped' = slipped \union {old}
            /\ FetchIs(q, f, "without") /\ tab' = tab
    BY DEF EnsureAuthRotate, At, Rotate, Revoke, Renewed
<1>2. /\ Exchanging(q, f) /\ old # Nothing /\ loading[q].exchanges = 0 /\ loading[q].attempted
      /\ \A g \in Fetches : Exchanging(q, g) => g = f
    BY <1>1 DEF BrowserInv, PagesFit, Exchanging
<1>3. old \in Refreshes /\ tokens[old].of \in Persons
    BY <1>2, SentIsIssued
<1>4. tab \in [Tabs -> TabStates] /\ loading \in [Tabs -> PageStates]
    BY DEF BrowserInv, BrowserTyped
<1>5. ASSUME NEW new \in Refreshes, tokens[new].row = "none", slipped' = slipped,
             tab' = [tab EXCEPT ![q].reply = Pair(new, tokens[old].of)],
             loading' = [loading EXCEPT ![q].fetch[f] = "with", ![q].exchanges = @ + 1],
             tokens' = [Issue(new, tokens[old].of) EXCEPT ![old].row = "revoked"]
      PROVE  BrowserInv'
    <2> DEFINE who == tokens[old].of
               reply == Pair(new, who)
               next == [tab[q] EXCEPT !.reply = reply]
    <2>1. reply \in Replies /\ OnePair(reply)
        BY <1>3, PairTyped
    <2>2. tab' = [tab EXCEPT ![q] = next]
        BY <1>5, <1>4
    <2> HIDE DEF reply
    <2>3. next \in TabStates /\ next.at = "server" /\ next.reply = reply
          /\ next.goal = tab[q].goal /\ next.kind = tab[q].kind /\ next.sent = tab[q].sent
        BY <1>1, <1>4, <2>1 DEF TabStates
    <2> HIDE DEF next
    <2>4. RequestFits(next)
        <3>1. RequestFits(tab[q])
            BY PartsOfTab
        <3>2. next.kind = "page" /\ next.goal = "page" /\ next.sent.refresh # Nothing
            BY <1>1, <1>2, <2>3, <3>1 DEF RequestFits
        <3>3. next.sent # EmptyJar
            BY <3>2, JarsTyped
        <3>4. QED
            BY <2>1, <2>3, <3>2, <3>3 DEF RequestFits
    <2>5. /\ loading' \in [Tabs -> PageStates]
          /\ \A r \in Tabs : r # q => loading'[r] = loading[r]
          /\ loading'[q].attempted /\ loading'[q].fetch[f] = "with"
          /\ \A g \in Fetches : g # f => loading'[q].fetch[g] = loading[q].fetch[g]
        BY <1>2, <1>4, <1>5 DEF PageStates
    <2>6. PagesFit'
        <3>1. tab'[q] = next /\ \A r \in Tabs : r # q => tab'[r] = tab[r]
            BY <2>2, <2>3, <2>4, TabMoves
        <3>2. \A g \in Fetches : loading'[q].fetch[g] \notin {"asking", "rotating"}
            BY <1>2, <2>5 DEF Exchanging
        <3>3. QED
            BY <2>5, <3>1, <3>2 DEF BrowserInv, PagesFit, Exchanging
    <2>7. next.reply = Pair(new, who) /\ who \in Persons
        BY <2>3, <1>3 DEF reply
    <2>8. tokens' = [Issue(new, who) EXCEPT ![tab[q].sent.refresh].row = "revoked"]
        BY <1>5
    <2> HIDE DEF who
    <2>9. UNCHANGED <<jar, dead, browserHistory, slipped>>
        BY <1>1, <1>5
    <2>10. /\ tab[q].at # "rest" /\ next.at # "rest" /\ tokens[new].row = "none"
           /\ tab[q].sent.refresh # Nothing /\ tab[q].kind \in {"refresh", "page"}
        BY <1>1, <1>2, <1>5, <2>3
    <2>11. QED
        BY <2>2, <2>3, <2>4, <2>5, <2>6, <2>7, <2>8, <2>9, <2>10, IssueStep
<1>6. CASE /\ tokens' = [tokens EXCEPT ![old].row = "revoked"] /\ slipped' = slipped \union {old}
           /\ FetchIs(q, f, "without") /\ tab' = tab
    <2>1. slipped \subseteq slipped' /\ slipped' \subseteq Refreshes /\ old \in slipped'
        BY <1>3, <1>6, TypedSets
    <2>2. tokens' \in [Refreshes -> TokenStates] /\ TokensFit' /\ NewIsUnseen' /\ RenewalComes'
        <3> DEFINE next == tab[q]
        <3>1. next \in TabStates /\ tab'[q] = next /\ \A r \in Tabs : r # q => tab'[r] = tab[r]
            BY <1>6, PartsOfTab
        <3>2. /\ tab[q].at # "rest" /\ next.at # "rest" /\ next.goal = tab[q].goal
              /\ next.kind = tab[q].kind /\ next.sent = tab[q].sent /\ next.reply = tab[q].reply
            BY <1>1
        <3> HIDE DEF next
        <3>3. QED
            BY <1>1, <1>2, <1>6, <2>1, <3>1, <3>2, TokensRest
    <2>3. /\ loading' \in [Tabs -> PageStates]
          /\ \A r \in Tabs : /\ loading'[r].attempted = loading[r].attempted
                             /\ loading'[r].exchanges = loading[r].exchanges
                             /\ \A g \in Fetches : r # q \/ g # f =>
                                   loading'[r].fetch[g] = loading[r].fetch[g]
          /\ loading'[q].fetch[f] = "without"
        BY <1>6, FetchMoves
    <2>4. PagesFit'
        BY <1>1, <1>6, <2>3 DEF BrowserInv, PagesFit, Exchanging
    <2>5. OnlyTheCarried' /\ LeftMeansLeft' /\ JarIsOnePerson'
        BY <1>1, <1>6, JarRests
    <2>6. BrowserTyped'
        BY <1>1, <1>6, <2>1, <2>2, <2>3 DEF BrowserInv, BrowserTyped, TokenStates, browserHistory
    <2>7. RequestsFit'
        BY <1>6 DEF BrowserInv, RequestsFit, RequestFits, OnePair
    <2>8. QED
        BY <2>2, <2>4, <2>5, <2>6, <2>7 DEF BrowserInv
<1>7. QED
    BY <1>1, <1>5, <1>6

-----------------------------------------------------------------------------
(* The steps of the browser *)

\* A request ends, and the jar has the cookies of its answer or those it had; if
\* there is a next request, it goes out with these.
LEMMA AskedAnew ==
    ASSUME BrowserInv, NEW q \in Tabs, NEW next \in TabStates,
           \A r \in Tabs : r # q => tab'[r] = tab[r], tab'[q] = next,
           tokens' = tokens, next.reply = NoCookies, jar' \in Sent,
           next.sent \in {jar', EmptyJar},
           \/ jar'.refresh \in {jar.refresh, Nothing}
           \/ New(tab[q].reply) /\ jar'.refresh = tab[q].reply.refresh
    PROVE  TokensFit' /\ NewIsUnseen'
<1>1. \A r \in Tabs : tab[r].sent.refresh \in Refreshes \union {Nothing}
                      /\ tab[r].reply.refresh \in Refreshes \union {Nothing, Untouched}
    BY PartsOfTab, PartsOfJar
<1>2. jar'.refresh \in Refreshes \union {Nothing} /\ EmptyJar.refresh = Nothing
    BY PartsOfJar, JarsTyped
<1>3. jar'.refresh # Nothing => tokens[jar'.refresh].row # "none"
    BY <1>2 DEF BrowserInv, TokensFit, NewIsUnseen, IsActive
<1>4. TokensFit'
    BY <1>1, <1>2, <1>3 DEF BrowserInv, TokensFit
<1>5. ~New(next.reply)
    BY JarsTyped DEF New
<1>6. NewIsUnseen'
    <2> SUFFICES ASSUME NEW r \in Tabs, New(tab'[r].reply)
                 PROVE  LET n == tab'[r].reply.refresh IN
                        /\ n # Nothing /\ tokens'[n].row = "active" /\ jar'.refresh # n
                        /\ \A p \in Tabs : tab'[p].sent.refresh # n
                                           /\ (p # r => tab'[p].reply.refresh # n)
        BY DEF NewIsUnseen, New, IsActive
    <2> DEFINE n == tab[r].reply.refresh
    <2>1. r # q /\ tab'[r].reply = tab[r].reply /\ New(tab[r].reply) /\ n \in Refreshes
        BY <1>1, <1>5 DEF New
    <2>2. /\ n # Nothing /\ n # Untouched /\ tokens[n].row = "active" /\ jar.refresh # n
          /\ \A p \in Tabs : tab[p].sent.refresh # n /\ (p # r => tab[p].reply.refresh # n)
        BY <2>1 DEF BrowserInv, NewIsUnseen, New, IsActive
    <2>3. jar'.refresh # n /\ next.sent.refresh # n /\ next.reply.refresh # n
        BY <1>2, <2>1, <2>2, JarsTyped
    <2>4. QED
        BY <2>1, <2>2, <2>3
<1>7. QED
    BY <1>4, <1>6

\* A tab makes a request with the cookies of the jar.
LEMMA StartStep ==
    ASSUME BrowserInv, NEW q \in Tabs, Start(q) PROVE BrowserInv'
<1>1. PICK goal \in Goals : tab' = [tab EXCEPT ![q] = Asked(goal, goal, jar, FALSE)]
    BY DEF Start
<1>2. tab[q].at = "rest" /\ UNCHANGED <<jar, tokens, dead, loading, browserHistory, slipped>>
    BY DEF Start
<1> DEFINE next == [AtHome EXCEPT !.goal = goal, !.kind = goal, !.at = "server", !.sent = jar,
                                  !.again = FALSE]
<1>3. tab' = [tab EXCEPT ![q] = next]
    BY <1>1 DEF Asked
<1>4. jar \in Sent
    BY DEF BrowserInv, BrowserTyped
<1>5. /\ next \in TabStates /\ next.goal = goal /\ next.kind = goal
      /\ next.at = "server" /\ next.sent = jar /\ next.reply = NoCookies
    BY <1>4, JarsTyped DEF AtHome, TabStates, Goals, GoalsOrRest, Kinds
<1> HIDE DEF next
<1>6. RequestFits(next)
    BY <1>5, OnTheWay
<1>7. /\ tab' \in [Tabs -> TabStates] /\ RequestsFit'
      /\ tab'[q] = next /\ \A r \in Tabs : r # q => tab'[r] = tab[r]
    BY <1>3, <1>5, <1>6, TabMoves
<1>8. PagesFit'
    BY <1>2, <1>5, <1>7, NoExchange, PagesRest
<1>9. TokensFit' /\ NewIsUnseen'
    BY <1>2, <1>4, <1>5, <1>7, AskedAnew
<1>10. RenewalComes'
    BY <1>2, <1>7 DEF BrowserInv, RenewalComes, Carries, IsActive, New
<1>11. OnlyTheCarried' /\ LeftMeansLeft' /\ JarIsOnePerson'
    BY <1>2, <1>5, <1>7 DEF BrowserInv, OnlyTheCarried, LeftMeansLeft, JarIsOnePerson, browserHistory
<1>12. BrowserTyped'
    BY <1>2, <1>7 DEF BrowserInv, BrowserTyped, browserHistory
<1>13. QED
    BY <1>7, <1>8, <1>9, <1>10, <1>11, <1>12 DEF BrowserInv

\* The jar with the cookies of an answer.
LEMMA JarAfter ==
    ASSUME jar \in Sent, NEW reply \in Replies,
           NEW cookies, cookies = [k \in Cookies |-> IF reply[k] = Untouched THEN jar[k] ELSE reply[k]]
    PROVE  /\ cookies \in Sent
           /\ cookies.access = IF reply.access = Untouched THEN jar.access ELSE reply.access
           /\ cookies.refresh = IF reply.refresh = Untouched THEN jar.refresh ELSE reply.refresh
           /\ reply = NoCookies => cookies = jar
           /\ reply = EmptyJar => cookies = EmptyJar
<1>1. cookies \in Sent
      /\ cookies.access = (IF reply.access = Untouched THEN jar.access ELSE reply.access)
      /\ cookies.refresh = (IF reply.refresh = Untouched THEN jar.refresh ELSE reply.refresh)
    BY DEF Cookies, Sent, Replies, Jars
<1>2. ASSUME reply = NoCookies PROVE cookies = jar
    <2>1. cookies = [k \in Cookies |-> jar[k]]
        BY <1>2 DEF NoCookies
    <2>2. QED
        BY <2>1 DEF Cookies, Sent, Jars
<1>3. ASSUME reply = EmptyJar PROVE cookies = EmptyJar
    BY <1>3, BrowserConstants DEF EmptyJar
<1>4. QED
    BY <1>1, <1>2, <1>3

\* A tab receives its reply, whose cookies the jar takes over.
LEMMA ReceiveStep ==
    ASSUME BrowserInv, NEW q \in Tabs, Receive(q) PROVE BrowserInv'
<1> DEFINE s == tab[q]
           cookies == [k \in Cookies |-> IF s.reply[k] = Untouched THEN jar[k] ELSE s.reply[k]]
           next == After(q, s.told, cookies)
<1>1. /\ s.at = "reply" /\ jar' = cookies /\ tab' = [tab EXCEPT ![q] = next]
      /\ loading' = [loading EXCEPT ![q] = BlankPage]
      /\ left' = (s.kind = "clear" \/ (left /\ ~(s.kind = "login" /\ s.told = "ok")))
      /\ carried' = IF s.kind = "clear" THEN {r \in Tabs : tab[r].at # "rest"} \ {q}
                    ELSE carried \ {q}
      /\ late' = (s.kind # "clear" /\ (late \/ (q \in carried /\ s.reply # NoCookies)))
      /\ UNCHANGED <<tokens, dead, slipped>>
    BY DEF Receive
<1>2. /\ s \in TabStates /\ RequestFits(s) /\ s.reply \in Replies
      /\ s.told \in {"", "ok", "denied", "failed"}
      /\ jar \in Sent /\ carried \subseteq Tabs /\ left \in BOOLEAN /\ late \in BOOLEAN
    BY PartsOfTab DEF BrowserInv, BrowserTyped
<1>3. /\ cookies \in Sent
      /\ cookies.access = IF s.reply.access = Untouched THEN jar.access ELSE s.reply.access
      /\ cookies.refresh = IF s.reply.refresh = Untouched THEN jar.refresh ELSE s.reply.refresh
      /\ s.reply = NoCookies => cookies = jar
      /\ s.reply = EmptyJar => cookies = EmptyJar
    BY <1>2, JarAfter
<1> HIDE DEF cookies
<1>4. /\ next \in TabStates /\ RequestFits(next)
      /\ next.reply = NoCookies /\ next.sent \in {cookies, EmptyJar}
      /\ s.goal = "logout" /\ s.kind # "clear" => next.goal = "logout" /\ next.at = "server"
      /\ s.kind = "clear" => next.sent = EmptyJar
    <2> DEFINE told == s.told
    <2>1. /\ tab[q].at # "rest" /\ told \in Verdicts /\ cookies \in Sent
          /\ next = After(q, told, cookies)
        BY <1>1, <1>2, <1>3 DEF Verdicts
    <2> HIDE DEF next, told
    <2>2. QED
        BY <2>1, AfterFits
<1> HIDE DEF next
<1>5. /\ tab' \in [Tabs -> TabStates] /\ RequestsFit'
      /\ tab'[q] = next /\ \A r \in Tabs : r # q => tab'[r] = tab[r]
    BY <1>1, <1>4, TabMoves
<1>6. PagesFit' /\ loading' \in [Tabs -> PageStates]
    BY <1>1, <1>4, <1>5, PageLeft
<1>7. s.reply.refresh = Untouched \/ s.reply.refresh = Nothing \/ New(s.reply)
    BY DEF New
<1>8. TokensFit' /\ NewIsUnseen'
    <2>1. \/ jar'.refresh \in {jar.refresh, Nothing}
          \/ New(tab[q].reply) /\ jar'.refresh = tab[q].reply.refresh
        BY <1>1, <1>3, <1>7
    <2>2. jar' \in Sent /\ next.sent \in {jar', EmptyJar} /\ tokens' = tokens
        BY <1>1, <1>3, <1>4
    <2>3. QED
        BY <1>4, <1>5, <2>1, <2>2, AskedAnew
<1>9. RenewalComes'
    <2>1. CASE New(s.reply)
        <3>1. tokens[s.reply.refresh].row = "active" /\ cookies.refresh = s.reply.refresh
            BY <2>1, <1>3 DEF BrowserInv, NewIsUnseen, New, IsActive
        <3>2. QED
            BY <3>1, <1>1 DEF RenewalComes, IsActive
    <2>2. CASE s.reply.refresh = Nothing
        BY <2>2, <1>1, <1>3, BrowserConstants DEF RenewalComes
    <2>3. CASE s.reply.refresh = Untouched
        <3>1. jar'.refresh = jar.refresh
            BY <2>3, <1>1, <1>3
        <3>2. ~New(s.reply) /\ s.kind # "clear"
            BY <2>3, <1>1, <1>2, JarsTyped, BrowserConstants DEF New, RequestFits, Cleared
        <3>3. \A r \in Tabs : Carries(r, jar.refresh) =>
                 /\ tab'[r].at # "rest"
                 /\ \/ tab'[r].goal = "logout"
                    \/ tab'[r].kind \in {"refresh", "page"} /\ tab'[r].sent.refresh = jar.refresh
                       /\ New(tab'[r].reply)
            BY <3>2, <1>4, <1>5 DEF Carries
        <3>4. QED
            BY <3>1, <3>3, <1>1 DEF BrowserInv, RenewalComes, Carries, IsActive, New
    <2>4. QED
        BY <1>7, <2>1, <2>2, <2>3
<1>10. JarIsOnePerson'
    <2>1. OnePair(s.reply)
        BY <1>2 DEF RequestFits
    <2>2. QED
        BY <2>1, <1>1, <1>3 DEF BrowserInv, JarIsOnePerson, OnePair
<1>11. OnlyTheCarried' /\ LeftMeansLeft'
    <2> SUFFICES ASSUME left', ~late'
                 PROVE  jar' = EmptyJar /\ \A r \in Tabs \ carried' : tab'[r].sent = EmptyJar
        BY DEF OnlyTheCarried, LeftMeansLeft
    <2>1. CASE s.kind = "clear"
        <3>1. cookies = EmptyJar /\ next.sent = EmptyJar
            BY <2>1, <1>1, <1>2, <1>3, <1>4 DEF RequestFits, Cleared
        <3>2. \A r \in Tabs : r # q /\ r \notin carried' => tab[r].sent = EmptyJar
            BY <2>1, <1>1, PartsOfTab, HomeTyped DEF RequestFits
        <3>3. QED
            BY <3>1, <3>2, <1>1, <1>5
    <2>2. CASE s.kind # "clear"
        <3>1. left /\ ~late /\ ~(s.kind = "login" /\ s.told = "ok")
              /\ (q \notin carried \/ s.reply = NoCookies) /\ carried' = carried \ {q}
            BY <2>2, <1>1
        <3>2. jar = EmptyJar /\ \A r \in Tabs \ carried : tab[r].sent = EmptyJar
            BY <3>1 DEF BrowserInv, OnlyTheCarried, LeftMeansLeft
        <3>3. s.reply = NoCookies
            BY <2>2, <3>1, <3>2, <1>2 DEF RequestFits
        <3>4. cookies = EmptyJar /\ next.sent = EmptyJar
            BY <3>2, <3>3, <1>3, <1>4
        <3>5. QED
            BY <3>1, <3>2, <3>4, <1>1, <1>5
    <2>3. QED
        BY <2>1, <2>2
<1>12. BrowserTyped'
    <2>1. /\ left' \in BOOLEAN /\ late' \in BOOLEAN /\ carried' \subseteq Tabs /\ jar' \in Sent
        BY <1>1, <1>2, <1>3
    <2>2. QED
        BY <2>1, <1>1, <1>5, <1>6 DEF BrowserInv, BrowserTyped
<1>13. QED
    BY <1>5, <1>6, <1>8, <1>9, <1>10, <1>11, <1>12 DEF BrowserInv

\* A reply is lost.
LEMMA LoseStep ==
    ASSUME BrowserInv, NEW q \in Tabs, Lose(q) PROVE BrowserInv'
<1> DEFINE s == tab[q]
           next == After(q, "failed", jar)
<1>1. /\ s.at = "reply" \/ (s.at = "server" /\ s.kind # "page")
      /\ tab' = [tab EXCEPT ![q] = next] /\ loading' = [loading EXCEPT ![q] = BlankPage]
      /\ carried' = carried \ {q}
      /\ slipped' = slipped \union
            (IF s.kind = "clear" THEN {jar.refresh} \ {Nothing}
             ELSE IF s.kind \in {"refresh", "page"} /\ s.reply # NoCookies
                  THEN {s.sent.refresh} ELSE {})
      /\ UNCHANGED <<jar, tokens, dead, left, late>>
    BY DEF Lose
<1>2. /\ s \in TabStates /\ RequestFits(s) /\ s.sent \in Sent /\ jar \in Sent
      /\ s.sent.refresh \in Refreshes \union {Nothing} /\ jar.refresh \in Refreshes \union {Nothing}
    BY PartsOfTab, PartsOfJar DEF BrowserInv, BrowserTyped
<1>3. /\ next \in TabStates /\ RequestFits(next)
      /\ next.reply = NoCookies /\ next.sent \in {jar, EmptyJar}
      /\ s.goal = "logout" /\ s.kind # "clear" => next.goal = "logout" /\ next.at = "server"
      /\ s.kind = "clear" => next.sent = EmptyJar
    <2> DEFINE told == "failed"
    <2>1. /\ tab[q].at # "rest" /\ told \in Verdicts /\ jar \in Sent
          /\ next = After(q, told, jar)
        BY <1>1, <1>2 DEF Verdicts
    <2> HIDE DEF next, told
    <2>2. QED
        BY <2>1, AfterFits
<1> HIDE DEF next
<1>4. /\ tab' \in [Tabs -> TabStates] /\ RequestsFit'
      /\ tab'[q] = next /\ \A r \in Tabs : r # q => tab'[r] = tab[r]
    BY <1>1, <1>3, TabMoves
<1>5. PagesFit' /\ loading' \in [Tabs -> PageStates]
    BY <1>1, <1>3, <1>4, PageLeft
<1>6. TokensFit' /\ NewIsUnseen'
    BY <1>1, <1>2, <1>3, <1>4, AskedAnew
<1>7. slipped' \subseteq Refreshes /\ slipped \subseteq slipped'
    BY <1>1, <1>2, TypedSets DEF RequestFits
<1>8. RenewalComes'
    <2>1. New(s.reply) => s.reply # NoCookies
        BY JarsTyped DEF New
    <2>2. \A r \in Tabs : Carries(r, jar.refresh) /\ jar.refresh # Nothing /\ jar.refresh \notin slipped' =>
             /\ tab'[r].at # "rest"
             /\ \/ tab'[r].goal = "logout"
                \/ tab'[r].kind \in {"refresh", "page"} /\ tab'[r].sent.refresh = jar.refresh
                   /\ New(tab'[r].reply)
        BY <2>1, <1>1, <1>3, <1>4 DEF Carries
    <2>3. QED
        BY <2>2, <1>1, <1>7 DEF BrowserInv, RenewalComes, Carries, IsActive, New
<1>9. OnlyTheCarried' /\ LeftMeansLeft' /\ JarIsOnePerson'
    BY <1>1, <1>3, <1>4 DEF BrowserInv, OnlyTheCarried, LeftMeansLeft, JarIsOnePerson
<1>10. BrowserTyped'
    BY <1>1, <1>4, <1>5, <1>7 DEF BrowserInv, BrowserTyped
<1>11. QED
    BY <1>4, <1>5, <1>6, <1>8, <1>9, <1>10 DEF BrowserInv

\* The access cookie, or the token in it, comes to its end.
LEMMA ExpiryStep ==
    ASSUME BrowserInv, AccessCookieExpires \/ AccessTokenExpires PROVE BrowserInv'
<1>1. /\ UNCHANGED <<tokens, tab, loading, browserHistory, slipped>>
      /\ \/ jar.access # Nothing /\ jar' = [jar EXCEPT !.access = Nothing] /\ dead' = dead
         \/ jar' = jar /\ jar.access # Nothing /\ dead' = dead \union {jar.access}
    BY DEF AccessCookieExpires, AccessTokenExpires
<1>2. jar \in Sent /\ jar.access \in AccessTokensOf \union {Nothing}
    BY PartsOfJar DEF BrowserInv, BrowserTyped
<1>3. /\ jar' \in Sent /\ jar'.refresh = jar.refresh /\ jar'.access \in {jar.access, Nothing}
      /\ dead' \subseteq AccessTokensOf
    BY <1>1, <1>2, TypedSets DEF Sent, Jars
<1>4. BrowserTyped'
    BY <1>1, <1>3 DEF BrowserInv, BrowserTyped, browserHistory
<1>5. RequestsFit' /\ PagesFit'
    BY <1>1 DEF BrowserInv, RequestsFit, RequestFits, OnePair, PagesFit, Exchanging
<1>6. TokensFit' /\ NewIsUnseen' /\ RenewalComes'
    BY <1>1, <1>3 DEF BrowserInv, TokensFit, NewIsUnseen, RenewalComes, Carries, New, IsActive
<1>7. OnlyTheCarried' /\ LeftMeansLeft'
    BY <1>1, JarsTyped DEF BrowserInv, OnlyTheCarried, LeftMeansLeft, browserHistory
<1>8. JarIsOnePerson'
    BY <1>1, <1>2, <1>3 DEF BrowserInv, JarIsOnePerson, Sent, Jars
<1>9. QED
    BY <1>4, <1>5, <1>6, <1>7, <1>8 DEF BrowserInv

-----------------------------------------------------------------------------

\* At first nobody is logged in.
LEMMA InitBrowser == BrowserInit => BrowserInv
<1> SUFFICES ASSUME BrowserInit PROVE BrowserInv
    OBVIOUS
<1>1. BrowserTyped
    BY JarsTyped, HomeTyped DEF BrowserInit, BrowserTyped, BlankPage, PageStates
<1>2. RequestFits(AtHome)
    BY HomeTyped, JarsTyped DEF RequestFits, OnePair
<1>3. RequestsFit /\ PagesFit
    BY <1>2 DEF BrowserInit, RequestsFit, PagesFit, Exchanging, BlankPage
<1>4. TokensFit /\ NewIsUnseen /\ RenewalComes
    BY HomeTyped, JarsTyped DEF BrowserInit, TokensFit, NewIsUnseen, RenewalComes, New
<1>5. OnlyTheCarried /\ JarIsOnePerson /\ LeftMeansLeft
    BY HomeTyped, JarsTyped DEF BrowserInit, OnlyTheCarried, JarIsOnePerson, LeftMeansLeft
<1>6. QED
    BY <1>1, <1>3, <1>4, <1>5 DEF BrowserInv

\* A step of somebody else.
LEMMA BrowserRests == BrowserInv /\ UNCHANGED browserVars => BrowserInv'
<1> SUFFICES ASSUME BrowserInv, UNCHANGED browserVars PROVE BrowserInv'
    OBVIOUS
<1>1. UNCHANGED <<jar, tokens, dead, tab, loading, left, carried, late, slipped>>
    BY DEF browserVars
<1>2. BrowserTyped'
    BY <1>1 DEF BrowserInv, BrowserTyped
<1>3. RequestsFit' /\ PagesFit'
    BY <1>1 DEF BrowserInv, RequestsFit, RequestFits, OnePair, PagesFit, Exchanging
<1>4. TokensFit' /\ NewIsUnseen' /\ RenewalComes'
    BY <1>1 DEF BrowserInv, TokensFit, NewIsUnseen, RenewalComes, Carries, New, IsActive
<1>5. OnlyTheCarried' /\ LeftMeansLeft' /\ JarIsOnePerson'
    BY <1>1 DEF BrowserInv, OnlyTheCarried, LeftMeansLeft, JarIsOnePerson
<1>6. QED
    BY <1>2, <1>3, <1>4, <1>5 DEF BrowserInv

\* BrowserInv is an invariant of the session of a browser.
THEOREM BrowserInvariant == BrowserSpec => []BrowserInv
<1>1. BrowserInit => BrowserInv
    BY InitBrowser
<1>2. BrowserInv /\ [BrowserNext]_browserVars => BrowserInv'
    <2> SUFFICES ASSUME BrowserInv, [BrowserNext]_browserVars PROVE BrowserInv'
        OBVIOUS
    <2>1. ASSUME NEW q \in Tabs, Start(q) \/ Receive(q) \/ Lose(q) PROVE BrowserInv'
        BY <2>1, StartStep, ReceiveStep, LoseStep
    <2>2. ASSUME NEW q \in Tabs, Login(q) \/ RefreshVerify(q) \/ RefreshRotate(q) \/ Logout(q)
          PROVE BrowserInv'
        BY <2>2, LoginStep, RefreshVerifyStep, RefreshRotateStep, LogoutStep
    <2>3. ASSUME NEW q \in Tabs, ClearCookies(q) \/ BecomeShadow(q) \/ Return(q) \/ Call(q)
          PROVE BrowserInv'
        BY <2>3, ClearStep, ShadowStep, ReturnStep, CallStep
    <2>4. ASSUME NEW q \in Tabs, PageDone(q) PROVE BrowserInv'
        BY <2>4, PageStep
    <2>5. ASSUME NEW q \in Tabs, NEW f \in Fetches,
                 EnsureAuth(q, f) \/ EnsureAuthVerify(q, f) \/ EnsureAuthRotate(q, f)
          PROVE BrowserInv'
        BY <2>5, EnsureStep, VerifyCallStep, RotateCallStep
    <2>6. CASE AccessCookieExpires \/ AccessTokenExpires
        BY <2>6, ExpiryStep
    <2>7. CASE UNCHANGED browserVars
        BY <2>7, BrowserRests
    <2>8. QED
        BY <2>1, <2>2, <2>3, <2>4, <2>5, <2>6, <2>7 DEF BrowserNext
<1>3. QED
    BY <1>1, <1>2, PTL DEF BrowserSpec

\* The cookies are in range: a jar has tokens of the kinds it is made for, and a
\* request is at one of the places the code has.
THEOREM BrowserTypeCorrect == BrowserSpec => []BrowserTypeOK
<1>1. BrowserInv => BrowserTypeOK
    <2> SUFFICES ASSUME BrowserInv PROVE BrowserTypeOK
        OBVIOUS
    <2>1. \A j \in Sent : DOMAIN j = Cookies /\ j.access \in AccessTokensOf \union {Nothing}
                          /\ j.adminAccess \in AccessTokensOf \union {Nothing}
                          /\ j.refresh \in Refreshes \union {Nothing}
                          /\ j.adminRefresh \in Refreshes \union {Nothing}
        BY DEF Sent, Jars, Cookies
    <2>2. \A j \in Replies : DOMAIN j = Cookies /\ j.access \in AccessTokensOf \union {Nothing, Untouched}
                             /\ j.adminAccess \in AccessTokensOf \union {Nothing, Untouched}
                             /\ j.refresh \in Refreshes \union {Nothing, Untouched}
                             /\ j.adminRefresh \in Refreshes \union {Nothing, Untouched}
        BY DEF Replies, Jars, Cookies
    <2>3. \A q \in Tabs : /\ tab[q].goal \in Goals \union {"rest"}
                          /\ tab[q].kind \in Goals \union {"rest", "refresh", "clear"}
                          /\ tab[q].at \in {"rest", "server", "rotating", "reply"}
                          /\ tab[q].told \in {"", "ok", "denied", "failed"}
                          /\ tab[q].again \in BOOLEAN
                          /\ tab[q].sent \in Sent /\ tab[q].reply \in Replies
        BY PartsOfTab DEF GoalsOrRest, Kinds
    <2>4. loading \in [Tabs -> [fetch : [Fetches -> {"todo", "asking", "rotating", "with", "without"}],
                                attempted : BOOLEAN, exchanges : Nat]]
        BY DEF BrowserInv, BrowserTyped, PageStates
    <2>5. jar \in Sent
        BY DEF BrowserInv, BrowserTyped
    <2>6. QED
        BY <2>1, <2>2, <2>3, <2>4, <2>5 DEF BrowserInv, BrowserTyped, BrowserTypeOK
<1>2. QED
    BY <1>1, BrowserInvariant, PTL

\* The cookies of the browser are those of one login, whatever the order of the
\* answers; and after the logout there are none but those of a late answer.
THEOREM JarStaysConsistent == BrowserSpec => []JarIsConsistent
<1>1. BrowserInv => JarIsConsistent
    BY DEF BrowserInv, JarIsConsistent
<1>2. QED
    BY <1>1, BrowserInvariant, PTL

\* A page exchanges the refresh token once, and a browser is stranded with a
\* revoked one only where an answer got lost or a rotation broke off.
THEOREM SessionsAreCarriedOn == BrowserSpec => []SessionIsCarriedOn
<1>1. BrowserInv => SessionIsCarriedOn
    <2> SUFFICES ASSUME BrowserInv PROVE SessionIsCarriedOn
        OBVIOUS
    <2>1. OneExchangePerPage
        BY DEF BrowserInv, BrowserTyped, PageStates, OneExchangePerPage
    <2>2. StrandedHasCause
        BY DEF BrowserInv, RenewalComes, Carries, StrandedHasCause
    <2>3. QED
        BY <2>1, <2>2 DEF SessionIsCarriedOn
<1>2. QED
    BY <1>1, BrowserInvariant, PTL

-----------------------------------------------------------------------------
(***************************************************************************)
(* PagedLists.  Where rows do not tie, a result has each row of the list   *)
(* behind all the rows in front of it, so that pages are cut at the same   *)
(* places every time; the invariant counts the rows in front.              *)
(***************************************************************************)

\* A row of a table.
Listable == [at : {"none", "listed", "out"}, place : SortValues]

\* The reader.
Walks ==
    [at : {"rest", "asked", "counted", "end"}, page : Nat, total : Nat, came : Seq(Ids),
     times : [Ids -> Nat]]

\* How many pages the reader has read.
PagesRead == IF walk.at = "rest" THEN 0 ELSE IF walk.at = "end" THEN walk.page ELSE walk.page - 1

\* The types, with two facts they rest on: the queue is ordered by priorities,
\* and nobody asks for a second page of a list of which only the first is read.
ListTyped ==
    /\ list \in DOMAIN OrderOf
    /\ list = "queue" => SortValues \subseteq 1..4
    /\ rows \in [Ids -> Listable]
    /\ walk \in Walks
    /\ walk.page \in 0..Cardinality(Ids) /\ walk.total \in 0..Cardinality(Ids)
    /\ walk.at # "rest" => walk.page >= 1
    /\ walk.page > 1 => list \notin FirstPageOnly
    /\ walk.times \in [Ids -> 0..PagesRead]
    /\ DOMAIN walk.came \subseteq 1..PageSize
    /\ \A k \in DOMAIN walk.came : walk.came[k] \in Ids
    /\ steady \subseteq Ids
    /\ upset \subseteq {"entered", "left", "moved", "torn"}

\* The rows in front of row i.
Before(i) == {j \in Listed : Precedes(j, i)}

\* A list of which all pages are read, whose order nothing has disturbed.
Paged == ~Tied /\ list \notin FirstPageOnly /\ "moved" \notin upset

\* What was seen stands on the pages that were read.
SeenIsBehind ==
    Paged /\ "entered" \notin upset /\ Reading =>
        \A i \in Ids :
            /\ walk.times[i] <= 1
            /\ walk.times[i] > 0 /\ i \in Listed => Cardinality(Before(i)) < Skipped(walk.page)

\* What was not seen stands on the pages that are to come.
UnseenIsAhead ==
    Paged /\ "left" \notin upset /\ Reading =>
        \A i \in steady :
            /\ i \in Listed
            /\ walk.times[i] = 0 => Cardinality(Before(i)) >= Skipped(walk.page)

\* The count is that of the list, until rows come or go.
CountIsFresh ==
    walk.at = "counted" /\ "torn" \notin upset => walk.total = Cardinality(Listed)

\* The invariant: where the reader is, what was seen lies behind it and what
\* was not lies ahead.
PagesInv == ListTyped /\ SeenIsBehind /\ UnseenIsAhead /\ CountIsFresh /\ PagesMakeTheList

-----------------------------------------------------------------------------
(* The order of a list *)

\* The rank of a priority is its place in JobPriority.
LEMMA Priority ==
    PriorityRank(1) = 1 /\ PriorityRank(2) = 2 /\ PriorityRank(3) = 3 /\ PriorityRank(4) = 4
BY DEF PriorityRank, Priorities

\* Which lists end with the primary key.
LEMMA TiesOnlyIn ==
    ASSUME NEW l \in DOMAIN OrderOf, ~OrderOf[l].byId, l \notin FirstPageOnly
    PROVE  l \in {"notes", "jobs", "history", "organizations", "audit", "messages"}
BY DEF OrderOf, GetUsers, GetEmployeesByOwner, GetCustomers, GetCustomerNotes, GetJobs,
       GetUnscheduledJobs, GetJobHistory, GetOrganizations, GetAuditLogs, GetNotificationLog,
       FirstPageOnly

\* The order goes by the place, which the queue too has as its rank.
LEMMA RankIsPlace ==
    ASSUME ListTyped, NEW i \in Ids
    PROVE  RankOf(i) = rows[i].place /\ rows[i].place \in Nat /\ i \in Nat
<1>1. rows[i] \in Listable /\ rows[i].place \in SortValues
    BY DEF ListTyped, Listable
<1>2. rows[i].place \in Nat /\ i \in Nat
    BY <1>1, ListConstants
<1>3. CASE list = "queue"
    <2>1. rows[i].place \in {1, 2, 3, 4}
        BY <1>1, <1>3 DEF ListTyped
    <2>2. QED
        BY <1>2, <1>3, <2>1, Priority DEF RankOf
<1>4. CASE list # "queue"
    BY <1>2, <1>4 DEF RankOf
<1>5. QED
    BY <1>2, <1>3, <1>4

\* What precedes is a strict order, total where rows do not tie.
LEMMA StrictOrder ==
    ASSUME ListTyped, NEW i \in Ids, NEW j \in Ids
    PROVE  ~Precedes(i, i) /\ ~(Precedes(i, j) /\ Precedes(j, i))
BY RankIsPlace DEF Precedes

\* Two rows of a list without ties are in order.
LEMMA TotalOrder ==
    ASSUME ListTyped, ~Tied, list \notin FirstPageOnly,
           NEW i \in Listed, NEW j \in Listed, i # j
    PROVE  Precedes(i, j) \/ Precedes(j, i)
<1>1. /\ i \in Ids /\ j \in Ids /\ list \in DOMAIN OrderOf
      /\ rows[i].at # "none" /\ rows[j].at # "none"
    BY DEF Listed, ListTyped
<1>2. /\ RankOf(i) = rows[i].place /\ RankOf(j) = rows[j].place
      /\ rows[i].place \in Nat /\ rows[j].place \in Nat /\ i \in Nat /\ j \in Nat
    BY <1>1, RankIsPlace
<1>3. CASE rows[i].place # rows[j].place
    BY <1>2, <1>3 DEF Precedes
<1>4. CASE rows[i].place = rows[j].place
    <2>1. OrderOf[list].byId
        BY <1>1, <1>4, TiesOnlyIn DEF Tied
    <2>2. QED
        BY <1>2, <1>4, <2>1 DEF Precedes
<1>5. QED
    BY <1>3, <1>4

\* A list is no longer than there are rows.
LEMMA ListedFinite ==
    /\ IsFiniteSet(Ids) /\ Cardinality(Ids) \in Nat /\ Cardinality(Ids) >= 1
    /\ IsFiniteSet(Listed) /\ Cardinality(Listed) \in 0..Cardinality(Ids)
<1>1. IsFiniteSet(Ids) /\ Cardinality(Ids) \in Nat /\ Cardinality(Ids) # 0
    BY ListConstants, FS_CardinalityType, FS_EmptySet
<1>2. Listed \in SUBSET Ids
    BY DEF Listed
<1>3. /\ IsFiniteSet(Listed) /\ Cardinality(Listed) <= Cardinality(Ids)
      /\ Cardinality(Listed) \in Nat
    BY <1>1, <1>2, FS_Subset, FS_CardinalityType
<1>4. QED
    BY <1>1, <1>3

\* In a result of the database each row of the list is at one place.
LEMMA EachHasAPlace ==
    ASSUME NEW s \in Arrangements
    PROVE  /\ s \in [1..Cardinality(Listed) -> Listed]
           /\ \A p, q \in 1..Cardinality(Listed) : p # q => s[p] # s[q]
           /\ \A i \in Listed : \E p \in 1..Cardinality(Listed) : s[p] = i
<1> DEFINE n == Cardinality(Listed)
<1>1. n \in Nat /\ IsFiniteSet(Listed)
    BY ListedFinite
<1>2. /\ s \in [1..n -> Listed]
      /\ \A p, q \in 1..n : p < q => s[p] # s[q]
    BY DEF Arrangements
<1> HIDE DEF n
<1>3. \A p, q \in 1..n : p # q => s[p] # s[q]
    BY <1>1, <1>2
<1>4. s \in Injection(1..n, Listed)
    BY <1>2, <1>3 DEF Injection, IsInjective
<1>5. IsFiniteSet(1..n) /\ Cardinality(1..n) = n
    BY <1>1, FS_Interval
<1>6. s \in Surjection(1..n, Listed)
    <2>1. Cardinality(1..n) = Cardinality(Listed)
        BY <1>5 DEF n
    <2>2. QED
        BY <1>1, <1>4, <2>1, FS_Injection
<1>7. \A i \in Listed : \E p \in 1..n : s[p] = i
    BY <1>6 DEF Surjection
<1>8. QED
    BY <1>2, <1>3, <1>7 DEF n

\* That place is the number of rows in front of it, plus one.
LEMMA PlaceInOrder ==
    ASSUME ListTyped, ~Tied, list \notin FirstPageOnly, NEW s \in Arrangements,
           NEW p \in 1..Cardinality(Listed)
    PROVE  Cardinality(Before(s[p])) = p - 1
<1> DEFINE n == Cardinality(Listed)
<1>1. n \in Nat /\ p \in 1..n
    BY ListedFinite
<1>2. /\ s \in [1..n -> Listed]
      /\ \A a, b \in 1..n : a # b => s[a] # s[b]
      /\ \A i \in Listed : \E a \in 1..n : s[a] = i
      /\ \A a, b \in 1..n : a < b => ~Precedes(s[b], s[a])
    BY EachHasAPlace DEF Arrangements
<1> HIDE DEF n
<1>3. Listed \subseteq Ids
    BY DEF Listed
<1>4. \A a \in 1..(p - 1) : a \in 1..n /\ s[a] \in Before(s[p])
    <2> SUFFICES ASSUME NEW a \in 1..(p - 1)
                 PROVE  a \in 1..n /\ s[a] \in Before(s[p])
        OBVIOUS
    <2>1. a \in 1..n /\ a < p
        BY <1>1
    <2>2. s[a] \in Listed /\ s[p] \in Listed /\ s[a] # s[p] /\ ~Precedes(s[p], s[a])
        BY <1>1, <1>2, <2>1
    <2>3. Precedes(s[a], s[p])
        BY <2>2, TotalOrder
    <2>4. QED
        BY <2>1, <2>2, <2>3 DEF Before
<1>5. \A i \in Before(s[p]) : \E a \in 1..(p - 1) : s[a] = i
    <2> SUFFICES ASSUME NEW i \in Before(s[p])
                 PROVE  \E a \in 1..(p - 1) : s[a] = i
        OBVIOUS
    <2>1. i \in Listed /\ Precedes(i, s[p])
        BY DEF Before
    <2>2. PICK a \in 1..n : s[a] = i
        BY <1>2, <2>1
    <2>3. a # p
        BY <1>1, <1>2, <1>3, <2>1, <2>2, StrictOrder
    <2>4. ~(p < a)
        BY <1>1, <1>2, <2>1, <2>2
    <2>5. a \in 1..(p - 1)
        BY <1>1, <2>3, <2>4
    <2>6. QED
        BY <2>2, <2>5
<1> DEFINE f == [a \in 1..(p - 1) |-> s[a]]
<1>6. f \in [1..(p - 1) -> Before(s[p])] /\ \A a \in 1..(p - 1) : f[a] = s[a]
    BY <1>4
<1> HIDE DEF f
<1>7. f \in Injection(1..(p - 1), Before(s[p]))
    BY <1>2, <1>4, <1>6 DEF Injection, IsInjective
<1>8. f \in Surjection(1..(p - 1), Before(s[p]))
    BY <1>5, <1>6 DEF Surjection
<1>9. ExistsBijection(1..(p - 1), Before(s[p]))
    BY <1>7, <1>8 DEF ExistsBijection, Bijection
<1>10. p - 1 \in Nat
    BY <1>1
<1>11. QED
    BY <1>9, <1>10, FS_CountingElements

-----------------------------------------------------------------------------
(* Pages *)

\* A page begins where the one before it ends.
LEMMA Skips ==
    ASSUME NEW p \in Nat
    PROVE  /\ Skipped(p + 1) = p * PageSize /\ Skipped(p + 1) \in Nat
           /\ p >= 1 => Skipped(p) \in Nat /\ Skipped(p) + PageSize = Skipped(p + 1)
<1>1. PageSize \in Nat /\ PageSize >= 1
    BY ListConstants
<1>2. p * PageSize \in Nat /\ (p - 1) * PageSize = p * PageSize - PageSize
    BY <1>1
<1>3. (p + 1) - 1 = p
    OBVIOUS
<1>4. Skipped(p + 1) = p * PageSize /\ Skipped(p) = p * PageSize - PageSize
    BY <1>2, <1>3 DEF Skipped
<1>5. ASSUME p >= 1 PROVE p * PageSize - PageSize \in Nat
    <2>1. (p - 1) \in Nat
        BY <1>5
    <2>2. (p - 1) * PageSize \in Nat
        BY <1>1, <2>1
    <2>3. QED
        BY <1>2, <2>2
<1>6. QED
    BY <1>1, <1>2, <1>4, <1>5

\* Enough pages for all rows, and no more pages than rows.
LEMMA Pages ==
    ASSUME NEW total \in Nat
    PROVE  /\ PagesOf(total) \in Nat /\ PagesOf(total) <= total
           /\ \A p \in Nat : PagesOf(total) <= p => total <= p * PageSize
<1>1. PageSize \in Nat /\ PageSize >= 1
    BY ListConstants
<1> DEFINE x == total + PageSize - 1
           q == x \div PageSize
<1>2. x \in Nat
    BY <1>1
<1>3. q \in Int /\ q * PageSize <= x /\ x < q * PageSize + PageSize
    BY <1>1, <1>2
<1> HIDE DEF q
<1>4. q \in Nat
    BY <1>1, <1>2, <1>3
<1>5. q <= total
    BY <1>1, <1>3, <1>4
<1>6. ASSUME NEW p \in Nat, q <= p PROVE total <= p * PageSize
    <2>1. q * PageSize <= p * PageSize
        BY <1>1, <1>4, <1>6
    <2>2. total < q * PageSize + 1 /\ q * PageSize \in Nat /\ p * PageSize \in Nat
        BY <1>1, <1>3, <1>4, <1>6
    <2>3. QED
        BY <2>1, <2>2
<1>7. PagesOf(total) = q
    BY DEF PagesOf, q
<1>8. QED
    BY <1>4, <1>5, <1>6, <1>7

\* The rows that a page has, from the place behind m.
Cut(s, m) == SubSeq(s, m + 1, IF m + PageSize < Len(s) THEN m + PageSize ELSE Len(s))

\* How often a row is on a page.
Comes(page, i) == Cardinality({k \in DOMAIN page : page[k] = i})

\* A page has the rows at its places, and as many as are left.
LEMMA PageOfResult ==
    ASSUME NEW s \in Arrangements, NEW m \in Nat, NEW page, page = Cut(s, m)
    PROVE  LET n == Cardinality(Listed) IN
           /\ Len(page) = IF n <= m THEN 0 ELSE IF m + PageSize < n THEN PageSize ELSE n - m
           /\ page \in Seq(Ids) /\ DOMAIN page = 1..Len(page)
           /\ \A k \in DOMAIN page : m + k \in 1..n /\ page[k] = s[m + k]
<1> DEFINE n == Cardinality(Listed)
           to == IF m + PageSize < n THEN m + PageSize ELSE n
<1>1. n \in Nat /\ s \in [1..n -> Listed] /\ PageSize \in Nat /\ PageSize >= 1
    BY ListedFinite, EachHasAPlace, ListConstants
<1> HIDE DEF n
<1>2. Len(s) = n
    <2>1. s \in Seq(Listed)
        BY <1>1, SeqDef
    <2>2. Len(s) \in Nat /\ 1..Len(s) = 1..n
        BY <1>1, <2>1, LenProperties
    <2>3. QED
        BY <1>1, <2>2
<1>3. page = SubSeq(s, m + 1, to) /\ to \in Int /\ m + 1 \in Int /\ to <= n /\ to >= 0
    BY <1>1, <1>2 DEF Cut
<1>4. \A i \in (m + 1)..to : s[i] \in Listed
    BY <1>1, <1>3
<1>5. /\ page \in Seq(Listed)
      /\ Len(page) = IF m + 1 <= to THEN to - (m + 1) + 1 ELSE 0
      /\ \A k \in 1..(to - (m + 1) + 1) : page[k] = s[m + 1 + k - 1]
    BY <1>3, <1>4, SubSeqProperties
<1>6. DOMAIN page = 1..Len(page)
    BY <1>5, LenProperties
<1>7. Len(page) = IF n <= m THEN 0 ELSE IF m + PageSize < n THEN PageSize ELSE n - m
    BY <1>1, <1>5
<1>8. ASSUME NEW k \in DOMAIN page PROVE m + k \in 1..n /\ page[k] = s[m + k]
    <2>1. k \in 1..(to - (m + 1) + 1) /\ k \in Nat
        BY <1>1, <1>3, <1>5, <1>6, <1>8
    <2>2. m + 1 + k - 1 = m + k /\ m + k \in 1..n
        BY <1>1, <1>3, <2>1
    <2>3. QED
        BY <1>5, <2>1, <2>2
<1>9. page \in Seq(Ids)
    BY <1>5, SeqMonotonic DEF Listed
<1>10. QED
    BY <1>6, <1>7, <1>8, <1>9 DEF n

\* A row is on a page at most once, and is on it if its place is.
LEMMA OnceOnPage ==
    ASSUME NEW s \in Arrangements, NEW m \in Nat, NEW page, page = Cut(s, m), NEW i
    PROVE  /\ Comes(page, i) \in {0, 1}
           /\ Comes(page, i) = 1 <=>
                 \E p \in 1..Cardinality(Listed) : s[p] = i /\ m < p /\ p <= m + PageSize
<1> DEFINE n == Cardinality(Listed)
           here == {k \in DOMAIN page : page[k] = i}
<1>1. n \in Nat /\ PageSize \in Nat /\ PageSize >= 1
    BY ListedFinite, ListConstants
<1>2. /\ \A p, q \in 1..n : p # q => s[p] # s[q]
      /\ Len(page) = IF n <= m THEN 0 ELSE IF m + PageSize < n THEN PageSize ELSE n - m
      /\ DOMAIN page = 1..Len(page)
      /\ \A k \in DOMAIN page : m + k \in 1..n /\ page[k] = s[m + k]
    BY EachHasAPlace, PageOfResult
<1> HIDE DEF n
<1>3. \A k, l \in here : k = l
    <2> SUFFICES ASSUME NEW k \in here, NEW l \in here PROVE k = l
        OBVIOUS
    <2>1. /\ k \in DOMAIN page /\ l \in DOMAIN page /\ k \in Int /\ l \in Int
          /\ s[m + k] = s[m + l] /\ m + k \in 1..n /\ m + l \in 1..n
        BY <1>1, <1>2
    <2>2. m + k = m + l
        BY <1>2, <2>1
    <2>3. QED
        BY <2>1, <2>2
<1>4. CASE here = {}
    <2>1. Comes(page, i) = 0
        BY <1>4, FS_EmptySet DEF Comes
    <2>2. ASSUME NEW p \in 1..n, s[p] = i, m < p, p <= m + PageSize PROVE FALSE
        <3>1. p - m \in DOMAIN page /\ m + (p - m) = p
            BY <1>1, <1>2, <2>2
        <3>2. p - m \in here
            BY <1>2, <2>2, <3>1
        <3>3. QED
            BY <1>4, <3>2
    <2>3. QED
        BY <2>1, <2>2 DEF n
<1>5. CASE here # {}
    <2>1. PICK k \in here : TRUE
        BY <1>5
    <2>2. here = {k}
        BY <1>3, <2>1
    <2>3. Comes(page, i) = 1
        BY <2>2, FS_Singleton DEF Comes
    <2>4. /\ m + k \in 1..n /\ s[m + k] = i /\ m < m + k /\ m + k <= m + PageSize
        BY <1>1, <1>2, <2>1
    <2>5. QED
        BY <2>3, <2>4 DEF n
<1>6. QED
    BY <1>4, <1>5

\* In a list without ties: the rows with the right number of rows in front.
LEMMA OnPageInOrder ==
    ASSUME ListTyped, ~Tied, list \notin FirstPageOnly, NEW s \in Arrangements, NEW m \in Nat,
           NEW page, page = Cut(s, m), NEW i \in Ids
    PROVE  /\ Comes(page, i) \in {0, 1}
           /\ Comes(page, i) = 1 <=>
                 /\ i \in Listed
                 /\ m <= Cardinality(Before(i)) /\ Cardinality(Before(i)) < m + PageSize
<1> DEFINE n == Cardinality(Listed)
<1>1. n \in Nat /\ PageSize \in Nat
    BY ListedFinite, ListConstants
<1>2. /\ Comes(page, i) \in {0, 1}
      /\ Comes(page, i) = 1 <=> \E p \in 1..n : s[p] = i /\ m < p /\ p <= m + PageSize
    BY OnceOnPage
<1>3. \A p \in 1..n : Cardinality(Before(s[p])) = p - 1
    BY PlaceInOrder
<1>4. /\ s \in [1..n -> Listed] /\ \A j \in Listed : \E p \in 1..n : s[p] = j
    BY EachHasAPlace
<1> HIDE DEF n
<1>5. ASSUME Comes(page, i) = 1
      PROVE  i \in Listed /\ m <= Cardinality(Before(i)) /\ Cardinality(Before(i)) < m + PageSize
    BY <1>1, <1>2, <1>3, <1>4, <1>5
<1>6. ASSUME i \in Listed, m <= Cardinality(Before(i)), Cardinality(Before(i)) < m + PageSize
      PROVE  Comes(page, i) = 1
    <2>1. PICK p \in 1..n : s[p] = i
        BY <1>4, <1>6
    <2>2. m < p /\ p <= m + PageSize
        BY <1>1, <1>3, <1>6, <2>1
    <2>3. QED
        BY <1>2, <2>1, <2>2
<1>7. QED
    BY <1>2, <1>5, <1>6

\* Fewer rows are in front of a row than there are in the list.
LEMMA FrontIsFinite ==
    ASSUME ListTyped, NEW i \in Ids
    PROVE  /\ Cardinality(Before(i)) \in Nat /\ IsFiniteSet(Before(i))
           /\ i \in Listed => Cardinality(Before(i)) < Cardinality(Listed)
<1>1. IsFiniteSet(Listed) /\ Before(i) \in SUBSET Listed
    BY ListedFinite DEF Before
<1>2. /\ IsFiniteSet(Before(i)) /\ Cardinality(Before(i)) \in Nat /\ Cardinality(Listed) \in Nat
      /\ Cardinality(Before(i)) <= Cardinality(Listed)
      /\ Cardinality(Before(i)) = Cardinality(Listed) => Before(i) = Listed
    BY <1>1, FS_Subset, FS_CardinalityType
<1>3. i \notin Before(i)
    BY StrictOrder DEF Before
<1>4. QED
    BY <1>2, <1>3

-----------------------------------------------------------------------------
(* The reader *)

\* A row has come at most as often as pages were read.
LEMMA PagesReadTyped ==
    ASSUME ListTyped
    PROVE  /\ PagesRead \in 0..Cardinality(Ids) /\ walk.page \in Nat /\ walk.total \in Nat
           /\ \A i \in Ids : walk.times[i] \in Nat /\ walk.times[i] <= PagesRead
<1>1. Cardinality(Ids) \in Nat
    BY ListedFinite
<1>2. /\ walk.page \in 0..Cardinality(Ids) /\ walk.total \in 0..Cardinality(Ids)
      /\ walk.at # "rest" => walk.page >= 1
      /\ walk.times \in [Ids -> 0..PagesRead]
    BY DEF ListTyped, Walks
<1>3. PagesRead \in 0..Cardinality(Ids)
    BY <1>1, <1>2 DEF PagesRead
<1>4. QED
    BY <1>1, <1>2, <1>3

\* The invariant includes the type invariant.
LEMMA InvGivesListType == PagesInv => ListTypeOK
<1> SUFFICES ASSUME PagesInv PROVE ListTypeOK
    OBVIOUS
<1>1. ListTyped /\ PagesRead \in 0..Cardinality(Ids) /\ Cardinality(Ids) \in Nat
    BY PagesReadTyped, ListedFinite DEF PagesInv
<1>2. PageSize \in Nat
    BY ListConstants
<1>3. walk.times \in [Ids -> 0..Cardinality(Ids)]
    BY <1>1 DEF ListTyped
<1>4. \A k \in DOMAIN walk.came : k <= PageSize /\ walk.came[k] \in Ids
    BY <1>1, <1>2 DEF ListTyped
<1>5. QED
    BY <1>1, <1>3, <1>4 DEF ListTyped, ListTypeOK, Listable, Walks

\* At first nothing was read.
LEMMA InitLists == ListInit => PagesInv
<1> SUFFICES ASSUME ListInit PROVE PagesInv
    OBVIOUS
<1>1. /\ walk.at = "rest" /\ walk.page = 0 /\ walk.total = 0 /\ walk.came = << >>
      /\ walk.times = [i \in Ids |-> 0] /\ steady = {} /\ upset = {}
    BY DEF ListInit, NoWalk
<1>2. DOMAIN walk.came = {}
    BY <1>1
<1>3. rows \in [Ids -> Listable]
    BY DEF ListInit, Listable
<1>4. list = "queue" => SortValues \subseteq 1..4
    BY DEF ListInit, Priorities
<1>5. walk.times \in [Ids -> 0..PagesRead]
    BY <1>1 DEF PagesRead
<1>6. walk \in Walks
    BY DEF ListInit, NoWalk, Walks
<1>7. ListTyped
    BY <1>1, <1>2, <1>3, <1>4, <1>5, <1>6, ListedFinite DEF ListTyped, ListInit
<1>8. QED
    BY <1>1, <1>7 DEF PagesInv, SeenIsBehind, UnseenIsAhead, CountIsFresh, Reading,
        PagesMakeTheList, MissedHasCause, RepeatedHasCause, CountFitsPage, UrgentComesFirst, AtEnd

\* What the pages make is told at the end.
LEMMA NotYet == walk'.at # "end" => PagesMakeTheList'
BY DEF PagesMakeTheList, MissedHasCause, RepeatedHasCause, CountFitsPage, UrgentComesFirst, AtEnd

\* Whoever begins has all rows ahead.
LEMMA BeginStep == ASSUME PagesInv, BeginReading PROVE PagesInv'
<1>1. /\ walk.at = "rest" /\ walk'.at = "asked" /\ walk'.page = 1 /\ walk'.total = walk.total
      /\ walk'.came = walk.came /\ walk'.times = walk.times
      /\ steady' = Listed /\ UNCHANGED <<list, rows, upset>>
    BY DEF BeginReading, PagesInv, ListTyped, Walks
<1>2. ListTyped /\ \A i \in Ids : walk.times[i] = 0
    BY <1>1, PagesReadTyped DEF PagesInv, PagesRead
<1>3. PagesRead' = 0 /\ PagesRead = 0
    BY <1>1 DEF PagesRead
<1>4. ListTyped'
    <2>1. walk' \in Walks
        BY DEF BeginReading, PagesInv, ListTyped, Walks
    <2>2. QED
        BY <1>1, <1>2, <1>3, <2>1, ListedFinite DEF ListTyped, Listed
<1>5. Skipped(walk'.page) = 0
    BY <1>1, ListConstants DEF Skipped
<1>6. SeenIsBehind'
    BY <1>1, <1>2 DEF SeenIsBehind
<1>7. UnseenIsAhead'
    <2> SUFFICES ASSUME NEW i \in Listed PROVE i \in Listed' /\ Cardinality(Before(i))' >= 0
        BY <1>1, <1>5 DEF UnseenIsAhead
    <2>1. Before(i)' = Before(i) /\ Listed' = Listed
        BY <1>1 DEF Before, Listed, Precedes, RankOf
    <2>2. Cardinality(Before(i)) \in Nat
        BY <1>2, FrontIsFinite DEF Listed
    <2>3. QED
        BY <2>1, <2>2
<1>8. QED
    BY <1>1, <1>4, <1>6, <1>7, NotYet DEF PagesInv, CountIsFresh

\* The count is that of the list at this moment.
LEMMA CountStep == ASSUME PagesInv, Count PROVE PagesInv'
<1>1. /\ walk.at = "asked" /\ walk'.at = "counted" /\ walk'.page = walk.page
      /\ walk'.total = Cardinality(Listed)
      /\ walk'.came = walk.came /\ walk'.times = walk.times
      /\ upset' = upset \ {"torn"} /\ UNCHANGED <<list, rows, steady>>
    BY DEF Count, CountRows, PagesInv, ListTyped, Walks
<1>2. Cardinality(Listed) \in 0..Cardinality(Ids)
    BY ListedFinite
<1>3. PagesRead' = PagesRead
    BY <1>1 DEF PagesRead
<1>4. ListTyped'
    <2>1. walk' \in Walks
        <3>1. walk \in Walks /\ walk' = [walk EXCEPT !.at = "counted", !.total = CountRows]
            BY DEF Count, PagesInv, ListTyped
        <3>2. CountRows \in Nat
            BY ListedFinite DEF CountRows
        <3>3. QED
            BY <3>1, <3>2 DEF Walks
    <2>2. QED
        BY <1>1, <1>2, <1>3, <2>1 DEF PagesInv, ListTyped
<1>5. /\ Listed' = Listed /\ Tied' = Tied /\ Reading /\ Reading'
      /\ \A i : Before(i)' = Before(i)
    BY <1>1 DEF Before, Listed, Precedes, RankOf, Tied, Reading
<1>6. (Paged' => Paged) /\ Skipped(walk'.page) = Skipped(walk.page)
    BY <1>1, <1>5 DEF Paged
<1>7. SeenIsBehind'
    BY <1>1, <1>5, <1>6 DEF SeenIsBehind, PagesInv
<1>8. UnseenIsAhead'
    BY <1>1, <1>5, <1>6 DEF UnseenIsAhead, PagesInv
<1>9. QED
    BY <1>1, <1>4, <1>5, <1>7, <1>8, NotYet DEF PagesInv, CountIsFresh

-----------------------------------------------------------------------------
(* The requests of others *)

\* A step of others upsets the reader.
LEMMA UpsetIs ==
    ASSUME PagesInv, Reading, NEW what \in {"entered", "left", "moved"}, Upset(what)
    PROVE  /\ what \in upset' /\ upset \subseteq upset'
           /\ upset' \subseteq {"entered", "left", "moved", "torn"}
           /\ walk.at = "counted" => "torn" \in upset'
BY DEF Upset, PagesInv, ListTyped, Walks, Reading

\* The rest follows from what is seen and unseen.
LEMMA OthersMove ==
    ASSUME PagesInv, Reading, UNCHANGED <<list, walk>>, rows' \in [Ids -> Listable],
           steady' \subseteq steady, upset' \subseteq {"entered", "left", "moved", "torn"},
           walk.at = "counted" => "torn" \in upset',
           SeenIsBehind', UnseenIsAhead'
    PROVE  PagesInv'
<1>1. ListTyped'
    BY DEF PagesInv, ListTyped, PagesRead
<1>2. walk'.at # "end"
    BY DEF Reading
<1>3. CountIsFresh'
    BY DEF CountIsFresh
<1>4. QED
    BY <1>1, <1>2, <1>3, NotYet DEF PagesInv

\* Rows that are there stay tied, unless they move.
LEMMA TiesStay ==
    ASSUME list' = list, upset \subseteq upset',
           \A j \in Ids : rows[j].at # "none" =>
               rows'[j].at # "none" /\ rows'[j].place = rows[j].place
    PROVE  Paged' => Paged
BY DEF Tied, Paged

\* Another row comes into the list: none comes nearer to its front.
LEMMA RowComes ==
    ASSUME PagesInv, Reading, UNCHANGED <<list, walk, steady>>, NEW i \in Ids,
           rows[i].at # "listed", rows'[i].at = "listed",
           rows[i].at # "none" => rows'[i].place = rows[i].place,
           \A j \in Ids : j # i => rows'[j] = rows[j],
           "entered" \in upset', upset \subseteq upset'
    PROVE  SeenIsBehind' /\ UnseenIsAhead'
<1>1. SeenIsBehind'
    BY DEF SeenIsBehind
<1>2. Paged' => Paged
    BY TiesStay
<1>3. ASSUME Paged', "left" \notin upset', NEW j \in steady
      PROVE  /\ j \in Listed'
             /\ walk.times[j] = 0 => Cardinality(Before(j)') >= Skipped(walk.page)
    <2>1. /\ j \in Listed
          /\ walk.times[j] = 0 => Cardinality(Before(j)) >= Skipped(walk.page)
        BY <1>2, <1>3 DEF PagesInv, UnseenIsAhead
    <2>2. j \in Ids /\ j # i /\ Listed \subseteq Listed' /\ Listed' \subseteq Ids
        BY <2>1 DEF Listed
    <2>3. ASSUME NEW k \in Before(j) PROVE k \in Before(j)'
        <3>1. k \in Listed /\ Precedes(k, j) /\ k # i /\ k \in Ids
            BY DEF Before, Listed
        <3>2. Precedes(k, j)'
            BY <2>2, <3>1 DEF Precedes, RankOf
        <3>3. QED
            BY <2>2, <3>1, <3>2 DEF Before
    <2>4. Before(j)' \in SUBSET Ids /\ Before(j) \in SUBSET (Before(j)')
        BY <2>2, <2>3 DEF Before
    <2>5. IsFiniteSet(Before(j)') /\ Cardinality(Before(j)') \in Nat
        BY <2>4, ListedFinite, FS_Subset, FS_CardinalityType
    <2>6. Cardinality(Before(j)) <= Cardinality(Before(j)')
        BY <2>4, <2>5, FS_Subset
    <2>7. Cardinality(Before(j)) \in Nat /\ Skipped(walk.page) \in Nat
        <3>1. walk.page \in Nat /\ walk.page >= 1
            BY PagesReadTyped DEF PagesInv, ListTyped, Reading
        <3>2. QED
            BY <2>2, <3>1, FrontIsFinite, Skips DEF PagesInv
    <2>8. QED
        BY <2>1, <2>2, <2>5, <2>6, <2>7
<1>4. UnseenIsAhead'
    BY <1>3 DEF UnseenIsAhead
<1>5. QED
    BY <1>1, <1>4

\* A row goes out of the list: none comes nearer to its end.
LEMMA RowGoes ==
    ASSUME PagesInv, Reading, UNCHANGED <<list, walk>>, NEW i \in Ids,
           rows' = [rows EXCEPT ![i].at = "out"], rows[i].at = "listed",
           "left" \in upset', upset \subseteq upset'
    PROVE  SeenIsBehind' /\ UnseenIsAhead'
<1>1. UnseenIsAhead'
    BY DEF UnseenIsAhead
<1>2. /\ rows'[i].at = "out" /\ rows'[i].place = rows[i].place
      /\ \A j \in Ids : j # i => rows'[j] = rows[j]
      /\ \A j \in Ids : rows'[j].place = rows[j].place
    BY DEF PagesInv, ListTyped, Listable
<1>3. Paged' => Paged
    BY <1>2, TiesStay
<1>4. Listed' \subseteq Listed /\ Listed \subseteq Ids
    BY <1>2 DEF Listed
<1>5. ASSUME Paged', "entered" \notin upset', NEW j \in Ids
      PROVE  /\ walk.times[j] <= 1
             /\ walk.times[j] > 0 /\ j \in Listed' =>
                   Cardinality(Before(j)') < Skipped(walk.page)
    <2>1. /\ walk.times[j] <= 1
          /\ walk.times[j] > 0 /\ j \in Listed => Cardinality(Before(j)) < Skipped(walk.page)
        BY <1>3, <1>5 DEF PagesInv, SeenIsBehind
    <2>2. Before(j)' \in SUBSET Before(j)
        BY <1>2, <1>4 DEF Before, Precedes, RankOf
    <2>3. IsFiniteSet(Before(j)) /\ Cardinality(Before(j)) \in Nat
        BY FrontIsFinite DEF PagesInv
    <2>4. Cardinality(Before(j)') <= Cardinality(Before(j)) /\ Cardinality(Before(j)') \in Nat
        BY <2>2, <2>3, FS_Subset, FS_CardinalityType
    <2>5. Skipped(walk.page) \in Nat
        <3>1. walk.page \in Nat /\ walk.page >= 1
            BY PagesReadTyped DEF PagesInv, ListTyped, Reading
        <3>2. QED
            BY <3>1, Skips
    <2>6. QED
        BY <1>4, <2>1, <2>3, <2>4, <2>5
<1>6. SeenIsBehind'
    BY <1>5 DEF SeenIsBehind
<1>7. QED
    BY <1>1, <1>6

\* A new row, or one that comes back, only pushes others back.
LEMMA InsertStep == ASSUME PagesInv, NEW i \in Ids, Insert(i) \/ ComeBack(i) PROVE PagesInv'
<1>1. PICK p \in SortValues : rows' = [rows EXCEPT ![i] = [at |-> "listed", place |-> p]]
                              /\ (rows[i].at # "none" => p = rows[i].place)
    <2>1. CASE Insert(i)
        BY <2>1 DEF Insert
    <2>2. CASE ComeBack(i)
        <3>1. rows[i] \in Listable /\ rows' = [rows EXCEPT ![i].at = "listed"]
            BY <2>2 DEF ComeBack, PagesInv, ListTyped
        <3>2. [rows[i] EXCEPT !.at = "listed"] = [at |-> "listed", place |-> rows[i].place]
              /\ rows[i].place \in SortValues
            BY <3>1 DEF Listable
        <3>3. rows' = [rows EXCEPT ![i] = [at |-> "listed", place |-> rows[i].place]]
            BY <3>1, <3>2
        <3>4. QED
            BY <3>2, <3>3
    <2>3. QED
        BY <2>1, <2>2
<1>2. /\ Reading /\ rows[i].at # "listed" /\ UNCHANGED <<list, walk, steady>>
      /\ Upset("entered")
    BY DEF Insert, ComeBack
<1>3. /\ "entered" \in upset' /\ upset \subseteq upset'
      /\ upset' \subseteq {"entered", "left", "moved", "torn"}
      /\ walk.at = "counted" => "torn" \in upset'
    BY <1>2, UpsetIs
<1>4. /\ rows' \in [Ids -> Listable] /\ rows'[i] = [at |-> "listed", place |-> p]
      /\ \A j \in Ids : j # i => rows'[j] = rows[j]
    BY <1>1 DEF PagesInv, ListTyped, Listable
<1>5. rows'[i].at = "listed" /\ rows'[i].place = p
    BY <1>4
<1>6. SeenIsBehind' /\ UnseenIsAhead'
    BY <1>1, <1>2, <1>3, <1>4, <1>5, RowComes
<1>7. QED
    BY <1>2, <1>3, <1>4, <1>6, OthersMove

\* A row that goes only lets others move up.
LEMMA LeaveStep == ASSUME PagesInv, NEW i \in Ids, Leave(i) PROVE PagesInv'
<1>1. /\ Reading /\ rows[i].at = "listed" /\ UNCHANGED <<list, walk>> /\ Upset("left")
      /\ rows' = [rows EXCEPT ![i].at = "out"] /\ steady' \subseteq steady
    BY DEF Leave
<1>2. /\ "left" \in upset' /\ upset \subseteq upset'
      /\ upset' \subseteq {"entered", "left", "moved", "torn"}
      /\ walk.at = "counted" => "torn" \in upset'
    BY <1>1, UpsetIs
<1>3. rows' \in [Ids -> Listable]
    BY <1>1 DEF PagesInv, ListTyped, Listable
<1>4. SeenIsBehind' /\ UnseenIsAhead'
    BY <1>1, <1>2, RowGoes
<1>5. QED
    BY <1>1, <1>2, <1>3, <1>4, OthersMove

\* A row that moves disturbs the order, which `upset` tells.
LEMMA MoveStep == ASSUME PagesInv, NEW i \in Ids, Move(i) PROVE PagesInv'
<1>1. /\ Reading /\ UNCHANGED <<list, walk>> /\ Upset("moved") /\ steady' \subseteq steady
    BY DEF Move
<1>2. /\ "moved" \in upset' /\ upset' \subseteq {"entered", "left", "moved", "torn"}
      /\ walk.at = "counted" => "torn" \in upset'
    BY <1>1, UpsetIs
<1>3. PICK p \in SortValues : rows' = [rows EXCEPT ![i].place = p]
    BY DEF Move
<1>4. rows' \in [Ids -> Listable]
    BY <1>3 DEF PagesInv, ListTyped, Listable
<1>5. SeenIsBehind' /\ UnseenIsAhead'
    BY <1>2 DEF SeenIsBehind, UnseenIsAhead, Paged
<1>6. QED
    BY <1>1, <1>2, <1>4, <1>5, OthersMove

-----------------------------------------------------------------------------
(* A page *)

\* There is a page behind this one, by the count.
More == walk.page < PagesOf(walk.total) /\ list \notin FirstPageOnly

\* What the step that reads a page does.
PageRead(page) ==
    /\ walk.at = "counted" /\ walk' \in Walks
    /\ walk'.came = page /\ walk'.total = walk.total
    /\ walk'.times = [i \in Ids |-> walk.times[i] + Comes(page, i)]
    /\ walk'.at = IF More THEN "asked" ELSE "end"
    /\ walk'.page = IF More THEN walk.page + 1 ELSE walk.page
    /\ UNCHANGED <<list, rows, steady, upset>>

\* The step that reads a page, with the page as a cut of a result.
LEMMA ReadPageIs ==
    ASSUME PagesInv, ReadPage
    PROVE  \E s \in Arrangements : PageRead(Cut(s, Skipped(walk.page)))
<1>1. walk \in Walks /\ walk.at = "counted" /\ walk.page \in Nat /\ walk.page >= 1
    BY DEF ReadPage, PagesInv, ListTyped, Walks
<1>2. Skipped(walk.page) \in Nat
    BY <1>1, Skips
<1>3. PICK s \in Arrangements :
          LET upTo == Skipped(walk.page) + PageSize
              page == SubSeq(s, Skipped(walk.page) + 1, IF upTo < Len(s) THEN upTo ELSE Len(s))
              more == walk.page < PagesOf(walk.total) /\ list \notin FirstPageOnly
          IN  walk' = [walk EXCEPT
                          !.came = page,
                          !.times = [i \in Ids |-> @[i] + Cardinality({k \in DOMAIN page : page[k] = i})],
                          !.at = IF more THEN "asked" ELSE "end",
                          !.page = IF more THEN @ + 1 ELSE @]
    BY DEF ReadPage
<1> DEFINE page == Cut(s, Skipped(walk.page))
           times == [i \in Ids |-> walk.times[i] + Comes(page, i)]
<1>4. walk' = [walk EXCEPT !.came = page, !.times = times,
                           !.at = IF More THEN "asked" ELSE "end",
                           !.page = IF More THEN walk.page + 1 ELSE walk.page]
    BY <1>3 DEF Cut, Comes, More
<1>5. page \in Seq(Ids) /\ \A i \in Ids : Comes(page, i) \in {0, 1}
    BY <1>2, PageOfResult, OnceOnPage
<1>6. times \in [Ids -> Nat]
    <2>1. walk.times \in [Ids -> Nat]
        BY <1>1 DEF Walks
    <2>2. \A i \in Ids : walk.times[i] + Comes(page, i) \in Nat
        <3> SUFFICES ASSUME NEW i \in Ids PROVE walk.times[i] + Comes(page, i) \in Nat
            OBVIOUS
        <3>1. walk.times[i] \in Nat /\ Comes(page, i) \in {0, 1}
            BY <1>5, <2>1
        <3>2. QED
            BY <3>1
    <2>3. QED
        BY <2>2
<1>7. PageRead(page) <=> walk' \in Walks
                         /\ walk'.came = page /\ walk'.total = walk.total /\ walk'.times = times
                         /\ walk'.at = (IF More THEN "asked" ELSE "end")
                         /\ walk'.page = (IF More THEN walk.page + 1 ELSE walk.page)
    BY <1>1 DEF PageRead, ReadPage
<1> HIDE DEF page, times
<1>8. /\ walk'.came = page /\ walk'.total = walk.total /\ walk'.times = times
      /\ walk'.at = (IF More THEN "asked" ELSE "end")
      /\ walk'.page = (IF More THEN walk.page + 1 ELSE walk.page)
      /\ walk' \in Walks
    <2> DEFINE at == IF More THEN "asked" ELSE "end"
               next == IF More THEN walk.page + 1 ELSE walk.page
    <2>1. at \in {"asked", "end"} /\ next \in Nat
        BY <1>1
    <2>2. walk' = [walk EXCEPT !.came = page, !.times = times, !.at = at, !.page = next]
        BY <1>4
    <2> HIDE DEF at, next
    <2>3. walk' \in Walks
        BY <1>1, <1>5, <1>6, <2>1, <2>2 DEF Walks
    <2>4. /\ walk'.came = page /\ walk'.total = walk.total /\ walk'.times = times
          /\ walk'.at = at /\ walk'.page = next
        BY <1>1, <2>2 DEF Walks
    <2>5. QED
        BY <2>3, <2>4 DEF at, next
<1>9. PageRead(page)
    BY <1>7, <1>8
<1>10. QED
    BY <1>9 DEF page

\* Where the reader is when a page comes, and where the page ends.
LEMMA PageStarts ==
    ASSUME PagesInv, walk.at = "counted"
    PROVE  /\ Skipped(walk.page) \in Nat /\ PageSize \in Nat
           /\ Skipped(walk.page) + PageSize = walk.page * PageSize
           /\ Skipped(walk.page + 1) = walk.page * PageSize
           /\ Reading /\ PagesRead = walk.page - 1
           /\ walk.page \in 1..Cardinality(Ids) /\ Cardinality(Ids) \in Nat
           /\ walk.total \in 0..Cardinality(Ids) /\ walk.total \in Nat
<1>1. walk.page \in 0..Cardinality(Ids) /\ walk.page >= 1 /\ walk.total \in 0..Cardinality(Ids)
    BY DEF PagesInv, ListTyped
<1>2. Cardinality(Ids) \in Nat /\ PageSize \in Nat
    BY ListedFinite, ListConstants
<1>3. /\ Skipped(walk.page) \in Nat
      /\ Skipped(walk.page) + PageSize = walk.page * PageSize
      /\ Skipped(walk.page + 1) = walk.page * PageSize
    <2>1. walk.page \in Nat /\ walk.page >= 1
        BY <1>1, <1>2
    <2>2. QED
        BY <2>1, Skips
<1>4. Reading /\ PagesRead = walk.page - 1
    BY DEF Reading, PagesRead
<1>5. QED
    BY <1>1, <1>2, <1>3, <1>4

\* A page leaves the list, and with it the order, as they are.
LEMMA PageKeepsList ==
    ASSUME NEW page, PageRead(page)
    PROVE  /\ Listed' = Listed /\ Tied' = Tied /\ Paged' = Paged
           /\ \A i : Before(i)' = Before(i)
<1>1. UNCHANGED <<list, rows, steady, upset>>
    BY DEF PageRead
<1>2. Listed' = Listed /\ Tied' = Tied
    BY <1>1 DEF Listed, Tied
<1>3. \A i : Before(i)' = Before(i)
    BY <1>1, <1>2 DEF Before, Precedes, RankOf
<1>4. Paged' = Paged
    BY <1>1, <1>2 DEF Paged
<1>5. QED
    BY <1>2, <1>3, <1>4

\* Reading a page keeps the types: the count never leads past the last row.
LEMMA ReadTyped ==
    ASSUME PagesInv, NEW s \in Arrangements, NEW page, page = Cut(s, Skipped(walk.page)),
           PageRead(page)
    PROVE  ListTyped' /\ PagesRead' = walk.page
<1>1. /\ walk.at = "counted" /\ walk' \in Walks
      /\ walk'.came = page /\ walk'.total = walk.total
      /\ walk'.times = [i \in Ids |-> walk.times[i] + Comes(page, i)]
      /\ walk'.at = IF More THEN "asked" ELSE "end"
      /\ walk'.page = IF More THEN walk.page + 1 ELSE walk.page
      /\ UNCHANGED <<list, rows, steady, upset>>
    BY DEF PageRead
<1>2. /\ Skipped(walk.page) \in Nat /\ PageSize \in Nat
      /\ PagesRead = walk.page - 1
      /\ walk.page \in 1..Cardinality(Ids) /\ Cardinality(Ids) \in Nat
      /\ walk.total \in 0..Cardinality(Ids) /\ walk.total \in Nat
    BY <1>1, PageStarts
<1>3. /\ DOMAIN page = 1..Len(page) /\ page \in Seq(Ids)
      /\ Len(page) \in Nat /\ Len(page) <= PageSize
    <2> DEFINE n == Cardinality(Listed)
               m == Skipped(walk.page)
    <2>1. n \in Nat
        BY ListedFinite
    <2>2. /\ Len(page) = IF n <= m THEN 0 ELSE IF m + PageSize < n THEN PageSize ELSE n - m
          /\ page \in Seq(Ids) /\ DOMAIN page = 1..Len(page)
        BY <1>2, PageOfResult
    <2> HIDE DEF n, m
    <2>3. m \in Nat
        BY <1>2 DEF m
    <2>4. QED
        BY <1>2, <2>1, <2>2, <2>3
<1>4. PagesRead' = walk.page
    BY <1>1, <1>2 DEF PagesRead
<1>5. walk'.times \in [Ids -> 0..walk.page]
    <2> SUFFICES ASSUME NEW i \in Ids PROVE walk.times[i] + Comes(page, i) \in 0..walk.page
        BY <1>1
    <2>1. walk.times[i] \in Nat /\ walk.times[i] <= walk.page - 1
        BY <1>2, PagesReadTyped DEF PagesInv
    <2>2. Comes(page, i) \in {0, 1}
        BY <1>2, OnceOnPage
    <2>3. QED
        BY <1>2, <2>1, <2>2
<1>6. /\ walk'.page \in 0..Cardinality(Ids) /\ walk'.page >= 1
      /\ walk'.page > 1 => list \notin FirstPageOnly
    <2>1. CASE More
        <3>1. PagesOf(walk.total) \in Nat /\ PagesOf(walk.total) <= walk.total
            BY <1>2, Pages
        <3>2. walk.page < PagesOf(walk.total) /\ list \notin FirstPageOnly
            BY <2>1 DEF More
        <3>3. QED
            BY <1>1, <1>2, <2>1, <3>1, <3>2
    <2>2. CASE ~More
        BY <1>1, <1>2, <2>2 DEF PagesInv, ListTyped
    <2>3. QED
        BY <2>1, <2>2
<1>7. /\ DOMAIN walk'.came \subseteq 1..PageSize
      /\ \A k \in DOMAIN walk'.came : walk'.came[k] \in Ids
    <2>1. DOMAIN page \subseteq 1..PageSize
        BY <1>2, <1>3
    <2>2. \A k \in DOMAIN page : page[k] \in Ids
        BY <1>3, ElementOfSeq
    <2>3. QED
        BY <1>1, <2>1, <2>2
<1>8. QED
    BY <1>1, <1>2, <1>4, <1>5, <1>6, <1>7 DEF PagesInv, ListTyped

\* Nothing is seen twice, and what is seen stands on the pages read, this one
\* included.
LEMMA ReadSeen ==
    ASSUME PagesInv, NEW s \in Arrangements, NEW page, page = Cut(s, Skipped(walk.page)),
           PageRead(page), Paged, "entered" \notin upset, NEW i \in Ids
    PROVE  /\ walk'.times[i] <= 1
           /\ walk'.times[i] > 0 /\ i \in Listed =>
                 Cardinality(Before(i)) < walk.page * PageSize
<1> DEFINE m == Skipped(walk.page)
           front == Cardinality(Before(i))
<1>1. /\ walk.at = "counted"
      /\ walk'.times[i] = walk.times[i] + Comes(page, i)
    BY DEF PageRead
<1>2. m \in Nat /\ PageSize \in Nat /\ m + PageSize = walk.page * PageSize /\ Reading
    BY <1>1, PageStarts
<1>3. /\ walk.times[i] <= 1
      /\ walk.times[i] > 0 /\ i \in Listed => front < m
    BY <1>2 DEF PagesInv, SeenIsBehind
<1>4. /\ Comes(page, i) \in {0, 1}
      /\ Comes(page, i) = 1 <=> i \in Listed /\ m <= front /\ front < m + PageSize
    BY <1>2, OnPageInOrder DEF PagesInv, Paged
<1>5. walk.times[i] \in Nat /\ front \in Nat
    BY PagesReadTyped, FrontIsFinite DEF PagesInv
<1> HIDE DEF m, front
<1>6. QED
    <2>1. CASE Comes(page, i) = 1
        <3>1. i \in Listed /\ m <= front /\ front < m + PageSize
            BY <1>4, <2>1
        <3>2. walk.times[i] = 0
            BY <1>2, <1>3, <1>5, <3>1
        <3>3. QED
            BY <1>1, <1>2, <2>1, <3>1, <3>2 DEF front
    <2>2. CASE Comes(page, i) = 0
        <3>1. walk'.times[i] = walk.times[i]
            BY <1>1, <1>5, <2>2
        <3>2. walk'.times[i] > 0 /\ i \in Listed => front < walk.page * PageSize
            BY <1>2, <1>3, <1>5, <3>1
        <3>3. QED
            BY <1>3, <3>1, <3>2 DEF front
    <2>3. QED
        BY <1>4, <2>1, <2>2

\* A row that stayed and was not seen stands behind the pages read.
LEMMA ReadUnseen ==
    ASSUME PagesInv, NEW s \in Arrangements, NEW page, page = Cut(s, Skipped(walk.page)),
           PageRead(page), Paged, "left" \notin upset, NEW i \in steady
    PROVE  /\ i \in Listed
           /\ walk'.times[i] = 0 => Cardinality(Before(i)) >= walk.page * PageSize
<1> DEFINE m == Skipped(walk.page)
           front == Cardinality(Before(i))
<1>1. i \in Ids
    BY DEF PagesInv, ListTyped
<1>2. /\ walk.at = "counted"
      /\ walk'.times[i] = walk.times[i] + Comes(page, i)
    BY <1>1 DEF PageRead
<1>3. m \in Nat /\ PageSize \in Nat /\ m + PageSize = walk.page * PageSize /\ Reading
    BY <1>2, PageStarts
<1>4. i \in Listed /\ (walk.times[i] = 0 => front >= m)
    BY <1>3 DEF PagesInv, UnseenIsAhead
<1>5. /\ Comes(page, i) \in {0, 1}
      /\ Comes(page, i) = 1 <=> i \in Listed /\ m <= front /\ front < m + PageSize
    BY <1>1, <1>3, OnPageInOrder DEF PagesInv, Paged
<1>6. walk.times[i] \in Nat /\ front \in Nat
    BY <1>1, PagesReadTyped, FrontIsFinite DEF PagesInv
<1> HIDE DEF m, front
<1>7. ASSUME walk'.times[i] = 0 PROVE front >= walk.page * PageSize
    <2>1. walk.times[i] = 0 /\ Comes(page, i) = 0
        BY <1>2, <1>5, <1>6, <1>7
    <2>2. m <= front /\ ~(front < m + PageSize)
        BY <1>3, <1>4, <1>5, <1>6, <2>1
    <2>3. QED
        BY <1>3, <1>6, <2>2
<1>8. QED
    BY <1>4, <1>7 DEF front

\* The last page of a list that is read to the end.
LEMMA LastPage ==
    ASSUME PagesInv, NEW s \in Arrangements, NEW page, page = Cut(s, Skipped(walk.page)),
           PageRead(page), ~More
    PROVE  MissedHasCause' /\ RepeatedHasCause'
<1>1. /\ walk.at = "counted" /\ UNCHANGED <<list, steady, upset>> /\ Tied' = Tied
    BY PageKeepsList DEF PageRead
<1>2. /\ walk.page \in Nat /\ walk.total \in Nat /\ PageSize \in Nat
    BY <1>1, PageStarts
<1>3. ASSUME list \notin FirstPageOnly, ~Tied, "left" \notin upset, "moved" \notin upset,
             "torn" \notin upset, NEW i \in steady, walk'.times[i] = 0
      PROVE  FALSE
    <2>1. i \in Listed /\ Cardinality(Before(i)) >= walk.page * PageSize
        BY <1>3, ReadUnseen DEF Paged
    <2>2. walk.total <= walk.page * PageSize
        <3>1. PagesOf(walk.total) \in Nat /\ ~(walk.page < PagesOf(walk.total))
            BY <1>2, <1>3, Pages DEF More
        <3>2. QED
            BY <1>2, <3>1, Pages
    <2>3. walk.total = Cardinality(Listed)
        BY <1>1, <1>3 DEF PagesInv, CountIsFresh
    <2>4. i \in Ids
        BY <1>3 DEF PagesInv, ListTyped
    <2>5. Cardinality(Before(i)) \in Nat /\ Cardinality(Before(i)) < Cardinality(Listed)
        BY <2>1, <2>4, FrontIsFinite DEF PagesInv
    <2>6. walk.page * PageSize \in Nat
        BY <1>2
    <2>7. QED
        BY <1>2, <2>1, <2>2, <2>3, <2>5, <2>6
<1>4. MissedHasCause'
    BY <1>1, <1>3 DEF MissedHasCause, AtEnd
<1>5. ASSUME list \notin FirstPageOnly, ~Tied, "entered" \notin upset, "moved" \notin upset,
             NEW i \in Ids
      PROVE  walk'.times[i] <= 1
    BY <1>5, ReadSeen DEF Paged
<1>6. \A i \in Ids : walk'.times[i] \in Nat
    <2>1. walk'.times \in [Ids -> Nat]
        BY DEF PageRead, Walks
    <2>2. QED
        BY <2>1
<1>7. RepeatedHasCause'
    BY <1>1, <1>5, <1>6 DEF RepeatedHasCause, AtEnd
<1>8. QED
    BY <1>4, <1>7

\* A page has the rows that the count says it has.
LEMMA PageFitsCount ==
    ASSUME PagesInv, NEW s \in Arrangements, NEW page, page = Cut(s, Skipped(walk.page)),
           PageRead(page), ~More
    PROVE  CountFitsPage'
<1> DEFINE n == Cardinality(Listed)
           m == Skipped(walk.page)
<1>1. /\ walk.at = "counted" /\ walk'.came = page /\ walk'.total = walk.total
      /\ walk'.page = walk.page /\ upset' = upset
    BY DEF PageRead
<1>2. SUFFICES ASSUME "torn" \notin upset
               PROVE  Len(page) = Cardinality({k \in 1..PageSize : m + k <= walk.total})
    BY <1>1 DEF CountFitsPage, Skipped
<1>3. n \in Nat /\ m \in Nat /\ PageSize \in Nat /\ PageSize >= 1
    BY <1>1, PageStarts, ListedFinite, ListConstants
<1>4. walk.total = n
    BY <1>1, <1>2 DEF PagesInv, CountIsFresh
<1>5. Len(page) = IF n <= m THEN 0 ELSE IF m + PageSize < n THEN PageSize ELSE n - m
    BY <1>3, PageOfResult
<1> HIDE DEF n, m
<1>6. Len(page) \in Nat
    BY <1>3, <1>5
<1>7. {k \in 1..PageSize : m + k <= walk.total} = 1..Len(page)
    BY <1>3, <1>4, <1>5, <1>6
<1>8. Cardinality(1..Len(page)) = Len(page)
    <2>1. \A c \in Nat : Cardinality(1..c) = c
        BY FS_Interval
    <2>2. QED
        BY <1>6, <2>1
<1>9. QED
    BY <1>7, <1>8

\* The first page of the queue has the most urgent rows.
LEMMA QueueComesFirst ==
    ASSUME PagesInv, NEW s \in Arrangements, NEW page, page = Cut(s, Skipped(walk.page)),
           PageRead(page), ~More
    PROVE  UrgentComesFirst'
<1> DEFINE n == Cardinality(Listed)
           m == Skipped(walk.page)
<1>1. /\ walk.at = "counted" /\ walk'.came = page /\ UNCHANGED <<list, rows, upset>>
      /\ \A i \in Ids : walk'.times[i] = walk.times[i] + Comes(page, i)
      /\ Listed' = Listed
    BY PageKeepsList DEF PageRead
<1>2. SUFFICES ASSUME list = "queue", NEW k \in DOMAIN page, NEW i \in Listed,
                      rows[i].place > rows[page[k]].place
               PROVE  walk'.times[i] > 0
    BY <1>1 DEF UrgentComesFirst
<1>3. walk.page = 1
    BY <1>1, <1>2, PageStarts DEF PagesInv, ListTyped, FirstPageOnly
<1>4. m = 0 /\ m \in Nat /\ n \in Nat /\ PageSize \in Nat /\ PageSize >= 1
    BY <1>3, ListConstants, ListedFinite DEF Skipped
<1>5. /\ Len(page) = IF n <= m THEN 0 ELSE IF m + PageSize < n THEN PageSize ELSE n - m
      /\ DOMAIN page = 1..Len(page)
      /\ m + k \in 1..n /\ page[k] = s[m + k]
    <2>1. m \in Nat /\ page = Cut(s, m)
        BY <1>4
    <2> HIDE DEF m
    <2>2. /\ Len(page) = IF n <= m THEN 0 ELSE IF m + PageSize < n THEN PageSize ELSE n - m
          /\ DOMAIN page = 1..Len(page)
          /\ \A j \in DOMAIN page : m + j \in 1..n /\ page[j] = s[m + j]
        BY <2>1, PageOfResult
    <2>3. QED
        BY <2>2
<1>6. /\ s \in [1..n -> Listed]
      /\ \A a, b \in 1..n : a < b => ~Precedes(s[b], s[a])
      /\ \E p \in 1..n : s[p] = i
    BY EachHasAPlace DEF Arrangements
<1> HIDE DEF n, m
<1>7. k \in 1..n /\ k <= PageSize /\ page[k] = s[k] /\ k \in Nat
    BY <1>4, <1>5
<1>8. PICK p \in 1..n : s[p] = i
    BY <1>6
<1>9. Precedes(s[p], s[k])
    <2>1. i \in Ids /\ s[k] \in Ids /\ s[k] \in Listed
        BY <1>6, <1>7 DEF Listed
    <2>2. RankOf(i) = rows[i].place /\ RankOf(s[k]) = rows[s[k]].place
        BY <2>1, RankIsPlace DEF PagesInv
    <2>3. OrderOf[list].newest
        BY <1>2 DEF OrderOf, GetUnscheduledJobs
    <2>4. QED
        BY <1>2, <1>7, <1>8, <2>2, <2>3 DEF Precedes
<1>10. p <= PageSize /\ 0 < p
    BY <1>4, <1>6, <1>7, <1>8, <1>9
<1>11. Comes(page, i) = 1
    BY <1>4, <1>8, <1>10, OnceOnPage DEF n, m
<1>12. i \in Ids /\ walk.times[i] \in Nat
    BY PagesReadTyped DEF PagesInv, Listed
<1>13. QED
    BY <1>1, <1>11, <1>12

\* Reading a page keeps the invariant; the last page makes the list complete.
LEMMA ReadStep == ASSUME PagesInv, ReadPage PROVE PagesInv'
<1>1. PICK s \in Arrangements : PageRead(Cut(s, Skipped(walk.page)))
    BY ReadPageIs
<1> DEFINE page == Cut(s, Skipped(walk.page))
<1>2. PageRead(page) /\ page = Cut(s, Skipped(walk.page))
    BY <1>1
<1> HIDE DEF page
<1>3. /\ walk.at = "counted" /\ UNCHANGED <<list, rows, steady, upset>>
      /\ walk'.at = IF More THEN "asked" ELSE "end"
      /\ walk'.page = IF More THEN walk.page + 1 ELSE walk.page
    BY <1>2 DEF PageRead
<1>4. ListTyped'
    BY <1>2, ReadTyped
<1>5. Skipped(walk.page + 1) = walk.page * PageSize
    BY <1>3, PageStarts
<1>6. /\ Listed' = Listed /\ Paged' = Paged
      /\ \A i : Before(i)' = Before(i)
    BY <1>2, PageKeepsList
<1>7. Reading' => More /\ Skipped(walk'.page) = walk.page * PageSize
    BY <1>3, <1>5 DEF Reading
<1>8. SeenIsBehind'
    <2>1. ASSUME Paged, "entered" \notin upset, NEW i \in Ids
          PROVE  /\ walk'.times[i] <= 1
                 /\ walk'.times[i] > 0 /\ i \in Listed =>
                       Cardinality(Before(i)) < walk.page * PageSize
        BY <1>2, <2>1, ReadSeen
    <2>2. ASSUME Paged', "entered" \notin upset', Reading', NEW i \in Ids
          PROVE  /\ walk'.times[i] <= 1
                 /\ walk'.times[i] > 0 /\ i \in Listed' =>
                       Cardinality(Before(i)') < Skipped(walk'.page)
        <3>1. Before(i)' = Before(i) /\ Listed' = Listed /\ Paged /\ upset' = upset
            BY <1>3, <1>6, <2>2
        <3>2. Skipped(walk'.page) = walk.page * PageSize
            BY <1>7, <2>2
        <3>3. QED
            BY <2>1, <2>2, <3>1, <3>2
    <2>3. QED
        BY <2>2 DEF SeenIsBehind, Skipped
<1>9. UnseenIsAhead'
    <2>1. ASSUME Paged, "left" \notin upset, NEW i \in steady
          PROVE  /\ i \in Listed
                 /\ walk'.times[i] = 0 => Cardinality(Before(i)) >= walk.page * PageSize
        BY <1>2, <2>1, ReadUnseen
    <2>2. ASSUME Paged', "left" \notin upset', Reading', NEW i \in steady
          PROVE  /\ i \in Listed'
                 /\ walk'.times[i] = 0 => Cardinality(Before(i)') >= Skipped(walk'.page)
        <3>1. Before(i)' = Before(i) /\ Listed' = Listed /\ Paged /\ upset' = upset
            BY <1>3, <1>6, <2>2
        <3>2. Skipped(walk'.page) = walk.page * PageSize
            BY <1>7, <2>2
        <3>3. QED
            BY <2>1, <2>2, <3>1, <3>2
    <2>3. steady' = steady
        BY <1>3
    <2>4. QED
        BY <2>2, <2>3 DEF UnseenIsAhead, Skipped
<1>10. CountIsFresh'
    BY <1>3 DEF CountIsFresh
<1>11. PagesMakeTheList'
    <2>1. CASE More
        BY <1>3, <2>1, NotYet
    <2>2. CASE ~More
        BY <1>2, <2>2, LastPage, PageFitsCount, QueueComesFirst DEF PagesMakeTheList
    <2>3. QED
        BY <2>1, <2>2
<1>12. QED
    BY <1>4, <1>8, <1>9, <1>10, <1>11 DEF PagesInv

-----------------------------------------------------------------------------
(* Theorems *)

\* Every step keeps the invariant.
LEMMA NextLists == PagesInv /\ [ListNext]_listVars => PagesInv'
<1> SUFFICES ASSUME PagesInv, [ListNext]_listVars PROVE PagesInv'
    OBVIOUS
<1>1. CASE BeginReading
    BY <1>1, BeginStep
<1>2. CASE Count
    BY <1>2, CountStep
<1>3. CASE ReadPage
    BY <1>3, ReadStep
<1>4. CASE \E i \in Ids : Insert(i) \/ Leave(i) \/ ComeBack(i) \/ Move(i)
    BY <1>4, InsertStep, LeaveStep, MoveStep
<1>5. CASE UNCHANGED listVars
    <2>1. UNCHANGED <<list, rows, walk, steady, upset>>
        BY <1>5 DEF listVars
    <2>2. ListTyped'
        BY <2>1 DEF PagesInv, ListTyped, PagesRead
    <2>3. /\ Listed' = Listed /\ Tied' = Tied /\ Paged' = Paged /\ Reading' = Reading
          /\ \A i : Before(i)' = Before(i)
        BY <2>1 DEF Before, Listed, Precedes, RankOf, Tied, Reading, Paged
    <2>4. SeenIsBehind' /\ UnseenIsAhead' /\ CountIsFresh'
        BY <2>1, <2>3 DEF PagesInv, SeenIsBehind, UnseenIsAhead, CountIsFresh, Skipped
    <2>5. PagesMakeTheList'
        BY <2>1, <2>3 DEF PagesInv, PagesMakeTheList, MissedHasCause, RepeatedHasCause,
            CountFitsPage, UrgentComesFirst, AtEnd, Skipped
    <2>6. QED
        BY <2>2, <2>4, <2>5 DEF PagesInv
<1>6. QED
    BY <1>1, <1>2, <1>3, <1>4, <1>5 DEF ListNext

\* Every reachable state of PagedLists satisfies the invariant.
THEOREM PagesInvariant == ListSpec => []PagesInv
<1>1. QED
    BY InitLists, NextLists, PTL DEF ListSpec

\* The reader stays within the list: pages, counts and the rows that have come
\* have their types, for any number of rows, any values and any page size.
THEOREM ListTypeCorrect == ListSpec => []ListTypeOK
<1>1. QED
    BY PagesInvariant, InvGivesListType, PTL

\* The pages of a list, put one after the other, are the list: a row is missed
\* or seen twice only where rows tie, moved, came or went, or the count was
\* torn from its page; the count fits the page; and the first page of the queue
\* has its most urgent rows.
THEOREM PagesAreTheList == ListSpec => []PagesMakeTheList
<1>1. PagesInv => PagesMakeTheList
    BY DEF PagesInv
<1>2. QED
    BY <1>1, PagesInvariant, PTL
=============================================================================
