-------------------------- MODULE MCAccountServices --------------------------
(***************************************************************************)
(* The services around accounts and sessions, each on a small instance of  *)
(* its own: they share no state in the models, so a behaviour moves only   *)
(* the part named by its focus and leaves the others as they were at first.*)
(*                                                                         *)
(* Three more choices keep the instances small.  A part may be looked at in*)
(* facets, each with some of its operations or with one cached view.       *)
(* Request slots are alike while they are idle, so a request takes the     *)
(* first idle one.  Tokens are alike before they are issued, so they are   *)
(* issued in order.                                                        *)
(***************************************************************************)
EXTENDS AccessTokens, AccountErasure, TeamOnboarding, AccountAccess, StaffDirectory,
        OrganizationAdmin, BrowserSession

CONSTANTS one, two, three,     \* request slots, rows, tokens
          v1, n1, n2, boss, mate

VARIABLE focus

allVars == <<vars, erasureVars, teamVars, accessVars, directoryVars, adminVars, browserVars>>

Focus == {<<"erasure", "all">>, <<"team", "all">>}
         \union ({"tokens"} \X {"alone", "together"})
         \union ({"access"} \X {"rights", "passwords"})
         \union ({"directory"} \X Views)
         \union ({"admin"} \X {"organizations", "settings"})
         \union ({"browser"} \X {"pages", "calls", "shadows"})

On(part) == focus[1] = part
Facet(name) == focus[2] = name

\* A request in the second slot begins only while the first is taken.
FirstIdle(slot, slotNext, idle) ==
    slot[one] = idle /\ slot[two] = idle => slotNext[two] = idle

MCInit ==
    /\ focus \in Focus
    /\ ErasureInit /\ TeamInit /\ AdminInit /\ DirectoryInit /\ BrowserInit
    /\ AccessInit
    /\ Init
    /\ accountOf[one].owner = Vacant /\ accountOf[one].email = n1
    /\ accountOf[two].owner = one /\ accountOf[two].email = n2
    /\ accountOf[one].role # "employee" /\ accountOf[two].role # "admin"
    /\ accountOf[one].secret = v1
    /\ focus = <<"access", "rights">> \/ (/\ accountOf[one].role = "admin"
                                         /\ accountOf[two].role = "employee"
                                         /\ grants = {})

-----------------------------------------------------------------------------
(* The steps of each part *)

\* One token for the whole time, or two of them for the first half of it.
TokenStep ==
    /\ On("tokens")
    /\ Next
    /\ FirstIdle(worker, worker', Idle)
    /\ IF Facet("alone") THEN two \notin issued' ELSE now' <= 2
    /\ two \in issued' => one \in issued'
    /\ UNCHANGED <<erasureVars, teamVars, accessVars, directoryVars, adminVars, browserVars>>

ErasureStep ==
    /\ On("erasure")
    /\ ErasureNext
    /\ FirstIdle(call, call', NoCall)
    /\ UNCHANGED <<vars, teamVars, accessVars, directoryVars, browserVars, adminVars>>

TeamStep ==
    /\ On("team")
    /\ TeamNext
    /\ UNCHANGED <<vars, erasureVars, accessVars, directoryVars, browserVars, adminVars>>

\* What a request may do, or whose password it sets.
AccessStep ==
    /\ On("access")
    /\ AccessNext
    /\ \A c \in Clients :
          IF Facet("rights") THEN client'[c].at \notin {"change", "reset"} /\ edited'[c] \subseteq {"role"}
          ELSE client'[c].at \notin {"asking", "permitted", "shadow"} /\ "role" \notin edited'[c]
    /\ IF Facet("rights") THEN \A u \in Users : accountOf'[u].email = accountOf[u].email
       ELSE grants' = grants /\ \A u \in Users : accountOf'[u].owner = accountOf[u].owner
    /\ UNCHANGED <<vars, erasureVars, teamVars, directoryVars, browserVars, adminVars>>

\* One view at a time, and the writes of what it shows.
DirectoryStep ==
    /\ On("directory")
    /\ DirectoryNext
    /\ FirstIdle(writer, writer', NotWriting)
    /\ \A r \in Readers : reader'[r].got > 0 => Facet(reader'[r].view)
    /\ \A w \in Writers : writer'[w].at # "idle" =>
          Writes[writer'[w].what].facts \intersect Shows(focus[2]) # {}
    /\ UNCHANGED <<vars, erasureVars, teamVars, accessVars, browserVars, adminVars>>

\* The settings, or the organizations, the second of which comes and goes only.
AdminStep ==
    /\ On("admin")
    /\ AdminNext
    /\ FirstIdle(desk, desk', AtDesk)
    /\ IF Facet("settings") THEN org' = org
       ELSE \A a \in Admins :
               /\ desk'[a].kind # "setting"
               /\ desk'[a].org = two => desk'[a].kind \in {"create", "remove"}
    /\ UNCHANGED <<vars, erasureVars, teamVars, accessVars, directoryVars, browserVars>>

\* What the first tab is used for, the second, and the tokens there are.
Uses ==
    CASE Facet("pages") -> [first |-> {"login", "page"}, second |-> {"page"}, tokens |-> 3]
      [] Facet("calls") -> [first |-> {"login", "call", "logout"}, second |-> {"call"}, tokens |-> 2]
      [] OTHER -> [first |-> {"login", "impersonate", "return", "logout"},
                   second |-> {"page"}, tokens |-> 2]

Used == {t \in Refreshes : tokens[t].row # "none"}

\* Tokens in order, and the calls of a page too; only the superadmin signs in
\* where somebody is impersonated, and access tokens outlive their sessions but
\* in the facet of the calls.
BrowserStep ==
    /\ On("browser")
    /\ BrowserNext
    /\ Used' \in {{}, {one}, {one, two}, IF Uses.tokens = 3 THEN Refreshes ELSE {}}
    /\ tab'[one].goal \in Uses.first \union {"rest"}
    /\ tab'[two].goal \in Uses.second \union {"rest"}
    /\ \A q \in Tabs : loading'[q].fetch[two] # "todo" => loading[q].fetch[one] # "todo"
    /\ Facet("shadows") => \A t \in Refreshes : tokens'[t].of # mate
    /\ Facet("calls") \/ \A a \in dead' : tokens'[a.twin].row = "revoked"
    /\ UNCHANGED <<vars, erasureVars, teamVars, accessVars, directoryVars, adminVars>>

MCNext ==
    /\ UNCHANGED focus
    /\ \/ TokenStep \/ ErasureStep \/ TeamStep \/ AccessStep \/ DirectoryStep \/ AdminStep
       \/ BrowserStep

\* The part that moves; what the others are like is known from the focus.
Seen ==
    <<focus, CASE On("tokens") -> vars
               [] On("erasure") -> erasureVars
               [] On("team") -> teamVars
               [] On("access") -> accessVars
               [] On("directory") -> directoryVars
               [] On("admin") -> adminVars
               [] OTHER -> browserVars>>

MCSpec == MCInit /\ [][MCNext]_<<allVars, focus>>

\* Every part keeps to its types: tokens without owner, permissions without
\* value or rows of a kind nobody writes are never stored.  (A part at rest is
\* as it was at first, and that is seen by a behaviour in which it moves.)
AccountPartsTyped ==
    /\ On("erasure") => ErasureTypeOK
    /\ On("team") => TeamTypeOK
    /\ On("access") => AccessTypeOK
    /\ On("directory") => DirectoryTypeOK
    /\ On("admin") => AdminTypeOK
    /\ On("browser") => BrowserTypeOK
=============================================================================
