---------------------------- MODULE AccountAccess ----------------------------
(***************************************************************************)
(* What a request may do.  auth-service copies the account of a user into  *)
(* the claims of an access token at login, at refresh and when a superadmin*)
(* impersonates somebody; the services trust these claims until they       *)
(* expire, and ask user-db-access-service only for the permissions of      *)
(* those without a privileged role.  Accounts and grants change meanwhile. *)
(* Whether a token is still good is the matter of AccessTokens and         *)
(* RefreshSessions; here every token that is presented is.                 *)
(***************************************************************************)
EXTENDS Naturals

CONSTANTS
    Users,       \* ids of accounts; a tenant is the id of its owner
    Clients,     \* who hold tokens and make one request at a time
    Secrets,     \* passwords
    Names,       \* email addresses
    Vacant,      \* NULL
    Zero,        \* the owner_id 0 of a session without a tenant
    MaxEdits     \* bound on the changes of accounts and grants

ASSUME AccountConstants ==
    /\ Vacant \notin Users /\ Vacant \notin Names /\ Zero \notin Users
    /\ MaxEdits \in Nat

VARIABLES
    accountOf,   \* accountOf[u]: the row of users
    grants,      \* <<owner, user>> to whom the permission is granted
    client,      \* client[c]: the request and where it is
    claims,      \* claims[c]: of the access token the client holds
    session,     \* session[c]: its refresh token
    trail,       \* <<superadmin, user>> of the audit entries "auth.impersonate"
    edits,       \* the number of changes so far
    edited,      \* history: edited[c]: what changed since claims[c] were read
    granted,     \* history: clients whose permission held during their request
    crossed,     \* history: clients that acted in a tenant never theirs
    untraced     \* history: clients with an impersonation the trail has lost

accessHistory == <<edited, granted, crossed, untraced>>
accessVars == <<accountOf, grants, client, claims, session, trail, edits, accessHistory>>

\* Owner, manager and viewer stand between or beside these in ROLE_HIERARCHY;
\* "none" is the empty role of a refresh that could not read the account.
Roles == {"superadmin", "admin", "employee"}
Level == [superadmin |-> 100, admin |-> 60, employee |-> 20, none |-> 0]

\* What a route asks for: get_current_user, require_role("owner", "admin"),
\* require_superadmin, require_permission.
Needs == {"any", "admin", "superadmin", "permission"}

Owners == Users \union {Vacant}

NoClaims == [sub |-> Vacant, role |-> "none", owner |-> Vacant, email |-> Vacant,
             by |-> Vacant, homes |-> {}]
NoSession == [of |-> Vacant, owner |-> Zero, homes |-> {}]
NoRequest == [at |-> "in", need |-> "any", tenant |-> Vacant, target |-> Vacant,
              proven |-> Vacant]

AccessTypeOK ==
    /\ accountOf \in [Users -> [role : Roles, owner : Owners, active : BOOLEAN,
                                secret : Secrets, email : Names]]
    /\ grants \subseteq Users \X Users
    /\ client \in [Clients ->
          [at : {"out", "login", "in", "refresh", "asking", "permitted", "change",
                 "reset", "shadow"},
           need : Needs, tenant : Owners, target : Owners, proven : Owners]]
    /\ claims \in [Clients ->
          [sub : Owners, role : Roles \union {"none"}, owner : Owners \union {Zero},
           email : Names \union {Vacant}, by : Owners, homes : SUBSET Owners]]
    /\ session \in [Clients -> [of : Owners, owner : Users \union {Zero},
                                homes : SUBSET Owners]]
    /\ trail \subseteq Users \X Users
    /\ edits \in 0..MaxEdits
    /\ edited \in [Clients -> SUBSET {"role", "email"}]
    /\ granted \union crossed \union untraced \subseteq Clients

\* The accounts at first: any roles and tenants, and different addresses.
AccessInit ==
    /\ \E secret \in Secrets, email \in [Users -> Names] :
          /\ \A u, v \in Users : email[u] = email[v] => u = v
          /\ accountOf \in {a \in [Users -> [role : Roles, owner : Owners, active : {TRUE},
                                             secret : {secret}, email : Names]] :
                               \A u \in Users : a[u].email = email[u]}
    /\ grants \in SUBSET {row \in Users \X Users : accountOf[row[2]].owner = row[1]}
    /\ client = [c \in Clients |-> [NoRequest EXCEPT !.at = "out"]]
    /\ claims = [c \in Clients |-> NoClaims]
    /\ session = [c \in Clients |-> NoSession]
    /\ trail = {}
    /\ edits = 0
    /\ edited = [c \in Clients |-> {}]
    /\ granted = {} /\ crossed = {} /\ untraced = {}

Goes(c, where) == client' = [client EXCEPT ![c].at = where]

-----------------------------------------------------------------------------
(* Tokens *)

\* An account without an owner is its own tenant; a superadmin has none.
TenantOf(u) ==
    IF accountOf[u].owner # Vacant THEN accountOf[u].owner
    ELSE IF accountOf[u].role = "superadmin" THEN Vacant ELSE u

\* The claims of a user as user-db has them.
ClaimsOf(u, owner, by, homes) ==
    [sub |-> u, role |-> accountOf[u].role, owner |-> owner, email |-> accountOf[u].email,
     by |-> by, homes |-> homes]

Read(c, new) == /\ claims' = [claims EXCEPT ![c] = new]
                /\ edited' = [edited EXCEPT ![c] = {}]

\* Mutant of Proves: the account is not looked up by the address.
ProvesAnyone(u, email, secret) == accountOf[u].secret = secret /\ accountOf[u].active

\* authenticate_user
Proves(u, email, secret) ==
    accountOf[u].email = email /\ accountOf[u].secret = secret /\ accountOf[u].active

LoginRead(c) ==
    /\ client[c].at = "out"
    /\ \E u \in Users, email \in Names, secret \in Secrets :
          /\ Proves(u, email, secret)
          /\ Read(c, ClaimsOf(u, TenantOf(u), Vacant, {TenantOf(u)}))
    /\ Goes(c, "login")
    /\ UNCHANGED <<accountOf, grants, session, trail, edits, granted, crossed, untraced>>

\* Mutant of LoginStore: the owner is stored as it is.
LoginStoreNull(c) ==
    /\ client[c].at = "login"
    /\ session' = [session EXCEPT ![c] =
          [of |-> claims[c].sub, owner |-> claims[c].owner, homes |-> claims[c].homes]]
    /\ Goes(c, "in")
    /\ UNCHANGED <<accountOf, grants, claims, trail, edits, accessHistory>>

\* The refresh token keeps owner_id, 0 for none.
LoginStore(c) ==
    /\ client[c].at = "login"
    /\ session' = [session EXCEPT ![c] =
          [of |-> claims[c].sub, homes |-> claims[c].homes,
           owner |-> IF claims[c].owner = Vacant THEN Zero ELSE claims[c].owner]]
    /\ Goes(c, "in")
    /\ UNCHANGED <<accountOf, grants, claims, trail, edits, accessHistory>>

\* refresh_token asks for the account anew, but for its tenant and whether it is
\* active; if user-db does not answer, the new token has no role.
RefreshRead(c) ==
    LET s == session[c]  new == ClaimsOf(s.of, s.owner, Vacant, s.homes) IN
    /\ client[c].at = "in" /\ s.of # Vacant
    /\ \E read \in {new, [new EXCEPT !.role = "none", !.email = Vacant]} : Read(c, read)
    /\ Goes(c, "refresh")
    /\ UNCHANGED <<accountOf, grants, session, trail, edits, granted, crossed, untraced>>

RefreshDone(c) ==
    /\ client[c].at = "refresh"
    /\ Goes(c, "in")
    /\ UNCHANGED <<accountOf, grants, claims, session, trail, edits, accessHistory>>

\* Mutant of MayBeShadowed: a superadmin may be impersonated.
MayBeShadowedAll(u) == TRUE

MayBeShadowed(u) == accountOf[u].role # "superadmin"

\* impersonate_user: one read of the target, and the shadow token is made of it.
Impersonate(c) ==
    /\ client[c].at = "in" /\ claims[c].role = "superadmin"
    /\ \E u \in Users :
          LET home == IF accountOf[u].owner # Vacant THEN accountOf[u].owner ELSE u IN
          /\ MayBeShadowed(u)
          /\ Read(c, ClaimsOf(u, home, claims[c].sub, {home}))
    /\ Goes(c, "shadow")
    /\ UNCHANGED <<accountOf, grants, session, trail, edits, granted, crossed, untraced>>

\* log_action, which keeps its failure to itself.
LogShadow(c) ==
    /\ client[c].at = "shadow"
    /\ \/ /\ trail' = trail \union {<<claims[c].by, claims[c].sub>>}
          /\ UNCHANGED untraced
       \/ untraced' = untraced \union {c} /\ UNCHANGED trail
    /\ Goes(c, "in")
    /\ UNCHANGED <<accountOf, grants, claims, session, edits, edited, granted, crossed>>

-----------------------------------------------------------------------------
(* Requests *)

\* Mutant of Privileged: everybody with a role.
PrivilegedStaff(role) == role # "none"

Privileged(role) == role \in {"superadmin", "admin"}

HasRole(role, need) ==
    CASE need = "any" -> TRUE
      [] need = "admin" -> Level[role] >= Level["admin"]
      [] need = "superadmin" -> role = "superadmin"
      [] OTHER -> Privileged(role)

HoldsGrant(c, given) == <<claims[c].owner, claims[c].sub>> \in given

\* get_current_user and what the route requires; a permission that the role
\* does not include is asked for.  tenant: the owner of the resource.
Ask(c) ==
    /\ client[c].at = "in" /\ claims[c].sub # Vacant
    /\ \E need \in Needs, tenant \in Owners :
          /\ HasRole(claims[c].role, need) \/ need = "permission"
          /\ client' = [client EXCEPT ![c] =
                [NoRequest EXCEPT !.need = need, !.tenant = tenant,
                    !.at = IF HasRole(claims[c].role, need) THEN "permitted" ELSE "asking"]]
    /\ granted' = IF HoldsGrant(c, grants) THEN granted \union {c} ELSE granted \ {c}
    /\ UNCHANGED <<accountOf, grants, claims, session, trail, edits, edited, crossed, untraced>>

\* check_permission_for_user; no answer is a refusal.
AskPermission(c) ==
    /\ client[c].at = "asking"
    /\ \/ HoldsGrant(c, grants) /\ Goes(c, "permitted")
       \/ client' = [client EXCEPT ![c] = NoRequest]
    /\ UNCHANGED <<accountOf, grants, claims, session, trail, edits, accessHistory>>

\* Mutant of MayEnter: any tenant will do.
MayEnterAny(who, tenant) == who.role = "superadmin" \/ tenant # Vacant

\* verify_tenant_access; the effective owner is in owner here, as acting_as and
\* owner_id of a shadow token are the same.
MayEnter(who, tenant) ==
    who.role = "superadmin" \/ (tenant # Vacant /\ who.owner = tenant)

\* The resource is loaded and its tenant compared, and the route acts or refuses.
Act(c) ==
    /\ client[c].at = "permitted"
    /\ crossed' = IF /\ MayEnter(claims[c], client[c].tenant)
                     /\ claims[c].role # "superadmin"
                     /\ client[c].tenant \notin claims[c].homes
                  THEN crossed \union {c} ELSE crossed
    /\ client' = [client EXCEPT ![c] = NoRequest]
    /\ UNCHANGED <<accountOf, grants, claims, session, trail, edits, edited, granted, untraced>>

\* change_password: the old password is proved for the address in the token...
ProveOld(c) ==
    /\ client[c].at = "in"
    /\ \E u \in Users, secret \in Secrets :
          /\ Proves(u, claims[c].email, secret)
          /\ client' = [client EXCEPT ![c] =
                [NoRequest EXCEPT !.at = "change", !.target = claims[c].sub, !.proven = u]]
    /\ UNCHANGED <<accountOf, grants, claims, session, trail, edits, accessHistory>>

\* ... reset_password: the target is read and its tenant compared ...
ReadTarget(c) ==
    /\ client[c].at = "in" /\ HasRole(claims[c].role, "admin")
    /\ \E u \in Users :
          LET home == IF accountOf[u].owner # Vacant THEN accountOf[u].owner ELSE u IN
          /\ claims[c].role = "superadmin" \/ home = claims[c].owner
          /\ client' = [client EXCEPT ![c] = [NoRequest EXCEPT !.at = "reset", !.target = u]]
    /\ UNCHANGED <<accountOf, grants, claims, session, trail, edits, accessHistory>>

\* ... and the new one is set for the id, or user-db is not there.  No token is
\* revoked.
SetPassword(c) ==
    /\ client[c].at \in {"change", "reset"}
    /\ \/ \E secret \in Secrets :
             accountOf' = [accountOf EXCEPT ![client[c].target].secret = secret]
       \/ UNCHANGED accountOf
    /\ client' = [client EXCEPT ![c] = NoRequest]
    /\ UNCHANGED <<grants, claims, session, trail, edits, accessHistory>>

-----------------------------------------------------------------------------
(* What changes meanwhile *)

Edit(u, field) ==
    /\ edits < MaxEdits /\ edits' = edits + 1
    /\ edited' = [c \in Clients |-> IF claims[c].sub = u THEN edited[c] \union field
                                    ELSE edited[c]]
    /\ UNCHANGED <<grants, client, trail, granted, crossed, untraced>>

\* update_user of admin-bl-service
EditRole(u) ==
    /\ \E role \in Roles \ {accountOf[u].role} : accountOf' = [accountOf EXCEPT ![u].role = role]
    /\ Edit(u, {"role"})
    /\ UNCHANGED <<claims, session>>

\* update_existing_user: an address that no other account has
EditEmail(u) ==
    /\ \E email \in Names : /\ \A v \in Users : accountOf[v].email # email
                            /\ accountOf' = [accountOf EXCEPT ![u].email = email]
    /\ Edit(u, {"email"})
    /\ UNCHANGED <<claims, session>>

\* update_user: the owner
Move(u) ==
    /\ \E owner \in Owners : accountOf' = [accountOf EXCEPT ![u].owner = owner]
    /\ LET had(r, id) == IF id = u THEN [r EXCEPT !.homes = @ \union {TenantOf(u)'}] ELSE r IN
       /\ claims' = [c \in Clients |-> had(claims[c], claims[c].sub)]
       /\ session' = [c \in Clients |-> had(session[c], session[c].of)]
    /\ Edit(u, {})

SwitchActive(u) ==
    /\ accountOf' = [accountOf EXCEPT ![u].active = ~@]
    /\ Edit(u, {})
    /\ UNCHANGED <<claims, session>>

\* set_user_permissions
ChangeGrant ==
    /\ edits < MaxEdits /\ edits' = edits + 1
    /\ \E o, u \in Users : grants' \in {grants \union {<<o, u>>}, grants \ {<<o, u>>}}
    /\ granted' = granted \union {c \in Clients : HoldsGrant(c, grants')}
    /\ UNCHANGED <<accountOf, client, claims, session, trail, edited, crossed, untraced>>

AccessNext ==
    \/ \E c \in Clients :
          \/ LoginRead(c) \/ LoginStore(c) \/ RefreshRead(c) \/ RefreshDone(c)
          \/ Impersonate(c) \/ LogShadow(c)
          \/ Ask(c) \/ AskPermission(c) \/ Act(c)
          \/ ProveOld(c) \/ ReadTarget(c) \/ SetPassword(c)
    \/ \E u \in Users : EditRole(u) \/ EditEmail(u) \/ Move(u) \/ SwitchActive(u)
    \/ ChangeGrant

AccessSpec == AccessInit /\ [][AccessNext]_accessVars

-----------------------------------------------------------------------------
(* Properties *)

\* A request that gets as far as its route is entitled to it by the account as
\* it is now, or by a grant that held since the request came in; the only old
\* right is a role that has changed since the token was made.
AccessHasCause ==
    \A c \in Clients :
        client[c].at = "permitted" =>
            LET role == accountOf[claims[c].sub].role  need == client[c].need IN
            \/ need = "any"
            \/ "role" \in edited[c]
            \/ need = "superadmin" /\ role = "superadmin"
            \/ need \in {"admin", "permission"} /\ role \in {"superadmin", "admin"}
            \/ need = "permission" /\ c \in granted

\* Nobody but a superadmin acts in a tenant that the account was never part of
\* since the login, or the impersonation, that the token goes back to.
TenantsApart == crossed = {}

\* The account whose password is changed is the one whose password was proved,
\* unless its address has changed, and may be another's, since the token was made.
ProofIsOwn ==
    \A c \in Clients :
        client[c].at = "change" /\ client[c].proven # client[c].target =>
            "email" \in edited[c]

\* A shadow token was never made of a superadmin, and the one who uses it is in
\* the audit trail, unless the entry was lost.
ShadowsLeaveTrace ==
    \A c \in Clients :
        claims[c].by # Vacant /\ client[c].at # "shadow" =>
            /\ claims[c].role # "superadmin"
            /\ <<claims[c].by, claims[c].sub>> \in trail \/ c \in untraced
=============================================================================
