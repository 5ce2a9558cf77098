------------------------ MODULE AuthenticationProofs ------------------------
(***************************************************************************)
(* Theorems about the access tokens of auth-service and its blacklist, and *)
(* about what a bearer of claims gets done: for any number of tokens, users, *)
(* clients and organizations, and any lifetimes.                           *)
(***************************************************************************)
EXTENDS AccessTokens, AccountAccess, TLAPS

-----------------------------------------------------------------------------
(***************************************************************************)
(* AccessTokens: a logout is durable.  The invariant says which workers hold *)
(* a record and what they hold.                                            *)
(***************************************************************************)

\* What a coroutine holds: the token of a logout was presented, the token of
\* a verification was issued, and its flag tells when it began.
WorkerHolds ==
    \A w \in Workers :
        /\ worker[w].pc \in {"setex", "insert"} => worker[w].jti \in presented
        /\ worker[w].pc = "decode" => worker[w].jti \in presented \union {NoJti}
        /\ worker[w].pc \in {"redis", "table", "valid", "revoked"} =>
              worker[w].jti \in issued
        /\ worker[w].after => worker[w].jti \in loggedOut

\* Every trace of a revocation comes from a logout.
RecordsPresented ==
    /\ blacklist \subseteq presented
    /\ \A j \in Jtis : redis[j] > 0 => j \in presented

IInv ==
    /\ TypeOK
    /\ WorkerHolds
    /\ RecordsPresented
    /\ LogoutDurable
    /\ LogoutIsFinal
    /\ NoFalseRevocation

LEMMA InitIInv == Init => IInv
BY AccessConstants
   DEF Init, IInv, TypeOK, WorkerHolds, RecordsPresented, LogoutDurable,
       LogoutIsFinal, NoFalseRevocation, Idle, Locations

\* Whole seconds are integers, whatever the resolution of the clock.
LEMMA WholeSeconds == \A n \in Int : n \div TicksPerSecond \in Int
BY AccessConstants

LEMMA ExpiryIsInt == TypeOK => \A j \in Jtis : ExpiresAt(j) \in Int
BY AccessConstants DEF TypeOK, ExpiresAt

LEMMA ExpiryKept ==
    ASSUME UNCHANGED exp PROVE \A j \in Jtis : ExpiresAt(j)' = ExpiresAt(j)
BY DEF ExpiresAt

\* Handing out a token that was not issued before disturbs no record.
LEMMA IssueIInv ==
    ASSUME IInv, NEW j \in Jtis, NEW life \in Nat, HandOut(j, life),
           live' \subseteq issued'
    PROVE  IInv'
<1>1. exp' \in [Jtis -> Int] /\ \A k \in issued : ExpiresAt(k)' = ExpiresAt(k)
    <2>1. (now + life * TicksPerSecond) \div TicksPerSecond \in Int
        BY WholeSeconds, AccessConstants DEF IInv, TypeOK
    <2>2. QED
        BY <2>1 DEF IInv, TypeOK, HandOut, ExpiresAt
<1>2. TypeOK'
    BY <1>1 DEF IInv, TypeOK, HandOut, storeVars, historyVars
<1>3. WorkerHolds' /\ RecordsPresented' /\ NoFalseRevocation'
    BY DEF IInv, WorkerHolds, RecordsPresented, NoFalseRevocation, HandOut,
           storeVars, historyVars
<1>4. LogoutDurable' /\ LogoutIsFinal'
    BY <1>1 DEF IInv, TypeOK, WorkerHolds, LogoutDurable, LogoutIsFinal, HandOut,
                storeVars, historyVars
<1>5. QED
    BY <1>2, <1>3, <1>4 DEF IInv

\* Every step of the two flows, of maintenance and of the clock keeps IInv.
LEMMA NextIInv == IInv /\ [Next]_vars => IInv'
<1> SUFFICES ASSUME IInv, [Next]_vars PROVE IInv'
    OBVIOUS
<1> USE AccessConstants
<1>1. ASSUME NEW j \in Jtis, TokenLogin(j) \/ ShadowToken(j) PROVE IInv'
    <2>1. live' \subseteq issued'
        BY <1>1 DEF TokenLogin, ShadowToken, HandOut, IInv, TypeOK
    <2>2. QED
        BY <1>1, <2>1, IssueIInv DEF TokenLogin, ShadowToken
<1>2. ASSUME NEW old \in Jtis, NEW j \in Jtis, Refresh(old, j) PROVE IInv'
    <2>1. live' \subseteq issued'
        BY <1>2 DEF Refresh, HandOut, IInv, TypeOK
    <2>2. QED
        BY <1>2, <2>1, IssueIInv DEF Refresh
<1>3. ASSUME NEW j \in Jtis, EndSession(j) PROVE IInv'
    BY <1>3 DEF IInv, TypeOK, WorkerHolds, RecordsPresented, LogoutDurable,
                LogoutIsFinal, NoFalseRevocation, EndSession, ExpiresAt,
                storeVars, historyVars
<1>4. ASSUME NEW j \in Jtis, RedisLose(j) PROVE IInv'
    BY <1>4 DEF IInv, TypeOK, WorkerHolds, RecordsPresented, LogoutDurable,
                LogoutIsFinal, NoFalseRevocation, RedisLose, ExpiresAt,
                tokenVars, historyVars
<1>5. ASSUME NEW w \in Workers, NEW r \in Jtis, NEW j \in issued \union {NoJti},
             LogoutRevoke(w, r, j)
      PROVE IInv'
    BY <1>5 DEF IInv, TypeOK, WorkerHolds, RecordsPresented, LogoutDurable,
                LogoutIsFinal, NoFalseRevocation, LogoutRevoke, ExpiresAt, Idle,
                Locations, storeVars
<1>6. ASSUME NEW w \in Workers, LogoutDecode(w) PROVE IInv'
    <2>1. (ExpiresAt(worker[w].jti) - now) \div TicksPerSecond \in Int
        BY <1>6, WholeSeconds, ExpiryIsInt DEF IInv, TypeOK, LogoutDecode
    <2>2. TypeOK'
        <3> DEFINE rest == (ExpiresAt(worker[w].jti) - now) \div TicksPerSecond
                   next == IF rest > 0 THEN "setex" ELSE "insert"
        <3>1. worker' = [worker EXCEPT ![w].pc = next, ![w].ttl = rest]
            BY <1>6 DEF LogoutDecode
        <3>2. rest \in Int /\ next \in Locations
            BY <2>1 DEF Locations
        <3> HIDE DEF rest, next
        <3>3. worker' \in [Workers -> [pc : Locations, jti : Jtis \union {NoJti},
                                      ttl : Int, after : BOOLEAN]]
            BY <3>1, <3>2 DEF IInv, TypeOK
        <3>4. QED
            BY <1>6, <3>3 DEF IInv, TypeOK, LogoutDecode, tokenVars, storeVars, historyVars
    <2>3. WorkerHolds' /\ RecordsPresented' /\ NoFalseRevocation'
        BY <1>6 DEF IInv, TypeOK, WorkerHolds, RecordsPresented,
                    NoFalseRevocation, LogoutDecode, tokenVars, storeVars, historyVars
    <2>4. \A j \in Jtis : ExpiresAt(j) \in Int /\ ExpiresAt(j)' = ExpiresAt(j)
        BY <1>6, ExpiryIsInt, ExpiryKept DEF IInv, LogoutDecode, tokenVars, storeVars, historyVars
    <2>5. LogoutDurable' /\ LogoutIsFinal'
        BY <1>6, <2>4 DEF IInv, TypeOK, WorkerHolds, LogoutDurable,
                    LogoutIsFinal, LogoutDecode, tokenVars, storeVars, historyVars
    <2>6. QED
        BY <2>2, <2>3, <2>5 DEF IInv
<1>7. ASSUME NEW w \in Workers, LogoutSetex(w) PROVE IInv'
    BY <1>7 DEF IInv, TypeOK, WorkerHolds, RecordsPresented, LogoutDurable,
                LogoutIsFinal, NoFalseRevocation, LogoutSetex, ExpiresAt,
                Locations, tokenVars, historyVars
<1>8. ASSUME NEW w \in Workers, LogoutInsert(w) PROVE IInv'
    BY <1>8 DEF IInv, TypeOK, WorkerHolds, RecordsPresented, LogoutDurable,
                LogoutIsFinal, NoFalseRevocation, LogoutInsert, ExpiresAt,
                Finish, Idle, Locations, tokenVars
<1>9. ASSUME NEW w \in Workers, NEW j \in Jtis, VerifyDecode(w, j) PROVE IInv'
    <2>1. TypeOK'
        BY <1>9 DEF IInv, TypeOK, VerifyDecode, Locations, tokenVars, storeVars, historyVars
    <2>2. WorkerHolds' /\ RecordsPresented' /\ NoFalseRevocation'
        BY <1>9 DEF IInv, TypeOK, WorkerHolds, RecordsPresented,
                    NoFalseRevocation, VerifyDecode, tokenVars, storeVars, historyVars
    <2>3. \A i \in Jtis : ExpiresAt(i) \in Int /\ ExpiresAt(i)' = ExpiresAt(i)
        BY <1>9, ExpiryIsInt, ExpiryKept DEF IInv, VerifyDecode, tokenVars, storeVars, historyVars
    <2>4. LogoutDurable' /\ LogoutIsFinal'
        BY <1>9, <2>3 DEF IInv, TypeOK, WorkerHolds, LogoutDurable,
                    LogoutIsFinal, VerifyDecode, tokenVars, storeVars, historyVars
    <2>5. QED
        BY <2>1, <2>2, <2>4 DEF IInv
<1>10. ASSUME NEW w \in Workers, VerifyRedis(w) PROVE IInv'
    BY <1>10 DEF IInv, TypeOK, WorkerHolds, RecordsPresented, LogoutDurable,
                 LogoutIsFinal, NoFalseRevocation, VerifyRedis, InRedis, ExpiresAt,
                 Locations, tokenVars, storeVars, historyVars
<1>11. ASSUME NEW w \in Workers, VerifyTable(w) PROVE IInv'
    BY <1>11 DEF IInv, TypeOK, WorkerHolds, RecordsPresented, LogoutDurable,
                 LogoutIsFinal, NoFalseRevocation, VerifyTable, ExpiresAt,
                 Locations, tokenVars, storeVars, historyVars
<1>12. ASSUME NEW w \in Workers,
              LogoutSkip(w) \/ LogoutDuplicate(w) \/ VerifyAnswered(w) \/ Abort(w)
       PROVE IInv'
    <2>1. TypeOK'
        <3>1. Idle \in [pc : Locations, jti : Jtis \union {NoJti},
                       ttl : Int, after : BOOLEAN]
            BY DEF Idle, Locations
        <3>2. /\ worker' = [worker EXCEPT ![w] = Idle]
              /\ UNCHANGED <<now, tokenVars, storeVars, historyVars>>
            BY <1>12 DEF LogoutSkip, LogoutDuplicate, VerifyAnswered, Abort, Finish
        <3>3. QED
            BY <3>1, <3>2 DEF IInv, TypeOK, tokenVars, storeVars, historyVars
    <2>2. WorkerHolds' /\ RecordsPresented' /\ NoFalseRevocation'
        BY <1>12 DEF IInv, TypeOK, WorkerHolds, RecordsPresented,
                    NoFalseRevocation, LogoutSkip, LogoutDuplicate,
                       VerifyAnswered, Abort, Finish, Idle, tokenVars, storeVars, historyVars
    <2>3. \A i \in Jtis : ExpiresAt(i) \in Int /\ ExpiresAt(i)' = ExpiresAt(i)
        BY <1>12, ExpiryIsInt, ExpiryKept DEF IInv, LogoutSkip, LogoutDuplicate,
                       VerifyAnswered, Abort, Finish, Idle, tokenVars, storeVars, historyVars
    <2>4. LogoutDurable' /\ LogoutIsFinal'
        BY <1>12, <2>3 DEF IInv, TypeOK, WorkerHolds, LogoutDurable,
                    LogoutIsFinal, LogoutSkip, LogoutDuplicate,
                       VerifyAnswered, Abort, Finish, Idle, tokenVars, storeVars, historyVars
    <2>5. QED
        BY <2>1, <2>2, <2>4 DEF IInv
<1>13. ASSUME Cleanup PROVE IInv'
    BY <1>13 DEF IInv, TypeOK, WorkerHolds, RecordsPresented, LogoutDurable,
                 LogoutIsFinal, NoFalseRevocation, Cleanup, ExpiresAt,
                 tokenVars, historyVars
<1>14. ASSUME RedisFlip \/ Tick PROVE IInv'
    <2>1. TypeOK'
        <3>1. CASE RedisFlip
            BY <3>1 DEF IInv, TypeOK, RedisFlip, tokenVars, historyVars
        <3>2. CASE Tick
            BY <3>2 DEF IInv, TypeOK, Tick, tokenVars, storeVars, historyVars
        <3>3. QED
            BY <1>14, <3>1, <3>2
    <2>2. WorkerHolds' /\ RecordsPresented' /\ NoFalseRevocation'
        BY <1>14 DEF IInv, TypeOK, WorkerHolds, RecordsPresented,
                    NoFalseRevocation, RedisFlip, Tick, tokenVars, storeVars, historyVars
    <2>3. \A i \in Jtis : ExpiresAt(i) \in Int /\ ExpiresAt(i)' = ExpiresAt(i)
        BY <1>14, ExpiryIsInt, ExpiryKept
           DEF IInv, RedisFlip, Tick, tokenVars, storeVars, historyVars
    <2>4. LogoutDurable' /\ LogoutIsFinal'
        BY <1>14, <2>3 DEF IInv, TypeOK, WorkerHolds, LogoutDurable,
                    LogoutIsFinal, RedisFlip, Tick, tokenVars, storeVars, historyVars
    <2>5. QED
        BY <2>1, <2>2, <2>4 DEF IInv
<1>15. CASE UNCHANGED vars
    BY <1>15 DEF IInv, TypeOK, WorkerHolds, RecordsPresented, LogoutDurable,
                 LogoutIsFinal, NoFalseRevocation, ExpiresAt, vars
<1>16. QED
    BY <1>1, <1>2, <1>3, <1>4, <1>5, <1>6, <1>7, <1>8, <1>9, <1>10, <1>11,
       <1>12, <1>13, <1>14, <1>15 DEF Next, LogoutStep, VerifyStep

THEOREM InvariantHolds == Spec => []IInv
BY InitIInv, NextIInv, PTL DEF Spec

\* The stores, the coroutines and the history keep their types.
THEOREM TypeCorrect == Spec => []TypeOK
<1>1. IInv => TypeOK
    BY DEF IInv
<1>2. QED
    BY <1>1, InvariantHolds, PTL

\* A logout that was answered 204 is on record until the token expires.
THEOREM LogoutIsDurable == Spec => []LogoutDurable
<1>1. IInv => LogoutDurable
    BY DEF IInv
<1>2. QED
    BY <1>1, InvariantHolds, PTL

\* No verification that starts after the 204 accepts the token in its life.
THEOREM LogoutCannotBeUndone == Spec => []LogoutIsFinal
<1>1. IInv => LogoutIsFinal
    BY DEF IInv
<1>2. QED
    BY <1>1, InvariantHolds, PTL

\* Only tokens that came with a logout are ever refused as revoked.
THEOREM RevocationHasCause == Spec => []NoFalseRevocation
<1>1. IInv => NoFalseRevocation
    BY DEF IInv
<1>2. QED
    BY <1>1, InvariantHolds, PTL

-----------------------------------------------------------------------------
(***************************************************************************)
(* AccountAccess: claims carry what their account was allowed when they were *)
(* made, and a request has found them in its order of checks.              *)
(***************************************************************************)

\* The role and the address in the claims are those of the account, or known
\* to be old, or (after a refresh without an answer) missing.
ClaimsKnown(c) ==
    /\ claims[c].sub = Vacant => claims[c].role = "none"
    /\ claims[c].sub # Vacant =>
          \/ claims[c].role = "none" \/ "role" \in edited[c]
          \/ claims[c].role = accountOf[claims[c].sub].role
    /\ claims[c].email # Vacant =>
          \/ "email" \in edited[c]
          \/ claims[c].sub \in Users /\ claims[c].email = accountOf[claims[c].sub].email

TenantKnown(c) ==
    /\ claims[c].owner \in Users => claims[c].owner \in claims[c].homes
    /\ session[c].owner \in Users => session[c].owner \in session[c].homes

\* What a request under way has passed.
RequestSound(c) ==
    /\ client[c].at \in {"asking", "permitted", "shadow"} => claims[c].sub # Vacant
    /\ client[c].at = "shadow" => claims[c].by # Vacant
    /\ client[c].at = "asking" =>
          client[c].need = "permission" /\ (HoldsGrant(c, grants) => c \in granted)
    /\ client[c].at = "permitted" =>
          \/ HasRole(claims[c].role, client[c].need)
          \/ client[c].need = "permission" /\ c \in granted
    /\ client[c].at = "change" =>
          client[c].proven = client[c].target \/ "email" \in edited[c]

ShadowSound(c) ==
    claims[c].by # Vacant =>
        /\ claims[c].role # "superadmin"
        /\ \/ client[c].at = "shadow"
           \/ <<claims[c].by, claims[c].sub>> \in trail \/ c \in untraced

ClientSound(c) ==
    ClaimsKnown(c) /\ TenantKnown(c) /\ RequestSound(c) /\ ShadowSound(c)

AddressesDiffer ==
    \A u, v \in Users : accountOf[u].email = accountOf[v].email => u = v

AccessInv ==
    /\ AccessTypeOK
    /\ AddressesDiffer
    /\ TenantsApart
    /\ \A c \in Clients : ClientSound(c)

-----------------------------------------------------------------------------
(* Types *)

Accounts == [role : Roles, owner : Owners, active : BOOLEAN, secret : Secrets, email : Names]
Places == {"out", "login", "in", "refresh", "asking", "permitted", "change", "reset", "shadow"}
Requests == [at : Places, need : Needs, tenant : Owners, target : Owners, proven : Owners]
Held == [sub : Owners, role : Roles \union {"none"}, owner : Owners \union {Zero},
         email : Names \union {Vacant}, by : Owners, homes : SUBSET Owners]
Sessions == [of : Owners, owner : Users \union {Zero}, homes : SUBSET Owners]

AccessTyped ==
    /\ accountOf \in [Users -> Accounts]
    /\ grants \subseteq Users \X Users
    /\ client \in [Clients -> Requests]
    /\ claims \in [Clients -> Held]
    /\ session \in [Clients -> Sessions]
    /\ trail \subseteq Users \X Users
    /\ edits \in 0..MaxEdits
    /\ edited \in [Clients -> SUBSET {"role", "email"}]
    /\ granted \subseteq Clients /\ crossed \subseteq Clients /\ untraced \subseteq Clients

LEMMA TypedIsTyped ==
    /\ AccessTypeOK <=> AccessTyped
    /\ AccessTypeOK' <=> AccessTyped'
BY DEF AccessTypeOK, AccessTyped, Accounts, Places, Requests, Held, Sessions

LEMMA NothingTyped == NoClaims \in Held /\ NoSession \in Sessions /\ NoRequest \in Requests
BY DEF NoClaims, NoSession, NoRequest, Held, Sessions, Requests, Places, Needs, Owners

LEMMA InitAccess == AccessInit => AccessInv
<1> SUFFICES ASSUME AccessInit PROVE AccessInv  OBVIOUS
<1>1. [NoRequest EXCEPT !.at = "out"] \in Requests
  BY NothingTyped DEF Requests, Places
<1>2. accountOf \in [Users -> Accounts] /\ AddressesDiffer
  <2>1. PICK secret \in Secrets, email \in [Users -> Names] :
          /\ \A u, v \in Users : email[u] = email[v] => u = v
          /\ accountOf \in [Users -> [role : Roles, owner : Owners, active : {TRUE},
                                      secret : {secret}, email : Names]]
          /\ \A u \in Users : accountOf[u].email = email[u]
    BY DEF AccessInit
  <2>2. AddressesDiffer  BY <2>1 DEF AddressesDiffer
  <2>3. accountOf \in [Users -> Accounts]  BY <2>1 DEF Accounts
  <2> QED  BY <2>2, <2>3
<1>3. grants \subseteq Users \X Users  BY DEF AccessInit
<1>4. AccessTyped
  BY <1>1, <1>2, <1>3, NothingTyped, AccountConstants DEF AccessInit, AccessTyped
<1>5. \A c \in Clients : ClientSound(c)
  BY AccountConstants DEF AccessInit, ClientSound, ClaimsKnown, TenantKnown, RequestSound,
     ShadowSound, NoClaims, NoSession, NoRequest
<1>6. TenantsApart  BY DEF AccessInit, TenantsApart
<1> QED  BY <1>2, <1>4, <1>5, <1>6, TypedIsTyped DEF AccessInv

-----------------------------------------------------------------------------
(* What the steps of a client move *)

LEMMA ClientMoves ==
    ASSUME AccessTyped, NEW c \in Clients, NEW r \in Requests,
           client' = [client EXCEPT ![c] = r]
    PROVE  /\ client' \in [Clients -> Requests] /\ client'[c] = r
           /\ \A d \in Clients \ {c} : client'[d] = client[d]
BY DEF AccessTyped

LEMMA GoesMoves ==
    ASSUME AccessTyped, NEW c \in Clients, NEW where \in Places, Goes(c, where)
    PROVE  /\ client' \in [Clients -> Requests] /\ client'[c].at = where
           /\ client'[c].need = client[c].need
           /\ \A d \in Clients \ {c} : client'[d] = client[d]
<1>1. client[c] \in Requests /\ client \in [Clients -> Requests]  BY DEF AccessTyped
<1>2. client' = [client EXCEPT ![c] = [client[c] EXCEPT !.at = where]]
  BY <1>1 DEF Goes
<1>3. [client[c] EXCEPT !.at = where] \in Requests  BY <1>1 DEF Requests
<1> QED  BY <1>1, <1>2, <1>3 DEF Requests

LEMMA ReadMoves ==
    ASSUME AccessTyped, NEW c \in Clients, NEW new \in Held, Read(c, new)
    PROVE  /\ claims' \in [Clients -> Held] /\ claims'[c] = new
           /\ edited' \in [Clients -> SUBSET {"role", "email"}] /\ edited'[c] = {}
           /\ \A d \in Clients \ {c} : claims'[d] = claims[d] /\ edited'[d] = edited[d]
BY DEF AccessTyped, Read

LEMMA ClaimsTyped ==
    ASSUME AccessTyped, NEW u \in Users, NEW owner \in Owners \union {Zero},
           NEW by \in Owners, NEW homes \in SUBSET Owners
    PROVE  ClaimsOf(u, owner, by, homes) \in Held
BY DEF AccessTyped, Accounts, ClaimsOf, Held, Owners

LEMMA TenantTyped ==
    ASSUME AccessTyped, NEW u \in Users PROVE TenantOf(u) \in Owners
BY DEF AccessTyped, Accounts, TenantOf, Owners

\* Client c moves and the others do not.
Others(c) ==
    /\ \A d \in Clients \ {c} :
          /\ client'[d] = client[d] /\ claims'[d] = claims[d]
          /\ session'[d] = session[d] /\ edited'[d] = edited[d]
          /\ d \in granted => d \in granted'
    /\ \A u \in Users : /\ accountOf'[u].role = accountOf[u].role
                        /\ accountOf'[u].email = accountOf[u].email
    /\ grants' = grants /\ trail \subseteq trail' /\ untraced \subseteq untraced'

LEMMA OneMoves ==
    ASSUME AccessInv, AccessTyped', NEW c \in Clients, Others(c), ClientSound(c)',
           crossed' = {}
    PROVE  AccessInv'
<1>1. AddressesDiffer'  BY DEF AccessInv, AddressesDiffer, Others
<1>2. ASSUME NEW d \in Clients \ {c} PROVE ClientSound(d)'
  <2>1. ClientSound(d) /\ claims[d] \in Held
    BY TypedIsTyped DEF AccessInv, AccessTyped
  <2>2. claims[d].sub # Vacant => claims[d].sub \in Users
    BY <2>1 DEF Held, Owners
  <2>3. ClaimsKnown(d)'
    BY <2>1, <2>2 DEF Others, ClientSound, ClaimsKnown
  <2>4. TenantKnown(d)'  BY <2>1 DEF Others, ClientSound, TenantKnown
  <2>5. RequestSound(d)'
    BY <2>1 DEF Others, ClientSound, RequestSound, HoldsGrant
  <2>6. ShadowSound(d)'  BY <2>1 DEF Others, ClientSound, ShadowSound
  <2> QED  BY <2>3, <2>4, <2>5, <2>6 DEF ClientSound
<1> QED  BY <1>1, <1>2, TypedIsTyped DEF AccessInv, TenantsApart

-----------------------------------------------------------------------------
(* Tokens *)

LEMMA LoginReadKeeps ==
    ASSUME AccessInv, NEW c \in Clients, LoginRead(c) PROVE AccessInv'
<1>1. AccessTyped  BY TypedIsTyped DEF AccessInv
<1>2. PICK u \in Users : Read(c, ClaimsOf(u, TenantOf(u), Vacant, {TenantOf(u)}))
  BY DEF LoginRead
<1>3. TenantOf(u) \in Owners  BY <1>1, TenantTyped
<1>4. ClaimsOf(u, TenantOf(u), Vacant, {TenantOf(u)}) \in Held
  BY <1>1, <1>3, ClaimsTyped DEF Owners
<1> DEFINE new == ClaimsOf(u, TenantOf(u), Vacant, {TenantOf(u)})
<1>5. /\ new.sub = u /\ new.role = accountOf[u].role /\ new.email = accountOf[u].email
      /\ new.owner = TenantOf(u) /\ new.homes = {TenantOf(u)} /\ new.by = Vacant
  BY DEF ClaimsOf
<1> HIDE DEF new
<1>6. /\ claims' \in [Clients -> Held] /\ claims'[c] = new
      /\ edited' \in [Clients -> SUBSET {"role", "email"}]
      /\ \A d \in Clients \ {c} : claims'[d] = claims[d] /\ edited'[d] = edited[d]
  BY <1>1, <1>2, <1>4, ReadMoves DEF new
<1>7. /\ client' \in [Clients -> Requests] /\ client'[c].at = "login"
      /\ \A d \in Clients \ {c} : client'[d] = client[d]
  BY <1>1, GoesMoves DEF LoginRead, Places
<1>8. AccessTyped'  BY <1>1, <1>6, <1>7 DEF LoginRead, AccessTyped
<1>9. Others(c)  BY <1>6, <1>7 DEF LoginRead, Others
<1>10. TenantKnown(c)  BY DEF AccessInv, ClientSound
<1>11. ClientSound(c)'
  BY <1>5, <1>6, <1>7, <1>10, AccountConstants DEF LoginRead, ClientSound, ClaimsKnown, TenantKnown,
     RequestSound, ShadowSound
<1> QED  BY <1>8, <1>9, <1>11, OneMoves DEF AccessInv, TenantsApart, LoginRead

LEMMA LoginStoreKeeps ==
    ASSUME AccessInv, NEW c \in Clients, LoginStore(c) PROVE AccessInv'
<1>1. AccessTyped  BY TypedIsTyped DEF AccessInv
<1> DEFINE r == [of |-> claims[c].sub, homes |-> claims[c].homes,
                 owner |-> IF claims[c].owner = Vacant THEN Zero ELSE claims[c].owner]
<1>2. claims[c] \in Held /\ ClientSound(c)  BY <1>1 DEF AccessInv, AccessTyped
<1>3. r \in Sessions  BY <1>2 DEF Held, Sessions, Owners
<1>4. r.owner \in Users => r.owner \in r.homes
  BY <1>2, AccountConstants DEF ClientSound, TenantKnown
<1> HIDE DEF r
<1>5. session' = [session EXCEPT ![c] = r]  BY DEF LoginStore, r
<1>6. /\ session' \in [Clients -> Sessions] /\ session'[c] = r
      /\ \A d \in Clients \ {c} : session'[d] = session[d]
  BY <1>1, <1>3, <1>5 DEF AccessTyped
<1>7. /\ client' \in [Clients -> Requests] /\ client'[c].at = "in"
      /\ \A d \in Clients \ {c} : client'[d] = client[d]
  BY <1>1, GoesMoves DEF LoginStore, Places
<1>8. AccessTyped'  BY <1>1, <1>6, <1>7 DEF LoginStore, AccessTyped, accessHistory
<1>9. Others(c)  BY <1>6, <1>7 DEF LoginStore, Others, accessHistory
<1>10. client[c].at = "login"  BY DEF LoginStore
<1>11. ClientSound(c)'
  BY <1>2, <1>4, <1>6, <1>7, <1>10 DEF LoginStore, accessHistory, ClientSound, ClaimsKnown,
     TenantKnown, RequestSound, ShadowSound
<1> QED
  BY <1>8, <1>9, <1>11, OneMoves DEF AccessInv, TenantsApart, LoginStore, accessHistory

LEMMA RefreshReadKeeps ==
    ASSUME AccessInv, NEW c \in Clients, RefreshRead(c) PROVE AccessInv'
<1>1. AccessTyped  BY TypedIsTyped DEF AccessInv
<1> DEFINE s == session[c]
           full == ClaimsOf(s.of, s.owner, Vacant, s.homes)
           bare == [full EXCEPT !.role = "none", !.email = Vacant]
<1>2. s \in Sessions /\ s.of \in Users /\ TenantKnown(c)
  BY <1>1 DEF RefreshRead, AccessTyped, Sessions, Owners, AccessInv, ClientSound
<1>3. PICK new \in {full, bare} : Read(c, new)  BY DEF RefreshRead
<1>4. full \in Held
  BY <1>1, <1>2, ClaimsTyped DEF Sessions, Owners
<1>5. /\ full.sub = s.of /\ full.role = accountOf[s.of].role
      /\ full.email = accountOf[s.of].email
      /\ full.owner = s.owner /\ full.homes = s.homes /\ full.by = Vacant
  BY DEF ClaimsOf
<1> HIDE DEF full
<1>6. /\ bare \in Held /\ bare.role = "none" /\ bare.email = Vacant
      /\ bare.sub = s.of /\ bare.owner = s.owner /\ bare.homes = s.homes
      /\ bare.by = Vacant
  BY <1>4, <1>5 DEF Held
<1> HIDE DEF bare
<1>7. /\ new \in Held /\ new.sub = s.of /\ new.by = Vacant
      /\ new.owner = s.owner /\ new.homes = s.homes
      /\ new.role = "none" \/ new.role = accountOf[s.of].role
      /\ new.email = Vacant \/ new.email = accountOf[s.of].email
  BY <1>3, <1>4, <1>5, <1>6
<1>8. /\ claims' \in [Clients -> Held] /\ claims'[c] = new
      /\ edited' \in [Clients -> SUBSET {"role", "email"}]
      /\ \A d \in Clients \ {c} : claims'[d] = claims[d] /\ edited'[d] = edited[d]
  BY <1>1, <1>3, <1>7, ReadMoves
<1>9. /\ client' \in [Clients -> Requests] /\ client'[c].at = "refresh"
      /\ \A d \in Clients \ {c} : client'[d] = client[d]
  BY <1>1, GoesMoves DEF RefreshRead, Places
<1>10. UNCHANGED <<accountOf, grants, session, trail, edits, granted, crossed, untraced>>
  BY DEF RefreshRead
<1>11. AccessTyped'  BY <1>1, <1>8, <1>9, <1>10 DEF AccessTyped
<1>12. Others(c)  BY <1>8, <1>9, <1>10 DEF Others
<1>13. ClientSound(c)'
  BY <1>2, <1>7, <1>8, <1>9, <1>10, AccountConstants DEF ClientSound, ClaimsKnown, TenantKnown,
     RequestSound, ShadowSound
<1> QED  BY <1>10, <1>11, <1>12, <1>13, OneMoves DEF AccessInv, TenantsApart

LEMMA RefreshDoneKeeps ==
    ASSUME AccessInv, NEW c \in Clients, RefreshDone(c) PROVE AccessInv'
<1>1. AccessTyped /\ ClientSound(c)  BY TypedIsTyped DEF AccessInv
<1>2. /\ client' \in [Clients -> Requests] /\ client'[c].at = "in"
      /\ \A d \in Clients \ {c} : client'[d] = client[d]
  BY <1>1, GoesMoves DEF RefreshDone, Places
<1>3. client[c].at = "refresh"  BY DEF RefreshDone
<1>4. AccessTyped'  BY <1>1, <1>2 DEF RefreshDone, AccessTyped, accessHistory
<1>5. Others(c)  BY <1>2 DEF RefreshDone, Others, accessHistory
<1>6. ClientSound(c)'
  BY <1>1, <1>2, <1>3 DEF RefreshDone, accessHistory, ClientSound, ClaimsKnown,
     TenantKnown, RequestSound, ShadowSound
<1> QED  BY <1>4, <1>5, <1>6, OneMoves DEF AccessInv, TenantsApart, RefreshDone, accessHistory

LEMMA ImpersonateKeeps ==
    ASSUME AccessInv, NEW c \in Clients, Impersonate(c) PROVE AccessInv'
<1>1. AccessTyped  BY TypedIsTyped DEF AccessInv
<1>2. PICK u \in Users :
        /\ MayBeShadowed(u)
        /\ \E home \in Owners : /\ home = IF accountOf[u].owner # Vacant
                                          THEN accountOf[u].owner ELSE u
                                /\ Read(c, ClaimsOf(u, home, claims[c].sub, {home}))
  BY <1>1 DEF Impersonate, AccessTyped, Accounts, Owners
<1>3. PICK home \in Owners : Read(c, ClaimsOf(u, home, claims[c].sub, {home}))
  BY <1>2
<1> DEFINE new == ClaimsOf(u, home, claims[c].sub, {home})
<1>4. claims[c].sub \in Owners /\ claims[c].sub # Vacant /\ TenantKnown(c)
  BY <1>1 DEF Impersonate, AccessTyped, Held, AccessInv, ClientSound, ClaimsKnown
<1>5. new \in Held  BY <1>1, <1>4, ClaimsTyped DEF Owners
<1>6. /\ new.sub = u /\ new.role = accountOf[u].role /\ new.email = accountOf[u].email
      /\ new.owner = home /\ new.homes = {home} /\ new.role # "superadmin"
      /\ new.by # Vacant /\ new.sub # Vacant
  BY <1>2, <1>4, AccountConstants DEF ClaimsOf, MayBeShadowed
<1> HIDE DEF new
<1>7. /\ claims' \in [Clients -> Held] /\ claims'[c] = new
      /\ edited' \in [Clients -> SUBSET {"role", "email"}]
      /\ \A d \in Clients \ {c} : claims'[d] = claims[d] /\ edited'[d] = edited[d]
  BY <1>1, <1>3, <1>5, ReadMoves DEF new
<1>8. /\ client' \in [Clients -> Requests] /\ client'[c].at = "shadow"
      /\ \A d \in Clients \ {c} : client'[d] = client[d]
  BY <1>1, GoesMoves DEF Impersonate, Places
<1>9. UNCHANGED <<accountOf, grants, session, trail, edits, granted, crossed, untraced>>
  BY DEF Impersonate
<1>10. AccessTyped'  BY <1>1, <1>7, <1>8, <1>9 DEF AccessTyped
<1>11. Others(c)  BY <1>7, <1>8, <1>9 DEF Others
<1>12. ClientSound(c)'
  BY <1>4, <1>6, <1>7, <1>8, <1>9 DEF ClientSound, ClaimsKnown, TenantKnown,
     RequestSound, ShadowSound
<1> QED  BY <1>9, <1>10, <1>11, <1>12, OneMoves DEF AccessInv, TenantsApart

LEMMA LogShadowKeeps ==
    ASSUME AccessInv, NEW c \in Clients, LogShadow(c) PROVE AccessInv'
<1>1. AccessTyped /\ ClientSound(c)  BY TypedIsTyped DEF AccessInv
<1>2. claims[c] \in Held  BY <1>1 DEF AccessTyped
<1>3. /\ client' \in [Clients -> Requests] /\ client'[c].at = "in"
      /\ \A d \in Clients \ {c} : client'[d] = client[d]
  BY <1>1, GoesMoves DEF LogShadow, Places
<1>4. UNCHANGED <<accountOf, grants, claims, session, edits, edited, granted, crossed>>
  BY DEF LogShadow
<1>5. client[c].at = "shadow"  BY DEF LogShadow
<1>6. <<claims[c].by, claims[c].sub>> \in Users \X Users
  BY <1>1, <1>2, <1>5 DEF ClientSound, RequestSound, Held, Owners
<1>7. /\ trail \subseteq trail' /\ trail' \subseteq Users \X Users
      /\ untraced \subseteq untraced' /\ untraced' \subseteq Clients
      /\ <<claims[c].by, claims[c].sub>> \in trail' \/ c \in untraced'
  BY <1>1, <1>6 DEF LogShadow, AccessTyped
<1>8. AccessTyped'  BY <1>1, <1>3, <1>4, <1>7 DEF AccessTyped
<1>9. Others(c)  BY <1>3, <1>4, <1>7 DEF Others
<1>10. ClientSound(c)'
  BY <1>1, <1>3, <1>4, <1>5, <1>7 DEF ClientSound, ClaimsKnown, TenantKnown,
     RequestSound, ShadowSound
<1> QED  BY <1>4, <1>8, <1>9, <1>10, OneMoves DEF AccessInv, TenantsApart

-----------------------------------------------------------------------------
(* Requests *)

\* What a need stands for in terms of roles.
LEMMA RoleSuffices ==
    ASSUME NEW role \in Roles \union {"none"}, NEW need \in Needs, HasRole(role, need)
    PROVE  \/ need = "any"
           \/ need = "superadmin" /\ role = "superadmin"
           \/ need \in {"admin", "permission"} /\ role \in {"superadmin", "admin"}
BY DEF Roles, Needs, HasRole, Privileged, Level

\* The request of c goes on, and nothing but the histories moves with it.
LEMMA RequestMoves ==
    ASSUME AccessInv, NEW c \in Clients, NEW r \in Requests,
           client' = [client EXCEPT ![c] = r],
           UNCHANGED <<accountOf, grants, claims, session, trail, edits, edited, untraced>>,
           granted' \subseteq Clients, granted \ {c} \subseteq granted',
           crossed' = {}, RequestSound(c)',
           client[c].at # "shadow"
    PROVE  AccessInv'
<1>1. AccessTyped /\ ClientSound(c)  BY TypedIsTyped DEF AccessInv
<1>2. /\ client' \in [Clients -> Requests]
      /\ \A d \in Clients \ {c} : client'[d] = client[d]
  BY <1>1, ClientMoves
<1>3. AccessTyped'  BY <1>1, <1>2 DEF AccessTyped
<1>4. Others(c)  BY <1>2 DEF Others
<1>5. ClientSound(c)'
  BY <1>1 DEF ClientSound, ClaimsKnown, TenantKnown, ShadowSound
<1> QED  BY <1>3, <1>4, <1>5, OneMoves

LEMMA AtRest ==
    ASSUME NEW c \in Clients, client' = [client EXCEPT ![c] = NoRequest], AccessTyped
    PROVE  RequestSound(c)'
BY NothingTyped, ClientMoves DEF RequestSound, NoRequest

LEMMA AskKeeps == ASSUME AccessInv, NEW c \in Clients, Ask(c) PROVE AccessInv'
<1>1. AccessTyped  BY TypedIsTyped DEF AccessInv
<1>2. PICK need \in Needs, tenant \in Owners :
        /\ HasRole(claims[c].role, need) \/ need = "permission"
        /\ client' = [client EXCEPT ![c] =
              [NoRequest EXCEPT !.need = need, !.tenant = tenant,
                  !.at = IF HasRole(claims[c].role, need) THEN "permitted" ELSE "asking"]]
  BY DEF Ask
<1> DEFINE r == [NoRequest EXCEPT !.need = need, !.tenant = tenant,
                    !.at = IF HasRole(claims[c].role, need) THEN "permitted" ELSE "asking"]
<1>3. r \in Requests  BY NothingTyped DEF Requests, Places
<1>4. /\ r.need = need
      /\ r.at = IF HasRole(claims[c].role, need) THEN "permitted" ELSE "asking"
  BY DEF NoRequest
<1>5. client' = [client EXCEPT ![c] = r]  BY <1>2
<1> HIDE DEF r
<1>6. client'[c] = r  BY <1>1, <1>3, <1>5, ClientMoves
<1>7. /\ UNCHANGED <<accountOf, grants, claims, session, trail, edits, edited, crossed, untraced>>
      /\ claims[c].sub # Vacant /\ client[c].at = "in"
      /\ granted' = IF HoldsGrant(c, grants) THEN granted \union {c} ELSE granted \ {c}
  BY DEF Ask
<1>8. RequestSound(c)'
  BY <1>2, <1>4, <1>6, <1>7 DEF RequestSound, HoldsGrant
<1> QED
  BY <1>1, <1>3, <1>5, <1>7, <1>8, RequestMoves DEF AccessTyped, AccessInv, TenantsApart

LEMMA AskPermissionKeeps ==
    ASSUME AccessInv, NEW c \in Clients, AskPermission(c) PROVE AccessInv'
<1>1. AccessTyped /\ ClientSound(c)  BY TypedIsTyped DEF AccessInv
<1>2. UNCHANGED <<accountOf, grants, claims, session, trail, edits, edited, granted,
                  crossed, untraced>>
  BY DEF AskPermission, accessHistory
<1>3. granted \subseteq Clients /\ crossed' = {} /\ client[c].at = "asking"
  BY <1>1, <1>2 DEF AccessTyped, AccessInv, TenantsApart, AskPermission
<1>4. CASE HoldsGrant(c, grants) /\ Goes(c, "permitted")
  <2> DEFINE r == [client[c] EXCEPT !.at = "permitted"]
  <2>1. client[c] \in Requests /\ client \in [Clients -> Requests]  BY <1>1 DEF AccessTyped
  <2>2. r \in Requests /\ r.at = "permitted" /\ r.need = client[c].need
    BY <2>1 DEF Requests, Places
  <2>3. client' = [client EXCEPT ![c] = r]  BY <1>4, <2>1 DEF Goes
  <2> HIDE DEF r
  <2>4. client'[c] = r  BY <1>1, <2>2, <2>3, ClientMoves
  <2>5. RequestSound(c)'
    BY <1>1, <1>2, <1>3, <1>4, <2>2, <2>4 DEF ClientSound, RequestSound
  <2> QED  BY <1>2, <1>3, <2>2, <2>3, <2>5, RequestMoves
<1>5. CASE client' = [client EXCEPT ![c] = NoRequest]
  BY <1>1, <1>2, <1>3, <1>5, AtRest, NothingTyped, RequestMoves
<1> QED  BY <1>4, <1>5 DEF AskPermission

LEMMA ActKeeps == ASSUME AccessInv, NEW c \in Clients, Act(c) PROVE AccessInv'
<1>1. AccessTyped /\ ClientSound(c)  BY TypedIsTyped DEF AccessInv
<1>2. /\ UNCHANGED <<accountOf, grants, claims, session, trail, edits, edited, granted, untraced>>
      /\ client' = [client EXCEPT ![c] = NoRequest] /\ client[c].at = "permitted"
  BY DEF Act
<1>3. client[c].tenant \in Owners  BY <1>1 DEF AccessTyped, Requests
<1>4. MayEnter(claims[c], client[c].tenant) /\ claims[c].role # "superadmin" =>
          client[c].tenant \in claims[c].homes
  BY <1>1, <1>3 DEF MayEnter, ClientSound, TenantKnown, Owners
<1>5. crossed' = {}  BY <1>4 DEF Act, AccessInv, TenantsApart
<1>6. granted \subseteq Clients  BY <1>1 DEF AccessTyped
<1> QED  BY <1>1, <1>2, <1>5, <1>6, AtRest, NothingTyped, RequestMoves

LEMMA ProveOldKeeps == ASSUME AccessInv, NEW c \in Clients, ProveOld(c) PROVE AccessInv'
<1>1. AccessTyped /\ ClientSound(c)  BY TypedIsTyped DEF AccessInv
<1>2. /\ UNCHANGED <<accountOf, grants, claims, session, trail, edits, edited, granted,
                     crossed, untraced>>
      /\ client[c].at = "in"
  BY DEF ProveOld, accessHistory
<1>3. PICK u \in Users, secret \in Secrets :
        /\ Proves(u, claims[c].email, secret)
        /\ client' = [client EXCEPT ![c] =
              [NoRequest EXCEPT !.at = "change", !.target = claims[c].sub, !.proven = u]]
  BY DEF ProveOld
<1> DEFINE r == [NoRequest EXCEPT !.at = "change", !.target = claims[c].sub, !.proven = u]
<1>4. claims[c] \in Held /\ accountOf[u] \in Accounts  BY <1>1 DEF AccessTyped
<1>5. r \in Requests  BY <1>4, NothingTyped DEF Requests, Places, Held, Owners
<1>6. r.at = "change" /\ r.target = claims[c].sub /\ r.proven = u  BY DEF NoRequest
<1>7. client' = [client EXCEPT ![c] = r]  BY <1>3
<1> HIDE DEF r
<1>8. client'[c] = r  BY <1>1, <1>5, <1>7, ClientMoves
<1>9. claims[c].email # Vacant /\ accountOf[u].email = claims[c].email
  BY <1>3, <1>4, AccountConstants DEF Proves, Accounts
<1>10. u = claims[c].sub \/ "email" \in edited[c]
  BY <1>1, <1>9 DEF ClientSound, ClaimsKnown, AccessInv, AddressesDiffer
<1>11. RequestSound(c)'  BY <1>2, <1>6, <1>8, <1>10 DEF RequestSound
<1> QED
  BY <1>1, <1>2, <1>5, <1>7, <1>11, RequestMoves DEF AccessTyped, AccessInv, TenantsApart

LEMMA ReadTargetKeeps ==
    ASSUME AccessInv, NEW c \in Clients, ReadTarget(c) PROVE AccessInv'
<1>1. AccessTyped /\ ClientSound(c)  BY TypedIsTyped DEF AccessInv
<1>2. /\ UNCHANGED <<accountOf, grants, claims, session, trail, edits, edited, granted,
                     crossed, untraced>>
      /\ client[c].at = "in"
  BY DEF ReadTarget, accessHistory
<1>3. PICK u \in Users :
        client' = [client EXCEPT ![c] = [NoRequest EXCEPT !.at = "reset", !.target = u]]
  BY DEF ReadTarget
<1> DEFINE r == [NoRequest EXCEPT !.at = "reset", !.target = u]
<1>4. r \in Requests  BY NothingTyped DEF Requests, Places, Owners
<1>5. r.at = "reset"  BY DEF NoRequest
<1>6. client' = [client EXCEPT ![c] = r]  BY <1>3
<1> HIDE DEF r
<1>7. client'[c] = r  BY <1>1, <1>4, <1>6, ClientMoves
<1>8. RequestSound(c)'  BY <1>5, <1>7 DEF RequestSound
<1> QED
  BY <1>1, <1>2, <1>4, <1>6, <1>8, RequestMoves DEF AccessTyped, AccessInv, TenantsApart

LEMMA SetPasswordKeeps ==
    ASSUME AccessInv, NEW c \in Clients, SetPassword(c) PROVE AccessInv'
<1>1. AccessTyped /\ ClientSound(c)  BY TypedIsTyped DEF AccessInv
<1>2. /\ UNCHANGED <<grants, claims, session, trail, edits, edited, granted, crossed, untraced>>
      /\ client' = [client EXCEPT ![c] = NoRequest] /\ client[c].at # "shadow"
  BY DEF SetPassword, accessHistory
<1>3. /\ accountOf' \in [Users -> Accounts]
      /\ \A u \in Users : /\ accountOf'[u].role = accountOf[u].role
                          /\ accountOf'[u].email = accountOf[u].email
  <2>1. CASE UNCHANGED accountOf  BY <1>1, <2>1 DEF AccessTyped
  <2>2. ASSUME NEW secret \in Secrets,
               accountOf' = [accountOf EXCEPT ![client[c].target].secret = secret]
        PROVE  <1>3
    <3> DEFINE target == client[c].target
    <3>1. CASE target \in Users
      <4>1. accountOf[target] \in Accounts  BY <1>1, <3>1 DEF AccessTyped
      <4> DEFINE r == [accountOf[target] EXCEPT !.secret = secret]
      <4>2. r \in Accounts /\ r.role = accountOf[target].role
            /\ r.email = accountOf[target].email
        BY <4>1 DEF Accounts
      <4>3. accountOf' = [accountOf EXCEPT ![target] = r]  BY <1>1, <2>2, <3>1 DEF AccessTyped
      <4> HIDE DEF r, target
      <4> QED  BY <1>1, <3>1, <4>2, <4>3 DEF AccessTyped
    <3>2. CASE target \notin Users
      <4>1. accountOf' = accountOf  BY <1>1, <2>2, <3>2 DEF AccessTyped
      <4> QED  BY <1>1, <4>1 DEF AccessTyped
    <3> QED  BY <3>1, <3>2
  <2> QED  BY <2>1, <2>2 DEF SetPassword
<1>4. /\ client' \in [Clients -> Requests] /\ client'[c].at = "in"
      /\ \A d \in Clients \ {c} : client'[d] = client[d]
  BY <1>1, <1>2, NothingTyped, ClientMoves DEF NoRequest
<1>5. AccessTyped'  BY <1>1, <1>2, <1>3, <1>4 DEF AccessTyped
<1>6. Others(c)  BY <1>2, <1>3, <1>4 DEF Others
<1>7. claims[c].sub # Vacant => claims[c].sub \in Users  BY <1>1 DEF AccessTyped, Held, Owners
<1>8. ClientSound(c)'
  BY <1>1, <1>2, <1>3, <1>4, <1>7 DEF ClientSound, ClaimsKnown, TenantKnown,
     RequestSound, ShadowSound
<1> QED  BY <1>2, <1>5, <1>6, <1>8, OneMoves DEF AccessInv, TenantsApart

-----------------------------------------------------------------------------
(* What changes meanwhile *)

\* An edit changes one account, and the tokens of others are as good as before;
\* those of the account have a reason not to be.
LEMMA EditKeeps ==
    ASSUME AccessInv, NEW u \in Users, NEW field \in SUBSET {"role", "email"},
           NEW r \in Accounts, accountOf' = [accountOf EXCEPT ![u] = r],
           Edit(u, field), AddressesDiffer',
           r.role = accountOf[u].role \/ "role" \in field,
           r.email = accountOf[u].email \/ "email" \in field,
           claims' \in [Clients -> Held], session' \in [Clients -> Sessions],
           \A c \in Clients :
              /\ claims'[c].sub = claims[c].sub /\ claims'[c].role = claims[c].role
              /\ claims'[c].owner = claims[c].owner /\ claims'[c].email = claims[c].email
              /\ claims'[c].by = claims[c].by /\ claims[c].homes \subseteq claims'[c].homes
              /\ session'[c].owner = session[c].owner
              /\ session[c].homes \subseteq session'[c].homes
    PROVE  AccessInv'
<1>1. AccessTyped  BY TypedIsTyped DEF AccessInv
<1>2. /\ accountOf' \in [Users -> Accounts] /\ accountOf'[u] = r
      /\ \A v \in Users \ {u} : accountOf'[v] = accountOf[v]
  BY <1>1 DEF AccessTyped
<1>3. /\ edited' \in [Clients -> SUBSET {"role", "email"}]
      /\ \A c \in Clients : /\ edited[c] \subseteq edited'[c]
                            /\ claims[c].sub = u => field \subseteq edited'[c]
  BY <1>1 DEF AccessTyped, Edit
<1>4. edits' \in 0..MaxEdits  BY <1>1, AccountConstants DEF AccessTyped, Edit
<1>5. UNCHANGED <<grants, client, trail, granted, crossed, untraced>>  BY DEF Edit
<1>6. AccessTyped'  BY <1>1, <1>2, <1>3, <1>4, <1>5 DEF AccessTyped
<1>7. ASSUME NEW c \in Clients PROVE ClientSound(c)'
  <2>1. ClientSound(c) /\ claims[c] \in Held  BY <1>1 DEF AccessInv, AccessTyped
  <2>2. claims[c].sub # Vacant => claims[c].sub \in Users  BY <2>1 DEF Held, Owners
  <2>3. ClaimsKnown(c)'
    <3>1. CASE claims[c].sub = u  BY <1>2, <1>3, <2>1, <2>2, <3>1 DEF ClientSound, ClaimsKnown
    <3>2. CASE claims[c].sub # u  BY <1>2, <1>3, <2>1, <2>2, <3>2 DEF ClientSound, ClaimsKnown
    <3> QED  BY <3>1, <3>2
  <2>4. TenantKnown(c)'  BY <2>1 DEF ClientSound, TenantKnown
  <2>5. RequestSound(c)'
    BY <1>3, <1>5, <2>1 DEF ClientSound, RequestSound, HoldsGrant
  <2>6. ShadowSound(c)'  BY <1>5, <2>1 DEF ClientSound, ShadowSound
  <2> QED  BY <2>3, <2>4, <2>5, <2>6 DEF ClientSound
<1> QED  BY <1>5, <1>6, <1>7, TypedIsTyped DEF AccessInv, TenantsApart

LEMMA EditRoleKeeps ==
    ASSUME AccessInv, NEW u \in Users, EditRole(u) PROVE AccessInv'
<1>1. AccessTyped  BY TypedIsTyped DEF AccessInv
<1>2. PICK role \in Roles : accountOf' = [accountOf EXCEPT ![u].role = role]
  BY DEF EditRole
<1> DEFINE r == [accountOf[u] EXCEPT !.role = role]
<1>3. accountOf[u] \in Accounts  BY <1>1 DEF AccessTyped
<1>4. r \in Accounts /\ r.email = accountOf[u].email  BY <1>3 DEF Accounts
<1>5. accountOf' = [accountOf EXCEPT ![u] = r]  BY <1>1, <1>2 DEF AccessTyped
<1> HIDE DEF r
<1>6. AddressesDiffer'
  BY <1>1, <1>4, <1>5 DEF AccessTyped, AccessInv, AddressesDiffer
<1>7. Edit(u, {"role"}) /\ UNCHANGED <<claims, session>>  BY DEF EditRole
<1> QED  BY <1>1, <1>4, <1>5, <1>6, <1>7, EditKeeps DEF AccessTyped

LEMMA EditEmailKeeps ==
    ASSUME AccessInv, NEW u \in Users, EditEmail(u) PROVE AccessInv'
<1>1. AccessTyped  BY TypedIsTyped DEF AccessInv
<1>2. PICK email \in Names : /\ \A v \in Users : accountOf[v].email # email
                             /\ accountOf' = [accountOf EXCEPT ![u].email = email]
  BY DEF EditEmail
<1> DEFINE r == [accountOf[u] EXCEPT !.email = email]
<1>3. accountOf[u] \in Accounts  BY <1>1 DEF AccessTyped
<1>4. r \in Accounts /\ r.role = accountOf[u].role /\ r.email = email
  BY <1>3 DEF Accounts
<1>5. accountOf' = [accountOf EXCEPT ![u] = r]  BY <1>1, <1>2 DEF AccessTyped
<1> HIDE DEF r
<1>6. AddressesDiffer'
  BY <1>1, <1>2, <1>4, <1>5 DEF AccessTyped, AccessInv, AddressesDiffer
<1>7. Edit(u, {"email"}) /\ UNCHANGED <<claims, session>>  BY DEF EditEmail
<1> QED  BY <1>1, <1>4, <1>5, <1>6, <1>7, EditKeeps DEF AccessTyped

LEMMA MoveKeeps ==
    ASSUME AccessInv, NEW u \in Users, Move(u) PROVE AccessInv'
<1>1. AccessTyped  BY TypedIsTyped DEF AccessInv
<1>2. PICK owner \in Owners : accountOf' = [accountOf EXCEPT ![u].owner = owner]
  BY DEF Move
<1> DEFINE r == [accountOf[u] EXCEPT !.owner = owner]
<1>3. accountOf[u] \in Accounts  BY <1>1 DEF AccessTyped
<1>4. r \in Accounts /\ r.email = accountOf[u].email /\ r.role = accountOf[u].role
  BY <1>3 DEF Accounts
<1>5. accountOf' = [accountOf EXCEPT ![u] = r]  BY <1>1, <1>2 DEF AccessTyped
<1> HIDE DEF r
<1>6. AddressesDiffer'
  BY <1>1, <1>4, <1>5 DEF AccessTyped, AccessInv, AddressesDiffer
<1>7. PICK home \in Owners :
        /\ claims' = [c \in Clients |->
              IF claims[c].sub = u
              THEN [claims[c] EXCEPT !.homes = @ \union {home}] ELSE claims[c]]
        /\ session' = [c \in Clients |->
              IF session[c].of = u
              THEN [session[c] EXCEPT !.homes = @ \union {home}] ELSE session[c]]
  <2>1. accountOf' \in [Users -> Accounts]  BY <1>1, <1>4, <1>5 DEF AccessTyped
  <2>2. TenantOf(u)' \in Owners  BY <2>1 DEF TenantOf, Accounts, Owners
  <2> QED  BY <2>2 DEF Move
<1>8. ASSUME NEW c \in Clients
      PROVE  /\ claims'[c] \in Held
             /\ claims'[c].sub = claims[c].sub /\ claims'[c].role = claims[c].role
             /\ claims'[c].owner = claims[c].owner /\ claims'[c].email = claims[c].email
             /\ claims'[c].by = claims[c].by /\ claims[c].homes \subseteq claims'[c].homes
  <2>1. claims[c] \in Held  BY <1>1 DEF AccessTyped
  <2> QED  BY <1>7, <2>1 DEF Held
<1>9. ASSUME NEW c \in Clients
      PROVE  /\ session'[c] \in Sessions /\ session'[c].owner = session[c].owner
             /\ session[c].homes \subseteq session'[c].homes
  <2>1. session[c] \in Sessions  BY <1>1 DEF AccessTyped
  <2> QED  BY <1>7, <2>1 DEF Sessions
<1>10. claims' \in [Clients -> Held] /\ session' \in [Clients -> Sessions]
  BY <1>7, <1>8, <1>9
<1>11. Edit(u, {})  BY DEF Move
<1> QED  BY <1>4, <1>5, <1>6, <1>8, <1>9, <1>10, <1>11, EditKeeps

LEMMA SwitchActiveKeeps ==
    ASSUME AccessInv, NEW u \in Users, SwitchActive(u) PROVE AccessInv'
<1>1. AccessTyped  BY TypedIsTyped DEF AccessInv
<1>2. accountOf[u] \in Accounts  BY <1>1 DEF AccessTyped
<1> DEFINE r == [accountOf[u] EXCEPT !.active = ~accountOf[u].active]
<1>3. accountOf' = [accountOf EXCEPT ![u] = r]
  BY <1>1 DEF SwitchActive, AccessTyped
<1>4. r.email = accountOf[u].email /\ r.role = accountOf[u].role
  BY <1>2 DEF Accounts
<1>5. (~accountOf[u].active) \in BOOLEAN  BY Zenon
<1>6. r \in Accounts  BY <1>2, <1>5 DEF Accounts
<1> HIDE DEF r
<1>7. AddressesDiffer'
  BY <1>1, <1>3, <1>4, <1>6 DEF AccessTyped, AccessInv, AddressesDiffer
<1>8. Edit(u, {}) /\ UNCHANGED <<claims, session>>  BY DEF SwitchActive
<1> QED  BY <1>1, <1>3, <1>4, <1>6, <1>7, <1>8, EditKeeps DEF AccessTyped

\* A grant that comes is noted for every client it is about.
LEMMA ChangeGrantKeeps ==
    ASSUME AccessInv, ChangeGrant PROVE AccessInv'
<1>1. AccessTyped  BY TypedIsTyped DEF AccessInv
<1>2. /\ UNCHANGED <<accountOf, client, claims, session, trail, edited, crossed, untraced>>
      /\ grants' \subseteq Users \X Users
      /\ granted' = granted \union {c \in Clients : HoldsGrant(c, grants')}
  BY <1>1 DEF ChangeGrant, AccessTyped
<1>3. edits' \in 0..MaxEdits  BY <1>1, AccountConstants DEF AccessTyped, ChangeGrant
<1>4. AccessTyped'  BY <1>1, <1>2, <1>3 DEF AccessTyped
<1>5. ASSUME NEW c \in Clients PROVE ClientSound(c)'
  BY <1>2 DEF AccessInv, ClientSound, ClaimsKnown, TenantKnown, RequestSound, ShadowSound,
     HoldsGrant
<1> QED  BY <1>2, <1>4, <1>5, TypedIsTyped DEF AccessInv, AddressesDiffer, TenantsApart

-----------------------------------------------------------------------------
(* The theorems *)

THEOREM AccessInvariant == AccessSpec => []AccessInv
<1>1. AccessInv /\ [AccessNext]_accessVars => AccessInv'
  <2> SUFFICES ASSUME AccessInv, [AccessNext]_accessVars PROVE AccessInv'  OBVIOUS
  <2>1. CASE UNCHANGED accessVars
    BY <2>1 DEF accessVars, accessHistory, AccessInv, AccessTypeOK, AddressesDiffer,
       TenantsApart, ClientSound, ClaimsKnown, TenantKnown, RequestSound, ShadowSound,
       HoldsGrant
  <2>2. ASSUME NEW c \in Clients,
               \/ LoginRead(c) \/ LoginStore(c) \/ RefreshRead(c) \/ RefreshDone(c)
               \/ Impersonate(c) \/ LogShadow(c)
        PROVE  AccessInv'
    BY <2>2, LoginReadKeeps, LoginStoreKeeps, RefreshReadKeeps, RefreshDoneKeeps,
       ImpersonateKeeps, LogShadowKeeps
  <2>3. ASSUME NEW c \in Clients,
               \/ Ask(c) \/ AskPermission(c) \/ Act(c)
               \/ ProveOld(c) \/ ReadTarget(c) \/ SetPassword(c)
        PROVE  AccessInv'
    BY <2>3, AskKeeps, AskPermissionKeeps, ActKeeps, ProveOldKeeps, ReadTargetKeeps,
       SetPasswordKeeps
  <2>4. ASSUME NEW u \in Users, EditRole(u) \/ EditEmail(u) \/ Move(u) \/ SwitchActive(u)
        PROVE  AccessInv'
    BY <2>4, EditRoleKeeps, EditEmailKeeps, MoveKeeps, SwitchActiveKeeps
  <2>5. CASE ChangeGrant  BY <2>5, ChangeGrantKeeps
  <2> QED  BY <2>1, <2>2, <2>3, <2>4, <2>5 DEF AccessNext
<1> QED  BY <1>1, InitAccess, PTL DEF AccessSpec

\* Every variable has its type (accounts, requests and the tokens they carry).
THEOREM AccessTypeCorrect == AccessSpec => []AccessTypeOK
BY AccessInvariant, PTL DEF AccessInv

\* Whatever changes while a token lives, a request gets as far as its route by
\* a present role, by one changed since, or by a grant held during the request
\* (require_role, require_permission of common/auth.py).
THEOREM AccessIsDeserved == AccessSpec => []AccessHasCause
<1>1. AccessInv => AccessHasCause
  <2> SUFFICES ASSUME AccessInv, NEW c \in Clients, client[c].at = "permitted"
               PROVE  LET role == accountOf[claims[c].sub].role  need == client[c].need IN
                      \/ need = "any"
                      \/ "role" \in edited[c]
                      \/ need = "superadmin" /\ role = "superadmin"
                      \/ need \in {"admin", "permission"} /\ role \in {"superadmin", "admin"}
                      \/ need = "permission" /\ c \in granted
    BY DEF AccessHasCause
  <2>1. /\ claims[c].role \in Roles \union {"none"} /\ client[c].need \in Needs
        /\ ClientSound(c)
    BY TypedIsTyped DEF AccessInv, AccessTyped, Held, Requests
  <2>2. CASE client[c].need = "permission" /\ c \in granted  BY <2>2
  <2>3. CASE HasRole(claims[c].role, client[c].need)
    <3>1. \/ client[c].need = "any"
          \/ client[c].need = "superadmin" /\ claims[c].role = "superadmin"
          \/ /\ client[c].need \in {"admin", "permission"}
             /\ claims[c].role \in {"superadmin", "admin"}
      BY <2>1, <2>3, RoleSuffices
    <3> QED  BY <2>1, <3>1 DEF ClientSound, ClaimsKnown, RequestSound
  <2> QED  BY <2>1, <2>2, <2>3 DEF ClientSound, RequestSound
<1> QED  BY <1>1, AccessInvariant, PTL

\* No client but a superadmin acts in a tenant the account was never part of
\* (verify_tenant_access).
THEOREM TenantsStayApart == AccessSpec => []TenantsApart
BY AccessInvariant, PTL DEF AccessInv

\* A password is changed for the account it was proved for, unless an address
\* has changed hands since the token was made (change_password).
THEOREM ProofsAreOwn == AccessSpec => []ProofIsOwn
<1>1. AccessInv => ProofIsOwn
  BY DEF AccessInv, ClientSound, RequestSound, ProofIsOwn
<1> QED  BY <1>1, AccessInvariant, PTL

\* No shadow token is a superadmin's, and its use is in the audit trail unless
\* the entry was lost (impersonate_user).
THEOREM ShadowsAreTraced == AccessSpec => []ShadowsLeaveTrace
<1>1. AccessInv => ShadowsLeaveTrace
  BY DEF AccessInv, ClientSound, ShadowSound, ShadowsLeaveTrace
<1> QED  BY <1>1, AccessInvariant, PTL
=============================================================================
