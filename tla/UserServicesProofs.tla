------------------------- MODULE UserServicesProofs -------------------------
(***************************************************************************)
(* Theorems about the users and organizations: the erasure of accounts, the *)
(* invitation of a team, the cached views of user-bl-service, the pages of *)
(* administrators and the refresh tokens of sessions; for any number of    *)
(* rows and of requests at a time.                                         *)
(***************************************************************************)
EXTENDS AccountErasure, TeamOnboarding, StaffDirectory, OrganizationAdmin, RefreshSessions,
        TLAPS

-----------------------------------------------------------------------------
(***************************************************************************)
(* AccountErasure.  The invariant ties what an erasure has loaded, and when *)
(* the pass took a user on its list, to the rows as they are by now.       *)
(***************************************************************************)

\* A date in a row is that of the user's last wish.
WishMatches ==
    \A u \in Subjects :
        account[u].due # NotDue =>
            wish[u] # NotDue /\ account[u].due = wish[u] + GraceHours

\* Whoever is on the list of the pass deserved it when the list was read.
PassDeserved ==
    \A u \in pass.todo :
        u \in reconsidered \/ (wish[u] # NotDue /\ wish[u] + GraceHours <= hour)

\* The row is as the erasure loaded it, or erased by another one, unless it
\* was written to in between.
Unchanged(u, loaded) ==
    \/ u \in lateWrites
    \/ account[u] = loaded
    \/ account[u] = Anonymized(loaded)

LoadedIsCurrent ==
    /\ \A u \in pass.todo : Unchanged(u, pass.loaded[u])
    /\ \A r \in ErasureCalls :
          call[r].at = "commit" /\ call[r].kind = "erase" =>
              Unchanged(call[r].user, call[r].loaded)

ErasureInv ==
    /\ ErasureTypeOK
    /\ WishMatches
    /\ PassDeserved
    /\ LoadedIsCurrent
    /\ ErasureIsComplete

-----------------------------------------------------------------------------
(* What the statements do to a row *)

\* A flush writes a well-typed row.
LEMMA FlushTyped ==
    ASSUME NEW a \in Accounts, NEW b \in Accounts, NEW c \in Accounts
    PROVE  /\ FlushedAccount(a, b, c) \in Accounts
           /\ b.name = a.name => FlushedAccount(a, b, c).name = c.name
BY DEF FlushedAccount, Accounts

\* An erasure that still knows the row, or finds it erased, erases it.
LEMMA FlushErases ==
    ASSUME NEW a \in Accounts, NEW c \in Accounts,
           c = a \/ c = Anonymized(a)
    PROVE  FlushedAccount(a, Anonymized(a), c) = Anonymized(c)
BY DEF FlushedAccount, Accounts, Anonymized

\* Whatever it knows, what it leaves has no date that was not there.
LEMMA FlushKeepsNoDate ==
    ASSUME NEW a \in Accounts, NEW c \in Accounts,
           FlushedAccount(a, Anonymized(a), c).due # NotDue
    PROVE  FlushedAccount(a, Anonymized(a), c).due = c.due
BY DEF FlushedAccount, Accounts, Anonymized

\* The result of an erasure does not depend on the row it is made from.
LEMMA AnonymizedTyped ==
    ASSUME NEW a \in Accounts, NEW b \in Accounts
    PROVE  /\ Anonymized(a) \in Accounts
           /\ Anonymized(a) = Anonymized(b)
           /\ Anonymized(a).name = "deleted"
           /\ Anonymized(a).due = NotDue
BY DEF Accounts, Anonymized, DueTimes

LEMMA NewAccountTyped == NewAccount \in Accounts
BY DEF NewAccount, Accounts, DueTimes

LEMMA RestIsTyped == NoCall \in Calls /\ NoPass \in [todo : SUBSET Subjects,
                                                  loaded : [Subjects -> Accounts]]
<1>1. (CHOOSE u \in Subjects : TRUE) \in Subjects
    <2>1. \E u \in Subjects : TRUE
        BY ErasureConstants
    <2>2. QED
        BY <2>1
<1>2. NoCall \in Calls
    BY <1>1, NewAccountTyped DEF NoCall, Calls, CallKinds
<1>3. QED
    BY <1>2, NewAccountTyped DEF NoPass

LEMMA InitErasure == ErasureInit => ErasureInv
<1> SUFFICES ASSUME ErasureInit PROVE ErasureInv
    OBVIOUS
<1>1. ErasureTypeOK
    BY ErasureConstants, NewAccountTyped, RestIsTyped
       DEF ErasureInit, ErasureTypeOK, DueTimes
<1>2. WishMatches /\ PassDeserved /\ LoadedIsCurrent /\ ErasureIsComplete
    BY DEF ErasureInit, WishMatches, PassDeserved, LoadedIsCurrent,
           ErasureIsComplete, NoCall, NoPass, NewAccount
<1>3. QED
    BY <1>1, <1>2 DEF ErasureInv

-----------------------------------------------------------------------------
(* The two ways an account changes: an erasure, and anything else *)

\* An erasure whose object is current enough keeps all rows as they should be.
LEMMA ErasureStep ==
    ASSUME ErasureInv, NEW u \in Subjects, NEW l \in Accounts,
           Unchanged(u, l), EraseWith(u, l), UNCHANGED <<wish, lateWrites>>
    PROVE  /\ account' \in [Subjects -> Accounts]
           /\ named' \subseteq Subjects
           /\ WishMatches'
           /\ ErasureIsComplete'
           /\ \A v \in Subjects, m \in Accounts :
                 Unchanged(v, m) => Unchanged(v, m)'
<1> DEFINE new == FlushedAccount(l, Anonymized(l), account[u])
<1>1. /\ account \in [Subjects -> Accounts]
      /\ account' = [account EXCEPT ![u] = new]
      /\ named' = named \ {u} /\ named \subseteq Subjects
    BY DEF ErasureInv, ErasureTypeOK, EraseWith
<1>2. account[u] \in Accounts /\ Anonymized(l) \in Accounts
    BY <1>1, AnonymizedTyped
<1>3. new \in Accounts
    BY <1>2, FlushTyped
<1>4. account'[u] = new /\ \A v \in Subjects : v # u => account'[v] = account[v]
    BY <1>1
<1>5. u \notin lateWrites => new = Anonymized(account[u])
    BY <1>2, FlushErases DEF Unchanged
<1>6. account' \in [Subjects -> Accounts]
    BY <1>1, <1>3
<1>7. WishMatches'
    <2>1. new.due # NotDue => new.due = account[u].due
        BY <1>2, FlushKeepsNoDate
    <2>2. QED
        BY <1>4, <2>1 DEF ErasureInv, WishMatches
<1>8. ErasureIsComplete'
    <2>1. u \notin lateWrites => account'[u] = Anonymized(account'[u])
        BY <1>2, <1>3, <1>4, <1>5, AnonymizedTyped
    <2>2. QED
        BY <1>1, <1>4, <2>1 DEF ErasureInv, ErasureIsComplete
<1>9. ASSUME NEW v \in Subjects, NEW m \in Accounts, Unchanged(v, m)
      PROVE  Unchanged(v, m)'
    <2>1. CASE v = u
        <3>1. u \notin lateWrites => account'[u] = Anonymized(m)
            BY <1>2, <1>4, <1>5, AnonymizedTyped
        <3>2. QED
            BY <2>1, <3>1 DEF Unchanged
    <2>2. CASE v # u
        BY <1>4, <1>9, <2>2 DEF Unchanged
    <2>3. QED
        BY <2>1, <2>2
<1>10. QED
    BY <1>1, <1>6, <1>7, <1>8, <1>9

\* Any other write marks the user, if an erasure is done or under way.
LEMMA OtherStep ==
    ASSUME ErasureInv, NEW u \in Subjects, TouchAccount(u),
           \A v \in Subjects : v # u => account'[v] = account[v],
           account'[u].name = account[u].name,
           named' \subseteq named \union {u},
           UNCHANGED pass,
           \A r \in ErasureCalls : call'[r] = call[r] \/ call'[r].at # "commit"
    PROVE  /\ lateWrites' \subseteq Subjects
           /\ LoadedIsCurrent'
           /\ ErasureIsComplete'
<1>1. /\ lateWrites' \subseteq Subjects
      /\ lateWrites \subseteq lateWrites'
      /\ account[u].name = "deleted" \/ BeingErased(u) => u \in lateWrites'
    BY DEF TouchAccount, ErasureInv, ErasureTypeOK
<1>2. ErasureIsComplete'
    BY <1>1 DEF ErasureInv, ErasureIsComplete, Anonymized
<1>3. ASSUME NEW v \in Subjects, NEW m, Unchanged(v, m), v = u => BeingErased(u)
      PROVE  Unchanged(v, m)'
    <2>1. CASE v = u
        BY <1>1, <1>3, <2>1 DEF Unchanged
    <2>2. CASE v # u
        BY <1>1, <1>3, <2>2 DEF Unchanged
    <2>3. QED
        BY <2>1, <2>2
<1>4. ASSUME NEW v \in pass.todo
      PROVE  Unchanged(v, pass.loaded[v])'
    BY <1>3, <1>4 DEF ErasureInv, ErasureTypeOK, LoadedIsCurrent, BeingErased
<1>5. ASSUME NEW r \in ErasureCalls, call'[r].at = "commit", call'[r].kind = "erase"
      PROVE  Unchanged(call[r].user, call[r].loaded)' /\ call'[r] = call[r]
    <2>1. call'[r] = call[r]
        BY <1>5
    <2>2. call[r].user \in Subjects /\ Unchanged(call[r].user, call[r].loaded)
        BY <1>5, <2>1 DEF ErasureInv, ErasureTypeOK, Calls, LoadedIsCurrent
    <2>3. BeingErased(call[r].user)
        BY <1>5, <2>1 DEF BeingErased
    <2>4. QED
        BY <1>3, <2>1, <2>2, <2>3
<1>6. LoadedIsCurrent'
    BY <1>4, <1>5 DEF LoadedIsCurrent
<1>7. QED
    BY <1>1, <1>2, <1>6

-----------------------------------------------------------------------------
(* The steps *)

\* Moving a request on, or ending it, keeps requests well typed.
LEMMA CallMoves ==
    ASSUME call \in [ErasureCalls -> Calls], NEW r \in ErasureCalls,
           CallDone(r) \/ CallRecorded(r)
    PROVE  /\ call' \in [ErasureCalls -> Calls]
           /\ \A q \in ErasureCalls : call'[q] = call[q] \/ call'[q].at # "commit"
<1>1. call[r] \in Calls
    OBVIOUS
<1>2. [call[r] EXCEPT !.at = "log", !.loaded = NewAccount] \in Calls
    BY <1>1, NewAccountTyped DEF Calls
<1>3. [call[r] EXCEPT !.at = "log", !.loaded = NewAccount].at = "log"
    BY <1>1 DEF Calls
<1>4. NoCall \in Calls /\ NoCall.at = "idle"
    BY RestIsTyped DEF NoCall
<1>5. PICK m \in Calls : call' = [call EXCEPT ![r] = m] /\ m.at # "commit"
    BY <1>2, <1>3, <1>4 DEF CallDone, CallRecorded
<1>6. QED
    BY <1>5

\* A request to schedule, cancel, edit or (de)activate.
LEMMA RequestStep ==
    ASSUME ErasureInv, NEW r \in ErasureCalls,
           \/ ScheduleAnonymization(r) \/ CancelAnonymization(r)
           \/ EditUser(r) \/ SetActive(r) \/ LogOwnAction(r)
    PROVE  ErasureInv'
<1> DEFINE u == call[r].user
<1>1. /\ u \in Subjects /\ call[r].loaded \in Accounts
      /\ account \in [Subjects -> Accounts] /\ account[u] \in Accounts
      /\ hour \in Nat /\ hour <= LastHour /\ wish \in [Subjects -> DueTimes]
      /\ call \in [ErasureCalls -> Calls]
    BY ErasureConstants DEF ErasureInv, ErasureTypeOK, Calls
<1>2. /\ hour + GraceHours \in DueTimes /\ hour \in DueTimes /\ NotDue \in DueTimes
      /\ hour + GraceHours # NotDue /\ hour # NotDue
    BY <1>1, ErasureConstants DEF DueTimes
<1>3. /\ CallDone(r) \/ CallRecorded(r)
      /\ TouchAccount(u)
      /\ named' \subseteq named \union {u}
      /\ UNCHANGED <<pass, hour>>
      /\ reconsidered' \subseteq reconsidered \union {u}
      /\ reconsidered \subseteq reconsidered'
    BY DEF ScheduleAnonymization, CancelAnonymization, EditUser, SetActive,
           LogOwnAction
<1>4. PICK entry \in Accounts :
          account' = [account EXCEPT ![u] = entry] /\ entry.name = account[u].name
    <2>1. CASE ScheduleAnonymization(r)
        <3>1. [account[u] EXCEPT !.due = hour + GraceHours] \in Accounts
            BY <1>1, <1>2 DEF Accounts
        <3>2. QED
            BY <1>1, <2>1, <3>1 DEF ScheduleAnonymization, Accounts
    <2>2. CASE CancelAnonymization(r)
        <3> DEFINE new == [call[r].loaded EXCEPT !.due = NotDue]
        <3>1. new \in Accounts /\ new.name = call[r].loaded.name
            BY <1>1, <1>2 DEF Accounts
        <3> DEFINE put == FlushedAccount(call[r].loaded, new, account[u])
        <3>2. account' = [account EXCEPT ![u] = put]
            BY <2>2 DEF CancelAnonymization
        <3> HIDE DEF new
        <3>3. put \in Accounts /\ put.name = account[u].name
            BY <1>1, <3>1, FlushTyped
        <3> HIDE DEF put
        <3>4. QED
            BY <3>2, <3>3
    <2>3. CASE EditUser(r)
        <3>1. [account[u] EXCEPT !.phone = "real"] \in Accounts
            BY <1>1 DEF Accounts
        <3>2. QED
            BY <1>1, <2>3, <3>1 DEF EditUser, Accounts
    <2>4. CASE SetActive(r)
        <3> DEFINE new == [call[r].loaded EXCEPT !.active = (call[r].kind = "reactivate")]
        <3>1. new \in Accounts /\ new.name = call[r].loaded.name
            BY <1>1, <1>2 DEF Accounts
        <3> DEFINE put == FlushedAccount(call[r].loaded, new, account[u])
        <3>2. account' = [account EXCEPT ![u] = put]
            BY <2>4 DEF SetActive
        <3> HIDE DEF new
        <3>3. put \in Accounts /\ put.name = account[u].name
            BY <1>1, <3>1, FlushTyped
        <3> HIDE DEF put
        <3>4. QED
            BY <3>2, <3>3
    <2>5. CASE LogOwnAction(r)
        BY <1>1, <2>5 DEF LogOwnAction
    <2>6. QED
        BY <2>1, <2>2, <2>3, <2>4, <2>5
<1>5. account'[u] = entry /\ \A v \in Subjects : v # u => account'[v] = account[v]
    BY <1>1, <1>4
<1>6. \/ wish' = wish /\ account'[u].due = account[u].due
      \/ wish' = wish /\ account'[u].due = NotDue
      \/ wish' = [wish EXCEPT ![u] = hour] /\ account'[u].due = hour + GraceHours
      \/ wish' = [wish EXCEPT ![u] = NotDue] /\ account'[u].due = NotDue
    BY <1>1, <1>5
       DEF ScheduleAnonymization, CancelAnonymization, EditUser, SetActive,
           LogOwnAction, FlushedAccount, Accounts
<1>7. u \in pass.todo /\ wish' # wish => u \in reconsidered'
    BY DEF ScheduleAnonymization, CancelAnonymization, EditUser, SetActive,
           LogOwnAction
<1>8. LoadedIsCurrent' /\ ErasureIsComplete' /\ lateWrites' \subseteq Subjects
    BY <1>1, <1>3, <1>4, <1>5, CallMoves, OtherStep
<1>9. WishMatches'
    BY <1>1, <1>2, <1>5, <1>6 DEF ErasureInv, WishMatches
<1>10. PassDeserved'
    BY <1>1, <1>3, <1>6, <1>7 DEF ErasureInv, ErasureTypeOK, PassDeserved
<1>11. ErasureTypeOK'
    <2>1. account' \in [Subjects -> Accounts] /\ wish' \in [Subjects -> DueTimes]
        BY <1>1, <1>2, <1>4, <1>6
    <2>2. call' \in [ErasureCalls -> Calls]
        BY <1>1, <1>3, CallMoves
    <2>3. QED
        BY <1>1, <1>3, <1>8, <2>1, <2>2 DEF ErasureInv, ErasureTypeOK
<1>12. QED
    BY <1>8, <1>9, <1>10, <1>11 DEF ErasureInv

\* The load of a request sees the row as it is.
LEMMA LoadStep ==
    ASSUME ErasureInv, NEW r \in ErasureCalls, NEW k \in CallKinds,
           NEW u \in Subjects, LoadAccount(r, k, u)
    PROVE  ErasureInv'
<1> DEFINE l == IF k \in BlindKinds THEN NewAccount ELSE account[u]
           c == [at |-> "commit", kind |-> k, user |-> u, loaded |-> l]
<1>1. c \in Calls /\ call \in [ErasureCalls -> Calls]
    BY NewAccountTyped DEF ErasureInv, ErasureTypeOK, Calls
<1>2. call' = [call EXCEPT ![r] = c]
    BY DEF LoadAccount
<1>3. call'[r] = c /\ \A q \in ErasureCalls : q # r => call'[q] = call[q]
    BY <1>1, <1>2
<1>4. k = "erase" => c.loaded = account[u]
    BY DEF BlindKinds
<1>5. UNCHANGED <<account, named, pass, hour, wish, reconsidered, lateWrites>>
    BY DEF LoadAccount
<1>6. ErasureTypeOK'
    BY <1>1, <1>2, <1>5 DEF ErasureInv, ErasureTypeOK
<1>7. LoadedIsCurrent'
    <2>1. ASSUME NEW q \in ErasureCalls, call'[q].at = "commit",
                 call'[q].kind = "erase"
          PROVE  Unchanged(call'[q].user, call'[q].loaded)
        BY <1>3, <1>4, <2>1 DEF ErasureInv, LoadedIsCurrent, Unchanged
    <2>2. QED
        BY <1>5, <2>1 DEF ErasureInv, LoadedIsCurrent, Unchanged
<1>8. QED
    BY <1>5, <1>6, <1>7
       DEF ErasureInv, WishMatches, PassDeserved, ErasureIsComplete

\* The immediate erasure, and the end of a request by a failure.
LEMMA EraseNowStep ==
    ASSUME ErasureInv, NEW r \in ErasureCalls, EraseNow(r)
    PROVE  ErasureInv'
<1>1. /\ call \in [ErasureCalls -> Calls] /\ call[r] \in Calls
      /\ call[r].user \in Subjects /\ call[r].loaded \in Accounts
    BY DEF ErasureInv, ErasureTypeOK, Calls
<1>2. Unchanged(call[r].user, call[r].loaded)
    BY DEF ErasureInv, LoadedIsCurrent, EraseNow
<1>3. EraseWith(call[r].user, call[r].loaded) /\ CallRecorded(r)
      /\ UNCHANGED <<pass, hour, wish, reconsidered, lateWrites>>
    BY DEF EraseNow
<1>4. /\ account' \in [Subjects -> Accounts] /\ named' \subseteq Subjects
      /\ WishMatches' /\ ErasureIsComplete'
      /\ \A v \in Subjects, m \in Accounts : Unchanged(v, m) => Unchanged(v, m)'
    BY <1>1, <1>2, <1>3, ErasureStep
<1>5. /\ call' \in [ErasureCalls -> Calls]
      /\ \A q \in ErasureCalls : call'[q] = call[q] \/ call'[q].at # "commit"
    BY <1>1, <1>3, CallMoves
<1>6. LoadedIsCurrent'
    BY <1>3, <1>4, <1>5
       DEF ErasureInv, ErasureTypeOK, LoadedIsCurrent, Calls
<1>7. QED
    BY <1>3, <1>4, <1>5, <1>6 DEF ErasureInv, ErasureTypeOK, PassDeserved

LEMMA FailureStep ==
    ASSUME ErasureInv, NEW r \in ErasureCalls, CallFails(r)
    PROVE  ErasureInv'
<1>1. call \in [ErasureCalls -> Calls] /\ CallDone(r)
      /\ UNCHANGED <<account, named, pass, hour, wish, reconsidered, lateWrites>>
    BY DEF ErasureInv, ErasureTypeOK, CallFails
<1>2. /\ call' \in [ErasureCalls -> Calls]
      /\ \A q \in ErasureCalls : call'[q] = call[q] \/ call'[q].at # "commit"
    BY <1>1, CallMoves
<1>3. QED
    BY <1>1, <1>2 DEF ErasureInv, ErasureTypeOK, WishMatches, PassDeserved,
                      LoadedIsCurrent, ErasureIsComplete, Unchanged

\* The pass reads its list, works it off, or dies.
LEMMA PassStep ==
    ASSUME ErasureInv, BeginPass \/ DropPass \/ HourPasses
    PROVE  ErasureInv'
<1>1. CASE BeginPass
    <2>1. pass' \in [todo : SUBSET Subjects, loaded : [Subjects -> Accounts]]
        BY <1>1 DEF ErasureInv, ErasureTypeOK, BeginPass
    <2>2. PassDeserved'
        BY <1>1 DEF BeginPass, Due, ErasureInv, WishMatches, PassDeserved
    <2>3. QED
        BY <1>1, <2>1, <2>2
           DEF BeginPass, ErasureInv, ErasureTypeOK, WishMatches, LoadedIsCurrent,
               ErasureIsComplete, Unchanged
<1>2. CASE DropPass
    BY <1>2, RestIsTyped
       DEF DropPass, NoPass, ErasureInv, ErasureTypeOK, WishMatches, PassDeserved,
           LoadedIsCurrent, ErasureIsComplete, Unchanged
<1>3. CASE HourPasses
    <2>1. hour' \in 0..LastHour /\ hour <= hour'
        BY <1>3, ErasureConstants DEF HourPasses, ErasureInv, ErasureTypeOK
    <2>2. \A u \in Subjects : wish[u] # NotDue => wish[u] \in Int
        BY ErasureConstants DEF ErasureInv, ErasureTypeOK, DueTimes
    <2>3. PassDeserved'
        BY <1>3, <2>1, <2>2, ErasureConstants
           DEF HourPasses, ErasureInv, ErasureTypeOK, PassDeserved
    <2>4. QED
        BY <1>3, <2>1, <2>3
           DEF HourPasses, ErasureInv, ErasureTypeOK, WishMatches, LoadedIsCurrent,
               ErasureIsComplete, Unchanged
<1>4. QED
    BY <1>1, <1>2, <1>3

LEMMA EraseDueStep ==
    ASSUME ErasureInv, NEW u \in Subjects, EraseDue(u)
    PROVE  ErasureInv'
<1>1. /\ u \in pass.todo /\ pass.loaded[u] \in Accounts
      /\ pass \in [todo : SUBSET Subjects, loaded : [Subjects -> Accounts]]
      /\ EraseWith(u, pass.loaded[u])
      /\ UNCHANGED <<call, hour, wish, lateWrites>>
      /\ reconsidered' = reconsidered \ {u}
    BY DEF ErasureInv, ErasureTypeOK, EraseDue
<1>2. /\ account' \in [Subjects -> Accounts] /\ named' \subseteq Subjects
      /\ WishMatches' /\ ErasureIsComplete'
      /\ \A v \in Subjects, m \in Accounts : Unchanged(v, m) => Unchanged(v, m)'
    BY <1>1, ErasureStep DEF ErasureInv, LoadedIsCurrent
<1>3. /\ pass'.todo = pass.todo \ {u}
      /\ \A v \in Subjects : v # u => pass'.loaded[v] = pass.loaded[v]
      /\ pass' \in [todo : SUBSET Subjects, loaded : [Subjects -> Accounts]]
    BY <1>1, NewAccountTyped DEF EraseDue
<1>4. LoadedIsCurrent'
    BY <1>1, <1>2, <1>3 DEF ErasureInv, ErasureTypeOK, LoadedIsCurrent, Calls
<1>5. PassDeserved'
    BY <1>1, <1>3 DEF ErasureInv, PassDeserved
<1>6. QED
    BY <1>1, <1>2, <1>3, <1>4, <1>5 DEF ErasureInv, ErasureTypeOK

LEMMA NextErasure == ErasureInv /\ [ErasureNext]_erasureVars => ErasureInv'
<1> SUFFICES ASSUME ErasureInv, [ErasureNext]_erasureVars PROVE ErasureInv'
    OBVIOUS
<1>1. CASE UNCHANGED erasureVars
    BY <1>1 DEF erasureVars, ErasureInv, ErasureTypeOK, WishMatches, PassDeserved,
                LoadedIsCurrent, ErasureIsComplete, Unchanged
<1>2. CASE ErasureNext
    BY <1>2, LoadStep, RequestStep, EraseNowStep, FailureStep, PassStep,
       EraseDueStep DEF ErasureNext
<1>3. QED
    BY <1>1, <1>2

-----------------------------------------------------------------------------
(* The theorems *)

\* Every reachable state of AccountErasure satisfies the invariant.
THEOREM ErasureInvariant == ErasureSpec => []ErasureInv
BY InitErasure, NextErasure, PTL DEF ErasureSpec

\* Rows, requests and the list of the pass keep their types.
THEOREM ErasureTypeCorrect == ErasureSpec => []ErasureTypeOK
<1>1. ErasureInv => ErasureTypeOK
    BY DEF ErasureInv
<1>2. QED
    BY <1>1, ErasureInvariant, PTL

\* An erased account holds no personal data, and the audit log no address of
\* its owner, unless somebody wrote there after an erasure had read the row.
THEOREM ErasedMeansErased == ErasureSpec => []ErasureIsComplete
<1>1. ErasureInv => ErasureIsComplete
    BY DEF ErasureInv
<1>2. QED
    BY <1>1, ErasureInvariant, PTL

\* The pass erases only those whose time of grace is over and who have not
\* changed their mind before it read its list.
THEOREM GraceHolds == ErasureSpec => GraceIsServed
<1>1. ErasureInv /\ [ErasureNext]_erasureVars =>
          [\A u \in Subjects :
              u \in pass.todo /\ EraseDue(u) =>
                  \/ u \in reconsidered
                  \/ wish[u] # NotDue /\ wish[u] + GraceHours <= hour]_erasureVars
    BY DEF ErasureInv, PassDeserved
<1>2. QED
    BY <1>1, ErasureInvariant, PTL DEF ErasureSpec, GraceIsServed

-----------------------------------------------------------------------------
(***************************************************************************)
(* TeamOnboarding.  The invariant says of each invitation how far it has   *)
(* come, and what it has left in the tables.                               *)
(***************************************************************************)

Seeded(e) == e \in unseeded \/ \A p \in Permissions : permission[e][p] # "none"

\* What holds of a request where it is: only invitations and POST /users seed;
\* no account goes away under it, nor a row that its seeding has seen; and an
\* invitation gets to the employee row after the seeding only.
CallSound(c) ==
    /\ step[c].at \in {"insertUser", "seedSelect", "seedInsert"} =>
          step[c].kind \in {"invite", "create"}
    /\ step[c].at = "setCommit" => step[c].kind = "permit"
    /\ step[c].at \notin {"idle", "insertUser"} => step[c].email \in hasUser
    /\ step[c].at = "seedInsert" =>
          \A p \in Permissions :
              step[c].seen[p] # "none" => permission[step[c].email][p] # "none"
    /\ step[c].kind = "invite" /\ step[c].at \in {"lookEmployee", "insertEmployee"} =>
          Seeded(step[c].email)

CallsSound == \A c \in TeamCalls : CallSound(c)

TeamInv ==
    /\ TeamTypeOK
    /\ CallsSound
    /\ InvitationsHold /\ AccountAloneHasCause /\ ChoiceStays

-----------------------------------------------------------------------------
Invitations == [at : TeamSteps, kind : TeamKinds, email : Emails, seen : Grants, wants : Grants]

LEMMA WaitingTyped == Waiting \in Invitations /\ NoCopyOf \in Grants
<1>1. (CHOOSE e \in Emails : TRUE) \in Emails  BY TeamConstants
<1>2. NoCopyOf \in Grants  BY DEF NoCopyOf, Grants
<1> QED  BY <1>1, <1>2 DEF Waiting, Invitations, TeamSteps, TeamKinds

LEMMA InitTeam == TeamInit => TeamInv
<1> SUFFICES ASSUME TeamInit PROVE TeamInv  OBVIOUS
<1>1. \A c \in TeamCalls : step[c] = Waiting /\ step[c].at = "idle"
  BY DEF TeamInit, Waiting
<1>2. TeamTypeOK  BY WaitingTyped DEF TeamInit, TeamTypeOK, Invitations
<1>3. CallsSound  BY <1>1 DEF CallsSound, CallSound
<1>4. InvitationsHold /\ AccountAloneHasCause
  BY DEF TeamInit, InvitationsHold, AccountAloneHasCause
<1>5. ChoiceStays  BY DEF TeamInit, ChoiceStays, NoCopyOf
<1> QED  BY <1>2, <1>3, <1>4, <1>5 DEF TeamInv

\* Only the request that moves is another one afterwards.
LEMMA OneMoves ==
    ASSUME TeamTypeOK, NEW c \in TeamCalls, NEW r \in Invitations,
           step' = [step EXCEPT ![c] = r]
    PROVE  /\ step' \in [TeamCalls -> Invitations]
           /\ step'[c] = r
           /\ \A d \in TeamCalls \ {c} : step'[d] = step[d]
BY DEF TeamTypeOK, Invitations

LEMMA EndMoves ==
    ASSUME TeamTypeOK, NEW c \in TeamCalls, EndOf(c)
    PROVE  /\ step' \in [TeamCalls -> Invitations]
           /\ step'[c].at = "idle"
           /\ \A d \in TeamCalls \ {c} : step'[d] = step[d]
BY WaitingTyped, OneMoves DEF EndOf, Waiting

LEMMA GoMoves ==
    ASSUME TeamTypeOK, NEW c \in TeamCalls, NEW where \in TeamSteps, GoTo(c, where)
    PROVE  /\ step' \in [TeamCalls -> Invitations]
           /\ step'[c].at = where /\ step'[c].kind = step[c].kind
           /\ step'[c].email = step[c].email /\ step'[c].seen = step[c].seen
           /\ \A d \in TeamCalls \ {c} : step'[d] = step[d]
<1>1. step[c] \in Invitations  BY DEF TeamTypeOK, Invitations
<1>2. step \in [TeamCalls -> Invitations]  BY DEF TeamTypeOK, Invitations
<1>3. step' = [step EXCEPT ![c] = [step[c] EXCEPT !.at = where]]
  BY <1>1, <1>2 DEF GoTo
<1>4. [step[c] EXCEPT !.at = where] \in Invitations  BY <1>1 DEF Invitations
<1> QED  BY <1>1, <1>2, <1>3, <1>4 DEF Invitations

\* After the seeding: on to the employee row, or the end.
LEMMA AfterSeedMoves ==
    ASSUME TeamTypeOK, NEW c \in TeamCalls, AfterSeed(c)
    PROVE  /\ step' \in [TeamCalls -> Invitations]
           /\ \A d \in TeamCalls \ {c} : step'[d] = step[d]
           /\ IF step[c].kind = "invite"
              THEN step'[c].at = "lookEmployee" /\ step'[c].kind = "invite"
                   /\ step'[c].email = step[c].email
              ELSE step'[c].at = "idle"
<1>1. CASE step[c].kind = "invite"
  BY <1>1, GoMoves DEF AfterSeed, TeamSteps
<1>2. CASE step[c].kind # "invite"
  BY <1>2, EndMoves DEF AfterSeed
<1> QED  BY <1>1, <1>2

-----------------------------------------------------------------------------
(* What a step leaves as it was *)

\* Accounts, failures of seedings and rows of permissions only come.
TablesGrow ==
    /\ hasUser \subseteq hasUser'
    /\ unseeded \subseteq unseeded'
    /\ \A e \in Emails, p \in Permissions :
          permission[e][p] # "none" => permission'[e][p] # "none"

Others(c) == \A d \in TeamCalls \ {c} : step'[d] = step[d]

LEMMA SoundStays ==
    ASSUME TeamInv, TeamTypeOK', NEW c \in TeamCalls,
           Others(c), TablesGrow, CallSound(c)'
    PROVE  CallsSound'
<1> SUFFICES ASSUME NEW d \in TeamCalls, d # c PROVE CallSound(d)'
  BY DEF CallsSound
<1>1. step'[d] = step[d] /\ step[d].email \in Emails
  BY DEF Others, TeamInv, TeamTypeOK
<1>2. CallSound(d)  BY DEF TeamInv, CallsSound
<1>3. Seeded(step[d].email) => Seeded(step[d].email)'
  BY <1>1 DEF Seeded, TablesGrow
<1> QED  BY <1>1, <1>2, <1>3 DEF CallSound, TablesGrow

LEMMA InvitedStays ==
    ASSUME TeamInv, TablesGrow, hasEmployee \subseteq hasEmployee',
           UNCHANGED invited
    PROVE  InvitationsHold'
BY DEF TeamInv, TeamTypeOK, InvitationsHold, TablesGrow

\* Request c may stop to be the cause of a lonely account when it has a better one.
LEMMA AloneStays ==
    ASSUME TeamInv, NEW c \in TeamCalls, Others(c), UNCHANGED hasUser,
           hasEmployee \subseteq hasEmployee', accountOnly \subseteq accountOnly',
           \/ step[c].kind # "invite"
           \/ step[c].at \in {"idle", "insertUser"}
           \/ step[c].email \in accountOnly' \union hasEmployee'
           \/ /\ step'[c].at \notin {"idle", "insertUser"}
              /\ step'[c].kind = "invite" /\ step'[c].email = step[c].email
    PROVE  AccountAloneHasCause'
BY DEF TeamInv, AccountAloneHasCause, Others

LEMMA ChoicesStay ==
    ASSUME TeamInv, UNCHANGED <<permission, chosen>>
    PROVE  ChoiceStays'
BY DEF TeamInv, ChoiceStays

-----------------------------------------------------------------------------
(* One lemma for each group of actions *)

LEMMA LookEmailUpStep ==
    ASSUME TeamInv, NEW c \in TeamCalls, NEW e \in Emails,
           NEW kind \in {"invite", "create"}, LookEmailUp(c, kind, e)
    PROVE  TeamInv'
<1> DEFINE r == [Waiting EXCEPT !.at = "insertUser", !.kind = kind, !.email = e]
<1>1. r \in Invitations /\ r.at = "insertUser" /\ r.kind = kind
  BY WaitingTyped DEF Invitations, Waiting, TeamSteps, TeamKinds
<1>2. step' = [step EXCEPT ![c] = r] /\ step[c].at = "idle"
  BY DEF LookEmailUp
<1> HIDE DEF r
<1>3. step' \in [TeamCalls -> Invitations] /\ step'[c] = r /\ Others(c)
  BY <1>1, <1>2, OneMoves DEF TeamInv, Others
<1>4. UNCHANGED <<teamTables, teamHistory>>  BY DEF LookEmailUp
<1>5. TeamTypeOK'  BY <1>3, <1>4 DEF TeamInv, TeamTypeOK, Invitations, teamTables, teamHistory
<1>6. TablesGrow  BY <1>4 DEF TablesGrow, teamTables, teamHistory
<1>7. CallSound(c)'  BY <1>1, <1>3 DEF CallSound
<1>8. CallsSound'  BY <1>3, <1>5, <1>6, <1>7, SoundStays
<1>9. InvitationsHold'  BY <1>4, <1>6, InvitedStays DEF teamTables, teamHistory
<1>10. AccountAloneHasCause'
  BY <1>2, <1>3, <1>4, AloneStays DEF teamTables, teamHistory
<1>11. ChoiceStays'  BY <1>4, ChoicesStay DEF teamTables, teamHistory
<1> QED  BY <1>5, <1>8, <1>9, <1>10, <1>11 DEF TeamInv

LEMMA InsertUserStep ==
    ASSUME TeamInv, NEW c \in TeamCalls, InsertUser(c)
    PROVE  TeamInv'
<1> DEFINE e == step[c].email
<1>1. e \in Emails /\ step[c].kind \in {"invite", "create"} /\ step[c].at = "insertUser"
  BY DEF TeamInv, TeamTypeOK, CallsSound, CallSound, InsertUser
<1>2. UNCHANGED <<hasEmployee, permission, chosen, invited, unseeded>>
  BY DEF InsertUser
<1>3. CASE e \in hasUser
  <2>1. EndOf(c) /\ UNCHANGED <<hasUser, accountOnly>>  BY <1>3 DEF InsertUser
  <2>2. step' \in [TeamCalls -> Invitations] /\ step'[c].at = "idle" /\ Others(c)
    BY <2>1, EndMoves DEF TeamInv, Others
  <2>3. TeamTypeOK'  BY <1>2, <2>1, <2>2 DEF TeamInv, TeamTypeOK, Invitations
  <2>4. TablesGrow  BY <1>2, <2>1 DEF TablesGrow
  <2>5. CallSound(c)'  BY <2>2 DEF CallSound
  <2>6. CallsSound'  BY <2>2, <2>3, <2>4, <2>5, SoundStays
  <2>7. InvitationsHold'  BY <1>2, <2>4, InvitedStays
  <2>8. AccountAloneHasCause'  BY <1>1, <1>2, <2>1, <2>2, AloneStays
  <2>9. ChoiceStays'  BY <1>2, ChoicesStay
  <2> QED  BY <2>3, <2>6, <2>7, <2>8, <2>9 DEF TeamInv
<1>4. CASE e \notin hasUser
  <2>1. GoTo(c, "seedSelect") /\ hasUser' = hasUser \union {e}
    BY <1>4 DEF InsertUser
  <2>2. accountOnly' = IF step[c].kind = "create" THEN accountOnly \union {e} ELSE accountOnly
    BY <1>4 DEF InsertUser
  <2>3. /\ step' \in [TeamCalls -> Invitations] /\ Others(c)
        /\ step'[c].at = "seedSelect" /\ step'[c].kind = step[c].kind
        /\ step'[c].email = e
    BY <2>1, GoMoves DEF TeamInv, Others, TeamSteps
  <2>4. TeamTypeOK'  BY <1>1, <1>2, <2>1, <2>2, <2>3 DEF TeamInv, TeamTypeOK, Invitations
  <2>5. TablesGrow  BY <1>2, <2>1 DEF TablesGrow
  <2>6. CallSound(c)'  BY <1>1, <2>1, <2>3 DEF CallSound
  <2>7. CallsSound'  BY <2>3, <2>4, <2>5, <2>6, SoundStays
  <2>8. InvitationsHold'  BY <1>2, <2>5, InvitedStays
  <2>9. AccountAloneHasCause'
    BY <1>1, <1>2, <2>1, <2>2, <2>3 DEF TeamInv, AccountAloneHasCause, Others
  <2>10. ChoiceStays'  BY <1>2, ChoicesStay
  <2> QED  BY <2>4, <2>7, <2>8, <2>9, <2>10 DEF TeamInv
<1> QED  BY <1>3, <1>4

LEMMA SeedSelectStep ==
    ASSUME TeamInv, NEW c \in TeamCalls, SeedSelect(c)
    PROVE  TeamInv'
<1> DEFINE r == [step[c] EXCEPT !.at = "seedInsert", !.seen = permission[step[c].email]]
<1>1. step[c] \in Invitations /\ permission[step[c].email] \in Grants
  BY DEF TeamInv, TeamTypeOK, Invitations
<1>2. /\ r \in Invitations /\ r.at = "seedInsert" /\ r.kind = step[c].kind
      /\ r.email = step[c].email /\ r.seen = permission[step[c].email]
  BY <1>1 DEF Invitations, TeamSteps
<1>3. step' = [step EXCEPT ![c] = r] /\ step[c].at = "seedSelect"
  BY <1>1 DEF SeedSelect, TeamInv, TeamTypeOK
<1> HIDE DEF r
<1>4. step' \in [TeamCalls -> Invitations] /\ step'[c] = r /\ Others(c)
  BY <1>2, <1>3, OneMoves DEF TeamInv, Others
<1>5. UNCHANGED <<teamTables, teamHistory>>  BY DEF SeedSelect
<1>6. TeamTypeOK'  BY <1>4, <1>5 DEF TeamInv, TeamTypeOK, Invitations, teamTables, teamHistory
<1>7. TablesGrow  BY <1>5 DEF TablesGrow, teamTables, teamHistory
<1>8. CallSound(c)  BY DEF TeamInv, CallsSound
<1>9. CallSound(c)'
  BY <1>2, <1>3, <1>4, <1>5, <1>8 DEF CallSound, teamTables, teamHistory
<1>10. CallsSound'  BY <1>4, <1>6, <1>7, <1>9, SoundStays
<1>11. InvitationsHold'  BY <1>5, <1>7, InvitedStays DEF teamTables, teamHistory
<1>12. AccountAloneHasCause'
  BY <1>2, <1>4, <1>5, AloneStays DEF teamTables, teamHistory
<1>13. ChoiceStays'  BY <1>5, ChoicesStay DEF teamTables, teamHistory
<1> QED  BY <1>6, <1>10, <1>11, <1>12, <1>13 DEF TeamInv

SeededNow(e) == e \in unseeded' \/ \A p \in Permissions : permission'[e][p] # "none"

\* Both ways a seeding ends: what it leaves is seeded, or a failure.
LEMMA SeedingEnds ==
    ASSUME TeamInv, NEW c \in TeamCalls, step[c].at \in {"seedSelect", "seedInsert"},
           AfterSeed(c), UNCHANGED <<hasUser, hasEmployee, chosen, invited, accountOnly>>,
           permission' \in [Emails -> Grants], unseeded' \subseteq Emails,
           TablesGrow, SeededNow(step[c].email), ChoiceStays'
    PROVE  TeamInv'
<1>1. /\ step' \in [TeamCalls -> Invitations] /\ Others(c)
      /\ IF step[c].kind = "invite"
         THEN step'[c].at = "lookEmployee" /\ step'[c].kind = "invite"
              /\ step'[c].email = step[c].email
         ELSE step'[c].at = "idle"
  BY AfterSeedMoves DEF TeamInv, Others
<1>2. TeamTypeOK'  BY <1>1 DEF TeamInv, TeamTypeOK, Invitations
<1>3. step[c].email \in hasUser  BY DEF TeamInv, CallsSound, CallSound
<1>4. CallSound(c)'  BY <1>1, <1>3 DEF CallSound, Seeded, SeededNow
<1>5. CallsSound'  BY <1>1, <1>2, <1>4, SoundStays
<1>6. InvitationsHold'  BY InvitedStays
<1>7. AccountAloneHasCause'  BY <1>1, AloneStays
<1> QED  BY <1>2, <1>5, <1>6, <1>7 DEF TeamInv

LEMMA SeedInsertStep ==
    ASSUME TeamInv, NEW c \in TeamCalls, SeedInsert(c)
    PROVE  TeamInv'
<1> DEFINE e == step[c].email
           missing == {p \in Permissions : step[c].seen[p] = "none"}
<1>1. /\ step[c].at = "seedInsert" /\ AfterSeed(c) /\ e \in Emails
      /\ UNCHANGED <<hasUser, hasEmployee, chosen, invited, accountOnly>>
      /\ permission \in [Emails -> Grants] /\ permission[e] \in Grants
  BY DEF SeedInsert, TeamInv, TeamTypeOK
<1>2. \A p \in Permissions \ missing : permission[e][p] # "none"
  BY <1>1 DEF TeamInv, CallsSound, CallSound
<1>3. CASE \E p \in missing : permission[e][p] # "none"
  <2>1. unseeded' = unseeded \union {e} /\ UNCHANGED permission
    BY <1>3 DEF SeedInsert
  <2>2. permission' \in [Emails -> Grants] /\ unseeded' \subseteq Emails
    BY <1>1, <2>1 DEF TeamInv, TeamTypeOK
  <2>3. TablesGrow /\ SeededNow(e)  BY <1>1, <2>1 DEF TablesGrow, SeededNow
  <2>4. ChoiceStays'  BY <1>1, <2>1, ChoicesStay
  <2> QED  BY <1>1, <2>2, <2>3, <2>4, SeedingEnds
<1>4. CASE \A p \in missing : permission[e][p] = "none"
  <2> DEFINE entry == [p \in Permissions |-> IF p \in missing THEN DefaultGrant(p)
                                           ELSE permission[e][p]]
  <2>1. permission' = [permission EXCEPT ![e] = entry] /\ UNCHANGED unseeded
    BY <1>1, <1>4 DEF SeedInsert
  <2>2. entry \in Grants /\ \A p \in Permissions : entry[p] # "none"
    BY <1>1, <1>2 DEF Grants, DefaultGrant
  <2>3. \A p \in Permissions : permission[e][p] # "none" => entry[p] = permission[e][p]
    BY <1>4
  <2> HIDE DEF entry
  <2>4. /\ permission' \in [Emails -> Grants] /\ permission'[e] = entry
        /\ \A f \in Emails \ {e} : permission'[f] = permission[f]
    BY <1>1, <2>1, <2>2
  <2>5. TablesGrow  BY <1>1, <2>1, <2>2, <2>4 DEF TablesGrow
  <2>6. ChoiceStays'
    BY <1>1, <2>3, <2>4 DEF TeamInv, ChoiceStays
  <2>7. unseeded' \subseteq Emails /\ SeededNow(e)
    BY <2>1, <2>2, <2>4 DEF TeamInv, TeamTypeOK, SeededNow
  <2> QED  BY <1>1, <2>4, <2>5, <2>6, <2>7, SeedingEnds
<1> QED  BY <1>3, <1>4

LEMMA SeedFailsStep ==
    ASSUME TeamInv, NEW c \in TeamCalls, SeedFails(c)
    PROVE  TeamInv'
<1>1. /\ step[c].at \in {"seedSelect", "seedInsert"} /\ AfterSeed(c)
      /\ UNCHANGED <<hasUser, hasEmployee, permission, chosen, invited, accountOnly>>
      /\ unseeded' = unseeded \union {step[c].email} /\ step[c].email \in Emails
  BY DEF SeedFails, TeamInv, TeamTypeOK, teamTables
<1>2. permission' \in [Emails -> Grants] /\ unseeded' \subseteq Emails
  BY <1>1 DEF TeamInv, TeamTypeOK
<1>3. TablesGrow /\ SeededNow(step[c].email)  BY <1>1 DEF TablesGrow, SeededNow
<1>4. ChoiceStays'  BY <1>1, ChoicesStay
<1> QED  BY <1>1, <1>2, <1>3, <1>4, SeedingEnds

\* A request of POST /employees or PUT /permissions begins.
LEMMA BeginsStep ==
    ASSUME TeamInv, NEW c \in TeamCalls, NEW r \in Invitations,
           step[c].at = "idle", step' = [step EXCEPT ![c] = r],
           r.email \in hasUser,
           \/ r.at = "lookEmployee" /\ r.kind = "employ"
           \/ r.at = "setCommit" /\ r.kind = "permit",
           UNCHANGED <<teamTables, invited, accountOnly, unseeded>>,
           chosen' \in [Emails -> Grants], ChoiceStays'
    PROVE  TeamInv'
<1>1. step' \in [TeamCalls -> Invitations] /\ step'[c] = r /\ Others(c)
  BY OneMoves DEF TeamInv, Others
<1>2. TeamTypeOK'  BY <1>1 DEF TeamInv, TeamTypeOK, Invitations, teamTables
<1>3. TablesGrow  BY DEF TablesGrow, teamTables
<1>4. CallSound(c)'  BY <1>1 DEF CallSound, teamTables
<1>5. CallsSound'  BY <1>1, <1>2, <1>3, <1>4, SoundStays
<1>6. InvitationsHold'  BY <1>3, InvitedStays DEF teamTables
<1>7. AccountAloneHasCause'  BY <1>1, AloneStays DEF teamTables
<1> QED  BY <1>2, <1>5, <1>6, <1>7 DEF TeamInv

LEMMA EmployStep ==
    ASSUME TeamInv, NEW c \in TeamCalls, NEW e \in Emails, Employ(c, e)
    PROVE  TeamInv'
<1> DEFINE r == [Waiting EXCEPT !.at = "lookEmployee", !.kind = "employ", !.email = e]
<1>1. /\ r \in Invitations /\ r.email = e
      /\ r.at = "lookEmployee" /\ r.kind = "employ"
  BY WaitingTyped DEF Invitations, Waiting, TeamSteps, TeamKinds
<1>2. step' = [step EXCEPT ![c] = r] /\ step[c].at = "idle" /\ e \in hasUser
  BY DEF Employ
<1> HIDE DEF r
<1>3. UNCHANGED <<teamTables, teamHistory>>  BY DEF Employ
<1>4. chosen' \in [Emails -> Grants] /\ ChoiceStays'
  BY <1>3, ChoicesStay DEF TeamInv, TeamTypeOK, teamTables, teamHistory
<1> QED  BY <1>1, <1>2, <1>3, <1>4, BeginsStep DEF teamHistory

LEMMA PermitSelectStep ==
    ASSUME TeamInv, NEW c \in TeamCalls, NEW e \in Emails, NEW wants \in Grants,
           PermitSelect(c, e, wants)
    PROVE  TeamInv'
<1> DEFINE r == [at |-> "setCommit", kind |-> "permit", email |-> e,
                 seen |-> permission[e], wants |-> wants]
           choice == [p \in Permissions |->
                         IF wants[p] # "none" /\ wants[p] = permission[e][p]
                         THEN wants[p] ELSE chosen[e][p]]
<1>1. /\ permission[e] \in Grants /\ chosen \in [Emails -> Grants] /\ chosen[e] \in Grants
  BY DEF TeamInv, TeamTypeOK
<1>2. /\ r \in Invitations /\ r.email = e
      /\ r.at = "setCommit" /\ r.kind = "permit"
  BY <1>1 DEF Invitations, TeamSteps, TeamKinds
<1>3. /\ step' = [step EXCEPT ![c] = r] /\ step[c].at = "idle" /\ e \in hasUser
      /\ UNCHANGED <<teamTables, invited, accountOnly, unseeded>>
  BY DEF PermitSelect
<1>4. chosen' = [chosen EXCEPT ![e] = choice]
  BY <1>1 DEF PermitSelect
<1>5. choice \in Grants  BY <1>1 DEF Grants
<1>6. \A p \in Permissions : choice[p] # "none" => permission[e][p] = choice[p]
  BY DEF TeamInv, ChoiceStays
<1> HIDE DEF r, choice
<1>7. chosen' \in [Emails -> Grants]  BY <1>1, <1>4, <1>5
<1>8. ChoiceStays'
  BY <1>1, <1>3, <1>4, <1>6 DEF TeamInv, ChoiceStays, teamTables
<1> QED  BY <1>2, <1>3, <1>7, <1>8, BeginsStep

LEMMA LookEmployeeUpStep ==
    ASSUME TeamInv, NEW c \in TeamCalls, LookEmployeeUp(c)
    PROVE  TeamInv'
<1>1. step[c].at = "lookEmployee" /\ UNCHANGED <<teamTables, teamHistory>>
  BY DEF LookEmployeeUp
<1>2. TablesGrow  BY <1>1 DEF TablesGrow, teamTables, teamHistory
<1>3. CallSound(c)  BY DEF TeamInv, CallsSound
<1>4. InvitationsHold'  BY <1>1, <1>2, InvitedStays DEF teamTables, teamHistory
<1>5. ChoiceStays'  BY <1>1, ChoicesStay DEF teamTables, teamHistory
<1>6. CASE step[c].email \in hasEmployee
  <2>1. step' \in [TeamCalls -> Invitations] /\ step'[c].at = "idle" /\ Others(c)
    BY <1>6, EndMoves DEF TeamInv, Others, LookEmployeeUp
  <2>2. TeamTypeOK'  BY <1>1, <2>1 DEF TeamInv, TeamTypeOK, Invitations, teamTables, teamHistory
  <2>3. CallSound(c)'  BY <2>1 DEF CallSound
  <2>4. CallsSound'  BY <1>2, <2>1, <2>2, <2>3, SoundStays
  <2>5. AccountAloneHasCause'
    BY <1>1, <1>6, <2>1, AloneStays DEF teamTables, teamHistory
  <2> QED  BY <1>4, <1>5, <2>2, <2>4, <2>5 DEF TeamInv
<1>7. CASE step[c].email \notin hasEmployee
  <2>1. /\ step' \in [TeamCalls -> Invitations] /\ Others(c)
        /\ step'[c].at = "insertEmployee" /\ step'[c].kind = step[c].kind
        /\ step'[c].email = step[c].email
    BY <1>7, GoMoves DEF TeamInv, Others, LookEmployeeUp, TeamSteps
  <2>2. TeamTypeOK'  BY <1>1, <2>1 DEF TeamInv, TeamTypeOK, Invitations, teamTables, teamHistory
  <2>3. CallSound(c)'
    BY <1>1, <1>3, <2>1 DEF CallSound, Seeded, teamTables, teamHistory
  <2>4. CallsSound'  BY <1>2, <2>1, <2>2, <2>3, SoundStays
  <2>5. AccountAloneHasCause'
    BY <1>1, <2>1, AloneStays DEF teamTables, teamHistory
  <2> QED  BY <1>4, <1>5, <2>2, <2>4, <2>5 DEF TeamInv
<1> QED  BY <1>6, <1>7

LEMMA InsertEmployeeStep ==
    ASSUME TeamInv, NEW c \in TeamCalls, InsertEmployee(c)
    PROVE  TeamInv'
<1> DEFINE e == step[c].email
<1>1. /\ step[c].at = "insertEmployee" /\ e \in Emails /\ e \in hasUser
      /\ hasEmployee' = hasEmployee \union {e}
      /\ invited' = IF step[c].kind = "invite" /\ e \notin hasEmployee
                    THEN invited \union {e} ELSE invited
      /\ UNCHANGED <<hasUser, permission, chosen, accountOnly, unseeded>>
  BY DEF InsertEmployee, TeamInv, TeamTypeOK, CallsSound, CallSound
<1>2. step' \in [TeamCalls -> Invitations] /\ step'[c].at = "idle" /\ Others(c)
  BY EndMoves DEF TeamInv, Others, InsertEmployee
<1>3. TeamTypeOK'  BY <1>1, <1>2 DEF TeamInv, TeamTypeOK, Invitations
<1>4. TablesGrow  BY <1>1 DEF TablesGrow
<1>5. CallSound(c)'  BY <1>2 DEF CallSound
<1>6. CallsSound'  BY <1>2, <1>3, <1>4, <1>5, SoundStays
<1>7. step[c].kind = "invite" => Seeded(e)
  BY <1>1 DEF TeamInv, CallsSound, CallSound
<1>8. InvitationsHold'
  BY <1>1, <1>7 DEF TeamInv, InvitationsHold, Seeded
<1>9. AccountAloneHasCause'  BY <1>1, <1>2, AloneStays
<1>10. ChoiceStays'  BY <1>1, ChoicesStay
<1> QED  BY <1>3, <1>6, <1>8, <1>9, <1>10 DEF TeamInv

LEMMA PermitCommitStep ==
    ASSUME TeamInv, NEW c \in TeamCalls, PermitCommit(c)
    PROVE  TeamInv'
<1> DEFINE e == step[c].email
           wants == step[c].wants
           set == {p \in Permissions : wants[p] # "none" /\ wants[p] # step[c].seen[p]}
           Over(entry) == [p \in Permissions |-> IF p \in set THEN wants[p] ELSE entry[p]]
<1>1. /\ step[c].at = "setCommit" /\ step[c].kind = "permit"
      /\ e \in Emails /\ wants \in Grants
      /\ permission \in [Emails -> Grants] /\ chosen \in [Emails -> Grants]
      /\ permission[e] \in Grants /\ chosen[e] \in Grants
      /\ UNCHANGED <<hasUser, hasEmployee, invited, accountOnly, unseeded>>
  BY DEF PermitCommit, TeamInv, TeamTypeOK, CallsSound, CallSound
<1>2. step' \in [TeamCalls -> Invitations] /\ step'[c].at = "idle" /\ Others(c)
  BY EndMoves DEF TeamInv, Others, PermitCommit
<1>3. /\ permission' \in [Emails -> Grants] /\ chosen' \in [Emails -> Grants]
      /\ \A f \in Emails, p \in Permissions :
            permission[f][p] # "none" => permission'[f][p] # "none"
      /\ ChoiceStays'
  <2>1. CASE UNCHANGED <<permission, chosen>>
    BY <1>1, <2>1, ChoicesStay
  <2>2. CASE /\ permission' = [permission EXCEPT ![e] = Over(permission[e])]
             /\ chosen' = [chosen EXCEPT ![e] = Over(chosen[e])]
    <3>1. Over(permission[e]) \in Grants /\ Over(chosen[e]) \in Grants
      BY <1>1 DEF Grants
    <3>2. \A p \in Permissions : permission[e][p] # "none" => Over(permission[e])[p] # "none"
      BY <1>1 DEF Grants
    <3>3. \A p \in Permissions :
              Over(chosen[e])[p] # "none" => Over(permission[e])[p] = Over(chosen[e])[p]
      BY <1>1 DEF Grants, TeamInv, ChoiceStays
    <3> HIDE DEF Over
    <3>4. /\ permission' \in [Emails -> Grants] /\ permission'[e] = Over(permission[e])
          /\ chosen' \in [Emails -> Grants] /\ chosen'[e] = Over(chosen[e])
          /\ \A f \in Emails \ {e} : permission'[f] = permission[f] /\ chosen'[f] = chosen[f]
      BY <1>1, <2>2, <3>1
    <3>5. ChoiceStays'  BY <3>3, <3>4 DEF TeamInv, ChoiceStays
    <3> QED  BY <3>2, <3>4, <3>5
  <2> QED  BY <1>1, <2>1, <2>2 DEF PermitCommit
<1>4. TeamTypeOK'  BY <1>1, <1>2, <1>3 DEF TeamInv, TeamTypeOK, Invitations
<1>5. TablesGrow  BY <1>1, <1>3 DEF TablesGrow
<1>6. CallSound(c)'  BY <1>2 DEF CallSound
<1>7. CallsSound'  BY <1>2, <1>4, <1>5, <1>6, SoundStays
<1>8. InvitationsHold'  BY <1>1, <1>5, InvitedStays
<1>9. AccountAloneHasCause'  BY <1>1, <1>2, AloneStays
<1> QED  BY <1>3, <1>4, <1>7, <1>8, <1>9 DEF TeamInv

LEMMA CutOffStep ==
    ASSUME TeamInv, NEW c \in TeamCalls, TeamCutOff(c)
    PROVE  TeamInv'
<1>1. /\ step[c].email \in Emails
      /\ UNCHANGED <<hasUser, hasEmployee, permission, chosen, invited>>
      /\ accountOnly \subseteq accountOnly' /\ accountOnly' \subseteq Emails
      /\ unseeded \subseteq unseeded' /\ unseeded' \subseteq Emails
      /\ step[c].kind = "invite" /\ step[c].at # "insertUser" => step[c].email \in accountOnly'
  BY DEF TeamCutOff, teamTables, TeamInv, TeamTypeOK
<1>2. step' \in [TeamCalls -> Invitations] /\ step'[c].at = "idle" /\ Others(c)
  BY EndMoves DEF TeamInv, Others, TeamCutOff
<1>3. TeamTypeOK'  BY <1>1, <1>2 DEF TeamInv, TeamTypeOK, Invitations
<1>4. TablesGrow  BY <1>1 DEF TablesGrow
<1>5. CallSound(c)'  BY <1>2 DEF CallSound
<1>6. CallsSound'  BY <1>2, <1>3, <1>4, <1>5, SoundStays
<1>7. InvitationsHold'  BY <1>1, <1>4, InvitedStays
<1>8. AccountAloneHasCause'  BY <1>1, <1>2, AloneStays
<1>9. ChoiceStays'  BY <1>1, ChoicesStay
<1> QED  BY <1>3, <1>6, <1>7, <1>8, <1>9 DEF TeamInv

-----------------------------------------------------------------------------
LEMMA NextTeam == TeamInv /\ [TeamNext]_teamVars => TeamInv'
<1> SUFFICES ASSUME TeamInv, [TeamNext]_teamVars PROVE TeamInv'
  OBVIOUS
<1>1. ASSUME NEW c \in TeamCalls, NEW e \in Emails, Invite(c, e) \/ CreateUser(c, e)
      PROVE  TeamInv'
  BY <1>1, LookEmailUpStep DEF Invite, CreateUser
<1>2. ASSUME NEW c \in TeamCalls, NEW e \in Emails, Employ(c, e)
      PROVE  TeamInv'
  BY <1>2, EmployStep
<1>3. ASSUME NEW c \in TeamCalls, NEW e \in Emails, NEW wants \in Grants,
             PermitSelect(c, e, wants)
      PROVE  TeamInv'
  BY <1>3, PermitSelectStep
<1>4. ASSUME NEW c \in TeamCalls,
             \/ InsertUser(c) \/ SeedSelect(c) \/ SeedInsert(c) \/ SeedFails(c)
             \/ LookEmployeeUp(c) \/ InsertEmployee(c) \/ PermitCommit(c) \/ TeamCutOff(c)
      PROVE  TeamInv'
  BY <1>4, InsertUserStep, SeedSelectStep, SeedInsertStep, SeedFailsStep,
     LookEmployeeUpStep, InsertEmployeeStep, PermitCommitStep, CutOffStep
<1>5. CASE UNCHANGED teamVars
  BY <1>5 DEF teamVars, TeamInv, TeamTypeOK, CallsSound, CallSound, Seeded,
              InvitationsHold, AccountAloneHasCause, ChoiceStays
<1> QED  BY <1>1, <1>2, <1>3, <1>4, <1>5 DEF TeamNext

\* The invariant of user onboarding.
THEOREM TeamInvariant == TeamSpec => []TeamInv
<1> QED  BY InitTeam, NextTeam, PTL DEF TeamSpec

\* Every reachable state of TeamOnboarding is well typed.
THEOREM TeamTypeCorrect == TeamSpec => []TeamTypeOK
<1>1. TeamInv => TeamTypeOK  BY DEF TeamInv
<1> QED  BY <1>1, TeamInvariant, PTL

\* Whoever was answered that an invitation is done has an account, an employee
\* row and all permissions, unless the seeding failed (invite_employee).
THEOREM InvitationsAreKept == TeamSpec => []InvitationsHold
<1>1. TeamInv => InvitationsHold  BY DEF TeamInv
<1> QED  BY <1>1, TeamInvariant, PTL

\* An account without an employee row comes from a request that was cut off or
\* from POST /users, never from a lost race.
THEOREM LoneAccountsAreExplained == TeamSpec => []AccountAloneHasCause
<1>1. TeamInv => AccountAloneHasCause  BY DEF TeamInv
<1> QED  BY <1>1, TeamInvariant, PTL

\* Both together: invite_employee leaves a whole member, or half of one for a
\* reason that can be named.
THEOREM OnboardingIsKept == TeamSpec => []OnboardingAddsUp
<1>1. InvitationsHold /\ AccountAloneHasCause => OnboardingAddsUp
  BY DEF OnboardingAddsUp
<1> QED  BY <1>1, InvitationsAreKept, LoneAccountsAreExplained, PTL

\* No seeding of defaults undoes what the owner chose
\* (seed_default_permissions against set_user_permissions).
THEOREM ChoicesAreKept == TeamSpec => []ChoiceStays
<1>1. TeamInv => ChoiceStays  BY DEF TeamInv
<1> QED  BY <1>1, TeamInvariant, PTL

-----------------------------------------------------------------------------
(***************************************************************************)
(* StaffDirectory.  A reader holds what it has read in its SELECTs, a writer *)
(* the views it has still to delete: of what is old, both are causes.      *)
(***************************************************************************)

\* The writes that come by user-bl-service, and delete some views.
Served == DOMAIN Writes \ {"AdminChangesRole", "HourlyErasure"}

\* The six views of user-bl-service that it caches.
LEMMA ViewNames == Views = {"user", "users", "employee", "staff", "company", "grants"}
BY DEF Views, Parts

\* What a view shows, and in how many SELECTs.
LEMMA PartsOf ==
    /\ Parts["user"] = UserParts /\ Parts["users"] = UsersParts
    /\ Parts["employee"] = EmployeeParts /\ Parts["staff"] = StaffParts
    /\ Parts["company"] = CompanyParts /\ Parts["grants"] = GrantParts
BY DEF Parts

LEMMA ShownFacts ==
    /\ Shows("user") = {"name", "standing", "plan", "duty"}
    /\ Shows("users") = {"name", "standing", "plan", "members"}
    /\ Shows("employee") = {"duty", "name"} /\ Shows("staff") = {"duty", "name"}
    /\ Shows("company") = {"company"} /\ Shows("grants") = {"grants"}
<1>1. Shows("user") = {"name", "standing", "plan", "duty"}
    BY DEF Shows, Parts, UserParts
<1>2. Shows("users") = {"name", "standing", "plan", "members"}
    BY DEF Shows, Parts, UsersParts
<1>3. Shows("employee") = {"duty", "name"} /\ Shows("staff") = {"duty", "name"}
    BY DEF Shows, Parts, EmployeeParts, StaffParts
<1>4. Shows("company") = {"company"} /\ Shows("grants") = {"grants"}
    BY DEF Shows, Parts, CompanyParts, GrantParts
<1>5. QED
    BY <1>1, <1>2, <1>3, <1>4

\* A view is read in one or two SELECTs, whose facts it shows.
LEMMA PartsCounted ==
    ASSUME NEW v \in Views
    PROVE  /\ Len(Parts[v]) \in {1, 2}
           /\ \A n \in 0..Len(Parts[v]) : UNION {Parts[v][i] : i \in 1..n} \subseteq Shows(v)
           /\ Shows(v) \subseteq Facts
<1>1. Len(Parts[v]) \in {1, 2} /\ DOMAIN Parts[v] = 1..Len(Parts[v])
    <2>1. /\ Len(UserParts) = 2 /\ DOMAIN UserParts = 1..2
          /\ Len(EmployeeParts) = 2 /\ DOMAIN EmployeeParts = 1..2
          /\ Len(StaffParts) = 2 /\ DOMAIN StaffParts = 1..2
        BY DEF UserParts, EmployeeParts, StaffParts
    <2>2. /\ Len(UsersParts) = 1 /\ DOMAIN UsersParts = 1..1
          /\ Len(CompanyParts) = 1 /\ DOMAIN CompanyParts = 1..1
          /\ Len(GrantParts) = 1 /\ DOMAIN GrantParts = 1..1
        BY DEF UsersParts, CompanyParts, GrantParts
    <2>3. QED
        BY <2>1, <2>2, ViewNames, PartsOf
<1>2. Shows(v) \subseteq Facts
    BY ViewNames, ShownFacts DEF Facts
<1>3. \A n \in 0..Len(Parts[v]) : UNION {Parts[v][i] : i \in 1..n} \subseteq Shows(v)
    BY <1>1 DEF Shows
<1>4. QED
    BY <1>1, <1>2, <1>3

\* The writes, with the facts each changes and the views it spares.
LEMMA WriteNames ==
    /\ DOMAIN Writes = {"AddUser", "UpdateUser", "Deactivate", "AddEmployee", "UpdateEmployee",
                         "ChangeCompany", "Permit", "Seed", "PlanErasure", "DropErasure",
                         "Erase", "AdminChangesRole", "HourlyErasure"}
    /\ Writes["AddUser"] = AddUser
    /\ Writes["UpdateUser"] = UpdateUser
    /\ Writes["Deactivate"] = Deactivate
    /\ Writes["AddEmployee"] = AddEmployee
    /\ Writes["UpdateEmployee"] = UpdateEmployee
    /\ Writes["ChangeCompany"] = ChangeCompany
    /\ Writes["Permit"] = Permit
    /\ Writes["Seed"] = Seed
    /\ Writes["PlanErasure"] = PlanErasure
    /\ Writes["DropErasure"] = DropErasure
    /\ Writes["Erase"] = Erase
    /\ Writes["AdminChangesRole"] = AdminChangesRole
    /\ Writes["HourlyErasure"] = HourlyErasure
BY DEF Writes

\* The views a write of user-bl-service does not delete.
LEMMA SparedViews ==
    /\ Spared["AddUser"] = {} /\ Spared["UpdateUser"] = {"employee", "staff"}
    /\ Spared["Deactivate"] = {} /\ Spared["AddEmployee"] = {"user"}
    /\ Spared["UpdateEmployee"] = {"user"} /\ Spared["ChangeCompany"] = {}
    /\ Spared["Permit"] = {} /\ Spared["Seed"] = {}
    /\ Spared["PlanErasure"] = {"users"} /\ Spared["DropErasure"] = {"users"}
    /\ Spared["Erase"] = {}
    /\ Spared["AdminChangesRole"] = Views /\ Spared["HourlyErasure"] = Views
BY DEF Spared

\* Every write deletes, or spares, each view that shows what it changes.
Covers(what) ==
    /\ Writes[what].facts \subseteq Facts
    /\ Writes[what].forgets \in Seq(SUBSET Views)
    /\ Spared[what] \subseteq Views
    /\ what \in Served => Len(Writes[what].forgets) > 0
    /\ \A v \in Views : \A f \in Writes[what].facts \intersect Shows(v) :
          \/ v \in Spared[what]
          \/ \E i \in 1..Len(Writes[what].forgets) : v \in Writes[what].forgets[i]

\* Every write of user-bl-service deletes, or rightly spares, each view of what it changes.
LEMMA WritesCover == \A what \in DOMAIN Writes : Covers(what)
<1>1. Covers("AddUser")
    BY ViewNames, ShownFacts, WriteNames, SparedViews DEF Covers, Served, Facts, AddUser
<1>2. Covers("UpdateUser")
    BY ViewNames, ShownFacts, WriteNames, SparedViews DEF Covers, Served, Facts, UpdateUser
<1>3. Covers("Deactivate")
    BY ViewNames, ShownFacts, WriteNames, SparedViews DEF Covers, Served, Facts, Deactivate
<1>4. Covers("AddEmployee")
    BY ViewNames, ShownFacts, WriteNames, SparedViews DEF Covers, Served, Facts, AddEmployee
<1>5. Covers("UpdateEmployee")
    BY ViewNames, ShownFacts, WriteNames, SparedViews DEF Covers, Served, Facts, UpdateEmployee
<1>6. Covers("ChangeCompany")
    BY ViewNames, ShownFacts, WriteNames, SparedViews DEF Covers, Served, Facts, ChangeCompany
<1>7. Covers("Permit")
    BY ViewNames, ShownFacts, WriteNames, SparedViews DEF Covers, Served, Facts, Permit
<1>8. Covers("Seed")
    BY ViewNames, ShownFacts, WriteNames, SparedViews DEF Covers, Served, Facts, Seed
<1>9. Covers("PlanErasure")
    BY ViewNames, ShownFacts, WriteNames, SparedViews DEF Covers, Served, Facts, PlanErasure
<1>10. Covers("DropErasure")
    BY ViewNames, ShownFacts, WriteNames, SparedViews DEF Covers, Served, Facts, DropErasure
<1>11. Covers("Erase")
    BY ViewNames, ShownFacts, WriteNames, SparedViews DEF Covers, Served, Facts, Erase
<1>12. Covers("AdminChangesRole")
    BY ViewNames, ShownFacts, WriteNames, SparedViews DEF Covers, Served, Facts, AdminChangesRole
<1>13. Covers("HourlyErasure")
    BY ViewNames, ShownFacts, WriteNames, SparedViews DEF Covers, Served, Facts, HourlyErasure
<1>14. QED
    BY WriteNames, <1>1, <1>2, <1>3, <1>4, <1>5, <1>6, <1>7, <1>8, <1>9, <1>10, <1>11, <1>12, <1>13

-----------------------------------------------------------------------------
(* The invariant *)

\* A view that is kept has only facts of its own; one that is not has none.
CopiesFit ==
    /\ copy \in [Views -> [kept : BOOLEAN, old : SUBSET Facts]]
    /\ \A v \in Views :
          /\ copy[v].old \subseteq Shows(v)
          /\ ~copy[v].kept => copy[v].old = {}

ReadersFit ==
    /\ reader \in [Readers -> [view : Views, got : 0..2, old : SUBSET Facts]]
    /\ \A r \in Readers :
          /\ reader[r].got <= Len(Parts[reader[r].view])
          /\ reader[r].old \subseteq Shows(reader[r].view)

WriterStates == [at : {"idle", "forget"}, what : DOMAIN Writes, left : Seq(SUBSET Views)]

WritersFit ==
    /\ writer \in [Writers -> WriterStates]
    /\ \A w \in Writers : writer[w].at = "forget" => writer[w].left # <<>>

CausesFit == raced \union unforgotten \union gapped \subseteq Views \X Facts

DirectoryInv ==
    /\ CopiesFit
    /\ ReadersFit
    /\ WritersFit
    /\ CausesFit
    /\ OldViewHasCause

\* The invariant includes the type invariant.
LEMMA InvGivesType == DirectoryInv => DirectoryTypeOK
<1> SUFFICES ASSUME DirectoryInv PROVE DirectoryTypeOK
    OBVIOUS
<1>1. ASSUME NEW w \in Writers
      PROVE  /\ writer[w].at \in {"idle", "forget"} /\ writer[w].what \in DOMAIN Writes
             /\ \A i \in DOMAIN writer[w].left : writer[w].left[i] \subseteq Views
    <2>1. writer[w] \in WriterStates
        BY DEF DirectoryInv, WritersFit
    <2>2. QED
        BY <2>1 DEF WriterStates
<1>2. QED
    BY <1>1 DEF DirectoryInv, DirectoryTypeOK, CopiesFit, ReadersFit, CausesFit

\* What stands for nobody reading, nobody writing and no copy.
LEMMA RestTyped ==
    /\ NoCopy \in [kept : BOOLEAN, old : SUBSET Facts] /\ ~NoCopy.kept /\ NoCopy.old = {}
    /\ NotReading \in [view : Views, got : 0..2, old : SUBSET Facts]
    /\ NotReading.got = 0 /\ NotReading.old = {}
    /\ NotWriting \in WriterStates /\ NotWriting.at = "idle" /\ NotWriting.left = <<>>
<1>1. NotReading \in [view : Views, got : 0..2, old : SUBSET Facts]
    BY ViewNames DEF NotReading
<1>2. NotWriting \in WriterStates
    BY WriteNames DEF NotWriting, WriterStates
<1>3. QED
    BY <1>1, <1>2 DEF NoCopy, NotReading, NotWriting

\* At first nothing is cached and nobody reads or writes.
LEMMA InitDirectory == DirectoryInit => DirectoryInv
<1> SUFFICES ASSUME DirectoryInit PROVE DirectoryInv
    OBVIOUS
<1>1. CopiesFit /\ OldViewHasCause
    BY RestTyped DEF DirectoryInit, CopiesFit, OldViewHasCause
<1>2. ReadersFit
    <2>1. NotReading.view \in Views /\ Len(Parts[NotReading.view]) \in {1, 2}
        BY RestTyped, PartsCounted
    <2>2. QED
        BY <2>1, RestTyped DEF DirectoryInit, ReadersFit
<1>3. WritersFit /\ CausesFit
    BY RestTyped DEF DirectoryInit, WritersFit, CausesFit
<1>4. QED
    BY <1>1, <1>2, <1>3 DEF DirectoryInv

-----------------------------------------------------------------------------
(* The steps of readers *)

\* Readers alone move: the causes stay where they were.
LEMMA OnlyReaders ==
    ASSUME DirectoryInv, ReadersFit', UNCHANGED <<copy, writer, raced, unforgotten, gapped>>
    PROVE  DirectoryInv'
BY DEF DirectoryInv, CopiesFit, WritersFit, CausesFit, OldViewHasCause, Pending

\* One reader goes on, with what it has read of its view.
LEMMA ReaderMoves ==
    ASSUME ReadersFit, NEW r \in Readers,
           NEW next \in [view : Views, got : 0..2, old : SUBSET Facts],
           next.got <= Len(Parts[next.view]), next.old \subseteq Shows(next.view),
           reader' = [reader EXCEPT ![r] = next]
    PROVE  ReadersFit'
BY DEF ReadersFit

\* A reader that finds no copy begins to read the view.
LEMMA LookStep ==
    ASSUME DirectoryInv, NEW r \in Readers, NEW v \in Views, Look(r, v)
    PROVE  DirectoryInv'
<1>1. Len(Parts[v]) \in {1, 2}
    BY PartsCounted
<1> DEFINE next == [view |-> v, got |-> 1, old |-> {}]
<1>2. ReadersFit'
    <2>1. /\ next \in [view : Views, got : 0..2, old : SUBSET Facts]
          /\ next.got <= Len(Parts[next.view]) /\ next.old \subseteq Shows(next.view)
        BY <1>1
    <2>2. QED
        BY <2>1, ReaderMoves DEF DirectoryInv, Look
<1>3. QED
    BY <1>2, OnlyReaders DEF Look

\* The next SELECT of a reader, or its failure.
LEMMA SelectStep ==
    ASSUME DirectoryInv, NEW r \in Readers, SelectNext(r) \/ ReadFails(r)
    PROVE  DirectoryInv'
<1>1. /\ reader[r].view \in Views /\ reader[r].got \in 0..2
      /\ Len(Parts[reader[r].view]) \in {1, 2}
      /\ reader[r].got <= Len(Parts[reader[r].view])
    BY PartsCounted DEF DirectoryInv, ReadersFit
<1>2. CASE SelectNext(r)
    <2>1. reader[r].got < Len(Parts[reader[r].view])
        BY <1>1, <1>2 DEF SelectNext, Complete
    <2> DEFINE next == [reader[r] EXCEPT !.got = @ + 1]
    <2>2. ReadersFit'
        <3> HIDE DEF next
        <3>a. reader[r].got + 1 \in 0..2
            <4>1. reader[r].got \in {0, 1, 2}
                BY <1>1
            <4>2. reader[r].got # 2
                <5>1. CASE Len(Parts[reader[r].view]) = 1
                    BY <1>1, <2>1, <4>1, <5>1
                <5>2. CASE Len(Parts[reader[r].view]) = 2
                    BY <1>1, <2>1, <4>1, <5>2
                <5>3. QED
                    BY <1>1, <5>1, <5>2
            <4>3. QED
                BY <4>1, <4>2
        <3>b. /\ reader[r] \in [view : Views, got : 0..2, old : SUBSET Facts]
              /\ reader[r].old \subseteq Shows(reader[r].view)
            BY DEF DirectoryInv, ReadersFit
        <3>1. /\ next \in [view : Views, got : 0..2, old : SUBSET Facts]
              /\ next.got = reader[r].got + 1
              /\ next.view = reader[r].view /\ next.old \subseteq Shows(next.view)
            BY <3>a, <3>b DEF next
        <3>2. reader' = [reader EXCEPT ![r] = next]
            BY <1>2 DEF SelectNext, next
        <3>3. next.got <= Len(Parts[next.view])
            BY <1>1, <2>1, <3>1
        <3>4. QED
            BY <3>1, <3>2, <3>3, ReaderMoves DEF DirectoryInv
    <2>3. QED
        BY <1>2, <2>2, OnlyReaders DEF SelectNext
<1>3. CASE ReadFails(r)
    <2>1. NotReading.view \in Views /\ Len(Parts[NotReading.view]) \in {1, 2}
        BY RestTyped, PartsCounted
    <2>2. ReadersFit'
        BY <1>3, <2>1, RestTyped DEF DirectoryInv, ReadersFit, ReadFails
    <2>3. QED
        BY <1>3, <2>2, OnlyReaders DEF ReadFails
<1>4. QED
    BY <1>2, <1>3

\* A reader that keeps what it had selected before a write has raced with it.
LEMMA KeepStep ==
    ASSUME DirectoryInv, NEW r \in Readers, KeepView(r)
    PROVE  DirectoryInv'
<1> DEFINE v == reader[r].view
<1>1. /\ v \in Views /\ reader[r].old \subseteq Facts /\ reader[r].old \subseteq Shows(v)
      /\ copy' = [copy EXCEPT ![v] = [kept |-> TRUE, old |-> reader[r].old]]
      /\ raced' = Forgotten(raced, {v}) \union {<<v, f>> : f \in reader[r].old}
      /\ unforgotten' = Forgotten(unforgotten, {v})
      /\ gapped' = Forgotten(gapped, {v})
      /\ reader' = [reader EXCEPT ![r] = NotReading]
      /\ writer' = writer
    BY DEF DirectoryInv, ReadersFit, KeepView
<1>2. CopiesFit'
    BY <1>1 DEF DirectoryInv, CopiesFit
<1>3. ReadersFit'
    <2>1. NotReading.view \in Views /\ Len(Parts[NotReading.view]) \in {1, 2}
        BY RestTyped, PartsCounted
    <2>2. QED
        BY <1>1, <2>1, RestTyped DEF DirectoryInv, ReadersFit
<1>4. WritersFit' /\ CausesFit'
    BY <1>1 DEF DirectoryInv, WritersFit, CausesFit, Forgotten
<1>5. OldViewHasCause'
    <2> SUFFICES ASSUME NEW u \in Views, NEW f \in copy'[u].old
                 PROVE  Pending(u, f)' \/ <<u, f>> \in (raced \union unforgotten \union gapped)'
        BY DEF OldViewHasCause
    <2>1. CASE u = v
        BY <1>1, <2>1 DEF DirectoryInv, CopiesFit
    <2>2. CASE u # v
        <3>1. f \in copy[u].old
            BY <1>1, <2>2 DEF DirectoryInv, CopiesFit
        <3>2. Pending(u, f) \/ <<u, f>> \in raced \union unforgotten \union gapped
            BY <3>1 DEF DirectoryInv, OldViewHasCause
        <3>3. Pending(u, f) => Pending(u, f)'
            BY <1>1 DEF Pending
        <3>4. QED
            BY <1>1, <2>2, <3>2, <3>3 DEF Forgotten
    <2>3. QED
        BY <2>1, <2>2
<1>6. QED
    BY <1>2, <1>3, <1>4, <1>5 DEF DirectoryInv

-----------------------------------------------------------------------------
(* The steps of writers *)

\* What a commit does to the views and to the reads under way.
LEMMA ChangeStep ==
    ASSUME DirectoryInv, NEW facts \in SUBSET Facts, NEW spared \in SUBSET Views,
           Change(facts, spared), UNCHANGED <<raced, unforgotten>>
    PROVE  /\ CopiesFit' /\ ReadersFit' /\ CausesFit'
           /\ gapped \subseteq gapped'
           /\ \A v \in Views : \A f \in copy'[v].old \ copy[v].old :
                 /\ f \in facts \intersect Shows(v)
                 /\ v \in spared => <<v, f>> \in gapped'
<1>1. /\ copy' = [v \in Views |->
              IF copy[v].kept THEN [copy[v] EXCEPT !.old = copy[v].old \union (facts \intersect Shows(v))]
              ELSE copy[v]]
      /\ gapped' = gapped \union
              {p \in spared \X facts : copy[p[1]].kept /\ p[2] \in Shows(p[1])}
    BY DEF Change, Ages
<1>2. CopiesFit'
    <2> SUFFICES ASSUME NEW v \in Views
                 PROVE  /\ copy'[v] \in [kept : BOOLEAN, old : SUBSET Facts]
                        /\ copy'[v].old \subseteq Shows(v)
                        /\ ~copy'[v].kept => copy'[v].old = {}
        BY <1>1 DEF CopiesFit
    <2>1. /\ copy[v] \in [kept : BOOLEAN, old : SUBSET Facts]
          /\ copy[v].old \subseteq Shows(v) /\ (~copy[v].kept => copy[v].old = {})
        BY DEF DirectoryInv, CopiesFit
    <2>2. QED
        BY <1>1, <2>1
<1>3. ReadersFit'
    <2>1. reader' = [r \in Readers |-> [reader[r] EXCEPT !.old = reader[r].old \union (facts \intersect Got(r))]]
        BY DEF Change, Ages
    <2> SUFFICES ASSUME NEW r \in Readers
                 PROVE  /\ reader'[r] \in [view : Views, got : 0..2, old : SUBSET Facts]
                        /\ reader'[r].got <= Len(Parts[reader'[r].view])
                        /\ reader'[r].old \subseteq Shows(reader'[r].view)
        BY <2>1 DEF ReadersFit
    <2>2. /\ reader[r] \in [view : Views, got : 0..2, old : SUBSET Facts]
          /\ reader[r].got <= Len(Parts[reader[r].view])
          /\ reader[r].old \subseteq Shows(reader[r].view)
        BY DEF DirectoryInv, ReadersFit
    <2>3. Got(r) \subseteq Shows(reader[r].view)
        <3>1. reader[r].view \in Views /\ reader[r].got \in 0..Len(Parts[reader[r].view])
            BY <2>2, PartsCounted
        <3>2. QED
            BY <3>1, PartsCounted DEF Got
    <2>4. /\ reader'[r] \in [view : Views, got : 0..2, old : SUBSET Facts]
          /\ reader'[r].view = reader[r].view /\ reader'[r].got = reader[r].got
          /\ reader'[r].old = reader[r].old \union (facts \intersect Got(r))
        BY <2>1, <2>2
    <2>5. QED
        BY <2>2, <2>3, <2>4
<1>4. CausesFit'
    BY <1>1 DEF DirectoryInv, CausesFit
<1>5. ASSUME NEW v \in Views, NEW f \in copy'[v].old \ copy[v].old
      PROVE  /\ f \in facts \intersect Shows(v)
             /\ v \in spared => <<v, f>> \in gapped'
    <2>1. copy[v].kept /\ f \in facts \intersect Shows(v)
        BY <1>1, <1>5 DEF DirectoryInv, CopiesFit
    <2>2. QED
        BY <1>1, <2>1
<1>6. QED
    BY <1>1, <1>2, <1>3, <1>4, <1>5

\* A served write has a deletion to come for every view it does not spare.
LEMMA WriteStep ==
    ASSUME DirectoryInv, NEW w \in Writers, NEW what \in Served, Write(w, what)
    PROVE  DirectoryInv'
<1> DEFINE next == [at |-> "forget", what |-> what, left |-> Writes[what].forgets]
<1>1. what \in DOMAIN Writes /\ Covers(what)
    BY WritesCover DEF Served
<1>2. /\ CopiesFit' /\ ReadersFit' /\ CausesFit' /\ gapped \subseteq gapped'
      /\ \A v \in Views : \A f \in copy'[v].old \ copy[v].old :
            /\ f \in Writes[what].facts \intersect Shows(v)
            /\ v \in Spared[what] => <<v, f>> \in gapped'
    <2> DEFINE facts == Writes[what].facts
               spared == Spared[what]
    <2>1. facts \in SUBSET Facts /\ spared \in SUBSET Views
        BY <1>1 DEF Covers
    <2>2. Change(facts, spared) /\ UNCHANGED <<raced, unforgotten>>
        BY DEF Write
    <2> HIDE DEF facts, spared
    <2>3. /\ CopiesFit' /\ ReadersFit' /\ CausesFit' /\ gapped \subseteq gapped'
          /\ \A v \in Views : \A f \in copy'[v].old \ copy[v].old :
                /\ f \in facts \intersect Shows(v)
                /\ v \in spared => <<v, f>> \in gapped'
        BY <2>1, <2>2, ChangeStep
    <2>4. QED
        BY <2>3 DEF facts, spared
<1>3. /\ writer' = [writer EXCEPT ![w] = next] /\ writer[w].at = "idle"
      /\ writer \in [Writers -> WriterStates] /\ raced' = raced /\ unforgotten' = unforgotten
    BY DEF Write, DirectoryInv, WritersFit
<1>4. writer'[w] = next /\ \A u \in Writers : u # w => writer'[u] = writer[u]
    BY <1>3
<1>5. WritersFit'
    <2>1. /\ next \in WriterStates /\ next.left # <<>>
        BY <1>1 DEF WriterStates, Covers
    <2>2. QED
        BY <1>3, <1>4, <2>1 DEF DirectoryInv, WritersFit
<1>6. OldViewHasCause'
    <2> SUFFICES ASSUME NEW v \in Views, NEW f \in copy'[v].old
                 PROVE  Pending(v, f)' \/ <<v, f>> \in (raced \union unforgotten \union gapped)'
        BY DEF OldViewHasCause
    <2>1. CASE f \in copy[v].old
        <3>1. Pending(v, f) \/ <<v, f>> \in raced \union unforgotten \union gapped
            BY <2>1 DEF DirectoryInv, OldViewHasCause
        <3>2. Pending(v, f) => Pending(v, f)'
            BY <1>3, <1>4 DEF Pending
        <3>3. QED
            BY <1>2, <1>3, <3>1, <3>2
    <2>2. CASE f \notin copy[v].old
        <3>1. f \in Writes[what].facts \intersect Shows(v)
            BY <1>2, <2>2
        <3>2. CASE v \in Spared[what]
            BY <1>2, <2>2, <3>2
        <3>3. CASE v \notin Spared[what]
            <4>1. PICK i \in 1..Len(Writes[what].forgets) : v \in Writes[what].forgets[i]
                BY <1>1, <3>1, <3>3 DEF Covers
            <4>2. i \in DOMAIN next.left
                BY <1>1, <4>1 DEF Covers
            <4>3. QED
                BY <1>4, <3>1, <4>1, <4>2 DEF Pending
        <3>4. QED
            BY <3>2, <3>3
    <2>3. QED
        BY <2>1, <2>2
<1>7. QED
    BY <1>2, <1>5, <1>6 DEF DirectoryInv

\* The two writes that delete nothing name all views they change.
LEMMA UnservedStep ==
    ASSUME DirectoryInv, WriteByAdmin \/ WriteByPass
    PROVE  DirectoryInv'
<1>1. PICK what \in {"AdminChangesRole", "HourlyErasure"} :
          Change(Writes[what].facts, Spared[what])
    BY WriteNames DEF WriteByAdmin, WriteByPass
<1>2. /\ Writes[what].facts \in SUBSET Facts /\ Spared[what] = Views
    BY WriteNames, WritesCover, SparedViews DEF Covers
<1>3. UNCHANGED <<writer, raced, unforgotten>>
    BY DEF WriteByAdmin, WriteByPass
<1>4. /\ CopiesFit' /\ ReadersFit' /\ CausesFit' /\ gapped \subseteq gapped'
      /\ \A v \in Views : \A f \in copy'[v].old \ copy[v].old : <<v, f>> \in gapped'
    <2> DEFINE facts == Writes[what].facts
    <2>1. facts \in SUBSET Facts /\ Views \in SUBSET Views /\ Change(facts, Views)
        BY <1>1, <1>2
    <2> HIDE DEF facts
    <2>2. QED
        BY <2>1, <1>3, ChangeStep
<1>5. WritersFit' /\ OldViewHasCause'
    BY <1>3, <1>4 DEF DirectoryInv, WritersFit, OldViewHasCause, Pending
<1>6. QED
    BY <1>4, <1>5 DEF DirectoryInv

\* Past one deletion, only the views it was for are no longer awaited.
LEMMA AfterForgetStep ==
    ASSUME DirectoryInv, NEW w \in Writers, writer[w].at = "forget", AfterForget(w)
    PROVE  /\ WritersFit'
           /\ Head(writer[w].left) \subseteq Views
           /\ \A v, f : Pending(v, f) =>
                 \/ Pending(v, f)'
                 \/ v \in Head(writer[w].left) /\ f \in Writes[writer[w].what].facts
<1> DEFINE left == writer[w].left
<1>1. /\ writer \in [Writers -> WriterStates] /\ writer[w] \in WriterStates
      /\ left \in Seq(SUBSET Views) /\ left # <<>> /\ Len(left) \in Nat \ {0}
      /\ DOMAIN left = 1..Len(left)
    BY DEF DirectoryInv, WritersFit, WriterStates
<1>2. Head(left) = left[1] /\ Head(left) \subseteq Views
    BY <1>1
<1>3. CASE Len(left) > 1
    <2> DEFINE next == [writer[w] EXCEPT !.left = Tail(left)]
    <2>1. writer' = [writer EXCEPT ![w] = next]
        BY <1>3 DEF AfterForget
    <2>2. /\ Tail(left) \in Seq(SUBSET Views) /\ Len(Tail(left)) = Len(left) - 1
          /\ \A i \in 1..(Len(left) - 1) : Tail(left)[i] = left[i + 1]
        BY <1>1
    <2>3. /\ next \in WriterStates /\ next.left = Tail(left) /\ next.left # <<>>
          /\ next.at = writer[w].at /\ next.what = writer[w].what
          /\ DOMAIN next.left = 1..(Len(left) - 1)
        <3>1. next \in WriterStates /\ next.left = Tail(left)
            BY <1>1, <2>2 DEF WriterStates
        <3>2. next.at = writer[w].at /\ next.what = writer[w].what
            BY <1>1 DEF WriterStates
        <3>3. DOMAIN Tail(left) = 1..(Len(left) - 1) /\ Tail(left) # <<>>
            <4>1. Len(Tail(left)) > 0
                BY <1>3, <1>1, <2>2
            <4> DEFINE tail == Tail(left)
            <4> HIDE DEF tail
            <4>2. tail \in Seq(SUBSET Views) /\ Len(tail) = Len(left) - 1 /\ Len(tail) > 0
                BY <2>2, <4>1 DEF tail
            <4>3. DOMAIN tail = 1..Len(tail) /\ tail # <<>>
                BY <4>2
            <4>4. QED
                BY <4>2, <4>3 DEF tail
        <3>4. QED
            BY <3>1, <3>2, <3>3
    <2> HIDE DEF next
    <2>4. writer'[w] = next /\ \A u \in Writers : u # w => writer'[u] = writer[u]
        BY <1>1, <2>1
    <2>5. WritersFit'
        BY <1>1, <2>1, <2>3, <2>4 DEF DirectoryInv, WritersFit
    <2>6. ASSUME NEW v, NEW f, Pending(v, f)
          PROVE  Pending(v, f)' \/ (v \in Head(left) /\ f \in Writes[writer[w].what].facts)
        <3>1. PICK u \in Writers :
                  /\ writer[u].at = "forget" /\ f \in Writes[writer[u].what].facts
                  /\ \E i \in DOMAIN writer[u].left : v \in writer[u].left[i]
            BY <2>6 DEF Pending
        <3>2. CASE u = w
            <4>1. PICK i \in 1..Len(left) : v \in left[i]
                BY <1>1, <3>1, <3>2
            <4>2. CASE i = 1
                BY <1>2, <3>1, <3>2, <4>1, <4>2
            <4>3. CASE i # 1
                <5>1. i - 1 \in 1..(Len(left) - 1) /\ (i - 1) + 1 = i
                    BY <1>1, <4>1, <4>3
                <5>2. v \in next.left[i - 1] /\ i - 1 \in DOMAIN next.left
                    BY <2>2, <2>3, <4>1, <5>1
                <5>3. QED
                    BY <2>3, <2>4, <3>1, <3>2, <5>2 DEF Pending
            <4>4. QED
                BY <4>2, <4>3
        <3>3. CASE u # w
            BY <2>4, <3>1, <3>3 DEF Pending
        <3>4. QED
            BY <3>2, <3>3
    <2>7. QED
        BY <1>2, <2>5, <2>6
<1>4. CASE ~(Len(left) > 1)
    <2>1. writer' = [writer EXCEPT ![w] = NotWriting]
        BY <1>4 DEF AfterForget
    <2>2. writer'[w] = NotWriting /\ \A u \in Writers : u # w => writer'[u] = writer[u]
        BY <1>1, <2>1
    <2>3. WritersFit'
        BY <1>1, <2>1, <2>2, RestTyped DEF DirectoryInv, WritersFit
    <2>4. ASSUME NEW v, NEW f, Pending(v, f)
          PROVE  Pending(v, f)' \/ (v \in Head(left) /\ f \in Writes[writer[w].what].facts)
        <3>1. PICK u \in Writers :
                  /\ writer[u].at = "forget" /\ f \in Writes[writer[u].what].facts
                  /\ \E i \in DOMAIN writer[u].left : v \in writer[u].left[i]
            BY <2>4 DEF Pending
        <3>2. CASE u = w
            <4>1. PICK i \in 1..Len(left) : v \in left[i]
                BY <1>1, <3>1, <3>2
            <4>2. i = 1
                BY <1>1, <1>4, <4>1
            <4>3. QED
                BY <1>2, <3>1, <3>2, <4>1, <4>2
        <3>3. CASE u # w
            BY <2>2, <3>1, <3>3 DEF Pending
        <3>4. QED
            BY <3>2, <3>3
    <2>5. QED
        BY <1>2, <2>3, <2>4
<1>5. QED
    BY <1>2, <1>3, <1>4

\* A view that goes leaves nothing to explain, and the causes of the others stay.
LEMMA DropStep ==
    ASSUME DirectoryInv, NEW gone \in SUBSET Views, Drop(gone)
    PROVE  /\ CopiesFit' /\ CausesFit'
           /\ \A v \in Views : \A f \in copy'[v].old :
                 /\ v \notin gone /\ f \in copy[v].old
                 /\ Pending(v, f) \/ <<v, f>> \in (raced \union unforgotten \union gapped)'
<1>1. copy' = [v \in Views |-> IF v \in gone THEN NoCopy ELSE copy[v]]
    BY DEF Drop
<1>2. CopiesFit'
    BY <1>1, RestTyped DEF DirectoryInv, CopiesFit
<1>3. CausesFit'
    BY DEF DirectoryInv, CausesFit, Drop, Forgotten
<1>4. ASSUME NEW v \in Views, NEW f \in copy'[v].old
      PROVE  /\ v \notin gone /\ f \in copy[v].old
             /\ Pending(v, f) \/ <<v, f>> \in (raced \union unforgotten \union gapped)'
    <2>1. v \notin gone /\ f \in copy[v].old
        BY <1>1, RestTyped
    <2>2. Pending(v, f) \/ <<v, f>> \in raced \union unforgotten \union gapped
        BY <2>1 DEF DirectoryInv, OldViewHasCause
    <2>3. QED
        BY <2>1, <2>2 DEF Drop, Forgotten
<1>5. QED
    BY <1>2, <1>3, <1>4

\* A copy runs out.
LEMMA ExpiresStep ==
    ASSUME DirectoryInv, ViewExpires
    PROVE  DirectoryInv'
<1>1. PICK v \in Views : Drop({v})
    BY DEF ViewExpires
<1>2. UNCHANGED <<reader, writer>>
    BY DEF ViewExpires
<1>3. /\ CopiesFit' /\ CausesFit'
      /\ \A u \in Views : \A f \in copy'[u].old :
            Pending(u, f) \/ <<u, f>> \in (raced \union unforgotten \union gapped)'
    BY <1>1, DropStep
<1>4. \A u, f : Pending(u, f) => Pending(u, f)'
    BY <1>2 DEF Pending
<1>5. OldViewHasCause'
    BY <1>3, <1>4 DEF OldViewHasCause
<1>6. ReadersFit' /\ WritersFit'
    BY <1>2 DEF DirectoryInv, ReadersFit, WritersFit
<1>7. QED
    BY <1>3, <1>5, <1>6 DEF DirectoryInv

\* A writer deletes the first of the views it has left.
LEMMA ForgetStep ==
    ASSUME DirectoryInv, NEW w \in Writers, ForgetView(w)
    PROVE  DirectoryInv'
<1> DEFINE gone == Head(writer[w].left)
<1>1. writer[w].at = "forget" /\ AfterForget(w) /\ Drop(gone) /\ reader' = reader
    BY DEF ForgetView
<1>2. /\ WritersFit' /\ gone \in SUBSET Views
      /\ \A v, f : Pending(v, f) => Pending(v, f)' \/ v \in gone
    BY <1>1, AfterForgetStep
<1> HIDE DEF gone
<1>3. /\ CopiesFit' /\ CausesFit'
      /\ \A v \in Views : \A f \in copy'[v].old :
            /\ v \notin gone
            /\ Pending(v, f) \/ <<v, f>> \in (raced \union unforgotten \union gapped)'
    BY <1>1, <1>2, DropStep
<1>4. OldViewHasCause'
    BY <1>2, <1>3 DEF OldViewHasCause
<1>5. ReadersFit'
    BY <1>1 DEF DirectoryInv, ReadersFit
<1>6. QED
    BY <1>2, <1>3, <1>4, <1>5 DEF DirectoryInv

\* What a failed deletion leaves behind is among the causes from then on.
LEMMA RemainsNoted ==
    ASSUME DirectoryInv, NEW w \in Writers, NEW views,
           unforgotten' = unforgotten \union Remaining(w, views),
           UNCHANGED <<copy, reader, raced, gapped>>, WritersFit',
           views \subseteq Views,
           \A v, f : Pending(v, f) =>
               Pending(v, f)' \/ (v \in views /\ f \in Writes[writer[w].what].facts)
    PROVE  DirectoryInv'
<1>1. CopiesFit' /\ ReadersFit'
    BY DEF DirectoryInv, CopiesFit, ReadersFit
<1>2. Writes[writer[w].what].facts \subseteq Facts
    <2>1. writer[w] \in WriterStates
        BY DEF DirectoryInv, WritersFit
    <2>2. writer[w].what \in DOMAIN Writes
        BY <2>1 DEF WriterStates
    <2>3. QED
        BY <2>2, WritesCover DEF Covers
<1>3. CausesFit'
    BY <1>2 DEF DirectoryInv, CausesFit, Remaining
<1>4. OldViewHasCause'
    <2> SUFFICES ASSUME NEW v \in Views, NEW f \in copy'[v].old
                 PROVE  Pending(v, f)' \/ <<v, f>> \in (raced \union unforgotten \union gapped)'
        BY DEF OldViewHasCause
    <2>1. f \in copy[v].old /\ copy[v].kept /\ f \in Shows(v)
        BY DEF DirectoryInv, CopiesFit
    <2>2. Pending(v, f) \/ <<v, f>> \in raced \union unforgotten \union gapped
        BY <2>1 DEF DirectoryInv, OldViewHasCause
    <2>3. v \in views /\ f \in Writes[writer[w].what].facts => <<v, f>> \in unforgotten'
        BY <2>1 DEF Remaining
    <2>4. QED
        BY <2>2, <2>3
<1>5. QED
    BY <1>1, <1>3, <1>4 DEF DirectoryInv

\* Redis refuses the deletion: the writer goes on, and the views stay.
LEMMA ForgetFailsStep ==
    ASSUME DirectoryInv, NEW w \in Writers, ForgetViewFails(w)
    PROVE  DirectoryInv'
<1> DEFINE views == Head(writer[w].left)
<1>1. /\ writer[w].at = "forget" /\ AfterForget(w)
      /\ unforgotten' = unforgotten \union Remaining(w, views)
      /\ UNCHANGED <<copy, reader, raced, gapped>>
    BY DEF ForgetViewFails
<1>2. /\ WritersFit' /\ views \subseteq Views
      /\ \A v, f : Pending(v, f) =>
            Pending(v, f)' \/ (v \in views /\ f \in Writes[writer[w].what].facts)
    BY <1>1, AfterForgetStep
<1> HIDE DEF views
<1>3. QED
    BY <1>1, <1>2, RemainsNoted

\* A writer is cut off: the views it had left stay.
LEMMA WriteCutOffStep ==
    ASSUME DirectoryInv, NEW w \in Writers, WriteCutOff(w)
    PROVE  DirectoryInv'
<1> DEFINE views == UNION {writer[w].left[i] : i \in DOMAIN writer[w].left}
<1>1. /\ writer[w].at = "forget" /\ writer' = [writer EXCEPT ![w] = NotWriting]
      /\ unforgotten' = unforgotten \union Remaining(w, views)
      /\ UNCHANGED <<copy, reader, raced, gapped>>
    BY DEF WriteCutOff
<1>2. writer \in [Writers -> WriterStates] /\ writer[w].left \in Seq(SUBSET Views)
    BY DEF DirectoryInv, WritersFit, WriterStates
<1>3. writer'[w] = NotWriting /\ \A u \in Writers : u # w => writer'[u] = writer[u]
    BY <1>1, <1>2
<1>4. WritersFit'
    BY <1>1, <1>2, <1>3, RestTyped DEF DirectoryInv, WritersFit
<1>5. views \subseteq Views
    BY <1>2
<1>6. \A v, f : Pending(v, f) =>
          Pending(v, f)' \/ (v \in views /\ f \in Writes[writer[w].what].facts)
    BY <1>3 DEF Pending
<1> HIDE DEF views
<1>7. QED
    BY <1>1, <1>4, <1>5, <1>6, RemainsNoted

\* Every step keeps the invariant.
LEMMA NextDirectory == DirectoryInv /\ [DirectoryNext]_directoryVars => DirectoryInv'
<1> SUFFICES ASSUME DirectoryInv, [DirectoryNext]_directoryVars
             PROVE  DirectoryInv'
    OBVIOUS
<1>1. ASSUME NEW r \in Readers, NEW v \in Views, Look(r, v)
      PROVE  DirectoryInv'
    BY <1>1, LookStep
<1>2. ASSUME NEW r \in Readers,
             \/ ListUsers(r) \/ ShowUser(r) \/ ConsentStatus(r) \/ ListEmployees(r)
             \/ ShowEmployee(r) \/ ShowCompany(r) \/ ShowPermissions(r)
      PROVE  DirectoryInv'
    BY <1>1, <1>2, ViewNames
        DEF ListUsers, ShowUser, ConsentStatus, ListEmployees, ShowEmployee, ShowCompany,
            ShowPermissions
<1>3. ASSUME NEW r \in Readers, SelectNext(r) \/ KeepView(r) \/ ReadFails(r)
      PROVE  DirectoryInv'
    BY <1>3, SelectStep, KeepStep
<1>4. ASSUME NEW w \in Writers, NEW what \in Served, Write(w, what)
      PROVE  DirectoryInv'
    BY <1>4, WriteStep
<1>5. ASSUME NEW w \in Writers,
             \/ CreateAccount(w) \/ ChangeUser(w) \/ DeactivateUser(w) \/ CreateEmployeeOf(w)
             \/ ChangeEmployee(w) \/ DeleteEmployee(w) \/ UpdateCompanyOf(w)
             \/ UpdatePermissions(w) \/ SeedPermissions(w) \/ ScheduleErasure(w)
             \/ CancelErasure(w) \/ EraseUser(w)
      PROVE  DirectoryInv'
    <2>1. {"AddUser", "UpdateUser", "Deactivate", "AddEmployee", "UpdateEmployee",
           "ChangeCompany", "Permit", "Seed", "PlanErasure", "DropErasure", "Erase"}
              \subseteq Served
        BY WriteNames DEF Served
    <2>2. QED
        BY <1>4, <1>5, <2>1
            DEF CreateAccount, ChangeUser, DeactivateUser, CreateEmployeeOf, ChangeEmployee,
                DeleteEmployee, UpdateCompanyOf, UpdatePermissions, SeedPermissions,
                ScheduleErasure, CancelErasure, EraseUser
<1>6. ASSUME NEW w \in Writers, ForgetView(w) \/ ForgetViewFails(w) \/ WriteCutOff(w)
      PROVE  DirectoryInv'
    BY <1>6, ForgetStep, ForgetFailsStep, WriteCutOffStep
<1>7. ASSUME UNCHANGED directoryVars
      PROVE  DirectoryInv'
    BY <1>7 DEF directoryVars, DirectoryInv, CopiesFit, ReadersFit, WritersFit, CausesFit,
                OldViewHasCause, Pending
<1>8. QED
    BY <1>2, <1>3, <1>5, <1>6, <1>7, UnservedStep, ExpiresStep DEF DirectoryNext

\* Every reachable state of StaffDirectory satisfies the invariant.
THEOREM DirectoryInvariant == DirectorySpec => []DirectoryInv
BY InitDirectory, NextDirectory, PTL DEF DirectorySpec

\* Copies, readers, writers and causes keep their types.
THEOREM DirectoryTypeCorrect == DirectorySpec => []DirectoryTypeOK
BY DirectoryInvariant, InvGivesType, PTL

\* A view that user-bl-service has cached shows something old only until the write
\* gets to delete it, unless a reader kept what it had selected before, the
\* deletion failed or was cut off, or the write does not know of the view.
THEOREM OldViewsHaveCause == DirectorySpec => []OldViewHasCause
<1>1. DirectoryInv => OldViewHasCause
    BY DEF DirectoryInv
<1>2. QED
    BY <1>1, DirectoryInvariant, PTL

-----------------------------------------------------------------------------
(***************************************************************************)
(* OrganizationAdmin.  Each request works on a copy it read before: what it *)
(* saw ties it to rows that others have edited meanwhile.                  *)
(***************************************************************************)

\* A request that has found, or inserted, the row it edits.
KnowsRow(d) ==
    \/ d.at = "prefs"
    \/ d.at \in {"commit", "entry"} /\ d.kind \notin {"setting", "role"}

\* A request that has seen a row knows an id that is, or has been, in the table.
SeenRowsExist ==
    \A a \in Admins : KnowsRow(desk[a]) => org[desk[a].org].slug # Missing

\* An id that is about to be inserted is free, and nobody else inserts it.
InsertsAreNew ==
    \A a \in Admins :
        desk[a].at = "insert" =>
            /\ org[desk[a].org] = NoOrg
            /\ \A b \in Admins : b # a /\ desk[b].at = "insert" => desk[b].org # desk[a].org

\* What lacks an entry that was not lost has been deleted, and for good.
UnrecordedIsGone ==
    \A t \in unrecorded \ lostEntries : t \in Organizations /\ org[t].slug = Gone

\* A request for a setting asks for a value, an insertion for a slug.
AskFits(d) ==
    /\ d.kind = "setting" => d.wants \in SettingValues \union {Missing}
    /\ d.at = "insert" => d.wants \in Slugs

\* Every request at a desk asks for what its kind can ask.
AsksFit == \A a \in Admins : AskFits(desk[a])

\* The invariant.  The histories of the run explain a state only together with
\* the requests on their way: what is neither recorded nor lost is still to be.
AdminInv ==
    /\ AdminTypeOK
    /\ AsksFit
    /\ SeenRowsExist
    /\ InsertsAreNew
    /\ UnrecordedIsGone
    /\ SuspensionIsWhole
    /\ SettingIsSettled

-----------------------------------------------------------------------------
(* The rows *)

\* What a request holds.
Desks == [at : {"idle", "insert", "commit", "prefs", "entry"},
          kind : AdminKinds, org : Organizations, key : Settings,
          seen : OrgRows, seenValue : SettingValues \union {Missing},
          wants : Slugs \union SettingValues \union {Missing}]

\* What stands for no request.
LEMMA AtDeskTyped == AtDesk \in Desks /\ AtDesk.at = "idle" /\ AtDesk.wants = Missing
                       /\ AtDesk.kind = "update" /\ NoOrg \in OrgRows
<1>1. (CHOOSE o \in Organizations : TRUE) \in Organizations
    <2>1. \E o \in Organizations : TRUE
        BY AdminConstants
    <2>2. QED
        BY <2>1
<1>2. (CHOOSE k \in Settings : TRUE) \in Settings
    <2>1. \E k \in Settings : TRUE
        BY AdminConstants
    <2>2. QED
        BY <2>1
<1>3. QED
    BY <1>1, <1>2 DEF AtDesk, Desks, NoOrg, OrgRows, AdminKinds

\* A commit writes a row of the table.
LEMMA FlushedOrgTyped ==
    ASSUME NEW seen \in OrgRows, NEW new \in OrgRows, NEW entry \in OrgRows
    PROVE  /\ FlushedOrg(seen, new, entry) \in OrgRows
           /\ seen = entry => FlushedOrg(seen, new, entry) = new
           /\ FlushedOrg(seen, new, entry).slug \in {new.slug, entry.slug}
BY DEF FlushedOrg, OrgRows

\* At first no request is made and nothing is accepted.
LEMMA InitAdmin == AdminInit => AdminInv
<1> SUFFICES ASSUME AdminInit PROVE AdminInv
    OBVIOUS
<1>1. AdminTypeOK
    BY AtDeskTyped DEF AdminInit, AdminTypeOK, Desks
<1>2. /\ AsksFit /\ SeenRowsExist /\ InsertsAreNew /\ UnrecordedIsGone
      /\ SuspensionIsWhole /\ SettingIsSettled
    BY DEF AdminInit, AsksFit, AskFits, SeenRowsExist, InsertsAreNew, UnrecordedIsGone, KnowsRow,
           SuspensionIsWhole, SettingIsSettled, AtDesk, NoOrg
<1>3. QED
    BY <1>1, <1>2 DEF AdminInv

-----------------------------------------------------------------------------
(* A request moves, and all rows and the trail stay *)

\* Going home is always fine.
LEMMA DeskMoves ==
    ASSUME AdminInv, NEW a \in Admins, NEW d \in Desks,
           desk' = [desk EXCEPT ![a] = d],
           AskFits(d),
           /\ KnowsRow(d) => org'[d.org].slug # Missing
           /\ d.at = "insert" =>
                 /\ org'[d.org] = NoOrg
                 /\ \A b \in Admins : desk[b].at = "insert" => desk[b].org # d.org
           /\ org' \in [Organizations -> OrgRows]
           /\ \A o \in Organizations :
                 /\ org[o].slug # Missing => org'[o].slug # Missing
                 /\ org'[o] = org[o] \/ org[o].slug # Missing
                       \/ (desk[a].at = "insert" /\ desk[a].org = o)
    PROVE  /\ desk' \in [Admins -> Desks] /\ AsksFit' /\ SeenRowsExist' /\ InsertsAreNew'
<1>1. /\ desk \in [Admins -> Desks] /\ desk' \in [Admins -> Desks]
      /\ desk'[a] = d /\ \A b \in Admins : b # a => desk'[b] = desk[b]
      /\ \A b \in Admins : desk[b].org \in Organizations
      /\ org \in [Organizations -> OrgRows]
    BY DEF AdminInv, AdminTypeOK, Desks
<1>2. SeenRowsExist'
    BY <1>1 DEF AdminInv, SeenRowsExist
<1>3. InsertsAreNew'
    <2> SUFFICES ASSUME NEW b \in Admins, desk'[b].at = "insert"
                 PROVE  /\ org'[desk'[b].org] = NoOrg
                        /\ \A c \in Admins : c # b /\ desk'[c].at = "insert" => desk'[c].org # desk'[b].org
        BY DEF InsertsAreNew
    <2>1. CASE b = a
        BY <1>1, <2>1
    <2>2. CASE b # a
        <3>1. desk'[b] = desk[b] /\ org[desk[b].org] = NoOrg
            BY <1>1, <2>2 DEF AdminInv, InsertsAreNew
        <3>2. NoOrg.slug = Missing
            BY DEF NoOrg
        <3>3. ~(desk[a].at = "insert" /\ desk[a].org = desk[b].org)
            BY <1>1, <2>2, <3>1 DEF AdminInv, InsertsAreNew
        <3>4. org'[desk[b].org] = NoOrg
            BY <1>1, <3>1, <3>2, <3>3
        <3>5. ASSUME NEW c \in Admins, c # b, desk'[c].at = "insert"
              PROVE  desk'[c].org # desk'[b].org
            <4>1. CASE c = a
                BY <1>1, <3>1, <4>1, <3>5
            <4>2. CASE c # a
                BY <1>1, <3>1, <4>2, <3>5 DEF AdminInv, InsertsAreNew
            <4>3. QED
                BY <4>1, <4>2
        <3>6. QED
            BY <3>1, <3>4, <3>5
    <2>3. QED
        BY <2>1, <2>2
<1>4. AsksFit'
    BY <1>1 DEF AdminInv, AsksFit
<1>5. QED
    BY <1>1, <1>2, <1>3, <1>4

\* What a step of a request that leaves the rows alone has to show.
LEMMA RowsStay ==
    ASSUME AdminInv, NEW a \in Admins, NEW d \in Desks,
           desk' = [desk EXCEPT ![a] = d],
           AskFits(d),
           /\ KnowsRow(d) => org[d.org].slug # Missing
           /\ d.at = "insert" =>
                 /\ org[d.org] = NoOrg
                 /\ \A b \in Admins : desk[b].at = "insert" => desk[b].org # d.org,
           UNCHANGED <<org, blurred>>,
           setting' \in [Settings -> SettingValues \union {Missing}],
           settled' = setting',
           unrecorded' \subseteq Organizations \union Settings,
           lostEntries \subseteq lostEntries',
           lostEntries' \subseteq Organizations \union Settings,
           \A t \in unrecorded' \ unrecorded :
               t \in lostEntries' \/ (t \in Organizations /\ org[t].slug = Gone)
    PROVE  AdminInv'
<1>1. /\ desk' \in [Admins -> Desks] /\ AsksFit' /\ SeenRowsExist' /\ InsertsAreNew'
    <2>1. org \in [Organizations -> OrgRows]
        BY DEF AdminInv, AdminTypeOK
    <2>2. QED
        BY <2>1, DeskMoves
<1>2. AdminTypeOK'
    BY <1>1 DEF AdminInv, AdminTypeOK, Desks
<1>3. UnrecordedIsGone' /\ SuspensionIsWhole' /\ SettingIsSettled'
    BY DEF AdminInv, UnrecordedIsGone, SuspensionIsWhole, SettingIsSettled
<1>4. QED
    BY <1>1, <1>2, <1>3 DEF AdminInv

-----------------------------------------------------------------------------
(* The steps that leave the organizations alone *)

\* Requests up to their SELECT.
LEMMA RequestBegins ==
    ASSUME AdminInv, NEW a \in Admins
    PROVE  /\ \A o \in Organizations :
                 /\ \A kind \in AdminKinds \ {"setting", "role", "create"} :
                        LoadOrg(a, kind, o) => AdminInv'
                 /\ \A slug \in Slugs : CreateOrganization(a, o, slug) => AdminInv'
                 /\ UpdateCompany(a, o) => AdminInv'
           /\ UpdateUserRole(a) => AdminInv'
           /\ \A k \in Settings, value \in SettingValues :
                 UpdateSetting(a, k, value) => AdminInv'
<1>1. /\ AdminTypeOK /\ setting = settled /\ org \in [Organizations -> OrgRows]
      /\ AtDesk \in Desks
    BY AtDeskTyped DEF AdminInv, AdminTypeOK, SettingIsSettled
<1>2. ASSUME NEW o \in Organizations, NEW kind \in AdminKinds \ {"setting", "role", "create"},
             LoadOrg(a, kind, o)
      PROVE  AdminInv'
    <2> DEFINE d == [AtDesk EXCEPT !.at = "commit", !.kind = kind, !.org = o, !.seen = org[o]]
    <2>1. d \in Desks /\ d.at = "commit" /\ d.org = o /\ AskFits(d)
        BY <1>1, <1>2 DEF Desks, AskFits
    <2>2. org[o].slug # Missing
        BY <1>2, AdminConstants DEF LoadOrg, There
    <2>3. desk' = [desk EXCEPT ![a] = d] /\ UNCHANGED <<adminRows, adminTrail>>
        BY <1>2 DEF LoadOrg
    <2>4. QED
        BY <1>1, <2>1, <2>2, <2>3, RowsStay DEF adminRows, adminTrail, AdminTypeOK
<1>3. ASSUME NEW o \in Organizations, NEW slug \in Slugs, CreateOrganization(a, o, slug)
      PROVE  AdminInv'
    <2> DEFINE d == [AtDesk EXCEPT !.at = "insert", !.kind = "create", !.org = o,
                                   !.wants = slug]
    <2>1. d \in Desks /\ d.at = "insert" /\ d.org = o /\ AskFits(d) /\ ~KnowsRow(d)
        BY <1>1 DEF Desks, AdminKinds, AskFits, KnowsRow
    <2>2. /\ desk' = [desk EXCEPT ![a] = d] /\ UNCHANGED <<adminRows, adminTrail>>
          /\ org[o] = NoOrg /\ \A b \in Admins : desk[b].at = "insert" => desk[b].org # o
        BY <1>3 DEF CreateOrganization
    <2>3. QED
        BY <1>1, <2>1, <2>2, RowsStay DEF adminRows, adminTrail, AdminTypeOK
<1>4. ASSUME NEW o \in Organizations, UpdateCompany(a, o)
      PROVE  AdminInv'
    <2>1. PICK where \in {"prefs", "entry"} :
              desk' = [desk EXCEPT ![a] = [AtDesk EXCEPT !.at = where, !.kind = "company",
                                                         !.org = o]]
        BY <1>4 DEF UpdateCompany
    <2> DEFINE d == [AtDesk EXCEPT !.at = where, !.kind = "company", !.org = o]
    <2>2. d \in Desks /\ d.at = where /\ d.org = o /\ AskFits(d)
        BY <1>1 DEF Desks, AdminKinds, AskFits, KnowsRow
    <2>3. org[o].slug # Missing /\ UNCHANGED <<adminRows, adminTrail>>
        BY <1>4, AdminConstants DEF UpdateCompany, There
    <2>4. QED
        BY <1>1, <2>1, <2>2, <2>3, RowsStay DEF adminRows, adminTrail, AdminTypeOK
<1>5. ASSUME UpdateUserRole(a)
      PROVE  AdminInv'
    <2> DEFINE d == [AtDesk EXCEPT !.at = "entry", !.kind = "role"]
    <2>1. d \in Desks /\ d.at = "entry" /\ d.kind = "role" /\ AskFits(d) /\ ~KnowsRow(d)
        BY <1>1 DEF Desks, AdminKinds, AskFits, KnowsRow
    <2>2. desk' = [desk EXCEPT ![a] = d] /\ UNCHANGED <<adminRows, adminTrail>>
        BY <1>5 DEF UpdateUserRole
    <2>3. QED
        BY <1>1, <2>1, <2>2, RowsStay DEF adminRows, adminTrail, AdminTypeOK
<1>6. ASSUME NEW k \in Settings, NEW value \in SettingValues, UpdateSetting(a, k, value)
      PROVE  AdminInv'
    <2> DEFINE d == [AtDesk EXCEPT !.at = "commit", !.kind = "setting", !.key = k,
                                   !.wants = value, !.seenValue = setting[k]]
    <2>1. d \in Desks /\ d.kind = "setting" /\ d.at = "commit" /\ AskFits(d) /\ ~KnowsRow(d)
        BY <1>1 DEF Desks, AdminKinds, AdminTypeOK, AskFits, KnowsRow
    <2>2. desk' = [desk EXCEPT ![a] = d] /\ UNCHANGED <<org, setting, blurred, adminTrail>>
        BY <1>6 DEF UpdateSetting
    <2>3. settled' = setting
        BY <1>1, <1>6 DEF UpdateSetting, AdminTypeOK
    <2>4. QED
        BY <1>1, <2>1, <2>2, <2>3, RowsStay DEF adminTrail, AdminTypeOK
<1>7. QED
    BY <1>2, <1>3, <1>4, <1>5, <1>6

\* A commit of a setting and all that becomes of an entry.
LEMMA RequestEnds ==
    ASSUME AdminInv, NEW a \in Admins
    PROVE  CommitPreferences(a) \/ CommitSetting(a) \/ WriteEntry(a) \/ EntryLost(a)
              \/ AdminCutOff(a) => AdminInv'
<1> DEFINE next == [AtDesk EXCEPT !.at = "entry", !.kind = desk[a].kind,
                                  !.org = desk[a].org, !.key = desk[a].key]
<1>1. /\ AdminTypeOK /\ setting = settled /\ org \in [Organizations -> OrgRows]
      /\ AtDesk \in Desks /\ AtDesk.at = "idle" /\ ~KnowsRow(AtDesk) /\ AskFits(AtDesk)
      /\ desk[a] \in Desks /\ AskFits(desk[a])
    BY AtDeskTyped DEF AdminInv, AdminTypeOK, SettingIsSettled, Desks, KnowsRow, AskFits, AsksFit
<1>2. /\ next \in Desks /\ next.at = "entry" /\ next.kind = desk[a].kind
      /\ next.org = desk[a].org /\ AskFits(next)
    BY <1>1, AtDeskTyped DEF Desks, AskFits
<1>3. Target(a) \in Organizations \union Settings
    BY <1>1 DEF Target, Desks
<1>4. KnowsRow(desk[a]) => org[desk[a].org].slug # Missing
    BY DEF AdminInv, SeenRowsExist
<1>5. ASSUME ~There(desk[a].org), KnowsRow(desk[a])
      PROVE  org[desk[a].org].slug = Gone /\ desk[a].org \in Organizations
    BY <1>1, <1>4, <1>5 DEF There, OrgRows, Desks
<1>6. CASE CommitPreferences(a)
    <2>1. KnowsRow(desk[a]) /\ UNCHANGED adminRows
        BY <1>6 DEF CommitPreferences, KnowsRow
    <2>2. CASE There(desk[a].org)
        <3>1. desk' = [desk EXCEPT ![a] = next] /\ UNCHANGED adminTrail
            BY <1>6, <2>2 DEF CommitPreferences, Changed, Proceed
        <3>2. QED
            BY <1>1, <1>2, <1>4, <2>1, <3>1, RowsStay DEF adminRows, adminTrail, AdminTypeOK
    <2>3. CASE ~There(desk[a].org)
        <3>1. /\ desk' = [desk EXCEPT ![a] = AtDesk] /\ UNCHANGED lostEntries
              /\ unrecorded' = unrecorded \union {desk[a].org}
            BY <1>6, <2>3 DEF CommitPreferences, Home
        <3>2. QED
            BY <1>1, <1>5, <2>1, <2>3, <3>1, RowsStay DEF adminRows, AdminTypeOK
    <2>4. QED
        BY <2>2, <2>3
<1>7. CASE CommitSetting(a)
    <2> DEFINE written == ~(desk[a].seenValue = Missing /\ setting[desk[a].key] # Missing)
                              /\ desk[a].wants # desk[a].seenValue
    <2>1. /\ desk[a].kind = "setting" /\ UNCHANGED <<org, blurred>>
          /\ setting' = IF written THEN [setting EXCEPT ![desk[a].key] = desk[a].wants] ELSE setting
          /\ settled' = IF written THEN [settled EXCEPT ![desk[a].key] = desk[a].wants] ELSE settled
          /\ desk' \in {[desk EXCEPT ![a] = AtDesk], [desk EXCEPT ![a] = next]}
          /\ UNCHANGED adminTrail
        BY <1>7 DEF CommitSetting, AtOrgCommit, Home, Changed, Proceed
    <2>2. desk[a].wants \in SettingValues \union {Missing}
        BY <1>1, <2>1 DEF AskFits
    <2>3. settled' = setting' /\ setting' \in [Settings -> SettingValues \union {Missing}]
        BY <1>1, <2>1, <2>2 DEF AdminTypeOK
    <2>4. ~KnowsRow(next)
        BY <1>2, <2>1 DEF KnowsRow
    <2>5. QED
        BY <1>1, <1>2, <2>1, <2>3, <2>4, RowsStay DEF adminTrail, AdminTypeOK
<1>8. CASE WriteEntry(a)
    <2>1. /\ desk' = [desk EXCEPT ![a] = AtDesk] /\ UNCHANGED adminRows
          /\ UNCHANGED lostEntries /\ desk[a].at = "entry"
        BY <1>8 DEF WriteEntry, Home
    <2>2. CASE desk[a].kind \in ScopedKinds /\ ~There(desk[a].org)
        <3>1. KnowsRow(desk[a]) /\ Target(a) = desk[a].org
            BY <2>1, <2>2 DEF KnowsRow, ScopedKinds, Target
        <3>2. unrecorded' = unrecorded \union {desk[a].org}
            BY <1>8, <2>2, <3>1 DEF WriteEntry
        <3>3. QED
            BY <1>1, <1>5, <2>1, <2>2, <3>1, <3>2, RowsStay DEF adminRows, AdminTypeOK
    <2>3. CASE ~(desk[a].kind \in ScopedKinds /\ ~There(desk[a].org))
        <3>1. UNCHANGED unrecorded
            BY <1>8, <2>3 DEF WriteEntry
        <3>2. QED
            BY <1>1, <2>1, <3>1, RowsStay DEF adminRows, AdminTypeOK
    <2>4. QED
        BY <2>2, <2>3
<1>9. CASE EntryLost(a)
    <2>1. /\ desk' = [desk EXCEPT ![a] = AtDesk] /\ UNCHANGED adminRows
          /\ unrecorded' = unrecorded \union {Target(a)}
          /\ lostEntries' = lostEntries \union {Target(a)}
        BY <1>9 DEF EntryLost, Home
    <2>2. QED
        BY <1>1, <1>3, <2>1, RowsStay DEF adminRows, AdminTypeOK
<1>10. CASE AdminCutOff(a)
    BY <1>1, <1>10, RowsStay DEF AdminCutOff, Home, adminRows, adminTrail, AdminTypeOK
<1>11. QED
    BY <1>6, <1>7, <1>8, <1>9, <1>10

-----------------------------------------------------------------------------
(* The steps that change an organization *)

\* A row is put in the place of another one, or of nothing.
LEMMA RowChanges ==
    ASSUME AdminInv, NEW a \in Admins, NEW o \in Organizations, NEW entry \in OrgRows,
           NEW d \in {AtDesk, [AtDesk EXCEPT !.at = "entry", !.kind = desk[a].kind,
                                              !.org = desk[a].org, !.key = desk[a].key]},
           o = desk[a].org,
           org' = [org EXCEPT ![o] = entry], desk' = [desk EXCEPT ![a] = d],
           entry.slug # Missing,
           org[o].slug # Missing \/ desk[a].at = "insert",
           org[o].slug = Gone => entry.slug = Gone,
           blurred' \in {blurred, blurred \union {o}},
           entry.active /\ entry.reason => o \in blurred',
           UNCHANGED <<setting, settled, adminTrail>>
    PROVE  AdminInv'
<1>1. /\ AdminTypeOK /\ org \in [Organizations -> OrgRows]
      /\ org' \in [Organizations -> OrgRows] /\ org'[o] = entry
      /\ \A p \in Organizations : p # o => org'[p] = org[p]
      /\ desk[a] \in Desks /\ AtDesk \in Desks /\ ~KnowsRow(AtDesk) /\ AskFits(AtDesk)
      /\ AtDesk.at = "idle" /\ AtDesk.wants = Missing
    BY AtDeskTyped DEF AdminInv, AdminTypeOK, Desks, KnowsRow, AskFits
<1>2. d \in Desks /\ AskFits(d) /\ d.at # "insert" /\ (d = AtDesk \/ d.org = o)
    BY <1>1 DEF Desks, AskFits
<1>3. \A p \in Organizations :
          /\ org[p].slug # Missing => org'[p].slug # Missing
          /\ org'[p] = org[p] \/ org[p].slug # Missing
                \/ (desk[a].at = "insert" /\ desk[a].org = p)
    BY <1>1
<1>4. KnowsRow(d) => org'[d.org].slug # Missing
    BY <1>1, <1>2
<1>5. /\ desk' \in [Admins -> Desks] /\ AsksFit' /\ SeenRowsExist' /\ InsertsAreNew'
    BY <1>1, <1>2, <1>3, <1>4, DeskMoves
<1>6. AdminTypeOK'
    BY <1>1, <1>5 DEF AdminTypeOK, Desks, adminTrail
<1>7. UnrecordedIsGone'
    BY <1>1, AdminConstants DEF AdminInv, UnrecordedIsGone, adminTrail
<1>8. SuspensionIsWhole'
    BY <1>1 DEF AdminInv, SuspensionIsWhole
<1>9. SettingIsSettled'
    BY DEF AdminInv, SettingIsSettled
<1>10. QED
    BY <1>5, <1>6, <1>7, <1>8, <1>9 DEF AdminInv

\* Nothing but the desk changes.
LEMMA RequestRefused ==
    ASSUME AdminInv, NEW a \in Admins, Home(a), UNCHANGED <<adminRows, adminTrail>>
    PROVE  AdminInv'
<1>1. /\ AdminTypeOK /\ setting = settled
      /\ AtDesk \in Desks /\ ~KnowsRow(AtDesk) /\ AskFits(AtDesk) /\ AtDesk.at = "idle"
    BY AtDeskTyped DEF AdminInv, AdminTypeOK, Desks, KnowsRow, AskFits, SettingIsSettled
<1>2. QED
    BY <1>1, RowsStay DEF Home, adminRows, adminTrail, AdminTypeOK

\* An UPDATE from a copy: whole if the copy was, or else named as blurred.
LEMMA OrgCommitStep ==
    ASSUME AdminInv, NEW a \in Admins, NEW new \in OrgRows, NEW half \in BOOLEAN,
           OrgCommit(a, new, half),
           new.slug \in Slugs \/ new.slug = desk[a].seen.slug,
           new.active /\ new.reason => half
    PROVE  AdminInv'
<1> DEFINE o == desk[a].org
           entry == FlushedOrg(desk[a].seen, new, org[o])
           denied == ~There(o) \/ \E p \in Organizations \ {o} : org[p].slug = entry.slug
<1>1. /\ o \in Organizations /\ desk[a].seen \in OrgRows /\ org[o] \in OrgRows
    BY DEF AdminInv, AdminTypeOK
<1>2. UNCHANGED <<setting, settled>>
    BY DEF OrgCommit
<1>3. CASE denied
    <2>1. Home(a) /\ UNCHANGED <<org, blurred, adminTrail>>
        BY <1>3 DEF OrgCommit
    <2>2. QED
        BY <1>2, <2>1, RequestRefused DEF adminRows
<1>4. CASE ~denied
    <2>1. /\ org' = [org EXCEPT ![o] = entry]
          /\ blurred' = IF half \/ desk[a].seen # org[o] THEN blurred \union {o} ELSE blurred
          /\ (Home(a) /\ UNCHANGED adminTrail) \/ Changed(a)
        BY <1>4 DEF OrgCommit
    <2>2. entry \in OrgRows /\ (desk[a].seen = org[o] => entry = new)
        BY <1>1, FlushedOrgTyped
    <2>3. org[o].slug \in Slugs /\ entry.slug \in Slugs
        BY <1>4, <1>1 DEF There, FlushedOrg
    <2>4. entry.slug # Missing /\ org[o].slug # Missing /\ org[o].slug # Gone
        BY <2>3, AdminConstants
    <2>5. entry.active /\ entry.reason => o \in blurred'
        BY <2>1, <2>2
    <2>6. QED
        BY <1>1, <1>2, <2>1, <2>2, <2>4, <2>5, RowChanges DEF Home, Changed, Proceed
<1>5. QED
    BY <1>3, <1>4

\* The four commits that edit a row.
LEMMA EditsHold ==
    ASSUME AdminInv, NEW a \in Admins
    PROVE  CommitOrgUpdate(a) \/ CommitSuspension(a) \/ CommitSuspendHere(a)
              \/ CommitUnsuspendHere(a) => AdminInv'
<1>1. desk[a].seen \in OrgRows
    BY DEF AdminInv, AdminTypeOK
<1>2. ASSUME CommitOrgUpdate(a) PROVE AdminInv'
    <2>1. PICK slug \in Slugs, active \in BOOLEAN, reason \in BOOLEAN :
              OrgCommit(a, [desk[a].seen EXCEPT !.slug = slug, !.active = active,
                                                !.reason = reason], active /\ reason)
        BY <1>2 DEF CommitOrgUpdate
    <2> DEFINE new == [desk[a].seen EXCEPT !.slug = slug, !.active = active,
                                           !.reason = reason]
    <2>2. /\ new \in OrgRows /\ new.slug = slug
          /\ new.active /\ new.reason => active /\ reason
        BY <1>1 DEF OrgRows
    <2>3. (active /\ reason) \in BOOLEAN
        OBVIOUS
    <2>4. QED
        BY <2>1, <2>2, <2>3, OrgCommitStep
<1>3. ASSUME CommitSuspension(a) PROVE AdminInv'
    <2>1. PICK kind \in {"suspend", "unsuspend"} :
              OrgCommit(a, Suspended(desk[a].seen, kind), FALSE)
        BY <1>3 DEF CommitSuspension
    <2> DEFINE new == Suspended(desk[a].seen, kind)
    <2>2. /\ new \in OrgRows /\ new.slug = desk[a].seen.slug
          /\ ~(new.active /\ new.reason)
        BY <1>1 DEF OrgRows, Suspended
    <2>3. QED
        BY <2>1, <2>2, OrgCommitStep
<1>4. ASSUME CommitSuspendHere(a) PROVE AdminInv'
    <2>1. PICK reason \in BOOLEAN :
              OrgCommit(a, [desk[a].seen EXCEPT !.active = FALSE, !.reason = reason], FALSE)
        BY <1>4 DEF CommitSuspendHere
    <2> DEFINE new == [desk[a].seen EXCEPT !.active = FALSE, !.reason = reason]
    <2>2. new \in OrgRows /\ new.slug = desk[a].seen.slug /\ ~new.active
        BY <1>1 DEF OrgRows
    <2>3. QED
        BY <2>1, <2>2, OrgCommitStep
<1>5. ASSUME CommitUnsuspendHere(a) PROVE AdminInv'
    <2> DEFINE new == [desk[a].seen EXCEPT !.active = TRUE, !.reason = FALSE]
    <2>1. new \in OrgRows /\ new.slug = desk[a].seen.slug /\ ~new.reason
        BY <1>1 DEF OrgRows
    <2>2. OrgCommit(a, new, FALSE)
        BY <1>5 DEF CommitUnsuspendHere
    <2>3. QED
        BY <2>1, <2>2, OrgCommitStep
<1>6. QED
    BY <1>2, <1>3, <1>4, <1>5

\* A row comes, or goes for good.
LEMMA OrgComesOrGoes ==
    ASSUME AdminInv, NEW a \in Admins
    PROVE  CommitOrgDelete(a) \/ InsertOrganization(a) => AdminInv'
<1> DEFINE o == desk[a].org
<1>1. /\ desk[a] \in Desks /\ o \in Organizations /\ NoOrg \in OrgRows
      /\ desk \in [Admins -> Desks]
      /\ NoOrg.slug = Missing /\ ~NoOrg.reason /\ ~NoOrg.active
    BY AtDeskTyped DEF AdminInv, AdminTypeOK, Desks, NoOrg
<1>2. ASSUME CommitOrgDelete(a) PROVE AdminInv'
    <2> DEFINE entry == [NoOrg EXCEPT !.slug = Gone]
    <2>1. entry \in OrgRows /\ entry.slug = Gone /\ entry.slug # Missing /\ ~entry.active
        BY <1>1, AdminConstants DEF OrgRows
    <2>2. org[o].slug # Missing
        <3>1. KnowsRow(desk[a])
            BY <1>2 DEF CommitOrgDelete, AtOrgCommit, KnowsRow
        <3>2. QED
            BY <3>1 DEF AdminInv, SeenRowsExist
    <2>3. /\ org' = [org EXCEPT ![o] = entry] /\ UNCHANGED <<setting, blurred, settled>>
          /\ UNCHANGED adminTrail /\ (Home(a) \/ Changed(a))
        BY <1>2 DEF CommitOrgDelete, Changed
    <2>4. QED
        BY <1>1, <2>1, <2>2, <2>3, RowChanges DEF Home, Changed, Proceed
<1>3. ASSUME InsertOrganization(a) PROVE AdminInv'
    <2> DEFINE slug == desk[a].wants
               entry == [NoOrg EXCEPT !.slug = slug, !.active = TRUE]
    <2>1. desk[a].at = "insert" /\ UNCHANGED <<setting, blurred, settled>>
        BY <1>3 DEF InsertOrganization
    <2>2. slug \in Slugs /\ org[o] = NoOrg
        BY <2>1 DEF AdminInv, AsksFit, AskFits, InsertsAreNew
    <2>3. entry \in OrgRows /\ entry.slug # Missing /\ ~entry.reason
        BY <1>1, <2>2, AdminConstants DEF OrgRows
    <2>4. CASE \E p \in Organizations : org[p].slug = slug
        <3>1. Home(a) /\ UNCHANGED <<org, adminTrail>>
            BY <1>3, <2>4 DEF InsertOrganization
        <3>2. QED
            BY <2>1, <3>1, RequestRefused DEF adminRows
    <2>5. CASE ~\E p \in Organizations : org[p].slug = slug
        <3>1. org' = [org EXCEPT ![o] = entry] /\ Changed(a)
            BY <1>3, <2>5 DEF InsertOrganization
        <3>2. org[o].slug # Gone
            BY <1>1, <2>2, AdminConstants
        <3>3. QED
            BY <1>1, <2>1, <2>3, <3>1, <3>2, RowChanges DEF Changed, Proceed
    <2>6. QED
        BY <2>4, <2>5
<1>4. QED
    BY <1>2, <1>3

\* Every step keeps the invariant.
LEMMA NextAdmin == AdminInv /\ [AdminNext]_adminVars => AdminInv'
<1> SUFFICES ASSUME AdminInv, [AdminNext]_adminVars PROVE AdminInv'
    OBVIOUS
<1>1. CASE UNCHANGED adminVars
    BY <1>1 DEF adminVars, AdminInv, AdminTypeOK, AsksFit, SeenRowsExist, InsertsAreNew,
                UnrecordedIsGone, SuspensionIsWhole, SettingIsSettled
<1>2. ASSUME NEW a \in Admins, NEW o \in Organizations, NEW kind \in AdminKinds \ {"setting", "role", "create"},
             LoadOrg(a, kind, o)
      PROVE  AdminInv'
    BY <1>2, RequestBegins
<1>3. ASSUME NEW a \in Admins, NEW o \in Organizations,
             \/ UpdateOrganization(a, o) \/ SuspendOrganization(a, o)
             \/ UnsuspendOrganization(a, o) \/ DeleteOrganization(a, o)
             \/ SuspendDirectly(a, o) \/ UnsuspendDirectly(a, o)
      PROVE  AdminInv'
    BY <1>2, <1>3 DEF UpdateOrganization, SuspendOrganization, UnsuspendOrganization,
                      DeleteOrganization, SuspendDirectly, UnsuspendDirectly, AdminKinds
<1>4. CASE AdminNext
    BY <1>3, <1>4, RequestBegins, RequestEnds, EditsHold, OrgComesOrGoes DEF AdminNext
<1>5. QED
    BY <1>1, <1>4

-----------------------------------------------------------------------------
(* The theorems *)

\* Every reachable state of OrganizationAdmin satisfies the invariant.
THEOREM AdminInvariant == AdminSpec => []AdminInv
BY InitAdmin, NextAdmin, PTL DEF AdminSpec

\* Rows, settings, requests and the histories keep their types.
THEOREM AdminTypeCorrect == AdminSpec => []AdminTypeOK
<1>1. AdminInv => AdminTypeOK
    BY DEF AdminInv
<1>2. QED
    BY <1>1, AdminInvariant, PTL

\* Whatever administrators do at the same time, each from a copy read before,
\* a half edited suspension has a cause and a setting its last accepted value.
THEOREM AdminRowsAreKept == AdminSpec => []AdminRowsHold
<1>1. AdminInv => AdminRowsHold
    BY DEF AdminInv, AdminRowsHold
<1>2. QED
    BY <1>1, AdminInvariant, PTL

\* A change without an audit entry is one whose entry was lost on the way, or
\* of an organization that is gone.
THEOREM MissingEntriesHaveCause == AdminSpec => []MissingEntryHasCause
<1>1. AdminInv => MissingEntryHasCause
    <2>1. ASSUME AdminInv, NEW t \in unrecorded, t \notin lostEntries
          PROVE  t \in Organizations /\ ~There(t)
        BY <2>1, AdminConstants DEF AdminInv, UnrecordedIsGone, There
    <2>2. QED
        BY <2>1 DEF MissingEntryHasCause
<1>2. QED
    BY <1>1, AdminInvariant, PTL

-----------------------------------------------------------------------------
(***************************************************************************)
(* RefreshSessions, for any number of users, tokens and concurrent         *)
(* requests.  All follows from one inductive invariant: the properties     *)
(* themselves say nothing of what a coroutine holds across an await, and a *)
(* step of a coroutine is right only because of that.                      *)
(***************************************************************************)

\* A coroutine past its first SELECT holds a token that has had a row, and
\* the user that row names.
HoldsStoredToken ==
    \A w \in Workers :
        /\ worker[w].pc # "idle" => worker[w].user \in Users
        /\ worker[w].pc \notin {"idle", "login"} =>
              worker[w].token \in Tokens /\ ~Fresh(worker[w].token)

\* Between its two commits, a refresh has revoked what it exchanges.
StoreAfterRevoke ==
    \A w \in Workers : worker[w].pc = "store" => row[worker[w].token] # "active"

\* History only speaks of tokens that have had a row, so that the insertion
\* of a fresh token cannot disturb what it says.
HistoryIsStored ==
    /\ \A t \in Tokens : IF Fresh(t) THEN row[t] = "none" ELSE root[t] \in Tokens
    /\ \A t \in Tokens : parent[t] # NoToken => ~Fresh(parent[t])
    /\ \A t \in refused : ~Fresh(t)

IInv ==
    /\ TypeOK
    /\ HoldsStoredToken
    /\ StoreAfterRevoke
    /\ HistoryIsStored
    /\ PredecessorClosed
    /\ RefusedIsFinal

LEMMA InitIInv == Init => IInv
BY SessionConstants
   DEF Init, IInv, TypeOK, HoldsStoredToken, StoreAfterRevoke, HistoryIsStored,
       PredecessorClosed, RefusedIsFinal, Idle, Locations, Fresh

\* Every action but those that insert keeps closed tokens closed.
LEMMA NextIInv == IInv /\ [Next]_vars => IInv'
<1> SUFFICES ASSUME IInv, [Next]_vars PROVE IInv'
    OBVIOUS
<1> USE SessionConstants DEF Fresh
<1>1. ASSUME NEW w \in Workers, NEW u \in Users, LoginAuthenticate(w, u)
      PROVE IInv'
    BY <1>1 DEF IInv, TypeOK, HoldsStoredToken, StoreAfterRevoke,
                HistoryIsStored, PredecessorClosed, RefusedIsFinal,
                LoginAuthenticate, Request, Idle, Locations, tableVars, historyVars
<1>2. ASSUME NEW w \in Workers, NEW t \in Tokens, LoginStore(w, t)
      PROVE IInv'
    BY <1>2 DEF IInv, TypeOK, HoldsStoredToken, StoreAfterRevoke,
                HistoryIsStored, PredecessorClosed, RefusedIsFinal,
                LoginStore, Insert, Finish, Idle, Locations
<1>3. ASSUME NEW w \in Workers, NEW t \in Tokens, RefreshVerify(w, t)
      PROVE IInv'
    BY <1>3 DEF IInv, TypeOK, HoldsStoredToken, StoreAfterRevoke,
                HistoryIsStored, PredecessorClosed, RefusedIsFinal,
                RefreshVerify, Request, Idle, Locations, tableVars, historyVars
<1>4. ASSUME NEW t \in Tokens, Refuse(t)
      PROVE IInv'
    BY <1>4 DEF IInv, TypeOK, HoldsStoredToken, StoreAfterRevoke,
                HistoryIsStored, PredecessorClosed, RefusedIsFinal,
                Refuse, tableVars
<1>5. ASSUME NEW w \in Workers, RefreshExpire(w)
      PROVE IInv'
    BY <1>5 DEF IInv, TypeOK, HoldsStoredToken, StoreAfterRevoke,
                HistoryIsStored, PredecessorClosed, RefusedIsFinal,
                RefreshExpire, MarkRevoked, Finish, Idle, Locations
<1>6. ASSUME NEW w \in Workers, RefreshRotate(w)
      PROVE IInv'
    BY <1>6 DEF IInv, TypeOK, HoldsStoredToken, StoreAfterRevoke,
                HistoryIsStored, PredecessorClosed, RefusedIsFinal,
                RefreshRotate, MarkRevoked, Locations, historyVars
<1>7. ASSUME NEW w \in Workers, NEW t \in Tokens, RefreshStore(w, t)
      PROVE IInv'
    BY <1>7 DEF IInv, TypeOK, HoldsStoredToken, StoreAfterRevoke,
                HistoryIsStored, PredecessorClosed, RefusedIsFinal,
                RefreshStore, Insert, Finish, Idle, Locations
<1>8. ASSUME NEW w \in Workers, NEW t \in Tokens, LogoutSelect(w, t)
      PROVE IInv'
    BY <1>8 DEF IInv, TypeOK, HoldsStoredToken, StoreAfterRevoke,
                HistoryIsStored, PredecessorClosed, RefusedIsFinal,
                LogoutSelect, Request, Idle, Locations, tableVars, historyVars
<1>9. ASSUME NEW w \in Workers, LogoutRevoke(w)
      PROVE IInv'
    BY <1>9 DEF IInv, TypeOK, HoldsStoredToken, StoreAfterRevoke,
                HistoryIsStored, PredecessorClosed, RefusedIsFinal,
                LogoutRevoke, MarkRevoked, Finish, Idle, Locations
<1>10. ASSUME NEW caller \in Users, NEW u \in Users, RevokeAll(caller, u)
       PROVE IInv'
    BY <1>10 DEF IInv, TypeOK, HoldsStoredToken, StoreAfterRevoke,
                 HistoryIsStored, PredecessorClosed, RefusedIsFinal, RevokeAll
<1>11. ASSUME Cleanup
       PROVE IInv'
    BY <1>11 DEF IInv, TypeOK, HoldsStoredToken, StoreAfterRevoke,
                 HistoryIsStored, PredecessorClosed, RefusedIsFinal,
                 Cleanup, historyVars
<1>12. ASSUME NEW t \in Tokens, Expire(t)
       PROVE IInv'
    BY <1>12 DEF IInv, TypeOK, HoldsStoredToken, StoreAfterRevoke,
                 HistoryIsStored, PredecessorClosed, RefusedIsFinal,
                 Expire, historyVars
<1>13. ASSUME NEW w \in Workers, UpdateFindsNoRow(w) \/ Abort(w)
       PROVE IInv'
    BY <1>13 DEF IInv, TypeOK, HoldsStoredToken, StoreAfterRevoke,
                 HistoryIsStored, PredecessorClosed, RefusedIsFinal,
                 UpdateFindsNoRow, Abort, Finish, Idle, Locations, tableVars, historyVars
<1>14. CASE UNCHANGED vars
    BY <1>14 DEF IInv, TypeOK, HoldsStoredToken, StoreAfterRevoke,
                 HistoryIsStored, PredecessorClosed, RefusedIsFinal, vars
<1>15. QED
    BY <1>1, <1>2, <1>3, <1>4, <1>5, <1>6, <1>7, <1>8, <1>9, <1>10, <1>11,
       <1>12, <1>13, <1>14 DEF Next, Handler

\* Every reachable state of auth-service satisfies the inductive invariant.
THEOREM InvariantHolds == Spec => []IInv
BY InitIInv, NextIInv, PTL DEF Spec

\* The columns, the coroutines and the history always have the types the
\* models of the handlers assume.
THEOREM TypeCorrect == Spec => []TypeOK
<1>1. IInv => TypeOK
    BY DEF IInv
<1>2. QED
    BY <1>1, InvariantHolds, PTL

\* Rotation never leaves a token usable next to its successor, however many
\* requests race with it and wherever it is cut off.
THEOREM PredecessorIsClosed == Spec => []PredecessorClosed
<1>1. IInv => PredecessorClosed
    BY DEF IInv
<1>2. QED
    BY <1>1, InvariantHolds, PTL

\* A refused or logged-out token never becomes usable again.
THEOREM RefusalIsFinal == Spec => []RefusedIsFinal
<1>1. IInv => RefusedIsFinal
    BY DEF IInv
<1>2. QED
    BY <1>1, InvariantHolds, PTL

\* The first exchange of a token closes it for every later request.
THEOREM ExchangeIsOnce == Spec => ExchangedOnce
<1>1. IInv /\ [Next]_vars =>
          [\A w \in Workers, t \in Tokens :
               worker[w] = Idle /\ worker'[w] # Idle /\ worker'[w].token = t
                   => ChildrenOf(t) = {}]_vars
    <2> SUFFICES ASSUME IInv, Next,
                        NEW w \in Workers, NEW t \in Tokens, worker[w] = Idle,
                        worker'[w] # Idle, worker'[w].token = t
                 PROVE  ChildrenOf(t) = {}
        BY DEF vars
    <2>1. row[t] = "active"
        BY SessionConstants
           DEF IInv, TypeOK, Next, Handler, LoginAuthenticate, LoginStore,
               RefreshVerify, Refuse, RefreshExpire, RefreshRotate,
               RefreshStore, LogoutSelect, LogoutRevoke, RevokeAll, Cleanup,
               Expire, UpdateFindsNoRow, Abort, Finish, Request, Idle
    <2>2. QED
        BY <2>1, SessionConstants
           DEF IInv, PredecessorClosed, ChildrenOf
<1>2. QED
    BY <1>1, InvariantHolds, PTL DEF Spec, ExchangedOnce

-----------------------------------------------------------------------------
(* RefreshSessions implements SessionLifecycle *)

LEMMA InitMapped == Init => Lifecycle!LifecycleInit
BY DEF Init, Lifecycle!LifecycleInit, Status, Fresh

\* A step that stores no token and reactivates none closes the tokens it
\* revokes or deletes, all at once, or closes none and is a stutter.
LEMMA ClosingStep ==
    ASSUME IInv, TypeOK',
           UNCHANGED <<userOf, parent>>,
           \A t \in Tokens : row'[t] = "active" => row[t] = "active"
    PROVE  [Lifecycle!LifecycleNext]_(Lifecycle!lifecycleVars)
<1> DEFINE S == {t \in Tokens : row[t] = "active" /\ row'[t] # "active"}
           status == [t \in Tokens |-> Status(t)]
<1>1. \A t \in Tokens : Status(t)' = IF t \in S THEN "closed" ELSE Status(t)
    BY DEF IInv, TypeOK, HistoryIsStored, Status, Fresh
<1>2. status' = [t \in Tokens |-> IF t \in S THEN "closed" ELSE status[t]]
    BY <1>1
<1>3. \A t \in S : status[t] = "open"
    BY DEF IInv, HistoryIsStored, Status, Fresh
<1>4. CASE S = {}
    <2>1. status' = status
        BY <1>2, <1>4
    <2>2. QED
        BY <2>1 DEF Lifecycle!lifecycleVars
<1>5. CASE S # {}
    <2>1. Lifecycle!Close(S)
        BY <1>2, <1>3, <1>5 DEF Lifecycle!Close
    <2>2. QED
        BY <2>1 DEF Lifecycle!LifecycleNext
<1>6. QED
    BY <1>4, <1>5

LEMMA LoginOpens ==
    ASSUME IInv, NEW w \in Workers, NEW t \in Tokens, LoginStore(w, t)
    PROVE  Lifecycle!Open(t)
<1>1. Status(t) = "unissued" /\ Status(t)' = "open"
    BY SessionConstants
       DEF LoginStore, Insert, Status, Fresh, IInv, TypeOK, HoldsStoredToken
<1>2. \A u \in Tokens \ {t} : Status(u)' = Status(u)
    BY DEF LoginStore, Insert, Status, Fresh, IInv, TypeOK
<1>3. QED
    BY <1>1, <1>2 DEF Lifecycle!Open, LoginStore

LEMMA RefreshSucceeds ==
    ASSUME IInv, NEW w \in Workers, NEW t \in Tokens, RefreshStore(w, t)
    PROVE  worker[w].token \in Tokens /\ Lifecycle!Succeed(worker[w].token, t)
<1>1. Status(t) = "unissued" /\ Status(t)' = "open"
    BY SessionConstants
       DEF RefreshStore, Insert, Status, Fresh, IInv, TypeOK, HoldsStoredToken
<1>2. \A u \in Tokens \ {t} : Status(u)' = Status(u)
    BY DEF RefreshStore, Insert, Status, Fresh, IInv, TypeOK
<1>3. worker[w].token \in Tokens /\ Status(worker[w].token) = "closed"
    BY DEF RefreshStore, IInv, HoldsStoredToken, StoreAfterRevoke, Status
<1>4. QED
    BY <1>1, <1>2, <1>3 DEF Lifecycle!Succeed, RefreshStore

LEMMA NextMapped ==
    IInv /\ IInv' /\ [Next]_vars
        => [Lifecycle!LifecycleNext]_(Lifecycle!lifecycleVars)
<1> SUFFICES ASSUME IInv, IInv', [Next]_vars
             PROVE  [Lifecycle!LifecycleNext]_(Lifecycle!lifecycleVars)
    OBVIOUS
<1>1. CASE \E w \in Workers, t \in Tokens : LoginStore(w, t)
    BY <1>1, LoginOpens DEF Lifecycle!LifecycleNext
<1>2. CASE \E w \in Workers, t \in Tokens : RefreshStore(w, t)
    BY <1>2, RefreshSucceeds DEF Lifecycle!LifecycleNext
<1>3. CASE ~ \E w \in Workers, t \in Tokens : LoginStore(w, t) \/ RefreshStore(w, t)
    <2>1. UNCHANGED <<userOf, parent>>
        BY <1>3 DEF Next, Handler, vars, tableVars, historyVars, LoginAuthenticate,
                    RefreshVerify, Refuse, RefreshExpire, RefreshRotate, LogoutSelect,
                    LogoutRevoke, RevokeAll, Cleanup, Expire, UpdateFindsNoRow, Abort
    <2>2. \A t \in Tokens : row'[t] = "active" => row[t] = "active"
        BY <1>3 DEF IInv, TypeOK, Next, Handler, vars, tableVars, MarkRevoked,
                    LoginAuthenticate, RefreshVerify, Refuse, RefreshExpire,
                    RefreshRotate, LogoutSelect, LogoutRevoke, RevokeAll, Cleanup,
                    Expire, UpdateFindsNoRow, Abort
    <2>3. QED
        BY <2>1, <2>2, ClosingStep DEF IInv
<1>4. QED
    BY <1>1, <1>2, <1>3

\* The handlers, with their awaits, races and crashes, implement the
\* lifecycle promised to clients.
THEOREM ImplementsLifecycle == Spec => LifecycleRefined
<1>1. Init => Lifecycle!LifecycleInit
    BY InitMapped
<1>2. IInv /\ IInv' /\ [Next]_vars
          => [Lifecycle!LifecycleNext]_(Lifecycle!lifecycleVars)
    BY NextMapped
<1>3. QED
    BY <1>1, <1>2, InvariantHolds, PTL
       DEF Spec, LifecycleRefined, Lifecycle!LifecycleSpec
=============================================================================
