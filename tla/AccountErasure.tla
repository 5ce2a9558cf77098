--------------------------- MODULE AccountErasure ---------------------------
(***************************************************************************)
(* The erasure of accounts in user-db-access-service (crud/user.py), asked *)
(* for through user-bl-service: scheduling with a period of grace, the     *)
(* hourly pass over the accounts that are due, the immediate erasure, and  *)
(* the edits, deactivations and audit entries that run at the same time.   *)
(*                                                                         *)
(* A session writes only the columns that differ from the object it has    *)
(* loaded, so what an erasure writes depends on when it read.  The pass    *)
(* works on objects it loaded for the whole list at its start: get_user    *)
(* finds them in the session's identity map and does not refresh them.     *)
(***************************************************************************)
EXTENDS Integers

CONSTANTS
    Subjects,      \* the people with an account
    ErasureCalls,  \* requests to the two services in flight
    GraceHours,    \* hours between the wish and the erasure: 72
    LastHour,      \* bound of the clock
    NotDue         \* NULL in anonymize_scheduled_at

ASSUME ErasureConstants ==
    /\ Subjects # {}
    /\ GraceHours \in Nat
    /\ LastHour \in Nat
    /\ NotDue \notin Int

VARIABLES
    account,       \* account[u]: the columns of u's row the code looks at
    named,         \* users whose address stands in audit entries of theirs
    call,          \* call[r]: a request, what it loaded and where it is
    pass,          \* the hourly pass: users to erase, and the objects loaded
    hour,
    wish,          \* history: when u last asked, NotDue once cancelled
    reconsidered,  \* history: users of the pass changed since it began
    lateWrites     \* history: users written to since an erasure loaded them

erasureVars ==
    <<account, named, call, pass, hour, wish, reconsidered, lateWrites>>

DueTimes == 0..(LastHour + GraceHours) \union {NotDue}

\* phone stands for the columns that may be empty: phone, and of the
\* employee skills, notes and hourly rate.  name stands for those that the
\* erasure always replaces: email, names, password.
Accounts == [name : {"real", "deleted"}, phone : {"real", "none"},
             active : BOOLEAN, due : DueTimes]

CallKinds == {"schedule", "cancel", "edit", "erase", "deactivate", "reactivate"}

\* The kinds that are recorded in the audit log under the user's own name.
OwnCallKinds == {"schedule", "cancel"}

\* The kinds whose assignments always differ from what was loaded.
BlindKinds == {"schedule", "edit"}

NewAccount ==
    [name |-> "real", phone |-> "none", active |-> TRUE, due |-> NotDue]

NoCall == [at |-> "idle", kind |-> "edit",
           user |-> CHOOSE u \in Subjects : TRUE, loaded |-> NewAccount]

NoPass == [todo |-> {}, loaded |-> [u \in Subjects |-> NewAccount]]

Calls == [at : {"idle", "commit", "log"}, kind : CallKinds, user : Subjects,
         loaded : Accounts]

ErasureTypeOK ==
    /\ account \in [Subjects -> Accounts]
    /\ named \subseteq Subjects
    /\ call \in [ErasureCalls -> Calls]
    /\ pass \in [todo : SUBSET Subjects, loaded : [Subjects -> Accounts]]
    /\ hour \in 0..LastHour
    /\ wish \in [Subjects -> DueTimes]
    /\ reconsidered \subseteq Subjects
    /\ lateWrites \subseteq Subjects

ErasureInit ==
    /\ account = [u \in Subjects |-> NewAccount]
    /\ named = {}
    /\ call = [r \in ErasureCalls |-> NoCall]
    /\ pass = NoPass
    /\ hour = 0
    /\ wish = [u \in Subjects |-> NotDue]
    /\ reconsidered = {}
    /\ lateWrites = {}

-----------------------------------------------------------------------------
(* Statements *)

\* The UPDATE of a flush: a column is written if it differs from the value
\* that was loaded.  The third argument is the row as it is by now.
FlushedAccount(loaded, new, row) ==
    LET Column(was, set, now) == IF set # was THEN set ELSE now IN
    [name   |-> Column(loaded.name, new.name, row.name),
     phone  |-> Column(loaded.phone, new.phone, row.phone),
     active |-> Column(loaded.active, new.active, row.active),
     due    |-> Column(loaded.due, new.due, row.due)]

\* The assignments of anonymize_user.
Anonymized(a) ==
    [name |-> "deleted", phone |-> "none", active |-> FALSE, due |-> NotDue]

\* An erasure of u is between its SELECT and its commit.
BeingErased(u) ==
    \/ u \in pass.todo
    \/ \E r \in ErasureCalls :
          call[r].at = "commit" /\ call[r].kind = "erase" /\ call[r].user = u

\* u's row or u's audit entries are written by somebody else than an erasure.
TouchAccount(u) ==
    lateWrites' = IF account[u].name = "deleted" \/ BeingErased(u)
                  THEN lateWrites \union {u}
                  ELSE lateWrites

\* Mutant of EraseWith: what the user did is not relabelled.
EraseWithoutAudit(u, loaded) ==
    /\ account' = [account EXCEPT ![u] =
                      FlushedAccount(loaded, Anonymized(loaded), @)]
    /\ UNCHANGED named

\* The one commit of anonymize_user, with the UPDATE of the audit entries.
EraseWith(u, loaded) ==
    /\ account' = [account EXCEPT ![u] =
                      FlushedAccount(loaded, Anonymized(loaded), @)]
    /\ named' = named \ {u}

-----------------------------------------------------------------------------
(* Requests: schedule, cancel, edit, erase, deactivate, reactivate *)

CallDone(r) == call' = [call EXCEPT ![r] = NoCall]

\* After the commit, user-bl-service records schedule and cancel.
CallRecorded(r) ==
    call' = [call EXCEPT ![r] =
                  IF @.kind \in OwnCallKinds
                  THEN [@ EXCEPT !.at = "log", !.loaded = NewAccount]
                  ELSE NoCall]

\* get_user: the SELECT with which every one of them starts.  No handler and
\* no refresh of a session asks whether the account is still active.
LoadAccount(r, k, u) ==
    /\ call[r].at = "idle"
    /\ call' = [call EXCEPT ![r] =
                  [at |-> "commit", kind |-> k, user |-> u,
                   loaded |-> IF k \in BlindKinds THEN NewAccount ELSE account[u]]]
    /\ UNCHANGED <<account, named, pass, hour, wish, reconsidered, lateWrites>>

\* schedule_user_anonymization: the new time differs from any old one.
ScheduleAnonymization(r) ==
    LET u == call[r].user IN
    /\ call[r].at = "commit" /\ call[r].kind = "schedule"
    /\ account' = [account EXCEPT ![u].due = hour + GraceHours]
    /\ wish' = [wish EXCEPT ![u] = hour]
    /\ reconsidered' = reconsidered \union ({u} \intersect pass.todo)
    /\ TouchAccount(u)
    /\ CallRecorded(r)
    /\ UNCHANGED <<named, pass, hour>>

\* cancel_user_anonymization.  A cancel that has loaded NULL writes nothing,
\* also when a schedule was committed in between: it counts as the earlier.
CancelAnonymization(r) ==
    LET u == call[r].user IN
    /\ call[r].at = "commit" /\ call[r].kind = "cancel"
    /\ account' = [account EXCEPT ![u] =
                      FlushedAccount(call[r].loaded,
                          [call[r].loaded EXCEPT !.due = NotDue], @)]
    /\ wish' = [wish EXCEPT ![u] =
                   IF call[r].loaded.due = NotDue THEN @ ELSE NotDue]
    /\ reconsidered' = reconsidered \union ({u} \intersect pass.todo)
    /\ TouchAccount(u)
    /\ CallRecorded(r)
    /\ UNCHANGED <<named, pass, hour>>

\* update_user: the user (or the owner) enters a telephone number.
EditUser(r) ==
    LET u == call[r].user IN
    /\ call[r].at = "commit" /\ call[r].kind = "edit"
    /\ account' = [account EXCEPT ![u].phone = "real"]
    /\ TouchAccount(u)
    /\ CallRecorded(r)
    /\ UNCHANGED <<named, pass, hour, wish, reconsidered>>

\* delete_user, or update_user with is_active.
SetActive(r) ==
    LET u == call[r].user  active == call[r].kind = "reactivate" IN
    /\ call[r].at = "commit" /\ call[r].kind \in {"deactivate", "reactivate"}
    /\ account' = [account EXCEPT ![u] =
                      FlushedAccount(call[r].loaded,
                          [call[r].loaded EXCEPT !.active = active], @)]
    /\ reconsidered' = reconsidered \union ({u} \intersect pass.todo)
    /\ TouchAccount(u)
    /\ CallRecorded(r)
    /\ UNCHANGED <<named, pass, hour, wish>>

\* POST /users/{id}/anonymize by an owner or administrator.
EraseNow(r) ==
    LET u == call[r].user IN
    /\ call[r].at = "commit" /\ call[r].kind = "erase"
    /\ EraseWith(u, call[r].loaded)
    /\ CallRecorded(r)
    /\ UNCHANGED <<pass, hour, wish, reconsidered, lateWrites>>

\* log_action: the entry holds the address in the caller's access token.
LogOwnAction(r) ==
    LET u == call[r].user IN
    /\ call[r].at = "log"
    /\ named' = named \union {u}
    /\ TouchAccount(u)
    /\ CallDone(r)
    /\ UNCHANGED <<account, pass, hour, wish, reconsidered>>

\* A crash or a lost connection; log_action also swallows its own failures.
CallFails(r) ==
    /\ call[r].at # "idle"
    /\ CallDone(r)
    /\ UNCHANGED <<account, named, pass, hour, wish, reconsidered, lateWrites>>

-----------------------------------------------------------------------------
(* The hourly pass *)

\* Mutant of Due: the date is not looked at.
DueEver(a) == a.due # NotDue /\ a.active

\* Mutant of Due: only the hour itself counts.
DueNow(a) == a.due # NotDue /\ a.due = hour /\ a.active

\* get_users_due_for_anonymization
Due(a) == a.due # NotDue /\ a.due <= hour /\ a.active

\* The scheduler of notification-service calls process-scheduled.
BeginPass ==
    /\ pass.todo = {}
    /\ \E u \in Subjects : Due(account[u])
    /\ pass' = [todo |-> {u \in Subjects : Due(account[u])}, loaded |-> account]
    /\ UNCHANGED <<account, named, call, hour, wish, reconsidered, lateWrites>>

\* One turn of process_scheduled_anonymizations, with its own commit.
EraseDue(u) ==
    /\ u \in pass.todo
    /\ EraseWith(u, pass.loaded[u])
    /\ pass' = [pass EXCEPT !.todo = @ \ {u}, !.loaded[u] = NewAccount]
    /\ reconsidered' = reconsidered \ {u}
    /\ UNCHANGED <<call, hour, wish, lateWrites>>

\* The process dies or a statement fails: the rest of the list is dropped,
\* and an hour later the next pass reads it anew.
DropPass ==
    /\ pass.todo # {}
    /\ pass' = NoPass
    /\ reconsidered' = {}
    /\ UNCHANGED <<account, named, call, hour, wish, lateWrites>>

HourPasses ==
    /\ hour < LastHour
    /\ hour' = hour + 1
    /\ UNCHANGED <<account, named, call, pass, wish, reconsidered, lateWrites>>

-----------------------------------------------------------------------------
ErasureNext ==
    \/ \E r \in ErasureCalls, k \in CallKinds, u \in Subjects :
          LoadAccount(r, k, u)
    \/ \E r \in ErasureCalls :
          \/ ScheduleAnonymization(r)
          \/ CancelAnonymization(r)
          \/ EditUser(r)
          \/ SetActive(r)
          \/ EraseNow(r)
          \/ LogOwnAction(r)
          \/ CallFails(r)
    \/ BeginPass
    \/ \E u \in Subjects : EraseDue(u)
    \/ DropPass
    \/ HourPasses

ErasureSpec == ErasureInit /\ [][ErasureNext]_erasureVars

\* The scheduler of notification-service tries every hour, and not every pass is
\* cut off before it comes to u.
ErasureFairness ==
    /\ WF_erasureVars(BeginPass)
    /\ \A u \in Subjects : SF_erasureVars(EraseDue(u))

-----------------------------------------------------------------------------
(* Properties *)

\* The pass erases nobody who did not ask for it, and nobody before the time
\* of grace is over: whoever it erases asked at least GraceHours ago and has
\* neither asked again since nor cancelled (by a request that saw the
\* schedule), unless that happened while this very pass, which reads its list
\* once, was at work.
GraceIsServed ==
    [][\A u \in Subjects :
          u \in pass.todo /\ EraseDue(u) =>
              \/ u \in reconsidered
              \/ wish[u] # NotDue /\ wish[u] + GraceHours <= hour]_erasureVars

\* An erased account stays without personal data, in its row and in the audit
\* entries of what the user did, although erasures write only what differs
\* from what they loaded: data comes back, or survives, only through a request
\* that wrote after an erasure had loaded the row.
ErasureIsComplete ==
    \A u \in Subjects :
        account[u].name = "deleted" /\ u \notin lateWrites =>
            account[u] = Anonymized(account[u]) /\ u \notin named

\* Nobody who asked to be erased is forgotten: the active account whose time of
\* grace is over is erased in the end, also when passes were cut off or came
\* late, unless the schedule or the account is changed first.
Overdue(u) ==
    account[u].active /\ account[u].due # NotDue /\ account[u].due <= hour

DueIsErased == \A u \in Subjects : Overdue(u) ~> ~Overdue(u)
=============================================================================
