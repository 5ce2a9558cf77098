--------------------------- MODULE TeamOnboarding ---------------------------
(***************************************************************************)
(* How an owner gets a team: user-bl-service creates accounts, employee    *)
(* rows and permissions by separate calls of user-db-access-service, each  *)
(* of which looks first and writes then.  Constraints of the tables (one   *)
(* account for an email, one employee for an account, one row for a        *)
(* permission) catch the requests that looked too early; a request may be  *)
(* cut off after any call.  What user-bl-service caches is only shown, not *)
(* acted on, and left out here: CustomerRecords has that protocol.         *)
(***************************************************************************)
CONSTANTS
    Emails,              \* the people invited; a row of users has an email
    Permissions,         \* PERMISSION_CATALOG
    EmployeeDefaults,    \* DEFAULT_ROLE_PERMISSIONS["employee"]
    TeamCalls            \* requests to user-bl-service in flight

ASSUME TeamConstants == Emails # {}

VARIABLES
    hasUser,      \* emails with a row in users
    hasEmployee,  \* emails whose user has a row in employees
    permission,   \* permission[e][p]: the row, "none" without one
    step,         \* step[c]: where request c is, and what it has read
    chosen,       \* history: what the owner last set permission[e][p] to
    invited,      \* history: emails whose invitation was answered with 201
    accountOnly,  \* history: emails created by POST /users, or whose
                  \* invitation was cut off before the employee row
    unseeded      \* history: emails whose seeding failed

teamVars == <<hasUser, hasEmployee, permission, step, chosen, invited,
              accountOnly, unseeded>>

NoCopyOf == [p \in Permissions |-> "none"]

\* wants: the permissions an update sets, to "granted" or "denied".
Waiting == [at |-> "idle", kind |-> "invite",
            email |-> CHOOSE e \in Emails : TRUE,
            seen |-> NoCopyOf, wants |-> NoCopyOf]

TeamSteps == {"idle", "insertUser", "seedSelect", "seedInsert",
              "lookEmployee", "insertEmployee", "setCommit"}

\* invite_employee, create_user, create_employee, update_user_permissions
TeamKinds == {"invite", "create", "employ", "permit"}

Grants == [Permissions -> {"none", "granted", "denied"}]

TeamTypeOK ==
    /\ hasUser \subseteq Emails
    /\ hasEmployee \subseteq Emails
    /\ permission \in [Emails -> Grants]
    /\ step \in [TeamCalls -> [at : TeamSteps, kind : TeamKinds, email : Emails,
                               seen : Grants, wants : Grants]]
    /\ chosen \in [Emails -> Grants]
    /\ invited \subseteq Emails
    /\ accountOnly \subseteq Emails
    /\ unseeded \subseteq Emails

TeamInit ==
    /\ hasUser = {}
    /\ hasEmployee = {}
    /\ permission = [e \in Emails |-> NoCopyOf]
    /\ step = [c \in TeamCalls |-> Waiting]
    /\ chosen = [e \in Emails |-> NoCopyOf]
    /\ invited = {}
    /\ accountOnly = {}
    /\ unseeded = {}

teamTables == <<hasUser, hasEmployee, permission>>
teamHistory == <<chosen, invited, accountOnly, unseeded>>

EndOf(c) == step' = [step EXCEPT ![c] = Waiting]

GoTo(c, where) == step' = [step EXCEPT ![c].at = where]

-----------------------------------------------------------------------------
(* POST /users and POST /users/invite: the account *)

\* create_new_user looks the email up and finds it free.
LookEmailUp(c, kind, e) ==
    /\ step[c].at = "idle"
    /\ e \notin hasUser
    /\ step' = [step EXCEPT ![c] = [Waiting EXCEPT !.at = "insertUser",
                                                   !.kind = kind, !.email = e]]
    /\ UNCHANGED <<teamTables, teamHistory>>

Invite(c, e) == LookEmailUp(c, "invite", e)

CreateUser(c, e) == LookEmailUp(c, "create", e)

\* create_user: the INSERT.  With a taken email it fails and the request ends.
InsertUser(c) ==
    LET e == step[c].email IN
    /\ step[c].at = "insertUser"
    /\ IF e \in hasUser
       THEN EndOf(c) /\ UNCHANGED hasUser
       ELSE GoTo(c, "seedSelect") /\ hasUser' = hasUser \union {e}
    /\ accountOnly' = IF step[c].kind = "create" /\ e \notin hasUser
                      THEN accountOnly \union {e} ELSE accountOnly
    /\ UNCHANGED <<hasEmployee, permission, chosen, invited, unseeded>>

-----------------------------------------------------------------------------
(* The default permissions, whose failure user-bl-service swallows *)

\* What follows the seeding: the employee row of an invitation, or the answer.
AfterSeed(c) ==
    IF step[c].kind = "invite" THEN GoTo(c, "lookEmployee") ELSE EndOf(c)

SeedSelect(c) ==
    /\ step[c].at = "seedSelect"
    /\ step' = [step EXCEPT ![c].at = "seedInsert",
                            ![c].seen = permission[step[c].email]]
    /\ UNCHANGED <<teamTables, teamHistory>>

DefaultGrant(p) == IF p \in EmployeeDefaults THEN "granted" ELSE "denied"

\* Mutant of SeedInsert: existing rows are overwritten (an upsert).
SeedUpsert(c) ==
    LET e == step[c].email IN
    /\ step[c].at = "seedInsert"
    /\ permission' = [permission EXCEPT ![e] =
          [p \in Permissions |-> DefaultGrant(p)]]
    /\ AfterSeed(c)
    /\ UNCHANGED <<hasUser, hasEmployee, teamHistory>>

\* Rows for what had none, in one transaction: a row that appeared meanwhile
\* makes all of them fail.
SeedInsert(c) ==
    LET e == step[c].email
        missing == {p \in Permissions : step[c].seen[p] = "none"} IN
    /\ step[c].at = "seedInsert"
    /\ IF \E p \in missing : permission[e][p] # "none"
       THEN /\ unseeded' = unseeded \union {e}
            /\ UNCHANGED permission
       ELSE /\ permission' = [permission EXCEPT ![e] =
                 [p \in Permissions |->
                     IF p \in missing THEN DefaultGrant(p) ELSE @[p]]]
            /\ UNCHANGED unseeded
    /\ AfterSeed(c)
    /\ UNCHANGED <<hasUser, hasEmployee, chosen, invited, accountOnly>>

\* The call for the seeding fails: logged and forgotten.
SeedFails(c) ==
    /\ step[c].at \in {"seedSelect", "seedInsert"}
    /\ unseeded' = unseeded \union {step[c].email}
    /\ AfterSeed(c)
    /\ UNCHANGED <<teamTables, chosen, invited, accountOnly>>

-----------------------------------------------------------------------------
(* POST /employees, and the last call of an invitation *)

\* POST /employees for somebody who has an account: also the way to complete
\* an invitation that was cut off.
Employ(c, e) ==
    /\ step[c].at = "idle"
    /\ e \in hasUser
    /\ step' = [step EXCEPT ![c] = [Waiting EXCEPT !.at = "lookEmployee",
                                                   !.kind = "employ",
                                                   !.email = e]]
    /\ UNCHANGED <<teamTables, teamHistory>>

\* create_employee_details finds the user and looks for an employee: with one
\* it answers 409 and the request ends.
LookEmployeeUp(c) ==
    /\ step[c].at = "lookEmployee"
    /\ IF step[c].email \in hasEmployee
       THEN EndOf(c) ELSE GoTo(c, "insertEmployee")
    /\ UNCHANGED <<teamTables, teamHistory>>

\* Mutant of InsertEmployee: an invitation is answered whatever came of it.
InsertEmployeeUnchecked(c) ==
    LET e == step[c].email IN
    /\ step[c].at = "insertEmployee"
    /\ UNCHANGED hasEmployee
    /\ invited' = IF step[c].kind = "invite"
                  THEN invited \union {e} ELSE invited
    /\ EndOf(c)
    /\ UNCHANGED <<hasUser, permission, chosen, accountOnly, unseeded>>

\* create_employee: the INSERT, refused by the constraint if there is one.
InsertEmployee(c) ==
    LET e == step[c].email IN
    /\ step[c].at = "insertEmployee"
    /\ hasEmployee' = hasEmployee \union {e}
    /\ invited' = IF step[c].kind = "invite" /\ e \notin hasEmployee
                  THEN invited \union {e} ELSE invited
    /\ EndOf(c)
    /\ UNCHANGED <<hasUser, permission, chosen, accountOnly, unseeded>>

-----------------------------------------------------------------------------
(* PUT /users/{id}/permissions *)

\* set_user_permissions selects the rows it is to set.  A row that already
\* has the wanted value will not be written: the choice counts from here.
PermitSelect(c, e, wants) ==
    /\ step[c].at = "idle"
    /\ e \in hasUser
    /\ wants # NoCopyOf
    /\ step' = [step EXCEPT ![c] =
                   [at |-> "setCommit", kind |-> "permit", email |-> e,
                    seen |-> permission[e], wants |-> wants]]
    /\ chosen' = [chosen EXCEPT ![e] =
                     [p \in Permissions |->
                         IF wants[p] # "none" /\ wants[p] = permission[e][p]
                         THEN wants[p] ELSE @[p]]]
    /\ UNCHANGED <<teamTables, invited, accountOnly, unseeded>>

\* One commit: updates of the rows that differ, inserts of the missing ones,
\* all refused if a missing row has appeared meanwhile.
PermitCommit(c) ==
    LET e == step[c].email
        seen == step[c].seen
        wants == step[c].wants
        set == {p \in Permissions : wants[p] # "none" /\ wants[p] # seen[p]} IN
    /\ step[c].at = "setCommit"
    /\ IF \E p \in set : seen[p] = "none" /\ permission[e][p] # "none"
       THEN UNCHANGED <<permission, chosen>>
       ELSE /\ permission' = [permission EXCEPT ![e] =
                  [p \in Permissions |-> IF p \in set THEN wants[p] ELSE @[p]]]
            /\ chosen' = [chosen EXCEPT ![e] =
                  [p \in Permissions |-> IF p \in set THEN wants[p] ELSE @[p]]]
    /\ EndOf(c)
    /\ UNCHANGED <<hasUser, hasEmployee, invited, accountOnly, unseeded>>

-----------------------------------------------------------------------------
\* A crash, a timeout or a lost answer: no further call is made.
TeamCutOff(c) ==
    /\ step[c].at # "idle"
    /\ accountOnly' = IF step[c].kind = "invite" /\ step[c].at # "insertUser"
                   THEN accountOnly \union {step[c].email} ELSE accountOnly
    /\ unseeded' = IF step[c].at \in {"seedSelect", "seedInsert"}
                   THEN unseeded \union {step[c].email} ELSE unseeded
    /\ EndOf(c)
    /\ UNCHANGED <<teamTables, chosen, invited>>

TeamNext ==
    \/ \E c \in TeamCalls, e \in Emails :
          \/ Invite(c, e)
          \/ CreateUser(c, e)
          \/ Employ(c, e)
          \/ \E wants \in Grants : PermitSelect(c, e, wants)
    \/ \E c \in TeamCalls :
          \/ InsertUser(c)
          \/ SeedSelect(c)
          \/ SeedInsert(c)
          \/ SeedFails(c)
          \/ LookEmployeeUp(c)
          \/ InsertEmployee(c)
          \/ PermitCommit(c)
          \/ TeamCutOff(c)

TeamSpec == TeamInit /\ [][TeamNext]_teamVars

-----------------------------------------------------------------------------
(* Properties *)

\* Three calls make a member of the team, and two owners' requests, repeated
\* attempts and hand-made employee rows may come between them: still, whoever
\* was answered that the invitation is done has a member with an account, an
\* employee row and a row for each permission, unless the seeding failed.
InvitationsHold ==
    \A e \in invited :
        /\ e \in hasUser /\ e \in hasEmployee
        /\ e \in unseeded \/ \A p \in Permissions : permission[e][p] # "none"

\* The other way round: an account that is left without an employee row, so
\* that the invitation cannot be repeated, comes from a request that was cut
\* off (or from POST /users), never from losing a race with another request.
AccountAloneHasCause ==
    \A e \in hasUser \ hasEmployee :
        \/ e \in accountOnly
        \/ \E c \in TeamCalls :
              /\ step[c].kind = "invite" /\ step[c].email = e
              /\ step[c].at \notin {"idle", "insertUser"}

\* What the owner last chose stays: no seeding of defaults, before or after,
\* undoes it, although both look for rows first and write afterwards.
ChoiceStays ==
    \A e \in Emails, p \in Permissions :
        chosen[e][p] # "none" => permission[e][p] = chosen[e][p]

\* Together: the three calls of invite_employee leave either a whole member, or
\* half of one for a reason that can be named.
OnboardingAddsUp == InvitationsHold /\ AccountAloneHasCause
=============================================================================
