---------------------------- MODULE StaffDirectory ----------------------------
(***************************************************************************)
(* The views of accounts, employees, companies and permissions that        *)
(* user-bl-service keeps in Redis.  A view is put together from rows of    *)
(* user-db-access-service, in one or two SELECTs, and kept for a while; a  *)
(* write goes to the rows, commits, and then deletes the views it knows    *)
(* of.  Two writers never come by here: admin-bl-service, and the hourly   *)
(* erasure inside user-db-access-service.                                  *)
(*                                                                         *)
(* The rows of one person, one company and one tenant stand for all; of a  *)
(* view it matters only which of its facts have changed since it was read. *)
(***************************************************************************)
EXTENDS Naturals, Sequences

CONSTANTS
    Readers,     \* requests that read
    Writers      \* requests that write

VARIABLES
    copy,        \* copy[v]: the view in Redis and which of its facts are old
    reader,      \* reader[r]: a request that puts a view together
    writer,      \* writer[w]: a request that writes
    raced,       \* history: <<view, fact>> kept when the fact was old already
    unforgotten, \* history: <<view, fact>> whose deletion failed or was cut off
    gapped       \* history: <<view, fact>> changed by a write that spares the view

directoryVars == <<copy, reader, writer, raced, unforgotten, gapped>>

\* name: names, address, phone; standing: role and activity; plan: the hour of
\* the erasure; members: who is listed; duty: the row of employees.
Facts == {"name", "standing", "plan", "members", "duty", "grants", "company"}

-----------------------------------------------------------------------------
(* The views, by the SELECTs that make them *)

\* get_user_by_id: the user, then the employee
UserParts == <<{"name", "standing", "plan"}, {"duty"}>>
\* get_users
UsersParts == <<{"name", "standing", "plan", "members"}>>
\* get_employee: the employee, then the user that selectinload brings
EmployeeParts == <<{"duty"}, {"name"}>>
\* get_employees_by_owner, likewise
StaffParts == <<{"duty"}, {"name"}>>
\* get_company
CompanyParts == <<{"company"}>>
\* get_user_permissions
GrantParts == <<{"grants"}>>

Parts == [user |-> UserParts, users |-> UsersParts, employee |-> EmployeeParts,
          staff |-> StaffParts, company |-> CompanyParts, grants |-> GrantParts]

Views == DOMAIN Parts

Shows(v) == UNION {Parts[v][i] : i \in DOMAIN Parts[v]}

(* The writes: what changes, and the views deleted afterwards, in order *)

\* Mutant of UpdateUser: the lists are left.
UpdateUserOnly == [facts |-> {"name", "standing"}, forgets |-> <<{"user"}>>]

AddUser == [facts |-> {"members"}, forgets |-> <<{"users"}>>]
UpdateUser == [facts |-> {"name", "standing"}, forgets |-> <<{"user"}, {"users"}>>]
Deactivate == [facts |-> {"standing"}, forgets |-> <<{"user"}, {"users"}>>]
AddEmployee == [facts |-> {"duty"}, forgets |-> <<{"employee", "staff"}>>]
UpdateEmployee == [facts |-> {"duty"}, forgets |-> <<{"employee"}, {"employee", "staff"}>>]
ChangeCompany == [facts |-> {"company"}, forgets |-> <<{"company"}>>]
Permit == [facts |-> {"grants"}, forgets |-> <<{"grants"}>>]
Seed == [facts |-> {"grants"}, forgets |-> <<{"grants"}>>]
PlanErasure == [facts |-> {"plan"}, forgets |-> <<{"user"}>>]
DropErasure == [facts |-> {"plan"}, forgets |-> <<{"user"}>>]
Erase == [facts |-> {"name", "standing", "plan", "duty"},
          forgets |-> <<{"user"}, {"users"}, {"employee", "staff"}>>]
AdminChangesRole == [facts |-> {"standing"}, forgets |-> <<>>]
HourlyErasure == [facts |-> {"name", "standing", "plan", "duty"}, forgets |-> <<>>]

\* The views a write changes and does not delete, by the code as it is: the
\* staff shows the names of users, a user the duty of an employee and the list
\* of users the plan.
Spared == [AddUser |-> {}, UpdateUser |-> {"employee", "staff"},
           Deactivate |-> {}, AddEmployee |-> {"user"}, UpdateEmployee |-> {"user"},
           ChangeCompany |-> {}, Permit |-> {}, Seed |-> {}, PlanErasure |-> {"users"},
           DropErasure |-> {"users"}, Erase |-> {},
           AdminChangesRole |-> Views, HourlyErasure |-> Views]

Writes == [AddUser |-> AddUser, UpdateUser |-> UpdateUser, Deactivate |-> Deactivate,
           AddEmployee |-> AddEmployee, UpdateEmployee |-> UpdateEmployee,
           ChangeCompany |-> ChangeCompany, Permit |-> Permit, Seed |-> Seed,
           PlanErasure |-> PlanErasure, DropErasure |-> DropErasure, Erase |-> Erase,
           AdminChangesRole |-> AdminChangesRole, HourlyErasure |-> HourlyErasure]

-----------------------------------------------------------------------------
NoCopy == [kept |-> FALSE, old |-> {}]
NotReading == [view |-> "user", got |-> 0, old |-> {}]
NotWriting == [at |-> "idle", what |-> "Seed", left |-> <<>>]

DirectoryTypeOK ==
    /\ copy \in [Views -> [kept : BOOLEAN, old : SUBSET Facts]]
    /\ \A v \in Views : copy[v].old \subseteq Shows(v)
    /\ reader \in [Readers -> [view : Views, got : 0..2, old : SUBSET Facts]]
    /\ \A w \in Writers :
          /\ writer[w].at \in {"idle", "forget"}
          /\ writer[w].what \in DOMAIN Writes
          /\ \A i \in DOMAIN writer[w].left : writer[w].left[i] \subseteq Views
    /\ raced \union unforgotten \union gapped \subseteq Views \X Facts

DirectoryInit ==
    /\ copy = [v \in Views |-> NoCopy]
    /\ reader = [r \in Readers |-> NotReading]
    /\ writer = [w \in Writers |-> NotWriting]
    /\ raced = {} /\ unforgotten = {} /\ gapped = {}

\* A view that goes takes the reasons for its age with it.
Forgotten(pairs, gone) == {p \in pairs : p[1] \notin gone}

Drop(gone) ==
    /\ copy' = [v \in Views |-> IF v \in gone THEN NoCopy ELSE copy[v]]
    /\ raced' = Forgotten(raced, gone)
    /\ unforgotten' = Forgotten(unforgotten, gone)
    /\ gapped' = Forgotten(gapped, gone)

-----------------------------------------------------------------------------
(* Reads *)

\* A view that is kept is the answer; else it is put together, the first
\* SELECT at once.
Look(r, v) ==
    /\ reader[r].got = 0 /\ ~copy[v].kept
    /\ reader' = [reader EXCEPT ![r] = [view |-> v, got |-> 1, old |-> {}]]
    /\ UNCHANGED <<copy, writer, raced, unforgotten, gapped>>

ListUsers(r) == Look(r, "users")
ShowUser(r) == Look(r, "user")
ConsentStatus(r) == Look(r, "user")
ListEmployees(r) == Look(r, "staff")
ShowEmployee(r) == Look(r, "employee")
ShowCompany(r) == Look(r, "company")
ShowPermissions(r) == Look(r, "grants")

Complete(r) == reader[r].got = Len(Parts[reader[r].view])

SelectNext(r) ==
    /\ reader[r].got > 0 /\ ~Complete(r)
    /\ reader' = [reader EXCEPT ![r].got = @ + 1]
    /\ UNCHANGED <<copy, writer, raced, unforgotten, gapped>>

\* cache_set, whatever has happened since the SELECT; it replaces what another
\* reader has kept meanwhile.
KeepView(r) ==
    LET v == reader[r].view IN
    /\ reader[r].got > 0 /\ Complete(r)
    /\ copy' = [copy EXCEPT ![v] = [kept |-> TRUE, old |-> reader[r].old]]
    /\ raced' = Forgotten(raced, {v}) \union {<<v, f>> : f \in reader[r].old}
    /\ unforgotten' = Forgotten(unforgotten, {v})
    /\ gapped' = Forgotten(gapped, {v})
    /\ reader' = [reader EXCEPT ![r] = NotReading]
    /\ UNCHANGED writer

\* The answer of user-db is lost or an error, or Redis does not take the view.
ReadFails(r) ==
    /\ reader[r].got > 0
    /\ reader' = [reader EXCEPT ![r] = NotReading]
    /\ UNCHANGED <<copy, writer, raced, unforgotten, gapped>>

-----------------------------------------------------------------------------
(* Writes.  The account or employee that a route looks up first, to compare  *)
(* the tenant, is a read as above.                                           *)

\* What has been read of these facts is old.
Ages(facts, shown) == facts \intersect shown

\* The facts a reader has selected so far.
Got(r) == UNION {Parts[reader[r].view][i] : i \in 1..reader[r].got}

Change(facts, spared) ==
    /\ copy' = [v \in Views |->
          IF copy[v].kept THEN [copy[v] EXCEPT !.old = @ \union Ages(facts, Shows(v))]
          ELSE copy[v]]
    /\ reader' = [r \in Readers |->
          [reader[r] EXCEPT !.old = @ \union Ages(facts, Got(r))]]
    /\ gapped' = gapped \union
          {p \in spared \X facts : copy[p[1]].kept /\ p[2] \in Shows(p[1])}

\* user-db commits and answers; where it refuses, 404 or 409, or cannot be
\* reached, nothing changes and nothing is deleted.
Write(w, what) ==
    /\ writer[w].at = "idle"
    /\ Change(Writes[what].facts, Spared[what])
    /\ writer' = [writer EXCEPT ![w] =
          [at |-> "forget", what |-> what, left |-> Writes[what].forgets]]
    /\ UNCHANGED <<raced, unforgotten>>

CreateAccount(w) == Write(w, "AddUser")
ChangeUser(w) == Write(w, "UpdateUser")
DeactivateUser(w) == Write(w, "Deactivate")
CreateEmployeeOf(w) == Write(w, "AddEmployee")
ChangeEmployee(w) == Write(w, "UpdateEmployee")
DeleteEmployee(w) == Write(w, "Deactivate")
UpdateCompanyOf(w) == Write(w, "ChangeCompany")
UpdatePermissions(w) == Write(w, "Permit")
SeedPermissions(w) == Write(w, "Seed")
ScheduleErasure(w) == Write(w, "PlanErasure")
CancelErasure(w) == Write(w, "DropErasure")
EraseUser(w) == Write(w, "Erase")

AfterForget(w) ==
    LET left == writer[w].left IN
    writer' = [writer EXCEPT ![w] =
        IF Len(left) > 1 THEN [writer[w] EXCEPT !.left = Tail(left)] ELSE NotWriting]

\* cache_delete and cache_delete_pattern
ForgetView(w) ==
    /\ writer[w].at = "forget"
    /\ Drop(Head(writer[w].left))
    /\ AfterForget(w)
    /\ UNCHANGED reader

\* What the write has made old of views that it does not get to delete.
Remaining(w, views) ==
    {p \in views \X Writes[writer[w].what].facts : copy[p[1]].kept /\ p[2] \in Shows(p[1])}

\* They swallow the errors of Redis.
ForgetViewFails(w) ==
    /\ writer[w].at = "forget"
    /\ unforgotten' = unforgotten \union Remaining(w, Head(writer[w].left))
    /\ AfterForget(w)
    /\ UNCHANGED <<copy, reader, raced, gapped>>

\* A crash, or an answer of user-db that is lost after the commit.
WriteCutOff(w) ==
    /\ writer[w].at = "forget"
    /\ unforgotten' = unforgotten \union
          Remaining(w, UNION {writer[w].left[i] : i \in DOMAIN writer[w].left})
    /\ writer' = [writer EXCEPT ![w] = NotWriting]
    /\ UNCHANGED <<copy, reader, raced, gapped>>

\* PUT /admin/users/{id} and process_scheduled_anonymizations: no view is deleted.
WriteByAdmin ==
    /\ Change(AdminChangesRole.facts, Spared.AdminChangesRole)
    /\ UNCHANGED <<writer, raced, unforgotten>>

WriteByPass ==
    /\ Change(HourlyErasure.facts, Spared.HourlyErasure)
    /\ UNCHANGED <<writer, raced, unforgotten>>

\* The time to live ends.
ViewExpires ==
    /\ \E v \in Views : copy[v].kept /\ Drop({v})
    /\ UNCHANGED <<reader, writer>>

DirectoryNext ==
    \/ \E r \in Readers :
          \/ ListUsers(r) \/ ShowUser(r) \/ ConsentStatus(r) \/ ListEmployees(r)
          \/ ShowEmployee(r) \/ ShowCompany(r) \/ ShowPermissions(r)
          \/ SelectNext(r) \/ KeepView(r) \/ ReadFails(r)
    \/ \E w \in Writers :
          \/ CreateAccount(w) \/ ChangeUser(w) \/ DeactivateUser(w) \/ CreateEmployeeOf(w)
          \/ ChangeEmployee(w) \/ DeleteEmployee(w) \/ UpdateCompanyOf(w)
          \/ UpdatePermissions(w) \/ SeedPermissions(w) \/ ScheduleErasure(w)
          \/ CancelErasure(w) \/ EraseUser(w)
          \/ ForgetView(w) \/ ForgetViewFails(w) \/ WriteCutOff(w)
    \/ WriteByAdmin
    \/ WriteByPass
    \/ ViewExpires

DirectorySpec == DirectoryInit /\ [][DirectoryNext]_directoryVars

-----------------------------------------------------------------------------
(* Properties *)

\* The deletion that will still come.
Pending(v, f) ==
    \E w \in Writers :
        /\ writer[w].at = "forget" /\ f \in Writes[writer[w].what].facts
        /\ \E i \in DOMAIN writer[w].left : v \in writer[w].left[i]

\* A view that is kept shows something old only until the write that changed it
\* gets to it, unless one of four things has happened: a reader kept what it had
\* selected before, the deletion failed or was cut off, or the write is one that
\* does not know of the view.
OldViewHasCause ==
    \A v \in Views : \A f \in copy[v].old :
        \/ Pending(v, f)
        \/ <<v, f>> \in raced \union unforgotten \union gapped
=============================================================================
