----------------------------- MODULE JobScheduling -----------------------------
(***************************************************************************)
(* How job-bl-service books employees (api/routes.py, logic/scheduling.py, *)
(* service_client.py): a request reads the job, fetches the employee's     *)
(* jobs of the day, compares the slots, updates the job and inserts the    *)
(* assignment, each over HTTP, with nothing that holds other requests off. *)
(* What it reads comes from Redis when it is there; a write deletes those  *)
(* entries afterwards, and a cache error is swallowed.                     *)
(*                                                                         *)
(* Of a job the model has its slot, its rows in job_employees and whether  *)
(* it is deleted.  Slots are proper (schedule_job answers 400 to others,   *)
(* the table refuses them).  An update is one step: JobEdits has its many  *)
(* commits.                                                                *)
(***************************************************************************)
EXTENDS Naturals, FiniteSets

CONSTANTS
    Clerks,      \* the requests under way at one time
    Jobs, Employees,
    Slots,       \* pairs of a start and an end
    DayLength,   \* points in time of a day
    Requests,    \* what may be asked
    None         \* no employee, no slot

Kinds == {"assign", "schedule", "put", "delete"}

ASSUME SchedulingConstants ==
    /\ DayLength \in Nat \ {0}
    /\ \A s \in Slots : s \in Nat \X Nat /\ s[1] < s[2]
    /\ None \notin Employees \union Slots
    /\ Requests \subseteq [kind : Kinds, job : Jobs, who : Employees \union {None},
                           slot : Slots \union {None}]
    /\ \A r \in Requests : /\ r.kind = "assign" => r.who # None
                           /\ r.kind \in {"schedule", "put"} => r.slot # None

VARIABLES
    live,      \* the jobs with is_active
    slot,      \* slot[j]: start_time and end_time of j
    staff,     \* staff[j]: the employees job_employees has for j
    lists,     \* the cache of get_jobs_by_assignee_and_date: {} or {entry}
    names,     \* the cache of get_job likewise: the assigned_to of a job
    req,       \* req[c]: the request of c
    excused,   \* history variable: jobs last written without a check that held
    poisoned   \* history variable: entries of lists stored late or not deleted

vars == <<live, slot, staff, lists, names, req, excused, poisoned>>

Day(t) == t \div DayLength

Days == {Day(s[1]) : s \in Slots}

Keys == Employees \X Days

Rows == [job : Jobs, slot : Slots]

\* start_date and end_date of the query: a job across midnight is on no day.
OnDay(s, d) == s[1] >= d * DayLength /\ s[2] <= (d + 1) * DayLength

\* Mutant of Overlaps: a slot that contains the other one is overlooked.
OverlapsAtAnEnd(s, t) == s[1] <= t[1] /\ t[1] < s[2]

Overlaps(s, t) == s[1] < t[2] /\ t[1] < s[2]

Listing(e, d) ==
    {r \in Rows : /\ r.job \in live /\ e \in staff[r.job]
                  /\ r.slot = slot[r.job] /\ OnDay(r.slot, d)}

\* who: the employee to check; found: the rows of the check; sound, a history
\* variable: what c found is still so, its own writes apart.
Idle == [pc |-> "idle", ask |-> None, who |-> None, found |-> {}, sound |-> FALSE]

TypeOK ==
    /\ live \subseteq Jobs
    /\ slot \in [Jobs -> Slots \union {None}]
    /\ staff \in [Jobs -> SUBSET Employees]
    /\ lists \in [Keys -> SUBSET SUBSET Rows]
    /\ names \in [Jobs -> SUBSET (Employees \union {None})]
    /\ req \in [Clerks -> [pc : {"idle", "look", "keep", "check", "store", "update", "delete",
                                "forgetSlot", "assign", "forget"},
                          ask : Requests \union {None}, who : Employees \union {None},
                          found : SUBSET Rows, sound : BOOLEAN]]
    /\ \A c \in Clerks : /\ req[c].pc # "idle" => req[c].ask \in Requests
                         /\ req[c].pc \in {"check", "store"} => req[c].who # None
    /\ excused \subseteq Jobs
    /\ poisoned \subseteq Keys

\* Jobs without employees; a job is created with any slot or without one.
Init ==
    /\ live = Jobs
    /\ slot \in [Jobs -> Slots \union {None}]
    /\ staff = [j \in Jobs |-> {}]
    /\ lists = [k \in Keys |-> {}]
    /\ names = [j \in Jobs |-> {}]
    /\ req = [c \in Clerks |-> Idle]
    /\ excused = {}
    /\ poisoned = {}

-----------------------------------------------------------------------------
Job(c) == req[c].ask.job

Key(c) == <<req[c].who, Day(req[c].ask.slot[1])>>

At(c, pc) == req[c].pc = pc

End(c) == req' = [req EXCEPT ![c] = Idle]

\* c has written and goes on: what the others found may be out of date.
WriteThen(c, pc) ==
    req' = [d \in Clerks |-> IF d = c THEN [req[d] EXCEPT !.pc = pc]
                             ELSE [req[d] EXCEPT !.sound = FALSE]]

\* c made a check for employee e, and its result is still true.
Checked(c, e) == req[c].sound /\ req[c].who = e

Begin(c, r) ==
    /\ At(c, "idle")
    /\ req' = [req EXCEPT ![c] = [Idle EXCEPT !.pc = "look", !.ask = r]]
    /\ UNCHANGED <<live, slot, staff, lists, names, excused, poisoned>>

\* What the handler does when get_job has returned the job with its assigned_to.
\* assign_job checks if there are times, schedule_job if there is an assignee.
AfterLook(c, assigned) ==
    LET r == req[c].ask
        who == IF r.who # None THEN r.who ELSE assigned
    IN  req' = [req EXCEPT ![c].who = IF r.kind \in {"assign", "schedule"} THEN who ELSE None,
                           ![c].pc = CASE r.kind = "delete" -> "delete"
                                       [] r.kind = "put" -> "update"
                                       [] r.kind = "assign" /\ r.slot = None -> "assign"
                                       [] r.kind = "schedule" /\ who = None -> "update"
                                       [] OTHER -> "check"]

(* get_job of service_client.py *)

LookHit(c) ==
    /\ At(c, "look")
    /\ \E e \in names[Job(c)] : AfterLook(c, e)
    /\ UNCHANGED <<live, slot, staff, lists, names, excused, poisoned>>

\* No entry, or a cache error, which counts as none: the job is read, then
\* emp_ids[0] of a SELECT without ORDER BY, any of them; nobody if this second
\* call times out, which get_job only logs.
LookMiss(c) ==
    /\ At(c, "look")
    /\ Job(c) \in live
    /\ \E e \in staff[Job(c)] \union {None} :
         req' = [req EXCEPT ![c].pc = "keep", ![c].who = e]
    /\ UNCHANGED <<live, slot, staff, lists, names, excused, poisoned>>

\* cache_set, which may fail without a word.
Keep(c) ==
    /\ At(c, "keep")
    /\ \/ names' = [names EXCEPT ![Job(c)] = {req[c].who}]
       \/ UNCHANGED names
    /\ AfterLook(c, req[c].who)
    /\ UNCHANGED <<live, slot, staff, lists, excused, poisoned>>

-----------------------------------------------------------------------------
(* check_schedule_conflicts *)

Conflicts(c, rows) ==
    {r \in rows : r.job # Job(c) /\ Overlaps(r.slot, req[c].ask.slot)}

\* A conflict is answered with 409.
AfterCheck(c, rows, sound) ==
    IF Conflicts(c, rows) = {}
    THEN req' = [req EXCEPT ![c].pc = "update", ![c].found = {}, ![c].sound = sound]
    ELSE End(c)

ListHit(c) ==
    /\ At(c, "check")
    /\ \E rows \in lists[Key(c)] :
         AfterCheck(c, rows, rows = Listing(Key(c)[1], Key(c)[2]))
    /\ UNCHANGED <<live, slot, staff, lists, names, excused, poisoned>>

ListMiss(c) ==
    /\ At(c, "check")
    /\ req' = [req EXCEPT ![c].pc = "store", ![c].found = Listing(Key(c)[1], Key(c)[2]),
                          ![c].sound = TRUE]
    /\ UNCHANGED <<live, slot, staff, lists, names, excused, poisoned>>

\* cache_set, then the comparison.
Store(c) ==
    /\ At(c, "store")
    /\ \/ /\ lists' = [lists EXCEPT ![Key(c)] = {req[c].found}]
          /\ poisoned' = IF req[c].found = Listing(Key(c)[1], Key(c)[2])
                         THEN poisoned \ {Key(c)}
                         ELSE poisoned \union {Key(c)}
       \/ UNCHANGED <<lists, poisoned>>
    /\ AfterCheck(c, req[c].found, req[c].sound)
    /\ UNCHANGED <<live, slot, staff, names, excused>>

-----------------------------------------------------------------------------
(* update_job, assign_employee_to_job and delete_job of job-db-access-service *)

\* The body of schedule_job with assigned_to is refused (JobUpdate forbids
\* fields it does not know).
UpdateSlot(c) ==
    LET j == Job(c) IN
    /\ At(c, "update")
    /\ j \in live
    /\ ~(req[c].ask.kind = "schedule" /\ req[c].ask.who # None)
    /\ slot' = [slot EXCEPT ![j] = req[c].ask.slot]
    /\ excused' = IF \A e \in staff[j] : Checked(c, e) THEN excused \ {j}
                  ELSE excused \union {j}
    /\ WriteThen(c, IF req[c].ask.kind = "assign" THEN "forgetSlot" ELSE "forget")
    /\ UNCHANGED <<live, staff, lists, names, poisoned>>

\* A second row for the same job and employee violates their unique constraint.
AssignEmployee(c) ==
    LET j == Job(c)  e == req[c].ask.who IN
    /\ At(c, "assign")
    /\ j \in live
    /\ e \notin staff[j]
    /\ staff' = [staff EXCEPT ![j] = @ \union {e}]
    /\ excused' = IF Checked(c, e) /\ req[c].ask.slot # None THEN excused
                  ELSE excused \union {j}
    /\ WriteThen(c, "forget")
    /\ UNCHANGED <<live, slot, lists, names, poisoned>>

DeleteJob(c) ==
    /\ At(c, "delete")
    /\ Job(c) \in live
    /\ live' = live \ {Job(c)}
    /\ WriteThen(c, "forget")
    /\ UNCHANGED <<slot, staff, lists, names, excused, poisoned>>

Survivors == {k \in Keys : lists[k] # {}}

\* Mutant of Forget: cache_delete alone, the lists stay.
ForgetJobOnly(c) ==
    /\ req[c].pc \in {"forgetSlot", "forget"}
    /\ names' \in {names, [names EXCEPT ![Job(c)] = {}]}
    /\ IF At(c, "forgetSlot") THEN req' = [req EXCEPT ![c].pc = "assign"] ELSE End(c)
    /\ UNCHANGED <<live, slot, staff, lists, excused, poisoned>>

\* cache_delete and cache_delete_pattern after a write, in one step: each may
\* fail without a word.  The answer follows, or the assignment of assign_job.
Forget(c) ==
    /\ req[c].pc \in {"forgetSlot", "forget"}
    /\ names' \in {names, [names EXCEPT ![Job(c)] = {}]}
    /\ \/ /\ lists' = [k \in Keys |-> {}]
          /\ poisoned' = {}
       \/ /\ poisoned' = Survivors
          /\ UNCHANGED lists
    /\ IF At(c, "forgetSlot") THEN req' = [req EXCEPT ![c].pc = "assign"] ELSE End(c)
    /\ UNCHANGED <<live, slot, staff, excused>>

-----------------------------------------------------------------------------
\* An error answer of a service, a connection that breaks (the write it asks
\* for may be done and then nothing is deleted from the cache), a crash.
Fail(c) ==
    /\ ~At(c, "idle")
    /\ End(c)
    /\ poisoned' = IF req[c].pc \in {"forgetSlot", "forget"}
                   THEN poisoned \union Survivors ELSE poisoned
    /\ UNCHANGED <<live, slot, staff, lists, names, excused>>

\* The time to live of an entry.
ExpireList(k) ==
    /\ lists[k] # {}
    /\ lists' = [lists EXCEPT ![k] = {}]
    /\ poisoned' = poisoned \ {k}
    /\ UNCHANGED <<live, slot, staff, names, req, excused>>

ExpireName(j) ==
    /\ names[j] # {}
    /\ names' = [names EXCEPT ![j] = {}]
    /\ UNCHANGED <<live, slot, staff, lists, req, excused, poisoned>>

Next ==
    \/ \E c \in Clerks :
         \/ \E r \in Requests : Begin(c, r)
         \/ LookHit(c) \/ LookMiss(c) \/ Keep(c)
         \/ ListHit(c) \/ ListMiss(c) \/ Store(c)
         \/ UpdateSlot(c) \/ AssignEmployee(c) \/ DeleteJob(c)
         \/ Forget(c) \/ Fail(c)
    \/ \E k \in Keys : ExpireList(k)
    \/ \E j \in Jobs : ExpireName(j)

Spec == Init /\ [][Next]_vars

-----------------------------------------------------------------------------
(* Properties *)

\* Two jobs of an employee at the same time of one day.
DoubleBooked(j, k) ==
    /\ j # k
    /\ {j, k} \subseteq live
    /\ staff[j] \intersect staff[k] # {}
    /\ None \notin {slot[j], slot[k]}
    /\ \E d \in Days : OnDay(slot[j], d) /\ OnDay(slot[k], d)
    /\ Overlaps(slot[j], slot[k])

\* Every double booking within a day has a cause: one of the two jobs was last
\* written without a check for that employee (PUT, an assignment without
\* times, a second employee), or after a check that was no longer true when
\* its result was used (another request in between, an old cache entry).
DoubleBookingNeedsCause ==
    \A j, k \in Jobs : DoubleBooked(j, k) => {j, k} \intersect excused # {}

\* The cache of the lists is as good as its protocol: an entry differs from
\* the database only while a writer has not deleted it yet, when it was
\* stored after such a write, or when its deletion failed.
StaleNeedsCause ==
    \A k \in Keys \ poisoned :
        \/ lists[k] \subseteq {Listing(k[1], k[2])}
        \/ \E c \in Clerks : req[c].pc \in {"forgetSlot", "forget"}

\* "automatic conflict detection (no double-booking)"
NoDoubleBooking == \A j, k \in Jobs : ~DoubleBooked(j, k)
=============================================================================
