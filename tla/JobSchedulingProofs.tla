-------------------------- MODULE JobSchedulingProofs --------------------------
(***************************************************************************)
(* Proofs about JobScheduling, for any clerks, jobs, employees, slots and  *)
(* requests.                                                               *)
(*                                                                         *)
(* The properties of JobScheduling need one strengthening: a check whose   *)
(* result is still true (sound) found no conflict in the list as it is     *)
(* now, and assign_job inserts its row while the job still has the slot it *)
(* checked.                                                                *)
(***************************************************************************)
EXTENDS JobScheduling, TLAPS

-----------------------------------------------------------------------------
(* JobScheduling *)

\* The list the check of c is about, as the database has it.
Current(c) == Listing(Key(c)[1], Key(c)[2])

CanCheck(c) == req[c].who \in Employees /\ req[c].ask.slot \in Slots

\* The check of c, as far as c still relies on it.
CheckIsSound(c) ==
    /\ req[c].pc \in {"look", "keep"} => ~req[c].sound
    /\ req[c].pc \in {"forgetSlot", "assign"} => req[c].ask.kind = "assign"
    /\ req[c].pc \in {"check", "store"} => CanCheck(c)
    /\ req[c].sound =>
         /\ req[c].pc = "store" => req[c].found = Current(c)
         /\ req[c].pc \in {"update", "forgetSlot", "assign"} =>
              CanCheck(c) /\ Conflicts(c, Current(c)) = {}
         /\ req[c].pc \in {"forgetSlot", "assign"} => slot[Job(c)] = req[c].ask.slot

SoundChecks == \A c \in Clerks : CheckIsSound(c)

-----------------------------------------------------------------------------
(* Days and slots *)

\* A slot that is on a day starts on that day.
LEMMA OnlyItsDay ==
    ASSUME NEW s \in Slots, NEW d \in Nat, OnDay(s, d)
    PROVE  d = Day(s[1])
<1>1. s[1] \in Nat /\ s[2] \in Nat /\ s[1] < s[2] /\ DayLength \in Nat /\ DayLength > 0
    BY SchedulingConstants
<1>2. s[1] >= d * DayLength /\ s[1] < (d + 1) * DayLength
    BY <1>1 DEF OnDay
<1>3. QED
    BY <1>1, <1>2 DEF Day

LEMMA DaysAreNat == Days \subseteq Nat
BY SchedulingConstants DEF Days, Day

LEMMA SlotsAre ==
    \A s \in Slots : /\ s[1] \in Nat /\ s[2] \in Nat /\ s[1] < s[2] /\ s # None
                     /\ Day(s[1]) \in Days
BY SchedulingConstants DEF Days

\* A request that asks for a check has a key in the cache of the lists.
LEMMA CheckHasKey ==
    ASSUME NEW c \in Clerks, CanCheck(c)
    PROVE  /\ Key(c) \in Keys
           /\ Key(c)[1] = req[c].who /\ Key(c)[2] = Day(req[c].ask.slot[1])
BY SlotsAre DEF CanCheck, Key, Keys

LEMMA RequestsAre ==
    ASSUME TypeOK, NEW c \in Clerks, req[c].pc # "idle"
    PROVE  /\ req[c].ask \in Requests /\ Job(c) \in Jobs
           /\ req[c].ask.kind \in Kinds
           /\ req[c].ask.who \in Employees \union {None}
           /\ req[c].ask.slot \in Slots \union {None}
           /\ req[c].ask.kind = "assign" => req[c].ask.who \in Employees
           /\ req[c].ask.kind \in {"schedule", "put"} => req[c].ask.slot \in Slots
BY SchedulingConstants DEF TypeOK, Job

\* A check without conflict keeps the employee free, for the day of the slot.
LEMMA CheckProtects ==
    ASSUME TypeOK, NEW c \in Clerks, CanCheck(c), Conflicts(c, Current(c)) = {},
           NEW k \in live, k # Job(c), req[c].who \in staff[k], slot[k] # None,
           NEW d \in Days, OnDay(slot[k], d), OnDay(req[c].ask.slot, d)
    PROVE  /\ ~Overlaps(slot[k], req[c].ask.slot)
           /\ ~Overlaps(req[c].ask.slot, slot[k])
<1> DEFINE r == [job |-> k, slot |-> slot[k]]
<1>1. r \in Rows
    BY DEF TypeOK, Rows
<1>2. d = Day(req[c].ask.slot[1])
    BY OnlyItsDay, DaysAreNat DEF CanCheck
<1>3. r \in Current(c)
    BY <1>1, <1>2, CheckHasKey DEF Current, Listing
<1>4. ~Overlaps(slot[k], req[c].ask.slot)
    BY <1>3 DEF Conflicts
<1>5. QED
    BY <1>4 DEF Overlaps

-----------------------------------------------------------------------------
(* Type correctness *)

\* What get_job returns leads to a state of the right type.
LEMMA AfterLookTyped ==
    ASSUME TypeOK, NEW c \in Clerks, req[c].pc # "idle",
           NEW a \in Employees \union {None}, AfterLook(c, a)
    PROVE  /\ req' = [req EXCEPT ![c].pc = req'[c].pc, ![c].who = req'[c].who]
           /\ req'[c].pc \in {"delete", "update", "assign", "check"}
           /\ req'[c].who \in Employees \union {None}
           /\ req'[c].pc = "check" =>
                req[c].ask.slot \in Slots /\ req'[c].who \in Employees
<1>1. /\ req[c].ask.kind \in Kinds
      /\ req[c].ask.who \in Employees \union {None}
      /\ req[c].ask.slot \in Slots \union {None}
      /\ req[c].ask.kind = "assign" => req[c].ask.who \in Employees
      /\ req[c].ask.kind \in {"schedule", "put"} => req[c].ask.slot \in Slots
    BY RequestsAre
<1>2. None \notin Employees
    BY SchedulingConstants
<1>3. DOMAIN req = Clerks /\ req = [d \in Clerks |-> req[d]]
      /\ req[c] = [pc |-> req[c].pc, ask |-> req[c].ask, who |-> req[c].who,
                   found |-> req[c].found, sound |-> req[c].sound]
    BY DEF TypeOK
<1>4. CASE req[c].ask.kind = "delete"
    BY <1>1, <1>3, <1>4 DEF AfterLook
<1>5. CASE req[c].ask.kind = "put"
    BY <1>1, <1>3, <1>5 DEF AfterLook
<1>6. CASE req[c].ask.kind = "assign"
    BY <1>1, <1>2, <1>3, <1>6 DEF AfterLook
<1>7. CASE req[c].ask.kind = "schedule"
    BY <1>1, <1>2, <1>3, <1>7 DEF AfterLook
<1>8. QED
    BY <1>1, <1>4, <1>5, <1>6, <1>7 DEF Kinds

\* The request of c goes on or ends; the other requests are as they were.
LEMMA ReqTyped ==
    ASSUME TypeOK, NEW c \in Clerks, NEW n,
           \/ n = Idle
           \/ /\ n \in [pc : {"look", "keep", "check", "store", "update", "delete",
                              "forgetSlot", "assign", "forget"},
                        ask : Requests, who : Employees \union {None},
                        found : SUBSET Rows, sound : BOOLEAN]
              /\ n.pc \in {"check", "store"} => n.who # None,
           req' = [req EXCEPT ![c] = n],
           live' \subseteq Jobs,
           slot' \in [Jobs -> Slots \union {None}],
           staff' \in [Jobs -> SUBSET Employees],
           lists' \in [Keys -> SUBSET SUBSET Rows],
           names' \in [Jobs -> SUBSET (Employees \union {None})],
           excused' \subseteq Jobs,
           poisoned' \subseteq Keys
    PROVE  TypeOK'
<1> DEFINE R == [pc : {"idle", "look", "keep", "check", "store", "update", "delete",
                       "forgetSlot", "assign", "forget"},
                 ask : Requests \union {None}, who : Employees \union {None},
                 found : SUBSET Rows, sound : BOOLEAN]
<1>1. Idle \in R /\ Idle.pc = "idle"
    BY DEF Idle
<1>2. n \in R
    BY <1>1
<1>3. req' \in [Clerks -> R] /\ req'[c] = n /\ \A d \in Clerks \ {c} : req'[d] = req[d]
    BY <1>2 DEF TypeOK
<1>4. /\ n.pc # "idle" => n.ask \in Requests
      /\ n.pc \in {"check", "store"} => n.who # None
    BY <1>1
<1>5. \A d \in Clerks : /\ req'[d].pc # "idle" => req'[d].ask \in Requests
                        /\ req'[d].pc \in {"check", "store"} => req'[d].who # None
    BY <1>3, <1>4 DEF TypeOK
<1>6. QED
    BY <1>3, <1>5 DEF TypeOK

\* After a write the checks of the others are no longer known to hold.
LEMMA WriteThenTyped ==
    ASSUME TypeOK, NEW c \in Clerks, req[c].pc # "idle",
           NEW pc \in {"forgetSlot", "forget"}, WriteThen(c, pc)
    PROVE  /\ req' \in [Clerks -> [pc : {"idle", "look", "keep", "check", "store", "update",
                                        "delete", "forgetSlot", "assign", "forget"},
                                  ask : Requests \union {None}, who : Employees \union {None},
                                  found : SUBSET Rows, sound : BOOLEAN]]
           /\ req'[c] = [req[c] EXCEPT !.pc = pc]
           /\ \A d \in Clerks \ {c} : req'[d] = [req[d] EXCEPT !.sound = FALSE]
           /\ \A d \in Clerks : /\ req'[d].pc # "idle" => req'[d].ask \in Requests
                                /\ req'[d].pc \in {"check", "store"} => req'[d].who # None
<1>1. /\ DOMAIN req' = Clerks
      /\ \A d \in Clerks : req'[d] = IF d = c THEN [req[d] EXCEPT !.pc = pc]
                                      ELSE [req[d] EXCEPT !.sound = FALSE]
    BY DEF WriteThen
<1>2. req'[c] = [req[c] EXCEPT !.pc = pc] /\ req'[c].pc = pc /\ req'[c].ask = req[c].ask
    BY <1>1 DEF TypeOK
<1>3. \A d \in Clerks \ {c} : /\ req'[d] = [req[d] EXCEPT !.sound = FALSE]
                              /\ req'[d].pc = req[d].pc /\ req'[d].ask = req[d].ask
                              /\ req'[d].who = req[d].who
    BY <1>1 DEF TypeOK
<1>4. \A d \in Clerks : /\ req'[d].pc # "idle" => req'[d].ask \in Requests
                        /\ req'[d].pc \in {"check", "store"} => req'[d].who # None
    BY <1>2, <1>3 DEF TypeOK
<1> DEFINE R == [pc : {"idle", "look", "keep", "check", "store", "update", "delete",
                       "forgetSlot", "assign", "forget"},
                 ask : Requests \union {None}, who : Employees \union {None},
                 found : SUBSET Rows, sound : BOOLEAN]
<1>5. /\ \A d \in Clerks : [req[d] EXCEPT !.sound = FALSE] \in R
      /\ [req[c] EXCEPT !.pc = pc] \in R
    <2>1. \A d \in Clerks : req[d] \in R
        BY DEF TypeOK
    <2>2. \A x \in R : [x EXCEPT !.sound = FALSE] \in R
        OBVIOUS
    <2>3. \A x \in R : [x EXCEPT !.pc = pc] \in R
        OBVIOUS
    <2>4. QED
        BY <2>1, <2>2, <2>3
<1> HIDE DEF R
<1>6. \A d \in Clerks : req'[d] \in R
    BY <1>2, <1>3, <1>5
<1>7. req' = [d \in Clerks |-> req'[d]]
    BY DEF WriteThen
<1>8. req' \in [Clerks -> R]
    BY <1>6, <1>7
<1>9. QED
    BY <1>2, <1>3, <1>4, <1>8 DEF R

LEMMA TypeNext == ASSUME TypeOK, SoundChecks, [Next]_vars PROVE TypeOK'
<1>1. ASSUME NEW c \in Clerks, NEW r \in Requests, Begin(c, r) PROVE TypeOK'
    <2> DEFINE n == [Idle EXCEPT !.pc = "look", !.ask = r]
    <2>1. /\ n \in [pc : {"look"}, ask : Requests, who : Employees \union {None},
                     found : SUBSET Rows, sound : BOOLEAN]
          /\ n.pc = "look"
        BY DEF Idle
    <2>2. req' = [req EXCEPT ![c] = n]
        BY <1>1 DEF Begin
    <2> HIDE DEF n
    <2>3. QED
        BY <1>1, <2>1, <2>2, ReqTyped DEF Begin, TypeOK
<1>2. ASSUME NEW c \in Clerks, NEW a \in Employees \union {None}, req[c].pc # "idle",
             AfterLook(c, a), UNCHANGED <<live, slot, staff, lists, excused, poisoned>>,
             names' \in [Jobs -> SUBSET (Employees \union {None})]
      PROVE  TypeOK'
    <2> DEFINE n == [req[c] EXCEPT !.pc = req'[c].pc, !.who = req'[c].who]
    <2>1. /\ req'[c].pc \in {"delete", "update", "assign", "check"}
          /\ req'[c].who \in Employees \union {None}
          /\ req'[c].pc = "check" => req'[c].who # None
          /\ req' = [req EXCEPT ![c].pc = req'[c].pc, ![c].who = req'[c].who]
        BY <1>2, AfterLookTyped, SchedulingConstants
    <2>2. req[c].ask \in Requests
        BY <1>2, RequestsAre
    <2>3. /\ n \in [pc : {"delete", "update", "assign", "check"}, ask : Requests,
                     who : Employees \union {None}, found : SUBSET Rows, sound : BOOLEAN]
          /\ n.pc = "check" => n.who # None
          /\ n.pc # "store"
          /\ req' = [req EXCEPT ![c] = n]
        BY <2>1, <2>2 DEF TypeOK
    <2> HIDE DEF n
    <2>4. QED
        BY <1>2, <2>3, ReqTyped DEF TypeOK
<1>3. ASSUME NEW c \in Clerks, LookHit(c) PROVE TypeOK'
    <2>1. PICK a \in names[Job(c)] : AfterLook(c, a)
        BY <1>3 DEF LookHit
    <2>2. req[c].pc # "idle" /\ a \in Employees \union {None}
        BY <1>3, RequestsAre DEF LookHit, At, TypeOK
    <2>3. QED
        BY <1>2, <1>3, <2>1, <2>2 DEF LookHit, TypeOK
<1>4. ASSUME NEW c \in Clerks, LookMiss(c) PROVE TypeOK'
    <2>1. req[c].ask \in Requests /\ Job(c) \in Jobs
        BY <1>4, RequestsAre DEF LookMiss, At
    <2>2. PICK e \in staff[Job(c)] \union {None} :
              req' = [req EXCEPT ![c].pc = "keep", ![c].who = e]
        BY <1>4 DEF LookMiss
    <2> DEFINE n == [req[c] EXCEPT !.pc = "keep", !.who = e]
    <2>3. /\ n \in [pc : {"keep"}, ask : Requests, who : Employees \union {None},
                     found : SUBSET Rows, sound : BOOLEAN]
          /\ n.pc = "keep" /\ req' = [req EXCEPT ![c] = n]
        BY <2>1, <2>2 DEF TypeOK
    <2> HIDE DEF n
    <2>4. QED
        BY <1>4, <2>3, ReqTyped DEF LookMiss, TypeOK
<1>5. ASSUME NEW c \in Clerks, Keep(c) PROVE TypeOK'
    <2>1. req[c].pc # "idle" /\ req[c].who \in Employees \union {None}
        BY <1>5 DEF Keep, At, TypeOK
    <2>2. names' \in [Jobs -> SUBSET (Employees \union {None})]
        BY <1>5, <2>1 DEF Keep, TypeOK
    <2>3. QED
        BY <1>2, <1>5, <2>1, <2>2 DEF Keep
<1>6. ASSUME NEW c \in Clerks, req[c].pc # "idle", NEW rows, NEW b \in BOOLEAN,
             AfterCheck(c, rows, b), UNCHANGED <<live, slot, staff, names, excused>>,
             lists' \in [Keys -> SUBSET SUBSET Rows], poisoned' \subseteq Keys
      PROVE  TypeOK'
    <2> DEFINE n == [req[c] EXCEPT !.pc = "update", !.found = {}, !.sound = b]
    <2>1. req[c].ask \in Requests
        BY <1>6, RequestsAre
    <2>2. /\ n \in [pc : {"update"}, ask : Requests, who : Employees \union {None},
                     found : SUBSET Rows, sound : BOOLEAN]
          /\ n.pc = "update"
        BY <2>1 DEF TypeOK
    <2>3. req' = [req EXCEPT ![c] = n] \/ req' = [req EXCEPT ![c] = Idle]
        BY <1>6 DEF AfterCheck, End, TypeOK
    <2> HIDE DEF n
    <2>4. QED
        BY <1>6, <2>2, <2>3, ReqTyped DEF TypeOK
<1>7. ASSUME NEW c \in Clerks, ListHit(c) PROVE TypeOK'
    BY <1>6, <1>7 DEF ListHit, At, TypeOK
<1>8. ASSUME NEW c \in Clerks, ListMiss(c) PROVE TypeOK'
    <2>1. req[c].ask \in Requests /\ req[c].who # None
        BY <1>8, RequestsAre DEF ListMiss, At, TypeOK
    <2> DEFINE n == [req[c] EXCEPT !.pc = "store", !.found = Current(c), !.sound = TRUE]
    <2>2. Current(c) \subseteq Rows
        BY DEF Current, Listing
    <2>3. /\ n \in [pc : {"store"}, ask : Requests, who : Employees \union {None},
                     found : SUBSET Rows, sound : BOOLEAN]
          /\ n.who # None /\ req' = [req EXCEPT ![c] = n]
        BY <1>8, <2>1, <2>2 DEF ListMiss, Current, TypeOK
    <2> HIDE DEF n
    <2>4. QED
        BY <1>8, <2>3, ReqTyped DEF ListMiss, TypeOK
<1>9. ASSUME NEW c \in Clerks, Store(c) PROVE TypeOK'
    <2>1. Key(c) \in Keys /\ req[c].pc # "idle"
        BY <1>9, CheckHasKey DEF Store, At, SoundChecks, CheckIsSound
    <2>2. lists' \in [Keys -> SUBSET SUBSET Rows] /\ poisoned' \subseteq Keys
        BY <1>9, <2>1 DEF Store, TypeOK
    <2>3. req[c].sound \in BOOLEAN
        BY DEF TypeOK
    <2>4. QED
        BY <1>6, <1>9, <2>1, <2>2, <2>3 DEF Store
<1>10. ASSUME NEW c \in Clerks, UpdateSlot(c) PROVE TypeOK'
    <2>1. /\ req[c].pc # "idle" /\ Job(c) \in Jobs
          /\ req[c].ask.slot \in Slots \union {None}
        BY <1>10, RequestsAre DEF UpdateSlot, At
    <2>2. \E pc \in {"forgetSlot", "forget"} : WriteThen(c, pc)
        BY <1>10 DEF UpdateSlot
    <2>3. QED
        BY <1>10, <2>1, <2>2, WriteThenTyped DEF UpdateSlot, TypeOK
<1>11. ASSUME NEW c \in Clerks, AssignEmployee(c) PROVE TypeOK'
    <2>1. /\ req[c].pc # "idle" /\ Job(c) \in Jobs /\ WriteThen(c, "forget")
          /\ req[c].ask.who \in Employees
        BY <1>11, RequestsAre DEF AssignEmployee, At, SoundChecks, CheckIsSound
    <2>2. staff' \in [Jobs -> SUBSET Employees]
        BY <1>11, <2>1 DEF AssignEmployee, TypeOK
    <2>3. QED
        BY <1>11, <2>1, <2>2, WriteThenTyped DEF AssignEmployee, TypeOK
<1>12. ASSUME NEW c \in Clerks, DeleteJob(c) PROVE TypeOK'
    <2>1. req[c].pc # "idle" /\ WriteThen(c, "forget")
        BY <1>12 DEF DeleteJob, At
    <2>2. QED
        BY <1>12, <2>1, WriteThenTyped DEF DeleteJob, TypeOK
<1>13. ASSUME NEW c \in Clerks, Forget(c) PROVE TypeOK'
    <2> DEFINE n == [req[c] EXCEPT !.pc = "assign"]
    <2>1. req[c].ask \in Requests
        BY <1>13, RequestsAre DEF Forget
    <2>2. /\ n \in [pc : {"assign"}, ask : Requests, who : Employees \union {None},
                     found : SUBSET Rows, sound : BOOLEAN]
          /\ n.pc = "assign"
          /\ req' = [req EXCEPT ![c] = n] \/ req' = [req EXCEPT ![c] = Idle]
        BY <1>13, <2>1 DEF Forget, End, TypeOK
    <2>3. /\ lists' \in [Keys -> SUBSET SUBSET Rows] /\ poisoned' \subseteq Keys
          /\ names' \in [Jobs -> SUBSET (Employees \union {None})]
        BY <1>13 DEF Forget, Survivors, TypeOK
    <2> HIDE DEF n
    <2>4. QED
        BY <1>13, <2>2, <2>3, ReqTyped DEF Forget, TypeOK
<1>14. ASSUME NEW c \in Clerks, Fail(c) PROVE TypeOK'
    BY <1>14, ReqTyped DEF Fail, End, Survivors, TypeOK
<1>15. ASSUME NEW k \in Keys, ExpireList(k) PROVE TypeOK'
    BY <1>15 DEF ExpireList, TypeOK
<1>16. ASSUME NEW j \in Jobs, ExpireName(j) PROVE TypeOK'
    BY <1>16 DEF ExpireName, TypeOK
<1>17. CASE UNCHANGED vars
    BY <1>17 DEF vars, TypeOK
<1>18. QED
    BY <1>1, <1>3, <1>4, <1>5, <1>7, <1>8, <1>9, <1>10, <1>11, <1>12, <1>13, <1>14, <1>15,
       <1>16, <1>17 DEF Next

-----------------------------------------------------------------------------
(* Checks *)

\* A request that is as it was, while no job changes, has its check as it was.
LEMMA OtherRequest ==
    ASSUME NEW c \in Clerks, CheckIsSound(c), req'[c] = req[c], UNCHANGED <<live, slot, staff>>
    PROVE  CheckIsSound(c)'
BY DEF CheckIsSound, CanCheck, Current, Conflicts, Key, Job, Listing

\* A step of c that reads: the others are as they were.
LEMMA ReadingStep ==
    ASSUME TypeOK, SoundChecks, NEW c \in Clerks, NEW n, req' = [req EXCEPT ![c] = n],
           UNCHANGED <<live, slot, staff>>, CheckIsSound(c)'
    PROVE  SoundChecks'
<1>1. \A d \in Clerks \ {c} : req'[d] = req[d]
    BY DEF TypeOK
<1>2. \A d \in Clerks \ {c} : CheckIsSound(d)'
    BY <1>1, OtherRequest DEF SoundChecks
<1>3. QED
    BY <1>2 DEF SoundChecks, CheckIsSound

\* A step of c that writes: the others lose their checks.
LEMMA WritingStep ==
    ASSUME TypeOK, SoundChecks, NEW c \in Clerks, req[c].pc # "idle",
           NEW pc \in {"forgetSlot", "forget"}, WriteThen(c, pc),
           CheckIsSound(c)'
    PROVE  SoundChecks'
<1>1. ASSUME NEW d \in Clerks \ {c} PROVE CheckIsSound(d)'
    <2>1. /\ ~req'[d].sound /\ req'[d].pc = req[d].pc
          /\ req'[d].ask = req[d].ask /\ req'[d].who = req[d].who
        <3>1. req'[d] = [req[d] EXCEPT !.sound = FALSE]
            BY WriteThenTyped
        <3>2. req[d] \in [pc : {"idle", "look", "keep", "check", "store", "update", "delete",
                              "forgetSlot", "assign", "forget"},
                         ask : Requests \union {None}, who : Employees \union {None},
                         found : SUBSET Rows, sound : BOOLEAN]
            BY DEF TypeOK
        <3>3. QED
            BY <3>1, <3>2
    <2>2. /\ req[d].pc \in {"forgetSlot", "assign"} => req[d].ask.kind = "assign"
          /\ req[d].pc \in {"check", "store"} => CanCheck(d)
        BY DEF SoundChecks, CheckIsSound
    <2>3. req[d].pc \in {"check", "store"} => CanCheck(d)'
        BY <2>1, <2>2 DEF CanCheck
    <2>4. QED
        BY <2>1, <2>2, <2>3 DEF CheckIsSound
<1>2. QED
    BY <1>1 DEF SoundChecks, CheckIsSound

\* When c writes job j alone, the rest of every list is as before.
LEMMA OwnWrite ==
    ASSUME NEW c \in Clerks, CanCheck(c), Conflicts(c, Current(c)) = {},
           req'[c].ask = req[c].ask, req'[c].who = req[c].who,
           \A k \in Jobs \ {Job(c)} : /\ k \in live' => k \in live
                                     /\ staff'[k] = staff[k] /\ slot'[k] = slot[k]
    PROVE  CanCheck(c)' /\ (Conflicts(c, Current(c)) = {})'
<1>1. Key(c)' = Key(c) /\ Job(c)' = Job(c) /\ CanCheck(c)'
    BY DEF Key, Job, CanCheck
<1>2. \A r \in Current(c)' : r.job # Job(c) => r \in Current(c)
    BY <1>1 DEF Current, Listing, Rows
<1>3. QED
    BY <1>1, <1>2 DEF Conflicts

LEMMA SoundChecksNext == ASSUME TypeOK, SoundChecks, [Next]_vars PROVE SoundChecks'
<1>1. ASSUME NEW c \in Clerks, NEW r \in Requests, Begin(c, r) PROVE SoundChecks'
    <2> DEFINE n == [Idle EXCEPT !.pc = "look", !.ask = r]
    <2>1. n.pc = "look" /\ ~n.sound
        BY DEF Idle
    <2>2. req' = [req EXCEPT ![c] = n]
        BY <1>1 DEF Begin
    <2> HIDE DEF n
    <2>3. CheckIsSound(c)'
        BY <2>1, <2>2 DEF CheckIsSound, TypeOK
    <2>4. QED
        BY <1>1, <2>2, <2>3, ReadingStep DEF Begin
<1>2. ASSUME NEW c \in Clerks, NEW a \in Employees \union {None}, req[c].pc \in {"look", "keep"},
             AfterLook(c, a), UNCHANGED <<live, slot, staff>>
      PROVE  SoundChecks'
    <2> DEFINE n == [req[c] EXCEPT !.pc = req'[c].pc, !.who = req'[c].who]
    <2>1. /\ req'[c].pc \in {"delete", "update", "assign", "check"}
          /\ req'[c].pc = "check" =>
                req[c].ask.slot \in Slots /\ req'[c].who \in Employees
          /\ req' = [req EXCEPT ![c].pc = req'[c].pc, ![c].who = req'[c].who]
        BY <1>2, AfterLookTyped
    <2>2. req' = [req EXCEPT ![c] = n] /\ n.ask = req[c].ask /\ n.sound = req[c].sound
        BY <2>1 DEF TypeOK
    <2>3. ~req[c].sound
        BY <1>2 DEF SoundChecks, CheckIsSound
    <2>4. req'[c].pc = "assign" => req[c].ask.kind = "assign"
        BY <1>2, RequestsAre DEF AfterLook, TypeOK, Kinds
    <2>5. req'[c] = n
        BY <2>2 DEF TypeOK
    <2>6. ~req'[c].sound /\ req'[c].ask = req[c].ask
        BY <2>2, <2>3, <2>5
    <2>7. CheckIsSound(c)'
        BY <2>1, <2>4, <2>6 DEF CheckIsSound, CanCheck
    <2> HIDE DEF n
    <2>8. QED
        BY <1>2, <2>2, <2>7, ReadingStep
<1>3. ASSUME NEW c \in Clerks, LookHit(c) PROVE SoundChecks'
    <2>1. PICK a \in names[Job(c)] : AfterLook(c, a)
        BY <1>3 DEF LookHit
    <2>2. req[c].pc = "look" /\ a \in Employees \union {None}
        BY <1>3, RequestsAre DEF LookHit, At, TypeOK
    <2>3. QED
        BY <1>2, <1>3, <2>1, <2>2 DEF LookHit
<1>4. ASSUME NEW c \in Clerks, LookMiss(c) PROVE SoundChecks'
    <2>1. PICK e : req' = [req EXCEPT ![c].pc = "keep", ![c].who = e]
        BY <1>4 DEF LookMiss
    <2> DEFINE n == [req[c] EXCEPT !.pc = "keep", !.who = e]
    <2>2. req' = [req EXCEPT ![c] = n] /\ n.pc = "keep" /\ n.sound = req[c].sound
        BY <2>1 DEF TypeOK
    <2>3. ~req[c].sound
        BY <1>4 DEF LookMiss, At, SoundChecks, CheckIsSound
    <2>4. req'[c] = n
        BY <2>2 DEF TypeOK
    <2> HIDE DEF n
    <2>5. CheckIsSound(c)'
        BY <2>2, <2>3, <2>4 DEF CheckIsSound
    <2>6. QED
        BY <1>4, <2>2, <2>5, ReadingStep DEF LookMiss
<1>5. ASSUME NEW c \in Clerks, Keep(c) PROVE SoundChecks'
    BY <1>2, <1>5 DEF Keep, At, TypeOK
<1>6. ASSUME NEW c \in Clerks, req[c].pc \in {"check", "store"}, NEW rows, NEW b \in BOOLEAN,
             b => rows = Current(c),
             AfterCheck(c, rows, b), UNCHANGED <<live, slot, staff>>
      PROVE  SoundChecks'
    <2>1. CASE Conflicts(c, rows) = {}
        <3> DEFINE n == [req[c] EXCEPT !.pc = "update", !.found = {}, !.sound = b]
        <3>1. req' = [req EXCEPT ![c] = n]
            BY <1>6, <2>1 DEF AfterCheck, TypeOK
        <3>2. /\ n.pc = "update" /\ n.ask = req[c].ask /\ n.who = req[c].who /\ n.sound = b
            BY DEF TypeOK
        <3>3. req'[c] = n
            BY <3>1 DEF TypeOK
        <3> HIDE DEF n
        <3>4. b => CanCheck(c) /\ Conflicts(c, Current(c)) = {}
            BY <1>6, <2>1 DEF SoundChecks, CheckIsSound
        <3>5. b => CanCheck(c)' /\ (Conflicts(c, Current(c)) = {})'
            BY <1>6, <3>2, <3>3, <3>4, OwnWrite
        <3>6. CheckIsSound(c)'
            BY <3>2, <3>3, <3>5 DEF CheckIsSound
        <3>7. QED
            BY <1>6, <3>1, <3>6, ReadingStep
    <2>2. CASE Conflicts(c, rows) # {}
        <3>1. req' = [req EXCEPT ![c] = Idle] /\ Idle.pc = "idle" /\ ~Idle.sound
            BY <1>6, <2>2 DEF AfterCheck, End, Idle
        <3>2. CheckIsSound(c)'
            BY <3>1 DEF CheckIsSound, TypeOK
        <3>3. QED
            BY <1>6, <3>1, <3>2, ReadingStep
    <2>3. QED
        BY <2>1, <2>2
<1>7. ASSUME NEW c \in Clerks, ListHit(c) PROVE SoundChecks'
    BY <1>6, <1>7 DEF ListHit, At, Current
<1>8. ASSUME NEW c \in Clerks, ListMiss(c) PROVE SoundChecks'
    <2> DEFINE n == [req[c] EXCEPT !.pc = "store", !.found = Current(c), !.sound = TRUE]
    <2>1. req' = [req EXCEPT ![c] = n]
        BY <1>8 DEF ListMiss, Current, TypeOK
    <2>2. /\ n.pc = "store" /\ n.ask = req[c].ask /\ n.who = req[c].who
          /\ n.found = Current(c)
        BY DEF TypeOK
    <2>3. req'[c] = n /\ CanCheck(c)
        BY <1>8, <2>1 DEF ListMiss, At, SoundChecks, CheckIsSound, TypeOK
    <2> HIDE DEF n
    <2>4. CanCheck(c)' /\ Current(c)' = Current(c)
        BY <1>8, <2>2, <2>3 DEF ListMiss, CanCheck, Current, Key, Listing
    <2>5. CheckIsSound(c)'
        BY <2>2, <2>3, <2>4 DEF CheckIsSound
    <2>6. QED
        BY <1>8, <2>1, <2>5, ReadingStep DEF ListMiss
<1>9. ASSUME NEW c \in Clerks, Store(c) PROVE SoundChecks'
    <2>1. req[c].sound \in BOOLEAN /\ (req[c].sound => req[c].found = Current(c))
        BY <1>9 DEF Store, At, SoundChecks, CheckIsSound, TypeOK
    <2>2. QED
        BY <1>6, <1>9, <2>1 DEF Store, At
<1>10. ASSUME NEW c \in Clerks, UpdateSlot(c) PROVE SoundChecks'
    <2> DEFINE pc == IF req[c].ask.kind = "assign" THEN "forgetSlot" ELSE "forget"
    <2>1. /\ req[c].pc = "update" /\ WriteThen(c, pc) /\ pc \in {"forgetSlot", "forget"}
          /\ Job(c) \in Jobs
        BY <1>10, RequestsAre DEF UpdateSlot, At
    <2>2. req'[c] = [req[c] EXCEPT !.pc = pc]
        BY <2>1, WriteThenTyped
    <2>3. /\ req'[c].pc = pc /\ req'[c].ask = req[c].ask /\ req'[c].who = req[c].who
          /\ req'[c].sound = req[c].sound
        BY <2>2 DEF TypeOK
    <2>4. slot'[Job(c)] = req[c].ask.slot /\ Job(c)' = Job(c)
        BY <1>10, <2>1, <2>3 DEF UpdateSlot, TypeOK, Job
    <2>5. req[c].sound => CanCheck(c)' /\ (Conflicts(c, Current(c)) = {})'
        BY <1>10, <2>1, <2>3, OwnWrite DEF UpdateSlot, SoundChecks, CheckIsSound, TypeOK
    <2>6. CheckIsSound(c)'
        BY <2>3, <2>4, <2>5 DEF CheckIsSound
    <2>7. QED
        BY <2>1, <2>6, WritingStep
<1>11. ASSUME NEW c \in Clerks, AssignEmployee(c) \/ DeleteJob(c) PROVE SoundChecks'
    <2>1. req[c].pc # "idle" /\ WriteThen(c, "forget")
        BY <1>11 DEF AssignEmployee, DeleteJob, At
    <2>2. req'[c] = [req[c] EXCEPT !.pc = "forget"]
        BY <2>1, WriteThenTyped
    <2>3. CheckIsSound(c)'
        BY <2>2 DEF CheckIsSound, TypeOK
    <2>4. QED
        BY <2>1, <2>3, WritingStep
<1>12. ASSUME NEW c \in Clerks, req' = [req EXCEPT ![c] = Idle], UNCHANGED <<live, slot, staff>>
       PROVE  SoundChecks'
    <2>1. Idle.pc = "idle" /\ ~Idle.sound
        BY DEF Idle
    <2>2. CheckIsSound(c)'
        BY <1>12, <2>1 DEF CheckIsSound, TypeOK
    <2>3. QED
        BY <1>12, <2>2, ReadingStep
<1>13. ASSUME NEW c \in Clerks, Forget(c) PROVE SoundChecks'
    <2>1. CASE req[c].pc = "forgetSlot"
        <3> DEFINE n == [req[c] EXCEPT !.pc = "assign"]
        <3>1. req' = [req EXCEPT ![c] = n]
            BY <1>13, <2>1 DEF Forget, At, TypeOK
        <3>2. /\ n.pc = "assign" /\ n.ask = req[c].ask /\ n.who = req[c].who
              /\ n.sound = req[c].sound
            BY DEF TypeOK
        <3>3. req'[c] = n
            BY <3>1 DEF TypeOK
        <3> HIDE DEF n
        <3>4. req[c].sound => CanCheck(c)' /\ (Conflicts(c, Current(c)) = {})'
            BY <1>13, <2>1, <3>2, <3>3, OwnWrite DEF Forget, SoundChecks, CheckIsSound
        <3>5. CheckIsSound(c)'
            BY <1>13, <2>1, <3>2, <3>3, <3>4 DEF Forget, CheckIsSound, SoundChecks, Job
        <3>6. QED
            BY <1>13, <3>1, <3>5, ReadingStep DEF Forget
    <2>2. CASE req[c].pc = "forget"
        BY <1>12, <1>13, <2>2 DEF Forget, At, End
    <2>3. QED
        BY <1>13, <2>1, <2>2 DEF Forget
<1>14. ASSUME NEW c \in Clerks, Fail(c) PROVE SoundChecks'
    BY <1>12, <1>14 DEF Fail, End
<1>15. ASSUME UNCHANGED <<live, slot, staff, req>> PROVE SoundChecks'
    BY <1>15, OtherRequest DEF SoundChecks, CheckIsSound
<1>16. QED
    BY <1>1, <1>3, <1>4, <1>5, <1>7, <1>8, <1>9, <1>10, <1>11, <1>13, <1>14, <1>15
       DEF Next, ExpireList, ExpireName, vars

-----------------------------------------------------------------------------
(* Double bookings *)

\* One employee of two jobs at the same time of a day.
Clash(e, j, k) ==
    /\ j # k /\ {j, k} \subseteq live
    /\ e \in staff[j] /\ e \in staff[k]
    /\ slot[j] # None /\ slot[k] # None
    /\ \E d \in Days : OnDay(slot[j], d) /\ OnDay(slot[k], d)
    /\ Overlaps(slot[j], slot[k])

LEMMA DoubleBookedIsClash ==
    ASSUME NEW j \in Jobs, NEW k \in Jobs
    PROVE  DoubleBooked(j, k) <=> \E e \in staff[j] : Clash(e, j, k)
BY DEF DoubleBooked, Clash

\* A write to one job keeps the property when that job is excused or every
\* clash it has is with an excused job.
LEMMA OneJobWritten ==
    ASSUME TypeOK, TypeOK', DoubleBookingNeedsCause, NEW j \in Jobs,
           \A k \in Jobs \ {j} : /\ k \in live' => k \in live
                                /\ staff'[k] = staff[k] /\ slot'[k] = slot[k],
           excused \subseteq excused' \union {j},
           \/ j \in excused'
           \/ \A k \in Jobs \ {j} : \A e \in Employees : Clash(e, j, k)' => k \in excused'
    PROVE  DoubleBookingNeedsCause'
<1> SUFFICES ASSUME NEW a \in Jobs, NEW b \in Jobs, DoubleBooked(a, b)'
             PROVE  a \in excused' \/ b \in excused'
    BY DEF DoubleBookingNeedsCause
<1>1. PICK e \in Employees : Clash(e, a, b)'
    BY DEF DoubleBooked, Clash, TypeOK
<1>2. a # b
    BY <1>1 DEF Clash
<1>3. CASE a # j /\ b # j
    <2>1. Clash(e, a, b)
        BY <1>1, <1>3 DEF Clash
    <2>2. DoubleBooked(a, b)
        BY <2>1, DoubleBookedIsClash DEF Clash
    <2>3. QED
        BY <1>3, <2>2 DEF DoubleBookingNeedsCause
<1>4. CASE a = j
    BY <1>1, <1>2, <1>4
<1>5. CASE b = j
    <2>1. Clash(e, b, a)'
        BY <1>1, SchedulingConstants DEF Clash, Overlaps, TypeOK
    <2>2. QED
        BY <1>2, <1>5, <2>1
<1>6. QED
    BY <1>3, <1>4, <1>5

LEMMA BookingNext ==
    ASSUME TypeOK, TypeOK', SoundChecks, DoubleBookingNeedsCause, [Next]_vars
    PROVE  DoubleBookingNeedsCause'
<1>1. CASE UNCHANGED <<live, slot, staff, excused>>
    BY <1>1 DEF DoubleBookingNeedsCause, DoubleBooked
<1>2. ASSUME NEW c \in Clerks, UpdateSlot(c), NEW j \in Jobs, j = Job(c)
      PROVE  DoubleBookingNeedsCause'
    <2>1. req[c].pc = "update"
        BY <1>2 DEF UpdateSlot, At
    <2>2. /\ live' = live /\ staff' = staff /\ slot'[j] = req[c].ask.slot
          /\ \A k \in Jobs \ {j} : slot'[k] = slot[k]
          /\ excused' = IF \A e \in staff[j] : Checked(c, e) THEN excused \ {j}
                        ELSE excused \union {j}
        BY <1>2 DEF UpdateSlot, TypeOK
    <2>3. ASSUME j \notin excused', NEW k \in Jobs \ {j}, NEW e \in Employees, Clash(e, j, k)'
          PROVE  FALSE
        <3>1. req[c].sound /\ req[c].who = e
            BY <2>2, <2>3 DEF Clash, Checked
        <3>2. CanCheck(c) /\ Conflicts(c, Current(c)) = {}
            BY <1>2, <2>1, <3>1 DEF SoundChecks, CheckIsSound
        <3>3. PICK d \in Days : OnDay(slot'[j], d) /\ OnDay(slot[k], d)
            BY <2>2, <2>3 DEF Clash
        <3>4. /\ k \in live /\ e \in staff[k] /\ slot[k] # None
              /\ Overlaps(slot'[j], slot[k])
            BY <2>2, <2>3 DEF Clash
        <3>5. QED
            BY <1>2, <2>2, <3>1, <3>2, <3>3, <3>4, CheckProtects
    <2>4. excused \subseteq excused' \union {j}
        BY <2>2
    <2>5. QED
        BY <2>2, <2>3, <2>4, OneJobWritten
<1>3. ASSUME NEW c \in Clerks, AssignEmployee(c), NEW j \in Jobs, j = Job(c)
      PROVE  DoubleBookingNeedsCause'
    <2>1. req[c].pc = "assign"
        BY <1>3 DEF AssignEmployee, At
    <2>2. /\ live' = live /\ slot' = slot /\ staff'[j] = staff[j] \union {req[c].ask.who}
          /\ \A k \in Jobs \ {j} : staff'[k] = staff[k]
          /\ excused' = IF Checked(c, req[c].ask.who) /\ req[c].ask.slot # None THEN excused
                        ELSE excused \union {j}
        BY <1>3 DEF AssignEmployee, TypeOK
    <2>3. ASSUME j \notin excused', NEW k \in Jobs \ {j}, NEW e \in Employees, Clash(e, j, k)'
          PROVE  k \in excused'
        <3>1. req[c].sound /\ req[c].who = req[c].ask.who /\ excused' = excused
            BY <2>2, <2>3 DEF Checked
        <3>2. CASE e \in staff[j]
            <4>1. Clash(e, j, k)
                BY <2>2, <2>3, <3>2 DEF Clash
            <4>2. DoubleBooked(j, k)
                BY <4>1, DoubleBookedIsClash DEF Clash
            <4>3. QED
                BY <2>3, <3>1, <4>2 DEF DoubleBookingNeedsCause
        <3>3. CASE e \notin staff[j]
            <4>1. e = req[c].who
                BY <2>2, <2>3, <3>1, <3>3 DEF Clash
            <4>2. CanCheck(c) /\ Conflicts(c, Current(c)) = {} /\ slot[j] = req[c].ask.slot
                BY <1>3, <2>1, <3>1 DEF SoundChecks, CheckIsSound
            <4>3. PICK d \in Days : OnDay(slot[j], d) /\ OnDay(slot[k], d)
                BY <2>2, <2>3 DEF Clash
            <4>4. /\ k \in live /\ e \in staff[k] /\ slot[k] # None
                  /\ Overlaps(slot[j], slot[k])
                BY <2>2, <2>3 DEF Clash
            <4>5. QED
                BY <1>3, <4>1, <4>2, <4>3, <4>4, CheckProtects
        <3>4. QED
            BY <3>2, <3>3
    <2>4. excused \subseteq excused' \union {j}
        BY <2>2
    <2>5. QED
        BY <2>2, <2>3, <2>4, OneJobWritten
<1>4. ASSUME NEW c \in Clerks, DeleteJob(c) PROVE DoubleBookingNeedsCause'
    BY <1>4 DEF DeleteJob, DoubleBookingNeedsCause, DoubleBooked
<1>5. \A c \in Clerks : UpdateSlot(c) \/ AssignEmployee(c) => Job(c) \in Jobs
    BY RequestsAre DEF UpdateSlot, AssignEmployee, At
<1>6. QED
    BY <1>1, <1>2, <1>3, <1>4, <1>5
       DEF Next, Begin, LookHit, LookMiss, Keep, ListHit, ListMiss, Store, Forget, Fail,
           ExpireList, ExpireName, vars

-----------------------------------------------------------------------------
(* The cache of the lists *)

\* A writer has not yet deleted the entries.
Writing == \E c \in Clerks : req[c].pc \in {"forgetSlot", "forget"}

LEMMA StaleNext ==
    ASSUME TypeOK, TypeOK', SoundChecks, StaleNeedsCause, [Next]_vars
    PROVE  StaleNeedsCause'
<1> SUFFICES ASSUME NEW k \in Keys, k \notin poisoned', ~Writing'
             PROVE  lists'[k] \subseteq {Listing(k[1], k[2])'}
    BY DEF StaleNeedsCause, Writing
<1>1. ASSUME UNCHANGED <<live, slot, staff>>, ~Writing, lists'[k] \subseteq lists[k],
             k \notin poisoned
      PROVE  lists'[k] \subseteq {Listing(k[1], k[2])'}
    BY <1>1 DEF StaleNeedsCause, Writing, Listing
<1>2. ASSUME NEW c \in Clerks, Forget(c) PROVE lists'[k] = {}
    BY <1>2 DEF Forget, Survivors
<1>3. ASSUME NEW c \in Clerks, Fail(c)
      PROVE  lists'[k] \subseteq {Listing(k[1], k[2])'}
    <2>1. CASE req[c].pc \in {"forgetSlot", "forget"}
        BY <1>3, <2>1 DEF Fail, Survivors
    <2>2. CASE req[c].pc \notin {"forgetSlot", "forget"}
        <3>1. ~Writing
            BY <1>3, <2>2 DEF Fail, End, Writing, TypeOK
        <3>2. QED
            BY <1>1, <1>3, <2>2, <3>1 DEF Fail
    <2>3. QED
        BY <2>1, <2>2
<1>4. ASSUME NEW c \in Clerks, UpdateSlot(c) \/ AssignEmployee(c) \/ DeleteJob(c) PROVE FALSE
    <2>1. req[c].pc # "idle" /\ \E pc \in {"forgetSlot", "forget"} : WriteThen(c, pc)
        BY <1>4 DEF UpdateSlot, AssignEmployee, DeleteJob, At
    <2>2. PICK pc \in {"forgetSlot", "forget"} : req'[c] = [req[c] EXCEPT !.pc = pc]
        BY <2>1, WriteThenTyped
    <2>3. QED
        BY <2>2 DEF Writing, TypeOK
<1>5. ASSUME NEW c \in Clerks, Store(c)
      PROVE  lists'[k] \subseteq {Listing(k[1], k[2])'}
    <2>1. ~Writing
        BY <1>5 DEF Store, At, AfterCheck, End, Writing, TypeOK
    <2>2. Key(c) \in Keys
        BY <1>5, CheckHasKey DEF Store, At, SoundChecks, CheckIsSound
    <2>3. CASE UNCHANGED <<lists, poisoned>>
        BY <1>1, <1>5, <2>1, <2>3 DEF Store
    <2>4. CASE k # Key(c) /\ lists' = [lists EXCEPT ![Key(c)] = {req[c].found}]
        <3>1. lists'[k] = lists[k] /\ k \notin poisoned
            BY <1>5, <2>4 DEF Store, TypeOK
        <3>2. QED
            BY <1>1, <1>5, <2>1, <3>1 DEF Store
    <2>5. CASE k = Key(c) /\ lists' = [lists EXCEPT ![Key(c)] = {req[c].found}]
               /\ poisoned' = IF req[c].found = Listing(Key(c)[1], Key(c)[2])
                             THEN poisoned \ {Key(c)} ELSE poisoned \union {Key(c)}
        <3>1. lists'[k] = {req[c].found} /\ req[c].found = Listing(k[1], k[2])
            BY <2>2, <2>5 DEF TypeOK
        <3>2. Listing(k[1], k[2])' = Listing(k[1], k[2])
            BY <1>5 DEF Store, Listing
        <3>3. QED
            BY <3>1, <3>2
    <2>6. QED
        BY <1>5, <2>3, <2>4, <2>5 DEF Store
<1>6. ASSUME NEW c \in Clerks,
             \/ \E r \in Requests : Begin(c, r)
             \/ LookHit(c) \/ LookMiss(c) \/ Keep(c) \/ ListHit(c) \/ ListMiss(c)
      PROVE  lists'[k] \subseteq {Listing(k[1], k[2])'}
    <2>1. /\ UNCHANGED <<live, slot, staff, lists, poisoned>>
          /\ req[c].pc \notin {"forgetSlot", "forget"}
        BY <1>6 DEF Begin, LookHit, LookMiss, Keep, ListHit, ListMiss, At
    <2>2. \A d \in Clerks \ {c} : req'[d] = req[d]
        BY <1>6 DEF Begin, LookHit, LookMiss, Keep, ListHit, ListMiss, AfterLook, AfterCheck,
                    End, TypeOK
    <2>3. QED
        BY <1>1, <2>1, <2>2 DEF Writing
<1>7. ASSUME NEW l \in Keys, ExpireList(l)
      PROVE  lists'[k] \subseteq {Listing(k[1], k[2])'}
    <2>1. CASE k = l
        BY <1>7, <2>1 DEF ExpireList, TypeOK
    <2>2. CASE k # l
        BY <1>1, <1>7, <2>2 DEF ExpireList, Writing, TypeOK
    <2>3. QED
        BY <2>1, <2>2
<1>8. ASSUME NEW j \in Jobs, ExpireName(j)
      PROVE  lists'[k] \subseteq {Listing(k[1], k[2])'}
    BY <1>1, <1>8 DEF ExpireName, Writing
<1>9. CASE UNCHANGED vars
    BY <1>1, <1>9 DEF vars, Writing
<1>10. QED
    BY <1>2, <1>3, <1>4, <1>5, <1>6, <1>7, <1>8, <1>9 DEF Next

-----------------------------------------------------------------------------
(* Theorems *)

IInv == TypeOK /\ SoundChecks /\ DoubleBookingNeedsCause /\ StaleNeedsCause

LEMMA InitIInv == Init => IInv
<1> SUFFICES ASSUME Init PROVE IInv
    OBVIOUS
<1>1. /\ Idle.pc = "idle" /\ ~Idle.sound
      /\ Idle \in [pc : {"idle", "look", "keep", "check", "store", "update", "delete",
                         "forgetSlot", "assign", "forget"},
                   ask : Requests \union {None}, who : Employees \union {None},
                   found : SUBSET Rows, sound : BOOLEAN]
    BY DEF Idle
<1>2. TypeOK
    BY <1>1 DEF Init, TypeOK
<1>3. SoundChecks
    BY <1>1 DEF Init, SoundChecks, CheckIsSound
<1>4. DoubleBookingNeedsCause
    BY DEF Init, DoubleBookingNeedsCause, DoubleBooked
<1>5. StaleNeedsCause
    BY DEF Init, StaleNeedsCause
<1>6. QED
    BY <1>2, <1>3, <1>4, <1>5 DEF IInv

LEMMA NextIInv == IInv /\ [Next]_vars => IInv'
BY TypeNext, SoundChecksNext, BookingNext, StaleNext DEF IInv

LEMMA InvariantHolds == Spec => []IInv
BY InitIInv, NextIInv, PTL DEF Spec

\* Every reachable state is well typed: in particular a check always has an
\* employee and a slot.
THEOREM TypeCorrect == Spec => []TypeOK
<1>1. IInv => TypeOK
    BY DEF IInv
<1>2. QED
    BY <1>1, InvariantHolds, PTL

\* However requests interleave and caches lie, an employee is booked twice
\* within a day only where one of the jobs was last written without a check or
\* after one that was outdated when it was used.
THEOREM DoubleBookingHasCause == Spec => []DoubleBookingNeedsCause
<1>1. IInv => DoubleBookingNeedsCause
    BY DEF IInv
<1>2. QED
    BY <1>1, InvariantHolds, PTL

\* A cached list differs from the database only while a writer has not deleted
\* it, when it was stored late, or when its deletion failed.
THEOREM StaleHasCause == Spec => []StaleNeedsCause
<1>1. IInv => StaleNeedsCause
    BY DEF IInv
<1>2. QED
    BY <1>1, InvariantHolds, PTL
=============================================================================
