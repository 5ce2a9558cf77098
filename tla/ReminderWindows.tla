---------------------------- MODULE ReminderWindows ----------------------------
(***************************************************************************)
(* What the scheduler of notification-service does by the clock            *)
(* (logic/scheduler.py): reminders go out for the jobs in a window of time *)
(* that moves with it, and chores are put off by Redis keys that expire.   *)
(*                                                                         *)
(* ReminderScheduler has the lock, the channels, the rows and their        *)
(* failures, with windows that open and close at will.  Here one loop runs *)
(* at a time and a reminder is a job and a kind; the times are exact.      *)
(***************************************************************************)
EXTENDS Naturals

CONSTANTS
    Bookings,    \* jobs
    SlotTimes,   \* when jobs may start and end, in ticks
    NoTime,      \* a start_time or end_time that is NULL
    Opens,       \* Opens[k]: how far ahead the window of kind k begins
    Closes,      \* ... and how far ahead it ends
    Postpone,    \* Postpone[t]: the time to live of the key of task t
    Gap,         \* bound on the time between rounds that counts as lateAt
    LastTick     \* bound: the clock stops here

Kinds == {"reminder_24h", "reminder_1h"}
Tasks == {"anonymize", "tokens", "retention"}

\* The retention task deletes old rows and then has audit logs deleted.
Chores == Tasks \union {"audit"}
TaskOf == [c \in Chores |-> IF c = "audit" THEN "retention" ELSE c]

ASSUME WindowConstants ==
    /\ NoTime \notin Nat
    /\ SlotTimes \subseteq Nat
    /\ Opens \in [Kinds -> Nat] /\ Closes \in [Kinds -> Nat]
    /\ \A k \in Kinds : Opens[k] < Closes[k]
    /\ Postpone \in [Tasks -> Nat \ {0}]
    /\ Gap \in Nat /\ LastTick \in Nat

VARIABLES
    clock,
    booking,    \* booking[b]: the slot of a job, and is it pending or scheduled
    loop,       \* where the loop is, its `now` and the jobs it has fetched
    notices,    \* rows with status sent: job, kind and the time that was told
    keyUntil,   \* keyUntil[t]: when the key last_run of task t expires
    settled,    \* history: when a job last changed its slot or status
    reslotted,  \* history: jobs that got another slot when they had a notice
                \* or stood in the list of the loop
    excused,    \* history: reminders that were skipped or failed once
    lastRound,  \* history: `now` of the last round that was gone through
    lateAt,     \* history: the last tick that ended with a round older than Gap
    doneAt,     \* history: when a chore was last done
    failing,    \* history: chores that failed, or were not reached, the last time
    passedAt    \* history: when a cycle last got past a task

windowVars == <<clock, booking, loop, notices, keyUntil, settled, reslotted,
                excused, lastRound, lateAt, doneAt, failing, passedAt>>
bookingVars == <<booking, settled, reslotted>>
roundVars == <<notices, excused, lastRound>>
choreVars == <<keyUntil, doneAt, failing, passedAt>>

Moments == SlotTimes \union {NoTime}

\* The constraint valid_time_range, in the logic of SQL: a slot without an end
\* makes it NULL, which passes.
SlotAllowed(start, end) ==
    start # NoTime /\ end # NoTime => end > start

Copies == [job : Bookings, start : SlotTimes]

Asleep == [at |-> "sleep", kind |-> "reminder_24h", now |-> 0, list |-> {}]

WindowTypeOK ==
    /\ clock \in 0..LastTick
    /\ booking \in [Bookings -> [start : Moments, end : Moments, open : BOOLEAN]]
    /\ loop \in [at : {"sleep", "fetch", "send"} \union Tasks, kind : Kinds,
                 now : 0..LastTick, list : SUBSET Copies]
    /\ notices \subseteq [job : Bookings, kind : Kinds, start : SlotTimes]
    /\ keyUntil \in [Tasks -> Nat]
    /\ settled \in [Bookings -> 0..LastTick] /\ reslotted \subseteq Bookings
    /\ excused \subseteq Bookings \X Kinds
    /\ lastRound \in [Kinds -> 0..LastTick]
    /\ lateAt \in [Kinds -> 0..LastTick]
    /\ doneAt \in [Chores -> 0..LastTick] /\ failing \subseteq Chores
    /\ passedAt \in [Tasks -> 0..LastTick]

WindowInit ==
    /\ clock = 0
    /\ booking = [b \in Bookings |-> [start |-> NoTime, end |-> NoTime, open |-> FALSE]]
    /\ loop = Asleep
    /\ notices = {} /\ excused = {}
    /\ keyUntil = [t \in Tasks |-> 0]
    /\ settled = [b \in Bookings |-> 0] /\ reslotted = {}
    /\ lastRound = [k \in Kinds |-> 0] /\ lateAt = [k \in Kinds |-> 0]
    /\ doneAt = [c \in Chores |-> 0] /\ failing = {}
    /\ passedAt = [t \in Tasks |-> 0]

-----------------------------------------------------------------------------
(* Jobs are booked, moved, closed and opened again *)

\* One commit of create_job, update_job, update_job_status or delete_job; an
\* edit of both times is two of them, each within the constraint.
SetJob(b, start, end, open) ==
    /\ SlotAllowed(start, end)
    /\ booking[b] # [start |-> start, end |-> end, open |-> open]
    /\ booking' = [booking EXCEPT ![b] = [start |-> start, end |-> end, open |-> open]]
    /\ settled' = [settled EXCEPT ![b] = clock]
    /\ reslotted' = IF /\ start # booking[b].start
                       /\ \E n \in notices \union loop.list : n.job = b
                    THEN reslotted \union {b} ELSE reslotted
    /\ UNCHANGED <<clock, loop, lateAt, roundVars, choreVars>>

-----------------------------------------------------------------------------
(* _process_reminders *)

\* Both windows are reckoned from one `now`, however long the first one takes.
StartCycle ==
    /\ loop.at = "sleep"
    /\ loop' = [Asleep EXCEPT !.at = "fetch", !.now = clock]
    /\ UNCHANGED <<clock, lateAt, bookingVars, roundVars, choreVars>>

\* get_jobs for start_date and end_date, the two ends of the window: a job has
\* to start and to end in it.
DueJobs(k, now) ==
    {b \in Bookings : /\ booking[b].open
                      /\ booking[b].start # NoTime /\ booking[b].end # NoTime
                      /\ booking[b].start >= now + Opens[k]
                      /\ booking[b].end <= now + Closes[k]}

FetchWindow ==
    /\ loop.at = "fetch"
    /\ loop' = [loop EXCEPT !.at = "send",
                  !.list = {[job |-> b, start |-> booking[b].start] :
                                b \in DueJobs(loop.kind, loop.now)}]
    /\ UNCHANGED <<clock, lateAt, bookingVars, roundVars, choreVars>>

AfterRound ==
    IF loop.kind = "reminder_24h"
    THEN [loop EXCEPT !.at = "fetch", !.kind = "reminder_1h", !.list = {}]
    ELSE [loop EXCEPT !.at = "anonymize", !.list = {}]

\* An exception, or a status other than 200: no jobs.
FetchFails ==
    /\ loop.at = "fetch"
    /\ loop' = AfterRound
    /\ UNCHANGED <<clock, lateAt, bookingVars, roundVars, choreVars>>

\* has_been_notified looks for the job and the kind, not for the time.
Told(b, k) == \E n \in notices : n.job = b /\ n.kind = k

Drop(item) == loop' = [loop EXCEPT !.list = @ \ {item}]

SkipTold(item) ==
    /\ loop.at = "send" /\ item \in loop.list
    /\ Told(item.job, loop.kind)
    /\ Drop(item)
    /\ UNCHANGED <<clock, lateAt, bookingVars, roundVars, choreVars>>

\* The message tells the time that was fetched.
SendNotice(item) ==
    /\ loop.at = "send" /\ item \in loop.list
    /\ ~Told(item.job, loop.kind)
    /\ notices' = notices \union {[job |-> item.job, kind |-> loop.kind,
                                   start |-> item.start]}
    /\ Drop(item)
    /\ UNCHANGED <<clock, lateAt, bookingVars, excused, lastRound, choreVars>>

\* No customer, consent or channel, or a failed send.
SendNothing(item) ==
    /\ loop.at = "send" /\ item \in loop.list
    /\ excused' = excused \union {<<item.job, loop.kind>>}
    /\ Drop(item)
    /\ UNCHANGED <<clock, lateAt, bookingVars, notices, lastRound, choreVars>>

EndRound ==
    /\ loop.at = "send" /\ loop.list = {}
    /\ lastRound' = [lastRound EXCEPT ![loop.kind] = loop.now]
    /\ loop' = AfterRound
    /\ UNCHANGED <<clock, lateAt, bookingVars, notices, excused, choreVars>>

-----------------------------------------------------------------------------
(* _maybe_process_anonymizations, _maybe_cleanup_tokens, _maybe_cleanup_retention *)

PastTask(t) ==
    /\ loop' = CASE t = "anonymize" -> [loop EXCEPT !.at = "tokens"]
                 [] t = "tokens" -> [loop EXCEPT !.at = "retention"]
                 [] OTHER -> Asleep
    /\ passedAt' = [passedAt EXCEPT ![t] = clock]
    /\ UNCHANGED <<clock, lateAt, bookingVars, roundVars>>

Postponed(t) ==
    /\ loop.at = t
    /\ clock < keyUntil[t]
    /\ PastTask(t)
    /\ UNCHANGED <<keyUntil, doneAt, failing>>

\* Some chores of the task are done, the others fail: what raises in the two
\* calls to other services is suppressed, so the key is set all the same.  The
\* rows of notification_log come first and are outside of that try block.
Work(t, done) ==
    LET duties == {c \in Chores : TaskOf[c] = t} IN
    /\ loop.at = t
    /\ keyUntil[t] <= clock
    /\ done \subseteq duties /\ ("audit" \in done => "retention" \in done)
    /\ doneAt' = [c \in Chores |-> IF c \in done THEN clock ELSE doneAt[c]]
    /\ failing' = (failing \ done) \union (duties \ done)

\* Mutant of KeyExpiry: SET without EX.
KeyForGood(t) == LastTick + 1

KeyExpiry(t) == clock + Postpone[t]

PerformTask(t, done) ==
    /\ Work(t, done)
    /\ t = "retention" => "retention" \in done
    /\ keyUntil' = [keyUntil EXCEPT ![t] = KeyExpiry(t)]
    /\ PastTask(t)

\* A crash, or an error of the database or of Redis, before the key is set:
\* the rest of the cycle is left out.
BreakOff(t, done) ==
    /\ Work(t, done)
    /\ loop' = Asleep
    /\ UNCHANGED <<clock, lateAt, bookingVars, roundVars, keyUntil, passedAt>>

\* The same in _process_reminders or _process_retries, or before a task.
CycleFails ==
    /\ loop.at # "sleep"
    /\ loop' = Asleep
    /\ UNCHANGED <<clock, lateAt, bookingVars, roundVars, choreVars>>

-----------------------------------------------------------------------------
ClockTick ==
    /\ clock < LastTick
    /\ clock' = clock + 1
    /\ lateAt' = [k \in Kinds |-> IF lastRound[k] + Gap < clock THEN clock ELSE lateAt[k]]
    /\ UNCHANGED <<loop, bookingVars, roundVars, choreVars>>

WindowNext ==
    \/ \E b \in Bookings, start, end \in Moments, open \in BOOLEAN :
          SetJob(b, start, end, open)
    \/ StartCycle \/ FetchWindow \/ FetchFails
    \/ \E item \in loop.list : SkipTold(item) \/ SendNotice(item) \/ SendNothing(item)
    \/ EndRound
    \/ \E t \in Tasks : Postponed(t)
    \/ \E t \in Tasks, done \in SUBSET Chores : PerformTask(t, done) \/ BreakOff(t, done)
    \/ CycleFails
    \/ ClockTick

WindowSpec == WindowInit /\ [][WindowNext]_windowVars

-----------------------------------------------------------------------------
(* Properties *)

\* Job b stood still from before tick `first` to the end of tick `last`, rounds
\* of kind k came often enough to meet that time and since, and nothing forbade to send.
HadItsChance(b, k, first, last) ==
    /\ booking[b].open
    /\ settled[b] < first /\ first + Gap <= last /\ last < clock
    /\ lateAt[k] < last
    /\ <<b, k>> \notin excused

\* A job that fits in a window and stands in it for as long as rounds may be
\* apart is reminded of, although the list of a round may be old, both windows
\* are reckoned from the `now` of the first, rounds fail and cycles break off.
RemindersComeInTime ==
    \A b \in Bookings, k \in Kinds :
        LET j == booking[b] IN
        /\ j.start # NoTime /\ j.end # NoTime /\ Closes[k] <= j.end /\ Opens[k] <= j.start
        /\ HadItsChance(b, k, j.end - Closes[k], j.start - Opens[k])
        => Told(b, k)

\* A customer is told the time at which the job takes place, and once, unless
\* the job was moved after it had been fetched or told.
ToldTheRightTime ==
    \A n \in notices :
        /\ n.start = booking[n.job].start \/ n.job \in reslotted
        /\ \A m \in notices : m.job = n.job /\ m.kind = n.kind => m = n

\* A cycle that gets past a task leaves each of its chores done within the time
\* for which the key postpones it, unless the chore failed when last tried.
ChoresAreDone ==
    \A c \in Chores \ failing :
        doneAt[c] + Postpone[TaskOf[c]] > passedAt[TaskOf[c]]

\* The scheduler keeps time: reminders before their jobs, with the right time,
\* and chores at their intervals.
SchedulerKeepsTime == RemindersComeInTime /\ ToldTheRightTime /\ ChoresAreDone

\* "Queries the job-db-access-service for jobs with ``start_time`` in the next
\* 24 hours or 1 hour": what counts is when a job starts.
StartsAreReminded ==
    \A b \in Bookings, k \in Kinds :
        LET j == booking[b] IN
        /\ j.start # NoTime /\ j.end # NoTime /\ Closes[k] <= j.start
        /\ HadItsChance(b, k, j.start - Closes[k], j.start - Opens[k])
        => Told(b, k)
=============================================================================
