--------------------------- MODULE ReminderScheduler ---------------------------
(***************************************************************************)
(* The background loop of notification-service (logic/scheduler.py) and    *)
(* the rows of notification_log it writes (crud/notification.py).  Every   *)
(* replica runs the loop; a Redis key is to let one of them at a time look *)
(* for due reminders, send them, retry failed ones and run maintenance.    *)
(*                                                                         *)
(* A reminder is a job, a kind (24 hours or 1 hour ahead) and a channel.   *)
(* The 120 s of the lock are not counted: a cycle has no upper bound (500  *)
(* jobs, 10 s for each HTTP call, an SMTP server for each mail), so the    *)
(* lock may expire at any moment.                                          *)
(***************************************************************************)
EXTENDS Naturals, FiniteSets

CONSTANTS
    Replicas,    \* notification-service processes
    Reminders,   \* (job, kind, channel) triples
    Links,       \* those by WhatsApp: the adapter makes a wa.me link, sends nothing
    RoundOf,     \* RoundOf[k]: 1 for reminder_24h, 2 for reminder_1h
    Ids,         \* bound: primary keys of notification_log
    Free,        \* no lock key in Redis
    NoReminder,
    NoRow

ASSUME SchedulerConstants ==
    /\ Free \notin Replicas
    /\ NoReminder \notin Reminders
    /\ Links \subseteq Reminders
    /\ RoundOf \in [Reminders -> {1, 2}]

VARIABLES
    lock,       \* whose "1" the lock key holds; the code cannot tell
    worker,     \* worker[r]: where the loop of r is, and its local variables
    window,     \* reminders whose job the query of their round returns now
    log,        \* the rows of notification_log
    delivered,  \* history: reminders accepted for delivery to the customer
    again,      \* history: reminders accepted once more
    unlogged,   \* history: reminders delivered without a row that says so
    overran     \* history: a lock went away while its owner was still working

historyVars == <<delivered, again, unlogged, overran>>
vars == <<lock, worker, window, log, delivered, again, unlogged, overran>>

Locations == {"sleep", "fetch", "jobs", "send", "log", "retries", "tasks", "release"}

Loops == [pc : Locations, round : {1, 2}, todo : SUBSET Reminders,
          key : Reminders \union {NoReminder}, ok : BOOLEAN]

Rows == [key : Reminders, status : {"sent", "failed"}, retries : 0..3,
         retryAt : BOOLEAN]                    \* is next_retry_at NULL or a time

ASSUME RowConstant == NoRow \notin Rows

Asleep == [pc |-> "sleep", round |-> 1, todo |-> {}, key |-> NoReminder, ok |-> FALSE]

TypeOK ==
    /\ lock \in Replicas \union {Free}
    /\ worker \in [Replicas -> Loops]
    /\ window \subseteq Reminders
    /\ log \in [Ids -> Rows \union {NoRow}]
    /\ delivered \subseteq Reminders /\ again \subseteq Reminders
    /\ unlogged \subseteq Reminders
    /\ overran \in BOOLEAN

Init ==
    /\ lock = Free
    /\ worker = [r \in Replicas |-> Asleep]
    /\ window = {}
    /\ log = [i \in Ids |-> NoRow]
    /\ delivered = {} /\ again = {} /\ unlogged = {}
    /\ overran = FALSE

-----------------------------------------------------------------------------
InCycle(r) == worker[r].pc # "sleep"

Go(r, pc) == worker' = [worker EXCEPT ![r].pc = pc]

Sleep(r) == worker' = [worker EXCEPT ![r] = Asleep]

\* has_been_notified: nothing but a row with status sent counts, because the
\* scheduler writes no pending rows and gets no delivery receipts.
Notified(k) == \E i \in Ids : log[i] # NoRow /\ log[i].key = k /\ log[i].status = "sent"

\* get_retryable_notifications: next_retry_at <= now is NULL without a time,
\* and a time that was set at most 25 s ahead is past at the next poll.
Retryable == {i \in Ids : /\ log[i] # NoRow
                          /\ log[i].status = "failed"
                          /\ log[i].retries < 3
                          /\ log[i].retryAt}

Deliver(K) ==
    /\ delivered' = delivered \union K
    /\ again' = again \union (delivered \intersect K)

\* The row of a message that went out was not written.
Forget(r) ==
    unlogged' = IF worker[r].pc = "log" /\ worker[r].ok
                THEN unlogged \union {worker[r].key} ELSE unlogged

-----------------------------------------------------------------------------
(* The lock *)

\* Mutant of Acquire: SET without NX.
AcquireAnyway(r) ==
    /\ worker[r].pc = "sleep"
    /\ lock' = r
    /\ Go(r, "fetch")
    /\ UNCHANGED <<window, log, historyVars>>

\* SET key "1" NX EX 120.
Acquire(r) ==
    /\ worker[r].pc = "sleep"
    /\ lock = Free
    /\ lock' = r
    /\ Go(r, "fetch")
    /\ UNCHANGED <<window, log, historyVars>>

\* Redis sets the key but its answer is lost: nobody works under the lock.
AcquireLost(r) ==
    /\ worker[r].pc = "sleep"
    /\ lock = Free
    /\ lock' = r
    /\ UNCHANGED <<worker, window, log, historyVars>>

\* Mutant of LockExpire: SET without EX.
LockStays == FALSE /\ UNCHANGED vars

LockExpire ==
    /\ lock # Free
    /\ lock' = Free
    /\ overran' = (overran \/ InCycle(lock))
    /\ UNCHANGED <<worker, window, log, delivered, again, unlogged>>

\* The finally block deletes the key, whoever set it.
DeleteLock(r) ==
    /\ lock' = Free
    /\ overran' = (overran \/ (lock \notin {r, Free} /\ InCycle(lock)))

Release(r) ==
    /\ worker[r].pc = "release"
    /\ DeleteLock(r)
    /\ Sleep(r)
    /\ UNCHANGED <<window, log, delivered, again, unlogged>>

ReleaseFails(r) ==
    /\ worker[r].pc = "release"
    /\ Sleep(r)
    /\ UNCHANGED <<lock, window, log, historyVars>>

-----------------------------------------------------------------------------
(* _process_reminders and _send_reminder_channels *)

\* The job query of a round, or its failure, which skips the round.
FetchJobs(r) ==
    /\ worker[r].pc = "fetch"
    /\ \E found \in {{}, {k \in window : RoundOf[k] = worker[r].round}} :
         worker' = [worker EXCEPT ![r].pc = "jobs", ![r].todo = found]
    /\ UNCHANGED <<lock, window, log, historyVars>>

\* No customer, no consent, channel switched off, or already notified.
SkipReminder(r, k) ==
    /\ worker[r].pc = "jobs"
    /\ k \in worker[r].todo
    /\ worker' = [worker EXCEPT ![r].todo = @ \ {k}]
    /\ UNCHANGED <<lock, window, log, historyVars>>

\* Mutant of ConsiderReminder: has_been_notified is not asked.
ConsiderAlways(r, k) ==
    /\ worker[r].pc = "jobs"
    /\ k \in worker[r].todo
    /\ worker' = [worker EXCEPT ![r].pc = "send", ![r].key = k, ![r].todo = @ \ {k}]
    /\ UNCHANGED <<lock, window, log, historyVars>>

ConsiderReminder(r, k) ==
    /\ worker[r].pc = "jobs"
    /\ k \in worker[r].todo
    /\ ~Notified(k)
    /\ worker' = [worker EXCEPT ![r].pc = "send", ![r].key = k, ![r].todo = @ \ {k}]
    /\ UNCHANGED <<lock, window, log, historyVars>>

\* The adapter answers.  An SMTP error after the message was accepted, from
\* the QUIT for one, is reported as a failed send.  A link is a success that
\* nobody receives.
Send(r) ==
    /\ worker[r].pc = "send"
    /\ \E ok, arrived \in BOOLEAN :
         /\ IF worker[r].key \in Links THEN ~arrived ELSE ok => arrived
         /\ worker' = [worker EXCEPT ![r].pc = "log", ![r].ok = ok]
         /\ Deliver(IF arrived THEN {worker[r].key} ELSE {})
         /\ unlogged' = IF arrived /\ ~ok THEN unlogged \union {worker[r].key}
                        ELSE unlogged
    /\ UNCHANGED <<lock, window, log, overran>>

\* No adapter can be built: the exception is logged and swallowed.
SendRaises(r) ==
    /\ worker[r].pc = "send"
    /\ Go(r, "jobs")
    /\ UNCHANGED <<lock, window, log, historyVars>>

\* Mutant of WriteLog: the result of the adapter is not looked at.
WriteLogSent(r, i) ==
    /\ worker[r].pc = "log"
    /\ log[i] = NoRow
    /\ log' = [log EXCEPT ![i] = [key |-> worker[r].key, status |-> "sent",
                                 retries |-> 0, retryAt |-> FALSE]]
    /\ Go(r, "jobs")
    /\ UNCHANGED <<lock, window, historyVars>>

\* create_notification_log leaves next_retry_at NULL.
WriteLog(r, i) ==
    /\ worker[r].pc = "log"
    /\ log[i] = NoRow
    /\ log' = [log EXCEPT ![i] =
                  [key |-> worker[r].key,
                   status |-> IF worker[r].ok THEN "sent" ELSE "failed",
                   retries |-> 0, retryAt |-> FALSE]]
    /\ Go(r, "jobs")
    /\ UNCHANGED <<lock, window, historyVars>>

\* The insert fails after the send: logged and swallowed, too.
WriteLogFails(r) ==
    /\ worker[r].pc = "log"
    /\ Forget(r)
    /\ Go(r, "jobs")
    /\ UNCHANGED <<lock, window, log, delivered, again, overran>>

RoundDone(r) ==
    /\ worker[r].pc = "jobs"
    /\ worker[r].todo = {}
    /\ worker' = [worker EXCEPT ![r].pc = IF worker[r].round = 1 THEN "fetch"
                                          ELSE "retries",
                                ![r].round = 2]
    /\ UNCHANGED <<lock, window, log, historyVars>>

-----------------------------------------------------------------------------
(* _process_retries and the daily and hourly tasks *)

\* Each retryable row is sent again and becomes sent, or failed once more.
ProcessRetries(r) ==
    /\ worker[r].pc = "retries"
    /\ \E ok \in SUBSET Retryable :
         /\ log' = [i \in Ids |->
                      IF i \in ok THEN [log[i] EXCEPT !.status = "sent"]
                      ELSE IF i \in Retryable
                      THEN [log[i] EXCEPT !.retries = @ + 1, !.retryAt = TRUE]
                      ELSE log[i]]
         /\ Deliver({log[i].key : i \in ok})
    /\ Go(r, "tasks")
    /\ UNCHANGED <<lock, window, unlogged, overran>>

\* Retention deletes failed rows older than 90 days; the other tasks call
\* other services.
RunTasks(r) ==
    /\ worker[r].pc = "tasks"
    /\ \E old \in SUBSET {i \in Ids : log[i] # NoRow /\ log[i].status = "failed"} :
         log' = [i \in Ids |-> IF i \in old THEN NoRow ELSE log[i]]
    /\ Go(r, "release")
    /\ UNCHANGED <<lock, window, historyVars>>

\* The database or Redis fails outside of the inner try blocks: the rest of
\* the cycle is skipped.
CycleError(r) ==
    /\ worker[r].pc \in {"jobs", "retries", "tasks"}
    /\ Go(r, "release")
    /\ UNCHANGED <<lock, window, log, historyVars>>

-----------------------------------------------------------------------------
(* Processes and jobs come and go *)

\* Cancellation at an await runs the finally block.
Shutdown(r) ==
    /\ InCycle(r)
    /\ DeleteLock(r)
    /\ Forget(r)
    /\ Sleep(r)
    /\ UNCHANGED <<window, log, delivered, again>>

\* A crash does not.
Crash(r) ==
    /\ InCycle(r)
    /\ Forget(r)
    /\ Sleep(r)
    /\ UNCHANGED <<lock, window, log, delivered, again, overran>>

\* Time passes, or the job is moved, cancelled or deleted.
WindowOpens(k) ==
    /\ window' = window \union {k}
    /\ UNCHANGED <<lock, worker, log, historyVars>>

WindowCloses(k) ==
    /\ window' = window \ {k}
    /\ UNCHANGED <<lock, worker, log, historyVars>>

-----------------------------------------------------------------------------
SendingStep(r) ==
    \/ FetchJobs(r)
    \/ \E k \in Reminders : SkipReminder(r, k) \/ ConsiderReminder(r, k)
    \/ Send(r) \/ SendRaises(r)
    \/ \E i \in Ids : WriteLog(r, i)
    \/ RoundDone(r)

CycleStep(r) == SendingStep(r) \/ ProcessRetries(r) \/ RunTasks(r) \/ Release(r)

Failure(r) ==
    \/ AcquireLost(r) \/ ReleaseFails(r) \/ WriteLogFails(r) \/ CycleError(r)
    \/ Shutdown(r) \/ Crash(r)

Next ==
    \/ \E r \in Replicas : Acquire(r) \/ CycleStep(r) \/ Failure(r)
    \/ LockExpire
    \/ \E k \in Reminders : WindowOpens(k) \/ WindowCloses(k)

Spec == Init /\ [][Next]_vars

\* The loop polls every minute, its coroutine is resumed, and Redis drops the
\* key when its time is up.  Redis does not lose every answer for ever: an
\* acquisition that is possible again and again succeeds (the strong fairness).
FairSpec ==
    /\ Spec
    /\ WF_vars(LockExpire)
    /\ SF_vars(\E r \in Replicas : Acquire(r))
    /\ \A r \in Replicas : WF_vars(CycleStep(r))

-----------------------------------------------------------------------------
(* Properties *)

\* The lock, without an owner token and deleted unconditionally, does keep
\* cycles apart as long as no cycle outlives its lock: crashes, failed
\* deletes and shutdowns alone never let two replicas work at once.
ExclusiveUntilOverrun ==
    ~overran => \A r, s \in Replicas : InCycle(r) /\ InCycle(s) => r = s

\* A customer gets a reminder twice only if a cycle outlived its lock, or an
\* earlier delivery left no row with status sent: has_been_notified and the
\* order of its steps exclude every other cause.
DuplicateNeedsCause == \A k \in again : overran \/ k \in unlogged

\* A row says sent only if the mail server accepted the reminder, however the
\* cycles of several replicas interleave.  (Links are another matter.)
SentMails ==
    \A i \in Ids : log[i] # NoRow /\ log[i].status = "sent" =>
                    log[i].key \in delivered \union Links

\* "Send reminders on all opted-in channels for a single job/customer."
SentReminders ==
    \A i \in Ids : log[i] # NoRow /\ log[i].status = "sent" => log[i].key \in delivered

\* "so that only one replica processes reminders at a time".
Exclusive == \A r, s \in Replicas : InCycle(r) /\ InCycle(s) => r = s

\* Whatever crashes with the lock in hand and however a cycle ends, some
\* replica eventually starts the next one.  (Until the bound on rows is hit.)
CyclesGoOn ==
    []<>(\/ \E r \in Replicas : worker[r].pc = "fetch"
         \/ \A i \in Ids : log[i] # NoRow)
=============================================================================
