------------------------ MODULE ReminderSchedulerProofs ------------------------
(***************************************************************************)
(* Proofs about ReminderScheduler, for any number of replicas, reminders   *)
(* and rows.                                                               *)
(*                                                                         *)
(* As long as no lock has gone away under a working owner, whoever is in a *)
(* cycle owns the lock (OwnerWorks).  So nobody writes rows between the    *)
(* dedup query of a cycle and its send (StillUnnotified), and a delivery   *)
(* is recorded in a row, or about to be (DeliveryRecorded).                *)
(***************************************************************************)
EXTENDS ReminderScheduler, TLAPS

OwnerWorks == ~overran => \A r \in Replicas : InCycle(r) => lock = r

\* No row ever gets a retry time: only mark_failed sets one, and only on a
\* row that has one.
NoRetryTime == \A i \in Ids : log[i] # NoRow => ~log[i].retryAt

StillUnnotified ==
    ~overran => \A r \in Replicas :
                    worker[r].pc = "send" => ~Notified(worker[r].key)

Recording(k) == \E r \in Replicas : /\ worker[r].pc = "log" /\ worker[r].ok
                                    /\ worker[r].key = k

DeliveryRecorded ==
    ~overran => \A k \in delivered \ unlogged : Notified(k) \/ Recording(k)

KeyChosen == \A r \in Replicas : worker[r].pc \in {"send", "log"} =>
                                     worker[r].key \in Reminders

\* What SentMails says of a row holds of the row about to be written.
SentOrLink ==
    /\ SentMails
    /\ \A r \in Replicas : worker[r].pc = "log" /\ worker[r].ok =>
                            worker[r].key \in delivered \union Links

IInv == TypeOK /\ KeyChosen /\ OwnerWorks /\ NoRetryTime /\ StillUnnotified
        /\ DeliveryRecorded /\ DuplicateNeedsCause /\ SentOrLink

LEMMA InitIInv == Init => IInv
<1> SUFFICES ASSUME Init PROVE IInv
    OBVIOUS
<1>1. TypeOK
    BY DEF Init, TypeOK, Asleep, Locations, Loops
<1>2. KeyChosen /\ OwnerWorks /\ StillUnnotified
    BY DEF Init, KeyChosen, OwnerWorks, StillUnnotified, Asleep, InCycle
<1>3. NoRetryTime
    BY DEF Init, NoRetryTime
<1>4. DeliveryRecorded /\ DuplicateNeedsCause /\ SentOrLink
    BY DEF Init, DeliveryRecorded, DuplicateNeedsCause, SentOrLink, SentMails, Asleep
<1>5. QED
    BY <1>1, <1>2, <1>3, <1>4 DEF IInv

-----------------------------------------------------------------------------
(* One lemma for each kind of step *)

\* Steps of one replica that touch its local variables only, and do not bring
\* it to the send or away from an unwritten row.
LEMMA LocalStep ==
    ASSUME IInv, NEW r \in Replicas,
           UNCHANGED <<lock, log, historyVars>>, TypeOK', KeyChosen',
           InCycle(r), worker[r].pc # "log", worker'[r].pc # "log",
           \A s \in Replicas \ {r} : worker'[s] = worker[s],
           worker'[r].pc = "send" => ~Notified(worker'[r].key)
    PROVE  IInv'
<1> USE DEF historyVars
<1>2. OwnerWorks'
    BY DEF IInv, OwnerWorks, InCycle
<1>3. NoRetryTime' /\ DuplicateNeedsCause'
    BY DEF IInv, NoRetryTime, DuplicateNeedsCause
<1>4. \A k : Notified(k)' <=> Notified(k)
    BY DEF Notified
<1>5. StillUnnotified'
    BY <1>4 DEF IInv, StillUnnotified
<1>6. \A k : Recording(k) => Recording(k)'
    BY DEF Recording
<1>7. DeliveryRecorded'
    BY <1>4, <1>6 DEF IInv, DeliveryRecorded
<1>8. SentOrLink'
    BY DEF IInv, SentOrLink, SentMails
<1>9. QED
    BY <1>2, <1>3, <1>5, <1>7, <1>8 DEF IInv

\* A replica leaves its cycle, whatever that does to the lock.
LEMMA LeaveCycle ==
    ASSUME IInv, NEW r \in Replicas, InCycle(r),
           UNCHANGED <<window, log, delivered, again>>,
           Sleep(r),
           \/ DeleteLock(r)
           \/ UNCHANGED <<lock, overran>>,
           Forget(r)
    PROVE  IInv'
<1>1. /\ worker' \in [Replicas -> Loops]
      /\ worker'[r] = Asleep
      /\ \A s \in Replicas \ {r} : worker'[s] = worker[s]
    BY DEF IInv, TypeOK, Sleep, Asleep, Locations, Loops
<1>2. overran => overran'
    BY DEF DeleteLock
<1>3. lock' \in {lock, Free} /\ overran' \in BOOLEAN
    BY DEF DeleteLock, IInv, TypeOK
<1>4. unlogged' \subseteq unlogged \union {worker[r].key} /\ unlogged \subseteq unlogged'
      /\ unlogged' \subseteq Reminders
    BY DEF Forget, IInv, TypeOK, KeyChosen
<1>5. TypeOK' /\ KeyChosen'
    BY <1>1, <1>3, <1>4 DEF IInv, TypeOK, KeyChosen, Asleep
<1>6. OwnerWorks'
    <2> SUFFICES ASSUME ~overran', NEW s \in Replicas, InCycle(s)' PROVE lock' = s
        BY DEF OwnerWorks
    <2>1. s # r /\ InCycle(s)
        BY <1>1 DEF InCycle, Asleep
    <2>2. lock = s /\ lock = r
        BY <1>2, <2>1 DEF IInv, OwnerWorks
    <2>3. QED
        BY <2>1, <2>2
<1>7. \A k : Notified(k)' <=> Notified(k)
    BY DEF Notified
<1>8. StillUnnotified'
    BY <1>1, <1>2, <1>7 DEF IInv, StillUnnotified, Asleep
<1>9. DeliveryRecorded'
    <2> SUFFICES ASSUME ~overran', NEW k \in delivered' \ unlogged', ~Notified(k)
                 PROVE  Recording(k)'
        BY <1>7 DEF DeliveryRecorded
    <2>1. PICK s \in Replicas : /\ worker[s].pc = "log" /\ worker[s].ok
                                /\ worker[s].key = k
        BY <1>2, <1>4 DEF IInv, DeliveryRecorded, Recording
    <2>2. s # r
        BY <2>1 DEF Forget
    <2>3. QED
        BY <1>1, <2>1, <2>2 DEF Recording
<1>10. NoRetryTime' /\ DuplicateNeedsCause'
    BY <1>2, <1>4 DEF IInv, NoRetryTime, DuplicateNeedsCause
<1>11. SentOrLink'
    BY <1>1 DEF IInv, SentOrLink, SentMails, Asleep
<1>12. QED
    BY <1>5, <1>6, <1>8, <1>9, <1>10, <1>11 DEF IInv

LEMMA AcquireStep ==
    ASSUME IInv, NEW r \in Replicas, Acquire(r)
    PROVE  IInv'
<1> USE DEF historyVars
<1>1. /\ worker' \in [Replicas -> Loops]
      /\ worker'[r].pc = "fetch"
      /\ \A s \in Replicas \ {r} : worker'[s] = worker[s]
    BY DEF Acquire, Go, IInv, TypeOK, Locations, Loops
<1>2. TypeOK' /\ KeyChosen'
    BY <1>1 DEF Acquire, IInv, TypeOK, KeyChosen
<1>3. OwnerWorks'
    BY <1>1, SchedulerConstants DEF Acquire, IInv, OwnerWorks, InCycle
<1>4. \A k : Notified(k)' <=> Notified(k)
    BY DEF Notified, Acquire
<1>5. \A k : Recording(k) => Recording(k)'
    BY <1>1 DEF Recording, Acquire
<1>6. StillUnnotified' /\ DeliveryRecorded'
    BY <1>1, <1>4, <1>5 DEF IInv, StillUnnotified, DeliveryRecorded, Acquire
<1>7. NoRetryTime' /\ DuplicateNeedsCause'
    BY DEF IInv, NoRetryTime, DuplicateNeedsCause, Acquire
<1>8. SentOrLink'
    BY <1>1 DEF IInv, SentOrLink, SentMails, Acquire
<1>9. QED
    BY <1>2, <1>3, <1>6, <1>7, <1>8 DEF IInv

LEMMA AcquireLostStep ==
    ASSUME IInv, NEW r \in Replicas, AcquireLost(r)
    PROVE  IInv'
<1> USE DEF historyVars
<1>1. TypeOK' /\ KeyChosen' /\ NoRetryTime' /\ DuplicateNeedsCause'
    BY DEF AcquireLost, IInv, TypeOK, KeyChosen, NoRetryTime, DuplicateNeedsCause
<1>2. OwnerWorks'
    BY SchedulerConstants DEF AcquireLost, IInv, OwnerWorks, InCycle
<1>3. \A k : (Notified(k)' <=> Notified(k)) /\ (Recording(k)' <=> Recording(k))
    BY DEF Notified, Recording, AcquireLost
<1>4. StillUnnotified' /\ DeliveryRecorded'
    BY <1>3 DEF IInv, StillUnnotified, DeliveryRecorded, AcquireLost
<1>5. SentOrLink'
    BY DEF IInv, SentOrLink, SentMails, AcquireLost
<1>6. QED
    BY <1>1, <1>2, <1>4, <1>5 DEF IInv

LEMMA ExpireStep ==
    ASSUME IInv, LockExpire
    PROVE  IInv'
<1> USE DEF historyVars
<1>1. TypeOK' /\ KeyChosen' /\ NoRetryTime'
    BY DEF LockExpire, IInv, TypeOK, KeyChosen, NoRetryTime
<1>2. overran' = (overran \/ InCycle(lock))
    BY DEF LockExpire
<1>3. OwnerWorks'
    BY <1>2 DEF LockExpire, IInv, OwnerWorks, InCycle
<1>4. \A k : Notified(k)' <=> Notified(k)
    BY DEF Notified, LockExpire
<1>5. \A k : Recording(k)' <=> Recording(k)
    BY DEF Recording, LockExpire
<1>6. StillUnnotified'
    BY <1>2, <1>4 DEF IInv, StillUnnotified, LockExpire
<1>7. DeliveryRecorded'
    BY <1>2, <1>4, <1>5 DEF IInv, DeliveryRecorded, LockExpire
<1>8. DuplicateNeedsCause'
    BY <1>2 DEF IInv, DuplicateNeedsCause, LockExpire
<1>9. SentOrLink'
    BY DEF IInv, SentOrLink, SentMails, LockExpire
<1>10. QED
    BY <1>1, <1>3, <1>6, <1>7, <1>8, <1>9 DEF IInv

\* Looking for reminders, skipping, choosing, and giving up.
LEMMA QuietSteps ==
    ASSUME IInv, NEW r \in Replicas,
           \/ FetchJobs(r)
           \/ \E k \in Reminders : SkipReminder(r, k) \/ ConsiderReminder(r, k)
           \/ SendRaises(r) \/ RoundDone(r) \/ CycleError(r)
    PROVE  IInv'
<1> USE DEF Locations, Loops, Go
<1>1. worker \in [Replicas -> Loops] /\ window \subseteq Reminders
    BY DEF IInv, TypeOK
<1>2. UNCHANGED <<lock, window, log, historyVars>> /\ worker[r].pc \notin {"sleep", "log"}
    BY DEF FetchJobs, SkipReminder, ConsiderReminder, SendRaises, RoundDone, CycleError
<1> DEFINE Moved == /\ worker' \in [Replicas -> Loops]
                    /\ \A s \in Replicas \ {r} : worker'[s] = worker[s]
                    /\ worker'[r].pc # "log"
                    /\ worker'[r].pc = "send" => /\ worker'[r].key \in Reminders
                                                 /\ ~Notified(worker'[r].key)
<1>3. Moved
    <2>1. CASE FetchJobs(r)
        <3>1. PICK found \in SUBSET Reminders :
                  worker' = [worker EXCEPT ![r].pc = "jobs", ![r].todo = found]
            BY <1>1, <2>1 DEF FetchJobs
        <3> DEFINE new == [worker[r] EXCEPT !.pc = "jobs", !.todo = found]
        <3>2. worker' = [worker EXCEPT ![r] = new]
            BY <3>1
        <3>3. new \in Loops /\ new.pc = "jobs"
            BY <1>1
        <3> HIDE DEF new
        <3>4. QED
            BY <1>1, <3>2, <3>3
    <2>2. ASSUME NEW k \in Reminders, SkipReminder(r, k) PROVE Moved
        BY <1>1, <2>2 DEF SkipReminder
    <2>3. ASSUME NEW k \in Reminders, ConsiderReminder(r, k) PROVE Moved
        <3> DEFINE new == [worker[r] EXCEPT !.pc = "send", !.key = k,
                                            !.todo = worker[r].todo \ {k}]
        <3>1. worker' = [worker EXCEPT ![r] = new]
            BY <2>3 DEF ConsiderReminder
        <3>2. new \in Loops /\ new.pc = "send" /\ new.key = k
            BY <1>1
        <3>3. ~Notified(k)
            BY <2>3 DEF ConsiderReminder
        <3> HIDE DEF new
        <3>4. QED
            BY <1>1, <3>1, <3>2, <3>3
    <2>4. CASE SendRaises(r)
        BY <1>1, <2>4 DEF SendRaises
    <2>5. CASE RoundDone(r)
        <3> DEFINE new == [worker[r] EXCEPT !.round = 2,
                             !.pc = IF worker[r].round = 1 THEN "fetch" ELSE "retries"]
        <3>1. worker' = [worker EXCEPT ![r] = new]
            BY <2>5 DEF RoundDone
        <3>2. new \in Loops /\ new.pc \notin {"send", "log"}
            BY <1>1
        <3> HIDE DEF new
        <3>3. QED
            BY <1>1, <3>1, <3>2
    <2>6. CASE CycleError(r)
        BY <1>1, <2>6 DEF CycleError
    <2>7. QED
        BY <2>1, <2>2, <2>3, <2>4, <2>5, <2>6
<1>4. TypeOK' /\ KeyChosen'
    BY <1>2, <1>3 DEF IInv, TypeOK, KeyChosen, historyVars
<1>5. QED
    BY <1>2, <1>3, <1>4, LocalStep DEF InCycle

LEMMA SendStep ==
    ASSUME IInv, NEW r \in Replicas, Send(r)
    PROVE  IInv'
<1>1. PICK ok \in BOOLEAN, arrived \in BOOLEAN :
        /\ IF worker[r].key \in Links THEN ~arrived ELSE ok => arrived
        /\ worker' = [worker EXCEPT ![r].pc = "log", ![r].ok = ok]
        /\ Deliver(IF arrived THEN {worker[r].key} ELSE {})
        /\ unlogged' = IF arrived /\ ~ok THEN unlogged \union {worker[r].key}
                       ELSE unlogged
    BY DEF Send
<1>2. worker[r].pc = "send" /\ UNCHANGED <<lock, window, log, overran>>
    BY DEF Send
<1>3. worker[r].key \in Reminders
    BY <1>2 DEF IInv, KeyChosen
<1>4. /\ worker' \in [Replicas -> Loops]
      /\ worker'[r].pc = "log" /\ worker'[r].ok = ok /\ worker'[r].key = worker[r].key
      /\ \A s \in Replicas \ {r} : worker'[s] = worker[s]
    <2> DEFINE new == [worker[r] EXCEPT !.pc = "log", !.ok = ok]
    <2>1. worker \in [Replicas -> Loops]
        BY DEF IInv, TypeOK
    <2>2. worker' = [worker EXCEPT ![r] = new]
        BY <1>1
    <2>3. new \in Loops /\ new.pc = "log" /\ new.ok = ok /\ new.key = worker[r].key
        BY <2>1 DEF Loops, Locations
    <2> HIDE DEF new
    <2>4. QED
        BY <2>1, <2>2, <2>3
<1>5. TypeOK' /\ KeyChosen'
    BY <1>1, <1>2, <1>3, <1>4 DEF IInv, TypeOK, KeyChosen, Deliver
<1>6. OwnerWorks' /\ NoRetryTime'
    BY <1>2, <1>4 DEF IInv, OwnerWorks, NoRetryTime, InCycle
<1>7. \A k : Notified(k)' <=> Notified(k)
    BY <1>2 DEF Notified
<1>8. StillUnnotified'
    BY <1>2, <1>4, <1>7 DEF IInv, StillUnnotified
<1>9. \A k : Recording(k) => Recording(k)'
    BY <1>2, <1>4 DEF Recording
<1>10. DeliveryRecorded'
    <2> SUFFICES ASSUME ~overran', NEW k \in delivered' \ unlogged'
                 PROVE  Notified(k)' \/ Recording(k)'
        BY DEF DeliveryRecorded
    <2>1. CASE k \in delivered
        BY <1>1, <1>2, <1>7, <1>9, <2>1 DEF IInv, DeliveryRecorded
    <2>2. CASE k \notin delivered
        BY <1>1, <1>4, <2>2 DEF Deliver, Recording
    <2>3. QED
        BY <2>1, <2>2
<1>11. DuplicateNeedsCause'
    <2> SUFFICES ASSUME ~overran', NEW k \in again', k \notin unlogged'
                 PROVE  FALSE
        BY DEF DuplicateNeedsCause
    <2>1. k \notin unlogged /\ ~overran
        BY <1>1, <1>2
    <2>2. k = worker[r].key /\ k \in delivered
        BY <1>1, <2>1 DEF Deliver, IInv, DuplicateNeedsCause
    <2>3. ~Notified(k)
        BY <1>2, <2>1, <2>2 DEF IInv, StillUnnotified
    <2>4. Recording(k)
        BY <2>1, <2>2, <2>3 DEF IInv, DeliveryRecorded
    <2>5. PICK s \in Replicas : worker[s].pc = "log"
        BY <2>4 DEF Recording
    <2>6. s = r
        BY <1>2, <2>1, <2>5 DEF IInv, OwnerWorks, InCycle
    <2>7. QED
        BY <1>2, <2>5, <2>6
<1>12. SentOrLink'
    BY <1>1, <1>2, <1>4 DEF IInv, SentOrLink, SentMails, Deliver
<1>13. QED
    BY <1>5, <1>6, <1>8, <1>10, <1>11, <1>12 DEF IInv

LEMMA WriteLogStep ==
    ASSUME IInv, NEW r \in Replicas, NEW i \in Ids, WriteLog(r, i)
    PROVE  IInv'
<1> DEFINE new == [key |-> worker[r].key,
                   status |-> IF worker[r].ok THEN "sent" ELSE "failed",
                   retries |-> 0, retryAt |-> FALSE]
<1>1. /\ worker[r].pc = "log" /\ log[i] = NoRow
      /\ log' = [log EXCEPT ![i] = new]
      /\ UNCHANGED <<lock, window, delivered, again, unlogged, overran>>
    BY DEF WriteLog, historyVars
<1>2. /\ worker' \in [Replicas -> Loops]
      /\ worker'[r].pc = "jobs"
      /\ \A s \in Replicas \ {r} : worker'[s] = worker[s]
    BY DEF WriteLog, Go, IInv, TypeOK, Locations, Loops
<1>3. new \in Rows
    BY <1>1 DEF IInv, KeyChosen, Rows
<1>4. TypeOK' /\ KeyChosen'
    BY <1>1, <1>2, <1>3 DEF IInv, TypeOK, KeyChosen
<1>5. OwnerWorks' /\ DuplicateNeedsCause'
    BY <1>1, <1>2 DEF IInv, OwnerWorks, DuplicateNeedsCause, InCycle
<1>6. log'[i] = new /\ \A j \in Ids \ {i} : log'[j] = log[j]
    BY <1>1 DEF IInv, TypeOK
<1>7. NoRetryTime'
    BY <1>1, <1>6 DEF IInv, NoRetryTime
<1>8. \A k : Notified(k) => Notified(k)'
    BY <1>1, <1>6 DEF Notified
<1>9. StillUnnotified'
    <2> SUFFICES ASSUME ~overran', NEW s \in Replicas, worker'[s].pc = "send"
                 PROVE  FALSE
        BY DEF StillUnnotified
    <2>1. s # r /\ worker[s].pc = "send"
        BY <1>2
    <2>2. QED
        BY <1>1, <2>1 DEF IInv, OwnerWorks, InCycle
<1>10. \A k : worker[r].ok /\ worker[r].key = k => Notified(k)'
    BY <1>3, <1>6, RowConstant DEF Notified
<1>11. DeliveryRecorded'
    BY <1>1, <1>2, <1>8, <1>10 DEF IInv, DeliveryRecorded, Recording
<1>12. SentOrLink'
    BY <1>1, <1>2, <1>6 DEF IInv, SentOrLink, SentMails
<1>13. QED
    BY <1>4, <1>5, <1>7, <1>9, <1>11, <1>12 DEF IInv

LEMMA WriteLogFailsStep ==
    ASSUME IInv, NEW r \in Replicas, WriteLogFails(r)
    PROVE  IInv'
<1>1. /\ worker[r].pc = "log"
      /\ UNCHANGED <<lock, window, log, delivered, again, overran>>
    BY DEF WriteLogFails
<1>2. /\ worker' \in [Replicas -> Loops]
      /\ worker'[r].pc = "jobs"
      /\ \A s \in Replicas \ {r} : worker'[s] = worker[s]
    BY DEF WriteLogFails, Go, IInv, TypeOK, Locations, Loops
<1>3. unlogged' = IF worker[r].ok THEN unlogged \union {worker[r].key} ELSE unlogged
    BY <1>1 DEF WriteLogFails, Forget
<1>4. TypeOK' /\ KeyChosen'
    BY <1>1, <1>2, <1>3 DEF IInv, TypeOK, KeyChosen
<1>5. OwnerWorks' /\ NoRetryTime' /\ DuplicateNeedsCause'
    BY <1>1, <1>2, <1>3 DEF IInv, OwnerWorks, NoRetryTime, DuplicateNeedsCause, InCycle
<1>6. \A k : Notified(k)' <=> Notified(k)
    BY <1>1 DEF Notified
<1>7. StillUnnotified'
    BY <1>1, <1>2, <1>6 DEF IInv, StillUnnotified
<1>8. DeliveryRecorded'
    BY <1>1, <1>2, <1>3, <1>6 DEF IInv, DeliveryRecorded, Recording
<1>9. SentOrLink'
    BY <1>1, <1>2 DEF IInv, SentOrLink, SentMails
<1>10. QED
    BY <1>4, <1>5, <1>7, <1>8, <1>9 DEF IInv

\* Retries and retention, which rewrite rows but leave every sent row alone.
LEMMA TableSteps ==
    ASSUME IInv, NEW r \in Replicas, ProcessRetries(r) \/ RunTasks(r)
    PROVE  IInv'
<1>1. Retryable = {}
    BY DEF IInv, NoRetryTime, Retryable
<1>2. /\ worker[r].pc \in {"retries", "tasks"}
      /\ worker' \in [Replicas -> Loops]
      /\ worker'[r].pc \in {"tasks", "release"}
      /\ \A s \in Replicas \ {r} : worker'[s] = worker[s]
    <2>1. worker[r].pc \in {"retries", "tasks"} /\ (Go(r, "tasks") \/ Go(r, "release"))
        BY DEF ProcessRetries, RunTasks
    <2>2. QED
        BY <2>1 DEF Go, IInv, TypeOK, Locations, Loops
<1>3. UNCHANGED <<lock, window, historyVars>>
    <2>1. CASE ProcessRetries(r)
        <3>1. PICK ok \in SUBSET Retryable : Deliver({log[i].key : i \in ok})
            BY <2>1 DEF ProcessRetries
        <3>2. {log[i].key : i \in ok} = {}
            BY <1>1
        <3>3. delivered' = delivered /\ again' = again
            BY <3>1, <3>2 DEF Deliver, IInv, TypeOK
        <3>4. QED
            BY <2>1, <3>3 DEF ProcessRetries, historyVars
    <2>2. CASE RunTasks(r)
        BY <2>2 DEF RunTasks
    <2>3. QED
        BY <2>1, <2>2
<1>4. /\ log' \in [Ids -> Rows \union {NoRow}]
      /\ \A i \in Ids : \/ log'[i] = log[i]
                        \/ log'[i] = NoRow /\ log[i].status # "sent"
    <2>1. CASE ProcessRetries(r)
        <3>1. log' = [i \in Ids |-> log[i]]
            BY <1>1, <2>1 DEF ProcessRetries
        <3>2. QED
            BY <3>1 DEF IInv, TypeOK
    <2>2. CASE RunTasks(r)
        BY <2>2 DEF RunTasks, IInv, TypeOK
    <2>3. QED
        BY <2>1, <2>2
<1>5. TypeOK' /\ KeyChosen'
    BY <1>2, <1>3, <1>4 DEF IInv, TypeOK, KeyChosen, historyVars
<1>6. OwnerWorks' /\ DuplicateNeedsCause'
    BY <1>2, <1>3 DEF IInv, OwnerWorks, DuplicateNeedsCause, historyVars, InCycle
<1>7. NoRetryTime'
    BY <1>4 DEF IInv, NoRetryTime
<1>8. \A k : Notified(k)' <=> Notified(k)
    BY <1>4 DEF Notified
<1>9. StillUnnotified' /\ DeliveryRecorded'
    BY <1>2, <1>3, <1>8
    DEF IInv, StillUnnotified, DeliveryRecorded, Recording, historyVars
<1>10. SentOrLink'
    BY <1>2, <1>3, <1>4 DEF IInv, SentOrLink, SentMails, historyVars
<1>11. QED
    BY <1>5, <1>6, <1>7, <1>9, <1>10 DEF IInv

LEMMA WindowSteps ==
    ASSUME IInv, UNCHANGED <<lock, worker, log, historyVars>>, window' \subseteq Reminders
    PROVE  IInv'
<1> USE DEF historyVars
<1>1. TypeOK' /\ KeyChosen' /\ OwnerWorks' /\ NoRetryTime' /\ DuplicateNeedsCause'
    BY DEF IInv, TypeOK, KeyChosen, OwnerWorks, NoRetryTime, DuplicateNeedsCause, InCycle
<1>2. \A k : (Notified(k)' <=> Notified(k)) /\ (Recording(k)' <=> Recording(k))
    BY DEF Notified, Recording
<1>3. StillUnnotified' /\ DeliveryRecorded'
    BY <1>2 DEF IInv, StillUnnotified, DeliveryRecorded
<1>4. SentOrLink'
    BY DEF IInv, SentOrLink, SentMails
<1>5. QED
    BY <1>1, <1>3, <1>4 DEF IInv

-----------------------------------------------------------------------------
LEMMA NextIInv == IInv /\ [Next]_vars => IInv'
<1> SUFFICES ASSUME IInv, [Next]_vars PROVE IInv'
    OBVIOUS
<1>1. ASSUME NEW r \in Replicas, Acquire(r) \/ AcquireLost(r) PROVE IInv'
    BY <1>1, AcquireStep, AcquireLostStep
<1>2. ASSUME NEW r \in Replicas, FetchJobs(r) \/ SendRaises(r) \/ RoundDone(r) \/ CycleError(r)
      PROVE  IInv'
    BY <1>2, QuietSteps
<1>3. ASSUME NEW r \in Replicas, NEW k \in Reminders,
             SkipReminder(r, k) \/ ConsiderReminder(r, k)
      PROVE  IInv'
    BY <1>3, QuietSteps
<1>4. ASSUME NEW r \in Replicas, Send(r) PROVE IInv'
    BY <1>4, SendStep
<1>5. ASSUME NEW r \in Replicas, NEW i \in Ids, WriteLog(r, i) PROVE IInv'
    BY <1>5, WriteLogStep
<1>6. ASSUME NEW r \in Replicas, ProcessRetries(r) \/ RunTasks(r) PROVE IInv'
    BY <1>6, TableSteps
<1>7. ASSUME NEW r \in Replicas, Release(r) \/ ReleaseFails(r) \/ Shutdown(r) \/ Crash(r)
      PROVE  IInv'
    <2>1. Forget(r)
        BY <1>7 DEF Release, ReleaseFails, Shutdown, Crash, Forget, historyVars
    <2>2. InCycle(r) /\ Sleep(r) /\ UNCHANGED <<window, log, delivered, again>>
        BY <1>7 DEF Release, ReleaseFails, Shutdown, Crash, InCycle, historyVars
    <2>3. DeleteLock(r) \/ UNCHANGED <<lock, overran>>
        BY <1>7 DEF Release, ReleaseFails, Shutdown, Crash, historyVars
    <2>4. QED
        BY <2>1, <2>2, <2>3, LeaveCycle
<1>8. ASSUME NEW r \in Replicas, WriteLogFails(r) PROVE IInv'
    BY <1>8, WriteLogFailsStep
<1>9. CASE LockExpire
    BY <1>9, ExpireStep
<1>10. ASSUME NEW k \in Reminders, WindowOpens(k) \/ WindowCloses(k) PROVE IInv'
    BY <1>10, WindowSteps DEF WindowOpens, WindowCloses, IInv, TypeOK
<1>11. CASE UNCHANGED vars
    BY <1>11, WindowSteps DEF vars, historyVars, IInv, TypeOK
<1>12. QED
    BY <1>1, <1>2, <1>3, <1>4, <1>5, <1>6, <1>7, <1>8, <1>9, <1>10, <1>11
    DEF Next, CycleStep, SendingStep, Failure

\* IInv holds in every reachable state.
THEOREM InvariantHolds == Spec => []IInv
    BY InitIInv, NextIInv, PTL DEF Spec

\* Type correctness of the scheduler's lock, loops and log rows.
THEOREM TypeCorrect == Spec => []TypeOK
<1>1. IInv => TypeOK
    BY DEF IInv
<1>2. QED
    BY <1>1, InvariantHolds, PTL

\* As long as no cycle outlives its lock, at most one replica is working,
\* whatever crashes, fails or is shut down.
THEOREM ExclusionHolds == Spec => []ExclusiveUntilOverrun
<1>1. IInv => ExclusiveUntilOverrun
    BY DEF IInv, OwnerWorks, ExclusiveUntilOverrun
<1>2. QED
    BY <1>1, InvariantHolds, PTL

\* A reminder is delivered twice only after an overrun or when an earlier
\* delivery left no row with status sent.
THEOREM DuplicatesHaveCause == Spec => []DuplicateNeedsCause
<1>1. IInv => DuplicateNeedsCause
    BY DEF IInv
<1>2. QED
    BY <1>1, InvariantHolds, PTL

\* A row says sent only if the mail server accepted the reminder.
THEOREM SentMailsDelivered == Spec => []SentMails
<1>1. IInv => SentMails
    BY DEF IInv, SentOrLink
<1>2. QED
    BY <1>1, InvariantHolds, PTL

\* No row of a failed send ever becomes eligible for a retry.
THEOREM NothingRetryable == Spec => [](Retryable = {})
<1>1. IInv => Retryable = {}
    BY DEF IInv, NoRetryTime, Retryable
<1>2. QED
    BY <1>1, InvariantHolds, PTL
=============================================================================
