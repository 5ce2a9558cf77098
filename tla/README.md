# TLA+ verification of the field-service platform

This directory specifies the parts of the platform under `src/development/services`
whose correctness depends on concurrency, on failures or on the order of events. It
holds TLA+ modules, configurations for the model checker TLC, and proofs checked by
TLAPS. `PROJECT.json` is its index: which run checks which properties, which lines of
the source each definition stands for (`map`), which changed definition violates each
property (`mutants`), which hazards of the code the properties are for (`hazards`), and
which theorems are proved (`theorems`).

    tlc -workers 2 -config RefreshSessions.cfg MCRefreshSessions.tla
    tlapm CalendarProofs.tla

Contents: 1 the system, 2 the plan, 3 the modules, 4 the runs, 5 fairness, 6 the proofs,
7 where the code and its documentation disagree, 8 what is not modelled.

## 1. The system

The platform serves service companies: their customers, employees and jobs. It is a set of
FastAPI processes over one PostgreSQL database and one Redis. `*-bl-service` processes
hold the rules and talk over HTTP to `*-db-access-service` processes, which own the
tables. Every process may have several replicas, and a handler is a coroutine: other
requests run at each of its awaits. The database runs in READ COMMITTED, nothing takes
row locks, and a handler commits as often as the functions it calls do.

| Component | State | Operations | Interacts with | Module |
|---|---|---|---|---|
| auth-service: refresh tokens | rows of `refresh_tokens` | login, refresh (rotation), logout, revoke-all, verify, daily cleanup | user-db-access-service answers who the user is; notification-service calls the cleanup | `RefreshSessions` |
| auth-service: access tokens | JWTs held by clients, `bl:<jti>` keys in Redis, rows of `token_blacklist` | issue, blacklist at logout, verify, cleanup | Redis may be down or lose keys | `AccessTokens` |
| auth-service: what a token says | claims, copied from `users` | login, refresh, impersonation, change and reset of a password | user-db-access-service; the audit trail | `AccountAccess` |
| shared/common: authentication | none of its own | role, permission and tenant checks of a request | imported by every service; permissions are asked for at user-db-access-service | `AccountAccess` |
| shared/common: cache helpers, audit | none of their own | get, set, delete, delete by pattern, `log_action`; errors are swallowed | imported | the modules that use them |
| notification-service: scheduler | the lock key in Redis, `notification_log`, keys of daily tasks | a cycle every minute: take the lock, due reminders, dedup, send, log, retries, daily and hourly tasks | job-bl, customer-bl, user-bl for the data; SMTP; auth and user-db for maintenance | `ReminderScheduler`, `ReminderWindows` |
| notification-service: sends and webhooks | `notification_log` | welcome and test messages, manual marks, delivery receipts, retention | Twilio calls back, in any order | `MessageDelivery` |
| job-db-access-service | `jobs`, `job_employees`, `job_history` | create, update, status patch, delete, assign, list by window, queue | written by job-bl-service alone | `JobEdits`, `PagedLists` |
| job-bl-service | caches of jobs and of the jobs of an employee and day | assign, schedule, update, delete with the conflict check; calendar and queue reads | Redis, job-db, customer, user and maps services | `JobScheduling` |
| customer-db-access and customer-bl | `customers`, `customer_notes`, caches | create, update, delete, notes, export, anonymize | maps-access-service for coordinates | `CustomerRecords` |
| user-db-access and user-bl: accounts | `users`, `employees`, permissions, audit log, cached views | invite, create, permissions, erasure and its schedule | auth-service authenticates against it; the scheduler calls the erasure | `TeamOnboarding`, `AccountErasure`, `StaffDirectory` |
| admin-bl-service, organizations | `organizations`, `companies`, `platform_settings`, audit log | organizations and their suspension, roles, settings | user-db-access-service | `OrganizationAdmin` |
| lists of all services | none | pages by skip and limit | the scripts of the frontend | `PagedLists` |
| frontend: sessions | cookies of the browser, `request.state` of a page | sign in, pages, calls through the proxy, renewal, impersonation, logout | auth-service | `BrowserSession` |
| frontend: calendar | none | month, week and day pages, forms | job-bl-service | `CalendarGrid` |
| maps-access-service, other pages, nginx, migrations, monitor | none that others depend on | geocoding proxy, pages, routing, schema | - | - |

What is hard in this code:

- *Interleaving at awaits.* No handler locks what it selected: two refreshes of one token,
  an edit and a patch of one job, two conflict checks, a cleanup under a handler, two
  invitations of one person, two administrators at one organization.
- *Several commits in one request.* Rotation commits twice; `update_job` commits once for
  each changed field, because `create_job_history` commits the session it is given.
- *Several stores for one fact.* The blacklist is in Redis and in PostgreSQL; lists, users,
  customers and permissions are cached; claims of a token are a copy of an account; every
  cache error is swallowed.
- *Several calls for one purpose.* `assign_job`, `invite_employee` and the company settings
  write through two or three services in turn, without compensation.
- *Objects that are older than they look.* A session does not refresh what it has loaded, and
  a commit writes only what differs from it: an erasure leaves alone what was empty when read.
- *Locks with a time limit.* The lock of the scheduler expires after 120 s, is never
  renewed, has no owner, and is deleted unconditionally.
- *Side effects that cannot be undone.* A message is sent before it is recorded, and what
  becomes of it is told by receipts in any order.
- *Cookies that all tabs share.* A response sets them when it arrives, not when it was made.
- *Boundaries.* Whole seconds in JWTs against fractions in the database; days, weeks and grid
  rows that a job may straddle; a CHECK constraint that sees one field changed and not the
  other; pages cut by row numbers out of lists that change.

What makes each part correct:

- Refresh tokens: a token that was exchanged or refused never works again; no token is
  usable next to its successor; expired rows disappear.
- Access tokens: after a logout was answered, the token is rejected for the rest of its
  life; no other token is ever rejected; the blacklist does not grow for ever.
- Rights: a request does only what its account may do, or could when the token was made;
  tenants stay apart; a password is changed by whoever proved the old one; an impersonation
  leaves a trace.
- Scheduler: one replica works at a time unless a cycle outlives its lock; a duplicate
  reminder has one of two known causes; a row that says `sent` is true; work never stops.
- Messages: the log is true and complete; nobody is written to against their will.
- Jobs: every value has a history row; a successful request did what it asked for and
  nobody undoes another one's change; a refusal has a cause.
- Scheduling: a double booking is the result of an unchecked write or of an outdated check,
  of nothing else; a cached list is outdated only in known circumstances.
- Accounts: who is answered that an invitation is done has a whole member of the team; what
  the owner chose is not undone by defaults; nobody is erased who did not ask for it long enough
  ago, everybody is who did, and nothing is left of them.
- Customers: nothing is left of an erased one; the pin on the map is at the address.
- Caches: what is old in them is about to be deleted, or has one of few causes.
- Administration: a suspension is whole; every change is in the audit trail; a setting has the
  value last accepted.
- Browser: the cookies belong to one session; after a logout there are none; a page exchanges
  the refresh token once.
- Calendar and lists: a job is drawn once a day, in its place, and hidden by none; who reads
  all pages sees all rows.

## 2. The plan

In the order of importance. Done:

1. `SessionLifecycle` (abstract), `RefreshSessions`, `AccessTokens`, `AccountAccess`: sessions
   and rights, with their proofs.
2. `ReminderScheduler`, `ReminderWindows`, `MessageDelivery`: what is sent and when, with their
   proofs.
3. `JobEdits`, `JobScheduling`: jobs, with their proofs.
4. `AccountErasure`, `TeamOnboarding`: accounts, with their proofs.
5. `CustomerRecords`, `StaffDirectory`, `OrganizationAdmin`: customers, cached views, the
   administration, with their proofs.
6. `BrowserSession`, `CalendarGrid`, `PagedLists`: what the user sees, with their proofs.

Left, the first where most would be gained:

- The composition of `RefreshSessions` with `AccessTokens` for a whole logout, and of `JobEdits` with
  `JobScheduling`, whose update is one step now.
- An abstract cache (a register whose reads may be old, but not older than the time to live)
  that `JobScheduling`, `CustomerRecords` and `StaffDirectory` refine.

## 3. The modules

### RefreshSessions and SessionLifecycle (auth-service)

`row[t]` is the column `is_revoked` of the row of token `t` (`none` before it is inserted
and after the cleanup), `userOf` its `user_id`, `expired` the tokens whose `expires_at`
has passed. `worker[w]` is a request slot, over all replicas: where its coroutine
awaits and what its local variables hold. The actions are the stretches between awaits:
`LoginAuthenticate`, `LoginStore`; `RefreshVerify` (the SELECT with its filter), then
`RefreshExpire` or `RefreshRotate` (first commit) and `RefreshStore` (second commit);
`LogoutSelect`, `LogoutRevoke`; `RevokeAll` and `Cleanup`, one statement each; `Refuse`,
a 401; `UpdateFindsNoRow`, SQLAlchemy's error for a row that was deleted in between;
`Abort`, a crash or a lost connection at any await. The history variables `parent`, `root`,
`refused` and `cutOff` are read by no guard.

`SessionLifecycle` is the promise: a token is opened once, by a login or as the
successor of a closed token, and closed for good. `RefreshSessions` implements it with
`status` = unissued / open / closed and `predecessor` = `parent` (`LifecycleRefined`).

### AccessTokens (auth-service)

The clock `now` counts ticks, several to the second, because the `exp` claim, its check and
the TTL of the Redis key are whole seconds while PostgreSQL compares instants. A
logout revokes the refresh token, decodes the access token, sets the Redis key if Redis
is there and if whole seconds are left, and inserts the row; a verification decodes, asks Redis
and then the table, at different moments. `RedisFlip` and `RedisLose` make Redis
unreachable and forget keys. `MaxTime` bounds the clock, and tokens are issued only when
they expire before it.

### ReminderScheduler (notification-service)

`lock` is the key in Redis with, for the properties, whose it is: the code cannot tell.
`worker[r]` is the loop of replica `r`; one cycle is `Acquire`, two rounds of `FetchJobs`,
`ConsiderReminder` (with `has_been_notified`) or `SkipReminder`, `Send`, `WriteLog`, then
`ProcessRetries`, `RunTasks`, `Release`. Failures: the answer of Redis to `SET NX` is lost, the
adapter reports an error for a mail that did arrive, the row cannot be written, an
exception ends the cycle, the deletion of the lock fails, a shutdown runs the `finally`
block, a crash does not. A cycle has no upper bound (up to 500 jobs a round, HTTP and SMTP
for each), so `LockExpire` may happen at any time; `overran` remembers when it hit a
working owner. Which jobs the windows of a round contain is left open
(`WindowOpens`, `WindowCloses`).

### JobEdits (job-db-access-service)

The row of one job, its history, and requests that work on an object in memory:
`mem` is the object, `base` what the session believes to be in the row. `EditField` is one
turn of the loop of `update_job`: it commits the fields set so far together with the
history row of this field, then sets this field. `FinishEdit` is the automatic status and
the last commit. A commit writes only the columns that differ from `base` (`Flushed`),
which is why concurrent edits of different fields do not undo each other. `ValidTimeRange`
is the CHECK constraint, with SQL's null. `update_job_status` and `delete_job` are a read
and a commit each; a crash may come between.

### JobScheduling (job-bl-service over job-db-access-service and Redis)

Requests to assign, schedule, update and delete: `LookHit`, `LookMiss` and `Keep` are
`get_job` with its cache, `ListHit`, `ListMiss` and `Store` the list of the employee's jobs of
the day with its own, `UpdateSlot`, `AssignEmployee` and `DeleteJob` the writes, `Forget`
the invalidation afterwards. Every call may fail (`Fail`), every cache operation may do
so silently, entries expire. `sound` (is what the check found still so?), `excused` (jobs
whose last write had no check that held) and `poisoned` (entries stored late or
not deleted) are history variables for the properties.

`UpdateSlot` is one step here and many commits in `JobEdits`: a reader in between can see a
new start with an old end.

### AccountAccess (auth-service, common/auth.py, user-db-access-service)

`accountOf[u]` is the row of `users`, `claims[c]` the access token client `c` holds and
`session[c]` its refresh token. `LoginRead`/`LoginStore`, `RefreshRead`/`RefreshDone`
and `Impersonate`/`LogShadow` are the handlers of auth-service cut at their calls; `Ask`,
`AskPermission` and `Act` are a request on its way through `get_current_user`, `require_role` or
`require_permission`, and `verify_tenant_access`; `ProveOld`, `ReadTarget`, `SetPassword` the
change and the reset of a password. `EditRole`, `EditEmail`, `Move`, `SwitchActive` and
`ChangeGrant` change accounts meanwhile, `MaxEdits` times. `homes` is a history component: the
tenants the account has had since the login the token goes back to.

### ReminderWindows (notification-service, the query of job-db-access-service)

The same loop by the clock. A job is its slot and whether its status is one the query asks for; `SetJob` is
one commit of any function that changes them, at any moment. A cycle takes `now` once, then for each kind
fetches the jobs that lie in `now + Opens` to `now + Closes` (`DueJobs`) and works off that list (`SendNotice`,
`SkipTold`, `SendNothing`) while jobs move and time passes; then come the three tasks, each
`Postponed` by its key or performed in part or whole, and any of it may break off. History
variables remember when a job settled, which reminders were refused, and which rounds were late.

`RemindersComeInTime` is a statement about time alone: a job that fits, that stood still while its window passed,
with rounds close enough, was reminded of. It does not mention lists or queries.

### MessageDelivery (notification-service)

`delivery[d]` is a request to send; each channel is `Resolve` (three tiers of
settings, each of whose answers may be missing), `Send` and `Log` in turn, the row being a commit
after the message. `transit[d]` is the WhatsApp message at Twilio, moved on by `Carry`; each
move may post a receipt, and `LoadReceipt`/`CommitReceipt` are the webhook, which reads the row and
writes it. Receipts are a set: they may be lost, taken twice and overtake one another.

### AccountErasure (user-db-access-service)

`account[u]` has the columns an erasure is about, `call[r]` a request with the object its
session loaded, `pass` the hourly task: the users that were due when it read its list, and the
objects it read then, which the session does not refresh. `named` are users whose address stands in
the audit trail. The clock counts hours, up to `LastHour`. `EraseDue` and `EraseNow` write only
what differs from the loaded object (`lateWrites` notes who was written to in between).

### TeamOnboarding (user-bl-service over user-db-access-service)

`step[c]` is a request between two calls: look up and insert the account, look up and
insert the default permissions, look up and insert the employee, read and set permissions.
Unique constraints refuse the second of two inserts; `TeamCutOff` ends a request anywhere.

### StaffDirectory (user-bl-service)

Six cached views and thirteen writes, as tables: a view is the facts its SELECTs show, in order
(`Parts`), a write the facts it changes and the deletions that follow, in order (`Writes`). `Spared` is
what the code forgets: a view that shows a fact and is not deleted by a write that
changes it. Readers select and keep, writers commit and delete; each deletion may fail.

### OrganizationAdmin (admin-bl-service, user-bl-service, user-db-access-service)

`org[o]` is the row of an organization with its slug, activity and reason of suspension; `desk[a]`
a request that loads it, commits what differs, and writes the audit entry by a further call. `setting`
are the platform settings. Deletion leaves an id that entries can no longer name.

### CustomerRecords (customer-bl-service over customer-db-access-service, Redis, maps)

`profile[c]` and `note[c]` are rows, `copies[k]` the entries of Redis: `old` once the
table has changed since. `errand[s]` is a request: `Arrive` is the lookup of the address followed by the load
of the row, `Commit...` the flush, `Forget` one deletion at a time. An erasure reads the row, then the
notes, and commits once. `misplaced`, `revived` and `lapses` remember causes.

### BrowserSession (frontend)

`jar` are the cookies of a browser, `tab[q]` the request of a tab: sent with the cookies of that
moment, handled at the server, answered with cookies that are set on arrival (`Receive`) or never
(`Lose`). `loading[q]` is a page handler, whose concurrent calls renew the tokens themselves
(`EnsureAuth`) at most once a request; the scripts do it by the proxy after a 401. `tokens` are the rows
of auth-service, rotated in two commits as in `RefreshSessions`.

### CalendarGrid (frontend over job-bl-service)

Pure algorithms over an agenda: `ShowMonth`, `TurnMonth`, `ShowWeek`, `ShowDay` and `OpenForm` compute
what is on the screen, from the query of the database to cells, bars in lanes and blocks in columns.
The properties are the reference: `DrawnOncePerDay` says what a page must show without looking
at how bars are split.

The loops over sorted bars and blocks take one element a turn (`PlaceBar`, `JoinGroups`, `FillColumn`);
`Repetition` is such a loop, for any step, with the lemmas that let one reason about it. The next element is
one that no other precedes in the sort: Python keeps ties in the order of the list that job-bl-service
sent, which may be any.

### PagedLists (all database services, scripts of the frontend)

A list is its ORDER BY (`OrderOf`, eleven lists): descending or not, ended by the primary key or not, its
column editable or not. A reader counts and selects page by page; meanwhile rows come, go
and move. Rows that tie come in any order (`Arrangements`), as PostgreSQL may choose.

## 4. The runs

| Run | Instance | States | Checks |
|---|---|---|---|
| `RefreshSessions` | 2 users of a tenant, 3 tokens, 2 requests | 473,654 | `RefusedIsFinal`, `LifecycleRefined` |
| `Liveness` | access tokens: 1 token, 2 requests, 5 ticks; or sessions: 1 user, 2 tokens, 2 requests; or erasure: 1 user, 1 request, 3 hours | 34,870 | `BlacklistPruned`, `SessionsSettle`, `DueIsErased` |
| `ReminderScheduler` | 2 replicas, a mail and a link in different rounds, 1 row | 578,800 | `ExclusiveUntilOverrun`, `DuplicateNeedsCause`, `SentMails`, `CyclesGoOn` |
| `JobScheduling` | 2 requests at a time, without end; 2 jobs, 1 employee, 2 days | 2,603,777 | `DoubleBookingNeedsCause`, `StaleNeedsCause` |
| `AccountServices` | seven parts, one at a time | 1,601,542 | below |
| `CustomerServices` | six parts, one at a time | 1,319,253 | below |

`AccountServices` and `CustomerServices` put parts together that share no state: `focus` is chosen
at first, names a part and a facet of it, and only that part moves, from each of its initial
states. So each part is checked on an instance of its own, as if by a run of its own. The type
invariants of the parts are checked together (`AccountPartsTyped`, `CustomerPartsTyped`), in each state
that of the part that moves; that of `CalendarGrid` is its agenda, which no step changes. The type
invariants of all other modules are theorems (section 6), as are
`PredecessorClosed`, `ExchangedOnce` and `LogoutDurable`, on which `LifecycleRefined`, the uniqueness
of exchanges and `LogoutIsFinal` rest. `SessionsSettle` is `ExpiredRowsPruned` and `RequestsEnd`.

| Part (facets) | Instance | Properties, with their parts |
|---|---|---|
| `AccessTokens` (alone, together) | 1 token, 2 requests, 3 s in 6 ticks; 2 tokens in the first 2 ticks | `LogoutIsFinal`, `NoFalseRevocation` |
| `AccountErasure` | 1 user, 2 requests and the pass, grace of 1 hour | `ErasureIsComplete`, `GraceIsServed` |
| `TeamOnboarding` | 1 person, 2 requests, 2 permissions | `OnboardingAddsUp` (`InvitationsHold`, `AccountAloneHasCause`), `ChoiceStays` |
| `AccountAccess` (rights, passwords) | 2 users, 1 client, 3 addresses, 2 edits | `AccessHasCause`, `TenantsApart`, `ProofIsOwn`, `ShadowsLeaveTrace` |
| `StaffDirectory` (each view) | 1 reader, 2 writers | `OldViewHasCause` |
| `OrganizationAdmin` (organizations, settings) | 2 organizations, 1 setting, 2 administrators | `AdminRowsHold` (`SuspensionIsWhole`, `SettingIsSettled`), `MissingEntryHasCause` |
| `BrowserSession` (pages, calls, shadows) | 2 tabs, 2 calls a page, 2 or 3 tokens, 2 persons | `JarIsConsistent` (`JarIsOnePerson`, `LeftMeansLeft`), `SessionIsCarriedOn` (`OneExchangePerPage`, `StrandedHasCause`) |
| `JobEdits` | 2 requests, 3 points in time, all slots (one, if the job is completed at first) and bodies of `MCEdits` | `ValuesRecorded`, `EditApplied`, `RefusalHasCause`, `OnlyRequested` |
| `CustomerRecords` (places, and each cached view) | 1 customer, 2 requests, 2 places | `OldCopyHasCause`, `ErasedCustomerIsBlank`, `PinIsAtAddress` |
| `MessageDelivery` (mail, chat, receipts) | 1 delivery, 2 calls of the webhook, all settings of a channel | `LogCanBeTrusted` (`LogIsTrue`, `StatusHoldsItsGround`, `PrunedIsSettled`, `AttemptsAreLogged`), `SentAsAgreed` (`FirstTierIsUsed`, `UnwantedHasCause`) |
| `ReminderWindows` (each kind of reminder, chores) | 1 job, windows of 2 ticks, 4 ticks, rounds at most 1 tick apart or late | `SchedulerKeepsTime` (`RemindersComeInTime`, `ToldTheRightTime`, `ChoresAreDone`) |
| `CalendarGrid` | 3 jobs, 13 slots each, 2 months, 4 days, a day of 6 units | `CalendarIsFaithful` (`GridHoldsMonth`, `DrawnOncePerDay`, `LanesApart`, `BlocksApart`, `BlockIsAtItsTime`, `FormIsInOrder`) |
| `PagedLists` (each list) | 3 rows, pages of 1, 2 places | `PagesMakeTheList` (`MissedHasCause`, `RepeatedHasCause`, `CountFitsPage`, `UrgentComesFirst`) |

Six more runs show that a sentence of the documentation does not hold (section 7).

Why these bounds are enough to be interesting:

- Two concurrent requests produce each race the hazards name: between SELECT and UPDATE,
  between two commits, between check and write. Three tokens make a chain with a branch.
- In `AccessTokens` a token lives two seconds or (impersonation) one, two ticks each, so that
  the last whole second, the instant of expiry and the tick after it differ, and the
  cleanup falls on each of them.
- In `ReminderWindows` both windows are two ticks wide and the rounds one tick apart, so a job of one
  tick must be met and one of two ticks may be; the clock passes both windows. The real windows are 20 and
  120 minutes wide and the rounds a minute apart.
- Two replicas are what a lock is about. One row suffices for a duplicate (the second
  delivery needs none), and retention frees it, so that the instance goes round for ever.
- In `JobEdits` three points in time give slots before, overlapping and after one another,
  and null; a second request comes between any two commits of the first.
- In `JobScheduling` the slots are two that overlap on one day and one across midnight; six
  requests cover each handler and each of its branches, and requests follow one another
  without bound.
- With an hour of grace and hours 0 and 1 (to 2 in `Liveness`) a schedule is cancelled, repeated, missed by a
  pass and caught by the next one.
- Two users are enough for rights to cross: an owner and an employee, or a superadmin and
  somebody to impersonate; three addresses let one account take another one's; two edits
  change a role and change it back, or free an address and take it.
- The slots of the calendar are chosen around 29 February 2024: without an end, without a start, before and
  after the hours shown, touching, overlapping, all day, across midnight, across weeks and the month. Three
  jobs are what it takes for a lane to be reused and for three columns.
- Three rows and pages of one make every page boundary meet every change of the list.

Every property has a mutant, a plausible slip in the code (a dropped filter, a missing
commit, a cache that is not invalidated, an order that is not kept), kept next to the definition
it changes; with it TLC finds the property violated in the same instance. A property with several
parts has one mutant, of one of its parts.

What keeps the instances small, and why nothing is lost: `RefreshSessions` and `JobScheduling` use
symmetry over tokens, requests or clerks; neither checks a liveness property, and no constant
distinguishes the permuted values. In the two large runs a request takes the first idle slot
(slots are alike while idle), tokens are issued in order, and the view `Seen` leaves
out the parts that rest, whose state follows from the focus. These two runs switch the
deadlock check off: requests that are made once, hours and edits that are counted, and a calendar
that turns a page or two come to an end. In all other runs deadlock is checked and there is none.

## 5. Fairness

- `Liveness`, sessions: weak fairness of `Cleanup`, which notification-service calls every
  day, and of each request's handler, which the event loop resumes once its await is
  answered. Nothing is assumed of clients: no login or refresh has to come. The part `RequestsEnd` of
  `SessionsSettle` excepts an instance that has used its tokens up; real tokens are random and do not run out.
- `Liveness`, erasure: weak fairness of `BeginPass`, because the scheduler starts a pass
  every hour, and strong fairness of the erasure of each user: a pass may be cut off before it
  comes to a user, but not every pass for ever. Requests need not come nor end.
- `Liveness`, access tokens: weak fairness of the clock and of the cleanup.
- `ReminderScheduler`: weak fairness of the steps of each loop and of `LockExpire`, because
  Redis drops a key when its time is up. Acquisition has strong fairness: it is not
  continuously possible, since another replica may hold the key, but a replica polls
  for ever, and Redis does not lose the answer to every successful `SET NX` for ever.
  `CyclesGoOn` excepts an instance whose rows are used up, which bounds the model and not the table.
- The other modules have no liveness property: their requests wait for nothing but answers.

## 6. The proofs

Each `*Proofs` module proves, for every value of the constants (any number of requests,
tokens, replicas, jobs, accounts, rows, any lifetimes, windows and clock resolution), invariants that the
runs check on small instances; `Repetition` proves the lemmas about loops that `CalendarProofs` uses. The only assumptions are those named in the modules
(`SessionConstants`, `AccessConstants`, `AccountConstants`, `SchedulerConstants` and `RowConstant`,
`WindowConstants`, `DeliveriesAssumption`, `EditsConstant`, `SchedulingConstants`, `ErasureConstants`,
`TeamConstants`, `AdminConstants`, `CustomerConstants`, `BrowserConstants` and `CookieConstants`,
`ListConstants`, `CalendarConstants` and `AgendaConstants`), which say what kind of values the constants
are: that NULL is no value, that a set is not empty, that a page has at least one row, that a job which
has both times ends after it starts (a CHECK of its table), that there are finitely many jobs. `StaffDirectory` needs none. Each proof has the same
shape: `Init => Inv`, `Inv /\ [Next]_vars => Inv'` with a step for each action, and the theorem from the
invariant by temporal logic. Each strengthened invariant was checked by TLC before it was proved.

| Module | Theorems | What the invariant adds, and why |
|---|---|---|
| `AuthenticationProofs`: `AccessTokens` | `TypeCorrect`, `LogoutIsDurable`, `LogoutCannotBeUndone`, `RevocationHasCause` | A request verifies an issued token, a logout blacklists a presented one, and every key and row comes from a logout. |
| ... `AccountAccess` | `AccessTypeCorrect`, `AccessIsDeserved`, `TenantsStayApart`, `ProofsAreOwn`, `ShadowsAreTraced` | How far a copy may be trusted: the claims have the role and the address of the account as it is, or of one edited since (`ClaimsKnown`), and a tenant the account has had (`TenantKnown`); what a request has passed (`RequestSound`); no two accounts have one address. |
| `ReminderSchedulerProofs` | `TypeCorrect`, `ExclusionHolds`, `DuplicatesHaveCause`, `SentMailsDelivered`, `NothingRetryable` | Until an overrun whoever works owns the lock, so nobody writes rows between the dedup query and the send; each delivery is recorded, or about to be. |
| `JobSchedulingProofs` | `TypeCorrect`, `DoubleBookingHasCause`, `StaleHasCause` | A check that is still sound found no conflict in the list as it is now, and the job has the checked slot when its employee is inserted (`SoundChecks`); a slot lies on one day at most (`OnlyItsDay`). |
| `CalendarProofs` | `CalendarsAreFaithful`, `JobsAreDrawnOncePerDay`, `BarsKeepApart`, `BlocksAreInPlace`, `GridsAreWhole`, `FormsAreInOrder`, `QueryMissesNothing`, `BarsCoverEachDayOnce`, `WeekBarIsExact` | A month page has the cells of its number (`CalendarInv`). The rest is arithmetic: a year has 365 days or 366 in spite of the terms with 4, 100 and 400 (`YearsFollow`), months follow each other without a gap (`MonthsFollow`), so a day lies in one month only (`MonthOfDay`) and the 42 cells are days in a row (`CellsInARow`); the days of a job in a range are in a row too (`DaysInARow`). The layout follows below the table. The last three are about the operators and hold for any range, month or week. |
| `UserServicesProofs`: `AccountErasure` | `ErasureTypeCorrect`, `ErasedMeansErased`, `GraceHolds` | The due time in a row is the last wish plus the grace (`WishMatches`), a user on the list of the pass deserved it when it was read (`PassDeserved`), and an object loaded is the row unless somebody wrote since (`LoadedIsCurrent`). |
| ... `TeamOnboarding` | `TeamTypeCorrect`, `InvitationsAreKept`, `LoneAccountsAreExplained`, `OnboardingIsKept`, `ChoicesAreKept` | What a request between two calls relies on: its account and the rows it has seen are still there, and an invitation gets to the employee behind the seeding only (`CallsSound`). |
| ... `StaffDirectory` | `DirectoryTypeCorrect`, `OldViewsHaveCause` | Each of the thirteen writes deletes, or spares for a reason, every view of what it changes (`WritesCover`, by going through the tables); a copy and a reader have only facts of their own view; a writer that is to delete has something left. |
| ... `OrganizationAdmin` | `AdminTypeCorrect`, `AdminRowsAreKept`, `MissingEntriesHaveCause` | A request that has seen a row knows an id that was in the table (`SeenRowsExist`), an id to be inserted is free and its own (`InsertsAreNew`), and a change without an entry is of an organization that is gone (`UnrecordedIsGone`). |
| ... `RefreshSessions` | `TypeCorrect`, `PredecessorIsClosed`, `RefusalIsFinal`, `ExchangeIsOnce`, `ImplementsLifecycle` | What a coroutine holds across an await: a token that has had a row and its user, and, between the commits of a rotation, that the old row is no longer active. The properties alone say nothing about requests in flight, so `RefreshStore` would not preserve them. |
| `CustomerServicesProofs`: `CustomerRecords` | `CustomerTypeCorrect`, `OldCopiesHaveCause`, `ErasedCustomersAreBlank`, `PinsAreAtAddresses` | A request holds the sequence of deletions it has still to make, empty unless it is at them (`ErrandsFit`); what an erasure has loaded is what it finds at its commit, unless somebody wrote since (`RowsAwait`). |
| ... `MessageDelivery` | `DeliveryTypeCorrect`, `LogIsTrusted`, `MessagesSentAsAgreed` | Nothing is at Twilio before the request comes to it (`Along`); a receipt on its way or loaded tells a past of the message (`ReceiptsAreTrue`), which makes the order of receipts harmless; the row of an attempt is the next thing written (`RowsAreNext`). |
| ... `ReminderWindows` | `WindowTypeCorrect`, `SchedulerIsInTime` | A finished round has dealt with each job that stood still in its window (`RoundIsComplete`), one under way has it in its list (`ListIsComplete`); copies of times are right unless the job moved (`CopiesAreRight`); a key does not outlast its task (`KeysAreHonest`). |
| ... `JobEdits` | `TypeCorrect`, `EveryValueRecorded`, `SuccessMeansApplied`, `ChangesAreRequested`, `RefusalsHaveCause` | What is set in memory and not flushed is asked for and already in the history (`PendingIsRecorded`); the session knows the row but for what others changed (`BaseIsCurrent`); the object is the job as read with the visited fields set (`LoopInvariant`). For refusals: the start is visited before the end (`OrderKept`), and every slot that was read is one (`SlotsAreValid`). |
| `BrowserProofs`: `BrowserSession` | `BrowserTypeCorrect`, `JarStaysConsistent`, `SessionsAreCarriedOn` | What is sent and what comes back is a pair of one person (`RequestFits`), new tokens are in one reply only and in no jar (`NewIsUnseen`), a token that a request has rotated is followed by the reply that carries its successor (`RenewalComes`), and after a logout only requests from before carry cookies (`OnlyTheCarried`). |
| ... `PagedLists` | `ListTypeCorrect`, `PagesAreTheList` | Where rows do not tie, the place of a row is the number of rows in front of it, in any result (`PlaceInOrder`). What was seen has fewer rows in front than were skipped (`SeenIsBehind`), what was not seen has as many (`UnseenIsAhead`): rows that come only add to them, rows that go only take away. |

Theorems about several modules stand in one `*Proofs` module where the components belong together.

The layout of the calendar is proved in four steps.

1. Loops. What is so after `n` turns is an invariant of the loop: `RowSound` for bars in lanes, `ColumnsSound`
   for blocks in columns, `GroupsSound` for groups. One turn keeps it (`PlaceBarIsSound`,
   `FillColumnIsSound`, `JoinGroupsIsSound`), and `UpTo` of `Repetition` carries it to the last. What makes
   the greedy choice optimal is in the invariant: elements come by their first column or row, so a new lane
   is opened only if each lane has a bar that reaches the column, and that column shows as many bars as there are
   lanes.
2. Arrangements. `InLanesIs` and `SideBySideIs` say what a row of bars and a column of blocks hold: each
   element once, none over another, no more room than the fullest place needs.
3. Pages. `MonthBarsAre`, `WeekBarIs` and `BlockIs` say where a job is drawn, and `ShownAre` which jobs are;
   so a page is `Readable` as it is made (`MonthIsReadable`, `WeekIsReadable`, `DayIsReadable`).
4. The screen. A step puts a page on the screen and the agenda stays, so `ScreenIsReadable` is an invariant,
   and with `GridHoldsMonth` and `FormIsInOrder` it is `CalendarIsFaithful`.

What the proofs showed about the models: the tiers of `MessageDelivery` (`SmtpTier`, `ChatTier`) had
overlapping `CASE` guards, of which TLC takes the first as the code does, while TLA+ leaves the
choice open; `SentAsAgreed` could not be proved until they were written as the `IF` and `ELSE IF` of the code.
`PagedLists` could look at the queue with places that are no priorities, which the column cannot hold.
`FormIsInOrder` of `CalendarGrid` could not be proved for a job that has an end and no start, which the
table allows and no slot of the instance was: `job_modal` then offers the hour of its end on the chosen
day with a start of 09:00, in the wrong order for an end by 09:00. `EndOffered` is now as the code has
it, the invariant names the case, and the instance has such a slot.

The lanes and columns of `CalendarGrid` were folds over `SortSeq(SetToSeq(S), Before)`. Where elements tie,
the operator leaves the order open, and nothing could be proved of a step; they are now repeated steps, each of
which takes a first element, and the page asks for finitely many jobs, which the constants had not said.

Induction over data was the difficulty: the induction theorems of the library take an operator as a
parameter, which these provers cannot instantiate. `Repetition` does without them: what holds at a turn is put as
the set of turns at which it holds, and a smallest turn outside of it (`LeastOf`) is the contradiction. The next
element of a sort exists because an order on a finite set has a first element (`FirstOfOrder`).

Only model-checked, and why: the liveness properties (`BlacklistPruned`, `SessionsSettle`, `DueIsErased`,
`CyclesGoOn`), which need fairness and `ENABLED`; and `AccountPartsTyped` and `CustomerPartsTyped`, which put the
type invariants of the parts together for a run: those of the modules are theorems. All other properties of the
passing runs are theorems.

## 7. Where code and documentation disagree

Each of these runs checks one property that the repository states, and TLC shows how the
code violates it. The quotations are in `PROJECT.json` (`findings`).

- `RefreshLogoutEverywhere`: a refresh that is under way during revoke-all inserts an
  active token after it: "logout everywhere" leaves a session.
- `ReminderExclusive`: a cycle longer than the lock works next to another replica's, and its
  end deletes that replica's lock.
- `ReminderLinks`: for WhatsApp the scheduler records as sent what was only turned into
  a link that nobody sees.
- `ReminderStarts`: the query of a window wants the whole job in it, so a job longer than 20 minutes is never
  reminded of an hour ahead, nor one longer than two hours a day ahead.
- `JobSlotRefused`: a job cannot be moved to a slot that starts when the old one ends or
  later, because the new start is committed with the old end.
- `JobDoubleBooking`: two assignments that are both checked book an employee twice.

Seen while modelling, and without a run because no order of steps is needed to see it:

- The route that gives an administrator the own session back after an impersonation
  (`frontend/app/routes/api_proxy.py`) is registered behind the route of all paths under `/auth` and
  is never reached; `Return` of `BrowserSession` is answered as the route table has it.
- The "recent jobs" of a customer are the first page of a list in ascending order, hence the
  earliest ones, and their count is the length of that page.
- Lists of users are ordered by the primary key last, for "stable pagination" as a comment of
  `crud/user.py` says; six other lists are not, which is the `Tied` of `PagedLists`.

## 8. What is not modelled

- maps-access-service, the pages of the frontend other than the calendar and the sessions, its proxy of
  data, nginx, the monitor, deployment: stateless, or nothing others depend on changes in them.
  Health checks, metrics, logging and configuration of `shared/common` likewise. The schema
  migrations run before the services; their constraints are in the models.
- Enrichment of jobs with names, and the geocoding of jobs, whose counterpart for customers is in
  `CustomerRecords`.
- In `ReminderWindows`, the limit of 500 jobs for a query and the channels of a reminder, which
  `ReminderScheduler` has; the commits of one edit, which `JobEdits` has, come as edits of their own.
- Passwords, JWT signatures, hashing, mail and message bodies: values that are valid or not.
- The isolation of PostgreSQL is READ COMMITTED with one statement or flush as a step;
  failures of the database itself are requests that end with an error. Redis is one
  store that may be down, late or forgetful; partitions of a Redis cluster are left out.
- Time to live of caches: an entry may expire at any time, but need not.
- In `JobEdits`, the columns that behave like `status` without its automatism, and
  job creation, which is one commit; in `JobScheduling`, PUT requests that change no slot, and
  removing an assignment (no service calls it).
- Reads that change nothing and are cached nowhere: exports of accounts, lists of the
  administration (but for their order, in `PagedLists`), previews of templates.
