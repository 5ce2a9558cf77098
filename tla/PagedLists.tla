------------------------------ MODULE PagedLists ------------------------------
(***************************************************************************)
(* The lists of the database services, which clients read page by page     *)
(* (static/js/employees.js, customers.js, settings.js) or of which they    *)
(* take the first page for the whole (the queue, the recent jobs of a      *)
(* customer).  A page is asked for by a number of rows to skip; the service*)
(* counts the rows and then selects some, in two statements, while other   *)
(* requests add rows, take them out and change what they are ordered by.   *)
(***************************************************************************)
EXTENDS Integers, FiniteSets, Sequences

CONSTANTS
    Ids,        \* primary keys
    SortValues,     \* values of the column a list is ordered by; 0 is NULL
    PageSize    \* limit, or per_page

ASSUME ListConstants ==
    /\ Ids \subseteq Nat /\ IsFiniteSet(Ids) /\ Ids # {}
    /\ SortValues \subseteq Nat /\ PageSize \in Nat \ {0}

VARIABLES
    list,       \* the list that is looked at
    rows,       \* rows[i]: its place, and whether it passes the filter of the list
    walk,       \* the reader: the page asked for, the count, what has come
    steady,     \* history: rows listed and unchanged since the reader began
    upset       \* history: what was done to the list since

listVars == <<list, rows, walk, steady, upset>>

-----------------------------------------------------------------------------
(* The ORDER BY of each list.  `newest` is descending; `byId` says that the *)
(* primary key comes last; `edited` that the column may change, otherwise   *)
(* it is a time of creation; `leaves` and `returns` that rows may stop to   *)
(* pass the filter (or be deleted), and pass it again.                      *)

GetUsers ==
    [newest |-> TRUE, byId |-> TRUE, edited |-> FALSE, leaves |-> TRUE, returns |-> TRUE]

GetEmployeesByOwner ==
    [newest |-> FALSE, byId |-> TRUE, edited |-> TRUE, leaves |-> TRUE, returns |-> FALSE]

\* Mutant of GetCustomers: the name alone, and namesakes come as they like.
GetCustomersByName ==
    [newest |-> FALSE, byId |-> FALSE, edited |-> TRUE, leaves |-> TRUE, returns |-> TRUE]

GetCustomers ==
    [newest |-> FALSE, byId |-> TRUE, edited |-> TRUE, leaves |-> TRUE, returns |-> TRUE]

GetCustomerNotes ==
    [newest |-> TRUE, byId |-> FALSE, edited |-> FALSE, leaves |-> TRUE, returns |-> FALSE]

\* start_time, jobs without one first.
GetJobs ==
    [newest |-> FALSE, byId |-> FALSE, edited |-> TRUE, leaves |-> TRUE, returns |-> TRUE]

\* The rank of the priority; among equals the oldest, which the ids stand for.
GetUnscheduledJobs ==
    [newest |-> TRUE, byId |-> TRUE, edited |-> TRUE, leaves |-> TRUE, returns |-> TRUE]

GetJobHistory ==
    [newest |-> TRUE, byId |-> FALSE, edited |-> FALSE, leaves |-> FALSE, returns |-> FALSE]

GetOrganizations ==
    [newest |-> TRUE, byId |-> FALSE, edited |-> FALSE, leaves |-> TRUE, returns |-> TRUE]

GetAuditLogs ==
    [newest |-> TRUE, byId |-> FALSE, edited |-> FALSE, leaves |-> TRUE, returns |-> FALSE]

GetNotificationLog ==
    [newest |-> TRUE, byId |-> FALSE, edited |-> FALSE, leaves |-> TRUE, returns |-> FALSE]

OrderOf ==
    [users |-> GetUsers, employees |-> GetEmployeesByOwner, customers |-> GetCustomers,
     notes |-> GetCustomerNotes, jobs |-> GetJobs, recent |-> GetJobs,
     queue |-> GetUnscheduledJobs, history |-> GetJobHistory,
     organizations |-> GetOrganizations, audit |-> GetAuditLogs,
     messages |-> GetNotificationLog]

\* The lists of which only the first page is ever read.
FirstPageOnly == {"recent", "queue"}

\* JobPriority, in the order of its members; the table holds the names.
Priorities == <<"low", "normal", "high", "urgent">>

\* The CASE that the queue is ordered by; p is the place of a name above.
PriorityRank(p) == [urgent |-> 4, high |-> 3, normal |-> 2, low |-> 1][Priorities[p]]

RankOf(i) == IF list = "queue" THEN PriorityRank(rows[i].place) ELSE rows[i].place

Listed == {i \in Ids : rows[i].at = "listed"}

Precedes(i, j) ==
    \/ IF OrderOf[list].newest THEN RankOf(i) > RankOf(j) ELSE RankOf(i) < RankOf(j)
    \/ RankOf(i) = RankOf(j) /\ OrderOf[list].byId /\ i < j

\* The results the database may give; rows that tie come in any order, and in
\* another one the next time.
Arrangements ==
    LET n == Cardinality(Listed) IN
    {s \in [1..n -> Listed] :
        \A p, q \in 1..n : p < q => s[p] # s[q] /\ ~Precedes(s[q], s[p])}

-----------------------------------------------------------------------------
(* The reader *)

NoWalk == [at |-> "rest", page |-> 0, total |-> 0, came |-> <<>>, times |-> [i \in Ids |-> 0]]

ListTypeOK ==
    /\ list \in DOMAIN OrderOf
    /\ rows \in [Ids -> [at : {"none", "listed", "out"}, place : SortValues]]
    /\ walk.at \in {"rest", "asked", "counted", "end"}
    /\ walk.page \in 0..Cardinality(Ids)
    /\ walk.total \in 0..Cardinality(Ids)
    /\ \A k \in DOMAIN walk.came : k <= PageSize /\ walk.came[k] \in Ids
    /\ walk.times \in [Ids -> 0..Cardinality(Ids)]
    /\ steady \subseteq Ids
    /\ upset \subseteq {"entered", "left", "moved", "torn"}

\* The queue is looked at only where the places are priorities.
ListInit ==
    /\ list \in DOMAIN OrderOf
    /\ list = "queue" => SortValues \subseteq DOMAIN Priorities
    /\ rows \in [Ids -> [at : {"none", "listed"}, place : SortValues]]
    /\ \A i \in Ids : rows[i].at = "none" => \A p \in SortValues : rows[i].place <= p
    /\ walk = NoWalk
    /\ steady = {} /\ upset = {}

BeginReading ==
    /\ walk.at = "rest"
    /\ walk' = [walk EXCEPT !.at = "asked", !.page = 1]
    /\ steady' = Listed
    /\ UNCHANGED <<list, rows, upset>>

CountRows == Cardinality(Listed)

\* The SELECT count(*).
Count ==
    /\ walk.at = "asked"
    /\ walk' = [walk EXCEPT !.at = "counted", !.total = CountRows]
    /\ upset' = upset \ {"torn"}
    /\ UNCHANGED <<list, rows, steady>>

Skipped(page) == (page - 1) * PageSize

PagesOf(total) == (total + PageSize - 1) \div PageSize

\* The SELECT with OFFSET and LIMIT.  The client goes on to the next page if
\* there is one by the count.
ReadPage ==
    /\ walk.at = "counted"
    /\ \E s \in Arrangements :
          LET upTo == Skipped(walk.page) + PageSize
              page == SubSeq(s, Skipped(walk.page) + 1, IF upTo < Len(s) THEN upTo ELSE Len(s))
              more == walk.page < PagesOf(walk.total) /\ list \notin FirstPageOnly
          IN  walk' = [walk EXCEPT
                          !.came = page,
                          !.times = [i \in Ids |-> @[i] + Cardinality({k \in DOMAIN page : page[k] = i})],
                          !.at = IF more THEN "asked" ELSE "end",
                          !.page = IF more THEN @ + 1 ELSE @]
    /\ UNCHANGED <<list, rows, steady, upset>>

-----------------------------------------------------------------------------
(* The requests of others *)

Reading == walk.at \in {"asked", "counted"}

Upset(what) ==
    upset' = IF Reading THEN upset \union {what} \union {"torn" : x \in {walk.at} \ {"asked"}}
             ELSE upset

\* A new row: now is not before any other creation.
Insert(i) ==
    /\ Reading /\ rows[i].at = "none"
    /\ \E p \in SortValues :
          /\ OrderOf[list].edited \/ \A j \in Ids : rows[j].at = "none" \/ rows[j].place <= p
          /\ rows' = [rows EXCEPT ![i] = [at |-> "listed", place |-> p]]
    /\ Upset("entered")
    /\ UNCHANGED <<list, walk, steady>>

\* A deletion, a deactivation, a job that gets another status or a start.
Leave(i) ==
    /\ Reading /\ OrderOf[list].leaves /\ rows[i].at = "listed"
    /\ rows' = [rows EXCEPT ![i].at = "out"]
    /\ steady' = steady \ {i}
    /\ Upset("left")
    /\ UNCHANGED <<list, walk>>

ComeBack(i) ==
    /\ Reading /\ OrderOf[list].returns /\ rows[i].at = "out"
    /\ rows' = [rows EXCEPT ![i].at = "listed"]
    /\ Upset("entered")
    /\ UNCHANGED <<list, walk, steady>>

\* A new name, start or priority.
Move(i) ==
    /\ Reading /\ OrderOf[list].edited /\ rows[i].at = "listed"
    /\ \E p \in SortValues \ {rows[i].place} : rows' = [rows EXCEPT ![i].place = p]
    /\ steady' = steady \ {i}
    /\ Upset("moved")
    /\ UNCHANGED <<list, walk>>

ListNext ==
    \/ BeginReading \/ Count \/ ReadPage
    \/ \E i \in Ids : Insert(i) \/ Leave(i) \/ ComeBack(i) \/ Move(i)

ListSpec == ListInit /\ [][ListNext]_listVars

-----------------------------------------------------------------------------
(* Properties *)

\* The lists without a last word on the order, and with two equal rows.
Tied ==
    /\ list \in {"notes", "jobs", "history", "organizations", "audit", "messages"}
    /\ \E i, j \in Ids : /\ i # j /\ rows[i].place = rows[j].place
                          /\ rows[i].at # "none" /\ rows[j].at # "none"

AtEnd == walk.at = "end" /\ list \notin FirstPageOnly

\* Who reads all the pages sees every row that was in the list all the time,
\* unless one left or moved meanwhile, rows came between a count and its page,
\* or the list has rows that tie.
MissedHasCause ==
    AtEnd /\ (\E i \in steady : walk.times[i] = 0) =>
        Tied \/ {"left", "moved", "torn"} \intersect upset # {}

\* No row is seen twice, unless one came into the list or moved meanwhile, or
\* the list has rows that tie.
RepeatedHasCause ==
    AtEnd /\ (\E i \in Ids : walk.times[i] > 1) =>
        Tied \/ {"entered", "moved"} \intersect upset # {}

\* The count a page comes with is the one of the list it was cut from: the
\* number of rows on each page agrees with it.
CountFitsPage ==
    walk.at = "end" /\ "torn" \notin upset =>
        Len(walk.came) = Cardinality({n \in 1..PageSize : Skipped(walk.page) + n <= walk.total})

\* What stands behind the first page of the queue is not more urgent.
UrgentComesFirst ==
    list = "queue" /\ walk.at = "end" /\ upset = {} =>
        \A k \in DOMAIN walk.came, i \in Listed :
            rows[i].place > rows[walk.came[k]].place => walk.times[i] > 0

\* Together: the pages of a list, put one after the other, are the list, but
\* for the named causes.
PagesMakeTheList ==
    MissedHasCause /\ RepeatedHasCause /\ CountFitsPage /\ UrgentComesFirst
=============================================================================
