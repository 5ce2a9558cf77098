---------------------------- MODULE CalendarGrid ----------------------------
(***************************************************************************)
(* The calendar pages of the frontend: which jobs a page shows and where   *)
(* it draws them.  A page asks job-bl-service for the jobs of the days it  *)
(* covers and lays them out: the month in 42 cells with bars for jobs of   *)
(* several days, the week with such bars above seven timed columns, the    *)
(* day as one timed column.  Bars get lanes, overlapping blocks columns.   *)
(*                                                                         *)
(* Days are numbered as Python's date.toordinal() does; a time counts the  *)
(* half hours since day 0.  Names, colours, texts and the rounded ends of  *)
(* bars are left out, and so is the cache of job-bl-service, for which see *)
(* JobScheduling.                                                          *)
(***************************************************************************)
EXTENDS Integers, SequencesExt

CONSTANTS
    Visits,        \* jobs
    VisitTimes,    \* what they may be scheduled for
    Filters,       \* the sets of jobs a filter, or a failed call, leaves
    ShownMonths,   \* bound: the months <<year, month>> that are looked at
    ShownDays,     \* bound: the days that are looked at, in weeks or alone
    DaySlots,      \* half hours of a day
    FirstSlot,     \* the first on the time grid, 06:00
    GridSlots,     \* len(HOUR_SLOTS)
    FormStart,     \* 09:00 and 17:00, what an empty form offers
    FormEnd,
    Never          \* NULL

ASSUME CalendarConstants ==
    /\ DaySlots \in Nat /\ FirstSlot \in Nat /\ GridSlots \in Nat \ {0}
    /\ FirstSlot + GridSlots <= DaySlots
    /\ FormStart \in Nat /\ FormEnd \in Nat /\ FormStart < FormEnd /\ FormEnd < DaySlots
    /\ ShownMonths \subseteq Int \X (1..12) /\ ShownDays \subseteq Int
    /\ IsFiniteSet(Visits) /\ Filters \subseteq SUBSET Visits

\* The CHECK constraint of `jobs` lets a job have one time, or none, or both in order.
ASSUME AgendaConstants ==
    /\ Never \notin Int
    /\ VisitTimes \subseteq [start : Nat \union {Never}, end : Nat \union {Never}, allDay : BOOLEAN]
    /\ \A t \in VisitTimes : t.start # Never /\ t.end # Never => t.start < t.end

VARIABLES
    agenda,    \* agenda[v]: [start, end, allDay] of job v
    page       \* the page, or the form, on the screen

calendarVars == <<agenda, page>>

NoPage == [view |-> "none", cells |-> << >>, month |-> << >>, kept |-> {},
           bars |-> {}, blocks |-> {}, singles |-> {}, lanes |-> << >>, form |-> << >>]

CalendarInit ==
    /\ agenda \in [Visits -> VisitTimes]
    /\ page = NoPage

-----------------------------------------------------------------------------
(* Dates, as Python's datetime and calendar have them *)

IsLeap(y) == y % 400 = 0 \/ (y % 4 = 0 /\ y % 100 # 0)

LongMonths == {1, 3, 5, 7, 8, 10, 12}

MonthLength(y, m) ==
    IF m = 2 THEN IF IsLeap(y) THEN 29 ELSE 28
    ELSE IF m \in LongMonths THEN 31 ELSE 30

\* date(y, m, 1).toordinal()
FirstOf(y, m) ==
    LET before == y - 1 IN
    365 * before + (before \div 4) - (before \div 100) + (before \div 400)
      + 30 * (m - 1) + Cardinality({k \in LongMonths : k < m})
      - (IF m <= 2 THEN 0 ELSE IF IsLeap(y) THEN 1 ELSE 2) + 1

\* Monday is 0.
Weekday(day) == (day + 6) % 7

\* The month of a day close to month <<y, m>>.
MonthOf(day, y) ==
    CHOOSE ym \in (y - 1 .. y + 1) \X (1..12) :
        /\ FirstOf(ym[1], ym[2]) <= day
        /\ day < FirstOf(ym[1], ym[2]) + MonthLength(ym[1], ym[2])

DayOf(time) == time \div DaySlots

-----------------------------------------------------------------------------
(* The jobs of a range of days *)

HasTime(v) == agenda[v].start # Never

LastTime(v) == IF agenda[v].end = Never THEN agenda[v].start ELSE agenda[v].end

\* Mutant of InRange: only jobs that begin or end in the range.
InRangeByEnds(v, first, last) ==
    LET s == agenda[v].start  e == agenda[v].end
        from == first * DaySlots  to == last * DaySlots + DaySlots - 1 IN
    \/ s >= from /\ s <= to
    \/ e # Never /\ e >= from /\ e <= to

\* get_jobs_for_calendar: three ways to meet the range, whose last day is
\* extended to its end.
InRange(v, first, last) ==
    LET s == agenda[v].start  e == agenda[v].end
        from == first * DaySlots  to == last * DaySlots + DaySlots - 1 IN
    \/ s >= from /\ s <= to
    \/ e # Never /\ e >= from /\ e <= to
    \/ e # Never /\ s <= from /\ e >= to

\* get_calendar_view of job-bl-service: the days of a job, within the range.
DaysWithin(v, first, last) ==
    {day \in first..last : DayOf(agenda[v].start) <= day /\ day <= DayOf(LastTime(v))}

\* fetch_calendar_events and _filter_api_jobs: each job once.
Fetched(kept, first, last) ==
    {v \in kept : /\ HasTime(v)
                  /\ InRange(v, first, last)
                  /\ DaysWithin(v, first, last) # {}}

IsMultiDay(v) == DayOf(LastTime(v)) > DayOf(agenda[v].start)

-----------------------------------------------------------------------------
(* Lanes for bars *)

\* The lanes whose last bar ends before this one begins.
FreeLanes(ends, bar) == {n \in DOMAIN ends : bar.col > ends[n]}

\* The sort: by column, the longer bar first.
BarBefore(a, b) == a.col < b.col \/ (a.col = b.col /\ a.span > b.span)

\* The next of the bars that are left; the sort keeps equal ones in any order.
NextBar(bars) == CHOOSE bar \in bars : \A other \in bars : ~BarBefore(other, bar)

\* Greedy: the bar goes in the first free lane, or in a new one.
PlaceBar(row) ==
    LET bar == NextBar(row.rest)
        free == FreeLanes(row.ends, bar)
        lane == IF free = {} THEN Len(row.ends) + 1
                ELSE CHOOSE n \in free : \A k \in free : n <= k
        last == bar.col + bar.span - 1
    IN  [rest |-> row.rest \ {bar},
         ends |-> IF free = {} THEN Append(row.ends, last)
                  ELSE [row.ends EXCEPT ![lane] = last],
         bars |-> row.bars \union {[bar EXCEPT !.lane = lane]}]

Placing == INSTANCE Repetition WITH Step <- PlaceBar

InLanes(bars) ==
    Placing!Repeated([rest |-> bars, ends |-> << >>, bars |-> {}], Cardinality(bars))

-----------------------------------------------------------------------------
(* The month *)

\* get_calendar_days: days of the month before, of the month, and of the one
\* after up to 42.
CellsOf(y, m) ==
    LET first == FirstOf(y, m)
        padding == Weekday(first)
        own == MonthLength(y, m) IN
    [i \in 1..padding |-> first - padding + i - 1]
      \o [i \in 1..own |-> first + i - 1]
      \o [i \in 1..(42 - padding - own) |-> first + own + i - 1]

\* The bars of v, split where the weeks end.
MonthBars(v, first, last) ==
    LET days == DaysWithin(v, first, last)
        begin == CHOOSE day \in days : day - 1 \notin days
        end == CHOOSE day \in days : day + 1 \notin days
        Bar(w) ==
            LET monday == first + 7 * w
                from == IF begin < monday THEN monday ELSE begin
                to == IF end > monday + 6 THEN monday + 6 ELSE end
            IN  [visit |-> v, row |-> w, col |-> from - monday, span |-> to - from + 1,
                 lane |-> 0]
    IN  {Bar(w) : w \in {u \in 0..5 : \E day \in days : (day - first) \div 7 = u}}

\* _month_context, _inject_events, _expand_events_into_days and
\* _build_calendar_weeks
MonthPage(y, m, kept) ==
    LET cells == CellsOf(y, m)
        first == Head(cells)  last == cells[Len(cells)]
        shown == Fetched(kept, first, last)
        bars == UNION {MonthBars(v, first, last) : v \in {u \in shown : IsMultiDay(u)}}
        rows == [w \in 0..5 |-> InLanes({bar \in bars : bar.row = w})]
    IN  [NoPage EXCEPT
            !.view = "month", !.month = <<y, m>>, !.kept = kept,
            !.cells = cells,
            !.singles = {<<v, DayOf(agenda[v].start)>> :
                            v \in {u \in shown : ~IsMultiDay(u)}},
            !.bars = UNION {rows[w].bars : w \in 0..5},
            !.lanes = [w \in 0..5 |-> Len(rows[w].ends)]]

\* A day back from the first, and 32 days on from it.
MonthBefore(y, m) == MonthOf(FirstOf(y, m) - 1, y)
MonthAfter(y, m) == MonthOf(FirstOf(y, m) + 32, y)

-----------------------------------------------------------------------------
(* Blocks on the time grid *)

\* _time_to_slot_index: clamped to the grid.
SlotIndex(time) ==
    LET slot == (time % DaySlots) - FirstSlot IN
    IF slot < 0 THEN 0 ELSE IF slot >= GridSlots THEN GridSlots - 1 ELSE slot

\* Where a job is drawn: its end is the end of the grid if it has none, and
\* also if the index of the end is 0, which Python's "or" takes for nothing.
BlockOf(v, day) ==
    LET top == SlotIndex(agenda[v].start)
        end == IF agenda[v].end = Never \/ SlotIndex(agenda[v].end) = 0
               THEN GridSlots ELSE SlotIndex(agenda[v].end)
    IN  [visit |-> v, day |-> day, top |-> top,
         height |-> IF end - top < 1 THEN 1 ELSE end - top, col |-> 0, total |-> 0]

Overlap(a, b) == a.top < b.top + b.height /\ b.top < a.top + a.height

BlockBefore(a, b) == a.top < b.top \/ (a.top = b.top /\ a.height > b.height)

NextBlock(blocks) == CHOOSE block \in blocks : \A other \in blocks : ~BlockBefore(other, block)

\* Connected groups: a block joins, and so unites, all it overlaps with.
JoinGroups(column) ==
    LET block == NextBlock(column.rest)
        met == {g \in column.groups : \E other \in g : Overlap(block, other)}
    IN  [rest |-> column.rest \ {block},
         groups |-> (column.groups \ met) \union {(UNION met) \union {block}}]

Joining == INSTANCE Repetition WITH Step <- JoinGroups

OverlapGroups(blocks) ==
    Joining!Repeated([rest |-> blocks, groups |-> {}], Cardinality(blocks)).groups

FreeColumn(column, block) == \A other \in column : ~Overlap(block, other)

\* The block goes in the first column that is free, or in a new one.
FillColumn(group) ==
    LET block == NextBlock(group.rest)
        free == {n \in DOMAIN group.columns : FreeColumn(group.columns[n], block)}
        n == CHOOSE k \in free : \A l \in free : k <= l
    IN  [rest |-> group.rest \ {block},
         columns |-> IF free = {} THEN Append(group.columns, {block})
                     ELSE [group.columns EXCEPT ![n] = @ \union {block}]]

Filling == INSTANCE Repetition WITH Step <- FillColumn

\* _compute_overlap_columns for one group.
InColumns(group) ==
    LET columns == Filling!Repeated([rest |-> group, columns |-> << >>],
                                    Cardinality(group)).columns
    IN  UNION {{[block EXCEPT !.col = n, !.total = Len(columns)] : block \in columns[n]} :
                  n \in DOMAIN columns}

SideBySide(blocks) == UNION {InColumns(group) : group \in OverlapGroups(blocks)}

-----------------------------------------------------------------------------
(* The week and the day *)

\* _build_week_allday_spans: one bar for a job of several days or all day.
WeekBar(v, monday) ==
    LET days == DaysWithin(v, monday, monday + 6)
        begin == CHOOSE day \in days : day - 1 \notin days
    IN  [visit |-> v, row |-> 0, col |-> begin - monday, span |-> Cardinality(days),
         lane |-> 0]

InAllDayRow(v) == IsMultiDay(v) \/ agenda[v].allDay

\* calendar_week
WeekPage(monday, kept) ==
    LET shown == Fetched(kept, monday, monday + 6)
        row == InLanes({WeekBar(v, monday) : v \in {u \in shown : InAllDayRow(u)}})
        timed == {v \in shown : ~InAllDayRow(v)}
        Column(day) == {BlockOf(v, day) : v \in {u \in timed : DayOf(agenda[u].start) = day}}
    IN  [NoPage EXCEPT
            !.view = "week", !.kept = kept,
            !.cells = [i \in 1..7 |-> monday + i - 1],
            !.bars = row.bars, !.lanes = [w \in {0} |-> Len(row.ends)],
            !.blocks = UNION {SideBySide(Column(day)) : day \in monday..(monday + 6)}]

\* day_timeline_view: every job of the day, by its times whatever their day.
DayPage(day, kept) ==
    [NoPage EXCEPT
        !.view = "day", !.kept = kept, !.cells = <<day>>,
        !.blocks = SideBySide({BlockOf(v, day) : v \in Fetched(kept, day, day)})]

-----------------------------------------------------------------------------
(* The forms for a job *)

\* Without an end: 17:00 of the day it starts.  Without a start, the form takes
\* over the hour of the end, and the day chosen.
EndOffered(v, start) ==
    IF agenda[v].end # Never /\ HasTime(v) THEN agenda[v].end
    ELSE DayOf(start) * DaySlots
           + (IF agenda[v].end # Never THEN agenda[v].end % DaySlots ELSE FormEnd)

\* job_modal: the times of the job, or those of a new one on the day chosen.
JobForm(v, day) ==
    LET start == IF HasTime(v) THEN agenda[v].start ELSE day * DaySlots + FormStart
    IN  [NoPage EXCEPT !.view = "form",
            !.form = [visit |-> v, start |-> start, end |-> EndOffered(v, start)]]

\* quick_schedule_modal: the hours of the job, on the day it was dropped on.
QuickForm(v, day) ==
    LET start == IF HasTime(v) THEN agenda[v].start % DaySlots ELSE FormStart
        end == IF agenda[v].end # Never THEN agenda[v].end % DaySlots ELSE FormEnd
    IN  [NoPage EXCEPT !.view = "form",
            !.form = [visit |-> v, start |-> day * DaySlots + start,
                      end |-> day * DaySlots + end]]

-----------------------------------------------------------------------------
(* The pages a user may ask for *)

\* calendar_page, calendar_container, calendar_grid, calendar_by_month
ShowMonth ==
    \E ym \in ShownMonths, kept \in Filters :
        page' = MonthPage(ym[1], ym[2], kept)

\* calendar_prev and calendar_next, and the page they redirect to
TurnMonth ==
    /\ page.view = "month"
    /\ \E ym \in {MonthBefore(page.month[1], page.month[2]),
                  MonthAfter(page.month[1], page.month[2])} \intersect ShownMonths :
          \E kept \in Filters : page' = MonthPage(ym[1], ym[2], kept)

ShowWeek ==
    \E day \in ShownDays, kept \in Filters :
        page' = WeekPage(day - Weekday(day), kept)

ShowDay ==
    \E day \in ShownDays, kept \in Filters : page' = DayPage(day, kept)

OpenForm ==
    \E v \in Visits, day \in ShownDays : page' \in {JobForm(v, day), QuickForm(v, day)}

CalendarNext ==
    /\ \/ ShowMonth
       \/ TurnMonth
       \/ ShowWeek
       \/ ShowDay
       \/ OpenForm
    /\ UNCHANGED agenda

CalendarSpec == CalendarInit /\ [][CalendarNext]_calendarVars

-----------------------------------------------------------------------------
(* Properties *)

PageDays == ToSet(page.cells)

BarDays(bar) ==
    {Head(page.cells) + 7 * bar.row + col : col \in bar.col..(bar.col + bar.span - 1)}

\* How often the page draws job v on a day.
TimesDrawn(v, day) ==
    Cardinality({bar \in page.bars : bar.visit = v /\ day \in BarDays(bar)})
      + Cardinality({block \in page.blocks : block.visit = v /\ block.day = day})
      + Cardinality({single \in page.singles : single = <<v, day>>})

\* From the query of job-db-access-service through the days that job-bl lists
\* to the bars that are split at the weeks: a job that passes the filter is
\* drawn once on every day of the page on which it takes place, and nowhere
\* else.
DrawnOncePerDay ==
    page.view # "form" =>
        \A v \in Visits : \A day \in PageDays :
            TimesDrawn(v, day) =
                IF /\ v \in page.kept /\ HasTime(v)
                   /\ DayOf(agenda[v].start) <= day /\ day <= DayOf(LastTime(v))
                THEN 1 ELSE 0

\* Bars in one lane never meet, and the greedy choice wastes no room: a row
\* has only as many lanes as some day has bars.
LanesApart ==
    /\ \A a, b \in page.bars :
          a # b /\ a.row = b.row /\ a.lane = b.lane => BarDays(a) \intersect BarDays(b) = {}
    /\ \A w \in DOMAIN page.lanes :
          page.lanes[w] > 0 =>
              \E day \in PageDays :
                  page.lanes[w] = Cardinality({bar \in page.bars :
                                      bar.row = w /\ day \in BarDays(bar)})

\* No block hides another: blocks that share a row share the width of the
\* column, in different parts of it, and as wide as the fullest row allows.
BlocksApart ==
    \A a \in page.blocks :
        /\ a.col \in 1..a.total
        /\ \A b \in page.blocks :
              a # b /\ a.day = b.day /\ Overlap(a, b) => a.total = b.total /\ a.col # b.col
        /\ \E row \in 0..(GridSlots - 1) :
              \E here \in SUBSET page.blocks :
                  /\ Cardinality(here) = a.total
                  /\ \A b \in here : /\ b.day = a.day /\ b.total = a.total
                                     /\ b.top <= row /\ row < b.top + b.height

\* A block stays on the grid and covers the half hours of its job, up to the
\* last row, and no other row: but for a job with no end or one that ends in
\* the first half hour, which fills the rest of the day, and a job of several
\* days, which the day page draws by times of other days.
BlockIsAtItsTime ==
    \A block \in page.blocks :
        LET v == block.visit
            start == (agenda[v].start % DaySlots) - FirstSlot
            end == (LastTime(v) % DaySlots) - FirstSlot
            rows == block.top..(block.top + block.height - 1)
        IN  /\ rows \subseteq 0..(GridSlots - 1)
            /\ ~IsMultiDay(v) /\ agenda[v].end # Never /\ end > 0 =>
                  /\ {r \in 0..(GridSlots - 2) : start <= r /\ r < end} \subseteq rows
                  /\ \A r \in rows : (start <= r /\ r < end) \/ block.height = 1

\* The grid of a month is six whole weeks, from a Monday, with all its days,
\* and the arrows lead to the months around it and back.
GridHoldsMonth ==
    page.view = "month" =>
        LET y == page.month[1]  m == page.month[2]
            before == MonthBefore(y, m)  after == MonthAfter(y, m) IN
        /\ Len(page.cells) = 42 /\ Weekday(page.cells[1]) = 0
        /\ \A i \in 1..41 : page.cells[i + 1] = page.cells[i] + 1
        /\ FirstOf(y, m)..(FirstOf(y, m) + MonthLength(y, m) - 1) \subseteq PageDays
        /\ MonthAfter(before[1], before[2]) = <<y, m>>
        /\ MonthBefore(after[1], after[2]) = <<y, m>>

\* What a form offers can be sent: its end is after its start, although the
\* one may be the job's and the other a default, but for a job without an end
\* that starts at 17:00 or later, one without a start that ends by 09:00, and
\* one across midnight that is dropped on a single day.
FormIsInOrder ==
    page.view = "form" =>
        LET v == page.form.visit IN
        \/ page.form.start < page.form.end
        \/ HasTime(v) /\ agenda[v].end = Never /\ agenda[v].start % DaySlots >= FormEnd
        \/ ~HasTime(v) /\ agenda[v].end # Never /\ agenda[v].end % DaySlots <= FormStart
        \/ HasTime(v) /\ IsMultiDay(v)

\* Together: a page has all of its days, and each job once on each of its days.
PageIsComplete == GridHoldsMonth /\ DrawnOncePerDay

\* Together: bars and blocks are where they belong and hide one another
\* nowhere, and what a form offers can be sent.
LayoutIsReadable == LanesApart /\ BlocksApart /\ BlockIsAtItsTime /\ FormIsInOrder

\* Together: a page shows what the agenda holds, once a day, in its place.
CalendarIsFaithful == PageIsComplete /\ LayoutIsReadable
=============================================================================
