---------------------------- MODULE CalendarProofs ----------------------------
(***************************************************************************)
(* Proofs about CalendarGrid, for all years and months, any finite set of  *)
(* jobs with any times that the table allows, any filter and any time grid *)
(* on the page: CalendarIsFaithful is an invariant.                        *)
(*                                                                         *)
(* The dates come first: the cells of a month are six whole weeks and the  *)
(* arrows lead back.  Then the folds: bars into lanes and blocks into      *)
(* groups and columns, each by an invariant of what has been placed so     *)
(* far, which Repetition carries to the end.  Then the pages, each shown   *)
(* to be Readable where it is made; the step that draws it only puts it on *)
(* the screen.                                                             *)
(***************************************************************************)
EXTENDS CalendarGrid, FiniteSetTheorems, SequenceTheorems, TLAPS

-----------------------------------------------------------------------------
(* CalendarGrid: the numbers of the days *)

\* How many of the months before m have 31 days.
LongBefore(m) == Cardinality({k \in LongMonths : k < m})

\* A long month adds one to the count.
LEMMA AddMonth ==
    ASSUME NEW m \in 1..11
    PROVE  /\ LongBefore(m) \in Nat
           /\ LongBefore(m + 1) = LongBefore(m) + (IF m \in LongMonths THEN 1 ELSE 0)
<1> DEFINE S == {k \in LongMonths : k < m}
           T == {k \in LongMonths : k < m + 1}
<1>1. IsFiniteSet(S) /\ Cardinality(S) \in Nat
    <2>1. IsFiniteSet(1..12)
        <3>1. \A c \in Nat : IsFiniteSet(1..c)
            BY FS_Interval
        <3>2. QED
            BY <3>1
    <2>2. S \in SUBSET (1..12)
        BY DEF LongMonths
    <2>3. QED
        BY <2>1, <2>2, FS_Subset, FS_CardinalityType
<1>2. CASE m \in LongMonths
    <2>1. T = S \union {m} /\ m \notin S
        BY <1>2 DEF LongMonths
    <2>2. QED
        BY <1>1, <1>2, <2>1, FS_AddElement DEF LongBefore
<1>3. CASE m \notin LongMonths
    <2>1. T = S
        BY <1>3 DEF LongMonths
    <2>2. QED
        BY <1>1, <1>3, <2>1 DEF LongBefore
<1>4. QED
    BY <1>2, <1>3

\* The count for each month.
LEMMA LongMonthsBefore ==
    /\ LongBefore(1) = 0 /\ LongBefore(2) = 1 /\ LongBefore(3) = 1 /\ LongBefore(4) = 2
    /\ LongBefore(5) = 2 /\ LongBefore(6) = 3 /\ LongBefore(7) = 3 /\ LongBefore(8) = 4
    /\ LongBefore(9) = 5 /\ LongBefore(10) = 5 /\ LongBefore(11) = 6 /\ LongBefore(12) = 6
<1>1. LongBefore(1) = 0
    <2>1. {k \in LongMonths : k < 1} = {}
        BY DEF LongMonths
    <2>2. QED
        BY <2>1, FS_EmptySet DEF LongBefore
<1>2. LongBefore(1 + 1) = 1 /\ LongBefore(2 + 1) = 1 /\ LongBefore(3 + 1) = 2
    <2>1. LongBefore(1 + 1) = 0 + 1
        BY <1>1, AddMonth DEF LongMonths
    <2>2. LongBefore(2 + 1) = 1
        BY <2>1, AddMonth DEF LongMonths
    <2>3. LongBefore(3 + 1) = 1 + 1
        BY <2>2, AddMonth DEF LongMonths
    <2>4. QED
        BY <2>1, <2>2, <2>3
<1>3. LongBefore(4 + 1) = 2 /\ LongBefore(5 + 1) = 3 /\ LongBefore(6 + 1) = 3
    <2>1. LongBefore(4 + 1) = 2
        BY <1>2, AddMonth DEF LongMonths
    <2>2. LongBefore(5 + 1) = 2 + 1
        BY <2>1, AddMonth DEF LongMonths
    <2>3. LongBefore(6 + 1) = 3
        BY <2>2, AddMonth DEF LongMonths
    <2>4. QED
        BY <2>1, <2>2, <2>3
<1>4. LongBefore(7 + 1) = 4 /\ LongBefore(8 + 1) = 5 /\ LongBefore(9 + 1) = 5
    <2>1. LongBefore(7 + 1) = 3 + 1
        BY <1>3, AddMonth DEF LongMonths
    <2>2. LongBefore(8 + 1) = 4 + 1
        BY <2>1, AddMonth DEF LongMonths
    <2>3. LongBefore(9 + 1) = 5
        BY <2>2, AddMonth DEF LongMonths
    <2>4. QED
        BY <2>1, <2>2, <2>3
<1>5. LongBefore(10 + 1) = 6 /\ LongBefore(11 + 1) = 6
    <2>1. LongBefore(10 + 1) = 5 + 1
        BY <1>4, AddMonth DEF LongMonths
    <2>2. LongBefore(11 + 1) = 6
        BY <2>1, AddMonth DEF LongMonths
    <2>3. QED
        BY <2>1, <2>2
<1>6. QED
    BY <1>1, <1>2, <1>3, <1>4, <1>5

\* The number of January 1.
NewYear(y) == 365 * (y - 1) + ((y - 1) \div 4) - ((y - 1) \div 100) + ((y - 1) \div 400) + 1

\* What a leap year adds.
LeapDays(y) == IF IsLeap(y) THEN 1 ELSE 0

\* A year has 365 days, or 366: every year, through the terms with 4, 100 and 400.
LEMMA YearsFollow ==
    ASSUME NEW y \in Int
    PROVE  NewYear(y) \in Int /\ NewYear(y + 1) = NewYear(y) + 365 + LeapDays(y)
<1>1. (y + 1) - 1 = y
    OBVIOUS
<1>2. 365 * y + (y \div 4) - (y \div 100) + (y \div 400) =
          365 * (y - 1) + ((y - 1) \div 4) - ((y - 1) \div 100) + ((y - 1) \div 400)
              + 365 + LeapDays(y)
    BY SMTT(60) DEF IsLeap, LeapDays
<1>3. QED
    BY <1>1, <1>2 DEF NewYear, LeapDays

\* The first days of the months of a year.
LEMMA MonthsOfYear ==
    ASSUME NEW y \in Int
    PROVE  /\ FirstOf(y, 1) = NewYear(y)
           /\ FirstOf(y, 2) = NewYear(y) + 31
           /\ FirstOf(y, 3) = NewYear(y) + 59 + LeapDays(y)
           /\ FirstOf(y, 4) = NewYear(y) + 90 + LeapDays(y)
           /\ FirstOf(y, 5) = NewYear(y) + 120 + LeapDays(y)
           /\ FirstOf(y, 6) = NewYear(y) + 151 + LeapDays(y)
           /\ FirstOf(y, 7) = NewYear(y) + 181 + LeapDays(y)
           /\ FirstOf(y, 8) = NewYear(y) + 212 + LeapDays(y)
           /\ FirstOf(y, 9) = NewYear(y) + 243 + LeapDays(y)
           /\ FirstOf(y, 10) = NewYear(y) + 273 + LeapDays(y)
           /\ FirstOf(y, 11) = NewYear(y) + 304 + LeapDays(y)
           /\ FirstOf(y, 12) = NewYear(y) + 334 + LeapDays(y)
<1>1. NewYear(y) \in Int
    BY YearsFollow
<1>2. ASSUME NEW m \in 1..12, LongBefore(m) \in Nat
      PROVE  FirstOf(y, m) = NewYear(y) + 30 * (m - 1) + LongBefore(m)
                                - (IF m <= 2 THEN 0 ELSE 2 - LeapDays(y))
    BY <1>2 DEF FirstOf, NewYear, LongBefore, LeapDays
<1>3. LeapDays(y) \in {0, 1}
    BY DEF LeapDays
<1>4. QED
    BY <1>1, <1>2, <1>3, LongMonthsBefore

\* The months of a calendar.
MonthsAll == Int \X (1..12)

\* The first day of a month, and the day after its last.
MonthStart(ym) == FirstOf(ym[1], ym[2])
MonthEnd(ym) == FirstOf(ym[1], ym[2]) + MonthLength(ym[1], ym[2])

\* The months around a month.
Following(ym) == IF ym[2] = 12 THEN <<ym[1] + 1, 1>> ELSE <<ym[1], ym[2] + 1>>

Preceding(ym) == IF ym[2] = 1 THEN <<ym[1] - 1, 12>> ELSE <<ym[1], ym[2] - 1>>

\* The order of the months.
Earlier(a, b) == a[1] < b[1] \/ (a[1] = b[1] /\ a[2] < b[2])

\* The numbers of a month.
LEMMA MonthIs ==
    ASSUME NEW ym \in MonthsAll
    PROVE  /\ ym[1] \in Int /\ ym[2] \in 1..12 /\ ym = <<ym[1], ym[2]>>
           /\ MonthLength(ym[1], ym[2]) \in 28..31
           /\ MonthStart(ym) \in Int /\ MonthEnd(ym) \in Int
           /\ MonthEnd(ym) = MonthStart(ym) + MonthLength(ym[1], ym[2])
<1>1. ym[1] \in Int /\ ym[2] \in 1..12 /\ ym = <<ym[1], ym[2]>>
    BY DEF MonthsAll
<1>2. MonthLength(ym[1], ym[2]) \in 28..31
    BY <1>1 DEF MonthLength
<1>3. NewYear(ym[1]) \in Int /\ LeapDays(ym[1]) \in {0, 1}
    BY <1>1, YearsFollow DEF LeapDays
<1>4. FirstOf(ym[1], ym[2]) \in Int
    BY <1>1, <1>3, MonthsOfYear
<1>5. QED
    BY <1>1, <1>2, <1>4 DEF MonthStart, MonthEnd

\* One month ends where the next begins.
LEMMA MonthsFollow ==
    ASSUME NEW y \in Int, NEW m \in 1..12
    PROVE  FirstOf(y, m) + MonthLength(y, m) =
               (IF m = 12 THEN FirstOf(y + 1, 1) ELSE FirstOf(y, m + 1))
<1>1. /\ NewYear(y) \in Int /\ LeapDays(y) \in {0, 1}
      /\ NewYear(y + 1) = NewYear(y) + 365 + LeapDays(y)
    BY YearsFollow DEF LeapDays
<1>2. FirstOf(y + 1, 1) = NewYear(y + 1)
    BY MonthsOfYear
<1>3. MonthLength(y, 2) = 28 + LeapDays(y)
    BY DEF MonthLength, LeapDays
<1>4. QED
    BY <1>1, <1>2, <1>3, MonthsOfYear DEF MonthLength, LongMonths

\* An earlier month ends before a later one begins.
LEMMA MonthsApart ==
    ASSUME NEW a \in MonthsAll, NEW b \in MonthsAll, Earlier(a, b), b[1] <= a[1] + 2
    PROVE  MonthEnd(a) <= MonthStart(b)
<1> DEFINE y == a[1]
           m == a[2]
           z == b[1]
           n == b[2]
<1>1. y \in Int /\ m \in 1..12 /\ z \in Int /\ n \in 1..12
    BY MonthIs
<1>2. \A x \in Int : /\ NewYear(x) \in Int /\ LeapDays(x) \in {0, 1}
                     /\ NewYear(x + 1) = NewYear(x) + 365 + LeapDays(x)
    BY YearsFollow DEF LeapDays
<1>3. \A x \in Int : \A k \in 1..12 :
          /\ FirstOf(x, k) >= NewYear(x) /\ FirstOf(x, k) \in Int
          /\ MonthLength(x, k) \in Int
          /\ FirstOf(x, k) + MonthLength(x, k) <= NewYear(x + 1)
    <2> SUFFICES ASSUME NEW x \in Int, NEW k \in 1..12
                 PROVE  /\ FirstOf(x, k) >= NewYear(x) /\ FirstOf(x, k) \in Int
                        /\ MonthLength(x, k) \in Int
                        /\ FirstOf(x, k) + MonthLength(x, k) <= NewYear(x + 1)
        OBVIOUS
    <2>1. MonthLength(x, 2) = 28 + LeapDays(x)
        BY DEF MonthLength, LeapDays
    <2>2. /\ NewYear(x) \in Int /\ LeapDays(x) \in {0, 1}
          /\ NewYear(x + 1) = NewYear(x) + 365 + LeapDays(x)
        BY <1>2
    <2>3. FirstOf(x, k) >= NewYear(x) /\ FirstOf(x, k) \in Int
        BY <2>2, MonthsOfYear
    <2>4. MonthLength(x, k) \in Int
        BY DEF MonthLength
    <2>5. FirstOf(x, k) + MonthLength(x, k) <= NewYear(x + 1)
        BY <2>1, <2>2, MonthsOfYear DEF MonthLength, LongMonths
    <2>6. QED
        BY <2>3, <2>4, <2>5
<1>4. CASE y < z
    <2>1. NewYear(y + 1) <= NewYear(z)
        <3>1. z = y + 1 \/ z = (y + 1) + 1
            BY <1>1, <1>4
        <3>2. NewYear((y + 1) + 1) >= NewYear(y + 1) /\ NewYear(y + 1) \in Int
            BY <1>1, <1>2
        <3>3. QED
            BY <3>1, <3>2
    <2>2. /\ FirstOf(y, m) + MonthLength(y, m) <= NewYear(y + 1)
          /\ FirstOf(z, n) >= NewYear(z)
          /\ FirstOf(y, m) \in Int /\ MonthLength(y, m) \in Int /\ FirstOf(z, n) \in Int
          /\ NewYear(z) \in Int
        BY <1>1, <1>2, <1>3
    <2>3. NewYear(y + 1) \in Int
        BY <1>1, <1>2
    <2>4. FirstOf(y, m) + MonthLength(y, m) <= FirstOf(z, n)
        BY <2>1, <2>2, <2>3
    <2>5. QED
        BY <2>4 DEF MonthStart, MonthEnd
<1>5. CASE y = z /\ m < n
    <2>1. MonthLength(y, 2) = 28 + LeapDays(y)
        BY DEF MonthLength, LeapDays
    <2>2. FirstOf(y, m) + MonthLength(y, m) = FirstOf(y, m + 1)
        BY <1>1, <1>5, MonthsFollow
    <2>3. FirstOf(y, m + 1) <= FirstOf(y, n)
        <3>1. m + 1 \in 1..12 /\ m + 1 <= n /\ NewYear(y) \in Int /\ LeapDays(y) \in {0, 1}
            BY <1>1, <1>2, <1>5
        <3>2. QED
            BY <1>1, <3>1, MonthsOfYear
    <2>4. QED
        BY <1>5, <2>2, <2>3 DEF MonthStart, MonthEnd
<1>6. QED
    BY <1>4, <1>5 DEF Earlier

\* The month of a day is the one it lies in.
LEMMA MonthOfDay ==
    ASSUME NEW ym \in MonthsAll, NEW y \in Int, y - 1 <= ym[1], ym[1] <= y + 1,
           NEW day \in Int, MonthStart(ym) <= day, day < MonthEnd(ym)
    PROVE  MonthOf(day, y) = ym
<1> DEFINE near == (y - 1 .. y + 1) \X (1..12)
           In(x) == FirstOf(x[1], x[2]) <= day
                       /\ day < FirstOf(x[1], x[2]) + MonthLength(x[1], x[2])
<1>1. ym \in near /\ In(ym)
    BY MonthIs DEF MonthStart, MonthEnd, MonthsAll
<1>2. ASSUME NEW x \in near, In(x) PROVE x = ym
    <2>1. x \in MonthsAll /\ x[1] \in (y - 1)..(y + 1)
        BY DEF MonthsAll
    <2>2. MonthStart(x) <= day /\ day < MonthEnd(x)
        BY <1>2 DEF MonthStart, MonthEnd
    <2>3. /\ MonthStart(x) \in Int /\ MonthEnd(x) \in Int
          /\ MonthStart(ym) \in Int /\ MonthEnd(ym) \in Int
          /\ x[1] \in Int /\ x[2] \in Int /\ ym[1] \in Int /\ ym[2] \in Int
          /\ x = <<x[1], x[2]>> /\ ym = <<ym[1], ym[2]>>
        BY <2>1, MonthIs
    <2>4. ~Earlier(x, ym)
        BY <2>1, <2>2, <2>3, MonthsApart
    <2>5. ~Earlier(ym, x)
        BY <2>1, <2>2, <2>3, MonthsApart
    <2>6. QED
        BY <2>3, <2>4, <2>5 DEF Earlier
<1>3. MonthOf(day, y) = CHOOSE x \in near : In(x)
    BY DEF MonthOf
<1> HIDE DEF near, In
<1>4. QED
    BY <1>1, <1>2, <1>3

\* The arrows lead to the next month and to the last one.
LEMMA ArrowsLead ==
    ASSUME NEW y \in Int, NEW m \in 1..12
    PROVE  /\ MonthAfter(y, m) = Following(<<y, m>>)
           /\ MonthBefore(y, m) = Preceding(<<y, m>>)
<1>1. /\ <<y, m>> \in MonthsAll
      /\ Following(<<y, m>>) \in MonthsAll /\ Preceding(<<y, m>>) \in MonthsAll
    BY DEF MonthsAll, Following, Preceding
<1>2. MonthAfter(y, m) = Following(<<y, m>>)
    <2> DEFINE ym == Following(<<y, m>>)
               day == FirstOf(y, m) + 32
    <2>1. MonthStart(ym) = FirstOf(y, m) + MonthLength(y, m)
        BY MonthsFollow DEF Following, MonthStart
    <2>2. /\ MonthLength(y, m) \in 28..31 /\ FirstOf(y, m) \in Int
          /\ MonthLength(ym[1], ym[2]) \in 28..31
          /\ MonthEnd(ym) = MonthStart(ym) + MonthLength(ym[1], ym[2])
        BY <1>1, MonthIs DEF MonthStart
    <2>3. day \in Int /\ MonthStart(ym) <= day /\ day < MonthEnd(ym)
        BY <2>1, <2>2
    <2>4. y - 1 <= ym[1] /\ ym[1] <= y + 1
        BY DEF Following
    <2>5. MonthAfter(y, m) = MonthOf(day, y)
        BY DEF MonthAfter
    <2> HIDE DEF ym, day
    <2>6. ym \in MonthsAll
        BY <1>1 DEF ym
    <2>7. QED
        BY <2>3, <2>4, <2>5, <2>6, MonthOfDay DEF ym
<1>3. MonthBefore(y, m) = Preceding(<<y, m>>)
    <2> DEFINE ym == Preceding(<<y, m>>)
               day == FirstOf(y, m) - 1
    <2>1. MonthEnd(ym) = FirstOf(y, m)
        <3>1. CASE m = 1
            <4>1. y - 1 \in Int /\ 12 \in 1..12 /\ (y - 1) + 1 = y
                OBVIOUS
            <4>2. FirstOf(y - 1, 12) + MonthLength(y - 1, 12) = FirstOf((y - 1) + 1, 1)
                BY <4>1, MonthsFollow
            <4>3. QED
                BY <3>1, <4>1, <4>2 DEF MonthEnd, Preceding
        <3>2. CASE m # 1
            <4>1. m - 1 \in 1..12 /\ m - 1 # 12 /\ (m - 1) + 1 = m
                BY <3>2
            <4>2. FirstOf(y, m - 1) + MonthLength(y, m - 1) = FirstOf(y, (m - 1) + 1)
                BY <4>1, MonthsFollow
            <4>3. QED
                BY <3>2, <4>1, <4>2 DEF MonthEnd, Preceding
        <3>3. QED
            BY <3>1, <3>2
    <2>2. /\ FirstOf(y, m) \in Int /\ MonthStart(ym) \in Int
          /\ MonthLength(ym[1], ym[2]) \in 28..31
          /\ MonthEnd(ym) = MonthStart(ym) + MonthLength(ym[1], ym[2])
        BY <1>1, MonthIs DEF MonthStart
    <2>3. day \in Int /\ MonthStart(ym) <= day /\ day < MonthEnd(ym)
        BY <2>1, <2>2
    <2>4. y - 1 <= ym[1] /\ ym[1] <= y + 1
        BY DEF Preceding
    <2>5. MonthBefore(y, m) = MonthOf(day, y)
        BY DEF MonthBefore
    <2> HIDE DEF ym, day
    <2>6. ym \in MonthsAll
        BY <1>1 DEF ym
    <2>7. QED
        BY <2>3, <2>4, <2>5, <2>6, MonthOfDay DEF ym
<1>4. QED
    BY <1>2, <1>3

-----------------------------------------------------------------------------
(* The cells of a month *)

\* n days from day x on.
Row(x, n) == [i \in 1..n |-> x + i - 1]

\* Its places and days.
LEMMA RowIs ==
    ASSUME NEW x \in Int, NEW n \in Nat
    PROVE  /\ Row(x, n) \in Seq(Int) /\ Len(Row(x, n)) = n
           /\ DOMAIN Row(x, n) = 1..n
           /\ \A i \in 1..n : Row(x, n)[i] = x + i - 1
<1>1. Row(x, n) \in [1..n -> Int] /\ \A i \in 1..n : Row(x, n)[i] = x + i - 1
    BY DEF Row
<1>2. Row(x, n) \in Seq(Int)
    BY <1>1, SeqDef
<1>3. Len(Row(x, n)) \in Nat /\ DOMAIN Row(x, n) = 1..Len(Row(x, n))
    BY <1>2, LenProperties
<1>4. Len(Row(x, n)) = n
    BY <1>1, <1>3
<1>5. QED
    BY <1>1, <1>2, <1>4

\* A row, and the row of the days after it, are one row.
LEMMA RowsJoin ==
    ASSUME NEW x \in Int, NEW n \in Nat, NEW k \in Nat
    PROVE  Row(x, n) \o Row(x + n, k) = Row(x, n + k)
<1> DEFINE a == Row(x, n)
           b == Row(x + n, k)
           c == Row(x, n + k)
<1>1. /\ a \in Seq(Int) /\ Len(a) = n /\ \A i \in 1..n : a[i] = x + i - 1
      /\ b \in Seq(Int) /\ Len(b) = k /\ \A i \in 1..k : b[i] = x + n + i - 1
      /\ c \in Seq(Int) /\ Len(c) = n + k /\ \A i \in 1..(n + k) : c[i] = x + i - 1
    BY RowIs
<1> HIDE DEF a, b, c
<1>2. /\ a \o b \in Seq(Int) /\ Len(a \o b) = n + k
      /\ \A i \in 1..(n + k) : (a \o b)[i] = IF i <= n THEN a[i] ELSE b[i - n]
    BY <1>1, ConcatProperties
<1>3. ASSUME NEW i \in 1..(n + k) PROVE (a \o b)[i] = c[i]
    <2>1. CASE i <= n
        BY <1>1, <1>2, <2>1
    <2>2. CASE ~(i <= n)
        <3>1. i - n \in 1..k /\ x + n + (i - n) - 1 = x + i - 1
            BY <2>2
        <3>2. QED
            BY <1>1, <1>2, <2>2, <3>1
    <2>3. QED
        BY <2>1, <2>2
<1>4. a \o b = c
    BY <1>1, <1>2, <1>3, SeqEqual
<1>5. QED
    BY <1>4 DEF a, b, c

\* The 42 cells are days in a row, from a Monday, with all days of the month.
LEMMA CellsInARow ==
    ASSUME NEW y \in Int, NEW m \in 1..12
    PROVE  LET first == FirstOf(y, m)  monday == first - Weekday(first) IN
           /\ CellsOf(y, m) = Row(monday, 42) /\ monday \in Int
           /\ Weekday(monday) = 0
           /\ monday <= first /\ first + MonthLength(y, m) <= monday + 42
<1> DEFINE first == FirstOf(y, m)
           padding == Weekday(first)
           own == MonthLength(y, m)
           monday == first - padding
<1>1. first \in Int /\ own \in 28..31
    <2>1. <<y, m>> \in MonthsAll
        BY DEF MonthsAll
    <2>2. QED
        BY <2>1, MonthIs DEF MonthStart
<1>2. CellsOf(y, m) = ([i \in 1..padding |-> first - padding + i - 1]
                          \o [i \in 1..own |-> first + i - 1])
                          \o [i \in 1..(42 - padding - own) |-> first + own + i - 1]
    BY DEF CellsOf
<1> HIDE DEF first, own
<1>3. padding \in 0..6 /\ Weekday(first - padding) = 0
    BY <1>1 DEF Weekday
<1> HIDE DEF padding
<1>4. /\ padding \in Nat /\ own \in Nat /\ 42 - padding - own \in Nat /\ monday \in Int
      /\ monday + padding = first /\ monday + (padding + own) = first + own
      /\ (padding + own) + (42 - padding - own) = 42 /\ padding + own \in Nat
    BY <1>1, <1>3
<1>5. CellsOf(y, m) = (Row(monday, padding) \o Row(first, own))
                          \o Row(first + own, 42 - padding - own)
    BY <1>2 DEF Row, monday
<1> DEFINE rest == 42 - padding - own
<1> HIDE DEF monday, rest
<1>6. Row(monday, padding) \o Row(first, own) = Row(monday, padding + own)
    <2>1. Row(monday, padding) \o Row(monday + padding, own) = Row(monday, padding + own)
        BY <1>4, RowsJoin
    <2>2. QED
        BY <1>4, <2>1
<1>7. Row(monday, padding + own) \o Row(first + own, rest) = Row(monday, 42)
    <2>1. rest \in Nat /\ (padding + own) + rest = 42
        BY <1>4 DEF rest
    <2>2. Row(monday, padding + own) \o Row(monday + (padding + own), rest)
              = Row(monday, (padding + own) + rest)
        BY <1>4, <2>1, RowsJoin
    <2>3. QED
        BY <1>4, <2>1, <2>2
<1>8. monday <= first /\ first + own <= monday + 42
    BY <1>1, <1>3, <1>4 DEF monday
<1>9. CellsOf(y, m) = Row(monday, 42) /\ monday \in Int /\ Weekday(monday) = 0
    BY <1>3, <1>4, <1>5, <1>6, <1>7 DEF monday, rest
<1>10. QED
    BY <1>8, <1>9 DEF monday, first, own, padding

\* What GridHoldsMonth says of a page.
GridOf(cells, y, m) ==
    LET before == MonthBefore(y, m)  after == MonthAfter(y, m) IN
    /\ Len(cells) = 42 /\ Weekday(cells[1]) = 0
    /\ \A i \in 1..41 : cells[i + 1] = cells[i] + 1
    /\ FirstOf(y, m)..(FirstOf(y, m) + MonthLength(y, m) - 1) \subseteq ToSet(cells)
    /\ MonthAfter(before[1], before[2]) = <<y, m>>
    /\ MonthBefore(after[1], after[2]) = <<y, m>>

\* Every month of every year is whole.
LEMMA MonthsAreWhole ==
    ASSUME NEW y \in Int, NEW m \in 1..12
    PROVE  GridOf(CellsOf(y, m), y, m)
<1> DEFINE first == FirstOf(y, m)
           own == MonthLength(y, m)
           monday == first - Weekday(first)
           cells == CellsOf(y, m)
<1>1. /\ cells = Row(monday, 42) /\ monday \in Int /\ Weekday(monday) = 0
      /\ monday <= first /\ first + own <= monday + 42
    BY CellsInARow
<1>2. first \in Int /\ own \in 28..31
    <2>1. <<y, m>> \in MonthsAll
        BY DEF MonthsAll
    <2>2. QED
        BY <2>1, MonthIs DEF MonthStart
<1> HIDE DEF first, own, monday, cells
<1>3. /\ Len(cells) = 42 /\ DOMAIN cells = 1..42
      /\ \A i \in 1..42 : cells[i] = monday + i - 1
    BY <1>1, RowIs
<1>4. Weekday(cells[1]) = 0
    <2>1. cells[1] = monday
        BY <1>1, <1>3
    <2>2. QED
        BY <1>1, <2>1
<1>5. \A i \in 1..41 : cells[i + 1] = cells[i] + 1
    <2> SUFFICES ASSUME NEW i \in 1..41 PROVE cells[i + 1] = cells[i] + 1
        OBVIOUS
    <2>1. cells[i + 1] = monday + (i + 1) - 1 /\ cells[i] = monday + i - 1
        BY <1>3
    <2>2. QED
        BY <1>1, <2>1
<1>6. first..(first + own - 1) \subseteq ToSet(cells)
    <2> SUFFICES ASSUME NEW day \in first..(first + own - 1) PROVE day \in ToSet(cells)
        OBVIOUS
    <2>1. day - monday + 1 \in 1..42 /\ monday + (day - monday + 1) - 1 = day
        BY <1>1, <1>2
    <2>2. cells[day - monday + 1] = day
        BY <1>3, <2>1
    <2>3. QED
        BY <1>3, <2>1, <2>2 DEF ToSet
<1>7. LET before == MonthBefore(y, m)  after == MonthAfter(y, m) IN
      /\ MonthAfter(before[1], before[2]) = <<y, m>>
      /\ MonthBefore(after[1], after[2]) = <<y, m>>
    <2> DEFINE before == Preceding(<<y, m>>)
               after == Following(<<y, m>>)
    <2>1. /\ before[1] \in Int /\ before[2] \in 1..12
          /\ after[1] \in Int /\ after[2] \in 1..12
        BY DEF Preceding, Following
    <2>2. /\ Following(<<before[1], before[2]>>) = <<y, m>>
          /\ Preceding(<<after[1], after[2]>>) = <<y, m>>
        BY DEF Preceding, Following
    <2>3. MonthBefore(y, m) = before /\ MonthAfter(y, m) = after
        BY ArrowsLead
    <2> HIDE DEF before, after
    <2>4. /\ MonthAfter(before[1], before[2]) = <<y, m>>
          /\ MonthBefore(after[1], after[2]) = <<y, m>>
        BY <2>1, <2>2, ArrowsLead
    <2>5. QED
        BY <2>3, <2>4
<1>8. QED
    BY <1>3, <1>4, <1>5, <1>6, <1>7 DEF GridOf, first, own, cells

-----------------------------------------------------------------------------
(* The pages and the forms *)

\* What is true of every page: the agenda keeps its types, a month has the
\* cells of its number, and a form is in order.
CalendarInv ==
    /\ agenda \in [Visits -> VisitTimes]
    /\ page.view = "month" =>
          /\ page.month \in MonthsAll
          /\ page.cells = CellsOf(page.month[1], page.month[2])
    /\ FormIsInOrder

\* The times of a job are integers, and those of one with both in order.
LEMMA TimesAre ==
    ASSUME agenda \in [Visits -> VisitTimes], NEW v \in Visits
    PROVE  /\ agenda[v].start \in Nat \union {Never} /\ agenda[v].end \in Nat \union {Never}
           /\ HasTime(v) => agenda[v].start \in Nat /\ LastTime(v) \in Nat
           /\ HasTime(v) /\ agenda[v].end # Never => agenda[v].start < agenda[v].end
<1>1. agenda[v] \in VisitTimes
    OBVIOUS
<1>2. QED
    BY <1>1, AgendaConstants DEF HasTime, LastTime

\* A time is in its day.
LEMMA HoursOfDays ==
    ASSUME NEW t \in Nat
    PROVE  /\ DaySlots \in Nat /\ DaySlots > 0
           /\ DayOf(t) \in Nat /\ DayOf(t) * DaySlots \in Int
           /\ t % DaySlots \in 0..(DaySlots - 1) /\ t % DaySlots \in Int
           /\ t = DayOf(t) * DaySlots + (t % DaySlots)
<1>1. DaySlots \in Nat /\ DaySlots > 0
    BY CalendarConstants
<1>2. QED
    BY <1>1 DEF DayOf

\* The day of a time that is put together from a day and an hour.
LEMMA DayOfHour ==
    ASSUME NEW day \in Int, NEW h \in 0..(DaySlots - 1)
    PROVE  DayOf(day * DaySlots + h) = day /\ day * DaySlots \in Int
<1>1. DaySlots \in Nat /\ DaySlots > 0
    BY CalendarConstants
<1>2. QED
    BY <1>1 DEF DayOf

\* The later day has the later times.
LEMMA DaysInOrder ==
    ASSUME NEW s \in Nat, NEW t \in Nat, s <= t
    PROVE  DayOf(s) <= DayOf(t)
<1>1. DaySlots \in Nat /\ DaySlots > 0
    BY CalendarConstants
<1>2. QED
    BY <1>1 DEF DayOf

\* What FormIsInOrder says of the form for job v with these times.
InOrder(v, start, end) ==
    \/ start < end
    \/ HasTime(v) /\ agenda[v].end = Never /\ agenda[v].start % DaySlots >= FormEnd
    \/ ~HasTime(v) /\ agenda[v].end # Never /\ agenda[v].end % DaySlots <= FormStart
    \/ HasTime(v) /\ IsMultiDay(v)

\* The form with the times of a job is in order.
LEMMA JobFormInOrder ==
    ASSUME agenda \in [Visits -> VisitTimes], NEW v \in Visits, NEW day \in Int
    PROVE  LET form == JobForm(v, day).form IN
           form.visit = v /\ InOrder(v, form.start, form.end)
<1> DEFINE start == IF HasTime(v) THEN agenda[v].start ELSE day * DaySlots + FormStart
           end == EndOffered(v, start)
<1>1. JobForm(v, day).form = [visit |-> v, start |-> start, end |-> end]
    BY DEF JobForm, NoPage
<1>2. /\ FormStart \in 0..(DaySlots - 1) /\ FormEnd \in 0..(DaySlots - 1) /\ FormStart < FormEnd
      /\ Never \notin Int
    BY CalendarConstants, AgendaConstants
<1>3. CASE HasTime(v) /\ agenda[v].end # Never
    <2>1. start < end
        BY <1>3, TimesAre DEF EndOffered
    <2>2. QED
        BY <1>1, <2>1 DEF InOrder
<1>4. CASE HasTime(v) /\ agenda[v].end = Never /\ ~(agenda[v].start % DaySlots >= FormEnd)
    <2>1. start = agenda[v].start /\ start \in Nat
        BY <1>4, TimesAre
    <2>2. end = DayOf(start) * DaySlots + FormEnd
        BY <1>4 DEF EndOffered
    <2> HIDE DEF start, end
    <2>3. /\ start = DayOf(start) * DaySlots + (start % DaySlots)
          /\ start % DaySlots \in Int /\ DayOf(start) * DaySlots \in Int
        BY <2>1, HoursOfDays
    <2>4. start < end
        BY <1>2, <1>4, <2>1, <2>2, <2>3
    <2>5. QED
        BY <1>1, <2>4 DEF InOrder
<1>5. CASE ~HasTime(v)
    <2>1. start = day * DaySlots + FormStart /\ DayOf(start) = day /\ day * DaySlots \in Int
        BY <1>2, <1>5, DayOfHour
    <2>2. CASE agenda[v].end # Never
        <3>1. agenda[v].end \in Nat /\ agenda[v].end % DaySlots \in Int
            BY <2>2, TimesAre, HoursOfDays
        <3>2. end = day * DaySlots + (agenda[v].end % DaySlots)
            BY <1>5, <2>1, <2>2 DEF EndOffered
        <3> HIDE DEF start, end
        <3>3. start < end \/ agenda[v].end % DaySlots <= FormStart
            BY <1>2, <2>1, <3>1, <3>2
        <3>4. QED
            BY <1>1, <1>5, <2>2, <3>3 DEF InOrder
    <2>3. CASE agenda[v].end = Never
        <3>1. end = day * DaySlots + FormEnd
            BY <1>5, <2>1, <2>3 DEF EndOffered
        <3> HIDE DEF start, end
        <3>2. start < end
            BY <1>2, <2>1, <3>1
        <3>3. QED
            BY <1>1, <3>2 DEF InOrder
    <2>4. QED
        BY <2>2, <2>3
<1>6. CASE HasTime(v) /\ agenda[v].end = Never /\ agenda[v].start % DaySlots >= FormEnd
    BY <1>1, <1>6 DEF InOrder
<1>7. QED
    BY <1>3, <1>4, <1>5, <1>6

\* The form for a job that is dropped on a day is in order.
LEMMA QuickFormInOrder ==
    ASSUME agenda \in [Visits -> VisitTimes], NEW v \in Visits, NEW day \in Int
    PROVE  LET form == QuickForm(v, day).form IN
           form.visit = v /\ InOrder(v, form.start, form.end)
<1> DEFINE start == IF HasTime(v) THEN agenda[v].start % DaySlots ELSE FormStart
           end == IF agenda[v].end # Never THEN agenda[v].end % DaySlots ELSE FormEnd
<1>1. QuickForm(v, day).form =
          [visit |-> v, start |-> day * DaySlots + start, end |-> day * DaySlots + end]
    BY DEF QuickForm, NoPage
<1>2. /\ FormStart \in 0..(DaySlots - 1) /\ FormEnd \in 0..(DaySlots - 1) /\ FormStart < FormEnd
      /\ Never \notin Int
    BY CalendarConstants, AgendaConstants
<1>3. start \in Int /\ end \in Int /\ day * DaySlots \in Int
    <2>1. HasTime(v) => agenda[v].start % DaySlots \in Int
        BY TimesAre, HoursOfDays
    <2>2. agenda[v].end # Never => agenda[v].end % DaySlots \in Int
        BY TimesAre, HoursOfDays
    <2>3. day * DaySlots \in Int
        BY <1>2, DayOfHour
    <2>4. QED
        BY <1>2, <2>1, <2>2, <2>3
<1>4. start < end => day * DaySlots + start < day * DaySlots + end
    <2> HIDE DEF start, end
    <2>1. QED
        BY <1>3
<1>5. start < end => InOrder(v, day * DaySlots + start, day * DaySlots + end)
    BY <1>4 DEF InOrder
<1>6. CASE HasTime(v) /\ agenda[v].end # Never /\ ~IsMultiDay(v)
    <2> DEFINE s == agenda[v].start
               e == agenda[v].end
    <2>1. s \in Nat /\ e \in Nat /\ s < e /\ LastTime(v) = e
        BY <1>6, TimesAre DEF LastTime
    <2>2. start = s % DaySlots /\ end = e % DaySlots /\ ~(DayOf(e) > DayOf(s))
        BY <1>6, <2>1 DEF IsMultiDay
    <2> HIDE DEF s, e, start, end
    <2>3. /\ s = DayOf(s) * DaySlots + (s % DaySlots) /\ DayOf(s) \in Nat
          /\ e = DayOf(e) * DaySlots + (e % DaySlots) /\ DayOf(e) \in Nat
          /\ DayOf(s) * DaySlots \in Int
        BY <2>1, HoursOfDays
    <2>4. DayOf(s) = DayOf(e)
        BY <2>1, <2>2, <2>3, DaysInOrder
    <2>5. s % DaySlots \in Int /\ e % DaySlots \in Int
        BY <2>1, HoursOfDays
    <2>6. start < end
        BY <2>1, <2>2, <2>3, <2>4, <2>5
    <2>7. QED
        BY <1>1, <1>5, <2>6
<1>7. CASE HasTime(v) /\ agenda[v].end = Never /\ ~(agenda[v].start % DaySlots >= FormEnd)
    <2>1. start < end
        BY <1>2, <1>3, <1>7
    <2>2. QED
        BY <1>1, <1>5, <2>1
<1>8. CASE ~HasTime(v) /\ agenda[v].end # Never /\ ~(agenda[v].end % DaySlots <= FormStart)
    <2>1. start < end
        BY <1>2, <1>3, <1>8
    <2>2. QED
        BY <1>1, <1>5, <2>1
<1>9. CASE ~HasTime(v) /\ agenda[v].end = Never
    <2>1. start < end
        BY <1>2, <1>9
    <2>2. QED
        BY <1>1, <1>5, <2>1
<1>10. CASE \/ HasTime(v) /\ agenda[v].end = Never /\ agenda[v].start % DaySlots >= FormEnd
            \/ ~HasTime(v) /\ agenda[v].end # Never /\ agenda[v].end % DaySlots <= FormStart
            \/ HasTime(v) /\ IsMultiDay(v)
    BY <1>1, <1>10 DEF InOrder
<1>11. QED
    BY <1>6, <1>7, <1>8, <1>9, <1>10

\* A page of a month has its cells; it is no form.
LEMMA MonthPageIs ==
    ASSUME NEW y, NEW m, NEW kept
    PROVE  /\ MonthPage(y, m, kept).view = "month" /\ MonthPage(y, m, kept).month = <<y, m>>
           /\ MonthPage(y, m, kept).cells = CellsOf(y, m)
    BY DEF MonthPage, NoPage

\* The other pages are no months, and only a form is a form.
LEMMA OtherPagesAre ==
    ASSUME NEW day, NEW kept, NEW v
    PROVE  /\ WeekPage(day, kept).view = "week"
           /\ DayPage(day, kept).view = "day"
           /\ JobForm(v, day).view = "form"
           /\ QuickForm(v, day).view = "form"
           /\ NoPage.view = "none"
<1>1. WeekPage(day, kept).view = "week"
    BY DEF WeekPage, NoPage
<1>2. DayPage(day, kept).view = "day"
    BY DEF DayPage, NoPage
<1>3. JobForm(v, day).view = "form" /\ QuickForm(v, day).view = "form" /\ NoPage.view = "none"
    BY DEF JobForm, QuickForm, NoPage
<1>4. QED
    BY <1>1, <1>2, <1>3

\* At first no page is on the screen.
LEMMA CalendarInvStarts == CalendarInit => CalendarInv
<1> SUFFICES ASSUME CalendarInit PROVE CalendarInv
    OBVIOUS
<1>1. page.view = "none"
    BY OtherPagesAre DEF CalendarInit
<1>2. QED
    BY <1>1 DEF CalendarInit, CalendarInv, FormIsInOrder

\* A month is shown with its own cells.
LEMMA MonthPageHolds ==
    ASSUME CalendarInv, UNCHANGED agenda, NEW ym \in ShownMonths, NEW kept,
           page' = MonthPage(ym[1], ym[2], kept)
    PROVE  CalendarInv'
<1>1. ym \in MonthsAll
    BY CalendarConstants DEF MonthsAll
<1>2. ym = <<ym[1], ym[2]>>
    BY <1>1, MonthIs
<1>3. page'.view = "month" /\ page'.month = ym /\ page'.cells = CellsOf(ym[1], ym[2])
    BY <1>2, MonthPageIs
<1>4. QED
    BY <1>1, <1>3 DEF CalendarInv, FormIsInOrder

\* Every page and every form keeps the invariant.
LEMMA CalendarInvHolds == CalendarInv /\ [CalendarNext]_calendarVars => CalendarInv'
<1> SUFFICES ASSUME CalendarInv, [CalendarNext]_calendarVars
             PROVE  CalendarInv'
    OBVIOUS
<1>1. ASSUME ShowMonth, UNCHANGED agenda PROVE CalendarInv'
    BY <1>1, MonthPageHolds DEF ShowMonth
<1>2. ASSUME TurnMonth, UNCHANGED agenda PROVE CalendarInv'
    <2>1. PICK ym \in ShownMonths : \E kept \in Filters : page' = MonthPage(ym[1], ym[2], kept)
        BY <1>2 DEF TurnMonth
    <2>2. QED
        BY <1>2, <2>1, MonthPageHolds
<1>3. ASSUME ShowWeek, UNCHANGED agenda PROVE CalendarInv'
    <2>1. page'.view = "week"
        BY <1>3, OtherPagesAre DEF ShowWeek
    <2>2. QED
        BY <1>3, <2>1 DEF CalendarInv, FormIsInOrder
<1>4. ASSUME ShowDay, UNCHANGED agenda PROVE CalendarInv'
    <2>1. page'.view = "day"
        BY <1>4, OtherPagesAre DEF ShowDay
    <2>2. QED
        BY <1>4, <2>1 DEF CalendarInv, FormIsInOrder
<1>5. ASSUME OpenForm, UNCHANGED agenda PROVE CalendarInv'
    <2>1. PICK v \in Visits, day \in ShownDays : page' \in {JobForm(v, day), QuickForm(v, day)}
        BY <1>5 DEF OpenForm
    <2>2. day \in Int /\ agenda \in [Visits -> VisitTimes]
        BY CalendarConstants DEF CalendarInv
    <2>3. page'.view = "form"
        BY <2>1, OtherPagesAre
    <2>4. page'.form.visit = v /\ InOrder(v, page'.form.start, page'.form.end)
        BY <2>1, <2>2, JobFormInOrder, QuickFormInOrder
    <2>5. FormIsInOrder'
        BY <1>5, <2>4 DEF FormIsInOrder, InOrder, HasTime, IsMultiDay, LastTime
    <2>6. QED
        BY <1>5, <2>2, <2>3, <2>5 DEF CalendarInv
<1>6. CASE UNCHANGED calendarVars
    BY <1>6 DEF CalendarInv, FormIsInOrder, HasTime, IsMultiDay, LastTime, calendarVars
<1>7. QED
    BY <1>1, <1>2, <1>3, <1>4, <1>5, <1>6 DEF CalendarNext

\* Invariant GridHoldsMonth, for every month of every year: the cells of a
\* month are six weeks from a Monday with all its days, and the arrows lead to
\* the month before and the month after and back.
THEOREM GridsAreWhole == CalendarSpec => []GridHoldsMonth
<1>1. CalendarInv => GridHoldsMonth
    <2> SUFFICES ASSUME CalendarInv, page.view = "month"
                 PROVE  GridOf(page.cells, page.month[1], page.month[2])
        BY DEF GridHoldsMonth, GridOf, PageDays
    <2>1. page.month[1] \in Int /\ page.month[2] \in 1..12
        BY MonthIs DEF CalendarInv
    <2>2. QED
        BY <2>1, MonthsAreWhole DEF CalendarInv
<1>2. QED
    BY <1>1, CalendarInvStarts, CalendarInvHolds, PTL DEF CalendarSpec

\* Invariant FormIsInOrder, for all times that a job may have: what a form
\* offers can be sent, but in the three cases that it names.
THEOREM FormsAreInOrder == CalendarSpec => []FormIsInOrder
<1>1. CalendarInv => FormIsInOrder
    BY DEF CalendarInv
<1>2. QED
    BY <1>1, CalendarInvStarts, CalendarInvHolds, PTL DEF CalendarSpec

\* Multiplying keeps an order.
LEMMA ProductsInOrder ==
    ASSUME NEW a \in Int, NEW b \in Int, NEW n \in Nat, a <= b
    PROVE  a * n <= b * n
    OBVIOUS

\* The query of a range of days in the database misses no job that takes place
\* in it: the days that job-bl-service lists decide alone.
THEOREM QueryMissesNothing ==
    ASSUME agenda \in [Visits -> VisitTimes], NEW kept \in SUBSET Visits,
           NEW first \in Int, NEW last \in Int
    PROVE  Fetched(kept, first, last) =
               {v \in kept : HasTime(v) /\ DaysWithin(v, first, last) # {}}
<1> SUFFICES ASSUME NEW v \in kept, HasTime(v), NEW day \in DaysWithin(v, first, last)
             PROVE  InRange(v, first, last)
    BY DEF Fetched
<1> DEFINE s == agenda[v].start
           t == LastTime(v)
           e == agenda[v].end
           from == first * DaySlots
           to == last * DaySlots + DaySlots - 1
<1>1. /\ s \in Nat /\ t \in Nat /\ Never \notin Int
      /\ e = t \/ (e = Never /\ t = s)
      /\ s <= t
    BY TimesAre, AgendaConstants DEF LastTime
<1>2. DayOf(s) <= day /\ day <= DayOf(t) /\ first <= day /\ day <= last /\ day \in Int
    BY DEF DaysWithin
<1> HIDE DEF s, t, e, from, to
<1>3. DaySlots \in Nat /\ DaySlots > 0
    BY CalendarConstants
<1>4. s <= to
    <2>1. DayOf(s) * DaySlots <= last * DaySlots /\ DayOf(s) \in Int
        BY <1>1, <1>2, <1>3, HoursOfDays, ProductsInOrder
    <2>2. s = DayOf(s) * DaySlots + (s % DaySlots) /\ s % DaySlots \in 0..(DaySlots - 1)
        BY <1>1, HoursOfDays
    <2>3. QED
        BY <1>1, <1>3, <2>1, <2>2 DEF to
<1>5. from <= t
    <2>1. first * DaySlots <= DayOf(t) * DaySlots /\ DayOf(t) \in Int
        <3>1. DayOf(t) \in Int /\ first <= DayOf(t)
            BY <1>1, <1>2, HoursOfDays
        <3>2. QED
            BY <1>3, <3>1, ProductsInOrder
    <2>2. t = DayOf(t) * DaySlots + (t % DaySlots) /\ t % DaySlots \in 0..(DaySlots - 1)
        BY <1>1, HoursOfDays
    <2>3. QED
        BY <1>1, <1>3, <2>1, <2>2 DEF from
<1>6. from \in Int /\ to \in Int
    BY <1>3 DEF from, to
<1>7. \/ s >= from /\ s <= to
      \/ e # Never /\ e >= from /\ e <= to
      \/ e # Never /\ s <= from /\ e >= to
    BY <1>1, <1>4, <1>5, <1>6
<1>8. QED
    BY <1>7 DEF InRange, s, e, from, to

\* The days that a bar of a month covers, as BarDays has them.
DaysOfBar(first, bar) ==
    {first + 7 * bar.row + col : col \in bar.col..(bar.col + bar.span - 1)}

\* The days of a job within a range are in a row.
LEMMA DaysInARow ==
    ASSUME agenda \in [Visits -> VisitTimes], NEW v \in Visits, HasTime(v),
           NEW first \in Int, NEW last \in Int, DaysWithin(v, first, last) # {}
    PROVE  \E begin, end \in Int :
              /\ begin <= end /\ first <= begin /\ end <= last
              /\ DaysWithin(v, first, last) = begin..end
<1> DEFINE a == DayOf(agenda[v].start)
           b == DayOf(LastTime(v))
           begin == IF a < first THEN first ELSE a
           end == IF b > last THEN last ELSE b
<1>1. a \in Int /\ b \in Int
    <2>1. agenda[v].start \in Nat /\ LastTime(v) \in Nat
        BY TimesAre
    <2>2. \A time \in Nat : DayOf(time) \in Int
        BY HoursOfDays
    <2>3. QED
        BY <2>1, <2>2
<1>2. DaysWithin(v, first, last) = {day \in first..last : a <= day /\ day <= b}
    BY DEF DaysWithin
<1> HIDE DEF a, b
<1>3. /\ begin \in Int /\ end \in Int /\ first <= begin /\ end <= last
      /\ DaysWithin(v, first, last) = begin..end
    BY <1>1, <1>2
<1>4. begin <= end
    <2>1. PICK day : day \in begin..end
        BY <1>3
    <2> HIDE DEF begin, end
    <2>2. QED
        BY <1>3, <2>1
<1>5. QED
    BY <1>3, <1>4

\* The bar of a job above a week covers the days on which it takes place.
THEOREM WeekBarIsExact ==
    ASSUME agenda \in [Visits -> VisitTimes], NEW v \in Visits, HasTime(v),
           NEW monday \in Int, DaysWithin(v, monday, monday + 6) # {}
    PROVE  DaysOfBar(monday, WeekBar(v, monday)) = DaysWithin(v, monday, monday + 6)
<1> DEFINE days == DaysWithin(v, monday, monday + 6)
           begin == CHOOSE d \in days : d - 1 \notin days
           bar == WeekBar(v, monday)
<1>1. PICK x, y \in Int : x <= y /\ days = x..y
    <2>1. monday + 6 \in Int
        OBVIOUS
    <2>2. QED
        BY <2>1, DaysInARow
<1>2. bar.row = 0 /\ bar.col = begin - monday /\ bar.span = Cardinality(days)
    BY DEF WeekBar
<1>3. begin = x
    <2>1. x \in days /\ x - 1 \notin days /\ \A d \in days : d - 1 \notin days => d = x
        BY <1>1
    <2> HIDE DEF days
    <2>2. QED
        BY <2>1
<1>4. Cardinality(days) = y - x + 1
    BY <1>1, FS_Interval
<1> HIDE DEF days, begin, bar
<1>5. bar.col = x - monday /\ bar.col + bar.span - 1 = y - monday
    BY <1>1, <1>2, <1>3, <1>4
<1>6. DaysOfBar(monday, bar) = {monday + 7 * bar.row + col : col \in (x - monday)..(y - monday)}
    BY <1>5 DEF DaysOfBar
<1>7. \A col \in Int : monday + 7 * bar.row + col = monday + col
    BY <1>2
<1>8. DaysOfBar(monday, bar) \subseteq x..y
    <2> SUFFICES ASSUME NEW col \in (x - monday)..(y - monday)
                 PROVE  monday + 7 * bar.row + col \in x..y
        BY <1>6
    <2>1. monday + col \in x..y
        BY <1>1
    <2>2. QED
        BY <1>7, <2>1
<1>9. x..y \subseteq DaysOfBar(monday, bar)
    <2> SUFFICES ASSUME NEW d \in x..y PROVE d \in DaysOfBar(monday, bar)
        OBVIOUS
    <2>1. d - monday \in (x - monday)..(y - monday) /\ monday + (d - monday) = d
        BY <1>1
    <2>2. monday + 7 * bar.row + (d - monday) = d
        BY <1>7, <2>1
    <2>3. QED
        BY <1>6, <2>1, <2>2
<1>10. QED
    BY <1>1, <1>8, <1>9 DEF days, bar

\* A transitive and irreflexive order on a finite set has a first element.
LEMMA FirstOfOrder ==
    ASSUME NEW S, IsFiniteSet(S), S # {}, NEW R,
           \A x \in S : <<x, x>> \notin R,
           \A x, y, z \in S : <<x, y>> \in R /\ <<y, z>> \in R => <<x, z>> \in R
    PROVE  \E x \in S : \A y \in S : <<y, x>> \notin R
<1> DEFINE D(x) == {y \in S : <<y, x>> \in R}
           T == {D(x) : x \in S}
<1>1. T \subseteq FiniteSubsetsOf(S) /\ T # {}
    <2>1. \A x \in S : D(x) \in SUBSET S /\ IsFiniteSet(D(x))
        BY FS_Subset
    <2> HIDE DEF D
    <2>2. \A x \in S : D(x) \in FiniteSubsetsOf(S)
        BY <2>1 DEF FiniteSubsetsOf
    <2>3. QED
        BY <2>2
<1>2. IsWellFoundedOn(StrictSubsetOrdering(S), FiniteSubsetsOf(S))
    BY FS_StrictSubsetOrderingWellFounded
<1>3. PICK d \in T : \A e \in T : <<e, d>> \notin StrictSubsetOrdering(S)
    BY <1>1, <1>2, WFMin
<1>4. PICK x \in S : d = D(x)
    OBVIOUS
<1>5. ASSUME NEW y \in S, <<y, x>> \in R PROVE FALSE
    <2>1. D(y) \subseteq D(x) /\ y \in D(x) /\ y \notin D(y)
        BY <1>5
    <2>2. D(y) \in SUBSET S /\ D(x) \in SUBSET S /\ D(y) # D(x) /\ D(y) \in T
        BY <2>1
    <2>3. <<D(y), D(x)>> \in StrictSubsetOrdering(S)
        BY <2>1, <2>2 DEF StrictSubsetOrdering
    <2>4. QED
        BY <1>3, <1>4, <2>2, <2>3
<1>6. QED
    BY <1>5

-----------------------------------------------------------------------------
(* The rows of bars *)

\* Bars before they have a lane, and the last column of a bar.
BareBars == [visit : Visits, row : Int, col : Int, span : Nat \ {0}, lane : {0}]
LastCol(bar) == bar.col + bar.span - 1

\* A bar without its lane, and with one.
Bare(bar) == [bar EXCEPT !.lane = 0]
Laned(bar, n) == [bar EXCEPT !.lane = n]

\* What is so after n bars have been placed.  The bars come by column, so a new
\* lane is opened for a bar only if each lane has one that reaches its column.
RowSound(bars, n, row) ==
    /\ row.rest \subseteq bars /\ Cardinality(row.rest) = Cardinality(bars) - n
    /\ row.ends \in Seq(Int)
    /\ \A p \in row.bars : /\ Bare(p) \in bars \ row.rest /\ p = Laned(Bare(p), p.lane)
                           /\ p.lane \in 1..Len(row.ends) /\ LastCol(p) <= row.ends[p.lane]
    /\ \A b \in bars \ row.rest : \E p \in row.bars : Bare(p) = b
    /\ \A p, q \in row.bars : Bare(p) = Bare(q) => p = q
    /\ \A p \in row.bars : \A r \in row.rest : p.col <= r.col
    /\ \A p, q \in row.bars :
          p # q /\ p.lane = q.lane => LastCol(p) < q.col \/ LastCol(q) < p.col
    /\ \A l \in 1..Len(row.ends) : \E p \in row.bars : p.lane = l /\ LastCol(p) = row.ends[l]
    /\ Len(row.ends) > 0 =>
          \E p \in row.bars : \A l \in 1..Len(row.ends) :
              \E q \in row.bars : q.lane = l /\ q.col <= p.col /\ p.col <= LastCol(q)

\* Some bar comes next in the sort.
LEMMA NextBarIs ==
    ASSUME NEW bars, bars \subseteq BareBars, IsFiniteSet(bars), bars # {}
    PROVE  NextBar(bars) \in bars /\ \A other \in bars : NextBar(bars).col <= other.col
<1> DEFINE R == {p \in bars \X bars : BarBefore(p[1], p[2])}
<1>1. \A x \in bars : x.col \in Int /\ x.span \in Int
    BY DEF BareBars
<1>2. \A x, y \in bars : <<x, y>> \in R <=> BarBefore(x, y)
    OBVIOUS
<1> HIDE DEF R
<1>3. \A x \in bars : <<x, x>> \notin R
    BY <1>1, <1>2 DEF BarBefore
<1>4. \A x, y, z \in bars : <<x, y>> \in R /\ <<y, z>> \in R => <<x, z>> \in R
    BY <1>1, <1>2 DEF BarBefore
<1>5. \E x \in bars : \A y \in bars : <<y, x>> \notin R
    BY <1>3, <1>4, FirstOfOrder
<1>6. NextBar(bars) \in bars /\ \A other \in bars : ~BarBefore(other, NextBar(bars))
    BY <1>2, <1>5 DEF NextBar
<1>7. QED
    BY <1>1, <1>6 DEF BarBefore

\* The lane that a bar gets.
LEMMA LaneFound ==
    ASSUME NEW ends \in Seq(Int), NEW bar \in BareBars, FreeLanes(ends, bar) # {}
    PROVE  LET lane == CHOOSE n \in FreeLanes(ends, bar) : \A k \in FreeLanes(ends, bar) : n <= k IN
           lane \in 1..Len(ends) /\ ends[lane] < bar.col
<1> DEFINE free == FreeLanes(ends, bar)
<1>1. free \subseteq 1..Len(ends) /\ \A n \in free : ends[n] < bar.col
    BY LenProperties DEF FreeLanes, BareBars
<1>2. free \subseteq Nat /\ free # {}
    BY <1>1, LenProperties
<1> HIDE DEF free
<1>3. \E n \in free : \A k \in free : n <= k
    BY <1>2, Placing!LeastOf
<1>4. QED
    BY <1>1, <1>3 DEF free

\* A lane is all that a bar is given.
LEMMA LanedIs ==
    ASSUME NEW bar \in BareBars, NEW n
    PROVE  /\ Laned(bar, n).lane = n /\ Bare(Laned(bar, n)) = bar
           /\ Laned(bar, n).visit = bar.visit /\ Laned(bar, n).row = bar.row
           /\ Laned(bar, n).col = bar.col /\ Laned(bar, n).span = bar.span
           /\ LastCol(Laned(bar, n)) = LastCol(bar)
           /\ bar.col \in Int /\ LastCol(bar) \in Int /\ bar.col <= LastCol(bar)
<1>1. /\ Laned(bar, n).lane = n /\ Laned(bar, n).visit = bar.visit /\ Laned(bar, n).row = bar.row
      /\ Laned(bar, n).col = bar.col /\ Laned(bar, n).span = bar.span
    BY DEF BareBars, Laned
<1>2. Bare(Laned(bar, n)) = bar
    <2>1. bar.lane = 0 /\ DOMAIN bar = {"visit", "row", "col", "span", "lane"}
        BY DEF BareBars
    <2>2. bar = [f \in DOMAIN bar |-> bar[f]]
        BY DEF BareBars
    <2>3. Bare(Laned(bar, n)) = [f \in DOMAIN bar |-> bar[f]]
        BY <2>1 DEF Bare, Laned
    <2>4. QED
        BY <2>2, <2>3
<1>3. bar.col \in Int /\ LastCol(bar) \in Int /\ bar.col <= LastCol(bar)
    BY DEF BareBars, LastCol
<1>4. LastCol(Laned(bar, n)) = LastCol(bar)
    BY <1>1 DEF LastCol
<1>5. QED
    BY <1>1, <1>2, <1>3, <1>4

\* What placing a bar does to a row: the bar goes in a lane that ended before
\* it, or in a new one if all of them reach it.
LEMMA PlaceBarIs ==
    ASSUME NEW bars, bars \subseteq BareBars, IsFiniteSet(bars),
           NEW row, row.rest \subseteq bars, row.rest # {}, row.ends \in Seq(Int)
    PROVE  \E bar \in row.rest : \E lane \in Nat :
               /\ \A other \in row.rest : bar.col <= other.col
               /\ PlaceBar(row).rest = row.rest \ {bar}
               /\ PlaceBar(row).bars = row.bars \union {Laned(bar, lane)}
               /\ PlaceBar(row).ends \in Seq(Int)
               /\ lane \in 1..Len(PlaceBar(row).ends)
               /\ PlaceBar(row).ends[lane] = LastCol(bar)
               /\ \A l \in 1..Len(row.ends) : l # lane => PlaceBar(row).ends[l] = row.ends[l]
               /\ \/ /\ Len(PlaceBar(row).ends) = Len(row.ends)
                     /\ row.ends[lane] < bar.col
                  \/ /\ Len(PlaceBar(row).ends) = Len(row.ends) + 1 /\ lane = Len(row.ends) + 1
                     /\ \A l \in 1..Len(row.ends) : bar.col <= row.ends[l]
<1> DEFINE bar == NextBar(row.rest)
           free == FreeLanes(row.ends, bar)
           least == CHOOSE n \in free : \A k \in free : n <= k
           lane == IF free = {} THEN Len(row.ends) + 1 ELSE least
           ends == IF free = {} THEN Append(row.ends, LastCol(bar))
                   ELSE [row.ends EXCEPT ![lane] = LastCol(bar)]
<1>1. /\ PlaceBar(row).rest = row.rest \ {bar}
      /\ PlaceBar(row).bars = row.bars \union {Laned(bar, lane)}
      /\ PlaceBar(row).ends = ends
    BY DEF PlaceBar, Laned, LastCol
<1>2. bar \in row.rest /\ \A other \in row.rest : bar.col <= other.col
    <2>1. row.rest \subseteq BareBars /\ IsFiniteSet(row.rest)
        BY FS_Subset
    <2>2. QED
        BY <2>1, NextBarIs
<1>3. bar \in BareBars /\ LastCol(bar) \in Int /\ bar.col \in Int
    BY <1>2, LanedIs
<1>4. Len(row.ends) \in Nat /\ DOMAIN row.ends = 1..Len(row.ends)
    BY LenProperties
<1>5. CASE free = {}
    <2>1. lane = Len(row.ends) + 1 /\ ends = Append(row.ends, LastCol(bar))
        BY <1>5
    <2>2. \A l \in 1..Len(row.ends) : bar.col <= row.ends[l]
        <3>1. \A l \in 1..Len(row.ends) : row.ends[l] \in Int /\ ~(bar.col > row.ends[l])
            BY <1>4, <1>5 DEF FreeLanes
        <3>2. QED
            BY <1>3, <3>1
    <2> HIDE DEF bar, lane, ends, free
    <2>3. /\ ends \in Seq(Int) /\ Len(ends) = Len(row.ends) + 1 /\ ends[lane] = LastCol(bar)
          /\ \A l \in 1..Len(row.ends) : ends[l] = row.ends[l]
        BY <1>3, <2>1, AppendProperties
    <2>4. lane \in Nat /\ lane \in 1..Len(ends)
        BY <1>4, <2>1, <2>3
    <2>5. QED
        BY <1>1, <1>2, <2>1, <2>2, <2>3, <2>4
<1>6. CASE free # {}
    <2>1. lane = least /\ ends = [row.ends EXCEPT ![lane] = LastCol(bar)]
        BY <1>6
    <2>2. least \in 1..Len(row.ends) /\ row.ends[least] < bar.col
        BY <1>3, <1>6, LaneFound
    <2> HIDE DEF bar, lane, ends, free, least
    <2>3. /\ ends \in Seq(Int) /\ Len(ends) = Len(row.ends) /\ ends[lane] = LastCol(bar)
          /\ \A l \in 1..Len(row.ends) : l # lane => ends[l] = row.ends[l]
        BY <1>3, <1>4, <2>1, <2>2, ExceptSeq
    <2>4. lane \in Nat /\ lane \in 1..Len(ends)
        BY <1>4, <2>1, <2>2, <2>3
    <2>5. QED
        BY <1>1, <1>2, <2>1, <2>2, <2>3, <2>4
<1>7. QED
    BY <1>5, <1>6

\* Placing one bar more.
LEMMA PlaceBarIsSound ==
    ASSUME NEW bars, bars \subseteq BareBars, IsFiniteSet(bars),
           NEW n \in Nat, n < Cardinality(bars), NEW row, RowSound(bars, n, row)
    PROVE  RowSound(bars, n + 1, PlaceBar(row))
<1>1. Cardinality(bars) \in Nat /\ row.rest # {} /\ IsFiniteSet(row.rest)
    <2>1. Cardinality(bars) \in Nat
        BY FS_CardinalityType
    <2>2. IsFiniteSet(row.rest)
        BY FS_Subset DEF RowSound
    <2>3. Cardinality(row.rest) # 0
        BY <2>1 DEF RowSound
    <2>4. QED
        BY <2>1, <2>2, <2>3, FS_EmptySet
<1>2. PICK bar \in row.rest, lane \in Nat :
               /\ \A other \in row.rest : bar.col <= other.col
               /\ PlaceBar(row).rest = row.rest \ {bar}
               /\ PlaceBar(row).bars = row.bars \union {Laned(bar, lane)}
               /\ PlaceBar(row).ends \in Seq(Int)
               /\ lane \in 1..Len(PlaceBar(row).ends)
               /\ PlaceBar(row).ends[lane] = LastCol(bar)
               /\ \A l \in 1..Len(row.ends) : l # lane => PlaceBar(row).ends[l] = row.ends[l]
               /\ \/ /\ Len(PlaceBar(row).ends) = Len(row.ends)
                     /\ row.ends[lane] < bar.col
                  \/ /\ Len(PlaceBar(row).ends) = Len(row.ends) + 1 /\ lane = Len(row.ends) + 1
                     /\ \A l \in 1..Len(row.ends) : bar.col <= row.ends[l]
    BY <1>1, PlaceBarIs DEF RowSound
<1> DEFINE new == Laned(bar, lane)
           rest == PlaceBar(row).rest
           ends == PlaceBar(row).ends
           placed == PlaceBar(row).bars
<1>3. /\ bar \in bars /\ bar \in BareBars
      /\ new.lane = lane /\ Bare(new) = bar /\ new.col = bar.col /\ LastCol(new) = LastCol(bar)
      /\ bar.col \in Int /\ LastCol(bar) \in Int /\ bar.col <= LastCol(bar)
    <2>1. bar \in bars /\ bar \in BareBars
        BY <1>2 DEF RowSound
    <2>2. QED
        BY <2>1, LanedIs
<1>4. Len(row.ends) \in Nat /\ Len(ends) \in Nat /\ Len(row.ends) <= Len(ends)
    <2>1. Len(row.ends) \in Nat /\ Len(ends) \in Nat
        BY <1>2, LenProperties DEF RowSound
    <2>2. QED
        BY <1>2, <2>1
<1>5. \A l \in 1..Len(row.ends) : row.ends[l] \in Int /\ l \in 1..Len(ends) /\ l \in Nat
    <2>1. \A l \in 1..Len(row.ends) : row.ends[l] \in Int
        BY ElementOfSeq DEF RowSound
    <2>2. QED
        BY <1>4, <2>1
\* what a bar placed before is
<1>6. \A p \in row.bars :
         /\ Bare(p) \in bars \ row.rest /\ p = Laned(Bare(p), p.lane)
         /\ p.lane \in 1..Len(row.ends) /\ LastCol(p) <= row.ends[p.lane]
         /\ p.col \in Int /\ LastCol(p) \in Int /\ p.col <= LastCol(p) /\ Bare(p) # bar
    <2> SUFFICES ASSUME NEW p \in row.bars
                 PROVE  /\ Bare(p) \in bars \ row.rest /\ p = Laned(Bare(p), p.lane)
                        /\ p.lane \in 1..Len(row.ends) /\ LastCol(p) <= row.ends[p.lane]
                        /\ p.col \in Int /\ LastCol(p) \in Int /\ p.col <= LastCol(p)
                        /\ Bare(p) # bar
        OBVIOUS
    <2>1. /\ Bare(p) \in bars \ row.rest /\ p = Laned(Bare(p), p.lane)
          /\ p.lane \in 1..Len(row.ends) /\ LastCol(p) <= row.ends[p.lane]
        BY DEF RowSound
    <2>2. Bare(p) \in BareBars
        BY <2>1
    <2>3. p.col \in Int /\ LastCol(p) \in Int /\ p.col <= LastCol(p)
        BY <2>1, <2>2, LanedIs
    <2>4. QED
        BY <2>1, <2>3
<1>7. rest \subseteq bars /\ Cardinality(rest) = Cardinality(bars) - (n + 1)
    <2>1. Cardinality(row.rest \ {bar}) = Cardinality(row.rest) - 1
        BY <1>1, FS_RemoveElement
    <2>2. QED
        BY <1>1, <1>2, <2>1 DEF RowSound
<1>8. \A p \in placed : p \in row.bars \/ p = new
    BY <1>2
<1>9. new \in placed /\ row.bars \subseteq placed /\ rest = row.rest \ {bar}
    BY <1>2
<1>10. ASSUME NEW p \in placed
       PROVE  /\ Bare(p) \in bars \ rest /\ p = Laned(Bare(p), p.lane)
              /\ p.lane \in 1..Len(ends) /\ LastCol(p) <= ends[p.lane]
    <2>1. CASE p = new
        <3>1. LastCol(p) <= ends[p.lane]
            BY <1>2, <1>3, <2>1
        <3>2. QED
            BY <1>2, <1>3, <2>1, <3>1
    <2>2. CASE p \in row.bars
        <3>1. LastCol(p) <= ends[p.lane]
            <4>1. CASE p.lane # lane
                BY <1>2, <1>6, <2>2, <4>1
            <4>2. CASE p.lane = lane
                <5>1. row.ends[lane] < bar.col /\ lane \in 1..Len(row.ends)
                    BY <1>2, <1>4, <1>6, <2>2, <4>2
                <5>2. ends[lane] = LastCol(bar)
                    BY <1>2
                <5>3. QED
                    BY <1>3, <1>5, <1>6, <2>2, <4>2, <5>1, <5>2
            <4>3. QED
                BY <4>1, <4>2
        <3>2. p.lane \in 1..Len(ends)
            BY <1>5, <1>6, <2>2
        <3>3. QED
            BY <1>6, <1>9, <2>2, <3>1, <3>2
    <2>3. QED
        BY <1>8, <2>1, <2>2
<1>11. ASSUME NEW b \in bars \ rest PROVE \E p \in placed : Bare(p) = b
    <2>1. CASE b = bar
        BY <1>3, <1>9, <2>1
    <2>2. CASE b # bar
        <3>1. b \in bars \ row.rest
            BY <1>9, <2>2
        <3>2. QED
            BY <1>9, <3>1 DEF RowSound
    <2>3. QED
        BY <2>1, <2>2
<1>12. ASSUME NEW p \in placed, NEW q \in placed, Bare(p) = Bare(q) PROVE p = q
    <2>1. CASE p \in row.bars /\ q \in row.bars
        BY <1>12, <2>1 DEF RowSound
    <2>2. CASE p = new \/ q = new
        BY <1>3, <1>6, <1>8, <1>12, <2>2
    <2>3. QED
        BY <1>8, <2>1, <2>2
<1>13. ASSUME NEW p \in placed, NEW r \in rest PROVE p.col <= r.col
    <2>1. CASE p = new
        BY <1>2, <1>3, <2>1
    <2>2. CASE p \in row.bars
        BY <1>9, <2>2 DEF RowSound
    <2>3. QED
        BY <1>8, <2>1, <2>2
\* a bar placed before in the lane of the new one
<1>14. ASSUME NEW q \in row.bars, q.lane = lane PROVE LastCol(q) < bar.col
    <2>1. row.ends[lane] < bar.col /\ lane \in 1..Len(row.ends) /\ LastCol(q) <= row.ends[lane]
        BY <1>2, <1>4, <1>6, <1>14
    <2>2. QED
        BY <1>3, <1>5, <1>6, <2>1
<1>15. ASSUME NEW p \in placed, NEW q \in placed, p # q, p.lane = q.lane
       PROVE  LastCol(p) < q.col \/ LastCol(q) < p.col
    <2>1. CASE p \in row.bars /\ q \in row.bars
        BY <1>15, <2>1 DEF RowSound
    <2>2. CASE p = new /\ q \in row.bars
        BY <1>3, <1>14, <1>15, <2>2
    <2>3. CASE q = new /\ p \in row.bars
        BY <1>3, <1>14, <1>15, <2>3
    <2>4. QED
        BY <1>8, <1>15, <2>1, <2>2, <2>3
<1>16. ASSUME NEW l \in 1..Len(ends)
       PROVE  \E p \in placed : p.lane = l /\ LastCol(p) = ends[l]
    <2>1. CASE l = lane
        BY <1>2, <1>3, <1>9, <2>1
    <2>2. CASE l # lane
        <3>1. l \in 1..Len(row.ends)
            BY <1>2, <1>4, <2>2
        <3>2. PICK p \in row.bars : p.lane = l /\ LastCol(p) = row.ends[l]
            BY <3>1 DEF RowSound
        <3>3. QED
            BY <1>2, <1>9, <2>2, <3>1, <3>2
    <2>3. QED
        BY <2>1, <2>2
<1>17. \E p \in placed : \A l \in 1..Len(ends) :
           \E q \in placed : q.lane = l /\ q.col <= p.col /\ p.col <= LastCol(q)
    <2>1. CASE Len(ends) = Len(row.ends)
        <3>1. Len(row.ends) > 0
            BY <1>2, <1>4, <2>1
        <3>2. PICK p \in row.bars : \A l \in 1..Len(row.ends) :
                  \E q \in row.bars : q.lane = l /\ q.col <= p.col /\ p.col <= LastCol(q)
            BY <3>1 DEF RowSound
        <3>3. QED
            BY <1>9, <2>1, <3>2
    <2>2. CASE /\ lane = Len(row.ends) + 1 /\ Len(ends) = Len(row.ends) + 1
               /\ \A l \in 1..Len(row.ends) : bar.col <= row.ends[l]
        <3>1. ASSUME NEW l \in 1..Len(ends)
              PROVE  \E q \in placed : q.lane = l /\ q.col <= bar.col /\ bar.col <= LastCol(q)
            <4>1. CASE l = lane
                BY <1>3, <1>9, <4>1
            <4>2. CASE l # lane
                <5>1. l \in 1..Len(row.ends)
                    BY <1>4, <2>2, <4>2
                <5>2. PICK q \in row.bars : q.lane = l /\ LastCol(q) = row.ends[l]
                    BY <5>1 DEF RowSound
                <5>3. q.col <= bar.col
                    BY DEF RowSound
                <5>4. QED
                    BY <1>9, <2>2, <5>1, <5>2, <5>3
            <4>3. QED
                BY <4>1, <4>2
        <3>2. QED
            BY <1>3, <1>9, <3>1
    <2>3. QED
        BY <1>2, <2>1, <2>2
<1> HIDE DEF new, rest, ends, placed
<1>18. ends \in Seq(Int)
    BY <1>2 DEF ends
<1>19. QED
    BY <1>7, <1>10, <1>11, <1>12, <1>13, <1>15, <1>16, <1>17, <1>18 DEF RowSound, rest, ends, placed

\* What InLanes gives: each bar once, in a lane, bars of a lane apart, and some
\* column that a bar of every lane covers.
LEMMA InLanesIs ==
    ASSUME NEW bars, bars \subseteq BareBars, IsFiniteSet(bars)
    PROVE  LET row == InLanes(bars) IN
           /\ row.ends \in Seq(Int)
           /\ \A p \in row.bars : /\ Bare(p) \in bars /\ p = Laned(Bare(p), p.lane)
                                  /\ p.lane \in 1..Len(row.ends)
           /\ \A b \in bars : \E p \in row.bars : Bare(p) = b
           /\ \A p, q \in row.bars : Bare(p) = Bare(q) => p = q
           /\ \A p, q \in row.bars :
                 p # q /\ p.lane = q.lane => LastCol(p) < q.col \/ LastCol(q) < p.col
           /\ Len(row.ends) > 0 =>
                 \E p \in row.bars : \A l \in 1..Len(row.ends) :
                     \E q \in row.bars : q.lane = l /\ q.col <= p.col /\ p.col <= LastCol(q)
<1> DEFINE start == [rest |-> bars, ends |-> << >>, bars |-> {}]
           N == Cardinality(bars)
           after(n) == Placing!Repeated(start, n)
           S == {n \in 0..N : RowSound(bars, n, after(n))}
<1>1. N \in Nat
    BY FS_CardinalityType
<1>2. after(0) = start /\ \A n \in Nat : after(n + 1) = PlaceBar(after(n))
    BY Placing!RepeatedIs
<1>3. RowSound(bars, 0, start)
    <2>1. start.ends \in Seq(Int) /\ Len(start.ends) = 0
        OBVIOUS
    <2>2. start.rest = bars /\ start.bars = {}
        OBVIOUS
    <2> HIDE DEF start
    <2>3. QED
        BY <1>1, <2>1, <2>2 DEF RowSound
<1> HIDE DEF after, start, N
<1>4. 0 \in S
    <2>1. RowSound(bars, 0, after(0))
        BY <1>2, <1>3
    <2>2. 0 \in 0..N
        BY <1>1
    <2>3. QED
        BY <2>1, <2>2
<1>5. ASSUME NEW n \in Nat, n < N, n \in S PROVE n + 1 \in S
    <2>1. RowSound(bars, n + 1, PlaceBar(after(n)))
        BY <1>5, PlaceBarIsSound DEF N
    <2>2. n + 1 \in 0..N
        BY <1>1, <1>5
    <2>3. QED
        BY <1>2, <2>1, <2>2
<1>6. RowSound(bars, N, after(N))
    <2> HIDE DEF S
    <2>1. \A n \in 0..N : n \in S
        BY <1>1, <1>4, <1>5, Placing!UpTo
    <2>2. N \in S
        BY <1>1, <2>1
    <2>3. QED
        BY <2>2 DEF S
<1>7. InLanes(bars) = after(N)
    BY DEF InLanes, after, start, N
<1>8. after(N).rest = {}
    <2>1. after(N).rest \subseteq bars /\ Cardinality(after(N).rest) = 0
        BY <1>1, <1>6 DEF RowSound, N
    <2>2. IsFiniteSet(after(N).rest)
        BY <2>1, FS_Subset
    <2>3. QED
        BY <2>1, <2>2, FS_EmptySet
<1>9. QED
    BY <1>6, <1>7, <1>8 DEF RowSound

-----------------------------------------------------------------------------
(* The columns of blocks *)

\* Blocks before they have a column, the row after a block, a block with its
\* column and the number of columns, and without.
BareBlocks == [visit : Visits, day : Int, top : Int, height : Nat \ {0}, col : {0}, total : {0}]
Foot(block) == block.top + block.height
BareBlock(block) == [block EXCEPT !.col = 0, !.total = 0]
InColumn(block, n, total) == [block EXCEPT !.col = n, !.total = total]

\* What is so after n blocks of a group have been placed.  The blocks come by
\* row, so a new column is opened for a block only if each column has one that
\* reaches its row.
ColumnsSound(group, n, g) ==
    /\ g.rest \subseteq group /\ Cardinality(g.rest) = Cardinality(group) - n
    /\ g.columns \in Seq(SUBSET group)
    /\ \A k \in 1..Len(g.columns) : g.columns[k] \subseteq group \ g.rest
    /\ \A b \in group \ g.rest : \E k \in 1..Len(g.columns) : b \in g.columns[k]
    /\ \A b \in group : \A k, l \in 1..Len(g.columns) :
          b \in g.columns[k] /\ b \in g.columns[l] => k = l
    /\ \A k \in 1..Len(g.columns) : \A a, b \in g.columns[k] : a # b => ~Overlap(a, b)
    /\ \A p \in group \ g.rest : \A r \in g.rest : p.top <= r.top
    /\ Len(g.columns) > 0 =>
          \E p \in group : \A k \in 1..Len(g.columns) :
              \E q \in g.columns[k] : q.top <= p.top /\ p.top < Foot(q)

\* Some block comes next in the sort.
LEMMA NextBlockIs ==
    ASSUME NEW blocks, blocks \subseteq BareBlocks, IsFiniteSet(blocks), blocks # {}
    PROVE  NextBlock(blocks) \in blocks /\ \A other \in blocks : NextBlock(blocks).top <= other.top
<1> DEFINE R == {p \in blocks \X blocks : BlockBefore(p[1], p[2])}
<1>1. \A x \in blocks : x.top \in Int /\ x.height \in Int
    BY DEF BareBlocks
<1>2. \A x, y \in blocks : <<x, y>> \in R <=> BlockBefore(x, y)
    OBVIOUS
<1> HIDE DEF R
<1>3. \A x \in blocks : <<x, x>> \notin R
    BY <1>1, <1>2 DEF BlockBefore
<1>4. \A x, y, z \in blocks : <<x, y>> \in R /\ <<y, z>> \in R => <<x, z>> \in R
    BY <1>1, <1>2 DEF BlockBefore
<1>5. \E x \in blocks : \A y \in blocks : <<y, x>> \notin R
    BY <1>3, <1>4, FirstOfOrder
<1>6. /\ NextBlock(blocks) \in blocks
      /\ \A other \in blocks : ~BlockBefore(other, NextBlock(blocks))
    BY <1>2, <1>5 DEF NextBlock
<1>7. QED
    BY <1>1, <1>6 DEF BlockBefore

\* What filling a column does, from g to h: a block goes in column n, which it
\* overlaps with no block of, or which is new and it overlaps with all others.
Filled(group, g, h, block, n) ==
    /\ \A other \in g.rest : block.top <= other.top
    /\ h.rest = g.rest \ {block}
    /\ h.columns \in Seq(SUBSET group)
    /\ n \in 1..Len(h.columns)
    /\ \A k \in 1..Len(g.columns) : k # n => h.columns[k] = g.columns[k]
    /\ \/ /\ Len(h.columns) = Len(g.columns)
          /\ h.columns[n] = g.columns[n] \union {block}
          /\ \A other \in g.columns[n] : ~Overlap(other, block)
       \/ /\ Len(h.columns) = Len(g.columns) + 1
          /\ n = Len(g.columns) + 1
          /\ h.columns[n] = {block}
          /\ \A k \in 1..Len(g.columns) : \E other \in g.columns[k] : Overlap(other, block)

\* FillColumn does so.
LEMMA FillColumnIs ==
    ASSUME NEW group, group \subseteq BareBlocks, IsFiniteSet(group),
           NEW g, g.rest \subseteq group, g.rest # {}, g.columns \in Seq(SUBSET group)
    PROVE  \E block \in g.rest, n \in Nat : Filled(group, g, FillColumn(g), block, n)
<1> DEFINE block == NextBlock(g.rest)
           free == {k \in DOMAIN g.columns : FreeColumn(g.columns[k], block)}
           n == CHOOSE k \in free : \A l \in free : k <= l
           columns == IF free = {} THEN Append(g.columns, {block})
                      ELSE [g.columns EXCEPT ![n] = @ \union {block}]
<1>1. FillColumn(g).rest = g.rest \ {block} /\ FillColumn(g).columns = columns
    BY DEF FillColumn
<1>2. block \in g.rest /\ \A other \in g.rest : block.top <= other.top
    <2>1. g.rest \subseteq BareBlocks /\ IsFiniteSet(g.rest)
        BY FS_Subset
    <2>2. QED
        BY <2>1, NextBlockIs
<1>3. Len(g.columns) \in Nat /\ DOMAIN g.columns = 1..Len(g.columns)
    BY LenProperties
<1>4. {block} \in SUBSET group /\ \A k \in 1..Len(g.columns) : g.columns[k] \in SUBSET group
    BY <1>2, ElementOfSeq
<1>5. \A a, b \in BareBlocks : Overlap(a, b) <=> Overlap(b, a)
    BY DEF Overlap
<1>6. \A k \in 1..Len(g.columns) : \A other \in g.columns[k] :
          Overlap(other, block) <=> Overlap(block, other)
    BY <1>2, <1>4, <1>5
<1>7. CASE free = {}
    <2>1. columns = Append(g.columns, {block})
        BY <1>7
    <2>2. \A k \in 1..Len(g.columns) : \E other \in g.columns[k] : Overlap(other, block)
        BY <1>3, <1>6, <1>7 DEF FreeColumn
    <2> HIDE DEF block, n, columns, free
    <2>3. /\ columns \in Seq(SUBSET group) /\ Len(columns) = Len(g.columns) + 1
          /\ columns[Len(g.columns) + 1] = {block}
          /\ \A k \in 1..Len(g.columns) : columns[k] = g.columns[k]
        BY <1>4, <2>1, AppendProperties
    <2>4. Len(g.columns) + 1 \in Nat /\ Len(g.columns) + 1 \in 1..Len(columns)
        BY <1>3, <2>3
    <2>5. QED
        BY <1>1, <1>2, <2>2, <2>3, <2>4 DEF Filled
<1>8. CASE free # {}
    <2>1. columns = [g.columns EXCEPT ![n] = g.columns[n] \union {block}]
        BY <1>8
    <2>2. n \in free
        <3>1. free \subseteq Nat
            BY <1>3
        <3> HIDE DEF free
        <3>2. \E k \in free : \A l \in free : k <= l
            BY <1>8, <3>1, Placing!LeastOf
        <3>3. QED
            BY <3>2
    <2>3. n \in 1..Len(g.columns) /\ \A other \in g.columns[n] : ~Overlap(other, block)
        <3>1. n \in 1..Len(g.columns) /\ FreeColumn(g.columns[n], block)
            BY <1>3, <2>2
        <3>2. QED
            BY <1>6, <3>1 DEF FreeColumn
    <2> HIDE DEF block, n, columns, free
    <2>4. g.columns[n] \union {block} \in SUBSET group
        BY <1>4, <2>3
    <2>5. /\ columns \in Seq(SUBSET group) /\ Len(columns) = Len(g.columns)
          /\ columns[n] = g.columns[n] \union {block}
          /\ \A k \in 1..Len(g.columns) : k # n => columns[k] = g.columns[k]
        BY <2>1, <2>3, <2>4, ExceptSeq
    <2>6. n \in Nat /\ n \in 1..Len(columns)
        BY <1>3, <2>3, <2>5
    <2>7. QED
        BY <1>1, <1>2, <2>3, <2>5, <2>6 DEF Filled
<1>9. QED
    BY <1>7, <1>8

\* Placing one block more.
LEMMA FillColumnIsSound ==
    ASSUME NEW group, group \subseteq BareBlocks, IsFiniteSet(group),
           NEW n \in Nat, n < Cardinality(group), NEW g, ColumnsSound(group, n, g)
    PROVE  ColumnsSound(group, n + 1, FillColumn(g))
<1>1. Cardinality(group) \in Nat /\ g.rest # {} /\ IsFiniteSet(g.rest)
    <2>1. Cardinality(group) \in Nat
        BY FS_CardinalityType
    <2>2. IsFiniteSet(g.rest)
        BY FS_Subset DEF ColumnsSound
    <2>3. Cardinality(g.rest) # 0
        BY <2>1 DEF ColumnsSound
    <2>4. QED
        BY <2>1, <2>2, <2>3, FS_EmptySet
<1> DEFINE old == g.columns
           columns == FillColumn(g).columns
           rest == FillColumn(g).rest
           Opened(block, c) ==
               /\ Len(columns) = Len(old) + 1 /\ c = Len(old) + 1 /\ columns[c] = {block}
               /\ \A k \in 1..Len(old) : \E other \in old[k] : Overlap(other, block)
           Joined(block, c) ==
               /\ Len(columns) = Len(old) /\ columns[c] = old[c] \union {block}
               /\ \A other \in old[c] : ~Overlap(other, block)
<1>2. PICK block \in g.rest, c \in Nat :
               /\ \A other \in g.rest : block.top <= other.top
               /\ rest = g.rest \ {block}
               /\ columns \in Seq(SUBSET group)
               /\ c \in 1..Len(columns)
               /\ \A k \in 1..Len(old) : k # c => columns[k] = old[k]
               /\ Joined(block, c) \/ Opened(block, c)
    <2>1. g.rest \subseteq group /\ g.columns \in Seq(SUBSET group)
        BY DEF ColumnsSound
    <2>2. PICK block \in g.rest, c \in Nat : Filled(group, g, FillColumn(g), block, c)
        BY <1>1, <2>1, FillColumnIs
    <2>3. /\ \A other \in g.rest : block.top <= other.top
          /\ rest = g.rest \ {block}
          /\ columns \in Seq(SUBSET group)
          /\ c \in 1..Len(columns)
          /\ \A k \in 1..Len(old) : k # c => columns[k] = old[k]
          /\ Joined(block, c) \/ Opened(block, c)
        BY <2>2, Zenon DEF Filled
    <2>4. QED
        BY <2>3, Zenon
<1> HIDE DEF columns, rest
<1>3. Len(old) \in Nat /\ Len(columns) \in Nat /\ Len(old) <= Len(columns)
    <2>1. Len(old) \in Nat /\ Len(columns) \in Nat
        BY <1>2, LenProperties DEF ColumnsSound
    <2>2. QED
        BY <1>2, <2>1
<1>4. /\ block \in group /\ \A b \in group : b.top \in Int /\ Foot(b) \in Int /\ b.top < Foot(b)
      /\ \A a, b \in group : Overlap(a, b) <=> a.top < Foot(b) /\ b.top < Foot(a)
    <2>1. \A b \in BareBlocks : b.top \in Int /\ Foot(b) \in Int /\ b.top < Foot(b)
        BY DEF BareBlocks, Foot
    <2>2. QED
        BY <1>2, <2>1 DEF ColumnsSound, Overlap, Foot
\* a column is what it was, but for the block
<1>5. \A k \in 1..Len(columns) : k # c => k \in 1..Len(old) /\ columns[k] = old[k]
    BY <1>2, <1>3
<1>6. \A b \in columns[c] : b = block \/ (b \in old[c] /\ c \in 1..Len(old))
    BY <1>2, <1>3
<1>7. /\ block \in columns[c]
      /\ \A k \in 1..Len(old) : k \in 1..Len(columns) /\ old[k] \subseteq columns[k]
    <2>1. block \in columns[c]
        BY <1>2
    <2>2. ASSUME NEW k \in 1..Len(old) PROVE k \in 1..Len(columns) /\ old[k] \subseteq columns[k]
        <3>1. k \in 1..Len(columns)
            BY <1>3
        <3>2. CASE k # c
            BY <1>2, <3>1, <3>2
        <3>3. CASE k = c
            BY <1>2, <1>3, <3>1, <3>3
        <3>4. QED
            BY <3>1, <3>2, <3>3
    <2>3. QED
        BY <2>1, <2>2
<1>8. \A k \in 1..Len(old) : old[k] \subseteq group \ g.rest /\ block \notin old[k]
    BY DEF ColumnsSound
<1>9. rest = g.rest \ {block}
    BY <1>2
<1>10. rest \subseteq group /\ Cardinality(rest) = Cardinality(group) - (n + 1)
    <2>1. Cardinality(g.rest \ {block}) = Cardinality(g.rest) - 1
        BY <1>1, FS_RemoveElement
    <2>2. QED
        BY <1>1, <1>9, <2>1 DEF ColumnsSound
<1>11. ASSUME NEW k \in 1..Len(columns) PROVE columns[k] \subseteq group \ rest
    BY <1>4, <1>5, <1>6, <1>8, <1>9
<1>12. ASSUME NEW b \in group \ rest PROVE \E k \in 1..Len(columns) : b \in columns[k]
    <2>1. CASE b = block
        BY <1>2, <1>7, <2>1
    <2>2. CASE b # block
        <3>1. PICK k \in 1..Len(old) : b \in old[k]
            BY <1>9, <2>2 DEF ColumnsSound
        <3>2. QED
            BY <1>7, <3>1
    <2>3. QED
        BY <2>1, <2>2
<1>13. ASSUME NEW b \in group, NEW k \in 1..Len(columns), NEW l \in 1..Len(columns),
              b \in columns[k], b \in columns[l]
       PROVE  k = l
    <2>1. CASE b = block
        BY <1>5, <1>8, <1>13, <2>1
    <2>2. CASE b # block
        <3>1. k \in 1..Len(old) /\ l \in 1..Len(old) /\ b \in old[k] /\ b \in old[l]
            BY <1>5, <1>6, <1>13, <2>2
        <3>2. QED
            BY <3>1 DEF ColumnsSound
    <2>3. QED
        BY <2>1, <2>2
<1>14. ASSUME NEW k \in 1..Len(columns), NEW a \in columns[k], NEW b \in columns[k], a # b
       PROVE  ~Overlap(a, b)
    <2>1. CASE k # c
        BY <1>5, <1>14, <2>1 DEF ColumnsSound
    <2>2. CASE k = c
        <3>1. CASE a = block \/ b = block
            <4>1. PICK other \in old[c] : c \in 1..Len(old) /\ {a, b} = {other, block}
                BY <1>6, <1>14, <2>2, <3>1
            <4>2. ~Overlap(other, block)
                BY <1>2, <1>3, <4>1
            <4>3. ~Overlap(block, other)
                BY <1>4, <1>8, <4>1, <4>2
            <4>4. QED
                BY <1>14, <4>1, <4>2, <4>3
        <3>2. CASE a # block /\ b # block
            BY <1>6, <1>14, <2>2, <3>2 DEF ColumnsSound
        <3>3. QED
            BY <3>1, <3>2
    <2>3. QED
        BY <2>1, <2>2
<1>15. ASSUME NEW p \in group \ rest, NEW r \in rest PROVE p.top <= r.top
    <2>1. CASE p = block
        BY <1>2, <1>9, <2>1
    <2>2. CASE p # block
        BY <1>9, <2>2 DEF ColumnsSound
    <2>3. QED
        BY <2>1, <2>2
<1>16. \E p \in group : \A k \in 1..Len(columns) :
           \E q \in columns[k] : q.top <= p.top /\ p.top < Foot(q)
    <2>1. CASE Joined(block, c)
        <3>1. Len(old) > 0 /\ Len(columns) = Len(old)
            BY <1>2, <1>3, <2>1
        <3>2. PICK p \in group : \A k \in 1..Len(old) :
                  \E q \in old[k] : q.top <= p.top /\ p.top < Foot(q)
            BY <3>1 DEF ColumnsSound
        <3>3. QED
            BY <1>7, <3>1, <3>2
    <2>2. CASE Opened(block, c)
        <3>1. ASSUME NEW k \in 1..Len(columns)
              PROVE  \E q \in columns[k] : q.top <= block.top /\ block.top < Foot(q)
            <4>1. CASE k = c
                BY <1>4, <1>7, <4>1
            <4>2. CASE k # c
                <5>1. k \in 1..Len(old) /\ columns[k] = old[k]
                    BY <1>5, <4>2
                <5>2. PICK q \in old[k] : Overlap(q, block)
                    BY <2>2, <5>1
                <5>3. q \in group \ g.rest
                    BY <1>8, <5>1
                <5>4. q.top <= block.top
                    BY <5>3 DEF ColumnsSound
                <5>5. block.top < Foot(q)
                    BY <1>4, <5>2, <5>3
                <5>6. QED
                    BY <5>1, <5>4, <5>5
            <4>3. QED
                BY <4>1, <4>2
        <3>2. QED
            BY <1>4, <3>1
    <2>3. QED
        BY <1>2, <2>1, <2>2
<1>17. columns \in Seq(SUBSET group)
    BY <1>2
<1>18. QED
    BY <1>10, <1>11, <1>12, <1>13, <1>14, <1>15, <1>16, <1>17 DEF ColumnsSound, columns, rest

\* A place is all that a block is given.
LEMMA InColumnIs ==
    ASSUME NEW block \in BareBlocks, NEW n, NEW total
    PROVE  LET p == InColumn(block, n, total) IN
           /\ p.col = n /\ p.total = total /\ BareBlock(p) = block
           /\ p.visit = block.visit /\ p.day = block.day /\ p.top = block.top
           /\ p.height = block.height /\ Foot(p) = Foot(block)
           /\ block.top \in Int /\ Foot(block) \in Int /\ block.top < Foot(block)
<1> DEFINE p == InColumn(block, n, total)
<1>1. /\ p.col = n /\ p.total = total /\ p.visit = block.visit /\ p.day = block.day
      /\ p.top = block.top /\ p.height = block.height
    BY DEF BareBlocks, InColumn
<1>2. BareBlock(p) = block
    <2>1. block.col = 0 /\ block.total = 0
        BY DEF BareBlocks
    <2>2. block = [f \in DOMAIN block |-> block[f]]
        BY DEF BareBlocks
    <2>3. DOMAIN block = {"visit", "day", "top", "height", "col", "total"}
        BY DEF BareBlocks
    <2>4. BareBlock(p) = [f \in DOMAIN block |-> block[f]]
        BY <2>1, <2>3 DEF BareBlock, InColumn
    <2>5. QED
        BY <2>2, <2>4
<1>3. block.top \in Int /\ Foot(block) \in Int /\ block.top < Foot(block)
    BY DEF BareBlocks, Foot
<1>4. Foot(p) = Foot(block)
    BY <1>1 DEF Foot
<1> HIDE DEF p
<1>5. QED
    BY <1>1, <1>2, <1>3, <1>4 DEF p

\* The columns of a group, once all its blocks are placed.
LEMMA ColumnsAre ==
    ASSUME NEW group, group \subseteq BareBlocks, IsFiniteSet(group)
    PROVE  ColumnsSound(group, Cardinality(group),
                        [rest |-> {},
                         columns |-> Filling!Repeated([rest |-> group, columns |-> << >>],
                                                      Cardinality(group)).columns])
<1> DEFINE start == [rest |-> group, columns |-> << >>]
           N == Cardinality(group)
           after(n) == Filling!Repeated(start, n)
           S == {n \in 0..N : ColumnsSound(group, n, after(n))}
<1>1. N \in Nat
    BY FS_CardinalityType
<1>2. after(0) = start /\ \A n \in Nat : after(n + 1) = FillColumn(after(n))
    BY Filling!RepeatedIs
<1>3. ColumnsSound(group, 0, start)
    <2>1. start.columns \in Seq(SUBSET group) /\ Len(start.columns) = 0
        OBVIOUS
    <2>2. start.rest = group
        OBVIOUS
    <2> HIDE DEF start
    <2>3. QED
        BY <1>1, <2>1, <2>2 DEF ColumnsSound
<1> HIDE DEF after, start, N
<1>4. 0 \in S
    <2>1. ColumnsSound(group, 0, after(0))
        BY <1>2, <1>3
    <2>2. 0 \in 0..N
        BY <1>1
    <2>3. QED
        BY <2>1, <2>2
<1>5. ASSUME NEW n \in Nat, n < N, n \in S PROVE n + 1 \in S
    <2>1. ColumnsSound(group, n + 1, FillColumn(after(n)))
        BY <1>5, FillColumnIsSound DEF N
    <2>2. n + 1 \in 0..N
        BY <1>1, <1>5
    <2>3. QED
        BY <1>2, <2>1, <2>2
<1>6. ColumnsSound(group, N, after(N))
    <2> HIDE DEF S
    <2>1. \A n \in 0..N : n \in S
        BY <1>1, <1>4, <1>5, Filling!UpTo
    <2>2. N \in S
        BY <1>1, <2>1
    <2>3. QED
        BY <2>2 DEF S
<1>7. after(N).rest = {}
    <2>1. after(N).rest \subseteq group /\ Cardinality(after(N).rest) = 0
        BY <1>1, <1>6 DEF ColumnsSound, N
    <2>2. IsFiniteSet(after(N).rest)
        BY <2>1, FS_Subset
    <2>3. QED
        BY <2>1, <2>2, FS_EmptySet
<1>8. ColumnsSound(group, N, [rest |-> {}, columns |-> after(N).columns])
    <2> DEFINE end == [rest |-> {}, columns |-> after(N).columns]
    <2>1. end.rest = after(N).rest /\ end.columns = after(N).columns
        BY <1>7
    <2> HIDE DEF end
    <2>2. ColumnsSound(group, N, end)
        BY <1>6, <2>1, Zenon DEF ColumnsSound
    <2>3. QED
        BY <2>2 DEF end
<1>9. QED
    BY <1>8 DEF after, start, N

\* The blocks of one group, each in one column of the group, those of a column
\* apart, and some row in which all columns have a block.
Arranged(group, blocks, total) ==
    /\ total \in Nat
    /\ \A p \in blocks : /\ BareBlock(p) \in group /\ p = InColumn(BareBlock(p), p.col, total)
                         /\ p.col \in 1..total
    /\ \A b \in group : \E p \in blocks : BareBlock(p) = b
    /\ \A p, q \in blocks : BareBlock(p) = BareBlock(q) => p = q
    /\ \A p, q \in blocks : p # q /\ p.col = q.col => ~Overlap(p, q)
    /\ \A p \in blocks : \E w \in group : \A k \in 1..total :
          \E q \in blocks : q.col = k /\ q.top <= w.top /\ w.top < Foot(q)

\* What InColumns gives is arranged so.
LEMMA InColumnsIs ==
    ASSUME NEW group, group \subseteq BareBlocks, IsFiniteSet(group)
    PROVE  \E total \in Nat : Arranged(group, InColumns(group), total)
<1> DEFINE columns == Filling!Repeated([rest |-> group, columns |-> << >>],
                                       Cardinality(group)).columns
           g == [rest |-> {}, columns |-> columns]
           L == Len(columns)
           blocks == UNION {{InColumn(block, n, L) : block \in columns[n]} : n \in DOMAIN columns}
<1>1. InColumns(group) = blocks
    BY DEF InColumns, InColumn
<1>2. ColumnsSound(group, Cardinality(group), g) /\ g.columns = columns /\ g.rest = {}
    BY ColumnsAre
<1> HIDE DEF columns
<1>3. L \in Nat /\ DOMAIN columns = 1..L
    <2>1. columns \in Seq(SUBSET group)
        BY <1>2 DEF ColumnsSound
    <2>2. QED
        BY <2>1, LenProperties
<1> HIDE DEF g, L
<1>4. /\ \A k \in 1..L : columns[k] \subseteq group
      /\ \A b \in group : \E k \in 1..L : b \in columns[k]
      /\ \A b \in group : \A k, l \in 1..L : b \in columns[k] /\ b \in columns[l] => k = l
      /\ \A k \in 1..L : \A a, b \in columns[k] : a # b => ~Overlap(a, b)
      /\ L > 0 => \E p \in group : \A k \in 1..L :
                      \E q \in columns[k] : q.top <= p.top /\ p.top < Foot(q)
    BY <1>2, Zenon DEF ColumnsSound, L
<1>5. \A p : p \in blocks <=> \E k \in 1..L : \E b \in columns[k] : p = InColumn(b, k, L)
    BY <1>3
<1> HIDE DEF blocks
<1>6. \A b \in group, k \in 1..L :
          /\ InColumn(b, k, L).col = k /\ BareBlock(InColumn(b, k, L)) = b
          /\ InColumn(b, k, L).top = b.top /\ Foot(InColumn(b, k, L)) = Foot(b)
    BY InColumnIs
<1>7. \A a, b \in group, k, l \in 1..L :
          Overlap(InColumn(a, k, L), InColumn(b, l, L)) <=> Overlap(a, b)
    BY <1>6 DEF Overlap, Foot
<1>8. ASSUME NEW p \in blocks
      PROVE  /\ BareBlock(p) \in columns[p.col] /\ BareBlock(p) \in group
             /\ p = InColumn(BareBlock(p), p.col, L) /\ p.col \in 1..L
    <2>1. PICK k \in 1..L : \E b \in columns[k] : p = InColumn(b, k, L)
        BY <1>5
    <2>2. PICK b \in columns[k] : p = InColumn(b, k, L)
        BY <2>1
    <2>3. b \in group
        BY <1>4
    <2>4. QED
        BY <1>6, <2>2, <2>3
<1>9. ASSUME NEW b \in group PROVE \E p \in blocks : BareBlock(p) = b
    <2>1. PICK k \in 1..L : b \in columns[k]
        BY <1>4
    <2>2. QED
        BY <1>5, <1>6, <2>1
<1>10. ASSUME NEW p \in blocks, NEW q \in blocks, BareBlock(p) = BareBlock(q) PROVE p = q
    BY <1>4, <1>8, <1>10
<1>11. ASSUME NEW p \in blocks, NEW q \in blocks, p # q, p.col = q.col PROVE ~Overlap(p, q)
    <2>1. BareBlock(p) # BareBlock(q)
        BY <1>8, <1>11
    <2>2. ~Overlap(BareBlock(p), BareBlock(q))
        BY <1>4, <1>8, <1>11, <2>1
    <2>3. QED
        BY <1>7, <1>8, <2>2
<1>12. ASSUME NEW p \in blocks
       PROVE  \E w \in group : \A k \in 1..L :
                  \E q \in blocks : q.col = k /\ q.top <= w.top /\ w.top < Foot(q)
    <2>1. L > 0
        BY <1>3, <1>8
    <2>2. PICK w \in group : \A k \in 1..L : \E q \in columns[k] : q.top <= w.top /\ w.top < Foot(q)
        BY <1>4, <2>1
    <2>3. ASSUME NEW k \in 1..L
          PROVE  \E q \in blocks : q.col = k /\ q.top <= w.top /\ w.top < Foot(q)
        <3>1. PICK q \in columns[k] : q.top <= w.top /\ w.top < Foot(q)
            BY <2>2
        <3>2. q \in group /\ InColumn(q, k, L) \in blocks
            BY <1>4, <1>5
        <3>3. QED
            BY <1>6, <3>1, <3>2
    <2>4. QED
        BY <2>3
<1>13. Arranged(group, blocks, L)
    BY <1>3, <1>8, <1>9, <1>10, <1>11, <1>12 DEF Arranged
<1>14. QED
    BY <1>1, <1>3, <1>13

-----------------------------------------------------------------------------
(* The groups of blocks *)

\* What is so after n blocks have been joined to groups.
GroupsSound(blocks, n, c) ==
    /\ c.rest \subseteq blocks /\ Cardinality(c.rest) = Cardinality(blocks) - n
    /\ \A g \in c.groups : g \subseteq blocks \ c.rest
    /\ \A b \in blocks \ c.rest : \E g \in c.groups : b \in g
    /\ \A g, h \in c.groups : \A b \in g : b \in h => g = h
    /\ \A g \in c.groups : \A a \in g : \A b \in blocks \ c.rest : Overlap(a, b) => b \in g

\* Joining one block more.
LEMMA JoinGroupsIsSound ==
    ASSUME NEW blocks, blocks \subseteq BareBlocks, IsFiniteSet(blocks),
           NEW n \in Nat, n < Cardinality(blocks), NEW c, GroupsSound(blocks, n, c)
    PROVE  GroupsSound(blocks, n + 1, JoinGroups(c))
<1> DEFINE block == NextBlock(c.rest)
           met == {g \in c.groups : \E other \in g : Overlap(block, other)}
           united == (UNION met) \union {block}
           rest == JoinGroups(c).rest
           groups == JoinGroups(c).groups
<1>1. rest = c.rest \ {block} /\ groups = (c.groups \ met) \union {united}
    BY DEF JoinGroups
<1>2. Cardinality(blocks) \in Nat /\ IsFiniteSet(c.rest) /\ block \in c.rest
    <2>1. Cardinality(blocks) \in Nat
        BY FS_CardinalityType
    <2>2. IsFiniteSet(c.rest) /\ c.rest \subseteq BareBlocks
        BY FS_Subset DEF GroupsSound
    <2>3. Cardinality(c.rest) # 0
        BY <2>1 DEF GroupsSound
    <2>4. c.rest # {}
        BY <2>2, <2>3, FS_EmptySet
    <2>5. QED
        BY <2>1, <2>2, <2>4, NextBlockIs
<1>3. \A a, b \in blocks : Overlap(a, b) <=> Overlap(b, a)
    <2>1. \A a, b \in BareBlocks : Overlap(a, b) <=> Overlap(b, a)
        BY DEF Overlap
    <2>2. QED
        BY <2>1
<1>4. block \in blocks /\ c.rest \subseteq blocks
    BY <1>2 DEF GroupsSound
<1> HIDE DEF block
<1>5. \A g \in c.groups : g \subseteq blocks \ c.rest /\ block \notin g
    BY <1>2 DEF GroupsSound
<1>6. \A g \in met : g \in c.groups /\ g \subseteq united
    OBVIOUS
<1>7. \A b \in united : b = block \/ \E g \in met : b \in g
    OBVIOUS
<1>8. \A g \in c.groups : g \in met <=> \E other \in g : Overlap(block, other)
    OBVIOUS
<1>9. /\ block \in united /\ united \in groups
      /\ \A g \in groups : (g \in c.groups /\ g \notin met) \/ g = united
    BY <1>1
<1>10. \A g \in c.groups : g \in met \/ g \in groups
    BY <1>1
<1> HIDE DEF met, united, rest, groups
<1>11. rest \subseteq blocks /\ Cardinality(rest) = Cardinality(blocks) - (n + 1)
    <2>1. Cardinality(c.rest \ {block}) = Cardinality(c.rest) - 1
        BY <1>2, FS_RemoveElement
    <2>2. QED
        BY <1>1, <1>2, <2>1 DEF GroupsSound
<1>12. united \subseteq blocks \ rest
    BY <1>1, <1>4, <1>5, <1>6, <1>7
<1>13. ASSUME NEW g \in groups PROVE g \subseteq blocks \ rest
    BY <1>1, <1>5, <1>9, <1>12
<1>14. ASSUME NEW b \in blocks \ rest PROVE \E g \in groups : b \in g
    <2>1. CASE b = block
        BY <1>9, <2>1
    <2>2. CASE b # block
        <3>1. PICK g \in c.groups : b \in g
            BY <1>1, <2>2 DEF GroupsSound
        <3>2. QED
            BY <1>6, <1>9, <1>10, <3>1
    <2>3. QED
        BY <2>1, <2>2
\* a group that the block did not meet has nothing in common with the new one
<1>15. ASSUME NEW g \in c.groups, g \notin met, NEW b \in g PROVE b \notin united
    <2>1. SUFFICES ASSUME b \in united PROVE FALSE
        OBVIOUS
    <2>2. PICK h \in met : b \in h
        BY <1>5, <1>7, <2>1
    <2>3. g = h
        BY <1>6, <2>2 DEF GroupsSound
    <2>4. QED
        BY <1>15, <2>2, <2>3
<1>16. ASSUME NEW g \in groups, NEW h \in groups, NEW b \in g, b \in h PROVE g = h
    <2>1. CASE g = united \/ h = united
        BY <1>9, <1>15, <1>16, <2>1
    <2>2. CASE g \in c.groups /\ h \in c.groups
        BY <1>16, <2>2 DEF GroupsSound
    <2>3. QED
        BY <1>9, <2>1, <2>2
<1>17. ASSUME NEW g \in groups, NEW a \in g, NEW b \in blocks \ rest, Overlap(a, b) PROVE b \in g
    <2>1. b = block \/ b \in blocks \ c.rest
        BY <1>1
    <2>2. CASE g = united
        <3>1. CASE b = block
            BY <1>9, <2>2, <3>1
        <3>2. CASE b # block /\ a = block
            <4>1. PICK h \in c.groups : b \in h
                BY <2>1, <3>2 DEF GroupsSound
            <4>2. h \in met
                BY <1>8, <1>17, <3>2, <4>1
            <4>3. QED
                BY <1>6, <2>2, <4>1, <4>2
        <3>3. CASE b # block /\ a # block
            <4>1. PICK h \in met : a \in h
                BY <1>7, <2>2, <3>3
            <4>2. b \in h
                BY <1>6, <1>17, <2>1, <3>3, <4>1 DEF GroupsSound
            <4>3. QED
                BY <1>6, <2>2, <4>1, <4>2
        <3>4. QED
            BY <3>1, <3>2, <3>3
    <2>3. CASE g \in c.groups /\ g \notin met
        <3>1. CASE b = block
            <4>1. a \in blocks
                BY <1>5, <2>3
            <4>2. Overlap(block, a)
                BY <1>3, <1>4, <1>17, <3>1, <4>1
            <4>3. QED
                BY <1>8, <2>3, <4>2
        <3>2. CASE b # block
            BY <1>17, <2>1, <2>3, <3>2 DEF GroupsSound
        <3>3. QED
            BY <3>1, <3>2
    <2>4. QED
        BY <1>9, <2>2, <2>3
<1>18. QED
    BY <1>11, <1>13, <1>14, <1>16, <1>17 DEF GroupsSound, rest, groups

\* The groups are a partition of the blocks, and blocks that overlap are in one.
LEMMA GroupsAre ==
    ASSUME NEW blocks, blocks \subseteq BareBlocks, IsFiniteSet(blocks)
    PROVE  LET groups == OverlapGroups(blocks) IN
           /\ \A g \in groups : g \subseteq blocks
           /\ \A b \in blocks : \E g \in groups : b \in g
           /\ \A g, h \in groups : \A b \in g : b \in h => g = h
           /\ \A g \in groups : \A a \in g : \A b \in blocks : Overlap(a, b) => b \in g
<1> DEFINE start == [rest |-> blocks, groups |-> {}]
           N == Cardinality(blocks)
           after(n) == Joining!Repeated(start, n)
           S == {n \in 0..N : GroupsSound(blocks, n, after(n))}
<1>1. N \in Nat
    BY FS_CardinalityType
<1>2. after(0) = start /\ \A n \in Nat : after(n + 1) = JoinGroups(after(n))
    BY Joining!RepeatedIs
<1>3. GroupsSound(blocks, 0, start)
    BY <1>1 DEF GroupsSound
<1>4. OverlapGroups(blocks) = after(N).groups
    BY DEF OverlapGroups
<1> HIDE DEF after, start, N
<1>5. 0 \in S
    <2>1. GroupsSound(blocks, 0, after(0))
        BY <1>2, <1>3
    <2>2. 0 \in 0..N
        BY <1>1
    <2>3. QED
        BY <2>1, <2>2
<1>6. ASSUME NEW n \in Nat, n < N, n \in S PROVE n + 1 \in S
    <2>1. GroupsSound(blocks, n + 1, JoinGroups(after(n)))
        BY <1>6, JoinGroupsIsSound DEF N
    <2>2. n + 1 \in 0..N
        BY <1>1, <1>6
    <2>3. QED
        BY <1>2, <2>1, <2>2
<1>7. GroupsSound(blocks, N, after(N))
    <2> HIDE DEF S
    <2>1. \A n \in 0..N : n \in S
        BY <1>1, <1>5, <1>6, Joining!UpTo
    <2>2. N \in S
        BY <1>1, <2>1
    <2>3. QED
        BY <2>2 DEF S
<1>8. after(N).rest = {}
    <2>1. after(N).rest \subseteq blocks /\ Cardinality(after(N).rest) = 0
        BY <1>1, <1>7 DEF GroupsSound, N
    <2>2. IsFiniteSet(after(N).rest)
        BY <2>1, FS_Subset
    <2>3. QED
        BY <2>1, <2>2, FS_EmptySet
<1>9. QED
    BY <1>4, <1>7, <1>8 DEF GroupsSound

\* What SideBySide gives: each block once, in one of the columns of its group,
\* blocks that overlap in different columns of the same group, and for each
\* block a row in which all columns of its group have a block.
LEMMA SideBySideIs ==
    ASSUME NEW blocks, blocks \subseteq BareBlocks, IsFiniteSet(blocks)
    PROVE  LET placed == SideBySide(blocks) IN
           /\ \A p \in placed : /\ BareBlock(p) \in blocks
                                /\ p.total \in Nat /\ p.col \in 1..p.total
                                /\ p = InColumn(BareBlock(p), p.col, p.total)
           /\ \A b \in blocks : \E p \in placed : BareBlock(p) = b
           /\ \A p, q \in placed : BareBlock(p) = BareBlock(q) => p = q
           /\ \A p, q \in placed : p # q /\ Overlap(p, q) => p.total = q.total /\ p.col # q.col
           /\ \A p \in placed : \E w \in blocks : \A k \in 1..p.total : \E q \in placed :
                 q.col = k /\ q.total = p.total /\ q.top <= w.top /\ w.top < Foot(q)
<1> DEFINE groups == OverlapGroups(blocks)
           placed == SideBySide(blocks)
<1>1. /\ \A g \in groups : g \subseteq blocks
      /\ \A b \in blocks : \E g \in groups : b \in g
      /\ \A g, h \in groups : \A b \in g : b \in h => g = h
      /\ \A g \in groups : \A a \in g : \A b \in blocks : Overlap(a, b) => b \in g
    BY GroupsAre
<1>2. \A p : p \in placed <=> \E g \in groups : p \in InColumns(g)
    BY DEF SideBySide
<1> HIDE DEF groups, placed
<1>3. \A g \in groups : \E total \in Nat : Arranged(g, InColumns(g), total)
    <2> SUFFICES ASSUME NEW g \in groups PROVE \E total \in Nat : Arranged(g, InColumns(g), total)
        OBVIOUS
    <2>1. g \subseteq BareBlocks /\ IsFiniteSet(g)
        BY <1>1, FS_Subset
    <2>2. QED
        BY <2>1, InColumnsIs
<1> DEFINE Total(g) == CHOOSE total \in Nat : Arranged(g, InColumns(g), total)
<1>4. \A g \in groups : Total(g) \in Nat /\ Arranged(g, InColumns(g), Total(g))
    BY <1>3
<1> HIDE DEF Total
<1>5. \A g \in groups :
         /\ \A p \in InColumns(g) :
               /\ BareBlock(p) \in g /\ p.col \in 1..Total(g)
               /\ p = InColumn(BareBlock(p), p.col, Total(g))
         /\ \A b \in g : \E p \in InColumns(g) : BareBlock(p) = b
         /\ \A p, q \in InColumns(g) : BareBlock(p) = BareBlock(q) => p = q
         /\ \A p, q \in InColumns(g) : p # q /\ p.col = q.col => ~Overlap(p, q)
         /\ \A p \in InColumns(g) : \E w \in g : \A k \in 1..Total(g) :
               \E q \in InColumns(g) : q.col = k /\ q.top <= w.top /\ w.top < Foot(q)
    BY <1>4, Zenon DEF Arranged
\* a block has the number of columns of its group
<1>6. ASSUME NEW g \in groups, NEW p \in InColumns(g)
      PROVE  /\ p \in placed /\ p.total = Total(g) /\ BareBlock(p) \in g
             /\ BareBlock(p) \in blocks /\ p.col \in 1..Total(g)
             /\ p.top = BareBlock(p).top /\ p.height = BareBlock(p).height
    <2>1. /\ BareBlock(p) \in g /\ p = InColumn(BareBlock(p), p.col, Total(g))
          /\ BareBlock(p) \in blocks /\ BareBlock(p) \in BareBlocks
        BY <1>1, <1>5
    <2>2. p.total = Total(g) /\ p.top = BareBlock(p).top /\ p.height = BareBlock(p).height
        BY <2>1, InColumnIs
    <2>3. QED
        BY <1>2, <1>5, <2>1, <2>2
\* and no block is in two groups
<1>7. ASSUME NEW g \in groups, NEW h \in groups, NEW p \in InColumns(g), NEW q \in InColumns(h),
             BareBlock(p) = BareBlock(q)
      PROVE  g = h
    BY <1>1, <1>6, <1>7
<1>8. ASSUME NEW p \in placed
      PROVE  /\ BareBlock(p) \in blocks /\ p.total \in Nat /\ p.col \in 1..p.total
             /\ p = InColumn(BareBlock(p), p.col, p.total)
    <2>1. PICK g \in groups : p \in InColumns(g)
        BY <1>2
    <2>2. QED
        BY <1>4, <1>5, <1>6, <2>1
<1>9. ASSUME NEW b \in blocks PROVE \E p \in placed : BareBlock(p) = b
    <2>1. PICK g \in groups : b \in g
        BY <1>1
    <2>2. QED
        BY <1>2, <1>5, <2>1
<1>10. ASSUME NEW p \in placed, NEW q \in placed, BareBlock(p) = BareBlock(q) PROVE p = q
    <2>1. PICK g \in groups : p \in InColumns(g)
        BY <1>2
    <2>2. PICK h \in groups : q \in InColumns(h)
        BY <1>2
    <2>3. g = h
        BY <1>7, <1>10, <2>1, <2>2
    <2>4. QED
        BY <1>5, <1>10, <2>1, <2>2, <2>3
<1>11. ASSUME NEW p \in placed, NEW q \in placed, p # q, Overlap(p, q)
       PROVE  p.total = q.total /\ p.col # q.col
    <2>1. PICK g \in groups : p \in InColumns(g)
        BY <1>2
    <2>2. PICK h \in groups : q \in InColumns(h)
        BY <1>2
    <2>3. Overlap(BareBlock(p), BareBlock(q))
        <3>1. /\ p.top = BareBlock(p).top /\ p.height = BareBlock(p).height
              /\ q.top = BareBlock(q).top /\ q.height = BareBlock(q).height
            BY <1>6, <2>1, <2>2
        <3>2. QED
            BY <1>11, <3>1 DEF Overlap
    <2>4. g = h
        BY <1>1, <1>6, <2>1, <2>2, <2>3
    <2>5. QED
        BY <1>5, <1>6, <1>11, <2>1, <2>2, <2>4
<1>12. ASSUME NEW p \in placed
       PROVE  \E w \in blocks : \A k \in 1..p.total : \E q \in placed :
                 q.col = k /\ q.total = p.total /\ q.top <= w.top /\ w.top < Foot(q)
    <2>1. PICK g \in groups : p \in InColumns(g)
        BY <1>2
    <2>2. PICK w \in g : \A k \in 1..Total(g) :
              \E q \in InColumns(g) : q.col = k /\ q.top <= w.top /\ w.top < Foot(q)
        BY <1>5, <2>1
    <2>3. w \in blocks /\ p.total = Total(g)
        BY <1>1, <1>6, <2>1
    <2>4. QED
        BY <1>6, <2>2, <2>3
<1>13. QED
    BY <1>8, <1>9, <1>10, <1>11, <1>12 DEF placed

-----------------------------------------------------------------------------
(* Counting *)

\* A set with a key for each of its elements, each once, has as many elements.
LEMMA CountByKey ==
    ASSUME NEW L \in Nat, NEW Q, NEW f \in [Q -> 1..L],
           \A p, q \in Q : f[p] = f[q] => p = q,
           \A k \in 1..L : \E q \in Q : f[q] = k
    PROVE  Cardinality(Q) = L /\ IsFiniteSet(Q)
<1>1. f \in Injection(Q, 1..L) /\ f \in Surjection(Q, 1..L)
    BY DEF Injection, Surjection, IsInjective
<1>2. IsFiniteSet(1..L) /\ Cardinality(1..L) = L
    BY FS_Interval
<1>3. QED
    BY <1>1, <1>2, FS_Injection

\* One block for each of the columns of a group.
LEMMA OneOfEachColumn ==
    ASSUME NEW L \in Nat, NEW Q, \A k \in 1..L : \E q \in Q : q.col = k
    PROVE  \E here \in SUBSET Q : Cardinality(here) = L
<1> DEFINE One(k) == CHOOSE q \in Q : q.col = k
           here == {One(k) : k \in 1..L}
           f == [q \in here |-> q.col]
<1>1. \A k \in 1..L : One(k) \in Q /\ One(k).col = k
    OBVIOUS
<1> HIDE DEF One
<1>2. \A q \in here : q.col \in 1..L /\ q = One(q.col)
    BY <1>1
<1>3. \A k \in 1..L : One(k) \in here
    OBVIOUS
<1>4. here \subseteq Q
    BY <1>1
<1> HIDE DEF here
<1>5. f \in [here -> 1..L]
    BY <1>2
<1>6. \A p, q \in here : f[p] = f[q] => p = q
    BY <1>2
<1>7. \A k \in 1..L : \E q \in here : f[q] = k
    BY <1>1, <1>3
<1> HIDE DEF f
<1>8. Cardinality(here) = L
    BY <1>5, <1>6, <1>7, CountByKey
<1>9. QED
    BY <1>4, <1>8

\* A set whose elements are told apart by a key from a finite set is finite.
LEMMA FiniteByKey ==
    ASSUME NEW S, NEW T, IsFiniteSet(T), NEW f \in [S -> T],
           \A p, q \in S : f[p] = f[q] => p = q
    PROVE  IsFiniteSet(S)
<1>1. f \in Injection(S, T)
    BY DEF Injection, IsInjective
<1>2. QED
    BY <1>1, FS_Injection

\* A set whose elements all stand for the same thing has one element or none.
LEMMA OneOrNone ==
    ASSUME NEW S, \A p, q \in S : p = q
    PROVE  Cardinality(S) = (IF S = {} THEN 0 ELSE 1)
<1>1. CASE S = {}
    BY <1>1, FS_EmptySet
<1>2. CASE S # {}
    <2>1. PICK x : x \in S
        BY <1>2
    <2>2. S = {x}
        BY <2>1
    <2>3. QED
        BY <1>2, <2>2, FS_Singleton
<1>3. QED
    BY <1>1, <1>2

-----------------------------------------------------------------------------
(* The bars of a page *)

\* The days of a bar, from its first column to its last.
LEMMA DaysOfBarAre ==
    ASSUME NEW first \in Int, NEW bar, bar.row \in Int, bar.col \in Int, LastCol(bar) \in Int
    PROVE  DaysOfBar(first, bar) =
               (first + 7 * bar.row + bar.col)..(first + 7 * bar.row + LastCol(bar))
<1> DEFINE monday == first + 7 * bar.row
           c == bar.col
           l == LastCol(bar)
<1>1. monday \in Int /\ c \in Int /\ l \in Int
    OBVIOUS
<1>2. DaysOfBar(first, bar) = {monday + col : col \in c..l}
    BY DEF DaysOfBar, LastCol
<1> HIDE DEF monday, c, l
<1>3. \A day \in (monday + c)..(monday + l) : day - monday \in c..l /\ monday + (day - monday) = day
    BY <1>1
<1>4. \A col \in c..l : monday + col \in (monday + c)..(monday + l)
    BY <1>1
<1>5. {monday + col : col \in c..l} = (monday + c)..(monday + l)
    BY <1>3, <1>4
<1>6. QED
    BY <1>2, <1>5 DEF monday, c, l

\* Bars that are laid out in rows.
LaidInRows(bars, rows, W, B) ==
    /\ B \subseteq BareBars /\ IsFiniteSet(B) /\ \A b \in B : b.row \in W
    /\ \A w \in W : rows[w] = InLanes({b \in B : b.row = w})
    /\ bars = UNION {rows[w].bars : w \in W}

\* Each bar is there once, those in one lane of a row are on different days, and
\* a row with lanes has a day on which all of its lanes have a bar.
RowsHold(first, bars, rows, W, B) ==
    /\ \A p \in bars : /\ Bare(p) \in B /\ p.visit = Bare(p).visit /\ p.row = Bare(p).row
                       /\ DaysOfBar(first, p) = DaysOfBar(first, Bare(p))
    /\ \A b \in B : \E p \in bars : Bare(p) = b
    /\ \A p, q \in bars : Bare(p) = Bare(q) => p = q
    /\ \A p, q \in bars : p # q /\ p.row = q.row /\ p.lane = q.lane
                            => DaysOfBar(first, p) \intersect DaysOfBar(first, q) = {}
    /\ \A w \in W : Len(rows[w].ends) > 0 =>
          \E b \in B : \E day \in Int :
              /\ b.row = w /\ day = first + 7 * w + b.col
              /\ Len(rows[w].ends) =
                     Cardinality({p \in bars : p.row = w /\ day \in DaysOfBar(first, p)})

\* What a page that lays out bars in rows has.
LEMMA RowsAre ==
    ASSUME NEW first \in Int, NEW W, NEW B, NEW rows, NEW bars, LaidInRows(bars, rows, W, B)
    PROVE  RowsHold(first, bars, rows, W, B)
<1>0. /\ B \subseteq BareBars /\ IsFiniteSet(B) /\ \A b \in B : b.row \in W
      /\ \A w \in W : rows[w] = InLanes({b \in B : b.row = w})
      /\ bars = UNION {rows[w].bars : w \in W}
    BY DEF LaidInRows
<1> DEFINE Of(w) == {b \in B : b.row = w}
           Ends(w) == rows[w].ends
<1>1. ASSUME NEW w \in W
      PROVE  /\ Ends(w) \in Seq(Int)
             /\ \A p \in rows[w].bars : /\ Bare(p) \in Of(w) /\ p = Laned(Bare(p), p.lane)
                                        /\ p.lane \in 1..Len(Ends(w))
             /\ \A b \in Of(w) : \E p \in rows[w].bars : Bare(p) = b
             /\ \A p, q \in rows[w].bars : Bare(p) = Bare(q) => p = q
             /\ \A p, q \in rows[w].bars :
                   p # q /\ p.lane = q.lane => LastCol(p) < q.col \/ LastCol(q) < p.col
             /\ Len(Ends(w)) > 0 =>
                   \E p \in rows[w].bars : \A l \in 1..Len(Ends(w)) :
                       \E q \in rows[w].bars : q.lane = l /\ q.col <= p.col /\ p.col <= LastCol(q)
    <2>1. Of(w) \subseteq BareBars /\ IsFiniteSet(Of(w))
        BY <1>0, FS_Subset
    <2>2. rows[w] = InLanes(Of(w))
        BY <1>0
    <2> HIDE DEF Of
    <2>3. QED
        BY <2>1, <2>2, InLanesIs
<1>2. \A p : p \in bars <=> \E w \in W : p \in rows[w].bars
    BY <1>0
<1>3. \A w \in W : \A b : b \in Of(w) <=> b \in B /\ b.row = w
    OBVIOUS
<1> HIDE DEF Of, Ends
<1>4. ASSUME NEW w \in W, NEW p \in rows[w].bars
      PROVE  /\ Bare(p) \in B /\ Bare(p) \in BareBars
             /\ p.visit = Bare(p).visit /\ p.row = Bare(p).row
             /\ p.row = w /\ p.row \in Int
             /\ p.col \in Int /\ LastCol(p) \in Int /\ p.col <= LastCol(p)
             /\ p.col = Bare(p).col /\ LastCol(p) = LastCol(Bare(p))
    <2>1. Bare(p) \in B /\ Bare(p).row = w /\ p = Laned(Bare(p), p.lane)
        BY <1>1, <1>3
    <2>2. Bare(p) \in BareBars /\ Bare(p).row \in Int
        BY <1>0, <2>1 DEF BareBars
    <2>3. QED
        BY <2>1, <2>2, LanedIs
<1>5. ASSUME NEW w \in W, NEW p \in rows[w].bars
      PROVE  /\ DaysOfBar(first, p) = (first + 7 * w + p.col)..(first + 7 * w + LastCol(p))
             /\ DaysOfBar(first, Bare(p)) = DaysOfBar(first, p)
    <2>1. DaysOfBar(first, p) = (first + 7 * p.row + p.col)..(first + 7 * p.row + LastCol(p))
        BY <1>4, DaysOfBarAre
    <2>2. /\ Bare(p).row = w /\ Bare(p).row \in Int
          /\ Bare(p).col \in Int /\ LastCol(Bare(p)) \in Int
        BY <1>4
    <2>3. DaysOfBar(first, Bare(p)) =
              (first + 7 * Bare(p).row + Bare(p).col)..(first + 7 * Bare(p).row + LastCol(Bare(p)))
        BY <2>2, DaysOfBarAre
    <2>4. p.row = w /\ p.col = Bare(p).col /\ LastCol(p) = LastCol(Bare(p))
        BY <1>4
    <2>5. QED
        BY <2>1, <2>2, <2>3, <2>4
<1>6. ASSUME NEW p \in bars
      PROVE  /\ Bare(p) \in B /\ p.visit = Bare(p).visit /\ p.row = Bare(p).row
             /\ DaysOfBar(first, p) = DaysOfBar(first, Bare(p))
    BY <1>2, <1>4, <1>5
<1>7. ASSUME NEW b \in B PROVE \E p \in bars : Bare(p) = b
    <2>1. b.row \in W /\ b \in Of(b.row)
        BY <1>0, <1>3
    <2>2. \E p \in rows[b.row].bars : Bare(p) = b
        BY <1>1, <2>1
    <2>3. QED
        BY <1>2, <2>1, <2>2
<1>8. ASSUME NEW p \in bars, NEW q \in bars, Bare(p) = Bare(q) PROVE p = q
    <2>1. PICK w \in W : p \in rows[w].bars
        BY <1>2
    <2>2. PICK u \in W : q \in rows[u].bars
        BY <1>2
    <2>3. w = u
        BY <1>4, <1>8, <2>1, <2>2
    <2>4. QED
        BY <1>1, <1>8, <2>1, <2>2, <2>3
<1>9. ASSUME NEW p \in bars, NEW q \in bars, p # q, p.row = q.row, p.lane = q.lane
      PROVE  DaysOfBar(first, p) \intersect DaysOfBar(first, q) = {}
    <2>1. PICK w \in W : p \in rows[w].bars
        BY <1>2
    <2>2. PICK u \in W : q \in rows[u].bars
        BY <1>2
    <2>3. w = u
        BY <1>4, <1>9, <2>1, <2>2
    <2>4. LastCol(p) < q.col \/ LastCol(q) < p.col
        BY <1>1, <1>9, <2>1, <2>2, <2>3
    <2>5. /\ p.col \in Int /\ LastCol(p) \in Int /\ q.col \in Int /\ LastCol(q) \in Int /\ w \in Int
        BY <1>4, <2>1, <2>2
    <2>6. /\ DaysOfBar(first, p) = (first + 7 * w + p.col)..(first + 7 * w + LastCol(p))
          /\ DaysOfBar(first, q) = (first + 7 * w + q.col)..(first + 7 * w + LastCol(q))
        BY <1>5, <2>1, <2>2, <2>3
    <2> DEFINE monday == first + 7 * w
    <2>7. monday \in Int
        BY <2>5
    <2> HIDE DEF monday
    <2>8. ((monday + p.col)..(monday + LastCol(p)))
              \intersect ((monday + q.col)..(monday + LastCol(q))) = {}
        BY <2>4, <2>5, <2>7
    <2>9. QED
        BY <2>6, <2>8 DEF monday
<1>10. ASSUME NEW w \in W, Len(Ends(w)) > 0
       PROVE  \E b \in B : \E day \in Int :
                  /\ b.row = w /\ day = first + 7 * w + b.col
                  /\ Len(Ends(w)) =
                         Cardinality({p \in bars : p.row = w /\ day \in DaysOfBar(first, p)})
    <2>1. PICK m \in rows[w].bars : \A l \in 1..Len(Ends(w)) :
              \E q \in rows[w].bars : q.lane = l /\ q.col <= m.col /\ m.col <= LastCol(q)
        BY <1>1, <1>10
    <2> DEFINE b == Bare(m)
               day == first + 7 * w + b.col
               Q == {p \in bars : p.row = w /\ day \in DaysOfBar(first, p)}
               f == [p \in Q |-> p.lane]
    <2>2. b \in B /\ b.row = w /\ b.col = m.col /\ m.col \in Int /\ w \in Int
        BY <1>4
    <2>3. Len(Ends(w)) \in Nat /\ day \in Int
        BY <1>1, <2>2, LenProperties
    <2>4. \A p : p \in Q <=> p \in rows[w].bars /\ day \in DaysOfBar(first, p)
        <3>1. \A p : p \in rows[w].bars <=> p \in bars /\ p.row = w
            BY <1>2, <1>4
        <3>2. QED
            BY <3>1
    <2>5. \A p \in Q : p.lane \in 1..Len(Ends(w))
        BY <1>1, <2>4
    <2>6. \A p, q \in Q : p.lane = q.lane => p = q
        <3> SUFFICES ASSUME NEW p \in Q, NEW q \in Q, p.lane = q.lane, p # q PROVE FALSE
            OBVIOUS
        <3>1. DaysOfBar(first, p) \intersect DaysOfBar(first, q) = {}
            BY <1>9
        <3>2. QED
            BY <3>1
    <2>7. \A l \in 1..Len(Ends(w)) : \E q \in Q : q.lane = l
        <3> SUFFICES ASSUME NEW l \in 1..Len(Ends(w)) PROVE \E q \in Q : q.lane = l
            OBVIOUS
        <3>1. PICK q \in rows[w].bars : q.lane = l /\ q.col <= m.col /\ m.col <= LastCol(q)
            BY <2>1
        <3>2. day \in DaysOfBar(first, q)
            <4>1. day = first + 7 * w + m.col
                BY <2>2
            <4>2. DaysOfBar(first, q) = (first + 7 * w + q.col)..(first + 7 * w + LastCol(q))
                BY <1>5
            <4>3. q.col \in Int /\ LastCol(q) \in Int
                BY <1>4
            <4> HIDE DEF day
            <4>4. QED
                BY <2>2, <3>1, <4>1, <4>2, <4>3
        <3>3. QED
            BY <2>4, <3>1, <3>2
    <2> HIDE DEF Q, b, day
    <2>8. f \in [Q -> 1..Len(Ends(w))]
        BY <2>5
    <2>9. \A p, q \in Q : f[p] = f[q] => p = q
        BY <2>6
    <2>10. \A k \in 1..Len(Ends(w)) : \E q \in Q : f[q] = k
        BY <2>7
    <2> HIDE DEF f
    <2>11. Cardinality(Q) = Len(Ends(w))
        BY <2>3, <2>8, <2>9, <2>10, CountByKey
    <2>12. day = first + 7 * w + b.col
        BY DEF day
    <2>13. QED
        BY <2>2, <2>3, <2>11, <2>12 DEF Q
<1>11. QED
    BY <1>6, <1>7, <1>8, <1>9, <1>10 DEF RowsHold, Ends

-----------------------------------------------------------------------------
(* The blocks of a page *)

\* Blocks that are laid out in the columns of days.
LaidInColumns(blocks, D, B) ==
    /\ B \subseteq BareBlocks /\ IsFiniteSet(B) /\ \A b \in B : b.day \in D
    /\ blocks = UNION {SideBySide({b \in B : b.day = d}) : d \in D}

\* Each block is there once, blocks of a day that overlap are beside each other,
\* and for each block there is a row in which as many share the day as fit.
BlocksHold(blocks, B) ==
    /\ \A p \in blocks : /\ BareBlock(p) \in B
                         /\ p.visit = BareBlock(p).visit /\ p.day = BareBlock(p).day
                         /\ p.top = BareBlock(p).top /\ p.height = BareBlock(p).height
                         /\ p.col \in 1..p.total
    /\ \A b \in B : \E p \in blocks : BareBlock(p) = b
    /\ \A p, q \in blocks : BareBlock(p) = BareBlock(q) => p = q
    /\ \A p, q \in blocks :
          p # q /\ p.day = q.day /\ Overlap(p, q) => p.total = q.total /\ p.col # q.col
    /\ \A p \in blocks : \E w \in B : \E here \in SUBSET blocks :
          /\ Cardinality(here) = p.total
          /\ \A q \in here : /\ q.day = p.day /\ q.total = p.total
                             /\ q.top <= w.top /\ w.top < q.top + q.height

\* What a page that lays out blocks in columns has.
LEMMA BlocksAre ==
    ASSUME NEW D, NEW B, NEW blocks, LaidInColumns(blocks, D, B)
    PROVE  BlocksHold(blocks, B)
<1>0. /\ B \subseteq BareBlocks /\ IsFiniteSet(B) /\ \A b \in B : b.day \in D
      /\ blocks = UNION {SideBySide({b \in B : b.day = d}) : d \in D}
    BY DEF LaidInColumns
<1> DEFINE Of(d) == {b \in B : b.day = d}
           Placed(d) == SideBySide(Of(d))
<1>1. ASSUME NEW d \in D
      PROVE  /\ \A p \in Placed(d) : /\ BareBlock(p) \in Of(d)
                                     /\ p.total \in Nat /\ p.col \in 1..p.total
                                     /\ p = InColumn(BareBlock(p), p.col, p.total)
             /\ \A b \in Of(d) : \E p \in Placed(d) : BareBlock(p) = b
             /\ \A p, q \in Placed(d) : BareBlock(p) = BareBlock(q) => p = q
             /\ \A p, q \in Placed(d) : p # q /\ Overlap(p, q) => p.total = q.total /\ p.col # q.col
             /\ \A p \in Placed(d) : \E w \in Of(d) : \A k \in 1..p.total : \E q \in Placed(d) :
                   q.col = k /\ q.total = p.total /\ q.top <= w.top /\ w.top < Foot(q)
    <2>1. Of(d) \subseteq BareBlocks /\ IsFiniteSet(Of(d))
        BY <1>0, FS_Subset
    <2> HIDE DEF Of
    <2>2. QED
        BY <2>1, SideBySideIs
<1>2. \A p : p \in blocks <=> \E d \in D : p \in Placed(d)
    BY <1>0
<1>3. \A d \in D : \A b : b \in Of(d) <=> b \in B /\ b.day = d
    OBVIOUS
<1> HIDE DEF Of, Placed
<1>4. ASSUME NEW d \in D, NEW p \in Placed(d)
      PROVE  /\ BareBlock(p) \in B /\ p.visit = BareBlock(p).visit /\ p.day = BareBlock(p).day
             /\ p.top = BareBlock(p).top /\ p.height = BareBlock(p).height
             /\ p.day = d /\ p.col \in 1..p.total /\ p.total \in Nat /\ p \in blocks
    <2>1. /\ BareBlock(p) \in B /\ BareBlock(p).day = d
          /\ p = InColumn(BareBlock(p), p.col, p.total)
          /\ p.col \in 1..p.total /\ p.total \in Nat /\ p \in blocks
        BY <1>1, <1>2, <1>3
    <2>2. BareBlock(p) \in BareBlocks
        BY <1>0, <2>1
    <2>3. QED
        BY <2>1, <2>2, InColumnIs
<1>5. ASSUME NEW p \in blocks
      PROVE  /\ BareBlock(p) \in B /\ p.visit = BareBlock(p).visit /\ p.day = BareBlock(p).day
             /\ p.top = BareBlock(p).top /\ p.height = BareBlock(p).height
             /\ p.col \in 1..p.total
    BY <1>2, <1>4
<1>6. ASSUME NEW b \in B PROVE \E p \in blocks : BareBlock(p) = b
    <2>1. b.day \in D /\ b \in Of(b.day)
        BY <1>0, <1>3
    <2>2. \E p \in Placed(b.day) : BareBlock(p) = b
        BY <1>1, <2>1
    <2>3. QED
        BY <1>2, <2>1, <2>2
<1>7. ASSUME NEW p \in blocks, NEW q \in blocks, p.day = q.day
      PROVE  \E d \in D : p \in Placed(d) /\ q \in Placed(d)
    <2>1. PICK d \in D : p \in Placed(d)
        BY <1>2
    <2>2. PICK e \in D : q \in Placed(e)
        BY <1>2
    <2>3. d = e
        BY <1>4, <1>7, <2>1, <2>2
    <2>4. QED
        BY <2>1, <2>2, <2>3
<1>8. ASSUME NEW p \in blocks, NEW q \in blocks, BareBlock(p) = BareBlock(q) PROVE p = q
    <2>1. p.day = q.day
        BY <1>5, <1>8
    <2>2. PICK d \in D : p \in Placed(d) /\ q \in Placed(d)
        BY <1>7, <2>1
    <2>3. QED
        BY <1>1, <1>8, <2>2
<1>9. ASSUME NEW p \in blocks, NEW q \in blocks, p # q, p.day = q.day, Overlap(p, q)
      PROVE  p.total = q.total /\ p.col # q.col
    <2>1. PICK d \in D : p \in Placed(d) /\ q \in Placed(d)
        BY <1>7, <1>9
    <2>2. QED
        BY <1>1, <1>9, <2>1
<1>10. ASSUME NEW p \in blocks
       PROVE  \E w \in B : \E here \in SUBSET blocks :
                 /\ Cardinality(here) = p.total
                 /\ \A q \in here : /\ q.day = p.day /\ q.total = p.total
                                    /\ q.top <= w.top /\ w.top < q.top + q.height
    <2>1. PICK d \in D : p \in Placed(d)
        BY <1>2
    <2>2. PICK w \in Of(d) : \A k \in 1..p.total : \E q \in Placed(d) :
              q.col = k /\ q.total = p.total /\ q.top <= w.top /\ w.top < Foot(q)
        BY <1>1, <2>1
    <2> DEFINE Q == {q \in Placed(d) : q.total = p.total /\ q.top <= w.top /\ w.top < Foot(q)}
    <2>3. p.total \in Nat /\ \A k \in 1..p.total : \E q \in Q : q.col = k
        BY <1>4, <2>1, <2>2
    <2>4. \A q \in Q : /\ q.day = p.day /\ q.total = p.total /\ q \in blocks
                       /\ q.top <= w.top /\ w.top < q.top + q.height
        BY <1>4, <2>1 DEF Foot
    <2> HIDE DEF Q
    <2>5. PICK here \in SUBSET Q : Cardinality(here) = p.total
        BY <2>3, OneOfEachColumn
    <2>6. w \in B
        BY <1>3
    <2>7. here \in SUBSET blocks
        BY <2>4
    <2>8. QED
        BY <2>4, <2>5, <2>6, <2>7
<1>11. QED
    BY <1>5, <1>6, <1>8, <1>9, <1>10 DEF BlocksHold

\* A block stays on the grid, and if its job ends on the day it starts, after
\* the first half hour of the grid, it covers the rows of the job and no others.
LEMMA BlockIs ==
    ASSUME agenda \in [Visits -> VisitTimes], NEW v \in Visits, HasTime(v), NEW day \in Int
    PROVE  LET block == BlockOf(v, day)
               start == (agenda[v].start % DaySlots) - FirstSlot
               end == (LastTime(v) % DaySlots) - FirstSlot
               rows == block.top..(block.top + block.height - 1)
           IN  /\ block \in BareBlocks /\ block.visit = v /\ block.day = day
               /\ block.top \in 0..(GridSlots - 1)
               /\ rows \subseteq 0..(GridSlots - 1)
               /\ ~IsMultiDay(v) /\ agenda[v].end # Never /\ end > 0 =>
                     /\ {r \in 0..(GridSlots - 2) : start <= r /\ r < end} \subseteq rows
                     /\ \A r \in rows : (start <= r /\ r < end) \/ block.height = 1
<1> DEFINE block == BlockOf(v, day)
           s == agenda[v].start
           t == LastTime(v)
           start == (s % DaySlots) - FirstSlot
           end == (t % DaySlots) - FirstSlot
           Clamped(i) == IF i < 0 THEN 0 ELSE IF i >= GridSlots THEN GridSlots - 1 ELSE i
           foot == IF agenda[v].end = Never \/ Clamped(end) = 0 THEN GridSlots ELSE Clamped(end)
           height == IF foot - Clamped(start) < 1 THEN 1 ELSE foot - Clamped(start)
<1>1. /\ s \in Nat /\ t \in Nat
      /\ agenda[v].end # Never => t = agenda[v].end /\ s < t
    BY TimesAre DEF LastTime
<1>2. block = [visit |-> v, day |-> day, top |-> Clamped(start), height |-> height,
               col |-> 0, total |-> 0]
    BY DEF BlockOf, SlotIndex, LastTime
<1>3. GridSlots \in Nat /\ GridSlots > 0 /\ FirstSlot \in Nat /\ DaySlots \in Nat /\ DaySlots > 0
    BY CalendarConstants
<1>4. s % DaySlots \in Int /\ t % DaySlots \in Int
    BY <1>1, HoursOfDays
<1>5. start \in Int /\ end \in Int
    BY <1>3, <1>4
<1>6. ~IsMultiDay(v) /\ agenda[v].end # Never => start < end
    <2> SUFFICES ASSUME ~IsMultiDay(v), agenda[v].end # Never PROVE start < end
        OBVIOUS
    <2>1. DayOf(s) <= DayOf(t)
        BY <1>1, DaysInOrder
    <2>2. DayOf(s) = DayOf(t)
        <3>1. DayOf(s) \in Int /\ DayOf(t) \in Int
            <4>1. \A time \in Nat : DayOf(time) \in Int
                BY HoursOfDays
            <4>2. QED
                BY <1>1, <4>1
        <3>2. ~(DayOf(t) > DayOf(s))
            BY DEF IsMultiDay
        <3>3. QED
            BY <2>1, <3>1, <3>2
    <2>3. /\ s = DayOf(s) * DaySlots + (s % DaySlots) /\ t = DayOf(t) * DaySlots + (t % DaySlots)
          /\ DayOf(s) * DaySlots \in Int
        BY <1>1, HoursOfDays
    <2>4. s % DaySlots < t % DaySlots
        <3> DEFINE a == s % DaySlots
                   b == t % DaySlots
                   m == DayOf(s) * DaySlots
        <3>1. s = m + a /\ t = m + b /\ s < t /\ m \in Int /\ a \in Int /\ b \in Int
            BY <1>1, <1>4, <2>2, <2>3
        <3> HIDE DEF a, b, m, s, t
        <3>2. a < b
            BY <3>1
        <3>3. QED
            BY <3>2 DEF a, b
    <2>5. QED
        BY <1>3, <1>4, <2>4
<1> HIDE DEF block, s, t, start, end
<1>7. /\ Clamped(start) \in 0..(GridSlots - 1) /\ height \in Nat \ {0}
      /\ Clamped(start) + height <= GridSlots
    BY <1>3, <1>5
<1>8. /\ block \in BareBlocks /\ block.visit = v /\ block.day = day
      /\ block.top = Clamped(start) /\ block.height = height
    <2> HIDE DEF height, Clamped
    <2>1. Clamped(start) \in Int
        BY <1>3, <1>7
    <2>2. QED
        BY <1>2, <1>7, <2>1 DEF BareBlocks
<1>9. block.top..(block.top + block.height - 1) \subseteq 0..(GridSlots - 1)
    <2> HIDE DEF height, Clamped
    <2>1. QED
        BY <1>3, <1>7, <1>8
<1>10. ASSUME ~IsMultiDay(v), agenda[v].end # Never, end > 0
       PROVE  /\ {r \in 0..(GridSlots - 2) : start <= r /\ r < end}
                     \subseteq block.top..(block.top + block.height - 1)
              /\ \A r \in block.top..(block.top + block.height - 1) :
                    (start <= r /\ r < end) \/ block.height = 1
    <2>1. start < end
        BY <1>6, <1>10
    <2>2. \A r \in Int : r \in block.top..(block.top + block.height - 1)
                             <=> Clamped(start) <= r /\ r < Clamped(start) + height
        <3> HIDE DEF height, Clamped
        <3>1. Clamped(start) \in Int /\ height \in Int
            BY <1>3, <1>7
        <3>2. QED
            BY <1>8, <3>1
    <2>3. \A r \in 0..(GridSlots - 2) :
              start <= r /\ r < end => Clamped(start) <= r /\ r < Clamped(start) + height
        BY <1>3, <1>5, <1>10, <2>1
    <2>4. \A r \in Int : Clamped(start) <= r /\ r < Clamped(start) + height
                             => (start <= r /\ r < end) \/ height = 1
        BY <1>3, <1>5, <1>10, <2>1
    <2> HIDE DEF height, Clamped
    <2>5. \A r \in 0..(GridSlots - 2) : r \in Int
        BY <1>3
    <2>6. \A r \in block.top..(block.top + block.height - 1) : r \in Int
        OBVIOUS
    <2>7. QED
        BY <1>8, <2>2, <2>3, <2>4, <2>5, <2>6
<1>11. block.top \in 0..(GridSlots - 1)
    BY <1>7, <1>8
<1> HIDE DEF height, Clamped
<1>12. QED
    BY <1>8, <1>9, <1>10, <1>11 DEF block, start, end, s, t

-----------------------------------------------------------------------------
(* The jobs of a page *)

\* A job takes place on a day.
TakesPlace(v, day) ==
    HasTime(v) /\ DayOf(agenda[v].start) <= day /\ day <= DayOf(LastTime(v))

\* The jobs that job-bl-service lists for a range of days are those that take
\* place in it.
LEMMA ShownAre ==
    ASSUME agenda \in [Visits -> VisitTimes], NEW kept \in SUBSET Visits,
           NEW first \in Int, NEW last \in Int, NEW v \in Visits
    PROVE  /\ v \in Fetched(kept, first, last)
                  <=> v \in kept /\ HasTime(v) /\ DaysWithin(v, first, last) # {}
           /\ \A day \in first..last :
                  TakesPlace(v, day) <=> HasTime(v) /\ day \in DaysWithin(v, first, last)
BY QueryMissesNothing DEF DaysWithin, TakesPlace

\* A job of one day takes place on the day it starts.
LEMMA OneDay ==
    ASSUME agenda \in [Visits -> VisitTimes], NEW v \in Visits, HasTime(v), ~IsMultiDay(v),
           NEW day \in Int
    PROVE  TakesPlace(v, day) <=> day = DayOf(agenda[v].start)
<1>1. agenda[v].start \in Nat /\ LastTime(v) \in Nat /\ agenda[v].start <= LastTime(v)
    BY TimesAre, AgendaConstants DEF LastTime
<1>2. DayOf(agenda[v].start) <= DayOf(LastTime(v))
    BY <1>1, DaysInOrder
<1>3. DayOf(agenda[v].start) \in Int /\ DayOf(LastTime(v)) \in Int
    <2>1. \A time \in Nat : DayOf(time) \in Int
        BY HoursOfDays
    <2>2. QED
        BY <1>1, <2>1
<1>4. ~(DayOf(LastTime(v)) > DayOf(agenda[v].start))
    BY DEF IsMultiDay
<1>5. QED
    BY <1>2, <1>3, <1>4 DEF TakesPlace

\* The bars of a job in a month: at most one a week, within the week, and one
\* on each day of the job and no other.
LEMMA MonthBarsAre ==
    ASSUME agenda \in [Visits -> VisitTimes], NEW v \in Visits, HasTime(v), NEW first \in Int
    PROVE  /\ \A bar \in MonthBars(v, first, first + 41) :
                 /\ bar \in BareBars /\ bar.visit = v /\ bar.row \in 0..5
                 /\ bar.col \in 0..6 /\ LastCol(bar) \in 0..6
           /\ \A a, b \in MonthBars(v, first, first + 41) : a.row = b.row => a = b
           /\ \A day \in first..(first + 41) :
                 /\ day \in DaysWithin(v, first, first + 41)
                       <=> \E bar \in MonthBars(v, first, first + 41) :
                              day \in DaysOfBar(first, bar)
                 /\ \A a, b \in MonthBars(v, first, first + 41) :
                       day \in DaysOfBar(first, a) /\ day \in DaysOfBar(first, b) => a = b
<1> DEFINE days == DaysWithin(v, first, first + 41)
           begin == CHOOSE d \in days : d - 1 \notin days
           end == CHOOSE d \in days : d + 1 \notin days
           From(w) == IF begin < first + 7 * w THEN first + 7 * w ELSE begin
           To(w) == IF end > first + 7 * w + 6 THEN first + 7 * w + 6 ELSE end
           Bar(w) == [visit |-> v, row |-> w, col |-> From(w) - (first + 7 * w),
                      span |-> To(w) - From(w) + 1, lane |-> 0]
           weeks == {u \in 0..5 : \E d \in days : (d - first) \div 7 = u}
           bars == MonthBars(v, first, first + 41)
<1>1. bars = {Bar(w) : w \in weeks}
    BY DEF MonthBars
<1>2. CASE days = {}
    <2>1. weeks = {}
        BY <1>2
    <2>2. bars = {}
        BY <1>1, <2>1
    <2>3. QED
        BY <1>2, <2>2
<1>3. CASE days # {}
    <2>1. PICK x, y \in Int : x <= y /\ first <= x /\ y <= first + 41 /\ days = x..y
        <3>1. first + 41 \in Int
            OBVIOUS
        <3>2. QED
            BY <1>3, <3>1, DaysInARow
    <2>2. begin = x
        <3>1. x \in days /\ x - 1 \notin days /\ \A d \in days : d - 1 \notin days => d = x
            BY <2>1
        <3> HIDE DEF days
        <3>2. QED
            BY <3>1
    <2>3. end = y
        <3>1. y \in days /\ y + 1 \notin days /\ \A d \in days : d + 1 \notin days => d = y
            BY <2>1
        <3> HIDE DEF days
        <3>2. QED
            BY <3>1
    <2>4. \A w \in weeks : w \in 0..5 /\ x <= first + 7 * w + 6 /\ first + 7 * w <= y
        <3> SUFFICES ASSUME NEW w \in weeks
                     PROVE  w \in 0..5 /\ x <= first + 7 * w + 6 /\ first + 7 * w <= y
            OBVIOUS
        <3>1. PICK d \in days : (d - first) \div 7 = w
            OBVIOUS
        <3>2. d \in Int /\ x <= d /\ d <= y /\ first <= d
            BY <2>1
        <3>3. first + 7 * w <= d /\ d <= first + 7 * w + 6
            BY <3>1, <3>2
        <3>4. QED
            BY <2>1, <3>2, <3>3
    <2>5. \A day \in x..y : (day - first) \div 7 \in weeks
        <3> SUFFICES ASSUME NEW day \in x..y PROVE (day - first) \div 7 \in weeks
            OBVIOUS
        <3>1. day \in days
            BY <2>1
        <3>2. (day - first) \div 7 \in 0..5
            <4> DEFINE d == day - first
            <4>1. d \in 0..41
                BY <2>1
            <4> HIDE DEF d
            <4>2. d \div 7 \in 0..5
                BY <4>1
            <4>3. QED
                BY <4>2 DEF d
        <3> HIDE DEF days
        <3>3. QED
            BY <3>1, <3>2
    <2> HIDE DEF days, begin, end, weeks
    <2>6. ASSUME NEW w \in weeks
          PROVE  /\ From(w) \in Int /\ To(w) \in Int /\ From(w) <= To(w)
                 /\ first + 7 * w <= From(w) /\ To(w) <= first + 7 * w + 6
                 /\ \A day \in Int : From(w) <= day /\ day <= To(w)
                       <=> x <= day /\ day <= y /\ first + 7 * w <= day /\ day <= first + 7 * w + 6
        <3> DEFINE monday == first + 7 * w
        <3>1. monday \in Int /\ x <= monday + 6 /\ monday <= y
            BY <2>4
        <3>2. /\ From(w) = (IF x < monday THEN monday ELSE x)
              /\ To(w) = (IF y > monday + 6 THEN monday + 6 ELSE y)
            BY <2>2, <2>3
        <3> HIDE DEF monday, From, To
        <3>3. /\ From(w) \in Int /\ To(w) \in Int /\ From(w) <= To(w)
              /\ monday <= From(w) /\ To(w) <= monday + 6
              /\ \A day \in Int : From(w) <= day /\ day <= To(w)
                    <=> x <= day /\ day <= y /\ monday <= day /\ day <= monday + 6
            BY <2>1, <3>1, <3>2
        <3>4. QED
            BY <3>3 DEF monday
    <2> HIDE DEF From, To
    <2>7. ASSUME NEW w \in weeks
          PROVE  /\ Bar(w) \in BareBars /\ Bar(w).visit = v /\ Bar(w).row = w /\ w \in 0..5
                 /\ Bar(w).col = From(w) - (first + 7 * w)
                 /\ LastCol(Bar(w)) = To(w) - (first + 7 * w)
                 /\ Bar(w).col \in 0..6 /\ LastCol(Bar(w)) \in 0..6
        <3>1. w \in 0..5 /\ w \in Int
            BY <2>4
        <3>2. /\ From(w) \in Int /\ To(w) \in Int /\ From(w) <= To(w)
              /\ first + 7 * w <= From(w) /\ To(w) <= first + 7 * w + 6
            BY <2>6
        <3>3. From(w) - (first + 7 * w) \in 0..6 /\ To(w) - From(w) + 1 \in Nat \ {0}
            BY <3>1, <3>2
        <3>4. Bar(w) \in BareBars
            BY <3>1, <3>3 DEF BareBars
        <3>5. Bar(w).col + Bar(w).span - 1 = To(w) - (first + 7 * w)
            BY <3>1, <3>2
        <3>6. To(w) - (first + 7 * w) \in 0..6
            BY <3>1, <3>2
        <3>7. QED
            BY <3>1, <3>3, <3>4, <3>5, <3>6 DEF LastCol
    <2>8. ASSUME NEW w \in weeks, NEW day \in Int
          PROVE  day \in DaysOfBar(first, Bar(w)) <=> day \in x..y /\ (day - first) \div 7 = w
        <3>1. Bar(w).row = w /\ w \in Int /\ Bar(w).col \in Int /\ LastCol(Bar(w)) \in Int
            BY <2>7
        <3>2. DaysOfBar(first, Bar(w)) =
                  (first + 7 * w + Bar(w).col)..(first + 7 * w + LastCol(Bar(w)))
            BY <3>1, DaysOfBarAre
        <3>3. first + 7 * w + Bar(w).col = From(w) /\ first + 7 * w + LastCol(Bar(w)) = To(w)
            BY <2>6, <2>7, <3>1
        <3>4. (day - first) \div 7 = w <=> first + 7 * w <= day /\ day <= first + 7 * w + 6
            BY <3>1
        <3>5. QED
            BY <2>1, <2>6, <3>2, <3>3, <3>4
    <2> HIDE DEF Bar
    <2>9. ASSUME NEW bar \in bars
          PROVE  /\ bar \in BareBars /\ bar.visit = v /\ bar.row \in 0..5
                 /\ bar.col \in 0..6 /\ LastCol(bar) \in 0..6
                 /\ bar.row \in weeks /\ bar = Bar(bar.row)
        BY <1>1, <2>7
    <2>10. ASSUME NEW a \in bars, NEW b \in bars, a.row = b.row PROVE a = b
        BY <2>9, <2>10
    <2>11. ASSUME NEW day \in first..(first + 41)
           PROVE  /\ day \in days <=> \E bar \in bars : day \in DaysOfBar(first, bar)
                  /\ \A a, b \in bars :
                        day \in DaysOfBar(first, a) /\ day \in DaysOfBar(first, b) => a = b
        <3>1. day \in Int
            OBVIOUS
        <3>2. \A bar \in bars : day \in DaysOfBar(first, bar)
                  <=> day \in x..y /\ (day - first) \div 7 = bar.row
            BY <2>8, <2>9, <3>1
        <3>3. ASSUME day \in x..y PROVE \E bar \in bars : day \in DaysOfBar(first, bar)
            <4>1. (day - first) \div 7 \in weeks
                BY <2>5, <3>3
            <4>2. QED
                BY <1>1, <2>8, <3>1, <3>3, <4>1
        <3>4. ASSUME NEW a \in bars, NEW b \in bars,
                     day \in DaysOfBar(first, a), day \in DaysOfBar(first, b)
              PROVE  a = b
            BY <2>10, <3>2, <3>4
        <3>5. QED
            BY <2>1, <3>2, <3>3, <3>4
    <2> HIDE DEF bars
    <2>12. QED
        BY <2>9, <2>10, <2>11 DEF days, bars
<1>4. QED
    BY <1>2, <1>3

\* The split at the ends of the weeks loses no day and doubles none: on each
\* day of the 42 on which a job takes place it has one bar, on the others none.
THEOREM BarsCoverEachDayOnce ==
    ASSUME agenda \in [Visits -> VisitTimes], NEW v \in Visits, HasTime(v),
           NEW first \in Int, NEW day \in first..(first + 41)
    PROVE  Cardinality({bar \in MonthBars(v, first, first + 41) : day \in DaysOfBar(first, bar)}) =
               IF day \in DaysWithin(v, first, first + 41) THEN 1 ELSE 0
<1> DEFINE here == {bar \in MonthBars(v, first, first + 41) : day \in DaysOfBar(first, bar)}
<1>1. here # {} <=> day \in DaysWithin(v, first, first + 41)
    BY MonthBarsAre
<1>2. \A a, b \in here : a = b
    BY MonthBarsAre
<1> HIDE DEF here
<1>3. Cardinality(here) = IF here = {} THEN 0 ELSE 1
    BY <1>2, OneOrNone
<1>4. QED
    BY <1>1, <1>3 DEF here

\* The bar of a job above a week lies within it.
LEMMA WeekBarIs ==
    ASSUME agenda \in [Visits -> VisitTimes], NEW v \in Visits, HasTime(v),
           NEW monday \in Int, DaysWithin(v, monday, monday + 6) # {}
    PROVE  LET bar == WeekBar(v, monday) IN
           /\ bar \in BareBars /\ bar.visit = v /\ bar.row = 0
           /\ bar.col \in 0..6 /\ LastCol(bar) \in 0..6
<1> DEFINE days == DaysWithin(v, monday, monday + 6)
           begin == CHOOSE d \in days : d - 1 \notin days
           bar == WeekBar(v, monday)
<1>1. PICK x, y \in Int : x <= y /\ monday <= x /\ y <= monday + 6 /\ days = x..y
    <2>1. monday + 6 \in Int
        OBVIOUS
    <2>2. QED
        BY <2>1, DaysInARow
<1>2. begin = x
    <2>1. x \in days /\ x - 1 \notin days /\ \A d \in days : d - 1 \notin days => d = x
        BY <1>1
    <2> HIDE DEF days
    <2>2. QED
        BY <2>1
<1>3. Cardinality(days) = y - x + 1
    BY <1>1, FS_Interval
<1>4. bar = [visit |-> v, row |-> 0, col |-> begin - monday, span |-> Cardinality(days), lane |-> 0]
    BY DEF WeekBar
<1> HIDE DEF days, begin, bar
<1>5. bar = [visit |-> v, row |-> 0, col |-> x - monday, span |-> y - x + 1, lane |-> 0]
    BY <1>2, <1>3, <1>4
<1>6. x - monday \in 0..6 /\ y - x + 1 \in Nat \ {0} /\ (x - monday) + (y - x + 1) - 1 \in 0..6
    BY <1>1
<1>7. QED
    BY <1>5, <1>6 DEF BareBars, LastCol, bar

-----------------------------------------------------------------------------
(* The pages *)

\* The properties of CalendarGrid, of a page instead of the one on the screen.
DaysOf(p) == ToSet(p.cells)

DrawnOn(p, v, day) ==
    Cardinality({bar \in p.bars : bar.visit = v /\ day \in DaysOfBar(Head(p.cells), bar)})
      + Cardinality({block \in p.blocks : block.visit = v /\ block.day = day})
      + Cardinality({single \in p.singles : single = <<v, day>>})

EachDayOnce(p) ==
    p.view # "form" =>
        \A v \in Visits : \A day \in DaysOf(p) :
            DrawnOn(p, v, day) = IF v \in p.kept /\ TakesPlace(v, day) THEN 1 ELSE 0

RowsApart(p) ==
    /\ \A a, b \in p.bars :
          a # b /\ a.row = b.row /\ a.lane = b.lane
            => DaysOfBar(Head(p.cells), a) \intersect DaysOfBar(Head(p.cells), b) = {}
    /\ \A w \in DOMAIN p.lanes :
          p.lanes[w] > 0 =>
              \E day \in DaysOf(p) :
                  p.lanes[w] = Cardinality({bar \in p.bars :
                                  bar.row = w /\ day \in DaysOfBar(Head(p.cells), bar)})

Beside(p) ==
    \A a \in p.blocks :
        /\ a.col \in 1..a.total
        /\ \A b \in p.blocks :
              a # b /\ a.day = b.day /\ Overlap(a, b) => a.total = b.total /\ a.col # b.col
        /\ \E row \in 0..(GridSlots - 1) :
              \E here \in SUBSET p.blocks :
                  /\ Cardinality(here) = a.total
                  /\ \A b \in here : /\ b.day = a.day /\ b.total = a.total
                                     /\ b.top <= row /\ row < b.top + b.height

InPlace(block) ==
    LET v == block.visit
        start == (agenda[v].start % DaySlots) - FirstSlot
        end == (LastTime(v) % DaySlots) - FirstSlot
        rows == block.top..(block.top + block.height - 1)
    IN  /\ rows \subseteq 0..(GridSlots - 1)
        /\ ~IsMultiDay(v) /\ agenda[v].end # Never /\ end > 0 =>
              /\ {r \in 0..(GridSlots - 2) : start <= r /\ r < end} \subseteq rows
              /\ \A r \in rows : (start <= r /\ r < end) \/ block.height = 1

AllInPlace(p) == \A block \in p.blocks : InPlace(block)

Readable(p) == EachDayOnce(p) /\ RowsApart(p) /\ Beside(p) /\ AllInPlace(p)

\* The days of a row of cells.
LEMMA DaysOfRow ==
    ASSUME NEW x \in Int, NEW n \in Nat, n > 0
    PROVE  /\ ToSet(Row(x, n)) = x..(x + n - 1)
           /\ Head(Row(x, n)) = x /\ Row(x, n)[Len(Row(x, n))] = x + n - 1
<1>1. /\ Row(x, n) \in Seq(Int) /\ Len(Row(x, n)) = n /\ DOMAIN Row(x, n) = 1..n
      /\ \A i \in 1..n : Row(x, n)[i] = x + i - 1
    BY RowIs
<1>2. ToSet(Row(x, n)) = {x + i - 1 : i \in 1..n}
    BY <1>1 DEF ToSet
<1>3. {x + i - 1 : i \in 1..n} = x..(x + n - 1)
    <2>1. \A d \in x..(x + n - 1) : d - x + 1 \in 1..n /\ x + (d - x + 1) - 1 = d
        OBVIOUS
    <2>2. \A i \in 1..n : x + i - 1 \in x..(x + n - 1)
        OBVIOUS
    <2>3. QED
        BY <2>1, <2>2
<1>4. Head(Row(x, n)) = Row(x, n)[1]
    <2> DEFINE r == Row(x, n)
    <2>1. r \in Seq(Int) /\ Len(r) > 0
        BY <1>1
    <2> HIDE DEF r
    <2>2. Head(r) = r[1]
        BY <2>1
    <2>3. QED
        BY <2>2 DEF r
<1>5. Row(x, n)[1] = x /\ Row(x, n)[n] = x + n - 1
    <2>1. 1 \in 1..n /\ n \in 1..n
        OBVIOUS
    <2>2. Row(x, n)[1] = x + 1 - 1 /\ Row(x, n)[n] = x + n - 1
        BY <1>1, <2>1
    <2>3. QED
        BY <2>2
<1>6. QED
    BY <1>1, <1>2, <1>3, <1>4, <1>5

\* Pages with nothing on them.
LEMMA BlankIsReadable ==
    ASSUME NEW p, p.cells = << >>, p.lanes = << >>, p.bars = {}, p.blocks = {}
    PROVE  Readable(p)
BY DEF Readable, EachDayOnce, RowsApart, Beside, AllInPlace, DaysOf, ToSet

\* A page with rows of bars: its rows are as they should be.
LEMMA RowsOfPage ==
    ASSUME NEW p, NEW first \in Int, Head(p.cells) = first,
           NEW W, NEW B, NEW rows, LaidInRows(p.bars, rows, W, B),
           DOMAIN p.lanes = W, \A w \in W : p.lanes[w] = Len(rows[w].ends),
           \A b \in B : first + 7 * b.row + b.col \in DaysOf(p)
    PROVE  RowsApart(p)
<1>1. RowsHold(first, p.bars, rows, W, B)
    BY RowsAre
<1>2. \A a, b \in p.bars :
          a # b /\ a.row = b.row /\ a.lane = b.lane
            => DaysOfBar(Head(p.cells), a) \intersect DaysOfBar(Head(p.cells), b) = {}
    BY <1>1 DEF RowsHold
<1>3. ASSUME NEW w \in DOMAIN p.lanes, p.lanes[w] > 0
      PROVE  \E day \in DaysOf(p) :
                p.lanes[w] = Cardinality({bar \in p.bars :
                                  bar.row = w /\ day \in DaysOfBar(Head(p.cells), bar)})
    <2>1. w \in W /\ p.lanes[w] = Len(rows[w].ends)
        OBVIOUS
    <2>2. PICK b \in B, day \in Int :
              /\ b.row = w /\ day = first + 7 * w + b.col
              /\ Len(rows[w].ends) =
                     Cardinality({bar \in p.bars : bar.row = w /\ day \in DaysOfBar(first, bar)})
        BY <1>1, <1>3, <2>1 DEF RowsHold
    <2>3. day \in DaysOf(p)
        BY <2>2
    <2>4. QED
        BY <2>1, <2>2, <2>3
<1>4. QED
    BY <1>2, <1>3 DEF RowsApart

\* A page with columns of blocks of jobs: its blocks are as they should be.
LEMMA BlocksOfPage ==
    ASSUME agenda \in [Visits -> VisitTimes],
           NEW p, NEW D, NEW B, LaidInColumns(p.blocks, D, B),
           \A b \in B : \E v \in Visits, day \in Int : HasTime(v) /\ b = BlockOf(v, day)
    PROVE  Beside(p) /\ AllInPlace(p)
<1>1. ASSUME NEW b \in B
      PROVE  b.top \in 0..(GridSlots - 1) /\ InPlace(b)
    <2>1. PICK v \in Visits, day \in Int : HasTime(v) /\ b = BlockOf(v, day)
        OBVIOUS
    <2>2. QED
        BY <2>1, BlockIs DEF InPlace
<1>2. BlocksHold(p.blocks, B)
    BY BlocksAre
<1>3. \A q \in p.blocks : /\ BareBlock(q) \in B /\ q.visit = BareBlock(q).visit
                          /\ q.top = BareBlock(q).top /\ q.height = BareBlock(q).height
    BY <1>2, Zenon DEF BlocksHold
<1>4. Beside(p)
    <2> SUFFICES ASSUME NEW a \in p.blocks
                 PROVE  /\ a.col \in 1..a.total
                        /\ \A b \in p.blocks :
                              a # b /\ a.day = b.day /\ Overlap(a, b)
                                => a.total = b.total /\ a.col # b.col
                        /\ \E row \in 0..(GridSlots - 1) :
                              \E here \in SUBSET p.blocks :
                                  /\ Cardinality(here) = a.total
                                  /\ \A b \in here : /\ b.day = a.day /\ b.total = a.total
                                                     /\ b.top <= row /\ row < b.top + b.height
        BY DEF Beside
    <2>1. a.col \in 1..a.total
        BY <1>2 DEF BlocksHold
    <2>2. ASSUME NEW b \in p.blocks, a # b, a.day = b.day, Overlap(a, b)
          PROVE  a.total = b.total /\ a.col # b.col
        BY <1>2, <2>2 DEF BlocksHold
    <2>3. PICK w \in B, here \in SUBSET p.blocks :
              /\ Cardinality(here) = a.total
              /\ \A q \in here : /\ q.day = a.day /\ q.total = a.total
                                 /\ q.top <= w.top /\ w.top < q.top + q.height
        BY <1>2, Zenon DEF BlocksHold
    <2>4. w.top \in 0..(GridSlots - 1)
        BY <1>1
    <2>5. QED
        BY <2>1, <2>2, <2>3, <2>4
<1>5. AllInPlace(p)
    <2> SUFFICES ASSUME NEW q \in p.blocks PROVE InPlace(q)
        BY DEF AllInPlace
    <2>1. InPlace(BareBlock(q))
        BY <1>1, <1>3
    <2>2. q.visit = BareBlock(q).visit /\ q.top = BareBlock(q).top /\ q.height = BareBlock(q).height
        BY <1>3
    <2>3. QED
        BY <2>1, <2>2 DEF InPlace
<1>6. QED
    BY <1>4, <1>5

\* A day of a page: what is drawn of a job on it is one thing or nothing.
LEMMA DrawnIs ==
    ASSUME NEW p, NEW v, NEW day, NEW first, Head(p.cells) = first,
           \A a, b \in {bar \in p.bars : bar.visit = v /\ day \in DaysOfBar(first, bar)} : a = b,
           \A a, b \in {block \in p.blocks : block.visit = v /\ block.day = day} : a = b
    PROVE  DrawnOn(p, v, day) =
               (IF \E bar \in p.bars : bar.visit = v /\ day \in DaysOfBar(first, bar) THEN 1 ELSE 0)
                 + (IF \E block \in p.blocks : block.visit = v /\ block.day = day THEN 1 ELSE 0)
                 + (IF <<v, day>> \in p.singles THEN 1 ELSE 0)
<1> DEFINE Bars == {bar \in p.bars : bar.visit = v /\ day \in DaysOfBar(first, bar)}
           Blocks == {block \in p.blocks : block.visit = v /\ block.day = day}
           Singles == {single \in p.singles : single = <<v, day>>}
<1>1. DrawnOn(p, v, day) = Cardinality(Bars) + Cardinality(Blocks) + Cardinality(Singles)
    BY DEF DrawnOn
<1>2. \A a, b \in Singles : a = b
    OBVIOUS
<1>3. /\ Bars # {} <=> \E bar \in p.bars : bar.visit = v /\ day \in DaysOfBar(first, bar)
      /\ Blocks # {} <=> \E block \in p.blocks : block.visit = v /\ block.day = day
      /\ Singles # {} <=> <<v, day>> \in p.singles
    OBVIOUS
<1>4. /\ \A a, b \in Bars : a = b
      /\ \A a, b \in Blocks : a = b
    OBVIOUS
<1> HIDE DEF Bars, Blocks, Singles
<1>5. /\ Cardinality(Bars) = IF Bars = {} THEN 0 ELSE 1
      /\ Cardinality(Blocks) = IF Blocks = {} THEN 0 ELSE 1
      /\ Cardinality(Singles) = IF Singles = {} THEN 0 ELSE 1
    BY <1>2, <1>4, OneOrNone
<1>6. QED
    BY <1>1, <1>3, <1>5

\* What a month has on it.
LEMMA MonthPageParts ==
    ASSUME NEW y \in Int, NEW m \in 1..12, NEW kept
    PROVE  \E first \in Int :
               LET p == MonthPage(y, m, kept)
                   shown == Fetched(kept, first, first + 41)
                   B == UNION {MonthBars(v, first, first + 41) :
                                  v \in {u \in shown : IsMultiDay(u)}}
                   rows == [w \in 0..5 |-> InLanes({bar \in B : bar.row = w})]
               IN  /\ p.view = "month" /\ p.kept = kept /\ p.cells = Row(first, 42)
                   /\ p.singles = {<<v, DayOf(agenda[v].start)>> :
                                      v \in {u \in shown : ~IsMultiDay(u)}}
                   /\ p.bars = UNION {rows[w].bars : w \in 0..5}
                   /\ p.lanes = [w \in 0..5 |-> Len(rows[w].ends)]
                   /\ p.blocks = {}
<1> DEFINE first == FirstOf(y, m) - Weekday(FirstOf(y, m))
<1>1. CellsOf(y, m) = Row(first, 42) /\ first \in Int
    BY CellsInARow
<1> HIDE DEF first
<1>2. /\ Head(CellsOf(y, m)) = first
      /\ CellsOf(y, m)[Len(CellsOf(y, m))] = first + 41
    <2>1. Head(Row(first, 42)) = first /\ Row(first, 42)[Len(Row(first, 42))] = first + 42 - 1
        <3>1. 42 \in Nat /\ 42 > 0
            OBVIOUS
        <3>2. QED
            BY <1>1, <3>1, DaysOfRow
    <2>2. first + 42 - 1 = first + 41
        BY <1>1
    <2>3. QED
        BY <1>1, <2>1, <2>2
<1> DEFINE p == MonthPage(y, m, kept)
           shown == Fetched(kept, first, first + 41)
           B == UNION {MonthBars(v, first, first + 41) : v \in {u \in shown : IsMultiDay(u)}}
           rows == [w \in 0..5 |-> InLanes({bar \in B : bar.row = w})]
<1>3. p = [NoPage EXCEPT
            !.view = "month", !.month = <<y, m>>, !.kept = kept,
            !.cells = CellsOf(y, m),
            !.singles = {<<v, DayOf(agenda[v].start)>> :
                            v \in {u \in shown : ~IsMultiDay(u)}},
            !.bars = UNION {rows[w].bars : w \in 0..5},
            !.lanes = [w \in 0..5 |-> Len(rows[w].ends)]]
    <2> DEFINE Shown(a, z) == Fetched(kept, a, z)
               Bars(a, z) == UNION {MonthBars(v, a, z) : v \in {u \in Shown(a, z) : IsMultiDay(u)}}
               Rows(a, z) == [w \in 0..5 |-> InLanes({bar \in Bars(a, z) : bar.row = w})]
               Page(a, z) == [NoPage EXCEPT
                    !.view = "month", !.month = <<y, m>>, !.kept = kept,
                    !.cells = CellsOf(y, m),
                    !.singles = {<<v, DayOf(agenda[v].start)>> :
                                    v \in {u \in Shown(a, z) : ~IsMultiDay(u)}},
                    !.bars = UNION {Rows(a, z)[w].bars : w \in 0..5},
                    !.lanes = [w \in 0..5 |-> Len(Rows(a, z)[w].ends)]]
    <2>1. p = Page(Head(CellsOf(y, m)), CellsOf(y, m)[Len(CellsOf(y, m))])
        BY DEF MonthPage
    <2> HIDE DEF p, Page
    <2>2. p = Page(first, first + 41)
        BY <1>2, <2>1
    <2>3. QED
        BY <2>2 DEF Page
<1> HIDE DEF p, rows, shown, B
<1>4. /\ p.view = "month" /\ p.kept = kept /\ p.cells = Row(first, 42)
      /\ p.singles = {<<v, DayOf(agenda[v].start)>> : v \in {u \in shown : ~IsMultiDay(u)}}
      /\ p.bars = UNION {rows[w].bars : w \in 0..5}
      /\ p.lanes = [w \in 0..5 |-> Len(rows[w].ends)]
      /\ p.blocks = {}
    BY <1>1, <1>3 DEF NoPage
<1>5. QED
    BY <1>1, <1>4 DEF p, rows, shown, B

\* The months: each job once a day, and no bar over another.
LEMMA MonthIsReadable ==
    ASSUME agenda \in [Visits -> VisitTimes],
           NEW y \in Int, NEW m \in 1..12, NEW kept \in SUBSET Visits
    PROVE  Readable(MonthPage(y, m, kept))
<1> DEFINE p == MonthPage(y, m, kept)
           Shown(a) == Fetched(kept, a, a + 41)
           Bars(a) == UNION {MonthBars(v, a, a + 41) : v \in {u \in Shown(a) : IsMultiDay(u)}}
           Rows(a) == [w \in 0..5 |-> InLanes({bar \in Bars(a) : bar.row = w})]
<1>1. PICK first \in Int :
          /\ p.view = "month" /\ p.kept = kept /\ p.cells = Row(first, 42)
          /\ p.singles = {<<v, DayOf(agenda[v].start)>> :
                             v \in {u \in Shown(first) : ~IsMultiDay(u)}}
          /\ p.bars = UNION {Rows(first)[w].bars : w \in 0..5}
          /\ p.lanes = [w \in 0..5 |-> Len(Rows(first)[w].ends)]
          /\ p.blocks = {}
    BY MonthPageParts
<1> DEFINE shown == Shown(first)
           B == Bars(first)
           rows == Rows(first)
<1>2. Head(p.cells) = first /\ DaysOf(p) = first..(first + 41)
    <2>1. /\ ToSet(Row(first, 42)) = first..(first + 42 - 1)
          /\ Head(Row(first, 42)) = first
        <3>1. 42 \in Nat /\ 42 > 0
            OBVIOUS
        <3>2. QED
            BY <3>1, DaysOfRow
    <2>2. first + 42 - 1 = first + 41
        OBVIOUS
    <2>3. QED
        BY <1>1, <2>1, <2>2 DEF DaysOf
\* which jobs it shows
<1>3. ASSUME NEW v \in Visits
      PROVE  v \in shown <=> v \in kept /\ HasTime(v) /\ DaysWithin(v, first, first + 41) # {}
    <2>1. first + 41 \in Int
        OBVIOUS
    <2>2. QED
        BY <2>1, ShownAre
<1>4. shown \subseteq Visits
    BY DEF Fetched
<1>5. \A b : b \in B <=> \E v \in shown : IsMultiDay(v) /\ b \in MonthBars(v, first, first + 41)
    OBVIOUS
<1>6. \A w \in 0..5 : rows[w] = InLanes({b \in B : b.row = w})
    OBVIOUS
<1>7. \A v, d : <<v, d>> \in p.singles
                    <=> v \in shown /\ ~IsMultiDay(v) /\ d = DayOf(agenda[v].start)
    BY <1>1
<1> HIDE DEF p, shown, B, rows
<1>8. /\ p.bars = UNION {rows[w].bars : w \in 0..5} /\ p.lanes = [w \in 0..5 |-> Len(rows[w].ends)]
    BY <1>1 DEF rows
<1>9. ASSUME NEW b \in B
      PROVE  /\ b \in BareBars /\ b.row \in 0..5 /\ b.col \in 0..6 /\ b.visit \in shown
             /\ b.visit \in Visits /\ HasTime(b.visit)
             /\ IsMultiDay(b.visit) /\ b \in MonthBars(b.visit, first, first + 41)
    <2>1. PICK v \in shown : IsMultiDay(v) /\ b \in MonthBars(v, first, first + 41)
        BY <1>5
    <2>2. v \in Visits /\ HasTime(v)
        BY <1>3, <1>4
    <2>3. QED
        BY <2>1, <2>2, MonthBarsAre
<1>10. IsFiniteSet(B)
    <2> DEFINE f == [b \in B |-> <<b.visit, b.row>>]
    <2>1. IsFiniteSet(Visits \X (0..5))
        <3>1. \A c \in Nat : IsFiniteSet(0..c)
            BY FS_Interval
        <3>2. IsFiniteSet(0..5) /\ IsFiniteSet(Visits)
            BY <3>1, CalendarConstants
        <3>3. QED
            BY <3>2, FS_Product
    <2>2. f \in [B -> Visits \X (0..5)]
        BY <1>9
    <2>3. ASSUME NEW a \in B, NEW b \in B, f[a] = f[b] PROVE a = b
        <3>1. a.visit = b.visit /\ a.row = b.row
            BY <2>3
        <3>2. QED
            BY <1>9, <3>1, MonthBarsAre
    <2> HIDE DEF f
    <2>4. QED
        BY <2>1, <2>2, <2>3, FiniteByKey
<1>11. LaidInRows(p.bars, rows, 0..5, B)
    BY <1>6, <1>8, <1>9, <1>10 DEF LaidInRows
<1>12. RowsApart(p)
    <2>1. ASSUME NEW b \in B PROVE first + 7 * b.row + b.col \in DaysOf(p)
        <3>1. b.row \in 0..5 /\ b.col \in 0..6
            BY <1>9
        <3>2. first + 7 * b.row + b.col \in first..(first + 41)
            BY <3>1
        <3>3. QED
            BY <1>2, <3>2
    <2>2. DOMAIN p.lanes = 0..5 /\ \A w \in 0..5 : p.lanes[w] = Len(rows[w].ends)
        BY <1>8
    <2>3. QED
        BY <1>2, <1>11, <2>1, <2>2, RowsOfPage
<1>13. Beside(p) /\ AllInPlace(p)
    BY <1>1 DEF Beside, AllInPlace
<1>14. RowsHold(first, p.bars, rows, 0..5, B)
    BY <1>11, RowsAre
<1>15. /\ \A q \in p.bars : /\ Bare(q) \in B /\ q.visit = Bare(q).visit
                            /\ DaysOfBar(first, q) = DaysOfBar(first, Bare(q))
       /\ \A b \in B : \E q \in p.bars : Bare(q) = b
       /\ \A a, b \in p.bars : Bare(a) = Bare(b) => a = b
    BY <1>14, Zenon DEF RowsHold
<1>16. ASSUME NEW v \in Visits, NEW day \in first..(first + 41)
       PROVE  DrawnOn(p, v, day) = IF v \in p.kept /\ TakesPlace(v, day) THEN 1 ELSE 0
    <2> DEFINE Bar(q) == q.visit = v /\ day \in DaysOfBar(first, q)
    <2>1. ASSUME NEW a \in p.bars, NEW b \in p.bars, Bar(a), Bar(b) PROVE a = b
        <3>1. /\ Bare(a) \in MonthBars(v, first, first + 41)
              /\ Bare(b) \in MonthBars(v, first, first + 41)
              /\ day \in DaysOfBar(first, Bare(a)) /\ day \in DaysOfBar(first, Bare(b))
              /\ HasTime(v)
            BY <1>9, <1>15, <2>1
        <3>2. Bare(a) = Bare(b)
            BY <3>1, MonthBarsAre
        <3>3. QED
            BY <1>15, <3>2
    <2>2. (\E q \in p.bars : Bar(q))
              <=> v \in shown /\ IsMultiDay(v) /\ day \in DaysWithin(v, first, first + 41)
        <3>1. ASSUME NEW q \in p.bars, Bar(q)
              PROVE  v \in shown /\ IsMultiDay(v) /\ day \in DaysWithin(v, first, first + 41)
            <4>1. /\ Bare(q) \in MonthBars(v, first, first + 41) /\ v \in shown /\ IsMultiDay(v)
                  /\ day \in DaysOfBar(first, Bare(q)) /\ HasTime(v)
                BY <1>9, <1>15, <3>1
            <4>2. QED
                BY <4>1, MonthBarsAre
        <3>2. ASSUME v \in shown, IsMultiDay(v), day \in DaysWithin(v, first, first + 41)
              PROVE  \E q \in p.bars : Bar(q)
            <4>1. HasTime(v)
                BY <1>3, <3>2
            <4>2. PICK b \in MonthBars(v, first, first + 41) : day \in DaysOfBar(first, b)
                BY <3>2, <4>1, MonthBarsAre
            <4>3. b \in B /\ b.visit = v
                BY <1>5, <3>2, <4>1, MonthBarsAre
            <4>4. QED
                BY <1>15, <4>2, <4>3
        <3>3. QED
            BY <3>1, <3>2
    <2>3. <<v, day>> \in p.singles <=> v \in shown /\ ~IsMultiDay(v) /\ TakesPlace(v, day)
        <3>1. v \in shown /\ ~IsMultiDay(v) => (TakesPlace(v, day) <=> day = DayOf(agenda[v].start))
            BY <1>3, OneDay
        <3>2. QED
            BY <1>7, <3>1
    <2>4. TakesPlace(v, day) <=> HasTime(v) /\ day \in DaysWithin(v, first, first + 41)
        <3>1. first + 41 \in Int
            OBVIOUS
        <3>2. QED
            BY <3>1, ShownAre
    <2>5. p.kept = kept /\ p.blocks = {}
        BY <1>1
    <2>6. DrawnOn(p, v, day) =
               (IF \E q \in p.bars : q.visit = v /\ day \in DaysOfBar(first, q) THEN 1 ELSE 0)
                 + (IF \E block \in p.blocks : block.visit = v /\ block.day = day THEN 1 ELSE 0)
                 + (IF <<v, day>> \in p.singles THEN 1 ELSE 0)
        <3>1. \A a, b \in {bar \in p.bars : bar.visit = v /\ day \in DaysOfBar(first, bar)} : a = b
            BY <2>1
        <3>2. \A a, b \in {block \in p.blocks : block.visit = v /\ block.day = day} : a = b
            BY <2>5
        <3>3. QED
            BY <1>2, <3>1, <3>2, DrawnIs
    <2>7. v \in shown <=> v \in kept /\ HasTime(v) /\ DaysWithin(v, first, first + 41) # {}
        BY <1>3
    <2>8. QED
        BY <2>2, <2>3, <2>4, <2>5, <2>6, <2>7
<1>17. EachDayOnce(p)
    BY <1>2, <1>16 DEF EachDayOnce
<1>18. QED
    BY <1>12, <1>13, <1>17 DEF Readable, p

\* What a week has on it: bars for the jobs of the row above, blocks for the
\* others.
WeekIs(p, monday, kept) ==
    LET shown == Fetched(kept, monday, monday + 6)
        B == {WeekBar(v, monday) : v \in {u \in shown : InAllDayRow(u)}}
        C == {BlockOf(v, DayOf(agenda[v].start)) : v \in {u \in shown : ~InAllDayRow(u)}}
    IN  /\ p.view = "week" /\ p.kept = kept /\ p.cells = Row(monday, 7) /\ p.singles = {}
        /\ p.bars = InLanes(B).bars
        /\ p.lanes = [w \in {0} |-> Len(InLanes(B).ends)]
        /\ p.blocks = UNION {SideBySide({b \in C : b.day = d}) : d \in monday..(monday + 6)}

\* The page of a week is made so.
LEMMA WeekPageParts ==
    ASSUME agenda \in [Visits -> VisitTimes], NEW monday \in Int, NEW kept \in SUBSET Visits
    PROVE  WeekIs(WeekPage(monday, kept), monday, kept)
<1> DEFINE p == WeekPage(monday, kept)
           shown == Fetched(kept, monday, monday + 6)
           B == {WeekBar(v, monday) : v \in {u \in shown : InAllDayRow(u)}}
           timed == {v \in shown : ~InAllDayRow(v)}
           Column(day) == {BlockOf(v, day) : v \in {u \in timed : DayOf(agenda[u].start) = day}}
           C == {BlockOf(v, DayOf(agenda[v].start)) : v \in {u \in shown : ~InAllDayRow(u)}}
<1>1. p = [NoPage EXCEPT
            !.view = "week", !.kept = kept,
            !.cells = [i \in 1..7 |-> monday + i - 1],
            !.bars = InLanes(B).bars, !.lanes = [w \in {0} |-> Len(InLanes(B).ends)],
            !.blocks = UNION {SideBySide(Column(day)) : day \in monday..(monday + 6)}]
    BY DEF WeekPage
<1>2. \A v, d : BlockOf(v, d).day = d
    BY DEF BlockOf
<1>3. \A day : Column(day) = {b \in C : b.day = day}
    <2> SUFFICES ASSUME NEW day PROVE Column(day) = {b \in C : b.day = day}
        OBVIOUS
    <2>1. ASSUME NEW b \in Column(day) PROVE b \in C /\ b.day = day
        <3>1. PICK v \in timed : DayOf(agenda[v].start) = day /\ b = BlockOf(v, day)
            OBVIOUS
        <3>2. QED
            BY <1>2, <3>1
    <2>2. ASSUME NEW b \in C, b.day = day PROVE b \in Column(day)
        <3>1. PICK v \in timed : b = BlockOf(v, DayOf(agenda[v].start))
            OBVIOUS
        <3>2. DayOf(agenda[v].start) = day
            BY <1>2, <2>2, <3>1
        <3>3. QED
            BY <3>1, <3>2
    <2> HIDE DEF Column, C
    <2>3. QED
        BY <2>1, <2>2
<1> HIDE DEF p, B, Column, C
<1>4. {SideBySide(Column(day)) : day \in monday..(monday + 6)}
          = {SideBySide({b \in C : b.day = d}) : d \in monday..(monday + 6)}
    BY <1>3
<1>5. /\ p.view = "week" /\ p.kept = kept /\ p.cells = [i \in 1..7 |-> monday + i - 1]
      /\ p.singles = {}
      /\ p.bars = InLanes(B).bars /\ p.lanes = [w \in {0} |-> Len(InLanes(B).ends)]
      /\ p.blocks = UNION {SideBySide(Column(day)) : day \in monday..(monday + 6)}
    BY <1>1 DEF NoPage
<1>6. p.cells = Row(monday, 7)
    BY <1>5 DEF Row
<1>7. QED
    BY <1>4, <1>5, <1>6 DEF WeekIs, p, B, C

\* The weeks: each job once a day, in the row above or in the column of its day.
LEMMA WeekIsReadable ==
    ASSUME agenda \in [Visits -> VisitTimes], NEW monday \in Int, NEW kept \in SUBSET Visits
    PROVE  Readable(WeekPage(monday, kept))
<1> DEFINE p == WeekPage(monday, kept)
           shown == Fetched(kept, monday, monday + 6)
           B == {WeekBar(v, monday) : v \in {u \in shown : InAllDayRow(u)}}
           C == {BlockOf(v, DayOf(agenda[v].start)) : v \in {u \in shown : ~InAllDayRow(u)}}
           rows == [w \in {0} |-> InLanes(B)]
<1>1. /\ p.view = "week" /\ p.kept = kept /\ p.cells = Row(monday, 7) /\ p.singles = {}
      /\ p.bars = InLanes(B).bars
      /\ p.lanes = [w \in {0} |-> Len(InLanes(B).ends)]
      /\ p.blocks = UNION {SideBySide({b \in C : b.day = d}) : d \in monday..(monday + 6)}
    <2>1. WeekIs(WeekPage(monday, kept), monday, kept)
        BY WeekPageParts
    <2>2. QED
        BY <2>1, Zenon DEF WeekIs
<1> DEFINE days == monday..(monday + 6)
<1>2. Head(p.cells) = monday /\ DaysOf(p) = days
    <2>1. /\ ToSet(Row(monday, 7)) = monday..(monday + 7 - 1)
          /\ Head(Row(monday, 7)) = monday
        <3>1. 7 \in Nat /\ 7 > 0
            OBVIOUS
        <3>2. QED
            BY <3>1, DaysOfRow
    <2>2. monday + 7 - 1 = monday + 6
        OBVIOUS
    <2>3. QED
        BY <1>1, <2>1, <2>2 DEF DaysOf
<1>3. ASSUME NEW v \in Visits
      PROVE  /\ v \in shown <=> v \in kept /\ HasTime(v) /\ DaysWithin(v, monday, monday + 6) # {}
             /\ \A day \in days :
                   TakesPlace(v, day) <=> HasTime(v) /\ day \in DaysWithin(v, monday, monday + 6)
    <2> DEFINE sunday == monday + 6
    <2>1. sunday \in Int
        OBVIOUS
    <2> HIDE DEF sunday
    <2>2. v \in Fetched(kept, monday, sunday)
              <=> v \in kept /\ HasTime(v) /\ DaysWithin(v, monday, sunday) # {}
        BY <2>1, ShownAre
    <2>3. \A day \in monday..sunday :
              TakesPlace(v, day) <=> HasTime(v) /\ day \in DaysWithin(v, monday, sunday)
        BY <2>1, ShownAre
    <2>4. QED
        BY <2>2, <2>3 DEF sunday
<1>4. shown \subseteq Visits
    BY DEF Fetched
<1>5. /\ \A b : b \in B <=> \E v \in shown : InAllDayRow(v) /\ b = WeekBar(v, monday)
      /\ \A b : b \in C
                  <=> \E v \in shown : ~InAllDayRow(v) /\ b = BlockOf(v, DayOf(agenda[v].start))
    OBVIOUS
<1>6. /\ rows[0] = InLanes(B) /\ UNION {rows[w].bars : w \in {0}} = InLanes(B).bars
    OBVIOUS
<1> HIDE DEF p, shown, B, C, rows
\* what is in the row above
<1>7. ASSUME NEW v \in shown, InAllDayRow(v)
      PROVE  LET bar == WeekBar(v, monday) IN
             /\ bar \in B /\ bar \in BareBars /\ bar.visit = v /\ bar.row = 0 /\ bar.col \in 0..6
             /\ DaysOfBar(monday, bar) = DaysWithin(v, monday, monday + 6)
    <2>1. v \in Visits /\ HasTime(v) /\ DaysWithin(v, monday, monday + 6) # {}
        BY <1>3, <1>4
    <2>2. QED
        BY <1>5, <1>7, <2>1, WeekBarIs, WeekBarIsExact
<1>8. ASSUME NEW b \in B
      PROVE  /\ b \in BareBars /\ b.row = 0 /\ b.col \in 0..6 /\ b.visit \in shown
             /\ InAllDayRow(b.visit) /\ b = WeekBar(b.visit, monday)
             /\ DaysOfBar(monday, b) = DaysWithin(b.visit, monday, monday + 6)
    <2>1. PICK v \in shown : InAllDayRow(v) /\ b = WeekBar(v, monday)
        BY <1>5
    <2>2. QED
        BY <1>7, <2>1
<1>9. IsFiniteSet(B)
    <2> DEFINE f == [b \in B |-> b.visit]
    <2>1. f \in [B -> Visits] /\ \A a, b \in B : f[a] = f[b] => a = b
        BY <1>4, <1>8
    <2> HIDE DEF f
    <2>2. QED
        BY <2>1, FiniteByKey, CalendarConstants
<1>10. LaidInRows(p.bars, rows, {0}, B)
    <2>1. {b \in B : b.row = 0} = B
        BY <1>8
    <2>2. \A w \in {0} : rows[w] = InLanes({b \in B : b.row = w})
        BY <1>6, <2>1
    <2>3. p.bars = UNION {rows[w].bars : w \in {0}}
        BY <1>1, <1>6
    <2>4. B \subseteq BareBars /\ \A b \in B : b.row \in {0}
        BY <1>8
    <2>5. QED
        BY <1>9, <2>2, <2>3, <2>4 DEF LaidInRows
<1>11. RowsApart(p)
    <2>1. ASSUME NEW b \in B PROVE monday + 7 * b.row + b.col \in DaysOf(p)
        <3>1. b.row = 0 /\ b.col \in 0..6
            BY <1>8
        <3>2. monday + 7 * b.row + b.col \in days
            BY <3>1
        <3>3. QED
            BY <1>2, <3>2
    <2>2. DOMAIN p.lanes = {0} /\ \A w \in {0} : p.lanes[w] = Len(rows[w].ends)
        BY <1>1, <1>6
    <2> HIDE DEF days
    <2>3. QED
        BY <1>2, <1>10, <2>1, <2>2, RowsOfPage
\* what is in the columns
<1>12. ASSUME NEW v \in shown, ~InAllDayRow(v)
       PROVE  LET block == BlockOf(v, DayOf(agenda[v].start)) IN
              /\ v \in Visits /\ HasTime(v) /\ ~IsMultiDay(v) /\ DayOf(agenda[v].start) \in days
              /\ DayOf(agenda[v].start) \in Int
              /\ block \in C /\ block \in BareBlocks /\ block.visit = v
              /\ block.day = DayOf(agenda[v].start)
    <2>1. v \in Visits /\ HasTime(v) /\ DaysWithin(v, monday, monday + 6) # {} /\ ~IsMultiDay(v)
        BY <1>3, <1>4, <1>12 DEF InAllDayRow
    <2>2. DayOf(agenda[v].start) \in Int
        <3>1. \A time \in Nat : DayOf(time) \in Int
            BY HoursOfDays
        <3>2. QED
            BY <2>1, <3>1, TimesAre
    <2>3. DayOf(agenda[v].start) \in days
        <3>1. PICK day : day \in DaysWithin(v, monday, monday + 6)
            BY <2>1
        <3>2. day \in days /\ day \in Int
            BY <3>1 DEF DaysWithin
        <3>3. day = DayOf(agenda[v].start)
            BY <1>3, <2>1, <3>1, <3>2, OneDay
        <3>4. QED
            BY <3>2, <3>3
    <2>4. QED
        BY <1>5, <1>12, <2>1, <2>2, <2>3, BlockIs
<1>13. ASSUME NEW b \in C
       PROVE  /\ b \in BareBlocks /\ b.visit \in shown
              /\ ~InAllDayRow(b.visit) /\ b.visit \in Visits
              /\ HasTime(b.visit) /\ b.day = DayOf(agenda[b.visit].start) /\ b.day \in days
              /\ b.day \in Int /\ b = BlockOf(b.visit, b.day)
    <2>1. PICK v \in shown : ~InAllDayRow(v) /\ b = BlockOf(v, DayOf(agenda[v].start))
        BY <1>5
    <2>2. QED
        BY <1>12, <2>1
<1>14. IsFiniteSet(C)
    <2> DEFINE f == [b \in C |-> b.visit]
    <2>1. f \in [C -> Visits] /\ \A a, b \in C : f[a] = f[b] => a = b
        BY <1>13
    <2> HIDE DEF f
    <2>2. QED
        BY <2>1, FiniteByKey, CalendarConstants
<1>15. LaidInColumns(p.blocks, days, C)
    BY <1>1, <1>13, <1>14 DEF LaidInColumns
<1>16. Beside(p) /\ AllInPlace(p)
    <2>1. \A b \in C : \E v \in Visits, day \in Int : HasTime(v) /\ b = BlockOf(v, day)
        BY <1>13
    <2>2. QED
        BY <1>15, <2>1, BlocksOfPage
<1>17. /\ \A q \in p.bars : /\ Bare(q) \in B /\ q.visit = Bare(q).visit
                            /\ DaysOfBar(monday, q) = DaysOfBar(monday, Bare(q))
       /\ \A b \in B : \E q \in p.bars : Bare(q) = b
       /\ \A a, b \in p.bars : Bare(a) = Bare(b) => a = b
    <2>1. RowsHold(monday, p.bars, rows, {0}, B)
        BY <1>10, RowsAre
    <2>2. QED
        BY <2>1, Zenon DEF RowsHold
<1>18. /\ \A q \in p.blocks : /\ BareBlock(q) \in C /\ q.visit = BareBlock(q).visit
                              /\ q.day = BareBlock(q).day
       /\ \A b \in C : \E q \in p.blocks : BareBlock(q) = b
       /\ \A a, b \in p.blocks : BareBlock(a) = BareBlock(b) => a = b
    <2>1. BlocksHold(p.blocks, C)
        BY <1>15, BlocksAre
    <2>2. QED
        BY <2>1, Zenon DEF BlocksHold
<1>19. ASSUME NEW v \in Visits, NEW day \in days
       PROVE  DrawnOn(p, v, day) = IF v \in p.kept /\ TakesPlace(v, day) THEN 1 ELSE 0
    <2> DEFINE Bar(q) == q.visit = v /\ day \in DaysOfBar(monday, q)
               Block(q) == q.visit = v /\ q.day = day
    <2>1. ASSUME NEW a \in p.bars, NEW b \in p.bars, Bar(a), Bar(b) PROVE a = b
        BY <1>8, <1>17, <2>1
    <2>2. ASSUME NEW a \in p.blocks, NEW b \in p.blocks, Block(a), Block(b) PROVE a = b
        BY <1>13, <1>18, <2>2
    <2>3. (\E q \in p.bars : Bar(q))
              <=> v \in shown /\ InAllDayRow(v) /\ day \in DaysWithin(v, monday, monday + 6)
        <3>1. ASSUME NEW q \in p.bars, Bar(q)
              PROVE  v \in shown /\ InAllDayRow(v) /\ day \in DaysWithin(v, monday, monday + 6)
            BY <1>8, <1>17, <3>1
        <3>2. ASSUME v \in shown, InAllDayRow(v), day \in DaysWithin(v, monday, monday + 6)
              PROVE  \E q \in p.bars : Bar(q)
            <4>1. /\ WeekBar(v, monday) \in B /\ WeekBar(v, monday).visit = v
                  /\ day \in DaysOfBar(monday, WeekBar(v, monday))
                BY <1>7, <3>2
            <4>2. QED
                BY <1>17, <4>1
        <3>3. QED
            BY <3>1, <3>2
    <2>4. (\E q \in p.blocks : Block(q)) <=> v \in shown /\ ~InAllDayRow(v) /\ TakesPlace(v, day)
        <3>1. ASSUME NEW q \in p.blocks, Block(q)
              PROVE  v \in shown /\ ~InAllDayRow(v) /\ TakesPlace(v, day)
            <4>1. v \in shown /\ ~InAllDayRow(v) /\ day = DayOf(agenda[v].start)
                BY <1>13, <1>18, <3>1
            <4>2. HasTime(v) /\ ~IsMultiDay(v) /\ day \in Int
                BY <1>12, <4>1
            <4>3. QED
                BY <4>1, <4>2, OneDay
        <3>2. ASSUME v \in shown, ~InAllDayRow(v), TakesPlace(v, day)
              PROVE  \E q \in p.blocks : Block(q)
            <4> DEFINE block == BlockOf(v, DayOf(agenda[v].start))
            <4>1. /\ HasTime(v) /\ ~IsMultiDay(v) /\ block \in C /\ block.visit = v
                  /\ block.day = DayOf(agenda[v].start)
                BY <1>12, <3>2
            <4>2. day = DayOf(agenda[v].start)
                BY <3>2, <4>1, OneDay
            <4>3. PICK q \in p.blocks : BareBlock(q) = block
                BY <1>18, <4>1
            <4>4. QED
                BY <1>18, <4>1, <4>2, <4>3
        <3>3. QED
            BY <3>1, <3>2
    <2>5. p.kept = kept /\ <<v, day>> \notin p.singles
        BY <1>1
    <2>6. DrawnOn(p, v, day) =
               (IF \E q \in p.bars : q.visit = v /\ day \in DaysOfBar(monday, q) THEN 1 ELSE 0)
                 + (IF \E block \in p.blocks : block.visit = v /\ block.day = day THEN 1 ELSE 0)
                 + (IF <<v, day>> \in p.singles THEN 1 ELSE 0)
        <3>1. \A a, b \in {bar \in p.bars : bar.visit = v /\ day \in DaysOfBar(monday, bar)} : a = b
            BY <2>1
        <3>2. \A a, b \in {block \in p.blocks : block.visit = v /\ block.day = day} : a = b
            BY <2>2
        <3>3. QED
            BY <1>2, <3>1, <3>2, DrawnIs
    <2>7. /\ v \in shown <=> v \in kept /\ HasTime(v) /\ DaysWithin(v, monday, monday + 6) # {}
          /\ TakesPlace(v, day) <=> HasTime(v) /\ day \in DaysWithin(v, monday, monday + 6)
        BY <1>3
    <2>8. QED
        BY <2>3, <2>4, <2>5, <2>6, <2>7
<1>20. EachDayOnce(p)
    BY <1>2, <1>19 DEF EachDayOnce
<1>21. QED
    BY <1>11, <1>16, <1>20 DEF Readable, p

\* The days: each job that takes place on the day once.
LEMMA DayIsReadable ==
    ASSUME agenda \in [Visits -> VisitTimes], NEW day \in Int, NEW kept \in SUBSET Visits
    PROVE  Readable(DayPage(day, kept))
<1> DEFINE p == DayPage(day, kept)
           shown == Fetched(kept, day, day)
           C == {BlockOf(v, day) : v \in shown}
<1>1. /\ p.kept = kept /\ p.cells = <<day>> /\ p.singles = {} /\ p.bars = {} /\ p.lanes = << >>
      /\ p.blocks = SideBySide(C)
    BY DEF DayPage, NoPage
<1>2. Head(p.cells) = day /\ DaysOf(p) = {day}
    BY <1>1 DEF DaysOf, ToSet
<1>3. ASSUME NEW v \in Visits
      PROVE  v \in shown <=> v \in kept /\ TakesPlace(v, day)
    <2>1. v \in shown <=> v \in kept /\ HasTime(v) /\ DaysWithin(v, day, day) # {}
        BY ShownAre
    <2>2. DaysWithin(v, day, day) # {} <=> day \in DaysWithin(v, day, day)
        BY DEF DaysWithin
    <2>3. day \in day..day
        OBVIOUS
    <2>4. TakesPlace(v, day) <=> HasTime(v) /\ day \in DaysWithin(v, day, day)
        BY <2>3, ShownAre
    <2>5. QED
        BY <2>1, <2>2, <2>4
<1>4. shown \subseteq Visits
    BY DEF Fetched
<1>5. \A b : b \in C <=> \E v \in shown : b = BlockOf(v, day)
    OBVIOUS
<1> HIDE DEF p, shown, C
<1>6. ASSUME NEW v \in shown
      PROVE  /\ v \in Visits /\ HasTime(v) /\ BlockOf(v, day) \in C
             /\ BlockOf(v, day) \in BareBlocks
             /\ BlockOf(v, day).visit = v /\ BlockOf(v, day).day = day
    <2>1. v \in Visits /\ HasTime(v)
        BY <1>3, <1>4 DEF TakesPlace
    <2>2. QED
        BY <1>5, <2>1, BlockIs
<1>7. ASSUME NEW b \in C
      PROVE  /\ b \in BareBlocks /\ b.visit \in shown /\ b.visit \in Visits /\ HasTime(b.visit)
             /\ b.day = day /\ b = BlockOf(b.visit, day)
    <2>1. PICK v \in shown : b = BlockOf(v, day)
        BY <1>5
    <2>2. QED
        BY <1>6, <2>1
<1>8. IsFiniteSet(C)
    <2> DEFINE f == [b \in C |-> b.visit]
    <2>1. f \in [C -> Visits] /\ \A a, b \in C : f[a] = f[b] => a = b
        BY <1>7
    <2> HIDE DEF f
    <2>2. QED
        BY <2>1, FiniteByKey, CalendarConstants
<1>9. LaidInColumns(p.blocks, {day}, C)
    <2>1. {b \in C : b.day = day} = C
        BY <1>7
    <2>2. p.blocks = UNION {SideBySide({b \in C : b.day = d}) : d \in {day}}
        BY <1>1, <2>1
    <2>3. QED
        BY <1>7, <1>8, <2>2 DEF LaidInColumns
<1>10. Beside(p) /\ AllInPlace(p)
    <2>1. \A b \in C : \E v \in Visits, d \in Int : HasTime(v) /\ b = BlockOf(v, d)
        BY <1>7
    <2>2. QED
        BY <1>9, <2>1, BlocksOfPage
<1>11. RowsApart(p)
    BY <1>1 DEF RowsApart
<1>12. /\ \A q \in p.blocks : /\ BareBlock(q) \in C /\ q.visit = BareBlock(q).visit
                              /\ q.day = BareBlock(q).day
       /\ \A b \in C : \E q \in p.blocks : BareBlock(q) = b
       /\ \A a, b \in p.blocks : BareBlock(a) = BareBlock(b) => a = b
    <2>1. BlocksHold(p.blocks, C)
        BY <1>9, BlocksAre
    <2>2. QED
        BY <2>1, Zenon DEF BlocksHold
<1>13. ASSUME NEW v \in Visits
       PROVE  DrawnOn(p, v, day) = IF v \in p.kept /\ TakesPlace(v, day) THEN 1 ELSE 0
    <2> DEFINE Block(q) == q.visit = v /\ q.day = day
    <2>1. ASSUME NEW a \in p.blocks, NEW b \in p.blocks, Block(a), Block(b) PROVE a = b
        BY <1>7, <1>12, <2>1
    <2>2. (\E q \in p.blocks : Block(q)) <=> v \in shown
        <3>1. ASSUME NEW q \in p.blocks, Block(q) PROVE v \in shown
            BY <1>7, <1>12, <3>1
        <3>2. ASSUME v \in shown PROVE \E q \in p.blocks : Block(q)
            <4>1. PICK q \in p.blocks : BareBlock(q) = BlockOf(v, day)
                BY <1>6, <1>12, <3>2
            <4>2. QED
                BY <1>6, <1>12, <3>2, <4>1
        <3>3. QED
            BY <3>1, <3>2
    <2>3. DrawnOn(p, v, day) =
               (IF \E q \in p.bars : q.visit = v /\ day \in DaysOfBar(day, q) THEN 1 ELSE 0)
                 + (IF \E block \in p.blocks : block.visit = v /\ block.day = day THEN 1 ELSE 0)
                 + (IF <<v, day>> \in p.singles THEN 1 ELSE 0)
        <3>1. \A a, b \in {bar \in p.bars : bar.visit = v /\ day \in DaysOfBar(day, bar)} : a = b
            BY <1>1
        <3>2. \A a, b \in {block \in p.blocks : block.visit = v /\ block.day = day} : a = b
            BY <2>1
        <3>3. QED
            BY <1>2, <3>1, <3>2, DrawnIs
    <2>4. /\ ~\E q \in p.bars : q.visit = v /\ day \in DaysOfBar(day, q)
          /\ <<v, day>> \notin p.singles /\ p.kept = kept
        BY <1>1
    <2>5. QED
        BY <1>3, <2>2, <2>3, <2>4
<1>14. EachDayOnce(p)
    BY <1>2, <1>13 DEF EachDayOnce
<1>15. QED
    BY <1>10, <1>11, <1>14 DEF Readable, p

\* What CalendarIsFaithful adds to the grids and the forms.
ScreenIsReadable == DrawnOncePerDay /\ LanesApart /\ BlocksApart /\ BlockIsAtItsTime

\* A readable page on the screen.
LEMMA ReadableOnScreen ==
    ASSUME Readable(page'), agenda' = agenda
    PROVE  ScreenIsReadable'
<1>1. \A v \in Visits : /\ HasTime(v)' <=> HasTime(v)
                        /\ LastTime(v)' = LastTime(v) /\ IsMultiDay(v)' <=> IsMultiDay(v)
    BY DEF HasTime, LastTime, IsMultiDay
<1>2. DrawnOncePerDay'
    <2> SUFFICES ASSUME page'.view # "form", NEW v \in Visits, NEW day \in PageDays'
                 PROVE  TimesDrawn(v, day)' =
                            IF /\ v \in page'.kept /\ HasTime(v)'
                               /\ DayOf(agenda'[v].start) <= day /\ day <= DayOf(LastTime(v)')
                            THEN 1 ELSE 0
        BY DEF DrawnOncePerDay
    <2>1. DaysOf(page') = PageDays'
        BY DEF DaysOf, PageDays
    <2>2. DrawnOn(page', v, day) = TimesDrawn(v, day)'
        BY DEF DrawnOn, TimesDrawn, DaysOfBar, BarDays
    <2>3. TakesPlace(v, day) <=> /\ HasTime(v)' /\ DayOf(agenda'[v].start) <= day
                                 /\ day <= DayOf(LastTime(v)')
        BY DEF TakesPlace, HasTime, LastTime
    <2>4. DrawnOn(page', v, day) = IF v \in page'.kept /\ TakesPlace(v, day) THEN 1 ELSE 0
        BY <2>1 DEF Readable, EachDayOnce
    <2>5. QED
        BY <2>2, <2>3, <2>4
<1>3. LanesApart'
    BY DEF Readable, RowsApart, DaysOf, DaysOfBar, LanesApart, PageDays, BarDays
<1>4. BlocksApart'
    BY DEF Readable, Beside, BlocksApart
<1>5. BlockIsAtItsTime'
    BY <1>1 DEF Readable, AllInPlace, InPlace, BlockIsAtItsTime, HasTime, LastTime, IsMultiDay
<1>6. QED
    BY <1>2, <1>3, <1>4, <1>5 DEF ScreenIsReadable

\* No page, and a form, have nothing that could be drawn wrong.
LEMMA BlanksAreReadable ==
    ASSUME NEW v, NEW day
    PROVE  Readable(JobForm(v, day)) /\ Readable(QuickForm(v, day))
<1>1. /\ JobForm(v, day).cells = << >> /\ JobForm(v, day).lanes = << >>
      /\ JobForm(v, day).bars = {} /\ JobForm(v, day).blocks = {}
    BY DEF JobForm, NoPage
<1>2. /\ QuickForm(v, day).cells = << >> /\ QuickForm(v, day).lanes = << >>
      /\ QuickForm(v, day).bars = {} /\ QuickForm(v, day).blocks = {}
    BY DEF QuickForm, NoPage
<1>3. QED
    BY <1>1, <1>2, BlankIsReadable

\* At first nothing is on the screen.
LEMMA ScreenStartsReadable == CalendarInit => ScreenIsReadable
<1> SUFFICES ASSUME CalendarInit PROVE ScreenIsReadable
    OBVIOUS
<1>1. page.cells = << >> /\ page.lanes = << >> /\ page.bars = {} /\ page.blocks = {}
    BY DEF CalendarInit, NoPage
<1>2. PageDays = {}
    BY <1>1 DEF PageDays, ToSet
<1>3. QED
    BY <1>1, <1>2 DEF ScreenIsReadable, DrawnOncePerDay, LanesApart, BlocksApart, BlockIsAtItsTime

\* What a step puts on the screen is readable.
LEMMA ScreenStaysReadable ==
    CalendarInv /\ ScreenIsReadable /\ [CalendarNext]_calendarVars => ScreenIsReadable'
<1> SUFFICES ASSUME CalendarInv, ScreenIsReadable, [CalendarNext]_calendarVars
             PROVE  ScreenIsReadable'
    OBVIOUS
<1>1. agenda \in [Visits -> VisitTimes]
    BY DEF CalendarInv
<1>2. \A kept \in Filters : kept \in SUBSET Visits
    BY CalendarConstants
<1>3. ASSUME NEW ym \in ShownMonths, NEW kept \in Filters
      PROVE  Readable(MonthPage(ym[1], ym[2], kept))
    <2>1. ym[1] \in Int /\ ym[2] \in 1..12
        BY CalendarConstants
    <2>2. QED
        BY <1>1, <1>2, <2>1, MonthIsReadable
<1>4. ASSUME ShowMonth, UNCHANGED agenda PROVE ScreenIsReadable'
    BY <1>3, <1>4, ReadableOnScreen DEF ShowMonth
<1>5. ASSUME TurnMonth, UNCHANGED agenda PROVE ScreenIsReadable'
    <2>1. PICK ym \in ShownMonths : \E kept \in Filters : page' = MonthPage(ym[1], ym[2], kept)
        BY <1>5 DEF TurnMonth
    <2>2. QED
        BY <1>3, <1>5, <2>1, ReadableOnScreen
<1>6. ASSUME ShowWeek, UNCHANGED agenda PROVE ScreenIsReadable'
    <2>1. PICK day \in ShownDays, kept \in Filters : page' = WeekPage(day - Weekday(day), kept)
        BY <1>6 DEF ShowWeek
    <2>2. day - Weekday(day) \in Int
        BY CalendarConstants DEF Weekday
    <2>3. Readable(page')
        BY <1>1, <1>2, <2>1, <2>2, WeekIsReadable
    <2>4. QED
        BY <1>6, <2>3, ReadableOnScreen
<1>7. ASSUME ShowDay, UNCHANGED agenda PROVE ScreenIsReadable'
    <2>1. PICK day \in ShownDays, kept \in Filters : page' = DayPage(day, kept)
        BY <1>7 DEF ShowDay
    <2>2. Readable(page')
        BY <1>1, <1>2, <2>1, CalendarConstants, DayIsReadable
    <2>3. QED
        BY <1>7, <2>2, ReadableOnScreen
<1>8. ASSUME OpenForm, UNCHANGED agenda PROVE ScreenIsReadable'
    <2>1. Readable(page')
        BY <1>8, BlanksAreReadable DEF OpenForm
    <2>2. QED
        BY <1>8, <2>1, ReadableOnScreen
<1>9. CASE UNCHANGED calendarVars
    <2>1. page' = page /\ agenda' = agenda
        BY <1>9 DEF calendarVars
    <2>2. DrawnOncePerDay'
        <3> SUFFICES ASSUME page'.view # "form", NEW v \in Visits, NEW day \in PageDays'
                     PROVE  TimesDrawn(v, day)' =
                                IF /\ v \in page'.kept /\ HasTime(v)'
                                   /\ DayOf(agenda'[v].start) <= day /\ day <= DayOf(LastTime(v)')
                                THEN 1 ELSE 0
            BY DEF DrawnOncePerDay
        <3>1. PageDays' = PageDays
            BY <2>1 DEF PageDays
        <3>2. TimesDrawn(v, day)' = TimesDrawn(v, day)
            BY <2>1 DEF TimesDrawn, BarDays
        <3>3. (HasTime(v)' <=> HasTime(v)) /\ LastTime(v)' = LastTime(v)
            BY <2>1 DEF HasTime, LastTime
        <3>4. QED
            BY <2>1, <3>1, <3>2, <3>3 DEF ScreenIsReadable, DrawnOncePerDay
    <2>3. LanesApart'
        <3>1. PageDays' = PageDays /\ \A bar : BarDays(bar)' = BarDays(bar)
            BY <2>1 DEF PageDays, BarDays
        <3>2. \A a, b \in page'.bars :
                  a # b /\ a.row = b.row /\ a.lane = b.lane
                    => BarDays(a)' \intersect BarDays(b)' = {}
            BY <2>1 DEF ScreenIsReadable, LanesApart, BarDays
        <3>3. \A w \in DOMAIN page'.lanes :
                  page'.lanes[w] > 0 =>
                      \E day \in PageDays' :
                          page'.lanes[w] = Cardinality({bar \in page'.bars :
                                              bar.row = w /\ day \in BarDays(bar)'})
            BY <2>1, <3>1 DEF ScreenIsReadable, LanesApart, BarDays
        <3>4. QED
            BY <3>2, <3>3 DEF LanesApart
    <2>4. BlocksApart'
        BY <2>1 DEF ScreenIsReadable, BlocksApart
    <2>5. BlockIsAtItsTime'
        BY <2>1 DEF ScreenIsReadable, BlockIsAtItsTime, HasTime, LastTime, IsMultiDay
    <2>6. QED
        BY <2>2, <2>3, <2>4, <2>5 DEF ScreenIsReadable
<1>10. QED
    BY <1>4, <1>5, <1>6, <1>7, <1>8, <1>9 DEF CalendarNext

\* All of it is so of every page and of every form, whatever was shown before.
LEMMA ScreensAreReadable == CalendarSpec => []ScreenIsReadable
BY CalendarInvStarts, CalendarInvHolds, ScreenStartsReadable, ScreenStaysReadable, PTL
   DEF CalendarSpec

\* Invariant DrawnOncePerDay, for any number of jobs with any times: the month
\* that splits bars at its weeks, the week that draws some jobs above its days
\* and the day all draw a job that passes the filter once on each of its days,
\* and nowhere else.
THEOREM JobsAreDrawnOncePerDay == CalendarSpec => []DrawnOncePerDay
<1>1. ScreenIsReadable => DrawnOncePerDay
    BY DEF ScreenIsReadable
<1>2. QED
    BY <1>1, ScreensAreReadable, PTL

\* Invariant LanesApart: the greedy choice of _assign_lanes draws no bar over
\* another, and it opens a lane only on a day on which all lanes are taken.
THEOREM BarsKeepApart == CalendarSpec => []LanesApart
<1>1. ScreenIsReadable => LanesApart
    BY DEF ScreenIsReadable
<1>2. QED
    BY <1>1, ScreensAreReadable, PTL

\* Invariants BlocksApart and BlockIsAtItsTime: _compute_overlap_columns makes
\* blocks that overlap share the width, and no more of them than the fullest
\* row has; each block covers the half hours of its job.
THEOREM BlocksAreInPlace == CalendarSpec => [](BlocksApart /\ BlockIsAtItsTime)
<1>1. ScreenIsReadable => BlocksApart /\ BlockIsAtItsTime
    BY DEF ScreenIsReadable
<1>2. QED
    BY <1>1, ScreensAreReadable, PTL

\* Invariant CalendarIsFaithful, for all values of the constants: what a page
\* shows is what the agenda holds, once a day, in its place and not hidden, on
\* a grid that has all its days; and what a form offers can be sent.
THEOREM CalendarsAreFaithful == CalendarSpec => []CalendarIsFaithful
<1>1. ScreenIsReadable /\ GridHoldsMonth /\ FormIsInOrder => CalendarIsFaithful
    BY DEF ScreenIsReadable, CalendarIsFaithful, PageIsComplete, LayoutIsReadable
<1>2. QED
    BY <1>1, ScreensAreReadable, GridsAreWhole, FormsAreInOrder, PTL
=============================================================================
