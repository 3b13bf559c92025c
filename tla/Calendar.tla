------------------------------ MODULE Calendar ------------------------------
(***************************************************************************)
(* Civil dates: packages/rememberme-core calendar.ts and weekly.ts, and    *)
(* the month and week helpers the Android screens add to them.  A          *)
(* "YYYY-MM-DD" string is a record; a RangeError is the value OutOfRange.  *)
(***************************************************************************)
EXTENDS Integers, Sequences

civil(y, m, d) == [year |-> y, month |-> m, day |-> d]
OutOfRange == civil(0, 0, 0)

isLeapYear(y) == y % 4 = 0 /\ (y % 100 # 0 \/ y % 400 = 0)

daysInMonth(y, m) ==
  CASE m = 2 -> IF isLeapYear(y) THEN 29 ELSE 28
    [] m \in {4, 6, 9, 11} -> 30
    [] OTHER -> 31

isCalendarDate(c) ==
  c.year \in 0 .. 9999 /\ c.month \in 1 .. 12 /\ c.day \in 1 .. daysInMonth(c.year, c.month)

\* The order of the strings.
earlierOrSame(a, b) ==
  \/ a.year < b.year
  \/ a.year = b.year /\ a.month < b.month
  \/ a.year = b.year /\ a.month = b.month /\ a.day <= b.day

\* civilToDays(): days since 1970-01-01, years beginning in March.
civilToDays(c) ==
  LET y   == c.year - (IF c.month <= 2 THEN 1 ELSE 0)
      era == y \div 400
      yoe == y - era * 400
      doy == (153 * (c.month + (IF c.month > 2 THEN -3 ELSE 9)) + 2) \div 5 + c.day - 1
      doe == yoe * 365 + yoe \div 4 - yoe \div 100 + doy
  IN  era * 146097 + doe - 719468

\* Mutant: the last day of an era is not taken back.
daysToCivilLongEra(z) ==
  LET shifted == z + 719468
      era == shifted \div 146097
      doe == shifted - era * 146097
      yoe == (doe - doe \div 1460 + doe \div 36524) \div 365
      doy == doe - (365 * yoe + yoe \div 4 - yoe \div 100)
      mp  == (5 * doy + 2) \div 153
      m   == mp + (IF mp < 10 THEN 3 ELSE -9)
  IN  civil(yoe + era * 400 + (IF m <= 2 THEN 1 ELSE 0), m, doy - (153 * mp + 2) \div 5 + 1)

\* daysToCivil(), its inverse
daysToCivil(z) ==
  LET shifted == z + 719468
      era == shifted \div 146097
      doe == shifted - era * 146097
      yoe == (doe - doe \div 1460 + doe \div 36524 - doe \div 146096) \div 365
      doy == doe - (365 * yoe + yoe \div 4 - yoe \div 100)
      mp  == (5 * doy + 2) \div 153
      m   == mp + (IF mp < 10 THEN 3 ELSE -9)
  IN  civil(yoe + era * 400 + (IF m <= 2 THEN 1 ELSE 0), m, doy - (153 * mp + 2) \div 5 + 1)

\* formatYear() refuses a year the format cannot hold.
format(c) == IF c.year \in 0 .. 9999 THEN c ELSE OutOfRange

addDays(c, n) == format(daysToCivil(civilToDays(c) + n))

mondayOfWeek(c) == addDays(c, -(((civilToDays(c) % 7) + 3) % 7))

\* Monday = 1 .. Sunday = 7; day 0 was a Thursday.
weekdayNumber(c) == (((civilToDays(c) % 7) + 3) % 7) + 1

\* Only a Monday all of whose week is in range has seven dates.
hasWeekDates(monday) ==
  /\ monday # OutOfRange
  /\ mondayOfWeek(monday) = monday
  /\ addDays(monday, 6) # OutOfRange

weekDates(monday) == [i \in 1 .. 7 |-> addDays(monday, i - 1)]

mostRecentSunday(c) == addDays(c, -(weekdayNumber(c) % 7))

\* Journal.tsx: a date whose own week is out of range is redirected to Today.
renderable(c) == hasWeekDates(mondayOfWeek(c))

\* WeekStrip.tsx: an adjacent week that is out of range has no link.
navigableWeekStart(monday, offset) ==
  LET target == addDays(monday, offset)
  IN  IF hasWeekDates(target) THEN target ELSE OutOfRange

\* month-grid.ts
monthFirst(c) == civil(c.year, c.month, 1)
monthLast(c) == civil(c.year, c.month, daysInMonth(c.year, c.month))

\* shiftMonth(), to the first of the month before or after
shiftMonth(c, delta) ==
  LET next == c.month + delta
  IN  CASE next = 0  -> IF c.year = 0 THEN OutOfRange ELSE civil(c.year - 1, 12, 1)
        [] next = 13 -> IF c.year = 9999 THEN OutOfRange ELSE civil(c.year + 1, 1, 1)
        [] OTHER -> civil(c.year, next, 1)

\* MonthGrid.tsx: 42 slots, blank before the first day and after the last.
leadingBlanks(c) == weekdayNumber(monthFirst(c)) - 1
trailingBlanks(c) == 42 - leadingBlanks(c) - daysInMonth(c.year, c.month)

\* WeeklyReview.tsx: the week that ended on the most recent Sunday.
reviewSunday(today) == mostRecentSunday(today)
reviewMonday(today) == mondayOfWeek(reviewSunday(today))

-----------------------------------------------------------------------------
(* The reference: days counted one by one. *)

Lengths(y) == <<31, IF y % 400 = 0 \/ (y % 4 = 0 /\ y % 100 # 0) THEN 29 ELSE 28,
                31, 30, 31, 30, 31, 31, 30, 31, 30, 31>>

\* A day: its date, its number, and its name, Monday = 1 .. Sunday = 7.
nextDay(t) ==
  [number  |-> t.number + 1,
   weekday |-> IF t.weekday = 7 THEN 1 ELSE t.weekday + 1,
   date    |-> IF t.date.day < Lengths(t.date.year)[t.date.month] THEN [t.date EXCEPT !.day = @ + 1]
               ELSE IF t.date.month < 12 THEN civil(t.date.year, t.date.month + 1, 1)
               ELSE civil(t.date.year + 1, 1, 1)]

FirstNumber == -719528
LastNumber == 2932896
inRange(n) == n \in FirstNumber .. LastNumber

\* The leap days of the years before y, and the days before month m but for a leap day.
leapDays(y) == (y + 3) \div 4 - (y + 99) \div 100 + (y + 399) \div 400
monthBegins(m) == <<0, 31, 59, 90, 120, 151, 181, 212, 243, 273, 304, 334>>[m]

\* A day as counting from the first of the year 0, a Saturday, gives it.
isDay(t) ==
  LET y == t.date.year
      m == t.date.month
  IN  /\ t \in [number : Int, weekday : 1 .. 7, date : [year : 0 .. 9999, month : 1 .. 12, day : 1 .. 31]]
      /\ t.date.day <= Lengths(y)[m]
      /\ t.number = FirstNumber + 365 * y + leapDays(y) + monthBegins(m)
                      + (IF m > 2 /\ Lengths(y)[2] = 29 THEN 1 ELSE 0) + t.date.day - 1
      /\ t.weekday = ((t.number + 3) % 7) + 1

\* The date helpers tell of day t what counting tells.
AgreesOn(t) ==
  LET n == t.number
      c == t.date
      monday == n - (t.weekday - 1)
      sunday == n - (t.weekday % 7)
      number(x) == civilToDays(x)
  IN  /\ isCalendarDate(c) /\ number(c) = n /\ daysToCivil(n) = c
      /\ weekdayNumber(c) = t.weekday
      /\ IF inRange(monday) THEN number(mondayOfWeek(c)) = monday ELSE mondayOfWeek(c) = OutOfRange
      /\ IF inRange(sunday) THEN number(mostRecentSunday(c)) = sunday ELSE mostRecentSunday(c) = OutOfRange
      /\ renderable(c) <=> inRange(monday) /\ inRange(monday + 6)
      /\ renderable(c) =>
           /\ \E i \in 1 .. 7 : weekDates(mondayOfWeek(c))[i] = c
           /\ navigableWeekStart(mondayOfWeek(c), -7) = OutOfRange <=> ~inRange(monday - 7)
           /\ navigableWeekStart(mondayOfWeek(c), 7) = OutOfRange <=> ~inRange(monday + 13)
      /\ trailingBlanks(c) >= 0 /\ leadingBlanks(c) \in 0 .. 6
      /\ \A delta \in {-1, 1} :
           LET m == shiftMonth(c, delta)
               edge == IF delta = 1 THEN number(monthLast(c)) + 1 ELSE number(monthFirst(c)) - 1
           IN  IF inRange(edge)
               THEN number(IF delta = 1 THEN m ELSE monthLast(m)) = edge
               ELSE m = OutOfRange
=============================================================================
