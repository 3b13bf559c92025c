-------------------------- MODULE JournalPagesProofs --------------------------
(***************************************************************************)
(* The civil-date helpers agree with counting on every day of the years    *)
(* 0000 to 9999, and a screen shows the days it is about, for any entries, *)
(* links, days of use and number of screens, edits and late answers.       *)
(*                                                                         *)
(* The calendar: a date has one place in its era of 400 years (Placed),    *)
(* from which civilToDays() and daysToCivil() are read off as inverses     *)
(* (RoundTrip), and the order of dates is that of their numbers.  A day as *)
(* counting gives it (isDay) has the number and the weekday the helpers    *)
(* compute, and so has its next day; everything else about weeks and       *)
(* months is addition on numbers, in range or not.                         *)
(*                                                                         *)
(* The screens: of all the lists in the storage queue a loading screen     *)
(* waits for just one, of the dates it is about, and any other screen for  *)
(* none (Waiting); so what arrives late is dropped, and what is shown      *)
(* differs from the rows only by writes that are still to be reported or   *)
(* were reported to no screen (Shown).                                     *)
(***************************************************************************)
EXTENDS JournalPages, TLAPS, SequenceTheorems

-----------------------------------------------------------------------------
(* Dates and their numbers. *)

\* A date of any year.
proper(c) ==
  /\ c \in [year : Int, month : 1 .. 12, day : 1 .. 31]
  /\ c.day <= daysInMonth(c.year, c.month)

\* Its place in the era of 400 years: century, leap cycle and year of a year that
\* begins in March, and the month of that year.
Placed(c, era, century, cycle, year, month) ==
  /\ era \in Int /\ century \in 0 .. 3 /\ cycle \in 0 .. 24 /\ year \in 0 .. 3 /\ month \in 0 .. 11
  /\ c.year = 400 * era + 100 * century + 4 * cycle + year + (IF month < 10 THEN 0 ELSE 1)
  /\ c.month = month + (IF month < 10 THEN 3 ELSE -9)

beforeMonth(month) == (153 * month + 2) \div 5
dayOfEra(century, cycle, year, month, d) ==
  36524 * century + 1461 * cycle + 365 * year + beforeMonth(month) + d - 1

\* Which year of an era is a leap year, by its century, cycle and year.
LEMMA LeapYear ==
  ASSUME NEW era \in Int, NEW century \in 0 .. 3, NEW cycle \in 0 .. 24, NEW year \in 0 .. 3,
         NEW y, y = 400 * era + 100 * century + 4 * cycle + year + 1
  PROVE  isLeapYear(y) <=> year = 3 /\ (cycle = 24 => century = 3)
<1>1. y % 4 = 0 <=> year = 3
  OBVIOUS
<1>2. y % 100 = 0 <=> year = 3 /\ cycle = 24
  OBVIOUS
<1>3. y % 400 = 0 <=> year = 3 /\ cycle = 24 /\ century = 3
  OBVIOUS
<1> QED
  BY <1>1, <1>2, <1>3 DEF isLeapYear

\* Every date has a place in an era.
LEMMA Place ==
  ASSUME NEW c, proper(c)
  PROVE  \E era, century, cycle, year, month : Placed(c, era, century, cycle, year, month)
<1> DEFINE month == IF c.month > 2 THEN c.month - 3 ELSE c.month + 9
           y == c.year - (IF c.month <= 2 THEN 1 ELSE 0)
           era == y \div 400
           x == y - 400 * era
           century == x \div 100
           cycle == (x - 100 * century) \div 4
           year == x - 100 * century - 4 * cycle
<1>1. y \in Int /\ month \in 0 .. 11
  BY DEF proper
<1>2. /\ c.year = y + (IF month < 10 THEN 0 ELSE 1)
      /\ c.month = month + (IF month < 10 THEN 3 ELSE -9)
  BY DEF proper
<1> HIDE DEF y, month
<1>3. era \in Int /\ x \in 0 .. 399
  BY <1>1
<1>4. y = 400 * era + x
  BY <1>1, <1>3
<1> HIDE DEF era, x
<1>5. century \in 0 .. 3 /\ x - 100 * century \in 0 .. 99
  BY <1>3
<1> HIDE DEF century
<1>6. cycle \in 0 .. 24 /\ year \in 0 .. 3
  BY <1>5
<1>7. y = 400 * era + 100 * century + 4 * cycle + year
  BY <1>3, <1>4, <1>5, <1>6
<1> HIDE DEF cycle, year
<1>8. Placed(c, era, century, cycle, year, month)
  BY <1>1, <1>2, <1>3, <1>5, <1>6, <1>7 DEF Placed
<1> QED
  BY <1>8

\* How long the months are, seen from March.
LEMMA MonthLengths ==
  ASSUME NEW c, proper(c), NEW era, NEW century, NEW cycle, NEW year, NEW month,
         Placed(c, era, century, cycle, year, month)
  PROVE  /\ c.day \in 1 .. 31
         /\ month \in {1, 3, 6, 8} => c.day <= 30
         /\ month = 11 => c.day <= 29
         /\ month = 11 /\ c.day = 29 => year = 3 /\ (cycle = 24 => century = 3)
<1>1. CASE month # 11
  BY <1>1 DEF proper, Placed, daysInMonth
<1>2. CASE month = 11
  <2>1. c.month = 2 /\ c.year = 400 * era + 100 * century + 4 * cycle + year + 1
    BY <1>2 DEF Placed
  <2>2. isLeapYear(c.year) <=> year = 3 /\ (cycle = 24 => century = 3)
    BY <2>1, LeapYear DEF Placed
  <2> QED
    BY <1>2, <2>1, <2>2 DEF proper, daysInMonth
<1> QED
  BY <1>1, <1>2

\* civilToDays() of a date at a place.
LEMMA NumberOf ==
  ASSUME NEW c, proper(c), NEW era, NEW century, NEW cycle, NEW year, NEW month,
         Placed(c, era, century, cycle, year, month)
  PROVE  civilToDays(c) = era * 146097 + dayOfEra(century, cycle, year, month, c.day) - 719468
<1> DEFINE y == c.year - (IF c.month <= 2 THEN 1 ELSE 0)
           yoe == y - 400 * era
<1>1. /\ c.year \in Int /\ c.month \in 1 .. 12 /\ c.day \in 1 .. 31
      /\ era \in Int /\ century \in 0 .. 3 /\ cycle \in 0 .. 24 /\ year \in 0 .. 3 /\ month \in 0 .. 11
  BY DEF proper, Placed
<1>2. y = 400 * era + 100 * century + 4 * cycle + year
  BY <1>1 DEF Placed
<1>3. c.month + (IF c.month > 2 THEN -3 ELSE 9) = month
  BY <1>1 DEF Placed
<1> HIDE DEF y
<1>4. y \div 400 = era /\ yoe = 100 * century + 4 * cycle + year
  BY <1>1, <1>2
<1> HIDE DEF yoe
<1>5. yoe \div 4 = 25 * century + cycle /\ yoe \div 100 = century
  BY <1>1, <1>4
<1>6. civilToDays(c) = era * 146097
        + (yoe * 365 + yoe \div 4 - yoe \div 100 + ((153 * month + 2) \div 5 + c.day - 1)) - 719468
  <2>1. yoe = y - era * 400
    BY <1>1, <1>4, <1>2 DEF yoe
  <2> QED
    BY <1>3, <1>4, <2>1 DEF civilToDays, y
<1> QED
  BY <1>1, <1>4, <1>5, <1>6 DEF dayOfEra, beforeMonth

\* daysToCivil() of a number at a place.
LEMMA DateOf ==
  ASSUME NEW c, proper(c), NEW era, NEW century, NEW cycle, NEW year, NEW month,
         Placed(c, era, century, cycle, year, month),
         NEW z \in Int, z = era * 146097 + dayOfEra(century, cycle, year, month, c.day) - 719468
  PROVE  daysToCivil(z) = c
<1> DEFINE doy == beforeMonth(month) + c.day - 1
           doe == 36524 * century + 1461 * cycle + 365 * year + doy
           yoe == 100 * century + 4 * cycle + year
<1>1. /\ c.year \in Int /\ c.month \in 1 .. 12 /\ c.day \in 1 .. 31
      /\ era \in Int /\ century \in 0 .. 3 /\ cycle \in 0 .. 24 /\ year \in 0 .. 3 /\ month \in 0 .. 11
  BY DEF proper, Placed
<1>16. doy = beforeMonth(month) + c.day - 1
  OBVIOUS
<1>2. /\ doy \in Nat /\ doy <= 365 /\ (5 * doy + 2) \div 153 = month
      /\ doy = 365 => year = 3 /\ (cycle = 24 => century = 3)
  <2>1. /\ month \in {1, 3, 6, 8} => c.day <= 30
        /\ month = 11 => c.day <= 29
        /\ month = 11 /\ c.day = 29 => year = 3 /\ (cycle = 24 => century = 3)
    BY MonthLengths
  <2> HIDE DEF doy
  <2>2. /\ doy \in Nat /\ doy <= 365
        /\ doy = 365 <=> month = 11 /\ c.day = 29
        /\ (5 * doy + 2) \div 153 = month
    <3> DEFINE d == c.day
    <3>1. /\ d \in Int /\ 1 <= d /\ d <= 31 /\ month \in Int /\ 0 <= month /\ month <= 11
          /\ month \in {1, 3, 6, 8} => d <= 30
          /\ month = 11 => d <= 29
      BY <1>1, <2>1
    <3>2. doy = (153 * month + 2) \div 5 + d - 1
      BY <1>16 DEF beforeMonth
    <3> HIDE DEF d
    <3>3. doy \in Int /\ 0 <= doy /\ doy <= 365
      BY <3>1, <3>2
    <3>4. doy = 365 <=> month = 11 /\ d = 29
      BY <3>1, <3>2
    <3>5. (5 * doy + 2) \div 153 = month
      BY <3>1, <3>2, <3>3
    <3> QED
      BY <3>3, <3>4, <3>5 DEF d
  <2> QED
    BY <2>1, <2>2
<1>3. z = era * 146097 + doe - 719468
  BY <1>1 DEF dayOfEra, beforeMonth
<1>4. c.day = doy - (153 * month + 2) \div 5 + 1
  BY <1>1 DEF beforeMonth
<1> HIDE DEF doy
<1>17. doe \in Int /\ doe = 36524 * century + 1461 * cycle + 365 * year + doy
  BY <1>1, <1>2
<1>18. yoe \in Int /\ yoe = 100 * century + 4 * cycle + year
  BY <1>1
<1> HIDE DEF doe, yoe
<1>5. /\ doe \in Int /\ 0 <= doe /\ doe <= 146096
      /\ (doe - doe \div 1460 + doe \div 36524 - doe \div 146096) \div 365 = yoe
  <2>1. 0 <= doe /\ doe <= 146096
    BY <1>1, <1>2, <1>17
  <2>2. doe = 146096 <=> century = 3 /\ cycle = 24 /\ year = 3 /\ doy = 365
    BY <1>1, <1>2, <1>17
  <2>3. doe \div 146096 = IF doe = 146096 THEN 1 ELSE 0
    BY <1>17, <2>1
  <2>4. doe \div 36524 = IF doe = 146096 THEN 4 ELSE century
    BY <1>1, <1>2, <1>17, <2>1, <2>2
  <2> QED
    BY <1>1, <1>2, <1>17, <1>18, <2>1, <2>3, <2>4
<1>6. doy = doe - (365 * yoe + yoe \div 4 - yoe \div 100)
  <2>1. yoe \div 4 = 25 * century + cycle /\ yoe \div 100 = century
    BY <1>1, <1>18
  <2> QED
    BY <1>1, <1>2, <1>17, <1>18, <2>1
<1>7. /\ c.year = yoe + era * 400 + (IF c.month <= 2 THEN 1 ELSE 0)
      /\ c.month = month + (IF month < 10 THEN 3 ELSE -9)
  BY <1>1, <1>18 DEF Placed
<1> DEFINE e == (z + 719468) \div 146097
           de == z + 719468 - e * 146097
           ye == (de - de \div 1460 + de \div 36524 - de \div 146096) \div 365
           dy == de - (365 * ye + ye \div 4 - ye \div 100)
           mp == (5 * dy + 2) \div 153
           m == mp + (IF mp < 10 THEN 3 ELSE -9)
<1>8. daysToCivil(z)
        = civil(ye + e * 400 + (IF m <= 2 THEN 1 ELSE 0), m, dy - (153 * mp + 2) \div 5 + 1)
  BY DEF daysToCivil
<1>9. e = era
  BY <1>1, <1>3, <1>5
<1> HIDE DEF e
<1>10. de = doe
  BY <1>1, <1>3, <1>5, <1>9
<1> HIDE DEF de
<1>11. ye = yoe
  BY <1>5, <1>10
<1> HIDE DEF ye
<1>12. dy = doy
  BY <1>6, <1>10, <1>11
<1> HIDE DEF dy
<1>13. mp = month
  BY <1>2, <1>12
<1> HIDE DEF mp
<1>14. m = c.month
  BY <1>7, <1>13
<1> HIDE DEF m
<1>15. daysToCivil(z) = civil(c.year, c.month, c.day)
  BY <1>1, <1>4, <1>7, <1>8, <1>9, <1>11, <1>12, <1>13, <1>14
<1> QED
  BY <1>15 DEF civil, proper

\* daysToCivil() undoes civilToDays().
LEMMA RoundTrip ==
  ASSUME NEW c, proper(c)
  PROVE  civilToDays(c) \in Int /\ daysToCivil(civilToDays(c)) = c
<1>1. PICK era, century, cycle, year, month : Placed(c, era, century, cycle, year, month)
  BY Place
<1>2. civilToDays(c) = era * 146097 + dayOfEra(century, cycle, year, month, c.day) - 719468
  BY <1>1, NumberOf
<1>3. civilToDays(c) \in Int
  BY <1>1, <1>2 DEF dayOfEra, beforeMonth, Placed, proper
<1> QED
  BY <1>1, <1>2, <1>3, DateOf

\* Every day number has a date.
LEMMA EveryNumber ==
  ASSUME NEW n \in Int
  PROVE  proper(daysToCivil(n)) /\ civilToDays(daysToCivil(n)) = n
<1> DEFINE era == (n + 719468) \div 146097
           doe == n + 719468 - 146097 * era
           century == IF doe = 146096 THEN 3 ELSE doe \div 36524
           inCentury == doe - 36524 * century
           cycle == inCentury \div 1461
           inCycle == inCentury - 1461 * cycle
           year == IF inCycle = 1460 THEN 3 ELSE inCycle \div 365
           doy == inCycle - 365 * year
           month == (5 * doy + 2) \div 153
           d == doy - beforeMonth(month) + 1
           y == 400 * era + 100 * century + 4 * cycle + year
           c == civil(y + (IF month < 10 THEN 0 ELSE 1), month + (IF month < 10 THEN 3 ELSE -9), d)
<1>1. /\ era \in Int /\ doe \in Int /\ 0 <= doe /\ doe <= 146096
      /\ n = 146097 * era + doe - 719468
  OBVIOUS
<1> HIDE DEF era, doe
<1>2. /\ century \in 0 .. 3 /\ inCentury \in Int /\ 0 <= inCentury /\ inCentury <= 36524
      /\ inCentury = 36524 => century = 3
      /\ doe = 36524 * century + inCentury
  BY <1>1
<1> HIDE DEF century, inCentury
<1>3. /\ cycle \in 0 .. 24 /\ inCycle \in Int /\ 0 <= inCycle /\ inCycle <= 1460
      /\ inCycle = 1460 /\ cycle = 24 => century = 3
      /\ inCentury = 1461 * cycle + inCycle
  BY <1>2
<1> HIDE DEF cycle, inCycle
<1>4. /\ year \in 0 .. 3 /\ doy \in Int /\ 0 <= doy /\ doy <= 365
      /\ doy = 365 => year = 3 /\ (cycle = 24 => century = 3)
      /\ inCycle = 365 * year + doy
  BY <1>3
<1> HIDE DEF year, doy
<1>5. /\ month \in 0 .. 11 /\ d \in 1 .. 31
      /\ month \in {1, 3, 6, 8} => d <= 30
      /\ month = 11 => d <= 29
      /\ month = 11 /\ d = 29 => doy = 365
      /\ doy = beforeMonth(month) + d - 1
  <2>1. month \in Int /\ 0 <= month /\ month <= 11
    BY <1>4
  <2>2. 153 * month <= 5 * doy + 2 /\ 5 * doy + 2 < 153 * month + 153
    BY <1>4, <2>1
  <2> HIDE DEF month
  <2>3. d \in Int /\ 1 <= d /\ d <= 31 /\ doy = beforeMonth(month) + d - 1
    BY <1>4, <2>1, <2>2 DEF beforeMonth
  <2>4. /\ month \in {1, 3, 6, 8} => d <= 30
        /\ month = 11 => d <= 29
        /\ month = 11 /\ d = 29 => doy = 365
    BY <1>4, <2>1, <2>2 DEF beforeMonth
  <2> QED
    BY <2>1, <2>3, <2>4
<1> HIDE DEF month, d
<1>6. y \in Int
  BY <1>1, <1>2, <1>3, <1>4
<1> HIDE DEF y
<1>7. /\ c \in [year : Int, month : 1 .. 12, day : 1 .. 31]
      /\ c.year = y + (IF month < 10 THEN 0 ELSE 1) /\ c.day = d
      /\ c.month = month + (IF month < 10 THEN 3 ELSE -9)
  BY <1>5, <1>6 DEF civil
<1> HIDE DEF c
<1>8. Placed(c, era, century, cycle, year, month)
  BY <1>1, <1>2, <1>3, <1>4, <1>5, <1>7 DEF Placed, y
<1>9. proper(c)
  <2>1. CASE month = 11
    <3>1. c.month = 2 /\ c.year = 400 * era + 100 * century + 4 * cycle + year + 1
      BY <1>7, <2>1 DEF y
    <3>2. isLeapYear(c.year) <=> year = 3 /\ (cycle = 24 => century = 3)
      BY <1>1, <1>2, <1>3, <1>4, <3>1, LeapYear
    <3>3. c.day <= 29 /\ (c.day = 29 => isLeapYear(c.year))
      BY <1>4, <1>5, <1>7, <2>1, <3>2
    <3> QED
      BY <1>7, <3>1, <3>3 DEF proper, daysInMonth
  <2>2. CASE month # 11
    <3>1. c.month \in 1 .. 12 \ {2} /\ (c.month \in {4, 6, 9, 11} => month \in {1, 3, 6, 8})
      BY <1>5, <1>7, <2>2
    <3> QED
      BY <1>5, <1>7, <3>1 DEF proper, daysInMonth
  <2> QED
    BY <2>1, <2>2
<1>10. civilToDays(c) = n
  <2>1. civilToDays(c) = era * 146097 + dayOfEra(century, cycle, year, month, c.day) - 719468
    BY <1>8, <1>9, NumberOf
  <2>2. dayOfEra(century, cycle, year, month, c.day) = doe
    <3>1. beforeMonth(month) \in Int
      BY <1>5 DEF beforeMonth
    <3> QED
      BY <1>1, <1>2, <1>3, <1>4, <1>5, <1>7, <3>1 DEF dayOfEra
  <2> QED
    BY <1>1, <2>1, <2>2
<1> QED
  BY <1>9, <1>10, RoundTrip

\* A later date has a greater number.
LEMMA EarlierIsLess ==
  ASSUME NEW a, NEW b, proper(a), proper(b), earlierOrSame(a, b), a # b
  PROVE  civilToDays(a) < civilToDays(b)
<1>1. PICK era1, century1, cycle1, year1, month1 : Placed(a, era1, century1, cycle1, year1, month1)
  BY Place
<1>2. PICK era2, century2, cycle2, year2, month2 : Placed(b, era2, century2, cycle2, year2, month2)
  BY Place
<1>3. /\ civilToDays(a) = era1 * 146097 + dayOfEra(century1, cycle1, year1, month1, a.day) - 719468
      /\ civilToDays(b) = era2 * 146097 + dayOfEra(century2, cycle2, year2, month2, b.day) - 719468
  BY <1>1, <1>2, NumberOf
<1> DEFINE y1 == 400 * era1 + 100 * century1 + 4 * cycle1 + year1
           y2 == 400 * era2 + 100 * century2 + 4 * cycle2 + year2
           doy1 == beforeMonth(month1) + a.day - 1
           doy2 == beforeMonth(month2) + b.day - 1
           d1 == a.day
           d2 == b.day
<1>4. /\ era1 \in Int /\ century1 \in 0 .. 3 /\ cycle1 \in 0 .. 24 /\ year1 \in 0 .. 3
      /\ era2 \in Int /\ century2 \in 0 .. 3 /\ cycle2 \in 0 .. 24 /\ year2 \in 0 .. 3
      /\ month1 \in 0 .. 11 /\ month2 \in 0 .. 11 /\ d1 \in 1 .. 31 /\ d2 \in 1 .. 31
  BY <1>1, <1>2 DEF Placed, proper
<1>5. \/ y1 < y2
      \/ y1 = y2 /\ month1 < month2
      \/ y1 = y2 /\ month1 = month2 /\ d1 < d2
  <2>1. /\ a.year = y1 + (IF month1 < 10 THEN 0 ELSE 1) /\ b.year = y2 + (IF month2 < 10 THEN 0 ELSE 1)
        /\ a.month = month1 + (IF month1 < 10 THEN 3 ELSE -9)
        /\ b.month = month2 + (IF month2 < 10 THEN 3 ELSE -9)
    BY <1>1, <1>2 DEF Placed
  <2>2. a.year < b.year \/ (a.year = b.year /\ (a.month < b.month \/ (a.month = b.month /\ a.day < b.day)))
    BY DEF earlierOrSame, proper
  <2>3. y1 \in Int /\ y2 \in Int
    BY <1>4
  <2> HIDE DEF y1, y2
  <2> QED
    BY <1>4, <2>1, <2>2, <2>3
<1>6. /\ month1 \in {1, 3, 6, 8} => d1 <= 30
      /\ month1 = 11 => d1 <= 29
      /\ month1 = 11 /\ d1 = 29 => year1 = 3 /\ (cycle1 = 24 => century1 = 3)
  BY <1>1, MonthLengths
<1>7. /\ doy1 \in Int /\ 0 <= doy1 /\ doy1 <= 365 /\ doy2 \in Int /\ 0 <= doy2 /\ doy2 <= 365
      /\ doy1 = 365 => year1 = 3 /\ (cycle1 = 24 => century1 = 3)
      /\ month1 < month2 \/ (month1 = month2 /\ d1 < d2) => doy1 < doy2
  <2>1. month2 = 11 => d2 <= 29
    BY <1>2, MonthLengths
  <2> HIDE DEF d1, d2
  <2>2. doy1 = (153 * month1 + 2) \div 5 + d1 - 1 /\ doy2 = (153 * month2 + 2) \div 5 + d2 - 1
    BY DEF d1, d2, beforeMonth
  <2> HIDE DEF doy1, doy2
  <2>3. doy1 \in Int /\ 0 <= doy1 /\ doy1 <= 365 /\ doy2 \in Int /\ 0 <= doy2 /\ doy2 <= 365
    BY <1>4, <1>6, <2>1, <2>2
  <2>4. doy1 = 365 => month1 = 11 /\ d1 = 29
    BY <1>4, <1>6, <2>2
  <2>5. month1 < month2 \/ (month1 = month2 /\ d1 < d2) => doy1 < doy2
    BY <1>4, <1>6, <2>2
  <2> QED
    BY <1>6, <2>3, <2>4, <2>5
<1>8. /\ civilToDays(a) = era1 * 146097 + 36524 * century1 + 1461 * cycle1 + 365 * year1 + doy1 - 719468
      /\ civilToDays(b) = era2 * 146097 + 36524 * century2 + 1461 * cycle2 + 365 * year2 + doy2 - 719468
  BY <1>3, <1>4 DEF dayOfEra, beforeMonth
<1> HIDE DEF doy1, doy2, d1, d2
<1>9. CASE y1 < y2
  BY <1>4, <1>7, <1>8, <1>9
<1>10. CASE y1 = y2
  <2>1. era1 = era2 /\ century1 = century2 /\ cycle1 = cycle2 /\ year1 = year2
    BY <1>4, <1>10
  <2> QED
    BY <1>4, <1>5, <1>7, <1>8, <1>10, <2>1
<1> QED
  BY <1>5, <1>9, <1>10

\* The order of the strings is that of the numbers.
LEMMA OrderOfDates ==
  ASSUME NEW a, NEW b, proper(a), proper(b)
  PROVE  /\ earlierOrSame(a, b) <=> civilToDays(a) <= civilToDays(b)
         /\ a = b <=> civilToDays(a) = civilToDays(b)
<1>1. civilToDays(a) \in Int /\ civilToDays(b) \in Int
  BY RoundTrip
<1>2. earlierOrSame(a, b) \/ earlierOrSame(b, a)
  BY DEF earlierOrSame, proper
<1>3. earlierOrSame(a, b) /\ a # b => civilToDays(a) < civilToDays(b)
  BY EarlierIsLess
<1>4. earlierOrSame(b, a) /\ a # b => civilToDays(b) < civilToDays(a)
  BY EarlierIsLess
<1>5. a = b => earlierOrSame(a, b)
  BY DEF earlierOrSame, proper
<1> QED
  BY <1>1, <1>2, <1>3, <1>4, <1>5

-----------------------------------------------------------------------------
(* The years 0000 to 9999 *)

\* Membership as inequalities, which is how the provers use it.
LEMMA Years == \A n : n \in 0 .. 9999 <=> n \in Int /\ 0 <= n /\ n <= 9999
<1> DEFINE last == 9999
<1>1. last \in Int
  OBVIOUS
<1> HIDE DEF last
<1>2. \A n : n \in 0 .. last <=> n \in Int /\ 0 <= n /\ n <= last
  BY <1>1
<1> QED
  BY <1>2 DEF last

\* The numbers of the calendar's first and last day.
LEMMA Bounds == \A n : inRange(n) <=> n \in Int /\ -719528 <= n /\ n <= 2932896
<1>1. FirstNumber = -719528 /\ LastNumber = 2932896
  BY DEF FirstNumber, LastNumber
<1>3. FirstNumber \in Int /\ LastNumber \in Int
  BY <1>1
<1>2. \A n : inRange(n) <=> n \in Int /\ FirstNumber <= n /\ n <= LastNumber
  BY <1>3 DEF inRange
<1> QED
  BY <1>1, <1>2

validDate(c) == proper(c) /\ isCalendarDate(c)

\* A date is one of the calendar exactly when its number is.
LEMMA InRange ==
  ASSUME NEW c, proper(c)
  PROVE  isCalendarDate(c) <=> inRange(civilToDays(c))
<1> DEFINE a == civil(0, 1, 1)
           z == civil(9999, 12, 31)
<1>1. proper(a) /\ proper(z)
  BY DEF proper, civil, daysInMonth
<1>2. civilToDays(a) = -719528
  <2>1. Placed(a, -1, 3, 24, 3, 10) /\ a.day = 1
    BY DEF Placed, civil
  <2>2. dayOfEra(3, 24, 3, 10, 1) = 146037
    BY DEF dayOfEra, beforeMonth
  <2> HIDE DEF a
  <2> QED
    BY <1>1, <2>1, <2>2, NumberOf
<1>3. civilToDays(z) = 2932896
  BY DEF civil, civilToDays
<1>4. /\ earlierOrSame(a, c) <=> 0 <= c.year
      /\ earlierOrSame(c, z) <=> c.year <= 9999
  BY DEF earlierOrSame, civil, proper
<1> HIDE DEF a, z
<1>5. civilToDays(c) \in Int
  BY RoundTrip
<1>6. /\ 0 <= c.year <=> -719528 <= civilToDays(c)
      /\ c.year <= 9999 <=> civilToDays(c) <= 2932896
  BY <1>1, <1>2, <1>3, <1>4, OrderOfDates
<1>7. isCalendarDate(c) <=> 0 <= c.year /\ c.year <= 9999
  BY Years DEF isCalendarDate, proper
<1> QED
  BY <1>5, <1>6, <1>7, Bounds

\* addDays() is addition on numbers, or the RangeError.
LEMMA AddDays ==
  ASSUME NEW c, proper(c), NEW k \in Int
  PROVE  /\ inRange(civilToDays(c) + k) =>
              validDate(addDays(c, k)) /\ civilToDays(addDays(c, k)) = civilToDays(c) + k
         /\ ~inRange(civilToDays(c) + k) => addDays(c, k) = OutOfRange
<1> DEFINE n == civilToDays(c) + k
           e == daysToCivil(n)
           printable == e.year \in 0 .. 9999
<1>1. n \in Int
  BY RoundTrip
<1>6. n = civilToDays(c) + k
  OBVIOUS
<1> HIDE DEF n
<1>2. proper(e) /\ civilToDays(e) = n
  BY <1>1, EveryNumber
<1>3. isCalendarDate(e) <=> inRange(n)
  BY <1>2, InRange
<1>4. isCalendarDate(e) <=> printable
  BY <1>2, Years DEF isCalendarDate, proper
<1>5. addDays(c, k) = IF printable THEN e ELSE OutOfRange
  BY DEF addDays, format, n
<1> HIDE DEF e, printable
<1> QED
  BY <1>2, <1>3, <1>4, <1>5, <1>6 DEF validDate

\* A RangeError is no date.
LEMMA NotOutOfRange == \A c : validDate(c) => c # OutOfRange
BY DEF validDate, proper, OutOfRange, civil

\* The weekday is a number of 1 to 7, and counts the days since Monday.
LEMMA Weekday ==
  ASSUME NEW c, proper(c)
  PROVE  /\ weekdayNumber(c) \in 1 .. 7
         /\ weekdayNumber(c) = ((civilToDays(c) + 3) % 7) + 1
         /\ mondayOfWeek(c) = addDays(c, -(weekdayNumber(c) - 1))
<1>1. civilToDays(c) \in Int
  BY RoundTrip
<1>2. (((civilToDays(c) % 7) + 3) % 7) = (civilToDays(c) + 3) % 7 /\ (civilToDays(c) + 3) % 7 \in 0 .. 6
  BY <1>1
<1>3. weekdayNumber(c) = ((civilToDays(c) + 3) % 7) + 1
  BY <1>2 DEF weekdayNumber
<1>4. -(weekdayNumber(c) - 1) = -(((civilToDays(c) % 7) + 3) % 7)
  BY <1>2, <1>3
<1>5. mondayOfWeek(c) = addDays(c, -(weekdayNumber(c) - 1))
  BY <1>4 DEF mondayOfWeek
<1> QED
  BY <1>2, <1>3, <1>5

\* The Monday of a week is the day the weekday tells, if it is in the calendar.
LEMMA MondayOfWeek ==
  ASSUME NEW c, proper(c), NEW monday, monday = civilToDays(c) - (weekdayNumber(c) - 1)
  PROVE  /\ inRange(monday) => /\ validDate(mondayOfWeek(c))
                               /\ civilToDays(mondayOfWeek(c)) = monday
                               /\ weekdayNumber(mondayOfWeek(c)) = 1
         /\ ~inRange(monday) => mondayOfWeek(c) = OutOfRange
<1> DEFINE n == civilToDays(c)
           w == weekdayNumber(c)
<1>1. n \in Int /\ w \in 1 .. 7 /\ w = ((n + 3) % 7) + 1
  BY RoundTrip, Weekday
<1>2. mondayOfWeek(c) = addDays(c, -(w - 1))
  BY Weekday
<1>3. monday = n + -(w - 1) /\ -(w - 1) \in Int
  BY <1>1
<1>4. (monday + 3) % 7 = 0
  <2> HIDE DEF n, w
  <2> QED
    BY <1>1, <1>3
<1> HIDE DEF w
<1>5. /\ inRange(monday) => validDate(mondayOfWeek(c)) /\ civilToDays(mondayOfWeek(c)) = monday
      /\ ~inRange(monday) => mondayOfWeek(c) = OutOfRange
  BY <1>2, <1>3, AddDays
<1>6. inRange(monday) => weekdayNumber(mondayOfWeek(c)) = 1
  BY <1>4, <1>5, Weekday DEF validDate
<1> QED
  BY <1>5, <1>6

\* A Monday has a week when its Sunday is in range.
LEMMA HasWeekDates ==
  ASSUME NEW c, validDate(c), weekdayNumber(c) = 1
  PROVE  hasWeekDates(c) <=> inRange(civilToDays(c) + 6)
<1>1. proper(c) /\ c # OutOfRange /\ civilToDays(c) \in Int
  BY NotOutOfRange, RoundTrip DEF validDate
<1>2. mondayOfWeek(c) = c
  <2>1. inRange(civilToDays(c) + 0) /\ civilToDays(c) + 0 = civilToDays(c)
    BY <1>1, InRange DEF validDate
  <2>2. mondayOfWeek(c) = addDays(c, 0)
    BY <1>1, Weekday
  <2>3. proper(addDays(c, 0)) /\ civilToDays(addDays(c, 0)) = civilToDays(c)
    BY <1>1, <2>1, AddDays DEF validDate
  <2> QED
    BY <1>1, <2>2, <2>3, OrderOfDates
<1>3. addDays(c, 6) # OutOfRange <=> inRange(civilToDays(c) + 6)
  BY <1>1, AddDays, NotOutOfRange
<1> QED
  BY <1>1, <1>2, <1>3 DEF hasWeekDates

\* A RangeError has no week.
LEMMA NoWeekOutOfRange == ~hasWeekDates(OutOfRange)
BY DEF hasWeekDates

\* A day is rendered when the Monday and the Sunday of its week are in the calendar.
LEMMA Renderable ==
  ASSUME NEW c, proper(c), NEW monday, monday = civilToDays(c) - (weekdayNumber(c) - 1)
  PROVE  renderable(c) <=> inRange(monday) /\ inRange(monday + 6)
<1>1. CASE inRange(monday)
  BY <1>1, MondayOfWeek, HasWeekDates DEF renderable
<1>2. CASE ~inRange(monday)
  BY <1>2, MondayOfWeek, NoWeekOutOfRange DEF renderable
<1> QED
  BY <1>1, <1>2

-----------------------------------------------------------------------------
(* Counting the days *)

\* The two rules for leap years are one.
LEMMA LeapYears == \A y \in Int :
  isLeapYear(y) <=> y % 400 = 0 \/ (y % 4 = 0 /\ y % 100 # 0)
<1> SUFFICES ASSUME NEW y \in Int PROVE isLeapYear(y) <=> y % 400 = 0 \/ (y % 4 = 0 /\ y % 100 # 0)
  OBVIOUS
<1>1. y % 400 = 0 => y % 4 = 0
  OBVIOUS
<1> QED
  BY <1>1 DEF isLeapYear

\* The month lengths counted by are those of daysInMonth().
LEMMA LengthsOfMonths ==
  ASSUME NEW y \in Int, NEW m \in 1 .. 12
  PROVE  Lengths(y)[m] = daysInMonth(y, m) /\ daysInMonth(y, m) \in 28 .. 31
<1>1. daysInMonth(y, m) \in 28 .. 31
  BY DEF daysInMonth
<1> DEFINE l == IF y % 400 = 0 \/ (y % 4 = 0 /\ y % 100 # 0) THEN 29 ELSE 28
<1>2. l = IF isLeapYear(y) THEN 29 ELSE 28
  BY LeapYears
<1>3. Lengths(y) = <<31, l, 31, 30, 31, 30, 31, 31, 30, 31, 30, 31>>
  BY DEF Lengths
<1> HIDE DEF l
<1> QED
  BY <1>1, <1>2, <1>3 DEF daysInMonth

\* What a day as counting gives it is made of.
LEMMA DayFacts ==
  ASSUME NEW t, isDay(t), NEW c, c = t.date
  PROVE  /\ proper(c) /\ 0 <= c.year /\ c.year <= 9999 /\ t.number \in Int
         /\ t.number = -719528 + 365 * c.year + leapDays(c.year) + monthBegins(c.month)
                         + (IF c.month > 2 /\ isLeapYear(c.year) THEN 1 ELSE 0) + c.day - 1
         /\ t.weekday = ((t.number + 3) % 7) + 1
<1> DEFINE years == 0 .. 9999
<1>1. /\ c \in [year : years, month : 1 .. 12, day : 1 .. 31] /\ t.number \in Int
      /\ c.day <= Lengths(c.year)[c.month]
      /\ t.number = FirstNumber + 365 * c.year + leapDays(c.year) + monthBegins(c.month)
           + (IF c.month > 2 /\ Lengths(c.year)[2] = 29 THEN 1 ELSE 0) + c.day - 1
      /\ t.weekday = ((t.number + 3) % 7) + 1
  BY DEF isDay
<1>2. \A y \in years : y \in Int /\ 0 <= y /\ y <= 9999
  BY Years
<1> HIDE DEF years
<1>3. c \in [year : Int, month : 1 .. 12, day : 1 .. 31] /\ 0 <= c.year /\ c.year <= 9999
  BY <1>1, <1>2
<1>4. Lengths(c.year)[c.month] = daysInMonth(c.year, c.month)
  BY <1>3, LengthsOfMonths
<1>5. Lengths(c.year)[2] = 29 <=> isLeapYear(c.year)
  BY <1>3, LengthsOfMonths DEF daysInMonth
<1>6. proper(c)
  BY <1>1, <1>3, <1>4 DEF proper
<1> QED
  BY <1>1, <1>3, <1>5, <1>6 DEF FirstNumber

\* Counting agrees with civilToDays().
LEMMA Counted ==
  ASSUME NEW t, isDay(t)
  PROVE  validDate(t.date) /\ civilToDays(t.date) = t.number /\ weekdayNumber(t.date) = t.weekday
<1> DEFINE c == t.date
<1>1. /\ proper(c) /\ 0 <= c.year /\ c.year <= 9999
      /\ t.number = -719528 + 365 * c.year + leapDays(c.year) + monthBegins(c.month)
                      + (IF c.month > 2 /\ isLeapYear(c.year) THEN 1 ELSE 0) + c.day - 1
      /\ t.weekday = ((t.number + 3) % 7) + 1
  BY DayFacts
<1> HIDE DEF c
<1>2. validDate(c)
  BY <1>1, Years DEF validDate, isCalendarDate, proper
<1>3. PICK era, century, cycle, year, month : Placed(c, era, century, cycle, year, month)
  BY <1>1, Place
<1>4. civilToDays(c) = era * 146097 + dayOfEra(century, cycle, year, month, c.day) - 719468
  BY <1>1, <1>3, NumberOf
<1> DEFINE y == 400 * era + 100 * century + 4 * cycle + year
           d == c.day
<1>5. /\ era \in Int /\ century \in 0 .. 3 /\ cycle \in 0 .. 24 /\ year \in 0 .. 3
      /\ month \in 0 .. 11 /\ d \in 1 .. 31
  BY <1>1, <1>3 DEF Placed, proper
<1>6. t.number = civilToDays(c)
  <2>1. CASE month < 10
    <3>1. c.year = y /\ c.month = month + 3
      BY <1>3, <2>1 DEF Placed
    <3>2. leapDays(y) + (IF isLeapYear(y) THEN 1 ELSE 0) = 97 * era + 24 * century + cycle + 1
      <4>1. (y + 3) \div 4 = 100 * era + 25 * century + cycle + (IF year = 0 THEN 0 ELSE 1)
        BY <1>5
      <4>2. (y + 99) \div 100 = 4 * era + century + (IF year = 0 /\ cycle = 0 THEN 0 ELSE 1)
        BY <1>5
      <4>3. (y + 399) \div 400 = era + (IF year = 0 /\ cycle = 0 /\ century = 0 THEN 0 ELSE 1)
        BY <1>5
      <4>4. isLeapYear(y) <=> year = 0 /\ (cycle = 0 => century = 0)
        <5>1. y % 4 = 0 <=> year = 0
          BY <1>5
        <5>2. y % 100 = 0 <=> year = 0 /\ cycle = 0
          BY <1>5
        <5>3. y % 400 = 0 <=> year = 0 /\ cycle = 0 /\ century = 0
          BY <1>5
        <5> QED
          BY <5>1, <5>2, <5>3 DEF isLeapYear
      <4> HIDE DEF y
      <4> QED
        BY <1>5, <4>1, <4>2, <4>3, <4>4 DEF leapDays
    <3>3. monthBegins(c.month) = beforeMonth(month) + 59
      BY <1>5, <2>1, <3>1 DEF monthBegins, beforeMonth
    <3>4. leapDays(y) \in Int /\ y \in Int /\ beforeMonth(month) \in Int
      BY <1>5 DEF leapDays, beforeMonth
    <3>5. t.number = -719528 + 365 * y + leapDays(y) + (beforeMonth(month) + 59)
                       + (IF isLeapYear(y) THEN 1 ELSE 0) + d - 1
      BY <1>1, <1>5, <2>1, <3>1, <3>3
    <3> QED
      BY <1>4, <1>5, <3>2, <3>4, <3>5 DEF dayOfEra
  <2>2. CASE month >= 10
    <3>1. c.year = y + 1 /\ c.month = month - 9
      BY <1>3, <2>2 DEF Placed
    <3>2. leapDays(y + 1) = 97 * era + 24 * century + cycle + 1
      BY <1>5 DEF leapDays
    <3>3. monthBegins(c.month) = beforeMonth(month) - 306
      BY <1>5, <2>2, <3>1 DEF monthBegins, beforeMonth
    <3>4. beforeMonth(month) \in Int
      BY <1>5 DEF beforeMonth
    <3>5. t.number = -719528 + 365 * (y + 1) + leapDays(y + 1) + (beforeMonth(month) - 306) + d - 1
      <4>1. ~(c.month > 2)
        BY <1>5, <3>1
      <4>2. t.number = -719528 + 365 * c.year + leapDays(c.year) + monthBegins(c.month) + 0 + c.day - 1
        BY <1>1, <4>1
      <4>3. monthBegins(c.month) = beforeMonth(month) + -306
        BY <3>3, <3>4
      <4>4. c.day = d /\ d \in Int /\ y \in Int /\ leapDays(y + 1) \in Int
        BY <1>5 DEF leapDays
      <4> HIDE DEF y, d
      <4> QED
        BY <3>1, <3>4, <4>2, <4>3, <4>4
    <3> QED
      BY <1>4, <1>5, <3>2, <3>4, <3>5 DEF dayOfEra
  <2> QED
    BY <1>5, <2>1, <2>2
<1>7. weekdayNumber(c) = t.weekday
  BY <1>1, <1>6, Weekday
<1> QED
  BY <1>2, <1>6, <1>7 DEF c

\* The number of a date, added up from years and months.
count(c) ==
  -719528 + 365 * c.year + leapDays(c.year) + monthBegins(c.month)
    + (IF c.month > 2 /\ isLeapYear(c.year) THEN 1 ELSE 0) + c.day - 1

\* A date with its count and weekday is a day.
LEMMA DayOf ==
  ASSUME NEW t, NEW c, validDate(c), NEW number, number = count(c),
         t = [number |-> number, weekday |-> ((number + 3) % 7) + 1, date |-> c]
  PROVE  isDay(t)
<1> DEFINE years == 0 .. 9999
<1>1. c \in [year : years, month : 1 .. 12, day : 1 .. 31] /\ c.year \in Int
  BY DEF validDate, proper, isCalendarDate
<1> HIDE DEF years
<1>2. c.day <= Lengths(c.year)[c.month]
  BY <1>1, LengthsOfMonths DEF validDate, proper
<1>3. Lengths(c.year)[2] = 29 <=> isLeapYear(c.year)
  BY <1>1, LengthsOfMonths DEF daysInMonth
<1>4. leapDays(c.year) \in Int /\ monthBegins(c.month) \in Int /\ c.day \in Int
  BY <1>1 DEF leapDays, monthBegins
<1>5. number \in Int
  BY <1>1, <1>4 DEF count
<1>6. ((number + 3) % 7) + 1 \in 1 .. 7
  BY <1>5
<1>7. t \in [number : Int, weekday : 1 .. 7, date : [year : years, month : 1 .. 12, day : 1 .. 31]]
  BY <1>1, <1>5, <1>6
<1>8. number = FirstNumber + 365 * c.year + leapDays(c.year) + monthBegins(c.month)
                 + (IF c.month > 2 /\ Lengths(c.year)[2] = 29 THEN 1 ELSE 0) + c.day - 1
  BY <1>3 DEF FirstNumber, count
<1> QED
  BY <1>2, <1>7, <1>8 DEF isDay, years

\* Counting a date gives civilToDays() of it.
LEMMA CountOf ==
  ASSUME NEW c, validDate(c)
  PROVE  civilToDays(c) = count(c)
<1> DEFINE t == [number |-> count(c), weekday |-> ((count(c) + 3) % 7) + 1, date |-> c]
<1>1. t.date = c /\ t.number = count(c)
  OBVIOUS
<1>2. isDay(t)
  BY DayOf
<1> HIDE DEF t
<1> QED
  BY <1>1, <1>2, Counted

\* The last of a month and the first of the next.
LEMMA NextMonth ==
  ASSUME NEW y \in Int, 0 <= y, y <= 9999, NEW m \in 1 .. 12
  PROVE  LET last == civil(y, m, daysInMonth(y, m))
             next == IF m < 12 THEN civil(y, m + 1, 1) ELSE civil(y + 1, 1, 1)
         IN  /\ validDate(civil(y, m, 1)) /\ validDate(last)
             /\ m < 12 \/ y < 9999 => validDate(next) /\ civilToDays(next) = civilToDays(last) + 1
             /\ m = 12 /\ y = 9999 => civilToDays(last) = 2932896
<1> DEFINE d == daysInMonth(y, m)
           last == civil(y, m, d)
           next == IF m < 12 THEN civil(y, m + 1, 1) ELSE civil(y + 1, 1, 1)
<1>1. /\ \A k \in 1 .. 12, x \in Int : daysInMonth(x, k) \in 28 .. 31
      /\ d = IF m = 2 THEN (IF isLeapYear(y) THEN 29 ELSE 28) ELSE IF m \in {4, 6, 9, 11} THEN 30 ELSE 31
  BY DEF daysInMonth
<1>2. \A x \in Int, k \in 1 .. 12, e \in 1 .. 31 :
        0 <= x /\ x <= 9999 /\ e <= daysInMonth(x, k) => validDate(civil(x, k, e))
  BY Years DEF validDate, proper, isCalendarDate, civil
<1>3. validDate(civil(y, m, 1)) /\ validDate(last)
  BY <1>1, <1>2
<1>4. civilToDays(last)
        = -719528 + 365 * y + leapDays(y) + monthBegins(m) + (IF m > 2 /\ isLeapYear(y) THEN 1 ELSE 0) + d - 1
  BY <1>3, CountOf DEF count, civil
<1>5. leapDays(y) \in Int /\ monthBegins(m) \in Int /\ d \in Int
  BY <1>1 DEF leapDays, monthBegins
<1>6. CASE m < 12
  <2>1. next = civil(y, m + 1, 1) /\ validDate(next)
    BY <1>1, <1>2, <1>6
  <2>2. civilToDays(next)
          = -719528 + 365 * y + leapDays(y) + monthBegins(m + 1)
              + (IF m + 1 > 2 /\ isLeapYear(y) THEN 1 ELSE 0)
    <3>1. next.year = y /\ next.month = m + 1 /\ next.day = 1
      BY <2>1 DEF civil
    <3> HIDE DEF next
    <3>2. civilToDays(next) = count(next)
      BY <2>1, CountOf
    <3>3. monthBegins(m + 1) \in Int
      BY <1>6 DEF monthBegins
    <3> QED
      BY <1>5, <3>1, <3>2, <3>3 DEF count
  <2>3. monthBegins(m + 1) = monthBegins(m) + IF m = 2 THEN 28 ELSE IF m \in {4, 6, 9, 11} THEN 30 ELSE 31
    BY <1>6 DEF monthBegins
  <2> HIDE DEF d, last, next
  <2> QED
    BY <1>1, <1>3, <1>4, <1>5, <1>6, <2>1, <2>2, <2>3 DEF d, last, next
<1>7. CASE m = 12 /\ y < 9999
  <2>1. next = civil(y + 1, 1, 1) /\ validDate(next)
    BY <1>1, <1>2, <1>7
  <2>2. civilToDays(next) = -719528 + 365 * (y + 1) + leapDays(y + 1) + 0
    <3>1. next.year = y + 1 /\ next.month = 1 /\ next.day = 1
      BY <2>1 DEF civil
    <3> HIDE DEF next
    <3>2. civilToDays(next) = count(next)
      BY <2>1, CountOf
    <3>3. monthBegins(1) = 0 /\ leapDays(y + 1) \in Int
      BY DEF monthBegins, leapDays
    <3> QED
      BY <3>1, <3>2, <3>3 DEF count
  <2>3. monthBegins(m) = 334 /\ d = 31
    BY <1>7, <1>1 DEF monthBegins
  <2>4. leapDays(y + 1) = leapDays(y) + IF isLeapYear(y) THEN 1 ELSE 0
    <3>1. (y + 4) \div 4 = (y + 3) \div 4 + IF y % 4 = 0 THEN 1 ELSE 0
      OBVIOUS
    <3>2. (y + 100) \div 100 = (y + 99) \div 100 + IF y % 100 = 0 THEN 1 ELSE 0
      OBVIOUS
    <3>3. (y + 400) \div 400 = (y + 399) \div 400 + IF y % 400 = 0 THEN 1 ELSE 0
      OBVIOUS
    <3>4. (y % 100 = 0 => y % 4 = 0) /\ (y % 400 = 0 => y % 100 = 0)
      OBVIOUS
    <3> QED
      BY <3>1, <3>2, <3>3, <3>4 DEF leapDays, isLeapYear
  <2> HIDE DEF d, last, next
  <2> QED
    BY <1>3, <1>4, <1>5, <1>7, <2>1, <2>2, <2>3, <2>4 DEF d, last, next
<1>8. CASE m = 12 /\ y = 9999
  <2>1. monthBegins(m) = 334 /\ d = 31 /\ leapDays(y) = 2425 /\ ~isLeapYear(y)
    BY <1>8, <1>1 DEF monthBegins, leapDays, isLeapYear
  <2> QED
    BY <1>3, <1>4, <1>8, <2>1
<1> QED
  BY <1>6, <1>7, <1>8

\* A day that is counted is followed by one.
LEMMA NextDay ==
  ASSUME NEW t, isDay(t), t.number # LastNumber
  PROVE  isDay(nextDay(t))
<1> DEFINE c == t.date
           n == t.number
           y == c.year
           m == c.month
           u == nextDay(t)
           e == u.date
<1>1. /\ validDate(c) /\ civilToDays(c) = n /\ n \in Int /\ t.weekday = ((n + 3) % 7) + 1
      /\ y \in Int /\ 0 <= y /\ y <= 9999 /\ m \in 1 .. 12 /\ c.day \in 1 .. 31
      /\ c.day <= daysInMonth(y, m) /\ c = civil(y, m, c.day)
  BY Counted, DayFacts DEF validDate, proper, civil
<1>2. Lengths(y)[m] = daysInMonth(y, m) /\ daysInMonth(y, m) \in 28 .. 31
  BY <1>1, LengthsOfMonths
<1>3. /\ u = [number |-> n + 1, weekday |-> IF t.weekday = 7 THEN 1 ELSE t.weekday + 1, date |-> e]
      /\ e = IF c.day < daysInMonth(y, m) THEN [c EXCEPT !.day = @ + 1]
             ELSE IF m < 12 THEN civil(y, m + 1, 1) ELSE civil(y + 1, 1, 1)
  BY <1>2 DEF nextDay
<1> HIDE DEF c, n, u, e
<1>4. validDate(e) /\ civilToDays(e) = n + 1
  <2>1. CASE c.day < daysInMonth(y, m)
    <3>1. e = civil(y, m, c.day + 1) /\ c = civil(y, m, c.day)
      BY <1>1, <1>3, <2>1 DEF civil
    <3>2. validDate(e)
      BY <1>1, <1>2, <2>1, <3>1, Years DEF validDate, proper, isCalendarDate, civil
    <3>3. count(e) = count(c) + 1
      <4>1. leapDays(y) \in Int /\ monthBegins(m) \in Int
        BY <1>1 DEF leapDays, monthBegins
      <4>2. e.year = y /\ e.month = m /\ e.day = c.day + 1
        BY <3>1 DEF civil
      <4> QED
        BY <1>1, <4>1, <4>2 DEF count
    <3> QED
      BY <1>1, <3>2, <3>3, CountOf
  <2>2. CASE c.day >= daysInMonth(y, m)
    <3>1. c = civil(y, m, daysInMonth(y, m))
      BY <1>1, <1>2, <2>2
    <3>2. e = IF m < 12 THEN civil(y, m + 1, 1) ELSE civil(y + 1, 1, 1)
      BY <1>1, <1>2, <1>3, <2>2
    <3>3. m < 12 \/ y < 9999
      <4>1. m = 12 /\ y = 9999 => civilToDays(c) = 2932896
        BY <1>1, <3>1, NextMonth
      <4> QED
        BY <1>1, <4>1 DEF LastNumber, n
    <3> QED
      BY <1>1, <3>1, <3>2, <3>3, NextMonth
  <2> QED
    BY <1>1, <1>2, <2>1, <2>2
<1>5. (IF t.weekday = 7 THEN 1 ELSE t.weekday + 1) = ((n + 1 + 3) % 7) + 1
  BY <1>1
<1>6. u = [number |-> n + 1, weekday |-> ((n + 1 + 3) % 7) + 1, date |-> e] /\ n + 1 = count(e)
  BY <1>3, <1>4, <1>5, CountOf
<1>7. isDay(u)
  BY <1>4, <1>6, DayOf
<1> QED
  BY <1>7 DEF u

\* A date is among the dates of its week.
LEMMA WeekDates ==
  ASSUME NEW c, validDate(c), NEW monday, monday = civilToDays(c) - (weekdayNumber(c) - 1), inRange(monday)
  PROVE  weekDates(mondayOfWeek(c))[weekdayNumber(c)] = c
<1> DEFINE M == mondayOfWeek(c)
           w == weekdayNumber(c)
<1>1. proper(c) /\ civilToDays(c) \in Int /\ w \in 1 .. 7 /\ inRange(civilToDays(c))
  BY RoundTrip, Weekday, InRange DEF validDate
<1>2. validDate(M) /\ civilToDays(M) = monday
  BY <1>1, MondayOfWeek
<1> HIDE DEF M, w
<1>3. w - 1 \in Int /\ monday + (w - 1) = civilToDays(c)
  BY <1>1 DEF w
<1>4. validDate(addDays(M, w - 1)) /\ civilToDays(addDays(M, w - 1)) = civilToDays(c)
  BY <1>1, <1>2, <1>3, AddDays DEF validDate
<1>5. addDays(M, w - 1) = c
  BY <1>1, <1>4, OrderOfDates DEF validDate
<1> QED
  BY <1>1, <1>5 DEF weekDates, M, w

\* The week beside a week of the calendar.
LEMMA Navigable ==
  ASSUME NEW M, validDate(M), weekdayNumber(M) = 1, NEW k \in {-7, 7}
  PROVE  navigableWeekStart(M, k) = OutOfRange
           <=> ~(inRange(civilToDays(M) + k) /\ inRange(civilToDays(M) + k + 6))
<1> DEFINE n == civilToDays(M)
           target == addDays(M, k)
<1>1. proper(M) /\ n \in Int /\ (n + 3) % 7 = 0
  BY RoundTrip, Weekday DEF validDate
<1>2. navigableWeekStart(M, k) = IF hasWeekDates(target) THEN target ELSE OutOfRange
  BY DEF navigableWeekStart
<1>3. /\ inRange(n + k) => validDate(target) /\ civilToDays(target) = n + k
      /\ ~inRange(n + k) => target = OutOfRange
  BY <1>1, AddDays
<1> HIDE DEF n, target
<1>4. CASE inRange(n + k)
  <2>1. weekdayNumber(target) = 1
    <3>1. weekdayNumber(target) = ((n + k + 3) % 7) + 1
      BY <1>3, <1>4, Weekday DEF validDate
    <3>2. (n + k + 3) % 7 = 0
      <4>1. CASE k = 7
        BY <1>1, <4>1
      <4>2. CASE k = -7
        BY <1>1, <4>2
      <4> QED
        BY <4>1, <4>2
    <3> QED
      BY <3>1, <3>2
  <2>2. hasWeekDates(target) <=> inRange(n + k + 6)
    BY <1>3, <1>4, <2>1, HasWeekDates
  <2>3. target # OutOfRange
    BY <1>3, <1>4, NotOutOfRange
  <2> QED
    BY <1>2, <1>4, <2>2, <2>3 DEF n
<1>5. CASE ~inRange(n + k)
  BY <1>2, <1>3, <1>5, NoWeekOutOfRange DEF n
<1> QED
  BY <1>4, <1>5

\* There is no day before the first of the year 0.
LEMMA BeforeAll ==
  ASSUME NEW edge, edge = civilToDays(civil(0, 1, 1)) - 1
  PROVE  ~inRange(edge)
<1>1. civilToDays(civil(0, 1, 1)) = -719528
  <2>1. validDate(civil(0, 1, 1))
    BY NextMonth
  <2>2. count(civil(0, 1, 1)) = -719528
    BY DEF count, civil, leapDays, monthBegins
  <2> QED
    BY <2>1, <2>2, CountOf
<1>2. edge = -719529
  BY <1>1
<1> QED
  BY <1>2, Bounds

\* The month after a month begins when it ends, and the one before ends when it begins.
LEMMA MonthBeside ==
  ASSUME NEW c, validDate(c), NEW delta \in {-1, 1},
         NEW edge, edge = IF delta = 1 THEN civilToDays(monthLast(c)) + 1 ELSE civilToDays(monthFirst(c)) - 1
  PROVE  LET m == shiftMonth(c, delta)
         IN  IF inRange(edge)
             THEN civilToDays(IF delta = 1 THEN m ELSE monthLast(m)) = edge
             ELSE m = OutOfRange
<1> DEFINE y == c.year
           k == c.month
           m == shiftMonth(c, delta)
<1>1. y \in Int /\ 0 <= y /\ y <= 9999 /\ k \in 1 .. 12
  BY Years DEF validDate, proper, isCalendarDate
<1>2. monthFirst(c) = civil(y, k, 1) /\ monthLast(c) = civil(y, k, daysInMonth(y, k))
  BY DEF monthFirst, monthLast
<1>3. m = CASE k + delta = 0  -> IF y = 0 THEN OutOfRange ELSE civil(y - 1, 12, 1)
            [] k + delta = 13 -> IF y = 9999 THEN OutOfRange ELSE civil(y + 1, 1, 1)
            [] OTHER -> civil(y, k + delta, 1)
  BY DEF shiftMonth
<1> HIDE DEF y, k, m
<1>4. \A d : validDate(d) => inRange(civilToDays(d)) /\ civilToDays(d) \in Int
  BY InRange, RoundTrip DEF validDate
<1>5. CASE delta = 1
  <2>1. edge = civilToDays(civil(y, k, daysInMonth(y, k))) + 1
    BY <1>2, <1>5
  <2>2. CASE k < 12
    <3>1. m = civil(y, k + 1, 1)
      BY <1>1, <1>3, <1>5, <2>2
    <3>2. validDate(m) /\ civilToDays(m) = edge
      BY <1>1, <2>1, <2>2, <3>1, NextMonth
    <3> QED
      BY <1>4, <1>5, <3>2 DEF m
  <2>3. CASE k = 12 /\ y < 9999
    <3>1. m = civil(y + 1, 1, 1)
      BY <1>1, <1>3, <1>5, <2>3
    <3>2. validDate(m) /\ civilToDays(m) = edge
      BY <1>1, <2>1, <2>3, <3>1, NextMonth
    <3> QED
      BY <1>4, <1>5, <3>2 DEF m
  <2>4. CASE k = 12 /\ y = 9999
    <3>1. m = OutOfRange
      BY <1>1, <1>3, <1>5, <2>4
    <3>2. civilToDays(civil(9999, 12, daysInMonth(9999, 12))) = 2932896
      BY NextMonth
    <3>3. civilToDays(civil(y, k, daysInMonth(y, k))) = 2932896
      BY <2>4, <3>2
    <3>4. edge = 2932896 + 1
      BY <2>1, <3>3
    <3>5. edge = 2932897
      BY <3>4
    <3> QED
      BY <1>5, <3>1, <3>5, Bounds DEF m
  <2> QED
    BY <1>1, <2>2, <2>3, <2>4
<1>6. CASE delta = -1
  <2>1. edge = civilToDays(civil(y, k, 1)) - 1
    BY <1>2, <1>6
  <2>2. CASE k > 1
    <3>1. m = civil(y, k - 1, 1) /\ k - 1 \in 1 .. 12 /\ k - 1 < 12 /\ k - 1 + 1 = k
      BY <1>1, <1>3, <1>6, <2>2
    <3>2. monthLast(m) = civil(y, k - 1, daysInMonth(y, k - 1))
      BY <3>1 DEF monthLast, civil
    <3>3. /\ validDate(monthLast(m)) /\ validDate(civil(y, k, 1))
          /\ civilToDays(civil(y, k, 1)) = civilToDays(monthLast(m)) + 1
      BY <1>1, <3>1, <3>2, NextMonth
    <3>4. edge = civilToDays(monthLast(m)) /\ inRange(edge)
      BY <1>4, <2>1, <3>3
    <3> QED
      BY <1>6, <3>4 DEF m
  <2>3. CASE k = 1 /\ y > 0
    <3>1. m = civil(y - 1, 12, 1) /\ y - 1 \in Int /\ 0 <= y - 1 /\ y - 1 < 9999 /\ y - 1 + 1 = y
      BY <1>1, <1>3, <1>6, <2>3
    <3>2. monthLast(m) = civil(y - 1, 12, daysInMonth(y - 1, 12))
      BY <3>1 DEF monthLast, civil
    <3>3. /\ validDate(monthLast(m)) /\ validDate(civil(y, 1, 1))
          /\ civilToDays(civil(y, 1, 1)) = civilToDays(monthLast(m)) + 1
      BY <1>1, <3>1, <3>2, NextMonth
    <3>4. edge = civilToDays(monthLast(m)) /\ inRange(edge)
      BY <1>4, <2>1, <2>3, <3>3
    <3> QED
      BY <1>6, <3>4 DEF m
  <2>4. CASE k = 1 /\ y = 0
    <3>1. m = OutOfRange
      BY <1>1, <1>3, <1>6, <2>4
    <3>2. ~inRange(edge)
      BY <2>1, <2>4, BeforeAll
    <3> QED
      BY <1>6, <3>1, <3>2 DEF m
  <2> QED
    BY <1>1, <2>2, <2>3, <2>4
<1> QED
  BY <1>5, <1>6

-----------------------------------------------------------------------------
\* Every day of the years 0000 to 9999: the helpers tell what counting tells.
THEOREM EveryDayAgrees ==
  ASSUME NEW t, isDay(t)
  PROVE  AgreesOn(t)
<1> DEFINE n == t.number
           c == t.date
           w == t.weekday
           monday == n - (w - 1)
           sunday == n - (w % 7)
           M == mondayOfWeek(c)
<1>1. validDate(c) /\ civilToDays(c) = n /\ weekdayNumber(c) = w
  BY Counted
<1>2. proper(c) /\ isCalendarDate(c) /\ n \in Int /\ daysToCivil(n) = c /\ w \in 1 .. 7
  BY <1>1, RoundTrip, Weekday DEF validDate
<1> HIDE DEF n, c, w
<1>3. monday \in Int /\ sunday \in Int /\ w % 7 \in 0 .. 6
  BY <1>2
<1>4. /\ inRange(monday) => /\ validDate(M) /\ civilToDays(M) = monday /\ weekdayNumber(M) = 1
      /\ ~inRange(monday) => M = OutOfRange
  BY <1>1, <1>2, MondayOfWeek
<1>5. IF inRange(sunday) THEN civilToDays(mostRecentSunday(c)) = sunday ELSE mostRecentSunday(c) = OutOfRange
  <2> DEFINE k == -(w % 7)
  <2>1. k \in Int /\ n + k = sunday
    BY <1>2, <1>3
  <2>2. mostRecentSunday(c) = addDays(c, k)
    BY <1>1 DEF mostRecentSunday
  <2> HIDE DEF k
  <2> QED
    BY <1>1, <1>2, <2>1, <2>2, AddDays
<1>6. renderable(c) <=> inRange(monday) /\ inRange(monday + 6)
  BY <1>1, <1>2, Renderable
<1>7. ASSUME renderable(c)
      PROVE  /\ \E i \in 1 .. 7 : weekDates(M)[i] = c
             /\ navigableWeekStart(M, -7) = OutOfRange <=> ~inRange(monday - 7)
             /\ navigableWeekStart(M, 7) = OutOfRange <=> ~inRange(monday + 13)
  <2>1. inRange(monday) /\ inRange(monday + 6)
    BY <1>6, <1>7
  <2>2. weekDates(M)[w] = c
    BY <1>1, <2>1, WeekDates
  <2>3. navigableWeekStart(M, -7) = OutOfRange
          <=> ~(inRange(monday + (-7)) /\ inRange(monday + (-7) + 6))
    BY <1>4, <2>1, Navigable
  <2>4. navigableWeekStart(M, 7) = OutOfRange <=> ~(inRange(monday + 7) /\ inRange(monday + 7 + 6))
    BY <1>4, <2>1, Navigable
  <2> HIDE DEF monday
  <2>5. inRange(monday - 7) <=> inRange(monday + (-7)) /\ inRange(monday + (-7) + 6)
    BY <1>3, <2>1, Bounds
  <2>6. inRange(monday + 13) <=> inRange(monday + 7) /\ inRange(monday + 7 + 6)
    BY <1>3, <2>1, Bounds
  <2> QED
    BY <1>2, <2>2, <2>3, <2>4, <2>5, <2>6
<1>8. trailingBlanks(c) >= 0 /\ leadingBlanks(c) \in 0 .. 6
  <2>1. c.year \in Int /\ 0 <= c.year /\ c.year <= 9999 /\ c.month \in 1 .. 12
    BY <1>2, Years DEF proper, isCalendarDate
  <2>2. proper(monthFirst(c))
    BY <2>1, NextMonth DEF monthFirst, validDate
  <2>3. leadingBlanks(c) \in 0 .. 6
    BY <2>2, Weekday DEF leadingBlanks
  <2>4. daysInMonth(c.year, c.month) \in 28 .. 31
    BY <2>1, LengthsOfMonths
  <2> QED
    BY <2>3, <2>4 DEF trailingBlanks
<1>9. ASSUME NEW delta \in {-1, 1}
      PROVE  LET m == shiftMonth(c, delta)
                 edge == IF delta = 1 THEN civilToDays(monthLast(c)) + 1 ELSE civilToDays(monthFirst(c)) - 1
             IN  IF inRange(edge)
                 THEN civilToDays(IF delta = 1 THEN m ELSE monthLast(m)) = edge
                 ELSE m = OutOfRange
  BY <1>1, MonthBeside
<1> QED
  BY <1>1, <1>2, <1>4, <1>5, <1>6, <1>7, <1>8, <1>9 DEF AgreesOn, n, c, w

-----------------------------------------------------------------------------
(* The walk through the calendar. *)

\* Only midnight changes the day, to the next one.
LEMMA EveryNextDay ==
  ASSUME isDay(day), [Next]_vars
  PROVE  isDay(day')
<1>1. CASE Midnight
  <2>1. day.number # LastNumber
    BY <1>1, DatesAssumption DEF Midnight
  <2> QED
    BY <1>1, <2>1, NextDay DEF Midnight
<1>2. CASE UNCHANGED day
  BY <1>2
<1> QED
  BY <1>1, <1>2
  DEF Next, mountToday, OpenToday, OpenArchive, OpenWeekly, arrive, OpenJournal, RedirectToToday, TodayRenders, turnTo,
      TurnMonth, WeeklyNotices, Type, Save, Execute, SettleList, SettleGet, SettleWrite, vars

\* Every day of a walk is the day that counting gives.
LEMMA DaysAreDays == Spec => []isDay(day)
<1>1. Init => isDay(day)
  BY DatesAssumption DEF Init
<1>2. isDay(day) /\ [Next]_vars => isDay(day)'
  BY EveryNextDay
<1> QED
  BY <1>1, <1>2, PTL DEF Spec

\* The date helpers agree with counting on every day a walk reaches.
THEOREM HelpersAgree == Spec => []CalendarAgrees
<1>1. isDay(day) => CalendarAgrees
  BY EveryDayAgrees DEF CalendarAgrees
<1> QED
  BY <1>1, DaysAreDays, PTL

-----------------------------------------------------------------------------
(* What a screen lists is what it is about. *)

\* The screen's weeks are in the calendar.
Viewable(p) ==
  LET t == p.of
      monday == t.number - (t.weekday - 1)
      sunday == t.number - (t.weekday % 7)
  IN  CASE p.kind = "archive" -> validDate(t.date)
        [] p.kind = "weekly"  -> isDay(t) /\ inRange(sunday - 6)
        [] p.kind \in {"today", "journal"} -> isDay(t) /\ inRange(monday) /\ inRange(monday + 6)
        [] OTHER -> TRUE

\* JournalView asks for the days of the week in view.
LEMMA WeekOf ==
  ASSUME NEW t, isDay(t), NEW monday, monday = t.number - (t.weekday - 1), inRange(monday), inRange(monday + 6),
         NEW e, isDay(e)
  PROVE  earlierOrSame(weekStart(t), e.date) /\ earlierOrSame(e.date, addDays(weekStart(t), 6))
           <=> e.number - monday \in 0 .. 6
<1> DEFINE M == mondayOfWeek(t.date)
           S == addDays(M, 6)
<1>1. /\ validDate(t.date) /\ civilToDays(t.date) = t.number /\ weekdayNumber(t.date) = t.weekday
      /\ validDate(e.date) /\ civilToDays(e.date) = e.number
  BY Counted
<1>2. validDate(M) /\ civilToDays(M) = monday
  BY <1>1, MondayOfWeek DEF validDate
<1> HIDE DEF M
<1>3. validDate(S) /\ civilToDays(S) = monday + 6
  BY <1>2, AddDays DEF validDate
<1> HIDE DEF S
<1>4. /\ earlierOrSame(M, e.date) <=> monday <= e.number
      /\ earlierOrSame(e.date, S) <=> e.number <= monday + 6
  BY <1>1, <1>2, <1>3, OrderOfDates DEF validDate
<1>5. monday \in Int /\ e.number \in Int
  BY DayFacts, Bounds
<1>6. monday <= e.number /\ e.number <= monday + 6 <=> e.number - monday \in 0 .. 6
  BY <1>5
<1> QED
  BY <1>4, <1>6 DEF weekStart, M, S

\* Weekly Review asks for the week that ended on the most recent Sunday.
LEMMA ReviewOf ==
  ASSUME NEW t, isDay(t), NEW sunday, sunday = t.number - (t.weekday % 7), inRange(sunday - 6),
         NEW e, isDay(e)
  PROVE  earlierOrSame(reviewMonday(t.date), e.date) /\ earlierOrSame(e.date, reviewSunday(t.date))
           <=> e.number - sunday \in -6 .. 0
<1> DEFINE c == t.date
           S == mostRecentSunday(c)
           M == mondayOfWeek(S)
           k == -(t.weekday % 7)
<1>1. /\ validDate(c) /\ civilToDays(c) = t.number /\ weekdayNumber(c) = t.weekday
      /\ validDate(e.date) /\ civilToDays(e.date) = e.number /\ e.number \in Int /\ t.number \in Int
  BY Counted, DayFacts
<1>2. t.weekday \in 1 .. 7 /\ t.weekday = ((t.number + 3) % 7) + 1
  BY <1>1, Weekday DEF validDate
<1>3. k \in Int /\ sunday = t.number + k /\ k <= 0 /\ sunday \in Int /\ (sunday + 3) % 7 = 6
  <2> DEFINE n == t.number
             w == t.weekday
             r == (n + 3) % 7
             q == (n + 3) \div 7
  <2>1. n \in Int /\ r \in 0 .. 6 /\ q \in Int /\ n + 3 = 7 * q + r
    BY <1>1
  <2>2. w % 7 = IF r = 6 THEN 0 ELSE r + 1
    BY <1>2, <2>1
  <2> HIDE DEF n, w, r, q
  <2>3. sunday = n - (w % 7) /\ k = -(w % 7)
    BY DEF n, w
  <2>4. k \in Int /\ sunday = n + k /\ k <= 0 /\ sunday \in Int
    BY <2>1, <2>2, <2>3
  <2>5. sunday + 3 = IF r = 6 THEN 7 * q + 6 ELSE 7 * (q - 1) + 6
    BY <2>1, <2>2, <2>3
  <2>6. (sunday + 3) % 7 = 6
    BY <2>1, <2>5
  <2> QED
    BY <2>4, <2>6 DEF n
<1>4. inRange(sunday)
  <2>1. t.number <= 2932896
    BY <1>1, InRange, Bounds DEF validDate
  <2> QED
    BY <1>1, <1>3, <2>1, Bounds
<1>5. S = addDays(c, k)
  BY <1>1 DEF mostRecentSunday
<1> HIDE DEF c, S, k
<1>6. validDate(S) /\ civilToDays(S) = sunday
  BY <1>1, <1>3, <1>4, <1>5, AddDays DEF validDate
<1>7. weekdayNumber(S) = 7
  BY <1>3, <1>6, Weekday DEF validDate
<1>8. sunday - 6 = civilToDays(S) - (weekdayNumber(S) - 1)
  BY <1>3, <1>6, <1>7
<1>9. validDate(M) /\ civilToDays(M) = sunday - 6
  BY <1>6, <1>8, MondayOfWeek DEF validDate
<1> HIDE DEF M
<1>10. /\ earlierOrSame(M, e.date) <=> sunday - 6 <= e.number
       /\ earlierOrSame(e.date, S) <=> e.number <= sunday
  BY <1>1, <1>6, <1>9, OrderOfDates DEF validDate
<1>11. sunday - 6 <= e.number /\ e.number <= sunday <=> e.number - sunday \in -6 .. 0
  BY <1>1, <1>3
<1> QED
  BY <1>10, <1>11 DEF reviewMonday, reviewSunday, M, S, c

\* Archive asks for the days of the month in view.
LEMMA MonthOf ==
  ASSUME NEW c, validDate(c), NEW d, validDate(d)
  PROVE  earlierOrSame(monthFirst(c), d) /\ earlierOrSame(d, monthLast(c))
           <=> d.year = c.year /\ d.month = c.month
<1>1. /\ c.year \in Int /\ c.month \in 1 .. 12 /\ d.year \in Int /\ d.month \in 1 .. 12
      /\ d.day \in 1 .. 31 /\ d.day <= daysInMonth(d.year, d.month)
  BY DEF validDate, proper
<1>2. daysInMonth(c.year, c.month) \in 28 .. 31
  BY <1>1, LengthsOfMonths
<1> QED
  BY <1>1, <1>2 DEF earlierOrSame, monthFirst, monthLast, civil

\* The dates a screen asks for are those of the entries it is about.
LEMMA ListsItsDays ==
  ASSUME Viewable(page), page.kind \in {"today", "journal", "archive", "weekly"},
         NEW e \in Entries
  PROVE  e \in listing(page).days <=> about(e)
<1> DEFINE t == page.of
<1>1. isDay(e) /\ validDate(e.date)
  BY DatesAssumption, Counted
<1>2. e \in listing(page).days <=> earlierOrSame(listedFrom(page), e.date) /\ earlierOrSame(e.date, listedTo(page))
  BY DEF listing, operation
<1>3. CASE page.kind = "archive"
  <2>1. validDate(t.date)
    BY <1>3 DEF Viewable
  <2>2. listedFrom(page) = monthFirst(t.date) /\ listedTo(page) = monthLast(t.date)
    BY <1>3 DEF listedFrom, listedTo
  <2>3. about(e) <=> e.date.year = t.date.year /\ e.date.month = t.date.month
    BY <1>3 DEF about
  <2> QED
    BY <1>1, <1>2, <2>1, <2>2, <2>3, MonthOf
<1>4. CASE page.kind = "weekly"
  <2>1. isDay(t) /\ inRange(t.number - (t.weekday % 7) - 6)
    BY <1>4 DEF Viewable
  <2>2. listedFrom(page) = reviewMonday(t.date) /\ listedTo(page) = reviewSunday(t.date)
    BY <1>4 DEF listedFrom, listedTo
  <2>3. about(e) <=> e.number - (t.number - (t.weekday % 7)) \in -6 .. 0
    BY <1>4 DEF about
  <2> HIDE DEF t
  <2> QED
    BY <1>1, <1>2, <2>1, <2>2, <2>3, ReviewOf
<1>5. CASE page.kind \in {"today", "journal"}
  <2>1. isDay(t) /\ inRange(t.number - (t.weekday - 1)) /\ inRange(t.number - (t.weekday - 1) + 6)
    BY <1>5 DEF Viewable
  <2>2. listedFrom(page) = weekStart(t) /\ listedTo(page) = addDays(weekStart(t), 6)
    BY <1>5 DEF listedFrom, listedTo
  <2>3. about(e) <=> e.number - (t.number - (t.weekday - 1)) \in 0 .. 6
    BY <1>5 DEF about
  <2> HIDE DEF t
  <2> QED
    BY <1>1, <1>2, <2>1, <2>2, <2>3, WeekOf
<1> QED
  BY <1>3, <1>4, <1>5

-----------------------------------------------------------------------------
(* The storage queue, as the screen that waits for a list sees it. *)

Dated == [number : Int, weekday : Int, date : [year : Int, month : Int, day : Int]]

Operations ==
  [kind : {"list", "get", "write"}, days : SUBSET Dated, live : BOOLEAN,
   text : BOOLEAN, flush : BOOLEAN, left : BOOLEAN, then : SUBSET BOOLEAN]

\* Days are records, and stay records when Archive puts a month's first date in.
LEMMA DaysAreDated ==
  /\ \A t : isDay(t) => t \in Dated
  /\ \A t \in Dated : \A c : validDate(c) => [t EXCEPT !.date = c] \in Dated /\ [t EXCEPT !.date = c].date = c
  /\ Entries \subseteq Dated
<1>1. ASSUME NEW t, isDay(t)
      PROVE  t \in Dated
  <2> DEFINE years == 0 .. 9999
  <2>1. t \in [number : Int, weekday : 1 .. 7, date : [year : years, month : 1 .. 12, day : 1 .. 31]]
    BY <1>1 DEF isDay
  <2>2. years \subseteq Int
    OBVIOUS
  <2> HIDE DEF years
  <2>3. t = [number |-> t.number, weekday |-> t.weekday, date |-> t.date]
        /\ t.number \in Int /\ t.weekday \in Int /\ t.date \in [year : years, month : 1 .. 12, day : 1 .. 31]
    BY <2>1
  <2>4. t.date \in [year : Int, month : Int, day : Int]
    BY <2>2, <2>3
  <2> QED
    BY <2>3, <2>4 DEF Dated
<1>2. ASSUME NEW t \in Dated, NEW c, validDate(c)
      PROVE  [t EXCEPT !.date = c] \in Dated /\ [t EXCEPT !.date = c].date = c
  BY <1>2 DEF Dated, validDate, proper
<1> QED
  BY <1>1, <1>2, DatesAssumption

\* An operation a screen still waits for to show its days.
Asked(op) == op.kind = "list" /\ op.live
NoList(q) == \A i \in DOMAIN q : ~Asked(q[i])
OneList(q, days) ==
  \E i \in DOMAIN q : /\ Asked(q[i]) /\ q[i].days = days
                      /\ \A j \in DOMAIN q : Asked(q[j]) => i = j

\* r begins with the operations of q, and the same lists are waited for.
Keeps(q, r) ==
  /\ r \in Seq(Operations) /\ Len(q) <= Len(r)
  /\ \A i \in 1 .. Len(q) : r[i].kind = q[i].kind /\ r[i].days = q[i].days /\ (Asked(r[i]) <=> Asked(q[i]))
  /\ \A i \in 1 .. Len(r) : i > Len(q) => ~Asked(r[i])

\* ... and none of them is waited for any more.
Drops(q, r) ==
  /\ r \in Seq(Operations) /\ Len(q) <= Len(r)
  /\ \A i \in 1 .. Len(q) : r[i].kind = q[i].kind /\ r[i].days = q[i].days
  /\ \A i \in 1 .. Len(r) : ~Asked(r[i])

\* ... and after them one other is asked for.
AsksFor(q, r, days) ==
  /\ r \in Seq(Operations) /\ Len(q) < Len(r)
  /\ \A i \in 1 .. Len(q) : r[i].kind = q[i].kind /\ r[i].days = q[i].days /\ ~Asked(r[i])
  /\ OneList(r, days)

\* What is waited for in q is waited for in r.
LEMMA KeepsLists ==
  ASSUME NEW q \in Seq(Operations), NEW r, Keeps(q, r)
  PROVE  /\ NoList(q) => NoList(r)
         /\ \A days : OneList(q, days) => OneList(r, days)
BY DEF Keeps, NoList, OneList

\* Keeping composes,
LEMMA KeepsKeeps ==
  ASSUME NEW q \in Seq(Operations), NEW r, Keeps(q, r), NEW s, Keeps(r, s)
  PROVE  Keeps(q, s)
<1>1. Len(q) \in Nat /\ Len(r) \in Nat /\ Len(s) \in Nat
  BY DEF Keeps
<1> QED
  BY <1>1 DEF Keeps

\* and so does keeping before dropping.
LEMMA KeepsDrops ==
  ASSUME NEW q \in Seq(Operations), NEW r, Keeps(q, r), NEW s, Drops(r, s)
  PROVE  Drops(q, s)
<1>1. Len(q) \in Nat /\ Len(r) \in Nat /\ Len(s) \in Nat
  BY DEF Keeps, Drops
<1> QED
  BY <1>1 DEF Keeps, Drops

\* A queue keeps itself,
LEMMA KeepsItself ==
  ASSUME NEW q \in Seq(Operations)
  PROVE  Keeps(q, q)
BY DEF Keeps

\* and still does with another operation than a list after it.
LEMMA AppendKeeps ==
  ASSUME NEW q \in Seq(Operations), NEW op \in Operations, ~Asked(op)
  PROVE  Keeps(q, Append(q, op))
BY DEF Keeps

\* The same after a list that was asked for.
LEMMA AppendKeepsAsking ==
  ASSUME NEW q \in Seq(Operations), NEW r, NEW days, AsksFor(q, r, days), NEW op \in Operations, ~Asked(op)
  PROVE  AsksFor(q, Append(r, op), days)
<1>1. r \in Seq(Operations) /\ Len(q) \in Nat /\ Len(r) \in Nat /\ Len(q) < Len(r)
  BY DEF AsksFor
<1>2. Append(r, op) \in Seq(Operations) /\ Len(Append(r, op)) = Len(r) + 1
      /\ \A i \in 1 .. Len(r) : Append(r, op)[i] = r[i]
      /\ Append(r, op)[Len(r) + 1] = op
  BY <1>1
<1>3. OneList(Append(r, op), days)
  BY <1>1, AppendKeeps, KeepsLists DEF AsksFor
<1> QED
  BY <1>1, <1>2, <1>3 DEF AsksFor

\* Asking for a list when none is waited for.
LEMMA AppendAsks ==
  ASSUME NEW q \in Seq(Operations), NEW r, Drops(q, r), NEW op \in Operations, Asked(op)
  PROVE  AsksFor(q, Append(r, op), op.days)
<1>1. r \in Seq(Operations) /\ Len(q) \in Nat /\ Len(r) \in Nat /\ Len(q) <= Len(r)
  BY DEF Drops
<1>2. Append(r, op) \in Seq(Operations) /\ Len(Append(r, op)) = Len(r) + 1
      /\ \A i \in 1 .. Len(r) : Append(r, op)[i] = r[i]
      /\ Append(r, op)[Len(r) + 1] = op
  BY <1>1
<1>3. OneList(Append(r, op), op.days)
  BY <1>1, <1>2 DEF Drops, OneList
<1> QED
  BY <1>1, <1>2, <1>3 DEF AsksFor, Drops

\* Which operations the screens queue.
LEMMA OperationsAre ==
  ASSUME NEW kind \in {"list", "get", "write"}, NEW days \in SUBSET Dated
  PROVE  /\ operation(kind, days) \in Operations
         /\ operation(kind, days).kind = kind /\ operation(kind, days).days = days /\ operation(kind, days).live
BY DEF operation, Operations

\* Operations stay operations when their fields are set.
LEMMA WithText ==
  ASSUME NEW op \in Operations, NEW text \in BOOLEAN, NEW flush \in BOOLEAN, NEW left \in BOOLEAN
  PROVE  LET w == [op EXCEPT !.text = text, !.flush = flush, !.left = left]
         IN  w \in Operations /\ w.kind = op.kind
<1> DEFINE thens == SUBSET BOOLEAN
           typed == [kind : {"list", "get", "write"}, days : SUBSET Dated, live : BOOLEAN,
                     text : BOOLEAN, flush : BOOLEAN, left : BOOLEAN, then : thens]
<1>1. op \in typed
  BY DEF Operations
<1> HIDE DEF thens
<1>2. LET w == [op EXCEPT !.text = text, !.flush = flush, !.left = left]
      IN  w \in typed /\ w.kind = op.kind
  BY <1>1
<1> QED
  BY <1>2 DEF Operations, thens

\* ... when their answer is dropped,
LEMMA WithLive ==
  ASSUME NEW op \in Operations, NEW live \in BOOLEAN
  PROVE  LET w == [op EXCEPT !.live = live]
         IN  w \in Operations /\ w.kind = op.kind /\ w.days = op.days /\ (w.live <=> live)
<1> DEFINE thens == SUBSET BOOLEAN
           typed == [kind : {"list", "get", "write"}, days : SUBSET Dated, live : BOOLEAN,
                     text : BOOLEAN, flush : BOOLEAN, left : BOOLEAN, then : thens]
<1>1. op \in typed
  BY DEF Operations
<1> HIDE DEF thens
<1>2. LET w == [op EXCEPT !.live = live]
      IN  w \in typed /\ w.kind = op.kind /\ w.days = op.days /\ w.live = live
  BY <1>1
<1> QED
  BY <1>2 DEF Operations, thens

\* ... and when their editor is left.
LEMMA WithThen ==
  ASSUME NEW op \in Operations, NEW left \in BOOLEAN, NEW then \in SUBSET BOOLEAN
  PROVE  LET w == [op EXCEPT !.left = left, !.then = then]
         IN  w \in Operations /\ w.kind = op.kind /\ w.days = op.days /\ (Asked(w) <=> Asked(op))
<1> DEFINE thens == SUBSET BOOLEAN
           typed == [kind : {"list", "get", "write"}, days : SUBSET Dated, live : BOOLEAN,
                     text : BOOLEAN, flush : BOOLEAN, left : BOOLEAN, then : thens]
<1>1. op \in typed
  BY DEF Operations
<1>2. then \in thens
  OBVIOUS
<1> HIDE DEF thens
<1>3. LET w == [op EXCEPT !.left = left, !.then = then]
      IN  w \in typed /\ w.kind = op.kind /\ w.days = op.days /\ w.live = op.live
  BY <1>1, <1>2
<1> QED
  BY <1>3 DEF Operations, thens, Asked

\* A listing is waited for, and is of dates of entries.
LEMMA ListingAsks ==
  ASSUME NEW p
  PROVE  listing(p) \in Operations /\ Asked(listing(p)) /\ listing(p).days \subseteq Entries
<1> DEFINE days == {e \in Entries : earlierOrSame(listedFrom(p), e.date) /\ earlierOrSame(e.date, listedTo(p))}
<1>1. listing(p) = operation("list", days)
  BY Zenon DEF listing
<1>2. days \subseteq Entries /\ days \in SUBSET Dated
  BY DaysAreDated
<1> HIDE DEF days
<1> QED
  BY <1>1, <1>2, OperationsAre DEF Asked

\* Reading an entry is not listing,
LEMMA GetAsksNoList ==
  ASSUME NEW t \in Dated
  PROVE  operation("get", {t}) \in Operations /\ ~Asked(operation("get", {t}))
<1>1. {t} \in SUBSET Dated
  OBVIOUS
<1> QED
  BY <1>1, OperationsAre DEF Asked

\* and neither is writing one.
LEMMA WriteAsksNoList ==
  ASSUME NEW days \in SUBSET Dated, NEW text \in BOOLEAN, NEW flush \in BOOLEAN, NEW live \in BOOLEAN
  PROVE  /\ writing(days, text, flush) \in Operations /\ ~Asked(writing(days, text, flush))
         /\ [writing(days, text, flush) EXCEPT !.live = live] \in Operations
         /\ ~Asked([writing(days, text, flush) EXCEPT !.live = live])
<1> DEFINE op == operation("write", days)
           w == writing(days, text, flush)
<1>2. op \in Operations /\ op.kind = "write"
  BY OperationsAre
<1>3. w = [op EXCEPT !.text = text, !.flush = flush, !.left = flush]
  BY Zenon DEF writing
<1> HIDE DEF op, w
<1>4. w \in Operations /\ w.kind = "write"
  BY <1>2, <1>3, WithText
<1>5. [w EXCEPT !.live = live] \in Operations /\ [w EXCEPT !.live = live].kind = "write"
  BY <1>4, WithLive
<1> QED
  BY <1>4, <1>5 DEF Asked, w

\* Dropping answers.
LEMMA Superseded ==
  ASSUME NEW q \in Seq(Operations), NEW kinds
  PROVE  /\ "list" \in kinds => Drops(q, superseded(q, kinds))
         /\ "list" \notin kinds => Keeps(q, superseded(q, kinds))
<1> DEFINE s == superseded(q, kinds)
<1>1. Len(q) \in Nat /\ DOMAIN q = 1 .. Len(q) /\ \A i \in 1 .. Len(q) : q[i] \in Operations
  OBVIOUS
<1>2. s = [i \in 1 .. Len(q) |-> IF q[i].kind \in kinds THEN [q[i] EXCEPT !.live = FALSE] ELSE q[i]]
  BY <1>1 DEF superseded
<1>3. \A op \in Operations : LET off == [op EXCEPT !.live = FALSE]
                             IN  off \in Operations /\ off.kind = op.kind /\ off.days = op.days /\ ~off.live
  BY WithLive
<1> HIDE DEF s
<1>4. \A i \in 1 .. Len(q) : s[i] \in Operations
  BY <1>1, <1>2, <1>3
<1>5. s \in Seq(Operations) /\ Len(s) = Len(q)
  BY <1>1, <1>2, <1>4
<1>6. \A i \in 1 .. Len(q) : /\ s[i].kind = q[i].kind /\ s[i].days = q[i].days
                             /\ IF q[i].kind \in kinds THEN ~s[i].live ELSE s[i] = q[i]
  BY <1>1, <1>2, <1>3
<1> QED
  BY <1>1, <1>5, <1>6 DEF Drops, Keeps, Asked, s

-----------------------------------------------------------------------------
(* The invariant. *)

Kinds == {"none", "today", "journal", "archive", "weekly"}
PageType == page \in [kind : Kinds, of : Dated, phase : {"loading", "ready", "error"}, shown : SUBSET Entries]
EditorType ==
  editor \in [phase : {"none", "loading", "open", "error"}, value : BOOLEAN, saved : BOOLEAN,
              inFlight : BOOLEAN, pending : BOOLEAN]

\* A screen was opened only on a day of use, on dates of the calendar.
Standing ==
  /\ isDay(day) /\ visits \in Nat
  /\ day.number \in Busy \/ (visits = 0 /\ rows = {})
  /\ PageType /\ EditorType /\ queue \in Seq(Operations)
  /\ page.kind = "none" => queue = <<>> /\ editor.phase = "none" /\ page.phase = "loading"
  /\ page.kind # "none" => visits > 0
  /\ Viewable(page)

\* A loading screen waits for just one list, of the dates it is about; no other does.
Waiting ==
  IF page.kind # "none" /\ page.phase = "loading" THEN OneList(queue, listing(page).days) ELSE NoList(queue)

\* What the running operation has read, and that only a write lands.
Answered ==
  /\ queue = <<>> => slot = Running
  /\ slot.state = "running" => ~slot.landed
  /\ slot.landed => queue[1].kind = "write"
  /\ queue # <<>> /\ slot.state # "running" /\ Asked(queue[1]) =>
       slot.days = IF slot.state = "ok" THEN rows \cap queue[1].days ELSE {}

\* A screen that shows its days shows the rows among them, but for those a write
\* changed that is still to be reported or was reported to no screen.
Shown ==
  page.phase = "ready" =>
    /\ page.shown \subseteq listing(page).days
    /\ \A e \in Entries : \/ e \in silent
                          \/ slot.landed /\ e \in queue[1].days
                          \/ e \in page.shown <=> e \in rows /\ e \in listing(page).days

PagesInv == Standing /\ Waiting /\ Answered /\ Shown

\* The editor of a screen that goes leaves writes behind, and no list.
LEMMA FlushKeeps ==
  ASSUME PageType, EditorType, queue \in Seq(Operations)
  PROVE  Keeps(queue, flushed(queue))
<1> DEFINE dirty == editor.value # editor.saved
           then == IF dirty THEN {editor.value} ELSE {}
           after(op) == [op EXCEPT !.left = TRUE, !.then = then]
           s == [i \in DOMAIN queue |->
                   IF queue[i].kind = "write" /\ ~queue[i].left THEN after(queue[i]) ELSE queue[i]]
           w == writing({page.of}, editor.value, TRUE)
<1>1. flushed(queue) = IF editor.phase # "open" THEN queue
                       ELSE IF editor.inFlight THEN s ELSE IF dirty THEN Append(queue, w) ELSE queue
  BY Zenon DEF flushed
<1>2. editor.value \in BOOLEAN /\ {page.of} \in SUBSET Dated
  BY DEF PageType, EditorType
<1>3. w \in Operations /\ ~Asked(w)
  BY <1>2, WriteAsksNoList
<1>4. then \in SUBSET BOOLEAN
  BY <1>2
<1> HIDE DEF then, dirty, w
<1>5. \A op \in Operations :
        after(op) \in Operations /\ after(op).kind = op.kind /\ after(op).days = op.days /\ (Asked(after(op)) <=> Asked(op))
  BY <1>4, WithThen
<1> HIDE DEF after
<1>6. Keeps(queue, s)
  <2>1. Len(queue) \in Nat /\ DOMAIN queue = 1 .. Len(queue) /\ \A i \in 1 .. Len(queue) : queue[i] \in Operations
    OBVIOUS
  <2>2. s = [i \in 1 .. Len(queue) |->
               IF queue[i].kind = "write" /\ ~queue[i].left THEN after(queue[i]) ELSE queue[i]]
    BY <2>1
  <2> HIDE DEF s
  <2>3. \A i \in 1 .. Len(queue) : s[i] \in Operations
    BY <1>5, <2>1, <2>2
  <2>4. s \in Seq(Operations) /\ Len(s) = Len(queue)
    BY <2>1, <2>2, <2>3
  <2>5. \A i \in 1 .. Len(queue) :
          s[i].kind = queue[i].kind /\ s[i].days = queue[i].days /\ (Asked(s[i]) <=> Asked(queue[i]))
    BY <1>5, <2>1, <2>2
  <2> QED
    BY <2>1, <2>4, <2>5 DEF Keeps
<1> QED
  BY <1>1, <1>3, <1>6, KeepsItself, AppendKeeps

\* Taking the first operation off the queue.
LEMMA FirstAndRest ==
  ASSUME NEW q \in Seq(Operations), q # <<>>
  PROVE  /\ Head(q) = q[1] /\ q[1] \in Operations /\ Tail(q) \in Seq(Operations)
         /\ ~Asked(q[1]) => /\ NoList(q) => NoList(Tail(q))
                            /\ \A days : OneList(q, days) => OneList(Tail(q), days)
         /\ Asked(q[1]) => \A days : OneList(q, days) => q[1].days = days /\ NoList(Tail(q))
         /\ NoList(q) => ~Asked(q[1])
<1>1. /\ Len(q) \in Nat /\ Len(q) > 0 /\ Tail(q) \in Seq(Operations) /\ Len(Tail(q)) = Len(q) - 1
      /\ \A i \in 1 .. Len(q) - 1 : Tail(q)[i] = q[i + 1]
      /\ DOMAIN q = 1 .. Len(q) /\ DOMAIN Tail(q) = 1 .. Len(q) - 1
  OBVIOUS
<1>2. ASSUME ~Asked(q[1]), NEW days, OneList(q, days)
      PROVE  OneList(Tail(q), days)
  <2>1. PICK i \in 1 .. Len(q) : Asked(q[i]) /\ q[i].days = days /\ \A j \in 1 .. Len(q) : Asked(q[j]) => i = j
    BY <1>1, <1>2 DEF OneList
  <2>2. i - 1 \in 1 .. Len(q) - 1 /\ Tail(q)[i - 1] = q[i]
    BY <1>1, <1>2, <2>1
  <2>3. \A j \in 1 .. Len(q) - 1 : Asked(Tail(q)[j]) => i - 1 = j
    BY <1>1, <2>1
  <2> QED
    BY <1>1, <2>1, <2>2, <2>3 DEF OneList
<1>3. NoList(q) => NoList(Tail(q))
  BY <1>1 DEF NoList
<1>4. ASSUME Asked(q[1]), NEW days, OneList(q, days)
      PROVE  q[1].days = days /\ NoList(Tail(q))
  BY <1>1, <1>4 DEF OneList, NoList
<1> QED
  BY <1>1, <1>2, <1>3, <1>4 DEF NoList

-----------------------------------------------------------------------------
(* Its steps. *)

\* Another screen, or the same one with other dates, asks anew.
LEMMA AsksAnew ==
  ASSUME PagesInv, page' \in [kind : Kinds, of : Dated, phase : {"loading", "ready", "error"}, shown : SUBSET Entries],
         page'.kind # "none", page'.phase = "loading", Viewable(page'),
         AsksFor(queue, queue', listing(page').days), EditorType',
         visits' \in Nat, visits' > 0, day.number \in Busy, UNCHANGED <<day, rows, slot, silent>>
  PROVE  PagesInv'
<1> DEFINE asked == listing(page').days
<1>1. queue \in Seq(Operations) /\ isDay(day) /\ day' = day /\ slot' = slot /\ rows' = rows
  BY DEF PagesInv, Standing
<1>2. /\ queue' \in Seq(Operations) /\ OneList(queue', asked) /\ Len(queue') \in Nat /\ Len(queue') > Len(queue)
      /\ Len(queue) \in Nat
      /\ \A i \in 1 .. Len(queue) : queue'[i].kind = queue[i].kind /\ ~Asked(queue'[i])
  BY <1>1 DEF AsksFor
<1>3. Standing'
  BY <1>1, <1>2 DEF PageType, Standing
<1>4. Waiting'
  BY <1>2 DEF Waiting
<1>5. Answered'
  <2>1. CASE queue = <<>>
    <3>1. slot = [state |-> "running", days |-> {}, landed |-> FALSE]
      BY <2>1 DEF PagesInv, Answered, Running
    <3>2. queue' # <<>>
      BY <1>2
    <3> QED
      BY <1>1, <3>1, <3>2 DEF Answered
  <2>2. CASE queue # <<>>
    <3>1. 1 \in 1 .. Len(queue)
      BY <1>1, <1>2, <2>2
    <3>2. queue'[1].kind = queue[1].kind /\ ~Asked(queue'[1])
      BY <1>2, <3>1
    <3>3. queue' # <<>>
      BY <1>2
    <3> QED
      BY <1>1, <3>2, <3>3 DEF PagesInv, Answered
  <2> QED
    BY <2>1, <2>2
<1>6. Shown'
  BY DEF Shown
<1> QED
  BY <1>3, <1>4, <1>5, <1>6 DEF PagesInv

\* The screen keeps its dates, and waits for what it waited for.
LEMMA KeepsWaiting ==
  ASSUME PagesInv,
         page' \in [kind : Kinds, of : Dated, phase : {"loading", "ready", "error"}, shown : SUBSET Entries],
         page'.kind = page.kind, page'.phase = page.phase, page'.shown = page.shown,
         listing(page').days = listing(page).days, Viewable(page'),
         Keeps(queue, queue'), EditorType',
         page.kind = "none" => UNCHANGED <<queue, editor>>,
         isDay(day'), visits' \in Nat, visits' >= visits,
         day'.number \in Busy \/ (visits' = 0 /\ rows = {}),
         UNCHANGED <<rows, slot, silent>>
  PROVE  PagesInv'
<1>1. /\ queue \in Seq(Operations) /\ slot' = slot /\ rows' = rows /\ silent' = silent
      /\ visits \in Nat
  BY DEF PagesInv, Standing
<1>2. /\ queue' \in Seq(Operations) /\ Len(queue') \in Nat /\ Len(queue) \in Nat /\ Len(queue) <= Len(queue')
      /\ \A i \in 1 .. Len(queue) : /\ queue'[i].kind = queue[i].kind /\ queue'[i].days = queue[i].days
                                    /\ Asked(queue'[i]) <=> Asked(queue[i])
  BY <1>1 DEF Keeps
<1>3. Standing'
  BY <1>1, <1>2 DEF PagesInv, PageType, Standing
<1>4. Waiting'
  BY <1>1, KeepsLists DEF PagesInv, Waiting
<1>5. CASE queue = <<>>
  <2>1. slot = [state |-> "running", days |-> {}, landed |-> FALSE]
    BY <1>5 DEF PagesInv, Answered, Running
  <2>2. Answered'
    BY <1>1, <2>1 DEF Answered, Running
  <2>3. Shown'
    BY <1>1, <2>1 DEF PagesInv, Shown
  <2> QED
    BY <1>3, <1>4, <2>2, <2>3 DEF PagesInv
<1>6. CASE queue # <<>>
  <2>1. 1 \in 1 .. Len(queue)
    BY <1>1, <1>2, <1>6
  <2>2. /\ queue'[1].kind = queue[1].kind /\ queue'[1].days = queue[1].days
        /\ Asked(queue'[1]) <=> Asked(queue[1])
    BY <1>2, <2>1
  <2>3. queue' # <<>>
    BY <1>2, <2>1
  <2>4. Answered'
    BY <1>1, <1>6, <2>2, <2>3 DEF PagesInv, Answered
  <2>5. Shown'
    BY <1>1, <2>2 DEF PagesInv, Shown
  <2> QED
    BY <1>3, <1>4, <2>4, <2>5 DEF PagesInv
<1> QED
  BY <1>5, <1>6

\* The screens of a day of use.
LEMMA BusyIsViewable ==
  ASSUME NEW t, isDay(t), t.number \in Busy
  PROVE  \A kind \in {"today", "archive", "weekly"} : Viewable(open(kind, t))
<1> DEFINE n == t.number
           w == t.weekday
<1>1. inRange(n - 12) /\ inRange(n + 6)
  BY BusyAssumption
<1>2. validDate(t.date) /\ n \in Int /\ w \in 1 .. 7
  BY Counted, DayFacts, Weekday DEF validDate
<1> HIDE DEF n, w
<1>3. w % 7 \in 0 .. 6
  BY <1>2
<1>4. inRange(n - (w - 1)) /\ inRange(n - (w - 1) + 6) /\ inRange(n - (w % 7) - 6)
  BY <1>1, <1>2, <1>3, Bounds
<1>5. \A kind : open(kind, t).of = t /\ open(kind, t).kind = kind
  BY DEF open
<1> QED
  BY <1>2, <1>4, <1>5 DEF Viewable, n, w

\* A date that is rendered has its week in the calendar.
LEMMA RenderableIsViewable ==
  ASSUME NEW t, isDay(t), renderable(t.date)
  PROVE  \A p : p.kind \in {"today", "journal"} /\ p.of = t => Viewable(p)
<1> DEFINE monday == t.number - (t.weekday - 1)
<1>1. validDate(t.date) /\ civilToDays(t.date) = t.number /\ weekdayNumber(t.date) = t.weekday
  BY Counted
<1>2. inRange(monday) /\ inRange(monday + 6)
  BY <1>1, Renderable DEF validDate
<1> QED
  BY <1>2 DEF Viewable

\* What a screen is like when it opens.
LEMMA Opens ==
  ASSUME NEW kind \in Kinds, NEW t, isDay(t), NEW p, p = open(kind, t)
  PROVE  /\ p \in [kind : Kinds, of : Dated, phase : {"loading", "ready", "error"}, shown : SUBSET Entries]
         /\ p.kind = kind /\ p.of = t /\ p.phase = "loading"
<1>1. t \in Dated
  BY DaysAreDated
<1> QED
  BY <1>1 DEF open

\* Leaving a screen drops what it asked for.
LEMMA Leaves ==
  ASSUME PagesInv, NEW kinds, "list" \in kinds
  PROVE  Drops(queue, superseded(flushed(queue), kinds))
<1>1. queue \in Seq(Operations) /\ Keeps(queue, flushed(queue))
  BY FlushKeeps DEF PagesInv, Standing
<1>2. flushed(queue) \in Seq(Operations)
  BY <1>1 DEF Keeps
<1> QED
  BY <1>1, <1>2, Superseded, KeepsDrops

\* The forms in which operations are put after a queue.
LEMMA Concatenations ==
  ASSUME NEW q \in Seq(Operations), NEW a \in Operations, NEW b \in Operations
  PROVE  /\ q \o <<a>> = Append(q, a)
         /\ q \o <<a, b>> = Append(Append(q, a), b)
         /\ (q \o <<a>>) \o <<b>> = Append(Append(q, a), b)
         /\ (q \o <<>>) \o <<b>> = Append(q, b)
OBVIOUS

\* No editor, and one that loads.
LEMMA Editors ==
  /\ NoEditor \in [phase : {"none", "loading", "open", "error"}, value : BOOLEAN, saved : BOOLEAN,
                   inFlight : BOOLEAN, pending : BOOLEAN]
  /\ [NoEditor EXCEPT !.phase = "loading"]
       \in [phase : {"none", "loading", "open", "error"}, value : BOOLEAN, saved : BOOLEAN,
            inFlight : BOOLEAN, pending : BOOLEAN]
  /\ NoEditor.phase = "none"
BY DEF NoEditor

\* Opening another screen: what it asks for comes after what is dropped.
LEMMA ArrivalsAsk ==
  ASSUME PagesInv, NEW p, NEW t \in Dated, NEW r,
         \/ r = superseded(flushed(queue), {"list", "get", "write"}) \o <<listing(p)>>
         \/ r = superseded(flushed(queue), {"list", "get", "write"}) \o <<listing(p), operation("get", {t})>>
         \/ r = (superseded(flushed(queue), {"get", "list"}) \o <<listing(p)>>) \o <<operation("get", {t})>>
  PROVE  AsksFor(queue, r, listing(p).days)
<1> DEFINE a == superseded(flushed(queue), {"list", "get", "write"})
           b == superseded(flushed(queue), {"get", "list"})
           list == listing(p)
           get == operation("get", {t})
<1>1. queue \in Seq(Operations)
  BY DEF PagesInv, Standing
<1>2. Drops(queue, a) /\ Drops(queue, b)
  BY Leaves
<1>3. list \in Operations /\ Asked(list) /\ get \in Operations /\ ~Asked(get)
  BY ListingAsks, GetAsksNoList
<1> HIDE DEF a, b, list, get
<1>4. a \in Seq(Operations) /\ b \in Seq(Operations)
  BY <1>2 DEF Drops
<1>5. AsksFor(queue, Append(a, list), list.days) /\ AsksFor(queue, Append(b, list), list.days)
  BY <1>1, <1>2, <1>3, AppendAsks
<1>6. AsksFor(queue, Append(Append(a, list), get), list.days) /\ AsksFor(queue, Append(Append(b, list), get), list.days)
  BY <1>1, <1>3, <1>5, AppendKeepsAsking
<1>7. r = Append(a, list) \/ r = Append(Append(a, list), get) \/ r = Append(Append(b, list), get)
  <2>1. r = a \o <<list>> \/ r = a \o <<list, get>> \/ r = (b \o <<list>>) \o <<get>>
    BY DEF a, b, list, get
  <2> QED
    BY <1>3, <1>4, <2>1, Concatenations
<1> QED
  BY <1>5, <1>6, <1>7 DEF list

\* Today, Archive and Weekly Review are opened on a day of use.
LEMMA OpenStep ==
  ASSUME PagesInv, mountToday \/ OpenArchive \/ OpenWeekly
  PROVE  PagesInv'
<1>1. /\ isDay(day) /\ day \in Dated /\ day.number \in Busy /\ visits \in Nat /\ visits' = visits + 1
      /\ UNCHANGED <<day, rows, slot, silent>>
  BY DaysAreDated DEF PagesInv, Standing, mountToday, OpenArchive, OpenWeekly, arrive
<1>2. EditorType'
  BY Editors DEF EditorType, mountToday, OpenArchive, OpenWeekly
<1>3. PICK kind \in {"today", "archive", "weekly"} : page' = open(kind, day) /\ AsksFor(queue, queue', listing(open(kind, day)).days)
  <2>1. CASE mountToday
    <3> DEFINE p == open("today", day)
    <3>1. page' = p /\ queue' = superseded(flushed(queue), {"list", "get", "write"}) \o <<listing(p), operation("get", {day})>>
      BY <2>1 DEF mountToday, arrive
    <3> QED
      BY <1>1, <3>1, ArrivalsAsk
  <2>2. CASE OpenArchive
    <3> DEFINE p == open("archive", day)
    <3>1. page' = p /\ queue' = superseded(flushed(queue), {"list", "get", "write"}) \o <<listing(p)>>
      BY <2>2 DEF OpenArchive, arrive
    <3> QED
      BY <1>1, <3>1, ArrivalsAsk
  <2>3. CASE OpenWeekly
    <3> DEFINE p == open("weekly", day)
    <3>1. page' = p /\ queue' = superseded(flushed(queue), {"list", "get", "write"}) \o <<listing(p)>>
      BY <2>3 DEF OpenWeekly, arrive
    <3> QED
      BY <1>1, <3>1, ArrivalsAsk
  <2> QED
    BY <2>1, <2>2, <2>3
<1>4. Viewable(page')
  BY <1>1, <1>3, BusyIsViewable
<1>5. /\ page' \in [kind : Kinds, of : Dated, phase : {"loading", "ready", "error"}, shown : SUBSET Entries]
      /\ page'.kind # "none" /\ page'.phase = "loading"
  <2>1. kind \in Kinds
    BY DEF Kinds
  <2> QED
    BY <1>1, <1>3, <2>1, Opens
<1>6. visits' \in Nat /\ visits' > 0
  BY <1>1
<1> QED
  BY <1>1, <1>2, <1>3, <1>4, <1>5, <1>6, AsksAnew

\* JournalView turns to another date: in the same week its list stays current.
LEMMA TurnStep ==
  ASSUME PagesInv, NEW t, isDay(t), turnTo(t), page.kind \in {"today", "journal"},
         \A p : p.kind = page.kind /\ p.of = t => Viewable(p),
         visits' \in Nat, visits' >= visits, day.number \in Busy
  PROVE  PagesInv'
<1> DEFINE sameWeek == weekStart(t) = weekStart(page.of)
           kinds == IF sameWeek THEN {"get"} ELSE {"get", "list"}
           left == superseded(flushed(queue), kinds)
           next == IF sameWeek THEN [page EXCEPT !.of = t] ELSE open(page.kind, t)
           get == operation("get", {t})
<1>1. /\ page' = next
      /\ queue' = left \o (IF sameWeek THEN <<>> ELSE <<listing(next)>>) \o <<get>>
      /\ editor' = [NoEditor EXCEPT !.phase = "loading"]
      /\ UNCHANGED <<day, rows, slot, silent>>
  BY DEF turnTo
<1>2. /\ isDay(day) /\ t \in Dated /\ visits \in Nat /\ visits > 0 /\ queue \in Seq(Operations)
      /\ page \in [kind : Kinds, of : Dated, phase : {"loading", "ready", "error"}, shown : SUBSET Entries]
  BY DaysAreDated DEF PagesInv, Standing, PageType
<1>3. EditorType'
  BY <1>1, Editors DEF EditorType
<1>4. visits' > 0
  BY <1>2
<1>5. CASE sameWeek
  <2> DEFINE p == [page EXCEPT !.of = t]
  <2>1. /\ p \in [kind : Kinds, of : Dated, phase : {"loading", "ready", "error"}, shown : SUBSET Entries]
        /\ p.kind = page.kind /\ p.phase = page.phase /\ p.shown = page.shown /\ p.of = t
    BY <1>2
  <2>2. page' = p /\ queue' = (superseded(flushed(queue), {"get"}) \o <<>>) \o <<get>>
    BY <1>1, <1>5
  <2> HIDE DEF p
  <2>3. listedFrom(p) = listedFrom(page) /\ listedTo(p) = listedTo(page)
    BY <1>5, <2>1 DEF listedFrom, listedTo
  <2>4. listing(p).days = listing(page).days
    BY <2>3 DEF listing
  <2> DEFINE s == superseded(flushed(queue), {"get"})
  <2>5. Keeps(queue, s)
    <3>1. Keeps(queue, flushed(queue)) /\ flushed(queue) \in Seq(Operations)
      BY FlushKeeps DEF PagesInv, Standing, Keeps
    <3> QED
      BY <1>2, <3>1, Superseded, KeepsKeeps
  <2> HIDE DEF s
  <2>6. s \in Seq(Operations) /\ get \in Operations /\ ~Asked(get)
    BY <1>2, <2>5, GetAsksNoList DEF Keeps
  <2> HIDE DEF get
  <2>7. queue' = Append(s, get)
    BY <2>2, <2>6, Concatenations DEF s
  <2>8. Keeps(queue, queue')
    BY <1>2, <2>5, <2>6, <2>7, AppendKeeps, KeepsKeeps
  <2>9. Viewable(p)
    BY <2>1
  <2> QED
    BY <1>1, <1>2, <1>3, <2>1, <2>2, <2>4, <2>8, <2>9, KeepsWaiting
<1>6. CASE ~sameWeek
  <2> DEFINE p == open(page.kind, t)
  <2>1. page' = p /\ queue' = (superseded(flushed(queue), {"get", "list"}) \o <<listing(p)>>) \o <<get>>
    BY <1>1, <1>6
  <2>2. AsksFor(queue, queue', listing(p).days)
    BY <1>2, <2>1, ArrivalsAsk
  <2>3. /\ p \in [kind : Kinds, of : Dated, phase : {"loading", "ready", "error"}, shown : SUBSET Entries]
        /\ p.kind = page.kind /\ p.of = t /\ p.phase = "loading"
    BY <1>2, Opens
  <2> HIDE DEF p
  <2>4. Viewable(p)
    BY <2>3
  <2> QED
    BY <1>1, <1>2, <1>3, <1>4, <2>1, <2>2, <2>3, <2>4, AsksAnew
<1> QED
  BY <1>5, <1>6

\* A link to a day.
LEMMA OpenJournalStep ==
  ASSUME PagesInv, NEW t \in Targets, OpenJournal(t)
  PROVE  PagesInv'
<1>1. /\ day.number \in Busy /\ page.kind \in {"today", "journal", "archive"} /\ renderable(t.date)
      /\ visits' = visits + 1 /\ isDay(day) /\ visits \in Nat /\ isDay(t) /\ t \in Dated
  BY DatesAssumption, DaysAreDated DEF OpenJournal, PagesInv, Standing
<1>2. \A p : p.kind \in {"today", "journal"} /\ p.of = t => Viewable(p)
  BY <1>1, RenderableIsViewable
<1>3. CASE page.kind = "journal"
  <2>1. turnTo(t)
    BY <1>3 DEF OpenJournal
  <2>2. \A p : p.kind = page.kind /\ p.of = t => Viewable(p)
    BY <1>2, <1>3
  <2>3. visits' \in Nat /\ visits' >= visits
    BY <1>1
  <2> QED
    BY <1>1, <1>3, <2>1, <2>2, <2>3, TurnStep
<1>4. CASE page.kind # "journal"
  <2> DEFINE p == open("journal", t)
  <2>1. /\ page' = p /\ editor' = [NoEditor EXCEPT !.phase = "loading"]
        /\ queue' = superseded(flushed(queue), {"list", "get", "write"}) \o <<listing(p), operation("get", {t})>>
        /\ UNCHANGED <<day, rows, slot, silent>>
    BY <1>4 DEF OpenJournal, arrive
  <2>2. AsksFor(queue, queue', listing(p).days)
    BY <1>1, <2>1, ArrivalsAsk
  <2>3. /\ p \in [kind : Kinds, of : Dated, phase : {"loading", "ready", "error"}, shown : SUBSET Entries]
        /\ p.kind = "journal" /\ p.of = t /\ p.phase = "loading"
    BY <1>1, Opens DEF Kinds
  <2> HIDE DEF p
  <2>4. Viewable(p) /\ EditorType' /\ visits' \in Nat /\ visits' > 0
    BY <1>1, <1>2, <2>1, <2>3, Editors DEF EditorType
  <2> QED
    BY <1>1, <2>1, <2>2, <2>3, <2>4, AsksAnew
<1> QED
  BY <1>3, <1>4

\* Today renders after midnight.
LEMMA TodayRendersStep ==
  ASSUME PagesInv, TodayRenders
  PROVE  PagesInv'
<1>1. /\ page.kind = "today" /\ turnTo(day) /\ visits' = visits /\ isDay(day) /\ visits \in Nat /\ visits > 0
      /\ day.number \in Busy
  BY DEF TodayRenders, PagesInv, Standing
<1>2. ASSUME NEW p, p.kind = page.kind, p.of = day
      PROVE  Viewable(p)
  <2>1. Viewable(open("today", day)) /\ open("today", day).kind = "today" /\ open("today", day).of = day
    BY <1>1, BusyIsViewable DEF open
  <2> QED
    BY <1>1, <1>2, <2>1 DEF Viewable
<1> QED
  BY <1>1, <1>2, TurnStep

\* The months beside a month of the calendar.
LEMMA ShiftedMonth ==
  ASSUME NEW c, validDate(c), NEW delta \in {-1, 1}, shiftMonth(c, delta) # OutOfRange
  PROVE  validDate(shiftMonth(c, delta))
<1> DEFINE y == c.year
           k == c.month
<1>1. y \in Int /\ 0 <= y /\ y <= 9999 /\ k \in 1 .. 12
  BY Years DEF validDate, proper, isCalendarDate
<1>2. shiftMonth(c, delta)
        = CASE k + delta = 0  -> IF y = 0 THEN OutOfRange ELSE civil(y - 1, 12, 1)
            [] k + delta = 13 -> IF y = 9999 THEN OutOfRange ELSE civil(y + 1, 1, 1)
            [] OTHER -> civil(y, k + delta, 1)
  BY DEF shiftMonth
<1> HIDE DEF y, k
<1>3. \A x \in Int, m \in 1 .. 12 : 0 <= x /\ x <= 9999 => validDate(civil(x, m, 1))
  BY NextMonth
<1>4. CASE k + delta = 0
  BY <1>1, <1>2, <1>3, <1>4
<1>5. CASE k + delta = 13
  BY <1>1, <1>2, <1>3, <1>5
<1>6. CASE k + delta # 0 /\ k + delta # 13
  <2>1. k + delta \in 1 .. 12
    BY <1>1, <1>6
  <2> QED
    BY <1>1, <1>2, <1>3, <1>6, <2>1
<1> QED
  BY <1>4, <1>5, <1>6

\* A list is asked for instead of the one that was.
LEMMA ReplacedAsks ==
  ASSUME NEW q \in Seq(Operations), NEW p
  PROVE  AsksFor(q, Append(superseded(q, {"list"}), listing(p)), listing(p).days)
<1>1. Drops(q, superseded(q, {"list"}))
  BY Superseded
<1> QED
  BY <1>1, ListingAsks, AppendAsks

\* Archive turns to a month beside, in the calendar.
LEMMA TurnMonthStep ==
  ASSUME PagesInv, NEW delta \in {-1, 1}, TurnMonth(delta)
  PROVE  PagesInv'
<1> DEFINE month == shiftMonth(page.of.date, delta)
           t == [page.of EXCEPT !.date = month]
           next == open("archive", t)
<1>1. /\ page.kind = "archive" /\ month # OutOfRange /\ page' = next /\ visits' = visits + 1
      /\ queue' = Append(superseded(queue, {"list"}), listing(next))
      /\ UNCHANGED <<day, rows, slot, editor, silent>>
  BY DEF TurnMonth
<1>2. /\ queue \in Seq(Operations) /\ page.of \in Dated /\ EditorType /\ Viewable(page)
      /\ visits \in Nat /\ visits > 0 /\ day.number \in Busy
  BY <1>1 DEF PagesInv, Standing, PageType
<1>3. validDate(page.of.date)
  BY <1>1, <1>2 DEF Viewable
<1>4. validDate(month)
  BY <1>1, <1>3, ShiftedMonth
<1> HIDE DEF month
<1>5. t \in Dated /\ t.date = month
  BY <1>2, <1>4, DaysAreDated
<1> HIDE DEF t
<1>6. /\ next \in [kind : Kinds, of : Dated, phase : {"loading", "ready", "error"}, shown : SUBSET Entries]
      /\ next.kind = "archive" /\ next.of = t /\ next.phase = "loading"
  BY <1>5 DEF open, Kinds
<1> HIDE DEF next
<1>7. Viewable(next)
  BY <1>4, <1>5, <1>6 DEF Viewable
<1>8. AsksFor(queue, queue', listing(next).days)
  BY <1>1, <1>2, ReplacedAsks
<1>9. EditorType' /\ visits' \in Nat /\ visits' > 0
  BY <1>1, <1>2 DEF EditorType
<1> QED
  BY <1>1, <1>2, <1>6, <1>7, <1>8, <1>9, AsksAnew

\* Weekly Review notices that the day has changed.
LEMMA WeeklyNoticesStep ==
  ASSUME PagesInv, WeeklyNotices
  PROVE  PagesInv'
<1> DEFINE next == open("weekly", day)
<1>1. /\ page.kind = "weekly" /\ page' = next
      /\ queue' = Append(superseded(queue, {"list"}), listing(next))
      /\ UNCHANGED <<day, rows, slot, editor, visits, silent>>
  BY DEF WeeklyNotices
<1>2. /\ queue \in Seq(Operations) /\ isDay(day) /\ EditorType
      /\ visits \in Nat /\ visits > 0 /\ day.number \in Busy
  BY <1>1 DEF PagesInv, Standing
<1>3. /\ next \in [kind : Kinds, of : Dated, phase : {"loading", "ready", "error"}, shown : SUBSET Entries]
      /\ next.kind = "weekly" /\ next.of = day /\ next.phase = "loading" /\ Viewable(next)
  BY <1>2, Opens, BusyIsViewable DEF Kinds
<1> HIDE DEF next
<1>4. AsksFor(queue, queue', listing(next).days)
  BY <1>1, <1>2, ReplacedAsks
<1>5. EditorType' /\ visits' \in Nat /\ visits' > 0
  BY <1>1, <1>2 DEF EditorType
<1> QED
  BY <1>1, <1>2, <1>3, <1>4, <1>5, AsksAnew

\* What changes neither the screen nor the queue.
LEMMA QuietStep ==
  ASSUME PagesInv, Midnight \/ Type \/ UNCHANGED vars
  PROVE  PagesInv'
<1>1. /\ queue \in Seq(Operations) /\ isDay(day) /\ EditorType /\ Viewable(page) /\ visits \in Nat /\ PageType
      /\ page.kind = "none" => editor.phase = "none"
      /\ day.number \in Busy \/ (visits = 0 /\ rows = {})
  BY DEF PagesInv, Standing
<1>2. UNCHANGED <<page, queue, rows, slot, silent, visits>>
  BY DEF Midnight, Type, vars
<1>3. isDay(day') /\ (day'.number \in Busy \/ (visits' = 0 /\ rows = {}))
  <2>1. CASE Midnight
    <3>1. day.number # LastNumber
      BY <2>1, DatesAssumption DEF Midnight
    <3>2. isDay(nextDay(day)) /\ nextDay(day).number = day.number + 1
      BY <1>1, <3>1, NextDay DEF nextDay
    <3> QED
      BY <1>2, <2>1, <3>2 DEF Midnight
  <2>2. CASE Type \/ UNCHANGED vars
    BY <1>1, <2>2 DEF Type, vars
  <2> QED
    BY <2>1, <2>2
<1>4. EditorType' /\ (page.kind = "none" => UNCHANGED <<queue, editor>>)
  <2>1. CASE Type
    <3>1. editor.phase = "open" /\ editor' = [editor EXCEPT !.value = ~@]
      BY <2>1 DEF Type
    <3>2. EditorType'
      BY <1>1, <3>1 DEF EditorType
    <3> QED
      BY <1>1, <1>2, <3>1, <3>2
  <2>2. CASE Midnight \/ UNCHANGED vars
    BY <1>1, <2>2 DEF Midnight, vars, EditorType
  <2> QED
    BY <2>1, <2>2
<1>5. /\ page' \in [kind : Kinds, of : Dated, phase : {"loading", "ready", "error"}, shown : SUBSET Entries]
      /\ Keeps(queue, queue') /\ page' = page
  BY <1>1, <1>2, KeepsItself DEF PageType
<1> QED
  BY <1>1, <1>2, <1>3, <1>4, <1>5, KeepsWaiting

\* The editor writes.
LEMMA SaveStep ==
  ASSUME PagesInv, Save
  PROVE  PagesInv'
<1>1. /\ queue \in Seq(Operations) /\ isDay(day) /\ EditorType /\ Viewable(page) /\ visits \in Nat
      /\ page \in [kind : Kinds, of : Dated, phase : {"loading", "ready", "error"}, shown : SUBSET Entries]
      /\ page.kind # "none" /\ (day.number \in Busy \/ (visits = 0 /\ rows = {}))
      /\ UNCHANGED <<day, rows, slot, page, visits, silent>>
  BY DEF PagesInv, Standing, PageType, Save
<1>2. EditorType'
  BY <1>1 DEF EditorType, Save
<1>3. Keeps(queue, queue')
  <2> DEFINE w == writing({page.of}, editor.value, FALSE)
  <2>1. editor.value \in BOOLEAN /\ {page.of} \in SUBSET Dated
    BY <1>1 DEF EditorType
  <2>2. w \in Operations /\ ~Asked(w)
    BY <2>1, WriteAsksNoList
  <2>3. queue' = queue \/ queue' = Append(queue, w)
    BY DEF Save
  <2> HIDE DEF w
  <2> QED
    BY <1>1, <2>2, <2>3, KeepsItself, AppendKeeps
<1>4. /\ isDay(day') /\ visits' \in Nat /\ visits' >= visits /\ (day'.number \in Busy \/ (visits' = 0 /\ rows = {}))
      /\ page' = page
  BY <1>1
<1> QED
  BY <1>1, <1>2, <1>3, <1>4, KeepsWaiting

\* The database answers: what a list reads is what a screen waits for.
LEMMA ExecuteStep ==
  ASSUME PagesInv, Execute
  PROVE  PagesInv'
<1> DEFINE op == Head(queue)
<1>1. /\ queue \in Seq(Operations) /\ queue # <<>> /\ slot.state = "running" /\ ~slot.landed
      /\ UNCHANGED <<day, queue, page, editor, visits>>
  BY DEF PagesInv, Standing, Answered, Execute
<1>2. op = queue[1]
  BY <1>1, FirstAndRest
<1>3. page.kind # "none"
  BY <1>1 DEF PagesInv, Standing
<1>4. \/ /\ op.kind # "write" /\ rows' = rows /\ ~slot'.landed
         /\ \/ slot'.state = "ok" /\ slot'.days = rows \cap op.days
            \/ slot'.state = "failed" /\ slot'.days = {} 
         /\ silent' = IF Asked(op) /\ slot'.state = "ok" THEN {} ELSE silent
      \/ /\ op.kind = "write" /\ slot'.landed /\ slot'.state # "running" /\ silent' = silent
         /\ rows' = IF op.text THEN rows \cup op.days ELSE rows \ op.days
      \/ op.kind = "write" /\ ~slot'.landed /\ slot'.state # "running" /\ rows' = rows /\ silent' = silent
  BY DEF Execute, Asked
<1> HIDE DEF op
<1>5. Standing'
  <2>1. day.number \in Busy
    BY <1>3 DEF PagesInv, Standing
  <2> QED
    BY <1>1, <1>3, <2>1 DEF PagesInv, Standing, PageType, EditorType
<1>6. Waiting'
  BY <1>1 DEF PagesInv, Waiting
<1>7. Answered'
  <2>1. slot'.state # "running"
    BY <1>4
  <2>2. slot'.landed => op.kind = "write"
    BY <1>4
  <2>3. Asked(op) => slot'.days = IF slot'.state = "ok" THEN rows' \cap op.days ELSE {}
    BY <1>4 DEF Asked
  <2> QED
    BY <1>1, <1>2, <2>1, <2>2, <2>3 DEF Answered
<1>8. Shown'
  <2> SUFFICES ASSUME page'.phase = "ready"
               PROVE  /\ page'.shown \subseteq listing(page').days
                      /\ \A e \in Entries : \/ e \in silent'
                                            \/ slot'.landed /\ e \in queue'[1].days
                                            \/ e \in page'.shown <=> e \in rows' /\ e \in listing(page').days
    BY DEF Shown
  <2>1. page' = page /\ page.phase = "ready" /\ queue'[1] = op
    BY <1>1, <1>2
  <2>2. ~Asked(op)
    <3>1. NoList(queue)
      BY <2>1 DEF PagesInv, Waiting
    <3> QED
      BY <1>1, <1>2, <3>1, FirstAndRest
  <2>3. /\ page.shown \subseteq listing(page).days
        /\ \A e \in Entries : e \in silent \/ (e \in page.shown <=> e \in rows /\ e \in listing(page).days)
    BY <1>1, <2>1 DEF PagesInv, Shown
  <2>4. silent' = silent
    BY <1>4, <2>2
  <2>5. \A e \in Entries : (slot'.landed /\ e \in op.days) \/ (e \in rows' <=> e \in rows)
    BY <1>4
  <2> QED
    BY <2>1, <2>3, <2>4, <2>5
<1> QED
  BY <1>5, <1>6, <1>7, <1>8 DEF PagesInv

\* An answer comes, and the next operation has not run.
LEMMA NotRun ==
  ASSUME queue' \in Seq(Operations), slot' = Running
  PROVE  Answered'
BY DEF Answered, Running

\* A list arrives: it is the one in view, or dropped.
LEMMA SettleListStep ==
  ASSUME PagesInv, SettleList
  PROVE  PagesInv'
<1> DEFINE op == Head(queue)
<1>1. /\ queue \in Seq(Operations) /\ queue # <<>> /\ slot.state # "running" /\ op.kind = "list"
      /\ page' = IF ~op.live THEN page
                 ELSE [page EXCEPT !.phase = IF slot.state = "ok" THEN "ready" ELSE "error",
                                   !.shown = slot.days]
      /\ queue' = Tail(queue) /\ slot' = Running
      /\ UNCHANGED <<day, rows, editor, visits, silent>>
      /\ page \in [kind : Kinds, of : Dated, phase : {"loading", "ready", "error"}, shown : SUBSET Entries]
  BY DEF PagesInv, Standing, PageType, SettleList
<1>2. op = queue[1] /\ queue' \in Seq(Operations)
  BY <1>1, FirstAndRest
<1> HIDE DEF op
<1>3. page.kind # "none"
  BY <1>1 DEF PagesInv, Standing
<1>4. ~slot.landed
  BY <1>1, <1>2 DEF PagesInv, Answered
<1>5. Answered'
  BY <1>1, <1>2, NotRun
<1>6. ~slot'.landed
  BY <1>1 DEF Running
<1>7. CASE ~op.live
  <2>1. ~Asked(op) /\ page' = page
    BY <1>1, <1>7 DEF Asked
  <2>2. Standing'
    BY <1>1, <1>2, <1>3, <2>1 DEF PagesInv, Standing, PageType, EditorType
  <2>3. Waiting'
    BY <1>1, <1>2, <2>1, FirstAndRest DEF PagesInv, Waiting
  <2>4. Shown'
    BY <1>1, <1>4, <2>1 DEF PagesInv, Shown
  <2> QED
    BY <1>5, <2>2, <2>3, <2>4 DEF PagesInv
<1>8. CASE op.live
  <2>1. Asked(op)
    BY <1>1, <1>8 DEF Asked
  <2>2. page.phase = "loading" /\ OneList(queue, listing(page).days)
    BY <1>1, <1>2, <2>1, FirstAndRest DEF PagesInv, Waiting
  <2>3. op.days = listing(page).days /\ NoList(queue')
    BY <1>1, <1>2, <2>1, <2>2, FirstAndRest
  <2>4. slot.days = IF slot.state = "ok" THEN rows \cap op.days ELSE {}
    BY <1>1, <1>2, <2>1 DEF PagesInv, Answered
  <2>5. slot.days \subseteq Entries
    BY <2>3, <2>4, ListingAsks
  <2>6. /\ page' \in [kind : Kinds, of : Dated, phase : {"loading", "ready", "error"}, shown : SUBSET Entries]
        /\ page'.kind = page.kind /\ page'.of = page.of /\ page'.shown = slot.days
        /\ page'.phase = IF slot.state = "ok" THEN "ready" ELSE "error"
    BY <1>1, <1>8, <2>5
  <2>7. listing(page').days = listing(page).days
    BY <2>6 DEF listing, listedFrom, listedTo
  <2>8. Viewable(page')
    BY <2>6 DEF Viewable, PagesInv, Standing
  <2>9. Standing'
    BY <1>1, <1>2, <1>3, <2>6, <2>8 DEF PagesInv, Standing, PageType, EditorType
  <2>10. Waiting'
    BY <2>3, <2>6 DEF Waiting
  <2>11. Shown'
    BY <1>1, <2>3, <2>4, <2>6, <2>7 DEF Shown
  <2> QED
    BY <1>5, <2>9, <2>10, <2>11 DEF PagesInv
<1> QED
  BY <1>1, <1>2, <1>7, <1>8 DEF Operations

\* An entry arrives.
LEMMA SettleGetStep ==
  ASSUME PagesInv, SettleGet
  PROVE  PagesInv'
<1>1. /\ queue \in Seq(Operations) /\ queue # <<>> /\ slot.state # "running" /\ Head(queue).kind = "get"
      /\ queue' = Tail(queue) /\ slot' = Running
      /\ UNCHANGED <<day, rows, page, visits, silent>> /\ EditorType
  BY DEF PagesInv, Standing, SettleGet
<1>2. Head(queue) = queue[1] /\ queue' \in Seq(Operations) /\ ~Asked(queue[1])
  BY <1>1, FirstAndRest DEF Asked
<1>3. page.kind # "none" /\ ~slot.landed
  BY <1>1, <1>2 DEF PagesInv, Standing, Answered
<1>4. EditorType'
  <2> DEFINE text == slot.days # {}
  <2>1. \/ editor' = editor
        \/ editor' = [NoEditor EXCEPT !.phase = "error"]
        \/ editor' = [NoEditor EXCEPT !.phase = "open", !.value = text, !.saved = text]
    BY DEF SettleGet
  <2>2. text \in BOOLEAN
    OBVIOUS
  <2> HIDE DEF text
  <2> QED
    BY <1>1, <2>1, <2>2 DEF EditorType, NoEditor
<1>5. Standing'
  BY <1>1, <1>2, <1>3, <1>4 DEF PagesInv, Standing, PageType
<1>6. Waiting'
  BY <1>1, <1>2, FirstAndRest DEF PagesInv, Waiting
<1>7. Answered'
  BY <1>1, <1>2, NotRun
<1>8. Shown'
  BY <1>1, <1>3 DEF PagesInv, Shown
<1> QED
  BY <1>5, <1>6, <1>7, <1>8 DEF PagesInv

\* A write settles: reported, the list is asked for again; if not, the change is silent.
LEMMA SettleWriteStep ==
  ASSUME PagesInv, SettleWrite
  PROVE  PagesInv'
<1> DEFINE op == Head(queue)
           tail == Tail(queue)
           told == reported(op)
           rest == reloaded(tail, told)
           clean == [editor EXCEPT !.inFlight = FALSE, !.pending = FALSE,
                       !.saved = IF slot.state = "ok" /\ editor.value = op.text THEN op.text ELSE @]
           again == editor.pending /\ clean.value # clean.saved
           flushing == [writing(op.days, TRUE \in op.then, TRUE) EXCEPT !.live = op.live]
           saving == writing(op.days, editor.value, FALSE)
<1>1. /\ queue \in Seq(Operations) /\ queue # <<>> /\ op.kind = "write" /\ slot.state # "running" /\ EditorType
      /\ page' = IF told THEN open(page.kind, page.of) ELSE page
      /\ silent' = IF slot.landed /\ ~told THEN silent \cup op.days ELSE silent
      /\ queue' \in {rest, Append(rest, flushing), Append(rest, saving)}
      /\ editor' = editor \/ editor' = [clean EXCEPT !.inFlight = again]
      /\ slot' = Running
      /\ UNCHANGED <<day, rows, visits>>
  BY DEF SettleWrite, PagesInv, Standing, reported
<1>2. op = queue[1] /\ op \in Operations /\ tail \in Seq(Operations) /\ ~Asked(queue[1])
  BY <1>1, FirstAndRest DEF Asked
<1>3. op.days \in SUBSET Dated /\ op.live \in BOOLEAN /\ op.text \in BOOLEAN /\ editor.value \in BOOLEAN
  BY <1>1, <1>2 DEF Operations, EditorType
<1>4. /\ flushing \in Operations /\ ~Asked(flushing)
      /\ saving \in Operations /\ ~Asked(saving)
  <2>1. (TRUE \in op.then) \in BOOLEAN
    OBVIOUS
  <2> QED
    BY <1>3, <2>1, WriteAsksNoList
<1>5. EditorType'
  <2>1. clean \in [phase : {"none", "loading", "open", "error"}, value : BOOLEAN, saved : BOOLEAN,
                   inFlight : BOOLEAN, pending : BOOLEAN]
    BY <1>1, <1>3 DEF EditorType
  <2>2. again \in BOOLEAN
    BY <1>1 DEF EditorType
  <2> HIDE DEF clean, again
  <2> QED
    BY <1>1, <2>1, <2>2 DEF EditorType
<1> HIDE DEF op, tail, told, rest, flushing, saving, clean, again
<1>6. page.kind # "none" /\ visits \in Nat /\ visits > 0 /\ isDay(day) /\ day.number \in Busy
  BY <1>1 DEF PagesInv, Standing
<1>7. page \in [kind : Kinds, of : Dated, phase : {"loading", "ready", "error"}, shown : SUBSET Entries]
  BY DEF PagesInv, Standing, PageType
<1>8. CASE told
  <2>1. /\ page' \in [kind : Kinds, of : Dated, phase : {"loading", "ready", "error"}, shown : SUBSET Entries]
        /\ page'.kind = page.kind /\ page'.of = page.of /\ page'.phase = "loading"
    BY <1>1, <1>7, <1>8 DEF open
  <2>2. listing(page').days = listing(page).days /\ Viewable(page')
    BY <2>1 DEF listing, listedFrom, listedTo, Viewable, PagesInv, Standing
  <2>3. rest = Append(superseded(tail, {"list"}), listing(page))
    BY <1>8 DEF rest, reloaded
  <2>4. AsksFor(tail, rest, listing(page).days)
    BY <1>2, <2>3, ReplacedAsks
  <2>5. AsksFor(tail, queue', listing(page).days)
    <3>1. AsksFor(tail, Append(rest, flushing), listing(page).days)
      BY <1>2, <1>4, <2>4, AppendKeepsAsking
    <3>2. AsksFor(tail, Append(rest, saving), listing(page).days)
      BY <1>2, <1>4, <2>4, AppendKeepsAsking
    <3> QED
      BY <1>1, <2>4, <3>1, <3>2
  <2>6. queue' \in Seq(Operations) /\ OneList(queue', listing(page').days)
    BY <2>2, <2>5 DEF AsksFor
  <2>7. Standing'
    BY <1>1, <1>5, <1>6, <2>1, <2>2, <2>6 DEF Standing, PageType
  <2>8. Waiting'
    BY <1>6, <2>1, <2>6 DEF Waiting
  <2>9. Answered' /\ Shown'
    BY <1>1, <2>1, <2>6, NotRun DEF Shown
  <2> QED
    BY <2>7, <2>8, <2>9 DEF PagesInv
<1>9. CASE ~told
  <2>1. page' = page /\ rest = tail
    BY <1>1, <1>9 DEF rest, reloaded
  <2>2. Keeps(tail, queue')
    BY <1>1, <1>2, <1>4, <2>1, KeepsItself, AppendKeeps
  <2>3. queue' \in Seq(Operations)
    BY <2>2 DEF Keeps
  <2>4. Standing'
    BY <1>1, <1>5, <1>6, <1>7, <2>1, <2>3 DEF PagesInv, Standing, PageType
  <2>5. Waiting'
    <3>1. IF page.kind # "none" /\ page.phase = "loading" THEN OneList(tail, listing(page).days) ELSE NoList(tail)
      BY <1>1, <1>2, FirstAndRest DEF PagesInv, Waiting, tail
    <3> QED
      BY <1>2, <2>1, <2>2, <3>1, KeepsLists DEF Waiting
  <2>6. Answered'
    BY <1>1, <2>3, NotRun
  <2>7. Shown'
    BY <1>1, <1>2, <1>9, <2>1 DEF PagesInv, Shown
  <2> QED
    BY <2>4, <2>5, <2>6, <2>7 DEF PagesInv
<1> QED
  BY <1>8, <1>9

-----------------------------------------------------------------------------
(* The theorems. *)

\* No screen, and nothing asked for.
LEMMA InitPages == Init => PagesInv
<1> SUFFICES ASSUME Init  PROVE PagesInv
  OBVIOUS
<1>1. (CHOOSE t \in Entries : TRUE) \in Entries
  BY DatesAssumption
<1>2. /\ page.kind = "none" /\ page.phase = "loading" /\ queue = <<>> /\ slot = Running /\ editor = NoEditor
      /\ PageType
  BY <1>1, DaysAreDated DEF Init, open, PageType, Kinds
<1>3. queue \in Seq(Operations) /\ NoList(queue)
  BY <1>2 DEF NoList
<1>4. Standing
  BY <1>2, <1>3, DatesAssumption, Editors DEF Init, Standing, EditorType, Viewable
<1>5. Waiting /\ Shown
  BY <1>2, <1>3 DEF Waiting, Shown
<1>6. Answered
  BY <1>2 DEF Answered, Running
<1> QED
  BY <1>4, <1>5, <1>6 DEF PagesInv

\* The latest list is the only one waited for, and it is of the dates in view.
THEOREM PagesInvariant == Spec => []PagesInv
<1>1. PagesInv /\ [Next]_vars => PagesInv'
  <2> SUFFICES ASSUME PagesInv, [Next]_vars  PROVE PagesInv'
    OBVIOUS
  <2>1. ASSUME NEW t \in Targets, RedirectToToday(t)  PROVE PagesInv'
    BY <2>1, OpenStep DEF RedirectToToday
  <2> QED
    BY <2>1, OpenStep, OpenJournalStep, TodayRendersStep, TurnMonthStep, WeeklyNoticesStep, QuietStep, SaveStep,
       ExecuteStep, SettleListStep, SettleGetStep, SettleWriteStep
    DEF Next, OpenToday
<1> QED
  BY <1>1, InitPages, PTL DEF Spec

\* A screen never shows days of another week or month; when storage has nothing
\* left to do no screen is loading, and one that shows its days shows those with an
\* entry, but for changes no screen was told of.
THEOREM PagesShowTheirDates == Spec => []PageShowsItsDates
<1>1. PagesInv => PageShowsItsDates
  <2> SUFFICES ASSUME PagesInv  PROVE PageShowsItsDates
    OBVIOUS
  <2>1. /\ PageType /\ Viewable(page)
        /\ page.kind = "none" => queue = <<>> /\ page.phase = "loading"
    BY DEF PagesInv, Standing
  <2>2. ASSUME page.phase = "ready"
        PROVE  /\ page.shown \subseteq listing(page).days
               /\ \A e \in Entries : e \in listing(page).days <=> about(e)
               /\ page.shown \subseteq Entries
    <3>1. page.kind \in {"today", "journal", "archive", "weekly"} /\ page.shown \subseteq Entries
      BY <2>1, <2>2 DEF PageType, Kinds
    <3> QED
      BY <2>1, <2>2, <3>1, ListsItsDays DEF PagesInv, Shown
  <2>3. page.phase = "ready" => \A e \in page.shown : about(e)
    BY <2>2
  <2>4. ASSUME queue = <<>>
        PROVE  /\ page.kind # "none" => page.phase # "loading"
               /\ page.phase = "ready" => \A e \in Entries \ silent : e \in page.shown <=> e \in rows /\ about(e)
    <3>1. ~slot.landed
      BY <2>4 DEF PagesInv, Answered, Running
    <3>2. page.kind # "none" => page.phase # "loading"
      BY <2>4 DEF PagesInv, Waiting, OneList
    <3>3. ASSUME page.phase = "ready", NEW e \in Entries, e \notin silent
          PROVE  e \in page.shown <=> e \in rows /\ about(e)
      BY <2>2, <3>1, <3>3 DEF PagesInv, Shown
    <3> QED
      BY <3>2, <3>3
  <2> QED
    BY <2>3, <2>4 DEF PageShowsItsDates
<1> QED
  BY <1>1, PagesInvariant, PTL

====
