---------------------------- MODULE CalendarProofs ----------------------------
(***************************************************************************)
(* Proofs about the windows of the pages and of the report, for every day  *)
(* and every hour: which days a window holds, which window an instant      *)
(* falls in, and that weeks and days follow each other without a gap.      *)
(*                                                                         *)
(* The bounds of a window are time stamps and a posting date is a day, so  *)
(* none of this is evident from the definitions: a bound at a UTC midnight *)
(* would put the days of a week off by one.                                *)
(***************************************************************************)
EXTENDS Calendar, TLAPS

\* A Singapore midnight, as a UTC day and as a Singapore day.
LEMMA MidnightIsThere ==
  ASSUME NEW d \in Int
  PROVE  /\ Midnight(d) \in Int
         /\ UTCDay(Midnight(d)) = d - 1
         /\ SGTDay(Midnight(d)) = d
  BY DEF Midnight, UTCDay, SGTDay

\* The day of an instant starts no later than it, and ends after it.
LEMMA DayOfInstant ==
  ASSUME NEW t \in Int
  PROVE  /\ SGTDay(t) \in Int
         /\ Midnight(SGTDay(t)) <= t /\ t < Midnight(SGTDay(t) + 1)
  BY DEF Midnight, SGTDay

\* Monday(d) is the only Monday of the seven days that end with d.
LEMMA MondayBefore ==
  ASSUME NEW d \in Int
  PROVE  /\ Monday(d) \in Int /\ Monday(d) % 7 = 0
         /\ Monday(d) <= d /\ d <= Monday(d) + 6
  BY DEF Monday

\* Every day of a week has the same Monday.
LEMMA MondayOf ==
  ASSUME NEW m \in Int, m % 7 = 0, NEW d \in m..m + 6
  PROVE  Monday(d) = m
  BY DEF Monday

\* A posting date falls in a week that starts with day m exactly if it is one
\* of its seven days, although it is compared with time stamps of the day
\* before (store.go: posted_at >= ? AND posted_at < ?).
THEOREM DatesOfWeek ==
  ASSUME NEW m \in Int, NEW d \in Int
  PROVE  DateIn(d, WeekFrom(m)) <=> d \in m..m + 6
  BY MidnightIsThere DEF DateIn, DateAtLeast, WeekFrom

\* The window of the last days holds exactly that many dates, of which the
\* current Singapore day is the last (window.go:78-85).
THEOREM DatesOfRolling ==
  ASSUME NEW t \in Int, NEW days \in Nat, NEW d \in Int
  PROVE  DateIn(d, Rolling(t, days)) <=> d \in SGTDay(t) + 1 - days..SGTDay(t)
<1> DEFINE end == SGTDay(t) + 1
<1>1. end \in Int
  BY DayOfInstant
<1>2. /\ Day(t).end = Midnight(end) /\ SGTDay(Midnight(end)) = end
      /\ UTCDay(Midnight(end)) = end - 1 /\ UTCDay(Midnight(end - days)) = end - days - 1
  BY <1>1, MidnightIsThere DEF Day
<1>3. Rolling(t, days) = [start |-> Midnight(end - days), end |-> Midnight(end)]
  BY <1>2 DEF Rolling
<1> HIDE DEF end
<1>4. DateIn(d, Rolling(t, days)) <=> d > end - days - 1 /\ ~(d > end - 1)
  BY <1>2, <1>3 DEF DateIn, DateAtLeast
<1> QED
  BY <1>1, <1>4, DayOfInstant DEF end

\* Every instant falls in the ISO week of its Singapore day and in no other
\* week that starts on a Monday: the weeks have no gap and do not overlap.
THEOREM WeeksTile ==
  ASSUME NEW t \in Int, NEW m \in Int, m % 7 = 0
  PROVE  /\ StampIn(t, ISOWeekOf(t))
         /\ StampIn(t, WeekFrom(m)) <=> ISOWeekOf(t) = WeekFrom(m)
<1>1. /\ SGTDay(t) \in Int /\ Midnight(SGTDay(t)) <= t /\ t < Midnight(SGTDay(t) + 1)
  BY DayOfInstant
<1>2. /\ Monday(SGTDay(t)) \in Int
      /\ Monday(SGTDay(t)) <= SGTDay(t) /\ SGTDay(t) <= Monday(SGTDay(t)) + 6
  BY <1>1, MondayBefore
<1>3. StampIn(t, ISOWeekOf(t))
  BY <1>1, <1>2 DEF StampIn, ISOWeekOf, WeekFrom, Midnight
<1>4. ASSUME StampIn(t, WeekFrom(m)) PROVE ISOWeekOf(t) = WeekFrom(m)
  <2>1. SGTDay(t) \in m..m + 6
    BY <1>1, <1>4 DEF StampIn, WeekFrom, Midnight
  <2>2. Monday(SGTDay(t)) = m
    BY <2>1, MondayOf
  <2> QED
    BY <2>2 DEF ISOWeekOf
<1> QED
  BY <1>3, <1>4

\* The last completed week is over, and the week that is under way follows it
\* without a gap (window.go:60-66).
THEOREM CompletedWeekIsOver ==
  ASSUME NEW t \in Int
  PROVE  /\ LastCompletedWeek(t) = WeekFrom(Monday(SGTDay(t)) - 7)
         /\ LastCompletedWeek(t).end = ISOWeekOf(t).start
         /\ LastCompletedWeek(t).end <= t
<1> DEFINE m == Monday(SGTDay(t))
<1>1. m \in Int /\ m <= SGTDay(t) /\ SGTDay(t) \in Int /\ Midnight(SGTDay(t)) <= t
  BY DayOfInstant, MondayBefore
<1>2. ISOWeekOf(t).start = Midnight(m) /\ SGTDay(Midnight(m)) = m
  BY <1>1, MidnightIsThere DEF ISOWeekOf, WeekFrom
<1>3. LastCompletedWeek(t) = WeekFrom(m - 7)
  BY <1>1, <1>2 DEF LastCompletedWeek, weekBefore
<1>4. LastCompletedWeek(t).end = Midnight(m) /\ Midnight(m) <= t
  BY <1>1, <1>3 DEF WeekFrom, Midnight
<1> QED
  BY <1>2, <1>3, <1>4

\* The instants at which the report asks the layer of the pages give it its own
\* week and the days up to its end: the end of its week is in the week after,
\* the instant before that is its last day (metrics.go: weekAnchor, rollAnchor).
THEOREM AnchorsOfReport ==
  ASSUME NEW m \in Int, m % 7 = 0
  PROVE  /\ LastCompletedWeek(WeekFrom(m).end) = WeekFrom(m)
         /\ SGTDay(WeekFrom(m).end - 1) = m + 6
<1>1. SGTDay(WeekFrom(m).end) = m + 7
  BY MidnightIsThere DEF WeekFrom
<1>2. Monday(m + 7) = m + 7
  BY DEF Monday
<1>3. WeekFrom(m).end \in Int /\ m + 7 - 7 = m
  BY DEF WeekFrom, Midnight
<1>4. LastCompletedWeek(WeekFrom(m).end) = WeekFrom(m)
  BY <1>1, <1>2, <1>3, CompletedWeekIsOver
<1>5. SGTDay(WeekFrom(m).end - 1) = m + 6
  BY DEF WeekFrom, Midnight, SGTDay
<1> QED
  BY <1>4, <1>5

-----------------------------------------------------------------------------
(* Years and labels                                                        *)

Years == 2021..2098

\* The first of January is a day.
LEMMA NewYearIsADay ==
  ASSUME NEW y \in Int
  PROVE  NewYear(y) \in Int
BY DEF NewYear

\* A day of these years is in one of them.
LEMMA YearOfDay ==
  ASSUME NEW d \in NewYear(2021)..NewYear(2099) - 1
  PROVE  Year(d) \in Years /\ NewYear(Year(d)) <= d /\ d < NewYear(Year(d) + 1)
<1> DEFINE y == 2021 + (4 * (d + 1095) + 3) \div 1461
<1>1. d \in Int /\ -1095 <= d /\ d < 27394
  BY DEF NewYear
<1>2. y \in Years
  BY <1>1 DEF Years
<1>3. NewYear(y) <= d /\ d < NewYear(y + 1)
  <2> DEFINE q == (4 * (d + 1095) + 3) \div 1461
  <2>1. q \in Int /\ 1461 * q <= 4 * d + 4383 /\ 4 * d + 4383 < 1461 * q + 1461
    BY <1>1
  <2>2. /\ NewYear(y) = 365 * (q - 3) + q \div 4
        /\ NewYear(y + 1) = 365 * (q - 2) + (q + 1) \div 4
    BY <2>1 DEF NewYear
  <2> HIDE DEF q, y
  <2> QED
    BY <1>1, <2>1, <2>2
<1>4. \E z \in Years : NewYear(z) <= d /\ d < NewYear(z + 1)
  BY <1>2, <1>3
<1> QED
  BY <1>4 DEF Year, Years

\* The ISO label of a page tells its week from every other week of these years
\* (Window.WeekLabel).  That of the report, the ISO week with the calendar year,
\* does not: see LinkLeadsToItsWeek.
THEOREM LabelsAreDistinct ==
  ASSUME NEW a \in NewYear(2021) + 3..NewYear(2099) - 4,
         NEW b \in NewYear(2021) + 3..NewYear(2099) - 4,
         ISOWeek(a) = ISOWeek(b)
  PROVE  Monday(a) = Monday(b)
<1> DEFINE A == Monday(a) + 3
           B == Monday(b) + 3
<1>1. a \in Int /\ b \in Int /\ NewYear(2021) \in Int /\ NewYear(2099) \in Int
  BY NewYearIsADay
<1>2. /\ Monday(a) \in Int /\ Monday(a) % 7 = 0 /\ Monday(a) <= a /\ a <= Monday(a) + 6
      /\ Monday(b) \in Int /\ Monday(b) % 7 = 0 /\ Monday(b) <= b /\ b <= Monday(b) + 6
  BY <1>1, MondayBefore
<1>3. A \in NewYear(2021)..NewYear(2099) - 1 /\ B \in NewYear(2021)..NewYear(2099) - 1
  BY <1>1, <1>2
<1>4. Year(A) \in Int /\ NewYear(Year(A)) \in Int
  <2> HIDE DEF A
  <2>1. Year(A) \in Years
    BY <1>3, YearOfDay
  <2>2. \A y \in Years : y \in Int /\ NewYear(y) \in Int
    BY NewYearIsADay DEF Years
  <2> QED
    BY <2>1, <2>2
<1>5. /\ ISOWeek(a).year = Year(A) /\ ISOWeek(a).week = (A - NewYear(Year(A))) \div 7 + 1
      /\ ISOWeek(b).year = Year(B) /\ ISOWeek(b).week = (B - NewYear(Year(B))) \div 7 + 1
  BY DEF ISOWeek
<1> HIDE DEF A, B
<1> DEFINE n == NewYear(Year(A))
<1>6. Year(A) = Year(B)
  BY <1>5
<1>7. (A - n) \div 7 + 1 = (B - n) \div 7 + 1
  BY <1>5, <1>6
<1>8. n \in Int
  BY <1>4
<1> HIDE DEF n
<1> QED
  BY <1>2, <1>7, <1>8 DEF A, B
=============================================================================
