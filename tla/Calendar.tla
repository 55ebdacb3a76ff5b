------------------------------ MODULE Calendar ------------------------------
(***************************************************************************)
(* Singapore days and ISO weeks over UTC time stamps (internal/sgt,        *)
(* metric/window.go, and their twins in internal/report).                  *)
(*                                                                         *)
(* An instant is a number of hours; day 0 is Monday 2024-01-01.  A bound   *)
(* of a window is a Singapore midnight, which falls at 16:00 UTC of the    *)
(* day before.  A posting date is a UTC-less day, and SQLite compares it   *)
(* with a bound as a string.                                               *)
(***************************************************************************)
EXTENDS Integers

RollingDays == 90

----------------------------------------------------------------------------
(* Days *)

UTCDay(t) == t \div 24

SGTDay(t) == (t + 8) \div 24

Midnight(d) == 24 * d - 8

Monday(d) == d - (d % 7)

\* The year a day is in: 1 January of a year between 2021 and 2099.
NewYear(y) == 365 * (y - 2024) + (y - 2021) \div 4

Year(d) == CHOOSE y \in 2021..2098 : NewYear(y) <= d /\ d < NewYear(y + 1)

\* Go's time.ISOWeek: a week belongs to the year of its Thursday.
ISOWeek(d) ==
  LET thursday == Monday(d) + 3
      year     == Year(thursday)
  IN [year |-> year, week |-> (thursday - NewYear(year)) \div 7 + 1]

----------------------------------------------------------------------------
(* Windows: [start, end) in hours *)

Day(t) == [start |-> Midnight(SGTDay(t)), end |-> Midnight(SGTDay(t) + 1)]

WeekFrom(d) == [start |-> Midnight(d), end |-> Midnight(d + 7)]

ISOWeekOf(t) == WeekFrom(Monday(SGTDay(t)))

weekBefore(w, n) == WeekFrom(SGTDay(w.start) - 7 * n)

LastCompletedWeek(now) == weekBefore(ISOWeekOf(now), 1)

PrevWeeks(w, n) == [i \in 1..n |-> weekBefore(w, n + 1 - i)]

Rolling(now, days) ==
  LET end == Day(now).end
  IN [start |-> Midnight(SGTDay(end) - days), end |-> end]

\* Window.WeekLabel: the label of a window's first day.
WeekLabel(w) == ISOWeek(SGTDay(w.start))

----------------------------------------------------------------------------
(* A bound as SQLite sees it.  "2024-01-01" is a prefix of no bound and     *)
(* sorts before every time stamp of its own day.                            *)

DateAtLeast(d, t) == d > UTCDay(t)

DateIn(d, w) == DateAtLeast(d, w.start) /\ ~DateAtLeast(d, w.end)

StampIn(t, w) == w.start <= t /\ t < w.end

=============================================================================
