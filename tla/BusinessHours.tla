---------------------------- MODULE BusinessHours ----------------------------
(***************************************************************************)
(* business-hours.service.ts: the time between two moments that does not   *)
(* fall on a weekend, as the statistics measure it.  Time is a number of   *)
(* ticks since the midnight a FirstWeekday began (0 is Sunday); the last   *)
(* millisecond of a day, which the code takes off every full day, is below *)
(* the grain of a tick.                                                    *)
(***************************************************************************)
EXTENDS Integers, FiniteSets, FiniteSetsExt

CONSTANTS
    DayTicks,      \* ticks in a day
    FirstWeekday   \* the weekday of tick 0, as in Date.getDay()

ASSUME BusinessHoursAssumption ==
    /\ DayTicks \in Nat \ {0}
    /\ FirstWeekday \in 0..6

WeekendDays == {0, 6}

DayOf(t)      == t \div DayTicks
StartOfDay(t) == DayOf(t) * DayTicks
EndOfDay(t)   == StartOfDay(t) + DayTicks

\* Mutant: Saturday is a working day.
IsWeekend_SundayOnly(t) == (DayOf(t) + FirstWeekday) % 7 = 0

IsWeekend(t) == (DayOf(t) + FirstWeekday) % 7 \in WeekendDays

Later(s, t)   == IF s > t THEN s ELSE t
Earlier(s, t) == IF s < t THEN s ELSE t

\* The part of start..end that lies on the day of "current".
HoursOfDay(start, end, current) ==
    Later(0, Earlier(end, EndOfDay(current)) - Later(start, StartOfDay(current)))

\* "current" starts at the start, not at a midnight, and moves by whole days
\* while it is before the end.
MultiDayHours(start, end) ==
    LET currents == { start + k * DayTicks :
                        k \in 0..(Later(0, end - start - 1) \div DayTicks) }
    IN  MapThenSumSet(LAMBDA c : HoursOfDay(start, end, c),
                      { c \in currents : c < end /\ ~IsWeekend(c) })

CalculateBusinessHours(start, end) ==
    IF DayOf(start) = DayOf(end)
    THEN IF IsWeekend(start) THEN 0 ELSE end - start
    ELSE MultiDayHours(start, end)

-----------------------------------------------------------------------------
(* The reference: the ticks from Monday to Friday between the two.         *)

WorkingTicks(start, end) ==
    Cardinality({ t \in start..(end - 1) : (t \div DayTicks + FirstWeekday) % 7 \in 1..5 })
=============================================================================
