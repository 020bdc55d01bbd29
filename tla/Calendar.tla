------------------------------- MODULE Calendar -------------------------------
(***************************************************************************)
(* The calendar of the time library: breakTime, makeTime, and what it      *)
(* derives from them.  A time is the number of minutes since 1970; the     *)
(* seconds, which nothing shown depends on, are left out.  The library     *)
(* counts seconds in 32 bits without a sign, so its times end in 2106.     *)
(*                                                                         *)
(* Source: esp8266_sim/TimeLib.cpp.                                        *)
(***************************************************************************)
EXTENDS Integers, Sequences, FiniteSets

MinutesPerDay == 24 * 60

\* LEAP_YEAR, of a year counted from 1970.
Leap(y) ==
    LET n == 1970 + y IN n % 4 = 0 /\ (n % 100 # 0 \/ n % 400 = 0)

YearLength(y) == IF Leap(y) THEN 366 ELSE 365

monthDays == <<31, 28, 31, 30, 31, 30, 31, 31, 30, 31, 30, 31>>

MonthLength(y, m) == IF m = 2 /\ Leap(y) THEN 29 ELSE monthDays[m]

\* The day a year begins on, as breakTime and makeTime count it up.
YearStart(y) == 365 * y + Cardinality({n \in 0..(y - 1) : Leap(n)})

\* The days of a year before one of its months; 13 is the year's end.
MonthStart(y, m) ==
    LET add(k) == IF k < m THEN MonthLength(y, k) ELSE 0
    IN  add(1) + add(2) + add(3) + add(4) + add(5) + add(6)
          + add(7) + add(8) + add(9) + add(10) + add(11) + add(12)

\* Sunday is day 1.
Weekday(day) == ((day + 4) % 7) + 1

\* The loop's year: no day lies further from 365 days a year than from 366.
YearOf(day) ==
    CHOOSE y \in (day \div 366)..(day \div 365) :
        YearStart(y) <= day /\ day < YearStart(y) + YearLength(y)

breakTime(t) ==
    LET day   == t \div MinutesPerDay
        y     == YearOf(day)
        rest  == day - YearStart(y)
        m     == CHOOSE k \in 1..12 :
                   MonthStart(y, k) <= rest /\ rest < MonthStart(y, k + 1)
    IN  [Minute |-> t % 60, Hour |-> (t \div 60) % 24, Wday |-> Weekday(day),
         Day |-> rest - MonthStart(y, m) + 1, Month |-> m, Year |-> y]

\* Mutant of makeTime: the leap day of a year is counted from February on.
makeTime_EarlyLeapDay(tm) ==
    LET leapDay == IF tm.Month = 2 /\ Leap(tm.Year) THEN 1 ELSE 0
    IN  (YearStart(tm.Year) + MonthStart(tm.Year, tm.Month) + leapDay
            + tm.Day - 1) * MinutesPerDay + tm.Hour * 60 + tm.Minute

makeTime(tm) ==
    (YearStart(tm.Year) + MonthStart(tm.Year, tm.Month) + tm.Day - 1)
        * MinutesPerDay + tm.Hour * 60 + tm.Minute

year(t) == 1970 + breakTime(t).Year

hourFormat12(t) ==
    LET h == breakTime(t).Hour
    IN  IF h = 0 THEN 12 ELSE IF h > 12 THEN h - 12 ELSE h

isPM(t) == breakTime(t).Hour >= 12
isAM(t) == ~isPM(t)
=============================================================================
