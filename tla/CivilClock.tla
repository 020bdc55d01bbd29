------------------------------ MODULE CivilClock ------------------------------
(***************************************************************************)
(* A clock that counts civil days the way a wall calendar does, one after  *)
(* the other from Thursday, 1 January 1970, and the library's calendar     *)
(* beside it.                                                              *)
(***************************************************************************)
EXTENDS Calendar

CONSTANTS
    LastDay,      \* bound: the day the library's 32 bits end on
    Hands         \* bound: the minutes of a day that are looked at

ASSUME CivilAssumption ==
    LastDay \in Nat /\ Hands \subseteq 0..(MinutesPerDay - 1)

VARIABLES day,    \* days since 1970
          date    \* the civil date, with its weekday

civil == <<day, date>>

Long  == {1, 3, 5, 7, 8, 10, 12}
Short == {4, 6, 9, 11}

Divides(k, n) == n % k = 0

\* Is d the last day of month m of year n?
EndsMonth(d, m, n) ==
    \/ m \in Long /\ d = 31
    \/ m \in Short /\ d = 30
    \/ m = 2 /\ d = 29
    \/ m = 2 /\ d = 28
        /\ (~Divides(4, n) \/ (Divides(100, n) /\ ~Divides(400, n)))

Midnight ==
    LET ends == EndsMonth(date.day, date.month, date.year) IN
    /\ day < LastDay
    /\ day' = day + 1
    /\ date' =
         [day     |-> IF ends THEN 1 ELSE date.day + 1,
          month   |-> IF ~ends THEN date.month
                      ELSE IF date.month = 12 THEN 1 ELSE date.month + 1,
          year    |-> IF ends /\ date.month = 12 THEN date.year + 1
                                                 ELSE date.year,
          weekday |-> IF date.weekday = 7 THEN 1 ELSE date.weekday + 1]

CivilInit ==
    /\ day = 0
    /\ date = [day |-> 1, month |-> 1, year |-> 1970, weekday |-> 5]

CivilSpec == CivilInit /\ [][Midnight]_civil

-----------------------------------------------------------------------------
Times == {day * MinutesPerDay + h : h \in Hands}

\* On every day until 2106, 29 February and the year 2100, which has none,
\* included, breakTime shows the civil date; makeTime undoes it, so that what
\* is entered on the time page is what is then shown; and the twelve hours of
\* the display with their am and pm tell the 24 hours apart, midnight being
\* 12 am and noon 12 pm.
CalendarIsRight ==
    \A t \in Times :
        LET tm  == breakTime(t)
            h12 == hourFormat12(t)
        IN  /\ tm.Day = date.day /\ tm.Month = date.month
            /\ 1970 + tm.Year = date.year /\ tm.Wday = date.weekday
            /\ makeTime(tm) = t
            /\ h12 \in 1..12
            /\ (h12 % 12) + (IF isAM(t) THEN 0 ELSE 12) = tm.Hour
=============================================================================
