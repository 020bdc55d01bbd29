------------------------------ MODULE ZoneRules ------------------------------
(***************************************************************************)
(* A Timezone: the rules of the base station (the second Sunday of March,  *)
(* the first of November, at two o'clock) and the four change points it    *)
(* keeps of the year last asked for.  Conversions may be asked for in any  *)
(* order and for any years.  The constructor sets the two rules and leaves *)
(* the change points as it finds them in its memory.                       *)
(*                                                                         *)
(* Source: esp8266_sim/Timezone.cpp; setup and setTimeZone of              *)
(* weather_station_base/weather_station_base_class.cpp for the rules.      *)
(***************************************************************************)
EXTENDS Calendar

CONSTANTS
    Zones,        \* pairs of the offsets std and dst, in minutes
    Instants,     \* the times, in UTC, that are asked about
    Reuse,        \* a new Timezone has the memory of the last
    NoAnswer

\* An offset is less than a day, summer time is one hour ahead or not kept,
\* and nothing is asked about 1970, which Unset stands for.
ASSUME ZoneAssumption ==
    /\ \A z \in Zones : /\ z.std \in Int /\ z.dst \in {z.std, z.std + 60}
                        /\ -MinutesPerDay < z.std /\ z.dst < MinutesPerDay
    /\ \A u \in Instants : u \in Nat /\ u >= 366 * MinutesPerDay

VARIABLES
    zone,          \* the offsets of _std and _dst
    points,        \* _dstUTC, _stdUTC, _dstLoc and _stdLoc
    call, answer   \* the last conversion

rules == <<zone, points, call, answer>>

Sun == 1

\* The rules { week, dow, month, hour } of setup and setTimeZone.
DstRule == [week |-> 2, dow |-> Sun, month |-> 3, hour |-> 2]
StdRule == [week |-> 1, dow |-> Sun, month |-> 11, hour |-> 2]

toTime_t(r, yr) ==
    LET first == makeTime([Minute |-> 0, Hour |-> r.hour, Day |-> 1,
                           Month |-> r.month, Year |-> yr - 1970])
        wait  == (r.dow - breakTime(first).Wday + 7) % 7
    IN  first + (7 * (r.week - 1) + wait) * MinutesPerDay

\* calcTimeChanges
ChangePoints(yr) ==
    LET dst == toTime_t(DstRule, yr)
        std == toTime_t(StdRule, yr)
    IN  [dstUTC |-> dst - zone.std, stdUTC |-> std - zone.dst,
         dstLoc |-> dst, stdLoc |-> std]

\* utcIsDST and locIsDST
IsDST(t, dst, std) ==
    IF std > dst THEN t >= dst /\ t < std ELSE ~(t >= std /\ t < dst)

toLocal(utc) ==
    /\ points' = IF year(utc) # year(points.dstUTC)
                  THEN ChangePoints(year(utc)) ELSE points
    /\ call' = [does |-> "toLocal", time |-> utc]
    /\ answer' = utc + (IF IsDST(utc, points'.dstUTC, points'.stdUTC)
                       THEN zone.dst ELSE zone.std)
    /\ UNCHANGED zone

\* Mutant of toUTC: it takes the change points as they are.
toUTC_Stale(local) ==
    /\ UNCHANGED points
    /\ call' = [does |-> "toUTC", time |-> local]
    /\ answer' = local - (IF IsDST(local, points'.dstLoc, points'.stdLoc)
                         THEN zone.dst ELSE zone.std)
    /\ UNCHANGED zone

toUTC(local) ==
    /\ points' = IF year(local) # year(points.dstLoc)
                  THEN ChangePoints(year(local)) ELSE points
    /\ call' = [does |-> "toUTC", time |-> local]
    /\ answer' = local - (IF IsDST(local, points'.dstLoc, points'.stdLoc)
                         THEN zone.dst ELSE zone.std)
    /\ UNCHANGED zone

\* What other memory holds is taken to be no year that is asked about.
Unset == [dstUTC |-> 0, stdUTC |-> 0, dstLoc |-> 0, stdLoc |-> 0]

\* setTimeZone: delete and new.
Replace(z) ==
    /\ zone' = z /\ call' = NoAnswer /\ answer' = NoAnswer
    /\ points' = IF Reuse THEN points ELSE Unset

RulesInit ==
    /\ zone \in Zones
    /\ points = Unset
    /\ call = NoAnswer /\ answer = NoAnswer

RulesNext ==
    \/ \E u \in Instants : toLocal(u)
    \/ \E u \in Instants : toUTC(u + zone.std) \/ toUTC(u + zone.dst)
    \/ \E z \in Zones : Replace(z)

RulesSpec == RulesInit /\ [][RulesNext]_rules
-----------------------------------------------------------------------------
(* What the conversions promise. *)

\* The n-th Sunday of a month, at two o'clock.
Sunday(n, month, yr) ==
    LET at(d) == makeTime([Minute |-> 0, Hour |-> 2, Day |-> d,
                           Month |-> month, Year |-> yr - 1970])
    IN  at(CHOOSE d \in (7 * n - 6)..(7 * n) : breakTime(at(d)).Wday = Sun)

\* Summer time begins where a clock on standard time reads two o'clock, and
\* ends where one on summer time does.
Summer(u) ==
    /\ u + zone.std >= Sunday(2, 3, year(u))
    /\ u + zone.dst < Sunday(1, 11, year(u))

Offset(u) == IF Summer(u) THEN zone.dst ELSE zone.std

ZoneOK ==
    /\ zone \in Zones
    /\ points.dstUTC < points.stdUTC \/ points = Unset
    /\ points.dstLoc - points.dstUTC = zone.std \/ points = Unset

\* "Convert the given UTC time to local time, standard or daylight time, as
\* appropriate", whatever was asked before and for which year.
LocalIsRight ==
    answer # NoAnswer /\ call.does = "toLocal" =>
        answer = call.time + Offset(call.time)

\* toUTC finds a time that reads as the local time it was given.  Of the two
\* such times in the hour that occurs twice it is the earlier one; in the hour
\* that does not exist there is none.
UTCIsRight ==
    answer # NoAnswer /\ call.does = "toUTC" =>
        LET reads(u) == u + Offset(u) = call.time
            early    == call.time - zone.dst
            late     == call.time - zone.std
        IN  answer = (IF reads(early) THEN early
                      ELSE IF reads(late) THEN late ELSE early)
=============================================================================
