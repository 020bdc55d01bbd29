---------------------------- MODULE DisplayUpdate ----------------------------
(***************************************************************************)
(* The display timer's callback, step by step, beside the code that writes *)
(* what it reads: the sensor update of the loop and the handlers of        *)
(* requests.                                                               *)
(*                                                                         *)
(* On the ESP8266 the callback runs where the one thread waits, and that   *)
(* thread goes on when the callback has returned.  In the simulator the    *)
(* timer, the loop and the connections are threads of the host, and any of *)
(* them takes the next step.  Preemptive tells the two builds apart.       *)
(*                                                                         *)
(* Source: weather_station_base/weather_station_base_class.cpp and         *)
(* display.cpp; esp8266_sim/Ticker.cpp for the simulator's thread.         *)
(***************************************************************************)
EXTENDS Naturals, Sequences

CONSTANTS
    Preemptive,   \* the build is the simulator's
    Writers,      \* the threads beside the timer
    Work,         \* the operations each of them carries out
    Heap,         \* the addresses a Timezone may have
    Zones,        \* the zones, by their offset
    Half,         \* the minutes of half a day (720)
    Days,         \* the days the calendar counts
    Values,       \* what is measured
    Unread,       \* what a sensor_data is constructed with
    NoRecord,     \* m_last_display_data before its first update
    Blank         \* an empty string or region

Sensors   == {"local", "remote"}
Fields    == {"temperature", "humidity"}
Clock     == 2 * Half * Days
Times     == 0..(Clock - 1)

\* A reading: a temperature and the humidity measured with it.
Readings  == {[f \in Fields |-> v] : v \in Values}
NoReading == [f \in Fields |-> Unread]

\* What update_display takes.
Records == [time : Times, reading : [Sensors -> Readings \cup {NoReading}]]

ASSUME DisplayAssumption ==
    /\ Preemptive \in BOOLEAN
    /\ Work \in [Writers -> SUBSET (Sensors \cup {"time", "zone"})]
    /\ Zones \subseteq Times
    /\ Half \in Nat \ {0} /\ Days \in Nat \ {0}
    /\ Unread \notin Values
    /\ NoRecord \notin Records

VARIABLES
    utc,          \* now()
    sensor,       \* m_current_local_sensor_data, m_current_remote_sensor_data
    tz,           \* m_tz
    live,         \* the Timezones that exist
    rules,        \* the zone each was built from
    record,       \* m_last_display_data
    cached,       \* the five m_last_..._string of the Display
    lcd,          \* the five regions
    doing,        \* what each writer is in the middle of
    arg,          \* its argument
    step,         \* where update_display is
    forced,       \* update_now: setup's own call
    ptr, snap,    \* the m_tz it called toLocal on, and its local variables
    text,         \* the strings of draw_display
    at            \* the field it copies, or the region it draws

zone   == <<tz, live, rules>>
screen == <<record, cached, lcd>>
timer  == <<step, forced, ptr, snap, text, at>>
vars   == <<utc, sensor, zone, screen, doing, arg, timer>>

-----------------------------------------------------------------------------
Regions == <<"time", "meridian", "date", "inside", "outside">>
Names   == {Regions[i] : i \in DOMAIN Regions}

\* The strings of a record: the time on a 12-hour clock, am or pm, the date,
\* and the two sensors.
Texts(rec) ==
    [n \in Names |->
        IF rec = NoRecord THEN Blank ELSE
        CASE n = "time"     -> rec.time % Half
          [] n = "meridian" -> (rec.time \div Half) % 2
          [] n = "date"     -> rec.time \div (2 * Half)
          [] n = "inside"   -> rec.reading["local"]
          [] n = "outside"  -> rec.reading["remote"]]

\* Timezone::toLocal and toUTC of the object at o.  What a freed object
\* answers is anything.
ToLocal(o, t) == IF o \in live THEN {(t + rules[o]) % Clock} ELSE Times
ToUTC(o, t) == IF o \in live THEN {(t + Clock - rules[o]) % Clock} ELSE Times

-----------------------------------------------------------------------------
(* Who runs. *)

Waiting(w) == doing[w] = "ready"

\* Mutants of TimerMayRun: update_local_sensor_data waits between its two
\* assignments, and setTimeZone between its delete and its new.
TimerMayRun_MidUpdate ==
    Preemptive \/ \A w \in Writers : Waiting(w) \/ doing[w] = "local"

TimerMayRun_MidZone ==
    Preemptive \/ \A w \in Writers : Waiting(w) \/ doing[w] = "new"

TimerMayRun == Preemptive \/ forced \/ \A w \in Writers : Waiting(w)

WriterMayRun(w) ==
    /\ ~forced
    /\ Preemptive \/ (step = "idle" /\ \A v \in Writers \ {w} : Waiting(v))

-----------------------------------------------------------------------------
(* update_display *)

\* The callback of the timer: m_tz and now() are read.
Start ==
    /\ step = "idle" /\ TimerMayRun
    /\ step' = "convert"
    /\ ptr' = tz
    /\ snap' = [snap EXCEPT !.time = utc]
    /\ UNCHANGED <<utc, sensor, zone, screen, doing, arg, forced, text, at>>

Convert ==
    /\ step = "convert" /\ TimerMayRun
    /\ step' = "copy" /\ at' = 1
    /\ \E t \in ToLocal(ptr, snap.time) : snap' = [snap EXCEPT !.time = t]
    /\ UNCHANGED <<utc, sensor, zone, screen, doing, arg, forced, ptr, text>>

\* The fields of the two copies, in the order they are read.
Parts == << <<"local", "temperature">>, <<"local", "humidity">>,
            <<"remote", "temperature">>, <<"remote", "humidity">> >>

Copy ==
    /\ step = "copy" /\ TimerMayRun
    /\ LET s == Parts[at][1]
           f == Parts[at][2]
       IN  snap' = [snap EXCEPT !.reading[s][f] = sensor[s][f]]
    /\ IF at < Len(Parts) THEN at' = at + 1 /\ UNCHANGED step
                          ELSE at' = 1 /\ step' = "compare"
    /\ UNCHANGED <<utc, sensor, zone, screen, doing, arg, forced, ptr, text>>

\* display_data::changed
Compare ==
    /\ step = "compare" /\ TimerMayRun
    /\ step' = IF forced \/ snap # record THEN "update" ELSE "idle"
    /\ UNCHANGED <<utc, sensor, zone, screen, doing, arg, forced, ptr, snap,
                   text, at>>

Update ==
    /\ step = "update" /\ TimerMayRun
    /\ step' = "compose"
    /\ record' = snap
    /\ UNCHANGED <<utc, sensor, zone, cached, lcd, doing, arg, forced, ptr,
                   snap, text, at>>

-----------------------------------------------------------------------------
(* draw_display, and the Display's update_..._string *)

Compose ==
    /\ step = "compose" /\ TimerMayRun
    /\ step' = "test" /\ at' = 1
    /\ text' = Texts(record)
    /\ UNCHANGED <<utc, sensor, zone, screen, doing, arg, forced, ptr, snap>>

\* After the last region the callback returns, and setup attaches the timer.
NextRegion ==
    IF at < Len(Regions)
      THEN at' = at + 1 /\ step' = "test" /\ UNCHANGED forced
      ELSE at' = 1 /\ step' = "idle" /\ forced' = FALSE

\* Mutant of Test: the region is cleared before the strings are compared.
Test_ClearsFirst ==
    /\ step = "test" /\ TimerMayRun
    /\ lcd' = [lcd EXCEPT ![Regions[at]] = Blank]
    /\ IF text[Regions[at]] = cached[Regions[at]]
         THEN NextRegion
         ELSE step' = "write" /\ UNCHANGED <<at, forced>>
    /\ UNCHANGED <<utc, sensor, zone, record, cached, doing, arg, ptr, snap,
                   text>>

\* A region whose string is the one last drawn is left; another is cleared.
Test ==
    /\ step = "test" /\ TimerMayRun
    /\ LET n == Regions[at] IN
         IF text[n] = cached[n]
           THEN NextRegion /\ UNCHANGED lcd
           ELSE /\ step' = "write"
                /\ lcd' = [lcd EXCEPT ![n] = Blank]
                /\ UNCHANGED <<at, forced>>
    /\ UNCHANGED <<utc, sensor, zone, record, cached, doing, arg, ptr, snap,
                   text>>

Write ==
    /\ step = "write" /\ TimerMayRun
    /\ step' = "keep"
    /\ lcd' = [lcd EXCEPT ![Regions[at]] = text[Regions[at]]]
    /\ UNCHANGED <<utc, sensor, zone, record, cached, doing, arg, forced, ptr,
                   snap, text, at>>

\* Mutant of Keep: one region drawn stands for all of them.
Keep_All ==
    /\ step = "keep" /\ TimerMayRun
    /\ cached' = text
    /\ NextRegion
    /\ UNCHANGED <<utc, sensor, zone, record, lcd, doing, arg, ptr, snap,
                   text>>

Keep ==
    /\ step = "keep" /\ TimerMayRun
    /\ cached' = [cached EXCEPT ![Regions[at]] = text[Regions[at]]]
    /\ NextRegion
    /\ UNCHANGED <<utc, sensor, zone, record, lcd, doing, arg, ptr, snap,
                   text>>

Timer == Start \/ Convert \/ Copy \/ Compare \/ Update \/ Compose \/ Test
         \/ Write \/ Keep

-----------------------------------------------------------------------------
(* update_local_sensor_data and handle_sensor_data_post *)

\* The field each of them assigns first.
First == [local |-> "humidity", remote |-> "temperature"]

Begins(w, work, next) ==
    /\ WriterMayRun(w) /\ Waiting(w) /\ work \in Work[w]
    /\ doing' = [doing EXCEPT ![w] = next]

Continues(w, from, next) ==
    /\ WriterMayRun(w) /\ doing[w] = from
    /\ doing' = [doing EXCEPT ![w] = next]

Measure(w, s, r) ==
    /\ Begins(w, s, s)
    /\ arg' = [arg EXCEPT ![w] = r]
    /\ sensor' = [sensor EXCEPT ![s][First[s]] = r[First[s]]]
    /\ UNCHANGED <<utc, zone, screen, timer>>

EndMeasure(w, s) ==
    /\ Continues(w, s, "ready")
    /\ sensor' = [sensor EXCEPT ![s] = arg[w]]
    /\ arg' = [arg EXCEPT ![w] = NoReading]
    /\ UNCHANGED <<utc, zone, screen, timer>>

-----------------------------------------------------------------------------
(* setTime and setTimeZone *)

SetTime(w, t) ==
    /\ Begins(w, "time", "time")
    /\ arg' = [arg EXCEPT ![w] = t]
    /\ utc' \in ToUTC(tz, t)
    /\ UNCHANGED <<sensor, zone, screen, timer>>

EndSetTime(w) ==
    /\ Continues(w, "time", "ready")
    /\ \E l \in ToLocal(tz, arg[w]) : record' = [record EXCEPT !.time = l]
    /\ arg' = [arg EXCEPT ![w] = NoReading]
    /\ UNCHANGED <<utc, sensor, zone, cached, lcd, timer>>

DeleteZone(w, z) ==
    /\ Begins(w, "zone", "new")
    /\ arg' = [arg EXCEPT ![w] = z]
    /\ live' = live \ {tz}
    /\ UNCHANGED <<utc, sensor, tz, rules, screen, timer>>

NewZone(w, o) ==
    /\ Continues(w, "new", "stamp")
    /\ o \notin live
    /\ tz' = o /\ live' = live \cup {o}
    /\ rules' = [rules EXCEPT ![o] = arg[w]]
    /\ UNCHANGED <<utc, sensor, screen, arg, timer>>

EndSetTimeZone(w) ==
    /\ Continues(w, "stamp", "ready")
    /\ \E l \in ToLocal(tz, utc) : record' = [record EXCEPT !.time = l]
    /\ arg' = [arg EXCEPT ![w] = NoReading]
    /\ UNCHANGED <<utc, sensor, zone, cached, lcd, timer>>

Writer(w) ==
    \/ \E s \in Sensors, r \in Readings : Measure(w, s, r)
    \/ \E s \in Sensors : EndMeasure(w, s)
    \/ \E t \in Times : SetTime(w, t)
    \/ \E z \in Zones : DeleteZone(w, z)
    \/ \E o \in Heap : NewZone(w, o)
    \/ EndSetTime(w) \/ EndSetTimeZone(w)

-----------------------------------------------------------------------------
Minute ==
    /\ utc' = (utc + 1) % Clock
    /\ UNCHANGED <<sensor, zone, screen, doing, arg, timer>>

\* server_begin when it calls update_display(true).
Init ==
    /\ utc \in Times
    /\ sensor = [s \in Sensors |-> NoReading]
    /\ tz \in Heap /\ live = {tz}
    /\ \E z \in Zones : rules = [o \in Heap |-> z]
    /\ record = NoRecord
    /\ cached = [n \in Names |-> Blank] /\ lcd = cached
    /\ doing = [w \in Writers |-> "ready"]
    /\ arg = [w \in Writers |-> NoReading]
    /\ step = "convert" /\ forced = TRUE
    /\ ptr = tz /\ snap = [time |-> utc, reading |-> sensor]
    /\ text = cached /\ at = 1

Next == Timer \/ (\E w \in Writers : Writer(w)) \/ Minute

Spec == Init /\ [][Next]_vars

-----------------------------------------------------------------------------
\* The thread that uses the zone always finds it there: between the delete of
\* setTimeZone and its new nobody converts a time, the timer's callback and
\* another request included.
NoUseAfterFree ==
    /\ step = "convert" => ptr \in live
    /\ \A w \in Writers : doing[w] \in {"time", "stamp"} => tz \in live

\* What update_display calls a snapshot is one: each sensor's temperature and
\* humidity come from one report.
SnapshotIsWhole ==
    step \in {"compare", "update"} =>
      \A s \in Sensors : snap.reading[s] \in Readings \cup {NoReading}

\* A region shows what the Display remembers of it, but for the one that is
\* being drawn: a draw that is left out was not needed.
RegionsKept ==
    \A i \in DOMAIN Regions :
        lcd[Regions[i]] = cached[Regions[i]]
          \/ (step \in {"write", "keep"} /\ i = at)

-----------------------------------------------------------------------------
(* Refinement. *)

\* A report counts from its first assignment on, a record from the moment it
\* is taken.
Outside == INSTANCE Screen WITH
    Unread  <- NoReading,
    reading <- [s \in Sensors |->
                  IF \E w \in Writers : doing[w] = s
                    THEN arg[CHOOSE w \in Writers : doing[w] = s]
                    ELSE sensor[s]],
    shown   <- IF step \in {"compose", "test", "write", "keep"}
                 THEN Texts(record) ELSE lcd

\* Steps of the callback and of the thread, and the clearing and writing of
\* one region after the other, amount to whole reports and whole records.
ScreenSpec == Outside!Spec

=============================================================================
