------------------------------ MODULE Intervals ------------------------------
(***************************************************************************)
(* The intervals of update_local_sensor_data and update_time: a call of    *)
(* loop() updates when the interval has passed on a millisecond counter    *)
(* that wraps and is kept in a signed integer of its width.                *)
(*                                                                         *)
(* The subtraction of the stamps may overflow; both builds then yield the  *)
(* difference modulo the width.                                            *)
(*                                                                         *)
(* Source: weather_station_base/weather_station_base_class.cpp; millis()   *)
(* is external.                                                            *)
(***************************************************************************)
EXTENDS Integers

CONSTANTS
    Half,        \* time_t holds -Half..Half - 1 (2^31)
    Interval,    \* LOCAL_SENSOR_ or UPDATE_TIME_UPDATE_INTERVAL_MS
    MaxGap,      \* the longest a call of loop() takes
    Horizon      \* bound of the clock

ASSUME IntervalAssumption ==
    /\ Half \in Nat /\ Interval \in Nat \ {0} /\ MaxGap \in Nat
    /\ Interval + MaxGap < Half
    /\ Horizon \in Nat

VARIABLES
    clock,       \* the milliseconds since the start
    last_update, \* m_last_local_sensor_update or m_last_time_update
    \* History variables:
    updated,     \* when the last update was
    checked      \* when loop() last came by

vars == <<clock, last_update, updated, checked>>

-----------------------------------------------------------------------------
\* What a time_t makes of a number.
TimeT(n) == ((n + Half) % (2 * Half)) - Half

\* Mutant of CurrentTime: it holds millis() as it is.
CurrentTime_Unsigned == clock % (2 * Half)

\* millis() as current_time holds it.
CurrentTime == TimeT(clock)

\* Mutant of Passed: time_t is wider than millis().
Passed_Wider == (clock % (2 * Half)) - (last_update % (2 * Half)) >= Interval

Passed == TimeT(CurrentTime - last_update) >= Interval

\* Mutant of Update: the stamp is left alone.
Update_KeepsStamp ==
    /\ updated' = clock /\ checked' = clock
    /\ UNCHANGED <<clock, last_update>>

Update ==
    /\ last_update' = CurrentTime
    /\ updated' = clock /\ checked' = clock
    /\ UNCHANGED clock

\* The call that loop() makes.
Check ==
    \/ Passed /\ Update
    \/ ~Passed /\ checked' = clock /\ UNCHANGED <<clock, last_update, updated>>

\* The calls of setup and of setWiFiConfig, with update_now.
UpdateNow == Update

Elapse ==
    /\ clock < Horizon /\ clock - checked < MaxGap
    /\ clock' = clock + 1
    /\ UNCHANGED <<last_update, updated, checked>>

\* The constructor's stamps.
Init ==
    /\ clock = 0
    /\ last_update = CurrentTime /\ updated = clock /\ checked = clock

Next == Check \/ UpdateNow \/ Elapse

Spec == Init /\ [][Next]_vars

-----------------------------------------------------------------------------
TypeOK ==
    /\ clock \in Nat /\ last_update \in -Half..(Half - 1)
    /\ updated \in 0..clock /\ checked \in 0..clock

\* No wrap of millis() and no change of its sign makes loop() miss an update:
\* the next one is at most an interval and one call of loop() away.
UpdatesInTime == clock - updated < Interval + MaxGap

\* Nor does any make it update early.
NotTooOften ==
    [][Check /\ updated' # updated => clock - updated >= Interval]_vars
=============================================================================
