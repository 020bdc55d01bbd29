------------------------------ MODULE Backlight ------------------------------
(***************************************************************************)
(* The LCD backlight of the base station: the PWM level follows the light  *)
(* sensor with a hysteresis, and a button raises it while it is held.      *)
(* Two callers share the state: the display timer (adjust_back_light) and  *)
(* the main loop (handle_backlight_button).                                *)
(*                                                                         *)
(* Source: weather_station_base/weather_station_base_class.cpp.            *)
(***************************************************************************)
EXTENDS Integers

CONSTANT Lights          \* the values analogRead(A0) returns

ASSUME LightsAssumption == Lights \subseteq 0..1023

VARIABLES
    level,        \* m_backlight_level, the level written to the PWM pin
    last_light,   \* m_last_light_level, the reading that level was set for
    boost         \* m_boost_backlight, the button was down when last polled

vars == <<level, last_light, boost>>

-----------------------------------------------------------------------------
Hysteresis  == 10
Boost       == 128
FullLevel   == 511

Abs(x) == IF x < 0 THEN -x ELSE x

\* Integer division of C, which truncates towards zero.
CDiv(x, y) == IF x < 0 THEN -((-x) \div y) ELSE x \div y

\* map(light, 10, 900, 25, 200) of the Arduino core.
MapLight(light) == CDiv((light - 10) * (200 - 25), 900 - 10) + 25

\* set_backlight_level's limits.
Clamp(l) == IF l > 1023 THEN 1023 ELSE IF l < 0 THEN 0 ELSE l

Level(light, boosted) ==
    Clamp(MapLight(light) + IF boosted THEN Boost ELSE 0)

-----------------------------------------------------------------------------
\* The constructor's values, written to the pin by server_begin.
InitialLight == level = FullLevel /\ last_light = 0 /\ boost = FALSE

Reset == level' = FullLevel /\ last_light' = 0 /\ boost' = FALSE

\* Mutants of Adjust: any change of the reading counts, and the level is
\* remembered in the place of the reading.
Adjust_NoHysteresis(light, boosted, force) ==
    IF force \/ light # last_light
      THEN level' = Level(light, boosted) /\ last_light' = light
      ELSE UNCHANGED <<level, last_light>>

Adjust_RemembersLevel(light, boosted, force) ==
    IF force \/ Abs(light - last_light) > Hysteresis
      THEN /\ level' = Level(light, boosted)
           /\ last_light' = Level(light, boosted)
      ELSE UNCHANGED <<level, last_light>>

\* adjust_back_light(force) when the sensor reads light and the button's
\* state is boosted.
Adjust(light, boosted, force) ==
    IF force \/ Abs(light - last_light) > Hysteresis
      THEN level' = Level(light, boosted) /\ last_light' = light
      ELSE UNCHANGED <<level, last_light>>

\* The timer's call, from update_display.
TimerAdjust(light) == Adjust(light, boost, FALSE) /\ UNCHANGED boost

\* Mutant of HandleButton: the edge does not force the adjustment.
HandleButton_NotForced(pressed, light) ==
    IF pressed # boost
      THEN boost' = pressed /\ Adjust(light, pressed, FALSE)
      ELSE UNCHANGED vars

\* handle_backlight_button: an edge of the button forces an adjustment.
HandleButton(pressed, light) ==
    IF pressed # boost
      THEN boost' = pressed /\ Adjust(light, pressed, TRUE)
      ELSE UNCHANGED vars

Init == InitialLight

Next == \E light \in Lights :
            \/ TimerAdjust(light)
            \/ \E pressed \in BOOLEAN : HandleButton(pressed, light)

Spec == Init /\ [][Next]_vars

-----------------------------------------------------------------------------
TypeOK == /\ level \in 0..1023
          /\ last_light \in Lights \cup {0}
          /\ boost \in BOOLEAN

\* Whichever caller set the level last, it is the level of the remembered
\* light reading and of the button's remembered state: no order of timer
\* ticks and button edges leaves the backlight boosted after the button is
\* released, or dimmed while it is held.
LevelMatchesInputs ==
    \/ InitialLight
    \/ level = Level(last_light, boost)

\* Between two steps the level moves only for a reason: the light moved by
\* more than the hysteresis since the level was last set, or the button
\* changed.  The sensor's noise never makes the backlight flicker.
NoFlicker ==
    [][level' # level =>
          \/ boost' # boost
          \/ Abs(last_light' - last_light) > Hysteresis]_vars
=============================================================================
