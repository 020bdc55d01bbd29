----------------------------- MODULE MCBacklight -----------------------------
EXTENDS Backlight

\* A grid over the sensor's range one hysteresis apart, with the neighbours of
\* 0, of both ends of the mapped range 10..900, and of the middle: readings
\* that differ by 9, by 10 and by 11 all occur.
MCLights == {10 * i : i \in 0..102}
              \cup {1, 9, 11, 12, 21, 22, 511, 512, 899, 901, 1022, 1023}
=============================================================================
