----------------------------- MODULE MCIntervals -----------------------------
EXTENDS Intervals

\* Interval + MaxGap is as large as Half allows; Horizon lets the counter wrap
\* and change its sign three times each.
=============================================================================
