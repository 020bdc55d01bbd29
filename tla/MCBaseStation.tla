---------------------------- MODULE MCBaseStation ----------------------------
EXTENDS BaseStation, TLC

CONSTANTS home, away, huge,    \* networks: in range, out of range, too long
          utc, east,           \* zones
          r1, r2               \* readings

OneZone   == {utc}
OneCred   == {home}
TwoCreds  == {home, away}
AllCreds  == {home, away, huge}
HomeOnly  == {home}
HugeOnly  == {huge}
TwoZones  == {utc, east}
MCOffset  == (utc :> 0) @@ (east :> 1)
OneOffset == (utc :> 0)
OneLight  == {100}
TwoLights == {100, 900}
=============================================================================
