--------------------------- MODULE MCDisplayUpdate ---------------------------
EXTENDS DisplayUpdate, TLC

CONSTANTS thread,    \* the ESP8266's one thread
          a1, a2     \* addresses

OneThread == {thread}
AllWork   == thread :> {"local", "remote", "time", "zone"}
=============================================================================
