----------------------------- MODULE WifiStation -----------------------------
(***************************************************************************)
(* The station half of the radio: the network it was told to join and      *)
(* whether it is associated.  The SDK keeps trying to join, and rejoins    *)
(* after a lost link, until WiFi.disconnect() makes it forget the network. *)
(*                                                                         *)
(* Source: shared/wifi_station.cpp.  The SDK (WiFi.begin, status and       *)
(* disconnect) is external and is modelled from how that file uses it.     *)
(***************************************************************************)

CONSTANTS
    Creds,         \* pairs of SSID and password
    GoodCreds,     \* those some network in range accepts
    NoCred         \* the station has no network to join

VARIABLE sta       \* sta.cred: the network to join; sta.up: associated

StationTypeOK == sta \in [cred : Creds \cup {NoCred}, up : BOOLEAN]

-----------------------------------------------------------------------------
Down == [cred |-> NoCred, up |-> FALSE]

\* WiFi.disconnect()
Disconnect == sta' = Down

\* WiFi.begin(cred): nothing new for a station already in that network.
Begin(cred) ==
    sta' = IF sta.cred = cred THEN sta ELSE [cred |-> cred, up |-> FALSE]

\* disconnect_wifi() and then the WiFi.begin of connect_wifi.
Restart(cred) == sta' = [cred |-> cred, up |-> FALSE]

\* The end of connect_wifi's wait, with its result: it is joined when the
\* status was last read, or the attempts ran out and the station gives up.
JoinEnds(joined) ==
    /\ sta.up = joined
    /\ IF joined THEN UNCHANGED sta ELSE Disconnect

\* The SDK associates, and the link goes down.
LinkUp == sta.cred \in GoodCreds /\ ~sta.up /\ sta' = [sta EXCEPT !.up = TRUE]
LinkDrop == sta.up /\ sta' = [sta EXCEPT !.up = FALSE]
=============================================================================
