-------------------------------- MODULE Remote --------------------------------
(***************************************************************************)
(* The remote sensor and the way of its reports to the base station: the   *)
(* remote wakes, measures once, joins the access point, posts and sleeps   *)
(* again without waiting for an answer; the base accepts connections at    *)
(* any time, keeps them in the order they came, and serves one in each     *)
(* pass of its loop, which may have to wait for other things in between.   *)
(* A report is written in pieces, of which a beginning may be all that     *)
(* arrives.  The base may restart at any time.                             *)
(*                                                                         *)
(* Source: esp8266_weather_station_remote.ino, shared/wifi_station.cpp;    *)
(* handle_sensor_data_post and loop of weather_station_base_class.cpp;     *)
(* esp8266_sim/Parsing.cpp, WiFiServer.cpp and WiFiClient.cpp.             *)
(***************************************************************************)
EXTENDS Naturals, Sequences

CONSTANTS
    Values,       \* what a sensor measures: temperature with humidity
    NaN,          \* a read that failed
    Junk,         \* what C may make of (int)NaN
    Unread,       \* what a sensor_data is constructed with
    Zero,         \* what toInt() makes of two missing arguments
    None,         \* no connection
    Retries,      \* the tries of connect_wifi (40)
    MaxWakes, MaxWaiting    \* bounds: wakes; connections not yet served

ASSUME RemoteAssumption ==
    /\ Retries \in Nat /\ MaxWakes \in Nat /\ MaxWaiting \in Nat \ {0}
    /\ {NaN, Unread} \cap (Values \cup Junk) = {} /\ None \notin Nat
    /\ {"nothing", "line", "length"} \cap (Values \cup Junk) = {}

VARIABLES
    \* The remote.
    at,           \* where setup() is
    wakes,        \* how often it woke
    measured,     \* temp_f and humidity
    tries,        \* attempts of connect_wifi
    linked,       \* it is associated with the access point
    client,       \* its WiFiClient: None, or the connection's wake
    written,      \* the request is in its TCP buffer
    \* The base.
    up,           \* it runs, with its access point
    loop,         \* what its loop() is at
    unclaimed,    \* accepted connections by their wakes, the oldest first
    serving,      \* the connection it serves
    got,          \* how much of the report has arrived on each connection
    stored,       \* m_current_remote_sensor_data
    \* History.
    storedIn,     \* the wake the stored reading was measured in; 0 is none
    history       \* what was measured in each wake

remote == <<at, wakes, measured, tries, linked, client, written>>
base   == <<up, loop, unclaimed, serving, got, stored>>
vars   == <<remote, base, storedIn, history>>

-----------------------------------------------------------------------------
(* The remote: setup *)

\* String((int)temperature)
Posted(v) == IF v = NaN THEN Junk ELSE {v}

\* deepSleep ends in a restart.
Wake ==
    /\ at = "asleep" /\ wakes < MaxWakes
    /\ at' = "read" /\ wakes' = wakes + 1 /\ tries' = 0
    /\ UNCHANGED <<measured, linked, client, written, base, storedIn, history>>

Read ==
    /\ at = "read" /\ at' = "join"
    /\ measured' \in Values \cup {NaN}
    /\ history' = [history EXCEPT ![wakes] = measured']
    /\ UNCHANGED <<wakes, tries, linked, client, written, base, storedIn>>

\* Mutant of Try: the attempts are not counted.
Try_Forever ==
    /\ at = "join" /\ ~linked /\ tries < Retries
    /\ UNCHANGED vars

Try ==
    /\ at = "join" /\ ~linked /\ tries < Retries
    /\ tries' = tries + 1
    /\ UNCHANGED <<at, wakes, measured, linked, client, written, base,
                   storedIn, history>>

EndJoin ==
    /\ at = "join" /\ (linked \/ tries = Retries)
    /\ at' = IF linked THEN "connect" ELSE "sleep"
    /\ UNCHANGED <<wakes, measured, tries, linked, client, written, base,
                   storedIn, history>>

\* Mutant of Accepted: a new connection comes before those that wait.
Accepted_First == <<wakes>> \o unclaimed

\* WiFiServer::_accept
Accepted == Append(unclaimed, wakes)

Connect ==
    /\ at = "connect" /\ linked /\ Len(unclaimed) < MaxWaiting
    /\ at' = "post"
    /\ client' = wakes
    /\ unclaimed' = Accepted
    /\ UNCHANGED <<wakes, measured, tries, linked, written, up, loop, serving,
                   got, stored, storedIn, history>>

\* The simulator's connect returns an error's number, which is not 0, so that
\* the sketch goes on to post.
FailToConnect ==
    /\ at = "connect"
    /\ at' \in {"post", "stop"}
    /\ UNCHANGED <<wakes, measured, tries, linked, client, written, base,
                   storedIn, history>>

\* The println calls of sendSensorData: without a connection they write
\* nothing.
Post ==
    /\ at = "post" /\ at' = "stop"
    /\ written' = (client # None)
    /\ UNCHANGED <<wakes, measured, tries, linked, client, base, storedIn,
                   history>>

Stop ==
    /\ at = "stop" /\ at' = "sleep"
    /\ client' = None
    /\ UNCHANGED <<wakes, measured, tries, linked, written, base, storedIn,
                   history>>

\* Whatever has not been sent by then is lost.
DeepSleep ==
    /\ at = "sleep" /\ at' = "asleep"
    /\ linked' = FALSE /\ written' = FALSE /\ measured' = NaN
    /\ UNCHANGED <<wakes, tries, client, base, storedIn, history>>

Setup == Wake \/ Read \/ Try \/ EndJoin \/ Connect \/ FailToConnect \/ Post
         \/ Stop \/ DeepSleep

-----------------------------------------------------------------------------
(* The air. *)

Associate ==
    /\ at = "join" /\ up /\ ~linked
    /\ linked' = TRUE
    /\ UNCHANGED <<at, wakes, measured, tries, client, written, base,
                   storedIn, history>>

\* The report, when all of it has arrived.
Whole == Values \cup Junk

\* What may have arrived next: the request's first line, the header with the
\* length of its body, and the body.  Each is a call of print, which the
\* network does not divide.
After(part, v) ==
    CASE part = "nothing" -> "line"
      [] part = "line"    -> "length"
      [] part = "length"  -> v
      [] OTHER            -> part

\* The next part arrives, while the remote is still awake; for a connection
\* that the base is done with, nothing does.
Deliver ==
    /\ written /\ linked
    /\ wakes \in {serving} \cup {unclaimed[i] : i \in DOMAIN unclaimed}
    /\ got[wakes] \notin Whole
    /\ \E v \in Posted(measured) :
         got' = [got EXCEPT ![wakes] = After(@, v)]
    /\ UNCHANGED <<remote, up, loop, unclaimed, serving, stored, storedIn,
                   history>>

-----------------------------------------------------------------------------
(* The base: loop *)

\* Mutant of Serve: claiming one connection forgets the others.
Serve_DropsRest ==
    /\ up /\ loop = "serve"
    /\ IF unclaimed = <<>>
         THEN loop' = "rest" /\ UNCHANGED <<unclaimed, serving>>
         ELSE /\ loop' = "parse"
              /\ serving' = Head(unclaimed) /\ unclaimed' = <<>>
    /\ UNCHANGED <<remote, up, got, stored, storedIn, history>>

\* WiFiServer::available, at the start of handleClient.
Serve ==
    /\ up /\ loop = "serve"
    /\ IF unclaimed = <<>>
         THEN loop' = "rest" /\ UNCHANGED <<unclaimed, serving>>
         ELSE /\ loop' = "parse"
              /\ serving' = Head(unclaimed) /\ unclaimed' = Tail(unclaimed)
    /\ UNCHANGED <<remote, up, got, stored, storedIn, history>>

\* handle_sensor_data_post
Store(reading) == stored' = reading /\ storedIn' = serving

HandleReport ==
    /\ up /\ loop = "parse" /\ got[serving] \in Whole
    /\ loop' = "rest" /\ serving' = None
    /\ Store(got[serving])
    /\ UNCHANGED <<remote, up, unclaimed, got, history>>

\* Mutant of TimeOut: a body that is too short is taken for none.
TimeOut_TakesShort ==
    /\ up /\ loop = "parse" /\ got[serving] \notin Whole
    /\ loop' = "rest" /\ serving' = None
    /\ \/ got[serving] = "nothing" /\ UNCHANGED <<stored, storedIn>>
       \/ got[serving] \in {"line", "length"} /\ Store(Zero)
    /\ UNCHANGED <<remote, up, unclaimed, got, history>>

\* The library waits no longer for the rest.  Without a first line, or with a
\* body shorter than its length, there is no request; but where the headers
\* end before the length there is one without a body, so that the handler is
\* called and finds no argument.
TimeOut ==
    /\ up /\ loop = "parse" /\ got[serving] \notin Whole
    /\ loop' = "rest" /\ serving' = None
    /\ \/ got[serving] \in {"nothing", "length"}
         /\ UNCHANGED <<stored, storedIn>>
       \/ got[serving] = "line" /\ Store(Zero)
    /\ UNCHANGED <<remote, up, unclaimed, got, history>>

\* The rest of the pass, with all its waits.
EndPass ==
    /\ up /\ loop = "rest" /\ loop' = "serve"
    /\ UNCHANGED <<remote, up, unclaimed, serving, got, stored, storedIn,
                   history>>

Loop == Serve \/ HandleReport \/ TimeOut \/ EndPass

Crash ==
    /\ up
    /\ up' = FALSE /\ loop' = "serve" /\ unclaimed' = <<>> /\ serving' = None
    /\ stored' = Unread /\ storedIn' = 0
    /\ linked' = FALSE /\ written' = FALSE
    /\ UNCHANGED <<at, wakes, measured, tries, client, got, history>>

Start ==
    /\ ~up /\ up' = TRUE
    /\ UNCHANGED <<remote, loop, unclaimed, serving, got, stored, storedIn,
                   history>>

-----------------------------------------------------------------------------
Init ==
    /\ at = "asleep" /\ wakes = 0 /\ measured = NaN /\ tries = 0
    /\ linked = FALSE /\ client = None /\ written = FALSE
    /\ up = TRUE /\ loop = "serve" /\ unclaimed = <<>> /\ serving = None
    /\ got = [w \in 1..MaxWakes |-> "nothing"]
    /\ stored = Unread /\ storedIn = 0
    /\ history = [w \in 1..MaxWakes |-> Unread]

Next == Setup \/ Associate \/ Deliver \/ Loop \/ Crash \/ Start

Spec == Init /\ [][Next]_vars

\* setup() and loop() run on while their device does; the calls that wait do
\* so for a bounded time.
FairSpec == Spec /\ WF_vars(Setup) /\ WF_vars(Loop)

-----------------------------------------------------------------------------
TypeOK ==
    /\ at \in {"asleep", "read", "join", "connect", "post", "stop", "sleep"}
    /\ wakes \in 0..MaxWakes
    /\ measured \in Values \cup {NaN}
    /\ tries \in 0..Retries
    /\ linked \in BOOLEAN /\ written \in BOOLEAN /\ up \in BOOLEAN
    /\ client \in 1..MaxWakes \cup {None}
    /\ loop \in {"serve", "parse", "rest"}
    /\ unclaimed \in Seq(1..MaxWakes) /\ Len(unclaimed) <= MaxWaiting
    /\ serving \in 1..MaxWakes \cup {None}
    /\ got \in [1..MaxWakes -> Whole \cup {"nothing", "line", "length"}]
    /\ stored \in Whole \cup {Unread, Zero}
    /\ storedIn \in 0..MaxWakes
    /\ history \in [1..MaxWakes -> Values \cup {NaN, Unread}]

\* What the base holds is what the remote measured in the wake it is taken
\* for, or nothing, or zeros; and zeros that were not measured are those of a
\* report that broke off behind its first line and before its length.  No
\* report that did not begin, and none that lacks a part of its body, is
\* stored, and none is stored with what another left behind.
StoredIsOwn ==
    IF storedIn = 0 THEN stored = Unread
    ELSE \/ stored \in Posted(history[storedIn])
         \/ stored = Zero /\ got[storedIn] = "line"

\* While the base runs, a report never replaces a later one, though several
\* may wait for a base that is busy.
NeverOlder ==
    [][storedIn' # storedIn => storedIn' > storedIn \/ ~up']_vars

\* A report that arrived whole is stored, or a later one is, unless the base
\* restarts first.
ArrivedIsStored ==
    \A w \in 1..MaxWakes :
        (got[w] \in Whole /\ \E i \in DOMAIN unclaimed : unclaimed[i] = w)
          ~> (storedIn >= w \/ ~up)

\* Whatever the network does, the remote goes back to sleep.
SleepsAgain == (at # "asleep") ~> (at = "asleep")
=============================================================================
