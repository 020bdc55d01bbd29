----------------------------- MODULE BaseStation -----------------------------
(***************************************************************************)
(* The base station's firmware as the ESP8266 runs it.                     *)
(*                                                                         *)
(* setup() and loop() are one cooperative thread, followed by pc.  The     *)
(* display timer's callback (Tick) runs only where that thread gives the   *)
(* processor away: inside delay() and the network calls, and between two   *)
(* calls of loop().  The environment changes the radio link, the clocks    *)
(* and the power supply at any moment, so each wait of the thread and the  *)
(* one gap inside a save of the configuration are states of their own.     *)
(*                                                                         *)
(* Source: weather_station_base/weather_station_base_class.cpp, with the   *)
(* functions of shared/ and display_data.cpp it calls.                     *)
(***************************************************************************)
EXTENDS Integers

CONSTANTS
    Creds, GoodCreds, BigCreds, DefaultCred, NoCred,   \* see WifiStation
    Zones, DefaultZone, NoZone,                        \* see ConfigFile
    Absent, Cut, Failed,
    Offset,      \* the offset from UTC of each zone, in minutes
    Day,         \* the clocks count minutes modulo Day
    NoTime,      \* an RTC that is not attached, or lost its time
    HasRtc,      \* an RTC is attached
    Readings,    \* pairs of temperature and humidity, as integers
    Unread,      \* the pair a sensor_data is constructed with (0xffff)
    NaN,         \* a failed read of the DHT
    Garbage,     \* what the conversion of NaN to int yields
    MaxReads,    \* attempts at reading the DHT (5)
    Lights,      \* see Backlight
    Blank,       \* nothing has been drawn yet
    Null,        \* no object (m_tz), no configuration being saved
    Requests     \* the kinds of state-changing request clients make

Times == 0..(Day - 1)
Sensors == Readings \cup {Unread, Garbage}
Shown == [time : Times, local : Sensors, remote : Sensors]

ASSUME BaseAssumption ==
    /\ Day \in Nat \ {0}
    /\ Offset \in [Zones -> Int]
    /\ NoTime \notin Times
    /\ HasRtc \in BOOLEAN
    /\ NaN \notin Readings
    /\ MaxReads \in Nat \ {0}
    /\ Lights \subseteq 0..1023
    /\ Requests \subseteq {"report", "time", "zone", "wifi"}

\* No sentinel is one of the values it stands beside.
ASSUME ConfigAssumption ==
    /\ GoodCreds \subseteq Creds /\ BigCreds \subseteq Creds
    /\ DefaultCred \in Creds \ BigCreds /\ NoCred \notin Creds
    /\ DefaultZone \in Zones /\ NoZone \notin Zones /\ Null \notin Zones
    /\ Absent # Cut
    /\ {Absent, Cut, Failed, Null}
          \cap [wifi : Creds, zone : Zones \cup {NoZone}] = {}
    /\ Blank \notin Shown

VARIABLES
    pc,              \* where the thread is, or "off"
    caller,          \* who called update_time and update_local_sensor_data
    ap,              \* the access point runs
    cfg,             \* m_host_ssid ... m_dst_offset
    pending,         \* the configuration a save is writing
    file,            \* the configuration file
    tz,              \* the rules m_tz was built from
    wifi_connected,  \* m_wifi_connected
    sta,             \* the station half of the radio
    sys_time,        \* the clock of the Time library, UTC
    rtc,             \* the battery-backed clock, UTC
    time_due,        \* 15 minutes have passed since m_last_time_update
    sensor_due,      \* a minute has passed since m_last_local_sensor_update
    tries, sample,   \* the read loop of update_local_sensor_data
    local,           \* m_current_local_sensor_data
    remote,          \* m_current_remote_sensor_data
    last_display,    \* m_last_display_data
    lcd,             \* what the LCD shows
    level, last_light, boost   \* see Backlight

control == <<pc, caller>>
config  == <<cfg, pending, file, tz>>
radio   == <<ap, wifi_connected, sta>>
clocks  == <<sys_time, rtc>>
due     == <<time_due, sensor_due>>
dht     == <<tries, sample, local>>
screen  == <<last_display, lcd>>
light   == <<level, last_light, boost>>

vars == <<control, config, radio, clocks, due, dht, remote, screen, light>>

Cf  == INSTANCE ConfigFile
Sta == INSTANCE WifiStation
Bl  == INSTANCE Backlight

-----------------------------------------------------------------------------
\* Where the thread waits, and with it the timer's callback may run.
Waits == {"sensor", "dht", "connectTime", "connectConfig", "ntp", "client"}

Pcs == Waits \cup {"off", "connectSetup", "time", "draw", "button",
                   "writeZone", "writeWifi"}

TypeOK ==
    /\ pc \in Pcs
    /\ caller \in {"setup", "loop", "handler"}
    /\ ap \in BOOLEAN
    /\ cfg \in Cf!Config
    /\ pending \in Cf!Config \cup {Null}
    /\ Cf!FileTypeOK
    /\ tz \in Zones \cup {Null}
    /\ wifi_connected \in BOOLEAN
    /\ Sta!StationTypeOK
    /\ sys_time \in Times
    /\ rtc \in Times \cup {NoTime}
    /\ time_due \in BOOLEAN /\ sensor_due \in BOOLEAN
    /\ tries \in 0..MaxReads
    /\ sample \in Readings \cup {NaN}
    /\ local \in Sensors /\ remote \in Sensors
    /\ last_display \in Shown \cup {Blank}
    /\ lcd \in Shown \cup {Blank}
    /\ Bl!TypeOK

\* Timezone::toLocal and toUTC within one season of a zone.
ToLocal(zone, t) == (t + Offset[zone]) % Day
ToUTC(zone, t)   == (t - Offset[zone]) % Day

-----------------------------------------------------------------------------
(* Power: RAM is lost, the file and the RTC are not. *)

\* The members as the constructor leaves them, and the LCD dark.
Constructed ==
    /\ caller = "setup" /\ ap = FALSE
    /\ cfg = Cf!DefaultConfig /\ pending = Null /\ tz = Null
    /\ wifi_connected = FALSE /\ sta = Sta!Down
    /\ sys_time = 0 /\ time_due = FALSE /\ sensor_due = FALSE
    /\ tries = 0 /\ sample = NaN /\ local = Unread /\ remote = Unread
    /\ last_display = Blank /\ lcd = Blank
    /\ Bl!InitialLight

\* The same, as the effect of losing the power.
LoseRam ==
    /\ caller' = "setup" /\ ap' = FALSE
    /\ cfg' = Cf!DefaultConfig /\ pending' = Null /\ tz' = Null
    /\ wifi_connected' = FALSE /\ Sta!Disconnect
    /\ sys_time' = 0 /\ time_due' = FALSE /\ sensor_due' = FALSE
    /\ tries' = 0 /\ sample' = NaN /\ local' = Unread /\ remote' = Unread
    /\ last_display' = Blank /\ lcd' = Blank
    /\ Bl!Reset

Init ==
    /\ pc = "off"
    /\ Cf!FileTypeOK
    /\ rtc \in (IF HasRtc THEN Times ELSE {}) \cup {NoTime}
    /\ Constructed

\* start_access_point fails when the SDK refuses the mode or the AP.
StartAccessPoint == ap' \in BOOLEAN

\* server_begin up to connect_wifi's wait: the clock is taken from the RTC,
\* the configuration is loaded and the zone built from it, and setup goes on
\* whether the access point started or not, for reset() does nothing.
PowerOn ==
    /\ pc = "off"
    /\ pc' = "connectSetup"
    /\ sys_time' = IF rtc = NoTime THEN 0 ELSE rtc
    /\ StartAccessPoint
    /\ \E result \in Cf!LoadResults :
          LET loaded == Cf!Loaded(result) IN
            /\ cfg' = loaded
            /\ tz' = loaded.zone
            /\ Sta!Begin(loaded.wifi)
    /\ UNCHANGED <<caller, pending, file, wifi_connected, rtc, due, dht,
                   remote, screen, light>>

PowerLoss ==
    /\ pc # "off"
    /\ pc' = "off"
    /\ LoseRam
    /\ UNCHANGED <<file, rtc>>

RtcLosesTime ==
    /\ pc = "off"
    /\ rtc' = NoTime
    /\ UNCHANGED <<control, config, radio, sys_time, due, dht, remote,
                   screen, light>>

SetRtc(t) == rtc' = IF HasRtc THEN t ELSE rtc

-----------------------------------------------------------------------------
(* update_display, from the timer and from the end of setup. *)

\* display_data::changed; the clocks count minutes, so seconds are ignored.
Changed(now) == now # last_display

\* draw_display: each region whose text differs is drawn again, and the LCD
\* shows the record.
Draw(record) == lcd' = record

\* Mutant of UpdateDisplay: the remote's reading is left out of the comparison.
UpdateDisplay_IgnoresRemote(update_now) ==
    /\ \E l \in Lights : Bl!TimerAdjust(l)
    /\ LET now == [time   |-> ToLocal(tz, sys_time),
                   local  |-> local,
                   remote |-> remote]
       IN  IF \/ update_now
              \/ now.time # last_display.time
              \/ now.local # last_display.local
             THEN last_display' = now /\ lcd' = now
             ELSE UNCHANGED screen

UpdateDisplay(update_now) ==
    /\ \E l \in Lights : Bl!TimerAdjust(l)
    /\ LET now == [time   |-> ToLocal(tz, sys_time),
                   local  |-> local,
                   remote |-> remote]
       IN  IF update_now \/ Changed(now)
             THEN last_display' = now /\ Draw(now)
             ELSE UNCHANGED screen

Tick ==
    /\ caller # "setup"
    /\ pc \in Waits
    /\ UpdateDisplay(FALSE)
    /\ UNCHANGED <<control, config, radio, clocks, due, dht, remote>>

-----------------------------------------------------------------------------
(* update_time *)

\* Where update_time returns to; setup passes on to its first sensor read,
\* loop to handleClient, and setWiFiConfig, inside handleClient, is done.
TimeReturns ==
    /\ pc' = [setup   |-> "sensor",
              loop    |-> "client",
              handler |-> "button"][caller]
    /\ caller' = IF caller = "setup" THEN "setup" ELSE "loop"

\* The early return: only loop lets the interval decide.
SkipTime ==
    /\ pc = "time" /\ caller = "loop" /\ ~time_due
    /\ TimeReturns
    /\ UNCHANGED <<config, radio, clocks, due, dht, remote, screen, light>>

\* Mutant of StartTime: without a connection the update is skipped, and
\* nothing tries to connect again.
StartTime_NoRetry ==
    /\ pc = "time" /\ (caller # "loop" \/ time_due)
    /\ time_due' = FALSE
    /\ IF wifi_connected THEN pc' = "ntp" /\ UNCHANGED caller ELSE TimeReturns
    /\ UNCHANGED <<config, radio, clocks, sensor_due, dht, remote, screen,
                   light>>

StartTime ==
    /\ pc = "time" /\ (caller # "loop" \/ time_due)
    /\ time_due' = FALSE
    /\ IF wifi_connected
         THEN pc' = "ntp" /\ UNCHANGED sta
         ELSE pc' = "connectTime" /\ Sta!Begin(cfg.wifi)
    /\ UNCHANGED <<caller, config, ap, wifi_connected, clocks, sensor_due,
                   dht, remote, screen, light>>

\* Mutant of EndConnect: connect_wifi does not count its attempts.
EndConnect_Unbounded(joined) ==
    /\ joined /\ Sta!JoinEnds(joined)
    /\ \/ /\ pc = "connectConfig"
          /\ pc' = "time" /\ caller' = "handler"
          /\ UNCHANGED wifi_connected
       \/ /\ pc \in {"connectSetup", "connectTime"}
          /\ wifi_connected' = joined
          /\ pc' = IF pc = "connectSetup" THEN "time" ELSE "ntp"
          /\ UNCHANGED caller
    /\ UNCHANGED <<config, ap, clocks, due, dht, remote, screen, light>>

\* The three callers of connect_wifi and what each does with its result:
\* setWiFiConfig drops it.
EndConnect(joined) ==
    /\ Sta!JoinEnds(joined)
    /\ \/ /\ pc = "connectSetup"
          /\ wifi_connected' = joined
          /\ pc' = "time" /\ UNCHANGED caller
       \/ /\ pc = "connectTime"
          /\ wifi_connected' = joined
          /\ IF joined THEN pc' = "ntp" /\ UNCHANGED caller ELSE TimeReturns
       \/ /\ pc = "connectConfig"
          /\ pc' = "time" /\ caller' = "handler"
          /\ UNCHANGED wifi_connected
    /\ UNCHANGED <<config, ap, clocks, due, dht, remote, screen, light>>

\* A reply within the 1.5 seconds of getNtpTime; its stamp is not checked.
NtpReply(t) ==
    /\ pc = "ntp" /\ sta.up
    /\ SetRtc(t) /\ sys_time' = t
    /\ TimeReturns
    /\ UNCHANGED <<config, radio, due, dht, remote, screen, light>>

\* get_time returned 0.
NtpNone ==
    /\ pc = "ntp"
    /\ TimeReturns
    /\ UNCHANGED <<config, radio, clocks, due, dht, remote, screen, light>>

-----------------------------------------------------------------------------
(* update_local_sensor_data *)

SkipSensor ==
    /\ pc = "sensor" /\ caller = "loop" /\ ~sensor_due
    /\ pc' = "time"
    /\ UNCHANGED <<caller, config, radio, clocks, due, dht, remote, screen,
                   light>>

StartSensor ==
    /\ pc = "sensor" /\ (caller = "setup" \/ sensor_due)
    /\ sensor_due' = FALSE
    /\ tries' = 0 /\ sample' = NaN
    /\ pc' = "dht"
    /\ UNCHANGED <<caller, config, radio, clocks, time_due, local, remote,
                   screen, light>>

\* One turn of the loop: a read, then delay(1000).
ReadDht ==
    /\ pc = "dht" /\ sample = NaN /\ tries < MaxReads
    /\ sample' \in Readings \cup {NaN}
    /\ tries' = tries + 1
    /\ UNCHANGED <<control, config, radio, clocks, due, local, remote, screen,
                   light>>

EndSensor ==
    /\ pc = "dht" /\ (sample # NaN \/ tries = MaxReads)
    /\ local' = IF sample = NaN THEN Garbage ELSE sample
    /\ tries' = 0 /\ sample' = NaN
    /\ pc' = IF caller = "setup" THEN "draw" ELSE "time"
    /\ UNCHANGED <<caller, config, radio, clocks, due, remote, screen, light>>

\* Mutant of EndSetup: the timer is attached without a first draw.
EndSetup_NoDraw ==
    /\ pc = "draw"
    /\ pc' = "sensor" /\ caller' = "loop"
    /\ UNCHANGED <<config, radio, clocks, due, dht, remote, screen, light>>

\* The end of setup: the first draw, and the timer is attached.
EndSetup ==
    /\ pc = "draw"
    /\ UpdateDisplay(TRUE)
    /\ pc' = "sensor" /\ caller' = "loop"
    /\ UNCHANGED <<config, radio, clocks, due, dht, remote>>

-----------------------------------------------------------------------------
(* handleClient *)

\* No client, a page (handle_root, handleTime, handleWiFiConfig), or a
\* handler whose arguments are missing: nothing changes.
ServePage ==
    /\ pc = "client"
    /\ pc' = "button"
    /\ UNCHANGED <<caller, config, radio, clocks, due, dht, remote, screen,
                   light>>

\* Mutant of HandleReport: the display record is edited too, as setTime does.
HandleReport_EditsRecord(r) ==
    /\ "report" \in Requests
    /\ pc = "client" /\ ap
    /\ remote' = r
    /\ last_display' = [last_display EXCEPT !.remote = r]
    /\ pc' = "button"
    /\ UNCHANGED <<caller, config, radio, clocks, due, dht, lcd, light>>

\* handle_sensor_data_post; the remote knows the base by its AP address.
HandleReport(r) ==
    /\ "report" \in Requests
    /\ pc = "client" /\ ap
    /\ remote' = r
    /\ pc' = "button"
    /\ UNCHANGED <<caller, config, radio, clocks, due, dht, screen, light>>

\* The administrator's browser, on either side of the radio.
Asked(kind) == kind \in Requests /\ pc = "client" /\ (ap \/ sta.up)

\* Mutant of SetTime: the RTC gets the local time.
SetTime_LocalRtc(t) ==
    /\ Asked("time")
    /\ SetRtc(t) /\ sys_time' = ToUTC(tz, t)
    /\ last_display' = [last_display EXCEPT !.time = ToLocal(tz, t)]
    /\ pc' = "button"
    /\ UNCHANGED <<caller, config, radio, due, dht, remote, lcd, light>>

\* setTime, t being the local time that was typed in.
SetTime(t) ==
    /\ Asked("time")
    /\ SetRtc(ToUTC(tz, t)) /\ sys_time' = ToUTC(tz, t)
    /\ last_display' = [last_display EXCEPT !.time = ToLocal(tz, t)]
    /\ pc' = "button"
    /\ UNCHANGED <<caller, config, radio, due, dht, remote, lcd, light>>

\* Mutant of RebuildZone: the zone is built from what was asked for, not from
\* the members.
RebuildZone_FromRequest(c) ==
    LET zone == IF pending = Null THEN c.zone ELSE pending.zone IN
    /\ cfg' = c
    /\ pending' = Null
    /\ tz' = zone
    /\ last_display' = [last_display EXCEPT !.time = ToLocal(zone, sys_time)]
    /\ pc' = "button"
    /\ UNCHANGED <<caller, radio, clocks, due, dht, remote, lcd, light>>

\* setTimeZone after its save, whatever came of it: c is what the members
\* hold now.
RebuildZone(c) ==
    /\ cfg' = c
    /\ pending' = Null
    /\ tz' = c.zone
    /\ last_display' = [last_display EXCEPT !.time = ToLocal(c.zone, sys_time)]
    /\ pc' = "button"
    /\ UNCHANGED <<caller, radio, clocks, due, dht, remote, lcd, light>>

\* Mutant of Reconnect: the flag stays up over the disconnection.
Reconnect_FlagStays(c) ==
    /\ cfg' = c
    /\ pending' = Null
    /\ IF wifi_connected THEN Sta!Restart(c.wifi) ELSE Sta!Begin(c.wifi)
    /\ pc' = "connectConfig"
    /\ UNCHANGED <<caller, ap, wifi_connected, tz, clocks, due, dht, remote,
                   screen, light>>

\* setWiFiConfig after its save, up to connect_wifi's wait.
Reconnect(c) ==
    /\ cfg' = c
    /\ pending' = Null
    /\ wifi_connected' = FALSE
    /\ IF wifi_connected THEN Sta!Restart(c.wifi) ELSE Sta!Begin(c.wifi)
    /\ pc' = "connectConfig"
    /\ UNCHANGED <<caller, ap, tz, clocks, due, dht, remote, screen, light>>

\* Mutant of StartSave: the members take the new values before they are
\* written.
StartSave_AdoptsFirst(c, next) ==
    /\ Cf!OpenForWrite
    /\ pending' = c /\ cfg' = c
    /\ pc' = next
    /\ UNCHANGED <<caller, tz, radio, clocks, due, dht, remote, screen, light>>

\* Save opens the file; the power can fail before it is written.
StartSave(c, next) ==
    /\ Cf!OpenForWrite
    /\ pending' = c
    /\ pc' = next
    /\ UNCHANGED <<caller, cfg, tz, radio, clocks, due, dht, remote, screen,
                   light>>

SetTimeZone(zone) ==
    /\ Asked("zone")
    /\ \/ StartSave([cfg EXCEPT !.zone = zone], "writeZone")
       \/ UNCHANGED file /\ RebuildZone(cfg)         \* the open failed

SetWiFiConfig(cred) ==
    /\ Asked("wifi")
    /\ \/ StartSave([cfg EXCEPT !.wifi = cred], "writeWifi")
       \/ UNCHANGED file /\ Reconnect(cfg)           \* the open failed

\* Mutants of EndSave: the members take the new values whether they were
\* written or not, and the members do not take them at all.
EndSave_AdoptsAnyway(complete) ==
    /\ pc \in {"writeZone", "writeWifi"}
    /\ Cf!WriteFile(pending, complete)
    /\ IF pc = "writeZone" THEN RebuildZone(pending) ELSE Reconnect(pending)

EndSave_ForgetsMembers(complete) ==
    /\ pc \in {"writeZone", "writeWifi"}
    /\ Cf!WriteFile(pending, complete)
    /\ IF pc = "writeZone" THEN RebuildZone(cfg) ELSE Reconnect(cfg)

\* The members take the new values only when all of it was written.
EndSave(complete) ==
    /\ pc \in {"writeZone", "writeWifi"}
    /\ Cf!WriteFile(pending, complete)
    /\ LET c == IF complete THEN pending ELSE cfg IN
         IF pc = "writeZone" THEN RebuildZone(c) ELSE Reconnect(c)

-----------------------------------------------------------------------------
(* handle_backlight_button, the end of on_loop. *)

PollButton ==
    /\ pc = "button"
    /\ \E pressed \in BOOLEAN, l \in Lights : Bl!HandleButton(pressed, l)
    /\ pc' = "sensor"
    /\ UNCHANGED <<caller, config, radio, clocks, due, dht, remote, screen>>

-----------------------------------------------------------------------------
(* The environment. *)

Minute ==
    /\ IF pc = "off"
         THEN UNCHANGED sys_time
         ELSE sys_time' = (sys_time + 1) % Day
    /\ rtc' = IF rtc = NoTime THEN NoTime ELSE (rtc + 1) % Day
    /\ UNCHANGED <<control, config, radio, due, dht, remote, screen, light>>

TimeElapses ==
    /\ pc # "off" /\ ~time_due
    /\ time_due' = TRUE
    /\ UNCHANGED <<control, config, radio, clocks, sensor_due, dht, remote,
                   screen, light>>

SensorElapses ==
    /\ pc # "off" /\ ~sensor_due
    /\ sensor_due' = TRUE
    /\ UNCHANGED <<control, config, radio, clocks, time_due, dht, remote,
                   screen, light>>

LinkUp ==
    /\ Sta!LinkUp
    /\ UNCHANGED <<control, config, ap, wifi_connected, clocks, due, dht,
                   remote, screen, light>>

LinkDrop ==
    /\ Sta!LinkDrop
    /\ UNCHANGED <<control, config, ap, wifi_connected, clocks, due, dht,
                   remote, screen, light>>

-----------------------------------------------------------------------------
\* What the thread does once setup has begun.
Thread ==
    \/ SkipTime \/ StartTime
    \/ \E joined \in BOOLEAN : EndConnect(joined)
    \/ \E t \in Times : NtpReply(t)
    \/ NtpNone
    \/ SkipSensor \/ StartSensor \/ ReadDht \/ EndSensor \/ EndSetup
    \/ ServePage
    \/ \E r \in Readings : HandleReport(r)
    \/ \E t \in Times : SetTime(t)
    \/ \E zone \in Zones : SetTimeZone(zone)
    \/ \E cred \in Creds : SetWiFiConfig(cred)
    \/ \E complete \in BOOLEAN : EndSave(complete)
    \/ PollButton

Environment ==
    \/ PowerOn \/ PowerLoss \/ RtcLosesTime
    \/ Minute \/ TimeElapses \/ SensorElapses
    \/ LinkUp \/ LinkDrop

Next == Thread \/ Tick \/ Environment

Spec == Init /\ [][Next]_vars

\* The processor runs, so the thread always takes its next step; and a timer
\* event that is due is delivered at the next point where the thread waits,
\* of which every call of loop() has one.
FairSpec == Spec /\ WF_vars(Thread) /\ SF_vars(Tick)

\* The network: the 15 minutes pass again and again, and a station that keeps
\* trying to join a network in range is let in during one of update_time's
\* waits.
Network ==
    /\ WF_vars(TimeElapses)
    /\ SF_vars(pc = "connectTime" /\ LinkUp)
    /\ SF_vars(pc = "connectTime" /\ EndConnect(TRUE))

-----------------------------------------------------------------------------
(* Safety. *)

\* The conversions to local time always use the zone of the configuration in
\* force, also after a save that failed half-way, or at its open: setTimeZone
\* deletes m_tz before it knows what the members became.
ZoneMatchesConfig == pc # "off" => tz = cfg.zone

\* Whenever the file would load, it loads what the station runs with now: no
\* order of saves, failed saves and restarts leaves a readable file behind
\* that brings an older or a never accepted configuration back.
FileAgreesWithMemory == pc # "off" /\ Cf!Loadable => Cf!Loaded(file) = cfg

\* m_wifi_connected is a copy of the radio's state, kept by hand in four
\* places.  The station only ever tries the configured network; and whenever
\* loop() is not inside one of its waits for a connection, the flag says
\* whether the radio still has a network to rejoin by itself.  If they
\* disagreed, update_time would never connect again, or cut a live link.
FlagMatchesRadio ==
    pc # "off" =>
      /\ sta.cred \in {NoCred, cfg.wifi}
      /\ caller = "loop" /\ pc \notin {"connectTime", "connectConfig"}
            => (wifi_connected <=> sta.cred # NoCred)

\* A restart never moves the clock: while the RTC holds a time it is the
\* system's, whoever set it last (NTP, the administrator or the RTC itself).
RtcKeepsTime == pc # "off" /\ rtc # NoTime => rtc = sys_time

\* The comparison that saves redrawing is against what is on the LCD: the
\* readings it remembers are the ones drawn, so a changed reading is drawn.
\* (The time it remembers is another matter: NothingToDrawMeansShown.)
ReadingsShown ==
    lcd # Blank => /\ last_display.local = lcd.local
                   /\ last_display.remote = lcd.remote

\* Requests are served and the timer drawn only once setup() has filled in
\* what they use: no handler or callback converts a time without a zone or
\* edits a display record that was never written.
ServesAfterSetup ==
    caller # "setup" => /\ tz # Null /\ last_display # Blank /\ lcd # Blank
                        /\ pc \notin {"off", "connectSetup", "draw"}

-----------------------------------------------------------------------------
(* Steps. *)

\* The configuration in memory changes only when power comes or goes, or when
\* the very same configuration has just been written to the file in full:
\* save_config never leaves the station running what it will not remember.
AdoptsOnlySaved ==
    [][cfg' # cfg => pc = "off" \/ pc' = "off" \/ file' = cfg']_vars

-----------------------------------------------------------------------------
(* Refinement. *)

Store == INSTANCE ConfigStore WITH
            Values  <- Cf!Config,
            Fits    <- {c \in Cf!Config : c.wifi \notin BigCreds},
            Default <- Cf!DefaultConfig,
            on      <- pc # "off",
            current <- cfg,
            recall  <- {Cf!Loaded(result) : result \in Cf!LoadResults}

\* Seen from outside, the members, the file and the two half-steps of a save
\* are one register: a start comes up with what was last adopted; what is
\* adopted is what is stored; and where a save was broken off or a value
\* cannot be read back, the defaults are among what a start may find.
StoreSpec == Store!Spec

-----------------------------------------------------------------------------
(* Liveness. *)

\* The web server is reached again and again: connect_wifi, getNtpTime and
\* the sensor's retries all give up, whatever the network and the sensor do.
LoopServes == []<>(pc \in {"off", "client"})

\* A report the remote delivered is shown on the LCD, unless a newer one
\* replaces it first or the power fails.
ReportShown ==
    \A r \in Readings :
        remote = r ~> (lcd # Blank /\ lcd.remote = r) \/ remote # r

\* Over such a network a configured network that is in range is joined, after
\* any history of lost links, failed saves and failed attempts, as long as it
\* stays configured.
NetworkJoined ==
    Network =>
      \A c \in GoodCreds : []<>(pc = "off" \/ cfg.wifi # c \/ wifi_connected)

-----------------------------------------------------------------------------
(* What comments and messages of the source say, and the code does not do. *)

\* update_display compares with m_last_display_data to "See if it's different
\* than what we last displayed": where the comparison finds no difference, so
\* that nothing is drawn, the LCD shows that record.
NothingToDrawMeansShown ==
    caller = "loop" /\ last_display.time = ToLocal(tz, sys_time)
      => lcd.time = last_display.time

\* server_begin: "Failed to start access point! Resetting processor..." -- the
\* station does not go on to serve without its access point.
ServesWithAccessPoint == pc = "client" => ap
=============================================================================
