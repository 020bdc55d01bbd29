-------------------------- MODULE BaseStationProofs --------------------------
(***************************************************************************)
(* Proofs about BaseStation for every value of its constants: the type     *)
(* invariant, the safety invariants of the runs, AdoptsOnlySaved, and that *)
(* it implements ConfigStore.  All of them follow from one inductive       *)
(* invariant, IInv.                                                        *)
(***************************************************************************)
EXTENDS BaseStation, TLAPS

-----------------------------------------------------------------------------
(* The inductive invariant: the properties themselves, and what they need. *)

\* Who can be calling at each place of the thread.
Place ==
    /\ pc \in {"off", "connectSetup", "draw"} => caller = "setup"
    /\ pc \in {"client", "button", "writeZone", "writeWifi", "connectConfig"}
          => caller = "loop"
    /\ caller = "handler" => pc \in {"time", "connectTime", "ntp"}

\* A save changes one half of the configuration.
Saving ==
    /\ pc = "writeZone" => pending \in Cf!Config /\ pending.wifi = cfg.wifi
    /\ pc = "writeWifi" => pending \in Cf!Config /\ pending.zone = cfg.zone

\* While a connection is being waited for, and from setWiFiConfig's wait to
\* its update_time, the flag is down; everywhere else it says whether the
\* radio has a network.
Joining == \/ pc \in {"off", "connectSetup", "connectTime", "connectConfig"}
           \/ pc = "time" /\ caller = "handler"

Radio ==
    /\ sta.up => sta.cred # NoCred
    /\ pc # "off" => sta.cred \in {NoCred, cfg.wifi}
    /\ pc \in {"connectSetup", "connectTime"} => sta.cred = cfg.wifi
    /\ Joining => ~wifi_connected
    /\ ~Joining => (wifi_connected <=> sta.cred # NoCred)

Drawn == caller # "setup" => last_display # Blank /\ lcd # Blank

RtcAttached == ~HasRtc => rtc = NoTime

IInv == /\ TypeOK /\ Place /\ Saving /\ Radio /\ Drawn /\ RtcAttached
        /\ ZoneMatchesConfig /\ FileAgreesWithMemory
        /\ RtcKeepsTime /\ ReadingsShown

-----------------------------------------------------------------------------
(* Lemmas about the operators. *)

\* A minute count reduced modulo Day is a time.
LEMMA ModDay == ASSUME NEW a \in Int PROVE a % Day \in Times
  BY BaseAssumption DEF Times

\* Both conversions of a time by the rules of a zone give a time.
LEMMA ConversionType ==
  ASSUME NEW zone \in Zones, NEW t \in Times
  PROVE  ToLocal(zone, t) \in Times /\ ToUTC(zone, t) \in Times
  <1>1. t \in Int /\ Offset[zone] \in Int
    BY BaseAssumption DEF Times
  <1>2. t + Offset[zone] \in Int /\ t - Offset[zone] \in Int
    BY <1>1
  <1> QED
    BY <1>2, ModDay DEF ToLocal, ToUTC

\* Whatever the light sensor reads, the adjusted level fits the PWM.
LEMMA AdjustType ==
  ASSUME Bl!TypeOK, NEW l \in Lights, NEW b \in BOOLEAN, NEW f \in BOOLEAN,
         Bl!Adjust(l, b, f)
  PROVE  level' \in 0..1023 /\ last_light' \in Lights \cup {0}
  <1>1. \A x \in Int : Bl!Clamp(x) \in 0..1023
    BY DEF Bl!Clamp
  <1>2. \A x \in Int : Bl!CDiv(x, 890) \in Int
    BY DEF Bl!CDiv
  <1>3. Bl!MapLight(l) \in Int
    <2>1. l \in Int
      BY BaseAssumption
    <2>2. (l - 10) * (200 - 25) \in Int
      BY <2>1
    <2> QED
      BY <2>2, <1>2 DEF Bl!MapLight
  <1>4. Bl!Level(l, b) \in 0..1023
    <2> DEFINE sum == Bl!MapLight(l) + IF b THEN Bl!Boost ELSE 0
    <2>1. Bl!Level(l, b) = Bl!Clamp(sum)
      BY DEF Bl!Level
    <2>2. sum \in Int
      BY <1>3 DEF Bl!Boost
    <2> HIDE DEF sum
    <2> QED
      BY <1>1, <2>1, <2>2
  <1>5. \/ level' = Bl!Level(l, b) /\ last_light' = l
        \/ level' = level /\ last_light' = last_light
    BY DEF Bl!Adjust
  <1>6. level \in 0..1023 /\ last_light \in Lights \cup {0}
    BY DEF Bl!TypeOK
  <1> QED
    BY <1>4, <1>5, <1>6

\* WiFi.begin, the end of a wait and the link keep the station's type.
LEMMA BeginType ==
  ASSUME Sta!StationTypeOK, NEW c \in Creds, Sta!Begin(c) \/ Sta!Restart(c)
  PROVE  Sta!StationTypeOK'
  <1>1. CASE Sta!Begin(c)
    BY <1>1 DEF Sta!StationTypeOK, Sta!Begin
  <1>2. CASE Sta!Restart(c)
    BY <1>2 DEF Sta!StationTypeOK, Sta!Restart
  <1> QED
    BY <1>1, <1>2

LEMMA JoinType ==
  ASSUME Sta!StationTypeOK, NEW joined \in BOOLEAN, Sta!JoinEnds(joined)
  PROVE  Sta!StationTypeOK'
  <1>1. CASE joined
    BY <1>1 DEF Sta!StationTypeOK, Sta!JoinEnds
  <1>2. CASE ~joined
    <2>1. sta' = [cred |-> NoCred, up |-> FALSE]
      BY <1>2 DEF Sta!JoinEnds, Sta!Disconnect, Sta!Down
    <2> QED
      BY <2>1 DEF Sta!StationTypeOK
  <1> QED
    BY <1>1, <1>2

LEMMA LinkType ==
  ASSUME Sta!StationTypeOK, Sta!LinkUp \/ Sta!LinkDrop
  PROVE  Sta!StationTypeOK'
  BY DEF Sta!StationTypeOK, Sta!LinkUp, Sta!LinkDrop

\* update_display keeps the types, leaves readings that are the ones drawn,
\* and draws something.
LEMMA UpdateDisplayType ==
  ASSUME IInv, pc # "off", NEW n \in BOOLEAN, UpdateDisplay(n),
         n \/ caller # "setup"
  PROVE  /\ Bl!TypeOK'
         /\ last_display' \in Shown /\ lcd' \in Shown
         /\ last_display'.local = lcd'.local
         /\ last_display'.remote = lcd'.remote
  <1>1. Bl!TypeOK'
    <2>1. PICK l \in Lights : Bl!Adjust(l, boost, FALSE) /\ UNCHANGED boost
      BY DEF UpdateDisplay, Bl!TimerAdjust
    <2>2. Bl!TypeOK /\ boost \in BOOLEAN
      BY DEF IInv, TypeOK, Bl!TypeOK
    <2>3. level' \in 0..1023 /\ last_light' \in Lights \cup {0}
      BY <2>1, <2>2, AdjustType
    <2> QED
      BY <2>1, <2>2, <2>3 DEF Bl!TypeOK
  <1> DEFINE now == [time   |-> ToLocal(tz, sys_time),
                     local  |-> local,
                     remote |-> remote]
  <1>2. now \in Shown
    <2>1. tz \in Zones /\ sys_time \in Times
      BY DEF IInv, TypeOK, ZoneMatchesConfig, Cf!Config
    <2>2. ToLocal(tz, sys_time) \in Times
      BY <2>1, ConversionType
    <2> QED
      BY <2>2 DEF IInv, TypeOK, Shown
  <1>3. CASE n \/ now # last_display
    <2>1. last_display' = now /\ lcd' = now
      BY <1>3 DEF UpdateDisplay, Changed, Draw
    <2> QED
      BY <1>1, <1>2, <2>1
  <1>4. CASE ~(n \/ now # last_display)
    <2>1. last_display' = last_display /\ lcd' = lcd
      BY <1>4 DEF UpdateDisplay, Changed, screen
    <2>2. last_display \in Shown /\ lcd \in Shown
      BY <1>4 DEF IInv, TypeOK, Drawn
    <2> QED
      BY <1>1, <2>1, <2>2, ConfigAssumption DEF IInv, ReadingsShown
  <1> QED
    BY <1>3, <1>4

-----------------------------------------------------------------------------
(* Every step preserves the invariant: one lemma per action. *)

\* The zone is built from what was loaded.
LEMMA PowerOnStep ==
  ASSUME IInv, PowerOn
  PROVE  IInv'
  <1>a. /\ cfg' \in Cf!Config /\ tz' \in Zones
        /\ sys_time' \in Times
        /\ Sta!StationTypeOK'
    <2>1. PICK result \in Cf!LoadResults :
            /\ cfg' = Cf!Loaded(result)
            /\ tz' = Cf!Loaded(result).zone
            /\ Sta!Begin(Cf!Loaded(result).wifi)
      BY DEF PowerOn
    <2>2. result \in Cf!FileConfig \cup {Failed}
      BY DEF Cf!LoadResults, Cf!Loadable
    <2>3. Cf!Loaded(result) \in Cf!Config
      BY <2>2, ConfigAssumption
         DEF Cf!Loaded, Cf!DefaultConfig, Cf!Config, Cf!FileConfig
    <2>4. Cf!Loaded(result).wifi \in Creds /\ Cf!Loaded(result).zone \in Zones
      BY <2>3 DEF Cf!Config
    <2>5. Sta!StationTypeOK'
      BY <2>1, <2>4 DEF IInv, TypeOK, Sta!StationTypeOK, Sta!Begin
    <2>6. sys_time' \in Times
      BY BaseAssumption DEF PowerOn, IInv, TypeOK, Times
    <2> QED
      BY <2>1, <2>3, <2>4, <2>5, <2>6
  <1>1. TypeOK'
    BY <1>a
       DEF IInv, TypeOK, Pcs, Cf!FileTypeOK, Bl!TypeOK, PowerOn,
           StartAccessPoint, due, dht, screen, light
  <1>2. (Place /\ Saving /\ Radio /\ Drawn)'
    BY DEF IInv, Place, Saving, Radio, Joining, Drawn, PowerOn, Sta!Begin
  <1>3. (/\ RtcAttached /\ ZoneMatchesConfig /\ FileAgreesWithMemory
         /\ RtcKeepsTime /\ ReadingsShown)'
    BY ConfigAssumption
       DEF IInv, RtcAttached, ZoneMatchesConfig, FileAgreesWithMemory,
           RtcKeepsTime, ReadingsShown, Cf!Loadable, PowerOn, Cf!LoadResults,
           Cf!FileConfig, screen
  <1> QED
    BY <1>1, <1>2, <1>3 DEF IInv

\* The file and the RTC are all that is left.
LEMMA PowerLossStep ==
  ASSUME IInv, PowerLoss
  PROVE  IInv'
  <1>1. TypeOK'
    <2>1. /\ cfg' \in Cf!Config /\ pending' \in Cf!Config \cup {Null}
          /\ tz' \in Zones \cup {Null} /\ Cf!FileTypeOK'
      BY ConfigAssumption
         DEF PowerLoss, LoseRam, IInv, TypeOK, Cf!DefaultConfig, Cf!Config,
             Cf!FileTypeOK
    <2>2. Sta!StationTypeOK'
      BY DEF PowerLoss, LoseRam, Sta!Disconnect, Sta!Down, Sta!StationTypeOK
    <2>3. sys_time' \in Times /\ rtc' \in Times \cup {NoTime}
      BY BaseAssumption DEF PowerLoss, LoseRam, IInv, TypeOK, Times
    <2>4. tries' \in 0..MaxReads /\ sample' \in Readings \cup {NaN}
      BY BaseAssumption DEF PowerLoss, LoseRam
    <2>5. Bl!TypeOK'
      <3>1. boost' \in BOOLEAN
        BY DEF PowerLoss, LoseRam, Bl!Reset
      <3>2. level' \in 0..1023 /\ last_light' \in Lights \cup {0}
        BY DEF PowerLoss, LoseRam, Bl!Reset, Bl!FullLevel
      <3> QED
        BY <3>1, <3>2 DEF Bl!TypeOK
    <2>6. pc' \in Pcs /\ local' \in Sensors /\ remote' \in Sensors
      BY DEF PowerLoss, LoseRam, Pcs, Sensors
    <2>7. /\ ap' \in BOOLEAN /\ wifi_connected' \in BOOLEAN
          /\ time_due' \in BOOLEAN /\ sensor_due' \in BOOLEAN
      BY DEF PowerLoss, LoseRam
    <2> QED
      BY <2>1, <2>2, <2>3, <2>4, <2>5, <2>6 DEF PowerLoss, LoseRam, TypeOK
  <1>2. (Place /\ Saving /\ Radio /\ Drawn)'
    BY DEF Place, Saving, Radio, Drawn, PowerLoss, LoseRam, Sta!Disconnect,
           Sta!Down
  <1>3. (/\ RtcAttached /\ ZoneMatchesConfig /\ FileAgreesWithMemory
         /\ RtcKeepsTime /\ ReadingsShown)'
    BY DEF IInv, RtcAttached, ZoneMatchesConfig, FileAgreesWithMemory,
           RtcKeepsTime, ReadingsShown, PowerLoss, LoseRam
  <1> QED
    BY <1>1, <1>2, <1>3 DEF IInv

\* Only while the station is off.
LEMMA RtcLosesTimeStep ==
  ASSUME IInv, RtcLosesTime
  PROVE  IInv'
  <1>1. TypeOK'
    BY DEF IInv, TypeOK, Cf!FileTypeOK, Sta!StationTypeOK, Bl!TypeOK,
           RtcLosesTime, control, config, radio, due, dht, screen, light
  <1>2. (Place /\ Saving /\ Radio /\ Drawn)'
    BY DEF IInv, Place, Saving, Radio, Joining, Drawn, RtcLosesTime, control,
           radio
  <1>3. (/\ RtcAttached /\ ZoneMatchesConfig /\ FileAgreesWithMemory
         /\ RtcKeepsTime /\ ReadingsShown)'
    BY DEF IInv, RtcAttached, ZoneMatchesConfig, FileAgreesWithMemory,
           RtcKeepsTime, ReadingsShown, RtcLosesTime, control, screen
  <1> QED
    BY <1>1, <1>2, <1>3 DEF IInv

\* The timer changes the screen and the backlight only.
LEMMA TickStep ==
  ASSUME IInv, Tick
  PROVE  IInv'
  <1>0. /\ Bl!TypeOK' /\ last_display' \in Shown /\ lcd' \in Shown
        /\ last_display'.local = lcd'.local
        /\ last_display'.remote = lcd'.remote
    BY UpdateDisplayType DEF Tick, Waits
  <1>1. TypeOK'
    BY <1>0
       DEF IInv, TypeOK, Cf!FileTypeOK, Sta!StationTypeOK, Tick, control,
           config, radio, clocks, due, dht
  <1>2. (Place /\ Saving /\ Radio /\ Drawn)'
    BY ConfigAssumption, <1>0
       DEF IInv, Place, Saving, Radio, Joining, Drawn, Tick, control, config,
           radio
  <1>3. (/\ RtcAttached /\ ZoneMatchesConfig /\ FileAgreesWithMemory
         /\ RtcKeepsTime /\ ReadingsShown)'
    BY <1>0
       DEF IInv, RtcAttached, ZoneMatchesConfig, FileAgreesWithMemory,
           RtcKeepsTime, ReadingsShown, Cf!Loadable, Tick, control, config,
           clocks
  <1> QED
    BY <1>1, <1>2, <1>3 DEF IInv

\* The interval has not passed.
LEMMA SkipTimeStep ==
  ASSUME IInv, SkipTime
  PROVE  IInv'
  <1>1. TypeOK'
    BY DEF IInv, TypeOK, Pcs, Waits, Cf!FileTypeOK, Sta!StationTypeOK,
           Bl!TypeOK, SkipTime, TimeReturns, config, radio, clocks, due, dht,
           screen, light
  <1>2. (Place /\ Saving /\ Radio /\ Drawn)'
    BY DEF IInv, Place, Saving, Radio, Joining, Drawn, SkipTime, TimeReturns,
           config, radio, screen
  <1>3. (/\ RtcAttached /\ ZoneMatchesConfig /\ FileAgreesWithMemory
         /\ RtcKeepsTime /\ ReadingsShown)'
    BY DEF IInv, RtcAttached, ZoneMatchesConfig, FileAgreesWithMemory,
           RtcKeepsTime, ReadingsShown, Cf!Loadable, SkipTime, config, clocks,
           screen
  <1> QED
    BY <1>1, <1>2, <1>3 DEF IInv

\* update_time begins; it joins only if the flag is down.
LEMMA StartTimeStep ==
  ASSUME IInv, StartTime
  PROVE  IInv'
  <1>a. Sta!StationTypeOK'
    <2>1. Sta!StationTypeOK /\ cfg.wifi \in Creds
      BY DEF IInv, TypeOK, Cf!Config
    <2>2. CASE wifi_connected
      BY <2>1, <2>2 DEF StartTime, Sta!StationTypeOK
    <2>3. CASE ~wifi_connected
      <3>1. Sta!Begin(cfg.wifi)
        BY <2>3 DEF StartTime
      <3> QED
        BY <2>1, <3>1, BeginType
    <2> QED
      BY <2>2, <2>3
  <1>1. TypeOK'
    <2>1. pc' \in Pcs
      BY DEF StartTime, Pcs, Waits
    <2>2. time_due' \in BOOLEAN
      BY DEF StartTime
    <2> QED
      BY <1>a, <2>1, <2>2
         DEF IInv, TypeOK, Cf!FileTypeOK, Bl!TypeOK, StartTime, config, clocks,
             dht, screen, light
  <1>2. (Place /\ Saving /\ Radio /\ Drawn)'
    BY DEF IInv, Place, Saving, Radio, Joining, Drawn, StartTime, Sta!Begin,
           config, screen
  <1>3. (/\ RtcAttached /\ ZoneMatchesConfig /\ FileAgreesWithMemory
         /\ RtcKeepsTime /\ ReadingsShown)'
    BY DEF IInv, RtcAttached, ZoneMatchesConfig, FileAgreesWithMemory,
           RtcKeepsTime, ReadingsShown, Cf!Loadable, StartTime, config, clocks,
           screen
  <1> QED
    BY <1>1, <1>2, <1>3 DEF IInv

\* The three waits of connect_wifi end, joined or not.
LEMMA EndConnectStep ==
  ASSUME IInv, NEW joined \in BOOLEAN, EndConnect(joined)
  PROVE  IInv'
  <1>a. Sta!StationTypeOK'
    BY JoinType DEF IInv, TypeOK, EndConnect
  <1>1. TypeOK'
    BY <1>a
       DEF IInv, TypeOK, Pcs, Waits, Cf!FileTypeOK, Bl!TypeOK, EndConnect,
           TimeReturns, config, clocks, due, dht, screen, light
  <1>2. (Place /\ Saving /\ Radio /\ Drawn)'
    BY DEF IInv, TypeOK, Place, Saving, Radio, Joining, Drawn, EndConnect,
           Sta!JoinEnds, Sta!Disconnect, Sta!Down, TimeReturns, config, screen
  <1>3. (/\ RtcAttached /\ ZoneMatchesConfig /\ FileAgreesWithMemory
         /\ RtcKeepsTime /\ ReadingsShown)'
    BY DEF IInv, RtcAttached, ZoneMatchesConfig, FileAgreesWithMemory,
           RtcKeepsTime, ReadingsShown, Cf!Loadable, EndConnect, config,
           clocks, screen
  <1> QED
    BY <1>1, <1>2, <1>3 DEF IInv

\* Both clocks take the server's time.
LEMMA NtpReplyStep ==
  ASSUME IInv, NEW t \in Times, NtpReply(t)
  PROVE  IInv'
  <1>1. TypeOK'
    BY DEF IInv, TypeOK, Pcs, Waits, Cf!FileTypeOK, Sta!StationTypeOK,
           Bl!TypeOK, NtpReply, SetRtc, TimeReturns, config, radio, due, dht,
           screen, light
  <1>2. (Place /\ Saving /\ Radio /\ Drawn)'
    BY DEF IInv, TypeOK, Place, Saving, Radio, Joining, Drawn, NtpReply,
           TimeReturns, config, radio, screen
  <1>3. (/\ RtcAttached /\ ZoneMatchesConfig /\ FileAgreesWithMemory
         /\ RtcKeepsTime /\ ReadingsShown)'
    BY DEF IInv, RtcAttached, ZoneMatchesConfig, FileAgreesWithMemory,
           RtcKeepsTime, ReadingsShown, Cf!Loadable, NtpReply, SetRtc, config,
           screen
  <1> QED
    BY <1>1, <1>2, <1>3 DEF IInv

\* No answer.
LEMMA NtpNoneStep ==
  ASSUME IInv, NtpNone
  PROVE  IInv'
  <1>1. TypeOK'
    BY DEF IInv, TypeOK, Pcs, Waits, Cf!FileTypeOK, Sta!StationTypeOK,
           Bl!TypeOK, NtpNone, TimeReturns, config, radio, clocks, due, dht,
           screen, light
  <1>2. (Place /\ Saving /\ Radio /\ Drawn)'
    BY DEF IInv, TypeOK, Place, Saving, Radio, Joining, Drawn, NtpNone,
           TimeReturns, config, radio, screen
  <1>3. (/\ RtcAttached /\ ZoneMatchesConfig /\ FileAgreesWithMemory
         /\ RtcKeepsTime /\ ReadingsShown)'
    BY DEF IInv, RtcAttached, ZoneMatchesConfig, FileAgreesWithMemory,
           RtcKeepsTime, ReadingsShown, Cf!Loadable, NtpNone, config, clocks,
           screen
  <1> QED
    BY <1>1, <1>2, <1>3 DEF IInv

\* The interval has not passed.
LEMMA SkipSensorStep ==
  ASSUME IInv, SkipSensor
  PROVE  IInv'
  <1>1. TypeOK'
    BY DEF IInv, TypeOK, Pcs, Cf!FileTypeOK, Sta!StationTypeOK, Bl!TypeOK,
           SkipSensor, config, radio, clocks, due, dht, screen, light
  <1>2. (Place /\ Saving /\ Radio /\ Drawn)'
    BY DEF IInv, Place, Saving, Radio, Joining, Drawn, SkipSensor, config,
           radio, screen
  <1>3. (/\ RtcAttached /\ ZoneMatchesConfig /\ FileAgreesWithMemory
         /\ RtcKeepsTime /\ ReadingsShown)'
    BY DEF IInv, RtcAttached, ZoneMatchesConfig, FileAgreesWithMemory,
           RtcKeepsTime, ReadingsShown, Cf!Loadable, SkipSensor, config,
           clocks, screen
  <1> QED
    BY <1>1, <1>2, <1>3 DEF IInv

\* The read loop begins.
LEMMA StartSensorStep ==
  ASSUME IInv, StartSensor
  PROVE  IInv'
  <1>1. TypeOK'
    <2>1. tries' \in 0..MaxReads /\ sample' \in Readings \cup {NaN}
      BY BaseAssumption DEF StartSensor
    <2>2. pc' \in Pcs
      BY DEF StartSensor, Pcs, Waits
    <2>3. sensor_due' \in BOOLEAN
      BY DEF StartSensor
    <2> QED
      BY <2>1, <2>2, <2>3
         DEF IInv, TypeOK, Cf!FileTypeOK, Sta!StationTypeOK, Bl!TypeOK,
             StartSensor, config, radio, clocks, screen, light
  <1>2. (Place /\ Saving /\ Radio /\ Drawn)'
    BY DEF IInv, Place, Saving, Radio, Joining, Drawn, StartSensor, config,
           radio, screen
  <1>3. (/\ RtcAttached /\ ZoneMatchesConfig /\ FileAgreesWithMemory
         /\ RtcKeepsTime /\ ReadingsShown)'
    BY DEF IInv, RtcAttached, ZoneMatchesConfig, FileAgreesWithMemory,
           RtcKeepsTime, ReadingsShown, Cf!Loadable, StartSensor, config,
           clocks, screen
  <1> QED
    BY <1>1, <1>2, <1>3 DEF IInv

\* One read.
LEMMA ReadDhtStep ==
  ASSUME IInv, ReadDht
  PROVE  IInv'
  <1>1. TypeOK'
    BY BaseAssumption
       DEF IInv, TypeOK, Cf!FileTypeOK, Sta!StationTypeOK, Bl!TypeOK, ReadDht,
           control, config, radio, clocks, due, screen, light
  <1>2. (Place /\ Saving /\ Radio /\ Drawn)'
    BY DEF IInv, Place, Saving, Radio, Joining, Drawn, ReadDht, control,
           config, radio, screen
  <1>3. (/\ RtcAttached /\ ZoneMatchesConfig /\ FileAgreesWithMemory
         /\ RtcKeepsTime /\ ReadingsShown)'
    BY DEF IInv, RtcAttached, ZoneMatchesConfig, FileAgreesWithMemory,
           RtcKeepsTime, ReadingsShown, Cf!Loadable, ReadDht, config, clocks,
           screen
  <1> QED
    BY <1>1, <1>2, <1>3 DEF IInv

\* The reading is taken over, NaN included.
LEMMA EndSensorStep ==
  ASSUME IInv, EndSensor
  PROVE  IInv'
  <1>1. TypeOK'
    BY BaseAssumption
       DEF IInv, TypeOK, Pcs, Cf!FileTypeOK, Sta!StationTypeOK, Bl!TypeOK,
           EndSensor, Sensors, config, radio, clocks, due, screen, light
  <1>2. (Place /\ Saving /\ Radio /\ Drawn)'
    BY DEF IInv, Place, Saving, Radio, Joining, Drawn, EndSensor, config,
           radio, screen
  <1>3. (/\ RtcAttached /\ ZoneMatchesConfig /\ FileAgreesWithMemory
         /\ RtcKeepsTime /\ ReadingsShown)'
    BY DEF IInv, RtcAttached, ZoneMatchesConfig, FileAgreesWithMemory,
           RtcKeepsTime, ReadingsShown, Cf!Loadable, EndSensor, config, clocks,
           screen
  <1> QED
    BY <1>1, <1>2, <1>3 DEF IInv

\* The first draw.
LEMMA EndSetupStep ==
  ASSUME IInv, EndSetup
  PROVE  IInv'
  <1>0. /\ Bl!TypeOK' /\ last_display' \in Shown /\ lcd' \in Shown
        /\ last_display'.local = lcd'.local
        /\ last_display'.remote = lcd'.remote
    BY UpdateDisplayType DEF IInv, Place, EndSetup
  <1>1. TypeOK'
    BY <1>0
       DEF IInv, TypeOK, Pcs, Waits, Cf!FileTypeOK, Sta!StationTypeOK,
           EndSetup, config, radio, clocks, due, dht
  <1>2. (Place /\ Saving /\ Radio /\ Drawn)'
    BY ConfigAssumption, <1>0
       DEF IInv, Place, Saving, Radio, Joining, Drawn, EndSetup, config, radio
  <1>3. (/\ RtcAttached /\ ZoneMatchesConfig /\ FileAgreesWithMemory
         /\ RtcKeepsTime /\ ReadingsShown)'
    BY <1>0
       DEF IInv, RtcAttached, ZoneMatchesConfig, FileAgreesWithMemory,
           RtcKeepsTime, ReadingsShown, Cf!Loadable, EndSetup, config, clocks
  <1> QED
    BY <1>1, <1>2, <1>3 DEF IInv

\* Nothing but the place changes.
LEMMA ServePageStep ==
  ASSUME IInv, ServePage
  PROVE  IInv'
  <1>1. TypeOK'
    BY DEF IInv, TypeOK, Pcs, Cf!FileTypeOK, Sta!StationTypeOK, Bl!TypeOK,
           ServePage, config, radio, clocks, due, dht, screen, light
  <1>2. (Place /\ Saving /\ Radio /\ Drawn)'
    BY DEF IInv, Place, Saving, Radio, Joining, Drawn, ServePage, config,
           radio, screen
  <1>3. (/\ RtcAttached /\ ZoneMatchesConfig /\ FileAgreesWithMemory
         /\ RtcKeepsTime /\ ReadingsShown)'
    BY DEF IInv, RtcAttached, ZoneMatchesConfig, FileAgreesWithMemory,
           RtcKeepsTime, ReadingsShown, Cf!Loadable, ServePage, config, clocks,
           screen
  <1> QED
    BY <1>1, <1>2, <1>3 DEF IInv

\* The reading waits for the next display update.
LEMMA HandleReportStep ==
  ASSUME IInv, NEW r \in Readings, HandleReport(r)
  PROVE  IInv'
  <1>1. TypeOK'
    BY DEF IInv, TypeOK, Pcs, Cf!FileTypeOK, Sta!StationTypeOK, Bl!TypeOK,
           HandleReport, Sensors, config, radio, clocks, due, dht, screen,
           light
  <1>2. (Place /\ Saving /\ Radio /\ Drawn)'
    BY DEF IInv, Place, Saving, Radio, Joining, Drawn, HandleReport, config,
           radio, screen
  <1>3. (/\ RtcAttached /\ ZoneMatchesConfig /\ FileAgreesWithMemory
         /\ RtcKeepsTime /\ ReadingsShown)'
    BY DEF IInv, RtcAttached, ZoneMatchesConfig, FileAgreesWithMemory,
           RtcKeepsTime, ReadingsShown, Cf!Loadable, HandleReport, config,
           clocks, screen
  <1> QED
    BY <1>1, <1>2, <1>3 DEF IInv

\* Both clocks are set; only the time of the record is edited.
LEMMA SetTimeStep ==
  ASSUME IInv, NEW t \in Times, SetTime(t)
  PROVE  IInv'
  <1>a. tz \in Zones
    BY DEF IInv, TypeOK, ZoneMatchesConfig, SetTime, Asked, Cf!Config
  <1>b. ToUTC(tz, t) \in Times /\ ToLocal(tz, t) \in Times
    BY <1>a, ConversionType
  <1>c. last_display \in Shown
    BY DEF IInv, TypeOK, Place, Drawn, SetTime, Asked
  <1>1. TypeOK'
    BY <1>b, <1>c
       DEF IInv, TypeOK, Pcs, Cf!FileTypeOK, Sta!StationTypeOK, Bl!TypeOK,
           SetTime, SetRtc, Shown, config, radio, due, dht, light
  <1>2. (Place /\ Saving /\ Radio /\ Drawn)'
    <2>1. last_display' # Blank /\ lcd' # Blank
      BY <1>b, <1>c, ConfigAssumption
         DEF IInv, Place, Drawn, SetTime, Asked, Shown
    <2> QED
      BY <2>1
         DEF IInv, Place, Saving, Radio, Joining, Drawn, SetTime, Asked,
             config, radio
  <1>3. (/\ RtcAttached /\ ZoneMatchesConfig /\ FileAgreesWithMemory
         /\ RtcKeepsTime /\ ReadingsShown)'
    BY DEF IInv, RtcAttached, ZoneMatchesConfig, FileAgreesWithMemory,
           RtcKeepsTime, ReadingsShown, Cf!Loadable, SetTime, SetRtc, Asked,
           config
  <1> QED
    BY <1>1, <1>2, <1>3 DEF IInv

\* The file is cut and the new configuration is kept aside.
LEMMA StartSaveStep ==
  ASSUME IInv, NEW c \in Cf!Config, NEW next \in {"writeZone", "writeWifi"},
         pc = "client", StartSave(c, next),
         next = "writeZone" => c.wifi = cfg.wifi,
         next = "writeWifi" => c.zone = cfg.zone
  PROVE  IInv'
  <1>1. TypeOK'
    BY DEF IInv, TypeOK, Pcs, Cf!FileTypeOK, Sta!StationTypeOK, Bl!TypeOK,
           StartSave, Cf!OpenForWrite, radio, clocks, due, dht, screen, light
  <1>2. (Place /\ Saving /\ Radio /\ Drawn)'
    BY DEF IInv, Place, Saving, Radio, Joining, Drawn, StartSave, radio, screen
  <1>3. (/\ RtcAttached /\ ZoneMatchesConfig /\ FileAgreesWithMemory
         /\ RtcKeepsTime /\ ReadingsShown)'
    <2>1. file' \notin Cf!FileConfig
      BY ConfigAssumption DEF StartSave, Cf!OpenForWrite, Cf!FileConfig
    <2>2. FileAgreesWithMemory'
      BY <2>1 DEF FileAgreesWithMemory, Cf!Loadable
    <2> QED
      BY <2>2
         DEF IInv, RtcAttached, ZoneMatchesConfig, RtcKeepsTime, ReadingsShown,
             StartSave, clocks, screen
  <1> QED
    BY <1>1, <1>2, <1>3 DEF IInv

\* setTimeZone after its save: the zone is rebuilt from the members.
LEMMA RebuildZoneStep ==
  ASSUME IInv, NEW c \in Cf!Config, pc \in {"client", "writeZone"},
         RebuildZone(c),
         c.wifi = cfg.wifi,
         (file' = file /\ c = cfg) \/ file' = c \/ (file' = Cut /\ c = cfg)
  PROVE  IInv'
  <1>a. c.zone \in Zones /\ sys_time \in Times
    BY DEF IInv, TypeOK, Cf!Config
  <1>b. ToLocal(c.zone, sys_time) \in Times
    BY <1>a, ConversionType
  <1>c. last_display \in Shown
    BY DEF IInv, TypeOK, Place, Drawn
  <1>1. TypeOK'
    BY <1>b, <1>c
       DEF IInv, TypeOK, Pcs, Cf!FileTypeOK, Sta!StationTypeOK, Bl!TypeOK,
           RebuildZone, Cf!Config, Cf!FileConfig, Shown, radio, clocks, due,
           dht, light
  <1>2. (Place /\ Saving /\ Radio /\ Drawn)'
    <2>1. last_display' # Blank /\ lcd' # Blank
      BY <1>b, <1>c, ConfigAssumption
         DEF IInv, Place, Drawn, RebuildZone, Shown
    <2> QED
      BY <2>1
         DEF IInv, Place, Saving, Radio, Joining, Drawn, RebuildZone, radio
  <1>3. (/\ RtcAttached /\ ZoneMatchesConfig /\ FileAgreesWithMemory
         /\ RtcKeepsTime /\ ReadingsShown)'
    BY ConfigAssumption
       DEF IInv, RtcAttached, ZoneMatchesConfig, FileAgreesWithMemory,
           RtcKeepsTime, ReadingsShown, Cf!Loadable, Cf!Loaded, RebuildZone,
           Cf!Config, Cf!FileConfig, clocks
  <1> QED
    BY <1>1, <1>2, <1>3 DEF IInv

\* setWiFiConfig after its save: the flag is down while it joins.
LEMMA ReconnectStep ==
  ASSUME IInv, NEW c \in Cf!Config, pc \in {"client", "writeWifi"},
         Reconnect(c),
         c.zone = cfg.zone,
         (file' = file /\ c = cfg) \/ file' = c \/ (file' = Cut /\ c = cfg)
  PROVE  IInv'
  <1>1. TypeOK'
    <2>1. c.wifi \in Creds
      BY DEF Cf!Config
    <2>2. Sta!StationTypeOK'
      BY <2>1, BeginType DEF IInv, TypeOK, Reconnect
    <2>3. Cf!FileTypeOK'
      BY DEF IInv, TypeOK, Cf!FileTypeOK, Cf!Config, Cf!FileConfig
    <2>4. pc' \in Pcs
      BY DEF Reconnect, Pcs, Waits
    <2>5. wifi_connected' \in BOOLEAN
      BY DEF Reconnect
    <2> QED
      BY <2>2, <2>3, <2>4, <2>5
         DEF IInv, TypeOK, Bl!TypeOK, Reconnect, clocks, due, dht, screen,
             light
  <1>2. (Place /\ Saving /\ Radio /\ Drawn)'
    BY DEF IInv, Place, Saving, Radio, Joining, Drawn, Reconnect, Sta!Restart,
           Sta!Begin, screen
  <1>3. (/\ RtcAttached /\ ZoneMatchesConfig /\ FileAgreesWithMemory
         /\ RtcKeepsTime /\ ReadingsShown)'
    BY ConfigAssumption
       DEF IInv, RtcAttached, ZoneMatchesConfig, FileAgreesWithMemory,
           RtcKeepsTime, ReadingsShown, Cf!Loadable, Cf!Loaded, Reconnect,
           Cf!Config, Cf!FileConfig, clocks, screen
  <1> QED
    BY <1>1, <1>2, <1>3 DEF IInv

\* A time zone is asked for: its save begins, or cannot.
LEMMA SetTimeZoneStep ==
  ASSUME IInv, NEW zone \in Zones, SetTimeZone(zone)
  PROVE  IInv'
  <1> DEFINE new == [cfg EXCEPT !.zone = zone]
  <1>1. pc = "client" /\ cfg \in Cf!Config
    BY DEF IInv, TypeOK, SetTimeZone, Asked
  <1>2. new \in Cf!Config /\ new.wifi = cfg.wifi
    BY <1>1 DEF Cf!Config
  <1>3. CASE StartSave(new, "writeZone")
    BY <1>1, <1>2, <1>3, StartSaveStep
  <1>4. CASE UNCHANGED file /\ RebuildZone(cfg)
    BY <1>1, <1>4, RebuildZoneStep
  <1> QED
    BY <1>3, <1>4 DEF SetTimeZone

\* A network is asked for: its save begins, or cannot.
LEMMA SetWiFiConfigStep ==
  ASSUME IInv, NEW cred \in Creds, SetWiFiConfig(cred)
  PROVE  IInv'
  <1> DEFINE new == [cfg EXCEPT !.wifi = cred]
  <1>1. pc = "client" /\ cfg \in Cf!Config
    BY DEF IInv, TypeOK, SetWiFiConfig, Asked
  <1>2. new \in Cf!Config /\ new.zone = cfg.zone
    BY <1>1 DEF Cf!Config
  <1>3. CASE StartSave(new, "writeWifi")
    BY <1>1, <1>2, <1>3, StartSaveStep
  <1>4. CASE UNCHANGED file /\ Reconnect(cfg)
    BY <1>1, <1>4, ReconnectStep
  <1> QED
    BY <1>3, <1>4 DEF SetWiFiConfig

\* The write ends, in full or short, and the handler goes on.
LEMMA EndSaveStep ==
  ASSUME IInv, NEW complete \in BOOLEAN, EndSave(complete)
  PROVE  IInv'
  <1> DEFINE c == IF complete THEN pending ELSE cfg
  <1>1. /\ c \in Cf!Config
        /\ file' = c \/ (file' = Cut /\ c = cfg)
    <2>1. pending \in Cf!Config /\ cfg \in Cf!Config
      BY DEF IInv, TypeOK, Saving, EndSave
    <2>2. CASE complete
      BY <2>1, <2>2 DEF EndSave, Cf!WriteFile
    <2>3. CASE ~complete
      BY <2>1, <2>3 DEF EndSave, Cf!WriteFile
    <2> QED
      BY <2>2, <2>3
  <1>2. CASE pc = "writeZone"
    <2>1. RebuildZone(c) /\ c.wifi = cfg.wifi
      BY <1>2 DEF IInv, Saving, EndSave
    <2> QED
      BY <1>1, <1>2, <2>1, RebuildZoneStep
  <1>3. CASE pc = "writeWifi"
    <2>1. Reconnect(c) /\ c.zone = cfg.zone
      BY <1>3 DEF IInv, Saving, EndSave
    <2> QED
      BY <1>1, <1>3, <2>1, ReconnectStep
  <1> QED
    BY <1>2, <1>3 DEF EndSave

\* Only the backlight follows the button.
LEMMA PollButtonStep ==
  ASSUME IInv, PollButton
  PROVE  IInv'
  <1>0. Bl!TypeOK'
    <2>1. PICK pressed \in BOOLEAN, l \in Lights : Bl!HandleButton(pressed, l)
      BY DEF PollButton
    <2>2. Bl!TypeOK
      BY DEF IInv, TypeOK
    <2>3. CASE pressed # boost
      <3>1. boost' = pressed /\ Bl!Adjust(l, pressed, TRUE)
        BY <2>1, <2>3 DEF Bl!HandleButton
      <3>2. level' \in 0..1023 /\ last_light' \in Lights \cup {0}
        BY <2>2, <3>1, AdjustType
      <3> QED
        BY <3>1, <3>2 DEF Bl!TypeOK
    <2>4. CASE pressed = boost
      BY <2>1, <2>2, <2>4 DEF Bl!HandleButton, Bl!vars, Bl!TypeOK
    <2> QED
      BY <2>3, <2>4
  <1>1. TypeOK'
    BY <1>0
       DEF IInv, TypeOK, Pcs, Waits, Cf!FileTypeOK, Sta!StationTypeOK,
           PollButton, config, radio, clocks, due, dht, screen
  <1>2. (Place /\ Saving /\ Radio /\ Drawn)'
    BY DEF IInv, Place, Saving, Radio, Joining, Drawn, PollButton, config,
           radio, screen
  <1>3. (/\ RtcAttached /\ ZoneMatchesConfig /\ FileAgreesWithMemory
         /\ RtcKeepsTime /\ ReadingsShown)'
    BY DEF IInv, RtcAttached, ZoneMatchesConfig, FileAgreesWithMemory,
           RtcKeepsTime, ReadingsShown, Cf!Loadable, PollButton, config,
           clocks, screen
  <1> QED
    BY <1>1, <1>2, <1>3 DEF IInv

\* The clocks advance together.
LEMMA MinuteStep ==
  ASSUME IInv, Minute
  PROVE  IInv'
  <1>0. (sys_time + 1) % Day \in Times
        /\ (rtc # NoTime => (rtc + 1) % Day \in Times)
    BY ModDay DEF IInv, TypeOK, Times
  <1>1. TypeOK'
    BY <1>0
       DEF IInv, TypeOK, Cf!FileTypeOK, Sta!StationTypeOK, Bl!TypeOK, Minute,
           control, config, radio, due, dht, screen, light
  <1>2. (Place /\ Saving /\ Radio /\ Drawn)'
    BY DEF IInv, Place, Saving, Radio, Joining, Drawn, Minute, control, config,
           radio, screen
  <1>3. (/\ RtcAttached /\ ZoneMatchesConfig /\ FileAgreesWithMemory
         /\ RtcKeepsTime /\ ReadingsShown)'
    BY DEF IInv, RtcAttached, ZoneMatchesConfig, FileAgreesWithMemory,
           RtcKeepsTime, ReadingsShown, Cf!Loadable, Minute, control, config,
           screen
  <1> QED
    BY <1>1, <1>2, <1>3 DEF IInv

\* An interval passes.
LEMMA ElapseStep ==
  ASSUME IInv, TimeElapses \/ SensorElapses
  PROVE  IInv'
  <1>1. TypeOK'
    <2>1. time_due' \in BOOLEAN /\ sensor_due' \in BOOLEAN
      BY DEF IInv, TypeOK, TimeElapses, SensorElapses
    <2> QED
      BY <2>1
         DEF IInv, TypeOK, Cf!FileTypeOK, Sta!StationTypeOK, Bl!TypeOK,
             TimeElapses, SensorElapses, control, config, radio, clocks, dht,
             screen, light
  <1>2. (Place /\ Saving /\ Radio /\ Drawn)'
    BY DEF IInv, Place, Saving, Radio, Joining, Drawn, TimeElapses,
           SensorElapses, control, config, radio, screen
  <1>3. (/\ RtcAttached /\ ZoneMatchesConfig /\ FileAgreesWithMemory
         /\ RtcKeepsTime /\ ReadingsShown)'
    BY DEF IInv, RtcAttached, ZoneMatchesConfig, FileAgreesWithMemory,
           RtcKeepsTime, ReadingsShown, Cf!Loadable, TimeElapses,
           SensorElapses, config, clocks, screen
  <1> QED
    BY <1>1, <1>2, <1>3 DEF IInv

\* The network lets the station in or drops it.
LEMMA LinkStep ==
  ASSUME IInv, LinkUp \/ LinkDrop
  PROVE  IInv'
  <1>1. TypeOK'
    <2>1. Sta!StationTypeOK'
      BY LinkType DEF IInv, TypeOK, LinkUp, LinkDrop
    <2> QED
      BY <2>1
         DEF IInv, TypeOK, Cf!FileTypeOK, Bl!TypeOK, LinkUp, LinkDrop, control,
             config, clocks, due, dht, screen, light
  <1>2. (Place /\ Saving /\ Radio /\ Drawn)'
    BY ConfigAssumption
       DEF IInv, TypeOK, Place, Saving, Radio, Joining, Drawn, LinkUp,
           LinkDrop, Sta!LinkUp, Sta!LinkDrop, Sta!StationTypeOK, control,
           config, screen
  <1>3. (/\ RtcAttached /\ ZoneMatchesConfig /\ FileAgreesWithMemory
         /\ RtcKeepsTime /\ ReadingsShown)'
    BY DEF IInv, RtcAttached, ZoneMatchesConfig, FileAgreesWithMemory,
           RtcKeepsTime, ReadingsShown, Cf!Loadable, LinkUp, LinkDrop, control,
           config, clocks, screen
  <1> QED
    BY <1>1, <1>2, <1>3 DEF IInv

-----------------------------------------------------------------------------
(* The theorems. *)

\* The station switched off, with any file on its flash, satisfies it.
LEMMA InitInvariant == Init => IInv
  <1> SUFFICES ASSUME Init PROVE IInv
    OBVIOUS
  <1>1. TypeOK
    <2>1. /\ cfg \in Cf!Config /\ pending \in Cf!Config \cup {Null}
          /\ tz \in Zones \cup {Null} /\ Cf!FileTypeOK
      BY ConfigAssumption DEF Init, Constructed, Cf!DefaultConfig, Cf!Config
    <2>2. Sta!StationTypeOK
      BY DEF Init, Constructed, Sta!Down, Sta!StationTypeOK
    <2>3. sys_time \in Times /\ rtc \in Times \cup {NoTime}
      BY BaseAssumption DEF Init, Constructed, Times
    <2>4. tries \in 0..MaxReads /\ sample \in Readings \cup {NaN}
      BY BaseAssumption DEF Init, Constructed
    <2>5. Bl!TypeOK
      <3>1. boost \in BOOLEAN
        BY DEF Init, Constructed, Bl!InitialLight
      <3>2. level \in 0..1023 /\ last_light \in Lights \cup {0}
        BY DEF Init, Constructed, Bl!InitialLight, Bl!FullLevel
      <3> QED
        BY <3>1, <3>2 DEF Bl!TypeOK
    <2>6. pc \in Pcs /\ local \in Sensors /\ remote \in Sensors
      BY DEF Init, Constructed, Pcs, Sensors
    <2>7. /\ ap \in BOOLEAN /\ wifi_connected \in BOOLEAN
          /\ time_due \in BOOLEAN /\ sensor_due \in BOOLEAN
      BY DEF Init, Constructed
    <2> QED
      BY <2>1, <2>2, <2>3, <2>4, <2>5, <2>6 DEF Init, Constructed, TypeOK
  <1>2. Place /\ Saving /\ Radio /\ Drawn
    BY DEF Init, Constructed, Sta!Down, Place, Saving, Radio, Drawn
  <1>3. /\ RtcAttached /\ ZoneMatchesConfig /\ FileAgreesWithMemory
        /\ RtcKeepsTime /\ ReadingsShown
    BY DEF Init, Constructed, RtcAttached, ZoneMatchesConfig,
           FileAgreesWithMemory, RtcKeepsTime, ReadingsShown
  <1> QED
    BY <1>1, <1>2, <1>3 DEF IInv

\* A step that changes nothing keeps it.
LEMMA StutterInvariant == IInv /\ UNCHANGED vars => IInv'
  <1> SUFFICES ASSUME IInv, UNCHANGED vars PROVE IInv'
    OBVIOUS
  <1> USE DEF vars, control, config, radio, clocks, due, dht, screen, light
  <1>1. TypeOK'
    BY DEF IInv, TypeOK, Cf!FileTypeOK, Sta!StationTypeOK, Bl!TypeOK
  <1>2. Place' /\ Saving' /\ Radio' /\ Drawn'
    BY DEF IInv, Place, Saving, Radio, Joining, Drawn
  <1>3. /\ RtcAttached' /\ ZoneMatchesConfig' /\ FileAgreesWithMemory'
        /\ RtcKeepsTime' /\ ReadingsShown'
    BY DEF IInv, RtcAttached, ZoneMatchesConfig, FileAgreesWithMemory,
           RtcKeepsTime, ReadingsShown, Cf!Loadable
  <1> QED
    BY <1>1, <1>2, <1>3 DEF IInv

\* Every step of the station, of its timer and of its environment keeps it.
LEMMA StepInvariant == IInv /\ [Next]_vars => IInv'
  <1> SUFFICES ASSUME IInv, [Next]_vars PROVE IInv'
    OBVIOUS
  <1>1. CASE Thread
    BY <1>1, SkipTimeStep, StartTimeStep, EndConnectStep, NtpReplyStep,
       NtpNoneStep, SkipSensorStep, StartSensorStep, ReadDhtStep,
       EndSensorStep, EndSetupStep, ServePageStep, HandleReportStep,
       SetTimeStep, SetTimeZoneStep, SetWiFiConfigStep, EndSaveStep,
       PollButtonStep
       DEF Thread
  <1>2. CASE Tick
    BY <1>2, TickStep
  <1>3. CASE Environment
    BY <1>3, PowerOnStep, PowerLossStep, RtcLosesTimeStep, MinuteStep,
       ElapseStep, LinkStep
       DEF Environment
  <1>4. CASE UNCHANGED vars
    BY <1>4, StutterInvariant
  <1> QED
    BY <1>1, <1>2, <1>3, <1>4 DEF Next

\* The inductive invariant holds of every reachable state.
THEOREM Invariance == Spec => []IInv
  BY InitInvariant, StepInvariant, PTL DEF Spec

\* Every variable keeps its type: in particular no clock, no display record
\* and no backlight level leaves its range.
THEOREM TypeCorrect == Spec => []TypeOK
  <1>1. IInv => TypeOK
    BY DEF IInv
  <1> QED
    BY <1>1, Invariance, PTL

\* setTimeZone and the restarts never leave m_tz with rules that are not the
\* configuration's, whatever became of the saves.
THEOREM ZoneCorrect == Spec => []ZoneMatchesConfig
  <1>1. IInv => ZoneMatchesConfig
    BY DEF IInv
  <1> QED
    BY <1>1, Invariance, PTL

\* A file that loads, loads the configuration in force.
THEOREM FileCorrect == Spec => []FileAgreesWithMemory
  <1>1. IInv => FileAgreesWithMemory
    BY DEF IInv
  <1> QED
    BY <1>1, Invariance, PTL

\* m_wifi_connected agrees with the radio wherever loop() reads it.
THEOREM FlagCorrect == Spec => []FlagMatchesRadio
  <1>1. IInv => FlagMatchesRadio
    BY DEF IInv, Radio, Joining, Place, FlagMatchesRadio
  <1> QED
    BY <1>1, Invariance, PTL

\* The RTC and the system clock never part.
THEOREM RtcCorrect == Spec => []RtcKeepsTime
  <1>1. IInv => RtcKeepsTime
    BY DEF IInv
  <1> QED
    BY <1>1, Invariance, PTL

\* The readings that update_display compares with are the ones on the LCD.
THEOREM ReadingsCorrect == Spec => []ReadingsShown
  <1>1. IInv => ReadingsShown
    BY DEF IInv
  <1> QED
    BY <1>1, Invariance, PTL

\* Handlers and the timer run only after setup() prepared what they use.
THEOREM SetupFirst == Spec => []ServesAfterSetup
  <1>1. IInv => ServesAfterSetup
    BY ConfigAssumption
       DEF IInv, TypeOK, Place, Drawn, ZoneMatchesConfig, Cf!Config,
           ServesAfterSetup
  <1> QED
    BY <1>1, Invariance, PTL

\* A running station takes over only a configuration it has just written.
THEOREM SavesBeforeAdopting == Spec => AdoptsOnlySaved
  <1> DEFINE A == cfg' # cfg => pc = "off" \/ pc' = "off" \/ file' = cfg'
  <1>1. Next => A
    <2> SUFFICES ASSUME Next, cfg' # cfg, pc # "off", pc' # "off"
                 PROVE  file' = cfg'
      OBVIOUS
    <2>1. PICK complete \in BOOLEAN : EndSave(complete)
      BY DEF Next, Thread, Environment, Tick, SkipTime, StartTime, EndConnect,
             NtpReply, NtpNone, SkipSensor, StartSensor, ReadDht, EndSensor,
             EndSetup, ServePage, HandleReport, SetTime, SetTimeZone,
             RebuildZone, SetWiFiConfig, Reconnect, StartSave, PollButton,
             PowerOn, PowerLoss, RtcLosesTime, Minute, TimeElapses,
             SensorElapses, LinkUp, LinkDrop, config
    <2> QED
      BY <2>1 DEF EndSave, RebuildZone, Reconnect, Cf!WriteFile
  <1>2. UNCHANGED vars => A
    BY DEF vars, config
  <1>3. [Next]_vars => [A]_vars
    BY <1>1, <1>2
  <1> QED
    BY <1>3, PTL DEF Spec, AdoptsOnlySaved

-----------------------------------------------------------------------------
(* BaseStation implements ConfigStore: every initial state maps to an       *)
(* initial state of the register, and every step to a step of the register  *)
(* or to none.                                                              *)

Recall == {Cf!Loaded(result) : result \in Cf!LoadResults}
Fits   == {c \in Cf!Config : c.wifi \notin BigCreds}

-----------------------------------------------------------------------------
(* What a start makes of each kind of file. *)

\* Nothing to load: the defaults.
LEMMA RecallNothing ==
  file = Absent => Recall = Store!Remembered(Cf!DefaultConfig)
  <1> SUFFICES ASSUME file = Absent
               PROVE  Recall = Store!Remembered(Cf!DefaultConfig)
    OBVIOUS
  <1>1. Cf!LoadResults = {Failed}
    BY ConfigAssumption DEF Cf!LoadResults, Cf!Loadable, Cf!FileConfig
  <1> QED
    BY <1>1 DEF Recall, Cf!Loaded, Store!Remembered

\* What loading makes of a file without a zone is a configuration with the
\* default zone.
LEMMA LoadedConfig ==
  ASSUME NEW c \in Cf!FileConfig
  PROVE  /\ Cf!Loaded(c) \in Cf!Config
         /\ Cf!Loaded(c).wifi = c.wifi
         /\ c \in Cf!Config => Cf!Loaded(c) = c
  <1>1. c # Failed
    BY ConfigAssumption DEF Cf!FileConfig
  <1>2. c.wifi \in Creds /\ c.zone \in Zones \cup {NoZone}
    BY DEF Cf!FileConfig
  <1>3. Cf!Loaded(c) =
          [wifi |-> c.wifi,
           zone |-> IF c.zone = NoZone THEN DefaultZone ELSE c.zone]
    BY <1>1 DEF Cf!Loaded
  <1> QED
    BY <1>2, <1>3, ConfigAssumption DEF Cf!Config

\* A whole file: what loading makes of it, or the defaults if it is too long.
LEMMA RecallWhole ==
  file \in Cf!FileConfig => Recall = Store!Remembered(Cf!Loaded(file))
  <1> SUFFICES ASSUME file \in Cf!FileConfig
               PROVE  Recall = Store!Remembered(Cf!Loaded(file))
    OBVIOUS
  <1>1. file # Cut /\ file # Failed
    BY ConfigAssumption DEF Cf!FileConfig
  <1>2. CASE file.wifi \in BigCreds
    <2>1. Cf!LoadResults = {Failed}
      BY <1>1, <1>2 DEF Cf!LoadResults, Cf!Loadable
    <2> QED
      BY <1>2, <2>1, LoadedConfig DEF Recall, Cf!Loaded, Store!Remembered
  <1>3. CASE file.wifi \notin BigCreds
    <2>1. Cf!LoadResults = {file}
      BY <1>1, <1>3 DEF Cf!LoadResults, Cf!Loadable
    <2> QED
      BY <1>3, <2>1, LoadedConfig DEF Recall, Store!Remembered
  <1> QED
    BY <1>2, <1>3

\* A file cut short: anything that fits, or the defaults.
LEMMA RecallDamaged == file = Cut => Recall = Store!Damaged
  <1> SUFFICES ASSUME file = Cut PROVE Recall = Store!Damaged
    OBVIOUS
  <1> DEFINE short == {c \in Cf!FileConfig : c.wifi \notin BigCreds}
  <1>1. Cf!LoadResults = short \cup {Failed}
    BY ConfigAssumption DEF Cf!LoadResults, Cf!Loadable, Cf!FileConfig
  <1>2. Cf!Loaded(Failed) = Cf!DefaultConfig
    BY DEF Cf!Loaded
  <1>3. \A c \in short : Cf!Loaded(c) \in Fits
    BY LoadedConfig DEF Fits
  <1>4. \A c \in Fits : c \in short /\ Cf!Loaded(c) = c
    <2>1. Cf!Config \subseteq Cf!FileConfig
      BY DEF Cf!Config, Cf!FileConfig
    <2> QED
      BY <2>1, LoadedConfig DEF Fits
  <1>5. Store!Damaged = Fits \cup {Cf!DefaultConfig}
    BY DEF Store!Damaged, Fits
  <1> QED
    BY <1>1, <1>2, <1>3, <1>4, <1>5 DEF Recall

-----------------------------------------------------------------------------
(* Initial states and steps. *)

\* Whatever the file holds when the power first comes, the register can too.
LEMMA InitRefines == Init => Store!Init
  <1> SUFFICES ASSUME Init PROVE Store!Init
    OBVIOUS
  <1>1. pc = "off" /\ cfg = Cf!DefaultConfig
    BY DEF Init, Constructed
  <1>2. Recall = Store!Damaged
        \/ \E v \in Cf!Config : Recall = Store!Remembered(v)
    <2>1. CASE file \in Cf!FileConfig
      BY <2>1, RecallWhole, LoadedConfig
    <2>2. CASE file = Absent
      <3>1. Cf!DefaultConfig \in Cf!Config
        BY ConfigAssumption DEF Cf!DefaultConfig, Cf!Config
      <3> QED
        BY <2>2, <3>1, RecallNothing
    <2>3. CASE file = Cut
      BY <2>3, RecallDamaged
    <2> QED
      BY <2>1, <2>2, <2>3 DEF Init, Cf!FileTypeOK
  <1> QED
    BY <1>1, <1>2 DEF Store!Init, Recall

\* The same of the next state.
LEMMA RecallNext ==
  /\ file' = Cut => Recall' = Store!Damaged
  /\ file' \in Cf!FileConfig => Recall' = Store!Remembered(Cf!Loaded(file'))
  <1>1. (file = Cut => Recall = Store!Damaged)'
    BY RecallDamaged, PTL
  <1>2. (file \in Cf!FileConfig => Recall = Store!Remembered(Cf!Loaded(file)))'
    BY RecallWhole, PTL
  <1> QED
    BY <1>1, <1>2

\* While the file stays as it is, so does what a start makes of it.
LEMMA RecallStays == UNCHANGED file => Recall' = Recall
  BY DEF Recall, Cf!LoadResults, Cf!Loadable, Cf!Loaded

\* A complete save adopts a value; one that only begins or falls short
\* damages what is stored.
LEMMA SaveRefines ==
  ASSUME IInv, NEW complete \in BOOLEAN, EndSave(complete)
  PROVE  Store!Next
  <1>1. /\ pc # "off" /\ pc' # "off"
        /\ pending \in Cf!Config
    BY DEF IInv, Saving, EndSave, RebuildZone, Reconnect
  <1>2. CASE complete
    <2>1. file' = pending /\ cfg' = pending
      BY <1>2 DEF EndSave, Cf!WriteFile, RebuildZone, Reconnect
    <2>2. Recall' = Store!Remembered(pending)
      <3>1. pending \in Cf!FileConfig /\ Cf!Loaded(pending) = pending
        <4>1. Cf!Config \subseteq Cf!FileConfig
          BY DEF Cf!Config, Cf!FileConfig
        <4> QED
          BY <1>1, <4>1, LoadedConfig
      <3> QED
        BY <2>1, <3>1, RecallNext
    <2>3. Store!Adopt(pending)
      BY <1>1, <2>1, <2>2 DEF Store!Adopt, Recall
    <2> QED
      BY <1>1, <2>3 DEF Store!Next
  <1>3. CASE ~complete
    <2>1. file' = Cut /\ cfg' = cfg
      BY <1>3 DEF EndSave, Cf!WriteFile, RebuildZone, Reconnect
    <2>2. Recall' = Store!Damaged
      BY <2>1, RecallNext
    <2> QED
      BY <1>1, <2>1, <2>2 DEF Store!Next, Store!Damage, Recall
  <1> QED
    BY <1>2, <1>3

\* The steps that neither save nor switch the power leave the register alone.
LEMMA OtherStepsStutter ==
  ASSUME IInv, Next, ~PowerOn, ~PowerLoss,
         ~\E complete \in BOOLEAN : EndSave(complete)
  PROVE  /\ pc # "off" <=> pc' # "off"
         /\ cfg' = cfg
         /\ file' = file \/ (pc # "off" /\ file' = Cut)
  <1>1. CASE Tick \/ Environment
    BY <1>1 DEF Tick, Environment, RtcLosesTime, Minute, TimeElapses,
       SensorElapses, LinkUp, LinkDrop, control, config
  <1>2. CASE \/ SkipTime \/ StartTime
             \/ \E joined \in BOOLEAN : EndConnect(joined)
    BY <1>2 DEF IInv, TypeOK, SkipTime, StartTime, EndConnect,
       TimeReturns, config
  <1>3. CASE (\E t \in Times : NtpReply(t)) \/ NtpNone
    BY <1>3 DEF IInv, TypeOK, NtpReply, NtpNone, TimeReturns, config
  <1>4. CASE SkipSensor \/ StartSensor \/ ReadDht \/ EndSensor \/ EndSetup
    BY <1>4 DEF SkipSensor, StartSensor, ReadDht, EndSensor, EndSetup,
       control, config
  <1>5. CASE \/ ServePage \/ PollButton
             \/ \E r \in Readings : HandleReport(r)
             \/ \E t \in Times : SetTime(t)
    BY <1>5 DEF ServePage, PollButton, HandleReport, SetTime, Asked, config
  <1>6. CASE \E zone \in Zones : SetTimeZone(zone)
    <2>1. PICK zone \in Zones : SetTimeZone(zone)
      BY <1>6
    <2> DEFINE new == [cfg EXCEPT !.zone = zone]
    <2>2. CASE StartSave(new, "writeZone")
      BY <2>1, <2>2 DEF SetTimeZone, Asked, StartSave, Cf!OpenForWrite
    <2>3. CASE UNCHANGED file /\ RebuildZone(cfg)
      BY <2>1, <2>3 DEF SetTimeZone, Asked, RebuildZone
    <2> QED
      BY <2>1, <2>2, <2>3 DEF SetTimeZone
  <1>7. CASE \E cred \in Creds : SetWiFiConfig(cred)
    <2>1. PICK cred \in Creds : SetWiFiConfig(cred)
      BY <1>7
    <2> DEFINE new == [cfg EXCEPT !.wifi = cred]
    <2>2. CASE StartSave(new, "writeWifi")
      BY <2>1, <2>2 DEF SetWiFiConfig, Asked, StartSave, Cf!OpenForWrite
    <2>3. CASE UNCHANGED file /\ Reconnect(cfg)
      BY <2>1, <2>3 DEF SetWiFiConfig, Asked, Reconnect
    <2> QED
      BY <2>1, <2>2, <2>3 DEF SetWiFiConfig
  <1> QED
    BY <1>1, <1>2, <1>3, <1>4, <1>5, <1>6, <1>7 DEF Next, Thread

\* Every step of BaseStation is a step of the register, or none.
LEMMA StepRefines ==
  IInv /\ [Next]_vars => [Store!Next]_(Store!vars)
  <1> SUFFICES ASSUME IInv, [Next]_vars
               PROVE  [Store!Next]_(Store!vars)
    OBVIOUS
  <1>1. CASE PowerOn
    <2>1. /\ pc = "off" /\ pc' # "off"
          /\ cfg' \in Recall /\ file' = file
      BY <1>1 DEF PowerOn, Recall
    <2> QED
      BY <2>1, RecallStays DEF Store!Next, Store!Start, Recall
  <1>2. CASE PowerLoss
    <2>1. /\ pc # "off" /\ pc' = "off"
          /\ cfg' = Cf!DefaultConfig /\ file' = file
      BY <1>2 DEF PowerLoss, LoseRam
    <2> QED
      BY <2>1, RecallStays DEF Store!Next, Store!Stop, Recall
  <1>3. CASE \E complete \in BOOLEAN : EndSave(complete)
    BY <1>3, SaveRefines
  <1>4. CASE Next /\ ~PowerOn /\ ~PowerLoss
             /\ ~\E complete \in BOOLEAN : EndSave(complete)
    <2>1. /\ pc # "off" <=> pc' # "off"
          /\ cfg' = cfg
          /\ file' = file \/ (pc # "off" /\ file' = Cut)
      BY <1>4, OtherStepsStutter
    <2>2. CASE file' = file
      BY <2>1, <2>2, RecallStays DEF Store!vars, Recall
    <2>3. CASE pc # "off" /\ file' = Cut
      BY <2>1, <2>3, RecallNext DEF Store!Next, Store!Damage, Recall
    <2> QED
      BY <2>1, <2>2, <2>3
  <1>5. CASE UNCHANGED vars
    <2>1. pc' = pc /\ cfg' = cfg /\ file' = file
      BY <1>5 DEF vars, control, config
    <2> QED
      BY <2>1, RecallStays DEF Store!vars, Recall
  <1> QED
    BY <1>1, <1>2, <1>3, <1>4, <1>5

\* The configuration behaves as the register of ConfigStore: across failed,
\* broken-off and over-long saves, power losses and restarts.
THEOREM ImplementsStore == Spec => StoreSpec
  <1> QED
    BY InitRefines, StepRefines, Invariance, PTL
    DEF Spec, StoreSpec, Store!Spec
=============================================================================
