# Verification of the ESP8266 weather station

TLA+ modules, TLC runs and TLAPS proofs about the program in `src/`: a base
station (LCD, DHT22 sensor, RTC, Wi-Fi access point and station, web server), a
battery-powered remote that reports to it, and the simulator both are developed
with. `PROJECT.json` maps every definition to the lines it stands for.

## 1. Inventory

| Component | State | Operations | Hard behaviour |
| --- | --- | --- | --- |
| Base station control (`weather_station_base_class.cpp`) | configuration members, `m_tz`, `m_wifi_connected`, readings, `m_last_display_data`, interval stamps | `server_begin`, `on_loop` and its four calls, seven web handlers, the display timer's callback | one cooperative thread with long waits (10 s to join, 1.5 s for NTP, 5 s for the sensor); the timer's callback interleaves at each wait; power and link can go at any moment |
| Configuration file (`config_file.cpp`) | one JSON file on flash | `Load`, `Save` | truncated before it is written; size limit on one side only; unterminated buffer |
| Wi-Fi station (`wifi_station.cpp`) | the SDK's network and link | `connect_wifi`, `disconnect_wifi` | the SDK rejoins by itself until it is told to disconnect; the base keeps its own flag |
| Display (`display_data.*`, `display.*`, `sensor_data.*`) | the record last displayed, the texts of five regions | `changed`, `update`, `draw_display` | the record is also edited by handlers and read by the root page; the update reads what the loop and handlers write field by field |
| Backlight | level, last light reading, button | `adjust_back_light`, `handle_backlight_button` | two callers, hysteresis |
| Clock (`TimeLib.cpp`, RTC) | `sysTime`, `prevMillis`, cached fields; RTC | `now`, `setTime`, `breakTime`, `makeTime` | millis arithmetic; in the simulator several threads |
| Time zones (`Timezone.cpp`) | rules, cached change points | `toLocal`, `toUTC`, `calcTimeChanges` | cache of the year, gap and overlap hours |
| NTP client (`ntp_client.cpp`) | packet buffer, UDP socket | `getNtpTime` | lost, late, duplicated replies; 32-bit arithmetic |
| Remote (`esp8266_weather_station_remote.ino`) | none between wake-ups | wake, read, connect, report, deep sleep | one attempt, no acknowledgement looked at |
| Page templates and routing (`OOWebServer.h`) | handler list, template list | `on`, `loadPageTemplates`, `get_page_template` | order of registration |
| Simulator: timer (`Ticker.cpp`) | a thread | `attach_ms` | the thread shares the station's data without a lock |
| Simulator: web server (`ESP8266WebServer.cpp`, `simple_web_server/`) | a thread per connection, shared sockets, "the current" request | accept, read, `handle_get`, handlers, answer, close | what one request leaves in the members; clients that leave half-way |
| Request arguments (`UrlHelper.cpp`) | none | `SplitGetReq` and its replacements | the order of the replacements |

How they interact: `loop()` calls the sensor, the NTP update, the web server and
the button in that order; the web server calls a handler, which may save the
configuration, rebuild the zone or reconnect, all before it returns; the display
timer reads what the others left (readings, clock, zone) and writes the record
and the LCD; the remote reaches the web server through the access point.

What makes each part correct, in short: the zone object, the file and the radio
agree with the configuration in memory after any mix of failed saves and
restarts; the clock survives a restart; what update_display compares with is what
the LCD shows, and each draw is of one whole record; every wait ends, so that
requests keep being served and reports reach the LCD; a configured network in
range is joined in the end; what is stored of the remote is something it measured,
or the zeros of a report that broke off behind its first line and before its length,
and never older than what was stored before; each client is sent the answer to its
own request; a conversion uses the change points of its own year and zone.

## 2. Modules

| Module | Models | State and actions |
| --- | --- | --- |
| `Backlight` | the backlight | `level`, `last_light`, `boost`; `TimerAdjust` (the timer), `HandleButton` (the loop) |
| `ConfigFile` | what `Save` leaves in the file and what `Load` makes of it | `file`; operators `OpenForWrite`, `WriteFile`, `LoadResults`, `Loaded` |
| `WifiStation` | the station half of the radio | `sta`; operators `Begin`, `Restart`, `JoinEnds`, `Disconnect`, `LinkUp`, `LinkDrop` |
| `BaseStation` | the firmware of the base: composes the three with `INSTANCE` and adds the thread, the handlers, the clocks, the readings and the display | see below |
| `ConfigStore` | what the configuration promises, however it is stored: the value in force, and what a restart may come up with | `on`, `current`, `recall`; `Start`, `Stop`, `Damage`, `Adopt`. `BaseStation` implements it (`StoreSpec`) |
| `Intervals` | the stamps that decide when the sensor is read and NTP asked | `clock`, `last_update`; `Check` (the call of `loop()`), `UpdateNow` (setup, `setWiFiConfig`) |
| `SystemClock` | `now()` and `setTime()` of the Time library on the ESP8266 | `millis`, `sysTime`, `prevMillis`; `Now`, `SetTime`, `Elapse` |
| `SimClock` | the same code in the simulator, one access of a variable at a time by several threads | `pc`, `reg` per thread; `Test`, `LoadTime`, `StoreTime`, `LoadPrev`, `StorePrev`, `SetTime`, `RestartSecond` |
| `NtpClient` | `getNtpTime`, its socket and the network | `phase`, `begin_wait`, `queue`, `asked`, `net`; `Call`, `Send`, `Test`, `Accept`, `Skip`, `FindNothing`, `GiveUp`; the network `Serve`, `Deliver`, `DeliverSmall`, `Lose` |
| `Calendar` | `breakTime` and `makeTime` of the Time library | functions of a time in minutes |
| `CivilClock` | the reference for it: a wall calendar that goes from one day to the next | `day`, `date`; `Midnight` |
| `ZoneRules` | `Timezone`: its two rules, the cached change points, `toLocal`, `toUTC` | `zone`, `points`; `Replace` and the two conversions |
| `DisplayUpdate` | the display timer's callback one assignment at a time, beside the sensor update and the handlers that write what it reads; for both builds (`Preemptive`) | the callback's steps `Start`, `Convert`, `Copy`, `Compare`, `Update`, `Compose`, `NextRegion`, `Test`, `Write`, `Keep`; `Measure`, `SetTime`, `DeleteZone`, `NewZone` and the steps that end them |
| `Screen` | what the display promises, seen from outside | `Report`, `Edit`, `Show`. `DisplayUpdate` implements it (`ScreenSpec`) |
| `Remote` | the remote's cycle, the connections that wait at the base, what arrives on each, and what the base stores | `Wake`, `Read`, `Try`, `Connect`, `Post`, `Stop`, `DeepSleep`, ...; `Deliver`; the base's `Serve`, `HandleReport`, `TimeOut`, `EndPass`, `Crash`, `Start` |
| `SimServer` | the simulator's web server with a thread per connection, down to each access of the shared members | per connection `Accept`, `ReadLine`, ..., `SetArgs`, `Find`, `Report`, `Render`, `Redirect`, `SendReply`, `ClearRequest`; the clients' `Connect`, `Send`, `Leave` |
| `WebService` | what a web server promises, seen from outside: each request served in one step | `asked`, `cut`, `answer`, `stored`; `Ask`, `CutShort`, `Serve`. `SimServer` implements it (`ServesAtOnce`) |
| `UrlArgs` | a browser's encoding of a form and `SplitGetReq`, which takes it apart | `form`; `AddField`, `Type` |
| `MC...` | values of the constants for TLC; `MCTimeLibrary` and `MCSimulator` also put parts together, see section 3 | |
| `BaseStationProofs`, `BacklightProofs`, `IntervalsProofs`, `TimeLibraryProofs`, `NtpClientProofs`, `DisplayUpdateProofs`, `SimulatorProofs` | the theorems, see section 4; `Modular` holds the facts about remainders they share | |

The components meet as follows: `BaseStation` takes the result of a call of
`NtpClient` as its `NtpReply` or `NtpNone`, the passing of an interval of
`Intervals` as its flags `time_due` and `sensor_due`, the minutes of
`SystemClock` as its `sys_time`, one season of a zone of `ZoneRules` as its
offset, the draw of `DisplayUpdate` as one step, and the report that `Remote`
delivers as its request `report`.

### BaseStation

The ESP8266 runs `setup()` and `loop()` as one thread that other code interrupts
only where it waits. `pc` says where that thread is: `connectSetup`,
`connectTime`, `connectConfig` are the wait inside `connect_wifi` for its three
callers, `ntp` the wait of `getNtpTime`, `dht` the delay after a sensor read,
`client` the wait for a request in `handleClient`, `sensor` the boundary between
two calls of `loop()`; `time`, `draw` and `button` are the places in between, and
`writeZone`/`writeWifi` the gap between the open and the write of a save, which
only a power loss can enter. `caller` says to whom `update_time` and
`update_local_sensor_data` return (setup, loop, or the handler `setWiFiConfig`).
Between two such places the code is one action: `SetTime`, for example, is the
whole handler, `RebuildZone` the whole of `setTimeZone` after its save.

`Tick` is the timer's callback. It is enabled only in `Waits`, and only once
`setup()` has attached the timer. `PowerLoss` is possible everywhere: it resets
everything but the file and the RTC. `LinkUp`/`LinkDrop` follow the SDK, which
rejoins by itself until `WiFi.disconnect()`; `NtpReply` needs the link.

Abstractions: the clocks count minutes modulo `Day` (`display_data::changed`
ignores seconds); a zone is an offset, one season of it; a network is a pair of
SSID and password with the two facts the code can tell (in range, too long for
`Load`); a reading is a pair of temperature and humidity; the two update
intervals are flags that the environment raises. A file cut short loads as
anything, because `Load` parses an unterminated buffer: what lies behind its end
is undefined, so the model allows a failure and every configuration. The RTC is
optional (`HasRtc`). Pages change nothing, so they are one action, `ServePage`.

The operators whose names contain an underscore after a definition's name
(`Adjust_NoHysteresis`, `EndSave_AdoptsAnyway`, ...) are mutants: plausible bugs
of that definition, one or more per property. No specification uses them; putting
one in the place of its original makes TLC report the property violated, which
shows that the property depends on the code.

### The clocks and NTP

`SystemClock` and `SimClock` are one piece of code in two surroundings. On the
ESP8266 nothing interrupts `now()`, so the loop that counts whole seconds is one
step, and what matters are the two counters that wrap. In the simulator the
display timer and each connection are threads, nothing is locked, and each read
and write of `sysTime` and `prevMillis` is a step. History variables remember
what the clock was set to and how long ago, which is what it is held against.

`NtpClient` represents a datagram by the time its server put into it, and lets
the network lose, copy and delay requests and answers. Time passes, and datagrams
come, between any two steps of a call: between the test of the window and the look
at the socket, and between that and the next test, where the display timer's
callback may run too. `Lag` bounds one pass of the wait loop, and nothing else is
known of it. A datagram may be too small or of no bytes at all (`Small`); the latter
ends the discarding at the start of a call (`halted`). Servers that answer are taken
to have the time: the code looks at nothing but the stamp, and nothing could be said
of a server that lies.

`Intervals` keeps the stamps as the signed 32-bit `time_t` that every project
file of the repository asks for (`_USE_32BIT_TIME_T`), so that the subtraction
may overflow; the compilers yield the difference modulo the width. With a wider
`time_t`, the mutant `Passed_Wider`, updates stop for 49 days when `millis()`
wraps.

### The display update

`BaseStation` draws in one step, which the ESP8266 justifies: nothing interrupts
the callback. `DisplayUpdate` takes that step apart, each copy of a field and each
region for itself, and puts beside it the code that writes the readings, the clock
and the zone, equally fine. Its constant `Preemptive` says who may step in
between: nobody once the callback has begun (the ESP8266), or every thread (the
simulator). `forced` follows the code's call of `update_display` at the end of
`setup()`. The clock counts half days, so that the hour, the meridian and the date
each change alone.

### The remote

A connection is known by the wake-up it comes from, and `got` tells what has arrived
of its report: nothing, the first line, the headers up to the length of the body, or
all of it. Each `Deliver` brings the next part; the calls of `print` that write the
report are taken to arrive undivided. `deepSleep` follows `stop()` at once, so that
`Deliver` may stop after any part, and the base may serve the connection before it
comes. The base serves one connection in a pass of its loop. `TimeOut` is what
`_parseRequest` makes of a report of which no more comes: without a first line, or
with a body shorter than its length, there is no request; but headers that end
before the length make a request without a body, whose handler finds no arguments
and stores 0 for both (`Zero`). `Crash` loses the connections and the reading.
`measured` and `history` remember what the properties speak of: what was measured in
each wake-up, and what was stored.

### The simulator's web server

`currentRequest`, `currentArgs`, the headers and the handler found are members of
one object. Each is written in a step of its own. A client may leave at any point
of what it sends, and a thread that then waits for the rest of a body waits for
ever, as it does in the code (`Stuck`); the step that would follow a null pointer
does not exist. Requests come one at a time (`MaxOpen = 1`): see the divergences
in section 3 for what two do to each other.

`WebService` is told of a request when its client connects, and of a request that
was cut short when the client leaves before its end (`CutOff`). The effect of a
request and its answer come together there. In the code they do not: a report is
stored in one step and answered in a later one, so its answer counts as settled
from the moment it is stored (`Settled`), and that of any other request from the
moment it is written.

Requests are GET or POST: `webserver.cpp` tells no other, and `handle_get` asserts on
what it does not know.

In `UrlArgs` a browser puts the fields of a form together, `Split` takes a text
apart at a character, and `Value` makes the two replacements. `Params` is what the
handler finds.

### Calendar and zones

Times are minutes in the time library's 32-bit range, 1970 to 2106. `YearStart`
and `MonthStart` are the sums that the loops of `breakTime` and `makeTime` both
form; `CivilClock` uses neither. `ZoneRules` lets conversions come in any order, so
that a change point cached for one year is there when the next asks for another.

## 3. Runs

| Run | Question | Bounds |
| --- | --- | --- |
| `backlight` | Do two callers and a hysteresis keep the level consistent? | 115 light readings: a grid at the hysteresis's pitch and the neighbours of every threshold |
| `base_station` | Do memory, file, zone object, radio, clock, RTC and display record agree after any mix of requests, failed saves, power losses, link changes, NTP answers and timer ticks? Does all this implement `ConfigStore`? | three networks (in range, out of range, too long for `Load`), two zones, all initial files; a day of three minutes, an RTC able to lose its time, two reads per update, one reading |
| `liveness` | Does every wait end, does a report reach the LCD, and is a configured network in range joined? | two readings, two reads per update, one network in range, one out of range (the default) |
| `time_library` | Does the clock lose or gain time over calls and wraps? Are `breakTime` and `makeTime` right on every day? Do conversions use the change points of their own year and zone? | a counter of 16 milliseconds, seconds of three (so that no second ends at the wrap, as with 2^32 and 1000), `sysTime` of two bits, 50 ms; all 49,709 days and three times of each; four zones, the minutes around every change of two years (a leap year, and one whose March and November begin on a Sunday) |
| `display_update` | Is what the LCD shows always one whole record of whole readings, drawn without use of a deleted zone, whatever was written beside the draw? Does this implement `Screen`? | one writer with every operation, two addresses for a zone, two zones, two values, one day of two half days |
| `simulator` | The remote: is every stored reading a measured one, or the zeros of a cut report, and none older than the last; is what arrived whole stored, does the remote sleep again? The server: is each client sent its own answer, is each request that arrived whole answered, and do the many steps of a request amount to the one of `WebService`? The forms: do fields arrive as typed? The clock: does it keep time step by step? | three wakes, two connections waiting, two tries to join, a sensor that gives one reading or fails; six kinds of request on two connections; forms of three fields and three characters, of which one is sent as it is, four are sent as `%xy`, one is a tab and one the space; one thread, a counter of 8 ms from every phase of it |
| `intervals` | Is an update missed or early when `millis()` wraps or changes its sign? | interval and longest loop call that just fit; three wraps |
| `ntp_client` | Can a late, copied, small or empty datagram mislead a call, prolong it or make it miss its answer? | look-up 1, window 3, a pass of the loop 1, network delay 2, a counter of four ticks; stamps of eight values, a socket of two datagrams, nine ticks: two calls that give up and a third |
| `sim_clock_threads` | Is the subtraction of `now()` always the difference, as its comment says? No. | two threads, no settings |
| `zone_reuse` | Does `toLocal` convert "as appropriate" for a new zone in the memory of the last? No. | two zones, one year |
| `lcd_record` | Where update_display finds nothing to draw, does the LCD show the record? No. | as `base_station`, without RTC |
| `ap_reset` | Does the station serve only with its access point? No. | smallest |

`MCTimeLibrary` and `MCSimulator` put parts together that share no variable. Each
part moves only while the others are in their initial states, so a run explores
the parts one after the other and not their product, to which interleaving
could add nothing: no property speaks of two of them. Both runs switch the check
for deadlock off, because their parts come to an end: the library's days run out
in 2106, connections, forms and wake-ups are bounded. The other passing runs
check it.

Why the bounds are enough: the configuration is compared for equality only, so a
second zone and networks of each kind give every distinguishable case; the clocks
are added to and compared for equality, and three minutes tell "one minute later"
from "one minute earlier"; the sensor loop needs one repetition to differ from
none. The clocks' runs wrap every counter several times at every phase; the NTP
run has a span of stamps longer than the age an answer may have, so that an older
one would show, a socket in which a small datagram hides an answer, and a window
that fills the counter together with one pass, the most `NtpAssumption` allows. Three
wakes let two reports wait when a third is sent; a second connection shows what
the first leaves in the server's members; three characters let every order of
`%`, `+` and `&` meet the replacements. The calendar's run has no bound but the
library's own. The theorems below hold for all values.

`lcd_record`, `ap_reset`, `sim_clock_threads` and `zone_reuse` are disagreements
between the code and what it says of itself (see `findings` in PROJECT.json).
`setTimeZone` and `setTime` write the time of `m_last_display_data` without drawing
it, so the LCD keeps the old hour until the minute changes while the root page
already shows the new one. A failed access point is announced as a reset, which
`reset()` does not do. In the simulator two threads in `now()` count one second
twice, `prevMillis` overtakes `millis()`, and the next call counts 49 days. And a
`Timezone` that `setTimeZone` builds in the memory of the one it deleted finds that
one's change points of the year, and keeps them.

The models also show other places where the simulator is not the device; none
has a run of its own:

* with the timer as a thread (`Preemptive`), `NoUseAfterFree` and `SnapshotIsWhole`
  fail: the update uses the zone that `setTimeZone` deletes, and copies half of a
  report; `RegionsKept` holds all the same, and is proved for both builds;
* with two requests at a time (`MaxOpen = 2`) the end of one takes the current
  request from the other, against the assertion at `ESP8266WebServer.cpp:365`;
* the static cache of `TimeLib.cpp:42` may answer one thread with another's time;
* `WiFiClient.cpp:279` returns an error number where the device returns 0, so that a
  remote whose connection was refused posts all the same (`FailToConnect` leads to
  either);
* `UrlHelper.cpp:121` reads the character that a `%xy` stands for from a stream that
  skips white space, so that `%20`, `%09` or the end of a line is replaced by nothing,
  and the start of a `%xy` behind it is passed over. `Unescape` does the same. A
  browser sends a space as `+`, but a tab that was pasted as `%09`: `FormArrives`
  exempts the value it is in, and no other.

Four more places where the code does less than one might expect are in the
models and have no run of their own, because nothing in the repository denies them:

* a report that breaks off behind its first line and before its length is stored as
  0 degrees and 0 percent (`StoredIsOwn`; `Parsing.cpp:142` and `174`);
* an NTP answer that comes after the last look at the socket, though before the end
  of the window, is missed; `NoAnswerMissed` says until when it is not;
* a datagram of no bytes ends the discarding at `ntp_client.cpp:50`, so that an
  answer behind it, however old, is taken for the call's own (`AnswersAreFresh`
  exempts that call);
* `setTime` puts `toLocal(new_time)` into the display record, of a `new_time` that is
  local already (line 372): until the next draw the root page shows a time that is off
  by the zone's offset. `SetTime` does the same.

### Fairness

`FairSpec` assumes weak fairness of `Thread`, because the processor runs
and no step of the program blocks for ever by itself, and strong fairness of
`Tick`: a timer event that is due is delivered at the thread's next wait, and
every call of `loop()` ends in one. No fairness is assumed of the network, of
clients, of the sensor or of power. `NetworkJoined` has a premise of its own,
`Network`: the fifteen minutes pass, and a station which keeps trying a network in
range is let in during one of `update_time`'s waits, which is what "in range"
means. In `simulator`, `Remote` assumes weak fairness of the remote's `setup()` and
of the base's loop, both single threads whose waits are bounded, and none of the
network: `Deliver` may never happen, and the base may crash for good.
`SimServer` assumes weak fairness of each connection's thread, because the host
schedules it, and none of clients. `Answered` speaks of whole requests only.
Liveness allows for a power loss: `LoopServes` and `NetworkJoined` accept `off`,
and a restart empties the reading that `ReportShown` follows.

## 4. Proofs

`BaseStationProofs` proves, for every value of the constants that satisfies
`BaseAssumption` and `ConfigAssumption` (sentinels differ from data, defaults are
valid and short enough, offsets are integers, the light sensor has ten bits):

* `TypeCorrect`, `ZoneCorrect`, `FileCorrect`, `FlagCorrect`, `RtcCorrect`,
  `ReadingsCorrect`, `SetupFirst`: each safety invariant of the run
  `base_station`;
* `SavesBeforeAdopting`: the action property `AdoptsOnlySaved`.

The argument is one inductive invariant, `IInv`. The properties are not inductive
by themselves: `FlagMatchesRadio` says nothing during a wait for a connection, so
`Radio` states what the flag and the radio are there (the flag is down, and the
network tried is the configured one); `ZoneMatchesConfig` needs to know that a
save of a network does not touch the zone (`Saving`); and the types of the
display record need that handlers run only after the first draw (`Place`,
`Drawn`). `RtcKeepsTime` needs that an RTC that is not attached never holds a
time. One lemma per action shows that it preserves the parts of `IInv`; the
handlers that save are composed of `StartSaveStep`, `RebuildZoneStep` and
`ReconnectStep`.

Its last part proves `ImplementsStore`: `BaseStation` implements
`ConfigStore` under the mapping written beside `Store` in `BaseStation`. The
station runs iff it has power, the value in force is `cfg`, and what a restart may
come up with is what `Load` makes of the file. `IInv` is needed: that a completed
save adopts what it wrote rests on the file and the members agreeing. Each step
maps to `Start`, `Stop`, `Damage`, `Adopt` or a stutter, one lemma for each kind.

`BacklightProofs` proves `TypeCorrect`, `LevelCorrect` and `NeverFlickers` for
every set of light levels of ten bits.

`TimeLibraryProofs` is about the three parts of `MCTimeLibrary`, each for itself and
then together (`LibraryHolds`).

* `NoSecondLost`: the clock keeps time for all widths of its counters, all lengths
  of a second and all patterns of calls that leave at most `Wrap - Second`
  milliseconds between two (`ClockAssumption`; the display timer calls three times a
  second). The invariant `ClockInv` says that the wrapping difference *is* the time
  since the last second counted, which holds only because that time never outgrows
  the counter.
* `CalendarHolds`: on every day the wall calendar reaches, at every minute of it,
  `breakTime` shows the civil date and `makeTime` undoes it. The conversions do not
  count days as the wall calendar does, so the invariant relates the two: `day` is
  the sum of the years and months before `date` and of its days. That a time has one
  year which contains it, what `breakTime` looks for, is proved by the least year
  that ends after it: the natural numbers are well-founded, and a set's least element
  does the work of an induction.
* `ConversionsHold`: for any zones less than a day from UTC whose summer time is an
  hour or nothing (`ZoneAssumption`), conversions in any order and for any instants
  from 1971 on use the change points of their own year and zone. The invariant says
  that the cached points are unset or are those of some year in the present zone. It
  needs `~Reuse`: the run `zone_reuse` shows why. The lemmas `LocalFound` and
  `UTCFound` compare the code's tests with the offset of the instant; the second is
  where the hour that occurs twice and the one that does not are dealt with.
* `EnteredIsShown`: what is entered on the time page, converted by `toUTC` and shown
  by `toLocal`, is what was entered, unless no clock ever shows it.

`IntervalsProofs` proves `TypeCorrect`, `NoUpdateMissed` and `NoUpdateEarly` for all
intervals and calls of `loop()` that fit half the width together
(`IntervalAssumption`); its key lemma is that the difference of two wrapped stamps
is that of the times.

`NtpClientProofs` proves `TypeCorrect`, `EndsInTime`, `FreshAnswers` and
`MissesNone`. The invariant bounds the age of what the network carries, says that
whatever a call that discarded everything finds in its socket was stamped at most
`Delay` before the call began, and bounds the time the call has taken, measured over
the wrap. It rests on `NtpAssumption`: the window is positive and shorter than the
counter by a pass of the loop at least, so that no pass jumps over the end of the
wait, and small datagrams are told from full ones. For `MissesNone` it adds `Held`: an
answer that came in time lies in the socket, and the time that is left of the window
(`InWindow`) is enough to reach it though each pass takes one datagram and as long as
`Lag`. Each look at the socket takes one datagram and each pass at most `Lag`, so that
this survives whatever time passes and whatever arrives in between; and a call gives
up only when the time is over, when there is no such answer.

`DisplayUpdateProofs` proves `RegionsAreKept` for both builds: whatever the other
threads do, the string remembered for a region is the one on the LCD except
between the two assignments of a draw (`RegionInv`; the regions belong to the
callback alone). `ZoneIsThere` and `SnapshotsAreWhole` are proved under
`~Preemptive` and fail without it. They rest on `Exclusive` (while the callback
runs, no writer stands in the middle of an operation), `ZoneThere` (a writer that
stands elsewhere has left a live zone), and `SensorInv` with `SnapInv` (what is
copied so far is a part of whole readings).

`ImplementsScreen` is that `DisplayUpdate` implements `Screen` on the ESP8266, under the
mapping beside `Outside` in `DisplayUpdate`: a report counts from its first
assignment, and the screen shows the record from the moment it is taken to the end
of its draw. It needs three more invariants: `RecordInv` (only before the first
update is there no record), `DrawInv` (the regions a draw has passed show the
record), and `TimesInv` (every time is one of the days counted). The step that
matters is the last of a draw, where the mapping gives way to the LCD itself: all
five regions then show the record.

`SimulatorProofs` is about the four parts of `MCSimulator`, each for itself and then
together (`SimulatorHolds`).

`StoredIsTrue` and `StoredInOrder` are proved for any number of wake-ups, tries and
waiting connections, wherever each report breaks off (`RemoteAssumption`: sentinels
differ from data). The invariant says that the connections wait in the order of their
wake-ups (`Ordered`), that all of them are later than what is stored and none is
later than the last wake-up that may have connected (`Last`, which lags one behind
until it has), and that what has arrived of a report is a part of it or what was
measured in its own wake-up (`Told`). The order is needed for the zeros as well: more
arrives only on connections later than what is stored, so that the report the zeros
came from stays as it was cut. `QuietStep` serves every action that touches none of
this, `StoreStep` both ways of storing.

`OwnAnswerHolds` and `OwnReportHolds` are proved for any number of connections,
clients that leave anywhere, and any pages, while there is one request at a time
(`MaxOpen = 1`; with two they are false). `ServerAssumption` says of the pages that
a request is for one kind at most, and of the clients that a report carries a
reading. The invariant, `ServerInv`, follows the request through the shared members:
`Members` names which of them are its own at each place of its thread, by the sets
`Given`, `GivenMethod`, ..., `Chosen`; `OneOpen` says that no other thread can have
touched them since, though others may still wait, for ever, for a client that has
left; `Headers` that the list of headers is empty but between `redirect_to` and
`send`; and `ThreadOf` carries the argument and the answer of each connection from
its body to its close, with the two counts of its socket. `ServingStep` and
`QuietThread` are the two ways a step keeps this: a thread that uses the members is
alone, and one that does not leaves them be.

`ServesAtOnceHolds` is that `SimServer` implements `WebService` under the same
condition; what `WebService` says of a stored reading is `OwnReportHolds` once more,
so the run checks it there only. `ServerInv` is what the refinement needs: when a
report is stored or an answer written, the request that is served is still
unanswered, and the arguments that the handler reads are those of its own client or
none. Each step maps to `Ask`, `CutShort`, `Serve` or a stutter, one lemma for each
kind (`ThreadServes`, `ReportServes`, `FindServes`, `SendReplyServes`,
`ClientServes`).

`FormArrivesHolds` is proved for forms of any number of fields and values of any
length. `FormAssumption` says of the browser that it sends `+` and `&` in a value as
`%xy`, and of the names that none contains `&`. A value arrives if no white space in it
is sent as `%xy` (`Kept`); a tab may spoil the value it is in, and the theorem says that
it spoils no other field, nor the names. The library's induction and
recursion theorems cannot be used here, because they take operators as parameters,
so the section before it proves what is needed of them for sets and functions: a set
that holds 0 and goes on to the next holds all of 0..N (`Inductive`, by the least
number outside it), and a function given by its first value and its steps exists
(`Recursion`). From these follow what `FlattenSeq` and `Split` make of one more
element (`FlattenAppend`, `SplitAppend`), that texts sent with a separator after each
are found again (`SplitFields`, an induction over the fields, with `SplitText` over
the characters of one), and that a value is decoded as it was encoded
(`ValueArrives`, of values that are `Kept`). The invariant is only the type of `form`; the work is in the
lemmas.

`ClockKeepsTime` proves of `SimClock` with one thread (`Threads = OneThread`) what
`NoSecondLost` proves of the device: the time is kept, step by step, for every width
of the counter and every length of a second. The invariant, `ClockInv`, says how far
`sysTime` is ahead of `prevMillis` between the four accesses that count a second.

Only model-checked: liveness (`LoopServes`, `ReportShown`, `NetworkJoined`,
`ArrivedIsStored`, `SleepsAgain`, `Answered`), which the prover cannot do under
fairness. Every invariant and every action property of a passing run, and each
refinement, is stated by a theorem.

## 5. Not modelled

* Most lines of the repository are data or third-party code, which this project
  does not set out to verify: the bitmaps of `esp8266_sim/Fonts` (over 20,000
  lines), the graphics of `Adafruit_GFX`, `WString`, `ArduinoJson`, file-system and
  networking shims. The station uses them through a few calls, and the modules
  model what those calls do. The lines mapped are a small share of the whole for
  that reason; of the station's own sources and the parts of the simulator named
  in section 1 they are the greater part of what decides anything.
* The simulated devices (`DHT.cpp`, `DS3231`, `SPI`, the LCD's window) succeed
  always and keep no state. The DS1307 driver is compiled and never called. The
  test sketches are earlier versions of the same handlers.
* Left out of modelled parts: the wording of pages and logs; the cache of
  `breakTime`'s last result, which on the ESP8266 no caller can lose; `adjustTime`
  and the sync provider, which nothing uses; authentication, static files and
  uploads of the web server; `SplitUrl`, base64 and the client half of
  `socket.cpp`; `Ticker::detach`; rules in EEPROM, which is code for AVR boards.
* Three hazards have no property (see `hazards`): what the LCD's level should be in
  a room dark from the start, and how long a report of the remote counts, of which
  nothing in the repository says anything; and the cache of `TimeLib.cpp:42`, for
  which the threads of the simulator race as they do for the clock (`SimClock`).

## 6. Plan

Done: the base station with its configuration, radio, backlight and refinement of
`ConfigStore`; the update intervals; the system clock on both platforms; the NTP
client; the display update and its refinement of `Screen`; the remote with its
base; the simulator's web server and its refinement of `WebService`, the arguments
of its requests; calendar and zones. Every safety property is proved.

What is left: a property for the hazards that have none, once it is decided what the
program should do; and the cache of the Time library, if the simulator's threads are
ever given a lock.
