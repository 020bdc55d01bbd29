------------------------ MODULE DisplayUpdateProofs ------------------------
(***************************************************************************)
(* Proofs about DisplayUpdate, for any number of writers and any work of   *)
(* theirs.  What is proved of the ESP8266's build assumes that nobody is   *)
(* preempted: among it, that it implements Screen.  The regions are proved *)
(* for both builds.                                                        *)
(***************************************************************************)
EXTENDS DisplayUpdate, Integers, TLAPS

-----------------------------------------------------------------------------
(* The regions. *)

\* What is written to a region is what the Display then remembers of it.
RegionInv ==
    /\ RegionsKept
    /\ step \in {"test", "write", "keep"} => at \in 1..5
    /\ step = "keep" => lcd[Regions[at]] = text[Regions[at]]
    /\ lcd = [n \in Names |-> lcd[n]]
    /\ cached = [n \in Names |-> cached[n]]

\* Five regions, each with its own name.
LEMMA FiveRegions ==
  /\ Len(Regions) = 5 /\ DOMAIN Regions = 1..5
  /\ \A i \in 1..5 : Regions[i] \in Names
  /\ \A i, j \in 1..5 : Regions[i] = Regions[j] => i = j
  BY DEF Regions, Names


LEMMA InitialRegions == Init => RegionInv
  <1> SUFFICES ASSUME Init PROVE RegionInv
    OBVIOUS
  <1>1. /\ cached = [n \in Names |-> Blank] /\ lcd = cached
        /\ step = "convert"
    BY DEF Init
  <1> QED
    BY <1>1, FiveRegions DEF RegionInv, RegionsKept

\* The step to the next region, or out of the callback.
LEMMA NextRegionEffect ==
  ASSUME at \in 1..5, NextRegion
  PROVE  /\ step' \in {"test", "idle"}
         /\ at' \in 1..5
  BY FiveRegions DEF NextRegion

LEMMA StepKeepsRegions == RegionInv /\ [Next]_vars => RegionInv'
  <1> SUFFICES ASSUME RegionInv, [Next]_vars PROVE RegionInv'
    OBVIOUS
  <1> USE FiveRegions
  <1>1. CASE Test
    <2>1. step = "test" /\ at \in 1..5
      BY <1>1 DEF Test, RegionInv
    <2>2. \A i \in 1..5 : lcd[Regions[i]] = cached[Regions[i]]
      BY <2>1 DEF RegionInv, RegionsKept
    <2>3. cached' = cached
      BY <1>1 DEF Test
    <2>4. CASE text[Regions[at]] = cached[Regions[at]]
      <3>1. NextRegion /\ lcd' = lcd
        BY <1>1, <2>4 DEF Test
      <3> QED
        BY <2>1, <2>2, <2>3, <3>1, NextRegionEffect DEF RegionInv, RegionsKept
    <2>5. CASE text[Regions[at]] # cached[Regions[at]]
      <3>1. /\ step' = "write" /\ at' = at
            /\ lcd' = [lcd EXCEPT ![Regions[at]] = Blank]
        BY <1>1, <2>5 DEF Test
      <3>2. \A i \in 1..5 : i # at => lcd'[Regions[i]] = lcd[Regions[i]]
        BY <2>1, <3>1 DEF RegionInv
      <3>3. lcd' = [n \in Names |-> lcd'[n]]
        BY <3>1 DEF RegionInv
      <3> QED
        BY <2>1, <2>2, <2>3, <3>1, <3>2, <3>3 DEF RegionInv, RegionsKept
    <2> QED
      BY <2>4, <2>5
  <1>2. CASE Write
    <2>1. /\ step = "write" /\ at \in 1..5 /\ step' = "keep" /\ at' = at
          /\ cached' = cached /\ text' = text
          /\ lcd' = [lcd EXCEPT ![Regions[at]] = text[Regions[at]]]
      BY <1>2 DEF Write, RegionInv
    <2>2. lcd'[Regions[at]] = text[Regions[at]]
      BY <2>1 DEF RegionInv
    <2>3. \A i \in 1..5 : i # at => lcd'[Regions[i]] = lcd[Regions[i]]
      BY <2>1 DEF RegionInv
    <2>4. lcd' = [n \in Names |-> lcd'[n]]
      BY <2>1 DEF RegionInv
    <2> QED
      BY <2>1, <2>2, <2>3, <2>4 DEF RegionInv, RegionsKept
  <1>3. CASE Keep
    <2>1. /\ step = "keep" /\ at \in 1..5 /\ lcd' = lcd
          /\ cached' = [cached EXCEPT ![Regions[at]] = text[Regions[at]]]
          /\ lcd[Regions[at]] = text[Regions[at]]
      BY <1>3 DEF Keep, RegionInv
    <2>2. NextRegion
      BY <1>3 DEF Keep
    <2>3. step' \in {"test", "idle"} /\ at' \in 1..5
      BY <2>1, <2>2, NextRegionEffect
    <2>4. cached'[Regions[at]] = text[Regions[at]]
      BY <2>1 DEF RegionInv
    <2>5. \A i \in 1..5 : i # at => cached'[Regions[i]] = cached[Regions[i]]
      BY <2>1 DEF RegionInv
    <2>6. \A i \in 1..5 : lcd'[Regions[i]] = cached'[Regions[i]]
      BY <2>1, <2>4, <2>5 DEF RegionInv, RegionsKept
    <2>7. cached' = [n \in Names |-> cached'[n]]
      BY <2>1 DEF RegionInv
    <2> QED
      BY <2>1, <2>3, <2>6, <2>7 DEF RegionInv, RegionsKept
  <1>4. CASE Compose
    BY <1>4 DEF Compose, RegionInv, RegionsKept, screen
  <1>5. CASE Start \/ Convert \/ Copy \/ Compare \/ Update
    <2>1. /\ lcd' = lcd /\ cached' = cached
          /\ step \in {"idle", "convert", "copy", "compare", "update"}
          /\ step' \in {"convert", "copy", "compare", "update", "compose",
                        "idle"}
      BY <1>5 DEF Start, Convert, Copy, Compare, Update, screen
    <2> QED
      BY <2>1 DEF RegionInv, RegionsKept
  <1>6. CASE UNCHANGED <<cached, lcd, step, text, at>>
    BY <1>6 DEF RegionInv, RegionsKept
  <1>7. ASSUME NEW w \in Writers, Writer(w)
        PROVE  UNCHANGED <<cached, lcd, step, text, at>>
    BY <1>7 DEF Writer, Measure, EndMeasure, SetTime, EndSetTime, DeleteZone,
                NewZone, EndSetTimeZone, screen, timer
  <1>8. Minute \/ UNCHANGED vars => UNCHANGED <<cached, lcd, step, text, at>>
    BY DEF Minute, vars, screen, timer
  <1> QED
    BY <1>1, <1>2, <1>3, <1>4, <1>5, <1>6, <1>7, <1>8 DEF Next, Timer

\* A region of the display that is left out of a draw shows what the draw
\* would have put there, in both builds.
THEOREM RegionsAreKept == Spec => []RegionsKept
  <1>1. Spec => []RegionInv
    BY InitialRegions, StepKeepsRegions, PTL DEF Spec
  <1>2. RegionInv => RegionsKept
    BY DEF RegionInv
  <1> QED
    BY <1>1, <1>2, PTL

-----------------------------------------------------------------------------
(* Who runs: nobody is interrupted. *)

\* The timer's callback and the writers never overlap.
Exclusive ==
    /\ forced \in BOOLEAN
    /\ forced => step # "idle"
    /\ step # "idle" => \A w \in Writers : Waiting(w)
    /\ \A v, w \in Writers : ~Waiting(v) /\ ~Waiting(w) => v = w
    /\ doing = [w \in Writers |-> doing[w]]

\* There is a zone but where setTimeZone has deleted it, and the callback uses
\* the one there is.
ZoneThere ==
    /\ (\A w \in Writers : doing[w] # "new") => tz \in live
    /\ step = "convert" => ptr = tz

LEMMA InitiallyExclusive == Init => Exclusive /\ ZoneThere
  BY DEF Init, Exclusive, ZoneThere, Waiting

\* A step of the timer is taken while all writers wait, and leaves what they
\* write alone.
LEMMA TimerStep ==
  ASSUME ~Preemptive, Exclusive, Timer
  PROVE  /\ \A w \in Writers : Waiting(w)
         /\ UNCHANGED <<sensor, tz, live, doing, arg>>
         /\ forced' \in BOOLEAN
         /\ forced' => step' # "idle"
  <1>1. TimerMayRun
    BY DEF Timer, Start, Convert, Copy, Compare, Update, Compose, Test, Write,
           Keep
  <1>2. \A w \in Writers : Waiting(w)
    BY <1>1 DEF TimerMayRun, Exclusive
  <1>3. UNCHANGED <<sensor, tz, live, doing, arg>>
    BY DEF Timer, Start, Convert, Copy, Compare, Update, Compose, Test, Write,
           Keep, zone
  <1>4. CASE Test \/ Keep
    <2>1. NextRegion \/ (step' = "write" /\ forced' = forced)
      BY <1>4 DEF Test, Keep
    <2> QED
      BY <1>2, <1>3, <2>1 DEF NextRegion, Exclusive
  <1>5. CASE Start \/ Convert \/ Copy \/ Compare \/ Update \/ Compose \/ Write
    <2>1. forced' = forced /\ forced \in BOOLEAN
      BY <1>5 DEF Start, Convert, Copy, Compare, Update, Compose, Write,
                  Exclusive
    <2>2. CASE Compare
      <3>1. step' = IF forced \/ snap # record THEN "update" ELSE "idle"
        BY <2>2 DEF Compare
      <3> QED
        BY <1>2, <1>3, <2>1, <3>1
    <2>3. CASE Start \/ Convert \/ Copy \/ Update \/ Compose \/ Write
      <3>1. step' # "idle"
        BY <2>3 DEF Start, Convert, Copy, Update, Compose, Write
      <3> QED
        BY <1>2, <1>3, <2>1, <3>1
    <2> QED
      BY <1>5, <2>2, <2>3
  <1> QED
    BY <1>4, <1>5 DEF Timer

\* A step of a writer is taken while the timer is idle and the others wait.
LEMMA WriterStep ==
  ASSUME ~Preemptive, Exclusive, NEW w \in Writers, Writer(w)
  PROVE  /\ step = "idle" /\ ~forced
         /\ \A v \in Writers \ {w} : Waiting(v)
         /\ UNCHANGED timer
         /\ \E d : doing' = [doing EXCEPT ![w] = d]
  BY DEF Writer, Measure, EndMeasure, SetTime, EndSetTime, DeleteZone,
         NewZone, EndSetTimeZone, Begins, Continues, WriterMayRun, timer

LEMMA StepKeepsExclusive ==
  ASSUME ~Preemptive, Exclusive, [Next]_vars
  PROVE  Exclusive'
  <1>1. CASE Timer
    <2>1. /\ \A w \in Writers : Waiting(w)
          /\ doing' = doing
          /\ forced' \in BOOLEAN
          /\ forced' => step' # "idle"
      BY <1>1, TimerStep
    <2> QED
      BY <2>1 DEF Exclusive, Waiting
  <1>2. ASSUME NEW w \in Writers, Writer(w)
        PROVE  Exclusive'
    <2>1. /\ step = "idle" /\ ~forced /\ step' = step /\ forced' = forced
          /\ \A v \in Writers \ {w} : Waiting(v)
      BY <1>2, WriterStep DEF timer
    <2>2. PICK d : doing' = [doing EXCEPT ![w] = d]
      BY <1>2, WriterStep
    <2>3. doing' = [v \in Writers |-> doing'[v]]
      BY <2>2 DEF Exclusive
    <2>4. \A v \in Writers \ {w} : doing'[v] = "ready"
      BY <2>1, <2>2 DEF Exclusive, Waiting
    <2> QED
      BY <2>1, <2>3, <2>4 DEF Exclusive, Waiting
  <1>3. CASE Minute \/ UNCHANGED vars
    BY <1>3 DEF Minute, vars, timer, Exclusive, Waiting
  <1> QED
    BY <1>1, <1>2, <1>3 DEF Next

LEMMA StepKeepsZone ==
  ASSUME ~Preemptive, Exclusive, ZoneThere, [Next]_vars
  PROVE  ZoneThere'
  <1>1. CASE Timer
    <2>1. UNCHANGED <<tz, live, doing>>
      BY <1>1, TimerStep
    <2>2. step' = "convert" => ptr' = tz
      <3>1. CASE Start
        BY <3>1 DEF Start
      <3>2. CASE Test \/ Keep
        <4>1. step' # "convert"
          BY <3>2 DEF Test, Keep, NextRegion
        <4> QED
          BY <4>1
      <3>3. CASE Convert \/ Copy \/ Compare \/ Update \/ Compose \/ Write
        <4>1. step' # "convert"
          BY <3>3 DEF Convert, Copy, Compare, Update, Compose, Write
        <4> QED
          BY <4>1
      <3> QED
        BY <1>1, <3>1, <3>2, <3>3 DEF Timer
    <2> QED
      BY <2>1, <2>2 DEF ZoneThere
  <1>2. ASSUME NEW w \in Writers, Writer(w)
        PROVE  ZoneThere'
    <2>1. /\ step' = "idle"
          /\ \A v \in Writers \ {w} : Waiting(v)
      BY <1>2, WriterStep DEF timer
    <2>2. CASE \E z \in Zones : DeleteZone(w, z)
      <3>1. doing' = [doing EXCEPT ![w] = "new"]
        BY <2>2 DEF DeleteZone, Begins
      <3>2. doing'[w] = "new"
        BY <3>1 DEF Exclusive
      <3> QED
        BY <2>1, <3>2 DEF ZoneThere
    <2>3. CASE \E o \in Heap : NewZone(w, o)
      <3>1. tz' \in live'
        BY <2>3 DEF NewZone
      <3> QED
        BY <2>1, <3>1 DEF ZoneThere
    <2>4. CASE \/ \E s \in Sensors : \/ EndMeasure(w, s)
                                     \/ \E r \in Readings : Measure(w, s, r)
               \/ \E t \in Times : SetTime(w, t)
               \/ EndSetTime(w) \/ EndSetTimeZone(w)
      <3>1. UNCHANGED <<tz, live>> /\ doing[w] # "new"
        BY <2>4 DEF Measure, EndMeasure, SetTime, EndSetTime, EndSetTimeZone,
                    Begins, Continues, Waiting, Sensors, zone
      <3>2. tz \in live
        BY <2>1, <3>1 DEF ZoneThere, Waiting
      <3> QED
        BY <2>1, <3>1, <3>2 DEF ZoneThere
    <2> QED
      BY <1>2, <2>2, <2>3, <2>4 DEF Writer
  <1>3. CASE Minute \/ UNCHANGED vars
    BY <1>3 DEF Minute, vars, timer, zone, ZoneThere
  <1> QED
    BY <1>1, <1>2, <1>3 DEF Next

\* On the ESP8266 nobody uses a zone that setTimeZone has deleted, whatever the
\* writers do and wherever new takes its memory.
THEOREM ZoneIsThere == ~Preemptive /\ Spec => []NoUseAfterFree
  <1>1. ~Preemptive /\ Spec => [](Exclusive /\ ZoneThere)
    <2> SUFFICES ASSUME ~Preemptive
                 PROVE  Spec => [](Exclusive /\ ZoneThere)
      OBVIOUS
    <2>1. Exclusive /\ ZoneThere /\ [Next]_vars => (Exclusive /\ ZoneThere)'
      BY StepKeepsExclusive, StepKeepsZone
    <2> QED
      BY <2>1, InitiallyExclusive, PTL DEF Spec
  <1>2. Exclusive /\ ZoneThere => NoUseAfterFree
    <2> SUFFICES ASSUME Exclusive, ZoneThere PROVE NoUseAfterFree
      OBVIOUS
    <2>1. ASSUME step = "convert" PROVE ptr \in live
      BY <2>1 DEF Exclusive, ZoneThere, Waiting
    <2>2. ASSUME NEW w \in Writers, doing[w] \in {"time", "stamp"}
          PROVE  tz \in live
      <3>1. \A v \in Writers : doing[v] # "new"
        BY <2>2 DEF Exclusive, Waiting
      <3> QED
        BY <3>1 DEF ZoneThere
    <2> QED
      BY <2>1, <2>2 DEF NoUseAfterFree
  <1> QED
    BY <1>1, <1>2, PTL

-----------------------------------------------------------------------------
(* The snapshot. *)

IsPair(r) == r = [f \in Fields |-> r[f]]

IsTable(t) == /\ t = [s \in Sensors |-> t[s]]
              /\ \A s \in Sensors : IsPair(t[s])

\* A sensor nobody is writing holds one report, and who is writing one has a
\* report to write.
SensorInv ==
    /\ IsTable(sensor)
    /\ arg = [w \in Writers |-> arg[w]]
    /\ \A s \in Sensors :
         (\A w \in Writers : doing[w] # s)
           => sensor[s] \in Readings \cup {NoReading}
    /\ \A w \in Writers : doing[w] \in Sensors => arg[w] \in Readings

\* The part numbered j of the snapshot is copied.
Copied(j) == snap.reading[Parts[j][1]][Parts[j][2]]
               = sensor[Parts[j][1]][Parts[j][2]]

SnapInv ==
    /\ snap = [time |-> snap.time, reading |-> snap.reading]
    /\ IsTable(snap.reading)
    /\ step = "copy" => /\ at \in 1..4
                        /\ \A j \in 1..4 : j < at => Copied(j)
    /\ step \in {"compare", "update"} => snap.reading = sensor

LEMMA FourParts ==
  /\ Len(Parts) = 4
  /\ Parts[1] = <<"local", "temperature">>
  /\ Parts[2] = <<"local", "humidity">>
  /\ Parts[3] = <<"remote", "temperature">>
  /\ Parts[4] = <<"remote", "humidity">>
  /\ \A j \in 1..4 : Parts[j][1] \in Sensors /\ Parts[j][2] \in Fields
  BY DEF Parts, Sensors, Fields

LEMMA TwoPairs ==
  ASSUME NEW t, NEW u, IsTable(t), IsTable(u),
         \A j \in 1..4 :
            t[Parts[j][1]][Parts[j][2]] = u[Parts[j][1]][Parts[j][2]]
  PROVE  t = u
  <1>1. \A s \in Sensors, f \in Fields : t[s][f] = u[s][f]
    <2>1. /\ t["local"]["temperature"] = u["local"]["temperature"]
          /\ t["local"]["humidity"] = u["local"]["humidity"]
      BY FourParts
    <2>2. /\ t["remote"]["temperature"] = u["remote"]["temperature"]
          /\ t["remote"]["humidity"] = u["remote"]["humidity"]
      BY FourParts
    <2> QED
      BY <2>1, <2>2 DEF Sensors, Fields
  <1>2. ASSUME NEW s \in Sensors PROVE t[s] = u[s]
    <2>1. /\ t[s] = [f \in Fields |-> t[s][f]]
          /\ u[s] = [f \in Fields |-> u[s][f]]
      BY DEF IsTable, IsPair
    <2>2. [f \in Fields |-> t[s][f]] = [f \in Fields |-> u[s][f]]
      BY <1>1
    <2> QED
      BY <2>1, <2>2, Zenon
  <1>3. t = [s \in Sensors |-> t[s]] /\ u = [s \in Sensors |-> u[s]]
    BY DEF IsTable
  <1>4. [s \in Sensors |-> t[s]] = [s \in Sensors |-> u[s]]
    BY <1>2
  <1> QED
    BY <1>3, <1>4, Zenon

LEMMA InitialSnapshot == Init => SensorInv /\ SnapInv
  <1> SUFFICES ASSUME Init PROVE SensorInv /\ SnapInv
    OBVIOUS
  <1>1. IsTable(sensor)
    BY DEF Init, IsTable, IsPair, NoReading
  <1>2. \A w \in Writers : doing[w] = "ready"
    BY DEF Init
  <1>3. SensorInv
    BY <1>1, <1>2 DEF Init, SensorInv, Sensors
  <1>4. snap = [time |-> utc, reading |-> sensor] /\ step = "convert"
    BY DEF Init
  <1> QED
    BY <1>1, <1>3, <1>4 DEF SnapInv

LEMMA ReadingsArePairs ==
  /\ \A r \in Readings : IsPair(r)
  /\ IsPair(NoReading)
  BY DEF Readings, NoReading, IsPair

LEMMA StepKeepsSensors ==
  ASSUME ~Preemptive, Exclusive, SensorInv, [Next]_vars
  PROVE  SensorInv'
  <1>1. CASE UNCHANGED <<sensor, doing, arg>>
    BY <1>1 DEF SensorInv, IsTable, IsPair
  <1>2. CASE Timer
    BY <1>1, <1>2, TimerStep
  <1>3. ASSUME NEW w \in Writers, Writer(w)
        PROVE  SensorInv'
    <2>1. \A v \in Writers \ {w} : Waiting(v)
      BY <1>3, WriterStep
    <2>2. \A v \in Writers \ {w} : doing'[v] \notin Sensors
      <3>1. PICK d : doing' = [doing EXCEPT ![w] = d]
        BY <1>3, WriterStep
      <3> QED
        BY <2>1, <3>1 DEF Exclusive, Waiting, Sensors
    <2>3. ASSUME NEW s \in Sensors, NEW r \in Readings, Measure(w, s, r)
          PROVE  SensorInv'
      <3>1. /\ doing' = [doing EXCEPT ![w] = s]
            /\ arg' = [arg EXCEPT ![w] = r]
            /\ sensor' = [sensor EXCEPT ![s][First[s]] = r[First[s]]]
            /\ Waiting(w)
        BY <2>3 DEF Measure, Begins
      <3>2. First[s] \in Fields
        BY DEF First, Sensors, Fields
      <3>3. /\ IsTable(sensor')
            /\ \A q \in Sensors : q # s => sensor'[q] = sensor[q]
        <4>1. IsTable(sensor)
          BY DEF SensorInv
        <4>2. sensor' = [sensor EXCEPT ![s][First[s]] = r[First[s]]]
          BY <3>1
        <4> QED
          BY <3>2, <4>1, <4>2 DEF IsTable, IsPair
      <3>4. doing'[w] = s /\ arg'[w] = r /\ arg' = [v \in Writers |-> arg'[v]]
        BY <3>1 DEF Exclusive, SensorInv
      <3>5. \A v \in Writers : doing[v] \notin Sensors
        BY <2>1, <3>1 DEF Waiting, Sensors
      <3>6. ASSUME NEW q \in Sensors, \A v \in Writers : doing'[v] # q
            PROVE  sensor'[q] \in Readings \cup {NoReading}
        BY <3>3, <3>4, <3>5, <3>6 DEF SensorInv
      <3> QED
        BY <2>2, <3>3, <3>4, <3>6 DEF SensorInv, IsTable, IsPair
    <2>4. ASSUME NEW s \in Sensors, EndMeasure(w, s)
          PROVE  SensorInv'
      <3>1. /\ doing[w] = s
            /\ doing' = [doing EXCEPT ![w] = "ready"]
            /\ arg' = [arg EXCEPT ![w] = NoReading]
            /\ sensor' = [sensor EXCEPT ![s] = arg[w]]
        BY <2>4 DEF EndMeasure, Continues
      <3>2. arg[w] \in Readings
        BY <3>1 DEF SensorInv
      <3>3. /\ sensor'[s] \in Readings
            /\ \A q \in Sensors : q # s => sensor'[q] = sensor[q]
            /\ sensor' = [q \in Sensors |-> sensor'[q]]
        BY <3>1, <3>2 DEF SensorInv, IsTable
      <3>4. IsTable(sensor')
        BY <3>3, ReadingsArePairs DEF SensorInv, IsTable
      <3>5. doing'[w] \notin Sensors /\ arg' = [v \in Writers |-> arg'[v]]
        BY <3>1 DEF Exclusive, SensorInv, Sensors
      <3>6. ASSUME NEW q \in Sensors
            PROVE  sensor'[q] \in Readings \cup {NoReading}
        <4>1. CASE q = s
          BY <3>3, <4>1
        <4>2. CASE q # s
          <5>1. \A v \in Writers : doing[v] # q
            BY <2>1, <3>1, <4>2 DEF Waiting, Sensors
          <5> QED
            BY <3>3, <4>2, <5>1 DEF SensorInv
        <4> QED
          BY <4>1, <4>2
      <3> QED
        BY <2>2, <3>4, <3>5, <3>6 DEF SensorInv, IsTable, IsPair
    <2>5. CASE \/ \E t \in Times : SetTime(w, t)
               \/ \E z \in Zones : DeleteZone(w, z)
               \/ \E o \in Heap : NewZone(w, o)
               \/ EndSetTime(w) \/ EndSetTimeZone(w)
      <3>1. sensor' = sensor /\ doing[w] \notin Sensors
        BY <2>5 DEF SetTime, DeleteZone, NewZone, EndSetTime, EndSetTimeZone,
                    Begins, Continues, Waiting, Sensors
      <3>2. /\ doing'[w] \notin Sensors
            /\ arg' = arg \/ \E a : arg' = [arg EXCEPT ![w] = a]
        BY <2>5 DEF SetTime, DeleteZone, NewZone, EndSetTime, EndSetTimeZone,
                    Begins, Continues, Sensors, Exclusive
      <3>3. arg' = [v \in Writers |-> arg'[v]]
        BY <3>2 DEF SensorInv
      <3>4. \A v \in Writers : doing[v] \notin Sensors
        BY <2>1, <3>1 DEF Waiting, Sensors
      <3>5. \A q \in Sensors : sensor'[q] \in Readings \cup {NoReading}
        BY <3>1, <3>4 DEF SensorInv
      <3> QED
        BY <2>2, <3>1, <3>2, <3>3, <3>5 DEF SensorInv, IsTable, IsPair
    <2> QED
      BY <1>3, <2>3, <2>4, <2>5 DEF Writer
  <1>4. Minute \/ UNCHANGED vars => UNCHANGED <<sensor, doing, arg>>
    BY DEF Minute, vars
  <1> QED
    BY <1>1, <1>2, <1>3, <1>4 DEF Next

LEMMA StepKeepsSnapshot ==
  ASSUME ~Preemptive, Exclusive, SensorInv, SnapInv, [Next]_vars
  PROVE  SnapInv'
  <1>1. CASE Timer
    <2>1. sensor' = sensor
      BY <1>1, TimerStep
    <2>2. CASE Start
      <3>1. step' = "convert" /\ snap' = [snap EXCEPT !.time = utc]
        BY <2>2 DEF Start
      <3>2. snap' = [time |-> utc, reading |-> snap.reading]
        BY <3>1 DEF SnapInv
      <3> QED
        BY <3>1, <3>2 DEF SnapInv, IsTable, IsPair
    <2>3. CASE Convert
      <3>1. /\ step' = "copy" /\ at' = 1
            /\ \E t : snap' = [snap EXCEPT !.time = t]
        BY <2>3 DEF Convert
      <3>2. PICK t : snap' = [time |-> t, reading |-> snap.reading]
        BY <3>1 DEF SnapInv
      <3> QED
        BY <3>1, <3>2 DEF SnapInv, IsTable, IsPair
    <2>4. CASE Copy
      <3>1. /\ step = "copy" /\ at \in 1..4
            /\ \A j \in 1..4 : j < at => Copied(j)
        BY <2>4 DEF Copy, SnapInv
      <3> DEFINE s == Parts[at][1]
                 f == Parts[at][2]
      <3>2. s \in Sensors /\ f \in Fields
        BY <3>1, FourParts
      <3>3. snap' = [snap EXCEPT !.reading[s][f] = sensor[s][f]]
        BY <2>4 DEF Copy
      <3>4. snap' = [time |-> snap.time,
                     reading |-> [snap.reading EXCEPT ![s][f] = sensor[s][f]]]
        BY <3>3 DEF SnapInv
      <3>5. /\ snap'.reading = [snap.reading EXCEPT ![s][f] = sensor[s][f]]
            /\ snap' = [time |-> snap'.time, reading |-> snap'.reading]
        BY <3>4
      <3>6. /\ IsTable(snap'.reading)
            /\ snap'.reading[s][f] = sensor[s][f]
            /\ \A q \in Sensors, g \in Fields :
                 q # s \/ g # f => snap'.reading[q][g] = snap.reading[q][g]
        <4>1. PICK t, u, v : t = snap.reading /\ u = snap'.reading
                             /\ v = sensor[s][f]
          OBVIOUS
        <4>2. IsTable(t) /\ u = [t EXCEPT ![s][f] = v]
          BY <3>5, <4>1 DEF SnapInv
        <4> HIDE DEF s, f
        <4>3. /\ IsTable(u) /\ u[s][f] = v
              /\ \A q \in Sensors, g \in Fields :
                   q # s \/ g # f => u[q][g] = t[q][g]
          BY <3>2, <4>2 DEF IsTable, IsPair
        <4> QED
          BY <4>1, <4>3
      <3>7. ASSUME NEW j \in 1..4, j <= at
            PROVE  Copied(j)'
        <4> DEFINE q == Parts[j][1]
                   g == Parts[j][2]
        <4>1. q \in Sensors /\ g \in Fields
          BY FourParts
        <4>2. CASE q = s /\ g = f
          BY <2>1, <3>6, <4>2 DEF Copied
        <4>3. CASE q # s \/ g # f
          <5>1. j < at
            <6>1. j # at
              BY <4>3, Zenon
            <6>2. at \in Nat /\ j \in Nat
              BY <3>1
            <6> HIDE DEF s, f, q, g
            <6> QED
              BY <3>7, <6>1, <6>2
          <5>2. snap.reading[q][g] = sensor[q][g]
            BY <3>1, <5>1 DEF Copied
          <5>3. snap'.reading[q][g] = snap.reading[q][g]
            BY <3>6, <4>1, <4>3
          <5> QED
            BY <2>1, <5>2, <5>3 DEF Copied
        <4> QED
          BY <4>2, <4>3
      <3>8. CASE at < 4
        <4>1. at' = at + 1 /\ step' = "copy"
          BY <2>4, <3>1, <3>8, FourParts DEF Copy
        <4>2. \A j \in 1..4 : j < at' => Copied(j)'
          BY <3>1, <3>7, <4>1
        <4>3. at' \in 1..4
          BY <3>1, <3>8, <4>1
        <4> QED
          BY <3>5, <3>6, <4>1, <4>2, <4>3 DEF SnapInv, IsTable, IsPair
      <3>9. CASE at = 4
        <4>1. step' = "compare"
          BY <2>4, <3>1, <3>9, FourParts DEF Copy
        <4>2. \A j \in 1..4 : Copied(j)'
          BY <3>7, <3>9
        <4>3. snap'.reading = sensor'
          BY <2>1, <3>6, <4>2, TwoPairs DEF Copied, SensorInv
        <4> QED
          BY <3>5, <3>6, <4>1, <4>3 DEF SnapInv, IsTable, IsPair
      <3> QED
        BY <3>1, <3>8, <3>9
    <2>5. CASE Compare \/ Update \/ Compose \/ Test \/ Write \/ Keep
      <3>1. snap' = snap
        BY <2>5 DEF Compare, Update, Compose, Test, Write, Keep
      <3>2. CASE Compare
        <4>1. step = "compare" /\ step' \in {"update", "idle"}
          BY <3>2 DEF Compare
        <4> QED
          BY <2>1, <3>1, <4>1 DEF SnapInv, IsTable, IsPair
      <3>3. CASE Update \/ Compose \/ Test \/ Write \/ Keep
        <4>1. step' \notin {"copy", "compare", "update"}
          BY <3>3 DEF Update, Compose, Test, Write, Keep, NextRegion
        <4> QED
          BY <3>1, <4>1 DEF SnapInv, IsTable, IsPair
      <3> QED
        BY <2>5, <3>2, <3>3
    <2> QED
      BY <1>1, <2>2, <2>3, <2>4, <2>5 DEF Timer
  <1>2. ASSUME NEW w \in Writers, Writer(w)
        PROVE  SnapInv'
    <2>1. step' = "idle" /\ snap' = snap
      BY <1>2, WriterStep DEF timer
    <2> QED
      BY <2>1 DEF SnapInv, IsTable, IsPair
  <1>3. CASE Minute \/ UNCHANGED vars
    <2>1. UNCHANGED <<sensor, snap, step, at>>
      BY <1>3 DEF Minute, vars, timer
    <2> QED
      BY <2>1 DEF SnapInv, IsTable, IsPair, Copied
  <1> QED
    BY <1>1, <1>2, <1>3 DEF Next

\* On the ESP8266 a snapshot of update_display holds each sensor's last report
\* as a whole, for every number of writers and every set of values.
THEOREM SnapshotsAreWhole == ~Preemptive /\ Spec => []SnapshotIsWhole
  <1> DEFINE Inv == Exclusive /\ SensorInv /\ SnapInv
  <1>1. ~Preemptive /\ Spec => []Inv
    <2> SUFFICES ASSUME ~Preemptive PROVE Spec => []Inv
      OBVIOUS
    <2>1. Inv /\ [Next]_vars => Inv'
      BY StepKeepsExclusive, StepKeepsSensors, StepKeepsSnapshot
    <2>2. Init => Inv
      BY InitiallyExclusive, InitialSnapshot
    <2> QED
      BY <2>1, <2>2, PTL DEF Spec
  <1>2. Inv => SnapshotIsWhole
    <2> SUFFICES ASSUME Inv, step \in {"compare", "update"},
                        NEW s \in Sensors
                 PROVE  snap.reading[s] \in Readings \cup {NoReading}
      BY DEF SnapshotIsWhole
    <2>1. \A w \in Writers : doing[w] # s
      BY DEF Exclusive, Waiting, Sensors
    <2> QED
      BY <2>1 DEF SensorInv, SnapInv
  <1> QED
    BY <1>1, <1>2, PTL

-----------------------------------------------------------------------------
(* The display implements Screen. *)

\* Times stay within the days that are counted.
TimesInv ==
    /\ utc \in Times /\ tz \in Heap /\ rules \in [Heap -> Zones]
    /\ \A w \in Writers : /\ doing[w] = "new" => arg[w] \in Zones
                          /\ doing[w] = "time" => arg[w] \in Times
    /\ step \in {"convert", "copy", "compare", "update"} => snap.time \in Times

\* From the first update on there is a record.
RecordInv ==
    \/ record \in Records
    \/ /\ record = NoRecord /\ forced
       /\ step \in {"convert", "copy", "compare", "update"}

\* The regions that a draw has passed show the record.
DrawInv ==
    step \in {"test", "write", "keep"} =>
      /\ text = Texts(record)
      /\ \A j \in 1..5 : j < at => lcd[Regions[j]] = text[Regions[j]]

LEMMA ClockTurns == \A n \in Int : n % Clock \in Times
  <1>1. Clock \in Nat /\ Clock > 0
    BY DisplayAssumption DEF Clock
  <1> QED
    BY <1>1 DEF Times

LEMMA Conversions ==
  ASSUME rules \in [Heap -> Zones], NEW o \in Heap, NEW t \in Times
  PROVE  ToLocal(o, t) \subseteq Times /\ ToUTC(o, t) \subseteq Times
  <1>1. Clock \in Int
    BY DisplayAssumption DEF Clock
  <1>2. rules[o] \in Int /\ t \in Int
    <2>1. rules[o] \in Times
      BY DisplayAssumption
    <2>2. Times \subseteq Int
      BY <1>1 DEF Times
    <2> QED
      BY <2>1, <2>2
  <1>3. t + rules[o] \in Int /\ t + Clock - rules[o] \in Int
    BY <1>1, <1>2
  <1>4. /\ (t + rules[o]) % Clock \in Times
        /\ (t + Clock - rules[o]) % Clock \in Times
    BY <1>3, ClockTurns
  <1> QED
    BY <1>4 DEF ToLocal, ToUTC

LEMMA InitialScreen == Init => TimesInv /\ RecordInv /\ DrawInv
  <1> SUFFICES ASSUME Init PROVE TimesInv /\ RecordInv /\ DrawInv
    OBVIOUS
  <1>1. PICK z \in Zones : rules = [o \in Heap |-> z]
    BY DEF Init
  <1>2. /\ step = "convert" /\ forced = TRUE /\ record = NoRecord
        /\ snap = [time |-> utc, reading |-> sensor]
        /\ utc \in Times /\ tz \in Heap
        /\ \A w \in Writers : doing[w] = "ready"
    BY DEF Init
  <1>3. rules \in [Heap -> Zones] /\ snap.time = utc
    BY <1>1, <1>2
  <1> QED
    BY <1>2, <1>3 DEF TimesInv, RecordInv, DrawInv

LEMMA StepKeepsTimes ==
  ASSUME ~Preemptive, Exclusive, ZoneThere, SensorInv, SnapInv, TimesInv,
         [Next]_vars
  PROVE  TimesInv'
  <1>1. CASE Timer
    <2>1. UNCHANGED <<utc, tz, rules, doing, arg>>
      BY <1>1 DEF Timer, Start, Convert, Copy, Compare, Update, Compose, Test,
                  Write, Keep, zone
    <2>2. CASE Start
      <3>1. snap' = [snap EXCEPT !.time = utc]
        BY <2>2 DEF Start
      <3>2. snap'.time = utc
        BY <3>1 DEF SnapInv
      <3> QED
        BY <2>1, <3>2 DEF TimesInv
    <2>3. CASE Convert
      <3>1. PICK t \in ToLocal(tz, snap.time) :
              snap' = [snap EXCEPT !.time = t]
        BY <2>3 DEF Convert, ZoneThere
      <3>2. t \in Times
        BY <2>3, Conversions DEF Convert, TimesInv
      <3>3. snap'.time = t
        BY <3>1 DEF SnapInv
      <3> QED
        BY <2>1, <3>2, <3>3 DEF TimesInv
    <2>4. CASE Copy
      <3>1. step = "copy"
        BY <2>4 DEF Copy
      <3>2. PICK s, f : snap' = [snap EXCEPT !.reading[s][f] = sensor[s][f]]
        BY <2>4 DEF Copy
      <3>3. snap'.time = snap.time
        BY <3>2 DEF SnapInv
      <3> QED
        BY <2>1, <3>1, <3>3 DEF TimesInv
    <2>5. CASE Compare \/ Update \/ Compose \/ Test \/ Write \/ Keep
      <3>1. snap' = snap
        BY <2>5 DEF Compare, Update, Compose, Test, Write, Keep
      <3>2. step' \in {"convert", "copy", "compare", "update"}
              => step = "compare"
        <4>1. CASE Compare
          BY <4>1 DEF Compare
        <4>2. CASE Update \/ Compose \/ Write
          BY <4>2 DEF Update, Compose, Write
        <4>3. CASE Test \/ Keep
          BY <4>3 DEF Test, Keep, NextRegion
        <4> QED
          BY <2>5, <4>1, <4>2, <4>3
      <3> QED
        BY <2>1, <3>1, <3>2 DEF TimesInv
    <2> QED
      BY <1>1, <2>2, <2>3, <2>4, <2>5 DEF Timer
  <1>2. ASSUME NEW w \in Writers, Writer(w)
        PROVE  TimesInv'
    <2>1. /\ step' = "idle"
          /\ \A v \in Writers \ {w} : Waiting(v)
      BY <1>2, WriterStep DEF timer
    <2>2. PICK d : doing' = [doing EXCEPT ![w] = d]
      BY <1>2, WriterStep
    <2>3. doing'[w] = d /\ \A v \in Writers \ {w} : doing'[v] = "ready"
      BY <2>1, <2>2 DEF Exclusive, Waiting
    <2>4. CASE \E z \in Zones : DeleteZone(w, z)
      <3>1. PICK z \in Zones : DeleteZone(w, z)
        BY <2>4
      <3>2. /\ doing' = [doing EXCEPT ![w] = "new"]
            /\ UNCHANGED <<utc, tz, rules>> /\ arg' = [arg EXCEPT ![w] = z]
        BY <3>1 DEF DeleteZone, Begins
      <3>3. doing'[w] = "new" /\ arg'[w] = z
        BY <3>2 DEF SensorInv, Exclusive
      <3> QED
        BY <2>1, <2>3, <3>2, <3>3 DEF TimesInv
    <2>5. CASE \E o \in Heap : NewZone(w, o)
      <3>1. PICK o \in Heap : NewZone(w, o)
        BY <2>5
      <3>2. /\ doing[w] = "new" /\ doing' = [doing EXCEPT ![w] = "stamp"]
            /\ utc' = utc /\ tz' = o /\ rules' = [rules EXCEPT ![o] = arg[w]]
        BY <3>1 DEF NewZone, Continues
      <3>3. rules' \in [Heap -> Zones] /\ doing'[w] = "stamp"
        BY <3>2 DEF TimesInv, Exclusive
      <3> QED
        BY <2>1, <2>3, <3>2, <3>3 DEF TimesInv
    <2>6. CASE \E t \in Times : SetTime(w, t)
      <3>1. PICK t \in Times : SetTime(w, t)
        BY <2>6
      <3>2. /\ doing' = [doing EXCEPT ![w] = "time"] /\ utc' \in ToUTC(tz, t)
            /\ UNCHANGED <<tz, rules>> /\ arg' = [arg EXCEPT ![w] = t]
        BY <3>1 DEF SetTime, Begins, zone
      <3>3. utc' \in Times /\ doing'[w] = "time" /\ arg'[w] = t
        BY <3>2, Conversions DEF TimesInv, Exclusive, SensorInv
      <3> QED
        BY <2>1, <2>3, <3>2, <3>3 DEF TimesInv
    <2>7. CASE \/ \E s \in Sensors : \/ EndMeasure(w, s)
                                     \/ \E r \in Readings : Measure(w, s, r)
               \/ EndSetTime(w) \/ EndSetTimeZone(w)
      <3>1. UNCHANGED <<utc, tz, rules>>
        BY <2>7 DEF Measure, EndMeasure, EndSetTime, EndSetTimeZone, zone
      <3>2. \E e \in Sensors \cup {"ready"} : doing' = [doing EXCEPT ![w] = e]
        BY <2>7 DEF Measure, EndMeasure, EndSetTime, EndSetTimeZone, Begins,
                    Continues
      <3>3. doing'[w] \notin {"new", "time"}
        BY <3>2 DEF Exclusive, Sensors
      <3> QED
        BY <2>1, <2>3, <3>1, <3>3 DEF TimesInv
    <2> QED
      BY <1>2, <2>4, <2>5, <2>6, <2>7 DEF Writer
  <1>3. CASE Minute
    <2>1. /\ utc' = (utc + 1) % Clock
          /\ UNCHANGED <<tz, rules, doing, arg, step, snap>>
      BY <1>3 DEF Minute, zone, timer
    <2>2. utc' \in Times
      <3>1. utc + 1 \in Int
        BY DEF TimesInv, Times
      <3> QED
        BY <2>1, <3>1, ClockTurns
    <2> QED
      BY <2>1, <2>2 DEF TimesInv
  <1>4. CASE UNCHANGED vars
    BY <1>4 DEF vars, zone, timer, TimesInv
  <1> QED
    BY <1>1, <1>2, <1>3, <1>4 DEF Next

\* The handlers edit the record's time with what the zone makes of some time.
LEMMA EditedTime ==
  ASSUME TimesInv, NEW w \in Writers,
         EndSetTime(w) \/ EndSetTimeZone(w)
  PROVE  \E l \in Times : /\ record' = [record EXCEPT !.time = l]
                          /\ doing[w] \in {"time", "stamp"}
  <1>1. CASE EndSetTime(w)
    <2>1. doing[w] = "time"
      BY <1>1 DEF EndSetTime, Continues
    <2>2. PICK l \in ToLocal(tz, arg[w]) : record' = [record EXCEPT !.time = l]
      BY <1>1 DEF EndSetTime
    <2>3. l \in Times
      BY <2>1, <2>2, Conversions DEF TimesInv
    <2> QED
      BY <2>1, <2>2, <2>3
  <1>2. CASE EndSetTimeZone(w)
    <2>1. doing[w] = "stamp"
      BY <1>2 DEF EndSetTimeZone, Continues
    <2>2. PICK l \in ToLocal(tz, utc) : record' = [record EXCEPT !.time = l]
      BY <1>2 DEF EndSetTimeZone
    <2>3. l \in Times
      BY <2>2, Conversions DEF TimesInv
    <2> QED
      BY <2>1, <2>2, <2>3
  <1> QED
    BY <1>1, <1>2

LEMMA StepKeepsRecord ==
  ASSUME ~Preemptive, Exclusive, ZoneThere, SensorInv, SnapInv, TimesInv,
         RecordInv, [Next]_vars
  PROVE  RecordInv'
  <1>1. CASE Update
    <2>1. step = "update" /\ record' = snap /\ \A w \in Writers : Waiting(w)
      BY <1>1, TimerStep DEF Update, Timer
    <2>2. snap.reading = sensor /\ snap.time \in Times
      BY <2>1 DEF SnapInv, TimesInv
    <2>3. \A s \in Sensors : sensor[s] \in Readings \cup {NoReading}
      BY <2>1 DEF SensorInv, Waiting, Sensors
    <2>4. sensor \in [Sensors -> Readings \cup {NoReading}]
      BY <2>3 DEF SensorInv, IsTable
    <2>5. snap = [time |-> snap.time, reading |-> snap.reading]
      BY DEF SnapInv
    <2>6. snap \in Records
      BY <2>2, <2>4, <2>5 DEF Records
    <2> QED
      BY <2>1, <2>6 DEF RecordInv
  <1>2. CASE Start \/ Convert \/ Copy \/ Compare \/ Compose \/ Test \/ Write
               \/ Keep
    <2>1. record' = record
      BY <1>2 DEF Start, Convert, Copy, Compare, Compose, Test, Write, Keep,
                  screen
    <2>2. CASE record \in Records
      BY <2>1, <2>2 DEF RecordInv
    <2>3. CASE /\ record = NoRecord /\ forced
               /\ step \in {"convert", "copy", "compare", "update"}
      <3>1. /\ Convert \/ Copy \/ Compare
            /\ forced' = forced
        BY <1>2, <2>3 DEF Start, Convert, Copy, Compare, Compose, Test, Write,
                          Keep
      <3>2. step' \in {"copy", "compare", "update"}
        BY <2>3, <3>1 DEF Convert, Copy, Compare
      <3> QED
        BY <2>1, <2>3, <3>1, <3>2 DEF RecordInv
    <2> QED
      BY <2>2, <2>3 DEF RecordInv
  <1>3. ASSUME NEW w \in Writers, Writer(w)
        PROVE  RecordInv'
    <2>1. step = "idle" /\ ~forced
      BY <1>3, WriterStep
    <2>2. record \in Records
      BY <2>1 DEF RecordInv
    <2>3. CASE EndSetTime(w) \/ EndSetTimeZone(w)
      <3>1. PICK l \in Times : record' = [record EXCEPT !.time = l]
        BY <2>3, EditedTime
      <3> QED
        BY <2>2, <3>1 DEF RecordInv, Records
    <2>4. CASE \/ \E s \in Sensors : \/ EndMeasure(w, s)
                                     \/ \E r \in Readings : Measure(w, s, r)
               \/ \E t \in Times : SetTime(w, t)
               \/ \E z \in Zones : DeleteZone(w, z)
               \/ \E o \in Heap : NewZone(w, o)
      <3>1. record' = record
        BY <2>4 DEF Measure, EndMeasure, SetTime, DeleteZone, NewZone, screen
      <3> QED
        BY <2>2, <3>1 DEF RecordInv
    <2> QED
      BY <1>3, <2>3, <2>4 DEF Writer
  <1>4. CASE Minute \/ UNCHANGED vars
    BY <1>4 DEF Minute, vars, screen, timer, RecordInv
  <1> QED
    BY <1>1, <1>2, <1>3, <1>4 DEF Next, Timer

LEMMA StepKeepsDraw ==
  ASSUME ~Preemptive, Exclusive, RegionInv, DrawInv, [Next]_vars
  PROVE  DrawInv'
  <1> USE FiveRegions
  <1>1. CASE Compose
    <2>1. /\ step' = "test" /\ at' = 1 /\ text' = Texts(record)
          /\ record' = record
      BY <1>1 DEF Compose, screen
    <2>2. Texts(record)' = Texts(record)
      BY <2>1 DEF Texts
    <2> QED
      BY <2>1, <2>2 DEF DrawInv
  <1>2. CASE Test
    <2>1. /\ step = "test" /\ text' = text /\ record' = record /\ at \in 1..5
      BY <1>2 DEF Test, RegionInv
    <2>2. Texts(record)' = Texts(record)
      BY <2>1 DEF Texts
    <2>3. CASE text[Regions[at]] = cached[Regions[at]]
      <3>1. NextRegion /\ lcd' = lcd
        BY <1>2, <2>3 DEF Test
      <3>2. lcd[Regions[at]] = text[Regions[at]]
        BY <2>1, <2>3 DEF RegionInv, RegionsKept
      <3>3. \A j \in 1..5 : j <= at => lcd[Regions[j]] = text[Regions[j]]
        BY <2>1, <3>2 DEF DrawInv
      <3> QED
        BY <2>1, <2>2, <3>1, <3>3 DEF NextRegion, DrawInv
    <2>4. CASE text[Regions[at]] # cached[Regions[at]]
      <3>1. at' = at /\ lcd' = [lcd EXCEPT ![Regions[at]] = Blank]
        BY <1>2, <2>4 DEF Test
      <3>2. \A j \in 1..5 : j < at => lcd'[Regions[j]] = lcd[Regions[j]]
        BY <2>1, <3>1 DEF RegionInv
      <3> QED
        BY <2>1, <2>2, <3>1, <3>2 DEF DrawInv
    <2> QED
      BY <2>3, <2>4
  <1>3. CASE Write
    <2>1. /\ step = "write" /\ text' = text /\ record' = record /\ at \in 1..5
          /\ at' = at
          /\ lcd' = [lcd EXCEPT ![Regions[at]] = text[Regions[at]]]
      BY <1>3 DEF Write, RegionInv
    <2>2. Texts(record)' = Texts(record)
      BY <2>1 DEF Texts
    <2>3. \A j \in 1..5 : j < at => lcd'[Regions[j]] = lcd[Regions[j]]
      BY <2>1 DEF RegionInv
    <2> QED
      BY <2>1, <2>2, <2>3 DEF DrawInv
  <1>4. CASE Keep
    <2>1. /\ step = "keep" /\ text' = text /\ record' = record /\ at \in 1..5
          /\ lcd' = lcd /\ NextRegion
      BY <1>4 DEF Keep, RegionInv
    <2>2. Texts(record)' = Texts(record)
      BY <2>1 DEF Texts
    <2>3. \A j \in 1..5 : j <= at => lcd[Regions[j]] = text[Regions[j]]
      BY <2>1 DEF DrawInv, RegionInv
    <2> QED
      BY <2>1, <2>2, <2>3 DEF NextRegion, DrawInv
  <1>5. CASE Start \/ Convert \/ Copy \/ Compare \/ Update
    <2>1. step' \notin {"test", "write", "keep"}
      BY <1>5 DEF Start, Convert, Copy, Compare, Update
    <2> QED
      BY <2>1 DEF DrawInv
  <1>6. ASSUME NEW w \in Writers, Writer(w)
        PROVE  DrawInv'
    <2>1. step' = "idle"
      BY <1>6, WriterStep DEF timer
    <2> QED
      BY <2>1 DEF DrawInv
  <1>7. CASE Minute \/ UNCHANGED vars
    <2>1. UNCHANGED <<step, text, record, at, lcd>>
      BY <1>7 DEF Minute, vars, screen, timer
    <2>2. Texts(record)' = Texts(record)
      BY <2>1 DEF Texts
    <2> QED
      BY <2>1, <2>2 DEF DrawInv
  <1> QED
    BY <1>1, <1>2, <1>3, <1>4, <1>5, <1>6, <1>7 DEF Next, Timer

-----------------------------------------------------------------------------
(* The mapping. *)

\* What counts as the sensors' readings, and what as shown.
ReportedOf(d, a, x) ==
    [s \in Sensors |-> IF \E w \in Writers : d[w] = s
                         THEN a[CHOOSE w \in Writers : d[w] = s]
                         ELSE x[s]]

Reported == ReportedOf(doing, arg, sensor)

Shown == IF step \in {"compose", "test", "write", "keep"}
           THEN Texts(record) ELSE lcd

LEMMA InitialRefines == Init => Outside!Init
  <1> SUFFICES ASSUME Init PROVE Outside!Init
    OBVIOUS
  <1>1. /\ sensor = [s \in Sensors |-> NoReading]
        /\ record = NoRecord /\ step = "convert"
        /\ lcd = [n \in Names |-> Blank]
    BY DEF Init
  <1>2. \A w \in Writers : doing[w] = "ready"
    BY DEF Init
  <1>3. \A s \in Sensors : ~\E w \in Writers : doing[w] = s
    BY <1>2 DEF Sensors
  <1>4. Reported = [s \in Sensors |-> NoReading]
    BY <1>1, <1>3 DEF Reported, ReportedOf
  <1>5. Shown = Texts(NoRecord)
    BY <1>1 DEF Shown, Texts
  <1> QED
    BY <1>1, <1>4, <1>5 DEF Outside!Init, Reported, ReportedOf, Shown

LEMMA TimerReported ==
  ASSUME ~Preemptive, Exclusive, Timer
  PROVE  Reported' = Reported
  <1>1. UNCHANGED <<sensor, doing, arg>>
    BY TimerStep
  <1> QED
    BY <1>1 DEF Reported

LEMMA NobodyReports ==
  ASSUME NEW d, NEW a, NEW x, \A v \in Writers : d[v] \notin Sensors
  PROVE  ReportedOf(d, a, x) = [q \in Sensors |-> x[q]]
  <1>1. \A q \in Sensors : ~\E v \in Writers : d[v] = q
    OBVIOUS
  <1> QED
    BY <1>1 DEF ReportedOf

LEMMA OneReports ==
  ASSUME NEW d, NEW a, NEW x, NEW w \in Writers, NEW s \in Sensors, d[w] = s,
         \A v \in Writers \ {w} : d[v] \notin Sensors
  PROVE  ReportedOf(d, a, x) =
           [q \in Sensors |-> IF q = s THEN a[w] ELSE x[q]]
  <1>1. (CHOOSE v \in Writers : d[v] = s) = w
    OBVIOUS
  <1>2. \A q \in Sensors : q # s => ~\E v \in Writers : d[v] = q
    OBVIOUS
  <1>3. \E v \in Writers : d[v] = s
    OBVIOUS
  <1> QED
    BY <1>1, <1>2, <1>3 DEF ReportedOf

\* While nobody writes, what is reported is what the station holds.
LEMMA RestReported ==
  ASSUME SensorInv, \A w \in Writers : Waiting(w)
  PROVE  Reported = sensor
  <1>1. \A w \in Writers : doing[w] \notin Sensors
    BY DEF Waiting, Sensors
  <1>2. Reported = [s \in Sensors |-> sensor[s]]
    BY <1>1, NobodyReports DEF Reported
  <1> QED
    BY <1>2 DEF SensorInv, IsTable

LEMMA UpdateShows ==
  ASSUME ~Preemptive, Exclusive, SensorInv, SnapInv, TimesInv, Update
  PROVE  \E t \in Times : Outside!Show(t)
  <1>1. /\ step = "update" /\ step' = "compose" /\ record' = snap
        /\ \A w \in Writers : Waiting(w)
    BY TimerStep DEF Update, Timer
  <1>2. Reported' = Reported /\ Reported = sensor
    BY <1>1, TimerReported, RestReported DEF Timer
  <1>3. snap.time \in Times /\ snap.reading = sensor
    BY <1>1 DEF TimesInv, SnapInv
  <1>4. record' = [time |-> snap.time, reading |-> Reported]
    BY <1>1, <1>2, <1>3 DEF SnapInv
  <1>5. Shown' = Texts(record')
    BY <1>1 DEF Shown, Texts
  <1>6. Outside!Show(snap.time)
    BY <1>2, <1>4, <1>5 DEF Outside!Show, Reported, ReportedOf, Shown
  <1> QED
    BY <1>3, <1>6

LEMMA TextsOfRegions ==
  ASSUME NEW rec
  PROVE  Texts(rec) = [n \in Names |-> Texts(rec)[n]]
  <1> DEFINE Text(n) ==
        IF rec = NoRecord THEN Blank ELSE
        CASE n = "time"     -> rec.time % Half
          [] n = "meridian" -> (rec.time \div Half) % 2
          [] n = "date"     -> rec.time \div (2 * Half)
          [] n = "inside"   -> rec.reading["local"]
          [] n = "outside"  -> rec.reading["remote"]
  <1>1. Texts(rec) = [n \in Names |-> Text(n)]
    BY DEF Texts
  <1> HIDE DEF Text
  <1> QED
    BY <1>1

\* The other steps of the callback show nothing new: a draw ends with every
\* region showing what it began with.
LEMMA TimerShows ==
  ASSUME ~Preemptive, Exclusive, RegionInv, DrawInv, [Next]_vars,
         Timer, ~Update
  PROVE  Shown' = Shown /\ record' = record
  <1> USE FiveRegions
  <1>1. RegionInv' /\ DrawInv'
    BY StepKeepsRegions, StepKeepsDraw
  <1>2. record' = record
    BY DEF Timer, Start, Convert, Copy, Compare, Compose, Test, Write, Keep,
           screen
  <1>3. Texts(record)' = Texts(record)
    BY <1>2 DEF Texts
  <1>4. CASE Start \/ Convert \/ Copy \/ Compare
    <2>1. /\ step \in {"idle", "convert", "copy", "compare"}
          /\ step' \in {"convert", "copy", "compare", "update", "idle"}
          /\ lcd' = lcd
      BY <1>4 DEF Start, Convert, Copy, Compare, screen
    <2> QED
      BY <1>2, <2>1 DEF Shown
  <1>5. CASE Compose \/ Write
    <2>1. /\ step \in {"compose", "write"} /\ step' \in {"test", "keep"}
      BY <1>5 DEF Compose, Write
    <2> QED
      BY <1>2, <1>3, <2>1 DEF Shown
  <1>6. CASE Test \/ Keep
    <2>1. step \in {"test", "keep"} /\ at \in 1..5 /\ text' = text
      BY <1>6 DEF Test, Keep, RegionInv
    <2>2. Shown = Texts(record) /\ text = Texts(record)
      BY <2>1 DEF Shown, DrawInv
    <2>3. CASE step' # "idle"
      <3>1. step' \in {"test", "write"}
        BY <1>6, <2>3 DEF Test, Keep, NextRegion
      <3> QED
        BY <1>2, <1>3, <2>2, <3>1 DEF Shown
    <2>4. CASE step' = "idle"
      <3>1. at = 5 /\ lcd' = lcd
        BY <1>6, <2>1, <2>4 DEF Test, Keep, NextRegion
      <3>2. lcd[Regions[at]] = text[Regions[at]]
        <4>1. CASE Test
          <5>1. step = "test" /\ text[Regions[at]] = cached[Regions[at]]
            BY <4>1, <2>4 DEF Test
          <5> QED
            BY <2>1, <5>1 DEF RegionInv, RegionsKept
        <4>2. CASE Keep
          <5>1. step = "keep"
            BY <4>2 DEF Keep
          <5> QED
            BY <5>1 DEF RegionInv
        <4> QED
          BY <1>6, <4>1, <4>2
      <3>3. \A j \in 1..5 : lcd[Regions[j]] = text[Regions[j]]
        BY <2>1, <3>1, <3>2 DEF DrawInv
      <3>4. \A n \in Names : lcd[n] = text[n]
        BY <3>3 DEF Names
      <3>5. lcd = [n \in Names |-> lcd[n]]
        BY DEF RegionInv
      <3>6. Texts(record) = [n \in Names |-> Texts(record)[n]]
        BY TextsOfRegions
      <3>7. lcd = Texts(record)
        BY <2>2, <3>4, <3>5, <3>6
      <3>8. Shown' = lcd'
        BY <2>4 DEF Shown
      <3> QED
        BY <1>2, <2>2, <3>1, <3>7, <3>8
    <2> QED
      BY <2>3, <2>4
  <1> QED
    BY <1>2, <1>4, <1>5, <1>6 DEF Timer

LEMMA WriterShows ==
  ASSUME ~Preemptive, Exclusive, SensorInv, TimesInv, RecordInv,
         NEW w \in Writers, Writer(w)
  PROVE  \/ \E s \in Sensors, r \in Readings : Outside!Report(s, r)
         \/ \E t \in Times : Outside!Edit(t)
         \/ UNCHANGED <<Reported, record, Shown>>
  <1>1. /\ step = "idle" /\ step' = "idle" /\ ~forced
        /\ lcd' = lcd
        /\ \A v \in Writers \ {w} : Waiting(v)
    <2>1. lcd' = lcd
      BY DEF Writer, Measure, EndMeasure, SetTime, EndSetTime, DeleteZone,
             NewZone, EndSetTimeZone, screen
    <2> QED
      BY <2>1, WriterStep DEF timer
  <1>2. Shown' = Shown
    BY <1>1 DEF Shown
  <1>3. PICK d : doing' = [doing EXCEPT ![w] = d]
    BY WriterStep
  <1>4. /\ \A v \in Writers \ {w} : doing[v] \notin Sensors
        /\ \A v \in Writers \ {w} : doing'[v] \notin Sensors
        /\ doing'[w] = d
    BY <1>1, <1>3 DEF Exclusive, Waiting, Sensors
  <1>5. ASSUME NEW s \in Sensors, NEW r \in Readings, Measure(w, s, r)
        PROVE  Outside!Report(s, r)
    <2>1. /\ Waiting(w) /\ doing' = [doing EXCEPT ![w] = s]
          /\ arg' = [arg EXCEPT ![w] = r] /\ record' = record
          /\ sensor' = [sensor EXCEPT ![s][First[s]] = r[First[s]]]
      BY <1>5 DEF Measure, Begins, screen
    <2>2. doing'[w] = s /\ arg'[w] = r
      BY <2>1 DEF Exclusive, SensorInv
    <2>3. Reported' = [q \in Sensors |-> IF q = s THEN r ELSE sensor'[q]]
      BY <1>4, <2>2, OneReports DEF Reported
    <2>4. Reported = [q \in Sensors |-> sensor[q]]
      <3>1. \A v \in Writers : doing[v] \notin Sensors
        BY <1>4, <2>1 DEF Waiting, Sensors
      <3> QED
        BY <3>1, NobodyReports DEF Reported
    <2>5. \A q \in Sensors : q # s => sensor'[q] = sensor[q]
      BY <2>1 DEF SensorInv, IsTable
    <2>6. Reported' = [Reported EXCEPT ![s] = r]
      BY <2>3, <2>4, <2>5
    <2> QED
      BY <1>2, <2>1, <2>6 DEF Outside!Report, Reported, ReportedOf, Shown
  <1>6. ASSUME NEW s \in Sensors, EndMeasure(w, s)
        PROVE  UNCHANGED <<Reported, record, Shown>>
    <2>1. /\ doing[w] = s /\ doing' = [doing EXCEPT ![w] = "ready"]
          /\ sensor' = [sensor EXCEPT ![s] = arg[w]] /\ record' = record
      BY <1>6 DEF EndMeasure, Continues, screen
    <2>2. \A v \in Writers : doing'[v] \notin Sensors
      BY <1>4, <2>1 DEF Exclusive, Sensors
    <2>3. Reported' = [q \in Sensors |-> sensor'[q]]
      BY <2>2, NobodyReports DEF Reported
    <2>4. Reported = [q \in Sensors |-> IF q = s THEN arg[w] ELSE sensor[q]]
      <3> HIDE <1>5
      <3>1. doing[w] = s /\ \A v \in Writers \ {w} : doing[v] \notin Sensors
        BY <1>4, <2>1
      <3>2. ReportedOf(doing, arg, sensor)
              = [q \in Sensors |-> IF q = s THEN arg[w] ELSE sensor[q]]
        BY <3>1, OneReports
      <3> QED
        BY <3>2 DEF Reported
    <2>5. \A q \in Sensors :
            sensor'[q] = IF q = s THEN arg[w] ELSE sensor[q]
      BY <2>1 DEF SensorInv, IsTable
    <2> QED
      BY <1>2, <2>1, <2>3, <2>4, <2>5
  <1>7. CASE \/ \E t \in Times : SetTime(w, t)
             \/ \E z \in Zones : DeleteZone(w, z)
             \/ \E o \in Heap : NewZone(w, o)
             \/ EndSetTime(w) \/ EndSetTimeZone(w)
    <2>1. sensor' = sensor /\ doing[w] \notin Sensors
      BY <1>7 DEF SetTime, DeleteZone, NewZone, EndSetTime, EndSetTimeZone,
                  Begins, Continues, Waiting, Sensors
    <2>2. doing'[w] \notin Sensors
      BY <1>7 DEF SetTime, DeleteZone, NewZone, EndSetTime, EndSetTimeZone,
                  Begins, Continues, Sensors, Exclusive
    <2>3. Reported' = Reported
      <3>1. /\ \A v \in Writers : doing[v] \notin Sensors
            /\ \A v \in Writers : doing'[v] \notin Sensors
        BY <1>4, <2>1, <2>2
      <3>2. Reported' = [q \in Sensors |-> sensor'[q]]
        BY <3>1, NobodyReports DEF Reported
      <3>3. Reported = [q \in Sensors |-> sensor[q]]
        BY <3>1, NobodyReports DEF Reported
      <3> QED
        BY <2>1, <3>2, <3>3
    <2>4. CASE EndSetTime(w) \/ EndSetTimeZone(w)
      <3>1. PICK t \in Times : record' = [record EXCEPT !.time = t]
        BY <2>4, EditedTime
      <3>2. record # NoRecord
        BY <1>1, DisplayAssumption DEF RecordInv
      <3>3. Outside!Edit(t)
        BY <1>2, <2>3, <3>1, <3>2
           DEF Outside!Edit, Reported, ReportedOf, Shown
      <3> QED
        BY <3>3
    <2>5. CASE \/ \E t \in Times : SetTime(w, t)
               \/ \E z \in Zones : DeleteZone(w, z)
               \/ \E o \in Heap : NewZone(w, o)
      <3>1. record' = record
        BY <2>5 DEF SetTime, DeleteZone, NewZone, screen
      <3> QED
        BY <1>2, <2>3, <3>1
    <2> QED
      BY <1>7, <2>4, <2>5
  <1> QED
    BY <1>5, <1>6, <1>7 DEF Writer

ShowInv == /\ Exclusive /\ ZoneThere /\ RegionInv /\ SensorInv /\ SnapInv
           /\ TimesInv /\ RecordInv /\ DrawInv

LEMMA StepRefines ==
  ASSUME ~Preemptive, ShowInv, [Next]_vars
  PROVE  [Outside!Next]_(Outside!vars)
  <1> USE DEF ShowInv
  <1>1. CASE Update
    <2>1. \E t \in Times : Outside!Show(t)
      BY <1>1, UpdateShows
    <2> QED
      BY <2>1 DEF Outside!Next
  <1>2. CASE Timer /\ ~Update
    <2>1. UNCHANGED <<Reported, record, Shown>>
      BY <1>2, TimerShows, TimerReported
    <2> QED
      BY <2>1 DEF Outside!vars, Reported, ReportedOf, Shown
  <1>3. ASSUME NEW w \in Writers, Writer(w)
        PROVE  [Outside!Next]_(Outside!vars)
    <2>1. \/ \E s \in Sensors, r \in Readings : Outside!Report(s, r)
          \/ \E t \in Times : Outside!Edit(t)
          \/ UNCHANGED <<Reported, record, Shown>>
      BY <1>3, WriterShows
    <2>2. CASE UNCHANGED <<Reported, record, Shown>>
      BY <2>2 DEF Outside!vars, Reported, ReportedOf, Shown
    <2>3. CASE \/ \E s \in Sensors, r \in Readings : Outside!Report(s, r)
               \/ \E t \in Times : Outside!Edit(t)
      BY <2>3 DEF Outside!Next
    <2> QED
      BY <2>1, <2>2, <2>3
  <1>4. CASE Minute \/ UNCHANGED vars
    <2>1. UNCHANGED <<sensor, doing, arg, record, lcd, step>>
      BY <1>4 DEF Minute, vars, screen, timer
    <2>2. UNCHANGED <<Reported, record, Shown>>
      BY <2>1 DEF Reported, Shown, Texts
    <2> QED
      BY <2>2 DEF Outside!vars, Reported, ReportedOf, Shown
  <1> QED
    BY <1>1, <1>2, <1>3, <1>4 DEF Next, Timer

\* On the ESP8266 the display update implements Screen: readings arrive whole,
\* and the screen goes from one whole record to another in the moment the
\* record is taken.
THEOREM ImplementsScreen == ~Preemptive /\ Spec => ScreenSpec
  <1> SUFFICES ASSUME ~Preemptive PROVE Spec => ScreenSpec
    OBVIOUS
  <1>1. Init => ShowInv
    BY InitiallyExclusive, InitialRegions, InitialSnapshot, InitialScreen
       DEF ShowInv
  <1>2. ShowInv /\ [Next]_vars => ShowInv'
    BY StepKeepsExclusive, StepKeepsZone, StepKeepsRegions, StepKeepsSensors,
       StepKeepsSnapshot, StepKeepsTimes, StepKeepsRecord, StepKeepsDraw
       DEF ShowInv
  <1>3. Init => Outside!Init
    BY InitialRefines
  <1>4. ShowInv /\ [Next]_vars => [Outside!Next]_(Outside!vars)
    BY StepRefines
  <1> QED
    BY <1>1, <1>2, <1>3, <1>4, PTL DEF Spec, ScreenSpec, Outside!Spec
=============================================================================
