-------------------------------- MODULE Screen --------------------------------
(***************************************************************************)
(* What the display promises, seen from outside: a reading arrives whole,  *)
(* the screen only ever shows one record, and a record is shown as soon as *)
(* it is taken.                                                            *)
(***************************************************************************)
CONSTANTS
    Sensors,      \* the sensors on the screen
    Readings,     \* what a sensor may report
    Unread,       \* no report yet
    Times,        \* local times
    NoRecord,     \* no record has been taken
    Texts(_)      \* what the screen shows for a record

VARIABLES
    reading,      \* the last report of each sensor
    record,       \* the record last taken
    shown         \* what the screen shows

vars == <<reading, record, shown>>

Init == /\ reading = [s \in Sensors |-> Unread]
        /\ record = NoRecord
        /\ shown = Texts(NoRecord)

Report(s, r) ==
    /\ reading' = [reading EXCEPT ![s] = r]
    /\ UNCHANGED <<record, shown>>

\* A handler moves the time of the record, and the screen stays as it is.
Edit(t) ==
    /\ record # NoRecord
    /\ record' = [record EXCEPT !.time = t]
    /\ UNCHANGED <<reading, shown>>

Show(t) ==
    /\ record' = [time |-> t, reading |-> reading]
    /\ shown' = Texts(record')
    /\ UNCHANGED reading

Next == \/ \E s \in Sensors, r \in Readings : Report(s, r)
        \/ \E t \in Times : Edit(t) \/ Show(t)

Spec == Init /\ [][Next]_vars
=============================================================================
