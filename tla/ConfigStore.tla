----------------------------- MODULE ConfigStore -----------------------------
(***************************************************************************)
(* What the configuration promises, whatever it is stored in: a value that *)
(* a station runs with while it is on, and the values a restart may come   *)
(* up with.  BaseStation is shown to implement it.                         *)
(*                                                                         *)
(* Abstract: it stands for load_config and save_config of                  *)
(* weather_station_base/weather_station_base_class.cpp as their callers    *)
(* see them.                                                               *)
(***************************************************************************)

CONSTANTS
    Values,      \* the configurations
    Fits,        \* those that a restart can read back
    Default      \* the one the program is built with

VARIABLES
    on,          \* the station runs
    current,     \* the configuration it runs with
    recall       \* what a restart may come up with

vars == <<on, current, recall>>

-----------------------------------------------------------------------------
\* A value that a restart cannot read back is forgotten for the default.
Remembered(v) == IF v \in Fits THEN {v} ELSE {Default}

\* A save that was broken off leaves anything behind.
Damaged == Fits \cup {Default}

Init ==
    /\ ~on /\ current = Default
    /\ recall = Damaged \/ \E v \in Values : recall = Remembered(v)

Start == ~on /\ on' /\ current' \in recall /\ UNCHANGED recall

Stop == on /\ ~on' /\ current' = Default /\ UNCHANGED recall

\* A save begins to overwrite what is stored.
Damage == on /\ recall' = Damaged /\ UNCHANGED <<on, current>>

\* A save is complete: what is stored and what the station runs with change
\* together.
Adopt(v) == on /\ current' = v /\ recall' = Remembered(v) /\ UNCHANGED on

Next == Start \/ Stop \/ Damage \/ \E v \in Values : Adopt(v)

Spec == Init /\ [][Next]_vars
=============================================================================
