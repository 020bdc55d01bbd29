------------------------------- MODULE SimClock -------------------------------
(***************************************************************************)
(* The system clock in the simulator, where the loop, the display timer    *)
(* and each connection are threads of the host: they call now() and        *)
(* setTime() at once, and nothing guards the static variables.             *)
(*                                                                         *)
(* Each access of a static variable is a step.  Both variables count       *)
(* without a width here; the subtraction of now() is that of unsigned      *)
(* integers.                                                               *)
(*                                                                         *)
(* Source: esp8266_sim/TimeLib.cpp; the host's clock is external.          *)
(***************************************************************************)
EXTENDS Integers

CONSTANTS
    Threads,     \* those that use the clock
    Wrap,        \* unsigned integers count modulo Wrap (2^32)
    Second,      \* milliseconds in a second (1000)
    Settings,    \* what the clock may be set to
    Horizon      \* bound of the host's clock

VARIABLES
    clock,       \* millis()
    sysTime, prevMillis,
    pc,          \* where each thread is
    reg,         \* what it has read
    set_to, set_at   \* history: the last setting, and when it took effect

vars == <<clock, sysTime, prevMillis, pc, reg, set_to, set_at>>

-----------------------------------------------------------------------------
Difference == (clock - prevMillis) % Wrap

Goto(th, place) == pc' = [pc EXCEPT ![th] = place]

Begin(th) ==
    /\ pc[th] = "idle"
    /\ Goto(th, "test")
    /\ UNCHANGED <<clock, sysTime, prevMillis, reg, set_to, set_at>>

SecondPassed == Difference >= Second

\* The condition of the loop; now() returns when it fails, for no provider of
\* an external time is installed.
Test(th) ==
    /\ pc[th] = "test"
    /\ Goto(th, IF SecondPassed THEN "loadTime" ELSE "idle")
    /\ UNCHANGED <<clock, sysTime, prevMillis, reg, set_to, set_at>>

\* sysTime++
LoadTime(th) ==
    /\ pc[th] = "loadTime"
    /\ reg' = [reg EXCEPT ![th] = sysTime]
    /\ Goto(th, "storeTime")
    /\ UNCHANGED <<clock, sysTime, prevMillis, set_to, set_at>>

StoreTime(th) ==
    /\ pc[th] = "storeTime"
    /\ sysTime' = reg[th] + 1
    /\ Goto(th, "loadPrev")
    /\ UNCHANGED <<clock, prevMillis, reg, set_to, set_at>>

\* prevMillis += 1000
LoadPrev(th) ==
    /\ pc[th] = "loadPrev"
    /\ reg' = [reg EXCEPT ![th] = prevMillis]
    /\ Goto(th, "storePrev")
    /\ UNCHANGED <<clock, sysTime, prevMillis, set_to, set_at>>

\* Mutant of StorePrev: the fraction of a second is dropped.
StorePrev_Now(th) ==
    /\ pc[th] = "storePrev"
    /\ prevMillis' = clock
    /\ Goto(th, "test")
    /\ UNCHANGED <<clock, sysTime, reg, set_to, set_at>>

StorePrev(th) ==
    /\ pc[th] = "storePrev"
    /\ prevMillis' = reg[th] + Second
    /\ Goto(th, "test")
    /\ UNCHANGED <<clock, sysTime, reg, set_to, set_at>>

\* setTime(t), up to the second that starts with it.
SetTime(th, t) ==
    /\ pc[th] = "idle"
    /\ sysTime' = t /\ set_to' = t
    /\ Goto(th, "restart")
    /\ UNCHANGED <<clock, prevMillis, reg, set_at>>

RestartSecond(th) ==
    /\ pc[th] = "restart"
    /\ prevMillis' = clock /\ set_at' = clock
    /\ Goto(th, "idle")
    /\ UNCHANGED <<clock, sysTime, reg, set_to>>

\* The threads are called often enough for the difference to keep its width.
Elapse ==
    /\ clock < Horizon /\ clock - prevMillis < Wrap - 1
    /\ clock' = clock + 1
    /\ UNCHANGED <<sysTime, prevMillis, pc, reg, set_to, set_at>>

Init ==
    /\ clock \in 0..(Wrap - 1)
    /\ sysTime = 0 /\ prevMillis = 0
    /\ pc = [th \in Threads |-> "idle"] /\ reg = [th \in Threads |-> 0]
    /\ set_to = 0 /\ set_at = 0

Next ==
    \/ \E th \in Threads :
          \/ Begin(th) \/ Test(th) \/ LoadTime(th) \/ StoreTime(th)
          \/ LoadPrev(th) \/ StorePrev(th) \/ RestartSecond(th)
          \/ \E t \in Settings : SetTime(th, t)
    \/ Elapse

Spec == Init /\ [][Next]_vars

-----------------------------------------------------------------------------
\* As the comment beside the subtraction has it: "millis() and prevMillis are
\* both unsigned ints thus the subtraction will always be the absolute value
\* of the difference".
SubtractionIsDifference ==
    Difference = IF prevMillis <= clock THEN clock - prevMillis
                                        ELSE prevMillis - clock

\* While no thread is inside now() or setTime(), the clock and what now() has
\* yet to count are the time that has passed since the clock was set, however
\* much of it passes inside the calls.
KeepsTime ==
    (\A th \in Threads : pc[th] = "idle")
      => sysTime + Difference \div Second
           = set_to + (clock - set_at) \div Second
=============================================================================
