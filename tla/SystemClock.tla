----------------------------- MODULE SystemClock -----------------------------
(***************************************************************************)
(* The system clock of the Time library: seconds counted from a            *)
(* millisecond counter that wraps, in the calls of now().                  *)
(*                                                                         *)
(* On the ESP8266 neither now() nor setTime() gives the processor away, so *)
(* each is one action.  No synchronisation provider is ever installed, so  *)
(* that now() ends after its loop.                                         *)
(*                                                                         *)
(* Source: esp8266_sim/TimeLib.cpp, the library both builds use; millis()  *)
(* is external.                                                            *)
(***************************************************************************)
EXTENDS Integers

CONSTANTS
    Wrap,        \* millis() and prevMillis count modulo Wrap (2^32)
    Second,      \* milliseconds in a second (1000)
    Span,        \* sysTime counts modulo Span (2^32)
    MaxGap,      \* now() is called at least every MaxGap milliseconds
    Horizon      \* bound of the milliseconds since the clock was set

\* The timer calls now() three times a second, and the counter wraps after 49
\* days.
ASSUME ClockAssumption ==
    /\ Wrap \in Nat \ {0} /\ Second \in Nat \ {0} /\ Span \in Nat \ {0}
    /\ MaxGap \in Nat /\ MaxGap + Second <= Wrap
    /\ Horizon \in Nat

VARIABLES
    millis,      \* millis()
    sysTime, prevMillis,
    \* History variables:
    set_to,      \* what the clock was last set to
    elapsed,     \* the milliseconds since
    counted,     \* the seconds now() has counted since
    idle         \* the milliseconds since the last call of now() or setTime

vars == <<millis, sysTime, prevMillis, set_to, elapsed, counted, idle>>

-----------------------------------------------------------------------------
\* How often the loop of now() finds a whole second: the subtraction is that
\* of unsigned integers.
Difference == (millis - prevMillis) % Wrap
WholeSeconds == Difference \div Second

\* What a call of now() returns.
Reading == (sysTime + WholeSeconds) % Span

\* The static variables, and a counter that has run for less than a gap.
Init ==
    /\ millis \in 0..MaxGap
    /\ sysTime = 0 /\ prevMillis = 0
    /\ set_to = 0 /\ elapsed = millis /\ counted = 0 /\ idle = millis

\* Mutants of Now: sysTime is wider than 32 bits, and the fraction of a second
\* is dropped at each call.
Now_Wider ==
    /\ sysTime' = sysTime + WholeSeconds
    /\ prevMillis' = (prevMillis + WholeSeconds * Second) % Wrap
    /\ counted' = counted + WholeSeconds
    /\ idle' = 0
    /\ UNCHANGED <<millis, set_to, elapsed>>

Now_DropsFraction ==
    /\ sysTime' = Reading
    /\ prevMillis' = millis
    /\ counted' = counted + WholeSeconds
    /\ idle' = 0
    /\ UNCHANGED <<millis, set_to, elapsed>>

\* now()
Now ==
    /\ sysTime' = Reading
    /\ prevMillis' = (prevMillis + WholeSeconds * Second) % Wrap
    /\ counted' = counted + WholeSeconds
    /\ idle' = 0
    /\ UNCHANGED <<millis, set_to, elapsed>>

\* Mutant of SetTime: the running second is not restarted.
SetTime_KeepsPrevMillis(t) ==
    /\ sysTime' = t
    /\ set_to' = t /\ elapsed' = 0 /\ counted' = 0 /\ idle' = 0
    /\ UNCHANGED <<millis, prevMillis>>

\* setTime(t)
SetTime(t) ==
    /\ sysTime' = t
    /\ prevMillis' = millis
    /\ set_to' = t /\ elapsed' = 0 /\ counted' = 0 /\ idle' = 0
    /\ UNCHANGED millis

\* A millisecond passes.
Elapse ==
    /\ idle < MaxGap /\ elapsed < Horizon
    /\ millis' = (millis + 1) % Wrap
    /\ elapsed' = elapsed + 1 /\ idle' = idle + 1
    /\ UNCHANGED <<sysTime, prevMillis, set_to, counted>>

Next == Now \/ Elapse \/ \E t \in 0..(Span - 1) : SetTime(t)

Spec == Init /\ [][Next]_vars

-----------------------------------------------------------------------------
TypeOK ==
    /\ millis \in 0..(Wrap - 1) /\ prevMillis \in 0..(Wrap - 1)
    /\ sysTime \in 0..(Span - 1) /\ set_to \in 0..(Span - 1)
    /\ elapsed \in Nat /\ counted \in Nat
    /\ idle \in 0..MaxGap

\* However the calls of now() fall, and however often either counter wraps,
\* the clock shows the seconds that have passed since it was set: no call
\* loses or gains a fraction of a second.
KeepsTime == Reading = (set_to + elapsed \div Second) % Span
=============================================================================
