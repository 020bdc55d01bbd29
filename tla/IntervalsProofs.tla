--------------------------- MODULE IntervalsProofs ---------------------------
(***************************************************************************)
(* The intervals are kept for every width of time_t that has room for one  *)
(* interval and one call of loop() on either side of zero.                 *)
(***************************************************************************)
EXTENDS Intervals, Modular

\* The stamp is the time of the last update, and loop() has come by since it
\* was last due.
IInv == /\ TypeOK
        /\ last_update = TimeT(updated)
        /\ updated <= checked /\ checked - updated < Interval
        /\ clock - checked <= MaxGap

-----------------------------------------------------------------------------
\* A time_t is in its range, and differs from the number by whole turns of it.
LEMMA TimeTRange ==
  ASSUME NEW n \in Int
  PROVE  /\ TimeT(n) \in -Half..(Half - 1)
         /\ \E k \in Int : TimeT(n) = n + (2 * Half) * k
  <1>1. Half \in Nat /\ 2 * Half \in Nat \ {0} /\ n + Half \in Int
    BY IntervalAssumption
  <1> DEFINE q == (n + Half) \div (2 * Half)
             r == (n + Half) % (2 * Half)
  <1>2. q \in Int /\ r \in 0..(2 * Half - 1) /\ n + Half = (2 * Half) * q + r
    BY <1>1, DivMod
  <1>3. TimeT(n) = r - Half
    BY DEF TimeT
  <1> HIDE DEF q, r
  <1>4. -q \in Int /\ (2 * Half) * (-q) = -((2 * Half) * q)
    BY <1>1, <1>2
  <1>5. r - Half = n + (2 * Half) * (-q)
    BY <1>1, <1>2, <1>4
  <1> QED
    BY <1>1, <1>2, <1>3, <1>4, <1>5

\* The difference of two stamps is that of the times, while it fits.
LEMMA DifferenceFits ==
  ASSUME NEW a \in Int, NEW b \in Int, a - b \in 0..(Half - 1)
  PROVE  TimeT(TimeT(a) - TimeT(b)) = a - b
  <1>1. Half \in Nat /\ 2 * Half \in Nat \ {0}
    BY IntervalAssumption
  <1>2. PICK i \in Int : TimeT(a) = a + (2 * Half) * i
    BY TimeTRange
  <1>3. PICK j \in Int : TimeT(b) = b + (2 * Half) * j
    BY TimeTRange
  <1> DEFINE w == 2 * Half
             x == (a - b) + Half
  <1>4. x \in 0..(w - 1) /\ x \in Int /\ i - j \in Int
    BY <1>1
  <1>5. (TimeT(a) - TimeT(b)) + Half = x + w * (i - j)
    <2>1. w * (i - j) = w * i - w * j
      BY <1>1
    <2>2. w * i \in Int /\ w * j \in Int
      BY <1>1
    <2> QED
      BY <1>1, <1>2, <1>3, <2>1, <2>2
  <1>6. (x + w * (i - j)) % w = x % w
    BY <1>1, <1>4, ModShift
  <1>7. x % w = x
    BY <1>1, <1>4, ModSmall
  <1> QED
    BY <1>1, <1>5, <1>6, <1>7 DEF TimeT

\* loop() tells rightly whether the interval has passed.
LEMMA PassedExactly ==
  ASSUME IInv
  PROVE  Passed <=> clock - updated >= Interval
  <1>1. clock \in Int /\ updated \in Int /\ clock - updated \in 0..(Half - 1)
    BY IntervalAssumption DEF IInv, TypeOK
  <1> QED
    BY <1>1, DifferenceFits DEF IInv, Passed, CurrentTime

LEMMA InitInvariant == Init => IInv
  <1> SUFFICES ASSUME Init PROVE IInv
    OBVIOUS
  <1>1. TimeT(0) \in -Half..(Half - 1)
    BY TimeTRange
  <1> QED
    BY <1>1, IntervalAssumption DEF Init, IInv, TypeOK, CurrentTime

LEMMA UpdateStep ==
  ASSUME IInv, Update
  PROVE  IInv'
  <1>1. clock \in Nat
    BY DEF IInv, TypeOK
  <1>2. TimeT(clock) \in -Half..(Half - 1)
    BY <1>1, TimeTRange
  <1> QED
    BY <1>1, <1>2, IntervalAssumption
    DEF Update, IInv, TypeOK, CurrentTime, TimeT

\* A call that updates nothing comes within the interval.
LEMMA CheckStep ==
  ASSUME IInv, Check
  PROVE  IInv'
  <1>1. CASE Passed
    BY <1>1, UpdateStep DEF Check
  <1>2. CASE ~Passed
    <2>1. clock - updated < Interval
      BY <1>2, PassedExactly, IntervalAssumption DEF IInv, TypeOK
    <2> QED
      BY <1>2, <2>1, IntervalAssumption DEF Check, IInv, TypeOK, TimeT
  <1> QED
    BY <1>1, <1>2

LEMMA ElapseStep ==
  ASSUME IInv, Elapse
  PROVE  IInv'
  BY IntervalAssumption DEF Elapse, IInv, TypeOK, TimeT

-----------------------------------------------------------------------------
\* The stamp, the last update and the last call of loop() stay within bounds
\* of each other.
THEOREM Invariance == Spec => []IInv
  <1>1. IInv /\ [Next]_vars => IInv'
    <2> SUFFICES ASSUME IInv, [Next]_vars PROVE IInv'
      OBVIOUS
    <2>1. CASE UNCHANGED vars
      BY <2>1 DEF IInv, TypeOK, TimeT, vars
    <2> QED
      BY <2>1, CheckStep, UpdateStep, ElapseStep DEF Next, UpdateNow
  <1> QED
    BY InitInvariant, <1>1, PTL DEF Spec

\* No update or check is later than now, and last_update keeps its width.
THEOREM TypeCorrect == Spec => []TypeOK
  <1>1. IInv => TypeOK
    BY DEF IInv
  <1> QED
    BY Invariance, <1>1, PTL

\* No update is missed, wherever the counter wraps or changes its sign.
THEOREM NoUpdateMissed == Spec => []UpdatesInTime
  <1>1. IInv => UpdatesInTime
    BY IntervalAssumption DEF IInv, TypeOK, UpdatesInTime
  <1> QED
    BY Invariance, <1>1, PTL

\* None comes early.
THEOREM NoUpdateEarly == Spec => NotTooOften
  <1>1. IInv => [Check /\ updated' # updated
                   => clock - updated >= Interval]_vars
    BY PassedExactly DEF Check
  <1> QED
    BY Invariance, <1>1, PTL DEF NotTooOften
=============================================================================
