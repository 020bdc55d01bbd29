-------------------------- MODULE TimeLibraryProofs --------------------------
(***************************************************************************)
(* The time library: its clock keeps time for every width of its counters, *)
(* its calendar is the civil calendar on every day there is, and its zones *)
(* convert every time after 1970, for every zone less than a day from      *)
(* Greenwich.                                                              *)
(*                                                                         *)
(* What breakTime counts up to in loops, the lemmas find as the year and   *)
(* the month whose bounds a day lies in.  The numbers of the calendar stay *)
(* behind names (YearStart, Time, NewYear, Begins, Ends): with bounds on   *)
(* them what is left to the provers is linear.                             *)
(***************************************************************************)
EXTENDS MCTimeLibrary, Modular, FiniteSetTheorems, WellFoundedInduction, TLAPS

-----------------------------------------------------------------------------
(* The clock. *)

\* The milliseconds that passed since the last whole second that was counted.
Ahead == elapsed - Second * counted

\* They are the difference now() computes, and sysTime is the seconds counted.
ClockInv == /\ TypeOK
        /\ Ahead \in 0..(Second + idle - 1)
        /\ Difference = Ahead
        /\ sysTime = (set_to + counted) % Span

-----------------------------------------------------------------------------
\* What the loop of now() counts, and what it leaves.
LEMMA CountedSeconds ==
  ASSUME ClockInv
  PROVE  /\ Difference \in Nat /\ WholeSeconds \in Nat
         /\ Ahead - Second * WholeSeconds \in 0..(Second - 1)
         /\ elapsed \div Second = counted + WholeSeconds
  <1> DEFINE w == WholeSeconds
             r == Difference % Second
  <1>1. Difference \in Nat /\ Second \in Nat \ {0} /\ Difference = Ahead
    BY ClockAssumption DEF ClockInv, TypeOK
  <1>2. w \in Int /\ r \in 0..(Second - 1) /\ Difference = Second * w + r
    BY <1>1, DivMod DEF WholeSeconds
  <1> HIDE DEF w, r
  <1>3. w \in Nat
    <2>1. w <= -1 => Second * w <= -Second
      BY <1>1, <1>2
    <2> QED
      BY <1>1, <1>2, <2>1
  <1>4. counted \in Nat /\ elapsed \in Nat
    BY DEF ClockInv, TypeOK
  <1>5. elapsed = Second * (counted + w) + r
    BY <1>1, <1>2, <1>4 DEF Ahead
  <1>6. elapsed \div Second = counted + w
    <2>1. counted + w \in Int /\ elapsed \in Int
      BY <1>2, <1>4
    <2> QED
      BY <1>1, <1>2, <1>5, <2>1, ModUnique
  <1> QED
    BY <1>1, <1>2, <1>3, <1>6 DEF w, r

\* The seconds counted and not yet counted are those that have passed.
LEMMA InvariantImpliesKeepsTime == ClockInv => KeepsTime
  <1> SUFFICES ASSUME ClockInv PROVE KeepsTime
    OBVIOUS
  <1> DEFINE c == set_to + counted
             w == WholeSeconds
  <1>1. c \in Int /\ w \in Int /\ Span \in Nat \ {0}
    BY CountedSeconds, ClockAssumption DEF ClockInv, TypeOK
  <1>2. ((c % Span) + w) % Span = (c + w) % Span
    BY <1>1, ModSum
  <1>3. c + w = set_to + elapsed \div Second
    BY CountedSeconds DEF ClockInv, TypeOK
  <1> QED
    BY <1>2, <1>3 DEF ClockInv, KeepsTime, Reading

\* The counter has not run for longer than a gap when the program starts.
LEMMA InitInvariant == Init => ClockInv
  <1> SUFFICES ASSUME Init PROVE ClockInv
    OBVIOUS
  <1>1. /\ millis \in 0..(Wrap - 1) /\ Span \in Nat \ {0}
        /\ Wrap \in Nat \ {0}
    BY ClockAssumption DEF Init
  <1>2. 0 % Span = 0
    BY <1>1, ModUnique
  <1>3. Difference = millis
    <2>1. millis - prevMillis = Wrap * 0 + millis
      BY <1>1 DEF Init
    <2> QED
      BY <1>1, <2>1, ModUnique DEF Difference, Init
  <1>4. Ahead = elapsed
    BY ClockAssumption DEF Init, Ahead
  <1> QED
    BY <1>1, <1>2, <1>3, <1>4, ClockAssumption DEF Init, ClockInv, TypeOK

\* A second that is counted leaves both sides of the subtraction.
LEMMA NowStep ==
  ASSUME ClockInv, Now
  PROVE  ClockInv'
  <1> DEFINE w == WholeSeconds
  <1>1. /\ Wrap \in Nat \ {0} /\ Span \in Nat \ {0} /\ Second \in Nat \ {0}
        /\ Second <= Wrap
    BY ClockAssumption
  <1>2. /\ w \in Nat /\ Ahead - Second * w \in 0..(Second - 1)
    BY CountedSeconds
  <1>3. /\ prevMillis \in Int /\ millis \in Int /\ sysTime \in Int
        /\ set_to \in Int /\ counted \in Nat /\ elapsed \in Nat
    BY DEF ClockInv, TypeOK
  <1>4. /\ prevMillis' = (prevMillis + w * Second) % Wrap
        /\ counted' = counted + w /\ elapsed' = elapsed /\ idle' = 0
        /\ millis' = millis /\ set_to' = set_to
        /\ sysTime' = (sysTime + w) % Span
    BY DEF Now, Reading
  <1> HIDE DEF w
  <1>5. Ahead' = Ahead - Second * w
    BY <1>1, <1>2, <1>3, <1>4 DEF Ahead
  <1>6. Difference' = Ahead'
    <2> DEFINE p == prevMillis + w * Second
               y == millis - prevMillis
    <2>1. p \in Int /\ y \in Int /\ millis - p = y - Second * w
      BY <1>1, <1>2, <1>3
    <2>2. Difference' = (millis - p) % Wrap
      BY <1>1, <1>3, <1>4, <2>1, ModDifference DEF Difference
    <2>3. y % Wrap = Ahead
      BY DEF ClockInv, Difference
    <2>4. (y - Second * w) % Wrap = ((y % Wrap) - Second * w) % Wrap
      <3>1. -(Second * w) \in Int
        BY <1>1, <1>2
      <3>2. ((y % Wrap) + -(Second * w)) % Wrap = (y + -(Second * w)) % Wrap
        BY <1>1, <2>1, <3>1, ModSum
      <3>3. y % Wrap \in Int
        BY <1>1, <2>1, DivMod
      <3> QED
        BY <1>1, <1>2, <2>1, <3>2, <3>3
    <2>5. Ahead' \in 0..(Wrap - 1)
      BY <1>1, <1>2, <1>5
    <2>6. (Ahead - Second * w) % Wrap = Ahead - Second * w
      BY <1>1, <1>5, <2>5, ModSmall
    <2> QED
      BY <1>5, <2>1, <2>2, <2>3, <2>4, <2>6
  <1>7. sysTime' = (set_to' + counted') % Span
    <2>1. set_to + counted \in Int /\ w \in Int
      BY <1>2, <1>3
    <2>2. (((set_to + counted) % Span) + w) % Span
            = (set_to + counted + w) % Span
      BY <1>1, <2>1, ModSum
    <2> QED
      BY <1>2, <1>3, <1>4, <2>2 DEF ClockInv
  <1>8. TypeOK'
    <2>1. (prevMillis + w * Second) % Wrap \in 0..(Wrap - 1)
      <3>1. prevMillis + w * Second \in Int
        BY <1>1, <1>2, <1>3
      <3> QED
        BY <1>1, <3>1, DivMod
    <2>2. (sysTime + w) % Span \in 0..(Span - 1)
      <3>1. sysTime + w \in Int
        BY <1>2, <1>3
      <3> QED
        BY <1>1, <3>1, DivMod
    <2>3. /\ millis \in 0..(Wrap - 1) /\ set_to \in 0..(Span - 1)
          /\ 0 \in 0..MaxGap
      BY ClockAssumption DEF ClockInv, TypeOK
    <2>4. counted + w \in Nat
      BY <1>2, <1>3
    <2> QED
      BY <1>3, <1>4, <2>1, <2>2, <2>3, <2>4 DEF TypeOK
  <1> QED
    BY <1>1, <1>2, <1>4, <1>5, <1>6, <1>7, <1>8 DEF ClockInv

\* Setting the clock starts a second.
LEMMA SetTimeStep ==
  ASSUME ClockInv, NEW t \in 0..(Span - 1), SetTime(t)
  PROVE  ClockInv'
  <1>1. /\ Wrap \in Nat \ {0} /\ Span \in Nat \ {0} /\ Second \in Nat \ {0}
        /\ MaxGap \in Nat
    BY ClockAssumption
  <1>2. /\ sysTime' = t /\ set_to' = t /\ prevMillis' = millis
        /\ millis' = millis /\ elapsed' = 0 /\ counted' = 0 /\ idle' = 0
    BY DEF SetTime
  <1>3. TypeOK'
    BY <1>1, <1>2 DEF ClockInv, TypeOK
  <1>4. Ahead' = 0
    BY <1>1, <1>2 DEF Ahead
  <1>5. Difference' = 0
    <2>1. millis - millis = 0 /\ 0 \in 0..(Wrap - 1)
      BY <1>1 DEF ClockInv, TypeOK
    <2>2. 0 % Wrap = 0
      BY <1>1, <2>1, ModSmall
    <2> QED
      BY <1>2, <2>1, <2>2 DEF Difference
  <1>6. (t + 0) % Span = t
    BY <1>1, ModSmall
  <1> QED
    BY <1>1, <1>2, <1>3, <1>4, <1>5, <1>6 DEF ClockInv

\* A millisecond adds to both sides of the subtraction, and the difference
\* still fits the counter.
LEMMA ElapseStep ==
  ASSUME ClockInv, Elapse
  PROVE  ClockInv'
  <1>1. /\ Wrap \in Nat \ {0} /\ Span \in Nat \ {0} /\ Second \in Nat \ {0}
        /\ MaxGap \in Nat /\ MaxGap + Second <= Wrap
    BY ClockAssumption
  <1>2. /\ millis \in 0..(Wrap - 1) /\ prevMillis \in 0..(Wrap - 1)
        /\ elapsed \in Nat /\ counted \in Nat /\ idle \in Nat
        /\ Ahead \in 0..(Second + idle - 1) /\ Difference = Ahead
    BY DEF ClockInv, TypeOK
  <1>3. /\ millis' = (millis + 1) % Wrap /\ prevMillis' = prevMillis
        /\ elapsed' = elapsed + 1 /\ idle' = idle + 1 /\ idle < MaxGap
        /\ sysTime' = sysTime /\ set_to' = set_to /\ counted' = counted
    BY DEF Elapse
  <1>4. Ahead' = Ahead + 1
    BY <1>1, <1>2, <1>3 DEF Ahead
  <1>5. Ahead + 1 \in 0..(Second + idle)
    BY <1>1, <1>2
  <1>6. Difference' = Ahead + 1
    <2> DEFINE d == millis - prevMillis
               m == millis + 1
    <2>1. d \in Int /\ m \in Int /\ -prevMillis \in Int
      BY <1>2
    <2>2. (m % Wrap) - prevMillis = (m % Wrap) + -prevMillis
      <3>1. m % Wrap \in Int
        BY <1>1, <2>1, DivMod
      <3> QED
        BY <1>2, <3>1
    <2>3. ((m % Wrap) + -prevMillis) % Wrap = (m + -prevMillis) % Wrap
      BY <1>1, <2>1, ModSum
    <2>4. m + -prevMillis = d + 1
      BY <1>2
    <2>5. ((d % Wrap) + 1) % Wrap = (d + 1) % Wrap
      BY <1>1, <2>1, ModSum
    <2>6. d % Wrap = Ahead
      BY <1>2 DEF Difference
    <2>7. (Ahead + 1) % Wrap = Ahead + 1
      <3>1. Ahead + 1 \in 0..(Wrap - 1)
        BY <1>1, <1>2, <1>3, <1>5
      <3> QED
        BY <1>1, <3>1, ModSmall
    <2>8. Difference' = ((m % Wrap) - prevMillis) % Wrap
      BY <1>3 DEF Difference
    <2> QED
      BY <2>2, <2>3, <2>4, <2>5, <2>6, <2>7, <2>8
  <1>7. TypeOK'
    <2>1. (millis + 1) % Wrap \in 0..(Wrap - 1)
      <3>1. millis + 1 \in Int
        BY <1>2
      <3> QED
        BY <1>1, <3>1, DivMod
    <2> QED
      BY <1>1, <1>2, <1>3, <2>1 DEF ClockInv, TypeOK
  <1> QED
    BY <1>1, <1>2, <1>3, <1>4, <1>5, <1>6, <1>7 DEF ClockInv

\* Every counter stays within its width, and now() is called in time.
THEOREM ClockInvariance == Spec => []ClockInv
  <1>1. ClockInv /\ [Next]_vars => ClockInv'
    <2> SUFFICES ASSUME ClockInv, [Next]_vars PROVE ClockInv'
      OBVIOUS
    <2>1. CASE Now
      BY <2>1, NowStep
    <2>2. CASE Elapse
      BY <2>2, ElapseStep
    <2>3. CASE \E t \in 0..(Span - 1) : SetTime(t)
      BY <2>3, SetTimeStep
    <2>4. CASE UNCHANGED vars
      BY <2>4 DEF ClockInv, TypeOK, Ahead, Difference, vars
    <2> QED
      BY <2>1, <2>2, <2>3, <2>4 DEF Next
  <1> QED
    BY InitInvariant, <1>1, PTL DEF Spec

\* No second is lost or counted twice, whatever the calls of now() and
\* setTime() and wherever the counters wrap, as long as now() is called at
\* least every Wrap - Second milliseconds.
THEOREM NoSecondLost == Spec => []KeepsTime
  BY ClockInvariance, InvariantImpliesKeepsTime, PTL

-----------------------------------------------------------------------------
(* The calendar. *)

\* What the leap day of a year adds to it.
LeapDay(y) == IF Leap(y) THEN 1 ELSE 0

\* A year has 365 days and its leap day.
LEMMA LengthOfYear ==
  ASSUME NEW y
  PROVE  LeapDay(y) \in 0..1 /\ YearLength(y) = 365 + LeapDay(y)
  BY DEF LeapDay, YearLength

\* The twelve months, with the days before each.
LEMMA Months ==
  ASSUME NEW y
  PROVE  /\ MonthLength(y, 1) = 31 /\ MonthLength(y, 2) = 28 + LeapDay(y)
         /\ MonthLength(y, 3) = 31 /\ MonthLength(y, 4) = 30
         /\ MonthLength(y, 5) = 31 /\ MonthLength(y, 6) = 30
         /\ MonthLength(y, 7) = 31 /\ MonthLength(y, 8) = 31
         /\ MonthLength(y, 9) = 30 /\ MonthLength(y, 10) = 31
         /\ MonthLength(y, 11) = 30 /\ MonthLength(y, 12) = 31
  BY DEF MonthLength, monthDays, LeapDay

\* The days before each month.
LEMMA MonthStarts ==
  ASSUME NEW y
  PROVE  /\ MonthStart(y, 1) = 0 /\ MonthStart(y, 2) = 31
         /\ MonthStart(y, 3) = 59 + LeapDay(y)
         /\ MonthStart(y, 4) = 90 + LeapDay(y)
         /\ MonthStart(y, 5) = 120 + LeapDay(y)
         /\ MonthStart(y, 6) = 151 + LeapDay(y)
         /\ MonthStart(y, 7) = 181 + LeapDay(y)
         /\ MonthStart(y, 8) = 212 + LeapDay(y)
         /\ MonthStart(y, 9) = 243 + LeapDay(y)
         /\ MonthStart(y, 10) = 273 + LeapDay(y)
         /\ MonthStart(y, 11) = 304 + LeapDay(y)
         /\ MonthStart(y, 12) = 334 + LeapDay(y)
         /\ MonthStart(y, 13) = 365 + LeapDay(y)
  BY Months, LengthOfYear DEF MonthStart

\* A month ends where the next begins.
MonthFits(y, m) ==
    /\ MonthLength(y, m) \in 28..31 /\ MonthStart(y, m) \in 0..335
    /\ MonthStart(y, m + 1) \in 0..366
    /\ MonthStart(y, m + 1) = MonthStart(y, m) + MonthLength(y, m)
    /\ MonthStart(y, m + 1) <= YearLength(y)

LEMMA NextMonth ==
  ASSUME NEW y, NEW m \in 1..12
  PROVE  MonthFits(y, m)
  <1>1. m \in {1, 2, 3, 4, 5, 6, 7, 8, 9, 10, 11, 12}
    OBVIOUS
  <1>2. LeapDay(y) \in 0..1 /\ YearLength(y) = 365 + LeapDay(y)
    BY LengthOfYear
  <1> QED
    BY <1>1, <1>2, Months, MonthStarts DEF MonthFits

\* The days before a month are a number.
LEMMA StartType ==
  ASSUME NEW y, NEW m \in 1..12
  PROVE  MonthStart(y, m) \in Int /\ MonthStart(y, m + 1) \in Int
  <1>1. MonthFits(y, m)
    BY NextMonth
  <1> QED
    BY <1>1 DEF MonthFits

\* Months follow each other.
LEMMA MonthsFollow ==
  ASSUME NEW y, NEW m \in 1..12, NEW k \in 1..12, m < k
  PROVE  MonthStart(y, m + 1) <= MonthStart(y, k)
  <1>1. /\ m \in {1, 2, 3, 4, 5, 6, 7, 8, 9, 10, 11}
        /\ k \in {2, 3, 4, 5, 6, 7, 8, 9, 10, 11, 12}
    OBVIOUS
  <1>2. LeapDay(y) \in 0..1
    BY LengthOfYear
  <1> QED
    BY <1>1, <1>2, MonthStarts

\* The leap years before a year.
LeapYears(y) == {n \in 0..(y - 1) : Leap(n)}

\* They are counted, so that a year begins on a day.
LEMMA LeapYearsAreFinite ==
  ASSUME NEW y \in Nat
  PROVE  /\ IsFiniteSet(LeapYears(y)) /\ Cardinality(LeapYears(y)) \in 0..y
         /\ YearStart(y) = 365 * y + Cardinality(LeapYears(y))
  <1>1. IsFiniteSet(0..(y - 1)) /\ Cardinality(0..(y - 1)) = y
    BY FS_Interval
  <1>2. LeapYears(y) \subseteq 0..(y - 1)
    BY DEF LeapYears
  <1>3. IsFiniteSet(LeapYears(y)) /\ Cardinality(LeapYears(y)) <= y
    BY <1>1, <1>2, FS_Subset
  <1>4. Cardinality(LeapYears(y)) \in Nat
    BY <1>3, FS_CardinalityType
  <1> QED
    BY <1>3, <1>4 DEF LeapYears, YearStart

\* A year begins between 365 and 366 days a year after 1970.
LEMMA YearType ==
  ASSUME NEW y \in Nat
  PROVE  /\ YearStart(y) \in Nat /\ YearLength(y) \in 365..366
         /\ 365 * y <= YearStart(y) /\ YearStart(y) <= 366 * y
  <1>1. /\ Cardinality(LeapYears(y)) \in 0..y
        /\ YearStart(y) = 365 * y + Cardinality(LeapYears(y))
    BY LeapYearsAreFinite
  <1>2. YearLength(y) \in 365..366
    BY LengthOfYear
  <1> QED
    BY <1>1, <1>2

\* A year ends where the next begins.
LEMMA NextYear ==
  ASSUME NEW y \in Nat
  PROVE  YearStart(y + 1) = YearStart(y) + YearLength(y)
  <1>1. /\ IsFiniteSet(LeapYears(y)) /\ Cardinality(LeapYears(y)) \in Nat
        /\ YearStart(y) = 365 * y + Cardinality(LeapYears(y))
        /\ YearStart(y + 1) = 365 * (y + 1) + Cardinality(LeapYears(y + 1))
    BY LeapYearsAreFinite
  <1>2. CASE Leap(y)
    <2>1. LeapYears(y + 1) = LeapYears(y) \cup {y} /\ y \notin LeapYears(y)
      BY <1>2 DEF LeapYears
    <2>2. Cardinality(LeapYears(y + 1)) = Cardinality(LeapYears(y)) + 1
      BY <1>1, <2>1, FS_AddElement
    <2> QED
      BY <1>1, <1>2, <2>2 DEF YearLength
  <1>3. CASE ~Leap(y)
    <2>1. LeapYears(y + 1) = LeapYears(y)
      BY <1>3 DEF LeapYears
    <2> QED
      BY <1>1, <1>3, <2>1 DEF YearLength
  <1> QED
    BY <1>2, <1>3

\* Years follow each other.
LEMMA YearsFollow ==
  ASSUME NEW y \in Nat, NEW z \in Nat, y < z
  PROVE  YearStart(y) + YearLength(y) <= YearStart(z)
  <1>1. LeapYears(y + 1) \subseteq LeapYears(z)
    BY DEF LeapYears
  <1>2. /\ IsFiniteSet(LeapYears(z)) /\ Cardinality(LeapYears(z)) \in Nat
        /\ YearStart(z) = 365 * z + Cardinality(LeapYears(z))
        /\ Cardinality(LeapYears(y + 1)) \in Nat
        /\ YearStart(y + 1) = 365 * (y + 1) + Cardinality(LeapYears(y + 1))
    BY LeapYearsAreFinite
  <1>3. Cardinality(LeapYears(y + 1)) <= Cardinality(LeapYears(z))
    BY <1>1, <1>2, FS_Subset
  <1> QED
    BY <1>2, <1>3, NextYear

\* The loop of breakTime ends in the year of its day.
LEMMA YearFound ==
  ASSUME NEW y \in Nat, NEW d \in Nat,
         YearStart(y) <= d, d < YearStart(y) + YearLength(y)
  PROVE  YearOf(d) = y
  <1>1. /\ YearStart(y) \in 365 * y .. 366 * y
        /\ YearLength(y) \in 365..366
    BY LeapYearsAreFinite, LengthOfYear
  <1>2. 365 * y <= d /\ d < 366 * (y + 1)
    BY <1>1
  <1>3. y \in (d \div 366)..(d \div 365)
    BY <1>2
  <1>4. ASSUME NEW z \in (d \div 366)..(d \div 365),
               YearStart(z) <= d, d < YearStart(z) + YearLength(z)
        PROVE  z = y
    <2>1. z \in Nat
      <3>1. d \div 366 \in Nat
        OBVIOUS
      <3> QED
        BY <1>4, <3>1
    <2>2. YearStart(z) \in Int /\ YearLength(z) \in Int
      BY <2>1, LeapYearsAreFinite, LengthOfYear
    <2>3. ~(y < z)
      BY <1>1, <1>4, <2>1, <2>2, YearsFollow
    <2>4. ~(z < y)
      BY <1>1, <1>4, <2>1, <2>2, YearsFollow
    <2> QED
      BY <2>1, <2>3, <2>4
  <1> QED
    BY <1>3, <1>4 DEF YearOf

\* Its second loop ends in the month of its day.
LEMMA MonthFound ==
  ASSUME NEW y, NEW m \in 1..12, NEW r \in Int,
         MonthStart(y, m) <= r, r < MonthStart(y, m + 1)
  PROVE  (CHOOSE k \in 1..12 :
            MonthStart(y, k) <= r /\ r < MonthStart(y, k + 1)) = m
  <1>1. ASSUME NEW k \in 1..12, MonthStart(y, k) <= r,
               r < MonthStart(y, k + 1)
        PROVE  k = m
    <2>1. MonthStart(y, k) \in Int /\ MonthStart(y, k + 1) \in Int
      BY StartType
    <2>2. MonthStart(y, m) \in Int /\ MonthStart(y, m + 1) \in Int
      BY StartType
    <2>3. ~(k < m)
      BY <1>1, <2>1, <2>2, MonthsFollow
    <2>4. ~(m < k)
      BY <1>1, <2>1, <2>2, MonthsFollow
    <2> QED
      BY <2>3, <2>4
  <1> QED
    BY <1>1

\* The minutes of a day, and the time that is h of them after the midnight
\* that day d begins with.
DayMinutes == 0..(24 * 60 - 1)

Time(d, h) == d * MinutesPerDay + h

\* A time of day is put together from its hours and minutes again.
LEMMA TimeOfDay ==
  ASSUME NEW h \in DayMinutes
  PROVE  /\ h \div 60 \in 0..23 /\ h % 60 \in 0..59
         /\ (h \div 60) * 60 + (h % 60) = h
  <1>1. h \in 0..1439
    BY DEF DayMinutes
  <1>2. h \div 60 \in 0..23 /\ h % 60 \in 0..59
    BY <1>1
  <1>3. h = 60 * (h \div 60) + (h % 60)
    BY <1>1
  <1> QED
    BY <1>1, <1>2, <1>3

\* A time is its day and its time of that day.
LEMMA DayAndTime ==
  ASSUME NEW d \in Nat, NEW h \in DayMinutes
  PROVE  /\ Time(d, h) \in Nat
         /\ Time(d, h) \div MinutesPerDay = d
         /\ Time(d, h) % 60 = h % 60
         /\ (Time(d, h) \div 60) % 24 = h \div 60
  <1>1. h \in 0..1439 /\ Time(d, h) = d * 1440 + h
    BY DEF MinutesPerDay, DayMinutes, Time
  <1>2. (d * 1440 + h) \div 1440 = d
    BY <1>1
  <1>3. (d * 1440 + h) % 60 = h % 60
    <2>1. d * 1440 + h = h + 60 * (24 * d)
      BY <1>1
    <2> QED
      BY <1>1, <2>1, ModShift
  <1>4. (d * 1440 + h) \div 60 = d * 24 + (h \div 60)
    BY <1>1
  <1>5. (d * 24 + (h \div 60)) % 24 = h \div 60
    BY TimeOfDay
  <1> QED
    BY <1>1, <1>2, <1>3, <1>4, <1>5 DEF MinutesPerDay

\* A date: a day of a month of a year; years are counted from 1970.
IsDate(y, m, k) == y \in Nat /\ m \in 1..12 /\ k \in 1..MonthLength(y, m)

DayOf(y, m, k) == YearStart(y) + MonthStart(y, m) + k - 1

\* The day of a date lies in its year and in its month.
LEMMA DateBounds ==
  ASSUME NEW y, NEW m, NEW k, IsDate(y, m, k)
  PROVE  /\ DayOf(y, m, k) \in Nat
         /\ YearStart(y) \in Nat /\ YearStart(y) <= DayOf(y, m, k)
         /\ DayOf(y, m, k) < YearStart(y) + YearLength(y)
         /\ MonthStart(y, m) \in 0..335
         /\ MonthStart(y, m) <= DayOf(y, m, k) - YearStart(y)
         /\ DayOf(y, m, k) - YearStart(y) < MonthStart(y, m + 1)
         /\ k = DayOf(y, m, k) - YearStart(y) - MonthStart(y, m) + 1
  <1>1. /\ MonthLength(y, m) \in 28..31 /\ MonthStart(y, m) \in 0..335
        /\ MonthStart(y, m + 1) = MonthStart(y, m) + MonthLength(y, m)
        /\ MonthStart(y, m + 1) <= YearLength(y)
    <2>1. MonthFits(y, m)
      BY NextMonth DEF IsDate
    <2> QED
      BY <2>1 DEF MonthFits
  <1>2. YearStart(y) \in Nat /\ YearLength(y) \in 365..366
    BY LeapYearsAreFinite, LengthOfYear DEF IsDate
  <1>3. k \in 1..MonthLength(y, m)
    BY DEF IsDate
  <1> QED
    BY <1>1, <1>2, <1>3 DEF DayOf

\* breakTime finds the year and the month that a day lies in.
LEMMA BreakDay ==
  ASSUME NEW y \in Nat, NEW m \in 1..12, NEW d \in Nat, NEW h \in DayMinutes,
         YearStart(y) \in Nat, YearStart(y) <= d,
         d < YearStart(y) + YearLength(y),
         MonthStart(y, m) <= d - YearStart(y),
         d - YearStart(y) < MonthStart(y, m + 1)
  PROVE  breakTime(Time(d, h)) =
           [Minute |-> h % 60, Hour |-> h \div 60, Wday |-> Weekday(d),
            Day |-> d - YearStart(y) - MonthStart(y, m) + 1,
            Month |-> m, Year |-> y]
  <1> DEFINE t == Time(d, h)
             D == t \div MinutesPerDay
             Y == YearOf(D)
             R == D - YearStart(Y)
             M == CHOOSE n \in 1..12 :
                    MonthStart(Y, n) <= R /\ R < MonthStart(Y, n + 1)
  <1>1. breakTime(t) =
          [Minute |-> t % 60, Hour |-> (t \div 60) % 24, Wday |-> Weekday(D),
           Day |-> R - MonthStart(Y, M) + 1, Month |-> M, Year |-> Y]
    BY DEF breakTime
  <1>2. D = d /\ t % 60 = h % 60 /\ (t \div 60) % 24 = h \div 60
    BY DayAndTime
  <1> HIDE DEF t, D
  <1>3. Y = y
    BY <1>2, YearFound
  <1> HIDE DEF Y
  <1>4. R = d - YearStart(y) /\ R \in Int
    BY <1>2, <1>3
  <1> HIDE DEF R
  <1>5. M = m
    <2>1. MonthStart(Y, m) <= R /\ R < MonthStart(Y, m + 1)
      BY <1>3, <1>4
    <2> QED
      BY <1>4, <2>1, MonthFound
  <1> HIDE DEF M
  <1> QED
    BY <1>1, <1>2, <1>3, <1>4, <1>5 DEF t

\* breakTime finds the date that a time was made of.
LEMMA BreakDate ==
  ASSUME NEW y, NEW m, NEW k, IsDate(y, m, k), NEW h \in DayMinutes
  PROVE  breakTime(Time(DayOf(y, m, k), h)) =
           [Minute |-> h % 60, Hour |-> h \div 60,
            Wday |-> Weekday(DayOf(y, m, k)),
            Day |-> k, Month |-> m, Year |-> y]
  <1>1. y \in Nat /\ m \in 1..12
    BY DEF IsDate
  <1> QED
    BY <1>1, DateBounds, BreakDay

\* makeTime undoes breakTime.
LEMMA MakeDate ==
  ASSUME NEW y, NEW m, NEW k, IsDate(y, m, k), NEW h \in DayMinutes, NEW tm,
         tm.Minute = h % 60, tm.Hour = h \div 60,
         tm.Day = k, tm.Month = m, tm.Year = y
  PROVE  makeTime(tm) = Time(DayOf(y, m, k), h)
  <1>1. makeTime(tm)
          = DayOf(y, m, k) * MinutesPerDay + (h \div 60) * 60 + (h % 60)
    <2>1. makeTime(tm)
            = (YearStart(tm.Year) + MonthStart(tm.Year, tm.Month)
                 + tm.Day - 1) * MinutesPerDay + tm.Hour * 60 + tm.Minute
      BY DEF makeTime
    <2> QED
      BY <2>1 DEF DayOf
  <1> DEFINE a == DayOf(y, m, k) * MinutesPerDay
             b == (h \div 60) * 60
             c == h % 60
  <1>2. a \in Int
    BY DateBounds DEF MinutesPerDay
  <1>3. b \in Int /\ c \in Int /\ b + c = h
    BY TimeOfDay
  <1>4. makeTime(tm) = a + b + c /\ Time(DayOf(y, m, k), h) = a + h
    BY <1>1 DEF Time
  <1> HIDE DEF a, b, c
  <1> QED
    BY <1>2, <1>3, <1>4

-----------------------------------------------------------------------------
(* The wall calendar. *)

\* The wall calendar's months end where the library's do.
LEMMA LastOfMonth ==
  ASSUME NEW y \in Nat, NEW m \in 1..12, NEW k \in 1..MonthLength(y, m)
  PROVE  EndsMonth(k, m, 1970 + y) <=> k = MonthLength(y, m)
  <1>1. m \in {1, 2, 3, 4, 5, 6, 7, 8, 9, 10, 11, 12}
    OBVIOUS
  <1>2. LeapDay(y) = 1 <=>
          ~(\/ ~Divides(4, 1970 + y)
            \/ Divides(100, 1970 + y) /\ ~Divides(400, 1970 + y))
    BY DEF LeapDay, Leap, Divides
  <1>3. LeapDay(y) \in 0..1
    BY LengthOfYear
  <1> DEFINE Plain == \/ ~Divides(4, 1970 + y)
                      \/ Divides(100, 1970 + y) /\ ~Divides(400, 1970 + y)
  <1>4. EndsMonth(k, m, 1970 + y) <=>
          \/ m \in Long /\ k = 31
          \/ m \in Short /\ k = 30
          \/ m = 2 /\ k = 29
          \/ m = 2 /\ k = 28 /\ Plain
    BY DEF EndsMonth
  <1>5. MonthLength(y, m) =
          IF m \in Long THEN 31 ELSE IF m \in Short THEN 30
                                     ELSE 28 + LeapDay(y)
    BY <1>1, Months DEF Long, Short
  <1>6. k \in Nat /\ k <= MonthLength(y, m)
    BY <1>1, <1>3, <1>5
  <1> HIDE DEF Plain
  <1>7. LeapDay(y) = 1 <=> ~Plain
    BY <1>2 DEF Plain
  <1> QED
    BY <1>1, <1>3, <1>4, <1>5, <1>6, <1>7 DEF Long, Short

\* The date that follows a date, and its day.
LEMMA NextDate ==
  ASSUME NEW y, NEW m, NEW k, IsDate(y, m, k)
  PROVE  /\ k # MonthLength(y, m) =>
              /\ IsDate(y, m, k + 1)
              /\ DayOf(y, m, k + 1) = DayOf(y, m, k) + 1
         /\ k = MonthLength(y, m) /\ m # 12 =>
              /\ IsDate(y, m + 1, 1)
              /\ DayOf(y, m + 1, 1) = DayOf(y, m, k) + 1
         /\ k = MonthLength(y, m) /\ m = 12 =>
              /\ IsDate(y + 1, 1, 1)
              /\ DayOf(y + 1, 1, 1) = DayOf(y, m, k) + 1
  <1>1. y \in Nat /\ m \in 1..12 /\ k \in 1..MonthLength(y, m)
    BY DEF IsDate
  <1>2. /\ MonthLength(y, m) \in 28..31 /\ MonthStart(y, m) \in 0..335
        /\ MonthStart(y, m + 1) = MonthStart(y, m) + MonthLength(y, m)
    <2>1. MonthFits(y, m)
      BY <1>1, NextMonth
    <2> QED
      BY <2>1 DEF MonthFits
  <1>3. YearStart(y) \in Nat
    BY <1>1, LeapYearsAreFinite
  <1>4. ASSUME k # MonthLength(y, m)
        PROVE  IsDate(y, m, k + 1) /\ DayOf(y, m, k + 1) = DayOf(y, m, k) + 1
    <2>1. k + 1 \in 1..MonthLength(y, m)
      BY <1>1, <1>2, <1>4
    <2> QED
      BY <1>1, <1>2, <1>3, <2>1 DEF IsDate, DayOf
  <1>5. ASSUME k = MonthLength(y, m), m # 12
        PROVE  IsDate(y, m + 1, 1) /\ DayOf(y, m + 1, 1) = DayOf(y, m, k) + 1
    <2>1. m + 1 \in 1..12
      BY <1>1, <1>5
    <2>2. 1 \in 1..MonthLength(y, m + 1)
      <3>1. MonthFits(y, m + 1)
        BY <2>1, NextMonth
      <3> QED
        BY <3>1 DEF MonthFits
    <2> QED
      BY <1>1, <1>2, <1>3, <1>5, <2>1, <2>2 DEF IsDate, DayOf
  <1>6. ASSUME k = MonthLength(y, m), m = 12
        PROVE  IsDate(y + 1, 1, 1) /\ DayOf(y + 1, 1, 1) = DayOf(y, m, k) + 1
    <2>1. YearStart(y + 1) = YearStart(y) + YearLength(y)
      BY <1>1, NextYear
    <2>2. /\ MonthLength(y + 1, 1) = 31 /\ MonthStart(y + 1, 1) = 0
          /\ MonthLength(y, 12) = 31 /\ MonthStart(y, 12) = 334 + LeapDay(y)
      BY Months, MonthStarts
    <2>3. LeapDay(y) \in 0..1 /\ YearLength(y) = 365 + LeapDay(y)
      BY LengthOfYear
    <2>4. IsDate(y + 1, 1, 1)
      BY <1>1, <2>2 DEF IsDate
    <2>5. /\ DayOf(y + 1, 1, 1) = YearStart(y + 1)
          /\ DayOf(y, m, k) = YearStart(y) + 334 + LeapDay(y) + 31 - 1
      BY <1>3, <1>6, <2>1, <2>2, <2>3 DEF DayOf
    <2> QED
      BY <1>3, <2>1, <2>3, <2>4, <2>5
  <1> QED
    BY <1>4, <1>5, <1>6

\* The wall calendar shows the date that its day is the day of.
CivilInv ==
    /\ day \in Nat
    /\ IsDate(date.year - 1970, date.month, date.day)
    /\ day = DayOf(date.year - 1970, date.month, date.day)
    /\ date.weekday = Weekday(day)
    /\ date.year \in Int

\* 1 January 1970 is day 0, a Thursday.
LEMMA CivilStarts == CivilInit => CivilInv
  <1> SUFFICES ASSUME CivilInit PROVE CivilInv
    OBVIOUS
  <1>1. /\ day = 0 /\ date.year = 1970 /\ date.month = 1 /\ date.day = 1
        /\ date.weekday = 5
    BY DEF CivilInit
  <1>2. MonthLength(0, 1) = 31 /\ MonthStart(0, 1) = 0
    BY Months, MonthStarts
  <1>3. YearStart(0) = 0
    <2>1. Cardinality(LeapYears(0)) \in 0..0
          /\ YearStart(0) = 365 * 0 + Cardinality(LeapYears(0))
      BY LeapYearsAreFinite
    <2> QED
      BY <2>1
  <1>4. IsDate(0, 1, 1) /\ DayOf(0, 1, 1) = 0
    BY <1>2, <1>3 DEF IsDate, DayOf
  <1>5. Weekday(0) = 5
    BY DEF Weekday
  <1>6. date.year - 1970 = 0 /\ date.year \in Int
    BY <1>1
  <1> QED
    BY <1>1, <1>4, <1>5, <1>6 DEF CivilInv

\* Every midnight brings the date of the next day.
LEMMA CivilGoesOn == CivilInv /\ [Midnight]_civil => CivilInv'
  <1> SUFFICES ASSUME CivilInv, [Midnight]_civil PROVE CivilInv'
    OBVIOUS
  <1>1. CASE UNCHANGED civil
    BY <1>1 DEF CivilInv, civil
  <1>2. CASE Midnight
    <2> DEFINE y == date.year - 1970
               m == date.month
               k == date.day
               ends == EndsMonth(k, m, date.year)
    <2>1. /\ IsDate(y, m, k) /\ day = DayOf(y, m, k) /\ day \in Nat
          /\ date.year \in Int /\ date.weekday = Weekday(day)
      BY DEF CivilInv
    <2>2. /\ day' = day + 1
          /\ date'.day = IF ends THEN 1 ELSE k + 1
          /\ date'.month = IF ~ends THEN m ELSE IF m = 12 THEN 1 ELSE m + 1
          /\ date'.year = IF ends /\ m = 12 THEN date.year + 1
                                            ELSE date.year
          /\ date'.weekday = IF date.weekday = 7 THEN 1
                                                 ELSE date.weekday + 1
      BY <1>2 DEF Midnight
    <2>3. y \in Nat /\ m \in 1..12 /\ k \in 1..MonthLength(y, m)
      BY <2>1 DEF IsDate
    <2>4. date.year = 1970 + y
      BY <2>1
    <2>5. ends <=> k = MonthLength(y, m)
      BY <2>3, <2>4, LastOfMonth
    <2>6. date'.weekday = Weekday(day + 1)
      BY <2>1, <2>2 DEF Weekday
    <2>7. (date'.year - 1970) = IF ends /\ m = 12 THEN y + 1 ELSE y
      BY <2>1, <2>2
    <2>8. date'.year \in Int
      BY <2>1, <2>2
    <2> HIDE DEF y, m, k, ends
    <2>9. /\ IsDate(date'.year - 1970, date'.month, date'.day)
          /\ DayOf(date'.year - 1970, date'.month, date'.day)
               = DayOf(y, m, k) + 1
      <3>1. CASE ~ends
        <4>1. /\ date'.year - 1970 = y /\ date'.month = m
              /\ date'.day = k + 1
          BY <2>2, <2>7, <3>1
        <4> QED
          BY <2>1, <2>5, <3>1, <4>1, NextDate
      <3>2. CASE ends /\ m # 12
        <4>1. /\ date'.year - 1970 = y /\ date'.month = m + 1
              /\ date'.day = 1
          BY <2>2, <2>7, <3>2
        <4> QED
          BY <2>1, <2>5, <3>2, <4>1, NextDate
      <3>3. CASE ends /\ m = 12
        <4>1. /\ date'.year - 1970 = y + 1 /\ date'.month = 1
              /\ date'.day = 1
          BY <2>2, <2>7, <3>3
        <4> QED
          BY <2>1, <2>5, <3>3, <4>1, NextDate
      <3> QED
        BY <3>1, <3>2, <3>3
    <2>10. day' \in Nat
      BY <2>1, <2>2
    <2> QED
      BY <2>1, <2>2, <2>6, <2>8, <2>9, <2>10 DEF CivilInv
  <1> QED
    BY <1>1, <1>2

\* The hours of the display and their am and pm tell the hours apart.
LEMMA TwelveHours ==
  ASSUME NEW t, breakTime(t).Hour \in 0..23
  PROVE  /\ hourFormat12(t) \in 1..12
         /\ (hourFormat12(t) % 12) + (IF isAM(t) THEN 0 ELSE 12)
              = breakTime(t).Hour
  <1> DEFINE H == breakTime(t).Hour
             h12 == IF H = 0 THEN 12 ELSE IF H > 12 THEN H - 12 ELSE H
  <1>1. hourFormat12(t) = h12 /\ (isAM(t) <=> ~(H >= 12))
    BY DEF hourFormat12, isAM, isPM
  <1>2. H \in 0..23
    OBVIOUS
  <1> HIDE DEF H
  <1>3. /\ h12 \in 1..12
        /\ (h12 % 12) + (IF H >= 12 THEN 12 ELSE 0) = H
    BY <1>2
  <1> QED
    BY <1>1, <1>3 DEF H

\* What the wall calendar shows is what breakTime finds.
LEMMA CivilDates == CivilInv => CalendarIsRight
  <1> SUFFICES ASSUME CivilInv, NEW h \in Hands
               PROVE  LET t   == Time(day, h)
                          tm  == breakTime(t)
                          h12 == hourFormat12(t)
                      IN  /\ tm.Day = date.day /\ tm.Month = date.month
                          /\ 1970 + tm.Year = date.year
                          /\ tm.Wday = date.weekday
                          /\ makeTime(tm) = t
                          /\ h12 \in 1..12
                          /\ (h12 % 12) + (IF isAM(t) THEN 0 ELSE 12)
                               = tm.Hour
    BY DEF CalendarIsRight, Times, Time
  <1> DEFINE y == date.year - 1970
             m == date.month
             k == date.day
             t == Time(day, h)
             tm == breakTime(t)
  <1>1. h \in DayMinutes
    BY CivilAssumption DEF DayMinutes, MinutesPerDay
  <1>2. /\ IsDate(y, m, k) /\ day = DayOf(y, m, k)
        /\ date.year \in Int /\ date.weekday = Weekday(day)
    BY DEF CivilInv
  <1>3. date.year = 1970 + y
    BY <1>2
  <1> HIDE DEF y, m, k
  <1>4. tm = [Minute |-> h % 60, Hour |-> h \div 60, Wday |-> Weekday(day),
              Day |-> k, Month |-> m, Year |-> y]
    BY <1>1, <1>2, BreakDate
  <1> HIDE DEF tm
  <1>5. /\ tm.Minute = h % 60 /\ tm.Hour = h \div 60 /\ tm.Day = k
        /\ tm.Month = m /\ tm.Year = y /\ tm.Wday = Weekday(day)
    BY <1>4
  <1>6. makeTime(tm) = t
    BY <1>1, <1>2, <1>5, MakeDate
  <1>7. tm.Hour \in 0..23
    BY <1>1, <1>5, TimeOfDay
  <1>8. /\ hourFormat12(t) \in 1..12
        /\ (hourFormat12(t) % 12) + (IF isAM(t) THEN 0 ELSE 12) = tm.Hour
    BY <1>7, TwelveHours DEF tm
  <1> HIDE DEF t
  <1> QED
    BY <1>2, <1>3, <1>5, <1>6, <1>8 DEF tm, t, m, k

\* On every day, breakTime shows the civil date, makeTime undoes it, and the
\* twelve hours with their am and pm tell the hours of the day apart.
THEOREM CalendarHolds == CivilSpec => []CalendarIsRight
  <1> QED
    BY CivilStarts, CivilGoesOn, CivilDates, PTL DEF CivilSpec

-----------------------------------------------------------------------------
(* The years of times. *)

\* Every day lies in a year: the first that ends after it.
LEMMA YearExists ==
  ASSUME NEW d \in Nat
  PROVE  \E y \in Nat : YearStart(y) <= d /\ d < YearStart(y) + YearLength(y)
  <1> DEFINE T == {y \in Nat : d < YearStart(y) + YearLength(y)}
  <1>1. ASSUME NEW y \in Nat
        PROVE  /\ YearStart(y) \in Nat /\ YearLength(y) \in 365..366
               /\ 365 * y <= YearStart(y) /\ YearStart(y) <= 366 * y
    BY YearType
  <1>2. T # {} /\ T \subseteq Nat
    <2>1. d < YearStart(d) + YearLength(d)
      BY <1>1
    <2> QED
      BY <2>1
  <1>3. PICK y \in T : \A z \in T : ~(<<z, y>> \in OpToRel(<, Nat))
    BY <1>2, NatLessThanWellFounded, WFMin
  <1>4. \A z \in T : ~(z < y)
    BY <1>2, <1>3 DEF OpToRel
  <1>5. YearStart(y) <= d
    <2>1. CASE y = 0
      <3>1. YearStart(0) \in Nat /\ YearStart(0) <= 366 * 0
        BY <1>1
      <3> QED
        BY <2>1, <3>1
    <2>2. CASE y # 0
      <3>1. y - 1 \in Nat /\ y - 1 < y /\ y \in Nat
        BY <1>2, <2>2
      <3>2. ~(d < YearStart(y - 1) + YearLength(y - 1))
        BY <1>4, <3>1
      <3>3. YearStart((y - 1) + 1) = YearStart(y - 1) + YearLength(y - 1)
        BY <3>1, NextYear
      <3>4. (y - 1) + 1 = y
        BY <3>1
      <3>5. YearStart(y) \in Int
        BY <3>1, <1>1
      <3> QED
        BY <3>2, <3>3, <3>4, <3>5
    <2> QED
      BY <2>1, <2>2
  <1> QED
    BY <1>2, <1>5

\* The time a year begins.
NewYear(y) == YearStart(y) * MinutesPerDay

\* A year is at least 365 days long.
LEMMA NewYears ==
  ASSUME NEW y \in Nat
  PROVE  /\ NewYear(y) \in Nat
         /\ NewYear(y + 1) \in Nat
         /\ NewYear(y + 1) = NewYear(y) + YearLength(y) * MinutesPerDay
         /\ NewYear(y + 1) >= NewYear(y) + 365 * 1440
  <1>1. /\ YearStart(y) \in Nat /\ YearLength(y) \in 365..366
    BY YearType
  <1>2. YearStart(y + 1) = YearStart(y) + YearLength(y)
    BY NextYear
  <1> QED
    BY <1>1, <1>2 DEF NewYear, MinutesPerDay

\* The years follow each other.
LEMMA NewYearsFollow ==
  ASSUME NEW y \in Nat, NEW z \in Nat, y < z
  PROVE  NewYear(y + 1) <= NewYear(z)
  <1>1. YearStart(y) + YearLength(y) <= YearStart(z)
    BY YearsFollow
  <1>2. /\ YearStart(y) \in Nat /\ YearLength(y) \in 365..366
        /\ YearStart(z) \in Nat
    BY YearType
  <1>3. YearStart(y + 1) = YearStart(y) + YearLength(y)
    BY NextYear
  <1> QED
    BY <1>1, <1>2, <1>3 DEF NewYear, MinutesPerDay

\* The day of a time lies in the year of the time.
LEMMA DayInYear ==
  ASSUME NEW t \in Nat, NEW y \in Nat
  PROVE  /\ t \div MinutesPerDay \in Nat
         /\ (NewYear(y) <= t /\ t < NewYear(y + 1))
              <=> (/\ YearStart(y) <= t \div MinutesPerDay
                   /\ t \div MinutesPerDay < YearStart(y) + YearLength(y))
  <1>1. /\ YearStart(y) \in Nat /\ YearLength(y) \in 365..366
    BY YearType
  <1>2. YearStart(y + 1) = YearStart(y) + YearLength(y)
    BY NextYear
  <1> DEFINE a == YearStart(y)
             b == YearLength(y)
  <1>3. NewYear(y) = a * 1440 /\ NewYear(y + 1) = (a + b) * 1440
    BY <1>1, <1>2 DEF NewYear, MinutesPerDay
  <1>4. a \in Nat /\ b \in Nat
    BY <1>1
  <1> HIDE DEF a, b
  <1>5. t \div MinutesPerDay = t \div 1440 /\ t \div 1440 \in Nat
    BY DEF MinutesPerDay
  <1>6. /\ (a * 1440 <= t) <=> (a <= t \div 1440)
        /\ (t < (a + b) * 1440) <=> (t \div 1440 < a + b)
    BY <1>4
  <1> QED
    BY <1>3, <1>5, <1>6 DEF a, b

\* The year of a time between two New Years.
LEMMA YearIs ==
  ASSUME NEW t \in Nat, NEW y \in Nat, NewYear(y) <= t, t < NewYear(y + 1)
  PROVE  year(t) = 1970 + y
  <1>1. /\ t \div MinutesPerDay \in Nat
        /\ YearStart(y) <= t \div MinutesPerDay
        /\ t \div MinutesPerDay < YearStart(y) + YearLength(y)
    BY DayInYear
  <1>2. YearOf(t \div MinutesPerDay) = y
    BY <1>1, YearFound
  <1>3. breakTime(t).Year = YearOf(t \div MinutesPerDay)
    BY DEF breakTime
  <1> QED
    BY <1>2, <1>3 DEF year

\* Every time lies between two New Years.
LEMMA TimeInYear ==
  ASSUME NEW t \in Nat
  PROVE  \E y \in Nat : NewYear(y) <= t /\ t < NewYear(y + 1)
  <1>1. t \div MinutesPerDay \in Nat
    BY DEF MinutesPerDay
  <1>2. PICK y \in Nat :
          /\ YearStart(y) <= t \div MinutesPerDay
          /\ t \div MinutesPerDay < YearStart(y) + YearLength(y)
    BY <1>1, YearExists
  <1> QED
    BY <1>2, DayInYear
-----------------------------------------------------------------------------
(* The change points. *)

\* Two o'clock of a date.
LEMMA TwoOClock ==
  ASSUME NEW y, NEW m, NEW k, IsDate(y, m, k)
  PROVE  /\ makeTime([Minute |-> 0, Hour |-> 2, Day |-> k,
                      Month |-> m, Year |-> y]) = Time(DayOf(y, m, k), 120)
         /\ breakTime(Time(DayOf(y, m, k), 120)).Wday
              = Weekday(DayOf(y, m, k))
  <1>1. 120 \in DayMinutes /\ 120 % 60 = 0 /\ 120 \div 60 = 2
    BY DEF DayMinutes
  <1> DEFINE tm == [Minute |-> 0, Hour |-> 2, Day |-> k, Month |-> m,
                    Year |-> y]
  <1>2. /\ tm.Minute = 0 /\ tm.Hour = 2 /\ tm.Day = k
        /\ tm.Month = m /\ tm.Year = y
    OBVIOUS
  <1> HIDE DEF tm
  <1>3. makeTime(tm) = Time(DayOf(y, m, k), 120)
    BY <1>1, <1>2, MakeDate
  <1>4. breakTime(Time(DayOf(y, m, k), 120)).Wday = Weekday(DayOf(y, m, k))
    BY <1>1, BreakDate
  <1> QED
    BY <1>3, <1>4 DEF tm

\* The days from the first of a month to its first Sunday.
Wait(y, m) == (8 - Weekday(DayOf(y, m, 1))) % 7

\* The n-th Sunday of a month, counted from its first day.
NthSunday(n, y, m) == DayOf(y, m, 1) + 7 * (n - 1) + Wait(y, m)

\* The first fourteen days of a month.
LEMMA EarlyDate ==
  ASSUME NEW y \in Nat, NEW m \in 1..12, NEW k \in 1..14
  PROVE  IsDate(y, m, k)
  <1>1. MonthFits(y, m)
    BY NextMonth
  <1> QED
    BY <1>1 DEF IsDate, MonthFits

\* Their days follow each other.
LEMMA EarlyDay ==
  ASSUME NEW y \in Nat, NEW m \in 1..12, NEW k \in 1..14
  PROVE  DayOf(y, m, k) = DayOf(y, m, 1) + (k - 1)
  <1>1. MonthStart(y, m) \in 0..335
    <2>1. MonthFits(y, m)
      BY NextMonth
    <2> QED
      BY <2>1 DEF MonthFits
  <1>2. YearStart(y) \in Nat
    BY YearType
  <1> QED
    BY <1>1, <1>2 DEF DayOf

\* The first of a month is a date.
LEMMA FirstDay ==
  ASSUME NEW y \in Nat, NEW m \in 1..12
  PROVE  IsDate(y, m, 1) /\ DayOf(y, m, 1) \in Nat
  <1>1. 1 \in 1..14
    OBVIOUS
  <1>2. IsDate(y, m, 1)
    BY <1>1, EarlyDate
  <1> QED
    BY <1>2, DateBounds

\* The first Sunday is at most six days away.
LEMMA WaitType ==
  ASSUME NEW y \in Nat, NEW m \in 1..12
  PROVE  /\ Wait(y, m) \in 0..6 /\ Weekday(DayOf(y, m, 1)) \in 1..7
         /\ Wait(y, m) = (1 - Weekday(DayOf(y, m, 1)) + 7) % 7
  <1>1. DayOf(y, m, 1) \in Nat
    BY FirstDay
  <1>2. Weekday(DayOf(y, m, 1)) \in 1..7
    BY <1>1 DEF Weekday
  <1> QED
    BY <1>2 DEF Wait

\* Among seven days in a row from the first on, one is a Sunday.
LEMMA OneSunday ==
  ASSUME NEW d \in Nat, NEW n \in 1..2, NEW k \in (7 * n - 6)..(7 * n)
  PROVE  Weekday(d + (k - 1)) = 1
           <=> k = 7 * (n - 1) + ((8 - Weekday(d)) % 7) + 1
  BY DEF Weekday


\* The rules find the n-th Sunday that the days of the month show.
LEMMA RuleFinds ==
  ASSUME NEW y \in Nat, NEW m \in 1..12, NEW n \in 1..2, NEW r,
         r.week = n, r.dow = 1, r.month = m, r.hour = 2
  PROVE  toTime_t(r, 1970 + y) = Time(NthSunday(n, y, m), 120)
  <1> DEFINE d == DayOf(y, m, 1)
             W == Weekday(d)
             first == makeTime([Minute |-> 0, Hour |-> r.hour, Day |-> 1,
                                Month |-> r.month, Year |-> (1970 + y) - 1970])
  <1>1. (1970 + y) - 1970 = y
    OBVIOUS
  <1>2. IsDate(y, m, 1) /\ d \in Nat
    BY FirstDay
  <1>3. first = Time(d, 120) /\ breakTime(Time(d, 120)).Wday = W
    <2>1. first = makeTime([Minute |-> 0, Hour |-> 2, Day |-> 1,
                            Month |-> m, Year |-> y])
      BY <1>1
    <2> QED
      BY <1>2, <2>1, TwoOClock
  <1>4. toTime_t(r, 1970 + y)
          = first + (7 * (r.week - 1)
                       + ((r.dow - breakTime(first).Wday + 7) % 7))
                      * MinutesPerDay
    BY DEF toTime_t
  <1>5. Wait(y, m) \in 0..6 /\ Wait(y, m) = (1 - W + 7) % 7
    BY WaitType
  <1> HIDE DEF first, W
  <1>6. toTime_t(r, 1970 + y)
          = Time(d, 120) + (7 * (n - 1) + Wait(y, m)) * MinutesPerDay
    BY <1>3, <1>4, <1>5
  <1> HIDE DEF d
  <1>7. /\ NthSunday(n, y, m) = d + 7 * (n - 1) + Wait(y, m)
        /\ Time(d, 120) = d * 1440 + 120
        /\ Time(NthSunday(n, y, m), 120) = NthSunday(n, y, m) * 1440 + 120
        /\ MinutesPerDay = 1440
    BY DEF NthSunday, Time, MinutesPerDay, d
  <1> QED
    BY <1>2, <1>5, <1>6, <1>7

\* So does the search for it.
LEMMA SearchFinds ==
  ASSUME NEW y \in Nat, NEW m \in 1..12, NEW n \in 1..2
  PROVE  Sunday(n, m, 1970 + y) = Time(NthSunday(n, y, m), 120)
  <1> DEFINE at(k) == makeTime([Minute |-> 0, Hour |-> 2, Day |-> k,
                                Month |-> m, Year |-> (1970 + y) - 1970])
             d == DayOf(y, m, 1)
             s == 7 * (n - 1) + Wait(y, m) + 1
             days == (7 * n - 6)..(7 * n)
             c == CHOOSE k \in days : breakTime(at(k)).Wday = Sun
  <1>1. Sunday(n, m, 1970 + y) = at(c)
    BY DEF Sunday
  <1>2. ASSUME NEW k \in days
        PROVE  /\ at(k) = Time(d + (k - 1), 120)
               /\ breakTime(at(k)).Wday = Weekday(d + (k - 1))
    <2>1. k \in 1..14 /\ (1970 + y) - 1970 = y
      OBVIOUS
    <2>2. IsDate(y, m, k) /\ DayOf(y, m, k) = d + (k - 1)
      <3>1. IsDate(y, m, k)
        BY <2>1, EarlyDate
      <3>2. DayOf(y, m, k) = d + (k - 1)
        BY <2>1, EarlyDay
      <3> QED
        BY <3>1, <3>2
    <2>3. at(k) = makeTime([Minute |-> 0, Hour |-> 2, Day |-> k,
                            Month |-> m, Year |-> y])
      BY <2>1
    <2> HIDE DEF at, d
    <2> QED
      BY <2>2, <2>3, TwoOClock
  <1>3. d \in Nat
    BY FirstDay
  <1>4. Wait(y, m) \in 0..6 /\ Wait(y, m) = (8 - Weekday(d)) % 7
    BY WaitType DEF Wait
  <1>5. s \in days
    BY <1>4
  <1> HIDE DEF at
  <1>6. ASSUME NEW k \in days
        PROVE  breakTime(at(k)).Wday = Sun <=> k = s
    <2>1. Weekday(d + (k - 1)) = 1
            <=> k = 7 * (n - 1) + ((8 - Weekday(d)) % 7) + 1
      BY <1>3, OneSunday
    <2> QED
      BY <1>2, <1>4, <2>1 DEF Sun
  <1> HIDE DEF s, days
  <1>7. c = s
    BY <1>5, <1>6
  <1> HIDE DEF c
  <1>8. at(s) = Time(d + (s - 1), 120)
    BY <1>2, <1>5
  <1>9. d + (s - 1) = NthSunday(n, y, m)
    BY <1>3, <1>4 DEF s, NthSunday
  <1> QED
    BY <1>1, <1>7, <1>8, <1>9

\* The changes of a year: the second Sunday of March and the first of
\* November, far from the ends of the year.
Begins(y) == toTime_t(DstRule, 1970 + y)
Ends(y) == toTime_t(StdRule, 1970 + y)

\* A year has its change points where Summer looks for them.
LEMMA Changing ==
  ASSUME NEW y \in Nat
  PROVE  /\ Begins(y) = Sunday(2, 3, 1970 + y)
         /\ Ends(y) = Sunday(1, 11, 1970 + y)
         /\ Begins(y) \in Int /\ Ends(y) \in Int
         /\ NewYear(y) + 66 * 1440 <= Begins(y)
         /\ Begins(y) <= NewYear(y) + 74 * 1440
         /\ NewYear(y) + 304 * 1440 <= Ends(y)
         /\ Ends(y) <= NewYear(y) + 312 * 1440
  <1>1. Begins(y) = Time(NthSunday(2, y, 3), 120)
    BY RuleFinds DEF DstRule, Sun, Begins
  <1>2. Ends(y) = Time(NthSunday(1, y, 11), 120)
    BY RuleFinds DEF StdRule, Sun, Ends
  <1>3. Begins(y) = Sunday(2, 3, 1970 + y) /\ Ends(y) = Sunday(1, 11, 1970 + y)
    BY <1>1, <1>2, SearchFinds
  <1>4. Wait(y, 3) \in 0..6 /\ Wait(y, 11) \in 0..6
    BY WaitType
  <1>5. /\ MonthStart(y, 3) = 59 + LeapDay(y)
        /\ MonthStart(y, 11) = 304 + LeapDay(y) /\ LeapDay(y) \in 0..1
    BY MonthStarts, LengthOfYear
  <1>6. YearStart(y) \in Nat
    BY YearType
  <1>7. /\ NthSunday(2, y, 3) \in YearStart(y) + 66 .. YearStart(y) + 73
        /\ NthSunday(1, y, 11) \in YearStart(y) + 304 .. YearStart(y) + 311
    BY <1>4, <1>5, <1>6 DEF NthSunday, DayOf
  <1> QED
    BY <1>1, <1>2, <1>3, <1>6, <1>7 DEF Time, NewYear, MinutesPerDay
-----------------------------------------------------------------------------
(* The conversions. *)

\* A zone is less than a day from Greenwich.
LEMMA ZoneType ==
  ASSUME zone \in Zones
  PROVE  /\ zone.std \in Int /\ zone.dst \in Int
         /\ -1440 < zone.std /\ zone.std < 1440
         /\ -1440 < zone.dst /\ zone.dst < 1440
         /\ zone.dst = zone.std \/ zone.dst = zone.std + 60
  <1>1. /\ zone.std \in Int /\ zone.dst \in {zone.std, zone.std + 60}
        /\ -1440 < zone.std /\ zone.dst < 1440
    BY ZoneAssumption DEF MinutesPerDay
  <1> QED
    BY <1>1

\* Summer time, of a time in year y.
SummerOf(y, u) == u + zone.std >= Begins(y) /\ u + zone.dst < Ends(y)

\* Summer, of a time whose year is known.
LEMMA SummerIs ==
  ASSUME NEW u \in Nat, NEW y \in Nat, NewYear(y) <= u, u < NewYear(y + 1)
  PROVE  Summer(u) <=> SummerOf(y, u)
  <1>1. year(u) = 1970 + y
    BY YearIs
  <1>2. /\ Begins(y) = Sunday(2, 3, 1970 + y)
        /\ Ends(y) = Sunday(1, 11, 1970 + y)
    BY Changing
  <1> QED
    BY <1>1, <1>2 DEF Summer, SummerOf

\* The changes of a year and its ends, from the next year's side too.
LEMMA Bounds ==
  ASSUME NEW y \in Nat
  PROVE  /\ NewYear(y) \in Nat /\ NewYear(y + 1) \in Nat
         /\ Begins(y) \in Int /\ Ends(y) \in Int
         /\ NewYear(y) + 90000 <= Begins(y) /\ Begins(y) + 90000 <= Ends(y)
         /\ Ends(y) + 70000 <= NewYear(y + 1)
  <1>1. /\ NewYear(y) \in Nat /\ NewYear(y + 1) \in Nat
        /\ NewYear(y + 1) >= NewYear(y) + 365 * 1440
    BY NewYears
  <1> QED
    BY <1>1, Changing

\* Around New Year no time is in summer, whichever year it is counted to.
LEMMA NearSummer ==
  ASSUME zone \in Zones, NEW y \in Nat, NEW t \in Nat,
         NewYear(y) <= t, t < NewYear(y + 1),
         NEW u \in Nat, t - 1440 < u, u < t + 1440
  PROVE  Summer(u) <=> SummerOf(y, u)
  <1>1. PICK z \in Nat : NewYear(z) <= u /\ u < NewYear(z + 1)
    BY TimeInYear
  <1>2. Summer(u) <=> SummerOf(z, u)
    BY <1>1, SummerIs
  <1>3. /\ NewYear(y) \in Nat /\ NewYear(y + 1) \in Nat
        /\ Begins(y) \in Int /\ Ends(y) \in Int
        /\ NewYear(y) + 90000 <= Begins(y) /\ Begins(y) + 90000 <= Ends(y)
        /\ Ends(y) + 70000 <= NewYear(y + 1)
    BY Bounds
  <1>4. /\ NewYear(z) \in Nat /\ NewYear(z + 1) \in Nat
        /\ Begins(z) \in Int /\ Ends(z) \in Int
        /\ NewYear(z) + 90000 <= Begins(z) /\ Begins(z) + 90000 <= Ends(z)
        /\ Ends(z) + 70000 <= NewYear(z + 1)
    BY <1>1, Bounds
  <1>5. /\ zone.std \in Int /\ zone.dst \in Int
        /\ -1440 < zone.std /\ zone.std < 1440
        /\ -1440 < zone.dst /\ zone.dst < 1440
    BY ZoneType
  <1>6. CASE z = y
    BY <1>2, <1>6
  <1>7. CASE z < y
    <2>1. NewYear(z + 1) <= NewYear(y)
      BY <1>7, NewYearsFollow
    <2>2. ~SummerOf(y, u)
      BY <1>1, <1>3, <1>4, <1>5, <2>1 DEF SummerOf
    <2>3. ~SummerOf(z, u)
      BY <1>1, <1>3, <1>4, <1>5, <2>1 DEF SummerOf
    <2> QED
      BY <1>2, <2>2, <2>3
  <1>8. CASE y < z
    <2>1. NewYear(y + 1) <= NewYear(z)
      BY <1>8, NewYearsFollow
    <2>2. ~SummerOf(y, u)
      BY <1>1, <1>3, <1>4, <1>5, <2>1 DEF SummerOf
    <2>3. ~SummerOf(z, u)
      BY <1>1, <1>3, <1>4, <1>5, <2>1 DEF SummerOf
    <2> QED
      BY <1>2, <2>2, <2>3
  <1> QED
    BY <1>6, <1>7, <1>8

\* The change points are unset, or those of one year and of this zone; and
\* the last answer was right.
PointsOf(y) ==
    [dstUTC |-> Begins(y) - zone.std, stdUTC |-> Ends(y) - zone.dst,
     dstLoc |-> Begins(y), stdLoc |-> Ends(y)]

RulesInv ==
    /\ zone \in Zones
    /\ points = Unset \/ \E y \in Nat : points = PointsOf(y)
    /\ LocalIsRight /\ UTCIsRight

\* A conversion uses the change points of the year it is asked about.
LEMMA PointsMade ==
  ASSUME NEW y \in Nat
  PROVE  ChangePoints(1970 + y) = PointsOf(y)
  BY DEF ChangePoints, PointsOf, Begins, Ends

\* 1970, which unset change points lie in, has 365 days.
LEMMA FirstYear == NewYear(0) = 0 /\ NewYear(0 + 1) = 365 * 1440
  <1>1. YearStart(0) \in Nat /\ 365 * 0 <= YearStart(0)
        /\ YearStart(0) <= 366 * 0
    BY YearType
  <1>2. YearLength(0) = 365
    BY DEF YearLength, Leap
  <1>3. YearStart(0 + 1) = YearStart(0) + YearLength(0)
    BY NextYear
  <1> QED
    BY <1>1, <1>2, <1>3 DEF NewYear, MinutesPerDay

\* The change points of a year lie in it, on either clock.
LEMMA YearOfPoints ==
  ASSUME zone \in Zones, NEW y \in Nat, points = PointsOf(y)
  PROVE  year(points.dstUTC) = 1970 + y /\ year(points.dstLoc) = 1970 + y
  <1>1. /\ NewYear(y) \in Nat /\ NewYear(y + 1) \in Nat
        /\ Begins(y) \in Int /\ Ends(y) \in Int
        /\ NewYear(y) + 90000 <= Begins(y) /\ Begins(y) + 90000 <= Ends(y)
        /\ Ends(y) + 70000 <= NewYear(y + 1)
    BY Bounds
  <1>2. zone.std \in Int /\ -1440 < zone.std /\ zone.std < 1440
    BY ZoneType
  <1>3. points.dstUTC = Begins(y) - zone.std /\ points.dstLoc = Begins(y)
    BY DEF PointsOf
  <1>4. /\ points.dstUTC \in Nat /\ NewYear(y) <= points.dstUTC
        /\ points.dstUTC < NewYear(y + 1)
    BY <1>1, <1>2, <1>3
  <1>5. /\ points.dstLoc \in Nat /\ NewYear(y) <= points.dstLoc
        /\ points.dstLoc < NewYear(y + 1)
    BY <1>1, <1>3
  <1> QED
    BY <1>4, <1>5, YearIs

\* After its test of the year, a conversion has the change points of the year
\* it is asked about.
LEMMA Refreshed ==
  ASSUME RulesInv, NEW y \in Nat, y # 0, NEW t \in Nat,
         NewYear(y) <= t, t < NewYear(y + 1)
  PROVE  /\ (IF year(t) # year(points.dstUTC)
               THEN ChangePoints(year(t)) ELSE points) = PointsOf(y)
         /\ (IF year(t) # year(points.dstLoc)
               THEN ChangePoints(year(t)) ELSE points) = PointsOf(y)
  <1>1. year(t) = 1970 + y /\ ChangePoints(year(t)) = PointsOf(y)
    BY YearIs, PointsMade
  <1>2. CASE points = Unset
    <2>1. year(0) = 1970 + 0
      <3>1. 0 \in Nat /\ NewYear(0) <= 0 /\ 0 < NewYear(0 + 1)
        BY FirstYear
      <3> QED
        BY <3>1, YearIs
    <2>2. points.dstUTC = 0 /\ points.dstLoc = 0
      BY <1>2 DEF Unset
    <2> QED
      BY <1>1, <2>1, <2>2
  <1>3. ASSUME NEW z \in Nat, points = PointsOf(z)
        PROVE  /\ year(t) = year(points.dstUTC) => points = PointsOf(y)
               /\ year(t) = year(points.dstLoc) => points = PointsOf(y)
    <2>1. year(points.dstUTC) = 1970 + z /\ year(points.dstLoc) = 1970 + z
      BY <1>3, YearOfPoints DEF RulesInv
    <2> QED
      BY <1>1, <1>3, <2>1
  <1> QED
    BY <1>1, <1>2, <1>3 DEF RulesInv

\* What the conversions compute from the change points.
LEMMA LocalFound ==
  ASSUME zone \in Zones, NEW y \in Nat, NEW u \in Nat,
         NewYear(y) <= u, u < NewYear(y + 1)
  PROVE  IsDST(u, PointsOf(y).dstUTC, PointsOf(y).stdUTC) <=> Summer(u)
  <1>1. /\ NewYear(y) \in Nat /\ NewYear(y + 1) \in Nat
        /\ Begins(y) \in Int /\ Ends(y) \in Int
        /\ NewYear(y) + 90000 <= Begins(y) /\ Begins(y) + 90000 <= Ends(y)
        /\ Ends(y) + 70000 <= NewYear(y + 1)
    BY Bounds
  <1>2. /\ zone.std \in Int /\ zone.dst \in Int
        /\ -1440 < zone.std /\ zone.std < 1440
        /\ -1440 < zone.dst /\ zone.dst < 1440
    BY ZoneType
  <1>3. /\ PointsOf(y).dstUTC = Begins(y) - zone.std
        /\ PointsOf(y).stdUTC = Ends(y) - zone.dst
    BY DEF PointsOf
  <1>4. Summer(u) <=> SummerOf(y, u)
    BY SummerIs
  <1> QED
    BY <1>1, <1>2, <1>3, <1>4 DEF IsDST, SummerOf

\* toUTC answers with the time that reads as the local time, the earlier of
\* two, and with the one an hour early where there is none.
LEMMA UTCFound ==
  ASSUME zone \in Zones, NEW y \in Nat, NEW t \in Nat,
         NewYear(y) <= t, t < NewYear(y + 1),
         t - zone.std \in Nat, t - zone.dst \in Nat
  PROVE  (IF IsDST(t, PointsOf(y).dstLoc, PointsOf(y).stdLoc)
            THEN t - zone.dst ELSE t - zone.std)
           = (IF (t - zone.dst) + Offset(t - zone.dst) = t THEN t - zone.dst
              ELSE IF (t - zone.std) + Offset(t - zone.std) = t
                     THEN t - zone.std
              ELSE t - zone.dst)
  <1>1. /\ NewYear(y) \in Nat /\ NewYear(y + 1) \in Nat
        /\ Begins(y) \in Int /\ Ends(y) \in Int
        /\ NewYear(y) + 90000 <= Begins(y) /\ Begins(y) + 90000 <= Ends(y)
        /\ Ends(y) + 70000 <= NewYear(y + 1)
    BY Bounds
  <1>2. /\ zone.std \in Int /\ zone.dst \in Int
        /\ -1440 < zone.std /\ zone.std < 1440
        /\ -1440 < zone.dst /\ zone.dst < 1440
        /\ zone.dst = zone.std \/ zone.dst = zone.std + 60
    BY ZoneType
  <1>3. /\ PointsOf(y).dstLoc = Begins(y)
        /\ PointsOf(y).stdLoc = Ends(y)
    BY DEF PointsOf
  <1>4. Summer(t - zone.dst) <=> SummerOf(y, t - zone.dst)
    <2>1. t - 1440 < t - zone.dst /\ t - zone.dst < t + 1440
      BY <1>2
    <2> QED
      BY <2>1, NearSummer
  <1>5. Summer(t - zone.std) <=> SummerOf(y, t - zone.std)
    <2>1. t - 1440 < t - zone.std /\ t - zone.std < t + 1440
      BY <1>2
    <2> QED
      BY <2>1, NearSummer
  <1>6. IsDST(t, PointsOf(y).dstLoc, PointsOf(y).stdLoc)
          <=> Begins(y) <= t /\ t < Ends(y)
    BY <1>1, <1>3 DEF IsDST
  <1> DEFINE early == t - zone.dst
             late == t - zone.std
  <1>7. Offset(early) = IF SummerOf(y, early) THEN zone.dst ELSE zone.std
    BY <1>4 DEF Offset
  <1>8. Offset(late) = IF SummerOf(y, late) THEN zone.dst ELSE zone.std
    BY <1>5 DEF Offset
  <1>9. CASE zone.dst = zone.std
    BY <1>9
  <1>10. CASE zone.dst = zone.std + 60
    <2>1. early = late - 60 /\ late = t - zone.std /\ late \in Int
      BY <1>2, <1>10
    <2>2. SummerOf(y, early) <=> t - 60 >= Begins(y) /\ t < Ends(y)
      BY <1>1, <1>2, <1>10 DEF SummerOf
    <2>3. SummerOf(y, late) <=> t >= Begins(y) /\ t + 60 < Ends(y)
      BY <1>1, <1>2, <1>10 DEF SummerOf
    <2>4. early + Offset(early) = t <=> SummerOf(y, early)
      BY <1>2, <1>7, <1>10
    <2>5. late + Offset(late) = t <=> ~SummerOf(y, late)
      BY <1>2, <1>8, <1>10
    <2> HIDE DEF early, late
    <2> QED
      BY <1>1, <1>6, <2>2, <2>3, <2>4, <2>5 DEF early, late
  <1> QED
    BY <1>2, <1>9, <1>10
\* What is asked about lies after 1970, on every clock.
LEMMA Asked ==
  ASSUME NEW t \in Nat, t >= 365 * 1440
  PROVE  \E y \in Nat : y # 0 /\ NewYear(y) <= t /\ t < NewYear(y + 1)
  <1>1. PICK y \in Nat : NewYear(y) <= t /\ t < NewYear(y + 1)
    BY TimeInYear
  <1>2. y # 0
    <2>1. SUFFICES ASSUME y = 0 PROVE FALSE
      OBVIOUS
    <2>2. NewYear(0 + 1) = 365 * 1440
      BY FirstYear
    <2>3. t < NewYear(0 + 1)
      BY <1>1, <2>1
    <2> QED
      BY <2>2, <2>3
  <1> QED
    BY <1>1, <1>2

\* A new Timezone has the change points unset, and no answer.
LEMMA RulesStart == RulesInit => RulesInv
  BY DEF RulesInit, RulesInv, LocalIsRight, UTCIsRight

\* toLocal keeps the invariant,
LEMMA toLocalKeeps ==
  ASSUME RulesInv, NEW u \in Instants, toLocal(u)
  PROVE  RulesInv'
  <1>1. u \in Nat /\ u >= 365 * 1440
    BY ZoneAssumption DEF MinutesPerDay
  <1>2. PICK y \in Nat : y # 0 /\ NewYear(y) <= u /\ u < NewYear(y + 1)
    BY <1>1, Asked
  <1>3. points' = PointsOf(y)
    BY <1>1, <1>2, Refreshed DEF toLocal
  <1>4. zone' = zone /\ zone \in Zones
    BY DEF toLocal, RulesInv
  <1>5. points' = PointsOf(y)'
    BY <1>3, <1>4 DEF PointsOf, Begins, Ends
  <1>6. call' = [does |-> "toLocal", time |-> u]
    BY DEF toLocal
  <1>7. answer' = u + (IF IsDST(u, points'.dstUTC, points'.stdUTC)
                         THEN zone.dst ELSE zone.std)
    BY DEF toLocal
  <1>8. IsDST(u, PointsOf(y).dstUTC, PointsOf(y).stdUTC) <=> Summer(u)
    BY <1>1, <1>2, <1>4, LocalFound
  <1>9. answer' = u + Offset(u)
    BY <1>3, <1>7, <1>8 DEF Offset
  <1>10. Offset(u)' = Offset(u)
    BY <1>4 DEF Offset, Summer
  <1>11. LocalIsRight'
    BY <1>6, <1>9, <1>10 DEF LocalIsRight
  <1>12. UTCIsRight'
    BY <1>6 DEF UTCIsRight
  <1> QED
    BY <1>4, <1>5, <1>11, <1>12 DEF RulesInv

\* and so does toUTC,
LEMMA toUTCKeeps ==
  ASSUME RulesInv, NEW u \in Instants, NEW t,
         t \in {u + zone.std, u + zone.dst}, toUTC(t)
  PROVE  RulesInv'
  <1>1. zone' = zone /\ zone \in Zones
    BY DEF toUTC, RulesInv
  <1>2. u \in Nat /\ u >= 366 * 1440
    BY ZoneAssumption DEF MinutesPerDay
  <1>3. /\ zone.std \in Int /\ zone.dst \in Int
        /\ -1440 < zone.std /\ zone.std < 1440
        /\ -1440 < zone.dst /\ zone.dst < 1440
    BY <1>1, ZoneType
  <1>4. /\ t \in Nat /\ t >= 365 * 1440
        /\ t - zone.std \in Nat /\ t - zone.dst \in Nat
    BY <1>2, <1>3
  <1>5. PICK y \in Nat : y # 0 /\ NewYear(y) <= t /\ t < NewYear(y + 1)
    BY <1>4, Asked
  <1>6. points' = PointsOf(y)
    BY <1>4, <1>5, Refreshed DEF toUTC
  <1>7. points' = PointsOf(y)'
    BY <1>1, <1>6 DEF PointsOf, Begins, Ends
  <1>8. call' = [does |-> "toUTC", time |-> t]
    BY DEF toUTC
  <1>9. answer' = t - (IF IsDST(t, points'.dstLoc, points'.stdLoc)
                         THEN zone.dst ELSE zone.std)
    BY DEF toUTC
  <1> DEFINE early == t - zone.dst
             late == t - zone.std
  <1>10. answer' = IF early + Offset(early) = t THEN early
                   ELSE IF late + Offset(late) = t THEN late ELSE early
    <2>1. answer' = IF IsDST(t, PointsOf(y).dstLoc, PointsOf(y).stdLoc)
                      THEN early ELSE late
      BY <1>6, <1>9
    <2> QED
      BY <1>1, <1>4, <1>5, <2>1, UTCFound
  <1>11. Offset(early)' = Offset(early) /\ Offset(late)' = Offset(late)
    BY <1>1 DEF Offset, Summer
  <1>12. UTCIsRight'
    BY <1>1, <1>8, <1>10, <1>11 DEF UTCIsRight
  <1>13. LocalIsRight'
    BY <1>8 DEF LocalIsRight
  <1> QED
    BY <1>1, <1>7, <1>12, <1>13 DEF RulesInv

\* and every step.
LEMMA RulesGoOn ==
  ASSUME ~Reuse, RulesInv, [RulesNext]_rules
  PROVE  RulesInv'
  <1>1. CASE UNCHANGED rules
    BY <1>1 DEF rules, RulesInv, LocalIsRight, UTCIsRight, Offset, Summer,
       PointsOf
  <1>2. ASSUME NEW u \in Instants, toLocal(u)
        PROVE  RulesInv'
    BY <1>2, toLocalKeeps
  <1>3. ASSUME NEW u \in Instants, toUTC(u + zone.std) \/ toUTC(u + zone.dst)
        PROVE  RulesInv'
    BY <1>3, toUTCKeeps
  <1>4. ASSUME NEW z \in Zones, Replace(z)
        PROVE  RulesInv'
    BY <1>4 DEF Replace, RulesInv, LocalIsRight, UTCIsRight
  <1> QED
    BY <1>1, <1>2, <1>3, <1>4 DEF RulesNext

\* The invariant says that the answers are right.
LEMMA RulesHold == RulesInv => ZoneOK /\ LocalIsRight /\ UTCIsRight
  <1> SUFFICES ASSUME RulesInv
               PROVE  ZoneOK /\ LocalIsRight /\ UTCIsRight
    OBVIOUS
  <1>1. ASSUME NEW y \in Nat, points = PointsOf(y)
        PROVE  /\ points.dstUTC < points.stdUTC
               /\ points.dstLoc - points.dstUTC = zone.std
    <2>1. zone \in Zones
      BY DEF RulesInv
    <2>2. /\ NewYear(y) \in Nat /\ NewYear(y + 1) \in Nat
          /\ Begins(y) \in Int /\ Ends(y) \in Int
          /\ NewYear(y) + 90000 <= Begins(y) /\ Begins(y) + 90000 <= Ends(y)
          /\ Ends(y) + 70000 <= NewYear(y + 1)
      BY Bounds
    <2>3. /\ zone.std \in Int /\ zone.dst \in Int
          /\ -1440 < zone.std /\ zone.std < 1440
          /\ -1440 < zone.dst /\ zone.dst < 1440
      BY <2>1, ZoneType
    <2>4. /\ points.dstUTC = Begins(y) - zone.std /\ points.dstLoc = Begins(y)
          /\ points.stdUTC = Ends(y) - zone.dst
      BY <1>1 DEF PointsOf
    <2> QED
      BY <2>2, <2>3, <2>4
  <1> QED
    BY <1>1 DEF RulesInv, ZoneOK

-----------------------------------------------------------------------------
(* The library. *)

\* Every conversion, in any order and for any years after 1970, uses the
\* change points of its own year and zone, as long as a new Timezone does not
\* start with the change points of the one it replaces.
THEOREM ConversionsHold ==
  ASSUME ~Reuse
  PROVE  RulesSpec => []ConversionsAreRight
  <1>1. RulesInv /\ [RulesNext]_rules => RulesInv'
    BY RulesGoOn
  <1>2. RulesInv => ConversionsAreRight
    BY RulesHold DEF ConversionsAreRight
  <1> QED
    BY RulesStart, <1>1, <1>2, PTL DEF RulesSpec

\* A time that some clock of the zone shows.
Shown(t) == \E u \in Int : u + Offset(u) = t

\* A local time that is entered, converted by toUTC and shown again by toLocal
\* is the time that was entered, unless no clock of the zone ever shows it.
THEOREM EnteredIsShown ==
  ASSUME ~Reuse
  PROVE  RulesSpec => [](answer # NoAnswer /\ call.does = "toUTC"
                           /\ Shown(call.time)
                         => answer + Offset(answer) = call.time)
  <1>1. RulesInv /\ answer # NoAnswer /\ call.does = "toUTC"
          /\ Shown(call.time)
          => answer + Offset(answer) = call.time
    <2> SUFFICES ASSUME RulesInv, answer # NoAnswer, call.does = "toUTC",
                        NEW u \in Int, u + Offset(u) = call.time
                 PROVE  answer + Offset(answer) = call.time
      BY DEF Shown
    <2>1. zone.std \in Int /\ zone.dst \in Int
      BY ZoneType DEF RulesInv
    <2>2. u = call.time - zone.dst \/ u = call.time - zone.std
      BY <2>1 DEF Offset
    <2> QED
      BY <2>2 DEF RulesInv, UTCIsRight
  <1>2. RulesInv /\ [RulesNext]_rules => RulesInv'
    BY RulesGoOn
  <1> QED
    BY RulesStart, <1>1, <1>2, PTL DEF RulesSpec

\* The parts of the library move as they do alone.
LEMMA LibraryParts ==
  /\ LibraryInit => Init /\ CivilInit /\ RulesInit
  /\ [LibraryNext]_<<vars, civil, rules>>
       => [Next]_vars /\ [Midnight]_civil /\ [RulesNext]_rules
  BY DEF LibraryInit, CivilRests, LibraryNext

\* All of it together: the clock and the zones keep to their types,
THEOREM TypesHold ==
  ASSUME ~Reuse
  PROVE  LibrarySpec => []TypesOK
  <1>1. LibrarySpec => Spec /\ RulesSpec
    BY LibraryParts, PTL DEF LibrarySpec, Spec, RulesSpec
  <1>2. RulesInv /\ [RulesNext]_rules => RulesInv'
    BY RulesGoOn
  <1>3. ClockInv /\ RulesInv => TypesOK
    BY RulesHold DEF ClockInv, TypesOK
  <1> QED
    BY ClockInvariance, RulesStart, <1>1, <1>2, <1>3, PTL DEF RulesSpec

\* the time, the dates and the conversions are right.
THEOREM LibraryHolds ==
  ASSUME ~Reuse
  PROVE  LibrarySpec => [](KeepsTime /\ CalendarIsRight /\ ConversionsAreRight)
  <1>1. LibrarySpec => Spec /\ CivilSpec /\ RulesSpec
    BY LibraryParts, PTL DEF LibrarySpec, Spec, CivilSpec, RulesSpec
  <1> QED
    BY NoSecondLost, CalendarHolds, ConversionsHold, <1>1, PTL
=============================================================================
