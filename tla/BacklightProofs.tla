--------------------------- MODULE BacklightProofs ---------------------------
(***************************************************************************)
(* Proofs about Backlight, for every set of values the sensor can read.    *)
(***************************************************************************)
EXTENDS Backlight, TLAPS

\* Whatever the light sensor reads, the level fits the PWM.
LEMMA LevelType ==
  ASSUME NEW l \in Lights, NEW b
  PROVE  Level(l, b) \in 0..1023
  <1>1. l \in Int /\ (l - 10) * (200 - 25) \in Int
    BY LightsAssumption
  <1>2. MapLight(l) \in Int
    BY <1>1 DEF MapLight, CDiv
  <1>3. \A x \in Int : Clamp(x) \in 0..1023
    BY DEF Clamp
  <1>4. MapLight(l) + (IF b THEN Boost ELSE 0) \in Int
    <2>1. (IF b THEN 128 ELSE 0) \in Int
      OBVIOUS
    <2> QED
      BY <1>2, <2>1 DEF Boost
  <1> QED
    BY <1>3, <1>4 DEF Level

\* The constructor's values.
LEMMA InitialLevel == Init => TypeOK /\ LevelMatchesInputs
  <1> SUFFICES ASSUME Init PROVE TypeOK /\ LevelMatchesInputs
    OBVIOUS
  <1>1. level \in 0..1023 /\ last_light \in Lights \cup {0}
    BY DEF Init, InitialLight, FullLevel
  <1>2. boost \in BOOLEAN
    BY DEF Init, InitialLight
  <1> QED
    BY <1>1, <1>2 DEF Init, TypeOK, LevelMatchesInputs

\* The level stays that of the inputs it was set for: an edge of the button
\* forces the adjustment, so neither caller leaves the other's inputs behind.
LEMMA StepKeepsLevel ==
  ASSUME TypeOK, LevelMatchesInputs, [Next]_vars
  PROVE  TypeOK' /\ LevelMatchesInputs'
  <1>1. ASSUME NEW l \in Lights, TimerAdjust(l)
        PROVE  TypeOK' /\ LevelMatchesInputs'
    <2>1. CASE level' = Level(l, boost) /\ last_light' = l /\ boost' = boost
      BY <2>1, LevelType DEF TypeOK, LevelMatchesInputs
    <2>2. CASE UNCHANGED vars
      BY <2>2 DEF vars, TypeOK, LevelMatchesInputs, InitialLight
    <2> QED
      BY <1>1, <2>1, <2>2 DEF TimerAdjust, Adjust, vars
  <1>2. ASSUME NEW l \in Lights, NEW pressed \in BOOLEAN,
               HandleButton(pressed, l)
        PROVE  TypeOK' /\ LevelMatchesInputs'
    <2>1. CASE pressed # boost
      <3>1. /\ level' = Level(l, pressed) /\ last_light' = l
            /\ boost' = pressed
        BY <1>2, <2>1 DEF HandleButton, Adjust
      <3> QED
        BY <3>1, LevelType DEF TypeOK, LevelMatchesInputs
    <2>2. CASE ~(pressed # boost)
      BY <1>2, <2>2 DEF HandleButton, vars, TypeOK, LevelMatchesInputs,
         InitialLight
    <2> QED
      BY <2>1, <2>2
  <1>3. CASE UNCHANGED vars
    BY <1>3 DEF vars, TypeOK, LevelMatchesInputs, InitialLight
  <1> QED
    BY <1>1, <1>2, <1>3 DEF Next

\* Every level written to the pin is within the PWM's range, and the reading
\* it is remembered with is one the sensor gave.
THEOREM TypeCorrect == Spec => []TypeOK
  BY InitialLevel, StepKeepsLevel, PTL DEF Spec

\* No order of timer ticks and button edges leaves a level that belongs to
\* other inputs.
THEOREM LevelCorrect == Spec => []LevelMatchesInputs
  BY InitialLevel, StepKeepsLevel, PTL DEF Spec

\* The level never moves for a change of light within the hysteresis.
THEOREM NeverFlickers == Spec => NoFlicker
  <1> DEFINE A ==
        level' # level => \/ boost' # boost
                          \/ Abs(last_light' - last_light) > Hysteresis
  <1>1. [Next]_vars => [A]_vars
    BY DEF Next, TimerAdjust, HandleButton, Adjust, vars
  <1> QED
    BY <1>1, PTL DEF Spec, NoFlicker
=============================================================================
