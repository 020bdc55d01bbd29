------------------------------- MODULE Modular -------------------------------
(***************************************************************************)
(* Facts about quotients and remainders that the proofs about wrapping     *)
(* counters rest on.                                                       *)
(***************************************************************************)
EXTENDS Integers, TLAPS

\* Division with remainder.
LEMMA DivMod ==
  ASSUME NEW x \in Int, NEW n \in Nat \ {0}
  PROVE  /\ x \div n \in Int /\ x % n \in 0..(n - 1)
         /\ x = n * (x \div n) + (x % n)
  <1>1. x \div n \in Int
    OBVIOUS
  <1>2. x % n \in 0..(n - 1)
    OBVIOUS
  <1>3. x = n * (x \div n) + (x % n)
    OBVIOUS
  <1> QED
    BY <1>1, <1>2, <1>3

\* It has one quotient and one remainder.
LEMMA ModUnique ==
  ASSUME NEW n \in Nat \ {0}, NEW q \in Int, NEW r \in 0..(n - 1),
         NEW x \in Int, x = n * q + r
  PROVE  x % n = r /\ x \div n = q
  <1> DEFINE d == x \div n - q
  <1>1. /\ d \in Int /\ x % n \in 0..(n - 1)
        /\ n * (x \div n) + (x % n) = n * q + r
    <2>1. /\ x \div n \in Int /\ x % n \in 0..(n - 1)
          /\ x = n * (x \div n) + (x % n)
      BY DivMod
    <2> QED
      BY <2>1
  <1>2. n * d = r - (x % n)
    BY <1>1
  <1>3. d < 1
    <2>1. d >= 1 => n * d >= n
      BY <1>1
    <2> QED
      BY <2>1, <1>1, <1>2
  <1>4. d > -1
    <2>1. d <= -1 => n * d <= -n
      BY <1>1
    <2> QED
      BY <2>1, <1>1, <1>2
  <1>5. d = 0
    BY <1>1, <1>3, <1>4
  <1> QED
    BY <1>1, <1>2, <1>5

\* Below the modulus nothing is reduced.
LEMMA ModSmall ==
  ASSUME NEW n \in Nat \ {0}, NEW x \in 0..(n - 1)
  PROVE  x % n = x
  <1>1. x \in Int /\ 0 \in Int /\ x = n * 0 + x
    OBVIOUS
  <1> QED
    BY <1>1, ModUnique

\* Multiples of the modulus do not count.
LEMMA ModShift ==
  ASSUME NEW n \in Nat \ {0}, NEW x \in Int, NEW k \in Int
  PROVE  (x + n * k) % n = x % n
  <1> DEFINE q == x \div n
             r == x % n
  <1>1. q \in Int /\ r \in 0..(n - 1) /\ x = n * q + r
    BY DivMod
  <1>2. x + n * k = n * (q + k) + r
    BY <1>1
  <1>3. q + k \in Int /\ x + n * k \in Int
    BY <1>1
  <1> HIDE DEF q, r
  <1>4. (x + n * k) % n = r
    BY <1>1, <1>2, <1>3, ModUnique
  <1> QED
    BY <1>4 DEF r

\* Reducing a summand first makes no difference.
LEMMA ModSum ==
  ASSUME NEW n \in Nat \ {0}, NEW x \in Int, NEW y \in Int
  PROVE  ((x % n) + y) % n = (x + y) % n
  <1> DEFINE q == x \div n
             r == x % n
  <1>1. q \in Int /\ r \in 0..(n - 1) /\ x = n * q + r
    BY DivMod
  <1> HIDE DEF q, r
  <1>2. (r + y) + n * q = x + y
    BY <1>1
  <1>3. ((r + y) + n * q) % n = (r + y) % n
    <2>1. r + y \in Int
      BY <1>1
    <2> QED
      BY <1>1, <2>1, ModShift
  <1> QED
    BY <1>2, <1>3 DEF r

\* Nor does it when it is subtracted.
LEMMA ModDifference ==
  ASSUME NEW n \in Nat \ {0}, NEW x \in Int, NEW y \in Int
  PROVE  (y - (x % n)) % n = (y - x) % n
  <1> DEFINE q == x \div n
             r == x % n
  <1>1. q \in Int /\ r \in 0..(n - 1) /\ x = n * q + r
    BY DivMod
  <1> HIDE DEF q, r
  <1>2. (y - x) + n * q = y - r
    BY <1>1
  <1>3. ((y - x) + n * q) % n = (y - x) % n
    <2>1. y - x \in Int
      OBVIOUS
    <2> QED
      BY <1>1, <2>1, ModShift
  <1> QED
    BY <1>2, <1>3 DEF r
=============================================================================
