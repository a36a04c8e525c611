-------------------------- MODULE ModularArithmetic --------------------------
(* Remainders as the row buffer uses them: row ids wrap at a multiple of the *)
(* number of rows, so they agree with the claim count on the slot.           *)
EXTENDS Integers, TLAPS

\* A multiple of n by a positive number is at least n.
LEMMA MulAtLeast ==
  ASSUME NEW n \in Nat \ {0}, NEW d \in Int, d >= 1
  PROVE  n * d >= n
OBVIOUS

\* Quotient and remainder by a positive number.
LEMMA DivMod ==
  ASSUME NEW n \in Nat \ {0}, NEW a \in Int
  PROVE  /\ a \div n \in Int /\ a % n \in 0 .. n - 1
         /\ a = n * (a \div n) + (a % n)
OBVIOUS

\* A number is a multiple of n and a remainder in one way only.
LEMMA RemainderUnique ==
  ASSUME NEW n \in Nat \ {0}, NEW q \in Int, NEW r \in 0 .. n - 1,
         NEW p \in Int, NEW m \in 0 .. n - 1, n * q + r = n * p + m
  PROVE  r = m
<1>1. n * (q - p) = m - r
  OBVIOUS
<1>2. CASE q - p >= 1
  <2>1. n * (q - p) >= n
    BY <1>2, MulAtLeast
  <2> QED BY <1>1, <2>1
<1>3. CASE p - q >= 1
  <2>1. n * (p - q) >= n
    BY <1>3, MulAtLeast
  <2> QED BY <1>1, <2>1
<1>4. CASE q = p
  BY <1>1, <1>4
<1> QED BY <1>2, <1>3, <1>4

\* A number below n is its own remainder by n.
LEMMA SmallMod ==
  ASSUME NEW n \in Nat \ {0}, NEW a \in 0 .. n - 1
  PROVE  a % n = a
<1> DEFINE d == a \div n  e == a % n
<1>1. a \in Int /\ a \in 0 .. n - 1
  OBVIOUS
<1>2. d \in Int /\ e \in 0 .. n - 1 /\ a = n * d + e
  BY <1>1, DivMod
<1> HIDE DEF d, e
<1>3. n * d + e = n * 0 + a
  BY <1>1, <1>2
<1>4. e = a
  BY <1>1, <1>2, <1>3, RemainderUnique
<1> QED BY <1>4 DEF e

\* Reducing modulo a multiple of n first does not change the remainder by n.
LEMMA ModOfMod ==
  ASSUME NEW n \in Nat \ {0}, NEW l \in Nat \ {0}, NEW a \in Nat
  PROVE  (a % (n * l)) % n = a % n
<1> DEFINE m == n * l  b == a % m  q == a \div m
<1>1. m \in Nat \ {0}
  BY MulAtLeast
<1>2. m = n * l
  OBVIOUS
<1> HIDE DEF m
<1>3. /\ q \in Int /\ b \in 0 .. m - 1
      /\ a = m * q + b
  BY <1>1, DivMod
<1> HIDE DEF b, q
<1>4. /\ b \div n \in Int /\ b % n \in 0 .. n - 1 /\ b = n * (b \div n) + (b % n)
  BY <1>1, <1>3, DivMod
<1>5. /\ a \div n \in Int /\ a % n \in 0 .. n - 1 /\ a = n * (a \div n) + (a % n)
  BY DivMod
<1> DEFINE p == b \div n  r == b % n
<1>6. a = n * (l * q + p) + r
  <2>1. p \in Int /\ r \in Int /\ q \in Int /\ a = m * q + (n * p + r)
    BY <1>3, <1>4
  <2> HIDE DEF p, r
  <2>2. m * q = n * (l * q)
    BY <1>2, <2>1
  <2>3. l * q \in Int
    BY <2>1
  <2>4. n * (l * q + p) = n * (l * q) + n * p
    BY <2>1, <2>3
  <2>5. /\ n * (l * q) \in Int /\ n * p \in Int
    BY <2>1, <2>3
  <2> QED BY <2>1, <2>2, <2>4, <2>5
<1>7. l * q + p \in Int
  BY <1>3, <1>4
<1>8. b % n = a % n
  BY <1>4, <1>5, <1>6, <1>7, RemainderUnique
<1> QED BY <1>8 DEF b, m

\* Two numbers with the same remainder by n are at least n apart.
LEMMA SameRemainderApart ==
  ASSUME NEW n \in Nat \ {0}, NEW a \in Nat, NEW b \in Nat, a < b, a % n = b % n
  PROVE  b - a >= n
<1> DEFINE x == a \div n  y == b \div n
<1>1. /\ x \in Int /\ a = n * x + (a % n)
      /\ y \in Int /\ b = n * y + (b % n)
      /\ a % n \in Int
  BY DivMod
<1> HIDE DEF x, y
<1>2. n * (y - x) = b - a
  BY <1>1
<1>3. CASE y - x >= 1
  BY <1>1, <1>2, <1>3, MulAtLeast
<1>4. CASE y = x
  BY <1>1, <1>2, <1>4
<1>5. CASE x - y >= 1
  <2>1. n * (x - y) >= n
    BY <1>1, <1>5, MulAtLeast
  <2>2. n * (x - y) = a - b
    BY <1>1
  <2> QED BY <2>1, <2>2
<1> QED BY <1>1, <1>3, <1>4, <1>5
=============================================================================
