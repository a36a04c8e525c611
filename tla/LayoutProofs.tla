---------------------------- MODULE LayoutProofs ----------------------------
(***************************************************************************)
(* The layout and the addresses of Layout, for every configuration, page   *)
(* size and width of an int from 16 to 32 bits: TypeOK, RoundsUp,          *)
(* SectionsApart, AccessInSection and TurnOfDistinctRows.                  *)
(*                                                                         *)
(* Numbers and their bits come first: that Value gives the number with the *)
(* bits it is given, that numbers with the same bits are equal, and from   *)
(* these that a mask of ones is a remainder and that each line of the      *)
(* smearing doubles the run of ones below the top bit.                     *)
(***************************************************************************)
EXTENDS Layout, ModularArithmetic, WellFoundedInduction, TLAPS

-----------------------------------------------------------------------------
(* Numbers.                                                                *)

\* Induction: a set with 0, and with the successor of each of its numbers, has all.
LEMMA AllNumbers ==
  ASSUME NEW S, 0 \in S, \A n \in Nat : n \in S => n + 1 \in S
  PROVE  \A n \in Nat : n \in S
<1> DEFINE T == {n \in Nat : n \notin S}
<1>1. SUFFICES ASSUME T # {} PROVE FALSE
  OBVIOUS
<1>2. PICK x \in T : \A y \in T : ~ (<<y, x>> \in OpToRel(<, Nat))
  BY <1>1, WFMin, NatLessThanWellFounded
<1>3. x \in Nat /\ x # 0 /\ x \notin S
  OBVIOUS
<1>4. x - 1 \in Nat /\ x - 1 < x
  BY <1>3
<1>5. x - 1 \notin T
  BY <1>2, <1>3, <1>4 DEF OpToRel
<1>6. x - 1 \in S
  BY <1>4, <1>5
<1>7. x - 1 + 1 \in S
  BY <1>4, <1>6
<1> QED
  BY <1>3, <1>7

\* Quotient and remainder, read off a number written as a multiple and a rest.
LEMMA DivIs ==
  ASSUME NEW n \in Nat \ {0}, NEW q \in Int, NEW r \in 0 .. n - 1, NEW a \in Int, a = n * q + r
  PROVE  a \div n = q /\ a % n = r
<1> DEFINE d == a \div n  e == a % n
<1>1. d \in Int /\ e \in 0 .. n - 1 /\ a = n * d + e
  BY DivMod
<1> HIDE DEF d, e
<1>2. e = r
  BY <1>1, RemainderUnique
<1>3. n * (d - q) = 0
  BY <1>1, <1>2
<1>4. ~(d - q >= 1)
  BY <1>1, <1>3, MulAtLeast
<1>5. ~(q - d >= 1)
  <2>1. q - d >= 1 => n * (q - d) >= n
    BY <1>1, MulAtLeast
  <2>2. n * (q - d) = 0
    BY <1>1, <1>3
  <2> QED
    BY <2>1, <2>2
<1>6. d = q
  BY <1>1, <1>4, <1>5
<1> QED
  BY <1>2, <1>6 DEF d, e

\* Products keep the order.
LEMMA MulKeepsOrder ==
  ASSUME NEW a \in Nat, NEW b \in Nat, NEW c \in Nat, a <= b
  PROVE  a * c <= b * c /\ a * c \in Nat /\ b * c \in Nat
<1>1. a * c \in Nat /\ (b - a) * c \in Nat
  OBVIOUS
<1>2. b * c = a * c + (b - a) * c
  OBVIOUS
<1> QED
  BY <1>1, <1>2

-----------------------------------------------------------------------------
(* Powers of two.                                                          *)

\* Bit is the function its definition describes.
LEMMA BitDef == Bit = [k \in 0 .. IntBits |-> IF k = 0 THEN 1 ELSE 2 * Bit[k - 1]]
<1> DEFINE S == {n \in Nat : \E g : g = [k \in 0 .. n |-> IF k = 0 THEN 1 ELSE 2 * g[k - 1]]}
<1>1. 0 \in S
  <2> DEFINE g == [k \in 0 .. 0 |-> 1]
  <2>1. g = [k \in 0 .. 0 |-> IF k = 0 THEN 1 ELSE 2 * g[k - 1]]
    OBVIOUS
  <2> QED
    BY <2>1
<1>2. ASSUME NEW n \in Nat, n \in S PROVE n + 1 \in S
  <2>1. PICK g : g = [k \in 0 .. n |-> IF k = 0 THEN 1 ELSE 2 * g[k - 1]]
    BY <1>2
  <2> DEFINE h == [k \in 0 .. n + 1 |-> IF k = n + 1 THEN 2 * g[n] ELSE g[k]]
             H == [k \in 0 .. n + 1 |-> IF k = 0 THEN 1 ELSE 2 * h[k - 1]]
  <2>2. ASSUME NEW k \in 0 .. n + 1 PROVE h[k] = H[k]
    <3>1. CASE k = n + 1
      BY <3>1
    <3>2. CASE k # n + 1
      <4>1. k \in 0 .. n /\ (k # 0 => k - 1 \in 0 .. n)
        BY <3>2
      <4>2. g[k] = IF k = 0 THEN 1 ELSE 2 * g[k - 1]
        BY <2>1, <4>1
      <4>3. k # 0 => h[k - 1] = g[k - 1]
        BY <3>2, <4>1
      <4> QED
        BY <3>2, <4>1, <4>2, <4>3
    <3> QED
      BY <3>1, <3>2
  <2>3. h = H
    BY <2>2
  <2>4. \E f : f = [k \in 0 .. n + 1 |-> IF k = 0 THEN 1 ELSE 2 * f[k - 1]]
    <3> WITNESS h
    <3> QED
      BY <2>3
  <2>5. n + 1 \in Nat
    OBVIOUS
  <2> QED
    BY <2>4, <2>5, Zenon
<1> HIDE DEF S
<1>3. \A n \in Nat : n \in S
  BY <1>1, <1>2, AllNumbers
<1>4. \E g : g = [k \in 0 .. IntBits |-> IF k = 0 THEN 1 ELSE 2 * g[k - 1]]
  <2>1. IntBits \in S
    BY <1>3, BitsAssumption
  <2> QED
    BY <2>1 DEF S
<1> QED
  BY <1>4 DEF Bit

\* Each bit is worth twice the one below it.
LEMMA BitSteps == Bit[0] = 1 /\ \A k \in 0 .. IntBits - 1 : Bit[k + 1] = 2 * Bit[k]
<1>1. 0 \in 0 .. IntBits /\ \A k \in 0 .. IntBits - 1 : k + 1 \in 0 .. IntBits /\ k + 1 # 0 /\ k + 1 - 1 = k
  BY BitsAssumption
<1> DEFINE twice(f) == [k \in 0 .. IntBits |-> IF k = 0 THEN 1 ELSE 2 * f[k - 1]]
<1>0. \A f : f = twice(f) => \A k \in 0 .. IntBits : f[k] = IF k = 0 THEN 1 ELSE 2 * f[k - 1]
  OBVIOUS
<1>4. \A k \in 0 .. IntBits : Bit[k] = IF k = 0 THEN 1 ELSE 2 * Bit[k - 1]
  BY <1>0, BitDef
<1>2. Bit[0] = 1
  BY <1>1, <1>4
<1>3. ASSUME NEW k \in 0 .. IntBits - 1 PROVE Bit[k + 1] = 2 * Bit[k]
  BY <1>1, <1>4
<1> QED
  BY <1>2, <1>3

\* A bit is worth at least 1.
LEMMA BitPositive == \A k \in 0 .. IntBits : Bit[k] \in Nat \ {0}
<1> DEFINE S == {n \in Nat : n <= IntBits => Bit[n] \in Nat \ {0}}
<1>1. 0 \in S
  BY BitSteps
<1>2. ASSUME NEW n \in Nat, n \in S PROVE n + 1 \in S
  <2> SUFFICES ASSUME n + 1 <= IntBits PROVE Bit[n + 1] \in Nat \ {0}
    OBVIOUS
  <2>1. n \in 0 .. IntBits - 1 /\ n <= IntBits
    BY BitsAssumption
  <2>2. Bit[n] \in Nat \ {0} /\ Bit[n + 1] = 2 * Bit[n]
    BY <1>2, <2>1, BitSteps
  <2> QED
    BY <2>2
<1> HIDE DEF S
<1>3. \A n \in Nat : n \in S
  BY <1>1, <1>2, AllNumbers
<1> QED
  BY <1>3, BitsAssumption DEF S

\* Bit j + k is the product of bits j and k.
LEMMA BitProduct ==
  ASSUME NEW j \in Nat, NEW k \in Nat, j + k <= IntBits
  PROVE  Bit[j + k] = Bit[j] * Bit[k]
<1> DEFINE S == {n \in Nat : j + n <= IntBits => Bit[j + n] = Bit[j] * Bit[n]}
<1>1. 0 \in S
  <2>1. j \in 0 .. IntBits
    BY BitsAssumption
  <2> QED
    BY <2>1, BitSteps, BitPositive
<1>2. ASSUME NEW n \in Nat, n \in S PROVE n + 1 \in S
  <2> SUFFICES ASSUME j + (n + 1) <= IntBits PROVE Bit[j + (n + 1)] = Bit[j] * Bit[n + 1]
    OBVIOUS
  <2>1. /\ j + n \in 0 .. IntBits - 1 /\ n \in 0 .. IntBits - 1 /\ j + (n + 1) = (j + n) + 1
        /\ j \in 0 .. IntBits /\ n \in 0 .. IntBits /\ j + n <= IntBits
    BY BitsAssumption
  <2>2. Bit[j + (n + 1)] = 2 * Bit[j + n] /\ Bit[n + 1] = 2 * Bit[n] /\ Bit[j + n] = Bit[j] * Bit[n]
    BY <1>2, <2>1, BitSteps
  <2>3. Bit[j] \in Nat /\ Bit[n] \in Nat
    BY <2>1, BitPositive
  <2> DEFINE x == Bit[j]  y == Bit[n]
  <2>4. 2 * (x * y) = x * (2 * y)
    <3>1. x \in Nat /\ y \in Nat
      BY <2>3
    <3> HIDE DEF x, y
    <3> QED
      BY <3>1
  <2> QED
    BY <2>2, <2>4
<1> HIDE DEF S
<1>3. k \in S
  BY <1>1, <1>2, AllNumbers
<1> QED
  BY <1>3 DEF S

\* A higher bit is worth at least twice as much.
LEMMA BitGrows ==
  ASSUME NEW j \in Nat, NEW k \in Nat, j <= k, k <= IntBits
  PROVE  Bit[j] <= Bit[k] /\ (j < k => 2 * Bit[j] <= Bit[k])
<1>0. j \in 0 .. IntBits /\ k \in 0 .. IntBits
  BY BitsAssumption
<1>1. ASSUME NEW a \in 0 .. IntBits, NEW b \in 0 .. IntBits, a <= b PROVE Bit[a] <= Bit[b]
  <2>1. b - a \in 0 .. IntBits /\ a + (b - a) = b /\ a \in Nat /\ b - a \in Nat /\ b <= IntBits
    BY <1>1, BitsAssumption
  <2>2. Bit[b] = Bit[a] * Bit[b - a] /\ Bit[a] \in Nat \ {0} /\ Bit[b - a] \in Nat \ {0}
    BY <2>1, BitProduct, BitPositive
  <2>3. Bit[b - a] \in Int /\ Bit[b - a] >= 1
    BY <2>2
  <2> QED
    BY <2>2, <2>3, MulAtLeast
<1>2. ASSUME j < k PROVE 2 * Bit[j] <= Bit[k]
  <2>1. j \in 0 .. IntBits - 1 /\ j + 1 \in 0 .. IntBits /\ j + 1 <= k
    BY <1>0, <1>2, BitsAssumption
  <2>2. Bit[j + 1] <= Bit[k] /\ Bit[j + 1] = 2 * Bit[j]
    BY <1>0, <1>1, <2>1, BitSteps
  <2> QED
    BY <2>2
<1> QED
  BY <1>0, <1>1, <1>2

-----------------------------------------------------------------------------
(* Bits.                                                                   *)

\* The places of the bits of an int.
Place == 0 .. IntBits - 1

\* The places of the bits of an int, and what they are worth.
LEMMA Places ==
  /\ \A k \in Place : /\ k \in 0 .. IntBits /\ k + 1 \in 0 .. IntBits /\ k \in Nat
                      /\ Bit[k] \in Nat \ {0} /\ Bit[k + 1] \in Nat \ {0} /\ Bit[k + 1] = 2 * Bit[k]
  /\ IntBits \in 0 .. IntBits /\ IntMod \in Nat \ {0} /\ IntMod = Bit[IntBits]
  /\ 0 \in Place /\ Bit[0] = 1 /\ IntBits - 1 \in Place /\ IntMod = 2 * Bit[IntBits - 1]
<1>1. /\ \A k \in Place : k \in 0 .. IntBits /\ k + 1 \in 0 .. IntBits /\ k \in Nat
      /\ IntBits \in 0 .. IntBits /\ 0 \in Place /\ IntBits - 1 \in Place
      /\ IntBits - 1 + 1 = IntBits
  BY BitsAssumption DEF Place
<1>2. \A k \in 0 .. IntBits : Bit[k] \in Nat \ {0}
  BY BitPositive
<1>3. \A k \in Place : Bit[k + 1] = 2 * Bit[k]
  BY BitSteps DEF Place
<1>4. Bit[IntBits] = 2 * Bit[IntBits - 1]
  BY <1>1, <1>3
<1> QED
  BY <1>1, <1>2, <1>3, <1>4, BitSteps DEF IntMod

\* The remainder by 2 * n is made of that by n and of one more digit.
LEMMA OneDigit ==
  ASSUME NEW n \in Nat \ {0}, NEW a \in Nat
  PROVE  /\ (a \div n) % 2 \in {0, 1}
         /\ a % (2 * n) = (a % n) + n * ((a \div n) % 2)
<1> DEFINE q == a \div n  r == a % n  p == q \div 2  b == q % 2
<1>1. q \in Int /\ r \in 0 .. n - 1 /\ a = n * q + r
  BY DivMod
<1> HIDE DEF q, r
<1>2. p \in Int /\ b \in 0 .. 1 /\ q = 2 * p + b
  BY <1>1
<1> HIDE DEF p, b
<1>3. n * b \in 0 .. n /\ n * b + r \in 0 .. (2 * n) - 1
  <2>1. b = 0 \/ b = 1
    BY <1>2
  <2> QED
    BY <2>1, <1>1
<1>4. a = (2 * n) * p + (n * b + r)
  <2>1. n * q = n * (2 * p) + n * b
    BY <1>2
  <2>2. n * (2 * p) = (2 * n) * p
    BY <1>2
  <2>3. n * q \in Int /\ (2 * n) * p \in Int /\ n * b \in Int
    BY <1>1, <1>2
  <2> QED
    BY <1>1, <2>1, <2>2, <2>3
<1>5. a % (2 * n) = n * b + r
  <2> DEFINE m == 2 * n  z == n * b + r
  <2>1. m \in Nat \ {0} /\ z \in 0 .. m - 1 /\ a = m * p + z
    BY <1>3, <1>4
  <2> HIDE DEF m, z
  <2>2. a % m = z
    BY <1>2, <2>1, DivIs
  <2> QED
    BY <2>2 DEF m, z
<1>6. b \in {0, 1} /\ a % (2 * n) = r + n * b
  BY <1>1, <1>2, <1>3, <1>5
<1> QED
  BY <1>6 DEF b, r, q

\* Dropping all bits above k leaves bit k and the bits below it.
LEMMA BitOfSplit ==
  ASSUME NEW a \in Nat, NEW k \in Place
  PROVE  /\ BitOf(a, k) \in {0, 1}
         /\ a % Bit[k + 1] = (a % Bit[k]) + Bit[k] * BitOf(a, k)
<1>1. Bit[k] \in Nat \ {0} /\ Bit[k + 1] = 2 * Bit[k]
  BY Places
<1> QED
  BY <1>1, OneDigit DEF BitOf

\* A digit, read off a number written by what is below it, it and what is above.
LEMMA DigitIs ==
  ASSUME NEW n \in Nat \ {0}, NEW r \in 0 .. n - 1, NEW b \in {0, 1}, NEW t \in Int,
         NEW a \in Int, a = r + n * (b + 2 * t)
  PROVE  (a \div n) % 2 = b
<1> DEFINE q == b + 2 * t
<1>1. q \in Int /\ q % 2 = b
  OBVIOUS
<1>2. a = r + n * q
  OBVIOUS
<1> HIDE DEF q
<1>3. n * q \in Int
  BY <1>1
<1>4. a = n * q + r
  BY <1>2, <1>3
<1>5. a \div n = q
  BY <1>1, <1>4, DivIs
<1> QED
  BY <1>1, <1>5

\* Bit k, read off a number written by the bits below it, it and a rest.
LEMMA BitOfSum ==
  ASSUME NEW k \in Place, NEW r \in 0 .. Bit[k] - 1, NEW b \in {0, 1}, NEW t \in Int,
         NEW a \in Int, a = r + Bit[k] * (b + 2 * t)
  PROVE  BitOf(a, k) = b
<1>1. Bit[k] \in Nat \ {0}
  BY Places
<1> QED
  BY <1>1, DigitIs DEF BitOf

\* A number none of whose bits is greater is not greater.
LEMMA BitwiseAtMost ==
  ASSUME NEW a \in UInt, NEW b \in UInt, \A k \in Place : BitOf(a, k) <= BitOf(b, k)
  PROVE  a <= b
<1>0. a \in Nat /\ b \in Nat /\ a < IntMod /\ b < IntMod /\ IntMod \in Nat \ {0}
  BY Places DEF UInt
<1> DEFINE S == {n \in Nat : n <= IntBits => a % Bit[n] <= b % Bit[n]}
<1>1. 0 \in S
  <2>1. a % 1 = 0 /\ b % 1 = 0
    BY <1>0
  <2> QED
    BY <2>1, Places
<1>2. ASSUME NEW n \in Nat, n \in S PROVE n + 1 \in S
  <2> SUFFICES ASSUME n + 1 <= IntBits PROVE a % Bit[n + 1] <= b % Bit[n + 1]
    OBVIOUS
  <2>1. n \in Place /\ n <= IntBits
    BY BitsAssumption DEF Place
  <2>2. a % Bit[n] <= b % Bit[n]
    BY <1>2, <2>1
  <2> DEFINE m == Bit[n]  x == BitOf(a, n)  y == BitOf(b, n)
  <2>3. m \in Nat \ {0} /\ a % m \in Int /\ b % m \in Int
    <3>1. m \in Nat \ {0}
      BY <2>1, Places
    <3> HIDE DEF m
    <3> QED
      BY <1>0, <3>1, DivMod
  <2>4. /\ x \in {0, 1} /\ a % Bit[n + 1] = (a % m) + m * x
        /\ y \in {0, 1} /\ b % Bit[n + 1] = (b % m) + m * y
    BY <1>0, <2>1, BitOfSplit
  <2>5. x <= y
    BY <2>1
  <2> HIDE DEF m, x, y
  <2>6. m * x <= m * y /\ m * x \in Int /\ m * y \in Int
    BY <2>3, <2>4, <2>5
  <2>7. a % m <= b % m
    BY <2>2 DEF m
  <2> QED
    BY <2>3, <2>4, <2>6, <2>7
<1> HIDE DEF S
<1>3. IntBits \in S
  BY <1>1, <1>2, AllNumbers, BitsAssumption
<1>4. a % IntMod <= b % IntMod
  BY <1>3, BitsAssumption DEF S, IntMod
<1>5. ASSUME NEW c \in Nat, c < IntMod PROVE c % IntMod = c
  BY <1>0, <1>5
<1> QED
  BY <1>0, <1>4, <1>5

\* Numbers with the same bits are equal.
LEMMA SameBits ==
  ASSUME NEW a \in UInt, NEW b \in UInt, \A k \in Place : BitOf(a, k) = BitOf(b, k)
  PROVE  a = b
<1>1. a \in Nat /\ b \in Nat
  BY Places DEF UInt
<1>2. \A k \in Place : BitOf(a, k) \in Int /\ BitOf(b, k) \in Int
  BY <1>1, BitOfSplit
<1>3. \A k \in Place : BitOf(a, k) <= BitOf(b, k) /\ BitOf(b, k) <= BitOf(a, k)
  BY <1>2
<1>4. a <= b /\ b <= a
  BY <1>3, BitwiseAtMost
<1> QED
  BY <1>1, <1>4

\* The sums Value is the last of.
LEMMA ValueSums ==
  ASSUME NEW c \in [Place -> {0, 1}]
  PROVE  \E s : /\ s[0] = 0 /\ \A k \in Place : s[k + 1] = s[k] + Bit[k] * c[k]
                /\ Value(c) = s[IntBits]
<1> DEFINE sums(n, s) == [k \in 0 .. n |-> IF k = 0 THEN 0 ELSE s[k - 1] + Bit[k - 1] * c[k - 1]]
<1> DEFINE S == {n \in Nat : \E g : g = sums(n, g)}
<1>1. 0 \in S
  <2> DEFINE g == [k \in 0 .. 0 |-> 0]
  <2>1. g = sums(0, g)
    OBVIOUS
  <2> QED
    BY <2>1
<1>2. ASSUME NEW n \in Nat, n \in S PROVE n + 1 \in S
  <2>1. PICK g : g = sums(n, g)
    BY <1>2
  <2> DEFINE h == [k \in 0 .. n + 1 |-> IF k = n + 1 THEN g[n] + Bit[n] * c[n] ELSE g[k]]
  <2>2. ASSUME NEW k \in 0 .. n + 1 PROVE h[k] = sums(n + 1, h)[k]
    <3>1. CASE k = n + 1
      <4>1. h[k - 1] = g[n] /\ k - 1 = n /\ k # 0
        BY <3>1
      <4> QED
        BY <3>1, <4>1
    <3>2. CASE k # n + 1
      <4>1. k \in 0 .. n /\ (k # 0 => k - 1 \in 0 .. n)
        BY <3>2
      <4>2. g[k] = IF k = 0 THEN 0 ELSE g[k - 1] + Bit[k - 1] * c[k - 1]
        BY <2>1, <4>1
      <4>3. k # 0 => h[k - 1] = g[k - 1]
        BY <3>2, <4>1
      <4> QED
        BY <3>2, <4>1, <4>2, <4>3
    <3> QED
      BY <3>1, <3>2
  <2>3. h = sums(n + 1, h)
    BY <2>2
  <2>4. \E f : f = sums(n + 1, f)
    <3> WITNESS h
    <3> QED
      BY <2>3
  <2>5. n + 1 \in Nat
    OBVIOUS
  <2> QED
    BY <2>4, <2>5, Zenon
<1> HIDE DEF S
<1>3. \A n \in Nat : n \in S
  BY <1>1, <1>2, AllNumbers
<1>4. \E g : g = sums(IntBits, g)
  <2>1. IntBits \in S
    BY <1>3, BitsAssumption
  <2> QED
    BY <2>1 DEF S
<1> DEFINE s == CHOOSE g : g = sums(IntBits, g)
<1>5. s = sums(IntBits, s)
  BY <1>4
<1>6. Value(c) = s[IntBits]
  BY DEF Value
<1> HIDE DEF s
<1>7. \A f : f = sums(IntBits, f) =>
        \A k \in 0 .. IntBits : f[k] = IF k = 0 THEN 0 ELSE f[k - 1] + Bit[k - 1] * c[k - 1]
  OBVIOUS
<1>8. \A k \in 0 .. IntBits : s[k] = IF k = 0 THEN 0 ELSE s[k - 1] + Bit[k - 1] * c[k - 1]
  BY <1>5, <1>7
<1>9. s[0] = 0
  BY <1>8, BitsAssumption
<1>10. ASSUME NEW k \in Place PROVE s[k + 1] = s[k] + Bit[k] * c[k]
  <2>1. k + 1 \in 0 .. IntBits /\ k + 1 # 0 /\ (k + 1) - 1 = k
    BY BitsAssumption DEF Place
  <2> QED
    BY <1>8, <2>1
<1> QED
  BY <1>6, <1>9, <1>10

\* Value gives the number that has these bits.
LEMMA ValueBits ==
  ASSUME NEW c \in [Place -> {0, 1}]
  PROVE  Value(c) \in UInt /\ \A k \in Place : BitOf(Value(c), k) = c[k]
<1>1. PICK s : /\ s[0] = 0 /\ \A k \in Place : s[k + 1] = s[k] + Bit[k] * c[k]
               /\ Value(c) = s[IntBits]
  BY ValueSums
<1>2. \A k \in Place : c[k] \in {0, 1}
  OBVIOUS
<1>3. \A n \in Nat : n <= IntBits => s[n] \in 0 .. Bit[n] - 1
  <2> DEFINE S == {n \in Nat : n <= IntBits => s[n] \in 0 .. Bit[n] - 1}
  <2>1. 0 \in S
    BY <1>1, Places
  <2>2. ASSUME NEW n \in Nat, n \in S PROVE n + 1 \in S
    <3> SUFFICES ASSUME n + 1 <= IntBits PROVE s[n + 1] \in 0 .. Bit[n + 1] - 1
      OBVIOUS
    <3>1. n \in Place /\ n <= IntBits
      BY BitsAssumption DEF Place
    <3>2. s[n] \in 0 .. Bit[n] - 1 /\ s[n + 1] = s[n] + Bit[n] * c[n] /\ c[n] \in {0, 1}
          /\ Bit[n] \in Nat \ {0} /\ Bit[n + 1] = 2 * Bit[n]
      BY <1>1, <1>2, <2>2, <3>1, Places
    <3>3. CASE c[n] = 0
      BY <3>2, <3>3
    <3>4. CASE c[n] = 1
      BY <3>2, <3>4
    <3> QED
      BY <3>2, <3>3, <3>4
  <2> HIDE DEF S
  <2>3. \A n \in Nat : n \in S
    BY <2>1, <2>2, AllNumbers
  <2> QED
    BY <2>3 DEF S
<1>4. s[IntBits] \in UInt
  <2>1. s[IntBits] \in 0 .. Bit[IntBits] - 1
    BY <1>3, BitsAssumption
  <2> QED
    BY <2>1 DEF UInt, IntMod
<1>5. ASSUME NEW k \in Place PROVE BitOf(s[IntBits], k) = c[k]
  <2> DEFINE n == Bit[k]
             S == {m \in Nat : k + 1 + m <= IntBits =>
                      \E t \in Nat : s[k + 1 + m] = s[k] + n * (c[k] + 2 * t)}
  <2>0. n \in Nat \ {0} /\ k \in Nat /\ k + 1 \in Nat /\ k + 1 <= IntBits /\ c[k] \in {0, 1}
        /\ s[k] \in 0 .. n - 1 /\ s[k + 1] = s[k] + n * c[k] /\ Bit[k + 1] = 2 * n
    <3>1. k \in Nat /\ k <= IntBits /\ k + 1 <= IntBits
      BY BitsAssumption DEF Place
    <3> QED
      BY <1>1, <1>2, <1>3, <3>1, Places
  <2> HIDE DEF n
  <2>1. 0 \in S
    <3>1. c[k] = c[k] + 2 * 0 /\ k + 1 + 0 = k + 1
      BY <2>0
    <3> QED
      BY <2>0, <3>1
  <2>2. ASSUME NEW m \in Nat, m \in S PROVE m + 1 \in S
    <3> SUFFICES ASSUME k + 1 + (m + 1) <= IntBits
                 PROVE  \E t \in Nat : s[k + 1 + (m + 1)] = s[k] + n * (c[k] + 2 * t)
      OBVIOUS
    <3> DEFINE j == k + 1 + m
    <3>1. j \in Place /\ j <= IntBits /\ k + 1 + (m + 1) = j + 1
      BY <2>0, BitsAssumption DEF Place
    <3>2. PICK t \in Nat : s[j] = s[k] + n * (c[k] + 2 * t)
      BY <2>2, <3>1
    <3>3. s[j + 1] = s[j] + Bit[j] * c[j] /\ c[j] \in {0, 1}
      BY <1>1, <1>2, <3>1
    <3>4. Bit[j] = (2 * n) * Bit[m] /\ Bit[m] \in Nat
      <4>1. k + 1 \in Nat /\ (k + 1) + m <= IntBits /\ m \in 0 .. IntBits
        BY <2>0, BitsAssumption
      <4> QED
        BY <2>0, <4>1, BitProduct, BitPositive
    <3> DEFINE x == Bit[m]  y == c[j]  z == c[k]
    <3>5. s[j] + ((2 * n) * x) * y = s[k] + n * (z + 2 * (t + x * y)) /\ t + x * y \in Nat
      <4>1. x \in Nat /\ y \in {0, 1} /\ z \in {0, 1} /\ n \in Nat /\ s[k] \in Int
            /\ s[j] = s[k] + n * (z + 2 * t)
        BY <2>0, <3>2, <3>3, <3>4
      <4> HIDE DEF x, y, z, j
      <4>2. CASE y = 0
        BY <4>1, <4>2
      <4>3. CASE y = 1
        <5>1. n * (z + 2 * (t + x)) = n * (z + 2 * t) + (2 * n) * x
          BY <4>1
        <5>2. n * (z + 2 * t) \in Int /\ (2 * n) * x \in Int
          BY <4>1
        <5> QED
          BY <4>1, <4>3, <5>1, <5>2
      <4> QED
        BY <4>1, <4>2, <4>3
    <3> QED
      BY <3>1, <3>3, <3>4, <3>5
  <2> HIDE DEF S
  <2>3. \A m \in Nat : m \in S
    BY <2>1, <2>2, AllNumbers
  <2>4. PICK t \in Nat : s[IntBits] = s[k] + n * (c[k] + 2 * t)
    <3>1. IntBits - (k + 1) \in Nat /\ k + 1 + (IntBits - (k + 1)) = IntBits
      BY <2>0, BitsAssumption
    <3>2. IntBits - (k + 1) \in S
      BY <2>3, <3>1
    <3>3. \E t \in Nat : s[k + 1 + (IntBits - (k + 1))] = s[k] + n * (c[k] + 2 * t)
      BY <3>1, <3>2, BitsAssumption DEF S
    <3> QED
      BY <3>1, <3>3
  <2>5. s[IntBits] \in Int /\ t \in Int
    BY <1>4, Places DEF UInt
  <2> QED
    BY <2>0, <2>4, <2>5, BitOfSum DEF n
<1> QED
  BY <1>1, <1>4, <1>5

\* The bits of a conjunction.
LEMMA AndBits ==
  ASSUME NEW a \in Nat, NEW b \in Nat
  PROVE  /\ And(a, b) \in UInt
         /\ \A k \in Place : BitOf(And(a, b), k) = BitOf(a, k) * BitOf(b, k)
<1> DEFINE c == [k \in Place |-> BitOf(a, k) * BitOf(b, k)]
<1>1. ASSUME NEW k \in Place PROVE BitOf(a, k) * BitOf(b, k) \in {0, 1}
  BY BitOfSplit
<1>2. c \in [Place -> {0, 1}] /\ And(a, b) = Value(c)
  BY <1>1 DEF And, Place
<1>3. \A k \in Place : c[k] = BitOf(a, k) * BitOf(b, k)
  OBVIOUS
<1> HIDE DEF c
<1> QED
  BY <1>2, <1>3, ValueBits

\* The bits of a disjunction.
LEMMA OrBits ==
  ASSUME NEW a \in Nat, NEW b \in Nat
  PROVE  /\ Or(a, b) \in UInt
         /\ \A k \in Place : BitOf(Or(a, b), k) = IF BitOf(a, k) = 1 \/ BitOf(b, k) = 1 THEN 1 ELSE 0
<1> DEFINE c == [k \in Place |-> IF BitOf(a, k) = 1 \/ BitOf(b, k) = 1 THEN 1 ELSE 0]
<1>1. c \in [Place -> {0, 1}] /\ Or(a, b) = Value(c)
  BY DEF Or, Place
<1>2. \A k \in Place : c[k] = IF BitOf(a, k) = 1 \/ BitOf(b, k) = 1 THEN 1 ELSE 0
  OBVIOUS
<1> HIDE DEF c
<1> QED
  BY <1>1, <1>2, ValueBits

\* The bits of the remainder by Bit[m] are those below m.
LEMMA BitOfRemainder ==
  ASSUME NEW a \in Nat, NEW m \in 0 .. IntBits, NEW k \in Place
  PROVE  BitOf(a % Bit[m], k) = IF k < m THEN BitOf(a, k) ELSE 0
<1> DEFINE n == Bit[k]  l == Bit[m]  q == a \div l  r == a % l
<1>0. n \in Nat \ {0} /\ l \in Nat \ {0} /\ k \in Nat /\ m \in Nat
  <2>1. k \in Nat /\ m \in Nat
    BY Places, BitsAssumption
  <2> QED
    BY <2>1, Places, BitPositive
<1>1. q \in Int /\ r \in 0 .. l - 1 /\ a = l * q + r
  <2> HIDE DEF l
  <2> QED
    BY <1>0, DivMod
<1> HIDE DEF q
<1>2. CASE k < m
  <2> DEFINE h == Bit[m - (k + 1)]  p == r \div n  s == r % n  b == p % 2  t == p \div 2
  <2>1. l = (2 * n) * h /\ h \in Nat \ {0}
    <3>1. k + 1 \in Nat /\ m - (k + 1) \in 0 .. IntBits /\ m - (k + 1) \in Nat
          /\ (k + 1) + (m - (k + 1)) = m /\ (k + 1) + (m - (k + 1)) <= IntBits
      BY <1>0, <1>2, BitsAssumption
    <3>2. Bit[(k + 1) + (m - (k + 1))] = Bit[k + 1] * h
      BY <3>1, BitProduct
    <3>3. Bit[k + 1] = 2 * n /\ h \in Nat \ {0}
      BY <3>1, BitPositive, Places
    <3> QED
      BY <3>1, <3>2, <3>3
  <2>2. BitOf(a, k) = (a \div n) % 2 /\ BitOf(a % Bit[m], k) = b
    BY DEF BitOf
  <2> HIDE DEF h, n, l
  <2>3. p \in Int /\ s \in 0 .. n - 1 /\ r = n * p + s
    <3>1. r \in Int
      BY <1>0, <1>1
    <3> HIDE DEF r
    <3> QED
      BY <1>0, <3>1, DivMod
  <2> HIDE DEF p, s, r
  <2>4. b \in {0, 1} /\ t \in Int /\ p = 2 * t + b
    BY <2>3
  <2> HIDE DEF b, t
  <2>5. a = s + n * (b + 2 * (t + h * q)) /\ t + h * q \in Int
    <3>1. ((2 * n) * h) * q = n * (2 * (h * q))
      BY <1>0, <1>1, <2>1
    <3>2. h * q \in Int
      BY <1>1, <2>1
    <3> DEFINE x == h * q
    <3>3. x \in Int /\ a = n * (2 * x) + (n * (2 * t + b) + s)
      BY <1>1, <2>1, <2>3, <2>4, <3>1, <3>2
    <3> HIDE DEF x
    <3>4. n * (2 * x) + n * (2 * t + b) = n * (b + 2 * (t + x))
      BY <1>0, <2>4, <3>3
    <3>5. n * (2 * x) \in Int /\ n * (2 * t + b) \in Int /\ n * (b + 2 * (t + x)) \in Int
      BY <1>0, <2>4, <3>3
    <3>6. a = s + n * (b + 2 * (t + x)) /\ t + x \in Int
      BY <2>3, <2>4, <3>3, <3>4, <3>5
    <3> QED
      BY <3>6 DEF x
  <2>6. (a \div n) % 2 = b
    <3> DEFINE y == t + h * q
    <3>1. y \in Int /\ a = s + n * (b + 2 * y)
      BY <2>5
    <3> HIDE DEF y
    <3> QED
      BY <1>0, <2>3, <2>4, <3>1, DigitIs
  <2> QED
    BY <1>2, <2>2, <2>6
<1>3. CASE ~(k < m)
  <2>1. l <= n
    <3>1. m <= k /\ k <= IntBits
      BY <1>0, <1>3, Places, BitsAssumption
    <3> QED
      BY <1>0, <3>1, BitGrows
  <2>2. BitOf(a % Bit[m], k) = (r \div n) % 2
    BY DEF BitOf
  <2> HIDE DEF n, l, r
  <2>3. r \in 0 .. n - 1 /\ r = n * 0 + r /\ r \in Int
    BY <1>0, <1>1, <2>1
  <2>4. r \div n = 0
    BY <1>0, <2>3, DivIs
  <2> QED
    BY <1>3, <2>2, <2>4
<1> QED
  BY <1>2, <1>3

\* All the bits below m.
LEMMA BitOfMask ==
  ASSUME NEW m \in 0 .. IntBits
  PROVE  /\ Bit[m] - 1 \in UInt
         /\ \A k \in Place : BitOf(Bit[m] - 1, k) = IF k < m THEN 1 ELSE 0
<1>0. m \in Nat /\ Bit[m] \in Nat \ {0} /\ m <= IntBits
  BY BitPositive, BitsAssumption
<1>1. Bit[m] - 1 \in UInt
  <2>1. Bit[m] <= Bit[IntBits] /\ Bit[IntBits] \in Nat
    BY <1>0, BitGrows, Places, BitsAssumption
  <2> QED
    BY <1>0, <2>1 DEF UInt, IntMod
<1>2. ASSUME NEW k \in Place PROVE BitOf(Bit[m] - 1, k) = IF k < m THEN 1 ELSE 0
  <2> DEFINE n == Bit[k]  l == Bit[m]
  <2>0. n \in Nat \ {0} /\ k \in Nat /\ k <= IntBits
    BY Places, BitsAssumption
  <2>1. CASE k < m
    <3> DEFINE h == Bit[m - (k + 1)]
    <3>1. l = (2 * n) * h /\ h \in Nat \ {0}
      <4>1. k + 1 \in Nat /\ m - (k + 1) \in 0 .. IntBits /\ m - (k + 1) \in Nat
            /\ (k + 1) + (m - (k + 1)) = m /\ (k + 1) + (m - (k + 1)) <= IntBits
        BY <1>0, <2>0, <2>1, BitsAssumption
      <4>2. Bit[(k + 1) + (m - (k + 1))] = Bit[k + 1] * h
        BY <4>1, BitProduct
      <4>3. Bit[k + 1] = 2 * n /\ h \in Nat \ {0}
        BY <4>1, BitPositive, Places
      <4> QED
        BY <4>1, <4>2, <4>3
    <3>2. BitOf(Bit[m] - 1, k) = ((l - 1) \div n) % 2
      BY DEF BitOf
    <3> HIDE DEF n, h, l
    <3>3. l - 1 = (n - 1) + n * (1 + 2 * (h - 1)) /\ l - 1 \in Int /\ h - 1 \in Int
          /\ n - 1 \in 0 .. n - 1
      <4>1. (2 * n) * h = n + n * (1 + 2 * (h - 1))
        BY <2>0, <3>1
      <4>2. n * (1 + 2 * (h - 1)) \in Int
        BY <2>0, <3>1
      <4> QED
        BY <2>0, <3>1, <4>1, <4>2
    <3>4. ((l - 1) \div n) % 2 = 1
      <4> DEFINE x == l - 1  y == h - 1  z == n - 1
      <4>1. x \in Int /\ y \in Int /\ z \in 0 .. n - 1 /\ x = z + n * (1 + 2 * y)
        BY <3>3
      <4> HIDE DEF x, y, z
      <4>2. (x \div n) % 2 = 1
        BY <2>0, <4>1, DigitIs
      <4> QED
        BY <4>2 DEF x
    <3> QED
      BY <2>1, <3>2, <3>4
  <2>2. CASE ~(k < m)
    <3>1. l <= n /\ l \in Nat \ {0}
      BY <1>0, <2>0, <2>2, BitGrows
    <3>2. BitOf(Bit[m] - 1, k) = ((l - 1) \div n) % 2
      BY DEF BitOf
    <3> HIDE DEF n, l
    <3> DEFINE x == l - 1
    <3>3. x \in 0 .. n - 1 /\ x = n * 0 + x /\ x \in Int
      BY <2>0, <3>1
    <3> HIDE DEF x
    <3>4. x \div n = 0
      BY <2>0, <3>3, DivIs
    <3> QED
      BY <2>2, <3>2, <3>4 DEF x
  <2> QED
    BY <2>1, <2>2
<1> QED
  BY <1>1, <1>2

\* Masking with a power of two less one is taking the remainder by it.
LEMMA AndMask ==
  ASSUME NEW a \in Nat, NEW m \in 0 .. IntBits
  PROVE  And(a, Bit[m] - 1) = a % Bit[m]
<1>1. Bit[m] \in Nat \ {0} /\ Bit[m] - 1 \in UInt /\ Bit[m] - 1 \in Nat /\ Bit[m] <= IntMod
  BY BitPositive, BitOfMask, Places DEF UInt
<1>2. And(a, Bit[m] - 1) \in UInt
  BY <1>1, AndBits
<1>3. a % Bit[m] \in UInt
  <2> DEFINE l == Bit[m]
  <2> HIDE DEF l
  <2>1. l \in Nat \ {0} => a % l \in 0 .. l - 1
    BY DivMod
  <2>2. a % Bit[m] \in 0 .. Bit[m] - 1
    BY <1>1, <2>1 DEF l
  <2> QED
    BY <1>1, <2>2, Places DEF UInt
<1>4. ASSUME NEW k \in Place PROVE BitOf(And(a, Bit[m] - 1), k) = BitOf(a % Bit[m], k)
  <2>1. BitOf(And(a, Bit[m] - 1), k) = BitOf(a, k) * BitOf(Bit[m] - 1, k)
    BY <1>1, AndBits
  <2>2. BitOf(a, k) \in {0, 1} /\ BitOf(Bit[m] - 1, k) = IF k < m THEN 1 ELSE 0
    BY BitOfSplit, BitOfMask
  <2>3. BitOf(a % Bit[m], k) = IF k < m THEN BitOf(a, k) ELSE 0
    BY BitOfRemainder
  <2> QED
    BY <2>1, <2>2, <2>3
<1> QED
  BY <1>2, <1>3, <1>4, SameBits

-----------------------------------------------------------------------------
(* Rounding up.                                                            *)

\* A quotient divided again is the quotient by the product.
LEMMA DivOfDiv ==
  ASSUME NEW n \in Nat \ {0}, NEW l \in Nat \ {0}, NEW a \in Nat
  PROVE  (a \div n) \div l = a \div (n * l)
<1> DEFINE q == a \div n  r == a % n  p == q \div l  s == q % l  m == n * l
<1>1. q \in Int /\ r \in 0 .. n - 1 /\ a = n * q + r
  BY DivMod
<1> HIDE DEF q, r
<1>2. p \in Int /\ s \in 0 .. l - 1 /\ q = l * p + s
  BY <1>1, DivMod
<1> HIDE DEF p, s
<1>3. m \in Nat \ {0}
  BY MulAtLeast
<1>4. n * s + r \in 0 .. m - 1
  <2>1. s \in Nat /\ s + 1 \in Nat /\ s + 1 <= l
    BY <1>2
  <2>2. s * n \in Nat /\ (s + 1) * n <= l * n
    BY <2>1, MulKeepsOrder
  <2>3. n * s + n = (s + 1) * n /\ l * n = m /\ n * s = s * n
    BY <2>1
  <2> QED
    BY <1>1, <1>3, <2>2, <2>3
<1>5. a = m * p + (n * s + r)
  <2>1. n * (l * p + s) = (n * l) * p + n * s
    BY <1>2
  <2>2. (n * l) * p \in Int /\ n * s \in Int
    BY <1>2
  <2> QED
    BY <1>1, <1>2, <2>1, <2>2
<1> DEFINE z == n * s + r
<1> HIDE DEF m, z
<1>6. a \div m = p
  <2>1. z \in 0 .. m - 1 /\ a = m * p + z
    BY <1>4, <1>5 DEF z
  <2> QED
    BY <1>2, <1>3, <2>1, DivIs
<1> QED
  BY <1>6 DEF m, p, q

\* A number below n has quotient 0.
LEMMA DivOfSmall ==
  ASSUME NEW n \in Nat \ {0}, NEW a \in 0 .. n - 1
  PROVE  a \div n = 0
<1>1. a = n * 0 + a /\ a \in Int
  OBVIOUS
<1> QED
  BY <1>1, DivIs

\* A shift to the right moves the bits down.
LEMMA ShiftBits ==
  ASSUME NEW v \in UInt, NEW j \in Nat, j <= IntBits
  PROVE  /\ v \div Bit[j] \in Nat
         /\ \A k \in Place : BitOf(v \div Bit[j], k) = IF k + j < IntBits THEN BitOf(v, k + j) ELSE 0
<1> DEFINE n == Bit[j]
<1>1. n \in Nat \ {0} /\ v \in Nat /\ v < IntMod
  <2>1. j \in 0 .. IntBits
    BY BitsAssumption
  <2> QED
    BY <2>1, BitPositive, Places DEF UInt
<1>2. v \div n \in Nat
  <2> HIDE DEF n
  <2> QED
    BY <1>1
<1>3. ASSUME NEW k \in Place, k + j < IntBits PROVE BitOf(v \div n, k) = BitOf(v, k + j)
  <2>1. k \in Nat /\ Bit[k] \in Nat \ {0} /\ j + k <= IntBits /\ k + j = j + k
    BY <1>3, Places, BitsAssumption
  <2>2. Bit[k + j] = n * Bit[k]
    BY <2>1, BitProduct
  <2> DEFINE l == Bit[k]
  <2>3. BitOf(v \div n, k) = ((v \div n) \div l) % 2 /\ BitOf(v, k + j) = (v \div (n * l)) % 2
    BY <2>2 DEF BitOf
  <2>4. l \in Nat \ {0}
    BY <2>1
  <2> HIDE DEF n, l
  <2> QED
    BY <1>1, <2>3, <2>4, DivOfDiv
<1>4. ASSUME NEW k \in Place, ~(k + j < IntBits) PROVE BitOf(v \div n, k) = 0
  <2> DEFINE l == Bit[k]  q == v \div n  r == v % n
  <2>1. k \in Nat /\ l \in Nat \ {0} /\ IntBits - k \in Nat /\ IntBits - k <= j
        /\ (IntBits - k) + k = IntBits
    BY <1>4, Places, BitsAssumption
  <2> DEFINE i == Bit[IntBits - k]
  <2>2. IntMod = i * l /\ i <= n /\ i \in Nat
    <3>1. Bit[(IntBits - k) + k] = i * l
      BY <2>1, BitProduct, BitsAssumption
    <3>2. i <= n
      BY <2>1, BitGrows
    <3>3. IntBits - k \in 0 .. IntBits
      BY <2>1, BitsAssumption
    <3>4. i \in Nat
      BY <3>3, BitPositive
    <3> QED
      BY <2>1, <3>1, <3>2, <3>4, Places
  <2>3. BitOf(v \div n, k) = (q \div l) % 2
    BY DEF BitOf
  <2> HIDE DEF n, l, i
  <2>4. q \in Nat /\ r \in 0 .. n - 1 /\ v = n * q + r
    <3>1. v \in Int
      BY <1>1
    <3>2. q \in Int /\ r \in 0 .. n - 1 /\ v = n * q + r
      BY <1>1, <3>1, DivMod
    <3>3. q \in Nat
      BY <1>2
    <3> QED
      BY <3>2, <3>3
  <2> HIDE DEF q, r
  <2>5. q < l
    <3>1. SUFFICES ASSUME l <= q PROVE FALSE
      BY <2>1, <2>4
    <3>2. l * n <= q * n
      BY <1>1, <2>1, <2>4, <3>1, MulKeepsOrder
    <3>3. i * l <= n * l
      BY <1>1, <2>1, <2>2, MulKeepsOrder
    <3>4. n * q = q * n /\ n * l = l * n /\ n * q \in Int /\ n * l \in Int
      BY <1>1, <2>1, <2>4
    <3> QED
      BY <1>1, <2>2, <2>4, <3>2, <3>3, <3>4
  <2>6. q \div l = 0
    BY <2>1, <2>4, <2>5, DivOfSmall
  <2> QED
    BY <2>3, <2>6
<1> QED
  BY <1>2, <1>3, <1>4

\* The top bit of v is m, and it and the w - 1 bits below it are set.
TopRun(v, m, w) ==
  /\ v \in UInt /\ m \in Place
  /\ \A k \in Place : /\ k > m => BitOf(v, k) = 0
                      /\ k <= m /\ m - w < k => BitOf(v, k) = 1

\* Smearing doubles the run of ones at the top.
LEMMA SmearRun ==
  ASSUME NEW v, NEW m, NEW w \in 1 .. 16, TopRun(v, m, w)
  PROVE  TopRun(Smear(v, w), m, 2 * w)
<1>1. v \in UInt /\ m \in Place /\ v \in Nat /\ m \in Nat /\ w \in Nat /\ w <= IntBits
  <2>1. v \in UInt /\ m \in Place
    BY DEF TopRun
  <2> QED
    BY <2>1, Places, BitsAssumption DEF UInt
<1> DEFINE u == v \div Bit[w]
<1>2. /\ u \in Nat
      /\ \A k \in Place : BitOf(u, k) = IF k + w < IntBits THEN BitOf(v, k + w) ELSE 0
  BY <1>1, ShiftBits
<1>3. Smear(v, w) = Or(v, u)
  BY DEF Smear
<1> HIDE DEF u
<1>4. /\ Or(v, u) \in UInt
      /\ \A k \in Place : BitOf(Or(v, u), k) = IF BitOf(v, k) = 1 \/ BitOf(u, k) = 1 THEN 1 ELSE 0
  BY <1>1, <1>2, OrBits
<1>5. ASSUME NEW k \in Place, k > m PROVE BitOf(Or(v, u), k) = 0
  <2>1. k \in Nat /\ (k + w < IntBits => k + w \in Place /\ k + w > m)
    BY <1>1, <1>5, Places, BitsAssumption DEF Place
  <2>2. BitOf(v, k) = 0 /\ (k + w < IntBits => BitOf(v, k + w) = 0)
    BY <1>5, <2>1 DEF TopRun
  <2>3. BitOf(u, k) = 0
    BY <1>2, <2>2
  <2> QED
    BY <1>4, <2>2, <2>3
<1>6. ASSUME NEW k \in Place, k <= m, m - 2 * w < k PROVE BitOf(Or(v, u), k) = 1
  <2>1. k \in Nat
    BY Places
  <2>2. CASE m - w < k
    <3>1. BitOf(v, k) = 1
      BY <1>6, <2>2 DEF TopRun
    <3> QED
      BY <1>4, <3>1
  <2>3. CASE ~(m - w < k)
    <3>1. k + w \in Place /\ k + w <= m /\ m - w < k + w /\ k + w < IntBits
      BY <1>1, <1>6, <2>1, <2>3, BitsAssumption DEF Place
    <3>2. BitOf(u, k) = 1
      BY <1>2, <3>1 DEF TopRun
    <3> QED
      BY <1>4, <3>2
  <2> QED
    BY <2>2, <2>3
<1> QED
  BY <1>1, <1>3, <1>4, <1>5, <1>6 DEF TopRun

\* Every number but 0 has a top bit.
LEMMA TopBit ==
  ASSUME NEW v \in UInt, v # 0
  PROVE  \E m \in Place : TopRun(v, m, 1) /\ Bit[m] <= v /\ v < Bit[m + 1]
<1>0. v \in Nat /\ v < Bit[IntBits]
  BY Places DEF UInt
<1> DEFINE S == {n \in Nat : n <= IntBits /\ v < Bit[n] => \E m \in Place : Bit[m] <= v /\ v < Bit[m + 1]}
<1>1. 0 \in S
  BY <1>0, Places
<1>2. ASSUME NEW n \in Nat, n \in S PROVE n + 1 \in S
  <2> SUFFICES ASSUME n + 1 <= IntBits, v < Bit[n + 1]
               PROVE  \E m \in Place : Bit[m] <= v /\ v < Bit[m + 1]
    OBVIOUS
  <2>1. n \in Place /\ n <= IntBits
    BY BitsAssumption DEF Place
  <2>2. CASE v < Bit[n]
    BY <1>2, <2>1, <2>2
  <2>3. CASE ~(v < Bit[n])
    <3>1. Bit[n] <= v
      BY <1>0, <2>1, <2>3, Places
    <3> QED
      BY <2>1, <3>1
  <2> QED
    BY <2>2, <2>3
<1> HIDE DEF S
<1>3. IntBits \in S
  BY <1>1, <1>2, AllNumbers, BitsAssumption
<1>4. PICK m \in Place : Bit[m] <= v /\ v < Bit[m + 1]
  BY <1>0, <1>3, BitsAssumption DEF S
<1>5. m \in Nat /\ m + 1 <= IntBits /\ Bit[m] \in Nat \ {0} /\ Bit[m + 1] = 2 * Bit[m]
  BY Places, BitsAssumption
<1>6. ASSUME NEW k \in Place, k > m PROVE BitOf(v, k) = 0
  <2>1. m + 1 \in Nat /\ k \in Nat /\ m + 1 <= k /\ k <= IntBits /\ Bit[k] \in Nat \ {0}
    <3>1. k \in Nat /\ k \in 0 .. IntBits /\ Bit[k] \in Nat \ {0}
      BY Places
    <3> QED
      BY <1>5, <1>6, <3>1, BitsAssumption
  <2>2. Bit[m + 1] <= Bit[k]
    BY <2>1, BitGrows
  <2>3. v \in 0 .. Bit[k] - 1
    BY <1>0, <1>4, <1>5, <2>1, <2>2
  <2>4. v \div Bit[k] = 0
    BY <2>1, <2>3, DivOfSmall
  <2> QED
    BY <2>4 DEF BitOf
<1>7. BitOf(v, m) = 1
  <2> DEFINE n == Bit[m]  r == v - Bit[m]
  <2>1. n \in Nat \ {0} /\ r \in 0 .. n - 1 /\ v = n * 1 + r
    BY <1>0, <1>4, <1>5
  <2> HIDE DEF n, r
  <2>2. v \div n = 1
    BY <1>0, <2>1, DivIs
  <2> QED
    BY <2>2 DEF BitOf, n
<1>8. \A k \in Place : k <= m /\ m - 1 < k => k = m
  BY <1>5, Places
<1> QED
  BY <1>4, <1>6, <1>7, <1>8 DEF TopRun

\* A run over all the bits of v is the number before the next power of two.
LEMMA FullRun ==
  ASSUME NEW v, NEW m, NEW w \in Nat, TopRun(v, m, w), w >= IntBits
  PROVE  v = Bit[m + 1] - 1
<1>1. v \in UInt /\ m \in Place /\ m \in Nat /\ m + 1 \in 0 .. IntBits /\ m < IntBits
  <2>1. v \in UInt /\ m \in Place
    BY DEF TopRun
  <2> QED
    BY <2>1, Places, BitsAssumption
<1>2. /\ Bit[m + 1] - 1 \in UInt
      /\ \A k \in Place : BitOf(Bit[m + 1] - 1, k) = IF k < m + 1 THEN 1 ELSE 0
  BY <1>1, BitOfMask
<1>3. ASSUME NEW k \in Place PROVE BitOf(v, k) = BitOf(Bit[m + 1] - 1, k)
  <2>1. k \in Nat /\ m - w < k
    BY <1>1, Places, BitsAssumption
  <2>2. BitOf(v, k) = IF k <= m THEN 1 ELSE 0
    BY <1>1, <2>1 DEF TopRun
  <2> QED
    BY <1>1, <1>2, <2>1, <2>2
<1> QED
  BY <1>1, <1>2, <1>3, SameBits

\* Zero stays zero.
LEMMA SmearZero ==
  ASSUME NEW w \in 1 .. 16
  PROVE  Smear(0, w) = 0
<1>1. 0 \in UInt /\ 0 \in Nat /\ w \in Nat /\ w <= IntBits
  BY Places, BitsAssumption DEF UInt
<1>2. 0 \div Bit[w] = 0
  <2>1. Bit[w] \in Nat \ {0}
    BY <1>1, BitPositive, BitsAssumption
  <2> QED
    BY <2>1, DivOfSmall
<1>3. \A k \in Place : BitOf(0, k) = 0
  <2>1. ASSUME NEW k \in Place PROVE BitOf(0, k) = 0
    <3>1. Bit[k] \in Nat \ {0}
      BY Places
    <3>2. 0 \div Bit[k] = 0
      BY <3>1, DivOfSmall
    <3> QED
      BY <3>2 DEF BitOf
  <2> QED
    BY <2>1
<1>4. Or(0, 0) \in UInt /\ \A k \in Place : BitOf(Or(0, 0), k) = BitOf(0, k)
  BY <1>1, <1>3, OrBits
<1>5. Or(0, 0) = 0
  BY <1>1, <1>4, SameBits
<1> QED
  BY <1>2, <1>5 DEF Smear

\* The smallest of a set is the one below all others.
LEMMA MinIs ==
  ASSUME NEW S \in SUBSET Int, NEW x \in S, \A y \in S : x <= y
  PROVE  Min(S) = x
<1>1. Min(S) \in S /\ \A y \in S : Min(S) =< y
  BY Zenon DEF Min
<1> DEFINE c == Min(S)
<1>2. c \in S /\ c <= x /\ x <= c
  BY <1>1
<1> HIDE DEF c
<1>3. c = x
  BY <1>2
<1> QED
  BY <1>3 DEF c

\* What the lines v-- to v++ compute, for every unsigned number.
LEMMA RoundUpIsNextPower ==
  ASSUME NEW n \in UInt
  PROVE  RoundUpPower(n) = NextPower(n)
<1>0. n \in Nat /\ n < IntMod /\ IntMod \in Nat \ {0}
  BY Places DEF UInt
<1> DEFINE v == Unsigned(n - 1)
           f == Smear(Smear(Smear(Smear(Smear(v, 1), 2), 4), 8), 16)
           P == {k \in 0 .. IntBits - 1 : Bit[k] >= n}
<1>1. v \in UInt /\ v = IF n = 0 THEN IntMod - 1 ELSE n - 1
  <2>1. CASE n = 0
    <3>1. (-1) % IntMod = IntMod - 1
      BY <1>0
    <3> QED
      BY <1>0, <2>1, <3>1 DEF Unsigned, UInt
  <2>2. CASE n # 0
    <3>1. (n - 1) % IntMod = n - 1
      BY <1>0, <2>2
    <3> QED
      BY <1>0, <2>2, <3>1 DEF Unsigned, UInt
  <2> QED
    BY <2>1, <2>2
<1>2. RoundUpPower(n) = Unsigned(f + 1) /\ P \subseteq Place /\ P \subseteq Int
  BY DEF RoundUpPower, Place
<1>3. NextPower(n) = IF n = 0 \/ P = {} THEN 0 ELSE Bit[Min(P)]
  BY DEF NextPower
<1> HIDE DEF v
<1>4. CASE v = 0
  <2>1. f = 0
    BY <1>4, SmearZero
  <2>2. n = 1
    BY <1>0, <1>1, <1>4, Places
  <2>3. Unsigned(f + 1) = 1
    <3>1. 1 % IntMod = 1
      BY <1>0, <2>2
    <3> QED
      BY <2>1, <3>1 DEF Unsigned
  <2>4. 0 \in P /\ \A k \in P : 0 <= k
    BY <2>2, Places, BitsAssumption
  <2> HIDE DEF f, P
  <2>5. Min(P) = 0
    BY <1>2, <2>4, MinIs
  <2> QED
    BY <1>2, <1>3, <2>2, <2>3, <2>4, <2>5, Places
<1>5. CASE v # 0
  <2>1. PICK m \in Place : TopRun(v, m, 1) /\ Bit[m] <= v /\ v < Bit[m + 1]
    BY <1>1, <1>5, TopBit
  <2>2. TopRun(f, m, 32)
    <3>1. TopRun(Smear(v, 1), m, 2)
      BY <2>1, SmearRun
    <3>2. TopRun(Smear(Smear(v, 1), 2), m, 4)
      BY <3>1, SmearRun
    <3>3. TopRun(Smear(Smear(Smear(v, 1), 2), 4), m, 8)
      BY <3>2, SmearRun
    <3>4. TopRun(Smear(Smear(Smear(Smear(v, 1), 2), 4), 8), m, 16)
      BY <3>3, SmearRun
    <3> QED
      BY <3>4, SmearRun
  <2> HIDE DEF f
  <2>3. f = Bit[m + 1] - 1
    BY <2>2, FullRun, BitsAssumption
  <2>4. /\ m \in Nat /\ m + 1 \in 0 .. IntBits /\ m < IntBits
        /\ Bit[m] \in Nat \ {0} /\ Bit[m + 1] \in Nat \ {0}
    BY Places, BitsAssumption
  <2>5. RoundUpPower(n) = Bit[m + 1] % IntMod
    <3>1. f + 1 = Bit[m + 1]
      BY <2>3, <2>4
    <3> QED
      BY <1>2, <3>1 DEF Unsigned
  <2>6. CASE m + 1 = IntBits
    <3>1. IntMod % IntMod = 0
      BY <1>0
    <3>2. RoundUpPower(n) = 0
      BY <2>5, <2>6, <3>1, Places
    <3>3. n # 0 => P = {}
      <4> SUFFICES ASSUME n # 0, NEW k \in 0 .. IntBits - 1, Bit[k] >= n PROVE FALSE
        OBVIOUS
      <4>1. k \in Nat /\ k <= m /\ Bit[k] \in Nat /\ m <= IntBits
        BY <2>4, <2>6, Places, BitsAssumption DEF Place
      <4>2. Bit[k] <= Bit[m]
        BY <2>4, <4>1, BitGrows
      <4> QED
        BY <1>0, <1>1, <2>1, <2>4, <4>1, <4>2
    <3> QED
      BY <1>3, <3>2, <3>3
  <2>7. CASE m + 1 # IntBits
    <3>1. m + 1 \in Place /\ m + 1 \in Nat
      BY <2>4, <2>7, BitsAssumption DEF Place
    <3>2. Bit[m + 1] < IntMod
      <4>1. 2 * Bit[m + 1] <= Bit[IntBits]
        BY <2>4, <2>7, <3>1, BitGrows, BitsAssumption
      <4> QED
        BY <2>4, <4>1, Places
    <3>3. Bit[m + 1] % IntMod = Bit[m + 1]
      BY <1>0, <2>4, <3>2
    <3>4. n # 0
      <4> SUFFICES ASSUME n = 0 PROVE FALSE
        OBVIOUS
      <4>1. v = IntMod - 1
        BY <1>1
      <4> QED
        BY <1>0, <2>1, <2>4, <3>2, <4>1
    <3>5. m + 1 \in P
      BY <1>0, <1>1, <2>1, <2>4, <3>1, <3>4 DEF Place
    <3>6. ASSUME NEW k \in P PROVE m + 1 <= k
      <4>1. k \in Nat /\ k <= IntBits /\ Bit[k] \in Nat /\ Bit[k] >= n
        BY Places, BitsAssumption DEF Place
      <4>2. k <= m => Bit[k] <= Bit[m]
        BY <2>4, <4>1, BitGrows, BitsAssumption
      <4> QED
        BY <1>0, <1>1, <2>1, <2>4, <3>4, <4>1, <4>2
    <3> HIDE DEF P
    <3>7. Min(P) = m + 1
      BY <1>2, <3>5, <3>6, MinIs
    <3> QED
      BY <1>3, <2>5, <3>3, <3>4, <3>5, <3>7
  <2> QED
    BY <2>6, <2>7
<1> QED
  BY <1>4, <1>5

-----------------------------------------------------------------------------
(* The layout and the slots.                                               *)

\* The fields of struct log2mem_config.
LEMMA FieldNames == FieldName = {"options", "num_counters", "num_rows", "row_len", "num_vars"}
<1>1. 1 .. 5 = {1, 2, 3, 4, 5}
  OBVIOUS
<1> QED
  BY <1>1 DEF FieldName, Field

\* Rounding up to a multiple of 8, or of a page.
LEMMA AlignUp ==
  ASSUME NEW n \in Nat, NEW to \in Nat, to = 8 \/ to = PageSize
  PROVE  Align(n, to) \in Nat /\ Align(n, to) >= n /\ Align(n, to) % 8 = 0
         /\ Align(n, to) <= n + (to - 1)
<1>1. PICK k \in 1 .. 512 : to = 8 * k
  BY BitsAssumption
<1> DEFINE a == n + (to - 1)  q == a \div to  r == a % to
<1>2. to \in Nat \ {0} /\ a \in Nat
  BY <1>1
<1>3. Align(n, to) = q * to
  BY DEF Align
<1>4. q \in Int /\ r \in 0 .. to - 1 /\ a = to * q + r
  <2> HIDE DEF a
  <2>1. a \in Int /\ to \in Nat \ {0}
    BY <1>2
  <2>2. a \div to \in Int /\ a % to \in 0 .. to - 1 /\ a = to * (a \div to) + (a % to)
    BY ONLY <2>1, DivMod
  <2> QED
    BY <2>2
<1> HIDE DEF q, r
<1>5. q * to = to * q /\ q * to \in Int
  BY <1>2, <1>4
<1>6. q * to >= n /\ q * to <= n + (to - 1)
  BY <1>2, <1>4, <1>5
<1>7. (q * to) % 8 = 0
  <2>1. q * to = 8 * (q * k) /\ q * k \in Int
    BY <1>1, <1>4
  <2> DEFINE t == q * k
  <2> HIDE DEF t
  <2>2. t \in Int => (8 * t) % 8 = 0
    OBVIOUS
  <2> QED
    BY <2>1, <2>2 DEF t
<1> QED
  BY <1>3, <1>5, <1>6, <1>7

\* What an int keeps of a number: a number it can hold, and all of such a number.
LEMMA SignedRange ==
  ASSUME NEW n \in Int
  PROVE  /\ Signed(n) \in -Bit[IntBits - 1] .. Bit[IntBits - 1] - 1
         /\ n \in Nat /\ n < Bit[IntBits - 1] => Signed(n) = n
<1> DEFINE b == Bit[IntBits - 1]  m == IntMod  u == n % m
<1>1. b \in Nat \ {0} /\ m = 2 * b /\ m \in Nat \ {0}
  BY Places
<1>2. Signed(n) = IF u < b THEN u ELSE u - m
  BY DEF Signed, Unsigned
<1>3. u \in 0 .. m - 1 /\ (n \in Nat /\ n < m => u = n)
  <2> HIDE DEF b, m
  <2> QED
    BY <1>1
<1> HIDE DEF u, m, b
<1>4. n < b => n < m
  BY <1>1
<1>5. /\ Signed(n) \in (-b) .. b - 1
      /\ n \in Nat /\ n < b => Signed(n) = n
  BY <1>1, <1>2, <1>3, <1>4
<1> QED
  BY <1>5 DEF b

\* The fields of struct log2mem_layout, and the sections among them.
LayName == {"counters", "rows", "labels", "doubles", "ints", "size"}
PartName == {"counters", "rows", "labels", "doubles", "ints"}

\* The sections, before an int truncates them: in order, each long enough, each on
\* an 8 byte boundary, and in no more than the size.
LEMMA OffsetsApart ==
  ASSUME NEW c \in [FieldName -> UInt]
  PROVE  LET o == Offsets(c) IN
           /\ DOMAIN o = LayName
           /\ \A p \in LayName : o[p] \in Nat /\ o[p] <= o.size /\ o[p] % 8 = 0
           /\ o.counters = HeaderSize
           /\ o.rows >= o.counters + c.num_counters * SizeofCounter
           /\ o.labels >= o.rows + c.num_rows * RowTotalSize(c)
           /\ o.doubles >= o.labels + c.num_counters * SizeofLabel
           /\ o.ints >= o.doubles + c.num_vars * SizeofVarDouble
           /\ o.size >= o.ints + c.num_vars * SizeofVarInt
<1>1. c.num_counters \in Nat /\ c.num_rows \in Nat /\ c.row_len \in Nat /\ c.num_vars \in Nat
  <2>1. \A f \in FieldName : c[f] \in Nat
    BY Places DEF UInt
  <2> QED
    BY <2>1, FieldNames
<1>2. RowTotalSize(c) \in Nat /\ c.num_rows * RowTotalSize(c) \in Nat
  BY <1>1 DEF RowTotalSize, SizeofRow
<1> DEFINE n1 == c.num_counters * SizeofCounter  n2 == c.num_rows * RowTotalSize(c)
           n3 == c.num_counters * SizeofLabel    n4 == c.num_vars * SizeofVarDouble
           n5 == c.num_vars * SizeofVarInt
           a1 == Align(n1, 8)  a2 == Align(n2, 8)  a3 == Align(n3, 8)  a4 == Align(n4, 8)
           b1 == HeaderSize  b2 == b1 + a1  b3 == b2 + a2  b4 == b3 + a3  b5 == b4 + a4
           b6 == Align(b5 + n5, PageSize)
<1>3. n1 \in Nat /\ n2 \in Nat /\ n3 \in Nat /\ n4 \in Nat /\ n5 \in Nat
  BY <1>1, <1>2 DEF SizeofCounter, SizeofLabel, SizeofVarDouble, SizeofVarInt
<1>4. Offsets(c) = [counters |-> b1, rows |-> b2, labels |-> b3, doubles |-> b4,
                    ints |-> b5, size |-> b6]
  BY DEF Offsets
<1> HIDE DEF n1, n2, n3, n4, n5
<1>5. /\ a1 \in Nat /\ a1 >= n1 /\ a1 % 8 = 0 /\ a2 \in Nat /\ a2 >= n2 /\ a2 % 8 = 0
      /\ a3 \in Nat /\ a3 >= n3 /\ a3 % 8 = 0 /\ a4 \in Nat /\ a4 >= n4 /\ a4 % 8 = 0
  BY <1>3, AlignUp
<1> HIDE DEF a1, a2, a3, a4
<1>6. /\ b1 \in Nat /\ b2 \in Nat /\ b3 \in Nat /\ b4 \in Nat /\ b5 \in Nat
      /\ b1 % 8 = 0 /\ b2 % 8 = 0 /\ b3 % 8 = 0 /\ b4 % 8 = 0 /\ b5 % 8 = 0
  BY <1>5 DEF HeaderSize
<1>7. b6 \in Nat /\ b6 >= b5 + n5 /\ b6 % 8 = 0
  <2>1. b5 + n5 \in Nat /\ PageSize \in Nat
    BY <1>3, <1>6, BitsAssumption
  <2> HIDE DEF b5
  <2> QED
    BY <2>1, AlignUp
<1>8. b2 >= b1 + n1 /\ b3 >= b2 + n2 /\ b4 >= b3 + n3 /\ b5 >= b4 + n4
  BY <1>3, <1>5, <1>6
<1> HIDE DEF b1, b2, b3, b4, b5, b6
<1>9. b1 <= b6 /\ b2 <= b6 /\ b3 <= b6 /\ b4 <= b6 /\ b5 <= b6
  BY <1>3, <1>6, <1>7, <1>8
<1> QED
  BY <1>4, <1>6, <1>7, <1>8, <1>9 DEF LayName, n1, n2, n3, n4, n5, b1

\* A region an int can measure keeps its offsets when they are stored.
LEMMA LayoutFits ==
  ASSUME NEW c \in [FieldName -> UInt], Offsets(c).size < Bit[IntBits - 1]
  PROVE  /\ DOMAIN CalculateLayout(c) = LayName
         /\ \A p \in LayName : CalculateLayout(c)[p] = Offsets(c)[p]
<1>1. DOMAIN Offsets(c) = LayName /\ \A p \in LayName : Offsets(c)[p] \in Nat /\ Offsets(c)[p] <= Offsets(c).size
  BY OffsetsApart
<1>2. "size" \in LayName /\ Bit[IntBits - 1] \in Nat
  BY Places DEF LayName
<1>3. ASSUME NEW p \in LayName PROVE CalculateLayout(c)[p] = Offsets(c)[p]
  <2>1. CalculateLayout(c)[p] = Signed(Offsets(c)[p])
    BY <1>1 DEF CalculateLayout
  <2>2. Offsets(c)[p] \in Nat /\ Offsets(c)[p] < Bit[IntBits - 1]
    BY <1>1, <1>2
  <2> QED
    BY <2>1, <2>2, SignedRange
<1> QED
  BY <1>1, <1>3 DEF CalculateLayout

\* The index a mask gives for a power of two of slots is the remainder by it.
LEMMA IndexIs ==
  ASSUME NEW id \in UInt, NEW m \in Place
  PROVE  Index(id, Bit[m]) = id % Bit[m] /\ id % Bit[m] \in 0 .. Bit[m] - 1
<1>1. /\ id \in Nat /\ m \in 0 .. IntBits /\ m \in Nat /\ m <= IntBits - 1 /\ IntBits - 1 \in Nat
      /\ IntBits - 1 <= IntBits
      /\ Bit[m] \in Nat \ {0} /\ Bit[IntBits - 1] \in Nat \ {0} /\ IntMod = 2 * Bit[IntBits - 1]
  <2>1. id \in Nat
    BY Places DEF UInt
  <2>2. m \in 0 .. IntBits /\ m \in Nat /\ Bit[m] \in Nat \ {0}
        /\ Bit[IntBits - 1] \in Nat \ {0} /\ IntMod = 2 * Bit[IntBits - 1]
    BY Places
  <2> QED
    BY <2>1, <2>2, BitsAssumption DEF Place
<1>2. Bit[m] <= Bit[IntBits - 1]
  BY <1>1, BitGrows
<1>3. id % Bit[m] \in 0 .. Bit[m] - 1
  <2> DEFINE l == Bit[m]
  <2>1. l \in Nat \ {0} /\ id \in Int
    BY <1>1
  <2> HIDE DEF l
  <2>2. id % l \in 0 .. l - 1
    BY <2>1, DivMod
  <2> QED
    BY <2>2 DEF l
<1>4. Unsigned(Bit[m] - 1) = Bit[m] - 1
  <2> DEFINE x == Bit[m] - 1  n == IntMod
  <2>1. x \in Nat /\ n \in Nat \ {0} /\ x < n
    BY <1>1, <1>2
  <2> HIDE DEF x, n
  <2>2. x % n = x
    BY <2>1
  <2> QED
    BY <2>2 DEF x, n, Unsigned
<1>5. Index(id, Bit[m]) = Signed(id % Bit[m])
  BY <1>1, <1>4, AndMask DEF Index
<1>6. id % Bit[m] \in Nat /\ id % Bit[m] \in Int /\ id % Bit[m] < Bit[IntBits - 1]
  BY <1>1, <1>2, <1>3
<1> QED
  BY <1>3, <1>5, <1>6, SignedRange

\* An index is a number, also where there is no slot.
LEMMA IndexInt ==
  ASSUME NEW id \in UInt, NEW n \in UInt
  PROVE  Index(id, n) \in Int
<1>1. id \in Nat /\ n \in Int /\ IntMod \in Nat \ {0} /\ Bit[IntBits - 1] \in Nat
  BY Places DEF UInt
<1>2. Unsigned(n - 1) \in Nat
  BY <1>1 DEF Unsigned
<1>3. And(id, Unsigned(n - 1)) \in UInt
  BY <1>1, <1>2, AndBits
<1>4. And(id, Unsigned(n - 1)) \in Int
  BY <1>1, <1>3 DEF UInt
<1>5. Signed(And(id, Unsigned(n - 1))) \in (-Bit[IntBits - 1]) .. Bit[IntBits - 1] - 1
  BY <1>4, SignedRange
<1> QED
  BY <1>1, <1>5 DEF Index

\* What each entry point touches.
LEMMA SlotIs ==
  ASSUME NEW id
  PROVE  /\ Slot("counters", id).lo = lay.counters + Index(id, cfg.num_counters) * SizeofCounter
         /\ Slot("counters", id).hi = Slot("counters", id).lo + SizeofCounter
         /\ Slot("labels", id).lo = lay.labels + Index(id, cfg.num_counters) * SizeofLabel
         /\ Slot("labels", id).hi = Slot("labels", id).lo + SizeofLabel
         /\ Slot("rows", id).lo = lay.rows + Signed(Index(id, cfg.num_rows) * RowTotalSize(cfg))
         /\ Slot("rows", id).hi = Slot("rows", id).lo + RowTotalSize(cfg)
         /\ Slot("doubles", id).lo = lay.doubles + Index(id, cfg.num_vars) * SizeofVarDouble
         /\ Slot("doubles", id).hi = Slot("doubles", id).lo + SizeofVarDouble
         /\ Slot("ints", id).lo = lay.ints + Index(id, cfg.num_vars) * SizeofVarInt
         /\ Slot("ints", id).hi = Slot("ints", id).lo + SizeofVarInt
         /\ \A p \in PartName : Slot(p, id).part = p
BY DEF Slot, PartName

\* The section behind each one.
LEMMA BehindIs ==
  /\ Behind("counters") = "rows" /\ Behind("rows") = "labels" /\ Behind("labels") = "doubles"
  /\ Behind("doubles") = "ints" /\ Behind("ints") = "size"
<1> DEFINE at(p) == CHOOSE k \in 1 .. 5 : Parts[k] = p
<1>1. \A k \in 1 .. 5 : k = 1 \/ k = 2 \/ k = 3 \/ k = 4 \/ k = 5
  OBVIOUS
<1>2. ASSUME NEW k \in 1 .. 5 PROVE at(Parts[k]) = k
  <2>1. at(Parts[k]) \in 1 .. 5 /\ Parts[at(Parts[k])] = Parts[k]
    BY Zenon
  <2> DEFINE j == at(Parts[k])
  <2> HIDE DEF j
  <2>2. j \in 1 .. 5 /\ Parts[j] = Parts[k]
    BY <2>1 DEF j
  <2>3. j = k
    BY <1>1, <2>2 DEF Parts
  <2> QED
    BY <2>3 DEF j
<1>3. at("counters") = 1 /\ at("rows") = 2 /\ at("labels") = 3 /\ at("doubles") = 4 /\ at("ints") = 5
  <2>1. Parts[1] = "counters" /\ Parts[2] = "rows" /\ Parts[3] = "labels" /\ Parts[4] = "doubles"
        /\ Parts[5] = "ints" /\ 1 \in 1 .. 5 /\ 2 \in 1 .. 5 /\ 3 \in 1 .. 5 /\ 4 \in 1 .. 5 /\ 5 \in 1 .. 5
    BY DEF Parts
  <2> HIDE DEF at
  <2>2. at(Parts[1]) = 1 /\ at(Parts[2]) = 2 /\ at(Parts[3]) = 3 /\ at(Parts[4]) = 4 /\ at(Parts[5]) = 5
    BY <1>2, <2>1
  <2> QED
    BY <2>1, <2>2
<1>4. \A p : Behind(p) = Parts[at(p) + 1]
  BY DEF Behind
<1> HIDE DEF at
<1> QED
  BY <1>3, <1>4 DEF Parts

-----------------------------------------------------------------------------
(* The invariant.                                                          *)

\* The numbers of slots a rounding may give.
Power == {Bit[k] : k \in Place}

\* The types of what the initialisation leaves, and the numbers of slots it rounds.
ConfigRight ==
  /\ phase \in {"called", "copied", "rounded", "sized", "mapped", "exited"}
  /\ cfg \in [FieldName -> UInt]
  /\ phase \in {"rounded", "sized", "mapped", "exited"} =>
       cfg.num_counters \in Power /\ cfg.num_rows \in Power /\ cfg.num_vars \in Power \cup {0}

\* The layout is that of the configuration, and only a size that is positive is mapped.
LayoutRight ==
  /\ phase \in {"called", "copied", "rounded"} => lay = NoLayout
  /\ phase \in {"sized", "mapped", "exited"} => lay = CalculateLayout(cfg)
  /\ phase = "mapped" => lay.size > 0
  /\ phase = "exited" => ~(lay.size > 0)

\* What was touched was some slot of the mapped region.
AccessRight ==
  \/ access = NoAccess
  \/ phase = "mapped" /\ \E p \in PartName, id \in Id : access = Slot(p, id)

IInv == ConfigRight /\ LayoutRight /\ AccessRight

\* The configuration before the caller's is copied.
LEMMA ZeroConfigTyped == ZeroConfig \in [FieldName -> UInt] /\ DOMAIN ZeroConfig = FieldName
<1>1. 0 \in UInt
  BY Places DEF UInt
<1> QED
  BY <1>1 DEF ZeroConfig

\* The initial state satisfies the invariant.
LEMMA InitInv == Init => IInv
<1> SUFFICES ASSUME Init PROVE IInv
  OBVIOUS
<1>1. phase = "called" /\ cfg = ZeroConfig /\ lay = NoLayout /\ access = NoAccess
  BY DEF Init
<1> QED
  BY <1>1, ZeroConfigTyped DEF IInv, ConfigRight, LayoutRight, AccessRight

\* A number rounded up is a power of two, or wrapped to 0.
LEMMA RoundedIs ==
  ASSUME NEW n \in UInt
  PROVE  /\ RoundUpPower(n) \in Power \cup {0}
         /\ OneIfZero(RoundUpPower(n)) \in Power
         /\ Power \cup {0} \subseteq UInt
<1> DEFINE P == {k \in 0 .. IntBits - 1 : Bit[k] >= n}
<1>1. 1 \in Power
  BY Places DEF Power
<1>2. n # 0 /\ P # {} => Min(P) \in Place
  <2> SUFFICES ASSUME P # {} PROVE Min(P) \in Place
    OBVIOUS
  <2>1. P \subseteq Place /\ Place \subseteq 0 .. IntBits - 1
    BY DEF Place
  <2>2. P \subseteq Nat
    BY BitsAssumption
  <2> HIDE DEF P
  <2>3. PICK x \in P : \A y \in P : ~ (<<y, x>> \in OpToRel(<, Nat))
    BY <2>2, WFMin, NatLessThanWellFounded
  <2>4. ASSUME NEW y \in P PROVE x <= y
    <3>1. x \in Nat /\ y \in Nat
      BY <2>2
    <3>2. ~(y < x)
      BY <2>3, <3>1 DEF OpToRel
    <3> QED
      BY <3>1, <3>2
  <2>5. P \subseteq Int
    BY <2>2
  <2>6. Min(P) = x
    BY <2>4, <2>5, MinIs
  <2> QED
    BY <2>1, <2>6
<1>3. NextPower(n) = IF n = 0 \/ P = {} THEN 0 ELSE Bit[Min(P)]
  BY DEF NextPower
<1> HIDE DEF P
<1>4. NextPower(n) \in Power \cup {0}
  BY <1>2, <1>3 DEF Power
<1>5. ASSUME NEW k \in Place PROVE Bit[k] \in UInt
  <2>1. k + 1 \in Nat /\ k + 1 <= IntBits /\ Bit[k] \in Nat \ {0} /\ Bit[k + 1] = 2 * Bit[k]
    BY Places, BitsAssumption
  <2>2. Bit[k + 1] <= Bit[IntBits]
    BY <2>1, BitGrows, BitsAssumption
  <2> QED
    BY <2>1, <2>2, Places DEF UInt
<1>6. 0 \in UInt
  BY Places DEF UInt
<1> QED
  BY <1>1, <1>4, <1>5, <1>6, RoundUpIsNextPower DEF OneIfZero, Power

\* A step of the initialisation, or a call, keeps the invariant.
LEMMA NextInv ==
  ASSUME IInv, [Next]_vars
  PROVE  IInv'
<1> USE DEF IInv
<1>1. CASE CopyConfig
  <2>1. PICK user \in UserConfig, n \in FieldsPassed :
          cfg' = [f \in FieldName |-> IF \E k \in 1 .. n : Field[k] = f THEN user[f] ELSE 0]
    BY <1>1, ZeroConfigTyped DEF CopyConfig
  <2>2. user \in [FieldName -> UInt] /\ 0 \in UInt
    BY InputAssumption, Places DEF UInt
  <2>3. cfg' \in [FieldName -> UInt]
    BY <2>1, <2>2
  <2>4. phase = "called" /\ phase' = "copied" /\ lay' = lay /\ access' = access
    BY <1>1 DEF CopyConfig
  <2> QED
    BY <2>3, <2>4 DEF ConfigRight, LayoutRight, AccessRight
<1>2. CASE RoundConfig
  <2>1. phase = "copied" /\ phase' = "rounded" /\ lay' = lay /\ access' = access
        /\ cfg' = [cfg EXCEPT !.num_counters = OneIfZero(RoundUpPower(@)),
                              !.num_rows     = OneIfZero(RoundUpPower(@)),
                              !.num_vars     = RoundUpPower(@)]
    BY <1>2 DEF RoundConfig
  <2> DEFINE x == OneIfZero(RoundUpPower(cfg.num_counters))
             y == OneIfZero(RoundUpPower(cfg.num_rows))
             z == RoundUpPower(cfg.num_vars)
  <2>2. cfg \in [FieldName -> UInt] /\ cfg.num_counters \in UInt /\ cfg.num_rows \in UInt /\ cfg.num_vars \in UInt
    BY FieldNames DEF ConfigRight
  <2>3. x \in Power /\ y \in Power /\ z \in Power \cup {0} /\ Power \cup {0} \subseteq UInt
    BY <2>2, RoundedIs
  <2>4. cfg' = [cfg EXCEPT !.num_counters = x, !.num_rows = y, !.num_vars = z]
    BY <2>1, <2>2, FieldNames
  <2> HIDE DEF x, y, z
  <2>5. /\ cfg' \in [FieldName -> UInt]
        /\ cfg'.num_counters = x /\ cfg'.num_rows = y /\ cfg'.num_vars = z
    BY <2>2, <2>3, <2>4, FieldNames
  <2> QED
    BY <2>1, <2>3, <2>5 DEF ConfigRight, LayoutRight, AccessRight
<1>3. CASE LayOut
  <2>1. phase = "rounded" /\ phase' = "sized" /\ cfg' = cfg /\ access' = access
        /\ lay' = CalculateLayout(cfg)
    BY <1>3 DEF LayOut
  <2> QED
    BY <2>1 DEF ConfigRight, LayoutRight, AccessRight
<1>4. CASE MapFile
  <2>1. phase = "sized" /\ phase' = (IF lay.size > 0 THEN "mapped" ELSE "exited")
        /\ cfg' = cfg /\ lay' = lay /\ access' = access
    BY <1>4 DEF MapFile
  <2> QED
    BY <2>1 DEF ConfigRight, LayoutRight, AccessRight
<1>5. ASSUME NEW p \in PartName, Touch(p) PROVE IInv'
  <2>1. /\ phase = "mapped" /\ phase' = phase /\ cfg' = cfg /\ lay' = lay
        /\ \E id \in Id : access' = Slot(p, id)
    BY <1>5 DEF Touch
  <2>2. \A q, id : Slot(q, id)' = Slot(q, id)
    BY <2>1 DEF Slot
  <2>3. AccessRight'
    BY <2>1, <2>2 DEF AccessRight
  <2> QED
    BY <2>1, <2>3 DEF ConfigRight, LayoutRight
<1>6. CASE UNCHANGED vars
  <2>1. phase' = phase /\ cfg' = cfg /\ lay' = lay /\ access' = access
    BY <1>6 DEF vars
  <2>2. \A q, id : Slot(q, id)' = Slot(q, id)
    BY <2>1 DEF Slot
  <2> QED
    BY <2>1, <2>2 DEF ConfigRight, LayoutRight, AccessRight
<1> QED
  BY <1>1, <1>2, <1>3, <1>4, <1>5, <1>6
  DEF Next, CounterAdd, CounterLabel, UseRow, VarDouble, VarInt, PartName

\* The invariant holds always.
THEOREM Inductive == Spec => []IInv
<1>1. IInv /\ [Next]_vars => IInv'
  BY NextInv
<1> QED
  BY <1>1, InitInv, PTL DEF Spec

-----------------------------------------------------------------------------
(* The properties.                                                         *)

\* The numbers of slots and the size of a row are numbers.
LEMMA ConfigNumbers ==
  ASSUME ConfigRight
  PROVE  /\ cfg.num_counters \in UInt /\ cfg.num_rows \in UInt /\ cfg.num_vars \in UInt
         /\ cfg.num_counters \in Nat /\ cfg.num_rows \in Nat /\ cfg.num_vars \in Nat
         /\ RowTotalSize(cfg) \in Nat /\ RowTotalSize(cfg) > 0
<1>1. /\ cfg.num_counters \in UInt /\ cfg.num_rows \in UInt /\ cfg.num_vars \in UInt
      /\ cfg.row_len \in UInt
  BY FieldNames DEF ConfigRight
<1>2. \A n \in UInt : n \in Nat
  BY Places DEF UInt
<1> QED
  BY <1>1, <1>2 DEF RowTotalSize, SizeofRow

\* Before there is a layout its fields are in the range of an int too.
LEMMA NoLayoutSmall ==
  /\ DOMAIN NoLayout = LayName
  /\ \A p \in LayName : NoLayout[p] \in Nat /\ NoLayout[p] < Bit[IntBits - 1]
<1> DEFINE c == ZeroConfig
<1>1. c \in [FieldName -> UInt]
  BY ZeroConfigTyped
<1>2. /\ DOMAIN NoLayout = LayName
      /\ \A p \in LayName : NoLayout[p] \in Nat /\ NoLayout[p] <= NoLayout.size
  BY <1>1, OffsetsApart DEF NoLayout
<1>3. NoLayout.size <= 4400
  <2>1. c.num_counters = 0 /\ c.num_rows = 0 /\ c.num_vars = 0 /\ c.row_len = 0
    BY FieldNames DEF ZeroConfig
  <2>2. PageSize \in Nat /\ PageSize <= 4096
    BY BitsAssumption
  <2>3. Align(0, 8) = 0
    BY DEF Align
  <2> DEFINE o == HeaderSize + 0 + 0 + 0 + 0 + 0
  <2>4. Align(o, PageSize) <= o + (PageSize - 1) /\ o = 256
    BY <2>2, AlignUp DEF HeaderSize
  <2>5. Align(o, PageSize) <= 4400
    <3>1. Align(o, PageSize) \in Nat
      BY <2>2, <2>4, AlignUp
    <3> QED
      BY <2>2, <2>4, <3>1
  <2>6. NoLayout.size = Align(o, PageSize)
    BY <2>1, <2>3
    DEF NoLayout, Offsets, RowTotalSize, SizeofRow, SizeofCounter, SizeofLabel, SizeofVarDouble,
        SizeofVarInt, HeaderSize
  <2> QED
    BY <2>5, <2>6
<1>4. Bit[IntBits - 1] >= 8192 /\ Bit[IntBits - 1] \in Nat
  <2>1. \A k \in 0 .. 15 : Bit[k + 1] = 2 * Bit[k]
    BY BitSteps, BitsAssumption
  <2>2. Bit[0] = 1 /\ Bit[1] = 2 * Bit[0] /\ Bit[2] = 2 * Bit[1] /\ Bit[3] = 2 * Bit[2]
        /\ Bit[4] = 2 * Bit[3] /\ Bit[5] = 2 * Bit[4] /\ Bit[6] = 2 * Bit[5] /\ Bit[7] = 2 * Bit[6]
        /\ Bit[8] = 2 * Bit[7] /\ Bit[9] = 2 * Bit[8] /\ Bit[10] = 2 * Bit[9]
        /\ Bit[11] = 2 * Bit[10] /\ Bit[12] = 2 * Bit[11] /\ Bit[13] = 2 * Bit[12]
    BY <2>1, BitSteps
  <2>3. Bit[13] = 8192
    BY <2>2
  <2>4. 13 \in Nat /\ IntBits - 1 \in Nat /\ 13 <= IntBits - 1 /\ IntBits - 1 <= IntBits
    BY BitsAssumption
  <2>5. Bit[13] <= Bit[IntBits - 1]
    BY <2>4, BitGrows
  <2> QED
    BY <2>3, <2>5, Places
<1>5. "size" \in LayName
  BY DEF LayName
<1> QED
  BY <1>2, <1>3, <1>4, <1>5

\* The fields of the layout are ints.
LEMMA LayoutTyped ==
  ASSUME IInv
  PROVE  \A p \in LayName : lay[p] \in -Bit[IntBits - 1] .. Bit[IntBits - 1] - 1 /\ lay[p] \in Int
<1>1. Bit[IntBits - 1] \in Nat
  BY Places
<1>2. CASE lay = NoLayout
  BY <1>1, <1>2, NoLayoutSmall
<1>3. CASE lay = CalculateLayout(cfg)
  <2>1. cfg \in [FieldName -> UInt]
    BY DEF IInv, ConfigRight
  <2>2. DOMAIN Offsets(cfg) = LayName /\ \A p \in LayName : Offsets(cfg)[p] \in Nat
    BY <2>1, OffsetsApart
  <2>3. \A p \in LayName : lay[p] = Signed(Offsets(cfg)[p])
    BY <1>3, <2>2 DEF CalculateLayout
  <2>4. \A p \in LayName : lay[p] \in -Bit[IntBits - 1] .. Bit[IntBits - 1] - 1
    BY <2>2, <2>3, SignedRange
  <2> QED
    BY <1>1, <2>4
<1> QED
  BY <1>2, <1>3 DEF IInv, LayoutRight, ConfigRight

\* Every number is one its type holds.
THEOREM TypeCorrect == Spec => []TypeOK
<1>1. ASSUME IInv PROVE TypeOK
  <2>1. phase \in {"called", "copied", "rounded", "sized", "mapped", "exited"}
        /\ \A f \in DOMAIN ZeroConfig : cfg[f] \in UInt
    BY <1>1, ZeroConfigTyped DEF IInv, ConfigRight
  <2>2. \A p \in DOMAIN NoLayout : lay[p] \in -Bit[IntBits - 1] .. Bit[IntBits - 1] - 1
    BY <1>1, LayoutTyped, NoLayoutSmall
  <2>3. access.lo <= access.hi
    <3>1. CASE access = NoAccess
      BY <3>1 DEF NoAccess
    <3>2. ASSUME NEW p \in PartName, NEW id \in Id, access = Slot(p, id)
          PROVE  access.lo <= access.hi
      <4>1. id \in UInt
        BY InputAssumption
      <4>2. /\ Index(id, cfg.num_counters) \in Int /\ Index(id, cfg.num_rows) \in Int
            /\ Index(id, cfg.num_vars) \in Int /\ RowTotalSize(cfg) \in Nat
        BY <1>1, <4>1, ConfigNumbers, IndexInt DEF IInv
      <4>3. /\ lay.counters \in Int /\ lay.rows \in Int /\ lay.labels \in Int
            /\ lay.doubles \in Int /\ lay.ints \in Int
        BY <1>1, LayoutTyped DEF LayName
      <4> DEFINE x == Index(id, cfg.num_rows) * RowTotalSize(cfg)
      <4>4. Signed(x) \in Int
        <5>1. x \in Int
          BY <4>2
        <5> HIDE DEF x
        <5>2. Signed(x) \in (-Bit[IntBits - 1]) .. Bit[IntBits - 1] - 1
          BY <5>1, SignedRange
        <5> QED
          BY <5>2, Places
      <4>5. p = "counters" \/ p = "rows" \/ p = "labels" \/ p = "doubles" \/ p = "ints"
        BY DEF PartName
      <4> HIDE DEF x
      <4>6. Slot("rows", id).lo = lay.rows + Signed(x)
        BY SlotIs DEF x
      <4> QED
        BY <3>2, <4>2, <4>3, <4>4, <4>5, <4>6, SlotIs
        DEF SizeofCounter, SizeofLabel, SizeofVarDouble, SizeofVarInt
    <3> QED
      BY <1>1, <3>1, <3>2 DEF IInv, AccessRight
  <2> QED
    BY <2>1, <2>2, <2>3 DEF TypeOK
<1> QED
  BY <1>1, Inductive, PTL

\* What round_up_next_power_of_2_uint leaves of the numbers of counters, rows and
\* variables is the next power of two, for every configuration and width of an int.
THEOREM RoundedUp == Spec => []RoundsUp
<1>1. ASSUME IInv PROVE RoundsUp
  <2>1. cfg.num_counters \in UInt /\ cfg.num_rows \in UInt /\ cfg.num_vars \in UInt
    BY <1>1, ConfigNumbers DEF IInv
  <2> QED
    BY <2>1, RoundUpIsNextPower DEF RoundsUp
<1> QED
  BY <1>1, Inductive, PTL

\* A representable layout is the offsets themselves.
LEMMA LayoutIsOffsets ==
  ASSUME IInv, Representable, phase \in {"sized", "mapped", "exited"}
  PROVE  DOMAIN lay = LayName /\ \A p \in LayName : lay[p] = Offsets(cfg)[p]
<1>1. cfg \in [FieldName -> UInt] /\ lay = CalculateLayout(cfg)
  BY DEF IInv, ConfigRight, LayoutRight
<1> QED
  BY <1>1, LayoutFits DEF Representable

\* The sections of a region that an int can measure do not overlap.
THEOREM Apart == Spec => []SectionsApart
<1>1. ASSUME IInv, phase \in {"mapped", "exited"}, Representable
      PROVE  /\ phase = "mapped"
             /\ lay.counters >= HeaderSize
             /\ lay.rows >= lay.counters + cfg.num_counters * SizeofCounter
             /\ lay.labels >= lay.rows + cfg.num_rows * RowTotalSize(cfg)
             /\ lay.doubles >= lay.labels + cfg.num_counters * SizeofLabel
             /\ lay.ints >= lay.doubles + cfg.num_vars * SizeofVarDouble
             /\ lay.size >= lay.ints + cfg.num_vars * SizeofVarInt
             /\ \A p \in DOMAIN lay : lay[p] % 8 = 0
  <2> DEFINE o == Offsets(cfg)
  <2>1. cfg \in [FieldName -> UInt]
    BY <1>1 DEF IInv, ConfigRight
  <2>2. /\ DOMAIN lay = LayName /\ \A p \in LayName : lay[p] = o[p]
        /\ lay.counters = o.counters /\ lay.rows = o.rows /\ lay.labels = o.labels
        /\ lay.doubles = o.doubles /\ lay.ints = o.ints /\ lay.size = o.size
    <3>1. DOMAIN lay = LayName /\ \A p \in LayName : lay[p] = o[p]
      BY <1>1, LayoutIsOffsets
    <3> HIDE DEF o
    <3> QED
      BY <3>1 DEF LayName
  <2>3. /\ \A p \in LayName : o[p] \in Nat /\ o[p] <= o.size /\ o[p] % 8 = 0
        /\ o.counters = HeaderSize
        /\ o.rows >= o.counters + cfg.num_counters * SizeofCounter
        /\ o.labels >= o.rows + cfg.num_rows * RowTotalSize(cfg)
        /\ o.doubles >= o.labels + cfg.num_counters * SizeofLabel
        /\ o.ints >= o.doubles + cfg.num_vars * SizeofVarDouble
        /\ o.size >= o.ints + cfg.num_vars * SizeofVarInt
    BY <2>1, OffsetsApart
  <2> HIDE DEF o
  <2>4. phase = "mapped"
    <3>1. o.counters <= o.size /\ o.counters \in Nat /\ o.size \in Nat
      BY <2>3 DEF LayName
    <3>2. lay.size > 0
      BY <2>2, <2>3, <3>1 DEF HeaderSize
    <3> QED
      BY <1>1, <3>2 DEF IInv, LayoutRight
  <2>5. \A p \in DOMAIN lay : lay[p] % 8 = 0
    BY <2>2, <2>3
  <2>6. lay.counters >= HeaderSize
    BY <2>2, <2>3 DEF HeaderSize
  <2> QED
    BY <2>2, <2>3, <2>4, <2>5, <2>6
<1>2. IInv => SectionsApart
  BY <1>1 DEF SectionsApart
<1> QED
  BY <1>2, Inductive, PTL

\* A slot with an index below the number of slots ends in its section.
LEMMA SlotEnds ==
  ASSUME NEW n \in Nat, NEW i \in 0 .. n - 1, NEW s \in Nat
  PROVE  i * s \in Nat /\ i * s + s <= n * s /\ i * s <= n * s /\ n * s \in Nat
<1>1. (i + 1) * s <= n * s /\ n * s \in Nat
  BY MulKeepsOrder
<1>2. (i + 1) * s = i * s + s /\ i * s \in Nat
  OBVIOUS
<1> QED
  BY <1>1, <1>2

\* In a region an int can measure, the row of an id, at the remainder of the id.
LEMMA RowSlot ==
  ASSUME IInv, Representable, phase = "mapped", NEW id \in UInt
  PROVE  /\ cfg.num_rows \in Nat \ {0}
         /\ id % cfg.num_rows \in 0 .. cfg.num_rows - 1
         /\ Slot("rows", id).lo = lay.rows + (id % cfg.num_rows) * RowTotalSize(cfg)
         /\ Slot("rows", id).hi = Slot("rows", id).lo + RowTotalSize(cfg)
         /\ lay.rows \in Nat
         /\ (id % cfg.num_rows) * RowTotalSize(cfg) + RowTotalSize(cfg) <=
              cfg.num_rows * RowTotalSize(cfg)
         /\ lay.labels >= lay.rows + cfg.num_rows * RowTotalSize(cfg)
<1> DEFINE n == cfg.num_rows  i == id % n  s == RowTotalSize(cfg)  o == Offsets(cfg)
<1>1. n \in Nat \ {0} /\ Index(id, n) = i /\ i \in 0 .. n - 1
  <2>1. PICK m \in Place : n = Bit[m]
    BY DEF IInv, ConfigRight, Power
  <2> QED
    BY <2>1, IndexIs, Places
<1>2. s \in Nat
  BY ConfigNumbers DEF IInv
<1>3. /\ lay.rows = o.rows /\ lay.labels = o.labels /\ o.rows \in Nat /\ o.labels \in Nat
      /\ o.size \in Nat /\ o.labels <= o.size /\ o.labels >= o.rows + n * s
      /\ o.size < Bit[IntBits - 1]
  <2>1. cfg \in [FieldName -> UInt]
    BY DEF IInv, ConfigRight
  <2>2. /\ \A p \in LayName : o[p] \in Nat /\ o[p] <= o.size
        /\ o.labels >= o.rows + n * s
    BY <2>1, OffsetsApart
  <2>3. \A p \in LayName : lay[p] = o[p]
    BY LayoutIsOffsets
  <2>4. o.size < Bit[IntBits - 1]
    BY DEF Representable
  <2> HIDE DEF o, n, s
  <2> QED
    BY <2>2, <2>3, <2>4 DEF LayName
<1>4. /\ Slot("rows", id).lo = lay.rows + Signed(i * s)
      /\ Slot("rows", id).hi = Slot("rows", id).lo + s
  BY <1>1, SlotIs
<1> HIDE DEF i, n, s, o
<1>5. i * s \in Nat /\ i * s + s <= n * s /\ i * s <= n * s /\ n * s \in Nat
  BY <1>1, <1>2, SlotEnds
<1>6. Signed(i * s) = i * s
  <2> DEFINE x == i * s
  <2>1. x \in Int /\ x \in Nat /\ x < Bit[IntBits - 1]
    BY <1>3, <1>5, Places
  <2> HIDE DEF x
  <2>2. Signed(x) = x
    BY <2>1, SignedRange
  <2> QED
    BY <2>2 DEF x
<1> QED
  BY <1>1, <1>3, <1>4, <1>5, <1>6 DEF i, n, s

\* An index under the mask of a power of two of slots, and the slot behind it.
LEMMA MaskedSlot ==
  ASSUME NEW n \in Power, NEW id \in UInt, NEW s \in Nat
  PROVE  Index(id, n) * s \in Nat /\ Index(id, n) * s + s <= n * s /\ n * s \in Nat
<1>1. PICK m \in Place : n = Bit[m]
  BY DEF Power
<1> DEFINE i == Index(id, n)
<1>2. n \in Nat /\ i \in 0 .. n - 1
  BY <1>1, IndexIs, Places
<1> HIDE DEF i
<1>3. i * s \in Nat /\ i * s + s <= n * s /\ n * s \in Nat
  BY <1>2, SlotEnds
<1> QED
  BY <1>3 DEF i

\* Every call stays in the section of what it is about.
THEOREM InSection == Spec => []AccessInSection
<1>1. ASSUME IInv, Representable, access.part # "none",
             access.part \in {"doubles", "ints"} => cfg.num_vars > 0
      PROVE  lay[access.part] <= access.lo /\ access.hi <= lay[Behind(access.part)]
  <2>1. phase = "mapped" /\ access # NoAccess
    BY <1>1 DEF IInv, AccessRight, NoAccess
  <2>2. PICK p \in PartName, id \in Id : access = Slot(p, id)
    BY <1>1, <2>1 DEF IInv, AccessRight
  <2>3. id \in UInt /\ access.part = p
    BY <2>2, InputAssumption, SlotIs
  <2> DEFINE o == Offsets(cfg)
  <2>4. /\ \A q \in LayName : lay[q] = o[q] /\ o[q] \in Nat
        /\ o.rows >= o.counters + cfg.num_counters * SizeofCounter
        /\ o.doubles >= o.labels + cfg.num_counters * SizeofLabel
        /\ o.ints >= o.doubles + cfg.num_vars * SizeofVarDouble
        /\ o.size >= o.ints + cfg.num_vars * SizeofVarInt
    <3>1. cfg \in [FieldName -> UInt]
      BY <1>1 DEF IInv, ConfigRight
    <3>2. \A q \in LayName : lay[q] = o[q]
      BY <1>1, <2>1, LayoutIsOffsets
    <3>3. \A q \in LayName : o[q] \in Nat
      BY <3>1, OffsetsApart
    <3>4. /\ o.rows >= o.counters + cfg.num_counters * SizeofCounter
          /\ o.doubles >= o.labels + cfg.num_counters * SizeofLabel
          /\ o.ints >= o.doubles + cfg.num_vars * SizeofVarDouble
          /\ o.size >= o.ints + cfg.num_vars * SizeofVarInt
      BY <3>1, OffsetsApart
    <3> HIDE DEF o
    <3> QED
      BY <3>2, <3>3, <3>4
  <2>5. /\ lay.counters \in Nat /\ lay.rows \in Nat /\ lay.labels \in Nat /\ lay.doubles \in Nat
        /\ lay.ints \in Nat /\ lay.size \in Nat
        /\ lay.rows >= lay.counters + cfg.num_counters * SizeofCounter
        /\ lay.doubles >= lay.labels + cfg.num_counters * SizeofLabel
        /\ lay.ints >= lay.doubles + cfg.num_vars * SizeofVarDouble
        /\ lay.size >= lay.ints + cfg.num_vars * SizeofVarInt
    <3> HIDE DEF o
    <3> QED
      BY <2>4 DEF LayName
  <2>6. cfg.num_counters \in Power /\ (cfg.num_vars > 0 => cfg.num_vars \in Power)
    <3>1. cfg.num_counters \in Power /\ cfg.num_vars \in Power \cup {0}
      BY <1>1, <2>1 DEF IInv, ConfigRight
    <3> QED
      BY <3>1
  <2>7. CASE p = "counters"
    <3> DEFINE x == Index(id, cfg.num_counters) * SizeofCounter
    <3>1. x \in Nat /\ x + SizeofCounter <= cfg.num_counters * SizeofCounter
          /\ cfg.num_counters * SizeofCounter \in Nat
      BY <2>3, <2>6, MaskedSlot DEF SizeofCounter
    <3>2. access.lo = lay.counters + x /\ access.hi = access.lo + SizeofCounter
      BY <2>2, <2>7, SlotIs
    <3> HIDE DEF x
    <3>3. lay.counters <= access.lo /\ access.hi <= lay.rows
      BY <2>5, <3>1, <3>2 DEF SizeofCounter
    <3> QED
      BY <2>3, <2>7, <3>3, BehindIs
  <2>8. CASE p = "labels"
    <3> DEFINE x == Index(id, cfg.num_counters) * SizeofLabel
    <3>1. x \in Nat /\ x + SizeofLabel <= cfg.num_counters * SizeofLabel
          /\ cfg.num_counters * SizeofLabel \in Nat
      BY <2>3, <2>6, MaskedSlot DEF SizeofLabel
    <3>2. access.lo = lay.labels + x /\ access.hi = access.lo + SizeofLabel
      BY <2>2, <2>8, SlotIs
    <3> HIDE DEF x
    <3>3. lay.labels <= access.lo /\ access.hi <= lay.doubles
      BY <2>5, <3>1, <3>2 DEF SizeofLabel
    <3> QED
      BY <2>3, <2>8, <3>3, BehindIs
  <2>9. CASE p = "doubles"
    <3> DEFINE x == Index(id, cfg.num_vars) * SizeofVarDouble
    <3>1. x \in Nat /\ x + SizeofVarDouble <= cfg.num_vars * SizeofVarDouble
          /\ cfg.num_vars * SizeofVarDouble \in Nat
      BY <1>1, <2>3, <2>6, <2>9, MaskedSlot DEF SizeofVarDouble
    <3>2. access.lo = lay.doubles + x /\ access.hi = access.lo + SizeofVarDouble
      BY <2>2, <2>9, SlotIs
    <3> HIDE DEF x
    <3>3. lay.doubles <= access.lo /\ access.hi <= lay.ints
      BY <2>5, <3>1, <3>2 DEF SizeofVarDouble
    <3> QED
      BY <2>3, <2>9, <3>3, BehindIs
  <2>10. CASE p = "ints"
    <3> DEFINE x == Index(id, cfg.num_vars) * SizeofVarInt
    <3>1. x \in Nat /\ x + SizeofVarInt <= cfg.num_vars * SizeofVarInt
          /\ cfg.num_vars * SizeofVarInt \in Nat
      BY <1>1, <2>3, <2>6, <2>10, MaskedSlot DEF SizeofVarInt
    <3>2. access.lo = lay.ints + x /\ access.hi = access.lo + SizeofVarInt
      BY <2>2, <2>10, SlotIs
    <3> HIDE DEF x
    <3>3. lay.ints <= access.lo /\ access.hi <= lay.size
      BY <2>5, <3>1, <3>2 DEF SizeofVarInt
    <3> QED
      BY <2>3, <2>10, <3>3, BehindIs
  <2>11. CASE p = "rows"
    <3> DEFINE n == cfg.num_rows  i == id % n  s == RowTotalSize(cfg)
    <3>1. /\ access.lo = lay.rows + i * s /\ access.hi = access.lo + s
          /\ i * s + s <= n * s /\ lay.labels >= lay.rows + n * s
      BY <1>1, <2>1, <2>2, <2>3, <2>11, RowSlot
    <3>2. n \in Nat \ {0} /\ i \in 0 .. n - 1 /\ s \in Nat
      BY <1>1, <2>1, <2>3, RowSlot, ConfigNumbers DEF IInv
    <3> HIDE DEF n, i, s
    <3>3. i * s \in Nat /\ n * s \in Nat
      BY <3>2
    <3>4. lay.rows <= access.lo /\ access.hi <= lay.labels
      BY <2>5, <3>1, <3>2, <3>3
    <3> QED
      BY <2>3, <2>11, <3>4, BehindIs
  <2> QED
    BY <2>7, <2>8, <2>9, <2>10, <2>11 DEF PartName
<1>2. IInv => AccessInSection
  BY <1>1 DEF AccessInSection
<1> QED
  BY <1>2, Inductive, PTL

\* Within one turn two row ids are given rows that do not overlap, over the wrap of
\* the id as well: the number of rows divides the number of values of an id.
THEOREM DistinctRows == Spec => []TurnOfDistinctRows
<1>1. ASSUME IInv, phase = "mapped", Representable, NEW id \in Id, NEW d \in 1 .. cfg.num_rows - 1
      PROVE  LET r == Slot("rows", id)  q == Slot("rows", Unsigned(id + d))
             IN  r.hi <= q.lo \/ q.hi <= r.lo
  <2> DEFINE n == cfg.num_rows  next == Unsigned(id + d)  i == id % n  j == next % n
             s == RowTotalSize(cfg)  b == lay.rows
  <2>1. id \in UInt /\ id \in Nat /\ next \in UInt /\ s \in Nat
    <3>1. id \in UInt
      BY InputAssumption
    <3>2. id \in Nat /\ IntMod \in Nat \ {0}
      BY <3>1, Places DEF UInt
    <3>3. n \in Nat
      BY <1>1, ConfigNumbers DEF IInv
    <3>4. next \in UInt
      <4> DEFINE x == id + d
      <4>1. x \in Int
        BY <3>2, <3>3
      <4> HIDE DEF x
      <4>2. x % IntMod \in 0 .. IntMod - 1
        BY <3>2, <4>1, DivMod
      <4> QED
        BY <4>2 DEF x, Unsigned, UInt
    <3> QED
      BY <1>1, <3>1, <3>2, <3>4, ConfigNumbers DEF IInv
  <2>2. n \in Nat \ {0} /\ i \in 0 .. n - 1 /\ j \in 0 .. n - 1 /\ b \in Nat
    BY <1>1, <2>1, RowSlot
  <2>3. /\ Slot("rows", id).lo = b + i * s /\ Slot("rows", id).hi = Slot("rows", id).lo + s
        /\ Slot("rows", next).lo = b + j * s /\ Slot("rows", next).hi = Slot("rows", next).lo + s
    BY <1>1, <2>1, RowSlot
  <2>4. i # j
    <3>1. PICK m \in Place : n = Bit[m]
      BY <1>1 DEF IInv, ConfigRight, Power
    <3> DEFINE l == Bit[IntBits - m]
    <3>2. IntMod = n * l /\ l \in Nat \ {0}
      <4>1. m \in Nat /\ IntBits - m \in Nat /\ m + (IntBits - m) = IntBits
            /\ IntBits - m \in 0 .. IntBits
        BY Places, BitsAssumption DEF Place
      <4>2. Bit[m + (IntBits - m)] = Bit[m] * l
        BY <4>1, BitProduct, BitsAssumption
      <4>3. l \in Nat \ {0}
        BY <4>1, BitPositive
      <4> QED
        BY <3>1, <4>1, <4>2, <4>3, Places
    <3> DEFINE x == id + d
    <3>3. x \in Nat /\ id < x /\ x - id < n
      BY <2>1, <2>2
    <3>4. next = x % IntMod
      BY DEF Unsigned
    <3> HIDE DEF x, l, n, next
    <3>5. j = x % n
      BY <2>2, <3>2, <3>3, <3>4, ModOfMod
    <3>6. SUFFICES ASSUME i = j PROVE FALSE
      OBVIOUS
    <3>7. x - id >= n
      <4>1. id % n = x % n
        BY <3>5, <3>6
      <4> HIDE DEF i, j
      <4> QED
        BY <2>1, <2>2, <3>3, <4>1, SameRemainderApart
    <3>8. x \in Int /\ id \in Int /\ n \in Int
      BY <2>1, <2>2, <3>3
    <3> QED
      BY <3>3, <3>7, <3>8
  <2> HIDE DEF n, next, i, j, s, b
  <2>5. i * s \in Nat /\ j * s \in Nat
    BY <2>1, <2>2
  <2>6. CASE i < j
    <3>1. (i + 1) * s <= j * s /\ (i + 1) * s = i * s + s
      <4>1. i + 1 \in Nat /\ j \in Nat /\ i + 1 <= j
        BY <2>2, <2>6
      <4> QED
        BY <2>1, <2>2, <4>1, MulKeepsOrder
    <3> QED
      BY <2>1, <2>2, <2>3, <2>5, <3>1 DEF next
  <2>7. CASE j < i
    <3>1. (j + 1) * s <= i * s /\ (j + 1) * s = j * s + s
      <4>1. j + 1 \in Nat /\ i \in Nat /\ j + 1 <= i
        BY <2>2, <2>7
      <4> QED
        BY <2>1, <2>2, <4>1, MulKeepsOrder
    <3> QED
      BY <2>1, <2>2, <2>3, <2>5, <3>1 DEF next
  <2> QED
    BY <2>2, <2>4, <2>6, <2>7
<1>2. IInv => TurnOfDistinctRows
  BY <1>1 DEF TurnOfDistinctRows
<1> QED
  BY <1>2, Inductive, PTL
=============================================================================
