-------------------------- MODULE TimestampsProofs --------------------------
(* Times survive packing where time_t has as many bits as log2mem_ts: the     *)
(* theorems are about the 64 bit build, for any split of the bits.            *)
EXTENDS Timestamps, ModularArithmetic

\* The 64 bit build: seconds are below 2^33, and a second of nanoseconds fits
\* its bits.
Wide ==
  /\ NanoMod \in Nat \ {0} /\ SecMod \in Nat \ {0}
  /\ PerMicro \in Nat \ {0} /\ PerSec \in Nat \ {0}
  /\ TimeMod = NanoMod * SecMod
  /\ PerSec <= NanoMod /\ 2 <= SecMod
  /\ \A s \in Second : s \in Nat /\ 2 * (s + 1) <= SecMod

\* A smaller factor makes a product that is not greater.
LEMMA MulMonotone ==
  ASSUME NEW n \in Nat, NEW a \in Int, NEW b \in Int, a <= b
  PROVE  a * n <= b * n
<1>1. (b - a) * n >= 0
  OBVIOUS
<1>2. b * n = a * n + (b - a) * n
  OBVIOUS
<1>3. a * n \in Int /\ b * n \in Int /\ (b - a) * n \in Int
  OBVIOUS
<1> QED BY <1>1, <1>2, <1>3

\* What lies between two multiples of n is divided as expected.
LEMMA Divided ==
  ASSUME NEW n \in Nat \ {0}, NEW q \in Nat, NEW r \in 0 .. n - 1
  PROVE  (q * n + r) \div n = q /\ (q * n + r) % n = r
<1> DEFINE a == q * n + r
<1>1. a \in Int /\ a = n * q + r
  OBVIOUS
<1> HIDE DEF a
<1>2. /\ a \div n \in Int /\ a % n \in 0 .. n - 1
      /\ a = n * (a \div n) + (a % n)
  BY <1>1, DivMod
<1> DEFINE p == a \div n  m == a % n
<1>3. p \in Int /\ m \in 0 .. n - 1 /\ n * q + r = n * p + m
  BY <1>1, <1>2
<1>4. r = m
  <2> HIDE DEF p, m
  <2> QED BY <1>3, RemainderUnique
<1>5. q = p
  <2> HIDE DEF p, m
  <2>1. n * (q - p) = 0
    BY <1>3, <1>4
  <2>2. CASE q - p >= 1
    BY <2>1, <2>2, <1>3, MulAtLeast
  <2>3. CASE p - q >= 1
    <3>1. n * (p - q) >= n
      BY <2>3, <1>3, MulAtLeast
    <3>2. n * (p - q) = 0
      BY <2>1, <1>3
    <3> QED BY <3>1, <3>2
  <2> QED BY <2>2, <2>3, <1>3
<1> QED BY <1>4, <1>5 DEF a

\* A number below half the range is kept by a time_t.
LEMMA SignedSame ==
  ASSUME TimeMod \in Nat \ {0}, NEW n \in Nat, 2 * n < TimeMod
  PROVE  Signed(n) = n
<1>1. n % TimeMod = n
  OBVIOUS
<1> QED BY <1>1 DEF Signed

-----------------------------------------------------------------------------
\* Seconds and nanoseconds that fit the bits log2mem_ts has for them.
Fits == [sec : {s \in Nat : 2 * (s + 1) <= SecMod}, nano : 0 .. PerSec - 1]

\* A time that fits, and its microseconds, have less than a second's nanoseconds.
LEMMA MicrosFit ==
  ASSUME Wide, NEW m \in Fits
  PROVE  /\ Micros(m) \in Nat
         /\ Micros(m) * PerMicro \in 0 .. NanoMod - 1
         /\ m.nano \in 0 .. NanoMod - 1
<1> DEFINE k == Micros(m)  r == m.nano % PerMicro
<1>1. m.nano \in Nat /\ m.nano < NanoMod /\ PerMicro \in Nat \ {0} /\ NanoMod \in Nat
  BY DEF Fits, Wide
<1>2. k \in Int /\ r \in 0 .. PerMicro - 1 /\ m.nano = PerMicro * k + r
  <2>1. k = m.nano \div PerMicro
    BY DEF Micros
  <2> DEFINE a == m.nano
  <2>2. a \in Int
    BY <1>1
  <2> HIDE DEF a
  <2>3. a \div PerMicro \in Int /\ a % PerMicro \in 0 .. PerMicro - 1
        /\ a = PerMicro * (a \div PerMicro) + (a % PerMicro)
    BY <1>1, <2>2, DivMod
  <2> QED BY <2>1, <2>3 DEF a
<1> HIDE DEF k, r
<1>3. k >= 0
  <2>1. CASE 0 - k >= 1
    <3>1. PerMicro * (0 - k) >= PerMicro
      BY <2>1, <1>1, <1>2, MulAtLeast
    <3>2. PerMicro * (0 - k) = r - m.nano
      BY <1>1, <1>2
    <3> QED BY <3>1, <3>2, <1>1, <1>2
  <2> QED BY <2>1, <1>2
<1>4. k * PerMicro \in Nat
  BY <1>1, <1>2, <1>3
<1>5. k * PerMicro = m.nano - r
  BY <1>1, <1>2
<1> QED BY <1>1, <1>2, <1>3, <1>4, <1>5 DEF k

\* A time that fits is packed without losing a bit.
LEMMA PackExact ==
  ASSUME Wide, NEW sec \in Nat, 2 * (sec + 1) <= SecMod, NEW nano \in 0 .. NanoMod - 1
  PROVE  /\ Pack(sec, nano) = sec * NanoMod + nano
         /\ sec * NanoMod + nano \in Nat
<1> DEFINE t == sec * NanoMod + nano
<1>1. NanoMod \in Nat \ {0} /\ SecMod \in Nat \ {0} /\ TimeMod = NanoMod * SecMod
  BY DEF Wide
<1>2. sec * NanoMod \in Nat
  BY <1>1
<1>3. (2 * (sec + 1)) * NanoMod <= SecMod * NanoMod
  BY <1>1, MulMonotone
<1>4. (2 * (sec + 1)) * NanoMod = 2 * (sec * NanoMod) + 2 * NanoMod
  BY <1>1
<1>5. SecMod * NanoMod = TimeMod /\ TimeMod \in Nat
  BY <1>1
<1>6. t \in Nat /\ 2 * t < TimeMod
  BY <1>1, <1>2, <1>3, <1>4, <1>5
<1> HIDE DEF t
<1>7. TimeMod \in Nat \ {0}
  BY <1>5, <1>6
<1>8. Signed(t) = t
  BY <1>6, <1>7, SignedSame
<1>9. t % TimeMod = t
  BY <1>6, <1>7
<1>10. TsMod = TimeMod
  BY <1>1 DEF TsMod
<1>11. Pack(sec, nano) = Signed(t) % TsMod
  BY DEF Pack, t
<1> QED BY <1>6, <1>8, <1>9, <1>10, <1>11 DEF t

\* What was packed is unpacked again.
LEMMA UnpackExact ==
  ASSUME Wide, NEW sec \in Nat, 2 * (sec + 1) <= SecMod, NEW nano \in 0 .. NanoMod - 1
  PROVE  /\ Seconds(sec * NanoMod + nano) = sec
         /\ Nanos(sec * NanoMod + nano) = nano
<1>1. NanoMod \in Nat \ {0} /\ SecMod \in Nat \ {0} /\ TimeMod = NanoMod * SecMod
  BY DEF Wide
<1>2. (sec * NanoMod + nano) \div NanoMod = sec /\ (sec * NanoMod + nano) % NanoMod = nano
  BY <1>1, Divided
<1>3. sec % SecMod = sec
  BY <1>1
<1>4. SecMod * NanoMod >= SecMod
  BY <1>1, MulAtLeast
<1>5. SecMod * NanoMod = TimeMod /\ TimeMod \in Nat
  BY <1>1
<1>6. 2 * sec < TimeMod /\ TimeMod \in Nat \ {0}
  BY <1>1, <1>4, <1>5
<1>7. Signed(sec) = sec
  BY <1>6, SignedSame
<1> QED BY <1>2, <1>3, <1>7 DEF Seconds, Nanos

-----------------------------------------------------------------------------
\* What makes TimeKept inductive: the row holds the time that was read.
Inv ==
  /\ source \in Sources
  /\ at \in Fits
  /\ source = "CLOCKGETTIME" => ts = at.sec * NanoMod + at.nano
  /\ source = "GETTIMEOFDAY" => ts = at.sec * NanoMod + Micros(at) * PerMicro
  /\ TimeKept

\* A clock that is read is packed, whatever the row would have kept.
LEMMA TakeKeeps ==
  ASSUME Wide, Inv, NEW m \in Moment, NEW old, Take(m, old)
  PROVE  Inv'
<1>1. m \in Fits
  BY DEF Wide, Moment, Fits
<1>2. source' = source /\ at' = m /\ shown' = NoTime /\ source \in Sources
  BY DEF Take, Inv
<1>3. m.sec \in Nat /\ 2 * (m.sec + 1) <= SecMod
  BY <1>1 DEF Fits
<1>4. ASSUME source = "CLOCKGETTIME" PROVE ts' = m.sec * NanoMod + m.nano
  <2>1. ts' = Pack(m.sec, m.nano)
    BY <1>4 DEF Take, ReadClock
  <2> QED BY <2>1, <1>1, <1>3, MicrosFit, PackExact
<1>5. ASSUME source = "GETTIMEOFDAY" PROVE ts' = m.sec * NanoMod + Micros(m) * PerMicro
  <2>1. ts' = Pack(m.sec, Micros(m) * PerMicro)
    BY <1>5 DEF Take, ReadClock
  <2> QED BY <2>1, <1>1, <1>3, MicrosFit, PackExact
<1>6. TimeKept'
  BY <1>2 DEF TimeKept
<1> QED BY <1>1, <1>2, <1>4, <1>5, <1>6 DEF Inv, Micros

\* A dump shows the time the row holds.
LEMMA ShowKeeps ==
  ASSUME Wide, Inv, Show
  PROVE  Inv'
<1>1. UNCHANGED <<source, ts, at>> /\ at \in Fits
  BY DEF Show, Inv
<1>2. at.sec \in Nat /\ 2 * (at.sec + 1) <= SecMod
  BY <1>1 DEF Fits
<1> DEFINE u == Micros(at) * PerMicro
<1>3. u \in 0 .. NanoMod - 1 /\ at.nano \in 0 .. NanoMod - 1 /\ Micros(at) \in Nat
  BY <1>1, MicrosFit
<1>4. ASSUME source = "CLOCKGETTIME" PROVE shown'.sec = at.sec /\ shown'.nano = at.nano
  <2>1. shown' = [sec |-> Seconds(ts), nano |-> Nanos(ts)]
    BY <1>4 DEF Show
  <2>2. ts = at.sec * NanoMod + at.nano
    BY <1>4 DEF Inv
  <2> QED BY <2>1, <2>2, <1>2, <1>3, UnpackExact
<1>5. ASSUME source = "GETTIMEOFDAY" PROVE shown'.sec = at.sec /\ shown'.nano = u
  <2>1. shown' = [sec |-> Seconds(ts), nano |-> (Nanos(ts) \div PerMicro) * PerMicro]
    BY <1>5 DEF Show
  <2>2. ts = at.sec * NanoMod + u
    BY <1>5 DEF Inv
  <2>3. Seconds(ts) = at.sec /\ Nanos(ts) = u
    BY <2>2, <1>2, <1>3, UnpackExact
  <2>4. PerMicro \in Nat \ {0}
    BY DEF Wide
  <2>5. Micros(at) * PerMicro + 0 = u
    BY <1>3, <2>4
  <2>6. (Micros(at) * PerMicro + 0) \div PerMicro = Micros(at)
    BY <1>3, <2>4, Divided
  <2>7. u \div PerMicro = Micros(at)
    BY <2>5, <2>6
  <2> QED BY <2>1, <2>3, <2>7
<1>6. shown' = NoTime \/ source = "CLOCKGETTIME" \/ source = "GETTIMEOFDAY"
  BY DEF Show
<1>7. TimeKept'
  BY <1>1, <1>4, <1>5, <1>6 DEF TimeKept, Micros
<1> QED BY <1>1, <1>7 DEF Inv, Micros

\* The time a dump shows is the time that was read (log2mem_dev.h:57), for
\* every row, in the build whose time_t is as wide as a log2mem_ts.
THEOREM TimesKept ==
  ASSUME Wide
  PROVE  Spec => []TimeKept
<1>1. Init => Inv
  <2> SUFFICES ASSUME Init PROVE Inv
    OBVIOUS
  <2>1. NoTime \in Fits /\ 0 * NanoMod + 0 = 0 /\ 0 * PerMicro = 0
    BY DEF Wide, NoTime, Fits
  <2>2. Micros(NoTime) = 0
    <3>1. PerMicro \in Nat \ {0}
      BY DEF Wide
    <3>2. (0 * PerMicro + 0) \div PerMicro = 0
      BY <3>1, Divided
    <3> QED BY <2>1, <3>1, <3>2 DEF Micros, NoTime
  <2>3. NoTime.sec = 0 /\ NoTime.nano = 0
    BY DEF NoTime
  <2> QED BY <2>1, <2>2, <2>3 DEF Init, Inv, TimeKept
<1>2. Inv /\ [Next]_vars => Inv'
  <2> SUFFICES ASSUME Inv, [Next]_vars PROVE Inv'
    OBVIOUS
  <2>1. CASE InitRow
    BY <2>1, TakeKeeps DEF InitRow
  <2>2. CASE SetTs
    BY <2>2, TakeKeeps DEF SetTs
  <2>3. CASE Show
    BY <2>3, ShowKeeps
  <2>4. CASE UNCHANGED vars
    BY <2>4 DEF vars, Inv, TimeKept, Micros
  <2> QED BY <2>1, <2>2, <2>3, <2>4 DEF Next
<1>3. Inv => TimeKept
  BY DEF Inv
<1> QED BY <1>1, <1>2, <1>3, PTL DEF Spec

\* An earlier time is a smaller log2mem_ts: rows of one clock are compared by
\* their ts alone.
THEOREM EarlierIsSmaller ==
  ASSUME Wide, NEW m \in Fits, NEW n \in Fits,
         m.sec < n.sec \/ (m.sec = n.sec /\ m.nano < n.nano)
  PROVE  Pack(m.sec, m.nano) < Pack(n.sec, n.nano)
<1>1. /\ m.sec \in Nat /\ 2 * (m.sec + 1) <= SecMod
      /\ n.sec \in Nat /\ 2 * (n.sec + 1) <= SecMod
      /\ NanoMod \in Nat \ {0}
  BY DEF Fits, Wide
<1>2. m.nano \in 0 .. NanoMod - 1 /\ n.nano \in 0 .. NanoMod - 1
  BY MicrosFit
<1>3. /\ Pack(m.sec, m.nano) = m.sec * NanoMod + m.nano
      /\ Pack(n.sec, n.nano) = n.sec * NanoMod + n.nano
  BY <1>1, <1>2, PackExact
<1>4. CASE m.sec = n.sec /\ m.nano < n.nano
  <2>1. m.sec * NanoMod \in Int
    BY <1>1
  <2> QED BY <1>2, <1>3, <1>4, <2>1
<1>5. CASE m.sec < n.sec
  <2>1. (m.sec + 1) * NanoMod <= n.sec * NanoMod
    BY <1>1, <1>5, MulMonotone
  <2>2. (m.sec + 1) * NanoMod = m.sec * NanoMod + NanoMod
    BY <1>1
  <2>3. m.sec * NanoMod \in Int /\ n.sec * NanoMod \in Int
    BY <1>1
  <2> QED BY <1>1, <1>2, <1>3, <2>1, <2>2, <2>3
<1> QED BY <1>4, <1>5
=============================================================================
