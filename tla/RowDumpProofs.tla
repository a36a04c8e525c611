--------------------------- MODULE RowDumpProofs ---------------------------
(***************************************************************************)
(* Proofs about RowDump: what print_rows shows of a row which one thread   *)
(* writes, and which is not claimed again while it is printed, is that     *)
(* thread's message, though the utility takes no lock and the thread goes  *)
(* on writing; and a dump of a log whose program is over leaves out no     *)
(* row, shows none twice, is in the order the rows were claimed, and never *)
(* stands still; for any threads, rows, laps, row length and item sizes.   *)
(***************************************************************************)
EXTENDS RowDump, RowLogProofs

-----------------------------------------------------------------------------
(* The log a dump finds.                                                   *)

\* A claim and a later one less than a turn before the end are of the same slot.
LEMMA SameSlotLater ==
  ASSUME NEW c \in Nat, NEW n \in Nat, c < n
  PROVE  \E k \in Nat : k \in n - NumRows .. n - 1 /\ c <= k /\ Slot(k) = Slot(c)
<1> DEFINE a == (n - 1) - c  r == a % NumRows  q == a \div NumRows  k == (n - 1) - r
<1>1. NumRows \in Nat \ {0}
  BY RowsAssumption
<1>2. a \in Nat /\ a \in Int
  OBVIOUS
<1>3. q \in Int /\ r \in 0 .. NumRows - 1 /\ a = NumRows * q + r
  BY <1>1, <1>2, DivMod
<1> HIDE DEF q, r
<1>4. q >= 0
  <2>1. CASE q <= -1
    <3>1. NumRows * (-q) >= NumRows
      BY <1>1, <1>3, <2>1, MulAtLeast
    <3>2. NumRows * q = -(NumRows * (-q))
      BY <1>1, <1>3
    <3>3. NumRows * (-q) \in Int /\ NumRows * q \in Int
      BY <1>1, <1>3
    <3> HIDE DEF a
    <3> QED BY <1>1, <1>2, <1>3, <3>1, <3>2, <3>3
  <2> QED BY <1>3, <2>1
<1>5. NumRows * q \in Nat
  BY <1>1, <1>3, <1>4
<1>6. k = c + NumRows * q /\ k \in Nat
  BY <1>1, <1>3, <1>5
<1>7. k \in n - NumRows .. n - 1 /\ c <= k
  <2>1. k \in n - NumRows .. n - 1
    BY <1>1, <1>3
  <2> QED BY <1>5, <1>6, <2>1
<1>8. k % NumRows = c % NumRows
  <2> DEFINE x == k \div NumRows  y == c \div NumRows  v == k % NumRows  w == c % NumRows
  <2>1. /\ x \in Int /\ v \in 0 .. NumRows - 1 /\ k = NumRows * x + v
        /\ y \in Int /\ w \in 0 .. NumRows - 1 /\ c = NumRows * y + w
    <3>1. k \in Int /\ c \in Int
      BY <1>6
    <3> HIDE DEF k
    <3> QED BY <1>1, <3>1, DivMod
  <2> HIDE DEF x, y, v, w, k
  <2>2. NumRows * x + v = NumRows * (y + q) + w
    <3>1. NumRows * (y + q) = NumRows * y + NumRows * q
      BY <1>1, <1>3, <2>1
    <3> DEFINE nx == NumRows * x  ny == NumRows * y  nq == NumRows * q  s == NumRows * (y + q)
    <3>2. nx \in Int /\ ny \in Int /\ nq \in Nat
      BY <1>1, <1>5, <2>1
    <3>3. k = nx + v /\ c = ny + w /\ k = c + nq /\ s = ny + nq
      BY <1>6, <2>1, <3>1
    <3> HIDE DEF nx, ny, nq, s
    <3>4. nx + v = s + w
      BY <2>1, <3>2, <3>3
    <3> QED BY <3>4 DEF nx, s
  <2>3. y + q \in Int
    BY <1>3, <2>1
  <2> DEFINE z == y + q
  <2> HIDE DEF z
  <2>4. v = w
    BY <1>1, <2>1, <2>2, <2>3, RemainderUnique DEF z
  <2> QED BY <2>4 DEF v, w
<1> QED BY <1>6, <1>7, <1>8, SlotFacts

\* The claim a slot was last given: one of that slot, and the newest.
LEMMA LastClaimFacts ==
  ASSUME NEW n \in Nat
  PROVE  /\ \A s \in Slots :
              LastClaim(s, n) # Nobody =>
                LastClaim(s, n) \in Nat /\ LastClaim(s, n) < n /\ Slot(LastClaim(s, n)) = s
         /\ \A c \in 0 .. n - 1 : c <= LastClaim(Slot(c), n) /\ LastClaim(Slot(c), n) # Nobody
<1> DEFINE Cs(s) == {k \in Nat \cap (n - NumRows .. n - 1) : Slot(k) = s}
<1>0. NumRows \in Nat \ {0}
  BY RowsAssumption
<1>1. ASSUME NEW s
      PROVE  /\ Cs(s) = {} => LastClaim(s, n) = Nobody
             /\ Cs(s) # {} => LastClaim(s, n) \in Cs(s)
  BY DEF LastClaim
<1>2. ASSUME NEW s \in Slots, LastClaim(s, n) # Nobody
      PROVE  LastClaim(s, n) \in Nat /\ LastClaim(s, n) < n /\ Slot(LastClaim(s, n)) = s
  <2>1. LastClaim(s, n) \in Cs(s)
    BY <1>1, <1>2
  <2> QED BY <1>0, <2>1
<1>3. ASSUME NEW c \in 0 .. n - 1
      PROVE  c <= LastClaim(Slot(c), n) /\ LastClaim(Slot(c), n) # Nobody
  <2>1. PICK k \in Nat : k \in n - NumRows .. n - 1 /\ c <= k /\ Slot(k) = Slot(c)
    BY SameSlotLater
  <2> DEFINE l == LastClaim(Slot(c), n)
  <2>2. k \in Cs(Slot(c))
    BY <2>1
  <2>3. l \in Cs(Slot(c))
    BY <1>1, <2>2
  <2>4. l \in Nat /\ l \in n - NumRows .. n - 1 /\ Slot(l) = Slot(k)
    BY <2>1, <2>3
  <2> HIDE DEF l
  <2>5. l = k
    <3>1. CASE l < k
      BY <1>0, <2>1, <2>4, <3>1, ClaimsOfASlot
    <3>2. CASE k < l
      BY <1>0, <2>1, <2>4, <3>2, ClaimsOfASlot
    <3> QED BY <2>4, <3>1, <3>2
  <2>6. c <= l /\ l # Nobody
    BY <2>1, <2>4, <2>5 DEF Nobody
  <2> QED BY <2>6 DEF l
<1> QED BY <1>2, <1>3

\* A slot that was never claimed has no content.
Unclaimed == \A s \in Slots : owner[s] = Nobody => rows[s].datalen = 0

\* The log a dump finds, whatever was logged before, is one of RowLog.
LEMMA BegunInv ==
  ASSUME earlier \in Nat, NEW t \in Thread, Begun(t)
  PROVE  WholeInv /\ Unclaimed
<1> DEFINE Had(s) == [EmptyRow EXCEPT !.id = RowId(owner[s]),
                   !.tid = IF "THREADID" \in Options THEN t ELSE @,
                   !.ts  = IF "CLOCK" \in Options THEN owner[s] ELSE @]
<1>1. /\ claims = earlier /\ clean = [s \in Slots |-> TRUE]
      /\ owner = [s \in Slots |-> LastClaim(s, earlier)]
      /\ rows = [s \in Slots |-> IF owner[s] = Nobody THEN EmptyRow ELSE Had(s)]
      /\ pc = [u \in Thread |-> "idle"] /\ claim = [u \in Thread |-> 0]
      /\ todo = [u \in Thread |-> <<>>] /\ seen = [u \in Thread |-> 0] /\ overrun = FALSE
  BY DEF Begun
<1>0. claims = earlier /\ owner = [s \in Slots |-> LastClaim(s, earlier)]
  BY DEF Begun
<1>2. ASSUME NEW s \in Slots
      PROVE  /\ owner[s] \in Nat \cup {Nobody}
             /\ owner[s] # Nobody => owner[s] \in Nat /\ owner[s] < claims /\ Slot(owner[s]) = s
  BY <1>0, LastClaimFacts
<1>3. \A c \in 0 .. claims - 1 : c <= owner[Slot(c)]
  <2> SUFFICES ASSUME NEW c \in 0 .. claims - 1 PROVE c <= owner[Slot(c)]
    OBVIOUS
  <2>1. c \in Nat /\ c \in 0 .. earlier - 1
    BY <1>0
  <2>2. Slot(c) \in Slots
    BY <2>1, SlotFacts
  <2> QED BY <1>0, <2>1, <2>2, LastClaimFacts
<1>4. EmptyRow \in RowType /\ EmptyRow.datalen = 0
  <2>1. Blank \in Cell
    BY SizeAssumption DEF Blank, Cell
  <2>2. [o \in 0 .. RowLen - 1 |-> Blank] \in [0 .. RowLen - 1 -> Cell]
    BY <2>1
  <2>3. IdMod \in Nat \ {0}
    BY RowsAssumption, MulAtLeast DEF IdMod
  <2>4. 0 \in 0 .. IdMod - 1 /\ 0 \in Nat
    BY <2>3
  <2> QED BY <2>2, <2>4 DEF EmptyRow, RowType
<1>5. ASSUME NEW s \in Slots, owner[s] # Nobody
      PROVE  /\ Had(s) \in RowType /\ Had(s).datalen = 0 /\ Had(s).id = RowId(owner[s])
             /\ "CLOCK" \in Options => Had(s).ts = owner[s]
  <2>1. owner[s] \in Nat /\ RowId(owner[s]) \in 0 .. IdMod - 1
    BY <1>2, <1>5, SlotFacts
  <2> QED BY <1>4, <2>1 DEF RowType, EmptyRow
<1> HIDE DEF Had
<1>6. ASSUME NEW s \in Slots
      PROVE  rows[s] \in RowType /\ rows[s].datalen = 0
  BY <1>1, <1>4, <1>5
<1>7. TypeOK
  <2>1. rows \in [Slots -> RowType] /\ owner \in [Slots -> Nat \cup {Nobody}]
    BY <1>1, <1>2, <1>6
  <2>2. todo \in [Thread -> Seq(Pushes)]
    <3>1. <<>> \in Seq(Pushes)
      BY EmptySeq
    <3> QED BY <1>1, <3>1
  <2>3. pc \in [Thread -> Labels] /\ claim \in [Thread -> Nat] /\ seen \in [Thread -> Nat]
    BY <1>1 DEF Labels
  <2>4. \A u \in Thread : pc[u] = "idle"
    BY <1>1
  <2>5. claims \in Nat /\ clean \in [Slots -> BOOLEAN] /\ overrun \in BOOLEAN
    BY <1>1
  <2> QED BY <2>1, <2>2, <2>3, <2>4, <2>5 DEF TypeOK
<1>8. \A u \in Thread : pc[u] = "idle" /\ todo[u] = <<>>
  BY <1>1
<1>9. OwnerOK
  BY <1>2, <1>3, <1>8 DEF OwnerOK
<1>10. ProgressOK
  <2>1. ASSUME NEW u \in Thread
        PROVE  ItemsOK(u)
    <3>1. todo[u] = <<>> /\ Len(todo[u]) = 0 /\ 2 .. 0 = {}
      BY <1>8, EmptySeq
    <3> QED BY <3>1 DEF ItemsOK
  <2> QED BY <1>8, <2>1 DEF ProgressOK
<1>11. ASSUME NEW s \in Slots, owner[s] # Nobody
       PROVE  Carries(s, owner[s])
  <2>1. rows[s] = Had(s) /\ rows[s].datalen = 0
    BY <1>1, <1>6, <1>11
  <2> QED BY <1>5, <1>11, <2>1, LenAssumption DEF Carries
<1>12. RowInv
  BY <1>7, <1>9, <1>10, <1>11 DEF RowInv, CleanRowIntact
<1>13. \A s \in Slots : WholeRow(s)
  BY <1>6 DEF WholeRow, WholeCells
<1>14. WholeInv
  BY <1>8, <1>12, <1>13 DEF WholeInv
<1> QED BY <1>6, <1>14 DEF Unclaimed

-----------------------------------------------------------------------------
(* A row under a reader.                                                   *)

LEMMA SameCell ==
  ASSUME NEW a \in Cell, NEW b \in Cell, a.by = b.by, a.item = b.item, a.at = b.at
  PROVE  a = b
BY DEF Cell

\* What a settled row holds is still there after a step, and the row still settled.
Grows(s) ==
  /\ Settled(s)' /\ rows[s].datalen <= rows'[s].datalen
  /\ \A o \in 0 .. rows[s].datalen - 1 : rows'[s].cells[o] = rows[s].cells[o]

\* What slot s holds is its message, of the claim it was last given.
Stored(s) ==
  /\ Carries(s, owner[s]) /\ rows[s].datalen \in Nat /\ rows[s].datalen <= RowLen
  /\ Message(s) \in Seq(CellImage) /\ Len(Message(s)) = rows[s].datalen
  /\ \A o \in 0 .. rows[s].datalen - 1 :
       /\ rows[s].cells[o] \in Cell /\ rows[s].cells[o].by = owner[s]
       /\ Message(s)[o + 1] = [item |-> rows[s].cells[o].item, at |-> rows[s].cells[o].at]

\* A settled row with an owner is its message.
LEMMA SettledRow ==
  ASSUME RowInv, NEW s \in Slots, Settled(s), owner[s] # Nobody
  PROVE  Stored(s)
<1>1. Carries(s, owner[s]) /\ rows[s].datalen <= RowLen
  BY DEF RowInv, CleanRowIntact, Carries
<1>2. rows[s] \in RowType
  BY RowsTyped DEF RowInv
<1>3. rows[s].datalen \in Nat /\ rows[s].cells \in [0 .. RowLen - 1 -> Cell]
  BY <1>2 DEF RowType
<1>4. Message(s) = Content(rows[s])
  BY DEF Message, Content, Settled
<1> DEFINE d == rows[s].datalen  m == Message(s)
<1>5. /\ m \in Seq(CellImage) /\ Len(m) = d
      /\ \A o \in 1 .. d :
           m[o] = [item |-> rows[s].cells[o - 1].item, at |-> rows[s].cells[o - 1].at]
  BY <1>1, <1>2, <1>4, ContentFacts
<1>6. \A o \in 0 .. d - 1 : rows[s].cells[o].by = owner[s]
  BY <1>1 DEF Carries
<1> HIDE DEF m
<1>7. ASSUME NEW o \in 0 .. d - 1
      PROVE  /\ rows[s].cells[o] \in Cell /\ rows[s].cells[o].by = owner[s]
             /\ m[o + 1] = [item |-> rows[s].cells[o].item, at |-> rows[s].cells[o].at]
  <2>1. d \in Nat /\ d <= RowLen
    BY <1>1, <1>3
  <2>2. o \in 0 .. RowLen - 1 /\ o + 1 \in 1 .. d /\ (o + 1) - 1 = o
    <3> HIDE DEF d
    <3> QED BY <2>1, LenAssumption
  <2> QED BY <1>3, <1>5, <1>6, <2>2
<1> QED BY <1>1, <1>3, <1>5, <1>7 DEF m, Stored

\* Also after a step.
LEMMA SettledRows == RowInv => \A s \in Slots : (Settled(s) /\ owner[s] # Nobody) => Stored(s)
BY SettledRow

LEMMA SettledRowsNext ==
  RowInv' => \A s \in Slots : (Settled(s)' /\ owner'[s] # Nobody) => Stored(s)'
<1>1. (RowInv => \A s \in Slots : (Settled(s) /\ owner[s] # Nobody) => Stored(s))'
  BY SettledRows, PTL
<1> QED BY <1>1 DEF Nobody, Slots

\* A step leaves in a settled row what it holds: the messages before and after it
\* begin alike, and so do the cells they are read from.
LEMMA RowStepGrows ==
  ASSUME WholeInv, NEW t \in Thread, RowStep(t), NEW s \in Slots, Settled(s), owner[s] # Nobody
  PROVE  Grows(s)
<1>0. RowInv /\ RowInv' /\ TypeOK /\ owner' = owner /\ clean[s] /\ pc[t] # "idle"
  <2>1. RowInv /\ TypeOK /\ OwnerOK
    BY DEF WholeInv, RowInv
  <2>2. TypeOK' /\ OwnerOK' /\ ProgressOK' /\ CleanRowIntact'
    BY <2>1, StepType, StepOwner, StepInv
  <2> QED BY <2>1, <2>2, RowFrame DEF RowInv, Settled
<1>1. rows[s].datalen \in Nat
  BY <1>0, SettledRow DEF Stored
<1>2. CASE s # MySlot(t)
  BY <1>0, <1>1, <1>2, OtherSettled DEF Grows
<1>3. CASE s = MySlot(t)
  <2>1. pc[t] \notin Filling
    BY <1>0, <1>3, SettledAlone
  <2>2. pc'[t] \notin Filling
    BY <1>0, <2>1 DEF RowStep, Stamp, StoreId, ResetLen, CheckRoom, NoRoom, PutCells, LoadLen,
                  StoreLen, Append1, SetTs, LetGo, Goto, Filling, TypeOK
  <2>3. Settled(s)'
    BY <1>0, <1>3, <2>2, OwnSettled
  <2> DEFINE m == Message(s)  w == Message(s)'  d == rows[s].datalen  e == rows'[s].datalen
  <2>4. /\ m \in Seq(CellImage) /\ Len(m) = d /\ d \in Nat
        /\ \A o \in 0 .. d - 1 :
             /\ rows[s].cells[o] \in Cell /\ rows[s].cells[o].by = owner[s]
             /\ m[o + 1] = [item |-> rows[s].cells[o].item, at |-> rows[s].cells[o].at]
    BY <1>0, SettledRow DEF Stored
  <2>5. /\ w \in Seq(CellImage) /\ Len(w) = e /\ e \in Nat
        /\ \A o \in 0 .. e - 1 :
             /\ rows'[s].cells[o] \in Cell /\ rows'[s].cells[o].by = owner'[s]
             /\ w[o + 1] = [item |-> rows'[s].cells[o].item, at |-> rows'[s].cells[o].at]
    <3>1. Stored(s)'
      BY <1>0, <2>3, SettledRowsNext
    <3> QED BY <3>1 DEF Stored
  <2>6. d <= e /\ \A o \in 1 .. d : w[o] = m[o]
    <3>1. CASE StoreLen(t)
      <4> DEFINE img == Head(todo[t]).img
      <4>1. w = m \o img
        BY <1>0, <1>3, <3>1, OwnMessage
      <4>2. img \in Seq(CellImage)
        <5>1. todo[t] # <<>>
          BY <1>0, <3>1 DEF StoreLen, TypeOK
        <5> QED BY <1>0, <5>1, TodoFacts, PushFacts
      <4> HIDE DEF img, m, w
      <4> QED BY <2>4, <2>5, <4>1, <4>2, ConcatProperties, LenProperties
    <3>2. CASE ~StoreLen(t)
      <4>1. w = m
        BY <1>0, <1>3, <3>2, OwnMessage
      <4> HIDE DEF m, w
      <4> QED BY <2>4, <2>5, <4>1
    <3> QED BY <3>1, <3>2
  <2>7. ASSUME NEW o \in 0 .. d - 1
        PROVE  rows'[s].cells[o] = rows[s].cells[o]
    <3> HIDE DEF m, w
    <3>1. o \in 0 .. e - 1 /\ o + 1 \in 1 .. d
      <4>1. d \in Nat /\ e \in Nat /\ d <= e
        BY <2>4, <2>5, <2>6
      <4> HIDE DEF d, e
      <4> QED BY <4>1
    <3>2. w[o + 1] = m[o + 1]
      BY <2>6, <3>1
    <3>3. /\ rows'[s].cells[o] \in Cell /\ rows[s].cells[o] \in Cell
          /\ rows'[s].cells[o].by = rows[s].cells[o].by
          /\ rows'[s].cells[o].item = rows[s].cells[o].item
          /\ rows'[s].cells[o].at = rows[s].cells[o].at
      <4>1. /\ rows[s].cells[o] \in Cell /\ rows[s].cells[o].by = owner[s]
            /\ m[o + 1] = [item |-> rows[s].cells[o].item, at |-> rows[s].cells[o].at]
        BY <2>4
      <4>2. /\ rows'[s].cells[o] \in Cell /\ rows'[s].cells[o].by = owner'[s]
            /\ w[o + 1] = [item |-> rows'[s].cells[o].item, at |-> rows'[s].cells[o].at]
        BY <2>5, <3>1
      <4>3. owner'[s] = owner[s]
        BY <1>0
      <4> QED BY <3>2, <4>1, <4>2, <4>3
    <3> QED BY <3>3, SameCell
  <2> QED BY <2>3, <2>6, <2>7 DEF Grows
<1> QED BY <1>2, <1>3

\* What a step of the program may do to the slots: owners only get newer, sharing
\* begins or ends only with a new owner, and what a settled row holds stays.
Onward ==
  /\ Unclaimed'
  /\ \A s \in Slots :
       /\ owner[s] <= owner'[s]
       /\ owner'[s] = owner[s] => clean'[s] = clean[s]
       /\ (Settled(s) /\ owner[s] # Nobody /\ owner'[s] = owner[s]) => Grows(s)

\* A claim gives its slot a newer owner and touches no other.
LEMMA ClaimOnward ==
  ASSUME WholeInv, Unclaimed, NEW t \in Thread, NEW q, InitRow(t, q)
  PROVE  Onward
<1> PICK n : n = Slot(claims)
  OBVIOUS
<1>1. /\ n \in Slots /\ claims \in Nat /\ rows' = rows
      /\ pc[t] = "idle" /\ pc' = [pc EXCEPT ![t] = "stamp"]
      /\ claim' = [claim EXCEPT ![t] = claims]
      /\ owner' = [owner EXCEPT ![n] = claims]
      /\ clean' = [clean EXCEPT ![n] = \A u \in Thread : ~Holds(u, n)]
      /\ TypeOK /\ OwnerOK
  BY SlotFacts DEF WholeInv, RowInv, TypeOK, InitRow, Goto
<1>2. \A s \in Slots : owner[s] \in Nat \cup {Nobody} /\ rows[s].datalen \in Nat
  BY <1>1 DEF TypeOK, RowType
<1>3. owner[n] < claims /\ owner'[n] = claims /\ claims # Nobody
  BY <1>1, <1>2 DEF OwnerOK, TypeOK, Nobody
<1>4. ASSUME NEW s \in Slots, s # n
      PROVE  /\ owner'[s] = owner[s] /\ clean'[s] = clean[s]
             /\ Settled(s)' <=> Settled(s)
  <2>1. clean'[s] = clean[s] /\ owner'[s] = owner[s]
    BY <1>1, <1>4 DEF TypeOK
  <2>2. pc'[t] = "stamp" /\ MySlot(t)' = n
    BY <1>1 DEF TypeOK, MySlot
  <2>3. \A u \in Thread \ {t} : pc'[u] = pc[u] /\ claim'[u] = claim[u]
    BY <1>1 DEF TypeOK
  <2>4. \A u \in Thread : Holds(u, s)' /\ pc'[u] \in Filling <=> Holds(u, s) /\ pc[u] \in Filling
    BY <1>1, <1>4, <2>2, <2>3 DEF Holds, MySlot
  <2> QED BY <2>1, <2>4 DEF Settled
<1>5. Unclaimed'
  BY <1>1, <1>3, <1>4 DEF Unclaimed, Nobody, Slots
<1>6. ASSUME NEW s \in Slots
      PROVE  /\ owner[s] <= owner'[s]
             /\ owner'[s] = owner[s] => clean'[s] = clean[s]
             /\ (Settled(s) /\ owner[s] # Nobody /\ owner'[s] = owner[s]) => Grows(s)
  <2>0. owner[s] \in Int /\ rows[s].datalen \in Nat
    BY <1>2 DEF Nobody
  <2>1. CASE s = n
    <3>1. owner[s] < claims /\ owner'[s] = claims /\ claims \in Int
      BY <1>1, <1>3, <2>1
    <3>2. owner[s] <= owner'[s] /\ owner'[s] # owner[s]
      BY <2>0, <3>1
    <3> QED BY <3>2
  <2>2. CASE s # n
    <3>1. owner'[s] = owner[s] /\ clean'[s] = clean[s] /\ rows' = rows
          /\ (Settled(s)' <=> Settled(s))
      BY <1>1, <1>4, <2>2
    <3>2. owner[s] <= owner'[s]
      BY <2>0, <3>1
    <3>3. Settled(s) => Grows(s)
      BY <2>0, <3>1 DEF Grows
    <3> QED BY <3>1, <3>2, <3>3
  <2> QED BY <2>1, <2>2
<1> QED BY <1>5, <1>6 DEF Onward

\* A step of a row changes only a row that was claimed.
LEMMA RowStepOnward ==
  ASSUME WholeInv, Unclaimed, NEW t \in Thread, RowStep(t)
  PROVE  Onward
<1>1. /\ TypeOK /\ OwnerOK /\ owner' = owner /\ clean' = clean /\ pc[t] # "idle"
      /\ \A s \in Slots \ {MySlot(t)} : rows'[s] = rows[s]
  BY RowFrame DEF WholeInv, RowInv
<1>2. owner[MySlot(t)] # Nobody
  <2>1. claim[t] \in Nat /\ claim[t] \in 0 .. claims - 1
    BY <1>1 DEF TypeOK
  <2>2. MySlot(t) \in Slots /\ claim[t] <= owner[MySlot(t)]
    BY <1>1, <2>1, SlotFacts DEF OwnerOK, MySlot
  <2>3. owner[MySlot(t)] \in Nat \cup {Nobody}
    BY <1>1, <2>2 DEF TypeOK
  <2> QED BY <2>1, <2>2, <2>3 DEF Nobody
<1>3. Unclaimed'
  BY <1>1, <1>2 DEF Unclaimed, Nobody, Slots
<1>4. ASSUME NEW s \in Slots
      PROVE  owner[s] <= owner'[s]
  <2>1. owner[s] \in Nat \cup {Nobody}
    BY <1>1 DEF TypeOK
  <2>2. owner[s] \in Int
    BY <2>1 DEF Nobody
  <2> QED BY <1>1, <2>2
<1>5. \A s \in Slots : (Settled(s) /\ owner[s] # Nobody) => Grows(s)
  BY RowStepGrows
<1> QED BY <1>1, <1>3, <1>4, <1>5 DEF Onward

LEMMA NextOnward ==
  ASSUME WholeInv, Unclaimed, Next
  PROVE  Onward
<1>1. PICK t \in Thread : Step(t)
  BY DEF Next
<1>2. CASE GetRow(t) \/ Write(t) \/ TimeEvent(t)
  BY <1>2, ClaimSteps, ClaimOnward
<1>3. CASE RowStep(t)
  BY <1>3, RowStepOnward
<1> QED BY <1>1, <1>2, <1>3 DEF Step, RowStep

-----------------------------------------------------------------------------
(* The items of a line.                                                    *)

ItemType == [by : Nat \cup {Nobody}, item : Item, head : BOOLEAN, pos : Nat]

\* Items of one claim's message, in order and without a gap.
Chain(q, c) ==
  /\ \A m \in 1 .. Len(q) : q[m].by = c /\ q[m].head
  /\ Len(q) > 0 => q[1].pos = 0
  /\ \A m \in 1 .. Len(q) - 1 : q[m + 1].pos = q[m].pos + Size[q[m].item]

\* Where the item behind q begins.
EndOf(q) == IF Len(q) = 0 THEN 0 ELSE q[Len(q)].pos + Size[q[Len(q)].item]

\* A chain goes on with an item at its end.
LEMMA ChainAppend ==
  ASSUME NEW q \in Seq(ItemType), NEW x \in ItemType, NEW c, Chain(q, c),
         x.by = c, x.head, x.pos = EndOf(q)
  PROVE  /\ Append(q, x) \in Seq(ItemType) /\ Chain(Append(q, x), c)
         /\ Len(Append(q, x)) = Len(q) + 1 /\ Append(q, x)[Len(q) + 1] = x
<1> DEFINE n == Len(q)  w == Append(q, x)
<1>1. /\ w \in Seq(ItemType) /\ Len(w) = n + 1 /\ n \in Nat /\ w[n + 1] = x
      /\ \A m \in 1 .. n : w[m] = q[m]
  BY AppendProperties, LenProperties
<1>2. /\ \A m \in 1 .. n : q[m].by = c /\ q[m].head
      /\ n > 0 => q[1].pos = 0
      /\ \A m \in 1 .. n - 1 : q[m + 1].pos = q[m].pos + Size[q[m].item]
      /\ x.pos = IF n = 0 THEN 0 ELSE q[n].pos + Size[q[n].item]
  BY DEF Chain, EndOf
<1> HIDE DEF n, w
<1>3. ASSUME NEW m \in 1 .. Len(w)
      PROVE  w[m].by = c /\ w[m].head
  <2>1. CASE m = n + 1
    BY <1>1, <2>1
  <2>2. CASE m # n + 1
    <3>1. m \in 1 .. n
      BY <1>1, <2>2
    <3> QED BY <1>1, <1>2, <3>1
  <2> QED BY <2>1, <2>2
<1>4. w[1].pos = 0
  <2>1. CASE n = 0
    BY <1>1, <1>2, <2>1
  <2>2. CASE n # 0
    <3>1. 1 \in 1 .. n /\ n > 0
      BY <1>1, <2>2
    <3> QED BY <1>1, <1>2, <3>1
  <2> QED BY <2>1, <2>2
<1>5. ASSUME NEW m \in 1 .. Len(w) - 1
      PROVE  w[m + 1].pos = w[m].pos + Size[w[m].item]
  <2>1. CASE m = n
    <3>1. n # 0 /\ m \in 1 .. n
      BY <1>1, <2>1
    <3> QED BY <1>1, <1>2, <2>1, <3>1
  <2>2. CASE m # n
    <3>1. m \in 1 .. n - 1 /\ m \in 1 .. n /\ m + 1 \in 1 .. n
      BY <1>1, <2>2
    <3> QED BY <1>1, <1>2, <3>1
  <2> QED BY <2>1, <2>2
<1>6. Chain(w, c)
  BY <1>3, <1>4, <1>5 DEF Chain
<1> QED BY <1>1, <1>6 DEF n, w

\* Where the walk of a whole row by hdr->len is, between two items: behind as many
\* cells as the items printed take.
Between(q, c, o, r) ==
  /\ Chain(q, c) /\ EndOf(q) = o /\ Len(q) <= o /\ o <= r.datalen
  /\ o > 0 => r.cells[o - 1].at = Size[r.cells[o - 1].item] - 1

\* And at an item it has printed.
AtItem(q, c, o, r) ==
  /\ Chain(q, c) /\ Len(q) \in 1 .. o + 1 /\ o < r.datalen
  /\ q[Len(q)].pos = o /\ q[Len(q)].item = r.cells[o].item /\ r.cells[o].at = 0

\* Behind a whole item comes the first cell of the next one.
LEMMA HeadNext ==
  ASSUME NEW r \in RowType, r.datalen <= RowLen, WholeCells(r.cells, r.datalen),
         NEW o \in Nat, o < r.datalen,
         o > 0 => r.cells[o - 1].at = Size[r.cells[o - 1].item] - 1
  PROVE  r.cells[o] \in Cell /\ r.cells[o].at = 0
<1> DEFINE a == r.cells  c == a[o]  z == Size[c.item]
<1>1. /\ r.datalen \in Nat /\ a \in [0 .. RowLen - 1 -> Cell] /\ o \in 0 .. r.datalen - 1
      /\ o \in 0 .. RowLen - 1
  BY LenAssumption DEF RowType
<1>2. c \in Cell
  BY <1>1
<1>3. c.at \in Nat /\ z \in Nat \ {0}
  BY <1>2, SizeAssumption DEF Cell
<1>4. /\ o - c.at >= 0 /\ c.at < z
      /\ \A k \in 0 .. z - 1 : a[o - c.at + k] = [by |-> c.by, item |-> c.item, at |-> k]
  BY <1>1 DEF WholeCells, WholeCell
<1> DEFINE p == c.at
<1>5. ASSUME p > 0
      PROVE  FALSE
  <2>1. p \in Nat /\ z \in Nat /\ p < z /\ o - p >= 0
    BY <1>3, <1>4
  <2> HIDE DEF p, z
  <2>2. o > 0 /\ p - 1 \in 0 .. z - 1 /\ o - p + (p - 1) = o - 1
    BY <1>5, <2>1
  <2>3. a[o - p + (p - 1)] = [by |-> c.by, item |-> c.item, at |-> p - 1]
    BY <1>4, <2>2 DEF p, z
  <2>4. a[o - 1].item = c.item /\ a[o - 1].at = p - 1
    BY <2>2, <2>3
  <2>5. a[o - 1].at = z - 1
    BY <2>2, <2>4 DEF z
  <2> QED BY <2>1, <2>4, <2>5
<1>6. p = 0
  BY <1>3, <1>5
<1> QED BY <1>2, <1>6

-----------------------------------------------------------------------------
(* The reader's invariant.                                                 *)

LineType == [slot : Slots, id : 0 .. IdMod - 1, ts : Nat \cup {Nobody},
             tid : Thread \cup {NoThread}, items : Seq(ItemType),
             of : Nat \cup {Nobody}, from : Nat, whole : BOOLEAN]

\* No more lines are printed than turns of the loop were made.
ReaderType ==
  /\ alive \in BOOLEAN /\ late \in BOOLEAN
  /\ rd \in {"scan", "row", "head", "item", "step", "done"}
  /\ i \in 0 .. NumRows /\ low \in 0 .. IdMod - 1 /\ off \in Nat
  /\ line \in LineType /\ lines \in Seq(LineType)
  /\ Len(lines) <= i /\ (rd = "scan" => lines = <<>>)
  /\ rd \in {"head", "item", "step"} => i < NumRows

\* So far the line is of a row that its claim alone has written.
Good == line.whole /\ clean[line.slot] /\ owner[line.slot] = line.of

\* What was read of such a row for the line: its header, and its items up to off.
\* The row can only have grown since; and once a line is not good any more, it
\* never becomes so again, for its slot's owner is newer.
LineOK ==
  rd \in {"head", "item", "step"} =>
  /\ line.of <= owner[line.slot] /\ line.from > 0
  /\ Good =>
       /\ Settled(line.slot) /\ line.of # Nobody /\ line.from <= rows[line.slot].datalen
       /\ rd = "head" => line.items = <<>>
       /\ rd # "head" => line.id = RowId(line.of) /\ ("CLOCK" \in Options => line.ts = line.of)
       /\ rd = "item" => Between(line.items, line.of, off, rows[line.slot])
       /\ rd = "step" => AtItem(line.items, line.of, off, rows[line.slot])

DumpInv == WholeInv /\ Unclaimed /\ ReaderType /\ LineOK /\ WholeLineExact

\* A fresh line.
LEMMA NoLineType == NoLine \in LineType
<1>1. 0 \in Slots /\ 0 \in 0 .. IdMod - 1
  <2>1. NumRows \in Nat \ {0} /\ IdMod \in Nat \ {0}
    BY RowsAssumption, MulAtLeast DEF IdMod
  <2> QED BY <2>1 DEF Slots
<1>2. <<>> \in Seq(ItemType)
  BY EmptySeq
<1> QED BY <1>1, <1>2 DEF NoLine, LineType

LEMMA DumpInitInv == DumpInit => DumpInv
<1> SUFFICES ASSUME DumpInit PROVE DumpInv
  OBVIOUS
<1>1. earlier \in Nat /\ \E t \in Thread : Begun(t)
  BY EarlierAssumption DEF DumpInit
<1>2. WholeInv /\ Unclaimed
  BY <1>1, BegunInv
<1>3. /\ alive = TRUE /\ late = FALSE /\ rd = "scan" /\ i = 0 /\ low = IdMod - 1
      /\ off = 0 /\ line = NoLine /\ lines = <<>>
  BY DEF DumpInit
<1>4. ReaderType
  <2>1. NumRows \in Nat \ {0} /\ IdMod \in Nat \ {0}
    BY RowsAssumption, MulAtLeast DEF IdMod
  <2>2. i \in 0 .. NumRows /\ low \in 0 .. IdMod - 1 /\ off \in Nat
    BY <1>3, <2>1
  <2>3. lines \in Seq(LineType) /\ Len(lines) = 0
    BY <1>3, EmptySeq
  <2>4. Len(lines) <= i
    BY <1>3, <2>3
  <2> QED BY <1>3, <2>2, <2>3, <2>4, NoLineType DEF ReaderType
<1>5. LineOK
  BY <1>3 DEF LineOK
<1>6. WholeLineExact
  <2>1. DOMAIN lines = {}
    BY <1>3
  <2> QED BY <2>1 DEF WholeLineExact
<1> QED BY <1>2, <1>4, <1>5, <1>6 DEF DumpInv

\* The reader's steps change nothing of the log.
LEMMA SameLog ==
  ASSUME DumpInv, UNCHANGED vars
  PROVE  WholeInv' /\ Unclaimed' /\ \A s \in Slots : Settled(s)' <=> Settled(s)
<1>1. WholeInv'
  BY NextWhole DEF DumpInv
<1>2. Unclaimed'
  BY DEF DumpInv, Unclaimed, vars, Nobody, Slots
<1>3. \A s \in Slots : Settled(s)' <=> Settled(s)
  BY DEF vars, Settled, Holds, MySlot
<1> QED BY <1>1, <1>2, <1>3

\* A step of the program leaves to a good line what was read for it.
LEMMA ProgramInv ==
  ASSUME DumpInv, Program
  PROVE  DumpInv'
<1>1. /\ Next /\ UNCHANGED <<alive, late, rd, i, low, off, line, lines>>
      /\ WholeInv /\ Unclaimed /\ ReaderType /\ LineOK /\ WholeLineExact
  BY DEF Program, DumpInv, reader
<1>2. Onward /\ WholeInv'
  BY <1>1, NextOnward, NextWhole
<1>3. ReaderType' /\ WholeLineExact'
  BY <1>1 DEF ReaderType, WholeLineExact, LineType, Slots, IdMod, Nobody, ItemType, Item
<1>4. LineOK'
  <2> SUFFICES ASSUME rd \in {"head", "item", "step"} PROVE LineOK'
    BY <1>1 DEF LineOK
  <2> DEFINE s == line.slot
  <2>1. /\ s \in Slots /\ line.of <= owner[s] /\ line.from > 0
        /\ line.of \in Int /\ line.from \in Nat /\ off \in Nat
    BY <1>1 DEF LineOK, ReaderType, LineType, Nobody
  <2>2. /\ owner[s] \in Int /\ owner'[s] \in Int
        /\ rows[s].datalen \in Nat /\ rows'[s].datalen \in Nat
    <3>1. TypeOK /\ TypeOK'
      BY <1>1, <1>2 DEF WholeInv, RowInv
    <3> QED BY <2>1, <3>1 DEF TypeOK, RowType, Nobody
  <2>3. /\ owner[s] <= owner'[s]
        /\ owner'[s] = owner[s] => clean'[s] = clean[s]
        /\ (Settled(s) /\ owner[s] # Nobody /\ owner'[s] = owner[s]) => Grows(s)
    BY <1>2, <2>1 DEF Onward
  <2>4. line.of <= owner'[s]
    BY <2>1, <2>2, <2>3
  <2>5. ASSUME Good'
        PROVE  /\ Settled(s)' /\ line.of # Nobody /\ line.from <= rows'[s].datalen
               /\ rd = "head" => line.items = <<>>
               /\ rd # "head" => line.id = RowId(line.of) /\ ("CLOCK" \in Options => line.ts = line.of)
               /\ rd = "item" => Between(line.items, line.of, off, rows'[s])
               /\ rd = "step" => AtItem(line.items, line.of, off, rows'[s])
    <3>1. line.whole /\ clean'[s] /\ owner'[s] = line.of
      BY <1>1, <2>5 DEF Good
    <3>2. owner'[s] = owner[s]
      BY <2>1, <2>2, <2>3, <3>1
    <3>3. Good
      BY <2>3, <3>1, <3>2 DEF Good
    <3>4. /\ Settled(s) /\ line.of # Nobody /\ line.from <= rows[s].datalen
          /\ rd = "head" => line.items = <<>>
          /\ rd # "head" => line.id = RowId(line.of) /\ ("CLOCK" \in Options => line.ts = line.of)
          /\ rd = "item" => Between(line.items, line.of, off, rows[s])
          /\ rd = "step" => AtItem(line.items, line.of, off, rows[s])
      BY <1>1, <3>3 DEF LineOK
    <3>5. Grows(s)
      BY <2>3, <3>1, <3>2, <3>4
    <3>6. /\ Settled(s)' /\ rows[s].datalen <= rows'[s].datalen
          /\ \A o \in 0 .. rows[s].datalen - 1 : rows'[s].cells[o] = rows[s].cells[o]
      BY <3>5 DEF Grows
    <3>7. line.from <= rows'[s].datalen
      BY <2>1, <2>2, <3>4, <3>6
    <3>8. CASE rd = "item"
      <4>1. Between(line.items, line.of, off, rows[s])
        BY <3>4, <3>8
      <4>2. off <= rows[s].datalen
        BY <4>1 DEF Between
      <4>3. off <= rows'[s].datalen
        BY <2>1, <2>2, <3>6, <4>2
      <4>4. off > 0 => off - 1 \in 0 .. rows[s].datalen - 1
        BY <2>1, <2>2, <4>2
      <4>5. Between(line.items, line.of, off, rows'[s])
        BY <3>6, <4>1, <4>3, <4>4 DEF Between
      <4> QED BY <3>4, <3>6, <3>7, <3>8, <4>5
    <3>9. CASE rd = "step"
      <4>1. AtItem(line.items, line.of, off, rows[s])
        BY <3>4, <3>9
      <4>2. off < rows[s].datalen
        BY <4>1 DEF AtItem
      <4>3. off < rows'[s].datalen /\ off \in 0 .. rows[s].datalen - 1
        BY <2>1, <2>2, <3>6, <4>2
      <4>4. AtItem(line.items, line.of, off, rows'[s])
        BY <3>6, <4>1, <4>3 DEF AtItem
      <4> QED BY <3>4, <3>6, <3>7, <3>9, <4>4
    <3>10. CASE rd = "head"
      BY <3>4, <3>6, <3>7, <3>10
    <3> QED BY <3>8, <3>9, <3>10
  <2> QED BY <1>1, <2>1, <2>4, <2>5 DEF LineOK, Nobody, RowId, IdMod, Between, AtItem, Chain, EndOf
<1> QED BY <1>2, <1>3, <1>4 DEF DumpInv, Onward

\* The row a turn of the dump's loop looks at is a row of the memmap.
LEMMA HereSlot ==
  ASSUME ReaderType
  PROVE  Here \in Slots
<1>1. NumRows \in Nat \ {0} /\ IdMod \in Nat \ {0}
  BY RowsAssumption, MulAtLeast DEF IdMod
<1>2. low + i \in Int
  BY <1>1 DEF ReaderType
<1>3. (low + i) % IdMod \in Int
  BY <1>1, <1>2, DivMod
<1> QED BY <1>1, <1>3, DivMod DEF Here, RowIdx, Slots

\* A step outside a line.
LEMMA ScanInv ==
  ASSUME DumpInv, End \/ Scan \/ SkipEmpty \/ EndDump
  PROVE  DumpInv'
<1>1. UNCHANGED vars /\ UNCHANGED <<off, line, lines>> /\ ReaderType /\ LineOK /\ WholeLineExact
  BY DEF End, Scan, SkipEmpty, EndDump, reader, DumpInv
<1>2. WholeInv' /\ Unclaimed' /\ \A s \in Slots : Settled(s)' <=> Settled(s)
  BY <1>1, SameLog
<1>3. WholeLineExact'
  BY <1>1 DEF WholeLineExact, Item
<1>4. \A s \in Slots : rows[s].id \in 0 .. IdMod - 1
  BY RowsTyped DEF DumpInv, WholeInv, RowInv, RowType
<1>5. NumRows \in Nat
  BY RowsAssumption
<1>6. CASE End
  <2>1. alive' = FALSE /\ UNCHANGED <<late, rd, i, low>>
    BY <1>6 DEF End, reader
  <2>2. ReaderType'
    BY <1>1, <2>1 DEF ReaderType, LineType, ItemType, Slots, IdMod, Nobody, Item
  <2>3. LineOK'
    <3>1. rows' = rows /\ owner' = owner /\ clean' = clean
      BY <1>1 DEF vars
    <3>2. line.slot \in Slots
      BY <1>1 DEF ReaderType, LineType
    <3> QED BY <1>1, <1>2, <2>1, <3>1, <3>2
            DEF LineOK, Good, Between, AtItem, Chain, EndOf, RowId, IdMod, Nobody, Item
  <2> QED BY <1>2, <1>3, <2>2, <2>3 DEF DumpInv
<1>7. CASE Scan
  <2>1. rd = "scan" /\ rd' \in {"scan", "row"} /\ alive' = alive /\ late' \in BOOLEAN
    BY <1>1, <1>7 DEF Scan, ReaderType
  <2>2. lines = <<>> /\ Len(lines) = 0
    BY <1>1, <2>1, EmptySeq DEF ReaderType
  <2>3. i' \in 0 .. NumRows /\ low' \in 0 .. IdMod - 1
    <3>1. CASE i < NumRows
      <4>1. i' = i + 1 /\ low' \in {low, rows[i].id} /\ i \in Slots
        BY <1>1, <1>5, <1>7, <3>1 DEF Scan, ReaderType, Slots
      <4>2. rows[i].id \in 0 .. IdMod - 1
        BY <1>4, <4>1
      <4> QED BY <1>1, <1>5, <3>1, <4>1, <4>2 DEF ReaderType
    <3>2. CASE ~(i < NumRows)
      BY <1>1, <1>5, <1>7, <3>2 DEF Scan, ReaderType
    <3> QED BY <3>1, <3>2
  <2>4. Len(lines) <= i'
    BY <1>5, <2>2, <2>3
  <2>5. ReaderType'
    BY <1>1, <2>1, <2>2, <2>3, <2>4 DEF ReaderType, LineType, ItemType, Slots, IdMod, Nobody, Item
  <2>6. LineOK'
    BY <2>1 DEF LineOK
  <2> QED BY <1>2, <1>3, <2>5, <2>6 DEF DumpInv
<1>8. CASE SkipEmpty \/ EndDump
  <2>1. /\ UNCHANGED <<alive, late, low>> /\ rd = "row" /\ rd' \in {"row", "done"}
        /\ i' = i \/ (i < NumRows /\ i' = i + 1)
    BY <1>8 DEF SkipEmpty, EndDump
  <2>2. Len(lines) \in Nat /\ Len(lines) <= i /\ i \in 0 .. NumRows
    BY <1>1, LenProperties DEF ReaderType
  <2>3. i' \in 0 .. NumRows /\ Len(lines) <= i'
    BY <1>5, <2>1, <2>2
  <2>4. ReaderType'
    BY <1>1, <2>1, <2>3 DEF ReaderType, LineType, ItemType, Slots, IdMod, Nobody, Item
  <2>5. LineOK'
    BY <2>1 DEF LineOK
  <2> QED BY <1>2, <1>3, <2>4, <2>5 DEF DumpInv
<1> QED BY <1>6, <1>7, <1>8

\* A line begins with a row that has a content, and so an owner.
LEMMA BeginInv ==
  ASSUME DumpInv, BeginLine
  PROVE  DumpInv'
<1>0. PICK s \in Slots : s = Here
  BY HereSlot DEF DumpInv
<1>1. /\ UNCHANGED vars /\ UNCHANGED <<alive, late, i, low, off, lines>>
      /\ ReaderType /\ WholeLineExact /\ rd' = "head" /\ i < NumRows
      /\ rows[s].datalen # 0 /\ WholeInv /\ Unclaimed
      /\ line' = [NoLine EXCEPT !.slot = s, !.of = owner[s],
                                !.from = rows[s].datalen, !.whole = Settled(s)]
  BY <1>0 DEF BeginLine, DumpInv
<1>2. WholeInv' /\ Unclaimed' /\ \A r \in Slots : Settled(r)' <=> Settled(r)
  BY <1>1, SameLog
<1>3. WholeLineExact'
  BY <1>1 DEF WholeLineExact, Item
<1>4. s \in Slots
  BY <1>0
<1>5. owner[s] \in Nat \cup {Nobody} /\ rows[s].datalen \in Nat /\ owner[s] # Nobody
  <2>1. TypeOK
    BY <1>1 DEF WholeInv, RowInv
  <2> QED BY <1>1, <1>4, <2>1 DEF TypeOK, RowType, Unclaimed
<1>6. /\ line' \in LineType /\ line'.slot = s /\ line'.of = owner[s] /\ line'.items = <<>>
      /\ line'.from = rows[s].datalen /\ (line'.whole => Settled(s))
  <2>1. Settled(s) \in BOOLEAN
    BY DEF Settled
  <2> DEFINE w == Settled(s)
  <2> HIDE DEF w
  <2>2. line' = [NoLine EXCEPT !.slot = s, !.of = owner[s], !.from = rows[s].datalen, !.whole = w]
    BY <1>1 DEF w
  <2>3. w \in BOOLEAN
    BY <2>1 DEF w
  <2>4. /\ line' \in LineType /\ line'.slot = s /\ line'.of = owner[s] /\ line'.items = <<>>
        /\ line'.from = rows[s].datalen /\ line'.whole = w
    BY <1>4, <1>5, <2>2, <2>3, NoLineType DEF LineType, NoLine
  <2>5. line'.whole => w
    BY <2>4
  <2> QED BY <2>4, <2>5 DEF w
<1>7. ReaderType'
  BY <1>1, <1>6 DEF ReaderType, LineType, ItemType, Slots, IdMod, Nobody, Item
<1>8. LineOK'
  <2>1. rows' = rows /\ owner' = owner
    BY <1>1 DEF vars
  <2>2. line'.of <= owner'[line'.slot] /\ line'.from > 0 /\ line'.from <= rows'[line'.slot].datalen
    BY <1>1, <1>5, <1>6, <2>1 DEF Nobody
  <2>3. Good' => Settled(line.slot)'
    <3>1. Good' => line'.whole
      BY DEF Good
    <3>2. line'.whole => Settled(s)'
      BY <1>2, <1>4, <1>6
    <3> QED BY <1>6, <3>1, <3>2 DEF Settled, Holds
  <2>4. rd' = "head" /\ line'.items = <<>> /\ line'.of # Nobody
    BY <1>1, <1>5, <1>6
  <2> QED BY <2>2, <2>3, <2>4 DEF LineOK, Nobody
<1> QED BY <1>2, <1>3, <1>7, <1>8 DEF DumpInv

\* What is known of a good line, and what is known of it whether good or not.
LEMMA LineFacts ==
  ASSUME DumpInv, rd \in {"head", "item", "step"}, UNCHANGED vars,
         NEW s, s = line.slot, NEW c, c = line.of, NEW r, r = rows[s]
  PROVE  /\ WholeInv' /\ Unclaimed' /\ ReaderType /\ WholeLineExact
         /\ s \in Slots /\ c \in Nat \cup {Nobody} /\ r \in RowType /\ line.from \in Nat
         /\ c <= owner[s] /\ line.from > 0
         /\ rows'[s] = r /\ owner' = owner /\ clean' = clean /\ (Settled(s)' <=> Settled(s))
         /\ Good => /\ Settled(s) /\ c \in Nat /\ line.from <= r.datalen /\ r.datalen <= RowLen
                    /\ r.id = RowId(c) /\ ("CLOCK" \in Options => r.ts = c)
                    /\ WholeCells(r.cells, r.datalen)
                    /\ \A o \in 0 .. r.datalen - 1 : r.cells[o] \in Cell /\ r.cells[o].by = c
<1>1. /\ WholeInv /\ RowInv /\ ReaderType /\ LineOK /\ WholeLineExact
  BY DEF DumpInv, WholeInv
<1>2. s \in Slots /\ c \in Nat \cup {Nobody} /\ line.from \in Nat
  BY <1>1 DEF ReaderType, LineType
<1>3. r \in RowType
  BY <1>1, <1>2, RowsTyped DEF RowInv
<1>4. c <= owner[s] /\ line.from > 0
  BY <1>1 DEF LineOK
<1>5. /\ WholeInv' /\ Unclaimed' /\ (Settled(s)' <=> Settled(s))
      /\ rows'[s] = r /\ owner' = owner /\ clean' = clean
  BY <1>2, SameLog DEF vars
<1>6. ASSUME Good
      PROVE  /\ Settled(s) /\ c \in Nat /\ line.from <= r.datalen /\ r.datalen <= RowLen
             /\ r.id = RowId(c) /\ ("CLOCK" \in Options => r.ts = c)
             /\ WholeCells(r.cells, r.datalen)
             /\ \A o \in 0 .. r.datalen - 1 : r.cells[o] \in Cell /\ r.cells[o].by = c
  <2>1. Settled(s) /\ c # Nobody /\ line.from <= r.datalen /\ owner[s] = c
    BY <1>1, <1>6 DEF LineOK, Good
  <2>2. Stored(s)
    BY <1>1, <1>2, <2>1, SettledRow
  <2>3. Carries(s, c) /\ \A o \in 0 .. r.datalen - 1 : r.cells[o] \in Cell /\ r.cells[o].by = c
    BY <2>1, <2>2 DEF Stored
  <2>4. r.datalen <= RowLen /\ r.id = RowId(c) /\ ("CLOCK" \in Options => r.ts = c)
    BY <2>3 DEF Carries
  <2>5. WholeCells(r.cells, r.datalen)
    BY <1>1, <1>2, <2>1 DEF WholeInv, WholeRow
  <2>6. c \in Nat
    BY <1>2, <2>1
  <2> QED BY <2>1, <2>3, <2>4, <2>5, <2>6
<1> QED BY <1>1, <1>2, <1>3, <1>4, <1>5, <1>6

\* The header of a good row is the header of its claim.
LEMMA HeadInv ==
  ASSUME DumpInv, ReadHead
  PROVE  DumpInv'
<1> PICK s : s = line.slot
  OBVIOUS
<1> PICK c : c = line.of
  OBVIOUS
<1> PICK r : r = rows[s]
  OBVIOUS
<1>1. /\ UNCHANGED vars /\ UNCHANGED <<alive, late, i, low, lines>>
      /\ rd = "head" /\ rd' = "item" /\ off' = 0
      /\ line' = [line EXCEPT !.id = r.id, !.ts = r.ts, !.tid = r.tid]
  BY DEF ReadHead
<1>2. /\ WholeInv' /\ Unclaimed' /\ ReaderType /\ WholeLineExact
      /\ s \in Slots /\ c \in Nat \cup {Nobody} /\ r \in RowType /\ line.from \in Nat
      /\ c <= owner[s] /\ line.from > 0
      /\ rows'[s] = r /\ owner' = owner /\ clean' = clean /\ (Settled(s)' <=> Settled(s))
      /\ Good => /\ Settled(s) /\ c \in Nat /\ line.from <= r.datalen
                 /\ r.id = RowId(c) /\ ("CLOCK" \in Options => r.ts = c)
  BY <1>1, LineFacts
<1>3. line \in LineType /\ r.datalen \in Nat
  BY <1>2 DEF ReaderType, RowType
<1>4. /\ line' \in LineType /\ line'.slot = s /\ line'.of = c /\ line'.from = line.from
      /\ line'.whole = line.whole /\ line'.items = line.items /\ line'.id = r.id /\ line'.ts = r.ts
  BY <1>1, <1>2, <1>3 DEF LineType, RowType
<1>5. ReaderType'
  BY <1>1, <1>2, <1>4 DEF ReaderType, LineType, ItemType, Slots, IdMod, Nobody, Item
<1>6. WholeLineExact'
  BY <1>1, <1>2 DEF WholeLineExact, Item
<1>7. Good' => Good
  BY <1>2, <1>4 DEF Good
<1>8. Good => line.items = <<>>
  BY <1>1 DEF DumpInv, LineOK
<1>9. Good' => Between(line'.items, c, 0, r)
  <2>1. Len(<<>>) = 0 /\ 1 .. 0 = {} /\ 1 .. 0 - 1 = {}
    BY EmptySeq
  <2>2. Chain(<<>>, c) /\ EndOf(<<>>) = 0
    BY <2>1 DEF Chain, EndOf
  <2> QED BY <1>3, <1>4, <1>7, <1>8, <2>1, <2>2 DEF Between
<1>10. LineOK'
  <2>1. line'.of <= owner'[line'.slot] /\ line'.from > 0 /\ rd' = "item"
    BY <1>1, <1>2, <1>4
  <2>2. ASSUME Good'
        PROVE  /\ Settled(line.slot)' /\ line'.of # Nobody
               /\ line'.from <= rows'[line'.slot].datalen
               /\ line'.id = RowId(line'.of) /\ ("CLOCK" \in Options => line'.ts = line'.of)
               /\ Between(line'.items, line'.of, off', rows'[line'.slot])
    <3>1. Settled(s)' /\ c # Nobody
      BY <1>2, <1>7, <2>2 DEF Nobody
    <3>2. Settled(line.slot)'
      BY <1>4, <3>1 DEF Settled, Holds
    <3> QED BY <1>1, <1>2, <1>4, <1>7, <1>9, <2>2, <3>1, <3>2
  <2> QED BY <2>1, <2>2 DEF LineOK, Nobody, RowId, IdMod, Between, AtItem, Chain, EndOf
<1> QED BY <1>2, <1>5, <1>6, <1>10 DEF DumpInv

\* The item at off of a good row is one of its message, at its first cell.
LEMMA ItemInv ==
  ASSUME DumpInv, ReadItem
  PROVE  DumpInv'
<1> PICK s : s = line.slot
  OBVIOUS
<1> PICK c : c = line.of
  OBVIOUS
<1> PICK r : r = rows[s]
  OBVIOUS
<1> PICK q : q = line.items
  OBVIOUS
<1> PICK a : a = CellAt(s, off)
  OBVIOUS
<1> PICK x : x = [by |-> a.by, item |-> a.item, head |-> a.at = 0, pos |-> off]
  OBVIOUS
<1>1. /\ UNCHANGED vars /\ UNCHANGED <<alive, late, i, low, off, lines>>
      /\ rd = "item" /\ rd' = "step" /\ off < r.datalen
      /\ line' = [line EXCEPT !.items = IF Len(q) > RowLen THEN q ELSE Append(q, x)]
  BY DEF ReadItem
<1>2. /\ WholeInv' /\ Unclaimed' /\ ReaderType /\ WholeLineExact
      /\ s \in Slots /\ c \in Nat \cup {Nobody} /\ r \in RowType /\ line.from \in Nat
      /\ c <= owner[s] /\ line.from > 0
      /\ rows'[s] = r /\ owner' = owner /\ clean' = clean /\ (Settled(s)' <=> Settled(s))
      /\ Good => /\ Settled(s) /\ c \in Nat /\ line.from <= r.datalen /\ r.datalen <= RowLen
                 /\ WholeCells(r.cells, r.datalen)
                 /\ \A o \in 0 .. r.datalen - 1 : r.cells[o] \in Cell /\ r.cells[o].by = c
  BY <1>1, LineFacts
<1>3. line \in LineType /\ r.datalen \in Nat /\ off \in Nat /\ q \in Seq(ItemType) /\ Len(q) \in Nat
  BY <1>2, LenProperties DEF ReaderType, RowType, LineType
<1>4. a \in Cell
  <2>1. CASE off < RowLen
    <3>1. a = r.cells[off]
      BY <2>1 DEF CellAt
    <3>2. off \in 0 .. RowLen - 1
      BY <1>3, <2>1, LenAssumption
    <3> QED BY <1>2, <3>1, <3>2 DEF RowType
  <2>2. CASE ~(off < RowLen)
    <3>1. a = Junk
      BY <2>2 DEF CellAt
    <3> QED BY <3>1, SizeAssumption DEF Junk, Cell
  <2> QED BY <2>1, <2>2
<1>5. x \in ItemType
  BY <1>3, <1>4 DEF ItemType, Cell
<1>6. line'.items \in Seq(ItemType)
  <2>1. Append(q, x) \in Seq(ItemType)
    BY <1>3, <1>5, AppendProperties
  <2> QED BY <1>1, <1>3, <2>1 DEF LineType
<1>7. /\ line' \in LineType /\ line'.slot = s /\ line'.of = c /\ line'.from = line.from
      /\ line'.whole = line.whole /\ line'.id = line.id /\ line'.ts = line.ts
  BY <1>1, <1>3, <1>6 DEF LineType
<1>8. ReaderType'
  BY <1>1, <1>2, <1>7 DEF ReaderType, LineType, ItemType, Slots, IdMod, Nobody, Item
<1>9. WholeLineExact'
  BY <1>1, <1>2 DEF WholeLineExact, Item
<1>10. Good' => Good
  BY <1>2, <1>7 DEF Good
<1>11. ASSUME Good
       PROVE  /\ AtItem(line'.items, c, off, r)
              /\ line.id = RowId(c) /\ ("CLOCK" \in Options => line.ts = c)
  <2>1. /\ line.id = RowId(c) /\ ("CLOCK" \in Options => line.ts = c) /\ Between(q, c, off, r)
    BY <1>1, <1>11 DEF DumpInv, LineOK
  <2>2. /\ Chain(q, c) /\ EndOf(q) = off /\ Len(q) <= off
        /\ off > 0 => r.cells[off - 1].at = Size[r.cells[off - 1].item] - 1
    BY <2>1 DEF Between
  <2>3. r.datalen <= RowLen /\ WholeCells(r.cells, r.datalen)
    BY <1>2, <1>11
  <2>4. off < RowLen /\ off \in 0 .. r.datalen - 1 /\ ~(Len(q) > RowLen)
    BY <1>1, <1>3, <2>2, <2>3, LenAssumption
  <2>5. a = r.cells[off]
    BY <2>4 DEF CellAt
  <2>6. a.at = 0
    BY <1>1, <1>2, <1>3, <2>2, <2>3, <2>5, HeadNext
  <2>7. a.by = c
    BY <1>2, <1>11, <2>4, <2>5
  <2>8. x.by = c /\ x.head /\ x.pos = EndOf(q) /\ x.pos = off /\ x.item = r.cells[off].item
    BY <2>2, <2>5, <2>6, <2>7
  <2>9. line'.items = Append(q, x)
    BY <1>1, <1>3, <2>4 DEF LineType
  <2> DEFINE w == Append(q, x)
  <2>10. /\ Chain(w, c) /\ Len(w) = Len(q) + 1 /\ w[Len(q) + 1] = x
    <3>1. x.by = c /\ x.head /\ x.pos = EndOf(q) /\ Chain(q, c) /\ q \in Seq(ItemType)
      BY <1>3, <2>2, <2>8
    <3> QED BY <1>5, <3>1, ChainAppend, Zenon
  <2> HIDE DEF w
  <2>11. Len(w) \in 1 .. off + 1 /\ w[Len(w)] = x
    BY <1>3, <2>2, <2>10
  <2>12. AtItem(w, c, off, r)
    BY <1>1, <2>5, <2>6, <2>8, <2>10, <2>11 DEF AtItem
  <2> QED BY <2>1, <2>9, <2>12 DEF w
<1>12. LineOK'
  <2>1. line'.of <= owner'[line'.slot] /\ line'.from > 0 /\ rd' = "step"
    BY <1>1, <1>2, <1>7
  <2>2. ASSUME Good'
        PROVE  /\ Settled(line.slot)' /\ line'.of # Nobody
               /\ line'.from <= rows'[line'.slot].datalen
               /\ line'.id = RowId(line'.of) /\ ("CLOCK" \in Options => line'.ts = line'.of)
               /\ AtItem(line'.items, line'.of, off', rows'[line'.slot])
    <3>1. Settled(s)' /\ c # Nobody
      BY <1>2, <1>10, <2>2 DEF Nobody
    <3>2. Settled(line.slot)'
      BY <1>7, <3>1 DEF Settled, Holds
    <3> QED BY <1>1, <1>2, <1>7, <1>10, <1>11, <2>2, <3>1, <3>2
  <2> QED BY <2>1, <2>2 DEF LineOK, Nobody, RowId, IdMod, Between, AtItem, Chain, EndOf
<1> QED BY <1>2, <1>8, <1>9, <1>12 DEF DumpInv

\* The cells an item of z takes from o on.
LEMMA StepArith ==
  ASSUME NEW o \in Nat, NEW z \in Nat \ {0}, NEW n \in 1 .. o + 1
  PROVE  /\ z - 1 \in 0 .. z - 1 /\ o - 0 + (z - 1) = (o + z) - 1 /\ o - 0 + z = o + z
         /\ n <= o + z
BY SMTT(60)

\* Where the item printed is stepped over by the length its header gives.
LEMMA Stepped ==
  ASSUME NEW r \in RowType, r.datalen <= RowLen, WholeCells(r.cells, r.datalen),
         NEW q \in Seq(ItemType), NEW c, NEW o \in Nat, AtItem(q, c, o, r),
         NEW z, z = Size[r.cells[o].item]
  PROVE  z \in Nat \ {0} /\ r.cells[o].at = 0 /\ Between(q, c, o + z, r)
<1>1. /\ Chain(q, c) /\ Len(q) \in 1 .. o + 1 /\ o < r.datalen
      /\ q[Len(q)].pos = o /\ q[Len(q)].item = r.cells[o].item /\ r.cells[o].at = 0
  BY DEF AtItem
<1>2. r.datalen \in Nat /\ r.cells \in [0 .. RowLen - 1 -> Cell] /\ Len(q) \in Nat
  BY LenProperties DEF RowType
<1>3. o \in 0 .. r.datalen - 1 /\ o \in 0 .. RowLen - 1
  BY <1>1, <1>2, LenAssumption
<1>4. z \in Nat \ {0}
  BY <1>2, <1>3, SizeAssumption DEF Cell
<1>5. /\ o - 0 + z <= r.datalen
      /\ \A k \in 0 .. z - 1 :
           r.cells[o - 0 + k] = [by |-> r.cells[o].by, item |-> r.cells[o].item, at |-> k]
  BY <1>1, <1>3 DEF WholeCells, WholeCell
<1>6. z - 1 \in 0 .. z - 1 /\ o - 0 + (z - 1) = (o + z) - 1 /\ o - 0 + z = o + z
      /\ Len(q) <= o + z
  BY <1>1, <1>4, StepArith, SMTT(60)
<1>7. r.cells[(o + z) - 1] = [by |-> r.cells[o].by, item |-> r.cells[o].item, at |-> z - 1]
  BY <1>5, <1>6
<1>8. r.cells[(o + z) - 1].at = Size[r.cells[(o + z) - 1].item] - 1
  BY <1>7
<1>9. EndOf(q) = o + z
  BY <1>1, <1>2 DEF EndOf
<1> QED BY <1>1, <1>4, <1>5, <1>6, <1>8, <1>9 DEF Between

\* The length a header gives, whatever is taken for a header, is a number.
LEMMA HdrLenNat == \A a \in Cell : HdrLen(a) \subseteq Nat
BY SizeAssumption, LenAssumption DEF HdrLen, Cell

\* What is read at off of any row is a cell.
LEMMA CellAtType ==
  ASSUME NEW s \in Slots, rows[s] \in RowType, NEW o \in Nat
  PROVE  CellAt(s, o) \in Cell
<1>1. CASE o < RowLen
  <2>1. CellAt(s, o) = rows[s].cells[o]
    BY <1>1 DEF CellAt
  <2>2. o \in 0 .. RowLen - 1
    BY <1>1, LenAssumption
  <2> QED BY <2>1, <2>2, ZenonT(60) DEF RowType
<1>2. CASE ~(o < RowLen)
  <2>1. CellAt(s, o) = Junk
    BY <1>2 DEF CellAt
  <2> QED BY <2>1, SizeAssumption DEF Junk, Cell
<1> QED BY <1>1, <1>2

\* Stepping over an item of a good row leads to where the next one begins.
LEMMA OverInv ==
  ASSUME DumpInv, StepOver
  PROVE  DumpInv'
<1> PICK s : s = line.slot
  OBVIOUS
<1> PICK c : c = line.of
  OBVIOUS
<1> PICK r : r = rows[s]
  OBVIOUS
<1> PICK q : q = line.items
  OBVIOUS
<1> PICK a : a = CellAt(s, off)
  OBVIOUS
<1> PICK z : z = Size[a.item]
  OBVIOUS
<1>1. /\ UNCHANGED vars /\ UNCHANGED <<alive, late, i, low, line, lines>>
      /\ rd = "step" /\ rd' = "item" /\ \E n \in HdrLen(a) : off' = off + n
  BY DEF StepOver
<1>2. /\ WholeInv' /\ Unclaimed' /\ ReaderType /\ WholeLineExact
      /\ s \in Slots /\ c \in Nat \cup {Nobody} /\ r \in RowType /\ line.from \in Nat
      /\ c <= owner[s] /\ line.from > 0
      /\ rows'[s] = r /\ owner' = owner /\ clean' = clean /\ (Settled(s)' <=> Settled(s))
      /\ Good => /\ Settled(s) /\ c \in Nat /\ line.from <= r.datalen /\ r.datalen <= RowLen
                 /\ WholeCells(r.cells, r.datalen)
                 /\ \A o \in 0 .. r.datalen - 1 : r.cells[o] \in Cell /\ r.cells[o].by = c
  BY <1>1, LineFacts
<1>3. r.datalen \in Nat /\ off \in Nat /\ q \in Seq(ItemType)
  BY <1>2 DEF ReaderType, RowType, LineType
<1>4. a \in Cell
  BY <1>2, <1>3, CellAtType
<1>5. off' \in Nat
  <2>1. \A n \in HdrLen(a) : n \in Nat
    BY <1>4, HdrLenNat
  <2> QED BY <1>1, <1>3, <2>1
<1>6. ReaderType'
  BY <1>1, <1>2, <1>5 DEF ReaderType, LineType, ItemType, Slots, IdMod, Nobody, Item
<1>7. WholeLineExact'
  BY <1>1, <1>2 DEF WholeLineExact, Item
<1>8. Good' => Good
  BY <1>1, <1>2 DEF Good
<1>9. ASSUME Good
      PROVE  /\ Between(q, c, off', r)
             /\ line.id = RowId(c) /\ ("CLOCK" \in Options => line.ts = c)
  <2>1. /\ line.id = RowId(c) /\ ("CLOCK" \in Options => line.ts = c) /\ AtItem(q, c, off, r)
    BY <1>1, <1>9 DEF DumpInv, LineOK
  <2>2. off < r.datalen
    BY <2>1 DEF AtItem
  <2>3. r.datalen <= RowLen /\ WholeCells(r.cells, r.datalen) /\ c \in Nat
    BY <1>2, <1>9
  <2>4. off < RowLen /\ off \in 0 .. r.datalen - 1
    BY <1>3, <2>2, <2>3, LenAssumption
  <2>5. a = r.cells[off]
    BY <2>4 DEF CellAt
  <2>6. a.by # Nobody
    BY <1>2, <1>9, <2>3, <2>4, <2>5 DEF Nobody
  <2>7. a.at = 0 /\ Between(q, c, off + z, r)
    BY <1>2, <1>3, <2>1, <2>3, <2>5, Stepped
  <2>8. off' = off + z
    BY <1>1, <2>6, <2>7 DEF HdrLen
  <2> QED BY <2>1, <2>7, <2>8
<1>10. LineOK'
  <2>1. line'.of <= owner'[line'.slot] /\ line'.from > 0 /\ rd' = "item"
    BY <1>1, <1>2
  <2>2. ASSUME Good'
        PROVE  /\ Settled(line.slot)' /\ line'.of # Nobody
               /\ line'.from <= rows'[line'.slot].datalen
               /\ line'.id = RowId(line'.of) /\ ("CLOCK" \in Options => line'.ts = line'.of)
               /\ Between(line'.items, line'.of, off', rows'[line'.slot])
    <3>1. Settled(s)' /\ c # Nobody
      BY <1>2, <1>8, <2>2 DEF Nobody
    <3>2. Settled(line.slot)'
      BY <1>1, <3>1 DEF Settled, Holds
    <3> QED BY <1>1, <1>2, <1>8, <1>9, <2>2, <3>1, <3>2
  <2> QED BY <2>1, <2>2 DEF LineOK, Nobody, RowId, IdMod, Between, AtItem, Chain, EndOf
<1> QED BY <1>2, <1>6, <1>7, <1>10 DEF DumpInv

\* What a line shows if it is of one claim's row alone.
Shows(l) ==
  LET n == Len(l.items) IN
    /\ l.id = RowId(l.of)
    /\ "CLOCK" \in Options => l.ts = l.of
    /\ n > 0 /\ l.items[1].pos = 0
    /\ \A m \in 1 .. n : l.items[m].by = l.of /\ l.items[m].head
    /\ \A m \in 1 .. n - 1 :
         l.items[m + 1].pos = l.items[m].pos + Size[l.items[m].item]
    /\ l.items[n].pos + Size[l.items[n].item] >= l.from

LEMMA ShowsAll == WholeLineExact <=> \A k \in DOMAIN lines : lines[k].whole => Shows(lines[k])
BY DEF WholeLineExact, Shows

\* A walk that has come to the end of a good row has met all its items.
LEMMA WalkShows ==
  ASSUME NEW l, l.items \in Seq(ItemType), l.from \in Nat, l.from > 0,
         l.id = RowId(l.of), "CLOCK" \in Options => l.ts = l.of,
         NEW r, NEW o \in Nat, r.datalen \in Nat, l.from <= r.datalen, o >= r.datalen,
         Between(l.items, l.of, o, r)
  PROVE  Shows(l)
<1> DEFINE q == l.items  n == Len(q)
<1>1. Chain(q, l.of) /\ EndOf(q) = o /\ o >= l.from /\ o > 0
  BY DEF Between
<1>2. n \in Nat
  BY LenProperties
<1>3. n # 0 /\ q[n].pos + Size[q[n].item] = o
  BY <1>1 DEF EndOf
<1> QED BY <1>1, <1>2, <1>3 DEF Shows, Chain

\* A line that was good to its end shows its message.
LEMMA EndInv ==
  ASSUME DumpInv, EndLine
  PROVE  DumpInv'
<1> PICK s : s = line.slot
  OBVIOUS
<1> PICK c : c = line.of
  OBVIOUS
<1> PICK r : r = rows[s]
  OBVIOUS
<1> PICK g : g = (line.whole /\ clean[s] /\ owner[s] = c)
  OBVIOUS
<1> PICK w : w = [line EXCEPT !.whole = g]
  OBVIOUS
<1>1. /\ UNCHANGED vars /\ UNCHANGED <<alive, late, low>>
      /\ rd = "item" /\ rd' = "row" /\ off >= r.datalen /\ off' = 0 /\ i' = i + 1
      /\ line' = NoLine /\ lines' = Append(lines, w)
  BY Zenon DEF EndLine
<1>2. /\ WholeInv' /\ Unclaimed' /\ ReaderType /\ WholeLineExact
      /\ s \in Slots /\ r \in RowType /\ line.from \in Nat /\ line.from > 0
      /\ Good => line.from <= r.datalen
  BY <1>1, LineFacts
<1>3. /\ line \in LineType /\ r.datalen \in Nat /\ off \in Nat /\ i < NumRows
      /\ i \in 0 .. NumRows /\ lines \in Seq(LineType) /\ Len(lines) <= i
  BY <1>1, <1>2 DEF ReaderType, RowType
<1>4. w \in LineType /\ (w.whole <=> Good)
  <2>1. g \in BOOLEAN /\ (g <=> Good)
    BY Zenon DEF Good
  <2>2. w \in LineType /\ w.whole = g
    BY <1>3, <2>1 DEF LineType
  <2> QED BY <2>1, <2>2
<1>5. /\ w.id = line.id /\ w.ts = line.ts /\ w.of = c /\ w.from = line.from
      /\ w.items = line.items
  BY <1>3 DEF LineType
<1>6. /\ lines' \in Seq(LineType) /\ Len(lines') = Len(lines) + 1 /\ Len(lines) \in Nat
      /\ \A k \in 1 .. Len(lines) : lines'[k] = lines[k]
      /\ lines'[Len(lines) + 1] = w
  BY <1>1, <1>3, <1>4, AppendProperties, LenProperties
<1>7. ReaderType'
  <2>1. NumRows \in Nat
    BY RowsAssumption
  <2>2. i' \in 0 .. NumRows /\ Len(lines') <= i'
    BY <1>1, <1>3, <1>6, <2>1
  <2> QED BY <1>1, <1>2, <1>6, <2>2, NoLineType
          DEF ReaderType, LineType, ItemType, Slots, IdMod, Nobody, Item, NoLine
<1>8. LineOK'
  BY <1>1 DEF LineOK
<1>9. w.whole => Shows(w)
  <2> SUFFICES ASSUME w.whole PROVE Shows(w)
    OBVIOUS
  <2>1. Good
    BY <1>4
  <2>2. /\ line.id = RowId(c) /\ ("CLOCK" \in Options => line.ts = c)
        /\ Between(line.items, c, off, r)
    BY <1>1, <2>1 DEF DumpInv, LineOK
  <2>3. line.items \in Seq(ItemType)
    BY <1>3 DEF LineType
  <2> QED BY <1>1, <1>2, <1>3, <1>5, <2>1, <2>2, <2>3, WalkShows
<1>10. WholeLineExact'
  <2>1. \A k \in DOMAIN lines : lines[k].whole => Shows(lines[k])
    BY <1>2, ShowsAll
  <2>2. DOMAIN lines = 1 .. Len(lines) /\ DOMAIN lines' = 1 .. Len(lines')
    BY <1>3, <1>6, LenProperties
  <2>3. ASSUME NEW k \in DOMAIN lines'
        PROVE  lines'[k].whole => Shows(lines'[k])
    <3>1. k \in 1 .. Len(lines) \/ k = Len(lines) + 1
      BY <1>6, <2>2, <2>3
    <3>2. CASE k \in 1 .. Len(lines)
      BY <1>6, <2>1, <2>2, <3>2
    <3>3. CASE k = Len(lines) + 1
      BY <1>6, <1>9, <3>3
    <3> QED BY <3>1, <3>2, <3>3
  <2> QED BY <2>3 DEF WholeLineExact, Shows, RowId, IdMod, Item
<1> QED BY <1>2, <1>7, <1>8, <1>10 DEF DumpInv

LEMMA DumpStepInv == DumpInv /\ [DumpNext]_dvars => DumpInv'
<1> SUFFICES ASSUME DumpInv, [DumpNext]_dvars PROVE DumpInv'
  OBVIOUS
<1>1. CASE Program
  BY <1>1, ProgramInv
<1>2. CASE End \/ Scan \/ SkipEmpty \/ EndDump
  BY <1>2, ScanInv
<1>3. CASE BeginLine
  BY <1>3, BeginInv
<1>4. CASE ReadHead
  BY <1>4, HeadInv
<1>5. CASE ReadItem
  BY <1>5, ItemInv
<1>6. CASE StepOver
  BY <1>6, OverInv
<1>7. CASE EndLine
  BY <1>7, EndInv
<1>8. CASE UNCHANGED dvars
  <2>1. UNCHANGED vars /\ UNCHANGED <<alive, late, rd, i, low, off, line, lines>>
    BY <1>8 DEF dvars, reader
  <2>2. WholeInv' /\ Unclaimed' /\ \A s \in Slots : Settled(s)' <=> Settled(s)
    BY <2>1, SameLog
  <2>3. ReaderType /\ LineOK /\ WholeLineExact
    BY DEF DumpInv
  <2>4. ReaderType'
    BY <2>1, <2>3 DEF ReaderType, LineType, ItemType, Slots, IdMod, Nobody, Item
  <2>5. LineOK'
    <3>1. rows' = rows /\ owner' = owner /\ clean' = clean /\ line.slot \in Slots
      BY <2>1, <2>3 DEF vars, ReaderType, LineType
    <3> QED BY <2>1, <2>2, <2>3, <3>1
            DEF LineOK, Good, Between, AtItem, Chain, EndOf, RowId, IdMod, Nobody, Item
  <2>6. WholeLineExact'
    BY <2>1, <2>3, ZenonT(60) DEF WholeLineExact, Item
  <2> QED BY <2>2, <2>4, <2>5, <2>6 DEF DumpInv
<1> QED BY <1>1, <1>2, <1>3, <1>4, <1>5, <1>6, <1>7, <1>8 DEF DumpNext, PrintRows

LEMMA DumpSafe == DumpSpec => []DumpInv
<1> QED BY DumpInitInv, DumpStepInv, PTL DEF DumpSpec

\* The reader never leaves the memmap: it looks at no row but one of the buffer,
\* and prints no more lines than there are rows, whatever the program does
\* meanwhile (print_rows of util/log2memutil.c).
THEOREM DumpTypeCorrect == DumpSpec => []DumpTypeOK
<1>1. DumpInv => DumpTypeOK
  <2> SUFFICES ASSUME DumpInv PROVE DumpTypeOK
    OBVIOUS
  <2>1. TypeOK /\ ReaderType
    BY DEF DumpInv, WholeInv, RowInv
  <2>2. line.slot \in Slots
    BY <2>1 DEF ReaderType, LineType
  <2>3. Len(lines) <= NumRows
    <3>1. Len(lines) \in Nat /\ Len(lines) <= i /\ i \in 0 .. NumRows /\ NumRows \in Nat
      BY <2>1, RowsAssumption, LenProperties DEF ReaderType
    <3> QED BY <3>1
  <2> QED BY <2>1, <2>2, <2>3 DEF DumpTypeOK, ReaderType
<1> QED BY <1>1, DumpSafe, PTL

\* A line of a row that only its own claim wrote, and that was not claimed again
\* while it was printed, shows that message alone, whole and in order, though no
\* lock keeps the program from writing it meanwhile.
THEOREM LinesExact == DumpSpec => []WholeLineExact
<1>1. DumpInv => WholeLineExact
  BY DEF DumpInv
<1> QED BY <1>1, DumpSafe, PTL

-----------------------------------------------------------------------------
(* A dump of a log whose program is over.                                  *)

\* ls are the lines of the first n of the slots met from that of id lo on that
\* have a content, one each.
Shown(ls, lo, n, rs) ==
  /\ \A k \in DOMAIN ls : \E j \in 0 .. n - 1 :
       ls[k].slot = Slot(lo + j) /\ rs[Slot(lo + j)].datalen # 0
  /\ \A j \in 0 .. n - 1 :
       rs[Slot(lo + j)].datalen # 0 => \E k \in DOMAIN ls : ls[k].slot = Slot(lo + j)
  /\ \A j, k \in DOMAIN ls : ls[j].slot = ls[k].slot => j = k

\* An empty slot adds no line.
LEMMA ShownSkip ==
  ASSUME NEW ls, NEW lo \in Nat, NEW n \in Nat, NEW rs, Shown(ls, lo, n, rs),
         rs[Slot(lo + n)].datalen = 0
  PROVE  Shown(ls, lo, n + 1, rs)
<1>1. \A j \in 0 .. (n + 1) - 1 : j \in 0 .. n - 1 \/ j = n
  OBVIOUS
<1>2. \A j \in 0 .. n - 1 : j \in 0 .. (n + 1) - 1
  OBVIOUS
<1> QED BY <1>1, <1>2, Zenon DEF Shown

\* One with a content adds the line of a slot not met before.
LEMMA ShownAppend ==
  ASSUME NEW ls \in Seq(LineType), NEW lo \in Nat, NEW n \in Nat, n < NumRows, NEW rs,
         Shown(ls, lo, n, rs), rs[Slot(lo + n)].datalen # 0,
         NEW w \in LineType, w.slot = Slot(lo + n)
  PROVE  Shown(Append(ls, w), lo, n + 1, rs)
<1> DEFINE m == Len(ls)  x == Append(ls, w)
<1>1. /\ m \in Nat /\ DOMAIN ls = 1 .. m /\ DOMAIN x = 1 .. m + 1
      /\ \A k \in 1 .. m : x[k] = ls[k]
      /\ x[m + 1] = w
  BY AppendProperties, LenProperties
<1> HIDE DEF m, x
<1>2. \A j \in 0 .. n - 1 : Slot(lo + j) # Slot(lo + n)
  <2> SUFFICES ASSUME NEW j \in 0 .. n - 1, Slot(lo + j) = Slot(lo + n) PROVE FALSE
    OBVIOUS
  <2>1. lo + j \in Nat /\ lo + n \in Nat /\ lo + j < lo + n
    OBVIOUS
  <2>2. (lo + n) - (lo + j) >= NumRows
    BY <2>1, ClaimsOfASlot
  <2> QED BY <2>2, RowsAssumption
<1>3. \A k \in DOMAIN ls : ls[k].slot # Slot(lo + n)
  BY <1>2, Zenon DEF Shown
<1>4. /\ \A k \in DOMAIN x : k \in DOMAIN ls \/ k = m + 1
      /\ m + 1 \in DOMAIN x /\ m + 1 \notin DOMAIN ls /\ \A k \in DOMAIN ls : k \in DOMAIN x
      /\ \A k \in DOMAIN ls : x[k] = ls[k]
  BY <1>1
<1>5. /\ \A j \in 0 .. (n + 1) - 1 : j \in 0 .. n - 1 \/ j = n
      /\ n \in 0 .. (n + 1) - 1 /\ \A j \in 0 .. n - 1 : j \in 0 .. (n + 1) - 1
  OBVIOUS
<1>6. ASSUME NEW k \in DOMAIN x
      PROVE  \E j \in 0 .. (n + 1) - 1 : x[k].slot = Slot(lo + j) /\ rs[Slot(lo + j)].datalen # 0
  <2>1. CASE k \in DOMAIN ls
    <3>1. PICK j \in 0 .. n - 1 : ls[k].slot = Slot(lo + j) /\ rs[Slot(lo + j)].datalen # 0
      BY <2>1, Zenon DEF Shown
    <3> QED BY <1>4, <1>5, <2>1, <3>1, Zenon
  <2>2. CASE k = m + 1
    <3>1. x[k] = w
      BY <1>1, <2>2
    <3> QED BY <1>5, <3>1, Zenon
  <2> QED BY <1>4, <2>1, <2>2
<1>7. ASSUME NEW j \in 0 .. (n + 1) - 1, rs[Slot(lo + j)].datalen # 0
      PROVE  \E k \in DOMAIN x : x[k].slot = Slot(lo + j)
  <2>1. CASE j \in 0 .. n - 1
    <3>1. PICK k \in DOMAIN ls : ls[k].slot = Slot(lo + j)
      BY <1>7, <2>1, Zenon DEF Shown
    <3> QED BY <1>4, <3>1, Zenon
  <2>2. CASE j = n
    BY <1>1, <1>4, <2>2, Zenon
  <2> QED BY <1>5, <2>1, <2>2
<1>8. ASSUME NEW j \in DOMAIN x, NEW k \in DOMAIN x, x[j].slot = x[k].slot
      PROVE  j = k
  <2>1. CASE j \in DOMAIN ls /\ k \in DOMAIN ls
    BY <1>4, <1>8, <2>1, Zenon DEF Shown
  <2>2. CASE j = m + 1 /\ k \in DOMAIN ls
    BY <1>1, <1>3, <1>4, <1>8, <2>2, Zenon
  <2>3. CASE j \in DOMAIN ls /\ k = m + 1
    BY <1>1, <1>3, <1>4, <1>8, <2>3, Zenon
  <2> QED BY <1>4, <2>1, <2>2, <2>3
<1>9. Shown(x, lo, n + 1, rs)
  BY <1>6, <1>7, <1>8, Zenon DEF Shown
<1> QED BY <1>9 DEF x

\* A slot is that of the claim with its number.
LEMMA SlotItself ==
  ASSUME NEW s \in Slots
  PROVE  s \in Nat /\ Slot(s) = s
<1>1. NumRows \in Nat \ {0} /\ s \in 0 .. NumRows - 1 /\ s \in Nat
  BY RowsAssumption DEF Slots
<1>2. s % NumRows = s
  BY <1>1, SmallMod
<1> QED BY <1>1, <1>2, SlotFacts

\* A full turn meets every slot, wherever it begins.
LEMMA FullTurn ==
  ASSUME NEW lo \in Nat, NEW s \in Slots
  PROVE  \E j \in 0 .. NumRows - 1 : Slot(lo + j) = s
<1>1. NumRows \in Nat \ {0} /\ s \in Nat /\ s < lo + NumRows /\ lo + NumRows \in Nat
  BY RowsAssumption DEF Slots
<1>2. PICK k \in Nat : /\ k \in (lo + NumRows) - NumRows .. (lo + NumRows) - 1
                       /\ Slot(k) = Slot(s)
  BY <1>1, SameSlotLater
<1>3. Slot(s) = s
  BY SlotItself
<1>4. k - lo \in 0 .. NumRows - 1 /\ lo + (k - lo) = k
  BY <1>1, <1>2
<1>5. Slot(lo + (k - lo)) = s
  BY <1>2, <1>3, <1>4
<1> QED BY <1>4, <1>5

\* The rows stand still under a dump begun when the program was over.
Complete ==
  /\ late => ~alive
  /\ late /\ rd # "scan" =>
       /\ Shown(lines, low, i, rows)
       /\ rd \in {"head", "item", "step"} =>
            line.slot = Slot(low + i) /\ rows[line.slot].datalen # 0
       /\ rd = "done" => i = NumRows

LEMMA CompleteStep ==
  ASSUME DumpInv, Complete, [DumpNext]_dvars
  PROVE  Complete'
<1>0. /\ ReaderType /\ low \in Nat /\ i \in Nat
      /\ Here = Slot(low + i)
  <2>1. ReaderType
    BY DEF DumpInv
  <2>2. low \in Nat /\ i \in Nat
    BY <2>1, RowsAssumption, MulAtLeast DEF ReaderType, IdMod
  <2> QED BY <2>1, <2>2 DEF Here, RowIdx, Slot, RowId
<1>1. CASE Program
  <2>1. alive /\ late' = late
    BY <1>1 DEF Program, reader
  <2> QED BY <2>1 DEF Complete
<1>2. CASE End
  BY <1>2 DEF End, Complete, vars, reader, Shown, Slot, RowId, IdMod
<1>3. CASE Scan
  <2>1. /\ rd = "scan" /\ alive' = alive /\ late' = IF i = 0 THEN ~alive ELSE late
        /\ rows' = rows /\ lines' = lines
        /\ rd' = "scan" \/ (rd' = "row" /\ i' = 0)
    BY <1>3 DEF Scan, vars
  <2>2. late' => ~alive'
    BY <2>1 DEF Complete
  <2>3. lines = <<>>
    BY <1>0, <2>1 DEF ReaderType
  <2>4. ASSUME i' = 0
        PROVE  Shown(lines', low', i', rows')
    <3>1. DOMAIN lines' = {} /\ 0 .. i' - 1 = {}
      BY <2>1, <2>3, <2>4
    <3> QED BY <3>1 DEF Shown
  <2> QED BY <2>1, <2>2, <2>4 DEF Complete
<1>4. CASE SkipEmpty
  <2>1. /\ rd = "row" /\ rd' = "row" /\ i' = i + 1 /\ rows[Slot(low + i)].datalen = 0
        /\ rows' = rows /\ UNCHANGED <<alive, late, low, lines>>
    BY <1>0, <1>4 DEF SkipEmpty, vars
  <2>2. late => Shown(lines, low, i + 1, rows)
    BY <1>0, <2>1, ShownSkip DEF Complete
  <2>3. late' => Shown(lines', low', i', rows')
    BY <2>1, <2>2
  <2> QED BY <2>1, <2>3 DEF Complete
<1>5. CASE BeginLine
  <2>1. /\ rd = "row" /\ rd' = "head" /\ rows[Slot(low + i)].datalen # 0
        /\ rows' = rows /\ UNCHANGED <<alive, late, low, i, lines>>
        /\ line'.slot = Slot(low + i)
    BY <1>0, <1>5 DEF BeginLine, vars, NoLine
  <2>2. late' => Shown(lines', low', i', rows')
    BY <2>1 DEF Complete
  <2>3. line'.slot = Slot(low' + i') /\ rows'[line'.slot].datalen # 0
    BY <2>1
  <2> QED BY <2>1, <2>2, <2>3 DEF Complete, Slot, RowId, IdMod
<1>6. CASE ReadHead \/ ReadItem \/ StepOver
  <2>1. /\ rd \in {"head", "item", "step"} /\ rd' \in {"item", "step"}
        /\ rows' = rows /\ UNCHANGED <<alive, late, low, i, lines>>
        /\ line'.slot = line.slot
    BY <1>0, <1>6 DEF ReadHead, ReadItem, StepOver, vars, ReaderType, LineType
  <2>2. late' => Shown(lines', low', i', rows')
    BY <2>1 DEF Complete
  <2>3. late' => line'.slot = Slot(low' + i') /\ rows'[line'.slot].datalen # 0
    BY <2>1 DEF Complete
  <2> QED BY <2>1, <2>2, <2>3 DEF Complete, Slot, RowId, IdMod
<1>7. CASE EndLine
  <2> PICK w : w = [line EXCEPT !.whole = @ /\ clean[line.slot] /\ owner[line.slot] = line.of]
    OBVIOUS
  <2>1. /\ rd = "item" /\ rd' = "row" /\ i' = i + 1 /\ lines' = Append(lines, w)
        /\ rows' = rows /\ UNCHANGED <<alive, late, low>>
    BY <1>7, Zenon DEF EndLine, vars
  <2>2. w \in LineType /\ w.slot = line.slot
    <3> PICK g : g = (line.whole /\ clean[line.slot] /\ owner[line.slot] = line.of)
      OBVIOUS
    <3>1. g \in BOOLEAN /\ w = [line EXCEPT !.whole = g]
      BY Zenon
    <3> HIDE DEF Good
    <3> QED BY <1>0, <3>1 DEF ReaderType, LineType
  <2>3. lines \in Seq(LineType) /\ i < NumRows
    BY <1>0, <2>1 DEF ReaderType
  <2>4. late => Shown(Append(lines, w), low, i + 1, rows)
    <3> SUFFICES ASSUME late PROVE Shown(Append(lines, w), low, i + 1, rows)
      OBVIOUS
    <3>1. /\ Shown(lines, low, i, rows)
          /\ line.slot = Slot(low + i) /\ rows[line.slot].datalen # 0
      BY <2>1 DEF Complete
    <3> QED BY <1>0, <2>2, <2>3, <3>1, ShownAppend
  <2>5. late' => Shown(lines', low', i', rows')
    BY <2>1, <2>4
  <2> QED BY <2>1, <2>5 DEF Complete
<1>8. CASE EndDump
  <2>1. /\ rd = "row" /\ rd' = "done" /\ i = NumRows
        /\ rows' = rows /\ UNCHANGED <<alive, late, low, i, lines>>
    BY <1>8 DEF EndDump, vars
  <2>2. late' => Shown(lines', low', i', rows')
    BY <2>1 DEF Complete
  <2> QED BY <2>1, <2>2 DEF Complete
<1>9. CASE UNCHANGED dvars
  BY <1>9 DEF dvars, vars, reader, Complete, Shown, Slot, RowId, IdMod
<1> QED BY <1>1, <1>2, <1>3, <1>4, <1>5, <1>6, <1>7, <1>8, <1>9 DEF DumpNext, PrintRows

\* A dump begun when the program was over shows every row with a content once and
\* no other row: the loop meets each slot once from that of the lowest id on, also
\* where row ids have wrapped, for any number of rows and laps.
THEOREM DumpIsComplete == DumpSpec => []DumpComplete
<1>1. DumpInit => Complete
  BY DEF DumpInit, Complete
<1>2. DumpInv /\ Complete /\ [DumpNext]_dvars => Complete'
  BY CompleteStep
<1>3. DumpInv /\ Complete => DumpComplete
  <2> SUFFICES ASSUME DumpInv, Complete, rd = "done", late PROVE DumpComplete
    BY DEF DumpComplete
  <2>1. ReaderType /\ low \in Nat
    BY RowsAssumption, MulAtLeast DEF DumpInv, ReaderType, IdMod
  <2>2. Shown(lines, low, NumRows, rows)
    BY DEF Complete
  <2>3. ASSUME NEW k \in DOMAIN lines
        PROVE  lines[k].slot \in Slots
    <3>1. lines \in Seq(LineType) /\ DOMAIN lines = 1 .. Len(lines)
      BY <2>1, LenProperties DEF ReaderType
    <3>2. lines[k] \in LineType
      BY <2>3, <3>1, ElementOfSeq
    <3> QED BY <3>2 DEF LineType
  <2>4. \A s \in Slots : \E j \in 0 .. NumRows - 1 : Slot(low + j) = s
    BY <2>1, FullTurn
  <2>5. {lines[k].slot : k \in DOMAIN lines} \subseteq {s \in Slots : rows[s].datalen # 0}
    BY <2>2, <2>3 DEF Shown
  <2>6. ASSUME NEW s \in Slots, rows[s].datalen # 0
        PROVE  \E k \in DOMAIN lines : lines[k].slot = s
    <3>1. PICK j \in 0 .. NumRows - 1 : Slot(low + j) = s
      BY <2>4
    <3> QED BY <2>2, <2>6, <3>1 DEF Shown
  <2>7. {s \in Slots : rows[s].datalen # 0} \subseteq {lines[k].slot : k \in DOMAIN lines}
    BY <2>6
  <2>8. \A j, k \in DOMAIN lines : lines[j].slot = lines[k].slot => j = k
    BY <2>2 DEF Shown
  <2> QED BY <2>5, <2>7, <2>8 DEF DumpComplete
<1> QED BY <1>1, <1>2, <1>3, DumpSafe, PTL DEF DumpSpec

-----------------------------------------------------------------------------
(* The order of a dump.                                                    *)

\* Claims of one slot are a multiple of the number of rows apart.
LEMMA SlotsApart ==
  ASSUME NEW a \in Nat, NEW b \in Nat, Slot(a) = Slot(b)
  PROVE  \E m \in Int : a - b = NumRows * m
<1> DEFINE x == a \div NumRows  y == b \div NumRows  r == a % NumRows  u == b % NumRows
<1>0. NumRows \in Nat \ {0} /\ a \in Int /\ b \in Int
  BY RowsAssumption
<1>1. /\ x \in Int /\ r \in 0 .. NumRows - 1 /\ a = NumRows * x + r
      /\ y \in Int /\ u \in 0 .. NumRows - 1 /\ b = NumRows * y + u
  BY <1>0, DivMod
<1>2. r = u
  BY SlotFacts
<1> HIDE DEF x, y, r, u
<1>3. a - b = NumRows * (x - y)
  <2>1. NumRows * (x - y) = NumRows * x - NumRows * y
    BY <1>0, <1>1
  <2> DEFINE nx == NumRows * x  ny == NumRows * y
  <2>2. nx \in Int /\ ny \in Int
    BY <1>0, <1>1
  <2>3. a = nx + r /\ b = ny + u /\ r \in Int
    BY <1>1
  <2> HIDE DEF nx, ny
  <2>4. a - b = nx - ny
    BY <1>2, <2>2, <2>3
  <2> QED BY <2>1, <2>4 DEF nx, ny
<1> QED BY <1>1, <1>3

\* A multiple of the number of rows that is less than a turn is none, and one that
\* is less than two turns back, and not none, is a turn back.
LEMMA LessThanATurn ==
  ASSUME NEW m \in Int, NEW d \in Int, d = NumRows * m, d < NumRows
  PROVE  /\ d > -NumRows => d = 0
         /\ d > -NumRows - NumRows => d = 0 \/ d = -NumRows
<1>0. NumRows \in Nat \ {0}
  BY RowsAssumption
<1>1. CASE m >= 1
  BY <1>0, <1>1, MulAtLeast
<1>2. CASE m = 0
  BY <1>0, <1>2
<1>3. CASE m = -1
  BY <1>0, <1>3
<1>4. CASE m <= -2
  <2>1. NumRows * (-m - 1) >= NumRows
    BY <1>0, <1>4, MulAtLeast
  <2>2. NumRows * (-m - 1) = -d - NumRows
    BY <1>0
  <2> QED BY <1>0, <2>1, <2>2
<1> QED BY <1>1, <1>2, <1>3, <1>4

\* The claims of the last turn before claim n.
Newest(n) == Nat \cap (n - NumRows .. n - 1)

\* The claim x slots after that of lo, where z is the one of lo's slot itself.
Turned(z, n, x) == IF z + x < n THEN z + x ELSE z + x - NumRows

\* Slots taken in turn from any one on have claims that rise, but for one fall.
LEMMA TurnsRise ==
  ASSUME NEW lo \in Nat, NEW n \in Nat
  PROVE  \E z \in Int : \A x \in 0 .. NumRows - 1 : \A c \in Newest(n) :
           Slot(c) = Slot(lo + x) => c = Turned(z, n, x)
<1> DEFINE f == n - NumRows  a == lo - f  q == a \div NumRows  r == a % NumRows
<1>0. NumRows \in Nat \ {0} /\ a \in Int /\ f \in Int
  BY RowsAssumption
<1>1. q \in Int /\ r \in 0 .. NumRows - 1 /\ a = NumRows * q + r
  BY <1>0, DivMod
<1> HIDE DEF q, r
<1> DEFINE z == f + r
<1>2. ASSUME NEW x \in 0 .. NumRows - 1, NEW c \in Newest(n), Slot(c) = Slot(lo + x)
      PROVE  c = Turned(z, n, x)
  <2>1. c \in Nat /\ c >= f /\ c < n /\ lo + x \in Nat /\ x \in Int /\ x >= 0 /\ x < NumRows
    BY <1>0, <1>2 DEF Newest
  <2>2. PICK m \in Int : c - (lo + x) = NumRows * m
    BY <1>2, <2>1, SlotsApart
  <2> DEFINE d == c - (z + x)
  <2>3. d = NumRows * (m + q)
    <3> DEFINE nm == NumRows * m  nq == NumRows * q
    <3>1. NumRows * (m + q) = nm + nq /\ nm \in Int /\ nq \in Int
      BY <1>0, <1>1
    <3>2. c - (lo + x) = nm /\ lo - f = nq + r
      BY <1>1, <2>2
    <3> HIDE DEF nm, nq, f
    <3>3. d = nm + nq
      BY <1>0, <1>1, <2>1, <3>1, <3>2
    <3> QED BY <3>1, <3>3
  <2>4. d \in Int /\ d < NumRows /\ d > -NumRows - NumRows
    BY <1>0, <1>1, <2>1
  <2>5. m + q \in Int
    BY <1>1
  <2> DEFINE e == m + q
  <2> HIDE DEF d, e
  <2>6. d = 0 \/ d = -NumRows
    BY <2>3, <2>4, <2>5, LessThanATurn DEF e
  <2>7. z + x \in Int
    BY <1>0, <1>1, <2>1
  <2> HIDE DEF z
  <2>8. d = 0 => c = z + x
    BY <2>1, <2>7 DEF d
  <2>9. d = -NumRows => c = z + x - NumRows /\ z + x >= n
    <3>1. d = -NumRows => c + NumRows = z + x
      BY <1>0, <2>1, <2>7 DEF d
    <3> DEFINE g == z + x
    <3>2. c + NumRows = g => c = g - NumRows /\ g >= n
      BY <1>0, <2>1
    <3>3. g - NumRows = z + x - NumRows
      BY <1>0, <1>1, <2>1 DEF z
    <3> QED BY <3>1, <3>2, <3>3
  <2>10. CASE d = 0
    <3>1. z + x < n
      BY <2>1, <2>7, <2>8, <2>10
    <3> QED BY <2>8, <2>10, <3>1 DEF Turned
  <2>11. CASE d = -NumRows
    <3>1. ~(z + x < n)
      BY <2>7, <2>9, <2>11
    <3> QED BY <2>9, <2>11, <3>1 DEF Turned
  <2> QED BY <2>6, <2>10, <2>11
<1>3. z \in Int
  BY <1>0, <1>1
<1> QED BY <1>2, <1>3

\* From the oldest of these claims on they rise without a fall.
LEMMA TurnFromOldest ==
  ASSUME NEW lo \in Nat, NEW n \in Nat, n - NumRows <= lo,
         NEW x \in 0 .. NumRows - 1, NEW c \in Newest(n), Slot(c) = Slot(lo + x), lo <= c
  PROVE  c = lo + x
<1>1. NumRows \in Nat \ {0} /\ c \in Nat /\ c < n /\ lo + x \in Nat /\ x \in Nat /\ x < NumRows
  BY RowsAssumption DEF Newest
<1>2. PICK m \in Int : c - (lo + x) = NumRows * m
  BY <1>1, SlotsApart
<1> DEFINE d == c - (lo + x)
<1>3. d \in Int /\ d < NumRows /\ d > -NumRows
  BY <1>1
<1> HIDE DEF d
<1>4. d = 0
  BY <1>2, <1>3, LessThanATurn DEF d
<1> QED BY <1>1, <1>4 DEF d

\* The claim a slot was last given is one of the newest.
LEMMA OwnersNewest ==
  ASSUME TypeOK, OwnerOK, NEW s \in Slots, owner[s] # Nobody
  PROVE  owner[s] \in Newest(claims) /\ Slot(owner[s]) = s
<1> DEFINE c == owner[s]
<1>1. claims \in Nat /\ c \in Nat /\ c < claims /\ Slot(c) = s
  BY DEF TypeOK, OwnerOK
<1> HIDE DEF c
<1>2. PICK k \in Nat : k \in claims - NumRows .. claims - 1 /\ c <= k /\ Slot(k) = Slot(c)
  BY <1>1, SameSlotLater
<1>3. k <= c
  <2>1. k \in 0 .. claims - 1
    BY <1>1, <1>2, RowsAssumption
  <2>2. k <= owner[Slot(k)]
    BY <2>1 DEF OwnerOK
  <2> QED BY <1>1, <1>2, <2>2 DEF c
<1>4. k = c
  BY <1>1, <1>2, <1>3
<1> QED BY <1>1, <1>2, <1>4 DEF Newest, c

\* ls are lines of some of the n slots met from that of id lo on, in the order they
\* are met, each of the claim that ow says its slot was last given.
InTurn(ls, lo, n, ow) ==
  /\ \A k \in DOMAIN ls : ls[k].of = ow[ls[k].slot] /\ ls[k].of # Nobody
  /\ \A k \in DOMAIN ls : \E x \in 0 .. n - 1 : ls[k].slot = Slot(lo + x)
  /\ \A j, k \in DOMAIN ls : j < k =>
       \E x, y \in 0 .. n - 1 :
         x < y /\ ls[j].slot = Slot(lo + x) /\ ls[k].slot = Slot(lo + y)

\* A slot that is skipped leaves them so.
LEMMA InTurnSkip ==
  ASSUME NEW ls, NEW lo, NEW n \in Nat, NEW ow, InTurn(ls, lo, n, ow)
  PROVE  InTurn(ls, lo, n + 1, ow)
<1>1. \A x \in 0 .. n - 1 : x \in 0 .. (n + 1) - 1
  OBVIOUS
<1> QED BY <1>1, Zenon DEF InTurn

\* And so does the line of the slot met next.
LEMMA InTurnAppend ==
  ASSUME NEW ls \in Seq(LineType), NEW lo \in Nat, NEW n \in Nat, NEW ow, InTurn(ls, lo, n, ow),
         NEW w \in LineType, w.slot = Slot(lo + n), w.of = ow[w.slot], w.of # Nobody
  PROVE  InTurn(Append(ls, w), lo, n + 1, ow)
<1> DEFINE m == Len(ls)  v == Append(ls, w)
<1>1. /\ m \in Nat /\ DOMAIN ls = 1 .. m /\ DOMAIN v = 1 .. m + 1
      /\ \A k \in 1 .. m : v[k] = ls[k]
      /\ v[m + 1] = w
  BY AppendProperties, LenProperties
<1> HIDE DEF m, v
<1>2. /\ \A k \in DOMAIN v : k \in DOMAIN ls \/ k = m + 1
      /\ \A j, k \in DOMAIN v : j < k => j \in DOMAIN ls
      /\ \A k \in DOMAIN ls : v[k] = ls[k]
  BY <1>1
<1>3. /\ \A x \in 0 .. n - 1 : x \in 0 .. (n + 1) - 1 /\ x < n
      /\ n \in 0 .. (n + 1) - 1
  OBVIOUS
<1>4. ASSUME NEW k \in DOMAIN v
      PROVE  /\ v[k].of = ow[v[k].slot] /\ v[k].of # Nobody
             /\ \E x \in 0 .. (n + 1) - 1 : v[k].slot = Slot(lo + x)
  <2>1. CASE k \in DOMAIN ls
    <3>1. PICK x \in 0 .. n - 1 : ls[k].slot = Slot(lo + x)
      BY <2>1, Zenon DEF InTurn
    <3>2. ls[k].of = ow[ls[k].slot] /\ ls[k].of # Nobody
      BY <2>1, Zenon DEF InTurn
    <3> QED BY <1>2, <1>3, <2>1, <3>1, <3>2, Zenon
  <2>2. CASE k = m + 1
    <3>1. v[k] = w
      BY <1>1, <2>2
    <3> QED BY <1>3, <3>1, Zenon
  <2> QED BY <1>2, <2>1, <2>2
<1>5. ASSUME NEW j \in DOMAIN v, NEW k \in DOMAIN v, j < k
      PROVE  \E x, y \in 0 .. (n + 1) - 1 :
               x < y /\ v[j].slot = Slot(lo + x) /\ v[k].slot = Slot(lo + y)
  <2>0. j \in DOMAIN ls /\ v[j] = ls[j]
    BY <1>2, <1>5
  <2>1. CASE k \in DOMAIN ls
    <3>1. PICK x \in 0 .. n - 1, y \in 0 .. n - 1 :
            x < y /\ ls[j].slot = Slot(lo + x) /\ ls[k].slot = Slot(lo + y)
      BY <1>5, <2>0, <2>1, Zenon DEF InTurn
    <3> QED BY <1>2, <1>3, <2>0, <2>1, <3>1, Zenon
  <2>2. CASE k = m + 1
    <3>1. PICK x \in 0 .. n - 1 : ls[j].slot = Slot(lo + x)
      BY <2>0, Zenon DEF InTurn
    <3>2. v[k] = w
      BY <1>1, <2>2
    <3> QED BY <1>3, <2>0, <3>1, <3>2, Zenon
  <2> QED BY <1>2, <2>1, <2>2
<1>6. InTurn(v, lo, n + 1, ow)
  BY <1>4, <1>5, Zenon DEF InTurn
<1> QED BY <1>6 DEF v

\* low is the lowest of the first n rows' ids.
LowestOf(n) ==
  /\ \A s \in 0 .. n - 1 : low <= rows[s].id
  /\ low = IdMod - 1 \/ \E s \in 0 .. n - 1 : low = rows[s].id

\* What a dump begun when the program was over has found, and the order it is in.
Ordered ==
  /\ rd = "scan" /\ i = 0 => low = IdMod - 1
  /\ late /\ rd = "scan" => LowestOf(i)
  /\ late /\ rd # "scan" =>
       /\ LowestOf(NumRows)
       /\ InTurn(lines, low, i, owner)
       /\ rd \in {"head", "item", "step"} => line.of = owner[line.slot] /\ line.of # Nobody

\* One row more of the scan.
LEMMA ScanLowest ==
  ASSUME DumpInv, Scan, i < NumRows, LowestOf(i)
  PROVE  LowestOf(i)'
<1>1. i \in Nat /\ low \in 0 .. IdMod - 1 /\ NumRows \in Nat /\ i \in Slots
  BY RowsAssumption DEF DumpInv, ReaderType, Slots
<1>2. IdMod \in Nat
  BY RowsAssumption, MulAtLeast DEF IdMod
<1>3. /\ low' = IF rows[i].id <= low THEN rows[i].id ELSE low
      /\ i' = i + 1 /\ rows' = rows
  BY DEF Scan, vars
<1>4. \A s \in Slots : rows[s].id \in 0 .. IdMod - 1
  BY RowsTyped DEF DumpInv, WholeInv, RowInv, RowType
<1>5. \A s \in 0 .. i : s \in Slots /\ rows[s].id \in Nat
  BY <1>1, <1>2, <1>4 DEF Slots
<1>6. ASSUME NEW s \in 0 .. i
      PROVE  low' <= rows[s].id
  <2>1. rows[s].id \in Nat /\ rows[i].id \in Nat /\ low \in Nat
    BY <1>1, <1>2, <1>5
  <2>2. s = i \/ low <= rows[s].id
    BY <1>1 DEF LowestOf
  <2> QED BY <1>3, <2>1, <2>2
<1>7. low' = IdMod - 1 \/ \E s \in 0 .. i : low' = rows[s].id
  <2>1. i \in 0 .. i /\ \A s \in 0 .. i - 1 : s \in 0 .. i
    BY <1>1
  <2> QED BY <1>3, <2>1 DEF LowestOf
<1>8. i' - 1 = i
  BY <1>1, <1>3
<1> QED BY <1>3, <1>6, <1>7, <1>8 DEF LowestOf, IdMod

\* Every step keeps what was found, and its order.
LEMMA OrderedStep ==
  ASSUME DumpInv, Complete, Ordered, [DumpNext]_dvars
  PROVE  Ordered'
<1>0. /\ ReaderType /\ low \in Nat /\ i \in Nat
      /\ Here = Slot(low + i)
  <2>1. ReaderType
    BY DEF DumpInv
  <2>2. low \in Nat /\ i \in Nat
    BY <2>1, RowsAssumption, MulAtLeast DEF ReaderType, IdMod
  <2> QED BY <2>1, <2>2 DEF Here, RowIdx, Slot, RowId
<1>1. CASE Program
  <2>1. alive /\ late' = late /\ rd' = rd /\ i' = i /\ low' = low
    BY <1>1 DEF Program, reader
  <2>2. ~late'
    BY <2>1 DEF Complete
  <2> QED BY <2>1, <2>2 DEF Ordered, IdMod
<1>2. CASE End
  BY <1>2 DEF End, Ordered, vars, reader, InTurn, LowestOf, Slot, RowId, IdMod, Nobody
<1>3. CASE Scan
  <2>1. /\ rd = "scan" /\ late' = (IF i = 0 THEN ~alive ELSE late)
        /\ rows' = rows /\ owner' = owner /\ lines' = lines
    BY <1>3 DEF Scan, vars
  <2>2. late' => LowestOf(i)
    <3>1. CASE i = 0
      <4>1. low = IdMod - 1 /\ 0 .. i - 1 = {}
        BY <2>1, <3>1 DEF Ordered
      <4> QED BY <4>1 DEF LowestOf
    <3>2. CASE i # 0
      BY <2>1, <3>2 DEF Ordered
    <3> QED BY <3>1, <3>2
  <2>3. CASE i < NumRows
    <3>1. rd' = "scan" /\ i' = i + 1 /\ i' # 0
      BY <1>0, <1>3, <2>1, <2>3 DEF Scan
    <3>2. late' => LowestOf(i)'
      BY <1>3, <2>2, <2>3, ScanLowest
    <3> QED BY <3>1, <3>2 DEF Ordered
  <2>4. CASE ~(i < NumRows)
    <3>1. rd' = "row" /\ i' = 0 /\ low' = low /\ i = NumRows
      BY <1>0, <1>3, <2>4, RowsAssumption DEF Scan, ReaderType
    <3>2. late' => LowestOf(NumRows)'
      BY <2>1, <2>2, <3>1 DEF LowestOf, IdMod
    <3>3. InTurn(lines', low', i', owner')
      <4>1. lines = <<>>
        BY <1>0, <2>1 DEF ReaderType
      <4>2. DOMAIN lines' = {}
        BY <2>1, <4>1
      <4> QED BY <4>2 DEF InTurn
    <3> QED BY <3>1, <3>2, <3>3 DEF Ordered
  <2> QED BY <2>3, <2>4
<1>4. CASE SkipEmpty
  <2>1. /\ rd = "row" /\ rd' = "row" /\ i' = i + 1
        /\ rows' = rows /\ owner' = owner /\ UNCHANGED <<late, low, lines>>
    BY <1>4 DEF SkipEmpty, vars
  <2>2. late => InTurn(lines, low, i + 1, owner)
    BY <1>0, <2>1, InTurnSkip DEF Ordered
  <2>3. late' => InTurn(lines', low', i', owner')
    BY <2>1, <2>2
  <2>4. late' => LowestOf(NumRows)'
    BY <2>1 DEF Ordered, LowestOf, IdMod
  <2> QED BY <2>1, <2>3, <2>4 DEF Ordered
<1>5. CASE BeginLine
  <2>0. Here \in Slots
    BY <1>0, HereSlot
  <2>1. /\ rd = "row" /\ rd' = "head" /\ rows[Here].datalen # 0
        /\ rows' = rows /\ owner' = owner /\ UNCHANGED <<late, low, i, lines>>
        /\ line'.slot = Here /\ line'.of = owner[Here]
    BY <1>5 DEF BeginLine, vars, NoLine
  <2>2. late' => InTurn(lines', low', i', owner')
    BY <2>1 DEF Ordered
  <2>3. owner[Here] # Nobody
    BY <2>0, <2>1 DEF DumpInv, Unclaimed
  <2>4. line'.of = owner'[line'.slot] /\ line'.of # Nobody
    BY <2>1, <2>3
  <2>5. late' => LowestOf(NumRows)'
    BY <2>1 DEF Ordered, LowestOf, IdMod
  <2> QED BY <2>1, <2>2, <2>4, <2>5 DEF Ordered, Nobody
<1>6. CASE ReadHead \/ ReadItem \/ StepOver
  <2>1. /\ rd \in {"head", "item", "step"} /\ rd' \in {"item", "step"}
        /\ rows' = rows /\ owner' = owner /\ UNCHANGED <<late, low, i, lines>>
        /\ line'.slot = line.slot /\ line'.of = line.of
    BY <1>0, <1>6 DEF ReadHead, ReadItem, StepOver, vars, ReaderType, LineType
  <2>2. late' => InTurn(lines', low', i', owner')
    BY <2>1 DEF Ordered
  <2>3. late' => line'.of = owner'[line'.slot] /\ line'.of # Nobody
    BY <2>1 DEF Ordered
  <2>4. late' => LowestOf(NumRows)'
    BY <2>1 DEF Ordered, LowestOf, IdMod
  <2> QED BY <2>1, <2>2, <2>3, <2>4 DEF Ordered, Nobody
<1>7. CASE EndLine
  <2> PICK w : w = [line EXCEPT !.whole = @ /\ clean[line.slot] /\ owner[line.slot] = line.of]
    OBVIOUS
  <2>1. /\ rd = "item" /\ rd' = "row" /\ i' = i + 1 /\ lines' = Append(lines, w)
        /\ rows' = rows /\ owner' = owner /\ UNCHANGED <<late, low>>
    BY <1>7, Zenon DEF EndLine, vars
  <2>2. w \in LineType /\ w.slot = line.slot /\ w.of = line.of
    <3> PICK g : g = (line.whole /\ clean[line.slot] /\ owner[line.slot] = line.of)
      OBVIOUS
    <3>1. g \in BOOLEAN /\ w = [line EXCEPT !.whole = g]
      BY Zenon
    <3> QED BY <1>0, <3>1 DEF ReaderType, LineType
  <2>3. lines \in Seq(LineType)
    BY <1>0 DEF ReaderType
  <2>4. late => InTurn(Append(lines, w), low, i + 1, owner)
    <3> SUFFICES ASSUME late PROVE InTurn(Append(lines, w), low, i + 1, owner)
      OBVIOUS
    <3>1. line.slot = Slot(low + i)
      BY <2>1 DEF Complete
    <3>2. InTurn(lines, low, i, owner) /\ line.of = owner[line.slot] /\ line.of # Nobody
      BY <2>1 DEF Ordered
    <3> QED BY <1>0, <2>2, <2>3, <3>1, <3>2, InTurnAppend
  <2>5. late' => InTurn(lines', low', i', owner')
    BY <2>1, <2>4
  <2>6. late' => LowestOf(NumRows)'
    BY <2>1 DEF Ordered, LowestOf, IdMod
  <2> QED BY <2>1, <2>5, <2>6 DEF Ordered
<1>8. CASE EndDump
  <2>1. /\ rd = "row" /\ rd' = "done"
        /\ rows' = rows /\ owner' = owner /\ UNCHANGED <<late, low, i, lines>>
    BY <1>8 DEF EndDump, vars
  <2>2. late' => InTurn(lines', low', i', owner')
    BY <2>1 DEF Ordered
  <2>3. late' => LowestOf(NumRows)'
    BY <2>1 DEF Ordered, LowestOf, IdMod
  <2> QED BY <2>1, <2>2, <2>3 DEF Ordered
<1>9. CASE UNCHANGED dvars
  BY <1>9 DEF dvars, vars, reader, Ordered, InTurn, LowestOf, Slot, RowId, IdMod, Nobody
<1> QED BY <1>1, <1>2, <1>3, <1>4, <1>5, <1>6, <1>7, <1>8, <1>9 DEF DumpNext, PrintRows

\* Where row ids have not wrapped, the lowest is of the oldest claim that is kept.
LEMMA LowIsOldest ==
  ASSUME TypeOK, OwnerOK, low \in 0 .. IdMod - 1, LowestOf(NumRows), claims <= IdMod,
         \A s \in Slots : owner[s] # Nobody => rows[s].id = RowId(owner[s])
  PROVE  /\ claims - NumRows <= low
         /\ \A s \in Slots : owner[s] # Nobody => low <= owner[s]
<1>0. NumRows \in Nat \ {0} /\ IdMod \in Nat \ {0} /\ claims \in Nat /\ low \in Nat
  BY RowsAssumption, MulAtLeast DEF IdMod, TypeOK
<1>1. ASSUME NEW s \in Slots, owner[s] # Nobody
      PROVE  rows[s].id = owner[s] /\ owner[s] \in Newest(claims)
  <2>1. owner[s] \in Newest(claims)
    BY <1>1, OwnersNewest
  <2>2. owner[s] \in 0 .. IdMod - 1
    BY <1>0, <2>1 DEF Newest
  <2>3. RowId(owner[s]) = owner[s]
    BY <1>0, <2>2, SmallMod DEF RowId
  <2> QED BY <1>1, <2>1, <2>3
<1>2. ASSUME NEW s \in Slots, owner[s] # Nobody
      PROVE  low <= owner[s]
  <2>1. low <= rows[s].id
    BY DEF LowestOf, Slots
  <2> QED BY <1>1, <1>2, <2>1
<1>3. claims - NumRows <= low
  <2>1. CASE claims <= NumRows
    BY <1>0, <2>1
  <2>2. CASE low = IdMod - 1
    BY <1>0, <2>2
  <2>3. ASSUME NumRows < claims, NEW s \in Slots, low = rows[s].id
        PROVE  claims - NumRows <= low
    <3>1. s \in Nat /\ Slot(s) = s /\ s \in 0 .. claims - 1
      BY <1>0, <2>3, SlotItself DEF Slots
    <3>2. s <= owner[s]
      BY <3>1 DEF OwnerOK
    <3>3. owner[s] # Nobody
      BY <3>1, <3>2 DEF Nobody
    <3>4. owner[s] \in Newest(claims) /\ low = owner[s]
      BY <1>1, <2>3, <3>3
    <3> QED BY <1>0, <3>4 DEF Newest
  <2> QED BY <1>0, <2>1, <2>2, <2>3 DEF LowestOf, Slots
<1> QED BY <1>2, <1>3

\* Lines in turn of a log whose claims are the newest: they rise, but for one fall
\* from the claims of z on to those before it.
LEMMA LinesRise ==
  ASSUME NEW z \in Int, TypeOK, OwnerOK, low \in Nat, lines \in Seq(LineType),
         InTurn(lines, low, NumRows, owner),
         \A x \in 0 .. NumRows - 1 : \A c \in Newest(claims) :
           Slot(c) = Slot(low + x) => c = Turned(z, claims, x),
         NEW j \in DOMAIN lines, NEW k \in DOMAIN lines, j < k
  PROVE  /\ lines[j].of \in Nat /\ lines[k].of \in Nat
         /\ lines[k].of >= z => lines[j].of >= z /\ lines[j].of < lines[k].of
         /\ lines[j].of < z => lines[k].of < z /\ lines[j].of < lines[k].of
<1>0. NumRows \in Nat \ {0} /\ claims \in Nat
  BY RowsAssumption DEF TypeOK
<1>1. ASSUME NEW l \in DOMAIN lines
      PROVE  lines[l].of \in Newest(claims) /\ Slot(lines[l].of) = lines[l].slot
  <2>1. lines[l].slot \in Slots
    <3>1. DOMAIN lines = 1 .. Len(lines)
      BY LenProperties
    <3>2. lines[l] \in LineType
      BY <1>1, <3>1, ElementOfSeq
    <3> QED BY <3>2 DEF LineType
  <2>2. lines[l].of = owner[lines[l].slot] /\ owner[lines[l].slot] # Nobody
    BY <1>1 DEF InTurn
  <2> QED BY <2>1, <2>2, OwnersNewest
<1>2. PICK x \in 0 .. NumRows - 1, y \in 0 .. NumRows - 1 :
        x < y /\ lines[j].slot = Slot(low + x) /\ lines[k].slot = Slot(low + y)
  BY Zenon DEF InTurn
<1> DEFINE a == lines[j].of  b == lines[k].of
<1>3. a \in Newest(claims) /\ b \in Newest(claims) /\ a = Turned(z, claims, x) /\ b = Turned(z, claims, y)
  BY <1>1, <1>2
<1>4. a \in Nat /\ b \in Nat /\ a < claims /\ b < claims
  <2>1. \A c \in Newest(claims) : c \in Nat /\ c < claims
    BY <1>0 DEF Newest
  <2> HIDE DEF a, b
  <2> QED BY <1>3, <2>1
<1> HIDE DEF a, b
<1> DEFINE g == z + x  h == z + y
<1>5. /\ g \in Int /\ h \in Int /\ g < h /\ g >= z /\ h >= z /\ g - NumRows < z /\ h - NumRows < z
      /\ a = IF g < claims THEN g ELSE g - NumRows
      /\ b = IF h < claims THEN h ELSE h - NumRows
  <2>1. x \in Int /\ y \in Int /\ x >= 0 /\ y >= 0 /\ x < NumRows /\ y < NumRows /\ x < y
    BY <1>0, <1>2
  <2>2. z + x - NumRows = (z + x) - NumRows /\ z + y - NumRows = (z + y) - NumRows
    BY <1>0, <2>1
  <2> QED BY <1>0, <1>3, <2>1, <2>2 DEF Turned
<1> HIDE DEF g, h
<1>6. /\ b >= z => a >= z /\ a < b
      /\ a < z => b < z /\ a < b
  BY <1>0, <1>4, <1>5
<1> QED BY <1>4, <1>6 DEF a, b

\* What DumpInOrder says of the lines of such a log.
LEMMA OneFall ==
  ASSUME NEW z \in Int, lines \in Seq(LineType),
         \A k \in DOMAIN lines : lines[k].of \in Nat,
         \A j, k \in DOMAIN lines : j < k =>
           /\ lines[k].of >= z => lines[j].of >= z /\ lines[j].of < lines[k].of
           /\ lines[j].of < z => lines[k].of < z /\ lines[j].of < lines[k].of,
         NEW k \in 2 .. Len(lines), lines[k].of < lines[k - 1].of
  PROVE  /\ {l \in 2 .. Len(lines) : lines[l].of < lines[l - 1].of} = {k}
         /\ lines[Len(lines)].of < lines[1].of
<1> DEFINE m == Len(lines)  O(l) == lines[l].of
<1>0. m \in Nat /\ DOMAIN lines = 1 .. m
  BY LenProperties
<1> HIDE DEF m
<1>1. ASSUME NEW l \in 1 .. m, NEW p \in 1 .. m, l < p
      PROVE  /\ O(p) >= z => O(l) >= z /\ O(l) < O(p)
             /\ O(l) < z => O(p) < z /\ O(l) < O(p)
  BY <1>0, <1>1
<1>2. \A l \in 1 .. m : O(l) \in Nat
  BY <1>0
<1>3. k \in 2 .. m /\ O(k) < O(k - 1)
  BY DEF m
<1> HIDE DEF O
<1>4. ASSUME NEW l \in 2 .. m, O(l) < O(l - 1)
      PROVE  l \in 1 .. m /\ l - 1 \in 1 .. m /\ O(l) < z /\ O(l - 1) >= z
  <2>1. l \in 1 .. m /\ l - 1 \in 1 .. m /\ l - 1 < l
    BY <1>0
  <2> PICK p : p = l - 1
    OBVIOUS
  <2>2. O(l) \in Nat /\ O(p) \in Nat /\ O(l) < O(p)
    BY <1>2, <1>4, <2>1
  <2>3. /\ O(l) >= z => O(p) >= z /\ O(p) < O(l)
        /\ O(p) < z => O(l) < z /\ O(p) < O(l)
    BY <1>1, <2>1
  <2> QED BY <2>1, <2>2, <2>3
<1>5. k \in 1 .. m /\ k - 1 \in 1 .. m /\ O(k) < z /\ O(k - 1) >= z
  BY <1>3, <1>4
<1>6. ASSUME NEW l \in 2 .. m, O(l) < O(l - 1), NEW p \in 2 .. m, O(p) < O(p - 1), l < p
      PROVE  FALSE
  <2>1. l \in 1 .. m /\ O(l) < z /\ p - 1 \in 1 .. m /\ O(p - 1) >= z
    BY <1>4, <1>6
  <2>2. l # p - 1
    BY <1>2, <2>1
  <2>3. l < p - 1
    BY <1>0, <1>6, <2>2
  <2>4. O(p - 1) < z
    BY <1>1, <2>1, <2>3
  <2>5. O(p - 1) \in Nat
    BY <1>2, <2>1
  <2> QED BY <2>1, <2>4, <2>5
<1>7. \A l \in 2 .. m : O(l) < O(l - 1) => l = k
  <2> SUFFICES ASSUME NEW l \in 2 .. m, O(l) < O(l - 1) PROVE ~(l < k) /\ ~(k < l)
    BY <1>0, <1>3
  <2> QED BY <1>3, <1>6
<1>8. O(m) < O(1)
  <2>1. 1 \in 1 .. m /\ m \in 1 .. m /\ k <= m /\ 1 <= k - 1
    BY <1>0, <1>3
  <2>2. O(m) < z
    <3>1. CASE k = m
      BY <1>5, <3>1
    <3>2. CASE k < m
      BY <1>1, <1>5, <2>1, <3>2
    <3> QED BY <1>0, <1>3, <2>1, <3>1, <3>2
  <2>3. O(1) >= z
    <3>1. CASE k - 1 = 1
      BY <1>5, <3>1
    <3>2. CASE 1 < k - 1
      BY <1>1, <1>5, <2>1, <3>2
    <3> QED BY <1>0, <1>3, <2>1, <3>1, <3>2
  <2>4. O(m) \in Nat /\ O(1) \in Nat
    BY <1>2, <2>1
  <2> QED BY <2>2, <2>3, <2>4
<1>9. \A l \in 2 .. m : (lines[l].of < lines[l - 1].of) <=> l = k
  BY <1>3, <1>7 DEF O
<1>10. {l \in 2 .. m : lines[l].of < lines[l - 1].of} = {k}
  BY <1>3, <1>9
<1> QED BY <1>8, <1>10 DEF m, O

\* In the dump of a log whose writers had all let go of their rows, none shared, the
\* lines are of the newest messages, each newer than the one before it; only where
\* row ids began again at zero may the newer part of them come first: the scan for
\* the lowest row id finds where to begin, for any number of rows and laps.
THEOREM DumpOrdered == DumpSpec => []DumpInOrder
<1>1. DumpInit => Complete /\ Ordered
  BY DEF DumpInit, Complete, Ordered
<1>2. DumpInv /\ Complete /\ Ordered /\ [DumpNext]_dvars => Complete' /\ Ordered'
  BY CompleteStep, OrderedStep
<1>3. DumpInv /\ Complete /\ Ordered => DumpInOrder
  <2> SUFFICES ASSUME DumpInv, Complete, Ordered, rd = "done", late, Over,
                      \A t \in Thread : pc[t] = "idle"
               PROVE  /\ {lines[k].of : k \in DOMAIN lines} \subseteq claims - NumRows .. claims - 1
                      /\ LET back == {k \in 2 .. Len(lines) : lines[k].of < lines[k - 1].of} IN
                           /\ claims <= IdMod => back = {}
                           /\ \A k \in back : back = {k} /\ lines[Len(lines)].of < lines[1].of
    BY DEF DumpInOrder
  <2>1. /\ TypeOK /\ OwnerOK /\ low \in Nat /\ low \in 0 .. IdMod - 1 /\ claims \in Nat
        /\ lines \in Seq(LineType) /\ DOMAIN lines = 1 .. Len(lines) /\ Len(lines) \in Nat
    BY RowsAssumption, MulAtLeast, LenProperties
       DEF DumpInv, WholeInv, RowInv, ReaderType, IdMod, TypeOK
  <2>2. InTurn(lines, low, NumRows, owner) /\ LowestOf(NumRows)
    BY DEF Complete, Ordered
  <2>3. \A s \in Slots : owner[s] # Nobody => rows[s].id = RowId(owner[s])
    BY DEF Over, Settled, Holds, DumpInv, WholeInv, RowInv, CleanRowIntact, Carries
  <2>4. ASSUME NEW k \in DOMAIN lines
        PROVE  /\ lines[k].of \in Newest(claims) /\ lines[k].slot \in Slots
               /\ lines[k].of = owner[lines[k].slot] /\ lines[k].of # Nobody
               /\ Slot(lines[k].of) = lines[k].slot
    <3>1. lines[k].slot \in Slots
      <4>1. lines[k] \in LineType
        BY <2>1, <2>4, ElementOfSeq
      <4> QED BY <4>1 DEF LineType
    <3>2. lines[k].of = owner[lines[k].slot] /\ lines[k].of # Nobody
      BY <2>2, <2>4 DEF InTurn
    <3> QED BY <2>1, <3>1, <3>2, OwnersNewest
  <2>5. {lines[k].of : k \in DOMAIN lines} \subseteq claims - NumRows .. claims - 1
    BY <2>4 DEF Newest
  <2>6. PICK z \in Int : \A x \in 0 .. NumRows - 1 : \A c \in Newest(claims) :
          Slot(c) = Slot(low + x) => c = Turned(z, claims, x)
    BY <2>1, TurnsRise
  <2>7. \A j, k \in DOMAIN lines : j < k =>
           /\ lines[k].of >= z => lines[j].of >= z /\ lines[j].of < lines[k].of
           /\ lines[j].of < z => lines[k].of < z /\ lines[j].of < lines[k].of
    BY <2>1, <2>2, <2>6, LinesRise
  <2>8. \A k \in DOMAIN lines : lines[k].of \in Nat
    BY <2>4 DEF Newest
  <2>9. ASSUME NEW k \in 2 .. Len(lines), lines[k].of < lines[k - 1].of, claims <= IdMod
        PROVE  FALSE
    <3>1. k \in DOMAIN lines /\ k - 1 \in DOMAIN lines /\ k - 1 < k
      BY <2>1
    <3>2. PICK x \in 0 .. NumRows - 1, y \in 0 .. NumRows - 1 :
            x < y /\ lines[k - 1].slot = Slot(low + x) /\ lines[k].slot = Slot(low + y)
      BY <2>2, <3>1, Zenon DEF InTurn
    <3>3. /\ claims - NumRows <= low
          /\ \A s \in Slots : owner[s] # Nobody => low <= owner[s]
      BY <2>1, <2>2, <2>3, <2>9, LowIsOldest
    <3>4. lines[k - 1].of = low + x
      BY <2>1, <2>4, <3>1, <3>2, <3>3, TurnFromOldest
    <3>5. lines[k].of = low + y
      BY <2>1, <2>4, <3>1, <3>2, <3>3, TurnFromOldest
    <3> QED BY <2>1, <2>9, <3>2, <3>4, <3>5
  <2>10. ASSUME NEW k \in 2 .. Len(lines), lines[k].of < lines[k - 1].of
         PROVE  /\ {l \in 2 .. Len(lines) : lines[l].of < lines[l - 1].of} = {k}
                /\ lines[Len(lines)].of < lines[1].of
    BY <2>1, <2>7, <2>8, <2>10, OneFall
  <2> QED BY <2>5, <2>9, <2>10
<1> QED BY <1>1, <1>2, <1>3, DumpInitInv, DumpStepInv, PTL DEF DumpSpec

-----------------------------------------------------------------------------
(* The walk over the rows of a program that is over.                       *)

\* A row in use by one thread at most, in which whole items lie back to back.
Walkable(s) ==
  /\ clean[s] /\ rows[s].datalen <= RowLen /\ WholeRow(s)
  /\ \A o \in 0 .. rows[s].datalen - 1 : rows[s].cells[o].by # Nobody

\* Such is every settled row.
LEMMA SettledWalkable ==
  (WholeInv /\ Unclaimed) => \A s \in Slots : Settled(s) => Walkable(s)
<1> SUFFICES ASSUME WholeInv, Unclaimed, NEW s \in Slots, Settled(s) PROVE Walkable(s)
  OBVIOUS
<1>1. RowInv /\ TypeOK /\ WholeRow(s) /\ clean[s]
  BY DEF WholeInv, RowInv, Settled
<1>2. CASE owner[s] = Nobody
  <2>1. rows[s].datalen = 0
    BY <1>2 DEF Unclaimed
  <2> QED BY <1>1, <2>1, LenAssumption DEF Walkable
<1>3. CASE owner[s] # Nobody
  <2>1. Carries(s, owner[s])
    BY <1>1, <1>3 DEF RowInv, CleanRowIntact
  <2> QED BY <1>1, <1>3, <2>1 DEF Carries, Walkable
<1> QED BY <1>2, <1>3

LEMMA SettledWalkableNext ==
  (WholeInv' /\ Unclaimed') => \A s \in Slots : Settled(s)' => Walkable(s)'
<1>1. ((WholeInv /\ Unclaimed) => \A s \in Slots : Settled(s) => Walkable(s))'
  BY SettledWalkable, PTL
<1> QED BY <1>1 DEF Slots

\* While a thread alone in its row stores the header, the row keeps the content it
\* had when the thread took it.
LEMMA FillingKeeps ==
  ASSUME WholeInv, WholeInv', NEW t \in Thread, Step(t), NEW s \in Slots, clean'[s], ~Settled(s)'
  PROVE  /\ rows'[s].cells = rows[s].cells
         /\ rows'[s].datalen = rows[s].datalen
<1>1. TypeOK /\ TypeOK' /\ OwnerOK' /\ s \in DOMAIN rows
  BY DEF WholeInv, RowInv, TypeOK
<1>2. PICK u \in Thread : Holds(u, s)' /\ pc'[u] \in Filling
  BY DEF Settled
<1>3. CASE GetRow(t) \/ Write(t) \/ TimeEvent(t)
  <2>1. rows' = rows
    BY <1>3, ClaimSteps DEF InitRow
  <2> QED BY <2>1
<1>4. CASE RowStep(t)
  <2>1. /\ pc[t] # "idle" /\ (pc'[t] = "idle" \/ claim'[t] = claim[t])
        /\ \A v \in Thread \ {t} : pc'[v] = pc[v] /\ claim'[v] = claim[v]
        /\ \A r \in Slots \ {MySlot(t)} : rows'[r] = rows[r]
    BY <1>1, <1>4, RowFrame
  <2>2. CASE s # MySlot(t)
    BY <2>1, <2>2
  <2>3. CASE s = MySlot(t) /\ u # t
    <3>1. pc'[u] # "idle" /\ MySlot(u)' = s /\ clean'[MySlot(u)']
      BY <1>2 DEF Holds
    <3>2. CASE pc'[t] = "idle"
      <4>1. LetGo(t)
        BY <1>1, <1>4, <2>1, <3>2 DEF RowStep, Stamp, StoreId, ResetLen, CheckRoom, NoRoom,
           PutCells, LoadLen, StoreLen, Append1, SetTs, Goto, TypeOK
      <4> QED BY <4>1 DEF LetGo
    <3>3. CASE pc'[t] # "idle"
      <4>1. MySlot(t)' = s
        BY <2>1, <2>3, <3>3 DEF MySlot, Slot, RowId, IdMod
      <4>2. claim'[t] = claim'[u]
        BY <1>1, <3>1, <3>3, <4>1 DEF OwnerOK
      <4> QED BY <1>1, <2>3, <3>1, <3>3, <4>2 DEF OwnerOK
    <3> QED BY <3>2, <3>3
  <2>4. CASE s = MySlot(t) /\ u = t
    <3>1. pc'[t] \in Filling
      BY <1>2, <2>4
    <3>2. Stamp(t) \/ StoreId(t)
      BY <1>1, <1>4, <3>1 DEF RowStep, ResetLen, CheckRoom, NoRoom, PutCells,
         LoadLen, StoreLen, Append1, SetTs, LetGo, Goto, Filling, TypeOK
    <3>3. rows[s] \in RowType
      BY <1>1 DEF TypeOK
    <3>4. CASE Stamp(t)
      <4>1. rows' = [rows EXCEPT
              ![s].tid = IF "THREADID" \in Options THEN t ELSE @,
              ![s].ts  = IF "CLOCK" \in Options THEN claim[t] ELSE @]
        BY <2>4, <3>4 DEF Stamp
      <4> QED BY <1>1, <3>3, <4>1 DEF RowType
    <3>5. CASE StoreId(t)
      <4>1. rows' = [rows EXCEPT ![s].id = RowId(claim[t])]
        BY <2>4, <3>5 DEF StoreId
      <4> QED BY <1>1, <3>3, <4>1 DEF RowType
    <3> QED BY <3>2, <3>4, <3>5
  <2> QED BY <2>2, <2>3, <2>4
<1> QED BY <1>3, <1>4 DEF Step, RowStep

\* A row that is not mixed can be walked, whatever became of the threads.
Filled == \A s \in Slots : s \in mixed \/ Walkable(s)

LEMMA ProgramFilled ==
  ASSUME DumpInv, Filled, Program
  PROVE  Filled'
<1>1. /\ Next /\ WholeInv /\ Unclaimed
      /\ mixed' = {s \in Slots : ~clean'[s] \/ (s \in mixed /\ rows'[s].datalen # 0)}
  BY DEF Program, DumpInv
<1>2. WholeInv' /\ Unclaimed'
  BY <1>1, NextOnward, NextWhole DEF Onward
<1>3. PICK t \in Thread : Step(t)
  BY <1>1 DEF Next
<1>4. ASSUME NEW s \in Slots, s \notin mixed'
      PROVE  Walkable(s)'
  <2>1. clean'[s] /\ (s \notin mixed \/ rows'[s].datalen = 0)
    BY <1>1, <1>4
  <2>2. CASE Settled(s)'
    BY <1>2, <1>4, <2>2, SettledWalkableNext
  <2>3. CASE rows'[s].datalen = 0
    <3>1. 0 .. rows'[s].datalen - 1 = {} /\ rows'[s].datalen <= RowLen
      BY <2>3, LenAssumption
    <3> QED BY <2>1, <3>1 DEF Walkable, WholeRow, WholeCells
  <2>4. CASE ~Settled(s)' /\ s \notin mixed
    <3>1. rows'[s].cells = rows[s].cells /\ rows'[s].datalen = rows[s].datalen
      BY <1>1, <1>2, <1>3, <2>1, <2>4, FillingKeeps
    <3>2. Walkable(s)
      BY <2>4 DEF Filled
    <3> QED BY <2>1, <3>1, <3>2 DEF Walkable, WholeRow, WholeCells, WholeCell, Nobody, Item
  <2> QED BY <2>1, <2>2, <2>3, <2>4
<1> QED BY <1>4 DEF Filled, Slots

\* Where the walk of a row is between two of its items, and where it is at one.
AtEdge(o, r) ==
  /\ o \in Nat /\ o <= r.datalen
  /\ o > 0 => r.cells[o - 1].at = Size[r.cells[o - 1].item] - 1
AtHead(o, r) == o \in Nat /\ o < r.datalen /\ r.cells[o].at = 0

\* From an edge that is not the end, the walk comes to a head.
LEMMA EdgeToHead ==
  ASSUME WholeInv, NEW s \in Slots, Walkable(s), NEW o, AtEdge(o, rows[s]), o < rows[s].datalen
  PROVE  AtHead(o, rows[s])
<1>1. rows[s] \in RowType
  BY RowsTyped DEF WholeInv, RowInv
<1>2. WholeCells(rows[s].cells, rows[s].datalen) /\ rows[s].datalen <= RowLen
  BY DEF Walkable, WholeRow
<1>3. rows[s].cells[o].at = 0
  BY <1>1, <1>2, HeadNext DEF AtEdge
<1> QED BY <1>3 DEF AtHead, AtEdge

\* And from a head to an edge further on, whatever length it takes for the item's.
LEMMA HeadToEdge ==
  ASSUME WholeInv, NEW s \in Slots, Walkable(s), NEW o, AtHead(o, rows[s]),
         NEW n \in HdrLen(CellAt(s, o))
  PROVE  /\ AtEdge(o + n, rows[s])
         /\ o < o + n /\ o + n <= rows[s].datalen
<1> DEFINE r == rows[s]  c == r.cells[o]  z == Size[c.item]
<1>1. r \in RowType
  BY RowsTyped DEF WholeInv, RowInv
<1>2. /\ r.datalen \in Nat /\ r.cells \in [0 .. RowLen - 1 -> Cell]
      /\ o \in Nat /\ o < r.datalen /\ c.at = 0
      /\ r.datalen <= RowLen /\ WholeCells(r.cells, r.datalen)
      /\ \A k \in 0 .. r.datalen - 1 : r.cells[k].by # Nobody
  BY <1>1 DEF RowType, AtHead, Walkable, WholeRow
<1> HIDE DEF r
<1>3. o \in 0 .. r.datalen - 1 /\ o \in 0 .. RowLen - 1 /\ o < RowLen
  BY <1>2, LenAssumption
<1>4. c \in Cell /\ z \in Nat \ {0} /\ c.by # Nobody
  <2>1. c \in Cell
    BY <1>2, <1>3
  <2> QED BY <1>2, <1>3, <2>1, SizeAssumption DEF Cell
<1>5. n = z
  <2>1. CellAt(s, o) = c
    BY <1>3 DEF CellAt, r
  <2> QED BY <1>2, <1>4, <2>1 DEF HdrLen
<1>6. /\ o - 0 + z <= r.datalen
      /\ \A k \in 0 .. z - 1 : r.cells[o - 0 + k] = [by |-> c.by, item |-> c.item, at |-> k]
  BY <1>2, <1>3 DEF WholeCells, WholeCell
<1>7. z - 1 \in 0 .. z - 1 /\ o - 0 + (z - 1) = (o + z) - 1 /\ o - 0 + z = o + z
      /\ o < o + z /\ o + z \in Nat
  <2> HIDE DEF z
  <2> QED BY <1>2, <1>4
<1>8. r.cells[(o + z) - 1] = [by |-> c.by, item |-> c.item, at |-> z - 1]
  BY <1>6, <1>7
<1>9. r.cells[(o + z) - 1].at = Size[r.cells[(o + z) - 1].item] - 1
  BY <1>8
<1>10. AtEdge(o + z, r) /\ o + z <= r.datalen
  BY <1>6, <1>7, <1>9 DEF AtEdge
<1> QED BY <1>5, <1>7, <1>10 DEF r

\* Where the walk over a row that is not mixed is, once the program is over.
Underway ==
  (late /\ rd \in {"item", "step"} /\ line.slot \notin mixed) =>
  /\ rd = "item" => AtEdge(off, rows[line.slot])
  /\ rd = "step" => AtHead(off, rows[line.slot])

LEMMA WalkStep ==
  ASSUME DumpInv, Complete, Filled, Underway, [DumpNext]_dvars
  PROVE  Filled' /\ Underway'
<1>0. ReaderType /\ line.slot \in Slots
  BY DEF DumpInv, ReaderType, LineType
<1>1. ASSUME UNCHANGED <<rows, clean, mixed>>
      PROVE  Filled'
  BY <1>1 DEF Filled, Walkable, WholeRow, WholeCells, WholeCell, Slots, Nobody, Item
<1>2. CASE Program
  <2>1. Filled'
    BY <1>2, ProgramFilled
  <2>2. ~late'
    BY <1>2 DEF Program, Complete
  <2> QED BY <2>1, <2>2 DEF Underway
<1>3. CASE End
  <2>1. rows' = rows /\ clean' = clean /\ UNCHANGED <<mixed, late, rd, off, line>>
    BY <1>3 DEF End, vars, reader
  <2> QED BY <1>1, <2>1 DEF Underway, AtEdge, AtHead, Item
<1>4. CASE Scan \/ SkipEmpty \/ BeginLine \/ EndDump
  <2>1. rows' = rows /\ clean' = clean /\ mixed' = mixed
    BY <1>4 DEF Scan, SkipEmpty, BeginLine, EndDump, vars
  <2>2. rd' \notin {"item", "step"}
    BY <1>4 DEF Scan, SkipEmpty, BeginLine, EndDump
  <2> QED BY <1>1, <2>1, <2>2 DEF Underway
<1>5. CASE EndLine
  <2>1. rows' = rows /\ clean' = clean /\ mixed' = mixed
    BY <1>5 DEF EndLine, vars
  <2>2. rd' = "row"
    BY <1>5 DEF EndLine
  <2> QED BY <1>1, <2>1, <2>2 DEF Underway
<1>6. CASE ReadHead
  <2>1. /\ rows' = rows /\ clean' = clean /\ mixed' = mixed /\ late' = late
        /\ rd' = "item" /\ off' = 0 /\ line'.slot = line.slot
    BY <1>0, <1>6 DEF ReadHead, vars, ReaderType, LineType
  <2>2. rows[line.slot].datalen \in Nat
    BY <1>0, RowsTyped DEF DumpInv, WholeInv, RowInv, RowType
  <2>3. AtEdge(0, rows[line.slot])
    BY <2>2 DEF AtEdge
  <2>4. AtEdge(off', rows'[line'.slot])
    BY <2>1, <2>3
  <2> QED BY <1>1, <2>1, <2>4 DEF Underway, AtEdge, AtHead, Item
<1>7. CASE ReadItem
  <2>1. /\ rows' = rows /\ clean' = clean /\ mixed' = mixed /\ late' = late
        /\ rd = "item" /\ rd' = "step" /\ off' = off /\ line'.slot = line.slot
        /\ off < rows[line.slot].datalen
    BY <1>0, <1>7 DEF ReadItem, vars, ReaderType, LineType
  <2>2. ASSUME late, line.slot \notin mixed
        PROVE  AtHead(off, rows[line.slot])
    <3>1. Walkable(line.slot) /\ AtEdge(off, rows[line.slot])
      BY <1>0, <2>1, <2>2 DEF Filled, Underway
    <3> QED BY <1>0, <2>1, <3>1, EdgeToHead DEF DumpInv
  <2>3. (late' /\ line'.slot \notin mixed') => AtHead(off', rows'[line'.slot])
    BY <2>1, <2>2
  <2> QED BY <1>1, <2>1, <2>3 DEF Underway, AtEdge, AtHead, Item
<1>8. CASE StepOver
  <2>1. /\ rows' = rows /\ clean' = clean /\ mixed' = mixed /\ late' = late
        /\ rd = "step" /\ rd' = "item" /\ line' = line
    BY <1>8 DEF StepOver, vars
  <2>2. PICK n \in HdrLen(CellAt(line.slot, off)) : off' = off + n
    BY <1>8 DEF StepOver
  <2>3. ASSUME late, line.slot \notin mixed
        PROVE  AtEdge(off + n, rows[line.slot])
    <3>1. Walkable(line.slot) /\ AtHead(off, rows[line.slot])
      BY <1>0, <2>1, <2>3 DEF Filled, Underway
    <3> QED BY <1>0, <3>1, HeadToEdge DEF DumpInv
  <2>4. (late' /\ line'.slot \notin mixed') => AtEdge(off', rows'[line'.slot])
    BY <2>1, <2>2, <2>3
  <2> QED BY <1>1, <2>1, <2>4 DEF Underway, AtEdge, AtHead, Item
<1>9. CASE UNCHANGED dvars
  <2>1. rows' = rows /\ clean' = clean /\ UNCHANGED <<mixed, late, rd, off, line>>
    BY <1>9 DEF dvars, vars, reader
  <2> QED BY <1>1, <2>1 DEF Underway, AtEdge, AtHead, Item
<1> QED BY <1>2, <1>3, <1>4, <1>5, <1>6, <1>7, <1>8, <1>9 DEF DumpNext, PrintRows

\* On what a program that is over has left, the walk over a row never stands still
\* and never leaves the row's content, unless threads that shared the row wrote it:
\* also where a thread died in __log2mem_init_row or in a push. As a turn meets each
\* row once, such a dump is of finitely many steps.
THEOREM WalkGoesOn == DumpSpec => WalkAdvances
<1>1. DumpInit => Complete /\ Filled /\ Underway
  <2> SUFFICES ASSUME DumpInit PROVE Complete /\ Filled /\ Underway
    OBVIOUS
  <2>1. DumpInv /\ rd = "scan" /\ late = FALSE
    BY DumpInitInv DEF DumpInit
  <2>2. \A s \in Slots : Settled(s)
    BY DEF DumpInit, Begun, Settled, Holds, Slots
  <2> QED BY <2>1, <2>2, SettledWalkable DEF DumpInv, Filled, Complete, Underway
<1>2. DumpInv /\ Complete /\ Filled /\ Underway /\ [DumpNext]_dvars
        => Complete' /\ Filled' /\ Underway'
  BY CompleteStep, WalkStep
<1>3. DumpInv /\ Filled /\ Underway /\ [DumpNext]_dvars
        => [(StepOver /\ late /\ line.slot \notin mixed) =>
              off < off' /\ off' <= rows[line.slot].datalen]_dvars
  <2> SUFFICES ASSUME DumpInv, Filled, Underway, StepOver, late, line.slot \notin mixed
               PROVE  off < off' /\ off' <= rows[line.slot].datalen
    OBVIOUS
  <2>1. line.slot \in Slots /\ rd = "step"
    BY DEF DumpInv, ReaderType, LineType, StepOver
  <2>2. PICK n \in HdrLen(CellAt(line.slot, off)) : off' = off + n
    BY DEF StepOver
  <2>3. Walkable(line.slot) /\ AtHead(off, rows[line.slot])
    BY <2>1 DEF Filled, Underway
  <2> QED BY <2>1, <2>2, <2>3, HeadToEdge DEF DumpInv
<1> QED BY <1>1, <1>2, <1>3, DumpInitInv, DumpStepInv, PTL DEF DumpSpec, WalkAdvances
=============================================================================
