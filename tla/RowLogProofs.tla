---------------------------- MODULE RowLogProofs ----------------------------
(***************************************************************************)
(* Proofs about RowLog, for any number of threads and rows, any row length *)
(* and any sizes of items: the type invariant; that RowInv is an invariant,*)
(* from which the properties of RowLog follow; that a row written by one   *)
(* thread at a time holds whole items back to back, which is what the walk *)
(* of print_rows relies on; and that the row buffer implements CircularLog:*)
(* every step of a thread is a step of the abstract log or changes nothing *)
(* of it.                                                                  *)
(***************************************************************************)
EXTENDS RowLog, ModularArithmetic, SequenceTheorems, TLAPS

-----------------------------------------------------------------------------
(* Row ids, slots and pushes.                                              *)

\* A claim's row id is an unsigned int below IdMod and its slot a row of the memmap;
\* because num_rows divides 2^32, the id's wrap does not disturb the slot.
LEMMA SlotFacts ==
  ASSUME NEW c \in Nat
  PROVE  /\ RowId(c) \in 0 .. IdMod - 1
         /\ Slot(c) \in Slots
         /\ Slot(c) = c % NumRows
<1>1. NumRows \in Nat \ {0} /\ Laps \in Nat \ {0}
  BY RowsAssumption
<1>2. IdMod \in Nat \ {0}
  BY <1>1, MulAtLeast DEF IdMod
<1>3. RowId(c) \in 0 .. IdMod - 1
  BY <1>2 DEF RowId
<1>4. RowId(c) \in Int
  BY <1>2, <1>3
<1>5. Slot(c) \in Slots
  BY <1>1, <1>4, DivMod DEF Slot, Slots
<1>6. Slot(c) = c % NumRows
  BY <1>1, ModOfMod DEF Slot, RowId, IdMod
<1> QED BY <1>3, <1>5, <1>6

\* Two claims of one slot are a full turn of the buffer apart.
LEMMA ClaimsOfASlot ==
  ASSUME NEW c \in Nat, NEW d \in Nat, c < d, Slot(c) = Slot(d)
  PROVE  d - c >= NumRows
BY SlotFacts, SameRemainderApart, RowsAssumption

CellImage == [item : Item, at : Nat]

\* An item is stored as Size[item] cells.
LEMMA ImageFacts ==
  ASSUME NEW j \in Item
  PROVE  Image(j) \in Seq(CellImage) /\ Len(Image(j)) = Size[j]
<1>1. Size[j] \in Nat
  BY SizeAssumption
<1>2. Image(j) \in [1 .. Size[j] -> CellImage]
  BY <1>1 DEF Image, CellImage
<1>3. Image(j) \in Seq(CellImage)
  BY <1>1, <1>2, SeqDef
<1>4. DOMAIN Image(j) = 1 .. Size[j]
  BY <1>2
<1> QED BY <1>1, <1>3, <1>4, LenProperties

\* What one push stores is a sequence of cells.
LEMMA PushFacts ==
  ASSUME NEW p \in Pushes
  PROVE  /\ p.img \in Seq(CellImage)
         /\ Len(p.img) \in Nat
         /\ \A k \in 1 .. Len(p.img) : p.img[k] \in CellImage
<1>1. {"string", "int"} \subseteq Item
  BY SizeAssumption
<1>2. Image("int") \in Seq(CellImage) /\ Image("string") \in Seq(CellImage)
  BY <1>1, ImageFacts
<1>3. Image("int") \o Image("int") \in Seq(CellImage)
  BY <1>2, ConcatProperties
<1>4. ASSUME NEW b \in BOOLEAN
      PROVE  EventImage(b) \in Seq(CellImage)
  <2>1. (IF b THEN Image("string") ELSE <<>>) \in Seq(CellImage)
    BY <1>2, EmptySeq
  <2> QED BY <1>3, <2>1, ConcatProperties DEF EventImage
<1>5. p.img \in Images
  BY DEF Pushes
<1>6. p.img \in Seq(CellImage)
  BY <1>4, <1>5, ImageFacts DEF Images
<1> QED BY <1>6, LenProperties, ElementOfSeq

-----------------------------------------------------------------------------
(* The pushes a call begins with.                                          *)

StartOK(q) ==
  /\ q \in Seq(Pushes)
  /\ (q # <<>> /\ Head(q).atZero) => Len(q) = 1
  /\ \A k \in 2 .. Len(q) : ~q[k].atZero

\* The push of a single item goes behind datalen.
LEMMA PushIsPush ==
  ASSUME NEW j \in Item
  PROVE  Push(j) \in Pushes /\ ~Push(j).atZero
BY DEF Push, Pushes, Images

\* The pushes with which log2mem_get_row, log2mem_write and log2mem_time_event4
\* begin are such sequences.
LEMMA StartFacts ==
  /\ \A named \in BOOLEAN : StartOK(FileAndLine(named))
  /\ \A named, hasStr \in BOOLEAN :
       StartOK(FileAndLine(named) \o (IF hasStr THEN <<Push("string")>> ELSE <<>>))
  /\ \A hasStr \in BOOLEAN : StartOK(<<[img |-> EventImage(hasStr), atZero |-> TRUE]>>)
<1> DEFINE Plain == {p \in Pushes : ~p.atZero}
<1>1. /\ Push("filename") \in Plain /\ Push("lineno") \in Plain
      /\ Push("string") \in Plain
  BY PushIsPush, SizeAssumption
<1>2. ASSUME NEW q \in Seq(Plain)
      PROVE  StartOK(q)
  <2>1. q \in Seq(Pushes)
    BY SeqMonotonic
  <2>2. \A k \in 1 .. Len(q) : q[k] \in Plain
    BY ElementOfSeq
  <2>3. q # <<>> => Head(q) \in Plain
    BY HeadTailProperties
  <2>4. Len(q) \in Nat
    BY LenProperties
  <2> QED BY <2>1, <2>2, <2>3, <2>4 DEF StartOK
<1>3. ASSUME NEW named \in BOOLEAN
      PROVE  FileAndLine(named) \in Seq(Plain)
  <2> HIDE DEF Plain
  <2> QED BY <1>1 DEF FileAndLine
<1>4. ASSUME NEW hasStr \in BOOLEAN
      PROVE  (IF hasStr THEN <<Push("string")>> ELSE <<>>) \in Seq(Plain)
  <2> HIDE DEF Plain
  <2> QED BY <1>1
<1>5. ASSUME NEW hasStr \in BOOLEAN
      PROVE  StartOK(<<[img |-> EventImage(hasStr), atZero |-> TRUE]>>)
  <2> DEFINE p == [img |-> EventImage(hasStr), atZero |-> TRUE]
  <2>1. p \in Pushes
    BY DEF Pushes, Images
  <2> HIDE DEF p
  <2>2. <<p>> \in Seq(Pushes) /\ Len(<<p>>) = 1
    BY <2>1
  <2> QED BY <2>2 DEF StartOK, p
<1>6. ASSUME NEW named \in BOOLEAN, NEW hasStr \in BOOLEAN
      PROVE  FileAndLine(named) \o (IF hasStr THEN <<Push("string")>> ELSE <<>>) \in Seq(Plain)
  BY <1>3, <1>4, ConcatProperties
<1> HIDE DEF Plain
<1> QED BY <1>2, <1>3, <1>5, <1>6

\* A call begins with a claim and some such pushes; every other action of a
\* thread is one of the steps of a row it already holds.
LEMMA ClaimSteps ==
  ASSUME NEW t \in Thread, GetRow(t) \/ Write(t) \/ TimeEvent(t)
  PROVE  \E q : StartOK(q) /\ InitRow(t, q)
BY StartFacts DEF GetRow, Write, TimeEvent

RowStep(t) ==
  \/ Stamp(t) \/ StoreId(t) \/ ResetLen(t)
  \/ CheckRoom(t) \/ NoRoom(t) \/ PutCells(t) \/ LoadLen(t) \/ StoreLen(t)
  \/ Append1(t) \/ SetTs(t) \/ LetGo(t)

-----------------------------------------------------------------------------
(* The type invariant.                                                     *)

\* The zeroed memmap and the idle threads have the types.
LEMMA InitType == Init => TypeOK
<1> SUFFICES ASSUME Init PROVE TypeOK
  OBVIOUS
<1>1. NumRows \in Nat \ {0} /\ IdMod \in Nat \ {0}
  BY RowsAssumption, MulAtLeast DEF IdMod
<1>2. EmptyRow \in RowType
  <2>1. Blank \in Cell
    BY SizeAssumption DEF Blank, Cell
  <2>2. [o \in 0 .. RowLen - 1 |-> Blank] \in [0 .. RowLen - 1 -> Cell]
    BY <2>1
  <2>3. 0 \in 0 .. IdMod - 1 /\ 0 \in Nat
    BY <1>1
  <2> QED BY <2>2, <2>3 DEF EmptyRow, RowType
<1>3. todo \in [Thread -> Seq(Pushes)]
  <2>1. <<>> \in Seq(Pushes)
    BY EmptySeq
  <2> QED BY <2>1 DEF Init
<1>4. /\ rows \in [Slots -> RowType]
      /\ owner \in [Slots -> Nat \cup {Nobody}]
      /\ clean \in [Slots -> BOOLEAN]
  BY <1>2 DEF Init
<1> QED BY <1>3, <1>4 DEF Init, TypeOK, Labels

\* A claim of a row keeps the types.
LEMMA ClaimType ==
  ASSUME TypeOK, NEW t \in Thread, NEW q, StartOK(q), InitRow(t, q)
  PROVE  TypeOK'
<1>1. Slot(claims) \in Slots
  BY SlotFacts DEF TypeOK
<1> QED BY <1>1 DEF TypeOK, InitRow, StartOK, Goto, Labels, Filling

\* A step of a row keeps the types.
LEMMA StepType ==
  ASSUME TypeOK, NEW t \in Thread, RowStep(t)
  PROVE  TypeOK'
<1> USE DEF Goto, Labels, Filling
<1>0. pc[t] # "idle" => MySlot(t) \in Slots /\ RowId(claim[t]) \in 0 .. IdMod - 1
  BY SlotFacts DEF TypeOK, MySlot
<1>1. CASE Stamp(t)
  <2>1. rows' \in [Slots -> RowType]
    <3> DEFINE s == MySlot(t)
               r == [rows[s] EXCEPT !.tid = IF "THREADID" \in Options THEN t ELSE @,
                                    !.ts = IF "CLOCK" \in Options THEN claim[t] ELSE @]
    <3>1. s \in Slots /\ rows[s] \in RowType /\ claim[t] \in Nat
      BY <1>0, <1>1 DEF Stamp, TypeOK
    <3>2. rows' = [rows EXCEPT ![s] = r]
      BY <1>1 DEF Stamp
    <3>3. r \in RowType
      BY <3>1 DEF RowType
    <3> QED BY <3>1, <3>2, <3>3 DEF TypeOK
  <2> QED BY <1>1, <2>1 DEF Stamp, TypeOK
<1>2. CASE StoreId(t)
  <2>1. rows' \in [Slots -> RowType]
    BY <1>0, <1>2, ZenonT(60) DEF StoreId, TypeOK, RowType
  <2> QED BY <1>2, <2>1 DEF StoreId, TypeOK
<1>3. CASE ResetLen(t)
  <2>1. rows' \in [Slots -> RowType]
    BY <1>0, <1>3, ZenonT(60) DEF ResetLen, TypeOK, RowType
  <2> QED BY <1>3, <2>1 DEF ResetLen, TypeOK
<1>4. CASE CheckRoom(t)
  <2>1. rows[MySlot(t)].datalen \in Nat
    BY <1>0, <1>4 DEF CheckRoom, TypeOK, RowType
  <2> QED BY <1>4, <2>1 DEF CheckRoom, TypeOK
<1>5. CASE NoRoom(t)
  <2>1. Tail(todo[t]) \in Seq(Pushes)
    BY <1>5, HeadTailProperties DEF NoRoom, TypeOK
  <2> QED BY <1>5, <2>1 DEF NoRoom, TypeOK
<1>6. CASE PutCells(t)
  <2>1. Head(todo[t]) \in Pushes
    BY <1>6, HeadTailProperties DEF PutCells, TypeOK
  <2>2. rows' \in [Slots -> RowType]
    <3> DEFINE s == MySlot(t)  p == Head(todo[t])  n == Len(p.img)
    <3>1. s \in Slots /\ rows[s].datalen \in Nat /\ seen[t] \in Nat /\ claim[t] \in Nat
      BY <1>0, <1>6 DEF PutCells, TypeOK, RowType
    <3>2. n \in Nat /\ \A k \in 1 .. n : p.img[k] \in CellImage
      BY <2>1, PushFacts
    <3>3. PICK at \in (IF p.atZero THEN {0} ELSE {seen[t], rows[s].datalen}) :
            rows' = [rows EXCEPT ![s].cells =
                [o \in 0 .. RowLen - 1 |->
                   IF o \in at .. at + n - 1
                   THEN [by |-> claim[t], item |-> p.img[o - at + 1].item,
                         at |-> p.img[o - at + 1].at]
                   ELSE @[o]]]
      BY <1>6 DEF PutCells
    <3>4. at \in Nat
      BY <3>1, <3>3
    <3> DEFINE c == [o \in 0 .. RowLen - 1 |->
                      IF o \in at .. at + n - 1
                      THEN [by |-> claim[t], item |-> p.img[o - at + 1].item,
                            at |-> p.img[o - at + 1].at]
                      ELSE rows[s].cells[o]]
    <3>5. \A o \in 0 .. RowLen - 1 : c[o] \in Cell
      <4> SUFFICES ASSUME NEW o \in 0 .. RowLen - 1 PROVE c[o] \in Cell
        OBVIOUS
      <4>1. rows[s].cells[o] \in Cell
        BY <3>1 DEF TypeOK, RowType
      <4>2. o \in at .. at + n - 1 => p.img[o - at + 1] \in CellImage
        <5> HIDE DEF n
        <5>1. o \in at .. at + n - 1 => o - at + 1 \in 1 .. n
          BY <3>2, <3>4, LenAssumption
        <5> QED BY <3>2, <5>1
      <4> HIDE DEF n, p, s
      <4> QED BY <3>1, <4>1, <4>2 DEF Cell, CellImage
    <3>6. c \in [0 .. RowLen - 1 -> Cell]
      BY <3>5
    <3>7. rows' = [rows EXCEPT ![s].cells = c]
      BY <3>3
    <3> HIDE DEF c
    <3>8. [rows[s] EXCEPT !.cells = c] \in RowType
      BY <3>1, <3>6 DEF TypeOK, RowType
    <3>9. rows' = [rows EXCEPT ![s] = [rows[s] EXCEPT !.cells = c]]
      BY <3>7
    <3> QED BY <3>1, <3>8, <3>9 DEF TypeOK
  <2> QED BY <1>6, <2>2 DEF PutCells, TypeOK
<1>7. CASE LoadLen(t)
  <2>1. rows[MySlot(t)].datalen \in Nat
    BY <1>0, <1>7 DEF LoadLen, TypeOK, RowType
  <2> QED BY <1>7, <2>1 DEF LoadLen, TypeOK
<1>8. CASE StoreLen(t)
  <2>1. Head(todo[t]) \in Pushes /\ Tail(todo[t]) \in Seq(Pushes)
    BY <1>8, HeadTailProperties DEF StoreLen, TypeOK
  <2>2. seen[t] + Len(Head(todo[t]).img) \in Nat
    BY <2>1, PushFacts DEF TypeOK
  <2>3. rows' \in [Slots -> RowType]
    BY <1>0, <1>8, <2>2, ZenonT(60) DEF StoreLen, TypeOK, RowType
  <2> QED BY <1>8, <2>1, <2>3 DEF StoreLen, TypeOK
<1>9. CASE Append1(t)
  <2>1. PICK j \in Item : todo' = [todo EXCEPT ![t] = <<Push(j)>>]
    BY <1>9 DEF Append1
  <2>2. <<Push(j)>> \in Seq(Pushes)
    BY PushIsPush
  <2> QED BY <1>9, <2>1, <2>2 DEF Append1, TypeOK
<1>10. CASE SetTs(t)
  <2>1. rows' \in [Slots -> RowType]
    BY <1>0, <1>10, ZenonT(60) DEF SetTs, TypeOK, RowType
  <2> QED BY <1>10, <2>1 DEF SetTs, TypeOK
<1>11. CASE LetGo(t)
  BY <1>11 DEF LetGo, TypeOK
<1> QED BY <1>1, <1>2, <1>3, <1>4, <1>5, <1>6, <1>7, <1>8, <1>9, <1>10, <1>11 DEF RowStep

\* Every step keeps the types.
LEMMA NextType == TypeOK /\ [Next]_vars => TypeOK'
<1> SUFFICES ASSUME TypeOK, [Next]_vars PROVE TypeOK'
  OBVIOUS
<1>1. CASE UNCHANGED vars
  BY <1>1 DEF vars, TypeOK
<1>2. ASSUME NEW t \in Thread, Step(t)
      PROVE  TypeOK'
  <2>1. CASE GetRow(t) \/ Write(t) \/ TimeEvent(t)
    BY <2>1, ClaimSteps, ClaimType
  <2>2. CASE RowStep(t)
    BY <2>2, StepType
  <2> QED BY <1>2, <2>1, <2>2 DEF Step, RowStep
<1> QED BY <1>1, <1>2 DEF Next

\* Every variable keeps its type; a thread inside a push has an item to push,
\* and a claim that is held was handed out.
THEOREM TypeCorrect == Spec => []TypeOK
BY InitType, NextType, PTL DEF Spec

-----------------------------------------------------------------------------
(* Who holds which row.                                                    *)

\* What a step of a row leaves alone: the claims, the history of the slots,
\* every other thread, and every row but the thread's own.
LEMMA RowFrame ==
  ASSUME TypeOK, NEW t \in Thread, RowStep(t)
  PROVE  /\ UNCHANGED <<claims, owner, clean>>
         /\ pc[t] # "idle"
         /\ pc'[t] = "idle" \/ claim'[t] = claim[t]
         /\ \A u \in Thread \ {t} : /\ pc'[u] = pc[u] /\ claim'[u] = claim[u]
                                   /\ todo'[u] = todo[u] /\ seen'[u] = seen[u]
         /\ \A s \in Slots \ {MySlot(t)} : rows'[s] = rows[s]
<1> USE DEF Goto, TypeOK
<1>1. CASE Stamp(t)
  BY <1>1 DEF Stamp
<1>2. CASE StoreId(t)
  BY <1>2 DEF StoreId
<1>3. CASE ResetLen(t)
  BY <1>3 DEF ResetLen
<1>4. CASE CheckRoom(t)
  BY <1>4 DEF CheckRoom
<1>5. CASE NoRoom(t)
  BY <1>5 DEF NoRoom
<1>6. CASE PutCells(t)
  BY <1>6 DEF PutCells
<1>7. CASE LoadLen(t)
  BY <1>7 DEF LoadLen
<1>8. CASE StoreLen(t)
  BY <1>8 DEF StoreLen
<1>9. CASE Append1(t)
  BY <1>9 DEF Append1
<1>10. CASE SetTs(t)
  BY <1>10 DEF SetTs
<1>11. CASE LetGo(t)
  BY <1>11 DEF LetGo
<1> QED BY <1>1, <1>2, <1>3, <1>4, <1>5, <1>6, <1>7, <1>8, <1>9, <1>10, <1>11 DEF RowStep

\* Before the first claim no slot has an owner.
LEMMA InitOwner == Init => OwnerOK
BY SlotFacts DEF Init, OwnerOK

\* A claim makes itself the owner of its slot, and of that slot only.
LEMMA ClaimOwner ==
  ASSUME TypeOK, OwnerOK, NEW t \in Thread, NEW q, InitRow(t, q)
  PROVE  OwnerOK'
<1> DEFINE n == Slot(claims)
<1>1. /\ claims \in Nat /\ n \in Slots /\ claims' = claims + 1
      /\ pc[t] = "idle" /\ pc' = [pc EXCEPT ![t] = "stamp"]
      /\ claim' = [claim EXCEPT ![t] = claims]
      /\ owner' = [owner EXCEPT ![n] = claims]
      /\ clean' = [clean EXCEPT ![n] = \A u \in Thread : ~Holds(u, n)]
  BY SlotFacts DEF TypeOK, InitRow, Goto
<1>2. ASSUME NEW s \in Slots, owner'[s] # Nobody
      PROVE  owner'[s] < claims' /\ Slot(owner'[s]) = s
  BY <1>1, <1>2 DEF TypeOK, OwnerOK
<1>3. ASSUME NEW c \in 0 .. claims' - 1
      PROVE  c <= owner'[Slot(c)]
  <2>1. c \in Nat /\ Slot(c) \in Slots
    BY <1>1, SlotFacts
  <2>2. CASE Slot(c) = n
    BY <1>1, <2>1, <2>2 DEF TypeOK
  <2>3. CASE Slot(c) # n
    <3>1. c \in 0 .. claims - 1
      BY <1>1, <2>1, <2>3
    <3> QED BY <1>1, <2>1, <2>3, <3>1 DEF TypeOK, OwnerOK
  <2> QED BY <2>2, <2>3
<1>4. ASSUME NEW u \in Thread, NEW v \in Thread,
             pc'[u] # "idle", pc'[v] # "idle", claim'[u] = claim'[v]
      PROVE  u = v
  BY <1>1, <1>4 DEF TypeOK, OwnerOK
<1>5. ASSUME NEW u \in Thread, pc'[u] # "idle", clean'[Slot(claim'[u])]
      PROVE  claim'[u] = owner'[Slot(claim'[u])]
  <2>1. CASE u = t
    BY <1>1, <2>1 DEF TypeOK
  <2>2. CASE u # t
    <3>1. pc[u] # "idle" /\ claim'[u] = claim[u] /\ MySlot(u) = Slot(claim'[u])
      BY <1>1, <1>5, <2>2 DEF TypeOK, MySlot
    <3>2. Slot(claim[u]) \in Slots
      BY SlotFacts DEF TypeOK
    <3>3. MySlot(u) # n
      BY <1>1, <1>5, <3>1 DEF Holds, TypeOK
    <3> QED BY <1>1, <1>5, <3>1, <3>2, <3>3 DEF TypeOK, OwnerOK
  <2> QED BY <2>1, <2>2
<1> HIDE DEF n
<1>6. \A s \in Slots : owner'[s] # Nobody => owner'[s] < claims' /\ Slot(owner'[s]) = s
  BY <1>2
<1>7. \A u \in Thread : (pc'[u] # "idle" /\ clean'[MySlot(u)']) => claim'[u] = owner'[MySlot(u)']
  BY <1>5 DEF MySlot
<1> QED BY <1>3, <1>4, <1>6, <1>7 DEF OwnerOK

\* A step of a row changes no owner; it may end the thread's claim.
LEMMA StepOwner ==
  ASSUME TypeOK, OwnerOK, NEW t \in Thread, RowStep(t)
  PROVE  OwnerOK'
<1>1. /\ UNCHANGED <<claims, owner, clean>> /\ pc[t] # "idle"
      /\ \A u \in Thread : pc'[u] # "idle" => pc[u] # "idle" /\ claim'[u] = claim[u]
  BY RowFrame
<1>2. \A u \in Thread : pc'[u] # "idle" => MySlot(u)' = MySlot(u)
  BY <1>1 DEF MySlot
<1> QED BY <1>1, <1>2 DEF OwnerOK

\* Every step keeps the owners right.
LEMMA NextOwner == TypeOK /\ OwnerOK /\ [Next]_vars => OwnerOK'
<1> SUFFICES ASSUME TypeOK, OwnerOK, [Next]_vars PROVE OwnerOK'
  OBVIOUS
<1>1. CASE UNCHANGED vars
  BY <1>1 DEF vars, OwnerOK, MySlot
<1>2. ASSUME NEW t \in Thread, Step(t)
      PROVE  OwnerOK'
  <2>1. CASE GetRow(t) \/ Write(t) \/ TimeEvent(t)
    BY <2>1, ClaimSteps, ClaimOwner
  <2>2. CASE RowStep(t)
    BY <2>2, StepOwner
  <2> QED BY <1>2, <2>1, <2>2 DEF Step, RowStep
<1> QED BY <1>1, <1>2 DEF Next

\* Two threads share a row only after a full turn: num_rows claims were made
\* while one of them still held it.
THEOREM SharedAfterFullTurn == Spec => LapNeedsFullTurn
<1> DEFINE Lap == \A s \in Slots : clean[s] /\ ~clean'[s] =>
                    \E t \in Thread : Holds(t, s) /\ claims - claim[t] >= NumRows
<1>1. TypeOK /\ OwnerOK /\ [Next]_vars => [Lap]_vars
  <2> SUFFICES ASSUME TypeOK, Next, NEW s \in Slots, clean[s], ~clean'[s]
               PROVE  \E t \in Thread : Holds(t, s) /\ claims - claim[t] >= NumRows
    BY DEF Lap
  <2>1. PICK t \in Thread : Step(t)
    BY DEF Next
  <2>2. ~RowStep(t)
    BY RowFrame
  <2>3. PICK q : InitRow(t, q)
    BY <2>1, <2>2, ClaimSteps DEF Step, RowStep
  <2>4. s = Slot(claims) /\ \E u \in Thread : Holds(u, Slot(claims))
    BY <2>3 DEF InitRow, TypeOK
  <2>5. PICK u \in Thread : Holds(u, s)
    BY <2>4
  <2>6. claims \in Nat /\ claim[u] \in Nat /\ claim[u] < claims /\ Slot(claim[u]) = Slot(claims)
    BY <2>4, <2>5 DEF TypeOK, Holds, MySlot
  <2>7. claims - claim[u] >= NumRows
    BY <2>6, ClaimsOfASlot
  <2> QED BY <2>5, <2>7
<1>2. TypeOK /\ OwnerOK /\ [Next]_vars => (TypeOK /\ OwnerOK)'
  BY NextType, NextOwner
<1>3. Init => TypeOK /\ OwnerOK
  BY InitType, InitOwner
<1> QED BY <1>1, <1>2, <1>3, PTL DEF Spec, LapNeedsFullTurn, Lap

-----------------------------------------------------------------------------
(* What a thread alone in its row writes.                                  *)

\* A thread in a clean row is apart from every other thread with a row.
LEMMA Apart ==
  ASSUME TypeOK, OwnerOK, NEW t \in Thread, NEW u \in Thread, t # u,
         pc[t] # "idle", pc[u] # "idle", clean[MySlot(u)]
  PROVE  MySlot(t) # MySlot(u)
BY DEF OwnerOK

\* A thread in a clean row is its only writer, by the newest claim of the slot;
\* the row then carries its message from the end of the header stores on.
LEMMA Alone ==
  ASSUME RowInv, NEW t \in Thread, pc[t] # "idle", clean[MySlot(t)]
  PROVE  /\ MySlot(t) \in Slots /\ claim[t] \in Nat
         /\ claim[t] = owner[MySlot(t)] /\ owner[MySlot(t)] # Nobody
         /\ ProgressOf(t)
         /\ pc[t] \notin Filling => Carries(MySlot(t), claim[t])
<1>1. MySlot(t) \in Slots /\ claim[t] \in Nat
  BY SlotFacts DEF RowInv, TypeOK, MySlot
<1>2. claim[t] = owner[MySlot(t)] /\ owner[MySlot(t)] # Nobody
  BY <1>1 DEF RowInv, OwnerOK, Nobody
<1>3. ProgressOf(t)
  BY DEF RowInv, ProgressOK
<1>4. ASSUME pc[t] \notin Filling
      PROVE  Carries(MySlot(t), claim[t])
  <2>1. \A u \in Thread : Holds(u, MySlot(t)) => u = t
    BY Apart DEF RowInv, Holds
  <2>2. Settled(MySlot(t))
    BY <1>4, <2>1 DEF Settled
  <2> QED BY <1>1, <1>2, <2>2 DEF RowInv, CleanRowIntact
<1> QED BY <1>1, <1>2, <1>3, <1>4

\* The sequence of items still to be pushed.
LEMMA TodoFacts ==
  ASSUME TypeOK, NEW t \in Thread, todo[t] # <<>>
  PROVE  /\ Head(todo[t]) \in Pushes
         /\ Tail(todo[t]) \in Seq(Pushes)
         /\ Len(Head(todo[t]).img) \in Nat
         /\ Len(Tail(todo[t])) = Len(todo[t]) - 1
         /\ \A k \in 1 .. Len(todo[t]) - 1 : Tail(todo[t])[k] = todo[t][k + 1]
         /\ Len(todo[t]) \in Nat \ {0}
BY HeadTailProperties, PushFacts, EmptySeq DEF TypeOK

\* Only the first of the remaining items can be an event's block.
LEMMA TailItems ==
  ASSUME TypeOK, NEW t \in Thread, todo[t] # <<>>, ItemsOK(t), NEW q, q = Tail(todo[t])
  PROVE  /\ q # <<>> => ~Head(q).atZero
         /\ \A k \in 2 .. Len(q) : ~q[k].atZero
<1>1. /\ q \in Seq(Pushes) /\ Len(q) = Len(todo[t]) - 1
      /\ \A k \in 1 .. Len(q) : q[k] = todo[t][k + 1]
      /\ Len(todo[t]) \in Nat \ {0}
  BY TodoFacts
<1>2. \A k \in 1 .. Len(q) : ~q[k].atZero
  <2> SUFFICES ASSUME NEW k \in 1 .. Len(q) PROVE ~q[k].atZero
    OBVIOUS
  <2>1. k + 1 \in 2 .. Len(todo[t])
    BY <1>1
  <2> QED BY <1>1, <2>1 DEF ItemsOK
<1>3. q # <<>> => Head(q) = q[1] /\ Len(q) \in Nat \ {0}
  BY <1>1, EmptySeq
<1>4. \A k \in 2 .. Len(q) : k \in 1 .. Len(q)
  BY <1>1
<1>5. q # <<>> => ~Head(q).atZero
  BY <1>2, <1>3
<1>6. \A k \in 2 .. Len(q) : ~q[k].atZero
  BY <1>2, <1>4
<1> QED BY <1>5, <1>6

\* The items a thread still has to push, after a step of its own.
LEMMA StepItems ==
  ASSUME RowInv, NEW t \in Thread, RowStep(t)
  PROVE  ItemsOK(t)'
<1>0. ItemsOK(t)
  BY DEF RowInv, ProgressOK
<1>1. CASE NoRoom(t) \/ StoreLen(t)
  <2>1. todo[t] # <<>> /\ todo'[t] = Tail(todo[t])
    BY <1>1 DEF NoRoom, StoreLen, RowInv, TypeOK
  <2>2. /\ todo'[t] # <<>> => ~Head(todo'[t]).atZero
        /\ \A k \in 2 .. Len(todo'[t]) : ~todo'[t][k].atZero
    BY <1>0, <2>1, TailItems DEF RowInv
  <2> QED BY <2>2 DEF ItemsOK
<1>2. CASE Append1(t)
  <2>1. PICK j \in Item : todo'[t] = <<Push(j)>>
    BY <1>2 DEF Append1, RowInv, TypeOK
  <2>2. Len(<<Push(j)>>) = 1
    OBVIOUS
  <2> QED BY <2>1, <2>2 DEF ItemsOK
<1>3. CASE ~(NoRoom(t) \/ StoreLen(t) \/ Append1(t))
  <2>1. todo' = todo
    BY <1>3 DEF RowStep, Stamp, StoreId, ResetLen, CheckRoom, PutCells, LoadLen, SetTs, LetGo
  <2> QED BY <1>0, <2>1 DEF ItemsOK
<1> QED BY <1>1, <1>2, <1>3

\* Cells behind the first d and within a row are cells of the row.
LEMMA Within ==
  ASSUME NEW d \in Nat, NEW n \in Nat, NEW m \in Nat, d + n <= m
  PROVE  d .. d + n - 1 \subseteq 0 .. m - 1
OBVIOUS

\* A thread that has put its cells, in a row it has to itself, is as far as it says.
LEMMA PutProgress ==
  ASSUME NEW t \in Thread, NEW s, NEW c, NEW d \in Nat, NEW n \in Nat,
         pc'[t] = "load", claim'[t] = c, MySlot(t)' = s,
         rows'[s].id = RowId(c), "CLOCK" \in Options => rows'[s].ts = c,
         rows'[s].datalen = d, Len(Head(todo'[t]).img) = n, d + n <= RowLen,
         \A o \in d .. d + n - 1 : rows'[s].cells[o].by = c,
         Head(todo'[t]).atZero => d = 0
  PROVE  ProgressOf(t)'
BY DEF ProgressOf

\* After a step of its own, a thread alone in its row is as far as it says, and
\* once the row's header is stored the row carries the thread's message.
LEMMA StepContent ==
  ASSUME RowInv, NEW t \in Thread, RowStep(t), clean[MySlot(t)],
         NEW s \in Slots, s = MySlot(t), NEW c \in Nat, c = claim[t]
  PROVE  /\ pc'[t] # "idle" => ProgressOf(t)'
         /\ pc'[t] \notin Filling => Carries(s, c)'
<1> PICK n : n = Len(Head(todo[t]).img)
  OBVIOUS
<1> PICK d : d = rows[s].datalen
  OBVIOUS
<1> PICK p : p = Head(todo[t])
  OBVIOUS
<1>0. /\ pc[t] # "idle" /\ Slot(c) = s
      /\ rows \in [Slots -> RowType]
      /\ ProgressOf(t)
      /\ pc[t] \notin Filling => Carries(s, c)
      /\ TypeOK
  BY RowFrame, Alone DEF RowInv, TypeOK, MySlot
<1> USE DEF Goto, Filling
<1>1. CASE Stamp(t)
  <2>1. /\ pc'[t] = "id" /\ claim'[t] = c
        /\ "CLOCK" \in Options => rows'[s].ts = c
    BY <1>0, <1>1 DEF Stamp, TypeOK, RowType
  <2> QED BY <2>1 DEF ProgressOf, MySlot
<1>2. CASE StoreId(t)
  <2>1. /\ pc[t] = "id" /\ pc'[t] = "reset" /\ claim'[t] = c
        /\ rows'[s].id = RowId(c) /\ rows'[s].ts = rows[s].ts
    BY <1>0, <1>2 DEF StoreId, TypeOK, RowType
  <2> QED BY <1>0, <2>1 DEF ProgressOf, MySlot
<1>3. CASE ResetLen(t)
  <2>1. /\ pc[t] = "reset" /\ pc'[t] = "open" /\ claim'[t] = c
        /\ rows'[s].id = rows[s].id /\ rows'[s].ts = rows[s].ts /\ rows'[s].datalen = 0
    BY <1>0, <1>3 DEF ResetLen, TypeOK, RowType
  <2>2. rows[s].id = RowId(c) /\ ("CLOCK" \in Options => rows[s].ts = c)
    BY <1>0, <2>1 DEF ProgressOf
  <2>3. Carries(s, c)'
    BY <2>1, <2>2, LenAssumption DEF Carries
  <2>4. ProgressOf(t)'
    BY <2>1, <2>2 DEF ProgressOf, MySlot
  <2> QED BY <2>3, <2>4
<1>4. CASE CheckRoom(t)
  <2>1. /\ pc[t] = "open" /\ pc'[t] = "put" /\ claim'[t] = c /\ rows' = rows
        /\ todo[t] # <<>> /\ todo'[t] = todo[t] /\ seen'[t] = rows[s].datalen
        /\ n <= RowLen - rows[s].datalen
    BY <1>0, <1>4 DEF CheckRoom, Fits, TypeOK
  <2>2. n \in Nat /\ rows[s].datalen \in Nat
    BY <1>0, <2>1, TodoFacts DEF RowType
  <2>3. rows[s].datalen + n <= RowLen
    BY <2>1, <2>2, LenAssumption
  <2> QED BY <1>0, <2>1, <2>3 DEF ProgressOf, Carries, MySlot
<1>5. CASE NoRoom(t)
  <2>1. /\ pc[t] = "open" /\ pc'[t] = "open" /\ claim'[t] = c /\ rows' = rows
        /\ todo[t] # <<>> /\ todo'[t] = Tail(todo[t])
    BY <1>0, <1>5 DEF NoRoom, TypeOK
  <2>2. todo'[t] # <<>> => ~Head(todo'[t]).atZero
    BY <1>0, <2>1, TailItems DEF RowInv, ProgressOK
  <2> QED BY <1>0, <2>1, <2>2 DEF ProgressOf, Carries, MySlot
<1>6. CASE PutCells(t)
  <2>1. /\ pc[t] = "put" /\ pc'[t] = "load" /\ claim'[t] = c
        /\ todo[t] # <<>> /\ todo'[t] = todo[t]
    BY <1>0, <1>6 DEF PutCells, TypeOK
  <2>2. n \in Nat /\ d \in Nat
    BY <1>0, <2>1, TodoFacts DEF RowType
  <2>3. d + n <= RowLen /\ seen[t] = d /\ (p.atZero => d = 0)
    BY <1>0, <2>1 DEF ProgressOf
  <2>4. rows' = [rows EXCEPT ![s].cells =
                [o \in 0 .. RowLen - 1 |->
                   IF o \in d .. d + n - 1
                   THEN [by |-> c, item |-> p.img[o - d + 1].item,
                         at |-> p.img[o - d + 1].at]
                   ELSE @[o]]]
    <3>1. PICK at \in (IF p.atZero THEN {0} ELSE {seen[t], rows[s].datalen}) :
            rows' = [rows EXCEPT ![s].cells =
                [o \in 0 .. RowLen - 1 |->
                   IF o \in at .. at + n - 1
                   THEN [by |-> c, item |-> p.img[o - at + 1].item,
                         at |-> p.img[o - at + 1].at]
                   ELSE @[o]]]
      BY <1>6, ZenonT(60) DEF PutCells
    <3>2. at = d
      BY <2>3, <3>1
    <3> QED BY <3>1, <3>2
  <2>5. /\ rows'[s].id = rows[s].id /\ rows'[s].ts = rows[s].ts /\ rows'[s].datalen = d
        /\ \A o \in 0 .. RowLen - 1 :
             rows'[s].cells[o].by = IF o \in d .. d + n - 1 THEN c ELSE rows[s].cells[o].by
    BY <1>0, <2>4 DEF RowType
  <2>6. \A o \in d .. d + n - 1 : rows'[s].cells[o].by = c
    <3>1. d .. d + n - 1 \subseteq 0 .. RowLen - 1
      BY <2>2, <2>3, LenAssumption, Within
    <3> QED BY <2>5, <3>1
  <2>7. \A o \in 0 .. d - 1 : rows'[s].cells[o].by = c
    <3>1. \A o \in 0 .. d - 1 : rows[s].cells[o].by = c
      BY <1>0, <2>1 DEF Carries
    <3> SUFFICES ASSUME NEW o \in 0 .. d - 1 PROVE rows'[s].cells[o].by = c
      OBVIOUS
    <3>2. o \in 0 .. RowLen - 1
      BY <2>2, <2>3, LenAssumption, SMTT(60)
    <3> QED BY <2>5, <3>1, <3>2
  <2>8. Carries(s, c) /\ d <= RowLen
    BY <1>0, <2>1 DEF Carries
  <2>9. Carries(s, c)'
    BY <2>1, <2>5, <2>7, <2>8 DEF Carries
  <2>10. ProgressOf(t)'
    <3>1. rows[s].id = RowId(c) /\ ("CLOCK" \in Options => rows[s].ts = c)
      BY <2>8 DEF Carries
    <3>2. n = Len(Head(todo'[t]).img)
      BY <2>1
    <3>3. Head(todo'[t]).atZero => d = 0
      BY <2>1, <2>3
    <3>4. MySlot(t)' = s
      BY <1>0, <2>1 DEF MySlot
    <3>5. rows'[s].id = RowId(c) /\ ("CLOCK" \in Options => rows'[s].ts = c)
      BY <2>5, <3>1
    <3>6. /\ pc'[t] = "load" /\ claim'[t] = c /\ d \in Nat /\ n \in Nat
          /\ rows'[s].datalen = d /\ d + n <= RowLen
      BY <2>1, <2>2, <2>3, <2>5
    <3> QED BY <2>6, <3>2, <3>3, <3>4, <3>5, <3>6, PutProgress, ZenonT(60)
  <2> QED BY <2>9, <2>10
<1>7. CASE LoadLen(t)
  <2>1. /\ pc[t] = "load" /\ pc'[t] = "store" /\ claim'[t] = c /\ rows' = rows
        /\ todo'[t] = todo[t] /\ seen'[t] = rows[s].datalen
    BY <1>0, <1>7 DEF LoadLen, TypeOK
  <2> QED BY <1>0, <2>1 DEF ProgressOf, Carries, MySlot
<1>8. CASE StoreLen(t)
  <2>1. /\ pc[t] = "store" /\ pc'[t] = "open" /\ claim'[t] = c
        /\ todo[t] # <<>> /\ todo'[t] = Tail(todo[t])
        /\ rows'[s].id = rows[s].id /\ rows'[s].ts = rows[s].ts
        /\ rows'[s].cells = rows[s].cells /\ rows'[s].datalen = seen[t] + n
    BY <1>0, <1>8 DEF StoreLen, TypeOK, RowType
  <2>2. n \in Nat /\ d \in Nat
    BY <1>0, <2>1, TodoFacts DEF RowType
  <2>3. /\ seen[t] = d /\ d + n <= RowLen
        /\ \A o \in d .. d + n - 1 : rows[s].cells[o].by = c
    BY <1>0, <2>1, <2>2 DEF ProgressOf
  <2>4. Carries(s, c)
    BY <1>0, <2>1
  <2>5. \A o \in 0 .. d - 1 : rows[s].cells[o].by = c
    BY <2>4 DEF Carries
  <2>6. todo'[t] # <<>> => ~Head(todo'[t]).atZero
    BY <1>0, <2>1, TailItems DEF RowInv, ProgressOK
  <2>7. \A o \in 0 .. d + n - 1 : rows[s].cells[o].by = c
    BY <2>2, <2>3, <2>5
  <2>8. Carries(s, c)'
    BY <2>1, <2>2, <2>3, <2>4, <2>7 DEF Carries
  <2>9. ProgressOf(t)'
    BY <2>1, <2>4, <2>6 DEF ProgressOf, MySlot, Carries
  <2> QED BY <2>8, <2>9
<1>9. CASE Append1(t)
  <2>1. PICK j \in Item : todo'[t] = <<Push(j)>>
    BY <1>9 DEF Append1, TypeOK, RowInv
  <2>2. /\ pc[t] = "open" /\ pc'[t] = "open" /\ claim'[t] = c /\ rows' = rows
    BY <1>0, <1>9 DEF Append1, TypeOK
  <2>3. ~Head(todo'[t]).atZero
    BY <2>1, PushIsPush
  <2> QED BY <1>0, <2>2, <2>3 DEF ProgressOf, Carries, MySlot
<1>10. CASE SetTs(t)
  <2>1. /\ pc[t] = "open" /\ pc'[t] = "open" /\ claim'[t] = c /\ todo'[t] = <<>>
        /\ rows'[s].id = rows[s].id /\ rows'[s].ts = c
        /\ rows'[s].cells = rows[s].cells /\ rows'[s].datalen = rows[s].datalen
    BY <1>0, <1>10 DEF SetTs, TypeOK, RowType
  <2> QED BY <1>0, <2>1 DEF ProgressOf, Carries, MySlot
<1>11. CASE LetGo(t)
  <2>1. pc[t] = "open" /\ pc'[t] = "idle" /\ rows' = rows
    BY <1>0, <1>11 DEF LetGo, TypeOK
  <2> QED BY <1>0, <2>1 DEF Carries
<1> QED BY <1>1, <1>2, <1>3, <1>4, <1>5, <1>6, <1>7, <1>8, <1>9, <1>10, <1>11 DEF RowStep

-----------------------------------------------------------------------------
(* RowInv is an invariant.                                                 *)

\* The invariant holds in the empty log.
LEMMA InitInv == Init => RowInv
<1> SUFFICES ASSUME Init PROVE RowInv
  OBVIOUS
<1>1. TypeOK /\ OwnerOK
  BY InitType, InitOwner
<1>2. \A t \in Thread : todo[t] = <<>> /\ pc[t] = "idle"
  BY DEF Init
<1>3. ProgressOK
  <2>1. ASSUME NEW t \in Thread
        PROVE  ItemsOK(t)
    <3>1. todo[t] = <<>> /\ Len(todo[t]) = 0 /\ 2 .. 0 = {}
      BY <1>2, EmptySeq
    <3> QED BY <3>1 DEF ItemsOK
  <2> QED BY <1>2, <2>1 DEF ProgressOK
<1>4. CleanRowIntact
  BY DEF Init, CleanRowIntact
<1> QED BY <1>1, <1>3, <1>4 DEF RowInv

\* A claim makes its slot clean only if nobody is in it, and changes no row.
LEMMA ClaimInv ==
  ASSUME RowInv, NEW t \in Thread, NEW q, StartOK(q), InitRow(t, q)
  PROVE  ProgressOK' /\ CleanRowIntact'
<1> PICK n : n = Slot(claims)
  OBVIOUS
<1>1. /\ n \in Slots /\ pc[t] = "idle" /\ pc' = [pc EXCEPT ![t] = "stamp"]
      /\ claim' = [claim EXCEPT ![t] = claims] /\ todo' = [todo EXCEPT ![t] = q]
      /\ owner' = [owner EXCEPT ![n] = claims]
      /\ clean' = [clean EXCEPT ![n] = \A u \in Thread : ~Holds(u, n)]
      /\ rows' = rows /\ seen' = seen
      /\ TypeOK
  BY SlotFacts DEF RowInv, TypeOK, InitRow, Goto
<1>2. pc'[t] = "stamp" /\ claim'[t] = claims /\ todo'[t] = q /\ n = Slot(claims)
  BY <1>1 DEF TypeOK
<1>3. \A u \in Thread \ {t} : /\ pc'[u] = pc[u] /\ claim'[u] = claim[u]
                             /\ todo'[u] = todo[u] /\ seen'[u] = seen[u]
                             /\ MySlot(u)' = MySlot(u)
  BY <1>1 DEF TypeOK, MySlot
<1>4. ASSUME NEW u \in Thread
      PROVE  ItemsOK(u)'
  <2>1. CASE u = t
    BY <1>2, <2>1 DEF StartOK, ItemsOK
  <2>2. CASE u # t
    BY <1>3, <2>2 DEF RowInv, ProgressOK, ItemsOK
  <2> QED BY <2>1, <2>2
<1>5. ASSUME NEW u \in Thread, pc'[u] # "idle", clean'[MySlot(u)']
      PROVE  ProgressOf(u)'
  <2>1. CASE u = t
    BY <1>2, <2>1 DEF ProgressOf, Filling
  <2>2. CASE u # t
    <3>1. MySlot(u) \in Slots /\ pc[u] # "idle"
      BY <1>1, <1>3, <1>5, <2>2, SlotFacts DEF TypeOK, MySlot
    <3>2. MySlot(u) # n
      BY <1>1, <1>3, <1>5, <2>2, <3>1 DEF Holds, TypeOK
    <3>3. ProgressOf(u)
      BY <1>1, <1>3, <1>5, <2>2, <3>1, <3>2 DEF RowInv, ProgressOK, TypeOK
    <3> QED BY <1>1, <1>3, <2>2, <3>3 DEF ProgressOf
  <2> QED BY <2>1, <2>2
<1>6. ASSUME NEW s \in Slots, Settled(s)', owner'[s] # Nobody
      PROVE  Carries(s, owner[s])' /\ owner'[s] = owner[s]
  <2>1. Holds(t, n)' /\ pc'[t] \in Filling
    BY <1>2 DEF Holds, MySlot, Filling
  <2>2. s # n
    BY <1>6, <2>1 DEF Settled
  <2>3. clean[s] /\ owner'[s] = owner[s]
    BY <1>1, <1>6, <2>2 DEF Settled, TypeOK
  <2>4. \A u \in Thread : Holds(u, s) /\ pc[u] \in Filling => Holds(u, s)' /\ pc'[u] \in Filling
    BY <1>1, <1>3 DEF Holds
  <2>5. Settled(s)
    BY <1>6, <2>3, <2>4 DEF Settled
  <2>6. Carries(s, owner[s])
    BY <1>6, <2>3, <2>5 DEF RowInv, CleanRowIntact
  <2> QED BY <1>1, <2>3, <2>6 DEF Carries
<1>7. ProgressOK'
  BY <1>4, <1>5 DEF ProgressOK
<1>8. CleanRowIntact'
  BY <1>6 DEF CleanRowIntact
<1> QED BY <1>7, <1>8

\* A step of a row disturbs no other clean row and no other thread that is alone
\* in its row; its own row is StepContent.
LEMMA StepInv ==
  ASSUME RowInv, NEW t \in Thread, RowStep(t)
  PROVE  ProgressOK' /\ CleanRowIntact'
<1> PICK s : s = MySlot(t)
  OBVIOUS
<1> PICK c : c = claim[t]
  OBVIOUS
<1>1. /\ UNCHANGED <<owner, clean>> /\ pc[t] # "idle"
      /\ pc'[t] = "idle" \/ claim'[t] = c
      /\ s \in Slots /\ c \in Nat /\ s = Slot(c)
      /\ \A u \in Thread \ {t} : /\ pc'[u] = pc[u] /\ claim'[u] = claim[u]
                                /\ todo'[u] = todo[u] /\ seen'[u] = seen[u]
      /\ \A r \in Slots \ {s} : rows'[r] = rows[r]
  BY RowFrame, SlotFacts DEF RowInv, TypeOK, MySlot
<1>2. \A u \in Thread \ {t} : MySlot(u)' = MySlot(u)
  BY <1>1 DEF MySlot
<1>3. clean[s] => /\ pc'[t] # "idle" => ProgressOf(t)'
                  /\ pc'[t] \notin Filling => Carries(s, c)'
                  /\ c = owner[s]
  BY <1>1, StepContent, Alone
<1>4. ASSUME NEW u \in Thread
      PROVE  ItemsOK(u)'
  <2>1. CASE u = t
    BY <2>1, StepItems
  <2>2. CASE u # t
    BY <1>1, <2>2 DEF RowInv, ProgressOK, ItemsOK
  <2> QED BY <2>1, <2>2
<1>5. ASSUME NEW u \in Thread, pc'[u] # "idle", clean'[MySlot(u)']
      PROVE  ProgressOf(u)'
  <2>1. CASE u = t
    BY <1>1, <1>3, <1>5, <2>1 DEF MySlot
  <2>2. CASE u # t
    <3>1. pc[u] # "idle" /\ clean[MySlot(u)]
      BY <1>1, <1>2, <1>5, <2>2
    <3>2. MySlot(u) # s /\ MySlot(u) \in Slots
      BY <1>1, <2>2, <3>1, Apart, Alone DEF RowInv
    <3>3. ProgressOf(u)
      BY <3>1 DEF RowInv, ProgressOK
    <3>4. rows'[MySlot(u)] = rows[MySlot(u)]
      BY <1>1, <3>2
    <3> QED BY <1>1, <1>2, <2>2, <3>3, <3>4 DEF ProgressOf
  <2> QED BY <2>1, <2>2
<1>6. ASSUME NEW r \in Slots, Settled(r)', owner[r] # Nobody
      PROVE  Carries(r, owner[r])'
  <2>1. CASE r = s
    <3>1. clean[s]
      BY <1>1, <1>6, <2>1 DEF Settled
    <3>2. pc'[t] \notin Filling
      <4>1. CASE pc'[t] = "idle"
        BY <4>1 DEF Filling
      <4>2. CASE pc'[t] # "idle"
        <5>1. Holds(t, r)'
          BY <1>1, <2>1, <4>2 DEF Holds, MySlot
        <5> QED BY <1>6, <5>1 DEF Settled
      <4> QED BY <4>1, <4>2
    <3>3. Carries(s, c)' /\ c = owner[s] /\ owner' = owner
      BY <1>1, <1>3, <3>1, <3>2
    <3> QED BY <2>1, <3>3 DEF Carries
  <2>2. CASE r # s
    <3>1. \A u \in Thread : Holds(u, r) /\ pc[u] \in Filling => Holds(u, r)' /\ pc'[u] \in Filling
      BY <1>1, <1>2, <2>2 DEF Holds
    <3>2. Settled(r)
      BY <1>1, <1>6, <3>1 DEF Settled
    <3>3. Carries(r, owner[r])
      BY <1>6, <3>2 DEF RowInv, CleanRowIntact
    <3>4. rows'[r] = rows[r] /\ owner' = owner
      BY <1>1, <2>2
    <3> QED BY <3>3, <3>4 DEF Carries
  <2> QED BY <2>1, <2>2
<1>7. ProgressOK'
  BY <1>4, <1>5 DEF ProgressOK
<1>8. CleanRowIntact'
  BY <1>1, <1>6 DEF CleanRowIntact
<1> QED BY <1>7, <1>8

\* Every step keeps the invariant.
LEMMA NextInv == RowInv /\ [Next]_vars => RowInv'
<1> SUFFICES ASSUME RowInv, [Next]_vars PROVE RowInv'
  OBVIOUS
<1>1. TypeOK' /\ OwnerOK'
  BY NextType, NextOwner DEF RowInv
<1>2. ProgressOK' /\ CleanRowIntact'
  <2>1. CASE UNCHANGED vars
    BY <2>1 DEF vars, RowInv, ProgressOK, ItemsOK, ProgressOf, CleanRowIntact,
                Settled, Carries, Holds, MySlot
  <2>2. ASSUME NEW t \in Thread, Step(t)
        PROVE  ProgressOK' /\ CleanRowIntact'
    <3>1. CASE GetRow(t) \/ Write(t) \/ TimeEvent(t)
      BY <3>1, ClaimSteps, ClaimInv
    <3>2. CASE RowStep(t)
      BY <3>2, StepInv
    <3> QED BY <2>2, <3>1, <3>2 DEF Step, RowStep
  <2> QED BY <2>1, <2>2 DEF Next
<1> QED BY <1>1, <1>2 DEF RowInv

\* The inductive invariant: types, who owns which slot, how far each thread has
\* come with the row it is alone in, and what each such row carries.
THEOREM RowInvariant == Spec => []RowInv
BY InitInv, NextInv, PTL DEF Spec

\* However many threads log, and however they are scheduled, a row that one
\* thread at a time writes carries the message of its last claim and nothing else.
THEOREM CleanRow == Spec => []CleanRowIntact
<1>1. RowInv => CleanRowIntact
  BY DEF RowInv
<1> QED BY <1>1, RowInvariant, PTL

\* A push overruns its row only while some row is shared: alone in its row, the
\* thread stores at the datalen it checked, and nobody has moved it since.
THEOREM OverrunNeedsSharing == Spec => OverrunOnlyInSharedRow
<1>1. RowInv /\ [Next]_vars => [~overrun /\ overrun' => \E s \in Slots : ~clean[s]]_vars
  <2> SUFFICES ASSUME RowInv, Next, ~overrun, overrun', \A s \in Slots : clean[s]
               PROVE  FALSE
    OBVIOUS
  <2>1. PICK t \in Thread : Step(t)
    BY DEF Next
  <2>2. PutCells(t)
    <3>1. GetRow(t) \/ Write(t) \/ TimeEvent(t) => UNCHANGED overrun
      BY DEF GetRow, Write, TimeEvent, InitRow
    <3> QED BY <2>1, <3>1 DEF Step, Stamp, StoreId, ResetLen, CheckRoom, NoRoom,
                              LoadLen, StoreLen, Append1, SetTs, LetGo
  <2> PICK n : n = Len(Head(todo[t]).img)
    OBVIOUS
  <2> PICK d : d = rows[MySlot(t)].datalen
    OBVIOUS
  <2>3. pc[t] = "put" /\ MySlot(t) \in Slots
    BY <2>2, SlotFacts DEF PutCells, RowInv, TypeOK, MySlot
  <2>4. ProgressOf(t) /\ todo[t] # <<>> /\ n \in Nat /\ d \in Nat
    BY <2>3, Alone, TodoFacts DEF RowInv, TypeOK, RowType
  <2>5. d + n <= RowLen /\ seen[t] = d /\ (Head(todo[t]).atZero => d = 0)
    BY <2>3, <2>4 DEF ProgressOf, Filling
  <2>6. PICK at \in (IF Head(todo[t]).atZero THEN {0} ELSE {seen[t], d}) :
          overrun' = (overrun \/ at + n > RowLen)
    BY <2>2 DEF PutCells
  <2>7. at = d
    BY <2>5, <2>6
  <2>8. d + n > RowLen
    BY <2>6, <2>7, Zenon
  <2> QED BY <2>4, <2>5, <2>8, LenAssumption
<1> QED BY <1>1, RowInvariant, PTL DEF OverrunOnlyInSharedRow, Spec

\* None of the last num_rows messages is lost, as long as their rows are not
\* shared: a claim of the slot after theirs would be a full turn further on.
THEOREM NewestKept == Spec => []NewestRowsKept
<1>1. RowInv => NewestRowsKept
  <2> SUFFICES ASSUME RowInv, NEW c \in Nat, c \in claims - NumRows .. claims - 1,
                      clean[Slot(c)]
               PROVE  \/ \E t \in Thread : claim[t] = c /\ pc[t] \in {"stamp", "id"}
                      \/ rows[Slot(c)].id = RowId(c)
    BY DEF NewestRowsKept
  <2> PICK s : s = Slot(c)
    OBVIOUS
  <2>1. s \in Slots /\ claims \in Nat /\ NumRows \in Nat /\ c \in 0 .. claims - 1
    BY SlotFacts, RowsAssumption DEF RowInv, TypeOK
  <2>2. owner[s] = c
    <3>1. /\ c <= owner[s] /\ owner[s] \in Nat \cup {Nobody}
          /\ owner[s] # Nobody => owner[s] < claims /\ Slot(owner[s]) = s
      BY <2>1 DEF RowInv, OwnerOK, TypeOK
    <3>2. owner[s] \in Nat /\ owner[s] # Nobody
      BY <2>1, <3>1 DEF Nobody
    <3>3. c < owner[s] => owner[s] - c >= NumRows
      BY <3>1, <3>2, ClaimsOfASlot
    <3> QED BY <2>1, <3>1, <3>2, <3>3
  <2>3. CASE Settled(s)
    BY <2>1, <2>2, <2>3 DEF RowInv, CleanRowIntact, Carries, Nobody
  <2>4. CASE ~Settled(s)
    <3>1. PICK t \in Thread : Holds(t, s) /\ pc[t] \in Filling
      BY <2>4 DEF Settled
    <3>2. pc[t] # "idle" /\ MySlot(t) = s /\ claim[t] = c
      BY <2>2, <3>1 DEF RowInv, OwnerOK, Holds
    <3>3. ProgressOf(t)
      BY <3>2, Alone
    <3> QED BY <3>1, <3>2, <3>3 DEF ProgressOf, Filling
  <2> QED BY <2>3, <2>4
<1> QED BY <1>1, RowInvariant, PTL

-----------------------------------------------------------------------------
(* Whole items.                                                            *)

\* Cell k of a push belongs to an item that is in the push as a whole.
WholeAt(q, k, len) ==
  /\ k - q[k].at >= 1 /\ q[k].at < Size[q[k].item]
  /\ k - q[k].at + Size[q[k].item] <= len + 1
  /\ \A j \in 0 .. Size[q[k].item] - 1 :
       q[k - q[k].at + j] = [item |-> q[k].item, at |-> j]

\* A push stores whole items.
WholeSeq(q) == \A k \in 1 .. Len(q) : WholeAt(q, k, Len(q))

\* Cell o of a row belongs to an item that is whole in the first len cells.
WholeCell(cells, o, len) ==
  /\ o - cells[o].at >= 0 /\ cells[o].at < Size[cells[o].item]
  /\ o - cells[o].at + Size[cells[o].item] <= len
  /\ \A k \in 0 .. Size[cells[o].item] - 1 :
       cells[o - cells[o].at + k] = [by |-> cells[o].by, item |-> cells[o].item, at |-> k]

\* The first len cells of a row are whole items.
WholeCells(cells, len) == \A o \in 0 .. len - 1 : WholeCell(cells, o, len)

\* What an element of a push is.
LEMMA CellFacts ==
  ASSUME NEW q \in Seq(CellImage), NEW k \in 1 .. Len(q)
  PROVE  q[k].item \in Item /\ q[k].at \in Nat /\ Size[q[k].item] \in Nat
<1>1. q[k] \in CellImage
  BY ElementOfSeq
<1>2. q[k].item \in Item /\ q[k].at \in Nat
  BY <1>1 DEF CellImage
<1> QED BY <1>2, SizeAssumption

\* One item is whole.
LEMMA ImageWhole ==
  ASSUME NEW j \in Item
  PROVE  WholeSeq(Image(j))
<1>1. Size[j] \in Nat /\ Len(Image(j)) = Size[j]
  BY SizeAssumption, ImageFacts
<1>2. \A k \in 1 .. Size[j] : Image(j)[k] = [item |-> j, at |-> k - 1]
  BY DEF Image
<1> SUFFICES ASSUME NEW k \in 1 .. Size[j] PROVE WholeAt(Image(j), k, Size[j])
  BY <1>1 DEF WholeSeq
<1>3. Image(j)[k].item = j /\ k - Image(j)[k].at = 1 /\ Image(j)[k].at < Size[j]
  <2>1. Image(j)[k] = [item |-> j, at |-> k - 1]
    BY <1>2
  <2>2. Image(j)[k].item = j /\ Image(j)[k].at = k - 1
    BY <2>1
  <2>3. k - (k - 1) = 1 /\ k - 1 < Size[j]
    BY <1>1
  <2> QED BY <2>2, <2>3
<1>4. \A i \in 0 .. Size[j] - 1 : Image(j)[1 + i] = [item |-> j, at |-> i]
  <2> SUFFICES ASSUME NEW i \in 0 .. Size[j] - 1
               PROVE  Image(j)[1 + i] = [item |-> j, at |-> i]
    OBVIOUS
  <2>1. 1 + i \in 1 .. Size[j] /\ (1 + i) - 1 = i
    BY <1>1
  <2> QED BY <1>2, <2>1
<1> QED BY <1>1, <1>3, <1>4 DEF WholeAt

\* Whole items behind whole items are whole items.
LEMMA ConcatWhole ==
  ASSUME NEW a \in Seq(CellImage), NEW b \in Seq(CellImage), WholeSeq(a), WholeSeq(b)
  PROVE  WholeSeq(a \o b)
<1> DEFINE q == a \o b  m == Len(a)  n == Len(b)
<1>1. /\ m \in Nat /\ n \in Nat /\ Len(q) = m + n
      /\ \A k \in 1 .. m : q[k] = a[k]
      /\ \A k \in 1 .. n : q[m + k] = b[k]
  <2>1. m \in Nat /\ n \in Nat /\ Len(q) = m + n
    BY ConcatProperties, LenProperties
  <2>2. \A k \in 1 .. m + n : q[k] = IF k <= m THEN a[k] ELSE b[k - m]
    BY ConcatProperties
  <2> HIDE DEF q, m, n
  <2>3. \A k \in 1 .. m : q[k] = a[k]
    BY <2>1, <2>2
  <2>4. ASSUME NEW k \in 1 .. n PROVE q[m + k] = b[k]
    <3>1. m + k \in 1 .. m + n /\ ~(m + k <= m) /\ (m + k) - m = k
      BY <2>1
    <3> QED BY <2>2, <3>1
  <2> QED BY <2>1, <2>3, <2>4
<1>2. /\ \A k \in 1 .. m : a[k].at \in Nat /\ Size[a[k].item] \in Nat
      /\ \A k \in 1 .. n : b[k].at \in Nat /\ Size[b[k].item] \in Nat
  BY CellFacts
<1> HIDE DEF q, m, n
<1> SUFFICES ASSUME NEW k \in 1 .. m + n PROVE WholeAt(q, k, m + n)
  BY <1>1 DEF WholeSeq, q
<1>3. CASE k <= m
  <2>1. k \in 1 .. m /\ q[k] = a[k]
    BY <1>1, <1>3
  <2> DEFINE s == k - a[k].at  z == Size[a[k].item]
  <2>2. s \in Int /\ z \in Nat
    BY <1>2, <2>1
  <2>3. /\ s >= 1 /\ s + z <= m + 1 /\ a[k].at < z
        /\ \A j \in 0 .. z - 1 : a[s + j] = [item |-> a[k].item, at |-> j]
    BY <2>1 DEF WholeSeq, WholeAt, m
  <2> HIDE DEF s, z
  <2>4. ASSUME NEW j \in 0 .. z - 1
        PROVE  q[s + j] = [item |-> a[k].item, at |-> j]
    <3>1. s + j \in 1 .. m
      BY <1>1, <2>2, <2>3
    <3> QED BY <1>1, <2>3, <3>1
  <2> QED BY <1>1, <2>1, <2>2, <2>3, <2>4 DEF s, z, WholeAt
<1>4. CASE k > m
  <2> DEFINE i == k - m
  <2>1. i \in 1 .. n /\ k = m + i
    BY <1>1, <1>4
  <2>2. q[k] = b[i]
    BY <1>1, <2>1
  <2> DEFINE s == i - b[i].at  z == Size[b[i].item]
  <2>3. s \in Int /\ z \in Nat /\ k - b[i].at = m + s
    <3>1. b[i].at \in Nat /\ z \in Nat
      BY <1>2, <2>1
    <3> HIDE DEF i
    <3> QED BY <1>1, <2>1, <3>1
  <2>4. /\ s >= 1 /\ s + z <= n + 1 /\ b[i].at < z
        /\ \A j \in 0 .. z - 1 : b[s + j] = [item |-> b[i].item, at |-> j]
    BY <2>1 DEF WholeSeq, WholeAt, n
  <2> HIDE DEF s, z, i
  <2>5. ASSUME NEW j \in 0 .. z - 1
        PROVE  q[m + s + j] = [item |-> b[i].item, at |-> j]
    <3>1. s + j \in 1 .. n /\ m + s + j = m + (s + j)
      BY <1>1, <2>3, <2>4
    <3> QED BY <1>1, <2>4, <3>1
  <2>6. m + s >= 1 /\ m + s + z <= m + n + 1
    BY <1>1, <2>3, <2>4
  <2> QED BY <2>2, <2>3, <2>4, <2>5, <2>6 DEF z, WholeAt
<1> QED BY <1>1, <1>3, <1>4

\* Every push stores whole items.
LEMMA PushWhole ==
  ASSUME NEW p \in Pushes
  PROVE  WholeSeq(p.img)
<1>1. {"string", "int"} \subseteq Item
  BY SizeAssumption
<1>2. /\ Image("int") \in Seq(CellImage) /\ WholeSeq(Image("int"))
      /\ Image("string") \in Seq(CellImage) /\ WholeSeq(Image("string"))
  BY <1>1, ImageFacts, ImageWhole
<1>3. Image("int") \o Image("int") \in Seq(CellImage) /\ WholeSeq(Image("int") \o Image("int"))
  BY <1>2, ConcatProperties, ConcatWhole
<1>4. <<>> \in Seq(CellImage) /\ WholeSeq(<<>>)
  BY EmptySeq DEF WholeSeq
<1>5. ASSUME NEW b \in BOOLEAN
      PROVE  WholeSeq(EventImage(b))
  <2> DEFINE rest == IF b THEN Image("string") ELSE <<>>
  <2>1. rest \in Seq(CellImage) /\ WholeSeq(rest)
    BY <1>2, <1>4
  <2> HIDE DEF rest
  <2>2. WholeSeq((Image("int") \o Image("int")) \o rest)
    BY <1>3, <2>1, ConcatWhole
  <2> QED BY <2>2 DEF EventImage, rest
<1>6. p.img \in Images
  BY DEF Pushes
<1> QED BY <1>5, <1>6, ImageWhole DEF Images

CellsType == [0 .. RowLen - 1 -> Cell]

\* Whole items stay whole where the cells they are in stay.
LEMMA KeepWhole ==
  ASSUME NEW a \in CellsType, NEW b \in CellsType, NEW d \in Nat, d <= RowLen,
         \A o \in 0 .. d - 1 : b[o] = a[o], WholeCells(a, d)
  PROVE  WholeCells(b, d)
<1> SUFFICES ASSUME NEW o \in 0 .. d - 1 PROVE WholeCell(b, o, d)
  BY DEF WholeCells
<1>1. b[o] = a[o] /\ o \in 0 .. RowLen - 1 /\ a[o] \in Cell
  BY LenAssumption DEF CellsType
<1> DEFINE s == o - a[o].at  z == Size[a[o].item]
<1>2. s \in Int /\ z \in Nat
  BY <1>1, SizeAssumption DEF Cell
<1>3. /\ s >= 0 /\ s + z <= d /\ a[o].at < z
      /\ \A k \in 0 .. z - 1 : a[s + k] = [by |-> a[o].by, item |-> a[o].item, at |-> k]
  BY DEF WholeCells, WholeCell
<1> HIDE DEF s, z
<1>4. ASSUME NEW k \in 0 .. z - 1
      PROVE  b[s + k] = [by |-> a[o].by, item |-> a[o].item, at |-> k]
  <2>1. s + k \in 0 .. d - 1
    BY <1>2, <1>3
  <2> QED BY <1>3, <2>1
<1> QED BY <1>1, <1>3, <1>4 DEF s, z, WholeCell

\* The cells a push has put behind d are those of its image.
Holding(cells, d, img, c) ==
  \A o \in d .. d + Len(img) - 1 :
    cells[o] = [by |-> c, item |-> img[o - d + 1].item, at |-> img[o - d + 1].at]

\* Whole items that are put behind whole items are counted in.
LEMMA ExtendWhole ==
  ASSUME NEW a \in CellsType, NEW d \in Nat, NEW img \in Seq(CellImage), NEW c,
         d + Len(img) <= RowLen, WholeSeq(img), Holding(a, d, img, c), WholeCells(a, d)
  PROVE  WholeCells(a, d + Len(img))
<1> DEFINE n == Len(img)
<1>1. n \in Nat /\ \A k \in 1 .. n : img[k].at \in Nat /\ Size[img[k].item] \in Nat
  BY LenProperties, CellFacts
<1> SUFFICES ASSUME NEW o \in 0 .. d + n - 1 PROVE WholeCell(a, o, d + n)
  BY DEF WholeCells
<1>2. CASE o < d
  <2>1. o \in 0 .. d - 1 /\ o \in 0 .. RowLen - 1
    BY <1>1, <1>2, LenAssumption
  <2>2. o - a[o].at \in Int /\ Size[a[o].item] \in Nat
    BY <2>1, SizeAssumption DEF CellsType, Cell
  <2>3. /\ o - a[o].at >= 0 /\ o - a[o].at + Size[a[o].item] <= d
        /\ a[o].at < Size[a[o].item]
        /\ \A k \in 0 .. Size[a[o].item] - 1 :
             a[o - a[o].at + k] = [by |-> a[o].by, item |-> a[o].item, at |-> k]
    BY <2>1 DEF WholeCells, WholeCell
  <2> HIDE DEF n
  <2> QED BY <1>1, <2>2, <2>3 DEF WholeCell
<1>3. CASE o >= d
  <2> DEFINE i == o - d + 1
  <2>1. i \in 1 .. n /\ o \in d .. d + n - 1 /\ o = d + i - 1
    <3> HIDE DEF n
    <3> QED BY <1>1, <1>3
  <2>2. a[o] = [by |-> c, item |-> img[i].item, at |-> img[i].at]
    BY <2>1 DEF Holding
  <2> DEFINE s == i - img[i].at  z == Size[img[i].item]
  <2>3. s \in Int /\ z \in Nat /\ o - a[o].at = d + s - 1 /\ Size[a[o].item] = z
    <3> HIDE DEF n, i
    <3> QED BY <1>1, <2>1, <2>2
  <2>4. /\ s >= 1 /\ s + z <= n + 1 /\ img[i].at < z
        /\ \A j \in 0 .. z - 1 : img[s + j] = [item |-> img[i].item, at |-> j]
    BY <2>1 DEF WholeSeq, WholeAt
  <2> HIDE DEF s, z, i
  <2>5. ASSUME NEW j \in 0 .. z - 1
        PROVE  a[d + s - 1 + j] = [by |-> a[o].by, item |-> a[o].item, at |-> j]
    <3>1. d + s - 1 + j \in d .. d + n - 1 /\ (d + s - 1 + j) - d + 1 = s + j
      <4> HIDE DEF n
      <4> QED BY <1>1, <2>3, <2>4
    <3>2. a[d + s - 1 + j] = [by |-> c, item |-> img[s + j].item, at |-> img[s + j].at]
      BY <3>1 DEF Holding
    <3>3. img[s + j] = [item |-> img[i].item, at |-> j]
      BY <2>4
    <3>4. a[o].by = c /\ a[o].item = img[i].item
      BY <2>2
    <3>5. img[s + j].item = img[i].item /\ img[s + j].at = j
      BY <3>3
    <3> QED BY <3>2, <3>4, <3>5
  <2> HIDE DEF n
  <2>6. d + s - 1 >= 0 /\ d + s - 1 + z <= d + n /\ a[o].at < z
    <3>1. a[o].at < z
      BY <2>2, <2>4
    <3> QED BY <1>1, <2>3, <2>4, <3>1
  <2> QED BY <2>3, <2>5, <2>6 DEF WholeCell
<1> HIDE DEF n
<1> QED BY <1>1, <1>2, <1>3

-----------------------------------------------------------------------------
(* What makes WholeItems inductive.                                        *)

WholeRow(s) == WholeCells(rows[s].cells, rows[s].datalen)

\* The cells a thread alone in its row has put, before it counts them in.
HasPut(t) == Holding(rows[MySlot(t)].cells, rows[MySlot(t)].datalen,
                     Head(todo[t]).img, claim[t])

WholeInv ==
  /\ RowInv
  /\ \A s \in Slots : Settled(s) => WholeRow(s)
  /\ \A t \in Thread : (pc[t] \in {"load", "store"} /\ clean[MySlot(t)]) => HasPut(t)

\* WholeItems says of every settled row that it is a WholeRow.
LEMMA WholeRows == WholeItems <=> \A s \in Slots : Settled(s) => WholeRow(s)
BY DEF WholeItems, WholeRow, WholeCells, WholeCell

\* A thread alone in its row, past the header stores, has a whole row before it.
LEMMA AloneWhole ==
  ASSUME WholeInv, NEW t \in Thread, pc[t] # "idle", pc[t] \notin Filling, clean[MySlot(t)]
  PROVE  WholeRow(MySlot(t))
<1>1. MySlot(t) \in Slots
  BY Alone DEF WholeInv
<1>2. \A u \in Thread : Holds(u, MySlot(t)) => u = t
  BY Apart DEF WholeInv, RowInv, Holds
<1> QED BY <1>1, <1>2 DEF WholeInv, Settled

\* A step of a thread alone in its row leaves it whole, and what the thread has
\* put stays put.
LEMMA StepWhole ==
  ASSUME WholeInv, NEW t \in Thread, RowStep(t), clean[MySlot(t)],
         NEW s \in Slots, s = MySlot(t)
  PROVE  /\ pc'[t] \notin Filling => WholeCells(rows'[s].cells, rows'[s].datalen)
         /\ pc'[t] \in {"load", "store"} =>
              Holding(rows'[s].cells, rows'[s].datalen, Head(todo'[t]).img, claim[t])
<1> PICK c : c = claim[t]
  OBVIOUS
<1> PICK d : d = rows[s].datalen
  OBVIOUS
<1> PICK p : p = Head(todo[t])
  OBVIOUS
<1> PICK n : n = Len(p.img)
  OBVIOUS
<1>0. /\ TypeOK /\ pc[t] # "idle" /\ rows[s] \in RowType /\ d \in Nat
      /\ rows[s].cells \in CellsType
      /\ pc[t] \notin Filling => WholeCells(rows[s].cells, d)
  <2>1. TypeOK /\ pc[t] # "idle"
    BY RowFrame DEF WholeInv, RowInv
  <2>2. rows[s] \in RowType
    BY <2>1 DEF TypeOK
  <2> QED BY <2>1, <2>2, AloneWhole DEF RowType, CellsType, WholeRow
<1>1. CASE Stamp(t) \/ StoreId(t)
  <2>1. pc'[t] \in {"id", "reset"}
    BY <1>0, <1>1 DEF Stamp, StoreId, Goto, TypeOK
  <2> QED BY <2>1 DEF Filling
<1>2. CASE ResetLen(t)
  <2>1. rows'[s].datalen = 0 /\ pc'[t] = "open"
    BY <1>0, <1>2 DEF ResetLen, Goto, TypeOK
  <2> QED BY <2>1 DEF WholeCells
<1>3. CASE CheckRoom(t) \/ NoRoom(t) \/ Append1(t) \/ LetGo(t)
  <2>1. rows' = rows /\ pc[t] = "open" /\ pc'[t] \in {"open", "put", "idle"}
    BY <1>0, <1>3 DEF CheckRoom, NoRoom, Append1, LetGo, Goto, TypeOK
  <2> QED BY <1>0, <2>1 DEF Filling
<1>4. CASE SetTs(t)
  <2>1. /\ pc[t] = "open" /\ pc'[t] = "open"
        /\ rows'[s].cells = rows[s].cells /\ rows'[s].datalen = d
    BY <1>0, <1>4 DEF SetTs, TypeOK, RowType
  <2> QED BY <1>0, <2>1 DEF Filling
<1>5. CASE PutCells(t)
  <2>1. /\ pc[t] = "put" /\ pc'[t] = "load" /\ todo[t] # <<>> /\ todo'[t] = todo[t]
        /\ TypeOK' /\ ProgressOf(t)
    BY <1>0, <1>5, StepType, Alone, ZenonT(60) DEF PutCells, Goto, TypeOK, WholeInv, RowInv, RowStep
  <2>2. n \in Nat
    BY <1>0, <2>1, TodoFacts
  <2>3. d + n <= RowLen /\ seen[t] = d /\ (p.atZero => d = 0)
    BY <2>1 DEF ProgressOf, Filling
  <2>4. rows' = [rows EXCEPT ![s].cells =
                [o \in 0 .. RowLen - 1 |->
                   IF o \in d .. d + n - 1
                   THEN [by |-> c, item |-> p.img[o - d + 1].item,
                         at |-> p.img[o - d + 1].at]
                   ELSE @[o]]]
    <3>1. PICK at \in (IF p.atZero THEN {0} ELSE {seen[t], rows[s].datalen}) :
            rows' = [rows EXCEPT ![s].cells =
                [o \in 0 .. RowLen - 1 |->
                   IF o \in at .. at + n - 1
                   THEN [by |-> c, item |-> p.img[o - at + 1].item,
                         at |-> p.img[o - at + 1].at]
                   ELSE @[o]]]
      BY <1>5, ZenonT(60) DEF PutCells
    <3>2. at = d
      BY <2>3, <3>1
    <3> QED BY <3>1, <3>2
  <2>5. /\ rows'[s].datalen = d
        /\ \A o \in 0 .. RowLen - 1 :
             rows'[s].cells[o] = IF o \in d .. d + n - 1
               THEN [by |-> c, item |-> p.img[o - d + 1].item, at |-> p.img[o - d + 1].at]
               ELSE rows[s].cells[o]
    BY <1>0, <2>4 DEF RowType, TypeOK
  <2>6. rows'[s].cells \in CellsType
    BY <2>1 DEF TypeOK, RowType, CellsType
  <2>7. \A o \in 0 .. d - 1 : rows'[s].cells[o] = rows[s].cells[o]
    <3> SUFFICES ASSUME NEW o \in 0 .. d - 1
                 PROVE  rows'[s].cells[o] = rows[s].cells[o]
      OBVIOUS
    <3>1. o \in 0 .. RowLen - 1 /\ o \notin d .. d + n - 1
      BY <1>0, <2>2, <2>3, LenAssumption
    <3> QED BY <2>5, <3>1
  <2>8. WholeCells(rows'[s].cells, d)
    <3>1. WholeCells(rows[s].cells, d) /\ d <= RowLen
      BY <1>0, <2>1, <2>2, <2>3, LenAssumption, SMTT(60) DEF Filling
    <3> QED BY <1>0, <2>6, <2>7, <3>1, KeepWhole
  <2>9. Holding(rows'[s].cells, d, p.img, c)
    <3>1. d .. d + n - 1 \subseteq 0 .. RowLen - 1
      BY <1>0, <2>2, <2>3, LenAssumption, Within
    <3>2. \A o \in d .. d + n - 1 : rows'[s].cells[o] =
               [by |-> c, item |-> p.img[o - d + 1].item, at |-> p.img[o - d + 1].at]
      BY <2>5, <3>1
    <3> QED BY <3>2 DEF Holding
  <2> QED BY <2>1, <2>5, <2>8, <2>9, SMTT(60)
<1>6. CASE LoadLen(t)
  <2>1. /\ pc[t] = "load" /\ pc'[t] = "store" /\ rows' = rows /\ todo' = todo
    BY <1>0, <1>6 DEF LoadLen, Goto, TypeOK
  <2>2. HasPut(t)
    BY <2>1 DEF WholeInv
  <2> QED BY <1>0, <2>1, <2>2 DEF Filling, HasPut
<1>7. CASE StoreLen(t)
  <2>1. /\ pc[t] = "store" /\ pc'[t] = "open" /\ todo[t] # <<>>
        /\ rows'[s].cells = rows[s].cells /\ rows'[s].datalen = seen[t] + n
    BY <1>0, <1>7 DEF StoreLen, Goto, TypeOK, RowType
  <2>2. ProgressOf(t) /\ HasPut(t)
    BY <1>0, <2>1, Alone DEF WholeInv
  <2>3. seen[t] = d /\ d + n <= RowLen
    BY <2>1, <2>2 DEF ProgressOf
  <2>4. p \in Pushes /\ p.img \in Seq(CellImage) /\ WholeSeq(p.img)
    BY <1>0, <2>1, TodoFacts, PushFacts, PushWhole
  <2>5. Holding(rows[s].cells, d, p.img, c)
    BY <2>2 DEF HasPut
  <2>6. WholeCells(rows[s].cells, d)
    BY <1>0, <2>1 DEF Filling
  <2>7. WholeCells(rows[s].cells, d + n)
    BY <1>0, <2>3, <2>4, <2>5, <2>6, ExtendWhole
  <2> QED BY <2>1, <2>3, <2>7
<1> QED BY <1>1, <1>2, <1>3, <1>4, <1>5, <1>6, <1>7 DEF RowStep

-----------------------------------------------------------------------------
(* WholeInv is an invariant.                                               *)

\* A claim changes no row, and the row it takes is not settled.
LEMMA ClaimWhole ==
  ASSUME WholeInv, NEW t \in Thread, NEW q, InitRow(t, q)
  PROVE  /\ \A s \in Slots : Settled(s)' => WholeRow(s)'
         /\ \A u \in Thread : (pc'[u] \in {"load", "store"} /\ clean'[MySlot(u)']) => HasPut(u)'
<1> PICK n : n = Slot(claims)
  OBVIOUS
<1>1. /\ n \in Slots /\ pc[t] = "idle" /\ pc' = [pc EXCEPT ![t] = "stamp"]
      /\ claim' = [claim EXCEPT ![t] = claims] /\ todo' = [todo EXCEPT ![t] = q]
      /\ clean' = [clean EXCEPT ![n] = \A u \in Thread : ~Holds(u, n)]
      /\ rows' = rows /\ TypeOK
  BY SlotFacts DEF WholeInv, RowInv, TypeOK, InitRow, Goto
<1>2. pc'[t] = "stamp" /\ claim'[t] = claims /\ MySlot(t)' = n
  BY <1>1 DEF TypeOK, MySlot
<1>3. \A u \in Thread \ {t} : /\ pc'[u] = pc[u] /\ claim'[u] = claim[u]
                             /\ todo'[u] = todo[u] /\ MySlot(u)' = MySlot(u)
  BY <1>1 DEF TypeOK, MySlot
<1>4. ASSUME NEW s \in Slots, Settled(s)'
      PROVE  WholeRow(s)'
  <2>1. s # n
    BY <1>2, <1>4 DEF Settled, Holds, Filling
  <2>2. clean[s]
    BY <1>1, <1>4, <2>1 DEF Settled, TypeOK
  <2>3. \A u \in Thread : Holds(u, s) /\ pc[u] \in Filling => Holds(u, s)' /\ pc'[u] \in Filling
    BY <1>1, <1>3 DEF Holds
  <2>4. Settled(s)
    BY <1>4, <2>2, <2>3 DEF Settled
  <2> QED BY <1>1, <2>4 DEF WholeInv, WholeRow
<1>5. ASSUME NEW u \in Thread, pc'[u] \in {"load", "store"}, clean'[MySlot(u)']
      PROVE  HasPut(u)'
  <2>1. u # t /\ pc[u] \in {"load", "store"}
    BY <1>2, <1>3, <1>5
  <2>2. MySlot(u) \in Slots /\ MySlot(u)' = MySlot(u)
    BY <1>1, <1>3, <2>1, SlotFacts DEF TypeOK, MySlot
  <2>3. MySlot(u) # n
    <3>1. CASE MySlot(u) = n
      <4>1. Holds(u, n) /\ ~clean'[n]
        BY <1>1, <2>1, <3>1 DEF Holds, TypeOK
      <4> QED BY <1>5, <2>2, <3>1, <4>1
    <3> QED BY <3>1
  <2>4. clean[MySlot(u)]
    BY <1>1, <1>5, <2>2, <2>3 DEF TypeOK
  <2>5. HasPut(u)
    BY <2>1, <2>4 DEF WholeInv
  <2> QED BY <1>1, <1>3, <2>1, <2>2, <2>5 DEF HasPut
<1> QED BY <1>4, <1>5

\* A step of a row disturbs no other row and no other thread alone in its row.
LEMMA StepWholeInv ==
  ASSUME WholeInv, NEW t \in Thread, RowStep(t)
  PROVE  /\ \A s \in Slots : Settled(s)' => WholeRow(s)'
         /\ \A u \in Thread : (pc'[u] \in {"load", "store"} /\ clean'[MySlot(u)']) => HasPut(u)'
<1> PICK s : s = MySlot(t)
  OBVIOUS
<1>1. /\ clean' = clean /\ pc[t] # "idle" /\ s \in Slots
      /\ pc'[t] = "idle" \/ claim'[t] = claim[t]
      /\ \A u \in Thread \ {t} : /\ pc'[u] = pc[u] /\ claim'[u] = claim[u]
                                /\ todo'[u] = todo[u] /\ MySlot(u)' = MySlot(u)
      /\ \A r \in Slots \ {s} : rows'[r] = rows[r]
  BY RowFrame, SlotFacts DEF WholeInv, RowInv, TypeOK, MySlot
<1>2. clean[s] =>
        /\ pc'[t] \notin Filling => WholeCells(rows'[s].cells, rows'[s].datalen)
        /\ pc'[t] \in {"load", "store"} =>
             Holding(rows'[s].cells, rows'[s].datalen, Head(todo'[t]).img, claim[t])
  BY <1>1, StepWhole
<1>3. ASSUME NEW r \in Slots, Settled(r)'
      PROVE  WholeRow(r)'
  <2>1. CASE r = s
    <3>1. clean[s]
      BY <1>1, <1>3, <2>1 DEF Settled
    <3>2. pc'[t] \notin Filling
      <4>1. CASE pc'[t] = "idle"
        BY <4>1 DEF Filling
      <4>2. CASE pc'[t] # "idle"
        <5>1. Holds(t, r)'
          BY <1>1, <2>1, <4>2 DEF Holds, MySlot
        <5> QED BY <1>3, <5>1 DEF Settled
      <4> QED BY <4>1, <4>2
    <3> QED BY <1>2, <2>1, <3>1, <3>2 DEF WholeRow
  <2>2. CASE r # s
    <3>1. \A u \in Thread : Holds(u, r) /\ pc[u] \in Filling => Holds(u, r)' /\ pc'[u] \in Filling
      BY <1>1, <2>2 DEF Holds
    <3>2. Settled(r)
      BY <1>1, <1>3, <3>1 DEF Settled
    <3> QED BY <1>1, <2>2, <3>2 DEF WholeInv, WholeRow
  <2> QED BY <2>1, <2>2
<1>4. ASSUME NEW u \in Thread, pc'[u] \in {"load", "store"}, clean'[MySlot(u)']
      PROVE  HasPut(u)'
  <2>1. CASE u = t
    <3>1. claim'[t] = claim[t] /\ MySlot(t)' = s
      BY <1>1, <1>4, <2>1 DEF MySlot
    <3> QED BY <1>1, <1>2, <1>4, <2>1, <3>1 DEF HasPut
  <2>2. CASE u # t
    <3>1. pc[u] \in {"load", "store"} /\ clean[MySlot(u)]
      BY <1>1, <1>4, <2>2
    <3>2. MySlot(u) # s /\ MySlot(u) \in Slots
      BY <1>1, <2>2, <3>1, Apart, Alone DEF WholeInv, RowInv
    <3>3. HasPut(u) /\ rows'[MySlot(u)] = rows[MySlot(u)]
      BY <1>1, <3>1, <3>2 DEF WholeInv
    <3> QED BY <1>1, <2>2, <3>3 DEF HasPut
  <2> QED BY <2>1, <2>2
<1> QED BY <1>3, <1>4

\* Every step keeps the rows whole.
LEMMA NextWhole == WholeInv /\ [Next]_vars => WholeInv'
<1> SUFFICES ASSUME WholeInv, [Next]_vars PROVE WholeInv'
  OBVIOUS
<1>1. RowInv'
  BY NextInv DEF WholeInv
<1>2. CASE UNCHANGED vars
  BY <1>1, <1>2 DEF vars, WholeInv, WholeRow, HasPut, Settled, Holds, MySlot
<1>3. ASSUME NEW t \in Thread, Step(t)
      PROVE  WholeInv'
  <2>1. CASE GetRow(t) \/ Write(t) \/ TimeEvent(t)
    BY <1>1, <2>1, ClaimSteps, ClaimWhole DEF WholeInv
  <2>2. CASE RowStep(t)
    BY <1>1, <2>2, StepWholeInv DEF WholeInv
  <2> QED BY <1>3, <2>1, <2>2 DEF Step, RowStep
<1> QED BY <1>2, <1>3 DEF Next

\* The rows of the empty log are whole.
LEMMA InitWhole == Init => WholeInv
<1> SUFFICES ASSUME Init PROVE WholeInv
  OBVIOUS
<1>1. RowInv
  BY InitInv
<1>2. \A s \in Slots : rows[s].datalen = 0
  BY DEF Init, EmptyRow
<1>3. \A t \in Thread : pc[t] = "idle"
  BY DEF Init
<1> QED BY <1>1, <1>2, <1>3 DEF WholeInv, WholeRow, WholeCells

\* However the pushes of the threads interleave, and whatever was left out for
\* lack of room, a row written by one thread at a time holds whole items back to
\* back: the walk of print_rows meets every item and ends at datalen.
THEOREM RowsAreWhole == Spec => []WholeItems
<1>1. WholeInv => WholeItems
  BY WholeRows DEF WholeInv
<1> QED BY <1>1, InitWhole, NextWhole, PTL DEF Spec

-----------------------------------------------------------------------------
(* The abstract log.                                                       *)

\* The messages still being written, as RowLog!Log has them.
OpenClaims == {claim[t] : t \in {u \in Thread : pc[u] # "idle"}}
Kept == [s \in Slots |-> Message(s)]

-----------------------------------------------------------------------------
(* The message of a row.                                                   *)

\* A row with one thread in it is settled once its header is stored.
LEMMA SettledAlone ==
  ASSUME RowInv, NEW t \in Thread, pc[t] # "idle", clean[MySlot(t)]
  PROVE  Settled(MySlot(t)) <=> pc[t] \notin Filling
<1>1. \A u \in Thread : Holds(u, MySlot(t)) => u = t
  BY Apart DEF RowInv, Holds
<1> QED BY <1>1 DEF Settled, Holds

\* What a row holds below its datalen.
Content(r) == [o \in 1 .. r.datalen |-> [item |-> r.cells[o - 1].item, at |-> r.cells[o - 1].at]]

\* It is a sequence of cells.
LEMMA ContentFacts ==
  ASSUME NEW r \in RowType, r.datalen <= RowLen
  PROVE  /\ Content(r) \in Seq(CellImage)
         /\ Len(Content(r)) = r.datalen
         /\ \A o \in 1 .. r.datalen :
              Content(r)[o] = [item |-> r.cells[o - 1].item, at |-> r.cells[o - 1].at]
<1> PICK d : d = r.datalen
  OBVIOUS
<1> DEFINE m == Content(r)
<1>1. d \in Nat /\ d <= RowLen /\ r.cells \in [0 .. RowLen - 1 -> Cell]
  BY DEF RowType
<1>2. m = [o \in 1 .. d |-> m[o]]
  BY DEF Content
<1>3. \A o \in 1 .. d : m[o] = [item |-> r.cells[o - 1].item, at |-> r.cells[o - 1].at]
  BY DEF Content
<1> HIDE DEF m
<1>4. ASSUME NEW o \in 1 .. d
      PROVE  m[o] \in CellImage
  <2>1. o - 1 \in 0 .. RowLen - 1
    BY <1>1, LenAssumption
  <2>2. r.cells[o - 1] \in Cell
    BY <1>1, <2>1
  <2>3. r.cells[o - 1].item \in Item /\ r.cells[o - 1].at \in Nat
    BY <2>2 DEF Cell
  <2>4. m[o] = [item |-> r.cells[o - 1].item, at |-> r.cells[o - 1].at]
    BY <1>3
  <2> QED BY <2>3, <2>4 DEF CellImage
<1>5. m \in [1 .. d -> CellImage]
  BY <1>2, <1>4
<1>6. m \in Seq(CellImage)
  BY <1>1, <1>5, SeqDef
<1>7. Len(m) = d
  BY <1>1, <1>5, <1>6, LenProperties
<1> QED BY <1>3, <1>6, <1>7 DEF m

\* When a sequence is a concatenation.
LEMMA IsConcat ==
  ASSUME NEW a \in Seq(CellImage), NEW b \in Seq(CellImage), NEW w \in Seq(CellImage),
         Len(w) = Len(a) + Len(b),
         \A o \in 1 .. Len(a) : w[o] = a[o],
         \A k \in 1 .. Len(b) : w[Len(a) + k] = b[k]
  PROVE  w = a \o b
<1> DEFINE q == a \o b  d == Len(a)  n == Len(b)
<1>1. /\ d \in Nat /\ n \in Nat /\ q \in Seq(CellImage) /\ Len(q) = d + n
      /\ \A o \in 1 .. d + n : q[o] = IF o <= d THEN a[o] ELSE b[o - d]
  BY ConcatProperties, LenProperties
<1>2. /\ Len(w) = d + n
      /\ \A o \in 1 .. d : w[o] = a[o]
      /\ \A k \in 1 .. n : w[d + k] = b[k]
  OBVIOUS
<1> HIDE DEF q, d, n
<1>3. ASSUME NEW o \in 1 .. d + n
      PROVE  w[o] = q[o]
  <2>1. CASE o <= d
    BY <1>1, <1>2, <2>1
  <2>2. CASE o > d
    <3>1. ~(o <= d) /\ o - d \in 1 .. n /\ d + (o - d) = o
      BY <1>1, <2>2
    <3> QED BY <1>1, <1>2, <3>1
  <2> QED BY <1>1, <2>1, <2>2
<1>4. w = q
  BY <1>1, <1>2, <1>3, SeqEqual
<1> QED BY <1>4 DEF q

\* No message of items is the lost one.
LEMMA NeverLost ==
  ASSUME NEW m \in Seq(CellImage)
  PROVE  m # LostMessage
<1> SUFFICES ASSUME m = LostMessage PROVE FALSE
  OBVIOUS
<1>1. Len(m) = 1 /\ m[1] = [item |-> "lost", at |-> 0]
  BY DEF LostMessage
<1>2. m[1] \in CellImage
  BY <1>1, ElementOfSeq
<1> QED BY <1>1, <1>2, LostAssumption DEF CellImage

\* The message of a row depends on the row, on who fills it and on its history.
LEMMA SameMessage ==
  ASSUME NEW s \in Slots, rows'[s] = rows[s], clean'[s] = clean[s],
         Settled(s)' <=> Settled(s)
  PROVE  Message(s)' = Message(s)
BY DEF Message

\* A step of a row changes no other row, and settles none.
LEMMA OtherSettled ==
  ASSUME TypeOK, NEW t \in Thread, RowStep(t), NEW s \in Slots, s # MySlot(t)
  PROVE  rows'[s] = rows[s] /\ clean'[s] = clean[s] /\ (Settled(s)' <=> Settled(s))
<1>1. /\ clean' = clean /\ pc[t] # "idle" /\ rows'[s] = rows[s]
      /\ pc'[t] = "idle" \/ claim'[t] = claim[t]
      /\ \A u \in Thread \ {t} : pc'[u] = pc[u] /\ claim'[u] = claim[u]
  BY RowFrame
<1>2. \A u \in Thread : Holds(u, s)' /\ pc'[u] \in Filling <=> Holds(u, s) /\ pc[u] \in Filling
  <2> SUFFICES ASSUME NEW u \in Thread
               PROVE  Holds(u, s)' /\ pc'[u] \in Filling <=> Holds(u, s) /\ pc[u] \in Filling
    OBVIOUS
  <2>1. CASE u = t
    <3>1. ~Holds(t, s) /\ ~Holds(t, s)'
      BY <1>1 DEF Holds, MySlot
    <3> QED BY <2>1, <3>1
  <2>2. CASE u # t
    BY <1>1, <2>2 DEF Holds, MySlot
  <2> QED BY <2>1, <2>2
<1>3. Settled(s)' <=> Settled(s)
  BY <1>1, <1>2 DEF Settled
<1> QED BY <1>1, <1>3

\* So it changes the message of no other row.
LEMMA OtherMessages ==
  ASSUME TypeOK, NEW t \in Thread, RowStep(t), NEW s \in Slots, s # MySlot(t)
  PROVE  Message(s)' = Message(s)
BY OtherSettled, SameMessage

\* After a step of its only thread, a row is settled once its header is stored.
LEMMA OwnSettled ==
  ASSUME RowInv, NEW t \in Thread, RowStep(t), NEW s \in Slots, s = MySlot(t), clean[s]
  PROVE  Settled(s)' <=> pc'[t] \notin Filling
<1>1. /\ pc[t] # "idle" /\ clean' = clean
      /\ pc'[t] = "idle" \/ claim'[t] = claim[t]
  BY RowFrame DEF RowInv
<1>2. pc'[t] # "idle" => MySlot(t)' = s
  BY <1>1 DEF MySlot
<1>3. \A u \in Thread \ {t} : ~Holds(u, s)'
  BY <1>1, RowFrame, Apart DEF RowInv, Holds, MySlot
<1> QED BY <1>1, <1>2, <1>3 DEF Settled, Holds, Filling

\* What lies before a push that fits is in the row and not in the push.
LEMMA BeforePut ==
  ASSUME NEW d \in Nat, NEW n \in Nat, NEW m \in Nat, d + n <= m
  PROVE  \A o \in 0 .. d - 1 : o \in 0 .. m - 1 /\ o \notin d .. d + n - 1
OBVIOUS

LEMMA RowsTyped ==
  ASSUME TypeOK
  PROVE  rows \in [Slots -> RowType]
BY DEF TypeOK

\* A put at the place its thread checked changes the cells of its push alone.
LEMMA PutRows ==
  ASSUME NEW t \in Thread, PutCells(t), rows \in [Slots -> RowType],
         NEW s \in Slots, s = MySlot(t), NEW d, d = rows[s].datalen,
         seen[t] = d, Head(todo[t]).atZero => d = 0
  PROVE  /\ rows'[s].datalen = d
         /\ \A o \in 0 .. RowLen - 1 :
              o \notin d .. d + Len(Head(todo[t]).img) - 1 =>
                rows'[s].cells[o] = rows[s].cells[o]
<1> DEFINE put(at) == [o \in 0 .. RowLen - 1 |->
             IF o \in at .. at + Len(Head(todo[t]).img) - 1
             THEN [by |-> claim[t], item |-> Head(todo[t]).img[o - at + 1].item,
                   at |-> Head(todo[t]).img[o - at + 1].at]
             ELSE rows[s].cells[o]]
<1>1. PICK at \in (IF Head(todo[t]).atZero THEN {0} ELSE {seen[t], rows[s].datalen}) :
        rows' = [rows EXCEPT ![s].cells = put(at)]
  BY DEF PutCells
<1>2. at = d
  BY <1>1
<1>3. \A o \in 0 .. RowLen - 1 :
        o \notin d .. d + Len(Head(todo[t]).img) - 1 => put(d)[o] = rows[s].cells[o]
  OBVIOUS
<1> HIDE DEF put
<1>4. rows'[s].datalen = d /\ rows'[s].cells = put(d)
  BY <1>1, <1>2 DEF RowType
<1> QED BY <1>3, <1>4

\* In a row that only its thread writes, a step leaves the message as it is, or
\* is the store of a new datalen, which adds the item that was put.
LEMMA OwnMessage ==
  ASSUME WholeInv, NEW t \in Thread, RowStep(t), NEW s \in Slots, s = MySlot(t), clean[s]
  PROVE  IF StoreLen(t)
         THEN /\ Settled(s) /\ rows[s].datalen <= RowLen
              /\ Message(s)' = Message(s) \o Head(todo[t]).img
              /\ rows[s].datalen + Len(Head(todo[t]).img) <= RowLen
         ELSE Message(s)' = Message(s)
<1> DEFINE d == rows[s].datalen
<1>0. /\ RowInv /\ TypeOK /\ TypeOK' /\ pc[t] # "idle" /\ clean' = clean
      /\ rows[s] \in RowType /\ rows'[s] \in RowType /\ d \in Nat
      /\ pc'[t] = "idle" \/ claim'[t] = claim[t]
  <2>1. RowInv /\ TypeOK /\ TypeOK'
    BY StepType DEF WholeInv, RowInv
  <2>2. rows[s] \in RowType /\ rows'[s] \in RowType
    BY <2>1 DEF TypeOK
  <2>3. d \in Nat
    BY <2>2 DEF RowType
  <2> QED BY <2>1, <2>2, <2>3, RowFrame
<1>2. Settled(s) <=> pc[t] \notin Filling
  BY <1>0, SettledAlone
<1>3. Settled(s)' <=> pc'[t] \notin Filling
  BY <1>0, OwnSettled
<1>4. CASE Stamp(t) \/ StoreId(t)
  <2>1. /\ pc[t] \in Filling /\ pc'[t] \in Filling /\ pc[t] # "store"
    BY <1>0, <1>4 DEF Stamp, StoreId, Goto, TypeOK, Filling
  <2>2. Message(s) = <<>> /\ Message(s)' = <<>>
    BY <1>0, <1>2, <1>3, <2>1 DEF Message
  <2> QED BY <2>1, <2>2 DEF StoreLen
<1>5. CASE ResetLen(t)
  <2>1. /\ pc[t] \in Filling /\ pc'[t] = "open" /\ pc[t] # "store"
        /\ rows'[s].datalen = 0
    BY <1>0, <1>5 DEF ResetLen, Goto, TypeOK, RowType, Filling
  <2>2. Message(s) = <<>>
    BY <1>0, <1>2, <2>1 DEF Message
  <2>3. Message(s)' = <<>>
    <3>1. Settled(s)'
      BY <1>3, <2>1 DEF Filling
    <3>2. Message(s)' = Content(rows'[s])
      BY <1>0, <3>1 DEF Message, Content
    <3>3. Content(rows'[s]) \in Seq(CellImage) /\ Len(Content(rows'[s])) = 0
      BY <1>0, <2>1, ContentFacts, LenAssumption
    <3> QED BY <3>2, <3>3, EmptySeq
  <2> QED BY <2>1, <2>2, <2>3 DEF StoreLen
<1>6. CASE CheckRoom(t) \/ NoRoom(t) \/ LoadLen(t) \/ Append1(t) \/ LetGo(t)
  <2>1. /\ pc[t] \notin Filling /\ pc'[t] \notin Filling /\ pc[t] # "store"
        /\ rows' = rows
    BY <1>0, <1>6 DEF CheckRoom, NoRoom, LoadLen, Append1, LetGo, Goto, TypeOK, Filling
  <2> QED BY <1>0, <1>2, <1>3, <2>1, SameMessage DEF StoreLen
<1>7. CASE SetTs(t)
  <2>1. /\ pc[t] \notin Filling /\ pc'[t] \notin Filling /\ pc[t] # "store"
        /\ rows'[s].cells = rows[s].cells /\ rows'[s].datalen = rows[s].datalen
    BY <1>0, <1>7 DEF SetTs, TypeOK, RowType, Filling
  <2> QED BY <1>0, <1>2, <1>3, <2>1 DEF StoreLen, Message
<1>8. CASE PutCells(t)
  <2> DEFINE n == Len(Head(todo[t]).img)
  <2>1. /\ pc[t] = "put" /\ pc'[t] = "load" /\ todo[t] # <<>> /\ ProgressOf(t)
    BY <1>0, <1>8, Alone DEF PutCells, Goto, TypeOK
  <2>2. n \in Nat /\ seen[t] = d /\ d + n <= RowLen /\ (Head(todo[t]).atZero => d = 0)
    BY <1>0, <2>1, TodoFacts DEF ProgressOf, Filling
  <2>3. /\ rows'[s].datalen = d
        /\ \A o \in 0 .. d - 1 : rows'[s].cells[o] = rows[s].cells[o]
    <3>1. \A o \in 0 .. d - 1 : o \in 0 .. RowLen - 1 /\ o \notin d .. d + n - 1
      <4>1. d \in Nat
        BY <1>0
      <4>2. n \in Nat /\ d + n <= RowLen
        BY <2>2
      <4> HIDE DEF d, n
      <4> QED BY <4>1, <4>2, LenAssumption, BeforePut
    <3>2. rows \in [Slots -> RowType]
      BY <1>0, RowsTyped
    <3>3. /\ rows'[s].datalen = d
          /\ \A o \in 0 .. RowLen - 1 :
               o \notin d .. d + n - 1 => rows'[s].cells[o] = rows[s].cells[o]
      BY <1>8, <2>2, <3>2, PutRows
    <3> HIDE DEF d, n
    <3> QED BY <3>1, <3>3
  <2>4. Settled(s) /\ Settled(s)' /\ d <= RowLen
    BY <1>0, <1>2, <1>3, <2>1, <2>2, LenAssumption DEF Filling
  <2> DEFINE m == Content(rows[s])  w == Content(rows'[s])
  <2>0. Message(s) = m /\ Message(s)' = w
    BY <1>0, <2>4 DEF Message, Content
  <2>5. /\ m \in Seq(CellImage) /\ Len(m) = d
        /\ \A o \in 1 .. d : m[o] =
             [item |-> rows[s].cells[o - 1].item, at |-> rows[s].cells[o - 1].at]
    BY <1>0, <2>4, ContentFacts
  <2>6. /\ w \in Seq(CellImage) /\ Len(w) = d
        /\ \A o \in 1 .. d : w[o] =
             [item |-> rows'[s].cells[o - 1].item, at |-> rows'[s].cells[o - 1].at]
    BY <1>0, <2>2, <2>3, <2>4, ContentFacts
  <2> HIDE DEF m, w
  <2>7. \A o \in 1 .. d : w[o] = m[o]
    <3> SUFFICES ASSUME NEW o \in 1 .. d PROVE w[o] = m[o]
      OBVIOUS
    <3>1. o - 1 \in 0 .. d - 1
      BY <1>0
    <3>2. rows'[s].cells[o - 1] = rows[s].cells[o - 1]
      BY <2>3, <3>1
    <3> QED BY <2>5, <2>6, <3>2
  <2>8. Message(s)' = Message(s)
    BY <2>0, <2>5, <2>6, <2>7, SeqEqual
  <2> QED BY <2>1, <2>8 DEF StoreLen
<1>9. CASE StoreLen(t)
  <2> DEFINE p == Head(todo[t])  n == Len(p.img)
  <2>1. /\ pc[t] = "store" /\ pc'[t] = "open" /\ todo[t] # <<>>
        /\ rows'[s].cells = rows[s].cells /\ rows'[s].datalen = seen[t] + n
    BY <1>0, <1>9 DEF StoreLen, Goto, TypeOK, RowType
  <2>2. ProgressOf(t) /\ HasPut(t)
    BY <1>0, <2>1, Alone DEF WholeInv
  <2>3. n \in Nat /\ seen[t] = d /\ d + n <= RowLen /\ d <= RowLen
    <3>1. n \in Nat
      BY <1>0, <2>1, TodoFacts
    <3>2. seen[t] = d /\ d + n <= RowLen
      BY <1>0, <2>1, <2>2 DEF ProgressOf
    <3> QED BY <1>0, <3>1, <3>2, LenAssumption
  <2>4. p.img \in Seq(CellImage) /\ \A k \in 1 .. n : p.img[k] \in CellImage
    BY <1>0, <2>1, TodoFacts, PushFacts, ZenonT(60)
  <2>5. \A o \in d .. d + n - 1 : rows[s].cells[o] =
          [by |-> claim[t], item |-> p.img[o - d + 1].item, at |-> p.img[o - d + 1].at]
    BY <2>2 DEF HasPut, Holding
  <2> HIDE DEF p, n
  <2>6. Settled(s) /\ Settled(s)'
    BY <1>2, <1>3, <2>1 DEF Filling
  <2> DEFINE m == Content(rows[s])  w == Content(rows'[s])
  <2>0. Message(s) = m /\ Message(s)' = w
    BY <1>0, <2>6 DEF Message, Content
  <2>7. /\ m \in Seq(CellImage) /\ Len(m) = d
        /\ \A o \in 1 .. d : m[o] =
             [item |-> rows[s].cells[o - 1].item, at |-> rows[s].cells[o - 1].at]
    BY <1>0, <2>3, ContentFacts
  <2>8. /\ w \in Seq(CellImage) /\ Len(w) = d + n
        /\ \A o \in 1 .. d + n : w[o] =
             [item |-> rows[s].cells[o - 1].item, at |-> rows[s].cells[o - 1].at]
    <3>1. rows'[s].datalen = d + n
      BY <2>1, <2>3
    <3>2. rows'[s].datalen <= RowLen
      BY <2>3, <3>1
    <3>3. /\ w \in Seq(CellImage) /\ Len(w) = rows'[s].datalen
          /\ \A o \in 1 .. rows'[s].datalen : w[o] =
               [item |-> rows'[s].cells[o - 1].item, at |-> rows'[s].cells[o - 1].at]
      BY <1>0, <3>2, ContentFacts
    <3> HIDE DEF w
    <3> QED BY <2>1, <3>1, <3>3
  <2> HIDE DEF m, w
  <2>9. \A k \in 1 .. n : w[d + k] = p.img[k]
    <3> SUFFICES ASSUME NEW k \in 1 .. n PROVE w[d + k] = p.img[k]
      OBVIOUS
    <3>1. d + k \in 1 .. d + n /\ (d + k) - 1 \in d .. d + n - 1 /\ (d + k) - 1 - d + 1 = k
      BY <1>0, <2>3
    <3>2. rows[s].cells[(d + k) - 1] =
            [by |-> claim[t], item |-> p.img[k].item, at |-> p.img[k].at]
      BY <2>5, <3>1
    <3>3. rows[s].cells[(d + k) - 1].item = p.img[k].item /\ rows[s].cells[(d + k) - 1].at = p.img[k].at
      BY <3>2
    <3>4. w[d + k] = [item |-> p.img[k].item, at |-> p.img[k].at]
      BY <2>8, <3>1, <3>3
    <3>5. p.img[k] \in CellImage
      BY <2>4
    <3> QED BY <3>4, <3>5 DEF CellImage
  <2>10. \A o \in 1 .. d : w[o] = m[o]
    <3> SUFFICES ASSUME NEW o \in 1 .. d PROVE w[o] = m[o]
      OBVIOUS
    <3>1. o \in 1 .. d + n
      BY <1>0, <2>3
    <3> QED BY <2>7, <2>8, <3>1
  <2>11. w = m \o p.img
    <3>1. Len(m) = d /\ Len(p.img) = n
      BY <2>7 DEF n
    <3>2. /\ \A o \in 1 .. Len(m) : w[o] = m[o]
          /\ \A k \in 1 .. Len(p.img) : w[Len(m) + k] = p.img[k]
          /\ Len(w) = Len(m) + Len(p.img)
      BY <2>8, <2>9, <2>10, <3>1, ZenonT(60)
    <3>3. m \in Seq(CellImage) /\ p.img \in Seq(CellImage) /\ w \in Seq(CellImage)
      BY <2>4, <2>7, <2>8
    <3> QED BY <3>2, <3>3, IsConcat, Zenon
  <2> QED BY <1>9, <2>0, <2>3, <2>6, <2>11 DEF p, n
<1> QED BY <1>4, <1>5, <1>6, <1>7, <1>8, <1>9 DEF RowStep

\* A step in a shared row leaves its message lost.
LEMMA SharedMessage ==
  ASSUME TypeOK, NEW t \in Thread, RowStep(t), NEW s \in Slots, ~clean[s]
  PROVE  Message(s)' = Message(s)
BY RowFrame DEF Message

-----------------------------------------------------------------------------
(* The steps of the abstract log.                                          *)

\* Only letting go of its row ends a thread's message.
LEMMA OpenAfter ==
  ASSUME RowInv, NEW t \in Thread, RowStep(t)
  PROVE  IF LetGo(t) THEN /\ claim[t] \in OpenClaims
                          /\ OpenClaims' = OpenClaims \ {claim[t]}
                     ELSE OpenClaims' = OpenClaims
<1>1. /\ TypeOK /\ pc[t] # "idle"
      /\ pc'[t] = "idle" \/ claim'[t] = claim[t]
      /\ \A u \in Thread \ {t} : pc'[u] = pc[u] /\ claim'[u] = claim[u]
  BY RowFrame DEF RowInv
<1>0. pc \in [Thread -> Labels] /\ TypeOK
  BY DEF RowInv, TypeOK
<1>2. CASE LetGo(t)
  <2>1. pc'[t] = "idle"
    BY <1>0, <1>2 DEF LetGo, Goto
  <2>2. \A u \in Thread : pc[u] # "idle" /\ claim[u] = claim[t] => u = t
    BY <1>1 DEF RowInv, OwnerOK
  <2>3. OpenClaims' = {claim[u] : u \in {v \in Thread : pc[v] # "idle" /\ v # t}}
    BY <1>1, <2>1 DEF OpenClaims
  <2>4. OpenClaims' = OpenClaims \ {claim[t]}
    BY <1>1, <2>2, <2>3 DEF OpenClaims
  <2>5. claim[t] \in OpenClaims
    BY <1>1 DEF OpenClaims
  <2> QED BY <1>2, <2>4, <2>5
<1>3. CASE ~LetGo(t)
  <2>1. pc'[t] # "idle"
    BY <1>0, <1>1, <1>3 DEF RowStep, Stamp, StoreId, ResetLen, CheckRoom, NoRoom, PutCells, LoadLen,
                      StoreLen, Append1, SetTs, Goto
  <2>2. claim'[t] = claim[t]
    BY <1>1, <2>1
  <2>3. \A u \in Thread : claim'[u] = claim[u] /\ (pc'[u] # "idle" <=> pc[u] # "idle")
    BY <1>1, <2>1, <2>2
  <2>4. OpenClaims' = OpenClaims
    BY <2>3 DEF OpenClaims
  <2> QED BY <1>3, <2>4
<1> QED BY <1>2, <1>3

\* Claiming a row is beginning a message: it takes the place of the slot's old
\* one, and is lost with it if that is still being written.
LEMMA ClaimBegins ==
  ASSUME RowInv, NEW t \in Thread, NEW q, InitRow(t, q)
  PROVE  Log!Begin
<1> PICK n : n = Slot(claims)
  OBVIOUS
<1>1. /\ n \in Slots /\ claims \in Nat /\ n = claims % NumRows
      /\ pc[t] = "idle" /\ pc' = [pc EXCEPT ![t] = "stamp"]
      /\ claims' = claims + 1 /\ claim' = [claim EXCEPT ![t] = claims]
      /\ clean' = [clean EXCEPT ![n] = \A u \in Thread : ~Holds(u, n)]
      /\ rows' = rows /\ TypeOK
  BY SlotFacts DEF RowInv, TypeOK, InitRow, Goto
<1>2. pc'[t] = "stamp" /\ claim'[t] = claims /\ MySlot(t)' = n
  BY <1>1 DEF TypeOK, MySlot
<1>3. \A u \in Thread \ {t} : pc'[u] = pc[u] /\ claim'[u] = claim[u]
  BY <1>1 DEF TypeOK
<1>4. OpenClaims' = OpenClaims \cup {claims}
  BY <1>1, <1>2, <1>3 DEF OpenClaims
<1>5. (\E c \in OpenClaims : c % NumRows = n) <=> \E u \in Thread : Holds(u, n)
  <2>1. \A u \in Thread : claim[u] \in Nat
    BY <1>1 DEF TypeOK
  <2>2. \A u \in Thread : MySlot(u) = claim[u] % NumRows
    BY <2>1, SlotFacts DEF MySlot
  <2> QED BY <2>2 DEF OpenClaims, Holds
<1>6. Message(n)' = IF \E c \in OpenClaims : c % NumRows = n THEN LostMessage ELSE <<>>
  <2>1. ~Settled(n)'
    BY <1>1, <1>2 DEF Settled, Holds, Filling
  <2>2. clean'[n] <=> ~ \E u \in Thread : Holds(u, n)
    BY <1>1 DEF TypeOK
  <2> QED BY <1>5, <2>1, <2>2 DEF Message
<1>7. \A s \in Slots \ {n} : Message(s)' = Message(s)
  <2> SUFFICES ASSUME NEW s \in Slots, s # n PROVE Message(s)' = Message(s)
    OBVIOUS
  <2>1. clean'[s] = clean[s]
    BY <1>1 DEF TypeOK
  <2>2. \A u \in Thread : Holds(u, s)' /\ pc'[u] \in Filling <=> Holds(u, s) /\ pc[u] \in Filling
    BY <1>1, <1>2, <1>3 DEF Holds, MySlot
  <2>3. Settled(s)' <=> Settled(s)
    BY <2>1, <2>2 DEF Settled
  <2> QED BY <1>1, <2>1, <2>3, SameMessage
<1>8. Kept' = [Kept EXCEPT ![n] =
                 IF \E c \in OpenClaims : c % NumRows = n THEN LostMessage ELSE <<>>]
  BY <1>1, <1>6, <1>7 DEF Kept
<1> QED BY <1>1, <1>4, <1>8 DEF Log!Begin, Log!Place, OpenClaims, Kept

\* A step of a row adds a part to its thread's message, ends it, or is no step
\* of the abstract log.
LEMMA StepImplements ==
  ASSUME WholeInv, NEW t \in Thread, RowStep(t)
  PROVE  Log!LogNext \/ UNCHANGED Log!lvars
<1> PICK s : s = MySlot(t)
  OBVIOUS
<1>1. /\ RowInv /\ TypeOK /\ claims' = claims /\ s \in Slots /\ pc[t] # "idle"
      /\ claim[t] \in Nat /\ s = claim[t] % NumRows
  BY RowFrame, SlotFacts DEF WholeInv, RowInv, TypeOK, MySlot
<1>2. \A r \in Slots \ {s} : Message(r)' = Message(r)
  BY <1>1, OtherMessages
<1>3. claim[t] \in OpenClaims
  BY <1>1 DEF OpenClaims
<1>4. CASE StoreLen(t) /\ clean[s]
  <2> DEFINE img == Head(todo[t]).img
  <2>1. /\ Settled(s) /\ rows[s].datalen <= RowLen
        /\ Message(s)' = Message(s) \o img
        /\ rows[s].datalen + Len(img) <= RowLen
    BY <1>1, <1>4, OwnMessage
  <2>2. img \in Images
    <3>1. todo[t] # <<>>
      BY <1>1, <1>4 DEF StoreLen, TypeOK
    <3> QED BY <1>1, <3>1, TodoFacts DEF Pushes
  <2>3. Message(s) # LostMessage /\ Len(Message(s)) = rows[s].datalen
    <3>1. rows[s] \in RowType
      BY <1>1, RowsTyped, ZenonT(60)
    <3>2. Message(s) = Content(rows[s])
      BY <2>1 DEF Message, Content, Settled
    <3> QED BY <2>1, <3>1, <3>2, ContentFacts, NeverLost
  <2>4. OpenClaims' = OpenClaims
    <3>1. ~LetGo(t)
      BY <1>4 DEF StoreLen, LetGo
    <3> QED BY <1>1, <3>1, OpenAfter
  <2> HIDE DEF img
  <2>5. Kept' = [Kept EXCEPT ![s] = @ \o img]
    BY <1>1, <1>2, <2>1 DEF Kept
  <2>6. Kept[s] = Message(s)
    BY <1>1 DEF Kept
  <2>7. Log!Add(claim[t], img)
    BY <1>1, <1>3, <2>1, <2>3, <2>4, <2>5, <2>6 DEF Log!Add, Log!Place, OpenClaims, Kept
  <2> QED BY <1>3, <2>2, <2>7 DEF Log!LogNext, OpenClaims
<1>5. CASE ~(StoreLen(t) /\ clean[s])
  <2>1. Message(s)' = Message(s)
    BY <1>1, <1>5, OwnMessage, SharedMessage
  <2>2. Kept' = Kept
    BY <1>2, <2>1 DEF Kept
  <2>3. CASE LetGo(t)
    <3>1. OpenClaims' = OpenClaims \ {claim[t]}
      BY <1>1, <2>3, OpenAfter
    <3>2. Log!End(claim[t])
      BY <1>1, <1>3, <2>2, <3>1 DEF Log!End, OpenClaims, Kept
    <3> QED BY <1>3, <3>2 DEF Log!LogNext, Log!End, OpenClaims
  <2>4. CASE ~LetGo(t)
    <3>1. OpenClaims' = OpenClaims
      BY <1>1, <2>4, OpenAfter
    <3> QED BY <1>1, <2>2, <3>1 DEF Log!lvars, OpenClaims, Kept
  <2> QED BY <2>3, <2>4
<1> QED BY <1>4, <1>5

\* Every step of the row buffer is a step of the abstract log, or none.
LEMMA NextImplements ==
  ASSUME WholeInv, [Next]_vars
  PROVE  [Log!LogNext]_(Log!lvars)
<1>1. CASE UNCHANGED vars
  <2>1. Kept' = Kept /\ OpenClaims' = OpenClaims /\ claims' = claims
    BY <1>1 DEF vars, Kept, OpenClaims, Message, Settled, Holds, MySlot
  <2> QED BY <2>1 DEF Log!lvars, Kept, OpenClaims
<1>2. ASSUME NEW t \in Thread, Step(t)
      PROVE  [Log!LogNext]_(Log!lvars)
  <2>1. CASE GetRow(t) \/ Write(t) \/ TimeEvent(t)
    BY <2>1, ClaimSteps, ClaimBegins DEF WholeInv, Log!LogNext
  <2>2. CASE RowStep(t)
    BY <2>2, StepImplements
  <2> QED BY <1>2, <2>1, <2>2 DEF Step, RowStep
<1> QED BY <1>1, <1>2 DEF Next

\* The empty row buffer is the empty log.
LEMMA InitImplements == Init => Log!LogInit
<1> SUFFICES ASSUME Init PROVE Log!LogInit
  OBVIOUS
<1>1. OpenClaims = {}
  BY DEF Init, OpenClaims
<1>2. \A s \in Slots : Message(s) = <<>>
  <2> SUFFICES ASSUME NEW s \in Slots PROVE Message(s) = <<>>
    OBVIOUS
  <2>1. TypeOK /\ rows[s] \in RowType /\ rows[s].datalen = 0
    <3>1. TypeOK
      BY InitType
    <3> QED BY <3>1 DEF Init, EmptyRow, TypeOK
  <2>2. Content(rows[s]) \in Seq(CellImage) /\ Len(Content(rows[s])) = 0
    BY <2>1, ContentFacts, LenAssumption
  <2>3. Content(rows[s]) = <<>>
    BY <2>2, EmptySeq
  <2>4. clean[s] /\ (Settled(s) => Message(s) = Content(rows[s])) /\ (~Settled(s) => Message(s) = <<>>)
    BY DEF Init, Message, Content
  <2> QED BY <2>3, <2>4
<1> QED BY <1>1, <1>2 DEF Log!LogInit, Init, OpenClaims, Slots

\* To whoever looks at finished pushes only, the threads' loads and stores are the
\* atomic steps of a circular log, which loses a message only when its slot is
\* taken again while it is being written.
THEOREM RowLogImplements == Spec => ImplementsCircularLog
<1>1. Init => WholeInv /\ Log!LogInit
  BY InitWhole, InitImplements
<1>2. WholeInv /\ [Next]_vars => WholeInv' /\ [Log!LogNext]_(Log!lvars)
  BY NextWhole, NextImplements
<1> QED BY <1>1, <1>2, PTL DEF Spec, ImplementsCircularLog, Log!LogSpec
=============================================================================
