--------------------------- MODULE CountersProofs ---------------------------
(***************************************************************************)
(* Proofs about Counters, for any number of processes, any configurations, *)
(* ids, amounts and labels.  The inductive invariant has seven parts: the  *)
(* types; what holds while the file had one configuration only (Alone);    *)
(* what a utility nobody crossed has found so far (Shape); the cells of a  *)
(* file in order, relative to what was added and labelled (InOrder); the   *)
(* calls in progress (CallsInOrder); what only grew since the utility      *)
(* began (Since); and what it printed (Output).                            *)
(***************************************************************************)
EXTENDS Counters, ModularArithmetic, FiniteSetTheorems, WellFoundedInduction, TLAPS

Half == Text \cup {Empty}
Cell == [int : Ints, used : BOOLEAN, text : Half \X Half]
Job  == [index : Nat, amount : Ints, text : Half]
Line == [at : Slots, text : Half \X Half, value : Ints]

\* What is where, and the bounds of the calls and of the loop.
FileTyped ==
  mem \in [size : {0} \cup {SizeOf(n) : n \in Configs}, arch : BOOLEAN,
           config : {NoConfig} \cup Configs, cell : [Cells -> Cell]]

ActorsTyped ==
  /\ pc \in [Actor -> {"off", "ready", "killed"} \cup Creating \cup Touching]
  /\ \A p \in Process : pc[p] \in {"off", "ready", "killed"} \cup Creating \cup Calling
  /\ pc[Util] \in {"off", "touch", "sections", "check", "print", "puse", "ptext1", "ptext2", "pvalue", "killed"}
  /\ layout \in [Actor -> {NoConfig} \cup Configs]
  /\ mapped \in [Actor -> Nat]

JobsTyped ==
  /\ job \in [Process -> Job]
  /\ \A p \in Process : /\ Alive(p) => layout[p] \in Configs
                        /\ pc[p] \in {"add", "text1", "text2", "used"} => job[p].index \in Slots
                        /\ pc[p] \in {"text1", "text2", "used"} => job[p].text \in Text

ReaderTyped ==
  /\ limit \in {0} \cup Powers /\ i \in 0 .. limit
  /\ pc[Util] \in {"ptext1", "ptext2", "pvalue"} => i < limit
  /\ line \in Half \X Half /\ lines \subseteq Line
  /\ \A l \in lines : l.at < i
  /\ pc[Util] \in {"off", "touch", "sections", "check", "print"} => i = 0 /\ lines = {}

HistoryTyped ==
  /\ given \in [Slots -> Int] /\ labels \in [Slots -> SUBSET Text] /\ named \in SUBSET Slots
  /\ inuse \in BOOLEAN /\ (~inuse => \A s \in Slots : given[s] = 0 /\ labels[s] = {})
  /\ configs \in SUBSET Configs /\ IsFiniteSet(configs) /\ muddled \in BOOLEAN /\ crossed \in BOOLEAN
  /\ blind \in BOOLEAN /\ sums \in [Slots -> SUBSET Int]
  /\ before \in [named : SUBSET Slots, cut : BOOLEAN]

Types == FileTyped /\ ActorsTyped /\ JobsTyped /\ ReaderTyped /\ HistoryTyped

\* A file that only ever had the configuration n, used with ids that are in range,
\* and in which no row was looked for by a cleared header.
Only(n) == configs \subseteq {n} /\ ~blind /\ \A id \in Id : id < n.counters

Alone(n) ==
  /\ mem.size = IF configs = {} THEN 0 ELSE SizeOf(n)
  /\ mem.config \in {NoConfig, n}
  /\ \A p \in Process : pc[p] \notin {"off", "truncate"} =>
       configs = {n} /\ layout[p] = n /\ mapped[p] = SizeOf(n)
  /\ \A p \in Process : pc[p] \in {"add", "text1", "text2", "used"} => job[p].index < n.counters
  /\ \A p \in Process : pc[p] = "store" => job[p].index < SizeOf(n)
  /\ pc[Util] # "off" => configs = {n} /\ mapped[Util] = SizeOf(n)
  /\ layout[Util] \in {NoConfig, n} /\ limit \in {0, n.counters}
  /\ \A a \in Actor : pc[a] # "killed"

OneConfig == \A n \in Configs : Only(n) => Alone(n)

\* The utility runs, no creation made a step since, and none had died half way.
Steady == pc[Util] # "off" /\ ~crossed /\ ~before.cut

Printing == {"puse", "ptext1", "ptext2", "pvalue"}

Shape ==
  Steady => /\ mapped[Util] = mem.size /\ mem.size >= SizeOf(mem.config)
            /\ pc[Util] \notin {"touch", "sections"} => layout[Util] = mem.config
            /\ pc[Util] \in Printing \cup {"print"} => mem.arch
            /\ pc[Util] \in Printing => limit = mem.config.counters
            /\ pc[Util] # "killed"

\* The counter k and its label show what was added and labelled.
InStep(k) ==
  LET c == mem.cell[CounterAt(k)]  t == mem.cell[LabelAt(mem.config, k)].text IN
  /\ c.int = Wrapped(given[k]) /\ c.text = NoText
  /\ labels[k] # {} => t[1] \in labels[k]
  /\ c.used => t[2] \in labels[k]
  /\ k \in named => c.used

InOrder ==
  /\ \A c \in Cells : c >= mem.size => mem.cell[c] = Zero
  /\ ~muddled =>
       /\ ~inuse => \A c \in Cells : mem.cell[c] = Zero
       /\ inuse /\ mem.config = NoConfig => ~mem.arch
       /\ \A k \in Slots : k < mem.config.counters => InStep(k)
       /\ \A k \in named : labels[k] # {} /\ (mem.config # NoConfig => k < mem.config.counters)

\* A cell of the rows or the variables.
Elsewhere(c, n) == /\ RowsAt(n) <= c /\ c < SizeOf(n)
                   /\ c < LabelAt(n, 0) \/ VarsAt(n) <= c

CallsInOrder ==
  ~muddled => \A p \in Process :
    /\ pc[p] \in {"add", "text1", "text2", "used"} => job[p].index < layout[p].counters
    /\ pc[p] = "store" => Elsewhere(job[p].index, layout[p])
    /\ pc[p] \in {"text2", "used"} => job[p].text \in labels[job[p].index]
    /\ pc[p] = "used" /\ mem.config = layout[p] =>
         mem.cell[LabelAt(layout[p], job[p].index)].text[2] \in labels[job[p].index]

\* A line shows a label, and a count since the run began.
Shown(l) ==
  /\ l.text[1] \in labels[l.at] /\ l.text[2] \in labels[l.at]
  /\ \E sum \in sums[l.at] : l.value = Wrapped(sum)

\* The sums that are now were noted, and what was named when the utility measured
\* the file still is.
Since ==
  pc[Util] # "off" /\ ~crossed => /\ \A s \in Slots : given[s] \in sums[s]
                                  /\ before.named \subseteq named

\* What the utility printed, and what it is printing.
Output ==
  Steady /\ ~muddled =>
    /\ pc[Util] \in {"ptext1", "ptext2", "pvalue"} => mem.cell[CounterAt(i)].used
    /\ pc[Util] \in {"ptext2", "pvalue"} => line[1] \in labels[i]
    /\ pc[Util] = "pvalue" => line[2] \in labels[i]
    /\ \A l \in lines : Shown(l)
    /\ \A k \in before.named : k < i => \E l \in lines : l.at = k

\* The steps of the calls that go by an index.
Indexed == {"add", "text1", "text2", "used"}

IInv == Types /\ OneConfig /\ Shape /\ InOrder /\ CallsInOrder /\ Since /\ Output
-----------------------------------------------------------------------------
(* The constants and the layout.                                           *)

USE DEF CounterAt

\* A configuration is rounded up to one of the powers.
LEMMA RoundedUp ==
  ASSUME NEW c \in UserConfig
  PROVE  /\ Rounded(c).counters \in Powers
         /\ Rounded(c).rows = c.rows /\ Rounded(c).vars = c.vars
         /\ Rounded(c) \in [counters : Int, rows : Nat, vars : Nat]
<1> DEFINE P == {p \in Powers : p >= c.counters}
<1>1. P # {} /\ \A p \in P : p \in Nat
  BY ConfigAssumption
<1>2. P \subseteq Nat
  BY <1>1
<1>3. PICK p \in P : \A q \in P : ~(<<q, p>> \in OpToRel(<, Nat))
  BY <1>1, <1>2, WFMin, NatLessThanWellFounded
<1>4. \A q \in P : p <= q
  <2> SUFFICES ASSUME NEW q \in P, q < p PROVE FALSE
    BY <1>1
  <2>1. <<q, p>> \in OpToRel(<, Nat)
    BY <1>1 DEF OpToRel
  <2> QED
    BY <1>3, <2>1
<1>5. Min(P) \in P
  BY <1>4 DEF Min
<1>6. c \in [counters : Nat, rows : Nat, vars : Nat]
  BY ConfigAssumption
<1>7. Rounded(c) = [c EXCEPT !.counters = Min(P)]
  BY <1>6 DEF Rounded
<1> HIDE DEF P
<1> QED
  BY <1>2, <1>5, <1>6, <1>7 DEF P

\* What a configuration is, and that the ids and the sections fit into the cells.
LEMMA ConfigTyped ==
  ASSUME NEW n \in Configs
  PROVE  /\ n \in [counters : Int, rows : Nat, vars : Nat]
         /\ n.counters \in Powers /\ n.counters \in Nat /\ n.counters > 0
         /\ n.counters <= MaxIndex + 1 /\ n.rows \in Nat /\ n.vars \in Nat
         /\ n # NoConfig
<1>1. PICK c \in UserConfig : n = Rounded(c)
  BY DEF Configs
<1>2. n \in [counters : Int, rows : Nat, vars : Nat] /\ n.counters \in Powers
  BY <1>1, RoundedUp
<1>3. n.counters \in Nat /\ n.counters > 0 /\ n.counters <= MaxIndex + 1
  BY <1>2, ConfigAssumption
<1> QED
  BY <1>2, <1>3 DEF NoConfig

LEMMA Bounds ==
  /\ MaxIndex \in Nat /\ MaxCell \in Nat /\ Slots = 0 .. MaxIndex /\ Cells = 0 .. MaxCell
  /\ Id \subseteq Slots /\ Slots \subseteq Nat /\ Cells \subseteq Nat
  /\ \A n \in Powers : n \in Nat /\ n > 0 /\ n <= MaxIndex + 1
  /\ Amount \subseteq Ints /\ 0 \in Ints /\ 1 \in Ints /\ Ints \subseteq Int
  /\ Empty \notin Text /\ Util \notin Process
  /\ MaxStarts \in Nat /\ MaxCalls \in Nat
BY ConfigAssumption, CellsAssumption, AmountAssumption, ProcessAssumption, BoundsAssumption
   DEF Slots, Cells, Ints

\* The cells of the counters, the rows, the labels and the variables.
LEMMA Places ==
  /\ SizeOf(NoConfig) = 1
  /\ \A n \in Configs : /\ SizeOf(n) \in Nat /\ SizeOf(n) > 0 /\ SizeOf(n) <= MaxCell + 1
                        /\ RowsAt(n) \in Nat /\ VarsAt(n) \in Nat /\ VarsAt(n) <= SizeOf(n)
                        /\ VarsAt(n) > RowsAt(n) /\ RowsAt(n) + n.rows = LabelAt(n, 0)
                        /\ LabelAt(n, 0) <= VarsAt(n) /\ LabelAt(n, 0) \in Nat
  /\ \A n \in Configs, k \in Slots :
       /\ LabelAt(n, k) \in Cells /\ LabelAt(n, k) \in Nat
       /\ LabelAt(n, k) >= LabelAt(n, 0)
       /\ k < n.counters => LabelAt(n, k) < VarsAt(n) /\ LabelAt(n, k) < SizeOf(n)
  /\ \A k \in Slots : CounterAt(k) \in Cells /\ CounterAt(k) \in Nat
  /\ \A n \in Configs, k \in Slots :
       k < n.counters => CounterAt(k) < SizeOf(n) /\ CounterAt(k) < RowsAt(n)
<1>1. SizeOf(NoConfig) = 1
  BY DEF SizeOf, VarsAt, NoConfig
<1>2. ASSUME NEW n \in Configs
      PROVE  /\ SizeOf(n) \in Nat /\ SizeOf(n) > 0 /\ SizeOf(n) <= MaxCell + 1
             /\ RowsAt(n) \in Nat /\ VarsAt(n) \in Nat /\ VarsAt(n) <= SizeOf(n)
             /\ VarsAt(n) > RowsAt(n) /\ RowsAt(n) + n.rows = LabelAt(n, 0)
             /\ LabelAt(n, 0) <= VarsAt(n) /\ LabelAt(n, 0) \in Nat
  BY ConfigTyped, CellsAssumption DEF SizeOf, VarsAt, RowsAt, LabelAt
<1>3. ASSUME NEW n \in Configs, NEW k \in Slots
      PROVE  /\ LabelAt(n, k) \in Cells /\ LabelAt(n, k) \in Nat 
             /\ LabelAt(n, k) >= LabelAt(n, 0)
             /\ k < n.counters => LabelAt(n, k) < VarsAt(n) /\ LabelAt(n, k) < SizeOf(n)
             /\ k < n.counters => CounterAt(k) < SizeOf(n) /\ CounterAt(k) < RowsAt(n)
  <2>1. k \in Nat /\ k <= MaxIndex /\ LabelAt(n, MaxIndex) <= MaxCell
    BY CellsAssumption, Bounds
  <2> QED
    BY <2>1, ConfigTyped, Bounds DEF SizeOf, VarsAt, RowsAt, LabelAt
<1>4. \A k \in Slots : CounterAt(k) \in Cells /\ CounterAt(k) \in Nat
  BY CellsAssumption, Bounds
<1> QED
  BY <1>1, <1>2, <1>3, <1>4

\* An int holds what was added to it, wrapped.
LEMMA WrappedTyped ==
  ASSUME NEW x \in Int
  PROVE  Wrapped(x) \in Ints
<1>1. 2 * HalfInt \in Nat \ {0} /\ x + HalfInt \in Int
  BY AmountAssumption
<1>2. (x + HalfInt) % (2 * HalfInt) \in 0 .. 2 * HalfInt - 1
  BY <1>1, DivMod
<1> QED
  BY <1>2, AmountAssumption DEF Wrapped, Ints

LEMMA WrappedZero == Wrapped(0) = 0
<1>1. 2 * HalfInt \in Nat \ {0} /\ HalfInt \in 0 .. 2 * HalfInt - 1
  BY AmountAssumption
<1>2. HalfInt % (2 * HalfInt) = HalfInt
  BY <1>1, SmallMod
<1> QED
  BY <1>2, AmountAssumption DEF Wrapped

LEMMA WrappedSum ==
  ASSUME NEW x \in Int, NEW a \in Int
  PROVE  Wrapped(Wrapped(x) + a) = Wrapped(x + a)
<1> DEFINE m == 2 * HalfInt
           y == x + HalfInt           r == y % m  q == y \div m
           z == Wrapped(x) + a + HalfInt   t == z % m  p == z \div m
           w == x + a + HalfInt       u == w % m  o == w \div m
<1>1. m \in Nat \ {0} /\ HalfInt \in Nat
  BY AmountAssumption
<1>2. y \in Int /\ w \in Int
  BY <1>1
<1>3. q \in Int /\ r \in 0 .. m - 1 /\ y = m * q + r
  BY <1>1, <1>2, DivMod
<1>4. Wrapped(x) = r - HalfInt /\ r \in Int
  BY <1>1, <1>3 DEF Wrapped
<1>5. z \in Int /\ z = r + a
  BY <1>1, <1>4
<1>6. p \in Int /\ t \in 0 .. m - 1 /\ z = m * p + t
  BY <1>1, <1>5, DivMod
<1>7. o \in Int /\ u \in 0 .. m - 1 /\ w = m * o + u
  BY <1>1, <1>2, DivMod
<1>8. w = y + a
  BY <1>1
<1>9. Wrapped(Wrapped(x) + a) = t - HalfInt /\ Wrapped(x + a) = u - HalfInt
  BY DEF Wrapped
<1> HIDE DEF m, y, r, q, z, t, p, w, u, o
<1>10. m * (q + p) + t = m * o + u
  <2>1. m * (q + p) = m * q + m * p
    BY <1>1, <1>3, <1>6
  <2> QED
    BY <1>1, <1>3, <1>5, <1>6, <1>7, <1>8, <2>1
<1>11. t = u
  <2>1. q + p \in Int
    BY <1>3, <1>6
  <2> QED
    BY <1>1, <1>6, <1>7, <1>10, <2>1, RemainderUnique
<1> QED
  BY <1>9, <1>11

\* The index is one of the slots, and below num_counters if there are any.
LEMMA IndexInRange ==
  ASSUME mem.config \in {NoConfig} \cup Configs, NEW id \in Id
  PROVE  Index(id) \in Slots /\ (mem.config # NoConfig => Index(id) < mem.config.counters)
<1>1. CASE mem.config = NoConfig
  BY <1>1, Bounds DEF Index
<1>2. CASE mem.config # NoConfig
  <2>1. PICK n : n = mem.config.counters
    OBVIOUS
  <2>2. n \in Nat /\ n > 0 /\ n <= MaxIndex + 1 /\ id \in Nat
    BY <1>2, <2>1, Bounds, ConfigTyped
  <2>3. id % n \in 0 .. (n - 1)
    BY <2>2
  <2> QED
    BY <1>2, <2>1, <2>2, <2>3, Bounds DEF Index
<1> QED
  BY <1>1, <1>2

-----------------------------------------------------------------------------
(* Type correctness.                                                       *)

LEMMA Initially == Init => IInv
<1> SUFFICES ASSUME Init PROVE IInv
  OBVIOUS
<1> USE Bounds DEF Init, Zero, NoText, NoJob, NoneBefore, Alive, Actor
<1>1. Types
  <2>1. FileTyped
    BY DEF FileTyped, Cell, Half
  <2>2. ActorsTyped
    BY DEF ActorsTyped
  <2>3. JobsTyped /\ ReaderTyped
    BY DEF JobsTyped, ReaderTyped, Half, Job
  <2>4. HistoryTyped
    BY FS_EmptySet DEF HistoryTyped, NoSums
  <2> QED
    BY <2>1, <2>2, <2>3, <2>4 DEF Types
<1>2. OneConfig
  BY DEF OneConfig, Alone, Calling
<1>3. Shape
  BY DEF Shape, Steady
<1>4. InOrder
  BY DEF InOrder, InStep, NoConfig
<1>5. CallsInOrder
  BY DEF CallsInOrder, Calling
<1>6. Since /\ Output
  BY DEF Since, Output, Steady
<1> QED
  BY <1>1, <1>2, <1>3, <1>4, <1>5, <1>6 DEF IInv

LEMMA SumTyped ==
  ASSUME NEW f \in [Cells -> Cell], NEW c \in Cells, NEW a \in Ints
  PROVE  [f EXCEPT ![c].int = Wrapped(@ + a)] \in [Cells -> Cell]
<1>1. f[c].int \in Int /\ a \in Int
  <2>1. f[c].int \in Ints
    BY DEF Cell
  <2>2. Ints \subseteq Int
    BY Bounds
  <2> QED
    BY <2>1, <2>2
<1>2. Wrapped(f[c].int + a) \in Ints
  BY <1>1, WrappedTyped
<1> QED
  BY <1>2 DEF Cell

LEMMA UsedTyped ==
  ASSUME NEW f \in [Cells -> Cell], NEW c \in Cells
  PROVE  [f EXCEPT ![c].used = TRUE] \in [Cells -> Cell]
BY DEF Cell

LEMMA Text1Typed ==
  ASSUME NEW f \in [Cells -> Cell], NEW c \in Cells, NEW x \in Half
  PROVE  [f EXCEPT ![c].text[1] = x] \in [Cells -> Cell]
BY DEF Cell

LEMMA Text2Typed ==
  ASSUME NEW f \in [Cells -> Cell], NEW c \in Cells, NEW x \in Half
  PROVE  [f EXCEPT ![c].text[2] = x] \in [Cells -> Cell]
BY DEF Cell

LEMMA ScrapTyped ==
  ASSUME NEW f \in [Cells -> Cell], NEW c \in Cells
  PROVE  [f EXCEPT ![c] = Scrap] \in [Cells -> Cell]
BY Bounds DEF Cell, Scrap, NoText, Half

LEMMA BlankTyped ==
  ASSUME FileTyped, NEW n \in Configs
  PROVE  Blank(SizeOf(n)) \in [Cells -> Cell]
BY Bounds DEF Blank, FileTyped, Cell, Zero, NoText, Half

LEMMA SumsTyped ==
  ASSUME NEW f \in [Slots -> Int], NEW k \in Slots, NEW a \in Int
  PROVE  [f EXCEPT ![k] = @ + a] \in [Slots -> Int]
OBVIOUS

\* What each call, and a creation's ftruncate, write to the file.
LEMMA AddWrites ==
  ASSUME Types, NEW p \in Process, Add(p)
  PROVE  /\ mem' = [mem EXCEPT !.cell = mem'.cell]
         /\ mem'.cell = [mem.cell EXCEPT ![CounterAt(job[p].index)].int = Wrapped(@ + job[p].amount)]
         /\ job[p].index \in Slots /\ job[p].amount \in Ints
         /\ layout[p] \in Configs
BY Bounds DEF Types, Add, Use, FileTyped, JobsTyped, Job, Alive

LEMMA PutText1Writes ==
  ASSUME Types, NEW p \in Process, PutText1(p)
  PROVE  /\ mem' = [mem EXCEPT !.cell = mem'.cell]
         /\ mem'.cell = [mem.cell EXCEPT ![LabelAt(layout[p], job[p].index)].text[1] = job[p].text]
         /\ job[p].index \in Slots /\ job[p].text \in Text /\ layout[p] \in Configs
BY Bounds DEF Types, PutText1, Use, FileTyped, JobsTyped, Job, Half, Alive

LEMMA PutText2Writes ==
  ASSUME Types, NEW p \in Process, PutText2(p)
  PROVE  /\ mem' = [mem EXCEPT !.cell = mem'.cell]
         /\ mem'.cell = [mem.cell EXCEPT ![LabelAt(layout[p], job[p].index)].text[2] = job[p].text]
         /\ job[p].index \in Slots /\ job[p].text \in Text /\ layout[p] \in Configs
BY Bounds DEF Types, PutText2, Use, FileTyped, JobsTyped, Job, Half, Alive

LEMMA StoreUsedWrites ==
  ASSUME Types, NEW p \in Process, StoreUsed(p)
  PROVE  /\ mem' = [mem EXCEPT !.cell = mem'.cell]
         /\ mem'.cell = [mem.cell EXCEPT ![CounterAt(job[p].index)].used = TRUE]
         /\ job[p].index \in Slots /\ layout[p] \in Configs
BY Bounds DEF Types, StoreUsed, Use, FileTyped, JobsTyped, Job, Half, Alive

LEMMA StoreWrites ==
  ASSUME Types, NEW p \in Process, Store(p)
  PROVE  /\ mem' = [mem EXCEPT !.cell = mem'.cell]
         /\ mem'.cell = [mem.cell EXCEPT ![job[p].index] = Scrap]
         /\ job[p].index \in Cells /\ job[p].index < mem.size /\ layout[p] \in Configs
<1>1. FileTyped /\ JobsTyped /\ pc[p] = "store" /\ Reach(p)
  BY DEF Types, Store, Use
<1>2. job[p].index \in Nat /\ layout[p] \in Configs /\ At(p) = job[p].index
  BY <1>1 DEF JobsTyped, Job, Alive, At
<1>3. mem.size \in Nat /\ mem.size <= MaxCell + 1
  BY <1>1, Places, Bounds DEF FileTyped
<1>4. job[p].index < mem.size
  BY <1>1, <1>2, <1>3 DEF Reach
<1> QED
  BY <1>1, <1>2, <1>3, <1>4, Bounds DEF Store, FileTyped

LEMMA TruncateWrites ==
  ASSUME Types, NEW p \in Process, Truncate(p)
  PROVE  /\ mem' = [mem EXCEPT !.cell = mem'.cell, !.size = mem'.size]
         /\ mem'.size = SizeOf(layout[p]) /\ mem'.cell = Blank(SizeOf(layout[p]))
         /\ mem'.config = mem.config /\ mem'.arch = mem.arch
         /\ layout[p] \in Configs
         /\ muddled' = (muddled \/ SizeOf(layout[p]) < SizeOf(mem.config))
BY DEF Types, Truncate, Create, FileTyped, JobsTyped, Alive

LEMMA FileStaysTyped ==
  ASSUME FileTyped, NEW f \in [Cells -> Cell],
         mem' = [mem EXCEPT !.cell = mem'.cell], mem'.cell = f
  PROVE  FileTyped'
BY DEF FileTyped

\* The file keeps its type, and the cells its calls write to exist.
LEMMA WritesTyped ==
  ASSUME Types, NEW p \in Process,
         Truncate(p) \/ Add(p) \/ PutText1(p) \/ PutText2(p) \/ StoreUsed(p) \/ Store(p)
  PROVE  FileTyped'
<1>0. FileTyped /\ mem.cell \in [Cells -> Cell]
  BY DEF Types, FileTyped
<1>1. \A k \in Slots : /\ CounterAt(k) \in Cells
                       /\ \A n \in Configs : LabelAt(n, k) \in Cells
  BY Places
<1>2. Text \subseteq Half
  BY DEF Half
<1>3. CASE Truncate(p)
  <2>1. Blank(SizeOf(layout[p])) \in [Cells -> Cell] /\ layout[p] \in Configs
    BY <1>0, <1>3, TruncateWrites, BlankTyped
  <2> QED
    BY <1>0, <1>3, <2>1, TruncateWrites DEF FileTyped
<1>4. CASE Add(p)
  <2>1. /\ CounterAt(job[p].index) \in Cells /\ job[p].amount \in Ints
        /\ mem' = [mem EXCEPT !.cell = mem'.cell]
        /\ mem'.cell = [mem.cell EXCEPT ![CounterAt(job[p].index)].int = Wrapped(@ + job[p].amount)]
    BY <1>1, <1>4, AddWrites
  <2>2. mem'.cell \in [Cells -> Cell]
    BY <1>0, <2>1, SumTyped
  <2> QED
    BY <1>0, <2>1, <2>2, FileStaysTyped
<1>5. CASE PutText1(p)
  <2>1. /\ LabelAt(layout[p], job[p].index) \in Cells /\ job[p].text \in Half
        /\ mem' = [mem EXCEPT !.cell = mem'.cell]
        /\ mem'.cell = [mem.cell EXCEPT ![LabelAt(layout[p], job[p].index)].text[1] = job[p].text]
    BY <1>1, <1>2, <1>5, PutText1Writes, SMTT(60)
  <2>2. mem'.cell \in [Cells -> Cell]
    BY <1>0, <2>1, Text1Typed
  <2> QED
    BY <1>0, <2>1, <2>2, FileStaysTyped
<1>6. CASE PutText2(p)
  <2>1. /\ LabelAt(layout[p], job[p].index) \in Cells /\ job[p].text \in Half
        /\ mem' = [mem EXCEPT !.cell = mem'.cell]
        /\ mem'.cell = [mem.cell EXCEPT ![LabelAt(layout[p], job[p].index)].text[2] = job[p].text]
    BY <1>1, <1>2, <1>6, PutText2Writes
  <2>2. mem'.cell \in [Cells -> Cell]
    BY <1>0, <2>1, Text2Typed
  <2> QED
    BY <1>0, <2>1, <2>2, FileStaysTyped
<1>7. CASE StoreUsed(p)
  <2>1. /\ CounterAt(job[p].index) \in Cells
        /\ mem' = [mem EXCEPT !.cell = mem'.cell]
        /\ mem'.cell = [mem.cell EXCEPT ![CounterAt(job[p].index)].used = TRUE]
    BY <1>1, <1>7, StoreUsedWrites
  <2>2. mem'.cell \in [Cells -> Cell]
    BY <1>0, <2>1, UsedTyped
  <2> QED
    BY <1>0, <2>1, <2>2, FileStaysTyped
<1>8. CASE Store(p)
  <2>1. /\ job[p].index \in Cells
        /\ mem' = [mem EXCEPT !.cell = mem'.cell]
        /\ mem'.cell = [mem.cell EXCEPT ![job[p].index] = Scrap]
    BY <1>8, StoreWrites
  <2>2. mem'.cell \in [Cells -> Cell]
    BY <1>0, <2>1, ScrapTyped
  <2> QED
    BY <1>0, <2>1, <2>2, FileStaysTyped
<1> QED
  BY <1>3, <1>4, <1>5, <1>6, <1>7, <1>8

\* What the utility reads of a label is text.
LEMMA LabelSeen ==
  ASSUME Types, pc[Util] \in {"ptext1", "ptext2"}, Reach(Util)
  PROVE  mem.cell[LabelAt(layout[Util], i)].text \in Half \X Half
<1>1. /\ FileTyped /\ i \in Nat /\ layout[Util] \in {NoConfig} \cup Configs
  BY Bounds DEF Types, ReaderTyped, ActorsTyped, Actor
<1>2. LabelAt(layout[Util], i) \in Nat
  BY <1>1, ConfigTyped DEF LabelAt, NoConfig
<1>3. mem.size \in Nat /\ mem.size <= MaxCell + 1
  BY <1>1, Places, Bounds DEF FileTyped
<1>4. LabelAt(layout[Util], i) < mem.size
  BY <1>2, <1>3 DEF Reach, At
<1>5. LabelAt(layout[Util], i) \in Cells
  BY <1>2, <1>3, <1>4, Bounds
<1> QED
  BY <1>1, <1>5 DEF FileTyped, Cell

\* What a creation does to the utility's notes.
LEMMA CreateTyped ==
  ASSUME HistoryTyped, crossed' = (pc[Util] # "off"),
         before' = IF crossed' THEN NoneBefore ELSE before,
         sums' = IF crossed' THEN NoSums ELSE sums
  PROVE  /\ crossed' \in BOOLEAN /\ sums' \in [Slots -> SUBSET Int]
         /\ before' \in [named : SUBSET Slots, cut : BOOLEAN]
BY DEF HistoryTyped, NoneBefore, NoSums

LEMMA TypesInductive == Types /\ [Next]_vars => Types'
<1> SUFFICES ASSUME Types, [Next]_vars PROVE Types'
  OBVIOUS
<1>T. Types
  OBVIOUS
<1>0. FileTyped /\ ActorsTyped /\ JobsTyped /\ ReaderTyped /\ HistoryTyped
  BY DEF Types
<1> USE <1>0, Bounds 
   DEF ActorsTyped, Alive, Actor, Creating, Touching, Calling, Goto, history, reader, noted, conduct
<1>a. ASSUME NEW p \in Process, Step(p) PROVE Types'
  <2> USE DEF Create, Call, Use
  <2>1. CASE Open(p)
    <3>1. FileTyped'
      BY <2>1 DEF Open, FileTyped
    <3>2. ActorsTyped'
      BY <2>1 DEF Open, ActorsTyped, Configs
    <3>3. JobsTyped'
      BY <2>1 DEF Open, JobsTyped, Configs
    <3>4. ReaderTyped'
      BY <2>1 DEF Open, ReaderTyped
    <3>5. HistoryTyped'
      <4>1. UNCHANGED <<given, labels, named, inuse, configs, blind>> /\ muddled' \in BOOLEAN
        BY <2>1 DEF Open, HistoryTyped
      <4> QED
        <5>1. /\ crossed' \in BOOLEAN /\ sums' \in [Slots -> SUBSET Int]
              /\ before' \in [named : SUBSET Slots, cut : BOOLEAN]
          BY <2>1, CreateTyped DEF Open
        <5> QED
          BY <4>1, <5>1 DEF HistoryTyped
    <3> QED
      BY <3>1, <3>2, <3>3, <3>4, <3>5 DEF Types
  <2>2. CASE Truncate(p)
    <3>1. FileTyped'
      BY <1>T, <2>2, WritesTyped
    <3>2. ActorsTyped'
      <4>1. layout[p] \in Configs
        BY <2>2 DEF Truncate, JobsTyped
      <4>2. mapped' = [mapped EXCEPT ![p] = SizeOf(layout[p])] /\ SizeOf(layout[p]) \in Nat
        BY <2>2, <4>1, Places DEF Truncate
      <4> QED
        BY <2>2, <4>2 DEF Truncate
    <3>3. JobsTyped'
      BY <2>2 DEF Truncate, JobsTyped
    <3>4. ReaderTyped'
      BY <2>2 DEF Truncate, ReaderTyped
    <3>5. HistoryTyped'
      <4>1. layout[p] \in Configs
        BY <2>2 DEF Truncate, JobsTyped
      <4> QED
        <5>1. IsFiniteSet(configs') /\ configs' \in SUBSET Configs
          BY <2>2, <4>1, FS_AddElement DEF Truncate, HistoryTyped
        <5>2. UNCHANGED <<given, labels, named, inuse, blind>> /\ muddled' \in BOOLEAN
          BY <2>2 DEF Truncate
        <5> QED
          BY <2>2, <5>1, <5>2, CreateTyped DEF Truncate, HistoryTyped
    <3> QED
      BY <3>1, <3>2, <3>3, <3>4, <3>5 DEF Types
  <2>3. CASE ClearHead(p)
    <3>1. FileTyped'
      BY <2>3 DEF ClearHead, FileTyped
    <3>2. ActorsTyped'
      BY <2>3 DEF ClearHead, ActorsTyped
    <3>3. JobsTyped'
      BY <2>3 DEF ClearHead, JobsTyped
    <3>4. ReaderTyped'
      BY <2>3 DEF ClearHead, ReaderTyped
    <3>5. HistoryTyped'
      <4>1. UNCHANGED <<given, labels, named, inuse, configs, blind>> /\ muddled' \in BOOLEAN
        BY <2>3 DEF ClearHead, HistoryTyped
      <4> QED
        BY <2>3, <4>1, CreateTyped DEF ClearHead, HistoryTyped
    <3> QED
      BY <3>1, <3>2, <3>3, <3>4, <3>5 DEF Types
  <2>4. CASE ClearBody(p)
    <3>1. FileTyped'
      BY <2>4 DEF ClearBody, FileTyped, Zero, NoText, Cell, Half
    <3>2. ActorsTyped'
      BY <2>4 DEF ClearBody, ActorsTyped
    <3>3. JobsTyped'
      BY <2>4 DEF ClearBody, JobsTyped
    <3>4. ReaderTyped'
      BY <2>4 DEF ClearBody, ReaderTyped
    <3>5. HistoryTyped'
      <4>1. /\ given' = [s \in Slots |-> 0] /\ labels' = [s \in Slots |-> {}] /\ named' = {}
            /\ inuse' = FALSE /\ muddled' \in BOOLEAN /\ UNCHANGED <<configs, blind>>
        BY <2>4 DEF ClearBody
      <4> QED
        <5>1. /\ crossed' \in BOOLEAN /\ sums' \in [Slots -> SUBSET Int]
              /\ before' \in [named : SUBSET Slots, cut : BOOLEAN]
          BY <2>4, CreateTyped DEF ClearBody
        <5> QED
          BY <4>1, <5>1 DEF HistoryTyped
    <3> QED
      BY <3>1, <3>2, <3>3, <3>4, <3>5 DEF Types
  <2>5. CASE FillArch(p)
    <3>1. FileTyped'
      BY <2>5 DEF FillArch, FileTyped
    <3>2. ActorsTyped'
      BY <2>5 DEF FillArch, ActorsTyped
    <3>3. JobsTyped'
      BY <2>5 DEF FillArch, JobsTyped
    <3>4. ReaderTyped'
      BY <2>5 DEF FillArch, ReaderTyped
    <3>5. HistoryTyped'
      <4>1. UNCHANGED <<given, labels, named, inuse, configs, blind>> /\ muddled' \in BOOLEAN
        BY <2>5 DEF FillArch, HistoryTyped
      <4> QED
        BY <2>5, <4>1, CreateTyped DEF FillArch, HistoryTyped
    <3> QED
      BY <3>1, <3>2, <3>3, <3>4, <3>5 DEF Types
  <2>6. CASE FillConfig(p)
    <3>1. FileTyped'
      BY <2>6 DEF FillConfig, FileTyped
    <3>2. ActorsTyped'
      BY <2>6 DEF FillConfig, ActorsTyped
    <3>3. JobsTyped'
      BY <2>6 DEF FillConfig, JobsTyped
    <3>4. ReaderTyped'
      BY <2>6 DEF FillConfig, ReaderTyped
    <3>5. HistoryTyped'
      <4>1. UNCHANGED <<given, labels, named, inuse, configs, blind>> /\ muddled' \in BOOLEAN
        BY <2>6 DEF FillConfig, HistoryTyped
      <4> QED
        BY <2>6, <4>1, CreateTyped DEF FillConfig, HistoryTyped
    <3> QED
      BY <3>1, <3>2, <3>3, <3>4, <3>5 DEF Types
  <2>7. CASE CallAdd(p)
    <3>1. FileTyped'
      BY <2>7 DEF CallAdd, FileTyped
    <3>2. ActorsTyped'
      BY <2>7 DEF CallAdd, ActorsTyped
    <3>3. JobsTyped'
      BY <2>7, IndexInRange DEF CallAdd, JobsTyped, FileTyped, Job, Half
    <3>4. ReaderTyped'
      BY <2>7 DEF CallAdd, ReaderTyped
    <3>5. HistoryTyped'
      <4>1. /\ UNCHANGED <<given, labels, named, inuse, sums, before, configs, crossed>>
            /\ muddled' = (muddled \/ mem.config # layout[p])
            /\ blind' = blind \/ blind' = (blind \/ mem.config = NoConfig)
        BY <2>7 DEF CallAdd
      <4> QED
        BY <4>1 DEF HistoryTyped
    <3> QED
      BY <3>1, <3>2, <3>3, <3>4, <3>5 DEF Types
  <2>8. CASE CallLabel(p)
    <3>1. FileTyped'
      BY <2>8 DEF CallLabel, FileTyped
    <3>2. ActorsTyped'
      BY <2>8 DEF CallLabel, ActorsTyped
    <3>3. JobsTyped'
      BY <2>8, IndexInRange DEF CallLabel, JobsTyped, FileTyped, Job, Half
    <3>4. ReaderTyped'
      BY <2>8 DEF CallLabel, ReaderTyped
    <3>5. HistoryTyped'
      <4>1. /\ UNCHANGED <<given, labels, named, inuse, sums, before, configs, crossed>>
            /\ muddled' = (muddled \/ mem.config # layout[p])
            /\ blind' = blind \/ blind' = (blind \/ mem.config = NoConfig)
        BY <2>8 DEF CallLabel
      <4> QED
        BY <4>1 DEF HistoryTyped
    <3> QED
      BY <3>1, <3>2, <3>3, <3>4, <3>5 DEF Types
  <2>9. CASE Add(p)
    <3>1. FileTyped'
      BY <1>T, <2>9, WritesTyped
    <3>2. ActorsTyped'
      BY <2>9 DEF Add, ActorsTyped
    <3>3. JobsTyped'
      <4>1. Use(p, "add", "ready")
        BY <2>9 DEF Add
      <4> QED
        BY <4>1 DEF JobsTyped, NoJob, Job, Half
    <3>4. ReaderTyped'
      BY <2>9 DEF Add, ReaderTyped
    <3>5. HistoryTyped'
      <4>1. job[p].index \in Slots /\ job[p].amount \in Int
        BY <1>T, <2>9, AddWrites
      <4>2. /\ given' = [given EXCEPT ![job[p].index] = @ + job[p].amount]
            /\ sums' = [sums EXCEPT ![job[p].index] =
                 IF @ = {} THEN {} ELSE @ \cup {given'[job[p].index]}]
            /\ inuse' = TRUE
            /\ UNCHANGED <<labels, named, before, configs, blind, crossed>>
            /\ muddled' = (muddled \/ mem.config # layout[p])
        BY <2>9 DEF Add, conduct
      <4>3. given' \in [Slots -> Int]
        BY <4>1, <4>2, SumsTyped DEF HistoryTyped
      <4>4. sums' \in [Slots -> SUBSET Int]
        BY <4>1, <4>2, <4>3 DEF HistoryTyped
      <4> QED
        BY <4>2, <4>3, <4>4 DEF HistoryTyped
    <3> QED
      BY <3>1, <3>2, <3>3, <3>4, <3>5 DEF Types
  <2>10. CASE PutText1(p)
    <3>1. FileTyped'
      BY <1>T, <2>10, WritesTyped
    <3>2. ActorsTyped'
      BY <2>10 DEF PutText1, ActorsTyped
    <3>3. JobsTyped'
      BY <2>10 DEF PutText1, JobsTyped, NoJob, Job, Half
    <3>4. ReaderTyped'
      BY <2>10 DEF PutText1, ReaderTyped
    <3>5. HistoryTyped'
      <4>1. job[p].index \in Slots /\ job[p].text \in Text
        BY <1>T, <2>10, PutText1Writes
      <4>2. labels' \in [Slots -> SUBSET Text]
        BY <2>10, <4>1 DEF PutText1, HistoryTyped
      <4> QED
        BY <2>10, <4>2 DEF PutText1, HistoryTyped
    <3> QED
      BY <3>1, <3>2, <3>3, <3>4, <3>5 DEF Types
  <2>11. CASE PutText2(p)
    <3>1. FileTyped'
      BY <1>T, <2>11, WritesTyped
    <3>2. ActorsTyped'
      BY <2>11 DEF PutText2, ActorsTyped
    <3>3. JobsTyped'
      BY <2>11 DEF PutText2, JobsTyped, NoJob, Job, Half
    <3>4. ReaderTyped'
      BY <2>11 DEF PutText2, ReaderTyped
    <3>5. HistoryTyped'
      BY <2>11 DEF PutText2, HistoryTyped
    <3> QED
      BY <3>1, <3>2, <3>3, <3>4, <3>5 DEF Types
  <2>12. CASE StoreUsed(p)
    <3>1. FileTyped'
      BY <1>T, <2>12, WritesTyped
    <3>2. ActorsTyped'
      BY <2>12 DEF StoreUsed, ActorsTyped
    <3>3. JobsTyped'
      <4>1. Use(p, "used", "ready")
        BY <2>12 DEF StoreUsed
      <4> QED
        BY <4>1 DEF JobsTyped, NoJob, Job, Half
    <3>4. ReaderTyped'
      BY <2>12 DEF StoreUsed, ReaderTyped
    <3>5. HistoryTyped'
      <4>1. job[p].index \in Slots
        BY <1>T, <2>12, StoreUsedWrites
      <4> QED
        BY <2>12, <4>1, ZenonT(60) DEF StoreUsed, HistoryTyped
    <3> QED
      BY <3>1, <3>2, <3>3, <3>4, <3>5 DEF Types
  <2>13. CASE Kill(p)
    <3>1. FileTyped'
      BY <2>13 DEF Kill, FileTyped
    <3>2. ActorsTyped'
      BY <2>13 DEF Kill, ActorsTyped
    <3>3. JobsTyped'
      BY <2>13 DEF Kill, JobsTyped, NoJob, Job, Half
    <3>4. ReaderTyped'
      BY <2>13 DEF Kill, ReaderTyped
    <3>5. HistoryTyped'
      BY <2>13 DEF Kill, HistoryTyped
    <3> QED
      BY <3>1, <3>2, <3>3, <3>4, <3>5 DEF Types
  <2>14. CASE CallLog(p)
    <3>1. FileTyped'
      BY <2>14 DEF CallLog, FileTyped
    <3>2. ActorsTyped'
      BY <2>14 DEF CallLog, ActorsTyped
    <3>3. JobsTyped'
      BY <2>14 DEF CallLog, JobsTyped, FileTyped, Job, Half
    <3>4. ReaderTyped'
      BY <2>14 DEF CallLog, ReaderTyped
    <3>5. HistoryTyped'
      <4>1. /\ UNCHANGED <<given, labels, named, inuse, sums, before, configs, crossed>>
            /\ muddled' = (muddled \/ mem.config # layout[p])
            /\ blind' = blind \/ blind' = (blind \/ mem.config = NoConfig)
        BY <2>14 DEF CallLog
      <4> QED
        BY <4>1 DEF HistoryTyped
    <3> QED
      BY <3>1, <3>2, <3>3, <3>4, <3>5 DEF Types
  <2>15. CASE Store(p)
    <3>1. FileTyped'
      BY <1>T, <2>15, WritesTyped
    <3>2. ActorsTyped'
      BY <2>15 DEF Store, ActorsTyped
    <3>3. JobsTyped'
      <4>1. Use(p, "store", "ready")
        BY <2>15 DEF Store
      <4> QED
        BY <4>1 DEF JobsTyped, NoJob, Job, Half
    <3>4. ReaderTyped'
      BY <2>15 DEF Store, ReaderTyped
    <3>5. HistoryTyped'
      BY <2>15 DEF Store, HistoryTyped
    <3> QED
      BY <3>1, <3>2, <3>3, <3>4, <3>5 DEF Types
  <2> QED
    BY <1>a, <2>1, <2>2, <2>3, <2>4, <2>5, <2>6, <2>7, <2>8, <2>9, <2>10, <2>11, <2>12, <2>13,
       <2>14, <2>15 DEF Step
<1>b. CASE Run
  <2> USE DEF Utility, NoReader, NoneBefore
  <2>1. CASE Measure
    <3>1. FileTyped'
      BY <2>1 DEF Measure, FileTyped
    <3>2. ActorsTyped'
      BY <2>1, Places DEF Measure, ActorsTyped, FileTyped
    <3>3. JobsTyped'
      BY <2>1 DEF Measure, JobsTyped
    <3>4. ReaderTyped'
      BY <2>1 DEF Measure, ReaderTyped
    <3>5. HistoryTyped'
      BY <2>1 DEF Measure, HistoryTyped, CutShort
    <3> QED
      BY <3>1, <3>2, <3>3, <3>4, <3>5 DEF Types
  <2>2. CASE TouchAll
    <3>1. FileTyped'
      BY <2>2 DEF TouchAll, FileTyped
    <3>2. ActorsTyped'
      BY <2>2 DEF TouchAll, ActorsTyped
    <3>3. JobsTyped'
      BY <2>2 DEF TouchAll, JobsTyped
    <3>4. ReaderTyped'
      BY <2>2 DEF TouchAll, ReaderTyped
    <3>5. HistoryTyped'
      BY <2>2 DEF TouchAll, HistoryTyped
    <3> QED
      BY <3>1, <3>2, <3>3, <3>4, <3>5 DEF Types
  <2>3. CASE SectionPointers
    <3>1. FileTyped'
      BY <2>3 DEF SectionPointers, FileTyped
    <3>2. ActorsTyped'
      BY <2>3 DEF SectionPointers, ActorsTyped, FileTyped
    <3>3. JobsTyped'
      BY <2>3 DEF SectionPointers, JobsTyped
    <3>4. ReaderTyped'
      BY <2>3 DEF SectionPointers, ReaderTyped
    <3>5. HistoryTyped'
      BY <2>3 DEF SectionPointers, HistoryTyped
    <3> QED
      BY <3>1, <3>2, <3>3, <3>4, <3>5 DEF Types
  <2>4. CASE CheckArch
    <3>1. FileTyped'
      BY <2>4 DEF CheckArch, FileTyped
    <3>2. ActorsTyped'
      BY <2>4 DEF CheckArch, ActorsTyped
    <3>3. JobsTyped'
      BY <2>4 DEF CheckArch, JobsTyped
    <3>4. ReaderTyped'
      BY <2>4 DEF CheckArch, ReaderTyped
    <3>5. HistoryTyped'
      BY <2>4 DEF CheckArch, HistoryTyped
    <3> QED
      BY <3>1, <3>2, <3>3, <3>4, <3>5 DEF Types
  <2>5. CASE CheckFails
    <3>1. FileTyped'
      BY <2>5 DEF CheckFails, FileTyped
    <3>2. ActorsTyped'
      BY <2>5 DEF CheckFails, ActorsTyped
    <3>3. JobsTyped'
      BY <2>5 DEF CheckFails, JobsTyped
    <3>4. ReaderTyped'
      BY <2>5 DEF CheckFails, ReaderTyped
    <3>5. HistoryTyped'
      BY <2>5 DEF CheckFails, HistoryTyped, NoSums
    <3> QED
      BY <3>1, <3>2, <3>3, <3>4, <3>5 DEF Types
  <2>6. CASE BeginCounters
    <3>1. FileTyped'
      BY <2>6 DEF BeginCounters, FileTyped
    <3>2. ActorsTyped'
      BY <2>6 DEF BeginCounters, ActorsTyped
    <3>3. JobsTyped'
      BY <2>6 DEF BeginCounters, JobsTyped
    <3>4. ReaderTyped'
      <4>1. mem.config.counters \in {0} \cup Powers
        BY ConfigTyped DEF FileTyped, NoConfig
      <4> QED
        BY <2>6, <4>1 DEF BeginCounters, ReaderTyped
    <3>5. HistoryTyped'
      BY <2>6 DEF BeginCounters, HistoryTyped
    <3> QED
      BY <3>1, <3>2, <3>3, <3>4, <3>5 DEF Types
  <2>7. CASE PrintUsed
    <3>1. FileTyped'
      BY <2>7 DEF PrintUsed, FileTyped
    <3>2. ActorsTyped'
      BY <2>7 DEF PrintUsed, ActorsTyped
    <3>3. JobsTyped'
      BY <2>7 DEF PrintUsed, JobsTyped
    <3>4. ReaderTyped'
      <4>1. limit' = limit /\ line' = line /\ lines' = lines /\ i < limit
        BY <2>7 DEF PrintUsed
      <4>2. CASE pc'[Util] = "ptext1" /\ i' = i
        BY <4>1, <4>2 DEF ReaderTyped
      <4>3. CASE pc'[Util] = "puse" /\ i' = i + 1
        <5>1. \A l \in lines : l.at \in Nat /\ l.at < i
          BY DEF ReaderTyped, Line
        <5>2. i \in Nat /\ limit \in Nat
          BY DEF ReaderTyped
        <5>3. \A l \in lines' : l.at < i'
          BY <4>1, <4>3, <5>1, <5>2
        <5> QED
          BY <4>1, <4>3, <5>2, <5>3 DEF ReaderTyped
      <4> QED
        BY <2>7, <4>2, <4>3 DEF PrintUsed
    <3>5. HistoryTyped'
      BY <2>7 DEF PrintUsed, HistoryTyped
    <3> QED
      BY <3>1, <3>2, <3>3, <3>4, <3>5 DEF Types
  <2>8. CASE PrintLabel1
    <3>1. FileTyped'
      BY <2>8 DEF PrintLabel1, FileTyped
    <3>2. ActorsTyped'
      BY <2>8 DEF PrintLabel1, ActorsTyped
    <3>3. JobsTyped'
      BY <2>8 DEF PrintLabel1, JobsTyped
    <3>4. ReaderTyped'
      <4>1. mem.cell[LabelAt(layout[Util], i)].text[1] \in Half
        BY <1>T, <2>8, LabelSeen DEF PrintLabel1, Utility
      <4> QED
        BY <2>8, <4>1 DEF PrintLabel1, ReaderTyped
    <3>5. HistoryTyped'
      BY <2>8 DEF PrintLabel1, HistoryTyped
    <3> QED
      BY <3>1, <3>2, <3>3, <3>4, <3>5 DEF Types
  <2>9. CASE PrintValue
    <3>1. FileTyped'
      BY <2>9 DEF PrintValue, FileTyped
    <3>2. ActorsTyped'
      BY <2>9 DEF PrintValue, ActorsTyped
    <3>3. JobsTyped'
      BY <2>9 DEF PrintValue, JobsTyped
    <3>4. ReaderTyped'
      <4>1. i \in Slots /\ CounterAt(i) \in Cells
        <5>1. i \in Slots
          BY <2>9 DEF PrintValue, ReaderTyped
        <5> QED
          BY <5>1, Places
      <4>2. mem.cell[CounterAt(i)].int \in Ints
        BY <4>1 DEF FileTyped, Cell
      <4>3. [at |-> i, text |-> line, value |-> mem.cell[CounterAt(i)].int] \in Line
        BY <4>1, <4>2 DEF ReaderTyped, Line
      <4>4. lines' \subseteq Line /\ line' \in Half \X Half
        BY <2>9, <4>3 DEF PrintValue, ReaderTyped, NoText, Half
      <4>5. limit' = limit /\ i' = i + 1 /\ i < limit /\ pc'[Util] = "puse"
        BY <2>9 DEF PrintValue, ReaderTyped
      <4>6. \A l \in lines' : l.at < i'
        <5>1. \A l \in lines : l.at \in Nat /\ l.at < i
          BY DEF ReaderTyped, Line
        <5>2. \A l \in lines' : l \in lines \/ l.at = i
          BY <2>9 DEF PrintValue
        <5> QED
          BY <4>1, <4>5, <5>1, <5>2
      <4> QED
        BY <4>4, <4>5, <4>6 DEF ReaderTyped
    <3>5. HistoryTyped'
      BY <2>9 DEF PrintValue, HistoryTyped
    <3> QED
      BY <3>1, <3>2, <3>3, <3>4, <3>5 DEF Types
  <2>10. CASE EndCounters
    <3>1. FileTyped'
      BY <2>10 DEF EndCounters, FileTyped
    <3>2. ActorsTyped'
      BY <2>10 DEF EndCounters, ActorsTyped
    <3>3. JobsTyped'
      BY <2>10 DEF EndCounters, JobsTyped
    <3>4. ReaderTyped'
      BY <2>10 DEF EndCounters, ReaderTyped
    <3>5. HistoryTyped'
      BY <2>10 DEF EndCounters, HistoryTyped, NoSums
    <3> QED
      BY <3>1, <3>2, <3>3, <3>4, <3>5 DEF Types
  <2>11. CASE PrintLabel2
    <3>1. FileTyped'
      BY <2>11 DEF PrintLabel2, FileTyped
    <3>2. ActorsTyped'
      BY <2>11 DEF PrintLabel2, ActorsTyped
    <3>3. JobsTyped'
      BY <2>11 DEF PrintLabel2, JobsTyped
    <3>4. ReaderTyped'
      <4>1. mem.cell[LabelAt(layout[Util], i)].text[2] \in Half
        BY <1>T, <2>11, LabelSeen DEF PrintLabel2, Utility
      <4> QED
        BY <2>11, <4>1 DEF PrintLabel2, ReaderTyped
    <3>5. HistoryTyped'
      BY <2>11 DEF PrintLabel2, HistoryTyped
    <3> QED
      BY <3>1, <3>2, <3>3, <3>4, <3>5 DEF Types
  <2> QED
    BY <1>b, <2>1, <2>2, <2>3, <2>4, <2>5, <2>6, <2>7, <2>8, <2>9, <2>10, <2>11 DEF Run
<1>c. ASSUME NEW a \in Actor, Fault(a) PROVE Types'
  <2>1. /\ UNCHANGED <<mem, layout, mapped, job, limit, i, line, lines, given, labels, named>>
        /\ UNCHANGED <<inuse, sums, configs, blind, muddled, crossed, before>>
        /\ pc' = [pc EXCEPT ![a] = "killed"]
    BY <1>c DEF Fault
  <2>2. FileTyped' /\ HistoryTyped'
    BY <2>1 DEF FileTyped, HistoryTyped
  <2>3. ActorsTyped'
    BY <2>1
  <2>4. JobsTyped'
    BY <2>1 DEF JobsTyped
  <2>5. ReaderTyped'
    BY <2>1 DEF ReaderTyped
  <2> QED
    BY <2>2, <2>3, <2>4, <2>5 DEF Types
<1>d. CASE UNCHANGED vars
  BY <1>d DEF vars, FileTyped, JobsTyped, ReaderTyped, HistoryTyped, Types
<1> QED
  BY <1>a, <1>b, <1>c, <1>d DEF Next
-----------------------------------------------------------------------------
(* One configuration: nobody is killed.                                    *)

LEMMA OneConfigInductive == Types /\ OneConfig /\ [Next]_vars => OneConfig'
<1> SUFFICES ASSUME Types, OneConfig, [Next]_vars, NEW n \in Configs, Only(n)' PROVE Alone(n)'
  BY DEF OneConfig
<1>1. FileTyped /\ ActorsTyped /\ JobsTyped /\ ReaderTyped /\ HistoryTyped
  BY DEF Types
<1>2. /\ n \in [counters : Int, rows : Nat, vars : Nat] /\ n # NoConfig
      /\ n.counters \in Nat /\ n.counters > 0 /\ SizeOf(n) \in Nat /\ SizeOf(n) > 0
      /\ Util \notin Process
  BY Bounds, ConfigTyped, Places
<1>3. configs \subseteq configs' /\ (blind => blind')
  <2>1. ASSUME NEW p \in Process, Step(p) PROVE configs \subseteq configs' /\ (blind => blind')
    <3>1. configs \subseteq configs'
      BY <2>1 DEF Step, Open, Truncate, ClearHead, ClearBody, FillArch, FillConfig,
         CallAdd, CallLabel, CallLog, Call, Add, PutText1, PutText2, StoreUsed, Store, Use, Kill, conduct
    <3>2. blind => blind'
      BY <2>1 DEF Step, Open, Truncate, ClearHead, ClearBody, FillArch, FillConfig,
         CallAdd, CallLabel, CallLog, Add, PutText1, PutText2, StoreUsed, Store, Use, Kill, conduct
    <3> QED
      BY <3>1, <3>2
  <2>2. UNCHANGED conduct => configs \subseteq configs' /\ (blind => blind')
    BY DEF conduct
  <2>3. CASE Run
    BY <2>2, <2>3 DEF Run, Measure, TouchAll, SectionPointers, CheckArch, CheckFails, BeginCounters,
       PrintUsed, PrintLabel1, PrintLabel2, PrintValue, EndCounters, Utility
  <2>4. ASSUME NEW a \in Actor, Fault(a) PROVE UNCHANGED conduct
    BY <2>4 DEF Fault
  <2> QED
    BY <2>1, <2>2, <2>3, <2>4 DEF Next, vars
<1>4. Only(n) /\ Alone(n)
  BY <1>3 DEF Only, OneConfig
<1> USE <1>2, <1>4 
   DEF Alone, Actor, ActorsTyped, Creating, Touching, Calling, Goto, history, reader, conduct
<1>a. ASSUME NEW p \in Process, Step(p) PROVE Alone(n)'
  <2>0. ActorsTyped
    BY <1>1
  <2> USE <1>a, <2>0 DEF Create, Call, Use, Alive
  <2>1. CASE Open(p)
    BY <2>1 DEF Open
  <2>2. CASE Truncate(p)
    <3>1. layout[p] = n /\ configs' = {n}
      BY <2>2 DEF Truncate, Only
    <3> QED
      BY <2>2, <3>1 DEF Truncate
  <2>3. CASE ClearHead(p)
    BY <1>1, <2>3 DEF ClearHead, FileTyped
  <2>4. CASE ClearBody(p)
    BY <1>1, <2>4 DEF ClearBody, FileTyped
  <2>5. CASE FillArch(p)
    BY <1>1, <2>5 DEF FillArch, FileTyped
  <2>6. CASE FillConfig(p)
    BY <1>1, <2>6 DEF FillConfig, FileTyped
  <2>7. CASE CallAdd(p)
    <3>1. \A id \in Id : Index(id) < n.counters
      BY IndexInRange, <1>1 DEF FileTyped, Only, Index
    <3> QED
      BY <1>1, <2>7, <3>1 DEF CallAdd, JobsTyped
  <2>8. CASE CallLabel(p)
    <3>1. \A id \in Id : Index(id) < n.counters
      BY IndexInRange, <1>1 DEF FileTyped, Only, Index
    <3> QED
      BY <1>1, <2>8, <3>1 DEF CallLabel, JobsTyped
  <2>9. CASE Add(p)
    <3>1. mem'.size = mem.size /\ mem'.config = mem.config
      BY <1>1, <2>9 DEF Add, FileTyped
    <3>2. \A q \in Process : pc'[q] \in Calling => job'[q].index = job[q].index /\ pc[q] \in Calling
      BY <1>1, <2>9 DEF Add, JobsTyped
    <3> QED
      BY <2>9, <3>1, <3>2 DEF Add
  <2>10. CASE PutText1(p)
    <3>1. mem'.size = mem.size /\ mem'.config = mem.config
      BY <1>1, <2>10 DEF PutText1, FileTyped
    <3>2. \A q \in Process : pc'[q] \in Calling => job'[q].index = job[q].index /\ pc[q] \in Calling
      BY <1>1, <2>10 DEF PutText1, JobsTyped
    <3> QED
      BY <2>10, <3>1, <3>2 DEF PutText1
  <2>11. CASE PutText2(p)
    <3>1. mem'.size = mem.size /\ mem'.config = mem.config
      BY <1>1, <2>11 DEF PutText2, FileTyped
    <3>2. \A q \in Process : pc'[q] \in Calling => job'[q].index = job[q].index /\ pc[q] \in Calling
      BY <1>1, <2>11 DEF PutText2, JobsTyped
    <3> QED
      BY <2>11, <3>1, <3>2 DEF PutText2
  <2>12. CASE StoreUsed(p)
    <3>1. mem'.size = mem.size /\ mem'.config = mem.config
      BY <1>1, <2>12 DEF StoreUsed, FileTyped
    <3>2. \A q \in Process : pc'[q] \in Calling => job'[q].index = job[q].index /\ pc[q] \in Calling
      BY <1>1, <2>12 DEF StoreUsed, JobsTyped
    <3> QED
      BY <2>12, <3>1, <3>2 DEF StoreUsed
  <2>13. CASE Kill(p)
    BY <1>1, <2>13 DEF Kill, JobsTyped
  <2>14. CASE CallLog(p)
    <3>1. PICK c \in 0 .. MaxCell + 1 :
            /\ InRows(p, c) \/ InVars(p, c)
            /\ job' = [job EXCEPT ![p] = [index |-> c, amount |-> 0, text |-> Empty]]
      BY <2>14 DEF CallLog
    <3>2. layout[p] = n /\ mem.config = n
      BY <2>14 DEF CallLog, Only
    <3>3. c < SizeOf(n)
      <4>1. c \in Nat
        BY Bounds
      <4> QED
        BY <1>2, <3>1, <3>2, <4>1, Places DEF InRows, InVars
    <3> QED
      BY <1>1, <2>14, <3>1, <3>2, <3>3 DEF CallLog, JobsTyped
  <2>15. CASE Store(p)
    <3>1. mem'.size = mem.size /\ mem'.config = mem.config
      BY <1>1, <2>15 DEF Store, FileTyped
    <3>2. \A q \in Process : pc'[q] \in Calling => job'[q].index = job[q].index /\ pc[q] \in Calling
      BY <1>1, <2>15 DEF Store, JobsTyped
    <3> QED
      BY <2>15, <3>1, <3>2 DEF Store
  <2> QED
    BY <2>1, <2>2, <2>3, <2>4, <2>5, <2>6, <2>7, <2>8, <2>9, <2>10, <2>11, <2>12, <2>13, <2>14, <2>15
       DEF Step
<1>b. CASE Run
  <2>0. ActorsTyped
    BY <1>1
  <2> USE <2>0 DEF Utility, NoReader
  <2>1. CASE Measure
    <3>1. mem.size > 0 /\ pc' = [pc EXCEPT ![Util] = "touch"]
          /\ mapped' = [mapped EXCEPT ![Util] = mem.size]
          /\ UNCHANGED <<mem, layout, limit, configs, job>>
      BY <2>1 DEF Measure
    <3>2. configs # {} /\ mem.size = SizeOf(n)
      BY <3>1
    <3>3. configs = {n}
      BY <1>4, <3>2 DEF Only
    <3> QED
      BY <3>1, <3>2, <3>3
  <2>2. CASE TouchAll
    BY <2>2 DEF TouchAll
  <2>3. CASE SectionPointers
    BY <2>3 DEF SectionPointers
  <2>4. CASE CheckArch
    BY <2>4 DEF CheckArch
  <2>5. CASE CheckFails
    BY <2>5 DEF CheckFails
  <2>6. CASE BeginCounters
    BY <2>6 DEF BeginCounters, NoConfig
  <2>7. CASE PrintUsed
    BY <2>7 DEF PrintUsed
  <2>8. CASE PrintLabel1
    BY <2>8 DEF PrintLabel1
  <2>9. CASE PrintValue
    BY <2>9 DEF PrintValue
  <2>10. CASE EndCounters
    BY <2>10 DEF EndCounters
  <2>11. CASE PrintLabel2
    BY <2>11 DEF PrintLabel2
  <2> QED
    BY <1>b, <2>1, <2>2, <2>3, <2>4, <2>5, <2>6, <2>7, <2>8, <2>9, <2>10, <2>11 DEF Run
<1>c. ASSUME NEW a \in Actor, Fault(a) PROVE Alone(n)'
  <2>1. pc[a] \in Touching /\ ~Reach(a) /\ (pc[a] = "puse" => i < limit)
    BY <1>c DEF Fault
  <2>2. mapped[a] = SizeOf(n) /\ mem.size = SizeOf(n)
    BY <2>1
  <2>3. ActorsTyped
    BY <1>1
  <2>4. CASE a \in Process
    <3>1. /\ layout[a] = n
          /\ pc[a] \in Indexed => job[a].index \in Slots /\ job[a].index < n.counters
          /\ pc[a] = "store" => job[a].index < SizeOf(n)
      BY <1>1, <2>1, <2>3, <2>4, Bounds DEF JobsTyped, Job, Indexed
    <3>2. At(a) < SizeOf(n)
      BY <1>2, <2>1, <2>2, <2>3, <2>4, <3>1, Places DEF At, Indexed
    <3> QED
      BY <2>1, <2>2, <3>2 DEF Reach
  <2>5. CASE a = Util
    <3>1. /\ layout[a] \in {NoConfig, n}
          /\ pc[a] \in Printing => i \in Slots /\ i < n.counters
      BY <1>1, <1>2, <2>1, <2>3, <2>5, ConfigTyped, Bounds DEF ReaderTyped, Printing
    <3>2. At(a) < SizeOf(n)
      <4>1. LabelAt(NoConfig, i) = 1 + i /\ (i \in Nat => 1 + i < 1 + i + n.counters)
        BY <1>1, <1>2, Bounds DEF LabelAt, NoConfig, ReaderTyped
      <4> QED
        BY <1>2, <2>1, <2>2, <2>3, <2>5, <3>1, <4>1, Places DEF At, Printing
    <3> QED
      BY <2>1, <2>2, <3>2 DEF Reach
  <2> QED
    BY <2>1, <2>4, <2>5
<1>d. CASE UNCHANGED vars
  BY <1>d DEF vars
<1> QED
  BY <1>a, <1>b, <1>c, <1>d DEF Next

-----------------------------------------------------------------------------
(* The utility: what it has mapped, and the number of counters it goes by, *)
(* are the file's.                                                         *)

Creation(p) == Open(p) \/ Truncate(p) \/ ClearHead(p) \/ ClearBody(p) \/ FillArch(p) \/ FillConfig(p)
CallStep(p) == \/ CallAdd(p) \/ CallLabel(p) \/ CallLog(p)
               \/ Add(p) \/ PutText1(p) \/ PutText2(p) \/ StoreUsed(p) \/ Store(p)

\* What the process p does leaves the utility alone.
SparesUtil(p) ==
  /\ pc' = [pc EXCEPT ![p] = pc'[p]] /\ pc'[Util] = pc[Util]
  /\ layout'[Util] = layout[Util] /\ mapped'[Util] = mapped[Util]
  /\ UNCHANGED reader

\* A creation is remembered by a utility that runs; it makes no call.
LEMMA CreationSteps ==
  ASSUME Types, NEW p \in Process, Creation(p)
  PROVE  /\ SparesUtil(p) /\ crossed' = (pc[Util] # "off")
         /\ pc[p] \notin Calling /\ pc'[p] \notin Calling /\ job' = job
<1> USE Bounds DEF Creation, SparesUtil, Types, ActorsTyped, Actor, Create, Goto, Calling
<1>1. CASE Open(p)
  BY <1>1 DEF Open
<1>2. CASE Truncate(p)
  BY <1>2 DEF Truncate
<1>3. CASE ClearHead(p)
  BY <1>3 DEF ClearHead
<1>4. CASE ClearBody(p)
  BY <1>4 DEF ClearBody
<1>5. CASE FillArch(p)
  BY <1>5 DEF FillArch
<1>6. CASE FillConfig(p)
  BY <1>6 DEF FillConfig
<1> QED
  BY <1>1, <1>2, <1>3, <1>4, <1>5, <1>6

\* A call changes cells and the history; it makes the file muddled if it goes by
\* another number of counters than the header's.
LEMMA CallSteps ==
  ASSUME Types, NEW p \in Process, CallStep(p)
  PROVE  /\ SparesUtil(p) /\ UNCHANGED <<layout, mapped, before, configs, crossed>>
         /\ mem' = [mem EXCEPT !.cell = mem'.cell]
         /\ muddled' = (muddled \/ mem.config # layout[p])
<1> USE Bounds DEF SparesUtil, Types, FileTyped, ActorsTyped, Actor, Goto, Call, Use, history, reader,
                  noted, conduct
<1>1. CASE CallAdd(p)
  BY <1>1 DEF CallAdd
<1>2. CASE CallLabel(p)
  BY <1>2 DEF CallLabel
<1>3. CASE Add(p)
  BY <1>3 DEF Add
<1>4. CASE PutText1(p)
  BY <1>4 DEF PutText1
<1>5. CASE PutText2(p)
  BY <1>5 DEF PutText2
<1>6. CASE StoreUsed(p)
  BY <1>6 DEF StoreUsed
<1>7. CASE CallLog(p)
  BY <1>7 DEF CallLog
<1>8. CASE Store(p)
  BY <1>8 DEF Store
<1> QED
  BY <1>1, <1>2, <1>3, <1>4, <1>5, <1>6, <1>7, <1>8 DEF CallStep

LEMMA KillSteps ==
  ASSUME Types, NEW p \in Process, Kill(p)
  PROVE  /\ SparesUtil(p) /\ UNCHANGED <<mem, noted, history, configs, muddled, crossed>>
         /\ pc'[p] = "off" /\ job' = [job EXCEPT ![p] = NoJob]
         /\ \A q \in Process : q # p => layout'[q] = layout[q]
BY Bounds DEF Kill, SparesUtil, Types, ActorsTyped, Actor, Goto, conduct

LEMMA StepKinds ==
  ASSUME NEW p \in Process, Step(p)
  PROVE  Creation(p) \/ CallStep(p) \/ Kill(p)
BY DEF Step, Creation, CallStep

\* The utility writes to neither the file nor the history of it.
LEMMA RunSteps ==
  ASSUME Types, Run
  PROVE  /\ UNCHANGED <<mem, job, history, configs, muddled>>
         /\ pc' = [pc EXCEPT ![Util] = pc'[Util]]
         /\ \A p \in Process : pc'[p] = pc[p] /\ layout'[p] = layout[p]
<1> USE Bounds DEF Types, ActorsTyped, Actor, Utility, Goto, history, conduct, NoReader
<1>1. CASE Measure
  BY <1>1 DEF Measure
<1>2. CASE TouchAll
  BY <1>2 DEF TouchAll
<1>3. CASE SectionPointers
  BY <1>3 DEF SectionPointers
<1>4. CASE CheckArch
  BY <1>4 DEF CheckArch
<1>5. CASE CheckFails
  BY <1>5 DEF CheckFails
<1>6. CASE BeginCounters
  BY <1>6 DEF BeginCounters
<1>7. CASE PrintUsed
  BY <1>7 DEF PrintUsed
<1>8. CASE PrintLabel1
  BY <1>8 DEF PrintLabel1
<1>9. CASE PrintValue
  BY <1>9 DEF PrintValue
<1>10. CASE EndCounters
  BY <1>10 DEF EndCounters
<1>11. CASE PrintLabel2
  BY <1>11 DEF PrintLabel2
<1> QED
  BY <1>1, <1>2, <1>3, <1>4, <1>5, <1>6, <1>7, <1>8, <1>9, <1>10, <1>11 DEF Run

LEMMA FaultSteps ==
  ASSUME Types, NEW a \in Actor, Fault(a)
  PROVE  /\ UNCHANGED <<mem, layout, mapped, job, reader, noted, history, configs, muddled, crossed>>
         /\ pc' = [pc EXCEPT ![a] = "killed"]
         /\ pc[a] \in Touching /\ ~Reach(a) /\ (pc[a] = "puse" => i < limit)
BY DEF Fault, Goto, history, reader, conduct

LEMMA ShapeInductive == Types /\ Shape /\ [Next]_vars => Shape'
<1> SUFFICES ASSUME Types, Shape, [Next]_vars, Steady' PROVE Shape'
  BY DEF Shape
<1>1. FileTyped /\ ActorsTyped /\ ReaderTyped
  BY DEF Types
<1>a. ASSUME NEW p \in Process, Creation(p) PROVE Shape'
  BY <1>a, CreationSteps DEF Steady, SparesUtil
<1>b. ASSUME NEW p \in Process, CallStep(p) PROVE Shape'
  BY <1>1, <1>b, CallSteps DEF Steady, SparesUtil, Shape, FileTyped, reader
<1>c. ASSUME NEW p \in Process, Kill(p) PROVE Shape'
  BY <1>c, KillSteps DEF Steady, SparesUtil, Shape, reader, noted
<1>d. CASE Run
  <2> USE <1>1, Bounds DEF Utility, Goto, NoReader, Steady, Shape, ActorsTyped, Actor, reader, noted,
                  Printing
  <2>1. CASE Measure
    <3>1. mem.size \in Nat /\ SizeOf(mem.config) \in Nat
      BY Places DEF FileTyped
    <3>2. ~(mem.size < SizeOf(mem.config))
      BY <2>1 DEF Measure, CutShort
    <3> QED
      BY <2>1, <3>1, <3>2 DEF Measure
  <2>2. CASE TouchAll
    BY <2>2 DEF TouchAll
  <2>3. CASE SectionPointers
    BY <2>3 DEF SectionPointers
  <2>4. CASE CheckArch
    BY <2>4 DEF CheckArch
  <2>5. CASE CheckFails
    BY <2>5 DEF CheckFails
  <2>6. CASE BeginCounters
    BY <2>6 DEF BeginCounters
  <2>7. CASE PrintUsed
    BY <2>7 DEF PrintUsed, FileTyped
  <2>8. CASE PrintLabel1
    BY <2>8 DEF PrintLabel1
  <2>9. CASE PrintValue
    BY <2>9 DEF PrintValue
  <2>10. CASE EndCounters
    BY <2>10 DEF EndCounters
  <2>11. CASE PrintLabel2
    BY <2>11 DEF PrintLabel2
  <2> QED
    BY <1>d, <2>1, <2>2, <2>3, <2>4, <2>5, <2>6, <2>7, <2>8, <2>9, <2>10, <2>11 DEF Run
<1>e. ASSUME NEW a \in Actor, Fault(a) PROVE Shape'
  <2>1. CASE a \in Process
    BY <1>1, <1>e, <2>1, FaultSteps, Bounds DEF Steady, Shape, reader, noted, ActorsTyped, Actor
  <2>2. CASE a = Util
    <3>1. Steady
      BY <1>1, <1>e, <2>2, FaultSteps DEF Steady, noted, Touching, Calling
    <3>2. /\ mapped[a] = mem.size /\ mem.size >= SizeOf(mem.config) /\ mem.size \in Nat
          /\ pc[a] \notin {"touch", "sections"} => layout[a] = mem.config
          /\ pc[a] \in Printing => limit = mem.config.counters
      BY <1>1, <2>2, <3>1, Places, Bounds DEF Shape, FileTyped
    <3>3. pc[a] \in Printing => /\ i \in Slots /\ i < mem.config.counters
                               /\ mem.config \in Configs
      <4>1. i < limit /\ limit \in {0} \cup Powers /\ i \in 0 .. limit
            => i \in Slots /\ limit > 0
        BY Bounds
      <4> QED
        BY <1>1, <1>e, <2>2, <3>2, <4>1, FaultSteps DEF ReaderTyped, FileTyped, NoConfig, Printing
    <3>4. pc[a] \in {"touch", "sections", "check", "print"} \cup Printing
      BY <1>1, <1>e, <2>2, FaultSteps DEF ActorsTyped, Touching, Calling, Printing
    <3>5. At(a) < mem.size
      <4>1. SizeOf(mem.config) \in Nat /\ SizeOf(mem.config) > 0
        BY <1>1, Places DEF FileTyped
      <4>2. CASE pc[a] \in Printing
        <5>1. /\ CounterAt(i) < SizeOf(mem.config) /\ LabelAt(mem.config, i) < SizeOf(mem.config)
              /\ CounterAt(i) \in Nat /\ LabelAt(mem.config, i) \in Nat
          BY <3>3, <4>2, Places
        <5> QED
          BY <2>2, <3>2, <4>1, <4>2, <5>1 DEF At, Printing
      <4>3. CASE pc[a] \notin Printing
        BY <2>2, <3>2, <3>4, <4>1, <4>3 DEF At
      <4> QED
        BY <4>2, <4>3
    <3> QED
      BY <1>e, <3>2, <3>5, FaultSteps DEF Reach
  <2> QED
    BY <2>1, <2>2 DEF Actor
<1>f. CASE UNCHANGED vars
  BY <1>f DEF vars, Shape, Steady, reader, noted
<1> QED
  BY <1>a, <1>b, <1>c, <1>d, <1>e, <1>f, StepKinds DEF Next

-----------------------------------------------------------------------------
(* The cells.                                                              *)

\* Blank cells, and counts and labels that were never given, are in step.
LEMMA BlankInOrder ==
  ASSUME Types', \A c \in Cells : mem'.cell[c] = Zero, ~inuse', named' = {}
  PROVE  \A k \in Slots : k < mem'.config.counters => InStep(k)'
<1> SUFFICES ASSUME NEW k \in Slots, k < mem'.config.counters PROVE InStep(k)'
  OBVIOUS
<1>1. mem'.config \in Configs
  BY Bounds DEF Types, FileTyped, NoConfig
<1>2. CounterAt(k) \in Cells /\ LabelAt(mem'.config, k) \in Cells
  BY <1>1, Places
<1>3. given'[k] = 0 /\ labels'[k] = {}
  BY Bounds DEF Types, HistoryTyped
<1> QED
  BY <1>2, <1>3, WrappedZero DEF InStep, Zero

\* InOrder, when a creation makes a step.
LEMMA CreationInOrder ==
  ASSUME Types, Types', InOrder, NEW p \in Process, Creation(p)
  PROVE  InOrder'
<1>1. FileTyped /\ ActorsTyped /\ JobsTyped /\ HistoryTyped /\ mem.size \in Nat
  BY Places DEF Types, FileTyped
<1>2. \A n \in Configs : \A k \in Slots : k < n.counters =>
         CounterAt(k) \in Cells /\ LabelAt(n, k) \in Cells /\ LabelAt(n, k) < SizeOf(n) /\ CounterAt(k) < SizeOf(n)
  BY Places
<1> USE <1>1 DEF Create
<1>3. CASE Open(p)
  BY <1>3 DEF Open, InOrder, InStep, history
<1>4. CASE Truncate(p)
  <2>1. mem'.size = SizeOf(layout[p]) /\ mem'.cell = Blank(SizeOf(layout[p])) /\ layout[p] \in Configs
        /\ mem'.config = mem.config /\ mem'.arch = mem.arch
        /\ muddled' = (muddled \/ SizeOf(layout[p]) < SizeOf(mem.config))
    BY <1>4, TruncateWrites
  <2>2. UNCHANGED <<given, labels, named, inuse>>
    BY <1>4 DEF Truncate, history
  <2>3. \A c \in Cells : mem'.cell[c] = IF c < mem'.size THEN mem.cell[c] ELSE Zero
    BY <2>1 DEF Blank
  <2>4. \A c \in Cells : c >= mem'.size => mem'.cell[c] = Zero
    <3>1. mem'.size \in Nat
      BY <2>1, Places
    <3> QED
      BY <2>3, <3>1, Bounds
  <2>5. ASSUME ~muddled' PROVE ~muddled /\ mem'.size >= SizeOf(mem.config)
    <3>1. SizeOf(layout[p]) \in Nat /\ SizeOf(mem.config) \in Nat
      BY <1>1, <2>1, Places DEF FileTyped
    <3>2. ~muddled /\ ~(SizeOf(layout[p]) < SizeOf(mem.config))
      BY <2>1, <2>5
    <3> QED
      BY <2>1, <3>1, <3>2
  <2>6. ASSUME ~muddled', NEW k \in Slots, k < mem'.config.counters PROVE InStep(k)'
    <3>1. InStep(k) /\ mem.config \in Configs
      <4>1. k \in Nat /\ k < mem.config.counters /\ mem.config # NoConfig
        BY <2>1, <2>6, Bounds DEF NoConfig
      <4> QED
        BY <2>5, <2>6, <4>1 DEF InOrder, FileTyped
    <3>2. mem'.cell[CounterAt(k)] = mem.cell[CounterAt(k)]
          /\ mem'.cell[LabelAt(mem.config, k)] = mem.cell[LabelAt(mem.config, k)]
      <4>1. /\ CounterAt(k) \in Cells /\ CounterAt(k) < SizeOf(mem.config)
            /\ LabelAt(mem.config, k) \in Cells /\ LabelAt(mem.config, k) < SizeOf(mem.config)
        BY <1>2, <2>1, <2>6, <3>1
      <4>2. SizeOf(mem.config) \in Nat /\ mem'.size \in Nat /\ k \in Nat
        BY <2>1, <3>1, Bounds, Places
      <4>3. \A c \in Nat : c < SizeOf(mem.config) => c < mem'.size
        BY <2>5, <2>6, <4>2
      <4>4. CounterAt(k) \in Nat /\ LabelAt(mem.config, k) \in Nat
        BY <3>1, Places
      <4>5. CounterAt(k) < mem'.size /\ LabelAt(mem.config, k) < mem'.size
        BY <4>1, <4>3, <4>4
      <4> QED
        BY <2>3, <4>1, <4>5
    <3> QED
      BY <2>1, <2>2, <3>1, <3>2 DEF InStep
  <2> QED
    BY <2>1, <2>2, <2>3, <2>4, <2>5, <2>6 DEF InOrder
<1>5. CASE ClearHead(p)
  <2>1. mem'.cell = mem.cell /\ mem'.size = mem.size /\ mem'.config = NoConfig /\ mem'.arch = FALSE
        /\ UNCHANGED <<given, labels, named, inuse, muddled>>
    BY <1>5 DEF ClearHead, FileTyped, history
  <2>2. \A k \in Slots : ~(k < mem'.config.counters)
    BY <2>1, Bounds DEF NoConfig
  <2> QED
    BY <2>1, <2>2 DEF InOrder
<1>6. CASE ClearBody(p)
  <2>1. mem'.size = mem.size /\ mem'.config = mem.config /\ mapped[p] \in Nat
        /\ mem'.cell = [c \in Cells |-> IF c < mapped[p] THEN Zero ELSE mem.cell[c]]
    BY <1>6 DEF ClearBody, FileTyped, ActorsTyped, Actor
  <2>2. given' = [s \in Slots |-> 0] /\ labels' = [s \in Slots |-> {}] /\ named' = {}
        /\ (mapped[p] < mem.size /\ ~muddled' => ~muddled /\ ~inuse) /\ inuse' = FALSE
    BY <1>6 DEF ClearBody
  <2>3. ~inuse'
    BY <2>2
  <2>4. \A c \in Cells : c >= mem'.size => mem'.cell[c] = Zero
    BY <2>1 DEF InOrder
  <2>5. ~muddled' => \A c \in Cells : mem'.cell[c] = Zero
    BY <2>1, <2>2, Bounds DEF InOrder
  <2>6. ~muddled' => \A k \in Slots : k < mem'.config.counters => InStep(k)'
    BY <2>2, <2>3, <2>5, BlankInOrder
  <2> QED
    BY <2>2, <2>3, <2>4, <2>5, <2>6 DEF InOrder
<1>7. CASE FillArch(p) \/ FillConfig(p)
  <2>1. mem'.cell = mem.cell /\ mem'.size = mem.size
        /\ UNCHANGED history /\ muddled' = (muddled \/ inuse)
    BY <1>7 DEF FillArch, FillConfig, FileTyped
  <2>2. UNCHANGED <<given, labels, named, inuse>>
    BY <2>1 DEF history
  <2>3. ~muddled' => named' = {}
    BY <1>1, <2>1, <2>2 DEF InOrder, HistoryTyped
  <2>4. ~muddled' => \A k \in Slots : k < mem'.config.counters => InStep(k)'
    BY <2>1, <2>2, <2>3, BlankInOrder DEF InOrder
  <2> QED
    BY <2>1, <2>2, <2>3, <2>4 DEF InOrder
<1> QED
  BY <1>3, <1>4, <1>5, <1>6, <1>7 DEF Creation

\* What the call of p touches, if the file is not muddled after its step.
LEMMA CallCells ==
  ASSUME Types, CallsInOrder, NEW p \in Process, CallStep(p), ~muddled'
  PROVE  /\ ~muddled /\ mem.config = layout[p] /\ layout[p] \in Configs
         /\ pc[p] \in Indexed => job[p].index \in Slots /\ job[p].index < mem.config.counters
         /\ pc[p] = "store" => Elsewhere(job[p].index, layout[p])
<1>1. ~muddled /\ mem.config = layout[p]
  BY CallSteps
<1>2. pc[p] \in Calling \cup {"ready"}
  BY DEF CallStep, CallAdd, CallLabel, CallLog, Call, Add, PutText1, PutText2, StoreUsed, Store, Use, Calling
<1>3. layout[p] \in Configs
  BY <1>2 DEF Types, JobsTyped, Alive, Calling
<1>4. /\ pc[p] \in Indexed => job[p].index \in Slots /\ job[p].index < layout[p].counters
      /\ pc[p] = "store" => Elsewhere(job[p].index, layout[p])
  BY <1>1 DEF CallsInOrder, Types, JobsTyped, Job, Indexed
<1> QED
  BY <1>1, <1>3, <1>4

\* Cells of different counters and labels are different cells.
LEMMA CellsApart ==
  ASSUME NEW n \in Configs, NEW j \in Slots, NEW k \in Slots, j < n.counters, k < n.counters
  PROVE  /\ CounterAt(k) \in Cells /\ LabelAt(n, k) \in Cells
         /\ CounterAt(j) # LabelAt(n, k) /\ LabelAt(n, j) # CounterAt(k)
         /\ j # k => CounterAt(j) # CounterAt(k) /\ LabelAt(n, j) # LabelAt(n, k)
         /\ LabelAt(n, k) < SizeOf(n) /\ CounterAt(k) < SizeOf(n)
<1>1. j \in Nat /\ k \in Nat /\ n.counters \in Nat /\ n.rows \in Nat
  BY Bounds, ConfigTyped
<1> QED
  BY <1>1, Places DEF LabelAt

\* ... and none is among the rows or the variables.
LEMMA ElsewhereApart ==
  ASSUME NEW n \in Configs, NEW c \in Nat, Elsewhere(c, n), NEW k \in Slots, k < n.counters
  PROVE  c # CounterAt(k) /\ c # LabelAt(n, k)
BY Places DEF Elsewhere

\* What a step of a call leaves of the cells in order: the cells behind the end
\* of the file, and the counters and labels of other indexes.
LEMMA OthersInOrder ==
  ASSUME Types, InOrder, CallsInOrder, NEW p \in Process, CallStep(p), pc[p] \in Calling,
         ~muddled', NEW k \in Slots, k < mem.config.counters,
         pc[p] = "store" \/ k # job[p].index
  PROVE  InStep(k)'
<1> DEFINE j == job[p].index
<1>1. /\ ~muddled /\ mem.config = layout[p] /\ layout[p] \in Configs
      /\ mem'.config = mem.config
      /\ pc[p] \in Indexed => j \in Slots /\ j < mem.config.counters
      /\ pc[p] = "store" => Elsewhere(j, layout[p])
  BY CallCells, CallSteps DEF Types, FileTyped
<1>2. InStep(k)
  BY <1>1 DEF InOrder
<1>3. /\ mem'.cell[CounterAt(k)] = mem.cell[CounterAt(k)]
      /\ mem'.cell[LabelAt(mem.config, k)] = mem.cell[LabelAt(mem.config, k)]
  <2>1. CounterAt(k) \in Cells /\ LabelAt(layout[p], k) \in Cells
    BY <1>1, Places
  <2>2. mem.cell \in [Cells -> Cell]
    BY DEF Types, FileTyped
  <2>3. ASSUME pc[p] \in Indexed
        PROVE  /\ CounterAt(j) \notin {CounterAt(k), LabelAt(layout[p], k)}
               /\ LabelAt(layout[p], j) \notin {CounterAt(k), LabelAt(layout[p], k)}
    BY <1>1, <2>3, CellsApart DEF Indexed
  <2>4. CASE Add(p)
    <3>1. pc[p] \in Indexed
      BY <2>4 DEF Add, Use, Indexed
    <3> QED
      BY <1>1, <2>1, <2>2, <2>3, <2>4, <3>1, AddWrites, ZenonT(60)
  <2>5. CASE PutText1(p)
    <3>1. pc[p] \in Indexed
      BY <2>5 DEF PutText1, Use, Indexed
    <3> QED
      BY <1>1, <2>1, <2>2, <2>3, <2>5, <3>1, PutText1Writes, ZenonT(60)
  <2>6. CASE PutText2(p)
    <3>1. pc[p] \in Indexed
      BY <2>6 DEF PutText2, Use, Indexed
    <3> QED
      BY <1>1, <2>1, <2>2, <2>3, <2>6, <3>1, PutText2Writes, ZenonT(60)
  <2>7. CASE StoreUsed(p)
    <3>1. pc[p] \in Indexed
      BY <2>7 DEF StoreUsed, Use, Indexed
    <3> QED
      BY <1>1, <2>1, <2>2, <2>3, <2>7, <3>1, StoreUsedWrites, ZenonT(60)
  <2>8. CASE Store(p)
    <3>1. pc[p] = "store" /\ j \in Cells /\ j \in Nat
      BY <2>8, StoreWrites, Bounds DEF Store, Use
    <3>2. j # CounterAt(k) /\ j # LabelAt(layout[p], k)
      BY <1>1, <3>1, ElsewhereApart
    <3> QED
      BY <1>1, <2>1, <2>2, <2>8, <3>2, StoreWrites, ZenonT(60)
  <2> QED
    BY <2>4, <2>5, <2>6, <2>7, <2>8 DEF CallStep, CallAdd, CallLabel, CallLog, Call, Calling
<1>4. /\ given'[k] = given[k] /\ labels'[k] = labels[k]
      /\ k \in named' => k \in named
  BY <1>1 DEF CallStep, CallAdd, CallLabel, CallLog, Call, Calling, Add, PutText1, PutText2, StoreUsed,
     Store, Use, history, Types, HistoryTyped
<1> QED
  BY <1>1, <1>2, <1>3, <1>4 DEF InStep

\* ... and the counter and label of its own.
LEMMA OwnInOrder ==
  ASSUME Types, InOrder, CallsInOrder, NEW p \in Process, CallStep(p), pc[p] \in Indexed,
         ~muddled', NEW j \in Slots, j = job[p].index
  PROVE  InStep(j)' /\ (j \in named' => labels'[j] # {})
<1>1. /\ ~muddled /\ mem.config = layout[p] /\ layout[p] \in Configs /\ j < mem.config.counters
      /\ mem'.config = mem.config
  BY CallCells, CallSteps DEF Types, FileTyped
<1>2. InStep(j) /\ (j \in named => labels[j] # {})
  BY <1>1 DEF InOrder
<1>3. /\ CounterAt(j) \in Cells /\ LabelAt(layout[p], j) \in Cells
      /\ CounterAt(j) # LabelAt(layout[p], j)
  BY <1>1, CellsApart
<1>4. /\ mem.cell \in [Cells -> Cell] /\ given \in [Slots -> Int]
      /\ labels \in [Slots -> SUBSET Text]
  BY DEF Types, FileTyped, HistoryTyped
<1> DEFINE c == mem.cell[CounterAt(j)]
           t == mem.cell[LabelAt(layout[p], j)].text
           c1 == mem'.cell[CounterAt(j)]
           t1 == mem'.cell[LabelAt(layout[p], j)].text
<1>5. /\ c.int = Wrapped(given[j]) /\ c.text = NoText /\ (labels[j] # {} => t[1] \in labels[j])
      /\ (c.used => t[2] \in labels[j]) /\ (j \in named => c.used)
  BY <1>1, <1>2 DEF InStep
<1>6. SUFFICES /\ c1.int = Wrapped(given'[j]) /\ c1.text = NoText /\ (labels'[j] # {} => t1[1] \in labels'[j])
               /\ (c1.used => t1[2] \in labels'[j]) /\ (j \in named' => c1.used)
  BY <1>1 DEF InStep
<1>7. CASE Add(p)
  <2>1. /\ c1 = [c EXCEPT !.int = Wrapped(@ + job[p].amount)] /\ t1 = t
        /\ given' = [given EXCEPT ![j] = @ + job[p].amount]
        /\ labels' = labels /\ named' = named
    BY <1>3, <1>4, <1>7, AddWrites DEF Add
  <2>2. c1.int = Wrapped(c.int + job[p].amount) /\ c1.text = c.text /\ c1.used = c.used
    BY <1>3, <1>4, <2>1 DEF Cell
  <2>3. given'[j] = given[j] + job[p].amount /\ given[j] \in Int /\ job[p].amount \in Int
    BY <1>4, <1>7, <2>1, AddWrites, Bounds
  <2>4. c1.int = Wrapped(given'[j])
    BY <1>5, <2>2, <2>3, WrappedSum
  <2> QED
    BY <1>5, <2>1, <2>2, <2>4
<1>8. CASE PutText1(p)
  <2>1. /\ c1 = c /\ t1 = [t EXCEPT ![1] = job[p].text]
        /\ labels' = [labels EXCEPT ![j] = @ \cup {job[p].text}]
        /\ given' = given /\ named' = named
    <3>1. mem'.cell = [mem.cell EXCEPT ![LabelAt(layout[p], j)].text[1] = job[p].text]
      BY <1>8, PutText1Writes
    <3>2. c1 = c
      BY <1>3, <1>4, <3>1
    <3>3. t1 = [t EXCEPT ![1] = job[p].text]
      BY <1>3, <1>4, <3>1 DEF Cell
    <3> QED
      BY <1>8, <3>2, <3>3 DEF PutText1
  <2>2. t1[1] = job[p].text /\ t1[2] = t[2] /\ labels'[j] = labels[j] \cup {job[p].text}
    BY <1>3, <1>4, <2>1, SMTT(60) DEF Cell
  <2> QED
    BY <1>5, <2>1, <2>2
<1>9. CASE PutText2(p)
  <2>1. /\ c1 = c /\ t1 = [t EXCEPT ![2] = job[p].text]
        /\ labels' = labels /\ given' = given /\ named' = named
    <3>1. mem'.cell = [mem.cell EXCEPT ![LabelAt(layout[p], j)].text[2] = job[p].text]
      BY <1>9, PutText2Writes
    <3>2. c1 = c
      BY <1>3, <1>4, <3>1
    <3>3. t1 = [t EXCEPT ![2] = job[p].text]
      BY <1>3, <1>4, <3>1 DEF Cell
    <3> QED
      BY <1>9, <3>2, <3>3 DEF PutText2, history
  <2>2. t1[2] = job[p].text /\ t1[1] = t[1]
    BY <1>3, <1>4, <2>1 DEF Cell
  <2>3. job[p].text \in labels[j]
    BY <1>1, <1>9 DEF CallsInOrder, PutText2, Use
  <2> QED
    BY <1>5, <2>1, <2>2, <2>3
<1>10. CASE StoreUsed(p)
  <2>1. /\ c1 = [c EXCEPT !.used = TRUE] /\ t1 = t
        /\ labels' = labels /\ given' = given /\ named' = named \cup {j}
    BY <1>3, <1>4, <1>10, StoreUsedWrites DEF StoreUsed, Cell
  <2>2. c1.int = c.int /\ c1.text = c.text /\ c1.used
    BY <1>3, <1>4, <2>1 DEF Cell
  <2>3. t[2] \in labels[j]
    BY <1>1, <1>10 DEF CallsInOrder, StoreUsed, Use
  <2> QED
    BY <1>5, <2>1, <2>2, <2>3
<1> QED
  BY <1>7, <1>8, <1>9, <1>10 DEF CallStep, CallAdd, CallLabel, CallLog, Call, Indexed, Store, Use

\* Nothing but what was labelled is named, and while a call adds or labels, the
\* file is in use.
LEMMA CallInUse ==
  ASSUME Types, InOrder, CallsInOrder, NEW p \in Process, CallStep(p), ~muddled'
  PROVE  /\ pc[p] \in Calling => inuse'
         /\ \A k \in named' : labels'[k] # {} /\ k < mem.config.counters
<1>1. ~muddled /\ mem.config = layout[p] /\ layout[p] \in Configs /\ mem.config # NoConfig
  BY CallCells, ConfigTyped
<1>2. labels \in [Slots -> SUBSET Text] /\ (~inuse => \A s \in Slots : labels[s] = {})
  BY DEF Types, HistoryTyped
<1>3. \A k \in named : k \in Slots /\ labels[k] # {} /\ k < mem.config.counters
  BY <1>1 DEF InOrder, Types, HistoryTyped
<1>4. CASE Add(p) \/ Store(p)
  BY <1>3, <1>4 DEF Add, Store
<1>5. CASE PutText1(p)
  <2>1. /\ labels' = [labels EXCEPT ![job[p].index] = @ \cup {job[p].text}]
        /\ named' = named /\ job[p].index \in Slots /\ inuse'
    BY <1>5, PutText1Writes DEF PutText1
  <2> QED
    BY <1>2, <1>3, <2>1, SMTT(60)
<1>6. CASE PutText2(p) \/ StoreUsed(p)
  <2>1. /\ labels' = labels /\ inuse' = inuse /\ named' \subseteq named \cup {job[p].index}
        /\ pc[p] \in {"text2", "used"} /\ pc[p] \in Indexed
    BY <1>6 DEF PutText2, StoreUsed, Use, Indexed, history
  <2>2. /\ job[p].text \in labels[job[p].index] /\ job[p].index \in Slots
        /\ job[p].index < mem.config.counters
    BY <1>1, <2>1, CallCells DEF CallsInOrder
  <2> QED
    BY <1>2, <1>3, <2>1, <2>2
<1>7. CASE CallAdd(p) \/ CallLabel(p) \/ CallLog(p)
  BY <1>3, <1>7, SMTT(60) DEF CallAdd, CallLabel, CallLog, Call, Calling, history
<1> QED
  BY <1>4, <1>5, <1>6, <1>7 DEF CallStep

\* InOrder, when a call makes a step.
LEMMA CallInOrder ==
  ASSUME Types, InOrder, CallsInOrder, NEW p \in Process, CallStep(p)
  PROVE  InOrder'
<1>1. /\ mem'.size = mem.size /\ mem'.config = mem.config
      /\ mem.cell \in [Cells -> Cell] /\ mem.size \in Nat
  BY CallSteps, Places DEF Types, FileTyped
<1>2. CASE CallAdd(p) \/ CallLabel(p) \/ CallLog(p)
  <2>1. UNCHANGED <<mem, given, labels, named, inuse>> /\ (~muddled' => ~muddled)
    BY <1>2 DEF CallAdd, CallLabel, CallLog, Call, history
  <2> QED
    BY <2>1 DEF InOrder, InStep
<1>3. CASE pc[p] \in Calling
  <2>1. \A c \in Cells : c >= mem'.size => mem'.cell[c] = Zero
    <3>1. CASE Add(p)
      <4>1. CounterAt(job[p].index) < mem.size /\ CounterAt(job[p].index) \in Nat
        <5>1. Reach(p) /\ pc[p] = "add"
          BY <3>1 DEF Add, Use
        <5>2. At(p) = CounterAt(job[p].index)
          BY <5>1 DEF At
        <5>3. CounterAt(job[p].index) \in Nat
          <6>1. job[p].index \in Slots /\ layout[p] \in Configs
            BY <3>1, AddWrites
          <6> QED
            BY <6>1, Places
        <5> QED
          BY <1>1, <5>1, <5>2, <5>3 DEF Reach
      <4>2. \A c \in Cells : c # CounterAt(job[p].index) => mem'.cell[c] = mem.cell[c]
        BY <1>1, <3>1, AddWrites
      <4> QED
        BY <1>1, <4>1, <4>2, Bounds DEF InOrder
    <3>2. CASE PutText1(p)
      <4>1. LabelAt(layout[p], job[p].index) < mem.size /\ LabelAt(layout[p], job[p].index) \in Nat
        <5>1. Reach(p) /\ pc[p] = "text1"
          BY <3>2 DEF PutText1, Use
        <5>2. At(p) = LabelAt(layout[p], job[p].index)
          BY <5>1 DEF At
        <5>3. LabelAt(layout[p], job[p].index) \in Nat
          <6>1. job[p].index \in Slots /\ layout[p] \in Configs
            BY <3>2, PutText1Writes
          <6> QED
            BY <6>1, Places
        <5> QED
          BY <1>1, <5>1, <5>2, <5>3 DEF Reach
      <4>2. \A c \in Cells : c # LabelAt(layout[p], job[p].index) => mem'.cell[c] = mem.cell[c]
        BY <1>1, <3>2, PutText1Writes
      <4> QED
        BY <1>1, <4>1, <4>2, Bounds DEF InOrder
    <3>3. CASE PutText2(p)
      <4>1. LabelAt(layout[p], job[p].index) < mem.size /\ LabelAt(layout[p], job[p].index) \in Nat
        <5>1. Reach(p) /\ pc[p] = "text2"
          BY <3>3 DEF PutText2, Use
        <5>2. At(p) = LabelAt(layout[p], job[p].index)
          BY <5>1 DEF At
        <5>3. LabelAt(layout[p], job[p].index) \in Nat
          <6>1. job[p].index \in Slots /\ layout[p] \in Configs
            BY <3>3, PutText2Writes
          <6> QED
            BY <6>1, Places
        <5> QED
          BY <1>1, <5>1, <5>2, <5>3 DEF Reach
      <4>2. \A c \in Cells : c # LabelAt(layout[p], job[p].index) => mem'.cell[c] = mem.cell[c]
        BY <1>1, <3>3, PutText2Writes
      <4> QED
        BY <1>1, <4>1, <4>2, Bounds DEF InOrder
    <3>4. CASE StoreUsed(p)
      <4>1. CounterAt(job[p].index) < mem.size /\ CounterAt(job[p].index) \in Nat
        <5>1. Reach(p) /\ pc[p] = "used"
          BY <3>4 DEF StoreUsed, Use
        <5>2. At(p) = CounterAt(job[p].index)
          BY <5>1 DEF At
        <5>3. CounterAt(job[p].index) \in Nat
          <6>1. job[p].index \in Slots /\ layout[p] \in Configs
            BY <3>4, StoreUsedWrites
          <6> QED
            BY <6>1, Places
        <5> QED
          BY <1>1, <5>1, <5>2, <5>3 DEF Reach
      <4>2. \A c \in Cells : c # CounterAt(job[p].index) => mem'.cell[c] = mem.cell[c]
        BY <1>1, <3>4, StoreUsedWrites
      <4> QED
        BY <1>1, <4>1, <4>2, Bounds DEF InOrder
    <3>5. CASE Store(p)
      <4>1. /\ job[p].index < mem.size /\ job[p].index \in Cells
            /\ \A c \in Cells : c # job[p].index => mem'.cell[c] = mem.cell[c]
        BY <1>1, <3>5, StoreWrites
      <4> QED
        BY <1>1, <4>1, Bounds DEF InOrder
    <3> QED
      BY <1>3, <3>1, <3>2, <3>3, <3>4, <3>5 DEF CallStep, CallAdd, CallLabel, CallLog, Call, Calling
  <2>2. ASSUME ~muddled' PROVE inuse' /\ mem'.config # NoConfig
    BY <1>1, <1>3, <2>2, CallInUse, CallCells, ConfigTyped
  <2>3. ASSUME ~muddled', NEW k \in Slots, k < mem'.config.counters PROVE InStep(k)'
    <3>1. pc[p] \in Indexed \/ pc[p] = "store"
      BY <1>3 DEF Calling, Indexed
    <3> QED
      BY <1>1, <1>3, <2>3, <3>1, OwnInOrder, OthersInOrder
  <2>4. ASSUME ~muddled', NEW k \in named' PROVE labels'[k] # {} /\ k < mem'.config.counters
    BY <1>1, <2>4, CallInUse
  <2> QED
    BY <2>1, <2>2, <2>3, <2>4 DEF InOrder
<1> QED
  BY <1>2, <1>3 DEF CallStep, Add, PutText1, PutText2, StoreUsed, Store, Use, Calling

LEMMA InOrderInductive == Types /\ Types' /\ InOrder /\ CallsInOrder /\ [Next]_vars => InOrder'
<1> SUFFICES ASSUME Types, Types', InOrder, CallsInOrder, [Next]_vars PROVE InOrder'
  OBVIOUS
<1>1. ASSUME UNCHANGED <<mem, given, labels, named, inuse, muddled>> PROVE InOrder'
  BY <1>1 DEF InOrder, InStep
<1>2. ASSUME NEW p \in Process, Step(p) PROVE InOrder'
  BY <1>1, <1>2, StepKinds, CreationInOrder, CallInOrder, KillSteps DEF history
<1>3. CASE Run
  BY <1>1, <1>3, RunSteps DEF history
<1>4. ASSUME NEW a \in Actor, Fault(a) PROVE InOrder'
  BY <1>1, <1>4, FaultSteps DEF history
<1>5. CASE UNCHANGED vars
  BY <1>1, <1>5 DEF vars, history
<1> QED
  BY <1>2, <1>3, <1>4, <1>5 DEF Next

-----------------------------------------------------------------------------
(* The calls in progress.                                                  *)

\* The call of q survives what changes neither it nor its label; labels only
\* gain, and the header does not come to agree with it.
LEMMA CallKept ==
  ASSUME Types, CallsInOrder, NEW q \in Process, ~muddled,
         pc'[q] = pc[q], layout'[q] = layout[q], job'[q] = job[q],
         pc[q] \in Indexed => labels[job[q].index] \subseteq labels'[job[q].index],
         pc[q] = "used" /\ mem'.config = layout[q] =>
           /\ mem.config = layout[q]
           /\ mem'.cell[LabelAt(layout[q], job[q].index)].text[2] \in
                {mem.cell[LabelAt(layout[q], job[q].index)].text[2]} \cup labels'[job[q].index]
  PROVE  /\ pc'[q] \in Indexed => job'[q].index < layout'[q].counters
         /\ pc'[q] = "store" => Elsewhere(job'[q].index, layout'[q])
         /\ pc'[q] \in {"text2", "used"} => job'[q].text \in labels'[job'[q].index]
         /\ pc'[q] = "used" /\ mem'.config = layout'[q] =>
              mem'.cell[LabelAt(layout'[q], job'[q].index)].text[2] \in labels'[job'[q].index]
BY DEF CallsInOrder, Indexed

LEMMA CallsInOrderInductive ==
  Types /\ Types' /\ InOrder /\ CallsInOrder /\ [Next]_vars => CallsInOrder'
<1> SUFFICES ASSUME Types, Types', InOrder, CallsInOrder, [Next]_vars, ~muddled', NEW q \in Process
             PROVE  /\ pc'[q] \in Indexed => job'[q].index < layout'[q].counters
                    /\ pc'[q] = "store" => Elsewhere(job'[q].index, layout'[q])
                    /\ pc'[q] \in {"text2", "used"} => job'[q].text \in labels'[job'[q].index]
                    /\ pc'[q] = "used" /\ mem'.config = layout'[q] =>
                         mem'.cell[LabelAt(layout'[q], job'[q].index)].text[2] \in labels'[job'[q].index]
  BY DEF CallsInOrder, Indexed, Elsewhere
<1> DEFINE Goal == /\ pc'[q] \in Indexed => job'[q].index < layout'[q].counters
                   /\ pc'[q] = "store" => Elsewhere(job'[q].index, layout'[q])
                   /\ pc'[q] \in {"text2", "used"} => job'[q].text \in labels'[job'[q].index]
                   /\ pc'[q] = "used" /\ mem'.config = layout'[q] =>
                        mem'.cell[LabelAt(layout'[q], job'[q].index)].text[2] \in labels'[job'[q].index]
<1>0. FileTyped /\ ActorsTyped /\ JobsTyped /\ HistoryTyped
  BY DEF Types
<1>1. ASSUME UNCHANGED <<mem, labels, muddled>>, pc'[q] = pc[q], layout'[q] = layout[q], job'[q] = job[q]
      PROVE  Goal
  BY <1>1, CallKept
<1>2. ASSUME pc'[q] \notin Calling PROVE Goal
  BY <1>2 DEF Calling, Indexed
<1>3. ASSUME NEW p \in Process, Creation(p) PROVE Goal
  <2>1. CASE p = q
    BY <1>2, <1>3, <2>1, CreationSteps, SMTT(60)
  <2>2. CASE p # q
    <3>1. pc'[q] = pc[q] /\ job'[q] = job[q] /\ layout'[q] = layout[q]
      <4>1. pc'[q] = pc[q] /\ job'[q] = job[q]
        BY <1>0, <1>3, <2>2, CreationSteps DEF SparesUtil, ActorsTyped, Actor
      <4>2. layout'[q] = layout[q]
        BY <1>0, <1>3, <2>2 DEF Creation, Open, Truncate, ClearHead, ClearBody, FillArch, FillConfig,
           ActorsTyped, Actor
      <4> QED
        BY <4>1, <4>2
    <3>2. SUFFICES ASSUME pc[q] \in Calling PROVE Goal
      BY <1>2, <3>1
    <3>3. ~ClearBody(p)
      BY <3>2 DEF ClearBody
    <3>4. ~muddled /\ UNCHANGED labels
      BY <1>0, <1>3, <3>3 DEF Creation, Open, Truncate, ClearHead, FillArch, FillConfig, history, HistoryTyped
    <3>5. ASSUME pc[q] = "used", mem'.config = layout[q]
          PROVE  /\ mem.config = layout[q]
                 /\ mem'.cell[LabelAt(layout[q], job[q].index)].text[2] =
                      mem.cell[LabelAt(layout[q], job[q].index)].text[2]
      <4>1. inuse /\ job[q].index \in Slots /\ layout[q] \in Configs /\ job[q].index < layout[q].counters
        <5>1. job[q].index \in Slots /\ layout[q] \in Configs
          BY <1>0, <3>5 DEF JobsTyped, Job, Alive
        <5>2. job[q].text \in labels[job[q].index] /\ job[q].index < layout[q].counters
          BY <3>2, <3>4, <3>5 DEF CallsInOrder
        <5> QED
          BY <1>0, <5>1, <5>2 DEF HistoryTyped
      <4>2. CASE Truncate(p)
        <5>1. /\ mem'.config = mem.config /\ mem'.cell = Blank(SizeOf(layout[p])) /\ layout[p] \in Configs
              /\ ~(SizeOf(layout[p]) < SizeOf(mem.config))
          BY <4>2, TruncateWrites
        <5>2. /\ LabelAt(layout[q], job[q].index) \in Cells
              /\ LabelAt(layout[q], job[q].index) < SizeOf(layout[p])
          <6>1. /\ SizeOf(layout[p]) \in Nat /\ SizeOf(layout[q]) \in Nat /\ mem.config = layout[q]
                /\ LabelAt(layout[q], job[q].index) \in Nat
            BY <3>5, <4>1, <5>1, Places
          <6> QED
            BY <4>1, <5>1, <6>1, Places
        <5> QED
          BY <3>5, <5>1, <5>2 DEF Blank
      <4>3. CASE ClearHead(p)
        <5>1. mem'.config = NoConfig
          BY <1>0, <4>3 DEF ClearHead, FileTyped
        <5> QED
          BY <3>5, <4>1, <5>1, ConfigTyped
      <4>4. CASE FillArch(p) \/ FillConfig(p)
        BY <4>1, <4>4 DEF FillArch, FillConfig
      <4>5. CASE Open(p)
        BY <3>5, <4>5 DEF Open
      <4> QED
        BY <1>3, <3>3, <4>2, <4>3, <4>4, <4>5 DEF Creation
    <3> QED
      BY <3>1, <3>4, <3>5, CallKept
  <2> QED
    BY <2>1, <2>2
<1>4. ASSUME NEW p \in Process, CallStep(p) PROVE Goal
  <2>1. /\ ~muddled /\ mem.config = layout[p] /\ layout[p] \in Configs /\ mem'.config = mem.config /\ layout' = layout
        /\ pc[p] \in Indexed => job[p].index \in Slots /\ job[p].index < mem.config.counters
    BY <1>0, <1>4, CallCells, CallSteps DEF FileTyped
  <2>2. labels \in [Slots -> SUBSET Text] /\ mem.cell \in [Cells -> Cell]
    BY <1>0, SMTT(60) DEF HistoryTyped, FileTyped
  <2>3. CASE p # q
    <3>1. pc'[q] = pc[q] /\ job'[q] = job[q] /\ layout'[q] = layout[q]
      BY <1>0, <1>4, <2>1, <2>3, SMTT(60) DEF CallStep, CallAdd, CallLabel, CallLog, Call, Add, PutText1,
         PutText2, StoreUsed, Store, Use, Goto, ActorsTyped, JobsTyped, Actor
    <3>2. \A k \in Slots : labels[k] \subseteq labels'[k]
      BY <1>4, <2>2 DEF CallStep, CallAdd, CallLabel, CallLog, Call, Add, PutText1, PutText2, StoreUsed,
         Store, history
    <3>3. pc[q] \in Indexed => job[q].index \in Slots
      BY <1>0, SMTT(60) DEF JobsTyped, Job, Indexed
    <3>4. ASSUME pc[q] = "used", mem'.config = layout[q]
          PROVE  mem'.cell[LabelAt(layout[q], job[q].index)].text[2] \in
                   {mem.cell[LabelAt(layout[q], job[q].index)].text[2]} \cup labels'[job[q].index]
      <4> DEFINE c == LabelAt(layout[q], job[q].index)
      <4>1. /\ job[q].index \in Slots /\ job[q].index < layout[q].counters /\ layout[q] = layout[p]
            /\ c \in Cells
        <5>1. job[q].index \in Slots /\ job[q].index < layout[q].counters /\ layout[q] = layout[p]
          BY <2>1, <3>3, <3>4 DEF CallsInOrder, Indexed
        <5> QED
          BY <2>1, <5>1, Places
      <4>2. CASE Add(p)
        <5>1. mem'.cell = [mem.cell EXCEPT ![CounterAt(job[p].index)].int = Wrapped(@ + job[p].amount)]
          BY <4>2, AddWrites
        <5>2. mem'.cell[c].text[2] = mem.cell[c].text[2]
          BY <2>2, <4>1, <5>1 DEF Cell
        <5> QED
          BY <5>2
      <4>3. CASE PutText1(p)
        <5>1. mem'.cell = [mem.cell EXCEPT ![LabelAt(layout[p], job[p].index)].text[1] = job[p].text]
          BY <4>3, PutText1Writes
        <5>2. mem'.cell[c].text[2] = mem.cell[c].text[2]
          BY <2>2, <4>1, <5>1, SMTT(60) DEF Cell
        <5> QED
          BY <5>2
      <4>4. CASE PutText2(p)
        <5>1. /\ mem'.cell = [mem.cell EXCEPT ![LabelAt(layout[p], job[p].index)].text[2] = job[p].text]
              /\ labels' = labels /\ pc[p] = "text2"
          BY <4>4, PutText2Writes DEF PutText2, Use, history
        <5>2. job[p].text \in labels[job[p].index] /\ job[p].index \in Slots
              /\ job[p].index < layout[p].counters
          BY <2>1, <5>1 DEF CallsInOrder, Indexed
        <5>3. CASE job[p].index = job[q].index
          BY <2>2, <4>1, <5>1, <5>2, <5>3, SMTT(60) DEF Cell
        <5>4. CASE job[p].index # job[q].index
          <6>1. LabelAt(layout[p], job[p].index) # c
            BY <2>1, <4>1, <5>2, <5>4, CellsApart
          <6> QED
            BY <2>2, <4>1, <5>1, <6>1
        <5> QED
          BY <5>3, <5>4, ZenonT(60)
      <4>5. CASE StoreUsed(p)
        <5>1. mem'.cell = [mem.cell EXCEPT ![CounterAt(job[p].index)].used = TRUE]
          BY <4>5, StoreUsedWrites
        <5>2. mem'.cell[c].text[2] = mem.cell[c].text[2]
          BY <2>2, <4>1, <5>1, SMTT(60) DEF Cell
        <5> QED
          BY <5>2
      <4>6. CASE CallAdd(p) \/ CallLabel(p) \/ CallLog(p)
        BY <4>6 DEF CallAdd, CallLabel, CallLog, Call
      <4>7. CASE Store(p)
        <5>1. pc[p] = "store" /\ job[p].index \in Cells /\ job[p].index \in Nat
          BY <4>7, StoreWrites, Bounds DEF Store, Use
        <5>2. job[p].index # c
          BY <1>4, <2>1, <4>1, <5>1, CallCells, ElsewhereApart
        <5> QED
          BY <2>2, <4>1, <4>7, <5>2, StoreWrites
      <4> QED
        BY <1>4, <4>2, <4>3, <4>4, <4>5, <4>6, <4>7 DEF CallStep
    <3> QED
      BY <2>1, <3>1, <3>2, <3>3, <3>4, CallKept
  <2>4. CASE p = q
    <3>1. CASE CallAdd(p) \/ CallLabel(p)
      <4>1. pc'[p] \in {"add", "text1"} /\ \E id \in Id : job'[p].index = Index(id)
        BY <1>0, <3>1 DEF CallAdd, CallLabel, Call, Goto, ActorsTyped, JobsTyped, Actor
      <4>2. job'[p].index < layout[p].counters
        BY <1>0, <2>1, <4>1, IndexInRange, ConfigTyped DEF FileTyped
      <4> QED
        BY <2>1, <2>4, <4>1, <4>2 DEF Indexed
    <3>2. CASE Add(p) \/ StoreUsed(p) \/ Store(p)
      BY <1>0, <1>2, <2>4, <3>2 DEF Add, StoreUsed, Store, Use, Goto, ActorsTyped, Actor, Calling
    <3>3. CASE PutText1(p)
      <4>1. /\ pc'[p] = "text2" /\ job' = job /\ pc[p] \in Indexed
            /\ labels' = [labels EXCEPT ![job[p].index] = @ \cup {job[p].text}]
        BY <1>0, <3>3 DEF PutText1, Use, Goto, ActorsTyped, Actor, Indexed
      <4> QED
        BY <2>1, <2>2, <2>4, <4>1 DEF Indexed
    <3>4. CASE PutText2(p)
      <4>1. /\ pc'[p] = "used" /\ job' = job /\ pc[p] \in Indexed /\ pc[p] = "text2"
            /\ labels' = labels
        BY <1>0, <3>4 DEF PutText2, Use, Goto, ActorsTyped, Actor, Indexed, history
      <4>2. job[p].text \in labels[job[p].index]
        BY <2>1, <4>1 DEF CallsInOrder
      <4>3. LabelAt(layout[p], job[p].index) \in Cells
        BY <2>1, <4>1, Places
      <4>4. mem'.cell[LabelAt(layout[p], job[p].index)].text[2] = job[p].text
        <5>1. mem'.cell = [mem.cell EXCEPT ![LabelAt(layout[p], job[p].index)].text[2] = job[p].text]
          BY <3>4, PutText2Writes
        <5> QED
          BY <2>2, <4>3, <5>1 DEF Cell
      <4> QED
        BY <2>1, <2>4, <4>1, <4>2, <4>4 DEF Indexed
    <3>5. CASE CallLog(p)
      <4>1. PICK c \in 0 .. MaxCell + 1 :
              /\ InRows(p, c) \/ InVars(p, c)
              /\ job' = [job EXCEPT ![p] = [index |-> c, amount |-> 0, text |-> Empty]]
        BY <3>5 DEF CallLog
      <4>2. pc'[p] = "store" /\ job'[p].index = c /\ c \in Nat
        BY <1>0, <3>5, <4>1, Bounds DEF CallLog, Call, Goto, ActorsTyped, JobsTyped, Actor
      <4>3. Elsewhere(c, layout[p])
        <5>1. mem.config = layout[p] /\ mem.config # NoConfig
          BY <2>1, ConfigTyped
        <5>2. layout[p].rows \in Nat
          BY <2>1, ConfigTyped
        <5> QED
          BY <2>1, <4>1, <4>2, <5>1, <5>2, Places DEF InRows, InVars, Elsewhere
      <4> QED
        BY <2>1, <2>4, <4>2, <4>3 DEF Indexed
    <3> QED
      BY <1>4, <3>1, <3>2, <3>3, <3>4, <3>5 DEF CallStep
  <2> QED
    BY <2>3, <2>4
<1>5. ASSUME NEW p \in Process, Kill(p) PROVE Goal
  <2>1. CASE p = q
    BY <1>2, <1>5, <2>1, KillSteps DEF Calling
  <2>2. CASE p # q
    BY <1>0, <1>1, <1>5, <2>2, KillSteps DEF SparesUtil, ActorsTyped, JobsTyped, Actor, history
  <2> QED
    BY <2>1, <2>2
<1>6. CASE Run
  BY <1>1, <1>6, RunSteps DEF history
<1>7. ASSUME NEW a \in Actor, Fault(a) PROVE Goal
  <2>1. UNCHANGED <<mem, labels, muddled, layout, job>> /\ pc' = [pc EXCEPT ![a] = "killed"]
    BY <1>7, FaultSteps DEF history
  <2>2. pc'[q] = "killed" \/ pc'[q] = pc[q]
    BY <1>0, <2>1 DEF ActorsTyped, Actor
  <2> QED
    BY <1>1, <1>2, <2>1, <2>2 DEF Calling
<1>8. CASE UNCHANGED vars
  BY <1>1, <1>8 DEF vars, history
<1> QED
  BY <1>3, <1>4, <1>5, <1>6, <1>7, <1>8, StepKinds DEF Next

-----------------------------------------------------------------------------
(* What the utility prints.                                                *)

\* While the utility runs and is not crossed, the sums that are were noted, labels
\* stay, and what is named or used stays so.
LEMMA Growth ==
  ASSUME Types, Types', NEW p \in Process, CallStep(p)
  PROVE  /\ \A k \in Slots : /\ sums[k] \subseteq sums'[k] /\ labels[k] \subseteq labels'[k]
                             /\ given[k] \in sums[k] => given'[k] \in sums'[k]
         /\ named \subseteq named'
         /\ \A c \in Cells : mem.cell[c].used => mem'.cell[c].used
<1>1. /\ given \in [Slots -> Int] /\ labels \in [Slots -> SUBSET Text] /\ mem.cell \in [Cells -> Cell]
      /\ sums \in [Slots -> SUBSET Int]
  BY DEF Types, FileTyped, HistoryTyped
<1>2. CASE Add(p)
  <2> DEFINE k == job[p].index
  <2>1. /\ given' = [given EXCEPT ![k] = @ + job[p].amount]
        /\ sums' = [sums EXCEPT ![k] = IF @ = {} THEN {} ELSE @ \cup {given'[k]}]
        /\ k \in Slots
        /\ mem'.cell = [mem.cell EXCEPT ![CounterAt(k)].int = Wrapped(@ + job[p].amount)]
        /\ labels' = labels /\ named' = named
    BY <1>2, AddWrites DEF Add
  <2> HIDE DEF k
  <2>2. ASSUME NEW s \in Slots
        PROVE  sums[s] \subseteq sums'[s] /\ (given[s] \in sums[s] => given'[s] \in sums'[s])
    <3>1. CASE s = k
      <4>1. sums'[k] = IF sums[k] = {} THEN {} ELSE sums[k] \cup {given'[k]}
        BY <1>1, <2>1
      <4> QED
        BY <3>1, <4>1
    <3>2. CASE s # k
      BY <1>1, <2>1, <3>2
    <3> QED
      BY <3>1, <3>2
  <2>3. \A c \in Cells : mem.cell[c].used => mem'.cell[c].used
    BY <1>1, <2>1 DEF Cell
  <2> QED
    BY <2>1, <2>2, <2>3
<1>3. CASE PutText1(p)
  <2>1. /\ mem'.cell = [mem.cell EXCEPT ![LabelAt(layout[p], job[p].index)].text[1] = job[p].text]
        /\ labels' = [labels EXCEPT ![job[p].index] = @ \cup {job[p].text}]
        /\ job[p].index \in Slots
        /\ UNCHANGED <<given, named, sums>>
    BY <1>3, PutText1Writes DEF PutText1, noted
  <2> QED
    BY <1>1, <2>1 DEF Cell
<1>4. CASE PutText2(p)
  <2>1. /\ mem'.cell = [mem.cell EXCEPT ![LabelAt(layout[p], job[p].index)].text[2] = job[p].text]
        /\ UNCHANGED <<given, named, labels, sums>>
    BY <1>4, PutText2Writes DEF PutText2, history, noted
  <2> QED
    BY <1>1, <2>1 DEF Cell
<1>5. CASE StoreUsed(p)
  <2>1. /\ mem'.cell = [mem.cell EXCEPT ![CounterAt(job[p].index)].used = TRUE]
        /\ UNCHANGED <<given, labels, sums>> /\ named \subseteq named'
    BY <1>5, StoreUsedWrites DEF StoreUsed, noted
  <2> QED
    BY <1>1, <2>1 DEF Cell
<1>6. CASE Store(p)
  <2>1. /\ mem'.cell = [mem.cell EXCEPT ![job[p].index] = Scrap]
        /\ UNCHANGED <<given, labels, named, sums>>
    BY <1>6, StoreWrites DEF Store, noted
  <2> QED
    BY <1>1, <2>1 DEF Scrap
<1>7. CASE CallAdd(p) \/ CallLabel(p) \/ CallLog(p)
  BY <1>7 DEF CallAdd, CallLabel, CallLog, Call, history, noted
<1> QED
  BY <1>2, <1>3, <1>4, <1>5, <1>6, <1>7 DEF CallStep

LEMMA SinceInductive == Types /\ Types' /\ Since /\ [Next]_vars => Since'
<1> SUFFICES ASSUME Types, Types', Since, [Next]_vars, pc'[Util] # "off", ~crossed'
             PROVE  Since'
  BY DEF Since
<1>0. /\ given \in [Slots -> Int] /\ before \in [named : SUBSET Slots, cut : BOOLEAN]
      /\ ActorsTyped
  BY DEF Types, HistoryTyped
<1>1. ASSUME NEW p \in Process, Creation(p) PROVE Since'
  BY <1>1, CreationSteps DEF SparesUtil
<1>2. ASSUME NEW p \in Process, CallStep(p) PROVE Since'
  <2>1. /\ before' = before /\ crossed' = crossed /\ pc'[Util] = pc[Util]
    BY <1>2, CallSteps DEF SparesUtil
  <2>2. \A k \in Slots : given[k] \in sums[k] => given'[k] \in sums'[k]
    BY <1>2, Growth
  <2>3. named \subseteq named'
    BY <1>2, Growth
  <2> QED
    BY <1>0, <2>1, <2>2, <2>3 DEF Since
<1>3. ASSUME NEW p \in Process, Kill(p) PROVE Since'
  BY <1>3, KillSteps DEF Since, SparesUtil, history, noted
<1>4. CASE Measure
  BY <1>0, <1>4 DEF Measure, Since, Utility, history
<1>5. CASE Run /\ ~Measure
  <2>1. UNCHANGED noted /\ crossed' = crossed /\ pc[Util] # "off"
    BY <1>0, <1>5 DEF Run, TouchAll, SectionPointers, CheckArch, CheckFails, BeginCounters, PrintUsed,
       PrintLabel1, PrintLabel2, PrintValue, EndCounters, Utility, Goto, ActorsTyped, Actor
  <2> QED
    BY <1>5, <2>1, RunSteps DEF Since, history, noted
<1>6. ASSUME NEW a \in Actor, Fault(a) PROVE Since'
  <2>1. UNCHANGED <<before, sums, given, named, crossed>> /\ pc' = [pc EXCEPT ![a] = "killed"]
        /\ pc[a] # "off"
    BY <1>6, FaultSteps DEF history, noted, Touching, Calling
  <2>2. pc[Util] # "off"
    BY <1>0, <2>1 DEF ActorsTyped, Actor
  <2> QED
    BY <2>1, <2>2 DEF Since
<1>7. CASE UNCHANGED vars
  BY <1>7 DEF vars, history, noted, Since
<1> QED
  BY <1>1, <1>2, <1>3, <1>4, <1>5, <1>6, <1>7, StepKinds DEF Next

\* While the utility prints, the counter it is at is one of the file's, and in step.
LEMMA AtCounter ==
  ASSUME Types, Shape, InOrder, Steady, ~muddled, pc[Util] \in Printing, i < limit
  PROVE  InStep(i) /\ i \in Slots /\ layout[Util] = mem.config
<1>1. layout[Util] = mem.config /\ limit = mem.config.counters
  BY DEF Shape, Printing
<1>2. i \in Slots
  <2>1. limit \in {0} \cup Powers /\ i \in 0 .. limit
    BY DEF Types, ReaderTyped
  <2> QED
    BY <2>1, Bounds
<1> QED
  BY <1>1, <1>2 DEF InOrder

LEMMA OutputInductive ==
  Types /\ Types' /\ Shape /\ InOrder /\ Since /\ Since' /\ Output /\ [Next]_vars => Output'
<1> SUFFICES ASSUME Types, Types', Shape, InOrder, Since, Since', Output, [Next]_vars, Steady', ~muddled'
             PROVE  Output'
  BY DEF Output
<1>0. /\ ActorsTyped /\ mem.cell \in [Cells -> Cell] /\ labels \in [Slots -> SUBSET Text]
      /\ before \in [named : SUBSET Slots, cut : BOOLEAN] /\ line \in Half \X Half
      /\ limit \in Nat /\ i \in 0 .. limit /\ (pc[Util] \in {"ptext1", "ptext2", "pvalue"} => i < limit)
      /\ lines \subseteq Line
  <2>1. limit \in {0} \cup Powers
    BY DEF Types, ReaderTyped
  <2>2. limit \in Nat
    BY <2>1, Bounds
  <2> QED
    BY <2>2 DEF Types, FileTyped, HistoryTyped, ReaderTyped
<1>1. ASSUME NEW p \in Process, Creation(p) PROVE Output'
  BY <1>1, CreationSteps DEF SparesUtil, Steady
<1>2. ASSUME NEW p \in Process, CallStep(p) PROVE Output'
  <2>1. /\ before' = before /\ crossed' = crossed /\ pc'[Util] = pc[Util] /\ UNCHANGED reader
        /\ ~muddled /\ Steady
    BY <1>2, CallSteps DEF SparesUtil, Steady
  <2>2. \A k \in Slots : sums[k] \subseteq sums'[k] /\ labels[k] \subseteq labels'[k]
    BY <1>2, Growth
  <2>3. pc[Util] \in {"ptext1", "ptext2", "pvalue"} => i \in Slots /\ mem'.cell[CounterAt(i)].used
    <3>1. SUFFICES ASSUME pc[Util] \in {"ptext1", "ptext2", "pvalue"}
                   PROVE  i \in Slots /\ mem'.cell[CounterAt(i)].used
      OBVIOUS
    <3>2. mem.cell[CounterAt(i)].used /\ i \in Slots
      BY <1>0, <2>1, <3>1, AtCounter DEF Output, Printing
    <3>3. CounterAt(i) \in Cells
      BY <3>2, Places
    <3> QED
      BY <1>2, <3>2, <3>3, Growth
  <2>4. \A l \in lines : Shown(l)'
    <3>1. SUFFICES ASSUME NEW l \in lines PROVE Shown(l)'
      OBVIOUS
    <3>2. l.at \in Slots /\ Shown(l)
      BY <1>0, <2>1 DEF Output, Line
    <3> QED
      BY <2>2, <3>2 DEF Shown
  <2>5. /\ pc[Util] \in {"ptext2", "pvalue"} => line[1] \in labels'[i]
        /\ pc[Util] = "pvalue" => line[2] \in labels'[i]
    BY <2>1, <2>2, <2>3 DEF Output
  <2>6. \A k \in before.named : k < i => \E l \in lines : l.at = k
    BY <2>1 DEF Output
  <2> QED
    BY <2>1, <2>3, <2>4, <2>5, <2>6 DEF Output, reader
<1>3. ASSUME NEW p \in Process, Kill(p) PROVE Output'
  BY <1>3, KillSteps DEF Output, Steady, Shown, SparesUtil, history, noted, reader
<1>4. CASE Measure
  <2>1. pc'[Util] = "touch" /\ i' = 0 /\ lines' = {}
    BY <1>0, <1>4, Bounds DEF Measure, Utility, Goto, Types, ReaderTyped, ActorsTyped, Actor
  <2>2. \A k \in before'.named : k \in Nat
    BY Bounds DEF Types, HistoryTyped
  <2> QED
    BY <2>1, <2>2 DEF Output
<1>5. CASE TouchAll \/ SectionPointers \/ CheckArch \/ BeginCounters
  <2>1. /\ pc'[Util] \in {"sections", "check", "print", "puse"} /\ Steady /\ ~muddled
        /\ i' = i /\ lines' = lines /\ UNCHANGED <<before, labels, sums>>
    BY <1>0, <1>5 DEF TouchAll, SectionPointers, CheckArch, BeginCounters, Utility, Goto,
       ActorsTyped, Actor, Steady, reader, history, noted
  <2> QED
    BY <2>1 DEF Output, Shown
<1>6. CASE CheckFails \/ EndCounters
  BY <1>0, <1>6 DEF CheckFails, EndCounters, Utility, Goto, ActorsTyped, Actor, Steady
<1>7. CASE PrintUsed
  <2>1. /\ Steady /\ ~muddled /\ pc[Util] = "puse" /\ i < limit
        /\ lines' = lines /\ UNCHANGED <<before, labels, sums, mem>>
    BY <1>0, <1>7 DEF PrintUsed, Utility, Goto, ActorsTyped, Actor, Steady, history, noted
  <2>2. InStep(i) /\ i \in Slots
    BY <2>1, AtCounter DEF Printing
  <2>3. \A l \in lines' : Shown(l)'
    BY <2>1 DEF Output, Shown
  <2>4. CASE pc'[Util] = "ptext1" /\ i' = i
    <3>1. mem.cell[CounterAt(i)].used
      BY <1>0, <1>7, <2>2, <2>4 DEF PrintUsed, InStep, Utility, Goto, ActorsTyped, Actor
    <3> QED
      BY <2>1, <2>3, <2>4, <3>1 DEF Output
  <2>5. CASE pc'[Util] = "puse" /\ i' = i + 1
    <3>1. ~mem.cell[CounterAt(i)].used
      BY <1>0, <1>7, <2>5 DEF PrintUsed, Utility, Goto, ActorsTyped, Actor
    <3>2. i \notin before.named
      BY <2>1, <2>2, <3>1 DEF InStep, Since, Steady
    <3>3. \A k \in before.named : k \in Nat /\ (k < i + 1 => k < i)
      BY <1>0, <3>2, Bounds, SMTT(60)
    <3> QED
      BY <2>1, <2>3, <2>5, <3>3 DEF Output
  <2> QED
    BY <1>0, <1>7, <2>4, <2>5 DEF PrintUsed, Utility, Goto, ActorsTyped, Actor
<1>8. CASE PrintLabel1
  <2>1. /\ Steady /\ ~muddled /\ pc[Util] = "ptext1" /\ i < limit /\ pc'[Util] = "ptext2"
        /\ line' = [line EXCEPT ![1] = mem.cell[LabelAt(layout[Util], i)].text[1]] /\ i' = i
        /\ lines' = lines /\ UNCHANGED <<before, labels, sums, mem>>
    BY <1>0, <1>8 DEF PrintLabel1, Utility, Goto, ActorsTyped, Actor, Steady, history, noted
  <2>2. InStep(i) /\ layout[Util] = mem.config
    BY <2>1, AtCounter DEF Printing
  <2>3. mem.cell[CounterAt(i)].used
    BY <2>1 DEF Output
  <2>4. line'[1] \in labels[i]
    BY <1>0, <2>1, <2>2, <2>3 DEF InStep
  <2>5. \A l \in lines' : Shown(l)'
    BY <2>1 DEF Output, Shown
  <2> QED
    BY <2>1, <2>3, <2>4, <2>5 DEF Output
<1>9. CASE PrintLabel2
  <2>1. /\ Steady /\ ~muddled /\ pc[Util] = "ptext2" /\ i < limit /\ pc'[Util] = "pvalue"
        /\ line' = [line EXCEPT ![2] = mem.cell[LabelAt(layout[Util], i)].text[2]] /\ i' = i
        /\ lines' = lines /\ UNCHANGED <<before, labels, sums, mem>>
    BY <1>0, <1>9 DEF PrintLabel2, Utility, Goto, ActorsTyped, Actor, Steady, history, noted
  <2>2. InStep(i) /\ layout[Util] = mem.config
    BY <2>1, AtCounter DEF Printing
  <2>3. mem.cell[CounterAt(i)].used /\ line[1] \in labels[i]
    BY <2>1 DEF Output
  <2>4. line'[1] \in labels[i] /\ line'[2] \in labels[i]
    BY <1>0, <2>1, <2>2, <2>3 DEF InStep
  <2>5. \A l \in lines' : Shown(l)'
    BY <2>1 DEF Output, Shown
  <2> QED
    BY <2>1, <2>3, <2>4, <2>5 DEF Output
<1>10. CASE PrintValue
  <2> DEFINE new == [at |-> i, text |-> line, value |-> mem.cell[CounterAt(i)].int]
  <2>1. /\ Steady /\ ~muddled /\ pc[Util] = "pvalue" /\ i < limit /\ pc'[Util] = "puse"
        /\ lines' = lines \cup {new} /\ i' = i + 1
        /\ UNCHANGED <<before, labels, sums, mem>>
    BY <1>0, <1>10 DEF PrintValue, Utility, Goto, ActorsTyped, Actor, Steady, history, noted
  <2>2. InStep(i) /\ i \in Slots
    BY <2>1, AtCounter DEF Printing
  <2>3. new.at = i /\ new.text = line /\ new.value = Wrapped(given[i])
    BY <2>2 DEF InStep
  <2>4. given[i] \in sums[i]
    BY <2>1, <2>2 DEF Since, Steady
  <2>5. Shown(new)
    BY <2>1, <2>3, <2>4 DEF Shown, Output
  <2>6. \A l \in lines' : Shown(l)'
    BY <2>1, <2>5 DEF Output, Shown
  <2>7. \A k \in before.named : k < i + 1 => \E l \in lines' : l.at = k
    <3>1. \A k \in before.named : k \in Nat /\ (k < i + 1 => k < i \/ k = i)
      BY <1>0, Bounds
    <3> QED
      BY <2>1, <2>3, <3>1 DEF Output
  <2> QED
    BY <2>1, <2>6, <2>7 DEF Output
<1>11. ASSUME NEW a \in Actor, Fault(a) PROVE Output'
  <2>1. /\ UNCHANGED <<mem, before, labels, sums, muddled, crossed, i, line, lines>>
        /\ pc' = [pc EXCEPT ![a] = "killed"] /\ pc[a] # "off"
    BY <1>11, FaultSteps DEF history, noted, reader, Touching, Calling
  <2>2. Steady /\ ~muddled /\ (pc'[Util] = pc[Util] \/ pc'[Util] = "killed")
    BY <1>0, <2>1 DEF Steady, ActorsTyped, Actor
  <2> QED
    BY <2>1, <2>2 DEF Output, Shown
<1>12. CASE UNCHANGED vars
  BY <1>12 DEF vars, Output, Steady, Shown, history, noted, reader
<1> QED
  BY <1>1, <1>2, <1>3, <1>4, <1>5, <1>6, <1>7, <1>8, <1>9, <1>10, <1>11, <1>12, StepKinds DEF Next, Run

-----------------------------------------------------------------------------
(* The theorems.                                                           *)

LEMMA Invariant == Spec => []IInv
<1>1. Init => IInv
  BY Initially
<1>2. IInv /\ [Next]_vars => IInv'
  <2> SUFFICES ASSUME IInv, [Next]_vars PROVE IInv'
    OBVIOUS
  <2>1. Types /\ OneConfig /\ Shape /\ InOrder /\ CallsInOrder /\ Since /\ Output
    BY DEF IInv
  <2>2. Types'
    BY <2>1, TypesInductive
  <2>3. OneConfig' /\ Shape'
    BY <2>1, OneConfigInductive, ShapeInductive
  <2>4. InOrder' /\ CallsInOrder'
    BY <2>1, <2>2, InOrderInductive, CallsInOrderInductive
  <2>5. Since'
    BY <2>1, <2>2, SinceInductive
  <2>6. Output'
    BY <2>1, <2>2, <2>5, OutputInductive
  <2> QED
    BY <2>2, <2>3, <2>4, <2>5, <2>6 DEF IInv
<1> QED
  BY <1>1, <1>2, PTL DEF Spec

\* The file has the size of one configuration, and every actor goes by a number of
\* counters that a configuration has: any of them, in any state of the file.
THEOREM TypeCorrect == Spec => []TypeOK
<1>1. IInv => TypeOK
  <2> SUFFICES ASSUME Types PROVE TypeOK
    BY DEF IInv
  <2>1. FileTyped /\ ActorsTyped /\ JobsTyped /\ ReaderTyped /\ HistoryTyped
    BY DEF Types
  <2>2. \A p \in Process : Alive(p) => layout[p].counters \in Powers
    BY <2>1, ConfigTyped DEF JobsTyped
  <2>3. \A s \in Slots : labels[s] \subseteq Text
    BY <2>1 DEF HistoryTyped
  <2>4. DOMAIN mem.cell = Cells /\ \A c \in Cells : mem.cell[c].int \in Ints
    BY <2>1 DEF FileTyped, Cell
  <2> QED
    BY <2>1, <2>2, <2>3, <2>4 DEF TypeOK, FileTyped, ActorsTyped, ReaderTyped
<1> QED
  BY <1>1, Invariant, PTL

\* Programs that ask for the same configuration, use ids below its number of
\* counters and log no row by a cleared header do each other and the utility no harm;
\* no program ever harms a utility that measured the file after the program's last
\* step of log2mem_init, but by dying half way.
THEOREM KilledNobody == Spec => []NobodyKilled
<1>1. IInv => NobodyKilled
  <2> SUFFICES ASSUME Types, OneConfig, Shape PROVE NobodyKilled
    BY DEF IInv
  <2>1. ASSUME Cardinality(configs) = 1, ~blind, \A c \in configs, id \in Id : id < c.counters
        PROVE  \A a \in Actor : pc[a] # "killed"
    <3>1. PICK n : configs = {n}
      BY <2>1, FS_Singleton DEF Types, HistoryTyped
    <3>2. n \in Configs /\ Only(n)
      BY <2>1, <3>1 DEF Types, HistoryTyped, Only
    <3> QED
      BY <3>2 DEF OneConfig, Alone
  <2>2. pc[Util] = "killed" => crossed \/ before.cut
    BY DEF Shape, Steady
  <2> QED
    BY <2>1, <2>2 DEF NobodyKilled
<1> QED
  BY <1>1, Invariant, PTL

\* A run of the utility that no creation crossed, on a file in order, shows every
\* counter whose label call had returned, and of each a count that it had, wrapped to
\* an int, at some time between the beginning of the run and now.
THEOREM CountsPrinted == Spec => []PrintedCounts
<1>1. IInv => PrintedCounts
  <2> SUFFICES ASSUME Types, Shape, InOrder, Since, Output, pc[Util] = "puse", i = limit, Undisturbed
               PROVE  /\ before.named \subseteq {l.at : l \in lines}
                      /\ \A l \in lines : /\ labels[l.at] # {}
                                          /\ \E sum \in sums[l.at] : l.value = Wrapped(sum)
    BY DEF IInv, PrintedCounts
  <2>1. Steady /\ ~muddled /\ mem.arch /\ limit = mem.config.counters
    BY DEF Undisturbed, Steady, Shape, Printing
  <2>2. \A l \in lines : Shown(l)
    BY <2>1 DEF Output
  <2>3. before.named \subseteq named
    BY <2>1 DEF Since, Steady
  <2>4. ASSUME NEW k \in before.named PROVE \E l \in lines : l.at = k
    <3>1. k \in named /\ k \in Slots /\ labels[k] # {}
      BY <2>1, <2>3 DEF InOrder, Types, HistoryTyped
    <3>2. mem.config # NoConfig
      BY <2>1, <3>1 DEF InOrder, Types, HistoryTyped
    <3>3. k < i
      BY <2>1, <3>1, <3>2 DEF InOrder
    <3> QED
      BY <2>1, <3>3 DEF Output
  <2> QED
    BY <2>2, <2>4 DEF Shown
<1> QED
  BY <1>1, Invariant, PTL

\* A counter that was given one label only is shown with the whole of it.
THEOREM LabelsWhole == Spec => []LabelWhole
<1>1. IInv => LabelWhole
  <2> SUFFICES ASSUME Types, Output, Undisturbed, NEW l \in lines, NEW x \in Text, labels[l.at] = {x}
               PROVE  l.text = <<x, x>>
    BY DEF IInv, LabelWhole
  <2>1. pc[Util] # "off"
    BY DEF Types, ReaderTyped
  <2>2. Shown(l)
    BY <2>1 DEF Output, Steady, Undisturbed
  <2>3. l.text \in Half \X Half
    BY DEF Types, ReaderTyped, Line
  <2> QED
    BY <2>2, <2>3 DEF Shown
<1> QED
  BY <1>1, Invariant, PTL
=============================================================================
