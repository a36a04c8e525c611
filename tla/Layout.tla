------------------------------- MODULE Layout -------------------------------
(***************************************************************************)
(* The layout of the memmap and the addresses of its slots: log2mem_init's *)
(* copy of the caller's configuration, the rounding and the layout done by *)
(* __log2mem_create, and the address each entry point derives from an id.  *)
(*                                                                         *)
(* int and unsigned int have IntBits bits: what an int cannot hold wraps,  *)
(* as the multiply and the stores of the x86 build do.  Structure sizes    *)
(* are those of the x86-64 build.                                          *)
(***************************************************************************)
EXTENDS Integers, FiniteSetsExt

CONSTANTS
  IntBits,      \* bits of an int, 32 in the build
  PageSize,     \* getpagesize()
  UserConfig,   \* the configurations passed to log2mem_init
  FieldsPassed, \* how many fields the caller's struct log2mem_config has
  Id            \* the ids passed to the entry points

\* An int has at least 16 bits in C, and the rounding below is written for up to 32.
ASSUME BitsAssumption == IntBits \in 16 .. 32 /\ PageSize \in {8 * k : k \in 1 .. 512}

\* The value of bit k of an int, and how many values an int has.
Bit[k \in 0 .. IntBits] == IF k = 0 THEN 1 ELSE 2 * Bit[k - 1]
IntMod == Bit[IntBits]
UInt   == 0 .. IntMod - 1

Field == <<"options", "num_counters", "num_rows", "row_len", "num_vars">>
FieldName == {Field[k] : k \in 1 .. 5}

ASSUME InputAssumption ==
  UserConfig \subseteq [FieldName -> UInt] /\ FieldsPassed \subseteq 1 .. 5 /\ Id \subseteq UInt

HeaderSize      == 256   \* MEMLOG_MM_HEADER_SIZE
SizeofRow       == 24
SizeofCounter   == 8
SizeofLabel     == 64    \* MEMLOG_LABEL_LEN
SizeofVarDouble == 80
SizeofVarInt    == 72

VARIABLES
  phase,   \* how far the initialisation is
  cfg,     \* struct log2mem_config
  lay,     \* struct log2mem_layout
  access   \* the bytes the latest call touched, and for what

vars == <<phase, cfg, lay, access>>

-----------------------------------------------------------------------------
(* Integer conversions.                                                    *)

Unsigned(n) == n % IntMod
Signed(n)   == LET u == Unsigned(n) IN IF u < Bit[IntBits - 1] THEN u ELSE u - IntMod

BitOf(a, k) == (a \div Bit[k]) % 2
\* The number with these bits.
Value(bits) == LET sum[k \in 0 .. IntBits] == IF k = 0 THEN 0 ELSE sum[k - 1] + Bit[k - 1] * bits[k - 1]
               IN  sum[IntBits]
And(a, b)   == Value([k \in 0 .. IntBits - 1 |-> BitOf(a, k) * BitOf(b, k)])
Or(a, b)    == Value([k \in 0 .. IntBits - 1 |-> IF BitOf(a, k) = 1 \/ BitOf(b, k) = 1 THEN 1 ELSE 0])

Align_Not(n, to) == n                        \* wrong: SectionsApart
Align(n, to) == ((n + (to - 1)) \div to) * to   \* (n + to - 1) & ~(to - 1)

\* round_up_next_power_of_2_uint: the lines v |= v >> k, between v-- and v++.
Smear(v, k) == Or(v, v \div Bit[k])
RoundUpPower_Not(n) == n       \* wrong: TurnOfDistinctRows
RoundUpPower_NoLast(n) ==      \* wrong: RoundsUp
  Unsigned(Smear(Smear(Smear(Unsigned(n - 1), 1), 2), 4) + 1)
RoundUpPower(n) ==
  Unsigned(Smear(Smear(Smear(Smear(Smear(Unsigned(n - 1), 1), 2), 4), 8), 16) + 1)
OneIfZero(n) == IF n = 0 THEN 1 ELSE n

-----------------------------------------------------------------------------
(* log2mem_calculate_layout.                                               *)

RowTotalSize(c) == SizeofRow + c.row_len

Offsets(c) ==
  LET counters == HeaderSize
      rows     == counters + Align(c.num_counters * SizeofCounter, 8)
      labels   == rows + Align(c.num_rows * RowTotalSize(c), 8)
      doubles  == labels + Align(c.num_counters * SizeofLabel, 8)
      ints     == doubles + Align(c.num_vars * SizeofVarDouble, 8)
  IN  [counters |-> counters, rows |-> rows, labels |-> labels, doubles |-> doubles,
       ints |-> ints, size |-> Align(ints + c.num_vars * SizeofVarInt, PageSize)]

CalculateLayout_Wide(c) == Offsets(c)   \* wrong: TypeOK
CalculateLayout(c) == [s \in DOMAIN Offsets(c) |-> Signed(Offsets(c)[s])]

-----------------------------------------------------------------------------
(* log2mem_init and __log2mem_create.                                      *)

ZeroConfig == [f \in FieldName |-> 0]
NoLayout   == Offsets(ZeroConfig)
NoAccess   == [part |-> "none", slot |-> 0, lo |-> 0, hi |-> 0]

Init ==
  /\ phase = "called"
  /\ cfg = ZeroConfig
  /\ lay = NoLayout
  /\ access = NoAccess

\* memset and memcpy(&config, userconfig, configsize).  A configsize larger than this
\* library's struct, of a caller compiled to a newer one, would be copied beyond the
\* local config: that is not modelled.
CopyConfig ==
  /\ phase = "called"
  /\ \E user \in UserConfig, n \in FieldsPassed :
       cfg' = [f \in DOMAIN ZeroConfig |->
                 IF \E k \in 1 .. n : Field[k] = f THEN user[f] ELSE 0]
  /\ phase' = "copied"
  /\ UNCHANGED <<lay, access>>

RoundConfig ==
  /\ phase = "copied"
  /\ cfg' = [cfg EXCEPT !.num_counters = OneIfZero(RoundUpPower(@)),
                        !.num_rows     = OneIfZero(RoundUpPower(@)),
                        !.num_vars     = RoundUpPower(@)]
  /\ phase' = "rounded"
  /\ UNCHANGED <<lay, access>>

LayOut ==
  /\ phase = "rounded"
  /\ lay' = CalculateLayout(cfg)
  /\ phase' = "sized"
  /\ UNCHANGED <<cfg, access>>

\* ftruncate and mmap refuse a size that is not positive: exit(1).
MapFile ==
  /\ phase = "sized"
  /\ phase' = IF lay.size > 0 THEN "mapped" ELSE "exited"
  /\ UNCHANGED <<cfg, lay, access>>

-----------------------------------------------------------------------------
(* The entry points: id & (number - 1), and the slot's address.            *)

Index_NoMask(id, number) == Signed(And(id, number))   \* wrong: AccessInSection
Index(id, number) == Signed(And(id, Unsigned(number - 1)))

Slot(part, id) ==
  LET at == CASE part = "counters" -> lay.counters + Index(id, cfg.num_counters) * SizeofCounter
              [] part = "labels"   -> lay.labels + Index(id, cfg.num_counters) * SizeofLabel
              [] part = "rows"     -> lay.rows + Signed(Index(id, cfg.num_rows) * RowTotalSize(cfg))
              [] part = "doubles"  -> lay.doubles + Index(id, cfg.num_vars) * SizeofVarDouble
              [] part = "ints"     -> lay.ints + Index(id, cfg.num_vars) * SizeofVarInt
      n  == CASE part = "counters" -> SizeofCounter [] part = "labels" -> SizeofLabel
              [] part = "rows" -> RowTotalSize(cfg)
              [] part = "doubles" -> SizeofVarDouble [] part = "ints" -> SizeofVarInt
  IN  [part |-> part, slot |-> id, lo |-> at, hi |-> at + n]

Touch(part) ==
  /\ phase = "mapped"
  /\ \E id \in Id : access' = Slot(part, id)
  /\ UNCHANGED <<phase, cfg, lay>>

CounterAdd   == Touch("counters")
CounterLabel == Touch("labels")
UseRow       == Touch("rows")
VarDouble    == Touch("doubles")
VarInt       == Touch("ints")

Next == \/ CopyConfig \/ RoundConfig \/ LayOut \/ MapFile
        \/ CounterAdd \/ CounterLabel \/ UseRow \/ VarDouble \/ VarInt

Spec == Init /\ [][Next]_vars

-----------------------------------------------------------------------------
(* Properties.                                                             *)

Parts == <<"counters", "rows", "labels", "doubles", "ints", "size">>
Behind(part) == Parts[(CHOOSE k \in 1 .. 5 : Parts[k] = part) + 1]

\* The whole region can be measured by an int.
Representable == Offsets(cfg).size < Bit[IntBits - 1]

TypeOK ==
  /\ phase \in {"called", "copied", "rounded", "sized", "mapped", "exited"}
  /\ \A f \in DOMAIN ZeroConfig : cfg[f] \in UInt
  /\ \A p \in DOMAIN NoLayout : lay[p] \in -Bit[IntBits - 1] .. Bit[IntBits - 1] - 1
  /\ access.lo <= access.hi

\* The smallest 2^m that is not below n; 0 for 0, and 0 where that 2^m is one more
\* than an unsigned int holds.
NextPower(n) ==
  LET powers == {k \in 0 .. IntBits - 1 : Bit[k] >= n}
  IN  IF n = 0 \/ powers = {} THEN 0 ELSE Bit[Min(powers)]

\* Numbers of counters, rows and variables are rounded as the comment above the
\* function promises: no shift is missing for an int of this width, and neither
\* the wrap of 0 - 1 nor that of all ones + 1 gives a wrong number.
RoundsUp ==
  phase = "copied" =>
    \A f \in {"num_counters", "num_rows", "num_vars"} :
      RoundUpPower(cfg[f]) = NextPower(cfg[f])

\* A region an int can measure is mapped, with the sections in order behind the
\* header, each on an 8 byte boundary and none reaching into the next.
SectionsApart ==
  (phase \in {"mapped", "exited"} /\ Representable) =>
    /\ phase = "mapped"
    /\ lay.counters >= HeaderSize
    /\ lay.rows >= lay.counters + cfg.num_counters * SizeofCounter
    /\ lay.labels >= lay.rows + cfg.num_rows * RowTotalSize(cfg)
    /\ lay.doubles >= lay.labels + cfg.num_counters * SizeofLabel
    /\ lay.ints >= lay.doubles + cfg.num_vars * SizeofVarDouble
    /\ lay.size >= lay.ints + cfg.num_vars * SizeofVarInt
    /\ \A p \in DOMAIN lay : lay[p] % 8 = 0

\* Whatever id a call is given, it touches only its own section of the region,
\* unless there are no variables for it to touch.
AccessInSection ==
  (Representable /\ access.part # "none"
     /\ (access.part \in {"doubles", "ints"} => cfg.num_vars > 0)) =>
    lay[access.part] <= access.lo /\ access.hi <= lay[Behind(access.part)]

\* Within one turn of the buffer, row ids are given rows that do not overlap, a
\* turn that runs over the end of the unsigned row id included.
TurnOfDistinctRows ==
  (phase = "mapped" /\ Representable) =>
    \A id \in Id : \A d \in 1 .. cfg.num_rows - 1 :
      LET r == Slot("rows", id)  q == Slot("rows", Unsigned(id + d))
      IN  r.hi <= q.lo \/ q.hi <= r.lo

\* "so that we can deal with a client applicaiton that might be compiled to an
\* older version of the config struct" (log2mem.c): a caller whose struct ends
\* before num_vars still touches only the section it means to.
OldClientInSection ==
  (Representable /\ access.part # "none") =>
    lay[access.part] <= access.lo /\ access.hi <= lay[Behind(access.part)]

\* "whole region footprint" (log2mem_dev.h): the mapped size covers all sections.
SizeIsFootprint == phase = "mapped" => lay.size >= Offsets(cfg).ints + cfg.num_vars * SizeofVarInt
=============================================================================
