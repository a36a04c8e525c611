------------------------------ MODULE RowDump ------------------------------
(***************************************************************************)
(* print_rows of util/log2memutil.c reading the row buffer of RowLog: the  *)
(* utility maps the same file, takes no lock, and reads the rows while the *)
(* program writes them or after the program has ended or died.             *)
(*                                                                         *)
(* A line keeps what is printed of a row: the header fields, and of each   *)
(* item whose message wrote it, its kind and its offset.  line.of and      *)
(* line.whole are history: the claim the row had when the line began, and  *)
(* whether that claim alone had written the row up to the line's end.      *)
(***************************************************************************)
EXTENDS RowLog

CONSTANTS
  Earlier,  \* the numbers of empty rows logged before a behaviour begins
  MaxNew    \* bound on the rows claimed after them
ASSUME EarlierAssumption == Earlier \subseteq Nat /\ MaxNew \in Nat

VARIABLES
  earlier,  \* the rows logged before the behaviour begins
  mixed,    \* history: the slots with a content that threads which shared them left
  alive,    \* the program runs
  late,     \* history: it did no more when the dump began
  rd,       \* where print_rows is
  i,        \* its loop counter
  low,      \* lowest_rowid
  off,      \* the offset of the next item in the row being printed
  line,     \* the line being printed
  lines     \* the lines printed

reader == <<rd, i, low, off, line, lines>>
dvars  == <<vars, earlier, mixed, alive, late, reader>>

Junk == [by |-> Nobody, item |-> "int", at |-> 1]
NoLine == [slot |-> 0, id |-> 0, ts |-> Nobody, tid |-> NoThread, items |-> <<>>,
           of |-> Nobody, from |-> 0, whole |-> FALSE]

RowIdx(n) == n % NumRows   \* next_rowid & (num_rows - 1)

\* What lies off cells behind the start of a payload; beyond the end of the row
\* it is the next row's header, which is no item.
CellAt(s, o) == IF o < RowLen THEN rows[s].cells[o] ELSE Junk

\* hdr->len of what is taken for an item header.  Never written memory is zero.  The
\* middle of an item gives any number; the bound on it is RowLen, while the code's
\* is that of an unsigned int, so that its walk may also leave the memmap, or go
\* backwards where the sum is negative.  Nothing is claimed of such a walk.
HdrLen_Payload(c) == {IF c.at # 0 \/ c.by = Nobody THEN 0 ELSE Size[c.item] - 1}   \* wrong: LiveDumpEnds, WalkAdvances
HdrLen(c) == IF c.at # 0 THEN 0 .. RowLen
             ELSE IF c.by = Nobody THEN {0} ELSE {Size[c.item]}

-----------------------------------------------------------------------------
\* The program ends or is killed: its threads stop wherever they are.
End ==
  /\ alive
  /\ alive' = FALSE
  /\ UNCHANGED <<vars, earlier, mixed, late, reader>>

\* One step of the scan for the lowest row id.
Scan ==
  /\ rd = "scan"
  /\ late' = IF i = 0 THEN ~alive ELSE late
  /\ IF i < NumRows
     THEN /\ low' = IF rows[i].id <= low THEN rows[i].id ELSE low
          /\ i' = i + 1
          /\ UNCHANGED rd
     ELSE /\ rd' = "row"
          /\ i' = 0
          /\ UNCHANGED low
  /\ UNCHANGED <<vars, earlier, mixed, alive, off, line, lines>>

Here_SlotZero == i   \* wrong: DumpInOrder
Here == RowIdx((low + i) % IdMod)   \* next_rowid is an unsigned int

\* Wrong, DumpComplete: the dump ends at the first empty row.
SkipEmpty_Stop ==
  /\ rd = "row" /\ i < NumRows
  /\ rows[Here].datalen = 0
  /\ i' = NumRows
  /\ UNCHANGED <<vars, earlier, mixed, alive, late, rd, low, off, line, lines>>

SkipEmpty ==
  /\ rd = "row" /\ i < NumRows
  /\ rows[Here].datalen = 0
  /\ i' = i + 1
  /\ UNCHANGED <<vars, earlier, mixed, alive, late, rd, low, off, line, lines>>

\* Wrong, DumpTypeOK: one turn too many.
BeginLine_OneMore ==
  /\ rd = "row" /\ i <= NumRows
  /\ rows[Here].datalen # 0
  /\ line' = [NoLine EXCEPT !.slot = Here, !.of = owner[Here],
                            !.from = rows[Here].datalen, !.whole = Settled(Here)]
  /\ rd' = "head"
  /\ UNCHANGED <<vars, earlier, mixed, alive, late, i, low, off, lines>>

BeginLine ==
  /\ rd = "row" /\ i < NumRows
  /\ rows[Here].datalen # 0
  /\ line' = [NoLine EXCEPT !.slot = Here, !.of = owner[Here],
                            !.from = rows[Here].datalen, !.whole = Settled(Here)]
  /\ rd' = "head"
  /\ UNCHANGED <<vars, earlier, mixed, alive, late, i, low, off, lines>>

\* The loads of id, ts and tid, in one step: of a row whose line can be relied on
\* only log2mem_set_ts stores any of them, and of the others nothing is claimed.
ReadHead ==
  /\ rd = "head"
  /\ line' = [line EXCEPT !.id = rows[line.slot].id, !.ts = rows[line.slot].ts,
                          !.tid = rows[line.slot].tid]
  /\ off' = 0
  /\ rd' = "item"
  /\ UNCHANGED <<vars, earlier, mixed, alive, late, i, low, lines>>

ReadItem ==
  /\ rd = "item"
  /\ off < rows[line.slot].datalen
  /\ LET c == CellAt(line.slot, off) IN
       line' = [line EXCEPT !.items = IF Len(@) > RowLen THEN @
                  ELSE Append(@, [by |-> c.by, item |-> c.item, head |-> c.at = 0,
                                  pos |-> off])]
  /\ rd' = "step"
  /\ UNCHANGED <<vars, earlier, mixed, alive, late, i, low, off, lines>>

\* Wrong, WholeLineExact: to the next cell, whatever the item's length.
StepOver_Cell ==
  /\ rd = "step"
  /\ off' = off + 1
  /\ rd' = "item"
  /\ UNCHANGED <<vars, earlier, mixed, alive, late, i, low, line, lines>>

\* i += hdr->len, which is loaded again after the item was printed.
StepOver ==
  /\ rd = "step"
  /\ \E n \in HdrLen(CellAt(line.slot, off)) : off' = off + n
  /\ rd' = "item"
  /\ UNCHANGED <<vars, earlier, mixed, alive, late, i, low, line, lines>>

EndLine ==
  /\ rd = "item"
  /\ off >= rows[line.slot].datalen
  /\ lines' = Append(lines, [line EXCEPT
       !.whole = @ /\ clean[line.slot] /\ owner[line.slot] = line.of])
  /\ line' = NoLine
  /\ off' = 0
  /\ i' = i + 1
  /\ rd' = "row"
  /\ UNCHANGED <<vars, earlier, mixed, alive, late, low>>

EndDump ==
  /\ rd = "row" /\ i = NumRows
  /\ rd' = "done"
  /\ UNCHANGED <<vars, earlier, mixed, alive, late, i, low, off, line, lines>>

-----------------------------------------------------------------------------
\* The claim a slot was last given when n rows had been claimed.
LastClaim(s, n) == LET c == {k \in Nat \cap (n - NumRows .. n - 1) : Slot(k) = s}
                   IN  IF c = {} THEN Nobody ELSE CHOOSE k \in c : TRUE

\* The state after earlier rows were claimed by t, each let go of without a push.
Begun(t) ==
  /\ claims = earlier
  /\ owner = [s \in Slots |-> LastClaim(s, earlier)]
  /\ rows = [s \in Slots |-> IF owner[s] = Nobody THEN EmptyRow ELSE
                [EmptyRow EXCEPT !.id = RowId(owner[s]),
                   !.tid = IF "THREADID" \in Options THEN t ELSE @,
                   !.ts  = IF "CLOCK" \in Options THEN owner[s] ELSE @]]
  /\ pc = [u \in Thread |-> "idle"]
  /\ claim = [u \in Thread |-> 0]
  /\ todo = [u \in Thread |-> <<>>]
  /\ seen = [u \in Thread |-> 0]
  /\ clean = [s \in Slots |-> TRUE]
  /\ overrun = FALSE

DumpInit ==
  /\ earlier \in Earlier
  /\ \E t \in Thread : Begun(t)
  /\ mixed = {} /\ alive = TRUE /\ late = FALSE
  /\ rd = "scan" /\ i = 0 /\ low = IdMod - 1 /\ off = 0
  /\ line = NoLine /\ lines = <<>>

PrintRows ==
  \/ Scan \/ SkipEmpty \/ BeginLine \/ ReadHead
  \/ ReadItem \/ StepOver \/ EndLine \/ EndDump

\* What threads left in a row they shared stays there until its datalen is reset.
Program ==
  /\ alive /\ Next
  /\ claims' <= earlier + MaxNew
  /\ mixed' = {s \in Slots : ~clean'[s] \/ (s \in mixed /\ rows'[s].datalen # 0)}
  /\ UNCHANGED <<earlier, alive, late, reader>>

DumpNext == Program \/ End \/ PrintRows

\* The utility is a process the kernel runs; no step of the program is assumed.
DumpSpec == DumpInit /\ [][DumpNext]_dvars /\ WF_dvars(PrintRows)

-----------------------------------------------------------------------------
(* Properties.                                                             *)

DumpTypeOK ==
  /\ TypeOK
  /\ alive \in BOOLEAN /\ late \in BOOLEAN
  /\ rd \in {"scan", "row", "head", "item", "step", "done"}
  /\ i \in 0 .. NumRows
  /\ low \in 0 .. IdMod - 1
  /\ off \in Nat
  /\ line.slot \in Slots
  /\ Len(lines) <= NumRows

\* A line whose row only its own claim wrote, and which was not claimed again
\* while it was printed, shows one message: its id, its time, and its items
\* whole, in order, without a gap, up to at least the length seen at the start.
WholeLineExact ==
  \A k \in DOMAIN lines :
    LET l == lines[k] n == Len(l.items) IN
      l.whole =>
        /\ l.id = RowId(l.of)
        /\ "CLOCK" \in Options => l.ts = l.of
        /\ n > 0 /\ l.items[1].pos = 0
        /\ \A m \in 1 .. n : l.items[m].by = l.of /\ l.items[m].head
        /\ \A m \in 1 .. n - 1 :
             l.items[m + 1].pos = l.items[m].pos + Size[l.items[m].item]
        /\ l.items[n].pos + Size[l.items[n].item] >= l.from

Over == ~alive /\ \A s \in Slots : clean[s]

\* A dump begun when the program was over shows every row with a content, once,
\* and no other row, also where row ids have wrapped, or where slots hold ids
\* out of turn because their writers died before the id was stored.
DumpComplete ==
  (rd = "done" /\ late) =>
  /\ {lines[k].slot : k \in DOMAIN lines} = {s \in Slots : rows[s].datalen # 0}
  /\ \A j, k \in DOMAIN lines : lines[j].slot = lines[k].slot => j = k

\* In the dump of a log whose writers had all let go of their rows, none shared,
\* the lines are of the newest messages, each newer than the one before it; only
\* where row ids began again at zero may the newer part of them come first.
DumpInOrder ==
  (rd = "done" /\ late /\ Over /\ \A t \in Thread : pc[t] = "idle") =>
  /\ {lines[k].of : k \in DOMAIN lines} \subseteq claims - NumRows .. claims - 1
  /\ LET back == {k \in 2 .. Len(lines) : lines[k].of < lines[k - 1].of} IN
       /\ claims <= IdMod => back = {}
       /\ \A k \in back : back = {k} /\ lines[Len(lines)].of < lines[1].of

\* Over what a program that is over left in a row, finished or not, by one thread at
\* a time, the walk goes from each item to the next, ends where the row's content
\* ends, and finds no header of length zero: also where a thread died between two
\* stores, or had just taken the row when it held an earlier message.
WalkAdvances ==
  [][(StepOver /\ late /\ line.slot \notin mixed) =>
       off < off' /\ off' <= rows[line.slot].datalen]_dvars

\* So a dump taken after the program ended or was killed terminates.
DumpEnds == (~alive /\ mixed = {} /\ rd = "scan" /\ i = 0) ~> (rd = "done")

\* Beside a running program it terminates unless the row it prints is claimed
\* again under its feet, or was shared or not yet reset when it came to it.
Astray == rd \in {"head", "item", "step"} /\ (~line.whole \/ ~clean[line.slot] \/ owner[line.slot] # line.of)
LiveDumpEnds == <>(rd = "done" \/ Astray)
=============================================================================
