------------------------------- MODULE RowLog -------------------------------
(***************************************************************************)
(* The circular buffer of log rows kept in the memmap by                   *)
(* liblog2mem/log2mem.c, as the threads of one process write it.           *)
(*                                                                         *)
(* A thread claims a row with one atomic increment of header->nextrow and  *)
(* then fills the row with plain stores: no lock is taken, and nothing     *)
(* stops a second thread from being given the same row once num_rows       *)
(* further claims were made.  The model therefore takes the stores, and    *)
(* every load of the shared row->datalen, as steps of their own, but for   *)
(* two groups: tid and ts (Stamp), which precede the id and which nobody   *)
(* acts on, and the bytes of one item (PutCells), which no reader looks at *)
(* before datalen has grown, but in a row that threads share, of whose     *)
(* content nothing is claimed.                                             *)
(*                                                                         *)
(* Row contents are cells, a cell being one allocation unit of a row; an   *)
(* item (data header and payload) takes Size[item] consecutive cells.      *)
(* owner, clean and overrun are history variables: the code keeps none of  *)
(* them and no guard reads them.                                           *)
(***************************************************************************)
EXTENDS Integers, Sequences

CONSTANTS
  Thread,     \* the threads that log
  NoThread,   \* the thread id in a row nobody has stamped (memset to zero)
  NumRows,    \* header->config.num_rows, after rounding to a power of two
  Laps,       \* 2^32 / num_rows: laps of the buffer before row ids repeat
  RowLen,     \* header->config.row_len, in cells
  Size,       \* cells taken by an item of each kind, data header included
  Options,    \* header->config.options, a subset of OptionNames
  MaxClaims   \* bound on the number of rows claimed in a behaviour

OptionNames == {"FILELINE", "THREADID", "CLOCK"}
Item == DOMAIN Size

ASSUME ThreadAssumption == NoThread \notin Thread
ASSUME RowsAssumption   == NumRows \in Nat \ {0} /\ Laps \in Nat \ {0}
ASSUME LenAssumption    == RowLen \in Nat
ASSUME SizeAssumption   == /\ Size \in [Item -> Nat \ {0}]
                           /\ {"filename", "lineno", "string", "int"} \subseteq Item
ASSUME OptionAssumption == Options \subseteq OptionNames
ASSUME BoundAssumption  == MaxClaims \in Nat

VARIABLES
  claims,   \* rows claimed so far; header->nextrow holds it modulo 2^32
  rows,     \* the rows section of the memmap
  pc,       \* where each thread is
  claim,    \* the number of the claim that gave each thread its row, 0 when idle
  todo,     \* the pushes a thread's current call has still to make
  seen,     \* the row->datalen a thread has in a register, 0 when dead
  owner,    \* history: the latest claim of each slot
  clean,    \* history: no other thread held the slot at its latest claim
  overrun   \* history: a push has stored beyond the end of its row

vars == <<claims, rows, pc, claim, todo, seen, owner, clean, overrun>>

-----------------------------------------------------------------------------
(* Rows and their contents.                                                *)

IdMod    == NumRows * Laps
Slots    == 0 .. NumRows - 1
Nobody   == -1
Slot_HalfMask(c) == (c % IdMod) % (NumRows \div 2)   \* wrong: LapNeedsFullTurn
RowId(c) == c % IdMod            \* unsigned int arithmetic on nextrow
Slot(c)  == RowId(c) % NumRows   \* rowid & (num_rows - 1)

Blank    == [by |-> Nobody, item |-> "int", at |-> 0]
EmptyRow == [tid |-> NoThread, ts |-> Nobody,
             id |-> 0, datalen |-> 0,
             cells |-> [o \in 0 .. RowLen - 1 |-> Blank]]

\* The cells an item is stored as, and a push of them behind row->datalen.
Image(i)  == [k \in 1 .. Size[i] |-> [item |-> i, at |-> k - 1]]
Push_AtZero(i) == [img |-> Image(i), atZero |-> TRUE]   \* wrong: ImplementsCircularLog
Push(i)   == [img |-> Image(i), atZero |-> FALSE]
\* What log2mem_time_event4 stores, at payload offset zero, as one block.
EventImage(hasStr) ==
  Image("int") \o Image("int") \o (IF hasStr THEN Image("string") ELSE <<>>)

MySlot(t)   == Slot(claim[t])
Holds(t, s) == pc[t] # "idle" /\ MySlot(t) = s
Filling     == {"stamp", "id", "reset"}   \* inside __log2mem_init_row's stores
Goto(t, l)  == pc' = [pc EXCEPT ![t] = l]

-----------------------------------------------------------------------------
(* __log2mem_init_row and the calls that begin with it.                    *)

\* The atomic increment of nextrow, which picks the row.
InitRow(t, pushes) ==
  /\ pc[t] = "idle"
  /\ claims < MaxClaims
  /\ claims' = claims + 1
  /\ claim' = [claim EXCEPT ![t] = claims]
  /\ todo' = [todo EXCEPT ![t] = pushes]
  /\ owner' = [owner EXCEPT ![Slot(claims)] = claims]
  /\ clean' = [clean EXCEPT ![Slot(claims)] =
                               \A u \in Thread : ~Holds(u, Slot(claims))]
  /\ Goto(t, "stamp")
  /\ UNCHANGED <<rows, seen, overrun>>

FileAndLine(named) ==
  IF named /\ "FILELINE" \in Options
  THEN <<Push("filename"), Push("lineno")>> ELSE <<>>

GetRow(t) == \E named \in BOOLEAN : InitRow(t, FileAndLine(named))

Write(t) ==
  \E named, hasStr \in BOOLEAN :
    InitRow(t, FileAndLine(named) \o (IF hasStr THEN <<Push("string")>> ELSE <<>>))

TimeEvent(t) ==
  \E hasStr \in BOOLEAN :
    InitRow(t, <<[img |-> EventImage(hasStr), atZero |-> TRUE]>>)

\* The thread id and the time, in one step: each only if the options ask for it, so that
\* otherwise the fields keep what the slot's previous user left there.
Stamp(t) ==
  /\ pc[t] = "stamp"
  /\ rows' = [rows EXCEPT
       ![MySlot(t)].tid = IF "THREADID" \in Options THEN t ELSE @,
       ![MySlot(t)].ts  = IF "CLOCK" \in Options THEN claim[t] ELSE @]
  /\ Goto(t, "id")
  /\ UNCHANGED <<claims, claim, todo, seen, owner, clean, overrun>>

\* Wrong, RowInv: the id is taken from nextrow again, not from the claim.
StoreId_Reread(t) ==
  /\ pc[t] = "id"
  /\ rows' = [rows EXCEPT ![MySlot(t)].id = RowId(claims - 1)]
  /\ Goto(t, "reset")
  /\ UNCHANGED <<claims, claim, todo, seen, owner, clean, overrun>>

\* Wrong, NewestRowsKept: a higher id is never replaced, wrapped or not.
StoreId_OnlyUp(t) ==
  /\ pc[t] = "id"
  /\ rows' = [rows EXCEPT ![MySlot(t)].id = IF @ < RowId(claim[t]) THEN RowId(claim[t]) ELSE @]
  /\ Goto(t, "reset")
  /\ UNCHANGED <<claims, claim, todo, seen, owner, clean, overrun>>

StoreId(t) ==
  /\ pc[t] = "id"
  /\ rows' = [rows EXCEPT ![MySlot(t)].id = RowId(claim[t])]
  /\ Goto(t, "reset")
  /\ UNCHANGED <<claims, claim, todo, seen, owner, clean, overrun>>

\* Wrong, CleanRowIntact: the previous message is not dropped.
ResetLen_Not(t) ==
  /\ pc[t] = "reset"
  /\ Goto(t, "open")
  /\ UNCHANGED <<claims, rows, claim, todo, seen, owner, clean, overrun>>

ResetLen(t) ==
  /\ pc[t] = "reset"
  /\ rows' = [rows EXCEPT ![MySlot(t)].datalen = 0]
  /\ Goto(t, "open")
  /\ UNCHANGED <<claims, claim, todo, seen, owner, clean, overrun>>

-----------------------------------------------------------------------------
(* __log2mem_push, __log2mem_push_str and the block of log2mem_time_event4.*)

Fits_EmptyRow(t) == Len(Head(todo[t]).img) <= RowLen   \* wrong: OverrunOnlyInSharedRow
Fits(t) == Len(Head(todo[t]).img) <= RowLen - rows[MySlot(t)].datalen

\* totlen <= remain: go on, with the datalen that was read in a register.
CheckRoom(t) ==
  /\ pc[t] = "open" /\ todo[t] # <<>>
  /\ Fits(t)
  /\ seen' = [seen EXCEPT ![t] = rows[MySlot(t)].datalen]
  /\ Goto(t, "put")
  /\ UNCHANGED <<claims, rows, claim, todo, owner, clean, overrun>>

\* No room: the item is silently left out, later ones are still tried.
NoRoom(t) ==
  /\ pc[t] = "open" /\ todo[t] # <<>>
  /\ ~Fits(t)
  /\ todo' = [todo EXCEPT ![t] = Tail(@)]
  /\ UNCHANGED <<claims, rows, pc, claim, seen, owner, clean, overrun>>

\* The data header, payload and NUL of an item, in one step.  The address is built from row->datalen,
\* which the compiler may load again or keep from the check.
PutCells(t) ==
  LET s   == MySlot(t)
      p   == Head(todo[t])
      n   == Len(p.img)
      pos == IF p.atZero THEN {0} ELSE {seen[t], rows[s].datalen}
  IN  /\ pc[t] = "put"
      /\ \E at \in pos :
           /\ rows' = [rows EXCEPT ![s].cells =
                [o \in 0 .. RowLen - 1 |->
                   IF o \in at .. at + n - 1
                   THEN [by |-> claim[t], item |-> p.img[o - at + 1].item,
                         at |-> p.img[o - at + 1].at]
                   ELSE @[o]]]
           /\ overrun' = (overrun \/ at + n > RowLen)
      /\ seen' = [seen EXCEPT ![t] = 0]
      /\ Goto(t, "load")
      /\ UNCHANGED <<claims, claim, todo, owner, clean>>

\* row->datalen += totlen is a load and a store, not an atomic increment.
LoadLen(t) ==
  /\ pc[t] = "load"
  /\ seen' = [seen EXCEPT ![t] = rows[MySlot(t)].datalen]
  /\ Goto(t, "store")
  /\ UNCHANGED <<claims, rows, claim, todo, owner, clean, overrun>>

\* Wrong, WholeItems and DumpEnds: the item is counted e cells too long.
StoreLen_Off(t, e) ==
  /\ pc[t] = "store"
  /\ rows' = [rows EXCEPT ![MySlot(t)].datalen = seen[t] + Len(Head(todo[t]).img) + e]
  /\ todo' = [todo EXCEPT ![t] = Tail(@)]
  /\ seen' = [seen EXCEPT ![t] = 0]
  /\ Goto(t, "open")
  /\ UNCHANGED <<claims, claim, owner, clean, overrun>>
StoreLen_Short(t) == StoreLen_Off(t, -1)
StoreLen_Long(t)  == StoreLen_Off(t, 1)

StoreLen(t) ==
  /\ pc[t] = "store"
  /\ rows' = [rows EXCEPT ![MySlot(t)].datalen = seen[t] + Len(Head(todo[t]).img)]
  /\ todo' = [todo EXCEPT ![t] = Tail(@)]
  /\ seen' = [seen EXCEPT ![t] = 0]
  /\ Goto(t, "open")
  /\ UNCHANGED <<claims, claim, owner, clean, overrun>>

-----------------------------------------------------------------------------
(* What the application does with the row pointer it was given.            *)

Append1(t) ==
  /\ pc[t] = "open" /\ todo[t] = <<>>
  /\ \E i \in Item \ {"filename", "lineno"} : todo' = [todo EXCEPT ![t] = <<Push(i)>>]
  /\ UNCHANGED <<claims, rows, pc, claim, seen, owner, clean, overrun>>

SetTs(t) ==
  /\ pc[t] = "open" /\ todo[t] = <<>>
  /\ rows' = [rows EXCEPT ![MySlot(t)].ts = claim[t]]
  /\ UNCHANGED <<claims, pc, claim, todo, seen, owner, clean, overrun>>

\* The application is through with the row: it keeps no pointer to it.
LetGo(t) ==
  /\ pc[t] = "open" /\ todo[t] = <<>>
  /\ claim' = [claim EXCEPT ![t] = 0]
  /\ Goto(t, "idle")
  /\ UNCHANGED <<claims, rows, todo, seen, owner, clean, overrun>>

-----------------------------------------------------------------------------
Init ==
  /\ claims = 0
  /\ rows = [s \in Slots |-> EmptyRow]
  /\ pc = [t \in Thread |-> "idle"]
  /\ claim = [t \in Thread |-> 0]
  /\ todo = [t \in Thread |-> <<>>]
  /\ seen = [t \in Thread |-> 0]
  /\ owner = [s \in Slots |-> Nobody]
  /\ clean = [s \in Slots |-> TRUE]
  /\ overrun = FALSE

Step(t) ==
  \/ GetRow(t) \/ Write(t) \/ TimeEvent(t)
  \/ Stamp(t) \/ StoreId(t) \/ ResetLen(t)
  \/ CheckRoom(t) \/ NoRoom(t) \/ PutCells(t) \/ LoadLen(t) \/ StoreLen(t)
  \/ Append1(t) \/ SetTs(t) \/ LetGo(t)

\* What a store beyond the end of a row does to the row behind it is not
\* modelled: a behaviour stops with its first overrun.
Next == ~overrun /\ \E t \in Thread : Step(t)

Spec == Init /\ [][Next]_vars

-----------------------------------------------------------------------------
(* Properties.                                                             *)

Cell    == [by : Nat \cup {Nobody}, item : Item, at : Nat]
RowType == [tid : Thread \cup {NoThread},
            ts : Nat \cup {Nobody}, id : 0 .. IdMod - 1, datalen : Nat,
            cells : [0 .. RowLen - 1 -> Cell]]
Images  == {Image(i) : i \in Item} \cup {EventImage(b) : b \in BOOLEAN}
Pushes  == [img : Images, atZero : BOOLEAN]
Labels  == {"idle", "open", "put", "load", "store"} \cup Filling

\* The type invariant; with it, that a thread is inside a push exactly when it
\* has an item to push, and that a claim a thread holds was handed out.
TypeOK ==
  /\ claims \in Nat
  /\ rows \in [Slots -> RowType]
  /\ pc \in [Thread -> Labels]
  /\ claim \in [Thread -> Nat]
  /\ todo \in [Thread -> Seq(Pushes)]
  /\ seen \in [Thread -> Nat]
  /\ owner \in [Slots -> Nat \cup {Nobody}]
  /\ clean \in [Slots -> BOOLEAN]
  /\ overrun \in BOOLEAN
  /\ \A t \in Thread :
       /\ pc[t] \in {"put", "load", "store"} => todo[t] # <<>>
       /\ pc[t] # "idle" => claim[t] < claims

Settled(s) == clean[s] /\ ~ \E t \in Thread : Holds(t, s) /\ pc[t] \in Filling

\* Slot s holds the message of claim c and nothing else.
Carries(s, c) ==
  /\ rows[s].id = RowId(c)
  /\ "CLOCK" \in Options => rows[s].ts = c
  /\ rows[s].datalen <= RowLen
  /\ \A o \in 0 .. rows[s].datalen - 1 : rows[s].cells[o].by = c

\* A row that is written by one thread only is never corrupted: from the end of
\* __log2mem_init_row on it carries the id of its last claim, the stamps the
\* options ask for, and nothing of the slot's earlier users below datalen.
CleanRowIntact ==
  \A s \in Slots : (Settled(s) /\ owner[s] # Nobody) => Carries(s, owner[s])

\* In such a row the cells below datalen are whole items back to back, so the
\* walk by hdr->len of log2memutil's print_rows meets every item and ends
\* exactly at datalen, however many pushes were left out for lack of room.
WholeItems ==
  \A s \in Slots :
    Settled(s) =>
    LET r == rows[s] IN
      \A o \in 0 .. r.datalen - 1 :
        LET c == r.cells[o]  start == o - c.at IN
          /\ start >= 0 /\ c.at < Size[c.item] /\ start + Size[c.item] <= r.datalen
          /\ \A k \in 0 .. Size[c.item] - 1 :
               r.cells[start + k] = [by |-> c.by, item |-> c.item, at |-> k]

\* A row comes to be shared by two threads only when one of them still held it
\* while num_rows later rows were claimed: a full turn of the buffer.
LapNeedsFullTurn ==
  [][\A s \in Slots : clean[s] /\ ~clean'[s] =>
       \E t \in Thread : Holds(t, s) /\ claims - claim[t] >= NumRows]_vars

\* The unlocked room check of a push is enough in a row with one writer: memory
\* beyond the end of a row is only ever stored to while some row is shared.
OverrunOnlyInSharedRow == [][~overrun /\ overrun' => \E s \in Slots : ~clean[s]]_vars

\* Of the last num_rows rows claimed none is lost, over the wrap of the ids too: each
\* is still in its slot unless its thread has not stamped it yet or a stalled thread
\* shares it.
NewestRowsKept ==
  \A c \in {k \in Nat \cap (claims - NumRows .. claims - 1) : clean[Slot(k)]} :
    \/ \E t \in Thread : claim[t] = c /\ pc[t] \in {"stamp", "id"}
    \/ rows[Slot(c)].id = RowId(c)

\* "New messages [...] will overwrite the oldest messages" (README.md): a slot
\* that no thread is stamping holds the newest row that was claimed for it.
OldestIsOverwritten ==
  \A s \in Slots :
    \/ owner[s] = Nobody
    \/ \E t \in Thread : Holds(t, s) /\ pc[t] \in Filling
    \/ rows[s].id = RowId(owner[s])

-----------------------------------------------------------------------------
(* What makes these properties inductive.                                  *)

\* owner is the newest claim of its slot; two threads never hold the same claim,
\* so a thread in a clean slot is its only one, by the newest claim.
OwnerOK ==
  /\ \A s \in Slots : owner[s] # Nobody => owner[s] < claims /\ Slot(owner[s]) = s
  /\ \A c \in 0 .. claims - 1 : c <= owner[Slot(c)]
  /\ \A t, u \in Thread : (pc[t] # "idle" /\ pc[u] # "idle" /\ claim[t] = claim[u]) => t = u
  /\ \A t \in Thread : (pc[t] # "idle" /\ clean[MySlot(t)]) => claim[t] = owner[MySlot(t)]

\* How far a thread alone in its row has come with it: the header fields stored
\* so far, the room it checked for its item, and the cells it has already put.
ProgressOf(t) ==
  LET r == rows[MySlot(t)]  end == r.datalen + Len(Head(todo[t]).img) IN
    /\ (pc[t] # "stamp" /\ "CLOCK" \in Options) => r.ts = claim[t]
    /\ pc[t] \notin {"stamp", "id"} => r.id = RowId(claim[t])
    /\ pc[t] \in {"put", "load", "store"} => end <= RowLen
    /\ pc[t] \in {"put", "store"} => seen[t] = r.datalen
    /\ pc[t] \in {"load", "store"} =>
         \A o \in r.datalen .. end - 1 : r.cells[o].by = claim[t]
    /\ (pc[t] \notin Filling /\ todo[t] # <<>> /\ Head(todo[t]).atZero) => r.datalen = 0

\* An event's block is the first and only thing its call pushes.
ItemsOK(t) ==
  /\ (todo[t] # <<>> /\ Head(todo[t]).atZero) => Len(todo[t]) = 1
  /\ \A k \in 2 .. Len(todo[t]) : ~todo[t][k].atZero

ProgressOK ==
  \A t \in Thread :
    /\ ItemsOK(t)
    /\ (pc[t] # "idle" /\ clean[MySlot(t)]) => ProgressOf(t)

\* The inductive invariant.
RowInv == TypeOK /\ OwnerOK /\ ProgressOK /\ CleanRowIntact

-----------------------------------------------------------------------------
(* The row buffer implements CircularLog: the message of a slot is what    *)
(* the slot holds below datalen once its header is stored.                 *)

LostMessage == <<[item |-> "lost", at |-> 0]>>
ASSUME LostAssumption == "lost" \notin Item   \* so that it is no message

Message(s) ==
  IF ~clean[s] THEN LostMessage
  ELSE IF ~Settled(s) THEN <<>>
  ELSE [o \in 1 .. rows[s].datalen |->
          [item |-> rows[s].cells[o - 1].item, at |-> rows[s].cells[o - 1].at]]

Log == INSTANCE CircularLog
         WITH Room <- RowLen, Parts <- Images, Lost <- LostMessage,
              taken <- claims, open <- {claim[t] : t \in {u \in Thread : pc[u] # "idle"}},
              kept <- [s \in Slots |-> Message(s)]

\* The stores of a header, of a push's cells and of its new datalen, steps of their
\* own here, are to any observer of finished pushes one atomic step each: every behaviour of
\* the threads is one of CircularLog.
ImplementsCircularLog == Log!LogSpec
=============================================================================
