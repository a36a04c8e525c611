# log2mem: a TLA+ verification project

log2mem is a C library with which a multithreaded program logs into a circular
buffer of rows kept in a memory mapped file (the *memmap*), and a utility,
`log2mem-util`, that maps the same file and prints the rows, counters and
variables. Logging takes no lock. This directory holds TLA+ models of its
components, the TLC configurations that check them, and TLAPS proofs about the
row buffer and its dump, the initialisation, the variables and the times.

## 1. The system

| component | source | state | operations |
|---|---|---|---|
| row buffer (writer) | `liblog2mem/log2mem.c:462-760` | `header->nextrow`; per row `id`, `ts`, `tid`, `datalen`, payload | `log2mem_get_row`, `log2mem_write`, `log2mem_append_*`, `log2mem_time_event2/3/4`, `log2mem_set_ts` |
| row dump (reader) | `util/log2memutil.c:256-427` | lowest id, loop counters | `print_rows` |
| handle initialisation | `log2mem.c:96-101, 290-427, 763-843, 956-977`, `log2mem_atomic_gcc.h` | `g_log2mem`, `g_log2mem_lock` | `log2mem_init`, `__log2mem_create`, `MEMLOG_PREPARE_PTR`, `log2mem_valid`, `log2mem_filename` |
| memmap layout | `log2mem.c:127-217, 305-310`, `log2mem_dev.h` | `log2mem_config`, `log2mem_layout` | `log2mem_calculate_layout`, the index and address of every slot |
| counters | `log2mem.c:430-455`, `log2memutil.c:201-225` | `value`, `used`, label | add, label, print |
| variables | `log2mem.c:846-951`, `log2memutil.c:228-254, 436-586` | `value`, `flags`, `text` | init, set, get, used; set by index and by name from outside |
| timestamps | `log2mem.c:506-534, 984-998` | none | read, pack, unpack |
| creation of the file, attach | `log2mem.c:222-281, 290-374` | the file: size, header, sections; the reader's handle | `__log2mem_create`, `log2mem_attach` |
| utility command line | `log2memutil.c:589-712` | options | two passes over the arguments |
| examples, Qt GUI, build files | `examples/`, `qtgui/`, `configure.ac` | | not core logic |

How they interact. Every entry point first makes sure there is a handle
(`MEMLOG_PREPARE_PTR`), which may run the whole initialisation, and then derives
an address from an id by a mask and the layout. A log call claims a row with one
atomic increment, fills its header with plain stores and pushes items; the
application keeps the row pointer for as long as it likes and pushes more. The
utility is another process; it shares nothing with the program but the file, and
attaches to it at whatever moment it is started, also while the program is clearing
and filling it. So does a second program of the same user: the default filename is
made of the user's name only.

What is hard here:

* *Interleaving.* Nothing keeps a claimed row from being claimed again one turn
  of the buffer later while its thread still writes it. Every load and store of
  such a row is then a race.
* *Check then act.* A push checks the room with one load of `datalen`, builds its
  address with it (or a second load), and adds to it with a third and a store.
* *A reader without a lock*, and *death of the writer* at any store.
* *Lost flag bits.* `flags |= ...` of a variable is a load and a store, done by the
  threads of the program and, on another processor, by the utility.
* *Initialisation races*, with `exit(1)` inside the lock.
* *A file that changes under those who have it mapped*: a restarted or second
  program cuts it, clears it and lays it out anew, and may die in between. Where the
  sections lie depends on all of the configuration: the labels are behind the rows.
* *Integer edges*: the wrap of `nextrow`, the power-of-two rounding at zero and
  at the top, the layout in ints.

What makes each correct: the row buffer keeps every finished message of the last
turn exactly as it was written; the dump terminates and prints such messages
exactly, once and in order; a variable that is shown stays shown, and once its
initialisation is over only sets change it; there is one handle, published finished, and never a
second one; a counter shown by the utility shows every add before the run and no
label in halves; restarts with one configuration kill nobody, unless a row is logged
while the header is cleared; each id leads to its
own section, sections do not overlap, and rows of one turn are distinct; a time is
shown as it was read.

The full list of hazards, each with its line and the properties aimed at it, is in
`PROJECT.json`.

## 2. Modules

| module | models | kind |
|---|---|---|
| `RowLog` | the writers of the row buffer | detailed, concurrent |
| `CircularLog` | what a circular log promises its users | abstract |
| `RowDump` | extends `RowLog` by the utility's `print_rows` and the program's end | composition |
| `HandleInit` | initialisation by racing threads | concurrent |
| `Counters` | creation of the file, counters, attach and `print_counters`, by several processes that die and start again | composition, crashes |
| `Variables` | the variables and the utility's setters | concurrent |
| `Layout` | configuration, rounding, layout and addressing | integer arithmetic |
| `Timestamps` | clock sources, packing and unpacking of times | integer arithmetic |
| `ModularArithmetic` | lemmas on `%` | proofs |
| `RowLogProofs` | theorems about `RowLog` | proofs |
| `RowDumpProofs` | theorems about `RowDump`, resting on those | proofs |
| `HandleInitProofs`, `VariablesProofs`, `CountersProofs`, `LayoutProofs`, `TimestampsProofs` | theorems about `HandleInit`, `Variables`, `Counters`, `Layout`, `Timestamps` | proofs |
| `MC*` | the constants of the TLC runs | |

### RowLog

The state is `nextrow` (`claims`, not reduced; `RowId` reduces it where the code
stores it), the rows, and per thread its place in the code (`pc`), the claim that
gave it its row, the pushes its call still has to make, and the `datalen` it has
in a register.

* `InitRow` is the atomic increment with the choice of the slot. `GetRow`, `Write` and
  `TimeEvent` are `InitRow` with the pushes the call begins with.
* `Stamp`, `StoreId`, `ResetLen` are the header stores of `__log2mem_init_row`,
  in program order, which is the order of the gcc builds. `Stamp` is two stores, of
  `tid` and `ts`: they come before the id, no thread reads them, and what a dump says of
  them (`WholeLineExact`) it says of rows that are past all three.
* `CheckRoom`/`NoRoom`, `PutCells`, `LoadLen`, `StoreLen` are a push. That the
  compiler may load `datalen` again for the address or keep it from the check is
  the choice `pos` in `PutCells`. `log2mem_time_event4` differs in that it stores
  its block at payload offset zero. `PutCells` is all stores of one item: its type,
  length, payload and NUL. A reader looks below `datalen` only, which grows afterwards;
  in between, only a row that threads share can show an item in part, and of the content
  of such a row no property says anything.
* `Append1`, `SetTs`, `LetGo` are what the application does with a row pointer.

Row contents are *cells*, the units items are stored in: an item takes
`Size[item]` cells, header included. A cell remembers the claim that wrote it;
so does `ts`. The history variables `owner` (latest claim of each slot), `clean`
(whether any other thread held the slot when it was last claimed) and `overrun`
are read by no guard except that a behaviour stops after its first overrun: which
bytes of the next row are then destroyed is not modelled.

### CircularLog

The abstract log has claims, the set of open claims, and per slot one message. It
begins a message (replacing the slot's, or losing both if the slot's is still
open), adds one part to an open message, and ends it. `RowLog` implements it
(`ImplementsCircularLog`): `Message(s)` is the content of slot `s` below
`datalen`, empty until the header is complete, and the value `Lost` in a shared
row, of which the log promises nothing.

### RowDump

`print_rows` as a process: the scan for the lowest id, then per row the test of
`datalen`, the header fields, and the walk by `hdr->len`, with `datalen` and
`len` loaded anew where the code does. `ReadHead` is the loads of `id`, `ts` and `tid`
in one step: in a row whose line is relied on only `log2mem_set_ts` stores any of them.
`HdrLen` says what the walk finds: the length of an item at its first cell, zero where
nothing was ever stored, and anything in the middle of an item, up to the bound
`RowLen`. The code's bound is an unsigned int, added to an int: there the walk may also
leave the memmap or turn back. No property says anything of such a walk, which only a
row that threads shared, or one claimed again while it is printed, can lead to. The program runs beside the dump, or has ended or
was killed (`End`), with its threads anywhere. A behaviour begins after `earlier`
empty rows (`Begun`), so that a full buffer and the wrap of the row ids are near.

`of`, `from` and `whole` of a line, and `late`, are history: whose message a line is,
how long it was when the line began, whether its row was that message's alone
throughout, and whether the program was over when the dump began. So is `mixed`: the
slots whose content threads that shared them may have left. A claim that shares nothing
does not end that, only the store of `datalen = 0` that comes after it: a program killed
between the two leaves an old, perhaps spoiled message under a new, clean claim.

### HandleInit

One action per step of `log2mem_init` and `__log2mem_create` whose order matters:
the check without the lock, test-and-set, second check, `open` (whose result
nobody looks at), `ftruncate`, `mmap`, `memset`, filling, publishing, releasing.
`Prepare` is what all other entry points do first. `Fail` is `exit(1)`, which runs
the application's atexit function (`RunHook`) on the calling thread, the lock
still held.

### Counters

The file as processes see it. `Open` to `FillConfig` are the steps of
`__log2mem_create` as others meet them: `open` keeps what is there, `Truncate`
gives the file the size of the new layout (what lies behind is lost), the `memset`
goes through the header (`ClearHead`) and then the sections (`ClearBody`), and
filling stores the architecture before the configuration. `CallAdd`/`Add` and
`CallLabel`/`PutText1`/`PutText2`/`StoreUsed` are the two operations on a counter:
the index is computed with the mask of the header as it is now (`Index`), the
section with the pointers of the process's own creation. Amounts are any ints, and the
sum wraps (`Wrapped`). `CallLog`/`Store` is one of the stores a log call, or a call on a
variable, makes into the other sections. `Measure` to `CheckArch` are `log2mem_attach`,
`BeginCounters` to `EndCounters` are `print_counters`, which copies the label in two
halves too (`PrintLabel1`, `PrintLabel2`).

A configuration is three numbers, of counters and of the cells of rows and variables
(the second stands for `num_rows` times the length of a row), and the header of the file
has one: the labels begin behind the rows (`LabelAt`), the file ends behind the
variables (`SizeOf`), as in `log2mem_calculate_layout`. A row is looked for with the
number and length of rows of the header, from the process's own rows section on
(`InRows`): where the header is cleared there is no mask and the row may be any cell from
there on, also outside the mapping. The `config` of the header is copied, and loaded, as
a whole.

A cell stands for a page: an access behind the end of the file, or outside of what
was mapped, is a signal (`Fault`). `Kill` ends a process at any step, and it may
start again. A process makes one call at a time: threads meet in the file in
no other way than two processes with one configuration do.

`given`, `labels` and `named` are history: what was added and how the counters were
labelled since the file was last cleared; `sums` is what each counter had been given
after each add since the utility measured the file. `configs`, `blind`, `muddled`,
`crossed` and `before` say whether the premises of a property hold: that only one
configuration was ever used; that no row was looked for by a cleared header; that nobody used the file as if it had another one, or while it was
being created; that no creation crossed the attach; and what the history was when
the utility measured the file. A `memset` puts a muddled file in order again, but only
up to the size its process has mapped: where another creation has meanwhile made the
file longer, what is in use behind that stays in it.

### Layout

`Layout` follows a configuration through `log2mem_init` and `__log2mem_create`
and lets calls with any id touch their slot; ints wrap at `IntBits`. The rounding is
`round_up_next_power_of_2_uint` line by line (`RoundUpPower`); `RoundsUp` compares
it with the least power of two not below the argument. `And` and `Or` go by the bits
of their operands (`BitOf`, `Value`); `Bit` and the sum in `Value` are recursive
functions, so that the proofs can use them.

### Timestamps

One row's time: taken by `InitRow` or `SetTs` from the clock the options name,
packed with `Pack`, and unpacked by `Show`. Shifts and masks are products and
remainders of powers of two. `TimeMod` is the width of `time_t`, which the
shift is computed in before the result becomes 64 bits wide.

### Variables

Both tables are one array of slots, doubles first, in the order the search by name
takes. An actor is a thread or a run of the utility, and `act` its call and place.

* `CallInit`/`Check`, `CallSet` are the entries of `log2mem_var_*_init` and `_set`;
  `StoreValue`, `LoadFlags`, `StoreFlags` and `CopyText` their stores. The utility's
  `--int[I]=N` (`SetById`) goes through the same code, with any value where the
  argument is no number: `val` is then not initialised.
* `SetByName`, `Match`, `StoreByName`, `EndSearch` are `set_var_by_name`, which reads
  flags and texts and stores values itself. A text is two halves, so that it can be
  read half copied, or be left mixed by two initialisations.
* `Run` starts the second pass over a command line only if nothing on it stops the
  first one (`Stops`); `Refuse` is a run that ends before it. The option words are
  compared as prefixes: `--int5=N` is the setting of the int with index 5 also where a
  variable is named int5 (`Meant`), and `--interval=N` ends the run.
* `CallPoll`, `Get` are the loop of `examples/interact` that waits for its stop flag.

`settled` is history: the variables that at some moment were initialised with no
init or set in progress. Before that moment little can be relied on. A set that
races with the initialisation can take the `Initialised` bit away, and a later
initialisation then resets the value; a second initialisation past its check
stores the initial value over a set. From that moment on everything can
(`SettledForGood`).

## 3. Runs

| run | question | bounds |
|---|---|---|
| `rowlog` | what does a row hold, which rows are kept, when do threads come to share one, does the buffer implement `CircularLog`? | 2 threads, 2 rows of 2 cells, 3 claims |
| `lap` (violation) | is it always the oldest message that is overwritten? | 2 threads, 3 claims |
| `dump` | which rows does the buffer keep when ids wrap, which lines of a dump, beside or after the program, can be relied on; is a dump of a finished log complete and in order; does it end? | 1 thread, 2 rows of 2 cells, ids modulo 4, 0 or 3 rows before, 3 claims after |
| `after` | what does a row that threads shared hold when it is claimed again and the row ids have wrapped, and can a dump get through it when the program is over? | 2 threads, 1 row of 1 cell, ids modulo 2, 3 claims, no dump beside the program (`AfterSpec`) |
| `handle` | racing explicit and implicit initialisation, failures, atexit | 3 threads, 4 calls |
| `query` (violation) | does asking for the filename leave the library alone? | 2 threads, 2 calls |
| `layout` | rounding, sections and addresses | 16 bit ints, pages of 512 bytes |
| `old_client` (violation) | a caller with the older, shorter struct | the same |
| `big_log` (violation) | a region an int cannot measure | the same |
| `variables` | what can a late initialisation, a racing set or a search by name do to a variable? | 2 threads with 3 calls, 1 run of the utility with up to 2 settings, 1 double and 1 int, 2 ids, one of the 3 names an index and one refused |
| `counters` | what does a run of the utility show of the counters, and whom does it kill if programs start, die and start again on the file? | 2 processes, 2 starts, 2 calls, 2 configurations, 7 cells, 1 id, 2 labels, ints of 2 bits |
| `time32` (violation) | is the time a dump shows the one that was read, where `time_t` has 32 bits? | 34, 30 and 32 bits scaled to 7, 6 and 8 |

Why the bounds suffice. Three claims of two rows is the least with which a row is
claimed twice; two threads then make every pairing of two steps in one shared row
possible, since a slot's history only depends on its last claims. Two cells and
items of one and two cells make an item that fits, one that fits only an empty
row, one that does not fit any more, and a later smaller one that still does. In
`dump` one thread writes, so that no row is ever shared, which is the case in which the
dump is required to be right; three rows before and three new ones cross the wrap of
the ids, with the thread dying at any store of any of them. `NewestRowsKept` is checked in both
runs with two rows: `rowlog` has the threads that stall, `dump` the wrap. `after` has
the other case: with three claims two threads share the row and spoil it, and one of them claims it
again, alone, and dies before or after it has reset it; with ids modulo 2 that claim's
id is lower than the one it replaces. Three threads are needed for
a second thread to wait for the lock while a third is past the first check; four
calls let a thread come again. Sixteen bits need four of the five shifts of the
rounding as 32 need five, and are enough for the sections to overflow with
configurations small enough to enumerate. Three calls and a run of the utility are
an initialisation, a poll, a second initialisation and a set from outside; three
accesses of one flags word, two of them stores, are enough to lose a bit. Two starts
are a program that dies, or lives on, under a second one; with two calls, two adds, an
add and a label, or two labels meet in one counter, also through an id that the mask of a
file with one counter confines, and across the two programs, and a row or a variable is
stored to beside either. One configuration asks for no counter, and gets one, and has a
row and a variable; the other has two counters and two cells of rows: so each moves the
labels of the other, the first cuts the other's file, and the ids of one lead out of
the counters of the other. Two configurations
that differ in their rows only are not in this run; the theorems include them. The amount is -2 with ints of -2 to 1, so that
the second add wraps. Two
tables of one slot make the search cross from one to the other, and two ids alias.
The theorems of section 4 hold without these bounds.

What the properties say, in short:

* `CleanRowIntact`, `WholeItems`: a row that only one thread at a time writes
  carries its last message and nothing of earlier ones, in whole items.
* `LapNeedsFullTurn`, `OverrunOnlyInSharedRow`, `NewestRowsKept`: a row is shared
  only after a full turn; memory beyond a row is touched only when one is shared;
  none of the last `num_rows` messages is lost.
* `WholeLineExact`, `DumpComplete`, `DumpInOrder`, `WalkAdvances`, `DumpEnds`, `LiveDumpEnds`: a line
  whose row was one message's alone shows that message exactly; every row with a
  content has one line, whatever ids a killed program left, in the order of the
  messages but for the wrap; the walk over the items ends.
* `PrintedCounts`, `LabelWhole`, `NobodyKilled`: see `Counters`. What they exclude by
  their premises does happen: a creation that crosses an attach, or asks for other
  counters, rows or variables, or dies right after `ftruncate`, spoils the run. The
  premise `~blind` of `NobodyKilled` is needed even where all ask for one configuration:
  without it TLC finds a program that logs a row while a second one has cleared the
  header, `num_rows - 1` is then all ones, and the row it is given lies outside the
  mapping.
* `ShownStaysShown`, `SettledForGood`, `NameReaches`, `StopFlagSeen`: no lost bit makes
  a shown variable disappear; nothing but a set changes a settled variable; a search
  by name reaches every settled variable of the name; a polling program sees a set.
* `OneHolder`, `PublishedReady`, `LogSurvives`, `HandleFixed`, `EveryCallReturns`.
* `SectionsApart`, `AccessInSection`, `TurnOfDistinctRows`, `RoundsUp`.

Each is shown able to fail: the operators `X_Variant` that stand before a
definition `X` are wrong versions of it, and with one of them in the place of `X`
TLC finds the property violated (`PROJECT.json`, "mutants").

Deadlock is not checked in any run: the modelled applications stop at the bound
on claims or calls, `print_rows` and the rounding end, and a process that has
called `exit` is over.

### Fairness

`DumpSpec` assumes only that the utility is scheduled (`WF` of `PrintRows`); the
program may stop at any point. `FairSpec` of `HandleInit` assumes that every
thread inside a call goes on as long as the process lives, including that a free
spinlock is eventually seen free. Weak fairness is enough there because a thread
waits at most once for each other call and each holds the lock once; it is the
kernel's scheduling, not a property of the lock, which is not fair. `FairSpec` of
`Variables` assumes only that a polling thread polls again; calls in progress, the
other threads and the utility may stop for ever.

### Disagreements between the code and what is said of it

* `lap`: README.md:59-61, new messages "will overwrite the oldest messages". A
  thread overtaken by a turn of the buffer puts its older id and message over the
  newest one (`log2mem.c:578`).
* `query`: `log2mem.h:79`, `log2mem_filename` returns "null if log2mem is not
  ready". It makes log2mem ready, with the default configuration.
* `old_client`: `log2mem.c:404-407`, the copy of the configuration is there for
  callers with an older struct; one that ends before `num_vars` gets a mask of all
  ones for its variable ids.
* `big_log`: `log2mem_dev.h:181`, `size` is the "whole region footprint"; it is
  an int that wraps unchecked.
* `time32`: `log2mem_dev.h:57-60`, times keep 34 bits of seconds; `tv_sec <<
  MEMLOG_BITS_NANO` is computed in `time_t`, and with 32 bits loses all but two.

A comment that only looks like one: `log2mem.c:318` speaks of the TRUNC flag, which
the call has not got. The code is right: with the flag (`Open_Trunc`, a mutant) every
program that has the file mapped would be killed.

## 4. Proofs

`RowLogProofs` (with the lemmas on `%` of `ModularArithmetic`) proves for every set of
threads, number of rows, number of laps, row length, item sizes and options (under the
`ASSUME`s of `RowLog`, nothing else):

| theorem | statement |
|---|---|
| `TypeCorrect` | `Spec => []TypeOK` |
| `SharedAfterFullTurn` | `Spec => LapNeedsFullTurn` |
| `RowInvariant` | `Spec => []RowInv` |
| `CleanRow` | `Spec => []CleanRowIntact` |
| `OverrunNeedsSharing` | `Spec => OverrunOnlyInSharedRow` |
| `NewestKept` | `Spec => []NewestRowsKept` |
| `RowsAreWhole` | `Spec => []WholeItems` |
| `RowLogImplements` | `Spec => ImplementsCircularLog` |

The argument. `CleanRowIntact` is not inductive: it speaks of finished headers
only, and a push is three steps. `RowInv` adds

* `OwnerOK`: `owner` is the newest claim of its slot, no two threads hold one
  claim, and a thread in a clean row holds the newest one. So in a clean row a
  thread is alone (`Apart`, `Alone`).
* `ProgressOK`: how far a thread that is alone has come: the header fields stored
  so far; that the item it is about to put fits, at the `datalen` it has in its
  register; that the cells it has put are its own; and that the block of a time
  event is the first and last push of its call.

A claim disturbs only the slot it takes, and makes it clean only if nobody is in
it (`ClaimInv`). A step of a row changes that row and that thread only
(`RowFrame`); in its own row the thread makes the progress it says
(`StepContent`), and no other thread's clean row is that row (`StepInv`).
`LapNeedsFullTurn` and `NewestRowsKept` rest on arithmetic: two claims of one slot
are congruent modulo `num_rows` even though the id wraps at 2^32, because
`num_rows` divides it (`ModularArithmetic`, `SlotFacts`, `ClaimsOfASlot`).

`WholeItems` needs one thing more than `RowInv` (`WholeInv`): not only whose the cells
are that a thread has put but not yet counted, but that they are the item as it is
(`HasPut`). `ExtendWhole` then says that whole items with such an item behind them are
whole items.

`RowLogImplements` goes through the refinement mapping of `RowLog` step by step, under
`WholeInv`: `ClaimBegins` (a claim is `Begin`; that its slot's message is lost exactly
if some thread holds the slot is what `clean` records), `OwnMessage` (alone in its row,
a thread changes the message with the store of `datalen` only, which is `Add` of the
item put), `SharedMessage` and `OtherMessages` (nothing else changes), `OpenAfter`
(`LetGo` is `End`, since no two threads hold one claim). A step here is one of
`RowLog`'s: the two stores of `Stamp`, and those of one item, are taken together.

`RowDumpProofs` proves for the same constants, any number of rows logged before and
claimed after the dump begins, and a program that ends or is killed anywhere:

| theorem | statement |
|---|---|
| `DumpTypeCorrect` | `DumpSpec => []DumpTypeOK` |
| `LinesExact` | `DumpSpec => []WholeLineExact` |
| `DumpIsComplete` | `DumpSpec => []DumpComplete` |
| `DumpOrdered` | `DumpSpec => []DumpInOrder` |
| `WalkGoesOn` | `DumpSpec => WalkAdvances` |

The argument. `DumpInv` adds to `WholeInv` what was read so far of a line whose row is
still its message's alone (`Good`, `LineOK`): the header of the claim, and items that
follow one another without a gap (`Chain`) up to the offset the walk is at, which is
the end of a whole item (`Between`) or the first cell of one (`AtItem`). The reader
keeps this because rows are whole: behind the last cell of an item comes the first of
the next (`HeadNext`), whose length is found there (`Stepped`). The program keeps it
because a row that one thread writes only grows (`Grows`, `RowStepGrows`), and because
a line that is not good any more never becomes good again, as the owners of a slot only
get newer (`Onward`). `WholeItems` says for this that a cell lies inside its item
(`at < Size[item]`). `Complete` counts the lines against the slots met (`Shown`): a full
turn meets each slot (`FullTurn`), and none twice (`ClaimsOfASlot` again).

For the order, `Ordered` says that `low` is the lowest id of the rows scanned
(`LowestOf`), and the lines those of the slots met in turn from its slot on, each of
the claim its slot was last given (`InTurn`). The rest is arithmetic on the log that
stands still. The claim of a slot is one of the last `NumRows` (`OwnersNewest`), so
claims met in turn rise by one, or fall by a turn once, where the newest is passed
(`TurnsRise`, `LinesRise`, `OneFall`). While ids have not wrapped, `low` is no older
than the oldest of these claims and no newer than any that is kept (`LowIsOldest`), so
the claim met `x` slots on is `low + x` and nothing falls (`TurnFromOldest`).

`WalkAdvances` is the safety half of `DumpEnds`, which claims the liveness. Its
invariant says of every row that is not mixed (`Filled`) that one thread at most uses it
and it holds whole items (`Walkable`): settled rows by the invariants of `RowLog`
(`SettledWalkable`), and a row whose header is being stored because the row keeps what
it held when it was taken (`FillingKeeps`). The walk then is always between two items
or at the first cell of one (`Underway`, `EdgeToHead`, `HeadToEdge`). That no row is
shared when the program ends is not enough: without `mixed`, a row spoiled in an earlier
turn and just claimed again would count as sound, and the dump of it need not end.

`HandleInitProofs` proves for every set of threads, calls and configurations:

| theorem | statement |
|---|---|
| `TypeCorrect` | `Spec => []TypeOK` |
| `SpinlockHolds` | `Spec => []OneHolder` |
| `PublishedIsReady` | `Spec => []PublishedReady` |
| `LogKept` | `Spec => []LogSurvives` |
| `HandleStays` | `Spec => HandleFixed` |

The argument. Whoever is creating has the lock (`LockOK`) and saw no handle after it
took it, so there is none while it creates (`HandleOK`); the memmap it fills is cleared
and, when it publishes, holds its configuration. The thread whose handle is
published never waits for the lock again.

`VariablesProofs` proves for every set of threads and utilities, number of variables,
ids, values, names and command lines, and with no bound on the number of calls other
than that there is one:

| theorem | statement |
|---|---|
| `TypeCorrect` | `Spec => []TypeOK` |
| `SettledStays` | `Spec => SettledForGood` |
| `ShownStays` | `Spec => ShownStaysShown` |
| `SearchReaches` | `Spec => []NameReaches` |

The argument. `PlacesOK` ties each place in the code to the calls that can be there.
`SettledOK` is what makes `SettledForGood` inductive: a call on a settled variable is
an initialisation still at its check, which will find the bit, or a set whose
register, if it holds flags already, has the bit. A variable settles when no call is
on it, so this holds at first for want of calls. `SearchOK` follows a search: what
it is to reach is settled and therefore keeps its name and its bit, and what lies
behind it was set.

`CountersProofs` proves for every set of processes, ids and labels, any amounts an int
holds (negative ones and zero too), any width of an int, any configurations and powers
they are rounded to, and any number of starts and calls. The `ASSUME`s of `Counters` say
that there is a power for each configuration, that an id and each section fit the cells
of the model, that amounts are ints, and that no label is the empty text.

| theorem | statement |
|---|---|
| `TypeCorrect` | `Spec => []TypeOK` |
| `KilledNobody` | `Spec => []NobodyKilled` |
| `CountsPrinted` | `Spec => []PrintedCounts` |
| `LabelsWhole` | `Spec => []LabelWhole` |

The argument. `KilledNobody` has two halves. `OneConfig` says of a file that only had
the configuration `n`, in which no row was looked for by a cleared header, that all who
have it mapped go by `n` and have all of it mapped, and that each call's index or cell
is inside it; so no access of theirs is out of reach. `Shape` says of a utility that no
creation crossed and that found no file cut short that it has the whole file mapped and
goes by the header's configuration. The other two rest on `InOrder`, which ties each
cell of a file that is not muddled to the history: a counter holds the sum of what was
added, wrapped (`WrappedSum`: adding to a wrapped sum and wrapping again is wrapping the
sum), its label holds text that was given to this index, both halves of it from the time
`used` is set, and where nothing was stored since the file was cleared all cells are
zero. It is kept by the calls because of `CallsInOrder` (a call's index is below the
number of counters of the configuration its section was computed from, a cell of the
rows or the variables is no counter's and no label's; the text a call is copying is one
of the labels of its index) and because the cells of different indexes and sections are
different cells (`CellsApart`, `ElsewhereApart`, `OthersInOrder`, `OwnInOrder`); by a
creation because it only meets the file in use if it cleared it, or muddles it
(`CreationInOrder`). What the utility prints of such a file (`Output`) stays true since
labels, and the sums there were, only grow while no creation crosses it (`Growth`,
`Since`). With negative amounts or a wrap a count need not lie between the first and the
last of these sums; so `PrintedCounts` says that it is one of them. The proof showed that
a first version of `muddled` was too weak: it let the `memset` of a small creation
declare a file clean that a larger one had made longer.

`LayoutProofs` proves for every configuration and id an unsigned int holds, every caller's
struct, every page size that is a multiple of 8 up to 4096 and every width of an int
from 16 to 32 bits (below that C has no `int`, beyond it a shift by 32 would be missing):

| theorem | statement |
|---|---|
| `TypeCorrect` | `Spec => []TypeOK` |
| `RoundedUp` | `Spec => []RoundsUp` |
| `Apart` | `Spec => []SectionsApart` |
| `InSection` | `Spec => []AccessInSection` |
| `DistinctRows` | `Spec => []TurnOfDistinctRows` |

The argument. The state needs little: the numbers of slots are powers of two, the layout
is that of the configuration, and what was touched was some slot (`IInv`). The rest is
arithmetic. A number is the sum of its bits (`ValueBits`) and is determined by them
(`SameBits`); so a mask `num - 1` for a power of two is the remainder by it (`AndMask`,
`IndexIs`), which is what confines a call to its section and, as the number of rows
divides the number of ids (`ModOfMod`), keeps two ids of one turn apart. `RoundedUp`
follows the shifts with `TopRun(v, m, w)`: the top bit of `v` is `m` and at least the `w`
bits from `m` down are ones. Each shift by `w` doubles the run (`SmearRun`); after the
fifth it is as long as an int, so `v` is one less than the next power (`FullRun`).
`Apart` needs that rounding up to 8 or to a page loses nothing (`AlignUp`), and that no
field of a region an int can measure wraps when it is stored (`LayoutFits`).
`AllNumbers` is induction for a given set, from the well-foundedness of `<`, which
gives the recursive functions their values (`BitDef`, `ValueSums`).

`TimestampsProofs` proves for every split of the bits with room for the nanoseconds of
a second (`Wide`: a `time_t` as wide as a `log2mem_ts`):

| theorem | statement |
|---|---|
| `TimesKept` | `Wide` implies `Spec => []TimeKept` |
| `EarlierIsSmaller` | packed times compare as the times do |

`TimeKept` fails in run `time32`, whose `time_t` is narrower: `Wide` is exactly what is
missing there. The invariant is that `ts` is what `Pack` gives for `at`; the lemmas
say that `Pack` loses nothing and that `Seconds` and `Nanos` undo it.

Every invariant and action property of the passing runs is proved, and the refinement.
(`NewestRowsKept` and `CleanRowIntact` follow from `RowInv` alone, which is part of
`DumpInv`: so they hold under `DumpSpec` as they do under `Spec`.)
Only model-checked: liveness under fairness (`DumpEnds`, `LiveDumpEnds`,
`EveryCallReturns`, `StopFlagSeen`), which is beyond the prover.

## 5. Not modelled

* A `configsize` larger than this library's `struct log2mem_config`, of a caller built
  with a newer header: `memcpy` (`log2mem.c:410`) would store beyond the local copy.
  `Layout` has callers with older and equal structs.
* A walk of `print_rows` by a length of more than a row, or backwards (`HdrLen`).
* An item of which some bytes are stored and others not, and a row with a new `tid` and
  an old `ts`, as states that others see (see `RowLog` above); a configuration in the
  header of which some fields are stored.
* Which bytes an overrunning push destroys in the next row, and anything after it.
* The text of a dump line, and payload values; a value that is torn by two writers of
  one row.
* Names of variables as long as `MEMLOG_LABEL_LEN` or longer, which are cut off.
* What two programs on one file do to the contents of each other's rows and variables:
  `Counters` has their cells only, and that they are stored to.
* `print_vars` and `print_summary`, which read each value once and format it; the
  parsing of digits and of the options for what to show.
* Failures of `malloc`, which the code does not check.
* Reordering of stores by compiler or processor beyond the choice in `PutCells`:
  the builds keep program order, and x86 does not reorder stores.
* The example programs, which are clients; the Qt GUI, which shows hard-coded rows and
  does not use the memmap; the build files.

## 6. Plan

1. Rows and variables under restarts, as `Counters` has them for counters.
