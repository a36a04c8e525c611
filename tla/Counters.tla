------------------------------ MODULE Counters ------------------------------
(***************************************************************************)
(* The counters of the memmap, from the processes that add to them and     *)
(* label them to the run of log2mem-util that attaches to the file and     *)
(* prints them.  Processes start, clear and fill the file (log2mem_init),  *)
(* and are killed at any step; a second one may start while the first is   *)
(* still there, for the default filename is made of the user's name only.  *)
(* A process makes one call at a time: threads of one process meet in the  *)
(* file the way two processes with one configuration do.                   *)
(*                                                                         *)
(* The file is cells: the header, num_counters counters, the rows,         *)
(* num_counters labels and the variables; a cell stands for a page, so     *)
(* that each may lie behind the end of the file.  A cell has the fields of *)
(* counters and of labels at once, and text found where a counter should   *)
(* be counts as its used flag.                                             *)
(***************************************************************************)
EXTENDS Integers, FiniteSetsExt

CONSTANTS
  Process,     \* the processes that log into the file
  UserConfig,  \* what they ask for: num_counters, and the cells of rows and variables
  Powers,      \* the powers of two num_counters is rounded up to
  Id,          \* the counter ids they use
  MaxIndex,    \* bound on the ids and on the counters of a file
  MaxCell,     \* bound on the cells of a file
  HalfInt,     \* an int is in -HalfInt .. HalfInt - 1
  Amount,      \* what they add
  Text,        \* the labels they give
  MaxStarts,   \* bound on starts of processes
  MaxCalls     \* bound on calls

Util == "log2mem-util"
Empty == ""   \* the text, or half of it, of a cleared label
Slots == 0 .. MaxIndex
Cells == 0 .. MaxCell
Ints  == -HalfInt .. HalfInt - 1

\* num_counters is rounded up to a power of two, and to 1 for 0.
Rounded_Not(c) == c   \* wrong: TypeOK
Rounded(c) == [c EXCEPT !.counters = Min({p \in Powers : p >= @})]
Configs == {Rounded(c) : c \in UserConfig}

\* The layout: where the sections begin, and the size of it all.
CounterAt(k) == 1 + k
RowsAt(c) == 1 + c.counters
LabelAt(c, k) == 1 + c.counters + c.rows + k
VarsAt(c) == 1 + c.counters + c.rows + c.counters
SizeOf(c) == VarsAt(c) + c.vars

\* An int that leaves its range comes in again at the other end.
Wrapped(x) == ((x + HalfInt) % (2 * HalfInt)) - HalfInt

ASSUME ProcessAssumption == Util \notin Process
ASSUME ConfigAssumption  == /\ MaxIndex \in Nat /\ Powers \subseteq 1 .. MaxIndex + 1
                            /\ UserConfig \subseteq [counters : Nat, rows : Nat, vars : Nat]
                            /\ \A c \in UserConfig : \E p \in Powers : p >= c.counters
ASSUME CellsAssumption   == /\ Id \subseteq Slots /\ MaxCell \in Nat /\ MaxIndex < MaxCell
                            /\ \A c \in Configs : /\ SizeOf(c) <= MaxCell + 1
                                                  /\ LabelAt(c, MaxIndex) <= MaxCell
ASSUME AmountAssumption  == HalfInt \in Nat \ {0, 1} /\ Amount \subseteq Ints /\ Empty \notin Text
ASSUME BoundsAssumption  == MaxStarts \in Nat /\ MaxCalls \in Nat

VARIABLES
  mem,      \* the file: its size (0: there is none), arch, configuration and cells
  pc,       \* where each process, and the utility, is
  layout,   \* the configuration each one's section pointers were computed from
  mapped,   \* the size each one has mapped
  job,      \* the call each process is in: the index it uses, the amount or text
  limit, i, \* print_counters: the number of counters it found, its loop counter
  line,     \* print_counters: the line being put together
  lines,    \* the lines printed
  starts, calls,
  given,    \* history: per index, the sum of the adds since the memmap was cleared
  labels,   \* history: per index, the labels begun since then
  named,    \* history: the indexes with a label call that returned since then
  inuse,    \* history: something was stored into a section since then
  sums,     \* history: per index, the sums there were since the utility measured the file
  before,   \* history: named, and whether the file was cut short, at that time
  crossed,  \* history: a creation made a step since that time
  configs,  \* history: the configurations the file was ever created with
  muddled,  \* history: it was used while, or as if, it had another configuration
  blind     \* history: a row was logged by a header that was cleared

history == <<given, labels, named, inuse>>
noted   == <<sums, before>>
conduct == <<configs, blind>>
reader  == <<limit, i, line, lines>>
vars    == <<mem, pc, layout, mapped, job, reader, noted, starts, calls, history, conduct,
             muddled, crossed>>

Actor == Process \cup {Util}
Goto(a, l) == pc' = [pc EXCEPT ![a] = l]

-----------------------------------------------------------------------------
(* The cells.                                                              *)

NoJob == [index |-> 0, amount |-> 0, text |-> Empty]
NoneBefore == [named |-> {}, cut |-> FALSE]
NoSums == [s \in Slots |-> {}]
NoConfig == [counters |-> 0, rows |-> 0, vars |-> 0]
NoText == <<Empty, Empty>>
Zero == [int |-> 0, used |-> FALSE, text |-> NoText]
Scrap == [int |-> 1, used |-> TRUE, text |-> NoText]   \* of a row or a variable
Blank(from) == [c \in Cells |-> IF c < from THEN mem.cell[c] ELSE Zero]

\* id & (num_counters - 1), with the number that is in the header now: where the
\* header is cleared the mask is all ones.
Index(id) == IF mem.config = NoConfig THEN id ELSE id % mem.config.counters

Creating == {"truncate", "head", "body", "arch", "config"}
Calling  == {"add", "text1", "text2", "used", "store"}
Alive(p) == pc[p] \notin {"off", "killed"}

\* The last cell the next step of an actor touches.
At(a) == CASE pc[a] = "body"  -> SizeOf(layout[a]) - 1
           [] pc[a] = "touch" -> mapped[a] - 1
           [] pc[a] \in {"add", "used"} -> CounterAt(job[a].index)
           [] pc[a] \in {"text1", "text2"} -> LabelAt(layout[a], job[a].index)
           [] pc[a] = "store" -> job[a].index
           [] pc[a] \in {"puse", "pvalue"} -> CounterAt(i)
           [] pc[a] \in {"ptext1", "ptext2"} -> LabelAt(layout[a], i)
           [] OTHER -> 0
Touching == {"head", "body", "arch", "config", "ready"} \cup Calling
              \cup {"touch", "sections", "check", "print", "puse", "ptext1", "ptext2", "pvalue"}
Reach(a) == mapped[a] > At(a) /\ mem.size > At(a)

\* An access outside what is mapped, or behind the end of the file, is a signal
\* nobody handles.
Fault(a) ==
  /\ pc[a] \in Touching /\ ~Reach(a)
  /\ pc[a] = "ready" => calls < MaxCalls
  /\ pc[a] = "puse" => i < limit
  /\ Goto(a, "killed")
  /\ UNCHANGED <<mem, layout, mapped, job, reader, noted, starts, calls, history, conduct, muddled, crossed>>

Kill(p) ==
  /\ Alive(p)
  /\ Goto(p, "off")
  /\ layout' = [layout EXCEPT ![p] = NoConfig] /\ mapped' = [mapped EXCEPT ![p] = 0]
  /\ job' = [job EXCEPT ![p] = NoJob]
  /\ UNCHANGED <<mem, reader, noted, starts, calls, history, conduct, muddled, crossed>>

-----------------------------------------------------------------------------
(* __log2mem_create, each step of which crosses an attach in progress.     *)

Create(p, from, to) ==
  /\ pc[p] = from
  /\ Goto(p, to)
  /\ crossed' = (pc[Util] # "off")
  /\ before' = IF crossed' THEN NoneBefore ELSE before
  /\ sums' = IF crossed' THEN NoSums ELSE sums
  /\ UNCHANGED <<reader, calls>>

\* Wrong, NobodyKilled: with O_TRUNC, as the comment above the call has it.
Open_Trunc(p) ==
  /\ Create(p, "off", "truncate")
  /\ starts < MaxStarts
  /\ starts' = starts + 1
  /\ \E c \in UserConfig : layout' = [layout EXCEPT ![p] = Rounded(c)]
  /\ mem' = [size |-> 0, arch |-> FALSE, config |-> NoConfig, cell |-> Blank(0)]
  /\ UNCHANGED <<mapped, job, history, conduct, muddled>>

\* An existing file keeps its content: there is no O_TRUNC.
Open(p) ==
  /\ Create(p, "off", "truncate")
  /\ starts < MaxStarts
  /\ starts' = starts + 1
  /\ \E c \in UserConfig : layout' = [layout EXCEPT ![p] = Rounded(c)]
  /\ UNCHANGED <<mem, mapped, job, history, conduct, muddled>>

\* ftruncate and mmap: what is behind the new end is lost, also if the file grows
\* again later.
Truncate(p) ==
  LET size == SizeOf(layout[p]) IN
  /\ Create(p, "truncate", "head")
  /\ mem' = [mem EXCEPT !.size = size, !.cell = Blank(size)]
  /\ mapped' = [mapped EXCEPT ![p] = size]
  /\ configs' = configs \cup {layout[p]}
  /\ muddled' = (muddled \/ size < SizeOf(mem.config))
  /\ UNCHANGED <<layout, job, starts, history, blind>>

\* memset goes through the header first.
ClearHead(p) ==
  /\ Create(p, "head", "body")
  /\ Reach(p)
  /\ mem' = [mem EXCEPT !.arch = FALSE, !.config = NoConfig]
  /\ UNCHANGED <<layout, mapped, job, starts, history, conduct, muddled>>

\* Wrong, PrintedCounts: what an earlier program counted is left in the file.
ClearBody_Not(p) ==
  /\ Create(p, "body", "arch")
  /\ Reach(p)
  /\ given' = [s \in Slots |-> 0]
  /\ labels' = [s \in Slots |-> {}] /\ named' = {} /\ inuse' = FALSE
  /\ muddled' = \/ \E q \in Process : pc[q] \in Calling
                \/ mapped[p] < mem.size /\ (muddled \/ inuse)
  /\ UNCHANGED <<mem, layout, mapped, job, starts, conduct>>

ClearBody(p) ==
  /\ Create(p, "body", "arch")
  /\ Reach(p)
  /\ mem' = [mem EXCEPT !.cell = [c \in Cells |-> IF c < mapped[p] THEN Zero ELSE @[c]]]
  /\ given' = [s \in Slots |-> 0]
  /\ labels' = [s \in Slots |-> {}] /\ named' = {} /\ inuse' = FALSE
  /\ muddled' = \/ \E q \in Process : pc[q] \in Calling
                \/ mapped[p] < mem.size /\ (muddled \/ inuse)
  /\ UNCHANGED <<layout, mapped, job, starts, conduct>>

\* If the file is in use here, another creation got ahead of this one.
FillArch(p) ==
  /\ Create(p, "arch", "config")
  /\ Reach(p)
  /\ mem' = [mem EXCEPT !.arch = TRUE]
  /\ muddled' = (muddled \/ inuse)
  /\ UNCHANGED <<layout, mapped, job, starts, history, conduct>>

FillConfig(p) ==
  /\ Create(p, "config", "ready")
  /\ Reach(p)
  /\ mem' = [mem EXCEPT !.config = layout[p]]
  /\ muddled' = (muddled \/ inuse)
  /\ UNCHANGED <<layout, mapped, job, starts, history, conduct>>

-----------------------------------------------------------------------------
(* log2mem_counter_add, log2mem_counter_label, and the calls that store    *)
(* into the other sections.                                                *)

Call(p, to) ==
  /\ pc[p] = "ready" /\ calls < MaxCalls /\ Reach(p)
  /\ calls' = calls + 1
  /\ muddled' = (muddled \/ mem.config # layout[p])
  /\ Goto(p, to)
  /\ UNCHANGED <<mem, layout, mapped, reader, noted, starts, history, configs, crossed>>

CallAdd(p) ==
  \E id \in Id, k \in Amount :
    /\ job' = [job EXCEPT ![p] = [index |-> Index(id), amount |-> k, text |-> Empty]]
    /\ Call(p, "add") /\ UNCHANGED blind

CallLabel(p) ==
  \E id \in Id, x \in Text :
    /\ job' = [job EXCEPT ![p] = [index |-> Index(id), amount |-> 0, text |-> x]]
    /\ Call(p, "text1") /\ UNCHANGED blind

\* A row lies where the length and the number of rows in the header lead from the
\* process's own rows, which is anywhere behind them where the header is cleared
\* (nextrow grows, and no mask confines it); a variable is one of its own.
InRows(p, c) == /\ RowsAt(layout[p]) <= c
                /\ mem.config = NoConfig \/ c < RowsAt(layout[p]) + mem.config.rows
InVars(p, c) == VarsAt(layout[p]) <= c /\ c < SizeOf(layout[p])

\* The cell behind the last stands for all that are not mapped.
CallLog(p) ==
  \E c \in 0 .. MaxCell + 1 :
    /\ InRows(p, c) \/ InVars(p, c)
    /\ job' = [job EXCEPT ![p] = [index |-> c, amount |-> 0, text |-> Empty]]
    /\ blind' = (blind \/ mem.config = NoConfig)
    /\ Call(p, "store")

Use(p, from, to) ==
  /\ pc[p] = from /\ Reach(p)
  /\ muddled' = (muddled \/ mem.config # layout[p])
  /\ Goto(p, to)
  /\ job' = IF to = "ready" THEN [job EXCEPT ![p] = NoJob] ELSE job
  /\ UNCHANGED <<layout, mapped, reader, starts, calls, conduct, crossed>>

\* The increment is one atomic step; the sum wraps.
Add(p) ==
  LET k == job[p].index  c == CounterAt(k) IN
  /\ Use(p, "add", "ready")
  /\ mem' = [mem EXCEPT !.cell[c].int = Wrapped(@ + job[p].amount)]
  /\ given' = [given EXCEPT ![k] = @ + job[p].amount]
  /\ sums' = [sums EXCEPT ![k] = IF @ = {} THEN {} ELSE @ \cup {given'[k]}]
  /\ inuse' = TRUE
  /\ UNCHANGED <<labels, named, before>>

\* Wrong, LabelWhole: the counter is shown before its label is copied.
PutText1_Used(p) ==
  LET k == job[p].index IN
  /\ Use(p, "text1", "text2")
  /\ mem' = [mem EXCEPT !.cell[LabelAt(layout[p], k)].text[1] = job[p].text,
                        !.cell[CounterAt(k)].used = TRUE]
  /\ labels' = [labels EXCEPT ![k] = @ \cup {job[p].text}]
  /\ inuse' = TRUE
  /\ UNCHANGED <<given, named, noted>>

\* strncpy, which pads the whole field, copied in two halves.
PutText1(p) ==
  LET k == job[p].index IN
  /\ Use(p, "text1", "text2")
  /\ mem' = [mem EXCEPT !.cell[LabelAt(layout[p], k)].text[1] = job[p].text]
  /\ labels' = [labels EXCEPT ![k] = @ \cup {job[p].text}]
  /\ inuse' = TRUE
  /\ UNCHANGED <<given, named, noted>>

PutText2(p) ==
  /\ Use(p, "text2", "used")
  /\ mem' = [mem EXCEPT !.cell[LabelAt(layout[p], job[p].index)].text[2] = job[p].text]
  /\ UNCHANGED <<history, noted>>

StoreUsed(p) ==
  LET k == job[p].index IN
  /\ Use(p, "used", "ready")
  /\ mem' = [mem EXCEPT !.cell[CounterAt(k)].used = TRUE]
  /\ named' = named \cup {k}
  /\ UNCHANGED <<given, labels, inuse, noted>>

\* One of the stores into a row or a variable.
Store(p) ==
  /\ Use(p, "store", "ready")
  /\ mem' = [mem EXCEPT !.cell[job[p].index] = Scrap]
  /\ inuse' = TRUE
  /\ UNCHANGED <<given, labels, named, noted>>

-----------------------------------------------------------------------------
(* log2mem-util: log2mem_attach and print_counters.                        *)

Utility(from, to) ==
  /\ pc[Util] = from
  /\ Goto(Util, to)
  /\ UNCHANGED <<mem, job, starts, calls, history, conduct, muddled>>

CutShort == mem.size < SizeOf(mem.config)

NoReader ==
  /\ layout' = [layout EXCEPT ![Util] = NoConfig] /\ mapped' = [mapped EXCEPT ![Util] = 0]
  /\ limit' = 0 /\ i' = 0 /\ lines' = {}
  /\ before' = NoneBefore /\ sums' = NoSums /\ crossed' = FALSE
  /\ UNCHANGED line

\* open, fstat, mmap.
Measure ==
  /\ Utility("off", "touch")
  /\ mem.size > 0
  /\ mapped' = [mapped EXCEPT ![Util] = mem.size]
  /\ before' = [named |-> named, cut |-> CutShort]
  /\ sums' = [s \in Slots |-> {given[s]}]
  /\ UNCHANGED <<layout, limit, i, line, lines, crossed>>

\* Every byte of the mapping is read once.
TouchAll ==
  /\ Utility("touch", "sections")
  /\ Reach(Util)
  /\ UNCHANGED <<layout, mapped, reader, noted, crossed>>

\* The section pointers follow from the configuration in the header.
SectionPointers ==
  /\ Utility("sections", "check")
  /\ Reach(Util)
  /\ layout' = [layout EXCEPT ![Util] = mem.config]
  /\ UNCHANGED <<mapped, reader, noted, crossed>>

CheckArch ==
  /\ Utility("check", "print")
  /\ Reach(Util) /\ mem.arch
  /\ UNCHANGED <<layout, mapped, reader, noted, crossed>>

\* Another architecture, such as none: the run ends.
CheckFails ==
  /\ Utility("check", "off")
  /\ Reach(Util) /\ ~mem.arch
  /\ NoReader

BeginCounters ==
  /\ Utility("print", "puse")
  /\ Reach(Util)
  /\ limit' = mem.config.counters
  /\ UNCHANGED <<layout, mapped, i, line, lines, noted, crossed>>

PrintUsed ==
  LET c == mem.cell[CounterAt(i)] IN
  /\ i < limit /\ Reach(Util)
  /\ IF c.used \/ c.text # NoText
     THEN Utility("puse", "ptext1") /\ UNCHANGED i
     ELSE Utility("puse", "puse") /\ i' = i + 1
  /\ UNCHANGED <<layout, mapped, limit, line, lines, noted, crossed>>

\* strncpy again, from what other processes may be copying to.
PrintLabel1 ==
  /\ Utility("ptext1", "ptext2")
  /\ Reach(Util)
  /\ line' = [line EXCEPT ![1] = mem.cell[LabelAt(layout[Util], i)].text[1]]
  /\ UNCHANGED <<layout, mapped, limit, i, lines, noted, crossed>>

PrintLabel2 ==
  /\ Utility("ptext2", "pvalue")
  /\ Reach(Util)
  /\ line' = [line EXCEPT ![2] = mem.cell[LabelAt(layout[Util], i)].text[2]]
  /\ UNCHANGED <<layout, mapped, limit, i, lines, noted, crossed>>

PrintValue ==
  /\ Utility("pvalue", "puse")
  /\ Reach(Util)
  /\ lines' = lines \cup {[at |-> i, text |-> line, value |-> mem.cell[CounterAt(i)].int]}
  /\ line' = NoText
  /\ i' = i + 1
  /\ UNCHANGED <<layout, mapped, limit, noted, crossed>>

EndCounters ==
  /\ Utility("puse", "off")
  /\ i = limit
  /\ NoReader

-----------------------------------------------------------------------------
Init ==
  /\ mem = [size |-> 0, arch |-> FALSE, config |-> NoConfig, cell |-> [c \in Cells |-> Zero]]
  /\ pc = [a \in Actor |-> "off"]
  /\ layout = [a \in Actor |-> NoConfig] /\ mapped = [a \in Actor |-> 0]
  /\ job = [p \in Process |-> NoJob]
  /\ limit = 0 /\ i = 0 /\ line = NoText /\ lines = {}
  /\ starts = 0 /\ calls = 0
  /\ given = [s \in Slots |-> 0] /\ labels = [s \in Slots |-> {}] /\ named = {}
  /\ inuse = FALSE /\ sums = NoSums /\ before = NoneBefore
  /\ configs = {} /\ muddled = FALSE /\ crossed = FALSE /\ blind = FALSE

Step(p) ==
  \/ Open(p) \/ Truncate(p) \/ ClearHead(p) \/ ClearBody(p) \/ FillArch(p) \/ FillConfig(p)
  \/ CallAdd(p) \/ CallLabel(p) \/ CallLog(p)
  \/ Add(p) \/ PutText1(p) \/ PutText2(p) \/ StoreUsed(p) \/ Store(p)
  \/ Kill(p)

Run == \/ Measure \/ TouchAll \/ SectionPointers \/ CheckArch \/ CheckFails \/ BeginCounters
       \/ PrintUsed \/ PrintLabel1 \/ PrintLabel2 \/ PrintValue \/ EndCounters

Next == (\E p \in Process : Step(p)) \/ Run \/ \E a \in Actor : Fault(a)

Spec == Init /\ [][Next]_vars

-----------------------------------------------------------------------------
(* Properties.                                                             *)

TypeOK ==
  /\ mem.size \in {0} \cup {SizeOf(c) : c \in Configs}
  /\ mem.arch \in BOOLEAN /\ mem.config \in {NoConfig} \cup Configs
  /\ DOMAIN mem.cell = Cells /\ \A c \in Cells : mem.cell[c].int \in Ints
  /\ pc \in [Actor -> {"off", "ready", "killed"}
                         \cup Creating \cup Touching]
  /\ layout \in [Actor -> {NoConfig} \cup Configs]
  /\ \A p \in Process : Alive(p) => layout[p].counters \in Powers
  /\ limit \in {0} \cup Powers /\ i \in 0 .. limit
  /\ \A s \in Slots : labels[s] \subseteq Text
  /\ \A l \in lines : l.at < i

\* Attach was crossed by no creation, found a file that none had cut short, and
\* nobody had used the file as if it had another configuration.
Undisturbed == ~crossed /\ ~before.cut /\ ~muddled

\* Counts survive the death of the program, and of a later one that dies before
\* it clears the file: a run of the utility shows every counter with a label,
\* none without, and of each a count that it had after some add between the
\* beginning of the run and now, all the adds before it included and none of what
\* an earlier program counted.
PrintedCounts ==
  (pc[Util] = "puse" /\ i = limit /\ Undisturbed) =>
    /\ before.named \subseteq {l.at : l \in lines}
    /\ \A l \in lines : /\ labels[l.at] # {}
                        /\ \E sum \in sums[l.at] : l.value = Wrapped(sum)

\* A counter that was given one label is never shown with half of it.
LabelWhole ==
  Undisturbed => \A l \in lines, x \in Text : labels[l.at] = {x} => l.text = <<x, x>>

\* Restarts of the program, and a second program on the same file, do no harm to
\* those who have it mapped as long as all ask for the same configuration (numbers
\* of counters, rows and variables, length of rows), keep to its ids, and log no row
\* by a header that was cleared; whatever they do, they do none to a utility that
\* starts later, but for a file that a creation which died had cut short.
NobodyKilled ==
  /\ (Cardinality(configs) = 1 /\ ~blind /\ \A c \in configs, id \in Id : id < c.counters) =>
       \A a \in Actor : pc[a] # "killed"
  /\ pc[Util] = "killed" => crossed \/ before.cut
=============================================================================
