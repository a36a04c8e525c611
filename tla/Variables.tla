----------------------------- MODULE Variables -----------------------------
(***************************************************************************)
(* The variables of the memmap: initialised, set and read by the threads   *)
(* of the program (log2mem_var_double_*, log2mem_var_int_* of log2mem.c),  *)
(* and set from outside by log2mem-util, by index or by name.  Nobody      *)
(* takes a lock: loads and stores of shared memory are steps, those of a   *)
(* text two.                                                               *)
(*                                                                         *)
(* The two tables are one array of slots, the doubles first, which is the  *)
(* order of the utility's search by name.  A text is kept as two halves    *)
(* so that copies and comparisons of it can interleave.                    *)
(***************************************************************************)
EXTENDS Integers, Sequences

CONSTANTS
  Thread,     \* the threads of the program
  Utility,    \* processes that run log2mem-util
  NumVars,    \* config.num_vars, a power of two
  Id,         \* ids the program and the user use
  Value,      \* values of variables
  InitValue,  \* the ones the program initialises variables with
  Nonsense,   \* an argument sscanf finds no number in
  Name,       \* names of variables, shorter than MEMLOG_LABEL_LEN
  NoName,     \* the empty text, and the null pointer for src
  Src,        \* what the program passes for src
  Shadowed,   \* names that begin with double, int or string and go on with letters
  Indexed,    \* names that are double or int with digits or nothing behind: the
              \* kind and the id such a name reads as
  Command,    \* command lines: sequences of settings
  MaxCalls,   \* bound on the calls of the program
  MaxRuns     \* bound on the runs of the utility

Actor    == Thread \cup Utility
NumSlots == 2 * NumVars
Slots    == 0 .. NumSlots - 1

ASSUME ActorAssumption == Thread \cap Utility = {}
ASSUME NumVarsAssumption == NumVars \in Nat \ {0}
ASSUME IdAssumption == Id \subseteq Nat
ASSUME ValueAssumption == 0 \in Value /\ Nonsense \notin Value /\ InitValue \subseteq Value
ASSUME NameAssumption == NoName \notin Name /\ Shadowed \subseteq Name /\ Src \subseteq Name \cup {NoName}
ASSUME IndexedAssumption ==
  /\ DOMAIN Indexed \subseteq Name \ Shadowed
  /\ Indexed \in [DOMAIN Indexed -> [kind : {"double", "int"}, id : Id]]
ASSUME BoundAssumption == MaxCalls \in Nat /\ MaxRuns \in Nat

\* One setting on a command line: --int[id]=value and the like, --name=value,
\* or an argument that ends the run (help, an incomplete or unexpected one).
\* --string with or without digits, and an empty name, set nothing and are left out.
Setting ==
  [op : {"id"}, kind : {"double", "int"}, id : Id, value : Value \cup {Nonsense}]
    \cup [op : {"name"}, name : Name, value : Value \cup {Nonsense}]
    \cup [op : {"bad"}]
ASSUME CommandAssumption == Command \subseteq Seq(Setting)

VARIABLES
  var,      \* the slots of both tables
  act,      \* the call each actor is in, and where
  job,      \* settings each utility has still to carry out
  search,   \* history: of each utility's latest search by name
  calls,    \* calls made by the program
  runs,     \* runs of the utility
  settled   \* history: slots that were once initialised with no call on them

vars == <<var, act, job, search, calls, runs, settled>>

Idle == [pc |-> "idle", op |-> "none", slot |-> 0, value |-> 0, name |-> NoName,
         flags |-> {}]

At(a, l) == act[a].pc = l
Goto(a, l) == act' = [act EXCEPT ![a].pc = l]
Return(a)  == act' = [act EXCEPT ![a] = Idle]

\* id & (num_vars - 1), in the table of the kind.
SlotOf(kind, id) == (id % NumVars) + (IF kind = "int" THEN NumVars ELSE 0)

\* A call of log2mem_var_*_init or _set has come past its entry.
InCall(a, v) == act[a].op \in {"init", "set"} /\ act[a].slot = v

-----------------------------------------------------------------------------
(* The calls of the program.                                               *)

Begin(a, op, l, v, x, n) ==
  /\ At(a, "idle")
  /\ act' = [act EXCEPT ![a] = [pc |-> l, op |-> op, slot |-> v, value |-> x, name |-> n,
                                flags |-> {}]]

Call(t) == t \in Thread /\ calls < MaxCalls /\ calls' = calls + 1
           /\ UNCHANGED <<var, job, search, runs>>

CallInit(t) ==
  /\ Call(t)
  /\ \E k \in {"double", "int"}, i \in Id, x \in InitValue, n \in Src :
       Begin(t, "init", "check", SlotOf(k, i), x, n)

CallSet(t) ==
  /\ Call(t)
  /\ \E k \in {"double", "int"}, i \in Id, x \in Value :
       Begin(t, "set", "value", SlotOf(k, i), x, NoName)

\* A loop that ends when log2mem_var_int_get returns something else than zero; a
\* round of it that reads zero changes nothing.
CallPoll(t) ==
  /\ Call(t)
  /\ \E i \in Id : Begin(t, "poll", "get", SlotOf("int", i), 0, NoName)

Get(t) ==
  /\ At(t, "get")
  /\ var[act[t].slot].value # 0
  /\ Return(t)
  /\ UNCHANGED <<var, job, search, calls, runs>>

-----------------------------------------------------------------------------
(* The steps of init and set, the same for program and utility.            *)

Check_Not(a) == At(a, "check") /\ Goto(a, "value")   \* wrong: StopFlagSeen
                /\ UNCHANGED <<var, job, search, calls, runs>>

Check(a) ==
  /\ At(a, "check")
  /\ IF "Initialised" \in var[act[a].slot].flags THEN Return(a) ELSE Goto(a, "value")
  /\ UNCHANGED <<var, job, search, calls, runs>>

StoreValue(a) ==
  /\ At(a, "value")
  /\ var' = [var EXCEPT ![act[a].slot].value = act[a].value]
  /\ Goto(a, "load")
  /\ UNCHANGED <<job, search, calls, runs>>

\* flags |= ... is a load and a store.
LoadFlags(a) ==
  /\ At(a, "load")
  /\ act' = [act EXCEPT ![a].pc = "flags", ![a].flags = var[act[a].slot].flags]
  /\ UNCHANGED <<var, job, search, calls, runs>>

Bits_Init(op) == IF op = "init" THEN {"Initialised"} ELSE {"Used"}   \* wrong: ShownStaysShown
Bits(op) == {"Used"} \cup (IF op = "init" THEN {"Initialised"} ELSE {})

\* Wrong, SettledForGood: flags = ... for flags |= ...
StoreFlags_Assign(a) ==
  /\ At(a, "flags")
  /\ var' = [var EXCEPT ![act[a].slot].flags = Bits(act[a].op)]
  /\ IF act[a].name = NoName THEN Return(a) ELSE Goto(a, "text1")
  /\ UNCHANGED <<job, search, calls, runs>>

StoreFlags(a) ==
  /\ At(a, "flags")
  /\ var' = [var EXCEPT ![act[a].slot].flags = act[a].flags \cup Bits(act[a].op)]
  /\ IF act[a].name = NoName THEN Return(a) ELSE Goto(a, "text1")
  /\ UNCHANGED <<job, search, calls, runs>>

\* strncpy of src into the text.
CopyText(a) ==
  \/ /\ At(a, "text1")
     /\ var' = [var EXCEPT ![act[a].slot].text = <<act[a].name, @[2]>>]
     /\ Goto(a, "text2")
     /\ UNCHANGED <<job, search, calls, runs>>
  \/ /\ At(a, "text2")
     /\ var' = [var EXCEPT ![act[a].slot].text = <<@[1], act[a].name>>]
     /\ Return(a)
     /\ UNCHANGED <<job, search, calls, runs>>

-----------------------------------------------------------------------------
(* The utility.                                                            *)

\* The option words are compared as prefixes, so --NAME=N is first tried as a
\* setting by index: a name that has digits, or nothing, behind the word is one.
Meant(s) ==
  IF s.op = "name" /\ s.name \in DOMAIN Indexed
  THEN [op |-> "id", kind |-> Indexed[s.name].kind, id |-> Indexed[s.name].id,
        value |-> s.value]
  ELSE s

\* Arguments on which parse_args ends the process, such as a name that has anything
\* else behind the word.
Stops(s) == s.op = "bad" \/ (s.op = "name" /\ s.name \in Shadowed)

\* A run that ends in its first pass, which sets nothing, or cannot attach.
Refuse(u) ==
  /\ u \in Utility /\ At(u, "idle") /\ job[u] = <<>> /\ runs < MaxRuns
  /\ runs' = runs + 1
  /\ UNCHANGED <<var, act, job, search, calls>>

\* The second pass, on a command line that the first one went through.
Run(u) ==
  /\ u \in Utility /\ At(u, "idle") /\ job[u] = <<>> /\ runs < MaxRuns
  /\ \E c \in Command :
       /\ c # <<>> /\ \A k \in DOMAIN c : ~Stops(c[k])
       /\ job' = [job EXCEPT ![u] = [k \in DOMAIN c |-> Meant(c[k])]]
  /\ runs' = runs + 1
  /\ UNCHANGED <<var, act, search, calls>>

TakeSetting(u, op) ==
  /\ u \in Utility /\ job[u] # <<>> /\ Head(job[u]).op = op
  /\ job' = [job EXCEPT ![u] = Tail(@)]

\* Wrong, TypeOK: what was typed is stored.
SetById_Raw(u) ==
  /\ TakeSetting(u, "id")
  /\ LET s == Head(job[u]) IN
       Begin(u, "set", "value", SlotOf(s.kind, s.id), s.value, NoName)
  /\ UNCHANGED <<var, search, calls, runs>>

\* set_var_double and set_var_int: val is not initialised, and stays so when
\* sscanf finds no number.
SetById(u) ==
  /\ TakeSetting(u, "id")
  /\ LET s == Head(job[u]) IN
       \E x \in IF s.value = Nonsense THEN Value ELSE {s.value} :
         Begin(u, "set", "value", SlotOf(s.kind, s.id), x, NoName)
  /\ UNCHANGED <<var, search, calls, runs>>

Named(n) == {v \in Slots : var[v].text = <<n, n>>}

\* set_var_by_name, which does not go through the library.
SetByName(u) ==
  /\ TakeSetting(u, "name")
  /\ LET s == Head(job[u]) IN
       /\ Begin(u, "name", "used", 0, s.value, s.name)
       /\ search' = [search EXCEPT ![u] = [known |-> settled \cap Named(s.name), hit |-> {}]]
  /\ UNCHANGED <<var, calls, runs>>

\* On to the next variable, in the doubles and then the ints.
NextVar(u) ==
  act' = [act EXCEPT ![u].pc = "used", ![u].slot = @ + 1]

Test(u, l, passed, next) ==
  At(u, l) /\ IF passed THEN Goto(u, next) ELSE NextVar(u)

\* The test of a variable: its flag, then strcmp of its text.
Match(u) ==
  LET v == var[act[u].slot] n == act[u].name IN
    /\ act[u].op = "name" /\ act[u].slot < NumSlots
    /\ \/ Test(u, "used", "Used" \in v.flags, "cmp1")
       \/ Test(u, "cmp1", v.text[1] = n, "cmp2")
       \/ Test(u, "cmp2", v.text[2] = n, "store")
    /\ UNCHANGED <<var, job, search, calls, runs>>

\* Wrong, NameReaches: only the first variable of the name is set.
StoreByName_First(u) ==
  LET a == act[u] IN
    /\ At(u, "store")
    /\ var' = IF a.value = Nonsense THEN var ELSE [var EXCEPT ![a.slot].value = a.value]
    /\ search' = [search EXCEPT ![u].hit = @ \cup {a.slot}]
    /\ act' = [act EXCEPT ![u].pc = "used", ![u].slot = NumSlots]
    /\ UNCHANGED <<job, calls, runs>>

\* sscanf into the variable itself: without a number the value stays.
StoreByName(u) ==
  LET a == act[u] IN
    /\ At(u, "store")
    /\ var' = IF a.value = Nonsense THEN var ELSE [var EXCEPT ![a.slot].value = a.value]
    /\ search' = [search EXCEPT ![u].hit = @ \cup {a.slot}]
    /\ NextVar(u)
    /\ UNCHANGED <<job, calls, runs>>

EndSearch(u) ==
  /\ act[u].op = "name" /\ act[u].slot = NumSlots
  /\ Return(u)
  /\ UNCHANGED <<var, job, search, calls, runs>>

-----------------------------------------------------------------------------
Init ==
  /\ var = [v \in Slots |-> [value |-> 0, flags |-> {}, text |-> <<NoName, NoName>>]]
  /\ act = [a \in Actor |-> Idle]
  /\ job = [u \in Utility |-> <<>>]
  /\ search = [u \in Utility |-> [known |-> {}, hit |-> {}]]
  /\ calls = 0 /\ runs = 0
  /\ settled = {}

Step(a) ==
  \/ CallInit(a) \/ CallSet(a) \/ CallPoll(a) \/ Get(a)
  \/ Check(a) \/ StoreValue(a) \/ LoadFlags(a) \/ StoreFlags(a) \/ CopyText(a)
  \/ Refuse(a) \/ Run(a) \/ SetById(a) \/ SetByName(a)
  \/ Match(a) \/ StoreByName(a) \/ EndSearch(a)

Settle ==
  settled' = settled \cup
    {v \in Slots : "Initialised" \in var'[v].flags /\ \A a \in Actor : ~InCall(a, v)'}

Next == (\E a \in Actor : Step(a)) /\ Settle

Spec == Init /\ [][Next]_vars

\* A thread that polls is scheduled; nothing else is assumed to go on.
FairSpec == Spec /\ \A t \in Thread : WF_vars(Get(t) /\ Settle)

-----------------------------------------------------------------------------
(* Properties.                                                             *)

Flags == SUBSET {"Initialised", "Used"}
Text  == Name \cup {NoName}
VarState == [value : Value, flags : Flags, text : Text \X Text]
CallState == [pc : {"idle", "check", "value", "load", "flags", "text1", "text2",
                    "get", "used", "cmp1", "cmp2", "store"},
              op : {"none", "init", "set", "poll", "name"}, slot : 0 .. NumSlots,
              value : Value \cup {Nonsense}, name : Text, flags : Flags]

TypeOK ==
  /\ var \in [Slots -> VarState]
  /\ act \in [Actor -> CallState]
  /\ job \in [Utility -> Seq(Setting)]
  /\ search \in [Utility -> [known : SUBSET Slots, hit : SUBSET Slots]]
  /\ calls \in 0 .. MaxCalls /\ runs \in 0 .. MaxRuns
  /\ settled \subseteq Slots

\* A variable that print_vars shows, or a search by name considers, never
\* disappears again, although flags |= ... loses bits to its likes.
ShownStaysShown ==
  [][\A v \in Slots : "Used" \in var[v].flags => "Used" \in var'[v].flags]_vars

\* From the first moment a variable is initialised with no call on it, no
\* initialisation touches it any more: its name stays, it remains initialised,
\* and its value only changes to what a set stores, from inside or outside.
SettledForGood ==
  [][\A v \in settled :
       /\ "Initialised" \in var'[v].flags
       /\ var'[v].text = var[v].text
       /\ var'[v].value # var[v].value =>
            \E a \in Actor : /\ act[a].op \in {"set", "name"} /\ act[a].slot = v
                             /\ var'[v].value = act[a].value]_vars

\* A search by name reaches every variable that was settled with that name when
\* it began, in both tables.
NameReaches ==
  \A u \in Utility :
    (act[u].op = "name" /\ act[u].slot = NumSlots) => search[u].known \subseteq search[u].hit

BeingSet(v) == \E a \in Actor : act[a].slot = v /\ (act[a].op = "set" \/ At(a, "store"))

\* A program that waits for a variable, as the example programs do for their
\* stop flag, sees a value that was set once the variable had settled, unless
\* somebody sets it again.
StopFlagSeen ==
  \A t \in Thread, v \in Slots :
    (At(t, "get") /\ act[t].slot = v /\ v \in settled /\ var[v].value # 0 /\ ~BeingSet(v))
      ~> (~At(t, "get") \/ BeingSet(v))
=============================================================================
