----------------------------- MODULE HandleInit -----------------------------
(***************************************************************************)
(* How a process comes by its memmap: log2mem_init with its double-checked *)
(* lock, __log2mem_create behind it, and MEMLOG_PREPARE_PTR, by which      *)
(* every other entry point of liblog2mem/log2mem.c, the queries included,  *)
(* starts the default initialisation when there is no handle yet.          *)
(*                                                                         *)
(* The memmap is kept as far as initialisation touches it: whether its     *)
(* header is filled, by which configuration, and the rows logged into it.  *)
(* logged and unready are history variables.                               *)
(***************************************************************************)
EXTENDS Integers, FiniteSets

CONSTANTS
  Thread,       \* the threads of the process
  Nil,          \* no handle, no thread
  UserConfig,   \* configurations a log2mem_init call may carry
  Default,      \* the configuration of __default_log2mem_init
  Calls,        \* the entry points the application uses
  MaxCalls      \* bound on the calls made in a behaviour

Config == UserConfig \cup {Default}

ASSUME NilAssumption    == Nil \notin Thread /\ Nil \notin Config
ASSUME ConfigAssumption == Default \notin UserConfig
ASSUME CallsAssumption  == Calls \subseteq {"init", "log", "query"}
ASSUME MaxAssumption    == MaxCalls \in Nat

VARIABLES
  g,        \* g_log2mem: Nil or the thread whose handle is published
  lock,     \* g_log2mem_lock: 0 or 1
  pc,       \* where each thread is
  call,     \* the entry point each thread is in
  cfg,      \* the configuration on its way to __log2mem_create
  fd,       \* what open returned to each thread: "none", "ok" or "bad"
  map,      \* the content of the memmap file
  calls,    \* calls made
  exiting,  \* the thread inside exit(1)
  ended,    \* the process has ended
  hook,     \* the application registered an atexit function that logs
  logged,   \* history: rows logged through the published handle
  answer,   \* what each thread's latest log2mem_filename returned
  unready   \* history: there was no handle when that call was made

vars == <<g, lock, pc, call, cfg, fd, map, calls, exiting, ended, hook,
          logged, answer, unready>>

Goto(t, l) == pc' = [pc EXCEPT ![t] = l]
NoMem == [header |-> Nil, zeroed |-> FALSE, rows |-> 0]

-----------------------------------------------------------------------------
(* Entry points.                                                           *)

\* log2mem_init(filename, config, size), called by the application.
CallInit(t) ==
  /\ pc[t] = "idle" /\ "init" \in Calls /\ calls < MaxCalls
  /\ call' = [call EXCEPT ![t] = "init"]
  /\ \E c \in UserConfig : cfg' = [cfg EXCEPT ![t] = c]
  /\ calls' = calls + 1
  /\ Goto(t, "check1")
  /\ UNCHANGED <<g, lock, fd, map, exiting, ended, hook, logged, answer, unready>>

\* Any other entry point: log2mem_get_row and its like, log2mem_filename.
CallOther(t, kind) ==
  /\ pc[t] = "idle" /\ kind \in Calls \ {"init"} /\ calls < MaxCalls
  /\ call' = [call EXCEPT ![t] = kind]
  /\ unready' = [unready EXCEPT ![t] = (g = Nil)]
  /\ calls' = calls + 1
  /\ Goto(t, "prepare")
  /\ UNCHANGED <<g, lock, cfg, fd, map, exiting, ended, hook, logged, answer>>

\* MEMLOG_PREPARE_PTR and __default_log2mem_init.
Prepare(t) ==
  /\ pc[t] = "prepare"
  /\ IF g = Nil
     THEN /\ cfg' = [cfg EXCEPT ![t] = Default]
          /\ Goto(t, "check1")
     ELSE /\ Goto(t, "use")
          /\ UNCHANGED cfg
  /\ UNCHANGED <<g, lock, call, fd, map, calls, exiting, ended, hook, logged, answer, unready>>

\* Where log2mem_init returns to.
After(t) == IF call[t] = "init" THEN "idle" ELSE "use"

-----------------------------------------------------------------------------
(* log2mem_init: double checked locking.                                   *)

Check1(t) ==
  /\ pc[t] = "check1"
  /\ Goto(t, IF g = Nil THEN "spin" ELSE After(t))
  /\ UNCHANGED <<g, lock, call, cfg, fd, map, calls, exiting, ended, hook, logged, answer, unready>>

\* Wrong, TypeOK: an increment is no test-and-set.
SpinLock_Add(t) ==
  /\ pc[t] = "spin"
  /\ lock' = lock + 1
  /\ Goto(t, "check2")
  /\ UNCHANGED <<g, call, cfg, fd, map, calls, exiting, ended, hook, logged, answer, unready>>

\* Wrong, OneHolder: the value that was there is not tested.
SpinLock_NoTest(t) ==
  /\ pc[t] = "spin"
  /\ lock' = 1
  /\ Goto(t, "check2")
  /\ UNCHANGED <<g, call, cfg, fd, map, calls, exiting, ended, hook, logged, answer, unready>>

\* The test-and-set that succeeds; those that fail change nothing.
SpinLock(t) ==
  /\ pc[t] = "spin"
  /\ lock = 0
  /\ lock' = 1
  /\ Goto(t, "check2")
  /\ UNCHANGED <<g, call, cfg, fd, map, calls, exiting, ended, hook, logged, answer, unready>>

\* Wrong, HandleFixed: the handle is not looked at again under the lock.
Check2_Not(t) ==
  /\ pc[t] = "check2"
  /\ Goto(t, "open")
  /\ UNCHANGED <<g, lock, call, cfg, fd, map, calls, exiting, ended, hook, logged, answer, unready>>

Check2(t) ==
  /\ pc[t] = "check2"
  /\ Goto(t, IF g = Nil THEN "open" ELSE "unlock")
  /\ UNCHANGED <<g, lock, call, cfg, fd, map, calls, exiting, ended, hook, logged, answer, unready>>

Publish(t) ==
  /\ pc[t] = "publish"
  /\ g' = t
  /\ Goto(t, "unlock")
  /\ UNCHANGED <<lock, call, cfg, fd, map, calls, exiting, ended, hook, logged, answer, unready>>

\* Wrong, EveryCallReturns: the lock is kept.
SpinUnlock_Not(t) ==
  /\ pc[t] = "unlock"
  /\ Goto(t, After(t))
  /\ UNCHANGED <<g, lock, call, cfg, fd, map, calls, exiting, ended, hook, logged, answer, unready>>

SpinUnlock(t) ==
  /\ pc[t] = "unlock"
  /\ lock' = 0
  /\ Goto(t, After(t))
  /\ UNCHANGED <<g, call, cfg, fd, map, calls, exiting, ended, hook, logged, answer, unready>>

-----------------------------------------------------------------------------
(* __log2mem_create.                                                       *)

\* open is not checked; its failure shows in the ftruncate that follows.
Open(t) ==
  /\ pc[t] = "open"
  /\ \E r \in {"ok", "bad"} : fd' = [fd EXCEPT ![t] = r]
  /\ Goto(t, "truncate")
  /\ UNCHANGED <<g, lock, call, cfg, map, calls, exiting, ended, hook, logged, answer, unready>>

\* ftruncate or mmap fails: exit(1), with the spinlock held.
Fail(t) ==
  /\ pc[t] \in {"truncate", "mmap"}
  /\ exiting' = t
  /\ Goto(t, "exit")
  /\ UNCHANGED <<g, lock, call, cfg, fd, map, calls, ended, hook, logged, answer, unready>>

\* ftruncate keeps what an existing file holds.
Truncate(t) ==
  /\ pc[t] = "truncate" /\ fd[t] = "ok"
  /\ Goto(t, "mmap")
  /\ UNCHANGED <<g, lock, call, cfg, fd, map, calls, exiting, ended, hook, logged, answer, unready>>

\* Wrong, PublishedReady: the handle is published as soon as it has an address.
Mmap_Publish(t) ==
  /\ pc[t] = "mmap"
  /\ g' = t
  /\ Goto(t, "clear")
  /\ UNCHANGED <<lock, call, cfg, fd, map, calls, exiting, ended, hook, logged, answer, unready>>

Mmap(t) ==
  /\ pc[t] = "mmap"
  /\ Goto(t, "clear")
  /\ UNCHANGED <<g, lock, call, cfg, fd, map, calls, exiting, ended, hook, logged, answer, unready>>

\* Wrong, LogSurvives: only the header is cleared.
Clear_Header(t) ==
  /\ pc[t] = "clear"
  /\ map' = [map EXCEPT !.header = Nil, !.zeroed = TRUE]
  /\ Goto(t, "fill")
  /\ UNCHANGED <<g, lock, call, cfg, fd, calls, exiting, ended, hook, logged, answer, unready>>

\* memset over the whole region, whatever was logged into the file before.
Clear(t) ==
  /\ pc[t] = "clear"
  /\ map' = [header |-> Nil, zeroed |-> TRUE, rows |-> 0]
  /\ Goto(t, "fill")
  /\ UNCHANGED <<g, lock, call, cfg, fd, calls, exiting, ended, hook, logged, answer, unready>>

\* The section pointers and the fields of the header.
Fill(t) ==
  /\ pc[t] = "fill"
  /\ map' = [map EXCEPT !.header = cfg[t]]
  /\ Goto(t, "publish")
  /\ UNCHANGED <<g, lock, call, cfg, fd, calls, exiting, ended, hook, logged, answer, unready>>

-----------------------------------------------------------------------------
(* The rest of an entry point, and the end of the process.                 *)

\* The call uses the handle, if __log2mem_valid() says there is one.
Use(t) ==
  /\ pc[t] = "use"
  /\ IF call[t] = "log" /\ g # Nil
     THEN map' = [map EXCEPT !.rows = @ + 1] /\ logged' = logged + 1
     ELSE UNCHANGED <<map, logged>>
  /\ answer' = IF call[t] = "query" THEN [answer EXCEPT ![t] = g] ELSE answer
  /\ Goto(t, IF exiting = t THEN "exit" ELSE "idle")
  /\ UNCHANGED <<g, lock, call, cfg, fd, calls, exiting, ended, hook, unready>>

\* exit runs the atexit functions on the thread that called it.
RunHook(t) ==
  /\ pc[t] = "exit" /\ hook
  /\ hook' = FALSE
  /\ call' = [call EXCEPT ![t] = "log"]
  /\ Goto(t, "prepare")
  /\ UNCHANGED <<g, lock, cfg, fd, map, calls, exiting, ended, logged, answer, unready>>

EndProcess(t) ==
  /\ pc[t] = "exit" /\ ~hook
  /\ ended' = TRUE
  /\ UNCHANGED <<g, lock, pc, call, cfg, fd, map, calls, exiting, hook, logged, answer, unready>>

-----------------------------------------------------------------------------
\* The file may hold an earlier program's memmap.
Init ==
  /\ g = Nil /\ lock = 0
  /\ pc = [t \in Thread |-> "idle"]
  /\ call = [t \in Thread |-> "init"]
  /\ cfg = [t \in Thread |-> Default]
  /\ fd = [t \in Thread |-> "none"]
  /\ map \in {NoMem} \cup [header : Config, zeroed : {FALSE}, rows : {1}]
  /\ calls = 0 /\ exiting = Nil /\ ended = FALSE
  /\ hook \in BOOLEAN
  /\ logged = 0
  /\ answer = [t \in Thread |-> Nil]
  /\ unready = [t \in Thread |-> FALSE]

CallStep(t) ==
  \/ Prepare(t) \/ Check1(t) \/ SpinLock(t) \/ Check2(t) \/ Publish(t) \/ SpinUnlock(t)
  \/ Open(t) \/ Fail(t) \/ Truncate(t) \/ Mmap(t) \/ Clear(t) \/ Fill(t)
  \/ Use(t) \/ RunHook(t) \/ EndProcess(t)

Step(t) == CallStep(t) \/ CallInit(t) \/ \E kind \in Calls : CallOther(t, kind)

Next == ~ended /\ \E t \in Thread : Step(t)

Spec == Init /\ [][Next]_vars

\* The kernel schedules every thread; no application has to make a call.
FairSpec == Spec /\ \A t \in Thread : WF_vars(~ended /\ CallStep(t))

-----------------------------------------------------------------------------
(* Properties.                                                             *)

Creating == {"open", "truncate", "mmap", "clear", "fill", "publish"}
Locked   == {"check2", "unlock"} \cup Creating
Labels   == {"idle", "prepare", "check1", "spin", "use", "exit"} \cup Locked

TypeOK ==
  /\ g \in Thread \cup {Nil} /\ lock \in {0, 1}
  /\ pc \in [Thread -> Labels]
  /\ call \in [Thread -> {"init", "log", "query"}]
  /\ cfg \in [Thread -> Config]
  /\ fd \in [Thread -> {"none", "ok", "bad"}]
  /\ map \in [header : Config \cup {Nil}, zeroed : BOOLEAN, rows : Nat]
  /\ calls \in Nat /\ exiting \in Thread \cup {Nil}
  /\ ended \in BOOLEAN /\ hook \in BOOLEAN
  /\ logged \in Nat
  /\ answer \in [Thread -> Thread \cup {Nil}]
  /\ unready \in [Thread -> BOOLEAN]

\* At most one thread is between the test-and-set and the release of the
\* spinlock, a thread that called exit from there included.
OneHolder ==
  /\ \A t, u \in Thread : (pc[t] \in Locked /\ pc[u] \in Locked) => t = u
  /\ (\E t \in Thread : pc[t] \in Locked) => lock = 1 /\ exiting = Nil

\* A handle that is published is finished: the region was cleared of what an
\* earlier program left, and its header holds the configuration of the thread
\* that created it (which the thread has at hand until it drops the lock).
PublishedReady ==
  g # Nil =>
    /\ map.zeroed /\ map.header # Nil
    /\ pc[g] = "unlock" => map.header = cfg[g]

\* No row logged through the handle is wiped by another thread's create, which
\* clears the same file: two initialisations never both get to the memset.
LogSurvives == g # Nil => map.rows = logged

\* Once published, neither the handle nor the header it leads to changes again,
\* whatever later log2mem_init calls ask for.
HandleFixed == [][g # Nil => g' = g /\ map'.header = map.header]_vars

\* Every call returns, also when many threads start with their first call at the
\* same time, unless creation fails, which ends the process; it does not even
\* end when an atexit function logs, for that waits for the lock exit left held.
EveryCallReturns ==
  \A t \in Thread :
    (pc[t] # "idle") ~> (pc[t] = "idle" \/ ended \/ (exiting # Nil /\ pc[exiting] = "spin"))

\* "Return the filename of the memmap file, or null if log2mem is not ready"
\* (log2mem.h): where the application only asks, nothing gets it ready.
FilenameNullIfNotReady ==
  \A t \in Thread : (Calls = {"query"} /\ unready[t] /\ pc[t] = "idle") => answer[t] = Nil
=============================================================================
