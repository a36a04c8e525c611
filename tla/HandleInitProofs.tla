-------------------------- MODULE HandleInitProofs --------------------------
(* However many threads race through whichever entry points, there is one      *)
(* creation at a time and one handle, and it is published finished.            *)
EXTENDS HandleInit, TLAPS

\* A thread that called exit left the lock held, so nobody gets it any more.
LockOK ==
  /\ OneHolder
  /\ exiting # Nil => lock = 1

\* How far a creation has come, and what it is once it is published.  Whoever is
\* creating saw no handle while it had the lock; the thread whose handle is
\* published will not be waiting for the lock again.
HandleOK ==
  /\ \A t \in Thread :
       /\ pc[t] \in Creating => g = Nil
       /\ pc[t] \in {"fill", "publish"} => map.zeroed /\ map.rows = 0
       /\ pc[t] = "publish" => map.header = cfg[t]
  /\ g = Nil => logged = 0
  /\ g # Nil => pc[g] \notin {"spin", "check2"}
  /\ PublishedReady
  /\ LogSurvives

IInv == TypeOK /\ LockOK /\ HandleOK

\* The initial states satisfy the invariant.
LEMMA InitInv == Init => IInv
<1> SUFFICES ASSUME Init PROVE IInv
  OBVIOUS
<1>1. TypeOK
  <2>1. map \in [header : Config \cup {Nil}, zeroed : BOOLEAN, rows : Nat]
    <3>1. CASE map = NoMem
      BY <3>1 DEF NoMem
    <3>2. CASE map \in [header : Config, zeroed : {FALSE}, rows : {1}]
      <4>1. {FALSE} \subseteq BOOLEAN /\ {1} \subseteq Nat /\ Config \subseteq Config \cup {Nil}
        OBVIOUS
      <4> QED BY <4>1, <3>2, Zenon
    <3> QED BY <3>1, <3>2 DEF Init
  <2>2. pc \in [Thread -> Labels]
    BY DEF Init, Labels
  <2> QED BY <2>1, <2>2 DEF Init, TypeOK, Config
<1>2. LockOK
  BY DEF Init, LockOK, OneHolder, Locked, Creating
<1>3. HandleOK
  BY DEF Init, HandleOK, PublishedReady, LogSurvives, Creating
<1> QED BY <1>1, <1>2, <1>3 DEF IInv

\* A step keeps the types.
LEMMA TypeStep ==
  ASSUME IInv, NEW t \in Thread, Step(t)
  PROVE  TypeOK'
<1>1. CASE CallInit(t)
  BY <1>1, NilAssumption, CallsAssumption DEF CallInit, IInv, TypeOK, Goto, Config, Labels, Locked, Creating
<1>2. CASE \E kind \in Calls : CallOther(t, kind)
  BY <1>2, NilAssumption, CallsAssumption DEF CallOther, IInv, TypeOK, Goto, Config, Labels, Locked, Creating
<1>3. CASE Prepare(t)
  BY <1>3, NilAssumption, CallsAssumption DEF Prepare, IInv, TypeOK, Goto, Config, Labels, Locked, Creating
<1>4. CASE Check1(t)
  BY <1>4, NilAssumption, CallsAssumption DEF Check1, After, IInv, TypeOK, Goto, Config, Labels, Locked, Creating
<1>5. CASE SpinLock(t)
  BY <1>5, NilAssumption, CallsAssumption DEF SpinLock, IInv, TypeOK, Goto, Config, Labels, Locked, Creating
<1>6. CASE Check2(t)
  BY <1>6, NilAssumption, CallsAssumption DEF Check2, IInv, TypeOK, Goto, Config, Labels, Locked, Creating
<1>7. CASE Publish(t)
  BY <1>7, NilAssumption, CallsAssumption DEF Publish, IInv, TypeOK, Goto, Config, Labels, Locked, Creating
<1>8. CASE SpinUnlock(t)
  BY <1>8, NilAssumption, CallsAssumption DEF SpinUnlock, After, IInv, TypeOK, Goto, Config, Labels, Locked, Creating
<1>9. CASE Open(t)
  BY <1>9, NilAssumption, CallsAssumption DEF Open, IInv, TypeOK, Goto, Config, Labels, Locked, Creating
<1>10. CASE Fail(t)
  BY <1>10, NilAssumption, CallsAssumption DEF Fail, IInv, TypeOK, Goto, Config, Labels, Locked, Creating
<1>11. CASE Truncate(t)
  BY <1>11, NilAssumption, CallsAssumption DEF Truncate, IInv, TypeOK, Goto, Config, Labels, Locked, Creating
<1>12. CASE Mmap(t)
  BY <1>12, NilAssumption, CallsAssumption DEF Mmap, IInv, TypeOK, Goto, Config, Labels, Locked, Creating
<1>13. CASE Clear(t)
  BY <1>13, NilAssumption, CallsAssumption DEF Clear, IInv, TypeOK, Goto, Config, Labels, Locked, Creating
<1>14. CASE Fill(t)
  BY <1>14, NilAssumption, CallsAssumption DEF Fill, IInv, TypeOK, Goto, Config, Labels, Locked, Creating
<1>15. CASE Use(t)
  BY <1>15, NilAssumption, CallsAssumption DEF Use, IInv, TypeOK, Goto, Config, Labels, Locked, Creating
<1>16. CASE RunHook(t)
  BY <1>16, NilAssumption, CallsAssumption DEF RunHook, IInv, TypeOK, Goto, Config, Labels, Locked, Creating
<1>17. CASE EndProcess(t)
  BY <1>17, NilAssumption, CallsAssumption DEF EndProcess, IInv, TypeOK, Goto, Config, Labels, Locked, Creating
<1> QED
  BY <1>1, <1>2, <1>3, <1>4, <1>5, <1>6, <1>7, <1>8, <1>9, <1>10, <1>11, <1>12, <1>13, <1>14, <1>15, <1>16, <1>17 DEF Step, CallStep

\* A step keeps the lock with its one holder, or with the thread that exits.
LEMMA LockStep ==
  ASSUME IInv, NEW t \in Thread, Step(t)
  PROVE  LockOK'
<1>1. CASE CallInit(t)
  BY <1>1, NilAssumption DEF CallInit, IInv, TypeOK, LockOK, OneHolder, Goto, Locked, Creating
<1>2. CASE \E kind \in Calls : CallOther(t, kind)
  BY <1>2, NilAssumption DEF CallOther, IInv, TypeOK, LockOK, OneHolder, Goto, Locked, Creating
<1>3. CASE Prepare(t)
  BY <1>3, NilAssumption DEF Prepare, IInv, TypeOK, LockOK, OneHolder, Goto, Locked, Creating
<1>4. CASE Check1(t)
  BY <1>4, NilAssumption DEF Check1, After, IInv, TypeOK, LockOK, OneHolder, Goto, Locked, Creating
<1>5. CASE SpinLock(t)
  BY <1>5, NilAssumption DEF SpinLock, IInv, TypeOK, LockOK, OneHolder, Goto, Locked, Creating
<1>6. CASE Check2(t)
  BY <1>6, NilAssumption DEF Check2, IInv, TypeOK, LockOK, OneHolder, Goto, Locked, Creating
<1>7. CASE Publish(t)
  BY <1>7, NilAssumption DEF Publish, IInv, TypeOK, LockOK, OneHolder, Goto, Locked, Creating
<1>8. CASE SpinUnlock(t)
  BY <1>8, NilAssumption DEF SpinUnlock, After, IInv, TypeOK, LockOK, OneHolder, Goto, Locked, Creating
<1>9. CASE Open(t)
  BY <1>9, NilAssumption DEF Open, IInv, TypeOK, LockOK, OneHolder, Goto, Locked, Creating
<1>10. CASE Fail(t)
  BY <1>10, NilAssumption DEF Fail, IInv, TypeOK, LockOK, OneHolder, Goto, Locked, Creating
<1>11. CASE Truncate(t)
  BY <1>11, NilAssumption DEF Truncate, IInv, TypeOK, LockOK, OneHolder, Goto, Locked, Creating
<1>12. CASE Mmap(t)
  BY <1>12, NilAssumption DEF Mmap, IInv, TypeOK, LockOK, OneHolder, Goto, Locked, Creating
<1>13. CASE Clear(t)
  BY <1>13, NilAssumption DEF Clear, IInv, TypeOK, LockOK, OneHolder, Goto, Locked, Creating
<1>14. CASE Fill(t)
  BY <1>14, NilAssumption DEF Fill, IInv, TypeOK, LockOK, OneHolder, Goto, Locked, Creating
<1>15. CASE Use(t)
  BY <1>15, NilAssumption DEF Use, IInv, TypeOK, LockOK, OneHolder, Goto, Locked, Creating
<1>16. CASE RunHook(t)
  BY <1>16, NilAssumption DEF RunHook, IInv, TypeOK, LockOK, OneHolder, Goto, Locked, Creating
<1>17. CASE EndProcess(t)
  BY <1>17, NilAssumption DEF EndProcess, IInv, TypeOK, LockOK, OneHolder, Goto, Locked, Creating
<1> QED
  BY <1>1, <1>2, <1>3, <1>4, <1>5, <1>6, <1>7, <1>8, <1>9, <1>10, <1>11, <1>12, <1>13, <1>14, <1>15, <1>16, <1>17 DEF Step, CallStep

\* A step keeps what is known of a creation and of the published handle.
LEMMA HandleStep ==
  ASSUME IInv, NEW t \in Thread, Step(t)
  PROVE  HandleOK'
<1>1. CASE CallInit(t)
  BY <1>1, NilAssumption DEF CallInit, IInv, TypeOK, LockOK, OneHolder, HandleOK, PublishedReady,
           LogSurvives, Goto, Config, Locked, Creating
<1>2. CASE \E kind \in Calls : CallOther(t, kind)
  BY <1>2, NilAssumption DEF CallOther, IInv, TypeOK, LockOK, OneHolder, HandleOK, PublishedReady,
           LogSurvives, Goto, Config, Locked, Creating
<1>3. CASE Prepare(t)
  BY <1>3, NilAssumption DEF Prepare, IInv, TypeOK, LockOK, OneHolder, HandleOK, PublishedReady,
           LogSurvives, Goto, Config, Locked, Creating
<1>4. CASE Check1(t)
  BY <1>4, NilAssumption DEF Check1, After, IInv, TypeOK, LockOK, OneHolder, HandleOK, PublishedReady,
           LogSurvives, Goto, Config, Locked, Creating
<1>5. CASE SpinLock(t)
  BY <1>5, NilAssumption DEF SpinLock, IInv, TypeOK, LockOK, OneHolder, HandleOK, PublishedReady,
           LogSurvives, Goto, Config, Locked, Creating
<1>6. CASE Check2(t)
  BY <1>6, NilAssumption DEF Check2, IInv, TypeOK, LockOK, OneHolder, HandleOK, PublishedReady,
           LogSurvives, Goto, Config, Locked, Creating
<1>7. CASE Publish(t)
  BY <1>7, NilAssumption DEF Publish, IInv, TypeOK, LockOK, OneHolder, HandleOK, PublishedReady,
           LogSurvives, Goto, Config, Locked, Creating
<1>8. CASE SpinUnlock(t)
  BY <1>8, NilAssumption DEF SpinUnlock, After, IInv, TypeOK, LockOK, OneHolder, HandleOK, PublishedReady,
           LogSurvives, Goto, Config, Locked, Creating
<1>9. CASE Open(t)
  BY <1>9, NilAssumption DEF Open, IInv, TypeOK, LockOK, OneHolder, HandleOK, PublishedReady,
           LogSurvives, Goto, Config, Locked, Creating
<1>10. CASE Fail(t)
  BY <1>10, NilAssumption DEF Fail, IInv, TypeOK, LockOK, OneHolder, HandleOK, PublishedReady,
           LogSurvives, Goto, Config, Locked, Creating
<1>11. CASE Truncate(t)
  BY <1>11, NilAssumption DEF Truncate, IInv, TypeOK, LockOK, OneHolder, HandleOK, PublishedReady,
           LogSurvives, Goto, Config, Locked, Creating
<1>12. CASE Mmap(t)
  BY <1>12, NilAssumption DEF Mmap, IInv, TypeOK, LockOK, OneHolder, HandleOK, PublishedReady,
           LogSurvives, Goto, Config, Locked, Creating
<1>13. CASE Clear(t)
  BY <1>13, NilAssumption DEF Clear, IInv, TypeOK, LockOK, OneHolder, HandleOK, PublishedReady,
           LogSurvives, Goto, Config, Locked, Creating
<1>14. CASE Fill(t)
  BY <1>14, NilAssumption DEF Fill, IInv, TypeOK, LockOK, OneHolder, HandleOK, PublishedReady,
           LogSurvives, Goto, Config, Locked, Creating
<1>15. CASE Use(t)
  BY <1>15, NilAssumption DEF Use, IInv, TypeOK, LockOK, OneHolder, HandleOK, PublishedReady,
           LogSurvives, Goto, Config, Locked, Creating
<1>16. CASE RunHook(t)
  BY <1>16, NilAssumption DEF RunHook, IInv, TypeOK, LockOK, OneHolder, HandleOK, PublishedReady,
           LogSurvives, Goto, Config, Locked, Creating
<1>17. CASE EndProcess(t)
  BY <1>17, NilAssumption DEF EndProcess, IInv, TypeOK, LockOK, OneHolder, HandleOK, PublishedReady,
           LogSurvives, Goto, Config, Locked, Creating
<1> QED
  BY <1>1, <1>2, <1>3, <1>4, <1>5, <1>6, <1>7, <1>8, <1>9, <1>10, <1>11, <1>12, <1>13, <1>14, <1>15, <1>16, <1>17 DEF Step, CallStep

\* A step leaves a published handle and its header as they are.
LEMMA FixedStep ==
  ASSUME IInv, g # Nil, NEW t \in Thread, Step(t)
  PROVE  g' = g /\ map'.header = map.header
<1>1. pc[t] \notin Creating
  BY DEF IInv, HandleOK
<1> QED
  BY <1>1 DEF Step, CallStep, CallInit, CallOther, Prepare, Check1, SpinLock, Check2,
     Publish, SpinUnlock, Open, Fail, Truncate, Mmap, Clear, Fill, Use, RunHook,
     EndProcess, Creating, IInv, TypeOK

\* A stutter keeps the invariant.
LEMMA StutterInv == IInv /\ UNCHANGED vars => IInv'
BY DEF vars, IInv, TypeOK, LockOK, OneHolder, HandleOK, PublishedReady, LogSurvives

\* IInv is inductive.
LEMMA NextInv == IInv /\ [Next]_vars => IInv'
BY TypeStep, LockStep, HandleStep, StutterInv DEF Next, IInv

\* The invariant holds for any number of threads, calls and configurations.
THEOREM HandleInvariant == Spec => []IInv
<1> QED BY InitInv, NextInv, PTL DEF Spec

\* Type correctness of the initialisation.
THEOREM TypeCorrect == Spec => []TypeOK
<1>1. IInv => TypeOK
  BY DEF IInv
<1> QED BY HandleInvariant, <1>1, PTL

\* The spinlock around the creation of the memmap (log2mem.c:417) has one holder.
THEOREM SpinlockHolds == Spec => []OneHolder
<1>1. IInv => OneHolder
  BY DEF IInv, LockOK
<1> QED BY HandleInvariant, <1>1, PTL

\* A thread that finds g_log2mem set without the lock (log2mem.c:413) finds a
\* memmap that is cleared and filled.
THEOREM PublishedIsReady == Spec => []PublishedReady
<1>1. IInv => PublishedReady
  BY DEF IInv, HandleOK
<1> QED BY HandleInvariant, <1>1, PTL

\* No creation clears (log2mem.c:357) what was logged through the handle.
THEOREM LogKept == Spec => []LogSurvives
<1>1. IInv => LogSurvives
  BY DEF IInv, HandleOK
<1> QED BY HandleInvariant, <1>1, PTL

\* Once published, the handle and its configuration stay.
THEOREM HandleStays == Spec => HandleFixed
<1>1. IInv /\ [Next]_vars => [g # Nil => g' = g /\ map'.header = map.header]_vars
  BY FixedStep DEF Next
<1> QED BY HandleInvariant, <1>1, PTL DEF Spec, HandleFixed
=============================================================================
