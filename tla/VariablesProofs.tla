-------------------------- MODULE VariablesProofs --------------------------
(* Theorems about Variables, for any threads, utilities and variables.      *)
EXTENDS Variables, TLAPS

\* Where a call of each entry point can be, what it stores, and that a set
\* carries no text.
Places(c) ==
  /\ c.pc = "idle" => c.op = "none"
  /\ c.pc \in {"check", "text1", "text2"} => c.op = "init"
  /\ c.pc \in {"value", "load", "flags"} => c.op \in {"init", "set"}
  /\ c.pc \in {"used", "cmp1", "cmp2", "store"} => c.op = "name"
  /\ c.pc \in {"cmp1", "cmp2", "store"} => c.slot # NumSlots
  /\ c.op \in {"init", "set"} => c.slot \in Slots /\ c.value \in Value
  /\ c.op = "poll" => c.slot \in Slots
  /\ c.op = "set" => c.name = NoName
PlacesOK == \A a \in Actor : Places(act[a])

\* A call on a settled variable does not initialise it, and has no flags in its
\* register that lack the bit.
Harmless(c, v) ==
  (c.op \in {"init", "set"} /\ c.slot = v) =>
    /\ c.op = "init" => c.pc = "check"
    /\ c.pc = "flags" => "Initialised" \in c.flags

SettledOK ==
  \A v \in settled : /\ "Initialised" \in var[v].flags
                     /\ \A a \in Actor : Harmless(act[a], v)

-----------------------------------------------------------------------------
\* An id leads to a slot of the table of its kind.
LEMMA SlotOfType ==
  ASSUME NEW k \in {"double", "int"}, NEW i \in Id
  PROVE  SlotOf(k, i) \in Slots
<1>1. i % NumVars \in 0 .. NumVars - 1
  BY IdAssumption, NumVarsAssumption, SMT
<1>2. QED
  BY <1>1, NumVarsAssumption, SMT DEF SlotOf, Slots, NumSlots

\* A slot is a number that a call can have.
LEMMA SlotsType ==
  /\ NumSlots \in Nat /\ 0 \in 0 .. NumSlots
  /\ \A v \in Slots : v \in 0 .. NumSlots
  /\ \A n \in 0 .. NumSlots : n # NumSlots => n \in Slots /\ n + 1 \in 0 .. NumSlots
BY NumVarsAssumption, SMT DEF Slots, NumSlots

\* An actor that is in no call.
LEMMA IdleType == Idle \in CallState /\ Places(Idle)
BY SlotsType, ValueAssumption DEF Idle, CallState, Text, Flags, Places

\* How an actor's call can go on: the parts of a call that a step gives it.
LEMMA ActFrame ==
  ASSUME TypeOK, NEW a \in Actor, Step(a)
  PROVE  \A b \in Actor \ {a} : act'[b] = act[b]
<1>. USE DEF TypeOK
<1>1. ASSUME NEW l, Goto(a, l) PROVE \A b \in Actor \ {a} : act'[b] = act[b]
  BY <1>1 DEF Goto
<1>2. ASSUME Return(a) PROVE \A b \in Actor \ {a} : act'[b] = act[b]
  BY <1>2 DEF Return
<1>3. ASSUME NEW op, NEW l, NEW v, NEW x, NEW n, Begin(a, op, l, v, x, n)
      PROVE \A b \in Actor \ {a} : act'[b] = act[b]
  BY <1>3 DEF Begin
<1>4. ASSUME NextVar(a) PROVE \A b \in Actor \ {a} : act'[b] = act[b]
  BY <1>4 DEF NextVar
<1>5. CASE CallInit(a) \/ CallSet(a) \/ CallPoll(a) \/ SetById(a) \/ SetByName(a)
  BY <1>5, <1>3 DEF CallInit, CallSet, CallPoll, SetById, SetByName
<1>6. CASE Get(a) \/ Check(a) \/ StoreValue(a) \/ StoreFlags(a) \/ CopyText(a) \/ EndSearch(a)
  BY <1>6, <1>1, <1>2 DEF Get, Check, StoreValue, StoreFlags, CopyText, EndSearch
<1>7. CASE LoadFlags(a)
  BY <1>7 DEF LoadFlags
<1>8. CASE Refuse(a) \/ Run(a)
  BY <1>8 DEF Refuse, Run
<1>9. CASE Match(a) \/ StoreByName(a)
  BY <1>9, <1>1, <1>4 DEF Match, Test, StoreByName
<1>10. QED
  BY <1>5, <1>6, <1>7, <1>8, <1>9 DEF Step

\* Each step leaves its actor in a call that can be where it is.
LEMMA ActStep ==
  ASSUME TypeOK, PlacesOK, NEW a \in Actor, Step(a)
  PROVE  act' \in [Actor -> CallState] /\ Places(act'[a])
<1>. DEFINE c == act[a]
<1>1. c \in CallState /\ Places(c) /\ act \in [Actor -> CallState]
  BY DEF TypeOK, PlacesOK
<1>2. ASSUME NEW d \in CallState, Places(d), act' = [act EXCEPT ![a] = d]
      PROVE  act' \in [Actor -> CallState] /\ Places(act'[a])
  BY <1>1, <1>2
<1>3. ASSUME Return(a) PROVE act' \in [Actor -> CallState] /\ Places(act'[a])
  BY <1>3, <1>2, IdleType DEF Return
<1>4. ASSUME NEW l \in {"check", "value", "load", "flags", "text1", "text2", "cmp1", "cmp2", "store"},
             Goto(a, l), Places([c EXCEPT !.pc = l])
      PROVE  act' \in [Actor -> CallState] /\ Places(act'[a])
  <2>1. [c EXCEPT !.pc = l] \in CallState
    BY <1>1, <1>4 DEF CallState
  <2>2. QED
    BY <1>4, <2>1, <1>2 DEF Goto
<1>5. ASSUME NEW op \in {"init", "set", "poll", "name"}, NEW l \in {"check", "value", "get", "used"},
             NEW v \in 0 .. NumSlots, NEW x \in Value \cup {Nonsense}, NEW n \in Text,
             Begin(a, op, l, v, x, n),
             <<op, l>> \in {<<"init", "check">>, <<"set", "value">>, <<"poll", "get">>, <<"name", "used">>},
             op \in {"init", "set"} => x \in Value,
             op \in {"init", "set", "poll"} => v \in Slots,
             op = "set" => n = NoName
      PROVE  act' \in [Actor -> CallState] /\ Places(act'[a])
  <2>. DEFINE d == [pc |-> l, op |-> op, slot |-> v, value |-> x, name |-> n, flags |-> {}]
  <2>1. d \in CallState
    BY <1>5 DEF CallState, Flags
  <2>2. Places(d)
    BY <1>5 DEF Places
  <2>3. QED
    BY <1>5, <2>1, <2>2, <1>2 DEF Begin
<1>6. ASSUME NextVar(a), c.op = "name", c.slot # NumSlots
      PROVE  act' \in [Actor -> CallState] /\ Places(act'[a])
  <2>. DEFINE d == [c EXCEPT !.pc = "used", !.slot = @ + 1]
  <2>1. d \in CallState /\ Places(d)
    BY <1>1, <1>6, SlotsType DEF CallState, Places
  <2>2. act' = [act EXCEPT ![a] = d]
    BY <1>6 DEF NextVar
  <2>3. QED
    BY <2>1, <2>2, <1>2
<1>7. CASE CallInit(a)
  <2>1. PICK k \in {"double", "int"}, i \in Id, x \in InitValue, n \in Src :
          Begin(a, "init", "check", SlotOf(k, i), x, n)
    BY <1>7 DEF CallInit
  <2>2. QED
    BY <2>1, <1>5, SlotOfType, SlotsType, ValueAssumption, NameAssumption DEF Text
<1>8. CASE CallSet(a)
  <2>1. PICK k \in {"double", "int"}, i \in Id, x \in Value : Begin(a, "set", "value", SlotOf(k, i), x, NoName)
    BY <1>8 DEF CallSet
  <2>2. QED
    BY <2>1, <1>5, SlotOfType, SlotsType DEF Text
<1>9. CASE CallPoll(a)
  <2>1. PICK i \in Id : Begin(a, "poll", "get", SlotOf("int", i), 0, NoName)
    BY <1>9 DEF CallPoll
  <2>2. QED
    BY <2>1, <1>5, SlotOfType, SlotsType, ValueAssumption DEF Text
<1>10. CASE Get(a) \/ EndSearch(a)
  BY <1>10, <1>3 DEF Get, EndSearch
<1>11. CASE Check(a)
  <2>1. Places([c EXCEPT !.pc = "value"])
    BY <1>1, <1>11 DEF Check, At, Places, CallState
  <2>2. QED
    BY <1>11, <2>1, <1>3, <1>4 DEF Check
<1>12. CASE StoreValue(a)
  <2>1. Places([c EXCEPT !.pc = "load"])
    BY <1>1, <1>12 DEF StoreValue, At, Places, CallState
  <2>2. QED
    BY <1>12, <2>1, <1>4 DEF StoreValue
<1>13. CASE LoadFlags(a)
  <2>. DEFINE d == [c EXCEPT !.pc = "flags", !.flags = var[c.slot].flags]
  <2>1. c.slot \in Slots /\ c.op \in {"init", "set"}
    BY <1>1, <1>13 DEF LoadFlags, At, Places
  <2>2. var[c.slot].flags \in Flags
    BY <2>1 DEF TypeOK, VarState
  <2>3. d \in CallState /\ Places(d)
    BY <1>1, <2>1, <2>2 DEF CallState, Places
  <2>4. act' = [act EXCEPT ![a] = d]
    BY <1>13 DEF LoadFlags
  <2>5. QED
    BY <2>3, <2>4, <1>2
<1>14. CASE StoreFlags(a)
  <2>1. c.op \in {"init", "set"} /\ (c.name # NoName => c.op = "init")
    BY <1>1, <1>14 DEF StoreFlags, At, Places
  <2>2. c.name # NoName => Places([c EXCEPT !.pc = "text1"])
    BY <1>1, <2>1 DEF Places, CallState
  <2>3. QED
    BY <1>14, <2>2, <1>3, <1>4 DEF StoreFlags
<1>15. CASE CopyText(a)
  <2>1. At(a, "text1") => Places([c EXCEPT !.pc = "text2"])
    BY <1>1 DEF At, Places, CallState
  <2>2. QED
    BY <1>15, <2>1, <1>3, <1>4 DEF CopyText
<1>16. CASE Refuse(a) \/ Run(a)
  BY <1>16, <1>1 DEF Refuse, Run
<1>17. CASE SetById(a)
  <2>. DEFINE s == Head(job[a])
  <2>1. s \in Setting /\ s.op = "id"
    BY <1>17 DEF SetById, TakeSetting, TypeOK
  <2>2. s.kind \in {"double", "int"} /\ s.id \in Id /\ s.value \in Value \cup {Nonsense}
    BY <2>1 DEF Setting
  <2>3. PICK x \in IF s.value = Nonsense THEN Value ELSE {s.value} :
          Begin(a, "set", "value", SlotOf(s.kind, s.id), x, NoName)
    BY <1>17 DEF SetById
  <2>4. x \in Value
    BY <2>2, <2>3
  <2>5. QED
    BY <2>2, <2>3, <2>4, <1>5, SlotOfType, SlotsType DEF Text
<1>18. CASE SetByName(a)
  <2>. DEFINE s == Head(job[a])
  <2>1. s \in Setting /\ s.op = "name"
    BY <1>18 DEF SetByName, TakeSetting, TypeOK
  <2>2. s.name \in Name /\ s.value \in Value \cup {Nonsense}
    BY <2>1 DEF Setting
  <2>3. Begin(a, "name", "used", 0, s.value, s.name)
    BY <1>18 DEF SetByName
  <2>4. QED
    BY <2>2, <2>3, <1>5, SlotsType DEF Text
<1>19. CASE Match(a)
  <2>1. c.op = "name" /\ c.slot # NumSlots
    BY <1>19, SlotsType DEF Match
  <2>2. Places([c EXCEPT !.pc = "cmp1"]) /\ Places([c EXCEPT !.pc = "cmp2"])
        /\ Places([c EXCEPT !.pc = "store"])
    BY <1>1, <2>1 DEF Places, CallState
  <2>3. QED
    BY <1>19, <2>1, <2>2, <1>4, <1>6 DEF Match, Test
<1>20. CASE StoreByName(a)
  <2>1. c.op = "name" /\ c.slot # NumSlots
    BY <1>1, <1>20 DEF StoreByName, At, Places
  <2>2. QED
    BY <1>20, <2>1, <1>6 DEF StoreByName
<1>21. QED
  BY <1>7, <1>8, <1>9, <1>10, <1>11, <1>12, <1>13, <1>14, <1>15, <1>16, <1>17, <1>18, <1>19, <1>20
     DEF Step

\* A step changes the variables within their types.
LEMMA VarStep ==
  ASSUME TypeOK, PlacesOK, NEW a \in Actor, Step(a)
  PROVE  var' \in [Slots -> VarState]
<1>. DEFINE c == act[a] s == c.slot
<1>1. c \in CallState /\ Places(c) /\ var \in [Slots -> VarState]
  BY DEF TypeOK, PlacesOK
<1>2. ASSUME NEW d \in VarState, var' = [var EXCEPT ![s] = d]
      PROVE  var' \in [Slots -> VarState]
  BY <1>1, <1>2
<1>3. CASE var' = var
  BY <1>1, <1>3
<1>4. CASE StoreValue(a)
  <2>1. s \in Slots /\ c.value \in Value
    BY <1>1, <1>4 DEF StoreValue, At, Places
  <2>2. [var[s] EXCEPT !.value = c.value] \in VarState
    BY <1>1, <2>1 DEF VarState
  <2>3. QED
    BY <1>4, <2>2, <1>2 DEF StoreValue
<1>5. CASE StoreFlags(a)
  <2>1. s \in Slots /\ c.flags \cup Bits(c.op) \in Flags
    BY <1>1, <1>5 DEF StoreFlags, At, Places, CallState, Flags, Bits
  <2>2. [var[s] EXCEPT !.flags = c.flags \cup Bits(c.op)] \in VarState
    BY <1>1, <2>1 DEF VarState
  <2>3. QED
    BY <1>5, <2>2, <1>2 DEF StoreFlags
<1>6. CASE CopyText(a)
  <2>1. s \in Slots /\ c.name \in Text
    BY <1>1, <1>6 DEF CopyText, At, Places, CallState
  <2>2. PICK x \in Text, y \in Text : var[s].text = <<x, y>>
    BY <1>1, <2>1 DEF VarState
  <2>3. /\ [var[s] EXCEPT !.text = <<c.name, @[2]>>] \in VarState
        /\ [var[s] EXCEPT !.text = <<@[1], c.name>>] \in VarState
    BY <1>1, <2>1, <2>2 DEF VarState
  <2>4. QED
    BY <1>6, <2>3, <1>2 DEF CopyText
<1>7. CASE StoreByName(a)
  <2>1. s \in Slots
    BY <1>1, <1>7, SlotsType DEF StoreByName, At, Places, CallState
  <2>2. c.value # Nonsense => [var[s] EXCEPT !.value = c.value] \in VarState
    BY <1>1, <2>1 DEF VarState, CallState
  <2>3. QED
    BY <1>7, <2>2, <1>2, <1>3 DEF StoreByName
<1>8. QED
  BY <1>3, <1>4, <1>5, <1>6, <1>7
     DEF Step, CallInit, CallSet, CallPoll, Call, Get, Check, LoadFlags, Refuse, Run,
         SetById, SetByName, Match, EndSearch

\* What a setting on a command line is taken for is a setting.
LEMMA MeantSetting ==
  ASSUME NEW s \in Setting
  PROVE  Meant(s) \in Setting
<1>1. CASE s.op = "name" /\ s.name \in DOMAIN Indexed
  <2>1. s.value \in Value \cup {Nonsense}
    BY <1>1 DEF Setting
  <2>2. Indexed[s.name] \in [kind : {"double", "int"}, id : Id]
    BY <1>1, IndexedAssumption
  <2>3. QED
    BY <1>1, <2>1, <2>2 DEF Meant, Setting
<1>2. QED
  BY <1>1 DEF Meant

\* What a step does to the bookkeeping of program and utility.
LEMMA BookStep ==
  ASSUME TypeOK, PlacesOK, NEW a \in Actor, Step(a)
  PROVE  /\ job' \in [Utility -> Seq(Setting)]
         /\ search' \in [Utility -> [known : SUBSET Slots, hit : SUBSET Slots]]
         /\ calls' \in 0 .. MaxCalls /\ runs' \in 0 .. MaxRuns
<1>1. CASE CallInit(a) \/ CallSet(a) \/ CallPoll(a)
  BY <1>1, BoundAssumption DEF CallInit, CallSet, CallPoll, Call, TypeOK
<1>2. CASE Get(a) \/ Check(a) \/ StoreValue(a) \/ LoadFlags(a) \/ StoreFlags(a) \/ CopyText(a)
           \/ Match(a) \/ EndSearch(a)
  BY <1>2 DEF Get, Check, StoreValue, LoadFlags, StoreFlags, CopyText, Match, EndSearch, TypeOK
<1>3. CASE Refuse(a)
  BY <1>3, BoundAssumption DEF Refuse, TypeOK
<1>7. CASE Run(a)
  <2>1. PICK c \in Command : job' = [job EXCEPT ![a] = [k \in DOMAIN c |-> Meant(c[k])]]
    BY <1>7 DEF Run
  <2>2. c \in Seq(Setting)
    BY CommandAssumption
  <2>3. \A k \in DOMAIN c : Meant(c[k]) \in Setting
    BY <2>2, MeantSetting
  <2>4. [k \in DOMAIN c |-> Meant(c[k])] \in Seq(Setting)
    BY <2>2, <2>3
  <2>5. QED
    BY <1>7, <2>1, <2>4, BoundAssumption DEF Run, TypeOK
<1>4. CASE SetById(a)
  <2>1. job' \in [Utility -> Seq(Setting)]
    BY <1>4 DEF SetById, TakeSetting, TypeOK
  <2>2. QED
    BY <1>4, <2>1 DEF SetById, TypeOK
<1>5. CASE SetByName(a)
  <2>1. job' \in [Utility -> Seq(Setting)]
    BY <1>5 DEF SetByName, TakeSetting, TypeOK
  <2>2. [known |-> settled \cap Named(Head(job[a]).name), hit |-> {}]
          \in [known : SUBSET Slots, hit : SUBSET Slots]
    BY DEF Named
  <2>3. search' = [search EXCEPT ![a] = [known |-> settled \cap Named(Head(job[a]).name), hit |-> {}]]
    BY <1>5 DEF SetByName
  <2>4. QED
    BY <1>5, <2>1, <2>2, <2>3 DEF SetByName, TypeOK
<1>6. CASE StoreByName(a)
  <2>1. act[a].slot \in Slots
    BY <1>6, SlotsType DEF StoreByName, At, Places, PlacesOK, CallState, TypeOK
  <2>2. a \in Utility => [search[a] EXCEPT !.hit = @ \cup {act[a].slot}]
                           \in [known : SUBSET Slots, hit : SUBSET Slots]
    BY <2>1 DEF TypeOK
  <2>3. search' = [search EXCEPT ![a].hit = @ \cup {act[a].slot}]
    BY <1>6 DEF StoreByName
  <2>4. search' \in [Utility -> [known : SUBSET Slots, hit : SUBSET Slots]]
    BY <2>2, <2>3 DEF TypeOK
  <2>5. QED
    BY <1>6, <2>4 DEF StoreByName, TypeOK
<1>8. QED
  BY <1>1, <1>2, <1>3, <1>4, <1>5, <1>6, <1>7 DEF Step

\* The initial state has its types and places.
LEMMA TypeInit == Init => TypeOK /\ PlacesOK
<1>. SUFFICES ASSUME Init PROVE TypeOK /\ PlacesOK
  OBVIOUS
<1>1. act \in [Actor -> CallState] /\ PlacesOK
  BY IdleType DEF Init, PlacesOK
<1>2. [value |-> 0, flags |-> {}, text |-> <<NoName, NoName>>] \in VarState
  BY ValueAssumption DEF VarState, Flags, Text
<1>3. QED
  BY <1>1, <1>2, BoundAssumption DEF Init, TypeOK

\* Every step keeps them.
LEMMA TypeNext ==
  ASSUME TypeOK, PlacesOK, [Next]_vars
  PROVE  TypeOK' /\ PlacesOK'
<1>1. CASE UNCHANGED vars
  BY <1>1 DEF vars, TypeOK, PlacesOK
<1>2. CASE Next
  <2>1. PICK a \in Actor : Step(a)
    BY <1>2 DEF Next
  <2>2. settled' \subseteq Slots
    BY <1>2 DEF Next, Settle, TypeOK
  <2>3. TypeOK'
    BY <2>1, <2>2, ActStep, VarStep, BookStep DEF TypeOK
  <2>4. PlacesOK'
    BY <2>1, ActStep, ActFrame DEF PlacesOK
  <2>5. QED
    BY <2>3, <2>4
<1>3. QED
  BY <1>1, <1>2

\* Type correctness: in particular no variable ever holds what is no value.
THEOREM TypeCorrect == Spec => []TypeOK
<1>1. TypeOK /\ PlacesOK /\ [Next]_vars => TypeOK' /\ PlacesOK'
  BY TypeNext
<1>2. QED
  BY TypeInit, <1>1, PTL DEF Spec

-----------------------------------------------------------------------------
\* What is left alone of a settled variable, and what its value may change to.
Kept(v) ==
  /\ "Initialised" \in var'[v].flags
  /\ var'[v].text = var[v].text
  /\ var'[v].value # var[v].value =>
       \E a \in Actor : /\ act[a].op \in {"set", "name"} /\ act[a].slot = v
                        /\ var'[v].value = act[a].value

\* A step keeps a settled variable: the calls on it do no harm.
LEMMA KeptStep ==
  ASSUME TypeOK, PlacesOK, SettledOK, NEW a \in Actor, Step(a), NEW v \in settled
  PROVE  Kept(v)
<1>. DEFINE c == act[a] s == c.slot
<1>1. c \in CallState /\ Places(c) /\ Harmless(c, v) /\ v \in Slots
  BY DEF TypeOK, PlacesOK, SettledOK
<1>2. var \in [Slots -> VarState] /\ "Initialised" \in var[v].flags
  BY DEF TypeOK, SettledOK
<1>3. CASE var' = var
  BY <1>2, <1>3 DEF Kept
<1>4. CASE s # v /\ \E d : var' = [var EXCEPT ![s] = d]
  BY <1>1, <1>2, <1>4 DEF Kept
<1>5. CASE StoreValue(a)
  <2>1. var' = [var EXCEPT ![s] = [var[s] EXCEPT !.value = c.value]]
    BY <1>5 DEF StoreValue
  <2>2. s = v => c.op = "set"
    BY <1>1, <1>5 DEF StoreValue, At, Places, Harmless
  <2>3. CASE s = v
    <3>1. var'[v] = [var[v] EXCEPT !.value = c.value]
      BY <1>1, <1>2, <2>1, <2>3
    <3>2. QED
      BY <1>2, <2>2, <2>3, <3>1, <1>1 DEF Kept, VarState
  <2>4. QED
    BY <2>1, <2>3, <1>4
<1>6. CASE StoreFlags(a)
  <2>1. var' = [var EXCEPT ![s] = [var[s] EXCEPT !.flags = c.flags \cup Bits(c.op)]]
    BY <1>6 DEF StoreFlags
  <2>2. s = v => "Initialised" \in c.flags
    BY <1>1, <1>6 DEF StoreFlags, At, Places, Harmless
  <2>3. CASE s = v
    <3>1. var'[v] = [var[v] EXCEPT !.flags = c.flags \cup Bits(c.op)]
      BY <1>1, <1>2, <2>1, <2>3
    <3>2. QED
      BY <1>2, <2>2, <2>3, <3>1, <1>1 DEF Kept, VarState
  <2>4. QED
    BY <2>1, <2>3, <1>4
<1>7. CASE CopyText(a)
  <2>1. s # v
    BY <1>1, <1>7 DEF CopyText, At, Places, Harmless
  <2>2. QED
    BY <1>7, <2>1, <1>4 DEF CopyText
<1>8. CASE StoreByName(a)
  <2>1. CASE c.value # Nonsense /\ s = v
    <3>1. var' = [var EXCEPT ![s] = [var[s] EXCEPT !.value = c.value]] /\ c.op = "name"
      BY <1>1, <1>8, <2>1 DEF StoreByName, At, Places
    <3>2. var'[v] = [var[v] EXCEPT !.value = c.value]
      BY <1>1, <1>2, <2>1, <3>1
    <3>3. QED
      BY <1>1, <1>2, <2>1, <3>1, <3>2 DEF Kept, VarState
  <2>2. QED
    BY <1>8, <2>1, <1>3, <1>4 DEF StoreByName
<1>9. QED
  BY <1>3, <1>5, <1>6, <1>7, <1>8
     DEF Step, CallInit, CallSet, CallPoll, Call, Get, Check, LoadFlags, Refuse, Run,
         SetById, SetByName, Match, EndSearch

\* The actor of a step is left in a call that does a settled variable no harm.
LEMMA HarmlessStep ==
  ASSUME TypeOK, PlacesOK, SettledOK, NEW a \in Actor, Step(a), NEW v \in settled
  PROVE  Harmless(act'[a], v)
<1>. DEFINE c == act[a] s == c.slot
<1>1. c \in CallState /\ Places(c) /\ Harmless(c, v) /\ act \in [Actor -> CallState]
  BY DEF TypeOK, PlacesOK, SettledOK
<1>2. "Initialised" \in var[v].flags
  BY DEF SettledOK
<1>3. ASSUME NEW l, Goto(a, l) PROVE act'[a] = [c EXCEPT !.pc = l]
  BY <1>1, <1>3 DEF Goto
<1>4. ASSUME Return(a) PROVE Harmless(act'[a], v)
  BY <1>1, <1>4 DEF Return, Idle, Harmless
<1>5. ASSUME NEW op, NEW l, NEW w, NEW x, NEW n, Begin(a, op, l, w, x, n),
             op = "init" => l = "check", l # "flags"
      PROVE  Harmless(act'[a], v)
  BY <1>1, <1>5 DEF Begin, Harmless
<1>6. CASE act'[a].op \notin {"init", "set"}
  BY <1>6 DEF Harmless
<1>7. CASE CallInit(a) \/ CallSet(a) \/ CallPoll(a) \/ SetById(a) \/ SetByName(a)
  BY <1>7, <1>5 DEF CallInit, CallSet, CallPoll, SetById, SetByName
<1>8. CASE Get(a) \/ EndSearch(a)
  BY <1>8, <1>4 DEF Get, EndSearch
<1>9. CASE Check(a)
  <2>1. CASE Return(a)
    BY <2>1, <1>4
  <2>2. CASE Goto(a, "value") /\ "Initialised" \notin var[s].flags
    <3>1. s # v /\ act'[a].slot = s
      BY <1>1, <1>2, <1>3, <2>2 DEF CallState
    <3>2. QED
      BY <3>1 DEF Harmless
  <2>3. QED
    BY <1>9, <2>1, <2>2 DEF Check
<1>10. CASE StoreValue(a)
  <2>1. act'[a] = [c EXCEPT !.pc = "load"] /\ c.pc = "value"
    BY <1>10, <1>3 DEF StoreValue, At
  <2>2. act'[a].op = c.op /\ act'[a].slot = s /\ act'[a].pc = "load"
    BY <1>1, <2>1 DEF CallState
  <2>3. QED
    BY <1>1, <2>1, <2>2 DEF Harmless
<1>11. CASE LoadFlags(a)
  <2>1. act'[a] = [c EXCEPT !.pc = "flags", !.flags = var[s].flags]
    BY <1>11, <1>1 DEF LoadFlags
  <2>2. act'[a].op = c.op /\ act'[a].slot = s /\ act'[a].flags = var[s].flags
    BY <1>1, <2>1 DEF CallState
  <2>3. s = v => c.op # "init"
    BY <1>1, <1>11 DEF LoadFlags, At, Harmless
  <2>4. QED
    BY <1>2, <2>2, <2>3 DEF Harmless
<1>12. CASE StoreFlags(a) \/ CopyText(a)
  BY <1>12, <1>1, <1>3, <1>4 DEF StoreFlags, CopyText, Harmless, At, Places, CallState
<1>13. CASE Refuse(a) \/ Run(a)
  BY <1>13, <1>1 DEF Refuse, Run
<1>14. CASE Match(a) \/ StoreByName(a)
  <2>1. c.op = "name"
    BY <1>1, <1>14 DEF Match, Test, StoreByName, At, Places
  <2>2. act'[a].op = "name"
    BY <1>14, <1>1, <1>3, <2>1 DEF Match, Test, StoreByName, NextVar, CallState
  <2>3. QED
    BY <2>2, <1>6
<1>15. QED
  BY <1>7, <1>8, <1>9, <1>10, <1>11, <1>12, <1>13, <1>14 DEF Step

\* Settled variables stay settled; those that settle have no call on them.
LEMMA SettledNext ==
  ASSUME TypeOK, PlacesOK, SettledOK, [Next]_vars
  PROVE  SettledOK'
<1>1. CASE UNCHANGED vars
  BY <1>1 DEF vars, SettledOK
<1>2. CASE Next
  <2>1. PICK a \in Actor : Step(a)
    BY <1>2 DEF Next
  <2>2. SUFFICES ASSUME NEW v \in settled'
                 PROVE  "Initialised" \in var'[v].flags /\ \A b \in Actor : Harmless(act'[b], v)
    BY DEF SettledOK
  <2>3. CASE v \in settled
    <3>1. "Initialised" \in var'[v].flags
      BY <2>1, <2>3, KeptStep DEF Kept
    <3>2. \A b \in Actor : Harmless(act'[b], v)
      BY <2>1, <2>3, HarmlessStep, ActFrame DEF SettledOK
    <3>3. QED
      BY <3>1, <3>2
  <2>4. CASE v \notin settled
    BY <1>2, <2>4 DEF Next, Settle, InCall, Harmless
  <2>5. QED
    BY <2>3, <2>4
<1>3. QED
  BY <1>1, <1>2

\* The whole invariant, from the initial state on.
LEMMA Invariant == Spec => [](TypeOK /\ PlacesOK /\ SettledOK)
<1>1. Init => TypeOK /\ PlacesOK /\ SettledOK
  BY TypeInit DEF Init, SettledOK
<1>2. TypeOK /\ PlacesOK /\ SettledOK /\ [Next]_vars => (TypeOK /\ PlacesOK /\ SettledOK)'
  BY TypeNext, SettledNext
<1>3. QED
  BY <1>1, <1>2, PTL DEF Spec

\* Once a variable was initialised with no call on it, no initialisation, however
\* late, touches it any more: from then on only sets change it.
THEOREM SettledStays == Spec => SettledForGood
<1>1. TypeOK /\ PlacesOK /\ SettledOK /\ [Next]_vars => [\A v \in settled : Kept(v)]_vars
  BY KeptStep DEF Next
<1>2. Spec => [][\A v \in settled : Kept(v)]_vars
  BY <1>1, Invariant, PTL DEF Spec
<1>3. QED
  BY <1>2 DEF SettledForGood, Kept

\* Whoever gives a variable its Initialised bit shows it.
LEMMA UsedStep ==
  ASSUME TypeOK, PlacesOK, NEW a \in Actor, Step(a), NEW v \in Slots
  PROVE  /\ "Used" \in var[v].flags => "Used" \in var'[v].flags
         /\ "Initialised" \in var'[v].flags =>
              "Initialised" \in var[v].flags \/ "Used" \in var'[v].flags
<1>. DEFINE c == act[a] s == c.slot
<1>1. var \in [Slots -> VarState]
  BY DEF TypeOK
<1>2. ASSUME NEW d, var' = [var EXCEPT ![s] = d],
             s = v => d.flags = var[v].flags \/ "Used" \in d.flags
      PROVE  var'[v].flags = var[v].flags \/ "Used" \in var'[v].flags
  BY <1>1, <1>2
<1>3. CASE StoreFlags(a)
  <2>1. var' = [var EXCEPT ![s] = [var[s] EXCEPT !.flags = c.flags \cup Bits(c.op)]]
    BY <1>3 DEF StoreFlags
  <2>2. s = v => "Used" \in [var[s] EXCEPT !.flags = c.flags \cup Bits(c.op)].flags
    BY <1>1 DEF VarState, Bits
  <2>3. QED
    BY <2>1, <2>2, <1>2
<1>4. ASSUME NEW x PROVE s = v => [var[s] EXCEPT !.value = x].flags = var[v].flags
  BY <1>1 DEF VarState
<1>5. ASSUME NEW x PROVE s = v => [var[s] EXCEPT !.text = x].flags = var[v].flags
  BY <1>1 DEF VarState
<1>6. CASE StoreValue(a) \/ StoreByName(a)
  BY <1>6, <1>4, <1>2 DEF StoreValue, StoreByName
<1>7. CASE CopyText(a)
  BY <1>7, <1>5, <1>2 DEF CopyText
<1>8. CASE var' = var
  BY <1>8
<1>9. QED
  BY <1>3, <1>6, <1>7, <1>8
     DEF Step, CallInit, CallSet, CallPoll, Call, Get, Check, LoadFlags, Refuse, Run,
         SetById, SetByName, Match, EndSearch

\* No interleaving of flags |= ... takes a variable's Used bit away.
THEOREM ShownStays == Spec => ShownStaysShown
<1>. DEFINE Stay == \A v \in Slots : "Used" \in var[v].flags => "Used" \in var'[v].flags
<1>1. TypeOK /\ PlacesOK /\ SettledOK /\ [Next]_vars => [Stay]_vars
  BY UsedStep DEF Next
<1>2. Spec => [][Stay]_vars
  BY <1>1, Invariant, PTL DEF Spec
<1>3. QED
  BY <1>2 DEF ShownStaysShown

-----------------------------------------------------------------------------
\* A search by name: every variable it is to reach is settled, shown and named
\* so, and those behind it were set.
Reached(c, r) ==
  c.op = "name" =>
    \A v \in r.known : /\ v \in settled
                       /\ var[v].text = <<c.name, c.name>>
                       /\ "Used" \in var[v].flags
                       /\ v < c.slot => v \in r.hit
SearchOK == /\ \A v \in settled : "Used" \in var[v].flags
            /\ \A u \in Utility : Reached(act[u], search[u])

\* What is Initialised is Used.
FlagsOK == \A v \in Slots : "Initialised" \in var[v].flags => "Used" \in var[v].flags

\* A step of another actor leaves a search where it is.
LEMMA SearchFrame ==
  ASSUME TypeOK, NEW a \in Actor, Step(a), NEW u \in Utility \ {a}
  PROVE  act'[u] = act[u] /\ search'[u] = search[u]
<1>1. act'[u] = act[u]
  BY ActFrame DEF Actor
<1>2. search \in [Utility -> [known : SUBSET Slots, hit : SUBSET Slots]]
  BY DEF TypeOK
<1>3. CASE SetByName(a)
  BY <1>1, <1>2, <1>3 DEF SetByName
<1>4. CASE StoreByName(a)
  BY <1>1, <1>2, <1>4 DEF StoreByName
<1>5. CASE search' = search
  BY <1>1, <1>5
<1>6. QED
  BY <1>1, <1>3, <1>4, <1>5
     DEF Step, CallInit, CallSet, CallPoll, Call, Get, Check, StoreValue, LoadFlags, StoreFlags,
         CopyText, Refuse, Run, SetById, Match, EndSearch

\* Where a search goes in a step of its own: nowhere but into the next test, past
\* a variable that is not of its name, or past one it has set.
LEMMA SearchMoves ==
  ASSUME TypeOK, PlacesOK, NEW u \in Utility, Step(u), act'[u].op = "name"
  PROVE  \/ act'[u].slot = 0
            /\ search'[u].known = settled \cap Named(act'[u].name)
         \/ act[u].op = "name" /\ act'[u].name = act[u].name
            /\ search'[u].known = search[u].known /\ search[u].hit \subseteq search'[u].hit
            /\ \/ act'[u].slot = act[u].slot
               \/ /\ act'[u].slot = act[u].slot + 1
                  /\ \/ "Used" \notin var[act[u].slot].flags
                     \/ var[act[u].slot].text[1] # act[u].name
                     \/ var[act[u].slot].text[2] # act[u].name
                     \/ act[u].slot \in search'[u].hit
<1>. DEFINE c == act[u] s == c.slot
<1>1. u \in Actor /\ act \in [Actor -> CallState] /\ c \in CallState /\ Places(c)
  BY DEF Actor, TypeOK, PlacesOK
<1>2. search \in [Utility -> [known : SUBSET Slots, hit : SUBSET Slots]]
  BY DEF TypeOK
<1>3. ASSUME NextVar(u)
      PROVE  act'[u].slot = s + 1 /\ act'[u].name = c.name /\ act'[u].op = c.op
  BY <1>1, <1>3 DEF NextVar, CallState
<1>4. ASSUME NEW l, Goto(u, l)
      PROVE  act'[u].slot = s /\ act'[u].name = c.name /\ act'[u].op = c.op
  BY <1>1, <1>4 DEF Goto, CallState
<1>5. ~Return(u)
  BY <1>1 DEF Return, Idle
<1>6. CASE SetByName(u)
  <2>1. /\ act'[u] = [pc |-> "used", op |-> "name", slot |-> 0, value |-> Head(job[u]).value,
                      name |-> Head(job[u]).name, flags |-> {}]
        /\ search'[u] = [known |-> settled \cap Named(Head(job[u]).name), hit |-> {}]
    BY <1>1, <1>2, <1>6 DEF SetByName, Begin
  <2>2. QED
    BY <2>1
<1>7. CASE Match(u)
  BY <1>7, <1>3, <1>4 DEF Match, Test
<1>8. CASE StoreByName(u)
  <2>1. search'[u] = [search[u] EXCEPT !.hit = @ \cup {s}]
    BY <1>2, <1>8 DEF StoreByName
  <2>2. search'[u].known = search[u].known /\ search'[u].hit = search[u].hit \cup {s}
    BY <1>2, <2>1
  <2>3. c.op = "name"
    BY <1>1, <1>8 DEF StoreByName, At, Places
  <2>4. QED
    BY <1>8, <1>3, <2>2, <2>3 DEF StoreByName
<1>9. CASE Refuse(u) \/ Run(u)
  BY <1>9 DEF Refuse, Run
<1>10. CASE CallInit(u) \/ CallSet(u) \/ CallPoll(u) \/ SetById(u)
  <2>1. ASSUME NEW op, NEW l, NEW v, NEW x, NEW n, Begin(u, op, l, v, x, n) PROVE op = "name"
    BY <1>1, <2>1 DEF Begin
  <2>2. QED
    BY <1>10, <2>1 DEF CallInit, CallSet, CallPoll, SetById
<1>11. CASE Check(u) \/ StoreValue(u) \/ StoreFlags(u) \/ CopyText(u)
  <2>1. c.op # "name"
    BY <1>1, <1>11 DEF Check, StoreValue, StoreFlags, CopyText, At, Places
  <2>2. QED
    BY <1>11, <2>1, <1>4, <1>5 DEF Check, StoreValue, StoreFlags, CopyText
<1>12. CASE LoadFlags(u)
  <2>1. c.op # "name"
    BY <1>1, <1>12 DEF LoadFlags, At, Places
  <2>2. act'[u].op = c.op
    BY <1>1, <1>12 DEF LoadFlags, CallState
  <2>3. QED
    BY <2>1, <2>2
<1>13. CASE Get(u) \/ EndSearch(u)
  BY <1>13, <1>5 DEF Get, EndSearch
<1>14. QED
  BY <1>6, <1>7, <1>8, <1>9, <1>10, <1>11, <1>12, <1>13 DEF Step

\* A step of anyone keeps what a search has behind it and before it.
LEMMA SearchNext ==
  ASSUME TypeOK, PlacesOK, SettledOK, FlagsOK, SearchOK, [Next]_vars
  PROVE  FlagsOK' /\ SearchOK'
<1>1. CASE UNCHANGED vars
  BY <1>1 DEF vars, FlagsOK, SearchOK, Reached
<1>2. CASE Next
  <2>1. PICK a \in Actor : Step(a)
    BY <1>2 DEF Next
  <2>2. settled \subseteq settled' /\ settled' \subseteq Slots /\ settled \subseteq Slots
    BY <1>2 DEF Next, Settle, TypeOK
  <2>3. FlagsOK'
    BY <2>1, UsedStep DEF FlagsOK
  <2>4. \A v \in settled' : "Used" \in var'[v].flags
    BY <1>2, <2>2, <2>3, TypeNext, SettledNext DEF FlagsOK, SettledOK
  <2>5. \A v \in settled : var'[v].text = var[v].text
    BY <2>1, KeptStep DEF Kept
  <2>6. ASSUME NEW u \in Utility PROVE Reached(act[u], search[u])'
    <3>1. CASE u # a
      <4>1. act'[u] = act[u] /\ search'[u] = search[u]
        BY <2>1, <3>1, SearchFrame
      <4>2. QED
        BY <2>2, <2>4, <2>5, <4>1 DEF SearchOK, Reached
    <3>2. CASE u = a
      <4>. SUFFICES ASSUME act'[u].op = "name", NEW v \in search'[u].known
                    PROVE  /\ v \in settled' /\ "Used" \in var'[v].flags
                           /\ var'[v].text = <<act'[u].name, act'[u].name>>
                           /\ v < act'[u].slot => v \in search'[u].hit
        BY DEF Reached
      <4>1. CASE act'[u].slot = 0 /\ search'[u].known = settled \cap Named(act'[u].name)
        <5>1. v \in settled /\ var[v].text = <<act'[u].name, act'[u].name>> /\ v \in Slots
          BY <4>1, <2>2 DEF Named
        <5>2. ~(v < 0)
          BY <5>1, SlotsType
        <5>3. QED
          BY <5>1, <5>2, <4>1, <2>2, <2>4, <2>5
      <4>2. CASE /\ act[u].op = "name" /\ act'[u].name = act[u].name
                 /\ search'[u].known = search[u].known /\ search[u].hit \subseteq search'[u].hit
                 /\ \/ act'[u].slot = act[u].slot
                    \/ /\ act'[u].slot = act[u].slot + 1
                       /\ \/ "Used" \notin var[act[u].slot].flags
                          \/ var[act[u].slot].text[1] # act[u].name
                          \/ var[act[u].slot].text[2] # act[u].name
                          \/ act[u].slot \in search'[u].hit
        <5>1. /\ v \in settled /\ var[v].text = <<act[u].name, act[u].name>>
              /\ "Used" \in var[v].flags /\ (v < act[u].slot => v \in search[u].hit)
          BY <4>2 DEF SearchOK, Reached
        <5>2. v \in Nat /\ act[u].slot \in Nat
          <6>1. u \in Actor /\ act[u] \in CallState /\ v \in Slots
            BY <5>1, <2>2 DEF TypeOK, Actor
          <6>2. act[u].slot \in 0 .. NumSlots
            BY <6>1 DEF CallState
          <6>3. QED
            BY <6>1, <6>2, SlotsType
        <5>3. v = act[u].slot /\ act'[u].slot = act[u].slot + 1 => v \in search'[u].hit
          BY <4>2, <5>1, <5>2
        <5>4. v < act'[u].slot => v < act[u].slot \/ (v = act[u].slot /\ act'[u].slot = act[u].slot + 1)
          BY <4>2, <5>2
        <5>5. QED
          BY <4>2, <5>1, <5>3, <5>4, <2>2, <2>4, <2>5
      <4>3. QED
        BY <2>1, <3>2, <4>1, <4>2, SearchMoves
    <3>3. QED
      BY <3>1, <3>2
  <2>7. QED
    BY <2>3, <2>4, <2>6 DEF SearchOK
<1>3. QED
  BY <1>1, <1>2

\* A search by name sets every variable that was settled with the name when the
\* search began, for any number of variables of either kind.
THEOREM SearchReaches == Spec => []NameReaches
<1>. DEFINE Inv == TypeOK /\ PlacesOK /\ SettledOK /\ FlagsOK /\ SearchOK
<1>1. Init => Inv
  <2>1. Init => FlagsOK /\ SearchOK
    BY DEF Init, FlagsOK, SearchOK, Reached, Actor, Idle
  <2>2. QED
    BY <2>1, TypeInit DEF Init, SettledOK
<1>2. Inv /\ [Next]_vars => Inv'
  BY TypeNext, SettledNext, SearchNext
<1>3. Inv => NameReaches
  <2>. SUFFICES ASSUME Inv, NEW u \in Utility, act[u].op = "name", act[u].slot = NumSlots,
                       NEW v \in search[u].known
                PROVE  v \in search[u].hit
    BY DEF NameReaches
  <2>1. v \in settled /\ (v < NumSlots => v \in search[u].hit)
    BY DEF SearchOK, Reached
  <2>2. v < NumSlots
    BY <2>1, NumVarsAssumption, SMT DEF TypeOK, Slots, NumSlots
  <2>3. QED
    BY <2>1, <2>2
<1>4. QED
  BY <1>1, <1>2, <1>3, PTL DEF Spec
=============================================================================
