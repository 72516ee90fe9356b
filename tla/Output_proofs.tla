------------------------------- MODULE Output_proofs -------------------------------
(***************************************************************************)
(* For every configuration, any number of threads and blocks, whatever the *)
(* pools, the marks and the switches do meanwhile: the list of leaks made  *)
(* at exit is the driver memory that is held; every session of tracing     *)
(* writes its rows to whole files; and the totals that the pools report    *)
(* are the sums of the regions they hold.                                  *)
(***************************************************************************)
EXTENDS Output, MemoryStateManager_proofs, FiniteSetTheorems, TLAPS

\* The settings and blocks of the model are what OutputAssumption says.
LEMMA SettingType ==
    ASSUME setting \in Settings
    PROVE  /\ setting.tracing \in BOOLEAN
           /\ setting.calls \in Nat /\ setting.switches \in Nat
           /\ \A b \in setting.blocks : b.addr \in Addrs
BY OutputAssumption DEF Region

\* HalAnalyzer's table stays a table, and a record moves just its own address in or out of the
\* list of leaks.
LEMMA RecordedTable ==
    ASSUME NEW config, NEW t, NEW type \in {"MALLOC", "FREE"}, NEW addr \in Addrs, TableOK(t)
    PROVE  /\ TableOK(HalRecord(config, t, type, addr))
           /\ IsHalAnalysisEnable(config) /\ type = "MALLOC" =>
                 Leaks(HalRecord(config, t, type, addr)) = Leaks(t) \cup {addr}
           /\ IsHalAnalysisEnable(config) /\ type = "FREE" =>
                 Leaks(HalRecord(config, t, type, addr)) = Leaks(t) \ {addr}
<1> DEFINE after == HalRecord(config, t, type, addr)
<1>1. CASE ~IsHalAnalysisEnable(config)
  BY <1>1 DEF HalRecord
<1>2. CASE IsHalAnalysisEnable(config) /\ type = "MALLOC"
  <2>1. after = RecordMalloc(t, addr)
    BY <1>2 DEF HalRecord
  <2> QED BY <1>2, <2>1 DEF RecordMalloc, Leaks, TableOK
<1>3. CASE IsHalAnalysisEnable(config) /\ type = "FREE"
  <2>1. after = RecordFree(t, addr)
    BY <1>3 DEF HalRecord
  <2> QED BY <1>3, <2>1 DEF RecordFree, Leaks, TableOK
<1> QED BY <1>1, <1>2, <1>3

\* The first state has no leaks, no calls and no blocks.
LEMMA InitLeakInv == Init => LeakInv
<1> SUFFICES ASSUME Init PROVE LeakInv
    OBVIOUS
<1>1. TypeOK
  <2>1. setting \in Settings
    BY DEF Init
  <2>2. DOMAIN call = Actors /\ \A a \in Actors : EventOf(a) = NoEvent("NONE") /\ call[a].at = "out"
    BY DEF Init, Out, EventOf
  <2>3. /\ DOMAIN NoEvent("NONE") = {"id", "type", "pool", "addr", "size", "device"}
        /\ NoEvent("NONE").type = "NONE"
    BY DEF NoEvent, Event
  <2>4. TableOK(table)
    BY DEF Init, NewTable, TableOK
  <2>5. tracing \in BOOLEAN /\ raced \in BOOLEAN /\ exited \in BOOLEAN
    <3>1. tracing = setting.tracing /\ raced = FALSE /\ exited = FALSE
      BY DEF Init
    <3>2. setting.tracing \in BOOLEAN
      BY <2>1, SettingType
    <3> QED BY <3>1, <3>2, Zenon
  <2>8. /\ heap \subseteq setting.blocks /\ halPtrs \subseteq Addrs /\ missed \subseteq Addrs
        /\ domains \subseteq TracerNames /\ crowded \subseteq Devices
    BY DEF Init
  <2>9. calls \in 0..setting.calls /\ switches \in 0..setting.switches
    <3>1. calls = 0 /\ switches = 0
      BY DEF Init
    <3>2. setting.calls \in Nat /\ setting.switches \in Nat
      BY <2>1, SettingType
    <3> QED BY <3>1, <3>2
  <2>6. sessions \in Nat /\ session \in 0..sessions
    BY DEF Init
  <2>7. \A a \in Actors :
          /\ call[a].at \in {"out", "hook", "checked", "inside"}
          /\ DOMAIN EventOf(a) = {"id", "type", "pool", "addr", "size", "device"}
          /\ EventOf(a).type = "NONE"
    BY <2>2, <2>3
  <2> QED BY <2>1, <2>2, <2>4, <2>5, <2>6, <2>7, <2>8, <2>9 DEF TypeOK, CallsOK
<1>2. MallocHoldsItsBlock
  BY DEF Init, MallocHoldsItsBlock, EventOf, Out, NoEvent, Event, Actors
<1>3. \A a \in Addrs : ~Listed(a)
  BY DEF Init, Listed, LeakAnalyze, Leaks, NewTable
<1>4. heap = {}
  BY DEF Init
<1> QED BY <1>1, <1>2, <1>3, <1>4 DEF LeakInv, ListFollowsHeap

------------------------------------------------------------------------------------
\* A step that leaves the calls on driver memory as they are.
SameHalCalls ==
    \A t \in Threads :
        /\ \A type \in {"MALLOC", "FREE"} : EventOf(t).type' = type <=> EventOf(t).type = type
        /\ EventOf(t).type \in {"MALLOC", "FREE"} => EventOf(t).addr' = EventOf(t).addr

\* Such a step keeps what is said of leaks when it does not touch the blocks either.
LEMMA QuietStep ==
    ASSUME MallocHoldsItsBlock, ListFollowsHeap, SameHalCalls,
           UNCHANGED <<setting, heap, table, missed>>
    PROVE  MallocHoldsItsBlock' /\ ListFollowsHeap'
<1>1. \A a, type : type \in {"MALLOC", "FREE"} => (Pending(type, a)' <=> Pending(type, a))
  BY DEF SameHalCalls, Pending
<1>2. \A a : Listed(a)' <=> Listed(a)
  BY DEF Listed
<1>3. MallocHoldsItsBlock'
  BY DEF SameHalCalls, MallocHoldsItsBlock
<1>4. ListFollowsHeap'
  BY <1>1, <1>2 DEF ListFollowsHeap
<1> QED BY <1>3, <1>4

\* Only a thread allocates or frees.
LEMMA ControllerApart == Controller \notin Threads /\ Actors = Threads \cup {Controller}
BY OutputAssumption DEF Actors

LEMMA EventShape ==
    ASSUME NEW id, NEW type, NEW addr, NEW size, NEW device
    PROVE  LET e == Event(id, type, addr, size, device)
           IN  /\ DOMAIN e = {"id", "type", "pool", "addr", "size", "device"}
               /\ e.type = type /\ e.addr = addr /\ NoEvent(type).type = type
               /\ Out.at = "out" /\ Out.event.type = "NONE" /\ DOMAIN Out.event = DOMAIN e
BY DEF Event, Out, NoEvent

\* A step of one actor: where it goes, and that the others stay.
LEMMA GoesOne ==
    ASSUME TypeOK, NEW a \in Actors, NEW place, NEW event, Goes(a, place, event)
    PROVE  /\ DOMAIN call' = Actors
           /\ call[a]'.at = place /\ EventOf(a)' = event
           /\ \A b \in Actors \ {a} : call'[b] = call[b] /\ EventOf(b)' = EventOf(b)
BY DEF TypeOK, CallsOK, Goes, EventOf

\* What may be under way.
Shaped(event) ==
    /\ DOMAIN event = {"id", "type", "pool", "addr", "size", "device"}
    /\ event.type \in {"MALLOC", "FREE", "MARK", "START", "STOP", "FLUSH", "NONE"}

LEMMA GoesOK ==
    ASSUME TypeOK, NEW a \in Actors, NEW place \in {"hook", "checked"}, NEW event,
           Goes(a, place, event), Shaped(event),
           event.type \in {"MALLOC", "FREE"} => a \in Threads /\ event.addr \in Addrs
    PROVE  CallsOK'
BY GoesOne DEF TypeOK, CallsOK, Shaped, EventOf

\* A call that returns.
LEMMA OutOK ==
    ASSUME TypeOK, NEW a \in Actors, call' = [call EXCEPT ![a] = Out]
    PROVE  CallsOK'
BY EventShape DEF TypeOK, CallsOK, EventOf

LEMMA TypeHalMemAlloc ==
    ASSUME TypeOK, NEW t \in Threads, NEW b \in setting.blocks, HalMemAlloc(t, b)
    PROVE  TypeOK'
<1>1. b.addr \in Addrs /\ setting.calls \in Nat
  BY SettingType DEF TypeOK
<1>2. CallsOK'
  BY <1>1, GoesOK, EventShape, ControllerApart DEF HalMemAlloc, Shaped
<1>3. calls' \in 0..setting.calls
  BY <1>1 DEF HalMemAlloc, CanCall, TypeOK
<1>4. heap' \subseteq setting.blocks
  BY DEF HalMemAlloc, TypeOK
<1> QED BY <1>2, <1>3, <1>4 DEF HalMemAlloc, TypeOK, poolVars, sessionVars

LEMMA TypeHalMemFree ==
    ASSUME TypeOK, NEW t \in Threads, NEW b \in heap, HalMemFree(t, b)
    PROVE  TypeOK'
<1>1. b.addr \in Addrs /\ setting.calls \in Nat
  BY SettingType DEF TypeOK
<1>2. CallsOK'
  BY <1>1, GoesOK, EventShape, ControllerApart DEF HalMemFree, Shaped
<1>3. calls' \in 0..setting.calls
  BY <1>1 DEF HalMemFree, CanCall, TypeOK
<1>4. heap' \subseteq setting.blocks
  BY DEF HalMemFree, TypeOK
<1> QED BY <1>2, <1>3, <1>4 DEF HalMemFree, TypeOK, poolVars, sessionVars

\* The rest of a hook: the call goes on with a number, or returns.
LEMMA TypeReport ==
    ASSUME TypeOK, NEW t \in Threads, NEW ptrs, ptrs \subseteq Addrs,
           EventOf(t).type \in {"MALLOC", "FREE"}, Passes(t, ptrs) \/ TurnsBack(t)
    PROVE  CallsOK' /\ halPtrs' \subseteq Addrs /\ missed' \subseteq Addrs
<1>1. EventOf(t).addr \in Addrs /\ t \in Actors
  BY ControllerApart DEF TypeOK, CallsOK
<1>2. CASE Passes(t, ptrs)
  <2> DEFINE event == [EventOf(t) EXCEPT !.id = recordIndex + 1]
  <2>1. Shaped(event) /\ event.addr = EventOf(t).addr
    BY <1>1 DEF TypeOK, CallsOK, Shaped
  <2>2. Goes(t, "checked", event)
    BY <1>2 DEF Passes
  <2>3. CallsOK'
    BY <1>1, <2>1, <2>2, GoesOK
  <2> QED BY <1>2, <2>3 DEF Passes, TypeOK
<1>3. CASE TurnsBack(t)
  BY <1>1, <1>3, OutOK DEF TurnsBack, TypeOK
<1> QED BY <1>2, <1>3

LEMMA TypeReportHal ==
    ASSUME TypeOK, NEW t \in Threads, ReportHalMalloc(t) \/ ReportHalFree(t)
    PROVE  TypeOK'
<1>1. EventOf(t).type \in {"MALLOC", "FREE"} /\ EventOf(t).addr \in Addrs
  BY ControllerApart DEF TypeOK, CallsOK, ReportHalMalloc, ReportHalFree
<1>2. halPtrs \cup {EventOf(t).addr} \subseteq Addrs /\ halPtrs \ {EventOf(t).addr} \subseteq Addrs
  BY <1>1 DEF TypeOK
<1>3. CallsOK' /\ halPtrs' \subseteq Addrs /\ missed' \subseteq Addrs
  BY <1>1, <1>2, TypeReport DEF ReportHalMalloc, ReportHalFree
<1> QED BY <1>3 DEF ReportHalMalloc, ReportHalFree, TypeOK, poolVars, sessionVars

LEMMA TypeReportMark ==
    ASSUME TypeOK, NEW t \in Threads, NEW d, ReportMark(t, d)
    PROVE  TypeOK'
<1>1. setting.calls \in Nat
  BY SettingType DEF TypeOK
<1>2. CallsOK'
  BY GoesOK, EventShape, ControllerApart DEF ReportMark, Shaped
<1>3. calls' \in 0..setting.calls
  BY <1>1 DEF ReportMark, CanCall, TypeOK
<1> QED BY <1>2, <1>3 DEF ReportMark, TypeOK, poolVars, sessionVars

LEMMA TypeSwitch ==
    ASSUME TypeOK, NEW type \in {"START", "STOP"}, Switch(type)
    PROVE  TypeOK'
<1>1. setting.switches \in Nat
  BY SettingType DEF TypeOK
<1>2. CallsOK'
  BY GoesOK, EventShape, ControllerApart DEF Switch, Shaped
<1>3. switches' \in 0..setting.switches
  BY <1>1 DEF Switch, TypeOK
<1> QED BY <1>2, <1>3 DEF Switch, TypeOK, poolVars, sessionVars

LEMMA TypeEnter ==
    ASSUME TypeOK, NEW a \in Actors, Enter(a)
    PROVE  TypeOK'
<1>1. \A b \in Actors : EventOf(b)' = EventOf(b) /\ (b # a => call'[b] = call[b])
  BY DEF Enter, TypeOK, CallsOK, EventOf
<1>2. DOMAIN call' = Actors /\ call'[a].at = "inside"
  BY DEF Enter, TypeOK, CallsOK
<1>3. CallsOK'
  BY <1>1, <1>2 DEF TypeOK, CallsOK
<1>4. raced' \in BOOLEAN
  BY DEF Enter
<1>5. sessions' \in Nat /\ session' \in 0..sessions'
  BY DEF Enter, TypeOK
<1> QED BY <1>3, <1>4, <1>5 DEF Enter, TypeOK, poolVars

\* What RecordHandler does to the table of leaks.
LEMMA HandledTable ==
    ASSUME TypeOK, NEW e, RecordHandler(e),
           e.type \in {"MALLOC", "FREE", "MARK", "START", "STOP", "FLUSH", "NONE"},
           e.type \in {"MALLOC", "FREE"} => e.addr \in Addrs
    PROVE  /\ TableOK(table')
           /\ e.type \notin {"MALLOC", "FREE"} => table' = table
           /\ IsHalAnalysisEnable(setting.config) =>
                 /\ e.type = "MALLOC" => Leaks(table') = Leaks(table) \cup {e.addr}
                 /\ e.type = "FREE" => Leaks(table') = Leaks(table) \ {e.addr}
<1>1. CASE e.type \in {"MALLOC", "FREE"}
  <2>1. table' = HalRecord(setting.config, table, e.type, e.addr)
    BY <1>1 DEF RecordHandler, EventTypes
  <2>2. TableOK(table)
    BY DEF TypeOK
  <2>3. e.addr \in Addrs
    BY <1>1
  <2>4. TableOK(HalRecord(setting.config, table, e.type, e.addr))
    BY <1>1, <2>2, <2>3, RecordedTable
  <2>5. IsHalAnalysisEnable(setting.config) /\ e.type = "MALLOC" =>
           Leaks(HalRecord(setting.config, table, e.type, e.addr)) = Leaks(table) \cup {e.addr}
    BY <2>2, <2>3, RecordedTable
  <2>6. IsHalAnalysisEnable(setting.config) /\ e.type = "FREE" =>
           Leaks(HalRecord(setting.config, table, e.type, e.addr)) = Leaks(table) \ {e.addr}
    BY <2>2, <2>3, RecordedTable
  <2> QED BY <1>1, <2>1, <2>4, <2>5, <2>6
<1>2. CASE e.type \notin {"MALLOC", "FREE"}
  <2>1. table' = table
    BY <1>2 DEF RecordHandler, EventTypes
  <2> QED BY <1>2, <2>1 DEF TypeOK
<1> QED BY <1>1, <1>2

LEMMA TypeLeave ==
    ASSUME TypeOK, NEW t \in Threads, Leave(t)
    PROVE  TypeOK'
<1>1. t \in Actors
  BY ControllerApart
<1>2. CallsOK'
  BY <1>1, OutOK DEF Leave
<1>3. TableOK(table')
  BY <1>1, HandledTable DEF Leave, TypeOK, CallsOK
<1>4. missed' \subseteq Addrs
  <2>1. EventOf(t).type = "FREE" => EventOf(t).addr \in Addrs
    BY <1>1 DEF TypeOK, CallsOK
  <2> QED BY <2>1 DEF Leave, MissedAfter, TypeOK
<1> QED BY <1>2, <1>3, <1>4 DEF Leave, TypeOK, poolVars, sessionVars

LEMMA TypeLeaveSwitch == TypeOK /\ LeaveSwitch => TypeOK'
<1> SUFFICES ASSUME TypeOK, LeaveSwitch PROVE TypeOK'
    OBVIOUS
<1>1. Controller \in Actors
  BY ControllerApart
<1>2. CallsOK'
  <2> DEFINE flush == [at |-> "checked", event |-> NoEvent("FLUSH")]
  <2>1. Shaped(flush.event) /\ flush.event.type = "FLUSH"
    BY DEF NoEvent, Event, Shaped
  <2>2. CASE call' = [call EXCEPT ![Controller] = Out]
    BY <1>1, <2>2, OutOK
  <2>3. CASE call' = [call EXCEPT ![Controller] = flush]
    <3>1. Goes(Controller, "checked", NoEvent("FLUSH"))
      BY <2>3 DEF Goes
    <3> QED BY <1>1, <2>1, <3>1, GoesOK
  <2> QED BY <2>2, <2>3 DEF LeaveSwitch
<1>3. TableOK(table')
  BY <1>1, HandledTable DEF LeaveSwitch, TypeOK, CallsOK
<1>4. tracing' \in BOOLEAN
  BY DEF LeaveSwitch, TypeOK
<1>5. sessions' \in Nat /\ session' \in 0..sessions'
  BY DEF LeaveSwitch, TypeOK
<1> QED BY <1>2, <1>3, <1>4, <1>5 DEF LeaveSwitch, TypeOK, poolVars

LEMMA TypeExit == TypeOK /\ Exit => TypeOK'
<1> SUFFICES ASSUME TypeOK, Exit PROVE TypeOK'
    OBVIOUS
<1>1. CallsOK'
  BY DEF Exit, TypeOK, CallsOK, EventOf
<1>2. session' \in 0..sessions'
  <2>1. session' = 0 /\ sessions' = sessions
    BY DEF Exit
  <2> QED BY <2>1 DEF TypeOK
<1> QED BY <1>1, <1>2 DEF Exit, TypeOK, poolVars

\* A pool call, whatever it does to the pools.
LEMMA TypePoolCall ==
    ASSUME TypeOK, PoolCall, domains' \subseteq TracerNames, crowded' \subseteq Devices,
           raced' \in BOOLEAN
    PROVE  TypeOK'
<1>1. setting.calls \in Nat
  BY SettingType DEF TypeOK
<1>2. calls' \in 0..setting.calls
  BY <1>1 DEF PoolCall, TypeOK
<1>3. CallsOK'
  BY DEF PoolCall, TypeOK, CallsOK, EventOf
<1> QED BY <1>2, <1>3 DEF PoolCall, TypeOK, sessionVars

\* A pool is traced by one of the tracers or not at all.
LEMMA TypePools ==
    ASSUME TypeOK, NEW c \in Clients,
           \/ DomainCreate(c)
           \/ \E h \in setting.heaps : HeapRegister(c, h)
           \/ \E x \in clients[c].heaps : HeapUnregister(c, x)
           \/ \E batch \in setting.batches : RegionsRegister(c, batch)
           \/ \E regions \in SUBSET clients[c].regions : RegionsUnregister(c, regions)
    PROVE  TypeOK' /\ PoolCall
<1>1. CASE DomainCreate(c)
  <2>1. \A name : ReportDomainCreateA(name) \in TracerNames \cup {NullDomain}
    BY DEF ReportDomainCreateA
  <2>2. domains' \subseteq TracerNames
    BY <1>1, <2>1 DEF DomainCreate, TypeOK
  <2>3. PoolCall /\ crowded' \subseteq Devices /\ raced' \in BOOLEAN
    BY <1>1 DEF DomainCreate, TypeOK
  <2> QED BY <2>2, <2>3, TypePoolCall
<1>2. CASE \E h \in setting.heaps : HeapRegister(c, h)
  <2>1. PoolCall /\ domains' \subseteq TracerNames /\ crowded' \subseteq Devices /\ raced' \in BOOLEAN
    BY <1>2 DEF HeapRegister, TypeOK
  <2> QED BY <2>1, TypePoolCall
<1>3. CASE \E x \in clients[c].heaps : HeapUnregister(c, x)
  <2>1. PoolCall /\ domains' \subseteq TracerNames /\ crowded' \subseteq Devices /\ raced' \in BOOLEAN
    BY <1>3 DEF HeapUnregister, TypeOK
  <2> QED BY <2>1, TypePoolCall
<1>4. \A records : ReportMemPoolRecords(records) => raced' \in BOOLEAN
  BY DEF ReportMemPoolRecords, TypeOK
<1>5. CASE \E batch \in setting.batches : RegionsRegister(c, batch)
  <2>1. PoolCall /\ domains' \subseteq TracerNames /\ crowded' \subseteq Devices /\ raced' \in BOOLEAN
    BY <1>4, <1>5 DEF RegionsRegister, TypeOK
  <2> QED BY <2>1, TypePoolCall
<1>6. CASE \E regions \in SUBSET clients[c].regions : RegionsUnregister(c, regions)
  <2>1. PoolCall /\ domains' \subseteq TracerNames /\ crowded' \subseteq Devices /\ raced' \in BOOLEAN
    BY <1>4, <1>6 DEF RegionsUnregister, TypeOK
  <2> QED BY <2>1, TypePoolCall
<1> QED BY <1>1, <1>2, <1>3, <1>5, <1>6

\* Every step keeps the types.
LEMMA TypeStep == TypeOK /\ [Next]_vars => TypeOK'
<1> SUFFICES ASSUME TypeOK, [Next]_vars PROVE TypeOK'
    OBVIOUS
<1>1. CASE \E t \in Threads, b \in setting.blocks : HalMemAlloc(t, b)
  BY <1>1, TypeHalMemAlloc
<1>2. CASE \E t \in Threads, b \in heap : HalMemFree(t, b)
  BY <1>2, TypeHalMemFree
<1>3. CASE \E t \in Threads, d \in setting.marks : ReportMark(t, d)
  BY <1>3, TypeReportMark
<1>4. CASE \E t \in Threads : ReportHalMalloc(t) \/ ReportHalFree(t)
  BY <1>4, TypeReportHal
<1>5. CASE \E t \in Threads : Leave(t)
  BY <1>5, TypeLeave
<1>6. CASE \E a \in Actors : Enter(a)
  BY <1>6, TypeEnter
<1>7. CASE \E type \in {"START", "STOP"} : Switch(type)
  BY <1>7, TypeSwitch
<1>8. CASE LeaveSwitch \/ Exit
  BY <1>8, TypeLeaveSwitch, TypeExit
<1>9. CASE \E c \in Clients :
              \/ DomainCreate(c)
              \/ \E h \in setting.heaps : HeapRegister(c, h)
              \/ \E x \in clients[c].heaps : HeapUnregister(c, x)
              \/ \E batch \in setting.batches : RegionsRegister(c, batch)
              \/ \E regions \in SUBSET clients[c].regions : RegionsUnregister(c, regions)
  BY <1>9, TypePools
<1>10. CASE UNCHANGED vars
  BY <1>10 DEF vars, TypeOK, TableOK, CallsOK, EventOf
<1> QED BY <1>1, <1>2, <1>3, <1>4, <1>5, <1>6, <1>7, <1>8, <1>9, <1>10 DEF Next

\* The state of the program is well formed (TypeOK): the events under way, the table of leaks,
\* the addresses that were reported.
THEOREM WellFormed == Spec => []TypeOK
<1>1. Init => TypeOK
  BY InitLeakInv DEF LeakInv
<1> QED BY <1>1, TypeStep, PTL DEF Spec

------------------------------------------------------------------------------------
Kept == MallocHoldsItsBlock /\ ListFollowsHeap

\* A block that is being allocated is awaited by its own call and not yet listed.
LEMMA LeakHalMemAlloc ==
    ASSUME LeakInv, NEW t \in Threads, NEW b \in setting.blocks, HalMemAlloc(t, b)
    PROVE  Kept'
<1>1. TypeOK /\ MallocHoldsItsBlock /\ ListFollowsHeap /\ t \in Actors
  BY ControllerApart DEF LeakInv
<1>2. EventOf(t).type = "NONE"
  BY EventShape DEF HalMemAlloc, CanCall, EventOf
<1>3. EventOf(t)'.type = "MALLOC" /\ EventOf(t)'.addr = b.addr
  BY <1>1, GoesOne, EventShape DEF HalMemAlloc
<1>4. \A u \in Threads \ {t} : EventOf(u)' = EventOf(u)
  BY <1>1, GoesOne, ControllerApart DEF HalMemAlloc
<1>5. heap' = heap \cup {b} /\ (\A c \in heap : c.addr # b.addr) /\ UNCHANGED <<setting, table, missed>>
  BY DEF HalMemAlloc
<1>6. MallocHoldsItsBlock'
  BY <1>1, <1>3, <1>4, <1>5 DEF MallocHoldsItsBlock
<1>7. \A a \in Addrs \ {b.addr} :
         /\ (\E c \in heap' : c.addr = a) <=> (\E c \in heap : c.addr = a)
         /\ Pending("MALLOC", a)' <=> Pending("MALLOC", a)
         /\ Pending("FREE", a)' <=> Pending("FREE", a)
  BY <1>2, <1>3, <1>4, <1>5 DEF Pending
<1>8. Pending("MALLOC", b.addr)' /\ \E c \in heap' : c.addr = b.addr
  BY <1>3, <1>5 DEF Pending
<1>9. \A a : Listed(a)' <=> Listed(a)
  BY <1>5 DEF Listed
<1>10. ListFollowsHeap'
  BY <1>1, <1>5, <1>7, <1>8, <1>9 DEF ListFollowsHeap
<1> QED BY <1>6, <1>10 DEF Kept

\* A block that is being freed stays listed as long as its call is under way.
LEMMA LeakHalMemFree ==
    ASSUME LeakInv, NEW t \in Threads, NEW b \in heap, HalMemFree(t, b)
    PROVE  Kept'
<1>1. TypeOK /\ MallocHoldsItsBlock /\ ListFollowsHeap /\ t \in Actors
  BY ControllerApart DEF LeakInv
<1>2. EventOf(t).type = "NONE"
  BY EventShape DEF HalMemFree, CanCall, EventOf
<1>3. EventOf(t)'.type = "FREE" /\ EventOf(t)'.addr = b.addr
  BY <1>1, GoesOne, EventShape DEF HalMemFree
<1>4. \A u \in Threads \ {t} : EventOf(u)' = EventOf(u)
  BY <1>1, GoesOne, ControllerApart DEF HalMemFree
<1>5. heap' = heap \ {b} /\ ~Pending("MALLOC", b.addr) /\ UNCHANGED <<setting, table, missed>>
  BY DEF HalMemFree
<1>6. MallocHoldsItsBlock'
  BY <1>1, <1>3, <1>4, <1>5 DEF MallocHoldsItsBlock, Pending
<1>7. \A a : /\ Pending("MALLOC", a)' <=> Pending("MALLOC", a)
             /\ Pending("FREE", a) => Pending("FREE", a)'
  BY <1>2, <1>3, <1>4 DEF Pending
<1>8. Pending("FREE", b.addr)'
  BY <1>3 DEF Pending
<1>9. \A a : Listed(a)' <=> Listed(a)
  BY <1>5 DEF Listed
<1>10. ListFollowsHeap'
  BY <1>1, <1>5, <1>7, <1>8, <1>9 DEF ListFollowsHeap
<1> QED BY <1>6, <1>10 DEF Kept

\* An event that is reported goes on as it is; the address of one that is not is missed.
LEMMA LeakReportHal ==
    ASSUME LeakInv, NEW t \in Threads, ReportHalMalloc(t) \/ ReportHalFree(t)
    PROVE  Kept'
<1>1. TypeOK /\ MallocHoldsItsBlock /\ ListFollowsHeap /\ t \in Actors
  BY ControllerApart DEF LeakInv
<1>2. UNCHANGED <<setting, heap, table>>
  BY DEF ReportHalMalloc, ReportHalFree
<1>3. ASSUME NEW ptrs, Passes(t, ptrs)
      PROVE  Kept'
  <2> DEFINE event == [EventOf(t) EXCEPT !.id = recordIndex + 1]
  <2>1. event.type = EventOf(t).type /\ event.addr = EventOf(t).addr
    BY <1>1 DEF TypeOK, CallsOK
  <2>2. EventOf(t)' = event /\ \A u \in Threads \ {t} : EventOf(u)' = EventOf(u)
    BY <1>1, <1>3, GoesOne, ControllerApart DEF Passes
  <2>3. SameHalCalls /\ missed' = missed
    BY <1>3, <2>1, <2>2 DEF SameHalCalls, Passes
  <2> QED BY <1>1, <1>2, <2>3, QuietStep DEF Kept
<1>4. CASE TurnsBack(t)
  <2>1. EventOf(t)'.type = "NONE" /\ \A u \in Threads \ {t} : EventOf(u)' = EventOf(u)
    BY <1>1, <1>4, EventShape, ControllerApart DEF TurnsBack, TypeOK, CallsOK, EventOf
  <2>2. MallocHoldsItsBlock'
    BY <1>1, <1>2, <2>1 DEF MallocHoldsItsBlock
  <2>3. missed' = missed \cup {EventOf(t).addr}
    BY <1>4 DEF TurnsBack
  <2>4. \A a \in Addrs \ missed' :
           /\ Pending("MALLOC", a)' <=> Pending("MALLOC", a)
           /\ Pending("FREE", a)' <=> Pending("FREE", a)
    BY <2>1, <2>3 DEF Pending
  <2>5. \A a : Listed(a)' <=> Listed(a)
    BY <1>2 DEF Listed
  <2>6. ListFollowsHeap'
    BY <1>1, <1>2, <2>3, <2>4, <2>5 DEF ListFollowsHeap
  <2> QED BY <2>2, <2>6 DEF Kept
<1> QED BY <1>3, <1>4 DEF ReportHalMalloc, ReportHalFree

\* A mark is no call on driver memory.
LEMMA LeakReportMark ==
    ASSUME LeakInv, NEW t \in Threads, NEW d, ReportMark(t, d)
    PROVE  Kept'
<1>1. TypeOK /\ MallocHoldsItsBlock /\ ListFollowsHeap /\ t \in Actors
  BY ControllerApart DEF LeakInv
<1>2. EventOf(t).type = "NONE" /\ UNCHANGED <<setting, heap, table, missed>>
  BY EventShape DEF ReportMark, CanCall, EventOf
<1>3. EventOf(t)'.type = "MARK"
  BY <1>1, GoesOne, EventShape DEF ReportMark
<1>4. \A u \in Threads \ {t} : EventOf(u)' = EventOf(u)
  BY <1>1, GoesOne, ControllerApart DEF ReportMark
<1>5. SameHalCalls
  BY <1>2, <1>3, <1>4 DEF SameHalCalls
<1> QED BY <1>1, <1>2, <1>5, QuietStep DEF Kept

\* The list is brought up to date when RecordHandler returns.
LEMMA LeakLeave ==
    ASSUME LeakInv, NEW t \in Threads, Leave(t)
    PROVE  Kept'
<1> DEFINE e == EventOf(t)
<1>1. TypeOK /\ MallocHoldsItsBlock /\ ListFollowsHeap /\ t \in Actors
  BY ControllerApart DEF LeakInv
<1>2. EventOf(t)'.type = "NONE" /\ \A u \in Threads \ {t} : EventOf(u)' = EventOf(u)
  BY <1>1, EventShape, ControllerApart DEF Leave, TypeOK, CallsOK, EventOf
<1>3. RecordHandler(e) /\ missed' = MissedAfter(e) /\ UNCHANGED <<setting, heap>>
  BY DEF Leave
<1>4. /\ e.type \in {"MALLOC", "FREE", "MARK", "START", "STOP", "FLUSH", "NONE"}
      /\ e.type \in {"MALLOC", "FREE"} => e.addr \in Addrs
  BY <1>1 DEF TypeOK, CallsOK
<1>5. MallocHoldsItsBlock'
  BY <1>1, <1>2, <1>3 DEF MallocHoldsItsBlock
<1>6. \A a, type : Pending(type, a)' /\ type # "NONE" => Pending(type, a)
  BY <1>2 DEF Pending
<1>7. \A a, type : type \in {"MALLOC", "FREE"} /\ ~(e.type = type /\ e.addr = a) =>
                       (Pending(type, a)' <=> Pending(type, a))
  BY <1>2 DEF Pending
<1>8. SUFFICES ASSUME IsHalAnalysisEnable(setting.config), NEW a \in Addrs \ missed'
               PROVE  /\ (\E b \in heap : b.addr = a) /\ ~Pending("MALLOC", a)' => Listed(a)'
                      /\ Listed(a)' /\ (\A b \in heap : b.addr # a) => Pending("FREE", a)'
  BY <1>3, <1>5 DEF Kept, ListFollowsHeap
<1>9. \A x : (Listed(x) <=> x \in Leaks(table)) /\ (Listed(x)' <=> x \in Leaks(table'))
  BY <1>3, <1>8 DEF Listed, LeakAnalyze
<1>10. a \notin missed => /\ (\E b \in heap : b.addr = a) /\ ~Pending("MALLOC", a) => Listed(a)
                          /\ Listed(a) /\ (\A b \in heap : b.addr # a) => Pending("FREE", a)
  BY <1>1, <1>8 DEF ListFollowsHeap
<1>11. CASE e.type = "MALLOC"
  <2>1. Leaks(table') = Leaks(table) \cup {e.addr}
    BY <1>1, <1>3, <1>4, <1>8, <1>11, HandledTable
  <2>2. CASE a = e.addr
    <3>1. \E b \in heap : b.addr = a
      BY <1>1, <1>11, <2>2 DEF MallocHoldsItsBlock
    <3> QED BY <1>9, <2>1, <2>2, <3>1
  <2>3. CASE a # e.addr
    <3>1. a \notin missed
      BY <1>3, <1>11, <2>3 DEF MissedAfter
    <3> QED BY <1>7, <1>9, <1>10, <2>1, <2>3, <3>1
  <2> QED BY <2>2, <2>3
<1>12. CASE e.type = "FREE"
  <2>1. Leaks(table') = Leaks(table) \ {e.addr}
    BY <1>1, <1>3, <1>4, <1>8, <1>12, HandledTable
  <2>2. a \notin missed
    BY <1>3, <1>12 DEF MissedAfter
  <2>3. CASE a = e.addr
    <3>1. ~((\E b \in heap : b.addr = a) /\ ~Pending("MALLOC", a))
      BY <1>3, <1>8, <1>12, <2>3 DEF MissedAfter
    <3>2. Pending("MALLOC", a)' <=> Pending("MALLOC", a)
      BY <1>7, <1>12
    <3> QED BY <1>9, <2>1, <2>3, <3>1, <3>2
  <2>4. CASE a # e.addr
    BY <1>7, <1>9, <1>10, <2>1, <2>2, <2>4
  <2> QED BY <2>3, <2>4
<1>13. CASE e.type \notin {"MALLOC", "FREE"}
  <2>1. table' = table
    BY <1>1, <1>3, <1>4, <1>13, HandledTable
  <2>2. missed' = missed
    BY <1>3, <1>13 DEF MissedAfter
  <2> QED BY <1>7, <1>8, <1>9, <1>10, <1>13, <2>1, <2>2
<1> QED BY <1>11, <1>12, <1>13

\* The rest of the program is not about driver memory.
LEMMA LeakOthers ==
    ASSUME LeakInv,
           \/ \E a \in Actors : Enter(a)
           \/ \E type \in {"START", "STOP"} : Switch(type)
           \/ LeaveSwitch \/ Exit \/ PoolCall
           \/ UNCHANGED vars
    PROVE  Kept'
<1>1. TypeOK /\ MallocHoldsItsBlock /\ ListFollowsHeap
  BY DEF LeakInv
<1>2. ASSUME \A t \in Threads : EventOf(t)' = EventOf(t), UNCHANGED <<setting, heap, table, missed>>
      PROVE  Kept'
  <2>1. SameHalCalls
    BY <1>2 DEF SameHalCalls
  <2> QED BY <1>1, <1>2, <2>1, QuietStep DEF Kept
<1>3. CASE \E a \in Actors : Enter(a)
  <2>1. \A t \in Threads : EventOf(t)' = EventOf(t)
    BY <1>1, <1>3, ControllerApart DEF Enter, EventOf, TypeOK, CallsOK
  <2>2. UNCHANGED <<setting, heap, table, missed>>
    BY <1>3 DEF Enter
  <2> QED BY <1>2, <2>1, <2>2
<1>4. CASE \E type \in {"START", "STOP"} : Switch(type)
  <2>1. \A t \in Threads : EventOf(t)' = EventOf(t)
    BY <1>1, <1>4, ControllerApart DEF Switch, Goes, EventOf, TypeOK, CallsOK
  <2>2. UNCHANGED <<setting, heap, table, missed>>
    BY <1>4 DEF Switch
  <2> QED BY <1>2, <2>1, <2>2
<1>5. CASE LeaveSwitch
  <2>1. \A t \in Threads : EventOf(t)' = EventOf(t)
    BY <1>1, <1>5, ControllerApart DEF LeaveSwitch, EventOf, TypeOK, CallsOK
  <2>2. EventOf(Controller).type \notin {"MALLOC", "FREE"} /\ Controller \in Actors
    BY <1>1, ControllerApart DEF TypeOK, CallsOK
  <2>3. table' = table
    <3>1. RecordHandler(EventOf(Controller))
      BY <1>5 DEF LeaveSwitch
    <3>2. EventOf(Controller).type \notin EventTypes
      BY <1>1, <2>2 DEF TypeOK, CallsOK, EventTypes
    <3> QED BY <3>1, <3>2 DEF RecordHandler
  <2>4. UNCHANGED <<setting, heap, missed>>
    BY <1>5 DEF LeaveSwitch
  <2> QED BY <1>2, <2>1, <2>3, <2>4
<1>6. CASE Exit \/ PoolCall \/ UNCHANGED vars
  BY <1>2, <1>6 DEF Exit, PoolCall, vars, EventOf
<1> QED BY <1>3, <1>4, <1>5, <1>6

\* LeakInv is inductive.
LEMMA LeakStep == LeakInv /\ [Next]_vars => LeakInv'
<1> SUFFICES ASSUME LeakInv, [Next]_vars PROVE LeakInv'
    OBVIOUS
<1>1. TypeOK'
  BY TypeStep DEF LeakInv
<1>2. Kept'
  <2>1. CASE \E t \in Threads, b \in setting.blocks : HalMemAlloc(t, b)
    BY <2>1, LeakHalMemAlloc
  <2>2. CASE \E t \in Threads, b \in heap : HalMemFree(t, b)
    BY <2>2, LeakHalMemFree
  <2>3. CASE \E t \in Threads : ReportHalMalloc(t) \/ ReportHalFree(t)
    BY <2>3, LeakReportHal
  <2>4. CASE \E t \in Threads, d \in setting.marks : ReportMark(t, d)
    BY <2>4, LeakReportMark
  <2>5. CASE \E t \in Threads : Leave(t)
    BY <2>5, LeakLeave
  <2>6. CASE \E c \in Clients :
                \/ DomainCreate(c)
                \/ \E h \in setting.heaps : HeapRegister(c, h)
                \/ \E x \in clients[c].heaps : HeapUnregister(c, x)
                \/ \E batch \in setting.batches : RegionsRegister(c, batch)
                \/ \E regions \in SUBSET clients[c].regions : RegionsUnregister(c, regions)
    <3>1. PoolCall
      BY <2>6, TypePools DEF LeakInv
    <3> QED BY <3>1, LeakOthers
  <2>7. CASE \/ \E a \in Actors : Enter(a)
             \/ \E type \in {"START", "STOP"} : Switch(type)
             \/ LeaveSwitch \/ Exit \/ UNCHANGED vars
    BY <2>7, LeakOthers
  <2> QED BY <2>1, <2>2, <2>3, <2>4, <2>5, <2>6, <2>7 DEF Next
<1> QED BY <1>1, <1>2 DEF LeakInv, Kept

\* Both halves of the property follow from it when no call on the address is under way.
LEMMA LeakInvListsHeld == LeakInv => HeldBlocksAreListed
BY DEF LeakInv, ListFollowsHeap, Listed, HeldBlocksAreListed

\* The list of leaks made at exit is the driver memory that is held (HeldBlocksAreListed), for
\* every configuration and whatever threads, pools and switches do, but for the addresses whose
\* last event was not reported or came too late.
THEOREM LeaksAreHeldBlocks == Spec => []HeldBlocksAreListed
<1>1. Spec => []LeakInv
  BY InitLeakInv, LeakStep, PTL DEF Spec
<1> QED BY <1>1, LeakInvListsHeld, PTL

------------------------------------------------------------------------------------
(***************************************************************************)
(* What the process writes: the rows of the files and those that wait.     *)
(***************************************************************************)
\* The maps from some of K to V.
Maps(K, V) == UNION {[D -> V] : D \in SUBSET K}

LEMMA MapShape ==
    ASSUME NEW K, NEW V, NEW f
    PROVE  f \in Maps(K, V) <=>
              /\ DOMAIN f \subseteq K
              /\ f = [k \in DOMAIN f |-> f[k]]
              /\ \A k \in DOMAIN f : f[k] \in V
<1>1. ASSUME f \in Maps(K, V)
      PROVE  /\ DOMAIN f \subseteq K
             /\ f = [k \in DOMAIN f |-> f[k]]
             /\ \A k \in DOMAIN f : f[k] \in V
  <2>1. PICK D \in SUBSET K : f \in [D -> V]
    BY <1>1 DEF Maps
  <2> QED BY <2>1
<1>2. ASSUME DOMAIN f \subseteq K, f = [k \in DOMAIN f |-> f[k]],
             \A k \in DOMAIN f : f[k] \in V
      PROVE  f \in Maps(K, V)
  <2>1. f \in [DOMAIN f -> V]
    BY <1>2
  <2> QED BY <1>2, <2>1 DEF Maps
<1> QED BY <1>1, <1>2

FileRow == [id : Nat, device : Devices \cup {NA}, session : Nat]

\* A file that could not be made has none.
Handlers == {h \in [open : BOOLEAN, rows : Seq(FileRow)] : h.open \/ h.rows = << >>}

Dumps == [files : Maps(Devices, Handlers), shared : Seq(FileRow)]

Sinks == [states : StatesMap, count : Nat, dump : Dumps, given : SUBSET FileRow]

\* The rows of no device, up to the session `all`.
GivenOK(given, all) == \A g \in given : g.device = NA /\ g.session \in 0 .. all

\* Those that wait are of the session that runs or of none; of the session that runs all wait.
SharedOK(shared, given, now) ==
    /\ \A i \in 1 .. Len(shared) : shared[i] \in given /\ shared[i].session \in {0, now}
    /\ \A i, j \in 1 .. Len(shared) : shared[i] = shared[j] => i = j
    /\ now # 0 => \A g \in given : g.session = now => \E i \in 1 .. Len(shared) : shared[i] = g

\* The row g is in the list once.
Once(rows, g) == \E i \in 1 .. Len(rows) : \A j \in 1 .. Len(rows) : rows[j] = g <=> j = i

\* The file of d has no row yet of the session that runs but those of devices, and is whole
\* for the sessions that have ended.
FileOK(rows, d, given, now, all) ==
    /\ \A i \in 1 .. Len(rows) :
          rows[i].session \in 0 .. all /\ (now # 0 /\ rows[i].session = now => rows[i].device # NA)
    /\ \A g \in given :
          /\ g.session \in 1 .. all /\ g.session # now
          /\ \E i \in 1 .. Len(rows) : rows[i].session = g.session /\ rows[i].device = d
          => Once(rows, g)

FilesHold(s, now, all) ==
    /\ GivenOK(s.given, all)
    /\ SharedOK(s.dump.shared, s.given, now)
    /\ \A d \in DOMAIN s.dump.files : FileOK(s.dump.files[d].rows, d, s.given, now, all)

LEMMA OnceAt ==
    ASSUME NEW rows, NEW g, NEW k \in 1 .. Len(rows), \A j \in 1 .. Len(rows) : rows[j] = g <=> j = k
    PROVE  Once(rows, g)
BY Zenon DEF Once

\* A row of a device goes to the end of a file.
LEMMA AppendedFile ==
    ASSUME NEW rows \in Seq(FileRow), NEW d, NEW given, NEW now \in Nat, NEW all \in Nat,
           FileOK(rows, d, given, now, all), now \in 0 .. all,
           NEW row \in FileRow, row.session = now, row.device # NA
    PROVE  FileOK(Append(rows, row), d, given, now, all)
<1> DEFINE n == Len(rows)
           new == Append(rows, row)
<1>1. /\ n \in Nat /\ Len(new) = n + 1 /\ new[n + 1] = row
      /\ \A i \in 1 .. n : new[i] = rows[i]
  OBVIOUS
<1>2. \A i \in 1 .. n + 1 : i = n + 1 \/ i \in 1 .. n
  BY <1>1
<1> HIDE DEF n, new
<1>3. \A i \in 1 .. Len(new) :
         new[i].session \in 0 .. all /\ (now # 0 /\ new[i].session = now => new[i].device # NA)
  BY <1>1, <1>2 DEF FileOK, n
<1>4. ASSUME NEW g \in given, g.session \in 1 .. all, g.session # now,
             NEW i \in 1 .. Len(new), new[i].session = g.session, new[i].device = d
      PROVE  Once(new, g)
  <2>1. i \in 1 .. n
    BY <1>1, <1>2, <1>4
  <2>2. Once(rows, g)
    BY <1>1, <1>4, <2>1 DEF FileOK, n
  <2>3. PICK k \in 1 .. n : \A j \in 1 .. n : rows[j] = g <=> j = k
    BY <2>2 DEF Once, n
  <2>4. row # g /\ k \in 1 .. n + 1 /\ k # n + 1
    BY <1>1, <1>4, <2>3
  <2>5. \A j \in 1 .. n + 1 : new[j] = g <=> j = k
    BY <1>1, <1>2, <2>3, <2>4
  <2>6. k \in 1 .. Len(new) /\ \A j \in 1 .. Len(new) : new[j] = g <=> j = k
    BY <1>1, <2>4, <2>5
  <2> QED BY <2>6, OnceAt
<1> QED BY <1>3, <1>4 DEF FileOK, new

\* The flush makes the file whole for the session that ends with it.
LEMMA FlushedFile ==
    ASSUME NEW rows \in Seq(FileRow), NEW shared \in Seq(FileRow), NEW d, NEW given,
           NEW now \in Nat, NEW all \in Nat, now \in 0 .. all,
           FileOK(rows, d, given, now, all), SharedOK(shared, given, now), GivenOK(given, all)
    PROVE  FileOK(rows \o shared, d, given, 0, all)
<1> DEFINE n == Len(rows)
           m == Len(shared)
           new == rows \o shared
<1>1. /\ n \in Nat /\ m \in Nat /\ Len(new) = n + m
      /\ \A i \in 1 .. n : new[i] = rows[i]
      /\ \A i \in 1 .. m : new[n + i] = shared[i]
  OBVIOUS
<1>2. \A i \in 1 .. n + m : i \in 1 .. n \/ (i - n \in 1 .. m /\ i = n + (i - n))
  BY <1>1
<1>3. \A i \in 1 .. m : shared[i] \in given /\ shared[i].session \in {0, now} /\ shared[i].device = NA
  BY DEF SharedOK, GivenOK
<1>4. \A i \in 1 .. n : rows[i].session \in 0 .. all /\ (now # 0 /\ rows[i].session = now => rows[i].device # NA)
  BY DEF FileOK
<1> HIDE DEF n, m, new
<1>5. \A i \in 1 .. n + m : new[i].session \in 0 .. all
  <2> SUFFICES ASSUME NEW i \in 1 .. n + m PROVE new[i].session \in 0 .. all
    OBVIOUS
  <2>1. CASE i \in 1 .. n
    BY <1>1, <1>4, <2>1
  <2>2. CASE i - n \in 1 .. m /\ i = n + (i - n)
    <3>1. new[i] = shared[i - n]
      BY <1>1, <2>2
    <3>2. shared[i - n].session \in {0, now}
      BY <1>3, <2>2
    <3> QED BY <3>1, <3>2
  <2> QED BY <1>2, <2>1, <2>2
<1>6. ASSUME NEW g \in given, g.session \in 1 .. all,
             NEW i \in 1 .. n + m, new[i].session = g.session, new[i].device = d
      PROVE  Once(new, g)
  <2>0. g.device = NA
    BY DEF GivenOK
  <2>1. CASE g.session = now
    <3>1. \A j \in 1 .. n : new[j] # g
      <4>1. now # 0
        BY <1>6, <2>1
      <4> QED BY <1>1, <1>4, <2>0, <2>1, <4>1
    <3>2. PICK k \in 1 .. m : shared[k] = g
      BY <1>6, <2>1 DEF SharedOK, m
    <3>3. \A j \in 1 .. m : shared[j] = g <=> j = k
      BY <3>2 DEF SharedOK, m
    <3>4. \A j \in 1 .. n + m : new[j] = g <=> j = n + k
      <4> SUFFICES ASSUME NEW j \in 1 .. n + m PROVE new[j] = g <=> j = n + k
        OBVIOUS
      <4>1. CASE j \in 1 .. n
        BY <1>1, <3>1, <4>1
      <4>2. CASE j - n \in 1 .. m /\ j = n + (j - n)
        <5>1. new[j] = shared[j - n]
          BY <1>1, <4>2
        <5>2. shared[j - n] = g <=> j - n = k
          BY <3>3, <4>2
        <5> QED BY <1>1, <5>1, <5>2
      <4> QED BY <1>2, <4>1, <4>2
    <3>5. n + k \in 1 .. n + m
      BY <1>1
    <3>6. n + k \in 1 .. Len(new) /\ \A j \in 1 .. Len(new) : new[j] = g <=> j = n + k
      BY <1>1, <3>4, <3>5
    <3> QED BY <3>6, OnceAt
  <2>2. CASE g.session # now
    <3>1. \A j \in 1 .. m : shared[j] # g /\ shared[j].session # g.session
      BY <1>3, <1>6, <2>2
    <3>2. i \in 1 .. n
      <4>1. CASE i - n \in 1 .. m /\ i = n + (i - n)
        <5>1. new[i] = shared[i - n]
          BY <1>1, <4>1
        <5> QED BY <1>6, <3>1, <4>1, <5>1
      <4> QED BY <1>2, <4>1
    <3>3. Once(rows, g)
      BY <1>1, <1>6, <2>2, <3>2 DEF FileOK, n
    <3>4. PICK k \in 1 .. n : \A j \in 1 .. n : rows[j] = g <=> j = k
      BY <3>3 DEF Once, n
    <3>5. \A j \in 1 .. n + m : new[j] = g <=> j = k
      <4> SUFFICES ASSUME NEW j \in 1 .. n + m PROVE new[j] = g <=> j = k
        OBVIOUS
      <4>1. CASE j \in 1 .. n
        BY <1>1, <3>4, <4>1
      <4>2. CASE j - n \in 1 .. m /\ j = n + (j - n)
        <5>1. new[j] = shared[j - n] /\ j # k
          BY <1>1, <4>2
        <5> QED BY <3>1, <4>2, <5>1
      <4> QED BY <1>2, <4>1, <4>2
    <3>6. k \in 1 .. n + m
      BY <1>1
    <3>7. k \in 1 .. Len(new) /\ \A j \in 1 .. Len(new) : new[j] = g <=> j = k
      BY <1>1, <3>5, <3>6
    <3> QED BY <3>7, OnceAt
  <2> QED BY <2>1, <2>2
<1> QED BY <1>1, <1>5, <1>6 DEF FileOK, new

\* A session begins: no row is of it yet.
LEMMA BegunFile ==
    ASSUME NEW rows, NEW d, NEW given, NEW all \in Nat, FileOK(rows, d, given, 0, all), GivenOK(given, all)
    PROVE  FileOK(rows, d, given, all + 1, all + 1)
<1>1. \A i \in 1 .. Len(rows) : rows[i].session \in 0 .. all + 1 /\ rows[i].session # all + 1
  BY DEF FileOK
<1>2. \A g \in given : g.session \in 1 .. all + 1 /\ g.session # all + 1 => g.session \in 1 .. all /\ g.session # 0
  OBVIOUS
<1> QED BY <1>1, <1>2 DEF FileOK

\* WriteToFile: a row of no device waits, another one is written to the file of its device,
\* which is made for it if need be.
LEMMA WrittenDump ==
    ASSUME NEW dump \in Dumps, NEW writable, NEW row \in FileRow
    PROVE  LET new == WriteToFile(dump, row, writable)
           IN  /\ new \in Dumps
               /\ row.device = NA => new = [dump EXCEPT !.shared = Append(@, row)]
               /\ row.device # NA =>
                     /\ new.shared = dump.shared
                     /\ DOMAIN new.files = DOMAIN dump.files \cup {row.device}
                     /\ \A d \in DOMAIN dump.files \ {row.device} : new.files[d] = dump.files[d]
                     /\ LET rows == IF row.device \in DOMAIN dump.files
                                    THEN dump.files[row.device].rows ELSE << >>
                        IN  new.files[row.device].rows \in {rows, Append(rows, row)}
<1> DEFINE new == WriteToFile(dump, row, writable)
<1>1. /\ DOMAIN dump.files \subseteq Devices
      /\ dump.files = [d \in DOMAIN dump.files |-> dump.files[d]]
      /\ \A d \in DOMAIN dump.files : dump.files[d] \in Handlers
      /\ dump.shared \in Seq(FileRow) /\ dump = [files |-> dump.files, shared |-> dump.shared]
  BY MapShape DEF Dumps
<1>2. CASE row.device = NA
  <2>1. new = [dump EXCEPT !.shared = Append(@, row)]
    BY <1>2, OutputAssumption DEF WriteToFile
  <2>2. Append(dump.shared, row) \in Seq(FileRow)
    BY <1>1
  <2>3. new = [files |-> dump.files, shared |-> Append(dump.shared, row)]
    BY <1>1, <2>1
  <2>4. new \in Dumps
    BY <2>2, <2>3 DEF Dumps
  <2> QED BY <1>2, <2>1, <2>4
<1>3. CASE row.device # NA
  <2> DEFINE d == row.device
             made == WithHandler(dump, d, writable)
             rows == IF d \in DOMAIN dump.files THEN dump.files[d].rows ELSE << >>
  <2>1. d \in Devices
    BY <1>3 DEF FileRow
  <2>2. /\ made = [files |-> made.files, shared |-> dump.shared]
        /\ made.files = [f \in DOMAIN dump.files \cup {d} |-> made.files[f]]
        /\ \A f \in DOMAIN dump.files : made.files[f] = dump.files[f]
        /\ made.files[d] \in Handlers /\ made.files[d].rows = rows
    <3>1. CASE d \in DOMAIN dump.files
      <4>1. made = dump
        BY <3>1 DEF WithHandler
      <4>2. DOMAIN dump.files \cup {d} = DOMAIN dump.files
        BY <3>1
      <4> HIDE DEF made
      <4> QED BY <1>1, <3>1, <4>1, <4>2
    <3>2. CASE d \notin DOMAIN dump.files
      <4> DEFINE handler == MakeDataHandler(d, writable)
      <4>1. made = [dump EXCEPT !.files = [f \in DOMAIN dump.files \cup {d} |->
                                              IF f = d THEN handler ELSE dump.files[f]]]
        BY <3>2 DEF WithHandler
      <4>2. handler \in Handlers /\ handler.rows = << >>
        BY DEF MakeDataHandler, CreateFile, Handlers
      <4> HIDE DEF made, handler
      <4>3. made = [files |-> [f \in DOMAIN dump.files \cup {d} |->
                                  IF f = d THEN handler ELSE dump.files[f]],
                    shared |-> dump.shared]
        BY <1>1, <4>1
      <4> QED BY <3>2, <4>2, <4>3
    <3> QED BY <3>1, <3>2
  <2>3. new = [made EXCEPT !.files[d] = Write(@, row)]
    BY <1>3, OutputAssumption DEF WriteToFile
  <2> DEFINE handler == Write(made.files[d], row)
  <2>4. handler \in Handlers /\ handler.rows \in {rows, Append(rows, row)}
    <3>1. rows \in Seq(FileRow) /\ Append(rows, row) \in Seq(FileRow)
      BY <1>1 DEF Handlers
    <3> HIDE DEF made, rows
    <3>2. CASE made.files[d].open
      <4>1. handler = [made.files[d] EXCEPT !.rows = Append(@, row)]
        BY <3>2 DEF Write
      <4>2. handler = [open |-> made.files[d].open, rows |-> Append(rows, row)]
        BY <2>2, <4>1 DEF Handlers
      <4> QED BY <2>2, <3>1, <3>2, <4>2 DEF Handlers
    <3>3. CASE ~made.files[d].open
      BY <2>2, <3>3 DEF Write
    <3> QED BY <3>2, <3>3
  <2> HIDE DEF made, handler
  <2>5. new = [files |-> [f \in DOMAIN dump.files \cup {d} |->
                             IF f = d THEN handler ELSE dump.files[f]],
               shared |-> dump.shared]
    <3>1. new.files = [made.files EXCEPT ![d] = handler] /\ new.shared = dump.shared
      BY <2>2, <2>3 DEF handler
    <3>2. new = [files |-> new.files, shared |-> new.shared]
      BY <2>2, <2>3
    <3>3. [made.files EXCEPT ![d] = handler] =
             [f \in DOMAIN dump.files \cup {d} |-> IF f = d THEN handler ELSE dump.files[f]]
      BY <2>2
    <3> HIDE DEF new
    <3> QED BY <3>1, <3>2, <3>3
  <2> HIDE DEF new
  <2>6. new \in Dumps
    <3>1. new.files \in Maps(Devices, Handlers)
      <4>1. DOMAIN new.files \subseteq Devices /\ \A f \in DOMAIN new.files : new.files[f] \in Handlers
        BY <1>1, <2>1, <2>4, <2>5
      <4>2. new.files = [f \in DOMAIN new.files |-> new.files[f]]
        BY <2>5
      <4> QED BY <4>1, <4>2, MapShape
    <3> QED BY <1>1, <2>5, <3>1 DEF Dumps
  <2> HIDE DEF rows
  <2> QED BY <1>3, <2>4, <2>5, <2>6 DEF new, rows
<1> QED BY <1>2, <1>3

\* A row that is dumped.
RowOf(id, device) == [id |-> id, device |-> device, session |-> session]

LEMMA DumpedRow ==
    ASSUME NEW s \in Sinks, NEW id \in Nat, NEW device \in Devices \cup {NA}, session \in Nat
    PROVE  LET r == DumpRow(s, id, device)
           IN  /\ r \in Sinks
               /\ r.states = s.states /\ r.count = s.count
               /\ r.dump = WriteToFile(s.dump, RowOf(id, device), setting.writable)
               /\ r.given = IF device = NA THEN s.given \cup {RowOf(id, device)} ELSE s.given
<1> DEFINE r == DumpRow(s, id, device)
           dump == WriteToFile(s.dump, RowOf(id, device), setting.writable)
           given == IF device = NA THEN s.given \cup {RowOf(id, device)} ELSE s.given
<1>1. RowOf(id, device) \in FileRow
  BY DEF RowOf, FileRow
<1>2. dump \in Dumps
  <2>1. s.dump \in Dumps
    BY DEF Sinks
  <2> QED BY <1>1, <2>1, WrittenDump
<1>3. given \in SUBSET FileRow
  BY <1>1 DEF Sinks
<1>4. r = [s EXCEPT !.dump = dump, !.given = given]
  BY DEF DumpRow, RowOf
<1> HIDE DEF dump, given, r
<1>5. r = [states |-> s.states, count |-> s.count, dump |-> dump, given |-> given]
  BY <1>4 DEF Sinks
<1>6. r \in Sinks
  BY <1>2, <1>3, <1>5 DEF Sinks
<1> QED BY <1>5, <1>6 DEF r, dump, given

\* It keeps what holds of the files, if a row of no device is new.
LEMMA DumpedRowHolds ==
    ASSUME NEW s \in Sinks, NEW id \in Nat, NEW device \in Devices \cup {NA},
           sessions \in Nat, session \in 0 .. sessions, FilesHold(s, session, sessions),
           device = NA => \A g \in s.given : g.id # id
    PROVE  FilesHold(DumpRow(s, id, device), session, sessions)
<1> DEFINE r == DumpRow(s, id, device)
           row == RowOf(id, device)
<1>0. session \in Nat
  OBVIOUS
<1>1. /\ r \in Sinks
      /\ r.dump = WriteToFile(s.dump, row, setting.writable)
      /\ r.given = IF device = NA THEN s.given \cup {row} ELSE s.given
  BY <1>0, DumpedRow
<1>2. row \in FileRow /\ row.session = session /\ row.device = device /\ row.id = id
  BY DEF RowOf, FileRow
<1>3. s.dump \in Dumps /\ s.dump.shared \in Seq(FileRow) /\ session \in Nat
  BY DEF Sinks, Dumps
<1>4. \A d \in DOMAIN s.dump.files : s.dump.files[d].rows \in Seq(FileRow)
  BY <1>3, MapShape DEF Dumps, Handlers
<1>5. /\ GivenOK(s.given, sessions)
      /\ SharedOK(s.dump.shared, s.given, session)
      /\ \A d \in DOMAIN s.dump.files : FileOK(s.dump.files[d].rows, d, s.given, session, sessions)
  BY DEF FilesHold
<1> HIDE DEF r, row
<1>6. CASE device = NA
  <2>0. WriteToFile(s.dump, row, setting.writable) = [s.dump EXCEPT !.shared = Append(@, row)]
    BY <1>2, <1>3, <1>6, WrittenDump
  <2>1. r.dump = [s.dump EXCEPT !.shared = Append(@, row)] /\ r.given = s.given \cup {row}
    BY <1>1, <1>6, <2>0
  <2>2. r.dump.files = s.dump.files /\ r.dump.shared = Append(s.dump.shared, row)
    BY <1>3, <2>1 DEF Dumps
  <2>3. GivenOK(r.given, sessions)
    BY <1>2, <1>5, <1>6, <2>1 DEF GivenOK
  <2>4. SharedOK(r.dump.shared, r.given, session)
    <3> DEFINE n == Len(s.dump.shared)
               new == r.dump.shared
    <3>1. /\ n \in Nat /\ Len(new) = n + 1 /\ new[n + 1] = row
          /\ \A i \in 1 .. n : new[i] = s.dump.shared[i] /\ new[i] \in s.given
          /\ \A i \in 1 .. n + 1 : i = n + 1 \/ i \in 1 .. n
      BY <1>3, <1>5, <2>2 DEF SharedOK
    <3>2. \A i \in 1 .. n : new[i] # row
      BY <1>2, <1>6, <3>1
    <3>3. \A i \in 1 .. n + 1 : new[i] \in r.given /\ new[i].session \in {0, session}
      BY <1>2, <1>5, <2>1, <3>1 DEF SharedOK
    <3>4. \A i, j \in 1 .. n + 1 : new[i] = new[j] => i = j
      BY <1>5, <3>1, <3>2 DEF SharedOK
    <3>5. session # 0 => \A g \in r.given : g.session = session => \E i \in 1 .. n + 1 : new[i] = g
      <4> SUFFICES ASSUME session # 0, NEW g \in r.given, g.session = session
                   PROVE  \E i \in 1 .. n + 1 : new[i] = g
        OBVIOUS
      <4>1. CASE g = row
        BY <3>1, <4>1
      <4>2. CASE g \in s.given
        <5>1. PICK i \in 1 .. n : s.dump.shared[i] = g
          BY <1>5, <4>2 DEF SharedOK
        <5>2. i \in 1 .. n + 1
          BY <3>1
        <5> QED BY <3>1, <5>1, <5>2
      <4> QED BY <2>1, <4>1, <4>2
    <3> HIDE DEF n, new
    <3> QED BY <3>1, <3>3, <3>4, <3>5 DEF SharedOK, new
  <2>5. \A d \in DOMAIN r.dump.files : FileOK(r.dump.files[d].rows, d, r.given, session, sessions)
    BY <1>2, <1>5, <2>1, <2>2 DEF FileOK
  <2> QED BY <2>3, <2>4, <2>5 DEF FilesHold, r
<1>7. CASE device # NA
  <2> DEFINE rows == IF device \in DOMAIN s.dump.files THEN s.dump.files[device].rows ELSE << >>
  <2>1. /\ r.given = s.given
        /\ r.dump.shared = s.dump.shared
        /\ DOMAIN r.dump.files = DOMAIN s.dump.files \cup {device}
        /\ \A d \in DOMAIN s.dump.files \ {device} : r.dump.files[d] = s.dump.files[d]
        /\ r.dump.files[device].rows \in {rows, Append(rows, row)}
    <3> DEFINE new == WriteToFile(s.dump, row, setting.writable)
    <3>1. /\ new.shared = s.dump.shared
          /\ DOMAIN new.files = DOMAIN s.dump.files \cup {row.device}
          /\ \A d \in DOMAIN s.dump.files \ {row.device} : new.files[d] = s.dump.files[d]
          /\ LET old == IF row.device \in DOMAIN s.dump.files
                        THEN s.dump.files[row.device].rows ELSE << >>
             IN  new.files[row.device].rows \in {old, Append(old, row)}
      <4>1. row.device # NA
        BY <1>2, <1>7
      <4> QED BY <1>2, <1>3, <4>1, WrittenDump
    <3> HIDE DEF new
    <3>2. r.dump = new /\ r.given = s.given
      BY <1>1, <1>7 DEF new
    <3> QED BY <1>2, <3>1, <3>2
  <2>2. rows \in Seq(FileRow) /\ FileOK(rows, device, s.given, session, sessions)
    <3>1. CASE device \in DOMAIN s.dump.files
      BY <1>4, <1>5, <3>1
    <3>2. CASE device \notin DOMAIN s.dump.files
      BY <3>2 DEF FileOK
    <3> QED BY <3>1, <3>2
  <2> HIDE DEF rows
  <2>3. FileOK(Append(rows, row), device, s.given, session, sessions)
    BY <1>2, <1>3, <1>7, <2>2, AppendedFile
  <2>4. \A d \in DOMAIN r.dump.files : FileOK(r.dump.files[d].rows, d, r.given, session, sessions)
    BY <1>5, <2>1, <2>2, <2>3
  <2> QED BY <1>5, <2>1, <2>4 DEF FilesHold, r
<1> QED BY <1>6, <1>7

\* DumpMemoryState: one event after the other.
Dumping == [x \in Sinks \X Row |-> DumpRow(x[1], x[2].event.id, x[2].event.device)]

LEMMA DumpStateSteps ==
    ASSUME NEW s \in Sinks, NEW k, RowsAt(s.states, k) \in Seq(Row), session \in Nat
    PROVE  \E h : RunsIn(Sinks, h, Dumping, s, RowsAt(s.states, k), DumpState(s, k))
<1> DEFINE rows == RowsAt(s.states, k)
           op(r, row) == DumpRow(r, row.event.id, row.event.device)
           Iterates(g) == g = [t \in SUBSET (1 .. Len(rows)) |->
                                  IF t = {} THEN s ELSE op(g[t \ {Largest(t)}], rows[Largest(t)])]
           iter == CHOOSE g : Iterates(g)
<1>1. \A r \in Sinks, row \in Row : op(r, row) \in Sinks
  BY DumpedRow DEF Row, MemoryEvent
<1>2. Dumping = [x \in Sinks \X Row |-> op(x[1], x[2])]
  BY DEF Dumping
<1>3. DumpState(s, k) = iter[1 .. Len(rows)]
  <2>1. DOMAIN rows = 1 .. Len(rows)
    OBVIOUS
  <2> QED BY <2>1 DEF DumpState, Seqs!FoldLeft, Seqs!MapThenFoldSet, Seqs!Max, Largest
<1>4. rows \in Seq(Row)
  OBVIOUS
<1> HIDE DEF op, rows
<1>5. Len(rows) \in Nat /\ \A i \in 1 .. Len(rows) : rows[i] \in Row
  BY <1>4
<1>6. Dumping \in [Sinks \X Row -> Sinks] /\ \A r \in Sinks, row \in Row : Dumping[<<r, row>>] = op(r, row)
  BY <1>1, <1>2
<1>7. PICK g : g \in [SUBSET (1 .. Len(rows)) -> Sinks] /\ Unfolds(g, Dumping, s, rows)
  <2>1. Dumping \in [Sinks \X Row -> Sinks]
    BY <1>6
  <2> QED BY <1>4, <2>1, FoldExists
<1>8. ASSUME NEW t \in SUBSET (1 .. Len(rows)), t # {}
      PROVE  rows[Largest(t)] \in Row /\ t \ {Largest(t)} \in SUBSET (1 .. Len(rows))
  <2>1. Largest(t) \in t
    BY <1>5, <1>8, LargestOf
  <2> QED BY <1>5, <2>1
<1>9. Iterates(g)
  <2>1. \A t \in SUBSET (1 .. Len(rows)) :
           g[t] = IF t = {} THEN s ELSE op(g[t \ {Largest(t)}], rows[Largest(t)])
    BY <1>6, <1>7, <1>8 DEF Unfolds
  <2> QED BY <1>7, <2>1
<1>10. Iterates(iter)
  <2> HIDE DEF Iterates
  <2> QED BY <1>9
<1> HIDE DEF iter
<1>11. UnfoldsIn(Sinks, iter, Dumping, s, rows)
  BY <1>6, <1>8, <1>10 DEF UnfoldsIn
<1> HIDE DEF Iterates
<1>12. \E h : RunsIn(Sinks, h, Dumping, s, rows, iter[1 .. Len(rows)])
  BY <1>4, <1>6, <1>11, FoldSteps
<1> QED BY <1>3, <1>12 DEF rows

\* Events of known devices are written or wait for nothing: the rows of no device stay.
LEMMA DumpStateHolds ==
    ASSUME NEW s \in Sinks, NEW k, RowsAt(s.states, k) \in Seq(Row),
           sessions \in Nat, session \in 0 .. sessions, FilesHold(s, session, sessions),
           \A i \in 1 .. Len(RowsAt(s.states, k)) : RowsAt(s.states, k)[i].event.device # NA
    PROVE  LET r == DumpState(s, k)
           IN  /\ r \in Sinks /\ FilesHold(r, session, sessions)
               /\ r.states = s.states /\ r.count = s.count /\ r.given = s.given
<1> DEFINE rows == RowsAt(s.states, k)
           n == Len(rows)
           Same(r) == /\ r \in Sinks /\ FilesHold(r, session, sessions)
                      /\ r.states = s.states /\ r.count = s.count /\ r.given = s.given
<1>1. n \in Nat /\ session \in Nat /\ \A i \in 1 .. n : rows[i] \in Row
  OBVIOUS
<1>2. PICK h : RunsIn(Sinks, h, Dumping, s, rows, DumpState(s, k))
  BY <1>1, DumpStateSteps
<1> HIDE DEF rows, n
<1>3. /\ h[0] = s /\ h[n] = DumpState(s, k)
      /\ \A i \in 1 .. n : h[i] = Dumping[<<h[i - 1], rows[i]>>]
  BY <1>2 DEF RunsIn, n
<1> DEFINE Q == {i \in 0 .. n : Same(h[i])}
<1>4. 0 \in Q
  BY <1>1, <1>3
<1>5. ASSUME NEW i \in 1 .. n, i - 1 \in Q PROVE i \in Q
  <2> DEFINE r == h[i - 1]
             e == rows[i].event
  <2>1. Same(r)
    BY <1>5
  <2>2. rows[i] \in Row /\ e.id \in Nat /\ e.device \in Devices /\ e.device # NA
    BY <1>1, ManagerAssumption DEF Row, MemoryEvent, rows, n
  <2>3. h[i] = DumpRow(r, e.id, e.device)
    BY <1>3, <2>1, <2>2 DEF Dumping
  <2> HIDE DEF r, e
  <2>4. FilesHold(DumpRow(r, e.id, e.device), session, sessions)
    BY <2>1, <2>2, DumpedRowHolds
  <2>5. Same(DumpRow(r, e.id, e.device))
    <3> DEFINE next == DumpRow(r, e.id, e.device)
    <3>1. /\ next \in Sinks /\ next.states = r.states /\ next.count = r.count
          /\ next.given = IF e.device = NA THEN r.given \cup {RowOf(e.id, e.device)} ELSE r.given
      <4>1. r \in Sinks /\ e.id \in Nat /\ e.device \in Devices \cup {NA} /\ session \in Nat
        BY <1>1, <2>1, <2>2
      <4> HIDE DEF Same, Q
      <4> QED BY <4>1, DumpedRow
    <3> HIDE DEF next
    <3> QED BY <2>1, <2>2, <2>4, <3>1 DEF next
  <2> HIDE DEF Same
  <2> QED BY <2>3, <2>5
<1> HIDE DEF Q
<1>6. n \in Q
  BY <1>1, <1>4, <1>5, InductionTo
<1> QED BY <1>3, <1>6 DEF Q

\* The devices of all events that are cached are known.
DevicesKnown(m) == \A k \in LiveKeys(m) : \A i \in 1 .. Len(m[k].events) : m[k].events[i].device # NA

LEMMA KnownRows ==
    ASSUME NEW m \in StatesMap, NEW k \in MemoryStateKey, DevicesKnown(m)
    PROVE  /\ RowsAt(m, k) \in Seq(Row)
           /\ \A i \in 1 .. Len(RowsAt(m, k)) : RowsAt(m, k)[i].event.device # NA
<1>1. RowsAt(m, k) \in Seq(Row)
  BY RowsOfKey
<1>2. CASE m[k] = NoState
  BY <1>1, <1>2, RowsOfKey
<1>3. CASE m[k] # NoState
  <2>1. /\ Len(RowsAt(m, k)) = Len(m[k].events)
        /\ \A i \in 1 .. Len(m[k].events) : RowsAt(m, k)[i].event = m[k].events[i]
    BY <1>3, RowsOfKey
  <2> QED BY <1>1, <1>3, <2>1 DEF DevicesKnown, LiveKeys
<1> QED BY <1>2, <1>3

\* What EventHandler needs of the sink and keeps.
SinkHolds(s) ==
    /\ s \in Sinks
    /\ IsFiniteSet(LiveKeys(s.states)) /\ DevicesKnown(s.states)
    /\ FilesHold(s, session, sessions)

\* A sink with another cache.
LEMMA OtherStates ==
    ASSUME NEW s \in Sinks, NEW m \in StatesMap
    PROVE  LET r == [s EXCEPT !.states = m]
           IN  /\ r \in Sinks /\ r.states = m /\ r.count = s.count /\ r.dump = s.dump /\ r.given = s.given
               /\ FilesHold(s, session, sessions) => FilesHold(r, session, sessions)
BY DEF Sinks, FilesHold

\* One key is cleaned up.
LEMMA CleanUpHolds ==
    ASSUME NEW s, NEW k \in MemoryStateKey, SinkHolds(s), sessions \in Nat, session \in 0 .. sessions
    PROVE  LET r == CleanUp(s, k)
           IN  SinkHolds(r) /\ r.given = s.given /\ r.count = s.count /\ r.states = Deleted(s.states, k)
<1> DEFINE d == DumpState(s, k)
           m == Deleted(s.states, k)
           r == [d EXCEPT !.states = m]
<1>1. s \in Sinks /\ s.states \in StatesMap
  BY DEF SinkHolds, Sinks
<1>2. /\ d \in Sinks /\ FilesHold(d, session, sessions)
      /\ d.states = s.states /\ d.count = s.count /\ d.given = s.given
  <2>1. /\ RowsAt(s.states, k) \in Seq(Row)
        /\ \A i \in 1 .. Len(RowsAt(s.states, k)) : RowsAt(s.states, k)[i].event.device # NA
    BY <1>1, KnownRows DEF SinkHolds
  <2> QED BY <1>1, <2>1, DumpStateHolds DEF SinkHolds
<1>3. CleanUp(s, k) = r
  BY <1>2 DEF CleanUp
<1>4. /\ m \in StatesMap /\ LiveKeys(m) = LiveKeys(s.states) \ {k}
      /\ \A j \in MemoryStateKey : j # k => m[j] = s.states[j]
  BY <1>1, DeletedMap
<1> HIDE DEF d, m
<1>5. r \in Sinks /\ r.states = m /\ r.count = d.count /\ r.given = d.given /\ FilesHold(r, session, sessions)
  BY <1>2, <1>4, OtherStates
<1>6. IsFiniteSet(LiveKeys(m))
  BY <1>4, FS_Subset DEF SinkHolds
<1>7. DevicesKnown(m)
  BY <1>4 DEF SinkHolds, DevicesKnown, LiveKeys
<1> HIDE DEF r
<1> QED BY <1>2, <1>3, <1>5, <1>6, <1>7 DEF SinkHolds, m

\* The entry of a key goes.
LEMMA DeletedHolds ==
    ASSUME NEW d \in Sinks, NEW k \in MemoryStateKey, FilesHold(d, session, sessions),
           IsFiniteSet(LiveKeys(d.states)),
           \A j \in LiveKeys(d.states) \ {k} :
              \A i \in 1 .. Len(d.states[j].events) : d.states[j].events[i].device # NA
    PROVE  LET r == [d EXCEPT !.states = Deleted(@, k)]
           IN  SinkHolds(r) /\ r.given = d.given /\ r.count = d.count /\ r.states = Deleted(d.states, k)
<1> DEFINE m == Deleted(d.states, k)
           r == [d EXCEPT !.states = m]
<1>1. d.states \in StatesMap
  BY DEF Sinks
<1>2. /\ m \in StatesMap /\ LiveKeys(m) = LiveKeys(d.states) \ {k}
      /\ \A j \in MemoryStateKey : j # k => m[j] = d.states[j]
  BY <1>1, DeletedMap
<1> HIDE DEF m
<1>3. r \in Sinks /\ r.states = m /\ r.count = d.count /\ r.given = d.given /\ FilesHold(r, session, sessions)
  BY <1>2, OtherStates
<1>4. IsFiniteSet(LiveKeys(m))
  BY <1>2, FS_Subset
<1>5. DevicesKnown(m)
  BY <1>2 DEF DevicesKnown, LiveKeys
<1> HIDE DEF r
<1>6. SinkHolds(r)
  BY <1>3, <1>4, <1>5 DEF SinkHolds
<1> QED BY <1>3, <1>6 DEF r, m

\* An event joins the cache.
Grown(s, e, k) == [s EXCEPT !.states = Added(@, s.count, e, k), !.count = CountAfter(s.states, @, e, k)]

LEMMA AddedHolds ==
    ASSUME NEW s, SinkHolds(s), NEW e \in MemoryEvent, NEW k \in MemoryStateKey
    PROVE  LET r == Grown(s, e, k)
           IN  /\ r \in Sinks /\ FilesHold(r, session, sessions)
               /\ r.states = Added(s.states, s.count, e, k) /\ r.given = s.given
               /\ IsFiniteSet(LiveKeys(r.states))
               /\ e.device # NA => DevicesKnown(r.states)
               /\ \A j \in LiveKeys(r.states) \ {k} :
                     \A i \in 1 .. Len(r.states[j].events) : r.states[j].events[i].device # NA
<1> DEFINE m == Added(s.states, s.count, e, k)
           n == CountAfter(s.states, s.count, e, k)
           r == Grown(s, e, k)
<1>1. s \in Sinks /\ s.states \in StatesMap /\ s.count \in Nat
  BY DEF SinkHolds, Sinks
<1>2. /\ m \in StatesMap /\ n \in Nat
      /\ LiveKeys(m) = LiveKeys(s.states) \cup {k}
      /\ m[k] = StateWith(s.states, s.count, e, k)
      /\ \A j \in MemoryStateKey : j # k => m[j] = s.states[j]
  <2>1. m \in StatesMap /\ n \in Nat
    BY <1>1, AddedMap
  <2>2. LiveKeys(m) = LiveKeys(s.states) \cup {k}
    BY <1>1, AddedMap
  <2>3. m[k] = StateWith(s.states, s.count, e, k)
    BY <1>1, AddedMap
  <2>4. \A j \in MemoryStateKey : j # k => m[j] = s.states[j]
    BY <1>1, AddedMap
  <2> QED BY <2>1, <2>2, <2>3, <2>4
<1>3. \A j \in LiveKeys(m) \ {k} :
         \A i \in 1 .. Len(m[j].events) : m[j].events[i].device # NA
  BY <1>2 DEF SinkHolds, DevicesKnown, LiveKeys
<1>4. ASSUME e.device # NA, NEW i \in 1 .. Len(m[k].events) PROVE m[k].events[i].device # NA
  <2>1. CASE s.states[k] = NoState
    <3>1. m[k].events = <<e>>
      BY <1>1, <1>2, <2>1, StateWithEvent
    <3> QED BY <1>4, <3>1
  <2>2. CASE s.states[k] # NoState
    <3> DEFINE old == s.states[k].events
    <3>1. k \in LiveKeys(s.states)
      BY <2>2 DEF LiveKeys
    <3>2. /\ Len(m[k].events) = Len(old) + 1 /\ m[k].events[Len(old) + 1] = e
          /\ \A j \in 1 .. Len(old) : m[k].events[j] = old[j]
      <4> DEFINE x == StateWith(s.states, s.count, e, k)
      <4>1. /\ Len(x.events) = Len(old) + 1 /\ x.events[Len(old) + 1] = e
            /\ \A j \in 1 .. Len(old) : x.events[j] = old[j]
        BY <1>1, <2>2, StateWithEvent
      <4> HIDE DEF x, old
      <4> QED BY <1>2, <4>1 DEF x
    <3>3. Len(old) \in Nat
      BY <1>1, <3>1, LiveState
    <3>4. \A j \in 1 .. Len(old) : old[j].device # NA
      BY <3>1 DEF SinkHolds, DevicesKnown
    <3> HIDE DEF old
    <3> QED BY <1>4, <3>2, <3>3, <3>4
  <2> QED BY <2>1, <2>2
<1>5. e.device # NA => DevicesKnown(m)
  BY <1>3, <1>4 DEF DevicesKnown
<1>6. IsFiniteSet(LiveKeys(m))
  BY <1>2, FS_AddElement DEF SinkHolds
<1> HIDE DEF m, n
<1>7. /\ r \in Sinks /\ r.states = m /\ r.given = s.given /\ r.dump = s.dump
  <2>1. r = [s EXCEPT !.states = m, !.count = n]
    BY DEF Grown, m, n
  <2> HIDE DEF r
  <2> QED BY <1>1, <1>2, <2>1 DEF Sinks
<1>8. FilesHold(r, session, sessions)
  BY <1>7 DEF SinkHolds, FilesHold
<1> HIDE DEF r
<1> QED BY <1>3, <1>5, <1>6, <1>7, <1>8 DEF r, m, n

\* Events that RecordHandler and the pools hand over: only a FREE of the driver does not know
\* its device.
HandledEvent(e) == e \in MemoryEvent /\ (e.device = NA => e.type = "FREE" /\ e.pool = HAL)

\* A memory event makes at most one row of no device, of its own id.
LEMMA HandledMemory ==
    ASSUME NEW s, SinkHolds(s), sessions \in Nat, session \in 0 .. sessions,
           NEW e, HandledEvent(e), e.device = NA => \A g \in s.given : g.id # e.id
    PROVE  LET r == HandleMemoryEvent(s, e)
           IN  /\ SinkHolds(r)
               /\ e.device # NA => r.given = s.given
               /\ \A g \in r.given : g \in s.given \/ g.id = e.id
<1> DEFINE c == Completed(s.states, e)
           base == IF Refuses(s.states, c) THEN CleanUp(s, KeyOf(c)) ELSE s
           k == CHOOSE j \in Receivers(base.states, c) : TRUE
           added == Grown(base, c, k)
           d == DumpState(added, k)
           r == HandleMemoryEvent(s, e)
<1>1. s \in Sinks /\ s.states \in StatesMap /\ e \in MemoryEvent /\ session \in Nat
  BY DEF SinkHolds, Sinks, HandledEvent
<1>2. /\ c \in MemoryEvent /\ c.id = e.id /\ c.type = e.type /\ c.pool = e.pool
      /\ KeyOf(c) = KeyOf(e) /\ KeyOf(e) \in MemoryStateKey
  BY <1>1, CompletedEvent
<1>3. /\ e.device # NA => c.device = e.device
      /\ e.device = NA /\ s.states[KeyOf(e)] # NoState => c.device # NA
      /\ e.device = NA /\ s.states[KeyOf(e)] = NoState => c.device = NA
  <2>1. CASE s.states[KeyOf(e)] = NoState
    BY <2>1 DEF Completed
  <2>2. CASE s.states[KeyOf(e)] # NoState
    <3> DEFINE first == s.states[KeyOf(e)].events[1]
    <3>1. KeyOf(e) \in LiveKeys(s.states)
      BY <1>2, <2>2 DEF LiveKeys
    <3>2. first.device # NA
      <4>1. 1 \in 1 .. Len(s.states[KeyOf(e)].events)
        BY <1>1, <3>1, LiveState
      <4> QED BY <3>1, <4>1 DEF SinkHolds, DevicesKnown
    <3> HIDE DEF first
    <3>3. c.device = IF e.device = NA THEN first.device ELSE e.device
      BY <1>1, <2>2 DEF Completed, MemoryEvent, first
    <3> QED BY <2>2, <3>2, <3>3
  <2> QED BY <2>1, <2>2
<1>4. SinkHolds(base) /\ base.given = s.given
  <2>1. CASE Refuses(s.states, c)
    BY <1>2, <2>1, CleanUpHolds
  <2>2. CASE ~Refuses(s.states, c)
    BY <2>2
  <2> QED BY <2>1, <2>2
<1>5. c.type = "FREE" => base = s
  BY DEF Refuses
<1>6. base \in Sinks /\ base.states \in StatesMap
  BY <1>4 DEF SinkHolds, Sinks
<1> HIDE DEF base, c
<1>7. k \in Receivers(base.states, c) /\ k \in MemoryStateKey
  <2>1. Receivers(base.states, c) # {}
    BY DEF Receivers
  <2>2. k \in Receivers(base.states, c)
    BY <2>1
  <2> HIDE DEF k
  <2> QED BY <1>2, <1>6, <2>2, ReceiverKey
<1> HIDE DEF k
<1>8. /\ added \in Sinks /\ FilesHold(added, session, sessions)
      /\ added.states = Added(base.states, base.count, c, k) /\ added.given = base.given
      /\ IsFiniteSet(LiveKeys(added.states))
      /\ c.device # NA => DevicesKnown(added.states)
      /\ \A j \in LiveKeys(added.states) \ {k} :
            \A i \in 1 .. Len(added.states[j].events) : added.states[j].events[i].device # NA
  BY <1>2, <1>4, <1>7, AddedHolds
<1>9. r = IF c.type = "FREE" THEN [d EXCEPT !.states = Deleted(@, KeyOf(c))] ELSE added
  BY DEF HandleMemoryEvent, Grown, base, c, k
<1>10. added.states \in StatesMap
  BY <1>8 DEF Sinks
<1> HIDE DEF added
<1>11. CASE c.device # NA
  <2>1. SinkHolds(added)
    BY <1>8, <1>11 DEF SinkHolds
  <2>2. CASE c.type # "FREE"
    BY <1>4, <1>8, <1>9, <2>1, <2>2
  <2>3. CASE c.type = "FREE"
    <3>1. /\ RowsAt(added.states, k) \in Seq(Row)
          /\ \A i \in 1 .. Len(RowsAt(added.states, k)) : RowsAt(added.states, k)[i].event.device # NA
      BY <1>7, <1>8, <1>10, <1>11, KnownRows
    <3>2. d \in Sinks /\ FilesHold(d, session, sessions) /\ d.states = added.states /\ d.given = added.given
      BY <1>8, <3>1, DumpStateHolds
    <3> HIDE DEF d
    <3>3. IsFiniteSet(LiveKeys(d.states)) /\ DevicesKnown(d.states)
      BY <1>8, <1>11, <3>2
    <3> DEFINE x == [d EXCEPT !.states = Deleted(@, KeyOf(c))]
    <3>4. SinkHolds(x) /\ x.given = d.given
      BY <1>2, <3>2, <3>3, DeletedHolds DEF DevicesKnown
    <3>5. r = x
      BY <1>9, <2>3
    <3> HIDE DEF x, r
    <3> QED BY <1>4, <1>8, <3>2, <3>4, <3>5 DEF r
  <2> QED BY <2>2, <2>3
<1>12. CASE c.device = NA
  <2>1. e.device = NA /\ s.states[KeyOf(c)] = NoState /\ c.type = "FREE" /\ c.pool = HAL
    BY <1>2, <1>3, <1>12 DEF HandledEvent
  <2>2. base = s /\ k = KeyOf(c)
    BY <1>5, <1>7, <2>1 DEF Receivers, CreatesDefault
  <2>3. added.states[k] = StateWith(s.states, s.count, c, k) /\ k \in LiveKeys(added.states)
    <3>1. s.count \in Nat /\ s.states \in StatesMap /\ k \in MemoryStateKey
      BY <1>1, <1>7 DEF Sinks
    <3> DEFINE m == Added(s.states, s.count, c, k)
    <3>2. m[k] = StateWith(s.states, s.count, c, k)
      BY <1>1, <1>2, <1>7, <3>1, AddedMap
    <3>5. LiveKeys(m) = LiveKeys(s.states) \cup {k}
      BY ONLY <1>2, <3>1, AddedMap
    <3>3. added.states = m
      BY <1>8, <2>2
    <3> HIDE DEF m
    <3> QED BY <3>2, <3>3, <3>5
  <2>4. added.states[k].events = <<c>>
    BY <1>1, <1>2, <1>7, <2>1, <2>2, <2>3, StateWithEvent DEF Sinks
  <2>5. /\ RowsAt(added.states, k) \in Seq(Row) /\ Len(RowsAt(added.states, k)) = 1
        /\ RowsAt(added.states, k)[1].event = c
    <3>1. added.states[k] # NoState
      BY <2>3 DEF LiveKeys
    <3>2. Len(<<c>>) = 1 /\ <<c>>[1] = c
      OBVIOUS
    <3> DEFINE rows == RowsAt(added.states, k)
    <3>3. /\ rows \in Seq(Row) /\ Len(rows) = Len(added.states[k].events)
          /\ \A i \in 1 .. Len(added.states[k].events) : rows[i].event = added.states[k].events[i]
      BY <1>7, <1>10, <3>1, RowsOfKey
    <3> HIDE DEF rows
    <3> QED BY <2>4, <3>2, <3>3 DEF rows
  <2>6. d = DumpRow(added, c.id, NA)
    <3> DEFINE rows == RowsAt(added.states, k)
    <3>1. PICK h : RunsIn(Sinks, h, Dumping, added, rows, d)
      BY <1>1, <1>8, <2>5, DumpStateSteps
    <3> HIDE DEF rows, d
    <3>2. h[0] = added /\ h[1] = d /\ h[1] = Dumping[<<h[0], rows[1]>>]
      BY <2>5, <3>1 DEF RunsIn, rows
    <3>3. rows[1] \in Row /\ rows[1].event = c
      BY <2>5 DEF rows
    <3> QED BY <1>8, <1>12, <3>2, <3>3 DEF Dumping
  <2>7. /\ d \in Sinks /\ d.states = added.states
        /\ d.given = s.given \cup {RowOf(c.id, NA)}
    <3>1. c.id \in Nat
      BY <1>2 DEF MemoryEvent
    <3> DEFINE x == DumpRow(added, c.id, NA)
    <3>2. /\ x \in Sinks /\ x.states = added.states
          /\ x.given = IF NA = NA THEN added.given \cup {RowOf(c.id, NA)} ELSE added.given
      BY ONLY <1>1, <1>8, <3>1, DumpedRow
    <3> HIDE DEF x
    <3> QED BY <1>4, <1>8, <2>2, <2>6, <3>2 DEF x
  <2>8. FilesHold(d, session, sessions)
    <3>1. c.id \in Nat
      BY <1>2 DEF MemoryEvent
    <3>2. \A g \in added.given : g.id # c.id
      BY <1>2, <1>4, <1>8, <2>1
    <3> QED BY <1>8, <2>6, <3>1, <3>2, DumpedRowHolds
  <2> HIDE DEF d
  <2> DEFINE x == [d EXCEPT !.states = Deleted(@, KeyOf(c))]
  <2>9. SinkHolds(x) /\ x.given = d.given
    BY <1>2, <1>8, <2>2, <2>7, <2>8, DeletedHolds
  <2>10. r = x
    BY <1>9, <2>1
  <2>11. \A g \in x.given : g \in s.given \/ g.id = e.id
    BY <1>2, <2>7, <2>9 DEF RowOf
  <2> HIDE DEF x, r
  <2> QED BY <2>1, <2>9, <2>10, <2>11 DEF r
<1> QED BY <1>11, <1>12

\* SetToSeq lists a finite set without repetition.
LEMMA SequenceOfSet ==
    ASSUME NEW S, IsFiniteSet(S)
    PROVE  LET q == Seqs!SetToSeq(S)
           IN  /\ q \in Seq(S)
               /\ \A i, j \in 1 .. Len(q) : q[i] = q[j] => i = j
               /\ \A x \in S : \E i \in 1 .. Len(q) : q[i] = x
<1> DEFINE n == Cardinality(S)
           Lists(f) == f \in [1 .. n -> S] /\ \A i, j \in DOMAIN f : f[i] = f[j] => i = j
           q == CHOOSE f \in [1 .. n -> S] : \A i, j \in DOMAIN f : f[i] = f[j] => i = j
<1>1. n \in Nat /\ ExistsBijection(1 .. n, S)
  BY FS_CardinalityType
<1>2. PICK f : f \in Bijection(1 .. n, S)
  BY <1>1 DEF ExistsBijection
<1>3. Lists(f)
  BY <1>2 DEF Bijection, Injection, IsInjective
<1>4. Lists(q)
  BY <1>3
<1>5. Seqs!SetToSeq(S) = q
  <2>1. Seqs!Cardinality(S) = Cardinality(S)
    BY DEF Seqs!Cardinality, Cardinality
  <2> QED BY <2>1 DEF Seqs!SetToSeq, Seqs!IsInjective
<1> HIDE DEF n, q
<1>6. q \in Seq(S) /\ Len(q) = n /\ \A i, j \in 1 .. n : q[i] = q[j] => i = j
  BY <1>1, <1>4
<1>7. q \in Injection(1 .. n, S)
  BY <1>4 DEF Injection, IsInjective
<1>8. IsFiniteSet(1 .. n) /\ Cardinality(1 .. n) = n
  BY <1>1, FS_Interval
<1>9. q \in Surjection(1 .. n, S)
  BY <1>7, <1>8, FS_Injection DEF n
<1>10. \A x \in S : \E i \in 1 .. n : q[i] = x
  BY <1>9 DEF Surjection
<1> QED BY <1>5, <1>6, <1>10

\* TRACE_START, TRACE_STOP and the end of the process clean all keys up.
AllCleanedUp(s) ==
    Seqs!FoldLeft(LAMBDA r, k : CleanUp(r, k), s, Seqs!SetToSeq(LiveKeys(s.states)))

LEMMA AllCleanedUpHolds ==
    ASSUME NEW s, SinkHolds(s), sessions \in Nat, session \in 0 .. sessions
    PROVE  SinkHolds(AllCleanedUp(s)) /\ AllCleanedUp(s).given = s.given
<1> DEFINE P == {r \in Sinks : SinkHolds(r) /\ r.given = s.given}
           keys == Seqs!SetToSeq(LiveKeys(s.states))
           op(r, k) == CleanUp(r, k)
           F == [x \in P \X MemoryStateKey |-> op(x[1], x[2])]
           Iterates(g) == g = [t \in SUBSET (1 .. Len(keys)) |->
                                  IF t = {} THEN s ELSE op(g[t \ {Largest(t)}], keys[Largest(t)])]
           iter == CHOOSE g : Iterates(g)
<1>1. \A r \in P, k \in MemoryStateKey : op(r, k) \in P
  BY CleanUpHolds DEF SinkHolds
<1>2. s \in P
  BY DEF SinkHolds
<1>3. keys \in Seq(MemoryStateKey)
  <2>1. keys \in Seq(LiveKeys(s.states))
    BY SequenceOfSet DEF SinkHolds
  <2>2. LiveKeys(s.states) \subseteq MemoryStateKey
    BY DEF LiveKeys
  <2> HIDE DEF keys
  <2> QED BY <2>1, <2>2
<1>4. AllCleanedUp(s) = iter[1 .. Len(keys)]
  <2>1. DOMAIN keys = 1 .. Len(keys)
    BY <1>3
  <2> QED BY <2>1 DEF AllCleanedUp, Seqs!FoldLeft, Seqs!MapThenFoldSet, Seqs!Max, Largest
<1> HIDE DEF op, keys, P
<1>5. Len(keys) \in Nat /\ \A i \in 1 .. Len(keys) : keys[i] \in MemoryStateKey
  BY <1>3
<1>6. F \in [P \X MemoryStateKey -> P]
  BY <1>1
<1>7. \A r \in P, k \in MemoryStateKey : F[<<r, k>>] = op(r, k)
  OBVIOUS
<1> HIDE DEF F
<1>8. PICK g : g \in [SUBSET (1 .. Len(keys)) -> P] /\ Unfolds(g, F, s, keys)
  BY <1>2, <1>3, <1>6, FoldExists
<1>9. ASSUME NEW t \in SUBSET (1 .. Len(keys)), t # {}
      PROVE  keys[Largest(t)] \in MemoryStateKey /\ t \ {Largest(t)} \in SUBSET (1 .. Len(keys))
  <2>1. Largest(t) \in t
    BY <1>5, <1>9, LargestOf
  <2> QED BY <1>5, <2>1
<1>10. Iterates(g)
  <2>1. \A t \in SUBSET (1 .. Len(keys)) :
           g[t] = IF t = {} THEN s ELSE op(g[t \ {Largest(t)}], keys[Largest(t)])
    BY <1>7, <1>8, <1>9 DEF Unfolds
  <2> QED BY <1>8, <2>1
<1>11. Iterates(iter)
  <2> HIDE DEF Iterates
  <2> QED BY <1>10
<1> HIDE DEF iter
<1>12. UnfoldsIn(P, iter, F, s, keys)
  BY <1>7, <1>9, <1>11 DEF UnfoldsIn
<1> HIDE DEF Iterates
<1>13. PICK h : RunsIn(P, h, F, s, keys, iter[1 .. Len(keys)])
  BY <1>2, <1>3, <1>6, <1>12, FoldSteps
<1>14. AllCleanedUp(s) \in P
  <2>1. Len(keys) \in 0 .. Len(keys)
    BY <1>5
  <2> QED BY <1>4, <1>13, <2>1 DEF RunsIn
<1> QED BY <1>14 DEF P

\* An event of RecordHandler: what it may be, and what becomes of the sink.
CalledEvent(e) ==
    \/ e.type \in EventTypes /\ HandledEvent(e)
    \/ e.type \notin EventTypes /\ e.id \in Nat /\ e.device \in Devices \cup {NA}

LEMMA EventHandled ==
    ASSUME NEW s, SinkHolds(s), sessions \in Nat, session \in 0 .. sessions,
           NEW e, CalledEvent(e), e.type # "FLUSH",
           e.device = NA \/ e.type \in {"START", "STOP"} => \A g \in s.given : g.id # e.id
    PROVE  LET r == EventHandler(s, e)
           IN  /\ SinkHolds(r)
               /\ e.device # NA /\ e.type \in EventTypes => r.given = s.given
               /\ \A g \in r.given : g \in s.given \/ g.id = e.id
<1>1. session \in Nat
  OBVIOUS
<1>2. ASSUME NEW x, SinkHolds(x), x.given = s.given, NEW device \in Devices \cup {NA}, e.id \in Nat,
             device = NA => \A g \in s.given : g.id # e.id
      PROVE  LET r == DumpRow(x, e.id, device)
             IN  /\ SinkHolds(r)
                 /\ \A g \in r.given : g \in s.given \/ g.id = e.id
  <2> DEFINE r == DumpRow(x, e.id, device)
  <2>1. x \in Sinks /\ FilesHold(x, session, sessions)
    BY <1>2 DEF SinkHolds
  <2>2. /\ r \in Sinks /\ r.states = x.states
        /\ r.given = IF device = NA THEN x.given \cup {RowOf(e.id, device)} ELSE x.given
    BY <1>1, <1>2, <2>1, DumpedRow
  <2>3. FilesHold(r, session, sessions)
    BY <1>2, <2>1, DumpedRowHolds
  <2> HIDE DEF r
  <2>4. SinkHolds(r)
    BY <1>2, <2>2, <2>3 DEF SinkHolds
  <2>5. \A g \in r.given : g \in s.given \/ g.id = e.id
    BY <1>2, <2>2 DEF RowOf
  <2> QED BY <2>4, <2>5 DEF r
<1>3. CASE e.type \in EventTypes
  <2>1. EventHandler(s, e) = HandleMemoryEvent(s, e)
    BY <1>3 DEF EventHandler, EventTypes
  <2>2. HandledEvent(e)
    BY <1>3 DEF CalledEvent
  <2> QED BY <2>1, <2>2, HandledMemory
<1>4. CASE e.type \in {"START", "STOP"}
  <2> DEFINE x == AllCleanedUp(s)
  <2>1. EventHandler(s, e) = DumpRow(x, e.id, NA)
    BY <1>4 DEF EventHandler, HandleStatus, AllCleanedUp, EventTypes
  <2>2. SinkHolds(x) /\ x.given = s.given
    BY AllCleanedUpHolds
  <2>3. e.id \in Nat /\ e.type \notin EventTypes
    BY <1>4 DEF CalledEvent, EventTypes
  <2> HIDE DEF x
  <2> QED BY <1>2, <1>4, <2>1, <2>2, <2>3
<1>5. CASE e.type \notin EventTypes \cup {"START", "STOP"}
  <2>1. EventHandler(s, e) = DumpRow(s, e.id, e.device)
    BY <1>5 DEF EventHandler, EventTypes
  <2>2. e.id \in Nat /\ e.device \in Devices \cup {NA}
    BY <1>5 DEF CalledEvent
  <2> QED BY <1>2, <1>5, <2>1, <2>2
<1> QED BY <1>3, <1>4, <1>5

\* The flush, which ends the session.
FlushHolds(s, all) ==
    /\ s \in Sinks /\ IsFiniteSet(LiveKeys(s.states)) /\ DevicesKnown(s.states)
    /\ FilesHold(s, 0, all)

LEMMA Flushed ==
    ASSUME NEW s, SinkHolds(s), sessions \in Nat, session \in 0 .. sessions
    PROVE  LET r == [s EXCEPT !.dump = WritePublicEventToFile(@)]
           IN  FlushHolds(r, sessions) /\ r.given = s.given
<1> DEFINE dump == WritePublicEventToFile(s.dump)
           r == [s EXCEPT !.dump = WritePublicEventToFile(@)]
           files == s.dump.files
           shared == s.dump.shared
<1>1. s \in Sinks /\ s.dump \in Dumps /\ session \in Nat /\ shared \in Seq(FileRow)
  BY DEF SinkHolds, Sinks, Dumps
<1>2. /\ DOMAIN files \subseteq Devices
      /\ \A d \in DOMAIN files : files[d] \in Handlers
  <2>1. files \in Maps(Devices, Handlers)
    BY <1>1 DEF Dumps
  <2> QED BY <2>1, MapShape
<1>3. /\ GivenOK(s.given, sessions) /\ SharedOK(shared, s.given, session)
      /\ \A d \in DOMAIN files : FileOK(files[d].rows, d, s.given, session, sessions)
  BY DEF SinkHolds, FilesHold
<1> DEFINE new == [d \in DOMAIN files |-> WriteAll(files[d], shared)]
<1>4. dump = [files |-> new, shared |-> << >>]
  BY DEF WritePublicEventToFile
<1>5. ASSUME NEW d \in DOMAIN files
      PROVE  /\ WriteAll(files[d], shared) \in Handlers
             /\ FileOK(WriteAll(files[d], shared).rows, d, s.given, 0, sessions)
  <2> DEFINE rows == files[d].rows
  <2>1. rows \in Seq(FileRow) /\ files[d] \in Handlers
    BY <1>2, <1>5 DEF Handlers
  <2>2. CASE files[d].open
    <3>1. WriteAll(files[d], shared) = [files[d] EXCEPT !.rows = rows \o shared]
      BY <2>2 DEF WriteAll
    <3>2. rows \o shared \in Seq(FileRow)
      BY <1>1, <2>1
    <3>3. FileOK(rows \o shared, d, s.given, 0, sessions)
      BY <1>1, <1>3, <2>1, FlushedFile
    <3>4. WriteAll(files[d], shared) = [open |-> files[d].open, rows |-> rows \o shared]
      BY <2>1, <3>1 DEF Handlers
    <3> HIDE DEF rows, files, shared
    <3> QED BY <2>1, <2>2, <3>2, <3>3, <3>4 DEF Handlers
  <2>3. CASE ~files[d].open
    <3>1. WriteAll(files[d], shared) = files[d] /\ rows = << >>
      BY <2>1, <2>3 DEF WriteAll, Handlers
    <3>2. FileOK(<< >>, d, s.given, 0, sessions)
      BY DEF FileOK
    <3> QED BY <2>1, <3>1, <3>2
  <2> QED BY <2>2, <2>3
<1>6. dump \in Dumps
  <2>1. DOMAIN new = DOMAIN files /\ \A d \in DOMAIN new : new[d] \in Handlers
    BY <1>5
  <2>2. new = [d \in DOMAIN new |-> new[d]]
    OBVIOUS
  <2> HIDE DEF new
  <2>3. new \in Maps(Devices, Handlers)
    BY <1>2, <2>1, <2>2, MapShape
  <2>4. << >> \in Seq(FileRow)
    OBVIOUS
  <2> QED BY <1>4, <2>3, <2>4 DEF Dumps
<1>7. r \in Sinks /\ r.states = s.states /\ r.given = s.given /\ r.dump = dump
  BY <1>1, <1>6 DEF Sinks
<1>8. SharedOK(<< >>, s.given, 0)
  BY DEF SharedOK
<1>9. \A d \in DOMAIN new : FileOK(new[d].rows, d, s.given, 0, sessions)
  BY <1>5
<1> HIDE DEF r, new
<1>10. FilesHold(r, 0, sessions)
  BY <1>3, <1>4, <1>7, <1>8, <1>9 DEF FilesHold
<1> HIDE DEF dump
<1> QED BY <1>7, <1>10 DEF FlushHolds, SinkHolds, r

------------------------------------------------------------------------------------
(***************************************************************************)
(* The tracers of the pools.                                               *)
(***************************************************************************)
Usages == [reserved : Int, used : Int]

Tracers ==
    {t \in [usage : Maps(Devices, Usages), heaps : Maps(Addrs, Region), regions : Maps(Nat, Region)] :
        IsFiniteSet(DOMAIN t.regions)}

PoolRecords == [type : {"MALLOC", "FREE"}, pool : TracerNames, addr : Addrs, size : Sizes,
                device : Devices, used : Int, reserved : Int]

Keys == Nat \cup {NoHandle}

\* What Registered and Released make of a batch.
Dones == [tracer : Tracers, records : Seq(PoolRecords), keys : Seq(Keys)]

\* g is f with x for k.
Adds(g, f, k, x) ==
    DOMAIN g = DOMAIN f \cup {k} /\ g[k] = x /\ \A j \in DOMAIN f \ {k} : g[j] = f[j]

\* g is f without S.
Cuts(g, f, S) == DOMAIN g = DOMAIN f \ S /\ \A j \in DOMAIN g : g[j] = f[j]

LEMMA WithMap ==
    ASSUME NEW K, NEW V, NEW f \in Maps(K, V), NEW k \in K, NEW x \in V
    PROVE  With(f, k, x) \in Maps(K, V) /\ Adds(With(f, k, x), f, k, x)
<1> DEFINE g == With(f, k, x)
<1>1. DOMAIN f \subseteq K /\ \A j \in DOMAIN f : f[j] \in V
  BY MapShape
<1>2. g = [j \in DOMAIN f \cup {k} |-> IF j = k THEN x ELSE f[j]]
  BY DEF With
<1> HIDE DEF g
<1>3. DOMAIN g \subseteq K /\ \A j \in DOMAIN g : g[j] \in V
  BY <1>1, <1>2
<1>4. g = [j \in DOMAIN g |-> g[j]]
  BY <1>2
<1>5. g \in Maps(K, V)
  BY <1>3, <1>4, MapShape
<1> QED BY <1>2, <1>5 DEF g, Adds

LEMMA RestrictedMap ==
    ASSUME NEW K, NEW V, NEW f \in Maps(K, V), NEW S
    PROVE  LET g == Funs!Restrict(f, DOMAIN f \ S)
           IN  g \in Maps(K, V) /\ Cuts(g, f, S)
<1> DEFINE g == Funs!Restrict(f, DOMAIN f \ S)
<1>1. DOMAIN f \subseteq K /\ \A j \in DOMAIN f : f[j] \in V
  BY MapShape
<1>2. g = [j \in DOMAIN f \ S |-> f[j]]
  BY DEF Funs!Restrict
<1> HIDE DEF g
<1>3. DOMAIN g \subseteq K /\ \A j \in DOMAIN g : g[j] \in V
  BY <1>1, <1>2
<1>4. g = [j \in DOMAIN g |-> g[j]]
  BY <1>2
<1>5. g \in Maps(K, V)
  BY <1>3, <1>4, MapShape
<1> QED BY <1>2, <1>5 DEF g, Cuts

LEMMA UsageType ==
    ASSUME NEW t \in Tracers, NEW d \in Devices
    PROVE  Usage(t, d) \in Usages
<1>1. t.usage \in Maps(Devices, Usages)
  BY DEF Tracers
<1>2. \A e \in DOMAIN t.usage : t.usage[e] \in Usages
  BY <1>1, MapShape
<1> QED BY <1>2 DEF Usage, Usages

\* A finite set of numbers leaves one out below its size plus one.
LEMMA FreshHandleExists ==
    ASSUME NEW t \in Tracers
    PROVE  FreshHandle(t) \in Nat /\ FreshHandle(t) \notin DOMAIN t.regions
<1> DEFINE D == DOMAIN t.regions
           n == Cardinality(D)
<1>1. IsFiniteSet(D) /\ n \in Nat
  BY FS_CardinalityType DEF Tracers
<1> HIDE DEF D, n
<1>2. \E h \in 1 .. (1 + n) : h \notin D
  <2> SUFFICES ASSUME \A h \in 1 .. (1 + n) : h \in D PROVE FALSE
    OBVIOUS
  <2>1. 1 .. (1 + n) \subseteq D
    OBVIOUS
  <2>2. Cardinality(1 .. (1 + n)) <= Cardinality(D)
    BY <1>1, <2>1, FS_Subset
  <2>3. Cardinality(1 .. (1 + n)) = 1 + n
    BY <1>1, FS_Interval
  <2> QED BY <1>1, <2>2, <2>3 DEF n
<1> DEFINE h == CHOOSE h \in 1 .. (1 + n) : h \notin D
<1>3. h \in 1 .. (1 + n) /\ h \notin D
  BY <1>2
<1>4. FreshHandle(t) = h
  BY DEF FreshHandle, D, n
<1> HIDE DEF h
<1> QED BY <1>1, <1>3, <1>4 DEF D

\* A tracer with another usage of a device and other regions.
Replaces(u, t, d, usage, regions) ==
    /\ u.regions = regions /\ u.heaps = t.heaps
    /\ Usage(u, d) = usage
    /\ \A e \in Devices \ {d} : Usage(u, e) = Usage(t, e)

LEMMA OtherTracer ==
    ASSUME NEW t \in Tracers, NEW d \in Devices, NEW usage \in Usages,
           NEW regions \in Maps(Nat, Region), IsFiniteSet(DOMAIN regions)
    PROVE  LET u == [t EXCEPT !.usage = With(@, d, usage), !.regions = regions]
           IN  u \in Tracers /\ Replaces(u, t, d, usage, regions)
<1> DEFINE u == [t EXCEPT !.usage = With(@, d, usage), !.regions = regions]
           new == With(t.usage, d, usage)
<1>1. /\ t = [usage |-> t.usage, heaps |-> t.heaps, regions |-> t.regions]
      /\ t.usage \in Maps(Devices, Usages) /\ t.heaps \in Maps(Addrs, Region)
  BY DEF Tracers
<1>2. new \in Maps(Devices, Usages) /\ Adds(new, t.usage, d, usage)
  BY <1>1, WithMap
<1>3. u = [usage |-> new, heaps |-> t.heaps, regions |-> regions]
  <2>1. u = [t EXCEPT !.usage = new, !.regions = regions]
    OBVIOUS
  <2> HIDE DEF u, new
  <2> QED BY <2>1 DEF Tracers
<1> HIDE DEF new, u
<1>4. u \in Tracers
  BY <1>1, <1>2, <1>3 DEF Tracers
<1>5. u.usage = new /\ u.regions = regions /\ u.heaps = t.heaps
  BY <1>3
<1>6. Usage(u, d) = usage
  BY <1>2, <1>5 DEF Usage, Adds
<1>7. \A e \in Devices \ {d} : Usage(u, e) = Usage(t, e)
  BY <1>2, <1>5 DEF Usage, Adds
<1> QED BY <1>4, <1>5, <1>6, <1>7 DEF u, Replaces

\* What a total of region's device becomes.
UsedAfter(p, t, region) ==
    IF p = "ptaWorkspace" THEN region.size ELSE Usage(t, region.device).used + region.size

\* The tracer t becomes u when the region is registered under the key.
Takes(p, t, u, region, key) ==
    /\ key \in Nat /\ key # NoHandle
    /\ IF p = "atb" THEN key \notin DOMAIN t.regions ELSE key = region.addr
    /\ u.heaps = t.heaps
    /\ DOMAIN u.regions = DOMAIN t.regions \cup {key}
    /\ u.regions[key] = region
    /\ \A j \in DOMAIN t.regions \ {key} : u.regions[j] = t.regions[j]
    /\ \A d \in Devices :
          /\ Usage(u, d).reserved = Usage(t, d).reserved
          /\ Usage(u, d).used = IF d = region.device THEN UsedAfter(p, t, region) ELSE Usage(t, d).used

\* What a region of a batch adds to what the batch has made: nothing but a null handle where
\* ATB passes over it.
TakesInBatch(p, done, r, region) ==
    \E key \in Keys :
       /\ r.keys = Append(done.keys, key)
       /\ \/ key = NoHandle /\ p = "atb" /\ r.tracer = done.tracer
          \/ Takes(p, done.tracer, r.tracer, region, key)

LEMMA RegionShape ==
    ASSUME NEW region \in Region
    PROVE  /\ region.addr \in Addrs /\ region.addr \in Nat /\ region.device \in Devices
           /\ region.size \in Sizes /\ region.size \in Nat
BY ManagerAssumption DEF Region

LEMMA RegisteredOne ==
    ASSUME NEW p \in TracerNames, NEW done \in Dones, NEW region \in Region
    PROVE  /\ Registered(p, done, region) \in Dones
           /\ TakesInBatch(p, done, Registered(p, done, region), region)
<1> DEFINE r == Registered(p, done, region)
           t == done.tracer
           usage == Usage(t, region.device)
           used == IF p = "ptaWorkspace" THEN region.size ELSE usage.used + region.size
           after == [usage EXCEPT !.used = used]
           key == IF p = "atb" THEN FreshHandle(t) ELSE region.addr
           regions == With(t.regions, key, region)
           u == [t EXCEPT !.usage = With(@, region.device, after), !.regions = regions]
           record == Record("MALLOC", p, region, after)
<1>1. /\ t \in Tracers /\ done.records \in Seq(PoolRecords) /\ done.keys \in Seq(Keys)
      /\ done = [tracer |-> t, records |-> done.records, keys |-> done.keys]
  BY DEF Dones
<1>2. /\ region.addr \in Addrs /\ region.addr \in Nat /\ region.device \in Devices
      /\ region.size \in Sizes /\ region.size \in Int
  BY RegionShape
<1>3. NoHandle \notin Nat /\ NoHandle \in Keys /\ Nat \subseteq Keys
  BY OutputAssumption DEF Keys
<1>4. CASE p = "atb" /\ region.device \notin DOMAIN t.usage
  <2>1. r = [done EXCEPT !.keys = Append(@, NoHandle)]
    BY <1>4 DEF Registered
  <2>2. r = [tracer |-> t, records |-> done.records, keys |-> Append(done.keys, NoHandle)]
    BY <1>1, <2>1
  <2>3. Append(done.keys, NoHandle) \in Seq(Keys)
    BY <1>1, <1>3
  <2> HIDE DEF r, t
  <2>4. r \in Dones
    BY <1>1, <2>2, <2>3 DEF Dones
  <2>5. TakesInBatch(p, done, r, region)
    BY <1>3, <1>4, <2>2 DEF TakesInBatch, t
  <2> QED BY <2>4, <2>5 DEF r
<1>5. CASE ~(p = "atb" /\ region.device \notin DOMAIN t.usage)
  <2>1. r = [tracer |-> u, records |-> Append(done.records, record), keys |-> Append(done.keys, key)]
    BY <1>5 DEF Registered
  <2>2. usage \in Usages
    BY <1>1, <1>2, UsageType
  <2>3. after \in Usages /\ after.reserved = usage.reserved /\ after.used = used
    BY <1>2, <2>2 DEF Usages
  <2>4. key \in Nat /\ (p = "atb" => key \notin DOMAIN t.regions) /\ (p # "atb" => key = region.addr)
    BY <1>1, <1>2, FreshHandleExists
  <2> HIDE DEF key
  <2>5. t.regions \in Maps(Nat, Region) /\ IsFiniteSet(DOMAIN t.regions)
    BY <1>1 DEF Tracers
  <2>6. regions \in Maps(Nat, Region) /\ Adds(regions, t.regions, key, region)
    BY <2>4, <2>5, WithMap
  <2>7. IsFiniteSet(DOMAIN regions)
    BY <2>5, <2>6, FS_AddElement DEF Adds
  <2>8. record \in PoolRecords
    <3>1. record = [type |-> "MALLOC", pool |-> p, addr |-> region.addr, size |-> region.size,
                    device |-> region.device, used |-> after.used, reserved |-> after.reserved]
      BY DEF Record
    <3>2. after.used \in Int /\ after.reserved \in Int
      BY <2>3 DEF Usages
    <3> HIDE DEF record, after
    <3> QED BY <1>2, <3>1, <3>2 DEF PoolRecords
  <2> HIDE DEF record, after, regions
  <2>9. u \in Tracers /\ Replaces(u, t, region.device, after, regions)
    <3>1. t \in Tracers /\ region.device \in Devices
      BY <1>1, <1>2
    <3> HIDE DEF t
    <3> QED BY <2>3, <2>6, <2>7, <3>1, OtherTracer
  <2> HIDE DEF u, t
  <2>10. Append(done.records, record) \in Seq(PoolRecords) /\ Append(done.keys, key) \in Seq(Keys)
    BY <1>1, <1>3, <2>4, <2>8
  <2> HIDE DEF r
  <2>11. r \in Dones
    BY <2>1, <2>9, <2>10 DEF Dones
  <2>12. Takes(p, t, u, region, key)
    <3>1. \A d \in Devices :
             /\ Usage(u, d).reserved = Usage(t, d).reserved
             /\ Usage(u, d).used = IF d = region.device THEN UsedAfter(p, t, region) ELSE Usage(t, d).used
      BY <2>3, <2>9 DEF UsedAfter, Replaces
    <3> QED BY <1>3, <2>4, <2>6, <2>9, <3>1 DEF Takes, Adds, Replaces
  <2>13. TakesInBatch(p, done, r, region)
    BY <1>3, <2>1, <2>4, <2>12 DEF TakesInBatch, t
  <2> QED BY <2>11, <2>13 DEF r
<1> QED BY <1>4, <1>5

\* The tracer t becomes u when the region of the key is given up.
Gives(p, t, u, key) ==
    LET region == t.regions[key]
    IN  /\ u.heaps = t.heaps
        /\ DOMAIN u.regions = IF p = "atb" THEN DOMAIN t.regions \ {key} ELSE DOMAIN t.regions
        /\ \A j \in DOMAIN u.regions : u.regions[j] = t.regions[j]
        /\ \A d \in Devices :
              /\ Usage(u, d).reserved = Usage(t, d).reserved
              /\ Usage(u, d).used =
                    IF d = region.device THEN Usage(t, d).used - region.size ELSE Usage(t, d).used

LEMMA ReleasedOne ==
    ASSUME NEW p \in TracerNames, NEW done \in Dones, NEW key \in Keys
    PROVE  LET r == Released(p, done, key)
           IN  /\ r \in Dones
               /\ key \notin DOMAIN done.tracer.regions => r = done
               /\ key \in DOMAIN done.tracer.regions => Gives(p, done.tracer, r.tracer, key)
<1> DEFINE r == Released(p, done, key)
           t == done.tracer
           region == t.regions[key]
           after == [Usage(t, region.device) EXCEPT !.used = @ - region.size]
           regions == IF p = "atb" THEN Funs!Restrict(t.regions, DOMAIN t.regions \ {key}) ELSE t.regions
           u == [t EXCEPT !.usage = With(@, region.device, after), !.regions = regions]
           record == Record("FREE", p, region, after)
<1>1. /\ t \in Tracers /\ done.records \in Seq(PoolRecords) /\ done.keys \in Seq(Keys)
  BY DEF Dones
<1>2. CASE key \notin DOMAIN t.regions
  BY <1>2 DEF Released
<1>3. CASE key \in DOMAIN t.regions
  <2>1. r = [tracer |-> u, records |-> Append(done.records, record), keys |-> done.keys]
    BY <1>3 DEF Released
  <2>2. t.regions \in Maps(Nat, Region) /\ IsFiniteSet(DOMAIN t.regions)
    BY <1>1 DEF Tracers
  <2>3. region \in Region
    BY <1>3, <2>2, MapShape
  <2> HIDE DEF region
  <2>4. /\ region.addr \in Addrs /\ region.device \in Devices
        /\ region.size \in Sizes /\ region.size \in Int
    BY <2>3, RegionShape
  <2>5. Usage(t, region.device) \in Usages
    BY <1>1, <2>4, UsageType
  <2>6. /\ after \in Usages /\ after.reserved = Usage(t, region.device).reserved
        /\ after.used = Usage(t, region.device).used - region.size
    BY <2>4, <2>5 DEF Usages
  <2>7. regions \in Maps(Nat, Region) /\ Cuts(regions, t.regions, IF p = "atb" THEN {key} ELSE {})
    <3>1. CASE p = "atb"
      <4>1. regions = Funs!Restrict(t.regions, DOMAIN t.regions \ {key})
        BY <3>1
      <4> HIDE DEF regions, t
      <4> QED BY <2>2, <3>1, <4>1, RestrictedMap
    <3>2. CASE p # "atb"
      BY <2>2, <3>2 DEF Cuts
    <3> QED BY <3>1, <3>2
  <2>8. IsFiniteSet(DOMAIN regions)
    BY <2>2, <2>7, FS_Subset DEF Cuts
  <2>9. record \in PoolRecords
    <3>1. record = [type |-> "FREE", pool |-> p, addr |-> region.addr, size |-> region.size,
                    device |-> region.device, used |-> after.used, reserved |-> after.reserved]
      BY DEF Record
    <3>2. after.used \in Int /\ after.reserved \in Int
      BY <2>6 DEF Usages
    <3> HIDE DEF record, after
    <3> QED BY <2>4, <3>1, <3>2 DEF PoolRecords
  <2>10. u = [t EXCEPT !.usage = With(@, region.device, after), !.regions = regions]
    OBVIOUS
  <2> HIDE DEF record, after, regions, u
  <2>11. u \in Tracers /\ Replaces(u, t, region.device, after, regions)
    <3>1. t \in Tracers
      BY <1>1
    <3> HIDE DEF t
    <3> QED BY <2>4, <2>6, <2>7, <2>8, <2>10, <3>1, OtherTracer
  <2> HIDE DEF t
  <2>12. Append(done.records, record) \in Seq(PoolRecords)
    BY <1>1, <2>9
  <2> HIDE DEF r
  <2>13. r \in Dones
    BY <1>1, <2>1, <2>11, <2>12 DEF Dones
  <2>14. Gives(p, t, u, key)
    <3>1. \A d \in Devices :
              /\ Usage(u, d).reserved = Usage(t, d).reserved
              /\ Usage(u, d).used =
                    IF d = region.device THEN Usage(t, d).used - region.size ELSE Usage(t, d).used
      BY <2>6, <2>11 DEF Replaces
    <3> QED BY <2>7, <2>11, <3>1 DEF Gives, region, Replaces, Cuts
  <2> QED BY <1>3, <2>1, <2>13, <2>14 DEF r, t
<1> QED BY <1>2, <1>3

\* A batch, one element after the other.
Registering(p) == [x \in Dones \X Region |-> Registered(p, x[1], x[2])]

LEMMA ReallocateSteps ==
    ASSUME NEW p \in TracerNames, NEW tracer \in Tracers, NEW regions \in Seq(Region)
    PROVE  \E h : RunsIn(Dones, h, Registering(p), NothingDone(tracer), regions, Reallocate(p, tracer, regions))
<1> DEFINE base == NothingDone(tracer)
           op(done, x) == Registered(p, done, x)
           Iterates(g) == g = [s \in SUBSET (1 .. Len(regions)) |->
                                  IF s = {} THEN base ELSE op(g[s \ {Largest(s)}], regions[Largest(s)])]
           iter == CHOOSE g : Iterates(g)
           F == Registering(p)
<1>1. F = [x \in Dones \X Region |-> op(x[1], x[2])] /\ \A done \in Dones, x \in Region : op(done, x) \in Dones
  BY RegisteredOne DEF Registering
<1>2. base \in Dones
  <2>1. base = [tracer |-> tracer, records |-> << >>, keys |-> << >>]
    BY DEF NothingDone
  <2>2. << >> \in Seq(PoolRecords) /\ << >> \in Seq(Keys)
    OBVIOUS
  <2> HIDE DEF base
  <2> QED BY <2>1, <2>2 DEF Dones
<1>3. Reallocate(p, tracer, regions) = iter[1 .. Len(regions)]
  <2>1. DOMAIN regions = 1 .. Len(regions)
    OBVIOUS
  <2> QED BY <2>1 DEF Reallocate, Seqs!FoldLeft, Seqs!MapThenFoldSet, Seqs!Max, Largest
<1> HIDE DEF op, base, F
<1>4. Len(regions) \in Nat /\ \A i \in 1 .. Len(regions) : regions[i] \in Region
  OBVIOUS
<1>5. F \in [Dones \X Region -> Dones] /\ \A done \in Dones, x \in Region : F[<<done, x>>] = op(done, x)
  BY <1>1
<1>6. PICK g : g \in [SUBSET (1 .. Len(regions)) -> Dones] /\ Unfolds(g, F, base, regions)
  <2>1. F \in [Dones \X Region -> Dones]
    BY <1>5
  <2> QED BY <1>2, <2>1, FoldExists
<1>7. ASSUME NEW s \in SUBSET (1 .. Len(regions)), s # {}
      PROVE  regions[Largest(s)] \in Region /\ s \ {Largest(s)} \in SUBSET (1 .. Len(regions))
  <2>1. Largest(s) \in s
    BY <1>4, <1>7, LargestOf
  <2> QED BY <1>4, <2>1
<1>8. Iterates(g)
  <2>1. \A s \in SUBSET (1 .. Len(regions)) :
           g[s] = IF s = {} THEN base ELSE op(g[s \ {Largest(s)}], regions[Largest(s)])
    BY <1>5, <1>6, <1>7 DEF Unfolds
  <2> QED BY <1>6, <2>1
<1>9. Iterates(iter)
  <2> HIDE DEF Iterates
  <2> QED BY <1>8
<1> HIDE DEF iter
<1>10. UnfoldsIn(Dones, iter, F, base, regions)
  BY <1>5, <1>7, <1>9 DEF UnfoldsIn
<1> HIDE DEF Iterates
<1>11. \E h : RunsIn(Dones, h, F, base, regions, iter[1 .. Len(regions)])
  <2>1. F \in [Dones \X Region -> Dones]
    BY <1>5
  <2> QED BY <1>2, <1>10, <2>1, FoldSteps
<1> QED BY <1>3, <1>11 DEF F, base

Releasing(p) == [x \in Dones \X Keys |-> Released(p, x[1], x[2])]

LEMMA ReleaseSteps ==
    ASSUME NEW p \in TracerNames, NEW tracer \in Tracers, NEW keys \in Seq(Keys)
    PROVE  \E h : RunsIn(Dones, h, Releasing(p), NothingDone(tracer), keys, Release(p, tracer, keys))
<1> DEFINE base == NothingDone(tracer)
           op(done, x) == Released(p, done, x)
           Iterates(g) == g = [s \in SUBSET (1 .. Len(keys)) |->
                                  IF s = {} THEN base ELSE op(g[s \ {Largest(s)}], keys[Largest(s)])]
           iter == CHOOSE g : Iterates(g)
           F == Releasing(p)
<1>1. F = [x \in Dones \X Keys |-> op(x[1], x[2])] /\ \A done \in Dones, x \in Keys : op(done, x) \in Dones
  BY ReleasedOne DEF Releasing
<1>2. base \in Dones
  <2>1. base = [tracer |-> tracer, records |-> << >>, keys |-> << >>]
    BY DEF NothingDone
  <2>2. << >> \in Seq(PoolRecords) /\ << >> \in Seq(Keys)
    OBVIOUS
  <2> HIDE DEF base
  <2> QED BY <2>1, <2>2 DEF Dones
<1>3. Release(p, tracer, keys) = iter[1 .. Len(keys)]
  <2>1. DOMAIN keys = 1 .. Len(keys)
    OBVIOUS
  <2> QED BY <2>1 DEF Release, Seqs!FoldLeft, Seqs!MapThenFoldSet, Seqs!Max, Largest
<1> HIDE DEF op, base, F
<1>4. Len(keys) \in Nat /\ \A i \in 1 .. Len(keys) : keys[i] \in Keys
  OBVIOUS
<1>5. F \in [Dones \X Keys -> Dones] /\ \A done \in Dones, x \in Keys : F[<<done, x>>] = op(done, x)
  BY <1>1
<1>6. PICK g : g \in [SUBSET (1 .. Len(keys)) -> Dones] /\ Unfolds(g, F, base, keys)
  <2>1. F \in [Dones \X Keys -> Dones]
    BY <1>5
  <2> QED BY <1>2, <2>1, FoldExists
<1>7. ASSUME NEW s \in SUBSET (1 .. Len(keys)), s # {}
      PROVE  keys[Largest(s)] \in Keys /\ s \ {Largest(s)} \in SUBSET (1 .. Len(keys))
  <2>1. Largest(s) \in s
    BY <1>4, <1>7, LargestOf
  <2> QED BY <1>4, <2>1
<1>8. Iterates(g)
  <2>1. \A s \in SUBSET (1 .. Len(keys)) :
           g[s] = IF s = {} THEN base ELSE op(g[s \ {Largest(s)}], keys[Largest(s)])
    BY <1>5, <1>6, <1>7 DEF Unfolds
  <2> QED BY <1>6, <2>1
<1>9. Iterates(iter)
  <2> HIDE DEF Iterates
  <2> QED BY <1>8
<1> HIDE DEF iter
<1>10. UnfoldsIn(Dones, iter, F, base, keys)
  BY <1>5, <1>7, <1>9 DEF UnfoldsIn
<1> HIDE DEF Iterates
<1>11. \E h : RunsIn(Dones, h, F, base, keys, iter[1 .. Len(keys)])
  <2>1. F \in [Dones \X Keys -> Dones]
    BY <1>5
  <2> QED BY <1>2, <1>10, <2>1, FoldSteps
<1> QED BY <1>3, <1>11 DEF F, base

\* A batch of regions gets a key for each.
LEMMA ReallocateType ==
    ASSUME NEW p \in TracerNames, NEW tracer \in Tracers, NEW regions \in Seq(Region)
    PROVE  /\ Reallocate(p, tracer, regions) \in Dones
           /\ Len(Reallocate(p, tracer, regions).keys) = Len(regions)
<1> DEFINE n == Len(regions)
           r == Reallocate(p, tracer, regions)
<1>1. PICK h : RunsIn(Dones, h, Registering(p), NothingDone(tracer), regions, r)
  BY ReallocateSteps
<1>2. /\ n \in Nat /\ h \in [0 .. n -> Dones] /\ h[0] = NothingDone(tracer) /\ h[n] = r
      /\ \A i \in 1 .. n : regions[i] \in Region /\ h[i] = Registering(p)[<<h[i - 1], regions[i]>>]
  BY <1>1 DEF RunsIn
<1> HIDE DEF n, r
<1> DEFINE Q == {i \in 0 .. n : Len(h[i].keys) = i}
<1>3. 0 \in Q
  BY <1>2 DEF NothingDone
<1>4. ASSUME NEW i \in 1 .. n, i - 1 \in Q PROVE i \in Q
  <2>1. h[i - 1] \in Dones /\ Len(h[i - 1].keys) = i - 1
    BY <1>2, <1>4
  <2>2. h[i] = Registered(p, h[i - 1], regions[i]) /\ regions[i] \in Region
    BY <1>2, <2>1 DEF Registering
  <2>3. TakesInBatch(p, h[i - 1], h[i], regions[i])
    BY <2>1, <2>2, RegisteredOne
  <2>4. PICK key \in Keys : h[i].keys = Append(h[i - 1].keys, key)
    BY <2>3 DEF TakesInBatch
  <2>5. h[i - 1].keys \in Seq(Keys)
    BY <2>1 DEF Dones
  <2> QED BY <1>2, <2>1, <2>4, <2>5
<1> HIDE DEF Q
<1>5. n \in Q
  BY <1>2, <1>3, <1>4, InductionTo
<1>6. Len(h[n].keys) = n
  BY <1>5 DEF Q
<1> QED BY <1>2, <1>6 DEF n, r

LEMMA ReleaseType ==
    ASSUME NEW p \in TracerNames, NEW tracer \in Tracers, NEW keys \in Seq(Keys)
    PROVE  Release(p, tracer, keys) \in Dones
<1> DEFINE r == Release(p, tracer, keys)
<1>1. PICK h : RunsIn(Dones, h, Releasing(p), NothingDone(tracer), keys, r)
  BY ReleaseSteps
<1>2. Len(keys) \in 0 .. Len(keys)
  OBVIOUS
<1> HIDE DEF r
<1>3. r \in Dones
  BY <1>1, <1>2 DEF RunsIn
<1> QED BY <1>3 DEF r

\* The records of a call of a pool, as RecordHandler leaves the sink.
Reported(records) ==
    Seqs!FoldLeft(LAMBDA s, i : EventHandler(s, PoolEvent(recordIndex + i, records[i])), sink,
                  [i \in 1 .. Len(records) |-> i])

LEMMA PoolEventHandled ==
    ASSUME setting \in Settings, NEW id \in Nat, NEW record \in PoolRecords
    PROVE  HandledEvent(PoolEvent(id, record)) /\ PoolEvent(id, record).device # NA
<1> DEFINE e == PoolEvent(id, record)
           d == IF setting.current = NA THEN record.device ELSE setting.current
<1>1. d \in Devices /\ d # NA
  BY OutputAssumption, ManagerAssumption DEF PoolRecords
<1>2. record.pool \in Pools /\ record.type \in EventTypes /\ record.addr \in Addrs /\ record.size \in Sizes \cup {0}
  BY OutputAssumption DEF PoolRecords, EventTypes
<1>3. e = [id |-> id, type |-> record.type, pool |-> record.pool, addr |-> record.addr,
           size |-> record.size, device |-> d]
  BY DEF PoolEvent
<1> HIDE DEF e, d
<1>4. e \in MemoryEvent /\ e.device = d
  BY <1>1, <1>2, <1>3 DEF MemoryEvent
<1> QED BY <1>1, <1>4 DEF HandledEvent, e

LEMMA ReportedHolds ==
    ASSUME setting \in Settings, SinkHolds(sink), sessions \in Nat, session \in 0 .. sessions,
           recordIndex \in Nat, NEW records \in Seq(PoolRecords)
    PROVE  SinkHolds(Reported(records)) /\ Reported(records).given = sink.given
<1> DEFINE P == {r \in Sinks : SinkHolds(r) /\ r.given = sink.given}
           n == Len(records)
           order == [i \in 1 .. n |-> i]
           E == 1 .. n
           op(s, i) == EventHandler(s, PoolEvent(recordIndex + i, records[i]))
           F == [x \in P \X E |-> op(x[1], x[2])]
           Iterates(g) == g = [t \in SUBSET (1 .. Len(order)) |->
                                  IF t = {} THEN sink ELSE op(g[t \ {Largest(t)}], order[Largest(t)])]
           iter == CHOOSE g : Iterates(g)
<1>0. n \in Nat /\ \A i \in 1 .. n : records[i] \in PoolRecords
  OBVIOUS
<1>1. ASSUME NEW r \in P, NEW i \in E PROVE op(r, i) \in P
  <2> DEFINE e == PoolEvent(recordIndex + i, records[i])
  <2>1. recordIndex + i \in Nat /\ records[i] \in PoolRecords
    BY <1>0
  <2>2. HandledEvent(e) /\ e.device # NA
    BY <2>1, PoolEventHandled
  <2> HIDE DEF e
  <2>3. e.type \in EventTypes /\ CalledEvent(e) /\ e.type # "FLUSH" /\ e.type \notin {"START", "STOP"}
    BY <2>2 DEF HandledEvent, MemoryEvent, CalledEvent, EventTypes
  <2>4. SinkHolds(EventHandler(r, e)) /\ EventHandler(r, e).given = r.given
    BY <2>2, <2>3, EventHandled
  <2> QED BY <2>4 DEF SinkHolds, e
<1>2. sink \in P
  BY DEF SinkHolds
<1>3. order \in Seq(E) /\ Len(order) = n
  BY <1>0
<1>4. Reported(records) = iter[1 .. Len(order)]
  <2>1. DOMAIN order = 1 .. Len(order)
    BY <1>0
  <2> QED BY <2>1 DEF Reported, Seqs!FoldLeft, Seqs!MapThenFoldSet, Seqs!Max, Largest
<1> HIDE DEF op, order, P, E, n
<1>5. Len(order) \in Nat /\ \A i \in 1 .. Len(order) : order[i] \in E
  BY <1>3
<1>6. F \in [P \X E -> P]
  BY <1>1
<1>7. \A r \in P, i \in E : F[<<r, i>>] = op(r, i)
  OBVIOUS
<1> HIDE DEF F
<1>8. PICK g : g \in [SUBSET (1 .. Len(order)) -> P] /\ Unfolds(g, F, sink, order)
  BY <1>2, <1>3, <1>6, FoldExists
<1>9. ASSUME NEW t \in SUBSET (1 .. Len(order)), t # {}
      PROVE  order[Largest(t)] \in E /\ t \ {Largest(t)} \in SUBSET (1 .. Len(order))
  <2>1. Largest(t) \in t
    BY <1>5, <1>9, LargestOf
  <2> QED BY <1>5, <2>1
<1>10. Iterates(g)
  <2>1. \A t \in SUBSET (1 .. Len(order)) :
           g[t] = IF t = {} THEN sink ELSE op(g[t \ {Largest(t)}], order[Largest(t)])
    BY <1>7, <1>8, <1>9 DEF Unfolds
  <2> QED BY <1>8, <2>1
<1>11. Iterates(iter)
  <2> HIDE DEF Iterates
  <2> QED BY <1>10
<1> HIDE DEF iter
<1>12. UnfoldsIn(P, iter, F, sink, order)
  BY <1>7, <1>9, <1>11 DEF UnfoldsIn
<1> HIDE DEF Iterates
<1>13. PICK h : RunsIn(P, h, F, sink, order, iter[1 .. Len(order)])
  BY <1>2, <1>3, <1>6, <1>12, FoldSteps
<1>14. Reported(records) \in P
  <2>1. Len(order) \in 0 .. Len(order)
    BY <1>5
  <2> QED BY <1>4, <1>13, <2>1 DEF RunsIn
<1> QED BY <1>14 DEF P

------------------------------------------------------------------------------------
(***************************************************************************)
(* The invariant of the files.                                             *)
(***************************************************************************)
HeldKey == [region : Region, key : Keys]

ClientStates ==
    {c \in [domain : TracerNames \cup {NotAsked, NullDomain},
            heaps : SUBSET HeldKey, regions : SUBSET HeldKey] :
        IsFiniteSet(c.heaps) /\ IsFiniteSet(c.regions)}

PoolsOK == tracers \in [TracerNames -> Tracers] /\ clients \in [Clients -> ClientStates]

\* The calls that are under way, and who makes them.
CalledOK ==
    \A a \in Actors :
        call[a].at # "out" =>
            /\ CalledEvent(EventOf(a))
            /\ a \in Threads => EventOf(a).type \notin {"START", "STOP", "FLUSH"}
            /\ a = Controller => EventOf(a).type \in {"START", "STOP", "FLUSH"}

\* A number of a record is given once: calls that have one have different ones, and no row of
\* no device is of a call that is still under way.
Numbered(a) == call[a].at \in {"checked", "inside"} /\ EventOf(a).type # "FLUSH"

NumbersOK ==
    /\ recordIndex \in Nat
    /\ \A g \in sink.given : g.id \in 0 .. recordIndex
    /\ \A a \in Actors :
          Numbered(a) => EventOf(a).id \in 0 .. recordIndex /\ \A g \in sink.given : g.id # EventOf(a).id
    /\ \A a, b \in Actors :
          Numbered(a) /\ Numbered(b) /\ EventOf(a).id = EventOf(b).id => a = b

SessionInv == TypeOK /\ PoolsOK /\ SinkHolds(sink) /\ CalledOK /\ NumbersOK

LEMMA SinkSame ==
    ASSUME SinkHolds(sink), UNCHANGED <<sink, session, sessions>>
    PROVE  SinkHolds(sink)'
BY DEF SinkHolds

\* The first state has no files, no rows and no calls.
LEMMA InitSessionInv == Init => SessionInv
<1> SUFFICES ASSUME Init PROVE SessionInv
  OBVIOUS
<1>1. TypeOK
  BY InitLeakInv DEF LeakInv
<1>2. \A V, K : << >> \in Maps(K, V)
  <2> SUFFICES ASSUME NEW V, NEW K PROVE << >> \in Maps(K, V)
    OBVIOUS
  <2>1. DOMAIN << >> = {} /\ << >> = [k \in DOMAIN << >> |-> << >>[k]]
    OBVIOUS
  <2>2. DOMAIN << >> \subseteq K /\ \A k \in DOMAIN << >> : << >>[k] \in V
    BY <2>1
  <2> QED BY <2>1, <2>2, MapShape
<1>3. PoolsOK
  <2>1. NewTracer \in Tracers
    <3>1. IsFiniteSet(DOMAIN << >>)
      BY FS_EmptySet
    <3> QED BY <1>2, <3>1 DEF NewTracer, Tracers
  <2>2. NewClient \in ClientStates
    BY FS_EmptySet DEF NewClient, ClientStates
  <2>3. tracers = [p \in TracerNames |-> NewTracer] /\ clients = [c \in Clients |-> NewClient]
    BY DEF Init
  <2> QED BY <2>1, <2>2, <2>3 DEF PoolsOK
<1>4. SinkHolds(sink)
  <2>1. /\ sink = [states |-> EmptyMap, count |-> 0, dump |-> NewDump, given |-> {}]
        /\ session \in Nat /\ sessions \in Nat
    BY <1>1 DEF Init, TypeOK
  <2>2. EmptyMap \in StatesMap /\ LiveKeys(EmptyMap) = {}
    BY DEF EmptyMap, StatesMap, LiveKeys
  <2>3. NewDump \in Dumps /\ NewDump.files = << >> /\ NewDump.shared = << >>
    <3>1. NewDump = [files |-> << >>, shared |-> << >>]
      BY DEF NewDump
    <3>2. << >> \in Seq(FileRow)
      OBVIOUS
    <3> QED BY <1>2, <3>1, <3>2 DEF Dumps
  <2>4. sink \in Sinks
    <3>1. {} \in SUBSET FileRow
      OBVIOUS
    <3> QED BY <2>1, <2>2, <2>3, <3>1 DEF Sinks
  <2>5. FilesHold(sink, session, sessions)
    <3>1. GivenOK({}, sessions) /\ SharedOK(<< >>, {}, session)
      BY DEF GivenOK, SharedOK
    <3>2. DOMAIN sink.dump.files = {}
      BY <2>1, <2>3
    <3> QED BY <2>1, <2>3, <3>1, <3>2 DEF FilesHold
  <2> QED BY <2>1, <2>2, <2>4, <2>5, FS_EmptySet DEF SinkHolds, DevicesKnown
<1>5. CalledOK
  BY DEF Init, CalledOK, Out
<1>6. NumbersOK
  BY DEF Init, NumbersOK, Numbered, Out
<1> QED BY <1>1, <1>3, <1>4, <1>5, <1>6 DEF SessionInv

\* A step in which at most the call of one actor changes.
OthersStay(a) == \A b \in Actors \ {a} : call'[b] = call[b]

LEMMA CalledStep ==
    ASSUME CalledOK, NEW a \in Actors, OthersStay(a),
           call'[a].at # "out" =>
              /\ CalledEvent(call'[a].event)
              /\ a \in Threads => call'[a].event.type \notin {"START", "STOP", "FLUSH"}
              /\ a = Controller => call'[a].event.type \in {"START", "STOP", "FLUSH"}
    PROVE  CalledOK'
<1> SUFFICES ASSUME NEW b \in Actors, call'[b].at # "out"
             PROVE  /\ CalledEvent(call'[b].event)
                    /\ b \in Threads => call'[b].event.type \notin {"START", "STOP", "FLUSH"}
                    /\ b = Controller => call'[b].event.type \in {"START", "STOP", "FLUSH"}
  BY DEF CalledOK, EventOf
<1>1. CASE b = a
  BY <1>1
<1>2. CASE b # a
  <2>1. call'[b] = call[b]
    BY <1>2 DEF OthersStay
  <2> QED BY <2>1 DEF CalledOK, EventOf
<1> QED BY <1>1, <1>2

\* A row of no device that is new is of the call that ends; a number that is new is the next.
NewRows(a) ==
    \A g \in sink'.given :
       g \in sink.given \/ (Numbered(a) /\ g.id = EventOf(a).id /\ ~Numbered(a)')

NewNumber(a) ==
    Numbered(a)' =>
       \/ Numbered(a) /\ EventOf(a)'.id = EventOf(a).id
       \/ recordIndex' = recordIndex + 1 /\ EventOf(a)'.id = recordIndex + 1

LEMMA NumbersStep ==
    ASSUME NumbersOK, NEW a \in Actors, OthersStay(a),
           recordIndex' \in Nat, recordIndex' >= recordIndex, NewRows(a), NewNumber(a)
    PROVE  NumbersOK'
<1>1. \A b \in Actors \ {a} : (Numbered(b)' <=> Numbered(b)) /\ EventOf(b)' = EventOf(b)
  BY DEF OthersStay, Numbered, EventOf
<1>2. recordIndex \in Nat /\ \A i \in 0 .. recordIndex : i \in 0 .. recordIndex' /\ i # recordIndex + 1
  BY DEF NumbersOK
<1>3. \A g \in sink'.given : g.id \in 0 .. recordIndex'
  BY <1>2 DEF NumbersOK, NewRows
<1>4. ASSUME NEW b \in Actors, Numbered(b)'
      PROVE  /\ EventOf(b)'.id \in 0 .. recordIndex'
             /\ \A g \in sink'.given : g.id # EventOf(b)'.id
  <2>1. CASE b = a
    <3>1. \A g \in sink'.given : g \in sink.given
      BY <1>4, <2>1 DEF NewRows
    <3>2. CASE Numbered(a) /\ EventOf(a)'.id = EventOf(a).id
      BY <1>2, <2>1, <3>1, <3>2 DEF NumbersOK
    <3>3. CASE recordIndex' = recordIndex + 1 /\ EventOf(a)'.id = recordIndex + 1
      BY <1>2, <2>1, <3>1, <3>3 DEF NumbersOK
    <3> QED BY <1>4, <2>1, <3>2, <3>3 DEF NewNumber
  <2>2. CASE b # a
    <3>1. Numbered(b) /\ EventOf(b)' = EventOf(b)
      BY <1>1, <1>4, <2>2
    <3>2. \A g \in sink'.given : g.id # EventOf(b).id
      BY <2>2, <3>1 DEF NumbersOK, NewRows
    <3> QED BY <1>2, <3>1, <3>2 DEF NumbersOK
  <2> QED BY <2>1, <2>2
<1>5. ASSUME NEW b \in Actors \ {a}, Numbered(b)', Numbered(a)'
      PROVE  EventOf(b)'.id # EventOf(a)'.id
  <2>1. Numbered(b) /\ EventOf(b)' = EventOf(b)
    BY <1>1, <1>5
  <2> QED BY <1>2, <1>5, <2>1 DEF NumbersOK, NewNumber
<1>6. ASSUME NEW b \in Actors, NEW d \in Actors, Numbered(b)', Numbered(d)',
             EventOf(b)'.id = EventOf(d)'.id
      PROVE  b = d
  <2>1. CASE b # a /\ d # a
    BY <1>1, <1>6, <2>1 DEF NumbersOK
  <2> QED BY <1>5, <1>6, <2>1
<1> QED BY <1>3, <1>4, <1>6 DEF NumbersOK

LEMMA PoolsSame == ASSUME PoolsOK, UNCHANGED poolVars PROVE PoolsOK'
BY DEF PoolsOK, poolVars

\* Where a call goes.
LEMMA GoesTo ==
    ASSUME TypeOK, NEW a \in Actors, NEW place, NEW event, Goes(a, place, event)
    PROVE  /\ OthersStay(a) /\ call'[a].at = place /\ call'[a].event = event
           /\ EventOf(a)' = event
BY DEF TypeOK, CallsOK, Goes, OthersStay, EventOf

LEMMA ReturnsTo ==
    ASSUME TypeOK, NEW a \in Actors, call' = [call EXCEPT ![a] = Out]
    PROVE  OthersStay(a) /\ call'[a].at = "out" /\ ~Numbered(a)'
BY DEF TypeOK, CallsOK, Out, OthersStay, Numbered

\* A step that writes nothing.
LEMMA QuietSession ==
    ASSUME SessionInv, TypeOK', UNCHANGED <<poolVars, sink, session, sessions>>, CalledOK', NumbersOK'
    PROVE  SessionInv'
<1>1. PoolsOK'
  BY PoolsSame DEF SessionInv
<1>2. SinkHolds(sink)'
  BY SinkSame DEF SessionInv
<1> QED BY <1>1, <1>2 DEF SessionInv

\* The events of the hooks.
LEMMA HookEvents ==
    ASSUME NEW b \in Region
    PROVE  /\ HandledEvent(Event(0, "MALLOC", b.addr, b.size, b.device))
           /\ HandledEvent(Event(0, "FREE", b.addr, 0, NA))
<1>1. b.addr \in Addrs /\ b.size \in Sizes /\ b.device \in Devices
  BY RegionShape
<1>2. HAL \in Pools /\ b.device # NA /\ 0 \in Nat
  BY <1>1, ManagerAssumption
<1> DEFINE e == Event(0, "MALLOC", b.addr, b.size, b.device)
           f == Event(0, "FREE", b.addr, 0, NA)
<1>3. e = [id |-> 0, type |-> "MALLOC", pool |-> HAL, addr |-> b.addr, size |-> b.size, device |-> b.device]
  BY DEF Event
<1>4. f = [id |-> 0, type |-> "FREE", pool |-> HAL, addr |-> b.addr, size |-> 0, device |-> NA]
  BY DEF Event
<1>5. e \in MemoryEvent
  BY <1>1, <1>2, <1>3 DEF MemoryEvent, EventTypes
<1>6. f \in MemoryEvent
  BY <1>1, <1>2, <1>4 DEF MemoryEvent, EventTypes
<1> QED BY <1>2, <1>3, <1>4, <1>5, <1>6 DEF HandledEvent

LEMMA SessionHal ==
    ASSUME SessionInv, TypeOK', NEW t \in Threads,
           \/ \E b \in setting.blocks : HalMemAlloc(t, b)
           \/ \E b \in heap : HalMemFree(t, b)
    PROVE  SessionInv'
<1>1. setting.blocks \subseteq Region /\ heap \subseteq Region /\ TypeOK /\ CalledOK /\ NumbersOK
  BY OutputAssumption DEF SessionInv, TypeOK
<1>2. t \in Actors /\ t # Controller
  BY ControllerApart
<1>3. PICK event : /\ Goes(t, "hook", event) /\ HandledEvent(event)
                   /\ event.type \in {"MALLOC", "FREE"}
  <2>1. CASE \E b \in setting.blocks : HalMemAlloc(t, b)
    <3>1. PICK b \in Region : HalMemAlloc(t, b)
      BY <1>1, <2>1
    <3> DEFINE e == Event(0, "MALLOC", b.addr, b.size, b.device)
    <3>2. HandledEvent(e) /\ Goes(t, "hook", e) /\ e.type \in {"MALLOC", "FREE"}
      BY <3>1, HookEvents DEF HalMemAlloc, Event
    <3> QED BY <3>2
  <2>2. CASE \E b \in heap : HalMemFree(t, b)
    <3>1. PICK b \in Region : HalMemFree(t, b)
      BY <1>1, <2>2
    <3> DEFINE e == Event(0, "FREE", b.addr, 0, NA)
    <3>2. HandledEvent(e) /\ Goes(t, "hook", e) /\ e.type \in {"MALLOC", "FREE"}
      BY <3>1, HookEvents DEF HalMemFree, Event
    <3> QED BY <3>2
  <2> QED BY <2>1, <2>2
<1>4. OthersStay(t) /\ call'[t].at = "hook" /\ call'[t].event = event
  BY <1>1, <1>2, <1>3, GoesTo
<1>5. UNCHANGED <<poolVars, sink, session, sessions, recordIndex>>
  BY DEF HalMemAlloc, HalMemFree, sessionVars
<1>6. CalledOK'
  <2>1. CalledEvent(event) /\ event.type \notin {"START", "STOP", "FLUSH"}
    BY <1>3 DEF CalledEvent, HandledEvent, MemoryEvent
  <2> QED BY <1>1, <1>2, <1>4, <2>1, CalledStep
<1>7. NumbersOK'
  <2>1. NewRows(t) /\ NewNumber(t)
    BY <1>4, <1>5 DEF NewRows, NewNumber, Numbered
  <2>2. recordIndex' \in Nat /\ recordIndex' >= recordIndex
    BY <1>1, <1>5 DEF NumbersOK
  <2> QED BY <1>1, <1>2, <1>4, <2>1, <2>2, NumbersStep
<1> QED BY <1>5, <1>6, <1>7, QuietSession

LEMMA SessionReport ==
    ASSUME SessionInv, TypeOK', NEW t \in Threads, ReportHalMalloc(t) \/ ReportHalFree(t)
    PROVE  SessionInv'
<1>1. TypeOK /\ CalledOK /\ NumbersOK
  BY DEF SessionInv
<1>2. t \in Actors /\ t # Controller
  BY ControllerApart
<1>3. call[t].at = "hook" /\ EventOf(t).type \in {"MALLOC", "FREE"}
  BY DEF ReportHalMalloc, ReportHalFree
<1>4. HandledEvent(EventOf(t))
  BY <1>1, <1>2, <1>3 DEF CalledOK, CalledEvent, EventTypes
<1>5. UNCHANGED <<poolVars, sink, session, sessions>>
  BY DEF ReportHalMalloc, ReportHalFree, sessionVars
<1>6. recordIndex \in Nat
  BY <1>1 DEF NumbersOK
<1>7. CASE \E ptrs : Passes(t, ptrs)
  <2> DEFINE event == [EventOf(t) EXCEPT !.id = recordIndex + 1]
  <2>1. recordIndex' = recordIndex + 1 /\ Goes(t, "checked", event)
    BY <1>7 DEF Passes
  <2>2. /\ HandledEvent(event) /\ event.type = EventOf(t).type /\ event.id = recordIndex + 1
    BY <1>4, <1>6 DEF HandledEvent, MemoryEvent
  <2> HIDE DEF event
  <2>3. /\ OthersStay(t) /\ call'[t].at = "checked" /\ call'[t].event = event
        /\ EventOf(t)' = event
    BY <1>1, <1>2, <2>1, GoesTo
  <2>4. CalledOK'
    <3>1. CalledEvent(event) /\ event.type \notin {"START", "STOP", "FLUSH"}
      BY <1>3, <2>2 DEF CalledEvent, HandledEvent, MemoryEvent
    <3> QED BY <1>1, <1>2, <2>3, <3>1, CalledStep
  <2>5. NumbersOK'
    <3>1. NewRows(t) /\ NewNumber(t)
      BY <1>5, <2>1, <2>2, <2>3 DEF NewRows, NewNumber
    <3>2. recordIndex' \in Nat /\ recordIndex' >= recordIndex
      BY <1>6, <2>1
    <3> QED BY <1>1, <1>2, <2>3, <3>1, <3>2, NumbersStep
  <2> QED BY <1>5, <2>4, <2>5, QuietSession
<1>8. CASE TurnsBack(t)
  <2>1. OthersStay(t) /\ call'[t].at = "out" /\ ~Numbered(t)'
    BY <1>1, <1>2, <1>8, ReturnsTo DEF TurnsBack
  <2>2. recordIndex' = recordIndex
    BY <1>8 DEF TurnsBack
  <2>3. CalledOK'
    BY <1>1, <1>2, <2>1, CalledStep
  <2>4. NewRows(t) /\ NewNumber(t)
    BY <1>5, <2>1 DEF NewRows, NewNumber
  <2>5. NumbersOK'
    BY <1>1, <1>2, <1>6, <2>1, <2>2, <2>4, NumbersStep
  <2> QED BY <1>5, <2>3, <2>5, QuietSession
<1> QED BY <1>7, <1>8 DEF ReportHalMalloc, ReportHalFree

\* A mark, or a switch of the controller.
LEMMA SessionSwitch ==
    ASSUME SessionInv, TypeOK', NEW a \in Actors, NEW type, NEW d \in Devices \cup {NA},
           Goes(a, "checked", Event(recordIndex + 1, type, 0, 0, d)),
           a \in Threads => type = "MARK", a = Controller => type \in {"START", "STOP"},
           recordIndex' = recordIndex + 1, UNCHANGED <<poolVars, sink, session, sessions>>
    PROVE  SessionInv'
<1>1. TypeOK /\ CalledOK /\ NumbersOK /\ recordIndex \in Nat
  BY DEF SessionInv, NumbersOK
<1> DEFINE event == Event(recordIndex + 1, type, 0, 0, d)
<1>2. event.type = type /\ event.id = recordIndex + 1 /\ event.device = d
  BY DEF Event
<1> HIDE DEF event
<1>3. /\ OthersStay(a) /\ call'[a].at = "checked" /\ call'[a].event = event
      /\ EventOf(a)' = event
  BY <1>1, GoesTo DEF event
<1>4. CalledOK'
  <2>1. type \in {"MARK", "START", "STOP"}
    BY ControllerApart
  <2>2. CalledEvent(event)
    BY <1>1, <1>2, <2>1 DEF CalledEvent, EventTypes
  <2>3. /\ a \in Threads => event.type \notin {"START", "STOP", "FLUSH"}
        /\ a = Controller => event.type \in {"START", "STOP", "FLUSH"}
    BY <1>2
  <2> QED BY <1>1, <1>3, <2>2, <2>3, CalledStep
<1>5. NumbersOK'
  <2>1. NewRows(a) /\ NewNumber(a)
    BY <1>2, <1>3 DEF NewRows, NewNumber
  <2>2. recordIndex' \in Nat /\ recordIndex' >= recordIndex
    BY <1>1
  <2> QED BY <1>1, <1>3, <2>1, <2>2, NumbersStep
<1> QED BY <1>4, <1>5, QuietSession

\* A session begins.
LEMMA BegunSink ==
    ASSUME SinkHolds(sink), sessions \in Nat, session = 0,
           session' = sessions + 1, sessions' = sessions + 1, sink' = sink
    PROVE  SinkHolds(sink)'
<1>1. /\ sink \in Sinks /\ IsFiniteSet(LiveKeys(sink.states)) /\ DevicesKnown(sink.states)
      /\ GivenOK(sink.given, sessions) /\ SharedOK(sink.dump.shared, sink.given, 0)
      /\ \A d \in DOMAIN sink.dump.files : FileOK(sink.dump.files[d].rows, d, sink.given, 0, sessions)
  BY DEF SinkHolds, FilesHold
<1>2. GivenOK(sink.given, sessions + 1)
  BY <1>1 DEF GivenOK
<1>3. SharedOK(sink.dump.shared, sink.given, sessions + 1)
  <2>1. \A g \in sink.given : g.session # sessions + 1
    BY <1>1 DEF GivenOK
  <2> QED BY <1>1, <2>1 DEF SharedOK
<1>4. \A d \in DOMAIN sink.dump.files :
         FileOK(sink.dump.files[d].rows, d, sink.given, sessions + 1, sessions + 1)
  BY <1>1, BegunFile
<1> QED BY <1>1, <1>2, <1>3, <1>4 DEF SinkHolds, FilesHold

LEMMA SessionEnter ==
    ASSUME SessionInv, TypeOK', NEW a \in Actors, Enter(a)
    PROVE  SessionInv'
<1>1. TypeOK /\ CalledOK /\ NumbersOK /\ SinkHolds(sink) /\ PoolsOK /\ recordIndex \in Nat
  BY DEF SessionInv, NumbersOK
<1>2. /\ OthersStay(a) /\ call[a].at = "checked" /\ call'[a].at = "inside" /\ call'[a].event = EventOf(a)
      /\ EventOf(a)' = EventOf(a)
  BY <1>1 DEF Enter, TypeOK, CallsOK, OthersStay, EventOf
<1>3. UNCHANGED <<poolVars, sink, recordIndex>>
  BY DEF Enter
<1>4. CalledOK'
  <2>1. /\ CalledEvent(EventOf(a))
        /\ a \in Threads => EventOf(a).type \notin {"START", "STOP", "FLUSH"}
        /\ a = Controller => EventOf(a).type \in {"START", "STOP", "FLUSH"}
    BY <1>1, <1>2 DEF CalledOK
  <2> QED BY <1>1, <1>2, <2>1, CalledStep
<1>5. NumbersOK'
  <2>1. Numbered(a)' => Numbered(a)
    BY <1>2 DEF Numbered
  <2>2. NewRows(a) /\ NewNumber(a)
    BY <1>2, <1>3, <2>1 DEF NewRows, NewNumber
  <2>3. recordIndex' \in Nat /\ recordIndex' >= recordIndex
    BY <1>1, <1>3
  <2> QED BY <1>1, <1>2, <2>2, <2>3, NumbersStep
<1>6. SinkHolds(sink)'
  <2>1. CASE UNCHANGED <<session, sessions>>
    BY <1>1, <1>3, <2>1, SinkSame
  <2>2. CASE session = 0 /\ session' = sessions + 1 /\ sessions' = sessions + 1
    <3>1. sessions \in Nat
      BY <1>1 DEF TypeOK
    <3> QED BY <1>1, <1>3, <2>2, <3>1, BegunSink
  <2> QED BY <2>1, <2>2 DEF Enter
<1>7. PoolsOK'
  BY <1>1, <1>3, PoolsSame
<1> QED BY <1>4, <1>5, <1>6, <1>7 DEF SessionInv

\* RecordHandler of a call that has a number.
LEMMA SessionHandled ==
    ASSUME SessionInv, NEW a \in Actors, Numbered(a), ~Numbered(a)',
           sink' = EventHandler(sink, EventOf(a)), UNCHANGED <<session, sessions>>
    PROVE  SinkHolds(sink)' /\ NewRows(a)
<1> DEFINE e == EventOf(a)
           r == EventHandler(sink, e)
<1>1. /\ SinkHolds(sink) /\ sessions \in Nat /\ session \in 0 .. sessions
      /\ \A g \in sink.given : g.id # e.id
  BY DEF SessionInv, TypeOK, NumbersOK
<1>2. CalledEvent(e) /\ e.type # "FLUSH"
  BY DEF SessionInv, CalledOK, Numbered
<1> HIDE DEF e
<1>3. SinkHolds(r) /\ \A g \in r.given : g \in sink.given \/ g.id = e.id
  BY <1>1, <1>2, EventHandled
<1>4. sink' = r
  BY DEF e
<1> HIDE DEF r
<1>5. SinkHolds(sink)'
  BY <1>3, <1>4 DEF SinkHolds
<1>6. NewRows(a)
  BY <1>3, <1>4 DEF NewRows, e
<1> QED BY <1>5, <1>6

LEMMA SessionLeave ==
    ASSUME SessionInv, TypeOK', NEW t \in Threads, Leave(t)
    PROVE  SessionInv'
<1>1. TypeOK /\ CalledOK /\ NumbersOK /\ PoolsOK /\ recordIndex \in Nat
  BY DEF SessionInv, NumbersOK
<1>2. t \in Actors /\ t # Controller
  BY ControllerApart
<1>3. call[t].at = "inside" /\ Numbered(t)
  <2>1. call[t].at = "inside"
    BY DEF Leave
  <2>2. EventOf(t).type # "FLUSH"
    BY <1>1, <1>2, <2>1 DEF CalledOK
  <2> QED BY <2>1, <2>2 DEF Numbered
<1>4. OthersStay(t) /\ call'[t].at = "out" /\ ~Numbered(t)'
  BY <1>1, <1>2, ReturnsTo DEF Leave
<1>5. /\ sink' = EventHandler(sink, EventOf(t))
      /\ UNCHANGED <<poolVars, session, sessions, recordIndex>>
  BY DEF Leave, RecordHandler, sessionVars
<1>6. SinkHolds(sink)' /\ NewRows(t)
  BY <1>2, <1>3, <1>4, <1>5, SessionHandled
<1>7. CalledOK'
  BY <1>1, <1>2, <1>4, CalledStep
<1>8. NumbersOK'
  <2>1. NewNumber(t)
    BY <1>4 DEF NewNumber
  <2>2. recordIndex' \in Nat /\ recordIndex' >= recordIndex
    BY <1>1, <1>5
  <2> QED BY <1>1, <1>2, <1>4, <1>6, <2>1, <2>2, NumbersStep
<1>9. PoolsOK'
  BY <1>1, <1>5, PoolsSame
<1> QED BY <1>6, <1>7, <1>8, <1>9 DEF SessionInv

\* The flush leaves the files as they have to be between sessions.
LEMMA FlushedSink ==
    ASSUME NEW s, SinkHolds(s), sessions \in Nat, session \in 0 .. sessions,
           sink' = [s EXCEPT !.dump = WritePublicEventToFile(@)],
           session' = 0, sessions' = sessions
    PROVE  SinkHolds(sink)' /\ sink'.given = s.given
<1> DEFINE r == [s EXCEPT !.dump = WritePublicEventToFile(@)]
<1>1. FlushHolds(r, sessions) /\ r.given = s.given
  BY Flushed
<1>2. sink' = r
  OBVIOUS
<1> HIDE DEF r
<1> QED BY <1>1, <1>2 DEF FlushHolds, SinkHolds

LEMMA SessionLeaveSwitch ==
    ASSUME SessionInv, TypeOK', LeaveSwitch
    PROVE  SessionInv'
<1> DEFINE a == Controller
           e == EventOf(a)
<1>1. /\ TypeOK /\ CalledOK /\ NumbersOK /\ PoolsOK /\ SinkHolds(sink) /\ recordIndex \in Nat
      /\ sessions \in Nat /\ session \in 0 .. sessions
  BY DEF SessionInv, NumbersOK, TypeOK
<1>2. a \in Actors /\ a \notin Threads
  BY ControllerApart
<1>3. call[a].at = "inside" /\ e.type \in {"START", "STOP", "FLUSH"}
  <2>1. call[a].at = "inside"
    BY DEF LeaveSwitch
  <2> QED BY <1>1, <1>2, <2>1 DEF CalledOK
<1>4. /\ sink' = EventHandler(sink, e) /\ UNCHANGED <<poolVars, sessions, recordIndex>>
      /\ session' = IF e.type = "FLUSH" THEN 0 ELSE session
  BY DEF LeaveSwitch, RecordHandler
<1>5. OthersStay(a) /\ ~Numbered(a)' /\ CalledOK'
  <2> DEFINE flush == NoEvent("FLUSH")
  <2>1. CASE e.type = "STOP"
    <3>1. Goes(a, "checked", flush)
      BY <2>1 DEF LeaveSwitch, Goes
    <3>2. OthersStay(a) /\ call'[a].event = flush /\ EventOf(a)' = flush
      BY <1>1, <1>2, <3>1, GoesTo
    <3>3. flush.type = "FLUSH" /\ flush.id = 0 /\ flush.device = NA
      BY DEF NoEvent, Event
    <3>4. CalledEvent(flush)
      BY <3>3 DEF CalledEvent, EventTypes
    <3>5. CalledOK'
      BY <1>1, <1>2, <3>2, <3>3, <3>4, CalledStep
    <3>6. ~Numbered(a)'
      BY <3>2, <3>3 DEF Numbered
    <3> QED BY <3>2, <3>5, <3>6
  <2>2. CASE e.type # "STOP"
    <3>1. OthersStay(a) /\ call'[a].at = "out" /\ ~Numbered(a)'
      BY <1>1, <1>2, <2>2, ReturnsTo DEF LeaveSwitch
    <3> QED BY <1>1, <1>2, <3>1, CalledStep
  <2> QED BY <2>1, <2>2
<1>6. SinkHolds(sink)' /\ NewRows(a)
  <2>1. CASE e.type = "FLUSH"
    <3>1. sink' = [sink EXCEPT !.dump = WritePublicEventToFile(@)] /\ session' = 0
      BY <1>4, <2>1 DEF EventHandler, EventTypes
    <3>2. SinkHolds(sink)' /\ sink'.given = sink.given
      BY <1>1, <1>4, <3>1, FlushedSink
    <3> QED BY <3>2 DEF NewRows
  <2>2. CASE e.type # "FLUSH"
    <3>1. Numbered(a) /\ session' = session
      BY <1>3, <1>4, <2>2 DEF Numbered
    <3> QED BY <1>2, <1>4, <1>5, <3>1, SessionHandled
  <2> QED BY <2>1, <2>2
<1>7. NumbersOK'
  <2>1. NewNumber(a)
    BY <1>5 DEF NewNumber
  <2>2. recordIndex' \in Nat /\ recordIndex' >= recordIndex
    BY <1>1, <1>4
  <2> QED BY <1>1, <1>2, <1>5, <1>6, <2>1, <2>2, NumbersStep
<1>8. PoolsOK'
  BY <1>1, <1>4, PoolsSame
<1> QED BY <1>5, <1>6, <1>7, <1>8 DEF SessionInv

LEMMA SessionExit ==
    ASSUME SessionInv, TypeOK', Exit
    PROVE  SessionInv'
<1>1. /\ TypeOK /\ CalledOK /\ NumbersOK /\ PoolsOK /\ SinkHolds(sink) /\ recordIndex \in Nat
      /\ sessions \in Nat /\ session \in 0 .. sessions
  BY DEF SessionInv, NumbersOK, TypeOK
<1> DEFINE s == AllCleanedUp(sink)
<1>2. SinkHolds(s) /\ s.given = sink.given
  BY <1>1, AllCleanedUpHolds
<1>3. /\ sink' = [s EXCEPT !.dump = WritePublicEventToFile(@)]
      /\ session' = 0 /\ UNCHANGED <<poolVars, sessions, call, recordIndex>>
  BY DEF Exit, AllCleanedUp
<1> HIDE DEF s
<1>4. SinkHolds(sink)' /\ sink'.given = sink.given
  BY <1>1, <1>2, <1>3, FlushedSink
<1>5. CalledOK' /\ NumbersOK'
  BY <1>1, <1>3, <1>4 DEF CalledOK, NumbersOK, Numbered, EventOf
<1>6. PoolsOK'
  BY <1>1, <1>3, PoolsSame
<1> QED BY <1>4, <1>5, <1>6 DEF SessionInv

------------------------------------------------------------------------------------
\* A tracer with another usage of a device and other heaps.
Reheaps(u, t, d, usage, heaps) ==
    /\ u.heaps = heaps /\ u.regions = t.regions
    /\ Usage(u, d) = usage
    /\ \A e \in Devices \ {d} : Usage(u, e) = Usage(t, e)

LEMMA OtherHeaps ==
    ASSUME NEW t \in Tracers, NEW d \in Devices, NEW usage \in Usages, NEW heaps \in Maps(Addrs, Region)
    PROVE  LET u == [t EXCEPT !.usage = With(@, d, usage), !.heaps = heaps]
           IN  u \in Tracers /\ Reheaps(u, t, d, usage, heaps)
<1> DEFINE u == [t EXCEPT !.usage = With(@, d, usage), !.heaps = heaps]
           new == With(t.usage, d, usage)
<1>1. /\ t.usage \in Maps(Devices, Usages) /\ t.regions \in Maps(Nat, Region)
      /\ IsFiniteSet(DOMAIN t.regions)
  BY DEF Tracers
<1>2. new \in Maps(Devices, Usages) /\ Adds(new, t.usage, d, usage)
  BY <1>1, WithMap
<1>3. u = [usage |-> new, heaps |-> heaps, regions |-> t.regions]
  <2>1. u = [t EXCEPT !.usage = new, !.heaps = heaps]
    OBVIOUS
  <2> HIDE DEF u, new
  <2> QED BY <2>1 DEF Tracers
<1> HIDE DEF new, u
<1>4. u \in Tracers
  BY <1>1, <1>2, <1>3 DEF Tracers
<1>5. u.usage = new /\ u.regions = t.regions /\ u.heaps = heaps
  BY <1>3
<1>6. Usage(u, d) = usage
  BY <1>2, <1>5 DEF Usage, Adds
<1>7. \A e \in Devices \ {d} : Usage(u, e) = Usage(t, e)
  BY <1>2, <1>5 DEF Usage, Adds
<1> QED BY <1>4, <1>5, <1>6, <1>7 DEF u, Reheaps

\* The tracer t becomes u when a heap is registered; only ATB's total is a sum.
TakesHeap(p, t, u, block) ==
    /\ u.regions = t.regions
    /\ Adds(u.heaps, t.heaps, block.addr, block)
    /\ \A d \in Devices :
          /\ Usage(u, d).used = Usage(t, d).used
          /\ p = "atb" => Usage(u, d).reserved =
                             IF d = block.device THEN Usage(t, d).reserved + block.size
                                                ELSE Usage(t, d).reserved

LEMMA AllocateOne ==
    ASSUME NEW p \in TracerNames, NEW t \in Tracers, NEW block \in Region
    PROVE  Allocate(p, t, block) \in Tracers /\ TakesHeap(p, t, Allocate(p, t, block), block)
<1> DEFINE usage == Usage(t, block.device)
           sum == IF p = "atb" THEN usage.reserved + block.size ELSE block.size
           after == [usage EXCEPT !.reserved = sum]
           heaps == With(t.heaps, block.addr, block)
           u == Allocate(p, t, block)
<1>1. /\ block.addr \in Addrs /\ block.device \in Devices /\ block.size \in Int
  BY RegionShape
<1>2. usage \in Usages
  BY <1>1, UsageType
<1>3. after \in Usages /\ after.used = usage.used /\ after.reserved = sum
  BY <1>1, <1>2 DEF Usages
<1>4. heaps \in Maps(Addrs, Region) /\ Adds(heaps, t.heaps, block.addr, block)
  <2>1. t.heaps \in Maps(Addrs, Region)
    BY DEF Tracers
  <2> QED BY <1>1, <2>1, WithMap
<1>5. u = [t EXCEPT !.usage = With(@, block.device, after), !.heaps = heaps]
  BY DEF Allocate
<1> HIDE DEF after, heaps, u
<1>6. u \in Tracers /\ Reheaps(u, t, block.device, after, heaps)
  BY <1>1, <1>3, <1>4, <1>5, OtherHeaps
<1>7. TakesHeap(p, t, u, block)
  BY <1>3, <1>4, <1>6 DEF TakesHeap, Reheaps
<1> QED BY <1>6, <1>7 DEF u

\* It becomes u when the heap of the handle is given up.
GivesHeap(p, t, u, handle) ==
    /\ u.regions = t.regions
    /\ handle \notin DOMAIN t.heaps => u = t
    /\ handle \in DOMAIN t.heaps /\ p = "atb" => Cuts(u.heaps, t.heaps, {handle})
    /\ \A d \in Devices :
          /\ Usage(u, d).used = Usage(t, d).used
          /\ handle \in DOMAIN t.heaps =>
                Usage(u, d).reserved =
                   IF d = t.heaps[handle].device THEN Usage(t, d).reserved - t.heaps[handle].size
                                                 ELSE Usage(t, d).reserved

LEMMA DeallocateOne ==
    ASSUME NEW p \in TracerNames, NEW t \in Tracers, NEW handle
    PROVE  Deallocate(p, t, handle) \in Tracers /\ GivesHeap(p, t, Deallocate(p, t, handle), handle)
<1> DEFINE block == t.heaps[handle]
           usage == Usage(t, block.device)
           after == [usage EXCEPT !.reserved = @ - block.size]
           heaps == IF p = "atb" THEN Funs!Restrict(t.heaps, DOMAIN t.heaps \ {handle}) ELSE t.heaps
           u == Deallocate(p, t, handle)
<1>1. t.heaps \in Maps(Addrs, Region) /\ DOMAIN t.heaps \subseteq Addrs
  <2>1. t.heaps \in Maps(Addrs, Region)
    BY DEF Tracers
  <2> QED BY <2>1, MapShape
<1>2. handle \in DOMAIN t.heaps => handle # NoHandle
  BY <1>1, OutputAssumption
<1>3. CASE handle \notin DOMAIN t.heaps
  <2>1. u = t
    BY <1>3 DEF Deallocate
  <2> QED BY <1>3, <2>1 DEF GivesHeap
<1>4. CASE handle \in DOMAIN t.heaps
  <2>1. block \in Region
    BY <1>1, <1>4, MapShape
  <2>2. block.device \in Devices /\ block.size \in Int
    BY <2>1, RegionShape
  <2>3. u = [t EXCEPT !.usage = With(@, block.device, after), !.heaps = heaps]
    BY <1>2, <1>4 DEF Deallocate
  <2> HIDE DEF block, u
  <2>4. usage \in Usages
    BY <2>2, UsageType
  <2>5. after \in Usages /\ after.used = usage.used /\ after.reserved = usage.reserved - block.size
    BY <2>2, <2>4 DEF Usages
  <2>6. heaps \in Maps(Addrs, Region) /\ (p = "atb" => Cuts(heaps, t.heaps, {handle}))
    <3>1. CASE p = "atb"
      <4>1. heaps = Funs!Restrict(t.heaps, DOMAIN t.heaps \ {handle})
        BY <3>1
      <4> HIDE DEF heaps
      <4> QED BY <1>1, <4>1, RestrictedMap
    <3>2. CASE p # "atb"
      BY <1>1, <3>2
    <3> QED BY <3>1, <3>2
  <2> HIDE DEF after, heaps
  <2>7. u \in Tracers /\ Reheaps(u, t, block.device, after, heaps)
    BY <2>2, <2>3, <2>5, <2>6, OtherHeaps
  <2>8. GivesHeap(p, t, u, handle)
    BY <1>4, <2>5, <2>6, <2>7 DEF GivesHeap, Reheaps, block
  <2> QED BY <2>7, <2>8 DEF u
<1> QED BY <1>3, <1>4

\* The batches that are registered, and their entries at the client.
LEMMA BatchType ==
    ASSUME setting \in Settings, NEW batch \in setting.batches
    PROVE  /\ batch \in Seq(Region)
           /\ \A i, j \in 1 .. Len(batch) : batch[i].addr = batch[j].addr => i = j
BY OutputAssumption DEF Batches

Entries(batch, keys) == {[region |-> batch[i], key |-> keys[i]] : i \in 1 .. Len(batch)}

LEMMA EntriesType ==
    ASSUME NEW batch \in Seq(Region), NEW keys \in Seq(Keys), Len(keys) = Len(batch)
    PROVE  Entries(batch, keys) \subseteq HeldKey /\ IsFiniteSet(Entries(batch, keys))
<1> DEFINE n == Len(batch)
           f == [i \in 1 .. n |-> [region |-> batch[i], key |-> keys[i]]]
           S == Entries(batch, keys)
<1>1. \A i \in 1 .. n : batch[i] \in Region /\ keys[i] \in Keys
  OBVIOUS
<1>2. S \subseteq HeldKey
  BY <1>1 DEF Entries, HeldKey
<1>3. f \in Surjection(1 .. n, S)
  <2>1. f \in [1 .. n -> S]
    BY DEF Entries
  <2>2. \A x \in S : \E i \in 1 .. n : f[i] = x
    BY DEF Entries
  <2> HIDE DEF f, S
  <2> QED BY <2>1, <2>2 DEF Surjection
<1>4. IsFiniteSet(1 .. n)
  BY FS_Interval
<1> HIDE DEF f, S, n
<1>5. IsFiniteSet(S)
  BY <1>3, <1>4, FS_Surjection
<1> QED BY <1>2, <1>5 DEF S

\* A pool call writes at most rows of its device.
LEMMA SessionPoolCall ==
    ASSUME SessionInv, TypeOK', PoolCall, PoolsOK',
           \/ UNCHANGED <<recordIndex, sink>>
           \/ \E records \in Seq(PoolRecords) : ReportMemPoolRecords(records)
    PROVE  SessionInv'
<1>1. /\ TypeOK /\ CalledOK /\ NumbersOK /\ SinkHolds(sink) /\ recordIndex \in Nat
      /\ setting \in Settings /\ sessions \in Nat /\ session \in 0 .. sessions
  BY DEF SessionInv, NumbersOK, TypeOK
<1>2. UNCHANGED <<session, sessions, call>>
  BY DEF PoolCall, sessionVars
<1>3. /\ SinkHolds(sink)' /\ sink'.given = sink.given
      /\ recordIndex' \in Nat /\ recordIndex' >= recordIndex
  <2>1. CASE UNCHANGED <<recordIndex, sink>>
    BY <1>1, <1>2, <2>1, SinkSame
  <2>2. CASE \E records \in Seq(PoolRecords) : ReportMemPoolRecords(records)
    <3>1. PICK records \in Seq(PoolRecords) : ReportMemPoolRecords(records)
      BY <2>2
    <3>2. CASE ~tracing
      <4>1. UNCHANGED <<recordIndex, sink>>
        BY <3>1, <3>2 DEF ReportMemPoolRecords
      <4> QED BY <2>1, <4>1
    <3>3. CASE tracing
      <4> DEFINE r == Reported(records)
      <4>1. sink' = r /\ recordIndex' = recordIndex + Len(records)
        BY <3>1, <3>3 DEF ReportMemPoolRecords, Reported
      <4>2. SinkHolds(r) /\ r.given = sink.given
        BY <1>1, ReportedHolds
      <4>3. Len(records) \in Nat
        OBVIOUS
      <4> HIDE DEF r
      <4>4. SinkHolds(sink)'
        BY <1>2, <4>1, <4>2 DEF SinkHolds
      <4> QED BY <1>1, <4>1, <4>2, <4>3, <4>4
    <3> QED BY <3>2, <3>3
  <2> QED BY <2>1, <2>2
<1>4. CalledOK'
  BY <1>1, <1>2 DEF CalledOK, EventOf
<1>5. NumbersOK'
  <2>1. \A a \in Actors : (Numbered(a)' <=> Numbered(a)) /\ EventOf(a)' = EventOf(a)
    BY <1>2 DEF Numbered, EventOf
  <2>2. \A i \in 0 .. recordIndex : i \in 0 .. recordIndex'
    BY <1>1, <1>3
  <2>3. /\ \A g \in sink.given : g.id \in 0 .. recordIndex
        /\ \A a \in Actors :
              Numbered(a) => EventOf(a).id \in 0 .. recordIndex /\ \A g \in sink.given : g.id # EventOf(a).id
        /\ \A a, b \in Actors :
              Numbered(a) /\ Numbered(b) /\ EventOf(a).id = EventOf(b).id => a = b
    BY <1>1 DEF NumbersOK
  <2> QED BY <1>3, <2>1, <2>2, <2>3 DEF NumbersOK
<1> QED BY <1>3, <1>4, <1>5 DEF SessionInv

\* One client changes.
LEMMA ClientStep ==
    ASSUME PoolsOK, tracers' \in [TracerNames -> Tracers], NEW c \in Clients, NEW new \in ClientStates,
           clients' = [clients EXCEPT ![c] = new]
    PROVE  PoolsOK'
BY DEF PoolsOK

LEMMA ClientFields ==
    ASSUME PoolsOK, TypeOK, NEW c \in Clients
    PROVE  /\ clients[c] \in ClientStates
           /\ clients[c] = [domain |-> clients[c].domain, heaps |-> clients[c].heaps,
                            regions |-> clients[c].regions]
           /\ clients[c].domain \in TracerNames \cup {NotAsked, NullDomain}
           /\ clients[c].heaps \subseteq HeldKey /\ IsFiniteSet(clients[c].heaps)
           /\ clients[c].regions \subseteq HeldKey /\ IsFiniteSet(clients[c].regions)
           /\ Traced(c) => TracerFor(c) \in TracerNames /\ tracers[TracerFor(c)] \in Tracers
BY DEF PoolsOK, TypeOK, ClientStates, Traced, TracerFor

LEMMA ClientMade ==
    ASSUME NEW domain \in TracerNames \cup {NotAsked, NullDomain},
           NEW heaps, heaps \subseteq HeldKey, IsFiniteSet(heaps),
           NEW regions, regions \subseteq HeldKey, IsFiniteSet(regions)
    PROVE  [domain |-> domain, heaps |-> heaps, regions |-> regions] \in ClientStates
BY DEF ClientStates

\* What a client's tracer makes of a batch that is registered.
Realloc(c, batch) ==
    IF Traced(c) THEN Reallocate(TracerFor(c), tracers[TracerFor(c)], batch)
    ELSE [records |-> << >>, keys |-> [i \in 1 .. Len(batch) |-> NoHandle]]

LEMMA ReallocType ==
    ASSUME PoolsOK, TypeOK, NEW c \in Clients, NEW batch \in setting.batches
    PROVE  /\ Realloc(c, batch).records \in Seq(PoolRecords)
           /\ Realloc(c, batch).keys \in Seq(Keys) /\ Len(Realloc(c, batch).keys) = Len(batch)
           /\ Traced(c) => Realloc(c, batch).tracer \in Tracers
<1>1. batch \in Seq(Region) /\ Len(batch) \in Nat
  <2>1. batch \in Seq(Region)
    BY BatchType DEF TypeOK
  <2> QED BY <2>1
<1>2. CASE Traced(c)
  <2> DEFINE p == TracerFor(c)
             r == Reallocate(p, tracers[p], batch)
  <2>1. p \in TracerNames /\ tracers[p] \in Tracers
    BY <1>2, ClientFields
  <2>2. r \in Dones /\ Len(r.keys) = Len(batch)
    BY <1>1, <2>1, ReallocateType
  <2>3. Realloc(c, batch) = r
    BY <1>2 DEF Realloc
  <2> HIDE DEF r
  <2> QED BY <2>2, <2>3 DEF Dones
<1>3. CASE ~Traced(c)
  <2>1. Realloc(c, batch) = [records |-> << >>, keys |-> [i \in 1 .. Len(batch) |-> NoHandle]]
    BY <1>3 DEF Realloc
  <2>2. [i \in 1 .. Len(batch) |-> NoHandle] \in Seq(Keys)
    BY <1>1 DEF Keys
  <2>3. Len([i \in 1 .. Len(batch) |-> NoHandle]) = Len(batch)
    BY <1>1
  <2> QED BY <1>3, <2>1, <2>2, <2>3
<1> QED BY <1>2, <1>3

\* What it makes of regions that are given up.
KeyList(regions) ==
    LET list == Seqs!SetToSeq(regions) IN [i \in 1 .. Len(list) |-> list[i].key]

Releases(c, regions) ==
    IF Traced(c) THEN Release(TracerFor(c), tracers[TracerFor(c)], KeyList(regions))
    ELSE [records |-> << >>]

LEMMA ReleasesType ==
    ASSUME PoolsOK, TypeOK, NEW c \in Clients, NEW regions, regions \subseteq clients[c].regions
    PROVE  /\ Releases(c, regions).records \in Seq(PoolRecords)
           /\ Traced(c) => Releases(c, regions).tracer \in Tracers
<1>1. CASE Traced(c)
  <2> DEFINE p == TracerFor(c)
             r == Release(p, tracers[p], KeyList(regions))
             list == Seqs!SetToSeq(regions)
  <2>1. p \in TracerNames /\ tracers[p] \in Tracers
    BY <1>1, ClientFields
  <2>2. list \in Seq(regions)
    <3>1. IsFiniteSet(regions)
      BY ClientFields, FS_Subset
    <3> QED BY <3>1, SequenceOfSet
  <2>3. \A x \in regions : x.key \in Keys
    BY ClientFields DEF HeldKey
  <2> HIDE DEF list
  <2>4. KeyList(regions) \in Seq(Keys)
    <3>1. \A i \in 1 .. Len(list) : list[i].key \in Keys
      BY <2>2, <2>3
    <3>2. Len(list) \in Nat
      BY <2>2
    <3> QED BY <3>1, <3>2 DEF KeyList, list
  <2>5. r \in Dones
    BY <2>1, <2>4, ReleaseType
  <2>6. Releases(c, regions) = r
    BY <1>1 DEF Releases
  <2> HIDE DEF r
  <2> QED BY <2>5, <2>6 DEF Dones
<1>2. CASE ~Traced(c)
  BY <1>2 DEF Releases
<1> QED BY <1>1, <1>2

LEMMA TracerStep ==
    ASSUME PoolsOK, TypeOK, NEW c \in Clients, NEW u, Traced(c) => u \in Tracers,
           tracers' = IF Traced(c) THEN [tracers EXCEPT ![TracerFor(c)] = u] ELSE tracers
    PROVE  tracers' \in [TracerNames -> Tracers]
BY DEF PoolsOK

LEMMA PoolsDomainCreate ==
    ASSUME PoolsOK, TypeOK, NEW c \in Clients, DomainCreate(c)
    PROVE  PoolsOK'
<1> DEFINE domain == IF tracing THEN ReportDomainCreateA(setting.pools[c]) ELSE NullDomain
<1>1. domain \in TracerNames \cup {NotAsked, NullDomain}
  BY DEF ReportDomainCreateA
<1>2. clients' = [clients EXCEPT ![c].domain = domain] /\ tracers' = tracers
  BY DEF DomainCreate
<1> HIDE DEF domain
<1> DEFINE new == [domain |-> domain, heaps |-> clients[c].heaps, regions |-> clients[c].regions]
<1>3. new \in ClientStates
  BY <1>1, ClientFields, ClientMade
<1>4. [clients[c] EXCEPT !.domain = domain] = new
  <2>1. clients[c] \in ClientStates
    BY ClientFields
  <2> QED BY ONLY <2>1 DEF ClientStates, new
<1> HIDE DEF new
<1>5. clients' = [clients EXCEPT ![c] = new]
  BY <1>2, <1>4
<1> QED BY <1>2, <1>3, <1>5, ClientStep DEF PoolsOK

LEMMA PoolsHeapRegister ==
    ASSUME PoolsOK, TypeOK, NEW c \in Clients, NEW h \in setting.heaps, HeapRegister(c, h)
    PROVE  PoolsOK'
<1> DEFINE p == TracerFor(c)
           handle == IF Traced(c) THEN HeapHandle(p, h) ELSE NoHandle
           held == [region |-> h, key |-> handle]
           heaps == clients[c].heaps \cup {held}
           new == [domain |-> clients[c].domain, heaps |-> heaps, regions |-> clients[c].regions]
           u == Allocate(p, tracers[p], h)
<1>1. h \in Region /\ h.addr \in Nat
  <2>1. h \in Region
    BY OutputAssumption DEF TypeOK
  <2> QED BY <2>1, RegionShape
<1>2. held \in HeldKey
  BY <1>1 DEF HeldKey, Keys, HeapHandle
<1>3. /\ clients' = [clients EXCEPT ![c].heaps = @ \cup {held}]
      /\ tracers' = IF Traced(c) THEN [tracers EXCEPT ![p] = u] ELSE tracers
  BY DEF HeapRegister
<1>4. Traced(c) => u \in Tracers
  BY <1>1, ClientFields, AllocateOne
<1> HIDE DEF u, held
<1>5. tracers' \in [TracerNames -> Tracers]
  BY <1>3, <1>4, TracerStep
<1>6. heaps \subseteq HeldKey /\ IsFiniteSet(heaps)
  BY <1>2, ClientFields, FS_AddElement
<1>7. new \in ClientStates
  BY <1>6, ClientFields, ClientMade
<1>8. [clients[c] EXCEPT !.heaps = @ \cup {held}] = new
  <2>1. clients[c] \in ClientStates
    BY ClientFields
  <2> QED BY ONLY <2>1 DEF ClientStates, new
<1> HIDE DEF new
<1>9. clients' = [clients EXCEPT ![c] = new]
  BY <1>3, <1>8
<1> QED BY <1>5, <1>7, <1>9, ClientStep

LEMMA PoolsHeapUnregister ==
    ASSUME PoolsOK, TypeOK, NEW c \in Clients, NEW x \in clients[c].heaps, HeapUnregister(c, x)
    PROVE  PoolsOK'
<1> DEFINE p == TracerFor(c)
           heaps == clients[c].heaps \ {x}
           new == [domain |-> clients[c].domain, heaps |-> heaps, regions |-> clients[c].regions]
           u == Deallocate(p, tracers[p], x.key)
<1>1. /\ clients' = [clients EXCEPT ![c].heaps = @ \ {x}]
      /\ tracers' = IF Traced(c) THEN [tracers EXCEPT ![p] = u] ELSE tracers
  BY DEF HeapUnregister
<1>2. Traced(c) => u \in Tracers
  BY ClientFields, DeallocateOne
<1> HIDE DEF u
<1>3. tracers' \in [TracerNames -> Tracers]
  BY <1>1, <1>2, TracerStep
<1>4. heaps \subseteq HeldKey /\ IsFiniteSet(heaps)
  BY ClientFields, FS_Subset
<1>5. new \in ClientStates
  BY <1>4, ClientFields, ClientMade
<1>6. [clients[c] EXCEPT !.heaps = @ \ {x}] = new
  <2>1. clients[c] \in ClientStates
    BY ClientFields
  <2> QED BY ONLY <2>1 DEF ClientStates, new
<1> HIDE DEF new
<1>7. clients' = [clients EXCEPT ![c] = new]
  BY <1>1, <1>6
<1> QED BY <1>3, <1>5, <1>7, ClientStep

LEMMA PoolsRegionsRegister ==
    ASSUME PoolsOK, TypeOK, NEW c \in Clients, NEW batch \in setting.batches, RegionsRegister(c, batch)
    PROVE  PoolsOK' /\ \E records \in Seq(PoolRecords) : ReportMemPoolRecords(records)
<1> DEFINE p == TracerFor(c)
           done == Realloc(c, batch)
           entries == Entries(batch, done.keys)
           regions == clients[c].regions \cup entries
           new == [domain |-> clients[c].domain, heaps |-> clients[c].heaps, regions |-> regions]
<1>1. /\ clients' = [clients EXCEPT ![c].regions = @ \cup entries]
      /\ tracers' = IF Traced(c) THEN [tracers EXCEPT ![p] = done.tracer] ELSE tracers
      /\ ReportMemPoolRecords(done.records)
  BY DEF RegionsRegister, Realloc, Entries
<1>2. /\ done.records \in Seq(PoolRecords) /\ done.keys \in Seq(Keys) /\ Len(done.keys) = Len(batch)
      /\ Traced(c) => done.tracer \in Tracers
  BY ReallocType
<1> HIDE DEF done
<1>3. tracers' \in [TracerNames -> Tracers]
  BY <1>1, <1>2, TracerStep
<1>4. entries \subseteq HeldKey /\ IsFiniteSet(entries)
  <2>1. batch \in Seq(Region)
    BY BatchType DEF TypeOK
  <2> QED BY <1>2, <2>1, EntriesType
<1> HIDE DEF entries
<1>5. regions \subseteq HeldKey /\ IsFiniteSet(regions)
  BY <1>4, ClientFields, FS_Union
<1>6. new \in ClientStates
  BY <1>5, ClientFields, ClientMade
<1>7. [clients[c] EXCEPT !.regions = @ \cup entries] = new
  <2>1. clients[c] \in ClientStates
    BY ClientFields
  <2> QED BY ONLY <2>1 DEF ClientStates, new
<1> HIDE DEF new
<1>8. clients' = [clients EXCEPT ![c] = new]
  BY <1>1, <1>7
<1>9. PoolsOK'
  BY <1>3, <1>6, <1>8, ClientStep
<1> QED BY <1>1, <1>2, <1>9

LEMMA PoolsRegionsUnregister ==
    ASSUME PoolsOK, TypeOK, NEW c \in Clients, NEW given \in SUBSET clients[c].regions,
           RegionsUnregister(c, given)
    PROVE  PoolsOK' /\ \E records \in Seq(PoolRecords) : ReportMemPoolRecords(records)
<1> DEFINE p == TracerFor(c)
           done == Releases(c, given)
           regions == clients[c].regions \ given
           new == [domain |-> clients[c].domain, heaps |-> clients[c].heaps, regions |-> regions]
<1>1. /\ clients' = [clients EXCEPT ![c].regions = @ \ given]
      /\ tracers' = IF Traced(c) THEN [tracers EXCEPT ![p] = done.tracer] ELSE tracers
      /\ ReportMemPoolRecords(done.records)
  BY DEF RegionsUnregister, Releases, KeyList
<1>2. /\ done.records \in Seq(PoolRecords)
      /\ Traced(c) => done.tracer \in Tracers
  BY ReleasesType
<1> HIDE DEF done
<1>3. tracers' \in [TracerNames -> Tracers]
  BY <1>1, <1>2, TracerStep
<1>4. regions \subseteq HeldKey /\ IsFiniteSet(regions)
  BY ClientFields, FS_Subset
<1>5. new \in ClientStates
  BY <1>4, ClientFields, ClientMade
<1>6. [clients[c] EXCEPT !.regions = @ \ given] = new
  <2>1. clients[c] \in ClientStates
    BY ClientFields
  <2> QED BY ONLY <2>1 DEF ClientStates, new
<1> HIDE DEF new
<1>7. clients' = [clients EXCEPT ![c] = new]
  BY <1>1, <1>6
<1>8. PoolsOK'
  BY <1>3, <1>5, <1>7, ClientStep
<1> QED BY <1>1, <1>2, <1>8

LEMMA SessionPools ==
    ASSUME SessionInv, TypeOK', NEW c \in Clients,
           \/ DomainCreate(c)
           \/ \E h \in setting.heaps : HeapRegister(c, h)
           \/ \E x \in clients[c].heaps : HeapUnregister(c, x)
           \/ \E batch \in setting.batches : RegionsRegister(c, batch)
           \/ \E regions \in SUBSET clients[c].regions : RegionsUnregister(c, regions)
    PROVE  SessionInv'
<1>1. TypeOK /\ PoolsOK
  BY DEF SessionInv
<1>2. PoolCall
  BY <1>1, TypePools
<1>3. CASE DomainCreate(c)
  <2>1. PoolsOK' /\ UNCHANGED <<recordIndex, sink>>
    BY <1>1, <1>3, PoolsDomainCreate DEF DomainCreate
  <2> QED BY <1>2, <2>1, SessionPoolCall
<1>4. CASE \E h \in setting.heaps : HeapRegister(c, h)
  <2>1. PoolsOK' /\ UNCHANGED <<recordIndex, sink>>
    BY <1>1, <1>4, PoolsHeapRegister DEF HeapRegister
  <2> QED BY <1>2, <2>1, SessionPoolCall
<1>5. CASE \E x \in clients[c].heaps : HeapUnregister(c, x)
  <2>1. PoolsOK' /\ UNCHANGED <<recordIndex, sink>>
    BY <1>1, <1>5, PoolsHeapUnregister DEF HeapUnregister
  <2> QED BY <1>2, <2>1, SessionPoolCall
<1>6. CASE \E batch \in setting.batches : RegionsRegister(c, batch)
  <2>1. PoolsOK' /\ \E records \in Seq(PoolRecords) : ReportMemPoolRecords(records)
    BY <1>1, <1>6, PoolsRegionsRegister
  <2> QED BY <1>2, <2>1, SessionPoolCall
<1>7. CASE \E regions \in SUBSET clients[c].regions : RegionsUnregister(c, regions)
  <2>1. PoolsOK' /\ \E records \in Seq(PoolRecords) : ReportMemPoolRecords(records)
    BY <1>1, <1>7, PoolsRegionsUnregister
  <2> QED BY <1>2, <2>1, SessionPoolCall
<1> QED BY <1>3, <1>4, <1>5, <1>6, <1>7

LEMMA SessionStep == SessionInv /\ [Next]_vars => SessionInv'
<1> SUFFICES ASSUME SessionInv, [Next]_vars PROVE SessionInv'
  OBVIOUS
<1>1. TypeOK /\ TypeOK'
  BY TypeStep DEF SessionInv
<1>2. CASE \E t \in Threads : \/ \E b \in setting.blocks : HalMemAlloc(t, b)
                              \/ \E b \in heap : HalMemFree(t, b)
  BY <1>1, <1>2, SessionHal
<1>3. CASE \E t \in Threads : ReportHalMalloc(t) \/ ReportHalFree(t)
  BY <1>1, <1>3, SessionReport
<1>4. CASE \E t \in Threads, d \in setting.marks : ReportMark(t, d)
  <2>1. PICK t \in Threads, d \in setting.marks : ReportMark(t, d)
    BY <1>4
  <2>2. d \in Devices \cup {NA} /\ t \in Actors /\ t # Controller
    BY <1>1, OutputAssumption, ControllerApart DEF TypeOK
  <2>3. /\ Goes(t, "checked", Event(recordIndex + 1, "MARK", 0, 0, d))
        /\ recordIndex' = recordIndex + 1 /\ UNCHANGED <<poolVars, sink, session, sessions>>
    BY <2>1 DEF ReportMark, sessionVars
  <2> QED BY <1>1, <2>2, <2>3, SessionSwitch
<1>5. CASE \E type \in {"START", "STOP"} : Switch(type)
  <2>1. PICK type \in {"START", "STOP"} : Switch(type)
    BY <1>5
  <2>2. Controller \in Actors /\ Controller \notin Threads
    BY ControllerApart
  <2>3. /\ Goes(Controller, "checked", Event(recordIndex + 1, type, 0, 0, NA))
        /\ recordIndex' = recordIndex + 1 /\ UNCHANGED <<poolVars, sink, session, sessions>>
    BY <2>1 DEF Switch, sessionVars
  <2> QED BY <1>1, <2>2, <2>3, SessionSwitch
<1>6. CASE \E t \in Threads : Leave(t)
  BY <1>1, <1>6, SessionLeave
<1>7. CASE \E a \in Actors : Enter(a)
  BY <1>1, <1>7, SessionEnter
<1>8. CASE LeaveSwitch \/ Exit
  BY <1>1, <1>8, SessionLeaveSwitch, SessionExit
<1>9. CASE \E c \in Clients :
              \/ DomainCreate(c)
              \/ \E h \in setting.heaps : HeapRegister(c, h)
              \/ \E x \in clients[c].heaps : HeapUnregister(c, x)
              \/ \E batch \in setting.batches : RegionsRegister(c, batch)
              \/ \E regions \in SUBSET clients[c].regions : RegionsUnregister(c, regions)
  BY <1>1, <1>9, SessionPools
<1>10. CASE UNCHANGED vars
  <2>0. UNCHANGED <<poolVars, sink, session, sessions>>
    BY <1>10 DEF vars, poolVars
  <2>1. PoolsOK' /\ SinkHolds(sink)'
    BY <2>0, PoolsSame, SinkSame DEF SessionInv
  <2>2. CalledOK' /\ NumbersOK'
    BY <1>10 DEF SessionInv, vars, CalledOK, NumbersOK, Numbered, EventOf
  <2> QED BY <1>1, <2>1, <2>2 DEF SessionInv
<1> QED BY <1>2, <1>3, <1>4, <1>5, <1>6, <1>7, <1>8, <1>9, <1>10 DEF Next

LEMMA SessionInvWhole == SessionInv => SessionsAreWhole
<1> SUFFICES ASSUME SessionInv, NEW d \in DOMAIN sink.dump.files, NEW shared \in sink.given
             PROVE  LET rows    == sink.dump.files[d].rows
                        RowsOf(s) == {i \in 1..Len(rows) : rows[i].session = s}
                    IN  /\ shared.session \in 1..sessions \ {session}
                        /\ \E i \in RowsOf(shared.session) : rows[i].device = d
                        => Cardinality({i \in RowsOf(shared.session) : rows[i] = shared}) = 1
  BY DEF SessionsAreWhole
<1> DEFINE rows == sink.dump.files[d].rows
           RowsOf(s) == {i \in 1..Len(rows) : rows[i].session = s}
           S == {i \in RowsOf(shared.session) : rows[i] = shared}
<1>1. FileOK(rows, d, sink.given, session, sessions)
  BY DEF SessionInv, SinkHolds, FilesHold
<1> HIDE DEF rows
<1>2. ASSUME shared.session \in 1..sessions \ {session},
             \E i \in RowsOf(shared.session) : rows[i].device = d
      PROVE  Cardinality(S) = 1
  <2>1. Once(rows, shared)
    BY <1>1, <1>2 DEF FileOK
  <2>2. PICK k \in 1 .. Len(rows) : \A j \in 1 .. Len(rows) : rows[j] = shared <=> j = k
    BY <2>1 DEF Once
  <2>3. S = {k}
    BY <2>2
  <2> QED BY <2>3, FS_Singleton
<1> QED BY <1>2 DEF rows

\* The files are complete for every session that has ended (SessionsAreWhole), for any number
\* of threads, pools, devices and sessions, files that cannot be made and pools that report in
\* the middle of it: Dump keeps the events of no device apart until the flush that ends the
\* session copies them to every file.
THEOREM FilesAreWhole == Spec => []SessionsAreWhole
<1>1. Spec => []SessionInv
  BY InitSessionInv, SessionStep, PTL DEF Spec
<1> QED BY <1>1, SessionInvWhole, PTL

------------------------------------------------------------------------------------
(***************************************************************************)
(* The sum of the sizes of what is held.                                   *)
(***************************************************************************)
\* g is as the definition of the sum over the subsets of S has it.
Sums(g, S) ==
    /\ DOMAIN g = SUBSET S
    /\ \A s \in SUBSET S :
          g[s] = IF s = {} THEN 0
                 ELSE (CHOOSE x \in s : TRUE).region.size + g[s \ {CHOOSE x \in s : TRUE}]

Sized(S) == IsFiniteSet(S) /\ \A x \in S : x.region.size \in Int

LEMMA SizedPart ==
    ASSUME NEW S, Sized(S), NEW T \in SUBSET S
    PROVE  Sized(T) /\ Cardinality(T) \in Nat /\ (Cardinality(T) = 0 <=> T = {})
BY FS_Subset, FS_CardinalityType, FS_EmptySet DEF Sized

\* One element less is one less.
LEMMA SmallerPart ==
    ASSUME NEW S, Sized(S), NEW T \in SUBSET S, NEW x \in T
    PROVE  T \ {x} \in SUBSET S /\ Cardinality(T \ {x}) = Cardinality(T) - 1
<1>1. IsFiniteSet(T)
  BY SizedPart DEF Sized
<1>2. Cardinality(T \ {x}) = IF x \in T THEN Cardinality(T) - 1 ELSE Cardinality(T)
  BY <1>1, FS_RemoveElement
<1> QED BY <1>2

LEMMA SumsExist ==
    ASSUME NEW S, Sized(S)
    PROVE  \E g : g = [s \in SUBSET S |-> g[s]] /\ Sums(g, S)
<1> DEFINE ch(s) == CHOOSE x \in s : TRUE
           Small(m) == {s \in SUBSET S : Cardinality(s) <= m}
           Is(g, m) == /\ g \in [Small(m) -> Int]
                       /\ \A s \in Small(m) :
                             g[s] = IF s = {} THEN 0 ELSE ch(s).region.size + g[s \ {ch(s)}]
           n == Cardinality(S)
           Q == {m \in 0 .. n : \E g : Is(g, m)}
<1>0. n \in Nat /\ S \in SUBSET S
  BY SizedPart
<1>1. \A s \in SUBSET S : Cardinality(s) \in Nat /\ (Cardinality(s) = 0 <=> s = {})
  BY SizedPart
<1>2. ASSUME NEW s \in SUBSET S, s # {}
      PROVE  /\ ch(s) \in s /\ ch(s).region.size \in Int
             /\ s \ {ch(s)} \in SUBSET S /\ Cardinality(s \ {ch(s)}) = Cardinality(s) - 1
  <2>1. ch(s) \in s
    BY <1>2
  <2> HIDE DEF ch
  <2>2. s \ {ch(s)} \in SUBSET S /\ Cardinality(s \ {ch(s)}) = Cardinality(s) - 1
    BY <2>1, SmallerPart
  <2> QED BY <2>1, <2>2 DEF Sized
<1> HIDE DEF ch
<1>3. 0 \in Q
  <2> DEFINE g == [s \in Small(0) |-> 0]
  <2>1. \A s \in Small(0) : s = {}
    BY <1>1
  <2>2. g \in [Small(0) -> Int]
    OBVIOUS
  <2>3. ASSUME NEW s \in Small(0)
        PROVE  g[s] = IF s = {} THEN 0 ELSE ch(s).region.size + g[s \ {ch(s)}]
    <3>1. s = {} /\ g[s] = 0
      BY <2>1
    <3> HIDE DEF g, Small
    <3> QED BY <3>1
  <2> HIDE DEF g, Small
  <2>4. Is(g, 0)
    BY <2>2, <2>3
  <2> HIDE DEF Is
  <2> QED BY <1>0, <2>4
<1>4. ASSUME NEW m \in 1 .. n, m - 1 \in Q PROVE m \in Q
  <2>1. PICK g : Is(g, m - 1)
    BY <1>4
  <2> DEFINE new == [s \in Small(m) |->
                        IF s \in Small(m - 1) THEN g[s] ELSE ch(s).region.size + g[s \ {ch(s)}]]
  <2>2. ASSUME NEW s \in Small(m), s # {}
        PROVE  s \ {ch(s)} \in Small(m - 1) /\ s \ {ch(s)} \in Small(m) /\ ch(s).region.size \in Int
    BY <1>0, <1>1, <1>2, <2>2
  <2>3. \A s \in Small(m) : s \in Small(m - 1) => g[s] \in Int
    BY <2>1
  <2>4. {} \in Small(m - 1)
    BY <1>0, <1>1
  <2>5. new \in [Small(m) -> Int]
    <3> SUFFICES ASSUME NEW s \in Small(m) PROVE new[s] \in Int
      OBVIOUS
    <3>1. CASE s \in Small(m - 1)
      <4>1. new[s] = g[s]
        BY <3>1
      <4> HIDE DEF new
      <4> QED BY <2>3, <3>1, <4>1
    <3>2. CASE s \notin Small(m - 1)
      <4>1. new[s] = ch(s).region.size + g[s \ {ch(s)}]
        BY <3>2
      <4>2. s # {}
        BY <2>4, <3>2
      <4>3. s \ {ch(s)} \in Small(m - 1) /\ ch(s).region.size \in Int
        BY <2>2, <4>2
      <4>4. g[s \ {ch(s)}] \in Int
        BY <2>1, <4>3
      <4> HIDE DEF new, Small
      <4> QED BY <4>1, <4>3, <4>4
    <3> QED BY <3>1, <3>2
  <2>6. ASSUME NEW s \in Small(m)
        PROVE  new[s] = IF s = {} THEN 0 ELSE ch(s).region.size + new[s \ {ch(s)}]
    <3>1. CASE s = {}
      BY <2>1, <2>4, <3>1
    <3>2. CASE s # {}
      <4>1. s \ {ch(s)} \in Small(m - 1) /\ s \ {ch(s)} \in Small(m)
        BY <2>2, <3>2
      <4>2. new[s \ {ch(s)}] = g[s \ {ch(s)}]
        BY <4>1
      <4>3. new[s] = ch(s).region.size + g[s \ {ch(s)}]
        <5>1. CASE s \in Small(m - 1)
          <6>1. new[s] = g[s]
            BY <5>1
          <6> HIDE DEF new, Small
          <6> QED BY <2>1, <3>2, <5>1, <6>1
        <5>2. CASE s \notin Small(m - 1)
          BY <5>2
        <5> QED BY <5>1, <5>2
      <4> HIDE DEF new, Small
      <4> QED BY <3>2, <4>2, <4>3
    <3> QED BY <3>1, <3>2
  <2> HIDE DEF new, Small
  <2>7. Is(new, m)
    BY <2>5, <2>6
  <2> HIDE DEF Is
  <2> QED BY <1>0, <2>7
<1>5. n \in Q
  <2> HIDE DEF Q, n
  <2> QED BY <1>0, <1>3, <1>4, InductionTo
<1>6. PICK g : Is(g, n)
  BY <1>5
<1>7. Small(n) = SUBSET S
  <2>1. \A s \in SUBSET S : Cardinality(s) <= n
    BY FS_Subset DEF Sized
  <2> QED BY <2>1
<1> HIDE DEF Small
<1>8. g = [s \in SUBSET S |-> g[s]] /\ Sums(g, S)
  BY <1>6, <1>7 DEF Sums, ch
<1> QED BY <1>8

\* Such functions agree, and their values are numbers.
LEMMA SumsAgree ==
    ASSUME NEW S, Sized(S), NEW T \in SUBSET S, NEW g, Sums(g, S), NEW h, Sums(h, T)
    PROVE  \A s \in SUBSET T : g[s] = h[s] /\ g[s] \in Int
<1> DEFINE ch(s) == CHOOSE x \in s : TRUE
           n == Cardinality(T)
           Q == {m \in 0 .. n : \A s \in SUBSET T : Cardinality(s) <= m => g[s] = h[s] /\ g[s] \in Int}
<1>0. n \in Nat
  BY SizedPart
<1>1. ASSUME NEW s \in SUBSET T
      PROVE  Cardinality(s) \in Nat /\ (Cardinality(s) = 0 <=> s = {}) /\ Cardinality(s) <= n
  <2>1. s \in SUBSET S
    OBVIOUS
  <2>2. IsFiniteSet(T)
    BY SizedPart DEF Sized
  <2>3. Cardinality(s) <= n
    BY <2>2, FS_Subset
  <2> QED BY <2>1, <2>3, SizedPart
<1>2. ASSUME NEW s \in SUBSET T, s # {}
      PROVE  /\ ch(s) \in s /\ ch(s).region.size \in Int
             /\ s \ {ch(s)} \in SUBSET T /\ Cardinality(s \ {ch(s)}) = Cardinality(s) - 1
             /\ g[s] = ch(s).region.size + g[s \ {ch(s)}]
             /\ h[s] = ch(s).region.size + h[s \ {ch(s)}]
  <2>1. ch(s) \in s
    BY <1>2
  <2>2. s \in SUBSET S
    OBVIOUS
  <2>3. /\ g[s] = ch(s).region.size + g[s \ {ch(s)}]
        /\ h[s] = ch(s).region.size + h[s \ {ch(s)}]
    BY <1>2, <2>2 DEF Sums
  <2> HIDE DEF ch
  <2>4. s \ {ch(s)} \in SUBSET T /\ Cardinality(s \ {ch(s)}) = Cardinality(s) - 1
    BY <2>1, <2>2, SmallerPart
  <2> QED BY <2>1, <2>3, <2>4 DEF Sized
<1>3. g[{}] = 0 /\ h[{}] = 0
  <2>1. {} \in SUBSET S /\ {} \in SUBSET T
    OBVIOUS
  <2> QED BY <2>1 DEF Sums
<1> HIDE DEF ch
<1>4. 0 \in Q
  BY <1>0, <1>1, <1>3
<1>5. ASSUME NEW m \in 1 .. n, m - 1 \in Q PROVE m \in Q
  <2> SUFFICES ASSUME NEW s \in SUBSET T, Cardinality(s) <= m PROVE g[s] = h[s] /\ g[s] \in Int
    BY <1>0
  <2>1. CASE s = {}
    BY <1>3, <2>1
  <2>2. CASE s # {}
    <3>1. s \ {ch(s)} \in SUBSET T /\ Cardinality(s \ {ch(s)}) <= m - 1
      BY <1>0, <1>1, <1>2, <2>2
    <3>2. g[s \ {ch(s)}] = h[s \ {ch(s)}] /\ g[s \ {ch(s)}] \in Int
      BY <1>5, <3>1
    <3>3. /\ ch(s).region.size \in Int
          /\ g[s] = ch(s).region.size + g[s \ {ch(s)}]
          /\ h[s] = ch(s).region.size + h[s \ {ch(s)}]
      BY <1>2, <2>2
    <3> QED BY ONLY <3>2, <3>3
  <2> QED BY <2>1, <2>2
<1>6. n \in Q
  <2> HIDE DEF Q, n
  <2> QED BY <1>0, <1>4, <1>5, InductionTo
<1> QED BY <1>1, <1>6

\* Any element can be taken out first.
LEMMA SumsOut ==
    ASSUME NEW S, Sized(S), NEW g, Sums(g, S)
    PROVE  \A s \in SUBSET S : \A x \in s : g[s] = x.region.size + g[s \ {x}]
<1> DEFINE ch(s) == CHOOSE x \in s : TRUE
           n == Cardinality(S)
           Q == {m \in 0 .. n : \A s \in SUBSET S : Cardinality(s) <= m =>
                                   \A x \in s : g[s] = x.region.size + g[s \ {x}]}
<1>0. n \in Nat
  BY SizedPart
<1>1. ASSUME NEW s \in SUBSET S
      PROVE  Cardinality(s) \in Nat /\ (Cardinality(s) = 0 <=> s = {}) /\ Cardinality(s) <= n
  BY SizedPart, FS_Subset DEF Sized
<1>2. ASSUME NEW s \in SUBSET S, NEW x \in s
      PROVE  s \ {x} \in SUBSET S /\ Cardinality(s \ {x}) = Cardinality(s) - 1
  BY SmallerPart
<1>3. ASSUME NEW s \in SUBSET S, s # {}
      PROVE  ch(s) \in s /\ g[s] = ch(s).region.size + g[s \ {ch(s)}]
  BY <1>3 DEF Sums
<1>4. \A s \in SUBSET S : g[s] \in Int
  <2>1. S \in SUBSET S
    OBVIOUS
  <2> QED BY <2>1, SumsAgree
<1>5. \A x \in S : x.region.size \in Int
  BY DEF Sized
<1> HIDE DEF ch
<1>6. 0 \in Q
  BY <1>0, <1>1
<1>7. ASSUME NEW m \in 1 .. n, m - 1 \in Q PROVE m \in Q
  <2> SUFFICES ASSUME NEW s \in SUBSET S, Cardinality(s) <= m, NEW x \in s
               PROVE  g[s] = x.region.size + g[s \ {x}]
    BY <1>0
  <2> DEFINE c == ch(s)
             u == s \ {c}
             v == s \ {x}
  <2>1. c \in s /\ g[s] = c.region.size + g[u]
    BY <1>3
  <2> HIDE DEF c
  <2>2. CASE x = c
    BY <2>1, <2>2
  <2>3. CASE x # c
    <3>1. /\ u \in SUBSET S /\ v \in SUBSET S /\ x \in u /\ c \in v
          /\ Cardinality(u) <= m - 1 /\ Cardinality(v) <= m - 1
      BY <1>0, <1>1, <1>2, <2>1, <2>3
    <3>2. u \ {x} = v \ {c} /\ u \ {x} \in SUBSET S
      BY <3>1
    <3> HIDE DEF u, v
    <3>3. g[u] = x.region.size + g[u \ {x}] /\ g[v] = c.region.size + g[v \ {c}]
      BY <1>7, <3>1
    <3>4. g[u \ {x}] \in Int /\ x.region.size \in Int /\ c.region.size \in Int
      BY <1>4, <1>5, <2>1, <3>2
    <3>5. g[s] = c.region.size + (x.region.size + g[u \ {x}])
      BY <2>1, <3>3
    <3>6. g[v] = c.region.size + g[u \ {x}]
      BY <3>2, <3>3
    <3> QED BY <3>4, <3>5, <3>6 DEF v
  <2> QED BY <2>2, <2>3
<1>8. n \in Q
  <2> HIDE DEF Q, n
  <2> QED BY <1>0, <1>6, <1>7, InductionTo
<1> QED BY <1>1, <1>8

\* Bytes is such a sum.
LEMMA BytesSums ==
    ASSUME NEW S, Sized(S)
    PROVE  \E g : Sums(g, S) /\ Bytes(S) = g[S]
<1> DEFINE Iterates(g) == g = [s \in SUBSET S |->
                                 IF s = {} THEN 0
                                 ELSE (CHOOSE x \in s : TRUE).region.size + g[s \ {CHOOSE x \in s : TRUE}]]
           iter == CHOOSE g : Iterates(g)
<1>1. Bytes(S) = iter[S]
  BY DEF Bytes, Sets!MapThenSumSet, Sets!MapThenFoldSet
<1>2. PICK g : g = [s \in SUBSET S |-> g[s]] /\ Sums(g, S)
  BY SumsExist
<1>3. Iterates(g)
  BY <1>2 DEF Sums
<1>4. Iterates(iter)
  <2> HIDE DEF Iterates
  <2> QED BY <1>3
<1> HIDE DEF iter
<1>5. Sums(iter, S)
  BY <1>4 DEF Sums
<1> QED BY <1>1, <1>5

LEMMA BytesEmpty == Bytes({}) = 0
<1>1. Sized({})
  BY FS_EmptySet DEF Sized
<1>2. PICK g : Sums(g, {}) /\ Bytes({}) = g[{}]
  BY <1>1, BytesSums
<1>3. {} \in SUBSET {}
  OBVIOUS
<1> QED BY <1>2, <1>3 DEF Sums

\* One element less.
LEMMA BytesOut ==
    ASSUME NEW S, Sized(S), NEW x \in S
    PROVE  /\ Sized(S \ {x}) /\ Bytes(S \ {x}) \in Int
           /\ Bytes(S) = x.region.size + Bytes(S \ {x})
<1> DEFINE T == S \ {x}
<1>1. T \in SUBSET S /\ S \in SUBSET S /\ T \in SUBSET T
  OBVIOUS
<1>2. Sized(T)
  BY <1>1, SizedPart
<1>3. PICK g : Sums(g, S) /\ Bytes(S) = g[S]
  BY BytesSums
<1>4. PICK h : Sums(h, T) /\ Bytes(T) = h[T]
  BY <1>2, BytesSums
<1>5. g[T] = h[T] /\ g[T] \in Int
  BY <1>1, <1>3, <1>4, SumsAgree
<1>6. g[S] = x.region.size + g[T]
  BY <1>1, <1>3, SumsOut
<1> QED BY <1>2, <1>3, <1>4, <1>5, <1>6

\* One element more.
LEMMA BytesIn ==
    ASSUME NEW S, Sized(S), NEW x, x \notin S, x.region.size \in Int
    PROVE  /\ Sized(S \cup {x})
           /\ Bytes(S) \in Int /\ Bytes(S \cup {x}) = Bytes(S) + x.region.size
<1> DEFINE T == S \cup {x}
<1>1. Sized(T) /\ x \in T
  BY FS_AddElement DEF Sized
<1>2. T \ {x} = S
  OBVIOUS
<1> HIDE DEF T
<1>3. Bytes(T) = x.region.size + Bytes(S) /\ Bytes(S) \in Int
  BY <1>1, <1>2, BytesOut
<1> QED BY <1>1, <1>3 DEF T

------------------------------------------------------------------------------------
(***************************************************************************)
(* A pool's totals are what its clients hold.                              *)
(***************************************************************************)
\* The entries of a set on a device; ATB's tracer never had those without a key.
On(held, d) == {x \in held : x.region.device = d /\ x.key # NoHandle}

OfDevice(held, d) == {x \in held : x.region.device = d}

RegionsBy(p) == UNION {clients[c].regions : c \in ClientsOf(p)}

HeapsBy(p) == UNION {clients[c].heaps : c \in ClientsOf(p)}

\* The tracer knows the region of the entry by its key.
Knows(p, t, x) ==
    x.key # NoHandle =>
       /\ x.key \in DOMAIN t.regions /\ t.regions[x.key] = x.region
       /\ p # "atb" => x.key = x.region.addr

\* The tracer t of p has every region of held, and right totals of the devices.
Mirrors(p, t, held, devices) ==
    /\ IsFiniteSet(held) /\ held \subseteq HeldKey
    /\ \A x \in held : Knows(p, t, x)
    /\ \A d \in devices : Usage(t, d).used = Bytes(On(held, d))

\* ATB's tracer has every heap.
MirrorsHeaps(t, held) ==
    /\ IsFiniteSet(held) /\ held \subseteq HeldKey
    /\ \A x \in held :
          x.key = x.region.addr /\ x.key \in DOMAIN t.heaps /\ t.heaps[x.key] = x.region
    /\ \A d \in Devices : Usage(t, d).reserved = Bytes(OfDevice(held, d))

\* The workspace's total is right where there never were two.
RightOn(p) == IF p = "ptaWorkspace" THEN Devices \ crowded ELSE Devices

\* A client that never asked holds nothing, a tracer that it was given is there, and an address
\* is held once.
ClientsApart ==
    /\ \A c \in Clients :
          /\ ~Asked(c) => clients[c].regions = {} /\ clients[c].heaps = {}
          /\ clients[c].domain \in TracerNames => Traced(c)
    /\ \A c, d \in Clients :
          /\ \A x \in clients[c].regions, y \in clients[d].regions :
                x.region.addr = y.region.addr => c = d /\ x = y
          /\ \A x \in clients[c].heaps, y \in clients[d].heaps :
                x.region.addr = y.region.addr => c = d /\ x = y

PoolTotals ==
    /\ ClientsApart
    /\ \A p \in TracerNames : Mirrors(p, tracers[p], RegionsBy(p), RightOn(p))
    /\ MirrorsHeaps(tracers["atb"], HeapsBy("atb"))

TotalsInv == SessionInv /\ PoolTotals

LEMMA HeldShape ==
    ASSUME NEW x \in HeldKey
    PROVE  /\ x = [region |-> x.region, key |-> x.key]
           /\ x.region \in Region /\ x.key \in Keys
           /\ x.region.device \in Devices /\ x.region.size \in Int
<1>1. x = [region |-> x.region, key |-> x.key] /\ x.region \in Region /\ x.key \in Keys
  BY DEF HeldKey
<1> QED BY <1>1, RegionShape

\* What is held can be summed up.
LEMMA HeldSized ==
    ASSUME NEW held, IsFiniteSet(held), held \subseteq HeldKey, NEW d
    PROVE  /\ Sized(On(held, d)) /\ Bytes(On(held, d)) \in Int
           /\ Sized(OfDevice(held, d)) /\ Bytes(OfDevice(held, d)) \in Int
<1>1. ASSUME NEW S \in SUBSET held PROVE Sized(S) /\ Bytes(S) \in Int
  <2>1. Sized(S)
    BY <1>1, FS_Subset, HeldShape DEF Sized
  <2>2. PICK g : Sums(g, S) /\ Bytes(S) = g[S]
    BY <2>1, BytesSums
  <2>3. S \in SUBSET S
    OBVIOUS
  <2> QED BY <2>1, <2>2, <2>3, SumsAgree
<1>2. On(held, d) \in SUBSET held /\ OfDevice(held, d) \in SUBSET held
  BY DEF On, OfDevice
<1> QED BY <1>1, <1>2

\* A region is registered.
LEMMA TakesMirrors ==
    ASSUME NEW p \in TracerNames, NEW t, NEW u, NEW held, NEW devices \in SUBSET Devices,
           Mirrors(p, t, held, devices), NEW x \in HeldKey, x.key # NoHandle,
           Takes(p, t, u, x.region, x.key),
           \A y \in held : y.region.addr # x.region.addr,
           p = "ptaWorkspace" /\ x.region.device \in devices => On(held, x.region.device) = {}
    PROVE  Mirrors(p, u, held \cup {x}, devices)
<1> DEFINE new == held \cup {x}
<1>1. IsFiniteSet(held) /\ held \subseteq HeldKey
  BY DEF Mirrors
<1>2. IsFiniteSet(new) /\ new \subseteq HeldKey
  BY <1>1, FS_AddElement
<1>3. /\ IF p = "atb" THEN x.key \notin DOMAIN t.regions ELSE x.key = x.region.addr
      /\ DOMAIN u.regions = DOMAIN t.regions \cup {x.key}
      /\ u.regions[x.key] = x.region
      /\ \A j \in DOMAIN t.regions \ {x.key} : u.regions[j] = t.regions[j]
  BY DEF Takes
<1>4. \A d \in Devices : Usage(u, d).used = IF d = x.region.device THEN UsedAfter(p, t, x.region) ELSE Usage(t, d).used
  BY DEF Takes
<1>5. ASSUME NEW y \in new PROVE Knows(p, u, y)
  <2>1. CASE y = x
    BY <1>3, <2>1 DEF Knows
  <2>2. CASE y # x
    <3>1. y \in held /\ Knows(p, t, y) /\ y.region.addr # x.region.addr
      BY <2>2 DEF Mirrors
    <3>2. y.key # NoHandle => y.key # x.key
      BY <1>3, <3>1 DEF Knows
    <3> QED BY <1>3, <3>1, <3>2 DEF Knows
  <2> QED BY <2>1, <2>2
<1>6. ASSUME NEW d \in devices PROVE Usage(u, d).used = Bytes(On(new, d))
  <2>1. Sized(On(held, d)) /\ Bytes(On(held, d)) \in Int /\ x.region.size \in Int
    BY <1>1, HeldSized, HeldShape
  <2>2. Usage(t, d).used = Bytes(On(held, d))
    BY DEF Mirrors
  <2>3. CASE d # x.region.device
    <3>1. On(new, d) = On(held, d)
      BY <2>3 DEF On
    <3> QED BY <1>4, <2>2, <2>3, <3>1
  <2>4. CASE d = x.region.device
    <3>1. On(new, d) = On(held, d) \cup {x} /\ x \notin On(held, d)
      BY <2>4 DEF On
    <3>2. Bytes(On(new, d)) = Bytes(On(held, d)) + x.region.size
      BY <2>1, <3>1, BytesIn
    <3>3. Usage(u, d).used = UsedAfter(p, t, x.region)
      BY <1>4, <2>4
    <3>4. UsedAfter(p, t, x.region) = Bytes(On(held, d)) + x.region.size
      <4>1. CASE p = "ptaWorkspace"
        <5>1. Bytes(On(held, d)) = 0
          BY <2>4, <4>1, BytesEmpty
        <5> QED BY <2>1, <4>1, <5>1 DEF UsedAfter
      <4>2. CASE p # "ptaWorkspace"
        BY <2>2, <2>4, <4>2 DEF UsedAfter
      <4> QED BY <4>1, <4>2
    <3> QED BY <3>2, <3>3, <3>4
  <2> QED BY <2>3, <2>4
<1> QED BY <1>2, <1>5, <1>6 DEF Mirrors

\* A region is passed over.
LEMMA SkipMirrors ==
    ASSUME NEW p, NEW t, NEW held, NEW devices, Mirrors(p, t, held, devices),
           NEW x \in HeldKey, x.key = NoHandle
    PROVE  Mirrors(p, t, held \cup {x}, devices) /\ Mirrors(p, t, held \ {x}, devices)
<1>1. IsFiniteSet(held) /\ held \subseteq HeldKey /\ \A y \in held : Knows(p, t, y)
  BY DEF Mirrors
<1>2. IsFiniteSet(held \cup {x}) /\ held \cup {x} \subseteq HeldKey
  BY <1>1, FS_AddElement
<1>3. IsFiniteSet(held \ {x}) /\ held \ {x} \subseteq HeldKey
  BY <1>1, FS_Subset
<1>4. \A d : On(held \cup {x}, d) = On(held, d) /\ On(held \ {x}, d) = On(held, d)
  BY DEF On
<1>5. Knows(p, t, x)
  BY DEF Knows
<1> QED BY <1>1, <1>2, <1>3, <1>4, <1>5 DEF Mirrors

\* A region is given up.
LEMMA GivesMirrors ==
    ASSUME NEW p \in TracerNames, NEW t, NEW u, NEW held, NEW devices \in SUBSET Devices,
           Mirrors(p, t, held, devices), NEW x \in held, x.key # NoHandle, Gives(p, t, u, x.key)
    PROVE  Mirrors(p, u, held \ {x}, devices)
<1> DEFINE new == held \ {x}
<1>1. IsFiniteSet(held) /\ held \subseteq HeldKey /\ \A y \in held : Knows(p, t, y)
  BY DEF Mirrors
<1>2. IsFiniteSet(new) /\ new \subseteq HeldKey
  BY <1>1, FS_Subset
<1>3. t.regions[x.key] = x.region /\ x \in HeldKey
  BY <1>1 DEF Knows
<1>4. /\ DOMAIN u.regions = IF p = "atb" THEN DOMAIN t.regions \ {x.key} ELSE DOMAIN t.regions
      /\ \A j \in DOMAIN u.regions : u.regions[j] = t.regions[j]
      /\ \A d \in Devices :
            Usage(u, d).used =
               IF d = x.region.device THEN Usage(t, d).used - x.region.size ELSE Usage(t, d).used
  BY <1>3 DEF Gives
<1>5. ASSUME NEW y \in new PROVE Knows(p, u, y)
  <2>1. Knows(p, t, y) /\ y # x /\ y \in HeldKey
    BY <1>1
  <2>2. y.key # NoHandle => y.key # x.key
    <3> SUFFICES ASSUME y.key = x.key, y.key # NoHandle PROVE FALSE
      OBVIOUS
    <3>1. y.region = x.region
      BY <1>3, <2>1 DEF Knows
    <3>2. y = [region |-> y.region, key |-> y.key] /\ x = [region |-> x.region, key |-> x.key]
      BY <1>3, <2>1, HeldShape
    <3>3. y = x
      BY ONLY <3>1, <3>2, y.key = x.key
    <3> QED BY <2>1, <3>3
  <2> QED BY <1>4, <2>1, <2>2 DEF Knows
<1>6. ASSUME NEW d \in devices PROVE Usage(u, d).used = Bytes(On(new, d))
  <2>1. Usage(t, d).used = Bytes(On(held, d))
    BY DEF Mirrors
  <2>2. CASE d # x.region.device
    <3>1. On(new, d) = On(held, d)
      BY <2>2 DEF On
    <3> QED BY <1>4, <2>1, <2>2, <3>1
  <2>3. CASE d = x.region.device
    <3>1. On(new, d) = On(held, d) \ {x} /\ x \in On(held, d)
      BY <2>3 DEF On
    <3>2. Sized(On(held, d)) /\ x.region.size \in Int
      BY <1>1, HeldSized, HeldShape
    <3>3. Bytes(On(held, d)) = x.region.size + Bytes(On(new, d)) /\ Bytes(On(new, d)) \in Int
      BY <3>1, <3>2, BytesOut
    <3>4. Usage(u, d).used = Usage(t, d).used - x.region.size
      BY <1>4, <2>3
    <3> QED BY <2>1, <3>2, <3>3, <3>4
  <2> QED BY <2>2, <2>3
<1> QED BY <1>2, <1>5, <1>6 DEF Mirrors

\* Totals of fewer devices.
LEMMA FewerMirrors ==
    ASSUME NEW p, NEW t, NEW held, NEW devices, Mirrors(p, t, held, devices), NEW some \in SUBSET devices
    PROVE  Mirrors(p, t, held, some)
BY DEF Mirrors

\* Heaps are registered and given up.
LEMMA TakesMirrorsHeaps ==
    ASSUME NEW t, NEW u, NEW held, MirrorsHeaps(t, held), NEW x \in HeldKey, x.key = x.region.addr,
           TakesHeap("atb", t, u, x.region), \A y \in held : y.region.addr # x.region.addr
    PROVE  MirrorsHeaps(u, held \cup {x})
<1> DEFINE new == held \cup {x}
<1>1. IsFiniteSet(held) /\ held \subseteq HeldKey
  BY DEF MirrorsHeaps
<1>2. IsFiniteSet(new) /\ new \subseteq HeldKey
  BY <1>1, FS_AddElement
<1>3. /\ DOMAIN u.heaps = DOMAIN t.heaps \cup {x.key}
      /\ u.heaps[x.key] = x.region
      /\ \A j \in DOMAIN t.heaps \ {x.key} : u.heaps[j] = t.heaps[j]
  BY DEF TakesHeap, Adds
<1>4. \A d \in Devices : Usage(u, d).reserved = IF d = x.region.device THEN Usage(t, d).reserved + x.region.size
                                                ELSE Usage(t, d).reserved
  BY DEF TakesHeap
<1>5. \A y \in new : y.key = y.region.addr /\ y.key \in DOMAIN u.heaps /\ u.heaps[y.key] = y.region
  BY <1>3 DEF MirrorsHeaps
<1>6. ASSUME NEW d \in Devices PROVE Usage(u, d).reserved = Bytes(OfDevice(new, d))
  <2>1. Sized(OfDevice(held, d)) /\ Bytes(OfDevice(held, d)) \in Int /\ x.region.size \in Int
    BY <1>1, HeldSized, HeldShape
  <2>2. Usage(t, d).reserved = Bytes(OfDevice(held, d))
    BY DEF MirrorsHeaps
  <2>3. CASE d # x.region.device
    <3>1. OfDevice(new, d) = OfDevice(held, d)
      BY <2>3 DEF OfDevice
    <3> QED BY <1>4, <2>2, <2>3, <3>1
  <2>4. CASE d = x.region.device
    <3>1. OfDevice(new, d) = OfDevice(held, d) \cup {x} /\ x \notin OfDevice(held, d)
      BY <2>4 DEF OfDevice
    <3>2. Bytes(OfDevice(new, d)) = Bytes(OfDevice(held, d)) + x.region.size
      BY <2>1, <3>1, BytesIn
    <3> QED BY <1>4, <2>2, <2>4, <3>2
  <2> QED BY <2>3, <2>4
<1> QED BY <1>2, <1>5, <1>6 DEF MirrorsHeaps

LEMMA GivesMirrorsHeaps ==
    ASSUME NEW t, NEW u, NEW held, MirrorsHeaps(t, held), NEW x \in held, GivesHeap("atb", t, u, x.key)
    PROVE  MirrorsHeaps(u, held \ {x})
<1> DEFINE new == held \ {x}
<1>1. /\ IsFiniteSet(held) /\ held \subseteq HeldKey
      /\ \A y \in held : y.key = y.region.addr /\ y.key \in DOMAIN t.heaps /\ t.heaps[y.key] = y.region
  BY DEF MirrorsHeaps
<1>2. IsFiniteSet(new) /\ new \subseteq HeldKey
  BY <1>1, FS_Subset
<1>3. /\ Cuts(u.heaps, t.heaps, {x.key})
      /\ \A d \in Devices : Usage(u, d).reserved = IF d = x.region.device THEN Usage(t, d).reserved - x.region.size
                                                   ELSE Usage(t, d).reserved
  BY <1>1 DEF GivesHeap
<1>4. ASSUME NEW y \in new PROVE y.key # x.key
  <2> SUFFICES ASSUME y.key = x.key PROVE FALSE
    OBVIOUS
  <2>1. y.region = x.region /\ x \in HeldKey /\ y \in HeldKey
    BY <1>1
  <2>2. y = [region |-> y.region, key |-> y.key] /\ x = [region |-> x.region, key |-> x.key]
    BY <2>1, HeldShape
  <2>3. y = x
    BY ONLY <2>1, <2>2, y.key = x.key
  <2> QED BY <2>3
<1>5. \A y \in new : y.key = y.region.addr /\ y.key \in DOMAIN u.heaps /\ u.heaps[y.key] = y.region
  BY <1>1, <1>3, <1>4 DEF Cuts
<1>6. ASSUME NEW d \in Devices PROVE Usage(u, d).reserved = Bytes(OfDevice(new, d))
  <2>1. Usage(t, d).reserved = Bytes(OfDevice(held, d))
    BY DEF MirrorsHeaps
  <2>2. CASE d # x.region.device
    <3>1. OfDevice(new, d) = OfDevice(held, d)
      BY <2>2 DEF OfDevice
    <3> QED BY <1>3, <2>1, <2>2, <3>1
  <2>3. CASE d = x.region.device
    <3>1. OfDevice(new, d) = OfDevice(held, d) \ {x} /\ x \in OfDevice(held, d)
      BY <2>3 DEF OfDevice
    <3>2. Sized(OfDevice(held, d)) /\ x.region.size \in Int
      BY <1>1, HeldSized, HeldShape
    <3>3. Bytes(OfDevice(held, d)) = x.region.size + Bytes(OfDevice(new, d)) /\ Bytes(OfDevice(new, d)) \in Int
      BY <3>1, <3>2, BytesOut
    <3>4. Usage(u, d).reserved = Usage(t, d).reserved - x.region.size
      BY <1>3, <2>3
    <3> QED BY <2>1, <3>2, <3>3, <3>4
  <2> QED BY <2>2, <2>3
<1> QED BY <1>2, <1>5, <1>6 DEF MirrorsHeaps

\* What a region of a batch does to the tracer.
TakesOrSkips(p, t, u, region, key) ==
    \/ key = NoHandle /\ u = t
    \/ Takes(p, t, u, region, key)

\* f goes through the tracers from t to u.
TracersRun(f, n, t, u) == f \in [0 .. n -> Tracers] /\ f[0] = t /\ f[n] = u

LEMMA ReallocateTakes ==
    ASSUME NEW p \in TracerNames, NEW tracer \in Tracers, NEW batch \in Seq(Region)
    PROVE  LET r == Reallocate(p, tracer, batch)
           IN  \E f : /\ TracersRun(f, Len(batch), tracer, r.tracer)
                      /\ \A i \in 1 .. Len(batch) : TakesOrSkips(p, f[i - 1], f[i], batch[i], r.keys[i])
<1> DEFINE n == Len(batch)
           r == Reallocate(p, tracer, batch)
<1>1. PICK h : RunsIn(Dones, h, Registering(p), NothingDone(tracer), batch, r)
  BY ReallocateSteps
<1>2. /\ n \in Nat /\ h \in [0 .. n -> Dones] /\ h[0] = NothingDone(tracer) /\ h[n] = r
      /\ \A i \in 1 .. n : batch[i] \in Region /\ h[i] = Registering(p)[<<h[i - 1], batch[i]>>]
  BY <1>1 DEF RunsIn
<1> HIDE DEF n, r
<1>3. ASSUME NEW i \in 1 .. n
      PROVE  /\ h[i - 1] \in Dones /\ h[i] \in Dones /\ h[i - 1].keys \in Seq(Keys)
             /\ TakesInBatch(p, h[i - 1], h[i], batch[i])
  <2>1. h[i - 1] \in Dones /\ h[i] \in Dones
    BY <1>2
  <2>2. h[i] = Registered(p, h[i - 1], batch[i]) /\ batch[i] \in Region
    BY <1>2, <2>1 DEF Registering
  <2>3. TakesInBatch(p, h[i - 1], h[i], batch[i])
    BY <2>1, <2>2, RegisteredOne
  <2> QED BY <2>1, <2>3 DEF Dones
<1>4. ASSUME NEW i \in 1 .. n
      PROVE  \E key \in Keys : /\ h[i].keys = Append(h[i - 1].keys, key)
                               /\ TakesOrSkips(p, h[i - 1].tracer, h[i].tracer, batch[i], key)
  BY <1>3 DEF TakesInBatch, TakesOrSkips
<1> DEFINE Q == {i \in 0 .. n : /\ Len(h[i].keys) = i
                                /\ \A j \in 1 .. i :
                                      TakesOrSkips(p, h[j - 1].tracer, h[j].tracer, batch[j], h[i].keys[j])}
<1>5. 0 \in Q
  BY <1>2 DEF NothingDone
<1>6. ASSUME NEW i \in 1 .. n, i - 1 \in Q PROVE i \in Q
  <2>1. PICK key \in Keys : /\ h[i].keys = Append(h[i - 1].keys, key)
                            /\ TakesOrSkips(p, h[i - 1].tracer, h[i].tracer, batch[i], key)
    BY <1>4
  <2>2. h[i - 1].keys \in Seq(Keys) /\ Len(h[i - 1].keys) = i - 1
    BY <1>3, <1>6
  <2>3. Len(h[i].keys) = i /\ h[i].keys[i] = key /\ \A j \in 1 .. i - 1 : h[i].keys[j] = h[i - 1].keys[j]
    BY <1>2, <2>1, <2>2
  <2>4. \A j \in 1 .. i - 1 : TakesOrSkips(p, h[j - 1].tracer, h[j].tracer, batch[j], h[i - 1].keys[j])
    BY <1>6
  <2>5. \A j \in 1 .. i : j = i \/ j \in 1 .. i - 1
    BY <1>2
  <2>6. ASSUME NEW j \in 1 .. i
        PROVE  TakesOrSkips(p, h[j - 1].tracer, h[j].tracer, batch[j], h[i].keys[j])
    <3>1. CASE j = i
      BY <2>1, <2>3, <3>1
    <3>2. CASE j \in 1 .. i - 1
      BY <2>3, <2>4, <3>2
    <3> QED BY <2>5, <3>1, <3>2
  <2> QED BY <1>2, <2>3, <2>6
<1> HIDE DEF Q
<1>7. n \in Q
  BY <1>2, <1>5, <1>6, InductionTo
<1> DEFINE f == [i \in 0 .. n |-> h[i].tracer]
<1>8. \A i \in 0 .. n : h[i] \in Dones /\ h[i].tracer \in Tracers
  BY <1>2 DEF Dones
<1>9. TracersRun(f, n, tracer, r.tracer)
  <2>1. 0 \in 0 .. n /\ n \in 0 .. n
    BY <1>2
  <2>2. h[0].tracer = tracer
    BY <1>2 DEF NothingDone
  <2> QED BY <1>2, <1>8, <2>1, <2>2 DEF TracersRun
<1>10. \A i \in 1 .. n : TakesOrSkips(p, f[i - 1], f[i], batch[i], r.keys[i])
  <2>1. \A i \in 1 .. n : i - 1 \in 0 .. n /\ i \in 0 .. n
    BY <1>2
  <2>2. \A i \in 1 .. n : f[i - 1] = h[i - 1].tracer /\ f[i] = h[i].tracer
    BY <2>1
  <2>3. \A j \in 1 .. n : TakesOrSkips(p, h[j - 1].tracer, h[j].tracer, batch[j], r.keys[j])
    BY <1>2, <1>7 DEF Q
  <2> HIDE DEF f
  <2> QED BY <2>2, <2>3
<1> HIDE DEF f
<1> QED BY <1>9, <1>10 DEF n, r

\* The entries of the first i regions.
EntriesTo(batch, keys, i) == {[region |-> batch[j], key |-> keys[j]] : j \in 1 .. i}

LEMMA ReallocateMirrors ==
    ASSUME NEW p \in TracerNames, NEW tracer \in Tracers, NEW batch \in Seq(Region),
           \A i, j \in 1 .. Len(batch) : batch[i].addr = batch[j].addr => i = j,
           NEW held, NEW devices \in SUBSET Devices, Mirrors(p, tracer, held, devices),
           \A y \in held, i \in 1 .. Len(batch) : y.region.addr # batch[i].addr,
           NEW r, r = Reallocate(p, tracer, batch),
           p = "ptaWorkspace" =>
              \A d \in devices : \A x, y \in On(held \cup Entries(batch, r.keys), d) : x = y
    PROVE  Mirrors(p, r.tracer, held \cup Entries(batch, r.keys), devices)
<1> DEFINE n == Len(batch)
           all == Entries(batch, r.keys)
           To(i) == EntriesTo(batch, r.keys, i)
           e(i) == [region |-> batch[i], key |-> r.keys[i]]
<1>1. PICK f : /\ TracersRun(f, n, tracer, r.tracer)
               /\ \A i \in 1 .. n : TakesOrSkips(p, f[i - 1], f[i], batch[i], r.keys[i])
  BY ReallocateTakes
<1>2. n \in Nat /\ f[0] = tracer /\ f[n] = r.tracer
  BY <1>1 DEF TracersRun
<1>3. \A i \in 1 .. n : batch[i] \in Region /\ r.keys[i] \in Keys
  <2>1. r \in Dones /\ Len(r.keys) = n
    BY ReallocateType
  <2>2. r.keys \in Seq(Keys)
    BY <2>1 DEF Dones
  <2> QED BY <2>1, <2>2
<1>4. To(0) = {} /\ To(n) = all
  BY <1>2 DEF EntriesTo, Entries
<1>5. ASSUME NEW i \in 1 .. n
      PROVE  /\ To(i) = To(i - 1) \cup {e(i)} /\ To(i) \subseteq all /\ e(i) \in HeldKey
             /\ \A y \in held \cup To(i - 1) : y.region.addr # e(i).region.addr
  <2>1. \A j : j \in 1 .. i <=> j = i \/ j \in 1 .. i - 1
    BY <1>2
  <2>2. To(i) = To(i - 1) \cup {e(i)}
    BY <2>1 DEF EntriesTo
  <2>3. \A j \in 1 .. i : j \in 1 .. n
    BY <1>2
  <2>4. To(i) \subseteq all
    BY <2>3 DEF EntriesTo, Entries
  <2>5. e(i) \in HeldKey
    BY <1>3 DEF HeldKey
  <2>6. ASSUME NEW y \in To(i - 1) PROVE y.region.addr # batch[i].addr
    <3>1. PICK j \in 1 .. i - 1 : y = [region |-> batch[j], key |-> r.keys[j]]
      BY DEF EntriesTo
    <3>2. j \in 1 .. n /\ j # i
      BY <1>2
    <3> QED BY <3>1, <3>2
  <2> QED BY <2>2, <2>4, <2>5, <2>6
<1> HIDE DEF n, all, To, e
<1> DEFINE Q == {i \in 0 .. n : Mirrors(p, f[i], held \cup To(i), devices)}
<1>6. 0 \in Q
  <2>1. held \cup To(0) = held
    BY <1>4
  <2> QED BY <1>2, <2>1
<1>7. ASSUME NEW i \in 1 .. n, i - 1 \in Q PROVE i \in Q
  <2> DEFINE had == held \cup To(i - 1)
             x == e(i)
  <2>1. held \cup To(i) = had \cup {x} /\ x \in HeldKey /\ \A y \in had : y.region.addr # x.region.addr
    BY <1>5
  <2>2. Mirrors(p, f[i - 1], had, devices)
    BY <1>7
  <2>3. x.region = batch[i] /\ x.key = r.keys[i]
    BY DEF e
  <2>4. TakesOrSkips(p, f[i - 1], f[i], x.region, x.key)
    BY <1>1, <2>3 DEF n
  <2>5. held \cup To(i) \subseteq held \cup all
    BY <1>5
  <2> HIDE DEF had, x
  <2>6. Mirrors(p, f[i], had \cup {x}, devices)
    <3>1. CASE x.key = NoHandle /\ f[i] = f[i - 1]
      BY <2>1, <2>2, <3>1, SkipMirrors
    <3>2. CASE Takes(p, f[i - 1], f[i], x.region, x.key)
      <4>1. x.key # NoHandle
        BY <3>2 DEF Takes
      <4>2. p = "ptaWorkspace" /\ x.region.device \in devices => On(had, x.region.device) = {}
        <5> SUFFICES ASSUME p = "ptaWorkspace", x.region.device \in devices, NEW y \in On(had, x.region.device)
                     PROVE  FALSE
          OBVIOUS
        <5> DEFINE d == x.region.device
        <5>1. x \in On(held \cup all, d) /\ y \in On(held \cup all, d)
          BY <2>1, <2>5, <4>1 DEF On
        <5>2. x = y
          BY <5>1 DEF all
        <5>3. y \in had
          BY DEF On
        <5> QED BY <2>1, <5>2, <5>3
      <4> QED BY <2>1, <2>2, <3>2, <4>1, <4>2, TakesMirrors
    <3> QED BY <2>4, <3>1, <3>2 DEF TakesOrSkips
  <2>7. i \in 0 .. n
    BY <1>2
  <2> QED BY <2>1, <2>6, <2>7
<1> HIDE DEF Q
<1>8. n \in Q
  BY <1>2, <1>6, <1>7, InductionTo
<1>9. Mirrors(p, f[n], held \cup To(n), devices)
  BY <1>8 DEF Q
<1> QED BY <1>2, <1>4, <1>9 DEF all

\* What a key of a batch that is given up does to the tracer.
GivesOrSkips(p, t, u, key) ==
    IF key \in DOMAIN t.regions THEN Gives(p, t, u, key) ELSE u = t

LEMMA ReleaseGives ==
    ASSUME NEW p \in TracerNames, NEW tracer \in Tracers, NEW keys \in Seq(Keys)
    PROVE  LET r == Release(p, tracer, keys)
           IN  \E f : /\ TracersRun(f, Len(keys), tracer, r.tracer)
                      /\ \A i \in 1 .. Len(keys) : GivesOrSkips(p, f[i - 1], f[i], keys[i])
<1> DEFINE n == Len(keys)
           r == Release(p, tracer, keys)
<1>1. PICK h : RunsIn(Dones, h, Releasing(p), NothingDone(tracer), keys, r)
  BY ReleaseSteps
<1>2. /\ n \in Nat /\ h \in [0 .. n -> Dones] /\ h[0] = NothingDone(tracer) /\ h[n] = r
      /\ \A i \in 1 .. n : keys[i] \in Keys /\ h[i] = Releasing(p)[<<h[i - 1], keys[i]>>]
  BY <1>1 DEF RunsIn
<1> HIDE DEF n, r
<1>3. ASSUME NEW i \in 1 .. n PROVE GivesOrSkips(p, h[i - 1].tracer, h[i].tracer, keys[i])
  <2>1. h[i - 1] \in Dones /\ keys[i] \in Keys
    <3>1. i - 1 \in 0 .. n
      BY <1>2
    <3> QED BY <1>2, <3>1
  <2>2. h[i] = Released(p, h[i - 1], keys[i])
    BY <1>2, <2>1 DEF Releasing
  <2> QED BY <2>1, <2>2, ReleasedOne DEF GivesOrSkips
<1> DEFINE f == [i \in 0 .. n |-> h[i].tracer]
<1>4. \A i \in 0 .. n : h[i] \in Dones /\ h[i].tracer \in Tracers
  BY <1>2 DEF Dones
<1>5. TracersRun(f, n, tracer, r.tracer)
  <2>1. 0 \in 0 .. n /\ n \in 0 .. n
    BY <1>2
  <2>2. h[0].tracer = tracer
    BY <1>2 DEF NothingDone
  <2> QED BY <1>2, <1>4, <2>1, <2>2 DEF TracersRun
<1>6. \A i \in 1 .. n : GivesOrSkips(p, f[i - 1], f[i], keys[i])
  <2>1. \A i \in 1 .. n : i - 1 \in 0 .. n /\ i \in 0 .. n
    BY <1>2
  <2>2. \A i \in 1 .. n : f[i - 1] = h[i - 1].tracer /\ f[i] = h[i].tracer
    BY <2>1
  <2> HIDE DEF f
  <2> QED BY <1>3, <2>2
<1> HIDE DEF f
<1> QED BY <1>5, <1>6 DEF n, r

LEMMA ReleaseMirrors ==
    ASSUME NEW p \in TracerNames, NEW tracer \in Tracers, NEW held, NEW devices \in SUBSET Devices,
           Mirrors(p, tracer, held, devices), NEW given \in SUBSET held
    PROVE  Mirrors(p, Release(p, tracer, KeyList(given)).tracer, held \ given, devices)
<1> DEFINE list == Seqs!SetToSeq(given)
           keys == KeyList(given)
           n == Len(list)
           u == Release(p, tracer, keys).tracer
           To(i) == {list[j] : j \in 1 .. i}
<1>1. IsFiniteSet(held) /\ held \subseteq HeldKey
  BY DEF Mirrors
<1>2. /\ list \in Seq(given) /\ n \in Nat
      /\ \A i, j \in 1 .. n : list[i] = list[j] => i = j
      /\ \A x \in given : \E i \in 1 .. n : list[i] = x
  <2>1. IsFiniteSet(given)
    BY <1>1, FS_Subset
  <2> QED BY <2>1, SequenceOfSet
<1>3. \A i \in 1 .. n : list[i] \in given /\ list[i] \in HeldKey /\ list[i].key \in Keys
  <2>1. \A i \in 1 .. n : list[i] \in given
    BY <1>2
  <2> QED BY <1>1, <2>1, HeldShape
<1>4. keys = [i \in 1 .. n |-> list[i].key]
  BY DEF KeyList
<1> HIDE DEF list, n, keys
<1>5. keys \in Seq(Keys) /\ Len(keys) = n /\ \A i \in 1 .. n : keys[i] = list[i].key
  BY <1>2, <1>3, <1>4
<1>6. PICK f : /\ TracersRun(f, n, tracer, u)
               /\ \A i \in 1 .. n : GivesOrSkips(p, f[i - 1], f[i], keys[i])
  <2>1. \E f : /\ TracersRun(f, Len(keys), tracer, u)
               /\ \A i \in 1 .. Len(keys) : GivesOrSkips(p, f[i - 1], f[i], keys[i])
    BY <1>5, ReleaseGives
  <2> QED BY <1>5, <2>1
<1> HIDE DEF u
<1>7. f[0] = tracer /\ f[n] = u /\ \A i \in 0 .. n : f[i] \in Tracers
  BY <1>6 DEF TracersRun
<1>8. To(0) = {} /\ To(n) = given
  BY <1>2, <1>3
<1>9. ASSUME NEW i \in 1 .. n
      PROVE  held \ To(i) = (held \ To(i - 1)) \ {list[i]} /\ list[i] \in held \ To(i - 1)
  <2>1. \A j : j \in 1 .. i <=> j = i \/ j \in 1 .. i - 1
    BY <1>2
  <2>2. To(i) = To(i - 1) \cup {list[i]}
    BY <2>1
  <2>3. list[i] \notin To(i - 1)
    <3> SUFFICES ASSUME NEW j \in 1 .. i - 1, list[j] = list[i] PROVE FALSE
      OBVIOUS
    <3>1. j \in 1 .. n /\ j # i
      BY <1>2
    <3> QED BY <1>2, <3>1
  <2> QED BY <1>3, <2>2, <2>3
<1> HIDE DEF To
<1> DEFINE Q == {i \in 0 .. n : Mirrors(p, f[i], held \ To(i), devices)}
<1>10. 0 \in Q
  <2>1. held \ To(0) = held
    BY <1>8
  <2>2. f[0] = tracer /\ 0 \in 0 .. n
    BY <1>2, <1>7
  <2>3. Mirrors(p, f[0], held \ To(0), devices)
    BY <2>1, <2>2
  <2> QED BY <2>2, <2>3
<1>11. ASSUME NEW i \in 1 .. n, i - 1 \in Q PROVE i \in Q
  <2> DEFINE had == held \ To(i - 1)
             x == list[i]
  <2>1. held \ To(i) = had \ {x} /\ x \in had /\ x \in HeldKey
    BY <1>3, <1>9
  <2>2. Mirrors(p, f[i - 1], had, devices)
    BY <1>11
  <2>3. GivesOrSkips(p, f[i - 1], f[i], x.key)
    BY <1>5, <1>6
  <2>4. f[i - 1] \in Tracers /\ i \in 0 .. n
    BY <1>2, <1>7
  <2> HIDE DEF had, x
  <2>5. Mirrors(p, f[i], had \ {x}, devices)
    <3>1. CASE x.key = NoHandle
      <4>1. DOMAIN f[i - 1].regions \subseteq Nat
        <5>1. f[i - 1].regions \in Maps(Nat, Region)
          BY <2>4 DEF Tracers
        <5> QED BY <5>1, MapShape
      <4>2. f[i] = f[i - 1]
        BY <2>3, <3>1, <4>1, OutputAssumption DEF GivesOrSkips
      <4> QED BY <2>1, <2>2, <3>1, <4>2, SkipMirrors
    <3>2. CASE x.key # NoHandle
      <4>1. x.key \in DOMAIN f[i - 1].regions
        BY <2>1, <2>2, <3>2 DEF Mirrors, Knows
      <4>2. Gives(p, f[i - 1], f[i], x.key)
        BY <2>3, <4>1 DEF GivesOrSkips
      <4> QED BY <2>1, <2>2, <3>2, <4>2, GivesMirrors
    <3> QED BY <3>1, <3>2
  <2> QED BY <2>1, <2>4, <2>5
<1> HIDE DEF Q
<1>12. n \in Q
  BY <1>2, <1>10, <1>11, InductionTo
<1>13. Mirrors(p, f[n], held \ To(n), devices)
  BY <1>12 DEF Q
<1> QED BY <1>7, <1>8, <1>13 DEF u, keys

------------------------------------------------------------------------------------
\* What the heaps of a tracer are, and their totals, is the same.
HeapsSame(t, u) ==
    u.heaps = t.heaps /\ \A d \in Devices : Usage(u, d).reserved = Usage(t, d).reserved

LEMMA RunHeapsSame ==
    ASSUME NEW n \in Nat, NEW f, NEW t, NEW u, TracersRun(f, n, t, u),
           \A i \in 1 .. n : HeapsSame(f[i - 1], f[i])
    PROVE  HeapsSame(t, u)
<1> DEFINE Q == {i \in 0 .. n : HeapsSame(t, f[i])}
<1>1. f[0] = t /\ f[n] = u
  BY DEF TracersRun
<1>2. 0 \in Q
  <2>1. HeapsSame(t, t)
    BY DEF HeapsSame
  <2> QED BY <1>1, <2>1
<1>3. ASSUME NEW i \in 1 .. n, i - 1 \in Q PROVE i \in Q
  <2>1. HeapsSame(t, f[i - 1]) /\ HeapsSame(f[i - 1], f[i])
    BY <1>3
  <2>2. HeapsSame(t, f[i])
    BY <2>1 DEF HeapsSame
  <2> QED BY <2>2
<1> HIDE DEF Q
<1>4. n \in Q
  BY <1>2, <1>3, InductionTo
<1> QED BY <1>1, <1>4 DEF Q

\* Calls for regions leave the heaps alone.
LEMMA ReallocateHeaps ==
    ASSUME NEW p \in TracerNames, NEW tracer \in Tracers, NEW batch \in Seq(Region)
    PROVE  HeapsSame(tracer, Reallocate(p, tracer, batch).tracer)
<1> DEFINE r == Reallocate(p, tracer, batch)
           n == Len(batch)
<1>1. PICK f : /\ TracersRun(f, n, tracer, r.tracer)
               /\ \A i \in 1 .. n : TakesOrSkips(p, f[i - 1], f[i], batch[i], r.keys[i])
  BY ReallocateTakes
<1>2. n \in Nat
  OBVIOUS
<1> HIDE DEF r, n
<1>3. \A i \in 1 .. n : HeapsSame(f[i - 1], f[i])
  BY <1>1 DEF TakesOrSkips, Takes, HeapsSame
<1>4. HeapsSame(tracer, r.tracer)
  BY <1>1, <1>2, <1>3, RunHeapsSame
<1> QED BY <1>4 DEF r

LEMMA ReleaseHeaps ==
    ASSUME NEW p \in TracerNames, NEW tracer \in Tracers, NEW keys \in Seq(Keys)
    PROVE  HeapsSame(tracer, Release(p, tracer, keys).tracer)
<1> DEFINE u == Release(p, tracer, keys).tracer
           n == Len(keys)
<1>1. PICK f : /\ TracersRun(f, n, tracer, u)
               /\ \A i \in 1 .. n : GivesOrSkips(p, f[i - 1], f[i], keys[i])
  BY ReleaseGives
<1>2. n \in Nat
  OBVIOUS
<1> HIDE DEF u, n
<1>3. \A i \in 1 .. n : HeapsSame(f[i - 1], f[i])
  BY <1>1 DEF GivesOrSkips, Gives, HeapsSame
<1>4. HeapsSame(tracer, u)
  BY <1>1, <1>2, <1>3, RunHeapsSame
<1> QED BY <1>4 DEF u

LEMMA SameMirrorsHeaps ==
    ASSUME NEW t, NEW u, NEW held, MirrorsHeaps(t, held), HeapsSame(t, u)
    PROVE  MirrorsHeaps(u, held)
BY DEF MirrorsHeaps, HeapsSame

\* Calls for heaps leave the regions alone.
LEMMA SameMirrors ==
    ASSUME NEW p, NEW t, NEW u, NEW held, NEW devices \in SUBSET Devices, Mirrors(p, t, held, devices),
           u.regions = t.regions, \A d \in Devices : Usage(u, d).used = Usage(t, d).used
    PROVE  Mirrors(p, u, held, devices)
BY DEF Mirrors, Knows

\* One client changes what it holds, not its domain.
Holds(c, heaps, regions) ==
    /\ clients'[c].domain = clients[c].domain
    /\ clients'[c].heaps = heaps /\ clients'[c].regions = regions
    /\ \A d \in Clients \ {c} : clients'[d] = clients[d]

LEMMA OthersHold ==
    ASSUME NEW c \in Clients, NEW heaps, NEW regions, Holds(c, heaps, regions), NEW p,
           p # clients[c].domain
    PROVE  RegionsBy(p)' = RegionsBy(p) /\ HeapsBy(p)' = HeapsBy(p)
<1>1. \A d \in Clients : d \in ClientsOf(p)' <=> d \in ClientsOf(p)
  BY DEF Holds, ClientsOf
<1>2. ClientsOf(p)' = ClientsOf(p) /\ c \notin ClientsOf(p)
  BY <1>1 DEF ClientsOf
<1>3. \A d \in ClientsOf(p) : clients'[d] = clients[d]
  BY <1>2 DEF Holds, ClientsOf
<1> QED BY <1>2, <1>3 DEF RegionsBy, HeapsBy

More(S, T, E) == S = T \cup E

Less(S, T, E) == S = T \ E

\* What the clients of its domain hold, for regions and for heaps.
LEMMA TakenBy ==
    ASSUME NEW c \in Clients, NEW heaps, NEW regions, Holds(c, heaps, regions), NEW p,
           p = clients[c].domain, NEW E
    PROVE  /\ More(regions, clients[c].regions, E) => More(RegionsBy(p)', RegionsBy(p), E)
           /\ More(heaps, clients[c].heaps, E) => More(HeapsBy(p)', HeapsBy(p), E)
           /\ regions = clients[c].regions => RegionsBy(p)' = RegionsBy(p)
           /\ heaps = clients[c].heaps => HeapsBy(p)' = HeapsBy(p)
<1>1. ClientsOf(p)' = ClientsOf(p) /\ c \in ClientsOf(p) /\ ClientsOf(p) \subseteq Clients
  BY DEF Holds, ClientsOf
<1>2. \A d \in ClientsOf(p) \ {c} : clients'[d] = clients[d]
  BY <1>1 DEF Holds
<1>3. clients'[c].heaps = heaps /\ clients'[c].regions = regions
  BY DEF Holds
<1>4. /\ \A x : x \in RegionsBy(p) <=> x \in clients[c].regions \/ \E d \in ClientsOf(p) \ {c} : x \in clients[d].regions
      /\ \A x : x \in HeapsBy(p) <=> x \in clients[c].heaps \/ \E d \in ClientsOf(p) \ {c} : x \in clients[d].heaps
  BY <1>1 DEF RegionsBy, HeapsBy
<1>5. /\ \A x : x \in RegionsBy(p)' <=> x \in regions \/ \E d \in ClientsOf(p) \ {c} : x \in clients[d].regions
      /\ \A x : x \in HeapsBy(p)' <=> x \in heaps \/ \E d \in ClientsOf(p) \ {c} : x \in clients[d].heaps
  BY <1>1, <1>2, <1>3 DEF RegionsBy, HeapsBy
<1>6. ASSUME regions = clients[c].regions \cup E PROVE RegionsBy(p)' = RegionsBy(p) \cup E
  BY <1>4, <1>5, <1>6
<1>7. ASSUME heaps = clients[c].heaps \cup E PROVE HeapsBy(p)' = HeapsBy(p) \cup E
  BY <1>4, <1>5, <1>7
<1>8. ASSUME regions = clients[c].regions PROVE RegionsBy(p)' = RegionsBy(p)
  BY <1>4, <1>5, <1>8
<1>9. ASSUME heaps = clients[c].heaps PROVE HeapsBy(p)' = HeapsBy(p)
  BY <1>4, <1>5, <1>9
<1> QED BY <1>6, <1>7, <1>8, <1>9 DEF More

LEMMA GivenBy ==
    ASSUME ClientsApart,
           NEW c \in Clients, NEW heaps, NEW regions, Holds(c, heaps, regions), NEW p,
           p = clients[c].domain, NEW E
    PROVE  /\ E \subseteq clients[c].regions /\ Less(regions, clients[c].regions, E) =>
                 Less(RegionsBy(p)', RegionsBy(p), E)
           /\ E \subseteq clients[c].heaps /\ Less(heaps, clients[c].heaps, E) =>
                 Less(HeapsBy(p)', HeapsBy(p), E)
<1>1. ClientsOf(p)' = ClientsOf(p) /\ c \in ClientsOf(p) /\ ClientsOf(p) \subseteq Clients
  BY DEF Holds, ClientsOf
<1>2. \A d \in ClientsOf(p) \ {c} : clients'[d] = clients[d]
  BY <1>1 DEF Holds
<1>3. clients'[c].heaps = heaps /\ clients'[c].regions = regions
  BY DEF Holds
<1>4. /\ \A x : x \in RegionsBy(p) <=> x \in clients[c].regions \/ \E d \in ClientsOf(p) \ {c} : x \in clients[d].regions
      /\ \A x : x \in HeapsBy(p) <=> x \in clients[c].heaps \/ \E d \in ClientsOf(p) \ {c} : x \in clients[d].heaps
  BY <1>1 DEF RegionsBy, HeapsBy
<1>5. /\ \A x : x \in RegionsBy(p)' <=> x \in regions \/ \E d \in ClientsOf(p) \ {c} : x \in clients[d].regions
      /\ \A x : x \in HeapsBy(p)' <=> x \in heaps \/ \E d \in ClientsOf(p) \ {c} : x \in clients[d].heaps
  BY <1>1, <1>2, <1>3 DEF RegionsBy, HeapsBy
<1>6. \A d \in ClientsOf(p) \ {c} : /\ \A x \in clients[c].regions : x \notin clients[d].regions
                                    /\ \A x \in clients[c].heaps : x \notin clients[d].heaps
  BY <1>1 DEF ClientsApart
<1>7. ASSUME E \subseteq clients[c].regions, regions = clients[c].regions \ E
      PROVE  RegionsBy(p)' = RegionsBy(p) \ E
  BY <1>4, <1>5, <1>6, <1>7
<1>8. ASSUME E \subseteq clients[c].heaps, heaps = clients[c].heaps \ E
      PROVE  HeapsBy(p)' = HeapsBy(p) \ E
  BY <1>4, <1>5, <1>6, <1>8
<1> QED BY <1>7, <1>8 DEF Less

\* What is new is held by nobody else.
Fresh(E, had) ==
    /\ \A x \in E : \A y \in had : x.region.addr # y.region.addr
    /\ \A x, y \in E : x.region.addr = y.region.addr => x = y

LEMMA ApartStep ==
    ASSUME ClientsApart, NEW c \in Clients, NEW heaps, NEW regions, Holds(c, heaps, regions),
           domains' = domains,
           ~Asked(c) => regions = {} /\ heaps = {},
           NEW E, regions \subseteq clients[c].regions \cup E,
           \A d \in Clients : Fresh(E, clients[d].regions),
           NEW F, heaps \subseteq clients[c].heaps \cup F,
           \A d \in Clients : Fresh(F, clients[d].heaps)
    PROVE  ClientsApart'
<1>1. /\ clients'[c].domain = clients[c].domain
      /\ clients'[c].heaps = heaps /\ clients'[c].regions = regions
      /\ \A d \in Clients \ {c} : clients'[d] = clients[d]
  BY DEF Holds
<1>2. ASSUME NEW d \in Clients
      PROVE  /\ ~Asked(d)' => clients'[d].regions = {} /\ clients'[d].heaps = {}
             /\ clients'[d].domain \in TracerNames => Traced(d)'
  BY <1>1 DEF ClientsApart, Asked, Traced
<1>3. ASSUME NEW a \in Clients, NEW d \in Clients, NEW x \in clients'[a].regions, NEW y \in clients'[d].regions,
             x.region.addr = y.region.addr
      PROVE  a = d /\ x = y
  <2>1. x \in clients[a].regions \/ (a = c /\ x \in E)
    BY <1>1
  <2>2. y \in clients[d].regions \/ (d = c /\ y \in E)
    BY <1>1
  <2> QED BY <1>3, <2>1, <2>2 DEF ClientsApart, Fresh
<1>4. ASSUME NEW a \in Clients, NEW d \in Clients, NEW x \in clients'[a].heaps, NEW y \in clients'[d].heaps,
             x.region.addr = y.region.addr
      PROVE  a = d /\ x = y
  <2>1. x \in clients[a].heaps \/ (a = c /\ x \in F)
    BY <1>1
  <2>2. y \in clients[d].heaps \/ (d = c /\ y \in F)
    BY <1>1
  <2> QED BY <1>4, <2>1, <2>2 DEF ClientsApart, Fresh
<1> QED BY <1>2, <1>3, <1>4 DEF ClientsApart

LEMMA PoolTotalsSame == ASSUME PoolTotals, UNCHANGED poolVars PROVE PoolTotals'
<1>1. UNCHANGED <<tracers, domains, clients, crowded>>
  BY DEF poolVars
<1>2. \A p : ClientsOf(p)' = ClientsOf(p)
  BY <1>1 DEF ClientsOf
<1>3. \A p : RegionsBy(p)' = RegionsBy(p) /\ HeapsBy(p)' = HeapsBy(p)
  BY <1>1, <1>2 DEF RegionsBy, HeapsBy
<1>4. \A p : RightOn(p)' = RightOn(p)
  BY <1>1 DEF RightOn
<1>5. ClientsApart'
  BY <1>1 DEF PoolTotals, ClientsApart, Asked, Traced
<1> QED BY <1>1, <1>3, <1>4, <1>5 DEF PoolTotals

LEMMA RightDevices == \A p : RightOn(p) \in SUBSET Devices
BY DEF RightOn

\* A client that has no tracer has none of these domains.
LEMMA Untraced ==
    ASSUME TypeOK, ClientsApart, NEW c \in Clients
    PROVE  Traced(c) <=> clients[c].domain \in TracerNames
BY DEF TypeOK, ClientsApart, Traced

\* Where nobody holds anything there is nothing to add up.
LEMMA InitTotals == Init => PoolTotals
<1> SUFFICES ASSUME Init PROVE PoolTotals
  OBVIOUS
<1>1. \A c \in Clients : clients[c] = [domain |-> NotAsked, heaps |-> {}, regions |-> {}]
  BY DEF Init, NewClient
<1>2. \A p : RegionsBy(p) = {} /\ HeapsBy(p) = {}
  BY <1>1 DEF RegionsBy, HeapsBy, ClientsOf
<1>3. ClientsApart
  <2>1. \A c \in Clients : ~Asked(c) /\ clients[c].domain \notin TracerNames
    BY <1>1, OutputAssumption DEF Asked
  <2> QED BY <1>1, <2>1 DEF ClientsApart
<1>4. \A p \in TracerNames : \A d : Usage(tracers[p], d).used = 0 /\ Usage(tracers[p], d).reserved = 0
  BY DEF Init, NewTracer, Usage
<1>5. \A d : On({}, d) = {} /\ OfDevice({}, d) = {}
  BY DEF On, OfDevice
<1>6. IsFiniteSet({})
  BY FS_EmptySet
<1>7. \A p \in TracerNames : Mirrors(p, tracers[p], RegionsBy(p), RightOn(p))
  BY <1>2, <1>4, <1>5, <1>6, BytesEmpty DEF Mirrors
<1>8. MirrorsHeaps(tracers["atb"], HeapsBy("atb"))
  BY <1>2, <1>4, <1>5, <1>6, BytesEmpty DEF MirrorsHeaps, TracerNames
<1> QED BY <1>3, <1>7, <1>8 DEF PoolTotals

LEMMA TotalsDomainCreate ==
    ASSUME TypeOK, PoolsOK, PoolTotals, NEW c \in Clients, DomainCreate(c)
    PROVE  PoolTotals'
<1> DEFINE domain == IF tracing THEN ReportDomainCreateA(setting.pools[c]) ELSE NullDomain
<1>1. /\ clients' = [clients EXCEPT ![c].domain = domain] /\ tracers' = tracers /\ crowded' = crowded
      /\ domains' = domains \cup ({domain} \ {NullDomain})
      /\ clients[c].domain = NotAsked
  BY DEF DomainCreate
<1> HIDE DEF domain
<1>2. ClientsApart
  BY DEF PoolTotals
<1>3. clients[c].regions = {} /\ clients[c].heaps = {}
  BY <1>1, <1>2 DEF ClientsApart, Asked
<1>4. /\ clients'[c].domain = domain /\ clients'[c].regions = {} /\ clients'[c].heaps = {}
      /\ \A d \in Clients \ {c} : clients'[d] = clients[d]
  <2>1. clients \in [Clients -> ClientStates]
    BY DEF PoolsOK
  <2>2. clients[c] \in ClientStates
    BY <2>1
  <2>3. clients' = [clients EXCEPT ![c] = [clients[c] EXCEPT !.domain = domain]]
    BY <1>1
  <2>4. clients'[c] = [clients[c] EXCEPT !.domain = domain]
    BY <2>1, <2>3
  <2> QED BY <1>3, <2>1, <2>2, <2>3, <2>4 DEF ClientStates
<1>5. ClientsApart'
  <2>1. \A d \in Clients : ~Asked(d)' => clients'[d].regions = {} /\ clients'[d].heaps = {}
    BY <1>2, <1>4 DEF ClientsApart, Asked
  <2>2. \A d \in Clients : clients'[d].domain \in TracerNames => Traced(d)'
    BY <1>1, <1>2, <1>4, OutputAssumption DEF ClientsApart, Traced
  <2>3. \A d \in Clients : clients'[d].regions = clients[d].regions /\ clients'[d].heaps = clients[d].heaps
    BY <1>3, <1>4
  <2> QED BY <1>2, <2>1, <2>2, <2>3 DEF ClientsApart
<1>6. ASSUME NEW p \in TracerNames PROVE RegionsBy(p)' = RegionsBy(p) /\ HeapsBy(p)' = HeapsBy(p)
  <2>1. \A d \in Clients \ {c} : d \in ClientsOf(p)' <=> d \in ClientsOf(p)
    BY <1>4 DEF ClientsOf
  <2>2. \A d \in Clients : clients'[d].regions = clients[d].regions /\ clients'[d].heaps = clients[d].heaps
    BY <1>3, <1>4
  <2>3. ClientsOf(p) \subseteq Clients /\ ClientsOf(p)' \subseteq Clients
    BY DEF ClientsOf
  <2>4. /\ \A x : x \in RegionsBy(p) <=> \E d \in ClientsOf(p) \ {c} : x \in clients[d].regions
        /\ \A x : x \in HeapsBy(p) <=> \E d \in ClientsOf(p) \ {c} : x \in clients[d].heaps
    BY <1>3 DEF RegionsBy, HeapsBy
  <2>5. /\ \A x : x \in RegionsBy(p)' <=> \E d \in ClientsOf(p)' \ {c} : x \in clients'[d].regions
        /\ \A x : x \in HeapsBy(p)' <=> \E d \in ClientsOf(p)' \ {c} : x \in clients'[d].heaps
    BY <1>4 DEF RegionsBy, HeapsBy
  <2>6. ClientsOf(p)' \ {c} = ClientsOf(p) \ {c}
    BY <2>1, <2>3
  <2>7. \A d \in ClientsOf(p) \ {c} : clients'[d].regions = clients[d].regions /\ clients'[d].heaps = clients[d].heaps
    BY <2>2, <2>3
  <2>8. \A x : x \in RegionsBy(p)' <=> x \in RegionsBy(p)
    BY <2>4, <2>5, <2>6, <2>7
  <2>9. \A x : x \in HeapsBy(p)' <=> x \in HeapsBy(p)
    BY <2>4, <2>5, <2>6, <2>7
  <2> QED BY <2>8, <2>9
<1>7. \A p : RightOn(p)' = RightOn(p)
  BY <1>1 DEF RightOn
<1>8. "atb" \in TracerNames
  BY DEF TracerNames
<1> QED BY <1>1, <1>5, <1>6, <1>7, <1>8 DEF PoolTotals

\* The tracer of a client's domain, where there is one.
LEMMA TracerChanges ==
    ASSUME PoolsOK, TypeOK, ClientsApart, NEW c \in Clients, NEW u,
           tracers' = IF Traced(c) THEN [tracers EXCEPT ![TracerFor(c)] = u] ELSE tracers
    PROVE  /\ \A p \in TracerNames : p # clients[c].domain => tracers'[p] = tracers[p]
           /\ \A p \in TracerNames : p = clients[c].domain => tracers'[p] = u /\ Traced(c)
BY Untraced DEF PoolsOK, TracerFor

LEMMA TotalsHeapRegister ==
    ASSUME TypeOK, PoolsOK, PoolTotals, NEW c \in Clients, NEW h \in setting.heaps, HeapRegister(c, h)
    PROVE  PoolTotals'
<1> PICK q : q = clients[c].domain
  OBVIOUS
<1> DEFINE x == [region |-> h, key |-> IF Traced(c) THEN HeapHandle(TracerFor(c), h) ELSE NoHandle]
           u == Allocate(TracerFor(c), tracers[TracerFor(c)], h)
           heaps == clients[c].heaps \cup {x}
<1>1. h \in Region /\ h.addr \in Nat
  <2>1. h \in Region
    BY OutputAssumption DEF TypeOK
  <2> QED BY <2>1, RegionShape
<1>2. x \in HeldKey /\ x.region = h
  BY <1>1 DEF HeldKey, Keys, HeapHandle
<1>3. /\ clients' = [clients EXCEPT ![c].heaps = @ \cup {x}]
      /\ tracers' = IF Traced(c) THEN [tracers EXCEPT ![TracerFor(c)] = u] ELSE tracers
      /\ domains' = domains /\ crowded' = crowded /\ Asked(c)
      /\ \A d \in Clients : \A y \in clients[d].heaps : y.region.addr # h.addr
  BY DEF HeapRegister
<1>4. q = "atb" => x.key = h.addr \/ ~Traced(c)
  BY DEF HeapHandle, TracerFor
<1>5. q \in TracerNames => u \in Tracers /\ TakesHeap(q, tracers[q], u, h)
  BY <1>1, AllocateOne DEF TracerFor, PoolsOK
<1> HIDE DEF u, x
<1>6. ClientsApart
  BY DEF PoolTotals
<1>7. /\ \A p \in TracerNames : p # q => tracers'[p] = tracers[p]
      /\ \A p \in TracerNames : p = q => tracers'[p] = u /\ Traced(c)
  <2>1. tracers' = IF Traced(c) THEN [tracers EXCEPT ![TracerFor(c)] = u] ELSE tracers
    BY <1>3
  <2> QED BY <1>6, <2>1, TracerChanges
<1>8. Holds(c, heaps, clients[c].regions)
  <2>1. clients \in [Clients -> ClientStates]
    BY DEF PoolsOK
  <2>2. clients[c] \in ClientStates
    BY <2>1
  <2>3. clients' = [clients EXCEPT ![c] = [clients[c] EXCEPT !.heaps = heaps]]
    BY <1>3
  <2>4. clients'[c] = [clients[c] EXCEPT !.heaps = heaps]
    BY <2>1, <2>3
  <2> HIDE DEF heaps
  <2> QED BY <2>1, <2>2, <2>3, <2>4 DEF ClientStates, Holds
<1>9. /\ \A p \in TracerNames : RegionsBy(p)' = RegionsBy(p)
      /\ \A p \in TracerNames : p # q => HeapsBy(p)' = HeapsBy(p)
      /\ HeapsBy(q)' = HeapsBy(q) \cup {x}
  <2>1. \A p : p # q => RegionsBy(p)' = RegionsBy(p) /\ HeapsBy(p)' = HeapsBy(p)
    BY <1>8, OthersHold
  <2>2. More(heaps, clients[c].heaps, {x})
    BY DEF More
  <2> HIDE DEF heaps
  <2>3. RegionsBy(q)' = RegionsBy(q)
    BY <1>8, TakenBy
  <2>4. More(HeapsBy(q)', HeapsBy(q), {x})
    BY <1>8, <2>2, TakenBy
  <2> QED BY <2>1, <2>3, <2>4 DEF More
<1>10. ClientsApart'
  <2>1. \A d \in Clients : Fresh({}, clients[d].regions) /\ Fresh({x}, clients[d].heaps)
    BY <1>2, <1>3 DEF Fresh
  <2>2. clients[c].regions \subseteq clients[c].regions \cup {} /\ heaps \subseteq clients[c].heaps \cup {x}
    OBVIOUS
  <2> HIDE DEF heaps
  <2> QED BY <1>3, <1>6, <1>8, <2>1, <2>2, ApartStep
<1>11. ASSUME NEW p \in TracerNames PROVE Mirrors(p, tracers'[p], RegionsBy(p)', RightOn(p)')
  <2>1. Mirrors(p, tracers[p], RegionsBy(p), RightOn(p)) /\ RightOn(p)' = RightOn(p)
    BY <1>3 DEF PoolTotals, RightOn
  <2>2. CASE p # q
    BY <1>7, <1>9, <2>1, <2>2
  <2>3. CASE p = q
    <3>1. u.regions = tracers[p].regions /\ \A d \in Devices : Usage(u, d).used = Usage(tracers[p], d).used
      BY <1>5, <2>3 DEF TakesHeap
    <3>2. Mirrors(p, u, RegionsBy(p), RightOn(p))
      BY <2>1, <3>1, RightDevices, SameMirrors
    <3> QED BY <1>7, <1>9, <2>1, <2>3, <3>2
  <2> QED BY <2>2, <2>3
<1>12. MirrorsHeaps(tracers'["atb"], HeapsBy("atb")')
  <2>1. MirrorsHeaps(tracers["atb"], HeapsBy("atb")) /\ "atb" \in TracerNames
    BY DEF PoolTotals, TracerNames
  <2>2. CASE q # "atb"
    BY <1>7, <1>9, <2>1, <2>2
  <2>3. CASE q = "atb"
    <3>1. Traced(c) /\ tracers'["atb"] = u
      BY <1>7, <2>1, <2>3
    <3>2. x.key = x.region.addr
      BY <1>2, <1>4, <2>3, <3>1
    <3>3. TakesHeap("atb", tracers["atb"], u, x.region)
      BY <1>2, <1>5, <2>1, <2>3
    <3>4. \A y \in HeapsBy("atb") : y.region.addr # x.region.addr
      BY <1>2, <1>3 DEF HeapsBy, ClientsOf
    <3>5. MirrorsHeaps(u, HeapsBy("atb") \cup {x})
      BY <1>2, <2>1, <3>2, <3>3, <3>4, TakesMirrorsHeaps
    <3> QED BY <1>9, <2>3, <3>1, <3>5
  <2> QED BY <2>2, <2>3
<1> QED BY <1>10, <1>11, <1>12 DEF PoolTotals

LEMMA TotalsHeapUnregister ==
    ASSUME TypeOK, PoolsOK, PoolTotals, NEW c \in Clients, NEW x \in clients[c].heaps, HeapUnregister(c, x)
    PROVE  PoolTotals'
<1> PICK q : q = clients[c].domain
  OBVIOUS
<1> DEFINE u == Deallocate(TracerFor(c), tracers[TracerFor(c)], x.key)
           heaps == clients[c].heaps \ {x}
<1>1. /\ clients' = [clients EXCEPT ![c].heaps = @ \ {x}]
      /\ tracers' = IF Traced(c) THEN [tracers EXCEPT ![TracerFor(c)] = u] ELSE tracers
      /\ domains' = domains /\ crowded' = crowded
  BY DEF HeapUnregister
<1>2. q \in TracerNames => u \in Tracers /\ GivesHeap(q, tracers[q], u, x.key)
  BY DeallocateOne DEF TracerFor, PoolsOK
<1> HIDE DEF u
<1>3. ClientsApart
  BY DEF PoolTotals
<1>4. /\ \A p \in TracerNames : p # q => tracers'[p] = tracers[p]
      /\ \A p \in TracerNames : p = q => tracers'[p] = u /\ Traced(c)
  BY <1>1, <1>3, TracerChanges
<1>5. Holds(c, heaps, clients[c].regions)
  <2>1. clients \in [Clients -> ClientStates]
    BY DEF PoolsOK
  <2>2. clients[c] \in ClientStates
    BY <2>1
  <2>3. clients' = [clients EXCEPT ![c] = [clients[c] EXCEPT !.heaps = heaps]]
    BY <1>1
  <2>4. clients'[c] = [clients[c] EXCEPT !.heaps = heaps]
    BY <2>1, <2>3
  <2> HIDE DEF heaps
  <2> QED BY <2>1, <2>2, <2>3, <2>4 DEF ClientStates, Holds
<1>6. /\ \A p \in TracerNames : RegionsBy(p)' = RegionsBy(p)
      /\ \A p \in TracerNames : p # q => HeapsBy(p)' = HeapsBy(p)
      /\ HeapsBy(q)' = HeapsBy(q) \ {x}
      /\ x \in HeapsBy(q)
  <2>1. \A p : p # q => RegionsBy(p)' = RegionsBy(p) /\ HeapsBy(p)' = HeapsBy(p)
    BY <1>5, OthersHold
  <2>2. RegionsBy(q)' = RegionsBy(q)
    BY <1>5, TakenBy
  <2>3. HeapsBy(q)' = HeapsBy(q) \ {x}
    <3>1. Less(heaps, clients[c].heaps, {x}) /\ {x} \subseteq clients[c].heaps
      BY DEF Less
    <3> HIDE DEF heaps
    <3>2. Less(HeapsBy(q)', HeapsBy(q), {x})
      BY <1>3, <1>5, <3>1, GivenBy
    <3> QED BY <3>2 DEF Less
  <2>4. x \in HeapsBy(q)
    BY DEF HeapsBy, ClientsOf
  <2> QED BY <2>1, <2>2, <2>3, <2>4
<1>7. ClientsApart'
  <2>1. \A d \in Clients : Fresh({}, clients[d].regions) /\ Fresh({}, clients[d].heaps)
    BY DEF Fresh
  <2>2. clients[c].regions \subseteq clients[c].regions \cup {} /\ heaps \subseteq clients[c].heaps \cup {}
    OBVIOUS
  <2>3. Asked(c)
    BY <1>3 DEF ClientsApart
  <2> HIDE DEF heaps
  <2> QED BY <1>1, <1>3, <1>5, <2>1, <2>2, <2>3, ApartStep
<1>8. ASSUME NEW p \in TracerNames PROVE Mirrors(p, tracers'[p], RegionsBy(p)', RightOn(p)')
  <2>1. Mirrors(p, tracers[p], RegionsBy(p), RightOn(p)) /\ RightOn(p)' = RightOn(p)
    BY <1>1 DEF PoolTotals, RightOn
  <2>2. CASE p # q
    BY <1>4, <1>6, <2>1, <2>2
  <2>3. CASE p = q
    <3>1. u.regions = tracers[p].regions /\ \A d \in Devices : Usage(u, d).used = Usage(tracers[p], d).used
      BY <1>2, <2>3 DEF GivesHeap
    <3>2. Mirrors(p, u, RegionsBy(p), RightOn(p))
      BY <2>1, <3>1, RightDevices, SameMirrors
    <3> QED BY <1>4, <1>6, <2>1, <2>3, <3>2
  <2> QED BY <2>2, <2>3
<1>9. MirrorsHeaps(tracers'["atb"], HeapsBy("atb")')
  <2>1. MirrorsHeaps(tracers["atb"], HeapsBy("atb")) /\ "atb" \in TracerNames
    BY DEF PoolTotals, TracerNames
  <2>2. CASE q # "atb"
    BY <1>4, <1>6, <2>1, <2>2
  <2>3. CASE q = "atb"
    <3>1. tracers'["atb"] = u /\ GivesHeap("atb", tracers["atb"], u, x.key) /\ x \in HeapsBy("atb")
      BY <1>2, <1>4, <1>6, <2>1, <2>3
    <3>2. MirrorsHeaps(u, HeapsBy("atb") \ {x})
      BY <2>1, <3>1, GivesMirrorsHeaps
    <3> QED BY <1>6, <2>3, <3>1, <3>2
  <2> QED BY <2>2, <2>3
<1> QED BY <1>7, <1>8, <1>9 DEF PoolTotals

\* A call for regions leaves the heaps of every client alone.
LEMMA TotalsRegions ==
    ASSUME TypeOK, PoolsOK, PoolTotals, NEW c \in Clients, NEW q, q = clients[c].domain, NEW u,
           \A p \in TracerNames : p # q => tracers'[p] = tracers[p],
           q \in TracerNames => tracers'[q] = u /\ HeapsSame(tracers[q], u),
           NEW regions, Holds(c, clients[c].heaps, regions)
    PROVE  /\ \A p \in TracerNames : p # q => RegionsBy(p)' = RegionsBy(p)
           /\ MirrorsHeaps(tracers'["atb"], HeapsBy("atb")')
<1>1. \A p : p # q => RegionsBy(p)' = RegionsBy(p) /\ HeapsBy(p)' = HeapsBy(p)
  BY OthersHold
<1>2. HeapsBy(q)' = HeapsBy(q)
  BY TakenBy
<1>3. MirrorsHeaps(tracers["atb"], HeapsBy("atb")) /\ "atb" \in TracerNames
  BY DEF PoolTotals, TracerNames
<1>4. HeapsBy("atb")' = HeapsBy("atb")
  BY <1>1, <1>2
<1>5. MirrorsHeaps(tracers'["atb"], HeapsBy("atb"))
  <2>1. CASE q # "atb"
    BY <1>3, <2>1
  <2>2. CASE q = "atb"
    BY <1>3, <2>2, SameMirrorsHeaps
  <2> QED BY <2>1, <2>2
<1> QED BY <1>1, <1>4, <1>5

LEMMA TotalsRegionsRegister ==
    ASSUME TypeOK, PoolsOK, PoolTotals, NEW c \in Clients, NEW batch \in setting.batches,
           RegionsRegister(c, batch)
    PROVE  PoolTotals'
<1> PICK q : q = clients[c].domain
  OBVIOUS
<1> PICK done : done = Realloc(c, batch)
  OBVIOUS
<1> DEFINE E == Entries(batch, done.keys)
           regions == clients[c].regions \cup E
<1>1. /\ clients' = [clients EXCEPT ![c].regions = @ \cup E]
      /\ tracers' = IF Traced(c) THEN [tracers EXCEPT ![TracerFor(c)] = done.tracer] ELSE tracers
      /\ domains' = domains /\ Asked(c)
      /\ crowded' = crowded \cup {d \in Devices : \E x, y \in HeldRegions("ptaWorkspace", d)' : x # y}
      /\ \A i \in 1 .. Len(batch) : NotHeld(batch[i])
  BY DEF RegionsRegister, Realloc, Entries
<1>2. batch \in Seq(Region) /\ \A i, j \in 1 .. Len(batch) : batch[i].addr = batch[j].addr => i = j
  BY BatchType DEF TypeOK
<1>3. q \in TracerNames =>
         /\ tracers[q] \in Tracers
         /\ done = Reallocate(q, tracers[q], batch)
         /\ HeapsSame(tracers[q], done.tracer)
  <2> SUFFICES ASSUME q \in TracerNames
               PROVE  /\ tracers[q] \in Tracers
                      /\ done = Reallocate(q, tracers[q], batch)
                      /\ HeapsSame(tracers[q], done.tracer)
    OBVIOUS
  <2>1. Traced(c)
    BY Untraced DEF PoolTotals
  <2>2. tracers[q] \in Tracers
    BY DEF PoolsOK
  <2>3. done = Reallocate(q, tracers[q], batch)
    BY <2>1 DEF Realloc, TracerFor
  <2> QED BY <1>2, <2>2, <2>3, ReallocateHeaps
<1>4. ClientsApart
  BY DEF PoolTotals
<1>5. /\ \A p \in TracerNames : p # q => tracers'[p] = tracers[p]
      /\ \A p \in TracerNames : p = q => tracers'[p] = done.tracer /\ Traced(c)
  <2>1. tracers' = IF Traced(c) THEN [tracers EXCEPT ![TracerFor(c)] = done.tracer] ELSE tracers
    BY <1>1
  <2> QED BY <1>4, <2>1, TracerChanges
<1>6. \A x \in E : \E i \in 1 .. Len(batch) : x.region = batch[i] /\ x.key = done.keys[i]
                                              /\ x = [region |-> batch[i], key |-> done.keys[i]]
  BY DEF Entries
<1> HIDE DEF E
<1>7. Holds(c, clients[c].heaps, regions)
  <2>1. clients \in [Clients -> ClientStates]
    BY DEF PoolsOK
  <2>2. clients[c] \in ClientStates
    BY <2>1
  <2>3. clients' = [clients EXCEPT ![c] = [clients[c] EXCEPT !.regions = regions]]
    BY <1>1
  <2>4. clients'[c] = [clients[c] EXCEPT !.regions = regions]
    BY <2>1, <2>3
  <2> HIDE DEF regions
  <2> QED BY <2>1, <2>2, <2>3, <2>4 DEF ClientStates, Holds
<1>8. RegionsBy(q)' = RegionsBy(q) \cup E
  <2>1. More(regions, clients[c].regions, E)
    BY DEF More
  <2> HIDE DEF regions
  <2>2. More(RegionsBy(q)', RegionsBy(q), E)
    BY <1>7, <2>1, TakenBy
  <2> QED BY <2>2 DEF More
<1>9. ClientsApart'
  <2>1. \A d \in Clients : Fresh(E, clients[d].regions)
    <3> SUFFICES ASSUME NEW d \in Clients PROVE Fresh(E, clients[d].regions)
      OBVIOUS
    <3>1. \A x \in E : \A y \in clients[d].regions : x.region.addr # y.region.addr
      BY <1>1, <1>6 DEF NotHeld
    <3>2. \A x, y \in E : x.region.addr = y.region.addr => x = y
      BY <1>2, <1>6
    <3> QED BY <3>1, <3>2 DEF Fresh
  <2>2. \A d \in Clients : Fresh({}, clients[d].heaps)
    BY DEF Fresh
  <2>3. regions \subseteq clients[c].regions \cup E /\ clients[c].heaps \subseteq clients[c].heaps \cup {}
    OBVIOUS
  <2> HIDE DEF regions
  <2> QED BY <1>1, <1>4, <1>7, <2>1, <2>2, <2>3, ApartStep
<1> HIDE DEF regions
<1>10. /\ \A p \in TracerNames : p # q => RegionsBy(p)' = RegionsBy(p)
       /\ MirrorsHeaps(tracers'["atb"], HeapsBy("atb")')
  <2>1. \A p \in TracerNames : p # q => tracers'[p] = tracers[p]
    BY <1>5
  <2>2. q \in TracerNames => tracers'[q] = done.tracer /\ HeapsSame(tracers[q], done.tracer)
    BY <1>3, <1>5
  <2> QED BY <1>7, <2>1, <2>2, TotalsRegions
<1>11. ASSUME NEW p \in TracerNames PROVE Mirrors(p, tracers'[p], RegionsBy(p)', RightOn(p)')
  <2>1. Mirrors(p, tracers[p], RegionsBy(p), RightOn(p))
    BY DEF PoolTotals
  <2>2. RightOn(p)' \in SUBSET RightOn(p) /\ RightOn(p)' \in SUBSET Devices
    BY <1>1 DEF RightOn
  <2>3. Mirrors(p, tracers[p], RegionsBy(p), RightOn(p)')
    BY <2>1, <2>2, FewerMirrors
  <2>4. CASE p # q
    BY <1>5, <1>10, <2>3, <2>4
  <2>5. CASE p = q
    <3> PICK held : held = RegionsBy(p)
      OBVIOUS
    <3> PICK devices : devices = RightOn(p)'
      OBVIOUS
    <3>1. \A y \in held, i \in 1 .. Len(batch) : y.region.addr # batch[i].addr
      BY <1>1 DEF NotHeld, RegionsBy, ClientsOf
    <3>2. p = "ptaWorkspace" => \A d \in devices : \A x, y \in On(held \cup E, d) : x = y
      <4> SUFFICES ASSUME p = "ptaWorkspace", NEW d \in devices, NEW x \in On(held \cup E, d),
                          NEW y \in On(held \cup E, d), x # y
                   PROVE  FALSE
        OBVIOUS
      <4>1. held \cup E = RegionsBy("ptaWorkspace")'
        BY <1>8, <2>5
      <4>2. HeldRegions("ptaWorkspace", d)' = On(RegionsBy("ptaWorkspace")', d)
        BY DEF HeldRegions, On, RegionsBy
      <4>3. x \in HeldRegions("ptaWorkspace", d)' /\ y \in HeldRegions("ptaWorkspace", d)'
        BY <4>1, <4>2
      <4>4. d \in Devices /\ d \notin crowded'
        BY DEF RightOn
      <4> QED BY <1>1, <4>3, <4>4
    <3>3. Mirrors(p, tracers[p], held, devices) /\ devices \in SUBSET Devices
      BY <2>2, <2>3
    <3>4. tracers[p] \in Tracers /\ done = Reallocate(p, tracers[p], batch)
      BY <1>3, <2>5
    <3>5. Mirrors(p, done.tracer, held \cup E, devices)
      BY <1>2, <3>1, <3>2, <3>3, <3>4, ReallocateMirrors DEF E
    <3> QED BY <1>5, <1>8, <2>5, <3>5
  <2> QED BY <2>4, <2>5
<1> QED BY <1>9, <1>10, <1>11 DEF PoolTotals

LEMMA TotalsRegionsUnregister ==
    ASSUME TypeOK, PoolsOK, PoolTotals, NEW c \in Clients, NEW given \in SUBSET clients[c].regions,
           RegionsUnregister(c, given)
    PROVE  PoolTotals'
<1> PICK q : q = clients[c].domain
  OBVIOUS
<1> PICK done : done = Releases(c, given)
  OBVIOUS
<1> DEFINE regions == clients[c].regions \ given
<1>1. /\ clients' = [clients EXCEPT ![c].regions = @ \ given]
      /\ tracers' = IF Traced(c) THEN [tracers EXCEPT ![TracerFor(c)] = done.tracer] ELSE tracers
      /\ domains' = domains /\ crowded' = crowded /\ given # {}
  BY DEF RegionsUnregister, Releases, KeyList
<1>2. q \in TracerNames =>
         /\ tracers[q] \in Tracers
         /\ done = Release(q, tracers[q], KeyList(given))
  <2> SUFFICES ASSUME q \in TracerNames
               PROVE  tracers[q] \in Tracers /\ done = Release(q, tracers[q], KeyList(given))
    OBVIOUS
  <2>1. Traced(c)
    BY Untraced DEF PoolTotals
  <2>2. tracers[q] \in Tracers
    BY DEF PoolsOK
  <2>3. done = Release(q, tracers[q], KeyList(given))
    BY <2>1 DEF Releases, TracerFor
  <2> QED BY <2>2, <2>3
<1>3. KeyList(given) \in Seq(Keys)
  <2> DEFINE list == Seqs!SetToSeq(given)
  <2>1. list \in Seq(given)
    <3>1. IsFiniteSet(given)
      BY ClientFields, FS_Subset
    <3> QED BY <3>1, SequenceOfSet
  <2>2. \A x \in given : x.key \in Keys
    BY ClientFields DEF HeldKey
  <2> HIDE DEF list
  <2>3. \A i \in 1 .. Len(list) : list[i].key \in Keys
    BY <2>1, <2>2
  <2>4. Len(list) \in Nat
    BY <2>1
  <2> QED BY <2>3, <2>4 DEF KeyList, list
<1>4. ClientsApart
  BY DEF PoolTotals
<1>5. /\ \A p \in TracerNames : p # q => tracers'[p] = tracers[p]
      /\ \A p \in TracerNames : p = q => tracers'[p] = done.tracer /\ Traced(c)
  <2>1. tracers' = IF Traced(c) THEN [tracers EXCEPT ![TracerFor(c)] = done.tracer] ELSE tracers
    BY <1>1
  <2> QED BY <1>4, <2>1, TracerChanges
<1>6. Holds(c, clients[c].heaps, regions)
  <2>1. clients \in [Clients -> ClientStates]
    BY DEF PoolsOK
  <2>2. clients[c] \in ClientStates
    BY <2>1
  <2>3. clients' = [clients EXCEPT ![c] = [clients[c] EXCEPT !.regions = regions]]
    BY <1>1
  <2>4. clients'[c] = [clients[c] EXCEPT !.regions = regions]
    BY <2>1, <2>3
  <2> HIDE DEF regions
  <2> QED BY <2>1, <2>2, <2>3, <2>4 DEF ClientStates, Holds
<1>7. RegionsBy(q)' = RegionsBy(q) \ given /\ given \in SUBSET RegionsBy(q)
  <2>1. Less(regions, clients[c].regions, given)
    BY DEF Less
  <2> HIDE DEF regions
  <2>2. Less(RegionsBy(q)', RegionsBy(q), given)
    BY <1>4, <1>6, <2>1, GivenBy
  <2>3. given \in SUBSET RegionsBy(q)
    BY DEF RegionsBy, ClientsOf
  <2> QED BY <2>2, <2>3 DEF Less
<1>8. ClientsApart'
  <2>1. \A d \in Clients : Fresh({}, clients[d].regions) /\ Fresh({}, clients[d].heaps)
    BY DEF Fresh
  <2>2. regions \subseteq clients[c].regions \cup {} /\ clients[c].heaps \subseteq clients[c].heaps \cup {}
    OBVIOUS
  <2>3. Asked(c)
    BY <1>1, <1>4 DEF ClientsApart
  <2> HIDE DEF regions
  <2> QED BY <1>1, <1>4, <1>6, <2>1, <2>2, <2>3, ApartStep
<1> HIDE DEF regions
<1>9. /\ \A p \in TracerNames : p # q => RegionsBy(p)' = RegionsBy(p)
      /\ MirrorsHeaps(tracers'["atb"], HeapsBy("atb")')
  <2>1. \A p \in TracerNames : p # q => tracers'[p] = tracers[p]
    BY <1>5
  <2>2. q \in TracerNames => tracers'[q] = done.tracer /\ HeapsSame(tracers[q], done.tracer)
    BY <1>2, <1>3, <1>5, ReleaseHeaps
  <2> QED BY <1>6, <2>1, <2>2, TotalsRegions
<1>10. ASSUME NEW p \in TracerNames PROVE Mirrors(p, tracers'[p], RegionsBy(p)', RightOn(p)')
  <2>1. Mirrors(p, tracers[p], RegionsBy(p), RightOn(p)) /\ RightOn(p)' = RightOn(p)
    BY <1>1 DEF PoolTotals, RightOn
  <2>2. CASE p # q
    BY <1>5, <1>9, <2>1, <2>2
  <2>3. CASE p = q
    <3>1. tracers[p] \in Tracers /\ done = Release(p, tracers[p], KeyList(given))
      BY <1>2, <2>3
    <3>2. given \in SUBSET RegionsBy(p) /\ RightOn(p) \in SUBSET Devices
      BY <1>7, <2>3, RightDevices
    <3>3. Mirrors(p, done.tracer, RegionsBy(p) \ given, RightOn(p))
      BY <2>1, <3>1, <3>2, ReleaseMirrors
    <3> QED BY <1>5, <1>7, <2>1, <2>3, <3>3
  <2> QED BY <2>2, <2>3
<1> QED BY <1>8, <1>9, <1>10 DEF PoolTotals

LEMMA TotalsStep == TotalsInv /\ [Next]_vars => TotalsInv'
<1> SUFFICES ASSUME TotalsInv, [Next]_vars PROVE TotalsInv'
  OBVIOUS
<1>1. SessionInv'
  BY SessionStep DEF TotalsInv
<1>2. TypeOK /\ PoolsOK /\ PoolTotals
  BY DEF TotalsInv, SessionInv
<1>3. PoolTotals'
  <2>1. ASSUME NEW c \in Clients, DomainCreate(c) PROVE PoolTotals'
    BY <1>2, <2>1, TotalsDomainCreate
  <2>2. ASSUME NEW c \in Clients, NEW h \in setting.heaps, HeapRegister(c, h) PROVE PoolTotals'
    BY <1>2, <2>2, TotalsHeapRegister
  <2>3. ASSUME NEW c \in Clients, NEW x \in clients[c].heaps, HeapUnregister(c, x) PROVE PoolTotals'
    BY <1>2, <2>3, TotalsHeapUnregister
  <2>4. ASSUME NEW c \in Clients, NEW batch \in setting.batches, RegionsRegister(c, batch) PROVE PoolTotals'
    BY <1>2, <2>4, TotalsRegionsRegister
  <2>5. ASSUME NEW c \in Clients, NEW given \in SUBSET clients[c].regions, RegionsUnregister(c, given)
        PROVE  PoolTotals'
    BY <1>2, <2>5, TotalsRegionsUnregister
  <2>6. CASE UNCHANGED poolVars
    BY <1>2, <2>6, PoolTotalsSame
  <2>7. ASSUME NEW t \in Threads,
               \/ \E b \in setting.blocks : HalMemAlloc(t, b)
               \/ \E b \in heap : HalMemFree(t, b)
               \/ \E d \in setting.marks : ReportMark(t, d)
               \/ ReportHalMalloc(t) \/ ReportHalFree(t) \/ Leave(t)
        PROVE  UNCHANGED poolVars
    BY <2>7 DEF HalMemAlloc, HalMemFree, ReportMark, ReportHalMalloc, ReportHalFree, Leave
  <2>8. ASSUME \/ \E a \in Actors : Enter(a)
               \/ \E type \in {"START", "STOP"} : Switch(type)
               \/ LeaveSwitch \/ Exit
        PROVE  UNCHANGED poolVars
    BY <2>8 DEF Enter, Switch, LeaveSwitch, Exit
  <2>9. CASE UNCHANGED vars
    <3>1. UNCHANGED poolVars
      BY <2>9 DEF vars, poolVars
    <3> QED BY <2>6, <3>1
  <2> QED BY <2>1, <2>2, <2>3, <2>4, <2>5, <2>6, <2>7, <2>8, <2>9 DEF Next
<1> QED BY <1>1, <1>3 DEF TotalsInv

LEMMA TotalsInvRight == TotalsInv => TotalsAreRegions
<1> SUFFICES ASSUME TotalsInv, NEW p \in TracerNames, NEW d \in Devices
             PROVE  /\ p # "ptaWorkspace" \/ d \notin crowded =>
                          Usage(tracers[p], d).used = Bytes(HeldRegions(p, d))
                    /\ p = "atb" => Usage(tracers[p], d).reserved = Bytes(HeldHeaps(p, d))
  BY DEF TotalsAreRegions
<1>1. HeldRegions(p, d) = On(RegionsBy(p), d) /\ HeldHeaps(p, d) = OfDevice(HeapsBy(p), d)
  BY DEF HeldRegions, HeldHeaps, On, OfDevice, RegionsBy, HeapsBy
<1>2. Mirrors(p, tracers[p], RegionsBy(p), RightOn(p)) /\ MirrorsHeaps(tracers["atb"], HeapsBy("atb"))
  BY DEF TotalsInv, PoolTotals
<1>3. p # "ptaWorkspace" \/ d \notin crowded => d \in RightOn(p)
  BY DEF RightOn
<1> QED BY <1>1, <1>2, <1>3 DEF Mirrors, MirrorsHeaps

\* The totals of a pool's rows are what its instances hold, for every tracer and device, any
\* number of instances and any batches, whether tracing was on or off (the tracers' Allocate,
\* Deallocate, Reallocate and Release): the workspace's only where there never were two.
THEOREM TotalsAreHeld == Spec => []TotalsAreRegions
<1>1. Init => TotalsInv
  BY InitSessionInv, InitTotals DEF TotalsInv
<1> QED BY <1>1, TotalsStep, TotalsInvRight, PTL DEF Spec
====================================================================================
