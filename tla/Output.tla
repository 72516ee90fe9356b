----------------------------------- MODULE Output -----------------------------------
(***************************************************************************)
(* What the process writes of what it was told: threads that allocate      *)
(* driver memory and report marks, the frameworks' memory pools, and       *)
(* start(), stop() and the exit of the process, through RecordHandler of   *)
(* framework/process.cpp to the memory state cache, the files of Dump and  *)
(* the leak table of HalAnalyzer.                                          *)
(*                                                                         *)
(* The gate of a report (is tracing on?) and RecordHandler are steps of    *)
(* their own.  Neither Dump nor HalAnalyzer has a lock: when two calls are *)
(* in RecordHandler at once the program is undefined, and nothing more is  *)
(* said of it (`raced`).  The blocks in use are apart, so that an event    *)
(* finds its state by the exact address (EventPipeline has the enclosing   *)
(* blocks).  No filter of devices or steps is set.                         *)
(***************************************************************************)
EXTENDS MemoryStateManager, PoolTrace, DumpFiles, HalAnalyzer
Sets == INSTANCE FiniteSetsExt

CONSTANTS Threads, Controller,  \* who reports; who calls start(), stop() and exits
          Clients,              \* instances of a framework's memory pool
          Settings,             \* configurations, what the application does under each, and
                                \* the bounds on its calls: see below
          NotAsked, NullDomain  \* a client that has no domain yet; a null domain

Actors == Threads \cup {Controller}

Region == [addr : Addrs, device : Devices, size : Sizes]

Batches == {batch \in Seq(Region) :
               \A i, j \in 1..Len(batch) : batch[i].addr = batch[j].addr => i = j}

ASSUME OutputAssumption ==
    /\ Controller \notin Threads
    /\ Pools = {HAL} \cup TracerNames
    /\ NoDevice = NA
    /\ {NotAsked, NullDomain} \cap TracerNames = {}
    /\ NoHandle \notin Addrs \cup Nat
    /\ \A s \in Settings :
          /\ s.tracing \in BOOLEAN
          /\ s.writable \subseteq Devices
          /\ s.blocks \subseteq Region           \* what the driver hands out
          /\ s.marks \subseteq Devices \cup {NA} \* the current device when a mark is made
          /\ s.heaps \subseteq Region
          /\ s.batches \subseteq Batches          \* regions registered by one call
          /\ s.current \in Devices \cup {NA}     \* the device current where pools are called
          /\ s.calls \in Nat /\ s.switches \in Nat

VARIABLES setting,
          tracing,     \* EventTraceManager's status_
          tracers,     \* the singletons of memory_pool_trace/
          domains,     \* MemoryPoolTraceManager's tracers_ and domainMp_
          clients,     \* what each pool has registered (external)
          heap,        \* the driver's blocks in use (external)
          halPtrs,     \* EventReport's halPtrs_
          recordIndex, \* EventReport's recordIndex_
          sink,        \* what EventHandler writes: the cache and the files
          table,       \* HalAnalyzer's memtables_ of this process
          call,        \* where each actor is, with the event of its call
          raced,       \* two calls met in RecordHandler
          exited,
          session,     \* history: the session that runs, 0 between sessions
          sessions,    \* history: how many there were
          missed,      \* history: addresses whose last event was not reported, or too late
          crowded,     \* history: devices that had two workspaces at once
          calls, switches

sessionVars == <<session, sessions>>
poolVars == <<tracers, domains, clients, crowded>>
vars == <<setting, tracing, tracers, domains, clients, heap, halPtrs, recordIndex, sink, table,
          call, raced, exited, session, sessions, missed, crowded, calls, switches>>

------------------------------------------------------------------------------------
\* RecordHandler

\* One row of Dump; `given` keeps, as history, the rows of no device.
DumpRow(to, id, device) ==
    LET row == [id |-> id, device |-> device, session |-> session]
    IN  [to EXCEPT !.dump = WriteToFile(@, row, setting.writable),
                   !.given = IF device = NA THEN @ \cup {row} ELSE @]

\* DumpMemoryState
DumpState(to, k) ==
    Seqs!FoldLeft(LAMBDA s, row : DumpRow(s, row.event.id, row.event.device), to,
                  RowsAt(to.states, k))

CleanUp(to, k) == [DumpState(to, k) EXCEPT !.states = Deleted(@, k)]

HandleMemoryEvent(to, event) ==
    LET e     == Completed(to.states, event)
        base  == IF Refuses(to.states, e) THEN CleanUp(to, KeyOf(e)) ELSE to
        k     == CHOOSE j \in Receivers(base.states, e) : TRUE
        added == [base EXCEPT !.states = Added(@, base.count, e, k),
                              !.count = CountAfter(base.states, @, e, k)]
    IN  IF e.type = "FREE"
        THEN [DumpState(added, k) EXCEPT !.states = Deleted(@, KeyOf(e))]
        ELSE added

\* TRACE_START and TRACE_STOP clean every key up, then make their own row.
HandleStatus(to, e) ==
    LET keys == Seqs!SetToSeq(LiveKeys(to.states))
    IN  DumpRow(Seqs!FoldLeft(LAMBDA s, k : CleanUp(s, k), to, keys), e.id, NA)

\* An event of another kind only makes its row.  The flush is no event; it is here because
\* it, too, must not meet another call.
EventHandler(to, e) ==
    CASE e.type \in EventTypes        -> HandleMemoryEvent(to, e)
      [] e.type \in {"START", "STOP"} -> HandleStatus(to, e)
      [] e.type = "FLUSH"             -> [to EXCEPT !.dump = WritePublicEventToFile(@)]
      [] OTHER                        -> DumpRow(to, e.id, e.device)

\* After EventHandler the driver's records go to HalAnalyzer.
RecordHandler(e) ==
    /\ sink' = EventHandler(sink, e)
    /\ table' = IF e.type \in EventTypes THEN HalRecord(setting.config, table, e.type, e.addr)
                                         ELSE table

------------------------------------------------------------------------------------
\* Calls of the threads and of the controller

Runs == ~raced /\ ~exited

Event(id, type, addr, size, device) ==
    [id |-> id, type |-> type, pool |-> HAL, addr |-> addr, size |-> size, device |-> device]

NoEvent(type) == Event(0, type, 0, 0, NA)

Out == [at |-> "out", event |-> NoEvent("NONE")]

CanCall(t) == Runs /\ t \in Threads /\ call[t] = Out /\ calls < setting.calls

EventOf(a) == call[a].event

Goes(a, place, event) == call' = [call EXCEPT ![a] = [at |-> place, event |-> event]]

\* halMemAlloc and halMemCreate, up to the end of the driver's own call.
HalMemAlloc(t, b) ==
    /\ CanCall(t)
    /\ b \in setting.blocks
    /\ \A c \in heap : c.addr # b.addr
    /\ heap' = heap \cup {b}
    /\ Goes(t, "hook", Event(0, "MALLOC", b.addr, b.size, b.device))
    /\ calls' = calls + 1
    /\ UNCHANGED <<setting, tracing, poolVars, halPtrs, recordIndex, sink, table,
                   raced, exited, sessionVars, missed, switches>>

\* A call of the given type on the address is under way.
Pending(type, a) ==
    \E t \in Threads : EventOf(t).type = type /\ EventOf(t).addr = a

\* halMemFree and halMemRelease, up to the same place, of a block whose call has returned.
HalMemFree(t, b) ==
    /\ CanCall(t)
    /\ b \in heap
    /\ ~Pending("MALLOC", b.addr)
    /\ heap' = heap \ {b}
    /\ Goes(t, "hook", Event(0, "FREE", b.addr, 0, NA))
    /\ calls' = calls + 1
    /\ UNCHANGED <<setting, tracing, poolVars, halPtrs, recordIndex, sink, table,
                   raced, exited, sessionVars, missed, switches>>

\* The rest of the hook, up to RecordHandler.
Passes(t, ptrs) ==
    /\ halPtrs' = ptrs
    /\ recordIndex' = recordIndex + 1
    /\ Goes(t, "checked", [EventOf(t) EXCEPT !.id = recordIndex + 1])
    /\ missed' = missed

TurnsBack(t) ==
    /\ call' = [call EXCEPT ![t] = Out]
    /\ missed' = missed \cup {EventOf(t).addr}
    /\ UNCHANGED <<halPtrs, recordIndex>>

ReportHalMalloc(t) ==
    /\ Runs
    /\ call[t].at = "hook" /\ EventOf(t).type = "MALLOC"
    /\ IF tracing THEN Passes(t, halPtrs \cup {EventOf(t).addr}) ELSE TurnsBack(t)
    /\ UNCHANGED <<setting, tracing, poolVars, heap, sink, table, raced, exited,
                   sessionVars, calls, switches>>

ReportHalFree(t) ==
    LET a == EventOf(t).addr
    IN  /\ Runs
        /\ call[t].at = "hook" /\ EventOf(t).type = "FREE"
        /\ IF tracing /\ a \in halPtrs THEN Passes(t, halPtrs \ {a}) ELSE TurnsBack(t)
        /\ UNCHANGED <<setting, tracing, poolVars, heap, sink, table, raced, exited,
                       sessionVars, calls, switches>>

\* Marks, operators, kernels and steps: of the current device, or of none.
ReportMark(t, d) ==
    /\ CanCall(t)
    /\ d \in setting.marks
    /\ tracing
    /\ recordIndex' = recordIndex + 1
    /\ Goes(t, "checked", Event(recordIndex + 1, "MARK", 0, 0, d))
    /\ calls' = calls + 1
    /\ UNCHANGED <<setting, tracing, poolVars, heap, halPtrs, sink, table, raced,
                   exited, sessionVars, missed, switches>>
\* The calls of the controller: start() and stop() report the status first, stop() and the
\* exit end with the flush.
Switch(type) ==
    /\ Runs
    /\ call[Controller] = Out
    /\ switches < setting.switches
    /\ recordIndex' = recordIndex + 1
    /\ Goes(Controller, "checked", Event(recordIndex + 1, type, 0, 0, NA))
    /\ switches' = switches + 1
    /\ UNCHANGED <<setting, tracing, poolVars, heap, halPtrs, sink, table, raced,
                   exited, sessionVars, missed, calls>>

\* RecordHandler begins.  A session begins with the TRACE_START of start().
Enter(a) ==
    /\ Runs
    /\ call[a].at = "checked"
    /\ call' = [call EXCEPT ![a].at = "inside"]
    /\ raced' = \E b \in Actors : call[b].at = "inside"
    /\ IF EventOf(a).type = "START" /\ session = 0
       THEN session' = sessions + 1 /\ sessions' = sessions + 1
       ELSE UNCHANGED <<session, sessions>>
    /\ UNCHANGED <<setting, tracing, poolVars, heap, halPtrs, recordIndex, sink, table,
                   exited, missed, calls, switches>>

\* A FREE that comes when its address has been allocated and reported again; a MALLOC starts
\* afresh.
MissedAfter(e) ==
    CASE e.type = "MALLOC" -> missed \ {e.addr}
      [] e.type = "FREE" /\ (\E b \in heap : b.addr = e.addr) /\ ~Pending("MALLOC", e.addr) ->
            missed \cup {e.addr}
      [] OTHER -> missed

\* RecordHandler of a thread's event, and the hook, return.
Leave(t) ==
    /\ Runs
    /\ t \in Threads /\ call[t].at = "inside"
    /\ RecordHandler(EventOf(t))
    /\ call' = [call EXCEPT ![t] = Out]
    /\ missed' = MissedAfter(EventOf(t))
    /\ UNCHANGED <<setting, tracing, poolVars, heap, halPtrs, recordIndex, raced, exited,
                   sessionVars, calls, switches>>

\* The end of SetTraceStatus, or of the flush.
LeaveSwitch ==
    LET e == EventOf(Controller)
    IN  /\ Runs
        /\ call[Controller].at = "inside"
        /\ RecordHandler(e)
        /\ tracing' = IF e.type = "FLUSH" THEN tracing ELSE e.type = "START"
        /\ session' = IF e.type = "FLUSH" THEN 0 ELSE session
        /\ call' = [call EXCEPT ![Controller] =
                       IF e.type = "STOP" THEN [at |-> "checked", event |-> NoEvent("FLUSH")]
                       ELSE Out]
        /\ UNCHANGED <<setting, poolVars, heap, halPtrs, recordIndex, raced, exited, sessions,
                       missed, calls, switches>>

\* The destructors of MemoryStateManager and Dump, when nothing is under way.
Exit ==
    /\ Runs
    /\ \A a \in Actors : call[a] = Out
    /\ LET keys  == Seqs!SetToSeq(LiveKeys(sink.states))
           clean == Seqs!FoldLeft(LAMBDA s, k : CleanUp(s, k), sink, keys)
       IN  sink' = [clean EXCEPT !.dump = WritePublicEventToFile(@)]
    /\ exited' = TRUE
    /\ session' = 0
    /\ UNCHANGED <<setting, tracing, poolVars, heap, halPtrs, recordIndex, table, call, raced,
                   sessions, missed, calls, switches>>

------------------------------------------------------------------------------------
\* Calls of the memory pools

NewClient == [domain |-> NotAsked, heaps |-> {}, regions |-> {}]

\* A pool call takes a turn of the application and leaves everything else alone.
PoolCall ==
    /\ Runs
    /\ calls < setting.calls
    /\ calls' = calls + 1
    /\ UNCHANGED <<setting, tracing, heap, halPtrs, table, call, exited, sessionVars,
                   missed, switches>>

\* An older name of the same pool.
TracerOf(name) == IF name = "msleaks" THEN "ptaCaching" ELSE name

\* Seeded fault: the older name is a pool of its own.
ReportDomainCreateByName(name) ==
    IF name \in {"atb", "mindsporeMemPool"} /\ name \in domains THEN NullDomain ELSE name

\* Where RegisterMemoryPoolTracer fails, ATB and MindSpore get no domain.
ReportDomainCreateA(name) ==
    IF \/ TracerOf(name) \notin TracerNames
       \/ name \in {"atb", "mindsporeMemPool"} /\ name \in domains
    THEN NullDomain
    ELSE TracerOf(name)

\* A pool asks for its domain once.
DomainCreate(c) ==
    /\ PoolCall
    /\ c \in DOMAIN setting.pools
    /\ clients[c].domain = NotAsked
    /\ LET domain == IF tracing THEN ReportDomainCreateA(setting.pools[c]) ELSE NullDomain
       IN  /\ clients' = [clients EXCEPT ![c].domain = domain]
           /\ domains' = domains \cup ({domain} \ {NullDomain})
    /\ UNCHANGED <<tracers, crowded, recordIndex, sink, raced>>

Asked(c) == clients[c].domain # NotAsked

\* GetMemoryPoolTracer
Traced(c) == clients[c].domain \in domains

TracerFor(c) == clients[c].domain

HeapRegister(c, h) ==
    /\ PoolCall
    /\ Asked(c)
    /\ h \in setting.heaps
    /\ \A d \in Clients : \A x \in clients[d].heaps : x.region.addr # h.addr
    /\ tracers' = IF Traced(c)
                  THEN [tracers EXCEPT ![TracerFor(c)] = Allocate(TracerFor(c), @, h)]
                  ELSE tracers
    /\ LET handle == IF Traced(c) THEN HeapHandle(TracerFor(c), h) ELSE NoHandle
       IN  clients' = [clients EXCEPT ![c].heaps = @ \cup {[region |-> h, key |-> handle]}]
    /\ UNCHANGED <<domains, crowded, recordIndex, sink, raced>>

HeapUnregister(c, x) ==
    /\ PoolCall
    /\ x \in clients[c].heaps
    /\ tracers' = IF Traced(c)
                  THEN [tracers EXCEPT ![TracerFor(c)] = Deallocate(TracerFor(c), @, x.key)]
                  ELSE tracers
    /\ clients' = [clients EXCEPT ![c].heaps = @ \ {x}]
    /\ UNCHANGED <<domains, crowded, recordIndex, sink, raced>>

\* A record of a pool as an event, with the device that is current on the calling thread.
PoolEvent(id, record) ==
    [id |-> id, type |-> record.type, pool |-> record.pool, addr |-> record.addr,
     size |-> record.size,
     device |-> IF setting.current = NA THEN record.device ELSE setting.current]

\* ReportMemPoolRecord of the records of one call, in their order.
ReportMemPoolRecords(records) ==
    LET Handled(s, i) == EventHandler(s, PoolEvent(recordIndex + i, records[i]))
    IN  IF tracing
        THEN /\ recordIndex' = recordIndex + Len(records)
             /\ sink' = Seqs!FoldLeft(Handled, sink, [i \in 1..Len(records) |-> i])
             /\ raced' = (records # <<>> /\ \E a \in Actors : call[a].at = "inside")
        ELSE UNCHANGED <<recordIndex, sink, raced>>

\* What the clients of a tracer hold through it on a device.  ATB's tracer passes over a region
\* that it gives no handle.
ClientsOf(p) == {c \in Clients : clients[c].domain = p}

HeldRegions(p, d) ==
    {x \in UNION {clients[c].regions : c \in ClientsOf(p)} : x.region.device = d /\ x.key # NoHandle}

HeldHeaps(p, d) == {x \in UNION {clients[c].heaps : c \in ClientsOf(p)} : x.region.device = d}

NotHeld(region) == \A d \in Clients : \A x \in clients[d].regions : x.region.addr # region.addr

\* Seeded fault: what is registered while tracing is off is passed over.
RegionsRegisterGated(c, batch) ==
    /\ PoolCall
    /\ Asked(c)
    /\ batch \in setting.batches
    /\ \A i \in 1..Len(batch) : NotHeld(batch[i])
    /\ LET p    == TracerFor(c)
           done == IF Traced(c) /\ tracing THEN Reallocate(p, tracers[p], batch)
                   ELSE [records |-> <<>>, keys |-> [i \in 1..Len(batch) |-> batch[i].addr]]
           new  == {[region |-> batch[i], key |-> done.keys[i]] : i \in 1..Len(batch)}
       IN  /\ tracers' = IF Traced(c) /\ tracing THEN [tracers EXCEPT ![p] = done.tracer] ELSE tracers
           /\ clients' = [clients EXCEPT ![c].regions = @ \cup new]
           /\ ReportMemPoolRecords(done.records)
    /\ UNCHANGED <<domains, crowded>>

RegionsRegister(c, batch) ==
    /\ PoolCall
    /\ Asked(c)
    /\ batch \in setting.batches
    /\ \A i \in 1..Len(batch) : NotHeld(batch[i])
    /\ LET p    == TracerFor(c)
           done == IF Traced(c) THEN Reallocate(p, tracers[p], batch)
                   ELSE [records |-> <<>>, keys |-> [i \in 1..Len(batch) |-> NoHandle]]
           new  == {[region |-> batch[i], key |-> done.keys[i]] : i \in 1..Len(batch)}
       IN  /\ tracers' = IF Traced(c) THEN [tracers EXCEPT ![p] = done.tracer] ELSE tracers
           /\ clients' = [clients EXCEPT ![c].regions = @ \cup new]
           /\ crowded' = crowded \cup {d \in Devices :
                              \E x, y \in HeldRegions("ptaWorkspace", d)' : x # y}
           /\ ReportMemPoolRecords(done.records)
    /\ domains' = domains

RegionsUnregister(c, regions) ==
    /\ PoolCall
    /\ regions # {} /\ regions \subseteq clients[c].regions
    /\ LET p    == TracerFor(c)
           list == Seqs!SetToSeq(regions)
           keys == [i \in 1..Len(list) |-> list[i].key]
           done == IF Traced(c) THEN Release(p, tracers[p], keys) ELSE [records |-> <<>>]
       IN  /\ tracers' = IF Traced(c) THEN [tracers EXCEPT ![p] = done.tracer] ELSE tracers
           /\ ReportMemPoolRecords(done.records)
    /\ clients' = [clients EXCEPT ![c].regions = @ \ regions]
    /\ UNCHANGED <<domains, crowded>>

------------------------------------------------------------------------------------
Init ==
    /\ setting \in Settings
    /\ tracing = setting.tracing
    /\ tracers = [p \in TracerNames |-> NewTracer]
    /\ domains = {}
    /\ clients = [c \in Clients |-> NewClient]
    /\ heap = {} /\ halPtrs = {} /\ recordIndex = 0
    /\ sink = [states |-> EmptyMap, count |-> 0, dump |-> NewDump, given |-> {}]
    /\ table = NewTable
    /\ call = [a \in Actors |-> Out]
    /\ raced = FALSE /\ exited = FALSE
    /\ session = (IF setting.tracing THEN 1 ELSE 0) /\ sessions = session
    /\ missed = {} /\ crowded = {}
    /\ calls = 0 /\ switches = 0

Next ==
    \/ \E t \in Threads :
          \/ \E b \in setting.blocks : HalMemAlloc(t, b)
          \/ \E b \in heap : HalMemFree(t, b)
          \/ \E d \in setting.marks : ReportMark(t, d)
          \/ ReportHalMalloc(t) \/ ReportHalFree(t) \/ Leave(t)
    \/ \E a \in Actors : Enter(a)
    \/ \E type \in {"START", "STOP"} : Switch(type)
    \/ LeaveSwitch \/ Exit
    \/ \E c \in Clients :
          \/ DomainCreate(c)
          \/ \E h \in setting.heaps : HeapRegister(c, h)
          \/ \E x \in clients[c].heaps : HeapUnregister(c, x)
          \/ \E batch \in setting.batches : RegionsRegister(c, batch)
          \/ \E regions \in SUBSET clients[c].regions : RegionsUnregister(c, regions)

Spec == Init /\ [][Next]_vars

------------------------------------------------------------------------------------
TableOK(t) ==
    DOMAIN t \subseteq Addrs /\ \A a \in DOMAIN t : t[a] \in {"FREE_WAIT", "FREE_ALREADY"}

CallsOK ==
    /\ DOMAIN call = Actors
    /\ \A a \in Actors :
          /\ call[a].at \in {"out", "hook", "checked", "inside"}
          /\ DOMAIN EventOf(a) = {"id", "type", "pool", "addr", "size", "device"}
          /\ EventOf(a).type \in {"MALLOC", "FREE", "MARK", "START", "STOP", "FLUSH", "NONE"}
          /\ EventOf(a).type \in {"MALLOC", "FREE"} => a \in Threads /\ EventOf(a).addr \in Addrs
          /\ call[a].at = "out" => EventOf(a).type = "NONE"

TypeOK ==
    /\ setting \in Settings
    /\ tracing \in BOOLEAN /\ raced \in BOOLEAN /\ exited \in BOOLEAN
    /\ heap \subseteq setting.blocks
    /\ halPtrs \subseteq Addrs /\ missed \subseteq Addrs
    /\ TableOK(table)
    /\ CallsOK
    /\ domains \subseteq TracerNames
    /\ sessions \in Nat /\ session \in 0..sessions
    /\ crowded \subseteq Devices
    /\ calls \in 0..setting.calls /\ switches \in 0..setting.switches

Bytes(held) == Sets!MapThenSumSet(LAMBDA x : x.region.size, held)

\* The total that a pool's row shows is what its instances hold: for every tracer and device,
\* totalAllocated is the sum of the regions that are registered and not unregistered, whatever
\* was registered while tracing was off and whichever instance or name of the pool did it, and
\* ATB's totalReserved the sum of the heaps.  The workspace's total is its last region, right
\* only for a device that never had two.
TotalsAreRegions ==
    \A p \in TracerNames, d \in Devices :
        LET usage == Usage(tracers[p], d)
        IN  /\ p # "ptaWorkspace" \/ d \notin crowded =>
                  usage.used = Bytes(HeldRegions(p, d))
            /\ p = "atb" => usage.reserved = Bytes(HeldHeaps(p, d))

\* The files are complete for every session that has ended (dump.cpp:203): one that has a row
\* of the session also has each event of no device of that session, once, though the file may
\* have been made after the event, and other sessions' flushes came before and after.
SessionsAreWhole ==
    ~raced =>
        \A d \in DOMAIN sink.dump.files, shared \in sink.given :
            LET rows    == sink.dump.files[d].rows
                RowsOf(s) == {i \in 1..Len(rows) : rows[i].session = s}
            IN  /\ shared.session \in 1..sessions \ {session}
                /\ \E i \in RowsOf(shared.session) : rows[i].device = d
                => Cardinality({i \in RowsOf(shared.session) : rows[i] = shared}) = 1

\* The list of leaks at exit is the driver memory that is held: while no call for an address is
\* under way the address is in the list exactly when it is allocated, however often it was
\* used before, unless the last call on it was not reported, or a free was reported after the
\* next allocation of the address.
HeldBlocksAreListed ==
    ~raced /\ IsHalAnalysisEnable(setting.config) =>
        \A a \in Addrs \ missed :
            ~Pending("MALLOC", a) /\ ~Pending("FREE", a) =>
                (a \in LeakAnalyze(setting.config, table) <=> \E b \in heap : b.addr = a)

\* What HeldBlocksAreListed rests on: an allocation that is under way holds its block, alone,
\* and each half of the property with only the calls that can still change it.
MallocHoldsItsBlock ==
    \A t, u \in Threads :
        EventOf(t).type = "MALLOC" =>
            /\ \E b \in heap : b.addr = EventOf(t).addr
            /\ EventOf(u).type = "MALLOC" /\ EventOf(u).addr = EventOf(t).addr => u = t

Listed(a) == a \in LeakAnalyze(setting.config, table)

ListFollowsHeap ==
    IsHalAnalysisEnable(setting.config) =>
        \A a \in Addrs \ missed :
            /\ (\E b \in heap : b.addr = a) /\ ~Pending("MALLOC", a) => Listed(a)
            /\ Listed(a) /\ (\A b \in heap : b.addr # a) => Pending("FREE", a)

LeakInv == TypeOK /\ MallocHoldsItsBlock /\ ListFollowsHeap
====================================================================================
