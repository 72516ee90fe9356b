------------------------------- MODULE BlockAnalysis -------------------------------
(***************************************************************************)
(* What the tool says about a block besides its history: the analyzers     *)
(* that EventHandler of framework/process.cpp dispatches every event to,   *)
(* Dump, which writes their verdicts with the block, and the offline       *)
(* analysis of what was written.                                           *)
(*                                                                         *)
(* One thread; a call runs to the end of EventHandler.  Operators do not   *)
(* nest, and start(), stop() and config() are called between them.  A loop *)
(* over all cached keys is one step here: it writes whole blocks, and      *)
(* nothing below depends on their order.                                   *)
(***************************************************************************)
EXTENDS MemoryStateManager, EventDispatcher, InefficientAnalyzer, DecomposeAnalyzer
Offline == INSTANCE InefficientReport WITH idle_threshold <- Threshold

CONSTANTS BlocksOf,     \* the blocks the application may allocate, by pool
          OperatorPools, \* pools whose operators (ATen, ATB) are reported
          Switches,     \* the analyses config() may ask for
          MaxCalls,     \* bound on the calls from Python
          MaxRecords    \* bound on recordIndex_

ASSUME AnalysisAssumption ==
    /\ Pools = {HAL, PTA_CACHING, ATB} /\ HAL \notin {PTA_CACHING, ATB}
    /\ BlocksOf \in [Pools \ {HAL} -> SUBSET [addr : Addrs, size : Sizes]]
    /\ OperatorPools \subseteq Pools \ {HAL}
    /\ Switches \subseteq SUBSET {"DECOMPOSE_ANALYZER", "INEFFICIENT_ANALYZER"}
    /\ MaxCalls \in Nat /\ MaxRecords \in Nat

AnalysedPools == Pools \ {HAL}

VARIABLES
    heap,         \* the application's blocks in use, by pool (external)
    operators,    \* pools an operator of which is running (external)
    tracing,      \* EventTraceManager::status_ is IN_TRACING
    exited,       \* the process has exited
    subscribers,  \* EventDispatcher::eventSubscribers_
    pidStates,    \* PTAPidStatesMap and ATBPidStatesMap, for the one process
    states,       \* MemoryStateManager::poolsMap_
    count,        \* MemoryState::count
    notes,        \* apiId, inefficientType and memscopeDefinedOwner of each state
    recordIndex,  \* the last id taken from recordIndex_, other records left out
    written,      \* the rows Dump has written, in order
    api,          \* history: the number of the latest API of each pool
    apiOf,        \* history: the API that each record belongs to, 0 if it bounds one
    unwatched,    \* history: the inefficiency analysis was off while tracing
    calls         \* history: calls of start(), stop(), config() and the optimizer's hook

vars == <<heap, operators, tracing, exited, subscribers, pidStates, states, count, notes,
          recordIndex, written, api, apiOf, unwatched, calls>>

Note == [apiId : Seq(Nat), inefficientType : Seq(Inefficiencies), memscopeDefinedOwner : Owners]

NewNote == [apiId |-> << >>, inefficientType |-> << >>, memscopeDefinedOwner |-> NoOwner]

\* A row of a memory event; its MALLOC row carries the verdicts.  A row of an operator.
MemoryRow == [event : MemoryEvent, allocationId : Nat, verdicts : Seq(Inefficiencies), owner : Owners]
OperatorEvent == [id : Nat, type : {"START", "END"}, pool : Pools]
OperatorRow == [event : OperatorEvent]

TypeOK ==
    /\ heap \in [AnalysedPools -> SUBSET [addr : Addrs, size : Sizes]]
    /\ operators \subseteq AnalysedPools
    /\ tracing \in BOOLEAN /\ exited \in BOOLEAN
    /\ subscribers \in Subscribers
    /\ pidStates \in [AnalysedPools -> PidState]
    /\ states \in StatesMap
    /\ notes \in [MemoryStateKey -> Note]
    /\ count \in Nat /\ recordIndex \in Nat
    /\ written \in Seq(MemoryRow \cup OperatorRow)
    /\ api \in [AnalysedPools -> Nat] /\ apiOf \in [1 .. recordIndex -> Nat]
    /\ unwatched \in BOOLEAN /\ calls \in 0 .. MaxCalls

-----------------------------------------------------------------------------
(***************************************************************************)
(* The handlers.  k is the key of the state that EventHandler passes to    *)
(* them, s that state.                                                     *)
(***************************************************************************)
\* Dump: a whole block with the verdicts on it as they are now.
DumpMemoryState(s, note) ==
    [i \in 1 .. Len(s.events) |->
        LET isMalloc == s.events[i].type = "MALLOC"
        IN  [event        |-> s.events[i],
             allocationId |-> s.allocationId,
             verdicts     |-> IF isMalloc THEN note.inefficientType ELSE << >>,
             owner        |-> IF isMalloc THEN note.memscopeDefinedOwner ELSE NoOwner]]

\* HandleMemoryEvent of the inefficiency analyzer: the API is noted, then judged.
InefficientHandleMemoryEvent(x, e, s, k) ==
    LET p     == AfterMemoryEvent(x.pidStates[e.pool], e)
        apiId == Append(x.notes[k].apiId, p.apiId)
    IN  [x EXCEPT !.pidStates[e.pool] = p,
                  !.notes[k].apiId = apiId,
                  !.notes[k].inefficientType = InefficientAnalysis(p, s.events, apiId, @)]

DecomposeHandleMemoryEvent(x, e, k) ==
    [x EXCEPT !.notes[k].memscopeDefinedOwner =
        IF e.type = "MALLOC" THEN InitOwner(e.pool) ELSE UpdateOwnerByAtenAccess(@, e.pool)]

\* The handlers of a MALLOC, ACCESS or FREE.
MemoryHandler(x, id, e, s, k) ==
    CASE id = "INEFFICIENT_ANALYZER" -> InefficientHandleMemoryEvent(x, e, s, k)
      [] id = "DECOMPOSE_ANALYZER"   -> DecomposeHandleMemoryEvent(x, e, k)
      [] id = "DUMP" -> [x EXCEPT !.written = @ \o DumpMemoryState(s, x.notes[k])]

\* The handlers of an operator's START or END.
OperatorHandler(x, id, e) ==
    CASE id = "INEFFICIENT_ANALYZER" ->
            [x EXCEPT !.pidStates[e.pool] = HandleOpLaunchEvent(@, e.type = "START")]
      [] id = "DUMP" -> [x EXCEPT !.written = Append(@, [event |-> e])]

\* The handler of the owner that the optimizer's hook reports.
OwnerHandler(x, k, class) == [x EXCEPT !.notes[k].memscopeDefinedOwner = UpdateOwner(@, class)]

\* DispatchEvent: those who asked for the event's type handle it one after the other.
DispatchMemory(x, type, e, s, k) ==
    Seqs!FoldLeft(LAMBDA y, id : MemoryHandler(y, id, e, s, k), x, subscribers[type])

DispatchOperator(x, e) ==
    Seqs!FoldLeft(LAMBDA y, id : OperatorHandler(y, id, e), x, subscribers["OP_LAUNCH"])

DispatchOwner(x, k, class) ==
    Seqs!FoldLeft(LAMBDA y, id : OwnerHandler(y, k, class), x, subscribers["MEMORY_OWNER"])

Working(rows) == [pidStates |-> pidStates, notes |-> notes, written |-> rows]

\* EventHandler of a CLEAN_UP.
CleanedUp(rows, k) == DispatchMemory(Working(rows), "CLEAN_UP", states[k], states[k], k).written

-----------------------------------------------------------------------------
\* EventHandler of a MALLOC, ACCESS or FREE.
HandleMemoryEvent(event) ==
    LET e      == Completed(states, event)
        taken  == Refuses(states, e)
        base   == IF taken THEN Deleted(states, KeyOf(e)) ELSE states
        before == IF taken THEN CleanedUp(written, KeyOf(e)) ELSE written
    IN  \E k \in Receivers(base, e) :
            LET added  == Added(base, count, e, k)
                noted  == [notes EXCEPT ![k] = IF base[k] = NoState THEN NewNote ELSE @]
                result == DispatchMemory([Working(before) EXCEPT !.notes = noted],
                                         e.type, e, added[k], k)
            IN  /\ count' = CountAfter(base, count, e, k)
                /\ pidStates' = result.pidStates
                /\ written' = result.written
                /\ IF e.type = "FREE"
                   THEN /\ states' = Deleted(added, KeyOf(e))
                        /\ notes' = [result.notes EXCEPT ![KeyOf(e)] = NewNote]
                   ELSE /\ states' = added
                        /\ notes' = result.notes

\* EventHandler of an operator's START or END.
HandleOperatorEvent(e) ==
    LET result == DispatchOperator(Working(written), e)
    IN  /\ pidStates' = result.pidStates
        /\ written' = result.written
        /\ UNCHANGED <<states, count, notes>>

-----------------------------------------------------------------------------
CanAct == ~exited /\ recordIndex < MaxRecords

\* The bookkeeping of a record: its id, and the API it belongs to.
Numbered(p, apiOfRecord) ==
    /\ recordIndex' = recordIndex + 1
    /\ apiOf' = Append(apiOf, apiOfRecord)
    /\ api' = [api EXCEPT ![p] = IF apiOfRecord = 0 THEN @ ELSE apiOfRecord]

\* A memory record made while tracing.
ReportMemory(type, p, b, size, d) ==
    IF tracing
    THEN /\ Numbered(p, IF p \in operators THEN api[p] ELSE api[p] + 1)
         /\ HandleMemoryEvent([id |-> recordIndex + 1, type |-> type, pool |-> p,
                               addr |-> b.addr, size |-> size, device |-> d])
    ELSE UNCHANGED <<recordIndex, apiOf, api, pidStates, states, count, notes, written>>

Unswitched == UNCHANGED <<tracing, exited, unwatched, subscribers>>

NoCall == Unswitched /\ calls' = calls

Call == ~exited /\ calls < MaxCalls /\ calls' = calls + 1

PoolMalloc(p, b, d) ==
    /\ CanAct
    /\ \A c \in heap[p] : c.addr + c.size <= b.addr \/ b.addr + b.size <= c.addr
    /\ heap' = [heap EXCEPT ![p] = @ \cup {b}]
    /\ ReportMemory("MALLOC", p, b, b.size, d)
    /\ NoCall /\ UNCHANGED operators

PoolFree(p, b, d) ==
    /\ CanAct
    /\ b \in heap[p]
    /\ heap' = [heap EXCEPT ![p] = @ \ {b}]
    /\ ReportMemory("FREE", p, b, b.size, d)
    /\ NoCall /\ UNCHANGED operators

MemAccess(p, b, d) ==
    /\ CanAct
    /\ b \in heap[p]
    /\ ReportMemory("ACCESS", p, b, b.size, d)
    /\ NoCall /\ UNCHANGED <<heap, operators>>

\* ReportAtenLaunch and ReportAtbOpExecute.  What happens between two sessions is not
\* seen, and operators do not cross their boundaries.
OperatorStart(p) ==
    /\ CanAct
    /\ tracing
    /\ p \notin operators
    /\ operators' = operators \cup {p}
    /\ recordIndex' = recordIndex + 1
    /\ apiOf' = Append(apiOf, 0)
    /\ api' = [api EXCEPT ![p] = @ + 1]
    /\ HandleOperatorEvent([id |-> recordIndex + 1, type |-> "START", pool |-> p])
    /\ NoCall /\ UNCHANGED heap

OperatorEnd(p) ==
    /\ CanAct
    /\ p \in operators
    /\ operators' = operators \ {p}
    /\ Numbered(p, 0)
    /\ HandleOperatorEvent([id |-> recordIndex + 1, type |-> "END", pool |-> p])
    /\ NoCall /\ UNCHANGED heap

\* optimizer_step_hook.py reports a tensor, while tracing or not: the hook is registered
\* at every start() and removed once.  The owner goes to the state of its address.
OptimizerStep(b, class) ==
    LET k == <<PTA_CACHING, b.addr>>
    IN  /\ Call
        /\ b \in heap[PTA_CACHING]
        /\ notes' = IF states[k] = NoState THEN notes
                                       ELSE DispatchOwner(Working(written), k, class).notes
        /\ Unswitched
        /\ UNCHANGED <<heap, operators, pidStates, states, count, recordIndex, apiOf, api, written>>

-----------------------------------------------------------------------------
\* Every cached block is cleaned up.
CleanUpAll ==
    /\ written' = Seqs!FoldLeft(CleanedUp, written, Seqs!SetToSeq(LiveKeys(states)))
    /\ states' = EmptyMap
    /\ notes' = [k \in MemoryStateKey |-> NewNote]
    /\ UNCHANGED <<heap, operators, subscribers, pidStates, count, recordIndex, apiOf, api>>

SetTraceStatus(new) ==
    /\ Call
    /\ operators = {}
    /\ tracing' = new
    /\ unwatched' = (unwatched \/ (new /\ ~Seqs!Contains(subscribers["MALLOC"], "INEFFICIENT_ANALYZER")))
    /\ CleanUpAll
    /\ UNCHANGED exited

Exit ==
    /\ ~exited
    /\ operators = {}
    /\ exited' = TRUE
    /\ CleanUpAll
    /\ UNCHANGED <<tracing, calls, unwatched>>

\* UpdateAnalysisType.
Configured(lists, analyses, id) ==
    IF id \in analyses THEN Subscribe(lists, id) ELSE UnSubscribe(lists, id)

SetConfig(analyses) ==
    /\ Call
    /\ operators = {}
    /\ subscribers' = Configured(Configured(subscribers, analyses, "DECOMPOSE_ANALYZER"),
                                 analyses, "INEFFICIENT_ANALYZER")
    /\ unwatched' = (unwatched \/ (tracing /\ "INEFFICIENT_ANALYZER" \notin analyses))
    /\ UNCHANGED <<heap, operators, tracing, exited, pidStates, states, count, notes,
                   recordIndex, apiOf, api, written>>

\* The constructor of EventReport: analyzers first, then Dump.
InitSubscribers(analyses) ==
    LET first  == IF "DECOMPOSE_ANALYZER" \in analyses
                  THEN Subscribe(NoSubscribers, "DECOMPOSE_ANALYZER") ELSE NoSubscribers
        second == IF "INEFFICIENT_ANALYZER" \in analyses
                  THEN Subscribe(first, "INEFFICIENT_ANALYZER") ELSE first
    IN  Subscribe(second, "DUMP")

Init ==
    /\ heap = [p \in AnalysedPools |-> {}]
    /\ operators = {}
    /\ tracing = TRUE /\ exited = FALSE /\ calls = 0
    /\ \E analyses \in Switches :
          /\ subscribers = InitSubscribers(analyses)
          /\ unwatched = ("INEFFICIENT_ANALYZER" \notin analyses)
    /\ pidStates = [p \in AnalysedPools |-> InitialPidState]
    /\ states = EmptyMap
    /\ count = 0
    /\ notes = [k \in MemoryStateKey |-> NewNote]
    /\ recordIndex = 0 /\ apiOf = << >> /\ api = [p \in AnalysedPools |-> 0]
    /\ written = << >>

Next ==
    \/ \E p \in AnalysedPools : \E b \in BlocksOf[p], d \in Devices :
          PoolMalloc(p, b, d) \/ PoolFree(p, b, d) \/ MemAccess(p, b, d)
    \/ \E p \in OperatorPools : OperatorStart(p) \/ OperatorEnd(p)
    \/ \E b \in BlocksOf[PTA_CACHING], class \in Classes : OptimizerStep(b, class)
    \/ \E new \in BOOLEAN : SetTraceStatus(new)
    \/ \E analyses \in Switches : SetConfig(analyses)
    \/ Exit

Spec == Init /\ [][Next]_vars

-----------------------------------------------------------------------------
\* All events that were recorded, and those that were written with an allocation id.
Written == {written[i] : i \in 1 .. Len(written)}

MemoryRows == {r \in Written : r.event.type \in EventTypes}

Recorded == Cached(states) \cup {r.event : r \in MemoryRows}

BlockEvents(a) == {r.event : r \in {q \in MemoryRows : q.allocationId = a}}

Mallocs(a) == {e \in BlockEvents(a) : e.type = "MALLOC"}

Accesses(a) == {e \in BlockEvents(a) : e.type = "ACCESS"}

\* An API between those of two events in which the pool has an event of a type.
Between(e, f, type) ==
    \E g \in Recorded : /\ g.pool = e.pool
                        /\ g.type = type
                        /\ apiOf[e.id] < apiOf[g.id]
                        /\ apiOf[g.id] < apiOf[f.id]

\* The first access outside of the API that allocated the block; the last access.
IsFirstAccess(a, m, f) ==
    /\ apiOf[f.id] > apiOf[m.id]
    /\ \A g \in Accesses(a) : apiOf[g.id] > apiOf[m.id] => f.id <= g.id

IsLastAccess(a, f) == \A g \in Accesses(a) : g.id <= f.id

AreConsecutive(a, f, g) ==
    /\ f.id < g.id
    /\ \A h \in Accesses(a) : h.id <= f.id \/ g.id <= h.id

\* What docs/zh/memory_analysis.md:327-329 calls an inefficient block.
AllocatedEarly(a) ==
    \E m \in Mallocs(a), f \in Accesses(a) : IsFirstAccess(a, m, f) /\ Between(m, f, "FREE")

FreedLate(a) ==
    \E f \in Accesses(a), g \in BlockEvents(a) :
        g.type = "FREE" /\ IsLastAccess(a, f) /\ Between(f, g, "MALLOC")

LeftIdle(a) ==
    \E f, g \in Accesses(a) :
        AreConsecutive(a, f, g) /\ apiOf[g.id] - apiOf[f.id] > Threshold

\* A verdict on the MALLOC row of every block agrees with what happened to the block.
\* While the analysis was off events are missing and some verdicts with them, but none
\* that is given is wrong.
Agrees(verdict, Holds(_)) ==
    \A r \in MemoryRows :
        r.event.type = "MALLOC" =>
            /\ Seqs!Contains(r.verdicts, verdict) => Holds(r.allocationId)
            /\ ~unwatched /\ Holds(r.allocationId) => Seqs!Contains(r.verdicts, verdict)

\* A block is written as allocated too early exactly if another API freed something
\* between its allocation and its first access, whatever operators and single events
\* came in between and were classified when (the doc's rule, but for accesses in the
\* allocating API itself, which inefficient_analyzer.cpp:199 leaves out).
EarlyAllocationsFound == Agrees("early_allocation", AllocatedEarly)

\* A block is written as freed too late exactly if another API allocated something
\* between its last access and its free: the verdict is reached at the FREE, and Dump
\* writes the block in the same dispatch.
LateDeallocationsFound == Agrees("late_deallocation", FreedLate)

\* A block is written as idle exactly if two consecutive accesses are further apart
\* than the threshold.
IdlenessFound == Agrees("temporary_idleness", LeftIdle)

\* The two implementations agree: the offline analysis of the output, written block by
\* block and put back in order, gives each block the verdicts that the online analysis
\* gave it, in the same order.
OfflineRow(r) == [id   |-> r.event.id,
                  type |-> r.event.type,
                  pool |-> r.event.pool,
                  allocationId |-> IF r.event.type \in EventTypes THEN r.allocationId ELSE 0]

OfflineResults ==
    Offline!analyze([i \in 1 .. Len(written) |-> OfflineRow(written[i])], AnalysedPools, 0 .. count)

OfflineAgrees ==
    exited /\ ~unwatched =>
        LET results == OfflineResults
        IN  \A r \in MemoryRows :
                r.event.type = "MALLOC" => results[r.allocationId] = r.verdicts

\* However often config() changes the analyses, an event goes once to each of those
\* asked for, and to Dump after them.
ListsInOrder ==
    \A t \in EventBaseType :
        LET list == subscribers[t]
        IN  /\ Seqs!IsInjective(list)
            /\ Seqs!Contains(list, "DUMP") => list[Len(list)] = "DUMP"
            /\ \A id \in {"DECOMPOSE_ANALYZER", "INEFFICIENT_ANALYZER"} :
                  t \in EventTypesOf[id] =>
                      \A u \in EventTypesOf[id] :
                          Seqs!Contains(list, id) = Seqs!Contains(subscribers[u], id)

\* decompose_analyzer.cpp:134: a block that was recognised as a weight, a gradient or an
\* optimizer state never becomes a mere operator's block again, however its tensors are
\* accessed afterwards, and its MALLOC row says so.
ClassOf(k) == notes[k].memscopeDefinedOwner[2]

KeepsClass ==
    /\ \A k \in LiveKeys(states) \cap LiveKeys(states') :
          /\ states[k].allocationId = states'[k].allocationId
          /\ ClassOf(k) \in Classes
          => ClassOf(k)' \in Classes
    /\ \A k \in LiveKeys(states) : \A i \in Len(written) + 1 .. Len(written') :
          LET r == written'[i]
          IN  /\ r.event.type = "MALLOC"
              /\ r.allocationId = states[k].allocationId
              => r.owner = notes[k].memscopeDefinedOwner

AtenNeverOverrides == [][KeepsClass]_vars
=============================================================================
