------------------------------ MODULE EventPipeline ------------------------------
(***************************************************************************)
(* From the hook to the output: an application that allocates and frees    *)
(* memory on one thread, the hooks and event_trace/event_report.cpp that   *)
(* report it, EventHandler of framework/process.cpp, the cache of          *)
(* MemoryStateManager and the rows analysis/dump.cpp writes.               *)
(*                                                                         *)
(* Each action is one call of the application into the tool and runs to    *)
(* the end of EventHandler; the loops of EventHandler over all cached keys *)
(* (trace start, trace stop, process exit) are taken key by key.           *)
(* EventThreads takes EventHandler apart for several threads.              *)
(***************************************************************************)
EXTENDS MemoryStateManager

CONSTANTS AccessPools,  \* pools that ACCESS events belong to (PTA_CACHING, ATB)
          BlocksOf,     \* the blocks the application may allocate, by pool
          Tensors,      \* the ranges its operators may access
          Filtered,     \* a filter (--steps, the npu slots) may skip a call
          MaxRecords    \* bound on recordIndex_

Block == [addr : Addrs, size : Sizes]

ASSUME PipelineAssumption ==
    /\ BlocksOf \in [Pools -> SUBSET Block]
    /\ Tensors \subseteq Block
    /\ AccessPools \subseteq Pools \ {HAL}
    /\ Filtered \in BOOLEAN
    /\ MaxRecords \in Nat

VARIABLES
    heap,         \* the application's blocks in use, by pool (external)
    status,       \* EventTraceManager::status_
    phase,        \* what the thread is doing: "running", a loop over the keys, "done"
    cleaning,     \* keys the running loop has still to clean up
    halPtrs,      \* EventReport::halPtrs_
    recordIndex,  \* the last id taken from recordIndex_, other records left out
    states,       \* MemoryStateManager::poolsMap_
    count,        \* MemoryState::count
    written       \* the rows Dump has written, in order

vars == <<heap, status, phase, cleaning, halPtrs, recordIndex, states, count, written>>

Status == {"IN_TRACING", "NOT_IN_TRACING"}
\* A loop over the keys is named for what it leads to.
Loops == {"IN_TRACING", "NOT_IN_TRACING", "exit"}
Phases == {"running", "done"} \cup Loops

TypeOK ==
    /\ heap \in [Pools -> SUBSET Block]
    /\ status \in Status
    /\ phase \in Phases
    /\ cleaning \in SUBSET MemoryStateKey
    /\ halPtrs \in SUBSET Addrs
    /\ recordIndex \in Nat
    /\ states \in StatesMap
    /\ count \in Nat
    /\ written \in Seq(Row)

-----------------------------------------------------------------------------
\* What IsNeedSkip may answer: the step filter moves with the application's step
\* marks and the device filter with the calling thread's device.
SkipAnswers == IF Filtered THEN BOOLEAN ELSE {FALSE}

Tracing == status = "IN_TRACING"

\* Seeded fault: the stale block is dropped instead of dumped.
StaleRowsDropped(e) == << >>

\* What the retry of a refused event does first: CLEAN_UP of the key it found taken.
StaleRows(e) == IF Refuses(states, e) THEN RowsAt(states, KeyOf(e)) ELSE << >>

WithoutStale(e) == IF Refuses(states, e) THEN Deleted(states, KeyOf(e)) ELSE states

\* EventHandler of a MALLOC, ACCESS or FREE: a refused event first cleans its key up
\* and is added again; a FREE is written with the state it went to, and then the
\* state of its own key is deleted.
HandleMemoryEvent(event) ==
    LET e    == Completed(states, event)
        base == WithoutStale(e)
    IN  \E k \in Receivers(base, e) :
            LET added == Added(base, count, e, k)
            IN  /\ count' = CountAfter(base, count, e, k)
                /\ IF e.type = "FREE"
                   THEN /\ states' = Deleted(added, KeyOf(e))
                        /\ written' = (written \o StaleRows(e)) \o RowsAt(added, k)
                   ELSE /\ states' = added
                        /\ written' = written \o StaleRows(e)

\* Seeded fault: CLEAN_UP dumps a block and leaves it in the cache.
CleanUpKeeping(k) ==
    /\ written' = written \o RowsAt(states, k)
    /\ UNCHANGED <<states, count>>

\* EventHandler of a CLEAN_UP.
CleanUp(k) ==
    /\ written' = written \o RowsAt(states, k)
    /\ states' = Deleted(states, k)
    /\ count' = count

NewEvent(type, p, a, s, d) ==
    [id |-> recordIndex + 1, type |-> type, pool |-> p, addr |-> a, size |-> s, device |-> d]

\* A record is made and handled.
Report(e) == recordIndex' = recordIndex + 1 /\ HandleMemoryEvent(e)

NoReport == UNCHANGED <<recordIndex, states, count, written>>

CanAct == phase = "running" /\ recordIndex < MaxRecords

-----------------------------------------------------------------------------
\* External: blocks in use in one pool never overlap.
Overlap(b, c) == b.addr < c.addr + c.size /\ c.addr < b.addr + b.size

IsFreeSpace(p, b) == \A c \in heap[p] : ~Overlap(b, c)

\* halMemAlloc and halMemCreate, after the driver succeeded.  Host memory of
\* halMemAlloc is not collected.
HalMemAlloc(b, d, onHost) ==
    /\ CanAct
    /\ IsFreeSpace(HAL, b)
    /\ heap' = [heap EXCEPT ![HAL] = @ \cup {b}]
    /\ \E skip \in SkipAnswers :
          IF Tracing /\ ~skip /\ ~onHost
          THEN /\ halPtrs' = halPtrs \cup {b.addr}
               /\ Report(NewEvent("MALLOC", HAL, b.addr, b.size, d))
          ELSE /\ halPtrs' = halPtrs
               /\ NoReport
    /\ UNCHANGED <<status, phase, cleaning>>

\* halMemFree and halMemRelease: only an address that was reported is reported again.
HalMemFree(b) ==
    /\ CanAct
    /\ b \in heap[HAL]
    /\ heap' = [heap EXCEPT ![HAL] = @ \ {b}]
    /\ \E skip \in SkipAnswers :
          IF Tracing /\ ~skip /\ b.addr \in halPtrs
          THEN /\ halPtrs' = halPtrs \ {b.addr}
               /\ Report(NewEvent("FREE", HAL, b.addr, 0, NA))
          ELSE /\ halPtrs' = halPtrs
               /\ NoReport
    /\ UNCHANGED <<status, phase, cleaning>>

\* ReportMemPoolRecord and the access reports: tracing, then the filter, then the event.
PoolReport(type, p, a, s, d) ==
    /\ \E skip \in SkipAnswers :
          IF Tracing /\ ~skip THEN Report(NewEvent(type, p, a, s, d)) ELSE NoReport
    /\ UNCHANGED <<status, phase, cleaning, halPtrs>>

PoolMalloc(p, b, d) ==
    /\ CanAct
    /\ IsFreeSpace(p, b)
    /\ heap' = [heap EXCEPT ![p] = @ \cup {b}]
    /\ PoolReport("MALLOC", p, b.addr, b.size, d)

PoolFree(p, b, d) ==
    /\ CanAct
    /\ b \in heap[p]
    /\ heap' = [heap EXCEPT ![p] = @ \ {b}]
    /\ PoolReport("FREE", p, b.addr, b.size, d)

\* A tensor lies within one block of its pool or in memory of another pool.
Inside(r, b) == b.addr <= r.addr /\ r.addr + r.size <= b.addr + b.size

MemAccess(p, r, d) ==
    /\ CanAct
    /\ IsFreeSpace(p, r) \/ \E b \in heap[p] : Inside(r, b)
    /\ heap' = heap
    /\ PoolReport("ACCESS", p, r.addr, r.size, d)

-----------------------------------------------------------------------------
\* Seeded fault: only start() cleans up.
BeginSetTraceStatusOnStart(new) ==
    /\ phase = "running"
    /\ phase' = new
    /\ cleaning' = IF new = "IN_TRACING" THEN LiveKeys(states) ELSE {}
    /\ UNCHANGED <<heap, status, halPtrs, recordIndex, states, count, written>>

\* SetTraceStatus: the status record is handled first, which cleans every key up,
\* and then status_ changes.  A skipped status record cleans nothing up.
BeginSetTraceStatus(new) ==
    /\ phase = "running"
    /\ \E skip \in SkipAnswers :
          IF skip
          THEN status' = new /\ UNCHANGED <<phase, cleaning>>
          ELSE /\ phase' = new
               /\ cleaning' = LiveKeys(states)
               /\ status' = status
    /\ UNCHANGED <<heap, halPtrs, recordIndex, states, count, written>>

EndSetTraceStatus ==
    /\ phase \in Status
    /\ cleaning = {}
    /\ status' = phase
    /\ phase' = "running"
    /\ UNCHANGED <<heap, cleaning, halPtrs, recordIndex, states, count, written>>

\* Seeded fault: nothing is flushed at exit.
BeginExitUnflushed ==
    /\ phase = "running"
    /\ phase' = "exit"
    /\ UNCHANGED <<heap, status, cleaning, halPtrs, recordIndex, states, count, written>>

\* ~MemoryStateManager at process exit.
BeginExit ==
    /\ phase = "running"
    /\ phase' = "exit"
    /\ cleaning' = LiveKeys(states)
    /\ UNCHANGED <<heap, status, halPtrs, recordIndex, states, count, written>>

EndExit ==
    /\ phase = "exit"
    /\ cleaning = {}
    /\ phase' = "done"
    /\ UNCHANGED <<heap, status, cleaning, halPtrs, recordIndex, states, count, written>>

\* One turn of either loop, in any order (an unordered_map).
CleanUpOne(k) ==
    /\ phase \in Loops
    /\ k \in cleaning
    /\ cleaning' = cleaning \ {k}
    /\ CleanUp(k)
    /\ UNCHANGED <<heap, status, phase, halPtrs, recordIndex>>

-----------------------------------------------------------------------------
InitTraceStatus == status \in Status   \* collectMode immediate or deferred

Init ==
    /\ heap = [p \in Pools |-> {}]
    /\ InitTraceStatus
    /\ phase = "running"
    /\ cleaning = {}
    /\ halPtrs = {}
    /\ recordIndex = 0
    /\ states = EmptyMap
    /\ count = 0
    /\ written = << >>

Application ==
    \/ \E b \in BlocksOf[HAL], d \in Devices, onHost \in BOOLEAN : HalMemAlloc(b, d, onHost)
    \/ \E b \in BlocksOf[HAL] : HalMemFree(b)
    \/ \E p \in Pools \ {HAL} : \E b \in BlocksOf[p], d \in Devices : PoolMalloc(p, b, d)
    \/ \E p \in Pools \ {HAL} : \E b \in BlocksOf[p], d \in Devices : PoolFree(p, b, d)
    \/ \E p \in AccessPools, r \in Tensors, d \in Devices \cup {NA} : MemAccess(p, r, d)
    \/ \E new \in Status : BeginSetTraceStatus(new)
    \/ BeginExit

Loop ==
    \/ \E k \in MemoryStateKey : CleanUpOne(k)
    \/ EndSetTraceStatus
    \/ EndExit

Next == Application \/ Loop

Spec == Init /\ [][Next]_vars

-----------------------------------------------------------------------------
Ids == 1 .. recordIndex

WrittenIds == {written[i].event.id : i \in 1 .. Len(written)}

CachedIds == {e.id : e \in Cached(states)}

\* No record is lost between the hook and the file: every event that reached
\* EventHandler is cached or written, and at process exit all of them are written.
NothingLost == /\ Ids = WrittenIds \cup CachedIds
               /\ phase = "done" => Ids = WrittenIds

\* A record reaches the output once: no event has two rows, and an event that has a
\* row is in the cache no more (process.cpp deletes the state it has just dumped).
WrittenOnce ==
    ~Filtered => /\ \A i, j \in 1 .. Len(written) :
                        written[i].event.id = written[j].event.id => i = j
                 /\ WrittenIds \cap CachedIds = {}

\* The cache tells the truth about the application: a cached block that begins with
\* a MALLOC is in use at that address with that size, whatever was freed, moved or
\* allocated over it since tracing began.
MirrorsHeap ==
    ~Filtered =>
        \A k \in LiveKeys(states) :
            states[k].events[1].type = "MALLOC" =>
                [addr |-> k[2], size |-> states[k].events[1].size] \in heap[k[1]]

\* Nothing of one tracing session is carried into the next: while tracing is off no
\* block is cached.
EmptyWhileStopped ==
    ~Filtered /\ phase = "running" /\ ~Tracing => LiveKeys(states) = {}

\* The rows of one allocation id are the history of one block: together in the
\* file, the MALLOC only first and the FREE only last.  Allocation id 0 is left out:
\* it is shared by all driver FREEs whose MALLOC is not cached, for which AddEvent
\* creates a default state (memory_state_manager.cpp:58).
HistoriesAreWhole ==
    ~Filtered =>
        \A i, j \in 1 .. Len(written) :
            /\ i < j
            /\ written[i].allocationId = written[j].allocationId
            /\ written[i].allocationId # 0
            => /\ written[j].event.type # "MALLOC"
               /\ written[i].event.type # "FREE"
               /\ \A m \in i .. j : written[m].allocationId = written[i].allocationId

\* A FREE is written with the size of the MALLOC it ends, and for a HAL block, whose
\* free call knows neither, with its device.
FreeMatchesMalloc ==
    ~Filtered =>
        \A i, j \in 1 .. Len(written) :
            /\ written[i].allocationId = written[j].allocationId
            /\ written[i].event.type = "MALLOC"
            /\ written[j].event.type = "FREE"
            => /\ written[j].event.size = written[i].event.size
               /\ written[i].event.pool = HAL => written[j].event.device = written[i].event.device

\* process.cpp:268 says that the end of a block's life deletes its cached data: a
\* step that writes a FREE row leaves no state with the allocation id of that row.
FreeRowsEnd ==
    \A i \in Len(written) + 1 .. Len(written') :
        written'[i].event.type = "FREE" =>
            \A k \in LiveKeys(states') : states'[k].allocationId # written'[i].allocationId

\* Without filters the comment is right: the life of a block ends with its FREE, and a
\* FREE is never taken for an event of another block.
FreeEndsItsBlock == [][~Filtered => FreeRowsEnd]_vars

-----------------------------------------------------------------------------
(***************************************************************************)
(* What the invariants above rest on: together they are inductive.         *)
(***************************************************************************)
HeapDisjoint ==
    \A p \in Pools : \A b, c \in heap[p] : b # c => ~Overlap(b, c)

\* A loop over the keys leaves no state behind.
LoopCovers ==
    /\ phase \in Loops => LiveKeys(states) \subseteq cleaning
    /\ phase = "done" => LiveKeys(states) = {}

\* A HAL state was opened by a MALLOC whose address is still waiting for its free.
HalStates ==
    \A k \in LiveKeys(states) :
        k[1] = HAL => k[2] \in halPtrs /\ states[k].events[1].type = "MALLOC"

\* A block whose MALLOC was not seen is not inside a cached one, so that its FREE
\* cannot be taken for an event of another block.
Covers(k, a) == k[2] <= a /\ a < k[2] + states[k].size

NoStrayFree ==
    ~Filtered /\ phase = "running" =>
        \A p \in Pools \ {HAL} : \A b \in heap[p] :
            <<p, b.addr>> \notin LiveKeys(states) =>
                \A k \in LiveKeys(states) : k[1] = p => ~Covers(k, b.addr)

\* Each cached event is cached once, under an id already taken, and so is each
\* written one.
IdAt(k, i) == states[k].events[i].id

CachedOnce ==
    \A k, l \in LiveKeys(states) :
        \A i \in 1 .. Len(states[k].events), j \in 1 .. Len(states[l].events) :
            IdAt(k, i) = IdAt(l, j) => k = l /\ i = j

CacheInv == HeapDisjoint /\ LoopCovers /\ HalStates /\ EmptyWhileStopped /\ MirrorsHeap /\ NoStrayFree

\* The pipeline without filters keeps the promise of BlockHistory: the histories are
\* those of the cached blocks, the log is the output.
HistoryOf(k) == [i \in 1 .. Len(states[k].events) |-> states[k].events[i].id]

History == INSTANCE BlockHistory WITH
               Events   <- 1 .. MaxRecords,
               happened <- Ids,
               open     <- {HistoryOf(k) : k \in LiveKeys(states)},
               log      <- [i \in 1 .. Len(written) |-> written[i].event.id]

KeepsHistories == History!Spec
=============================================================================
