------------------------------- MODULE EventThreads -------------------------------
(***************************************************************************)
(* Several threads that allocate and free driver memory, each in its own   *)
(* call of halMemAlloc or halMemFree, with EventHandler of                 *)
(* framework/process.cpp cut where its locks are: every call into          *)
(* MemoryStateManager is one step, and the pointer that GetState returns   *)
(* outlives the lock.                                                      *)
(*                                                                         *)
(* Driver memory only: its events find states by exact address, so that    *)
(* what is seen here comes from the interleaving alone (EventPipeline has  *)
(* the enclosing blocks, on one thread).  No filter is set and no memory   *)
(* of the host is allocated.  The application frees a block after the call *)
(* that allocated it has returned, on any thread that uses that block.     *)
(***************************************************************************)
EXTENDS MemoryStateManager, FiniteSets

CONSTANTS Threads,
          BlocksOf,    \* the blocks a thread allocates and frees
          Switching,   \* start() and stop() are called
          NoEvent,     \* no memory event in this call of EventHandler
          MaxRecords   \* bound on recordIndex_

Block == [addr : Addrs, size : Sizes]

ASSUME ThreadsAssumption ==
    /\ IsFiniteSet(Threads)
    /\ Addrs # {}
    /\ BlocksOf \in [Threads -> SUBSET Block]
    /\ Switching \in BOOLEAN
    /\ NoEvent \notin MemoryEvent
    /\ MaxRecords \in Nat

VARIABLES
    heap,         \* the driver's blocks in use (external)
    status,       \* EventTraceManager::status_
    halPtrs,      \* EventReport::halPtrs_
    recordIndex,  \* EventReport::recordIndex_
    states,       \* MemoryStateManager::poolsMap_
    count,        \* MemoryState::count
    written,      \* the rows Dump has written, in order
    pc,           \* where each thread is
    event,        \* the memory event it handles
    key,          \* the key of the CLEAN_UP event it handles
    ptr,          \* what GetState returned: the state, and where it was
    cleaning,     \* keys the loop of a status record has still to clean up
    newStatus,    \* the argument of the running SetTraceStatus
    cachedBefore, \* history: the events that were cached when it began
    crashed       \* the process used freed memory and died of it

vars == <<heap, status, halPtrs, recordIndex, states, count, written, pc, event, key, ptr,
          cleaning, newStatus, cachedBefore, crashed>>

local   == <<pc, event, key, ptr>>
cache   == <<states, count>>
switch  == <<status, cleaning, newStatus, cachedBefore>>
reports == <<halPtrs, recordIndex>>

Status == {"IN_TRACING", "NOT_IN_TRACING"}

Places == {"idle", "mallocHook", "freeHook", "add", "retry", "get", "dispatch", "delete",
           "cleanGet", "cleanDispatch", "cleanDelete", "loop"}

\* GetState returns a null pointer, or points to a state at its key.
Pointer == [key : MemoryStateKey, state : MemoryState] \cup {NoState}

ASSUME PointerAssumption == NoState \notin [key : MemoryStateKey, state : MemoryState]

TypeOK ==
    /\ heap \in SUBSET Block
    /\ status \in Status /\ newStatus \in Status
    /\ halPtrs \in SUBSET Addrs
    /\ recordIndex \in Nat
    /\ states \in StatesMap
    /\ count \in Nat
    /\ written \in Seq(Row)
    /\ pc \in [Threads -> Places]
    /\ event \in [Threads -> MemoryEvent \cup {NoEvent}]
    /\ key \in [Threads -> MemoryStateKey]
    /\ ptr \in [Threads -> Pointer]
    /\ cleaning \in SUBSET MemoryStateKey
    /\ cachedBefore \in SUBSET Nat
    /\ crashed \in BOOLEAN

-----------------------------------------------------------------------------
Tracing == status = "IN_TRACING"

At(t, place) == ~crashed /\ pc[t] = place

Goto(t, place) == pc' = [pc EXCEPT ![t] = place]

Overlap(b, c) == b.addr < c.addr + c.size /\ c.addr < b.addr + b.size

\* The driver gives b to thread t, whose hook has not looked at anything yet.
HalMemAlloc(t, b, d) ==
    /\ At(t, "idle")
    /\ recordIndex < MaxRecords
    /\ b \in BlocksOf[t]
    /\ \A c \in heap : ~Overlap(b, c)
    /\ heap' = heap \cup {b}
    /\ event' = [event EXCEPT ![t] = [id |-> 0, type |-> "MALLOC", pool |-> HAL,
                                      addr |-> b.addr, size |-> b.size, device |-> d]]
    /\ Goto(t, "mallocHook")
    /\ UNCHANGED <<switch, reports, cache, written, key, ptr, crashed>>

\* The call that allocated b has returned.
Returned(b) == \A u \in Threads : pc[u] # "idle" /\ event[u] # NoEvent
                                  => event[u].type = "FREE" \/ event[u].addr # b.addr

\* The driver takes b back: from here on it can give the address to another thread.
HalMemFree(t, b) ==
    /\ At(t, "idle")
    /\ recordIndex < MaxRecords
    /\ b \in BlocksOf[t] \cap heap
    /\ Returned(b)
    /\ heap' = heap \ {b}
    /\ event' = [event EXCEPT ![t] = [id |-> 0, type |-> "FREE", pool |-> HAL,
                                      addr |-> b.addr, size |-> 0, device |-> NA]]
    /\ Goto(t, "freeHook")
    /\ UNCHANGED <<switch, reports, cache, written, key, ptr, crashed>>

NotReported(t) ==
    /\ event' = [event EXCEPT ![t] = NoEvent]
    /\ Goto(t, "idle")
    /\ UNCHANGED reports

Reported(t) ==
    /\ recordIndex' = recordIndex + 1
    /\ event' = [event EXCEPT ![t].id = recordIndex + 1]
    /\ Goto(t, "add")

\* Seeded fault: the address is not remembered for its free.
ReportHalMallocForgotten(t) ==
    /\ At(t, "mallocHook")
    /\ IF Tracing THEN halPtrs' = halPtrs /\ Reported(t) ELSE NotReported(t)
    /\ UNCHANGED <<heap, switch, cache, written, key, ptr, crashed>>

\* The rest of the hook and ReportHalMalloc, up to EventHandler.
ReportHalMalloc(t) ==
    /\ At(t, "mallocHook")
    /\ IF Tracing
       THEN halPtrs' = halPtrs \cup {event[t].addr} /\ Reported(t)
       ELSE NotReported(t)
    /\ UNCHANGED <<heap, switch, cache, written, key, ptr, crashed>>

\* The rest of the hook and ReportHalFree, up to EventHandler.
ReportHalFree(t) ==
    /\ At(t, "freeHook")
    /\ IF Tracing /\ event[t].addr \in halPtrs
       THEN halPtrs' = halPtrs \ {event[t].addr} /\ Reported(t)
       ELSE NotReported(t)
    /\ UNCHANGED <<heap, switch, cache, written, key, ptr, crashed>>

-----------------------------------------------------------------------------
\* Seeded fault: an event that was accepted is taken for a refused one.
AcceptAndRetry(t) ==
    LET e == Completed(states, event[t])
    IN  /\ ~Refuses(states, e)
        /\ \E k \in Receivers(states, e) :
              /\ states' = Added(states, count, e, k)
              /\ count' = CountAfter(states, count, e, k)
        /\ event' = [event EXCEPT ![t] = e]
        /\ Goto(t, "retry")
        /\ key' = key

\* AddEvent under the lock of the manager, when it accepts the event.
Accept(t) ==
    LET e == Completed(states, event[t])
    IN  /\ ~Refuses(states, e)
        /\ \E k \in Receivers(states, e) :
              /\ states' = Added(states, count, e, k)
              /\ count' = CountAfter(states, count, e, k)
        /\ event' = [event EXCEPT ![t] = e]
        /\ Goto(t, "get")
        /\ key' = key

\* AddEvent returns false: EventHandler turns to a CLEAN_UP of the key.
Refuse(t) ==
    LET e == Completed(states, event[t])
    IN  /\ Refuses(states, e)
        /\ event' = [event EXCEPT ![t] = e]
        /\ key' = [key EXCEPT ![t] = KeyOf(e)]
        /\ Goto(t, "cleanGet")
        /\ UNCHANGED cache

AddEvent(t) ==
    /\ At(t, "add")
    /\ Accept(t) \/ Refuse(t)
    /\ UNCHANGED <<heap, switch, reports, written, ptr, crashed>>

\* The second AddEvent: its result is ignored, so that a refused event is lost.
RetryAddEvent(t) ==
    /\ At(t, "retry")
    /\ \/ Accept(t)
       \/ /\ Refuses(states, event[t])
          /\ Goto(t, "get")
          /\ UNCHANGED <<cache, event, key>>
    /\ UNCHANGED <<heap, switch, reports, written, ptr, crashed>>

PointerTo(k) == IF states[k] = NoState THEN NoState ELSE [key |-> k, state |-> states[k]]

\* GetState of the event: the pointer is used after the lock is released.
GetState(t) ==
    /\ At(t, "get")
    /\ \/ \E k \in FindStateInPool(states, event[t]) : ptr' = [ptr EXCEPT ![t] = PointerTo(k)]
       \/ FindStateInPool(states, event[t]) = {} /\ ptr' = [ptr EXCEPT ![t] = NoState]
    /\ Goto(t, "dispatch")
    /\ UNCHANGED <<heap, switch, reports, cache, written, event, key, crashed>>

\* GetState of the CLEAN_UP event: the exact key.
GetCleanUpState(t) ==
    /\ At(t, "cleanGet")
    /\ ptr' = [ptr EXCEPT ![t] = PointerTo(key[t])]
    /\ Goto(t, "cleanDispatch")
    /\ UNCHANGED <<heap, switch, reports, cache, written, event, key, crashed>>

\* The state a thread points to is no longer in the map.
Dangling(t) ==
    /\ ptr[t] # NoState
    /\ ~(/\ states[ptr[t].key] # NoState
         /\ states[ptr[t].key].events[1] = ptr[t].state.events[1])

\* What Dump writes of the state that thread t points to.  Freed memory may still hold
\* what was there.
RowsPointedTo(t) ==
    IF ptr[t] = NoState THEN << >>
    ELSE IF Dangling(t) THEN Rows(ptr[t].state)
    ELSE Rows(states[ptr[t].key])

\* The subscribers get the pointer; Dump writes the state of a FREE and of a CLEAN_UP.
\* Using freed memory may also end the process.
Dispatch(t, dumps, next) ==
    /\ \/ /\ written' = IF dumps THEN written \o RowsPointedTo(t) ELSE written
          /\ Goto(t, next)
          /\ crashed' = crashed
       \/ /\ Dangling(t)
          /\ crashed' = TRUE
          /\ UNCHANGED <<written, pc>>
    /\ UNCHANGED <<heap, switch, reports, cache, event, key, ptr>>

\* Seeded fault: only a CLEAN_UP is written.
DispatchEventSilently(t) ==
    /\ At(t, "dispatch")
    /\ Dispatch(t, FALSE, "delete")

DispatchEvent(t) ==
    /\ At(t, "dispatch")
    /\ Dispatch(t, event[t].type = "FREE", "delete")

DispatchCleanUp(t) ==
    /\ At(t, "cleanDispatch")
    /\ Dispatch(t, TRUE, "cleanDelete")

\* The end of EventHandler: a FREE deletes the state of its own key.
DeteleState(t) ==
    /\ At(t, "delete")
    /\ states' = IF event[t].type = "FREE" THEN Deleted(states, KeyOf(event[t])) ELSE states
    /\ event' = [event EXCEPT ![t] = NoEvent]
    /\ ptr' = [ptr EXCEPT ![t] = NoState]
    /\ Goto(t, "idle")
    /\ UNCHANGED <<heap, switch, reports, count, written, key, crashed>>

\* Seeded fault: only the state of an event is deleted after its rows are written.
DeleteCleanedUpInRetry(t) ==
    /\ At(t, "cleanDelete")
    /\ states' = IF event[t] = NoEvent THEN states ELSE Deleted(states, key[t])
    /\ ptr' = [ptr EXCEPT ![t] = NoState]
    /\ Goto(t, IF event[t] = NoEvent THEN "loop" ELSE "retry")
    /\ UNCHANGED <<heap, switch, reports, count, written, event, key, crashed>>

\* The same for a CLEAN_UP, which returns to the retry or to the loop.
DeleteCleanedUp(t) ==
    /\ At(t, "cleanDelete")
    /\ states' = Deleted(states, key[t])
    /\ ptr' = [ptr EXCEPT ![t] = NoState]
    /\ Goto(t, IF event[t] = NoEvent THEN "loop" ELSE "retry")
    /\ UNCHANGED <<heap, switch, reports, count, written, event, key, crashed>>

-----------------------------------------------------------------------------
\* SetTraceStatus on thread t, up to the list of keys that EventHandler takes.  Both
\* calls come from Python, one at a time.
BeginSetTraceStatus(t, new) ==
    /\ Switching
    /\ At(t, "idle")
    /\ \A u \in Threads : pc[u] # "loop" /\ (event[u] = NoEvent => pc[u] = "idle")
    /\ newStatus' = new
    /\ cleaning' = LiveKeys(states)
    /\ cachedBefore' = {e.id : e \in Cached(states)}
    /\ Goto(t, "loop")
    /\ UNCHANGED <<heap, status, reports, cache, written, event, key, ptr, crashed>>

NextKey(t, k) ==
    /\ At(t, "loop")
    /\ k \in cleaning
    /\ cleaning' = cleaning \ {k}
    /\ key' = [key EXCEPT ![t] = k]
    /\ Goto(t, "cleanGet")
    /\ UNCHANGED <<heap, status, newStatus, cachedBefore, reports, cache, written, event, ptr, crashed>>

\* status_ changes when every key of the list is cleaned up.
EndSetTraceStatus(t) ==
    /\ At(t, "loop")
    /\ cleaning = {}
    /\ status' = newStatus
    /\ Goto(t, "idle")
    /\ UNCHANGED <<heap, cleaning, newStatus, cachedBefore, reports, cache, written, event, key,
                   ptr, crashed>>

-----------------------------------------------------------------------------
Init ==
    /\ heap = {}
    /\ status = "IN_TRACING" /\ newStatus = "IN_TRACING"
    /\ halPtrs = {} /\ recordIndex = 0
    /\ states = EmptyMap /\ count = 0
    /\ written = << >>
    /\ pc = [t \in Threads |-> "idle"]
    /\ event = [t \in Threads |-> NoEvent]
    /\ key \in [Threads -> {<<HAL, CHOOSE a \in Addrs : TRUE>>}]
    /\ ptr = [t \in Threads |-> NoState]
    /\ cleaning = {} /\ cachedBefore = {}
    /\ crashed = FALSE

Handler(t) ==
    \/ AddEvent(t) \/ RetryAddEvent(t) \/ GetState(t) \/ DispatchEvent(t) \/ DeteleState(t)
    \/ GetCleanUpState(t) \/ DispatchCleanUp(t) \/ DeleteCleanedUp(t)

Next ==
    \E t \in Threads :
        \/ \E b \in BlocksOf[t], d \in Devices : HalMemAlloc(t, b, d)
        \/ \E b \in BlocksOf[t] : HalMemFree(t, b)
        \/ ReportHalMalloc(t) \/ ReportHalFree(t)
        \/ Handler(t)
        \/ \E new \in Status : BeginSetTraceStatus(t, new)
        \/ \E k \in MemoryStateKey : NextKey(t, k)
        \/ EndSetTraceStatus(t)

Spec == Init /\ [][Next]_vars

-----------------------------------------------------------------------------
Quiet == \A t \in Threads : pc[t] = "idle"

\* The last event of an address, in its state or else in the output, is a MALLOC.
LastIsMalloc(a) ==
    LET k == <<HAL, a>>
    IN  IF states[k] # NoState
        THEN states[k].events[Len(states[k].events)].type = "MALLOC"
        ELSE \E i \in 1 .. Len(written) :
                /\ written[i].event.addr = a
                /\ written[i].event.type = "MALLOC"
                /\ \A j \in i + 1 .. Len(written) : written[j].event.addr # a

\* docs/zh/output_file_spec.md:33: a block lives from the malloc of its ptr to the next
\* free of it.  Then, when no call is under way, an address is in use exactly when its
\* last event is a MALLOC.
LifeOfPtr ==
    ~Switching /\ Quiet =>
        \A a \in Addrs : (\E b \in heap : b.addr = a) <=> LastIsMalloc(a)

\* No subscriber gets a pointer to a state that another thread has deleted: between
\* GetState and DispatchEvent there is no lock.
NoDangling ==
    \A t \in Threads : pc[t] \in {"dispatch", "cleanDispatch"} => ~Dangling(t)

\* However the threads interleave, an event is in at most one place of the cache: the
\* retry of a refused event does not add it a second time.
JoinsOnce ==
    \A k, l \in LiveKeys(states) :
        \A i \in 1 .. Len(states[k].events), j \in 1 .. Len(states[l].events) :
            states[k].events[i].id = states[l].events[j].id => k = l /\ i = j

\* Whatever the other threads do meanwhile, and even when they reuse the address, no
\* event that was cached when start() or stop() began is still cached when status_
\* changes: the loop reaches each key of its list, or a FREE has deleted it.
SwitchClearsCache ==
    \A t \in Threads : pc[t] = "loop" /\ cleaning = {}
        => \A e \in Cached(states) : e.id \notin cachedBefore

\* Threads that do not share blocks keep the promise of BlockHistory, although their
\* calls of EventHandler overlap.  An event happens when AddEvent accepts it or its retry
\* is refused; a history is closed when its state is dumped, before it is deleted.
Unhandled == {event[t].id : t \in {u \in Threads :
                  pc[u] \in {"add", "cleanGet", "cleanDispatch", "cleanDelete", "retry"}
                  /\ event[u] # NoEvent}}

Dumped == {ptr[t].key : t \in {u \in Threads :
               /\ ptr[u] # NoState
               /\ \/ pc[u] = "cleanDelete"
                  \/ pc[u] = "delete" /\ event[u].type = "FREE"}}

HistoryOf(k) == [i \in 1 .. Len(states[k].events) |-> states[k].events[i].id]

History == INSTANCE BlockHistory WITH
               Events   <- 1 .. MaxRecords + Cardinality(Threads),
               happened <- (1 .. recordIndex) \ Unhandled,
               open     <- {HistoryOf(k) : k \in LiveKeys(states) \ Dumped},
               log      <- [i \in 1 .. Len(written) |-> written[i].event.id]

KeepsHistories == History!Spec
=============================================================================
