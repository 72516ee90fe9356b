---------------------------- MODULE MemoryStateManager ----------------------------
(***************************************************************************)
(* The cache of analysis/memory_state_manager.{h,cpp}: one MemoryState per *)
(* memory block in use, found by the pool and the start address of the     *)
(* block.  Every operator is a function of the cache it is given, so that  *)
(* EventPipeline can apply a whole EventHandler call in one step and       *)
(* EventThreads can apply one locked call at a time.                       *)
(*                                                                         *)
(* Abstracted: the pid of the key (one process has one pid), the owner and *)
(* inefficiency strings of a state, the wrap-around of 64-bit sums of an   *)
(* address and a size.                                                     *)
(***************************************************************************)
EXTENDS Integers, Sequences

CONSTANTS Pools,    \* the PoolType values whose events are cached
          HAL,      \* PoolType::HAL, the pool of the driver's own blocks
          Addrs,    \* addresses
          Sizes,    \* sizes of blocks
          Devices,  \* device numbers
          NA,       \* the device "N/A" of an event that does not know its device
          NoState   \* a key that has no state

ASSUME ManagerAssumption ==
    /\ HAL \in Pools
    /\ Addrs \subseteq Nat
    /\ Sizes \subseteq Nat \ {0}
    /\ NA \notin Devices

EventTypes == {"MALLOC", "ACCESS", "FREE"}

\* MemoryEvent of analysis/event.h; id is the recordIndex of the record it comes from.
MemoryEvent == [id     : Nat,
                type   : EventTypes,
                pool   : Pools,
                addr   : Addrs,
                size   : Sizes \cup {0},
                device : Devices \cup {NA}]

\* A state that has an entry in the cache.
MemoryState == [events : Seq(MemoryEvent) \ {<< >>}, size : Sizes \cup {0}, allocationId : Nat]

ASSUME NoStateAssumption == NoState \notin MemoryState

MemoryStateKey == Pools \X Addrs

KeyOf(e) == <<e.pool, e.addr>>

StatesMap == [MemoryStateKey -> MemoryState \cup {NoState}]

EmptyMap == [k \in MemoryStateKey |-> NoState]

\* GetAllStateKeys: the keys that have an entry.
LiveKeys(m) == {k \in MemoryStateKey : m[k] # NoState}

-----------------------------------------------------------------------------
\* The second half of FindStateInPool: the states of the pool whose block holds
\* the whole range of the event.  The code takes the first one in hash order.
Contains(m, k, e) == /\ k[1] = e.pool
                     /\ e.addr >= k[2]
                     /\ e.addr + e.size <= k[2] + m[k].size

Enclosing(m, e) == {k \in LiveKeys(m) : Contains(m, k, e)}

\* FindStateInPool: the exact start address wins over an enclosing block.
FindStateInPool(m, e) == IF m[KeyOf(e)] # NoState THEN {KeyOf(e)} ELSE Enclosing(m, e)

\* A HAL FREE looks its own key up with operator[], which creates the entry.
CreatesDefault(m, e) == e.type = "FREE" /\ e.pool = HAL /\ m[KeyOf(e)] = NoState

\* Seeded fault: a MALLOC joins whatever it finds at its address.
NeverRefuses(m, e) == FALSE

\* AddEvent returns false: a MALLOC finds its key still taken.
Refuses(m, e) == e.type = "MALLOC" /\ m[KeyOf(e)] # NoState

\* Seeded fault: the device is filled in, the size of a HAL FREE is not.
CompletedDeviceOnly(m, e) ==
    IF m[KeyOf(e)] # NoState /\ e.device = NA
    THEN [e EXCEPT !.device = m[KeyOf(e)].events[1].device]
    ELSE e

\* What AddEvent writes into the event: the device and, for a HAL FREE, the size
\* that the first event of the block recorded.
Completed(m, e) ==
    IF m[KeyOf(e)] = NoState THEN e
    ELSE LET first == m[KeyOf(e)].events[1]
         IN  [e EXCEPT !.device = IF e.device = NA THEN first.device ELSE e.device,
                       !.size = IF /\ e.type = "FREE"
                                   /\ e.pool = HAL
                                   /\ first.type = "MALLOC"
                                THEN first.size ELSE e.size]

\* The key of the state an accepted event goes to: its own key for a MALLOC, for
\* the default entry of a HAL FREE and when nothing is found.
Receivers(m, e) ==
    IF e.type = "MALLOC" \/ CreatesDefault(m, e) \/ FindStateInPool(m, e) = {}
    THEN {KeyOf(e)}
    ELSE FindStateInPool(m, e)

\* Seeded fault: a new state is made without its first event.
StateWithoutFirst(m, n, e, k) ==
    IF m[k] # NoState
    THEN [m[k] EXCEPT !.events = Append(@, e)]
    ELSE [events |-> << >>, size |-> e.size, allocationId |-> n + 1]

\* The state that AddEvent leaves at the receiver: the event joins the state it
\* found, or the empty default one (size 0, allocation id 0), or starts a new one.
StateWith(m, n, e, k) ==
    IF m[k] # NoState
    THEN [m[k] EXCEPT !.events = Append(@, e)]
    ELSE [events       |-> <<e>>,
          size         |-> IF CreatesDefault(m, e) THEN 0 ELSE e.size,
          allocationId |-> IF CreatesDefault(m, e) THEN 0 ELSE n + 1]

Added(m, n, e, k) == [m EXCEPT ![k] = StateWith(m, n, e, k)]

\* MemoryState::count after AddEvent.
CountAfter(m, n, e, k) == IF m[k] # NoState \/ CreatesDefault(m, e) THEN n ELSE n + 1

\* Seeded fault: the state of a freed block is kept.
DeletedNever(m, k) == m

\* Seeded fault: the whole pool is emptied.
DeletedPool(m, k) == [j \in MemoryStateKey |-> IF j[1] = k[1] THEN NoState ELSE m[j]]

\* DeteleState: only the exact key.
Deleted(m, k) == [m EXCEPT ![k] = NoState]

\* Dump::DumpMemoryState: one row per event of the state, in order.
Rows(s) == [i \in 1 .. Len(s.events) |->
               [event |-> s.events[i], allocationId |-> s.allocationId]]

Row == [event : MemoryEvent, allocationId : Nat]

\* The rows of the state of a key, none when it has no state.
RowsAt(m, k) == IF m[k] = NoState THEN << >> ELSE Rows(m[k])

\* The events the cache holds.
Cached(m) == UNION {{m[k].events[i] : i \in 1 .. Len(m[k].events)} : k \in LiveKeys(m)}
=============================================================================
