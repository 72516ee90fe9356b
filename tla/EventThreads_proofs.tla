----------------------------- MODULE EventThreads_proofs -----------------------------
(***************************************************************************)
(* What holds of EventThreads however the threads interleave, for every    *)
(* set of threads, blocks and devices and every number of records; and     *)
(* what holds of threads that do not share addresses.                      *)
(***************************************************************************)
EXTENDS EventThreads, MemoryStateManager_proofs, FiniteSetTheorems, TLAPS

\* The places at which a thread has a memory event in its hands; in a CLEAN_UP it has one
\* when it is to be retried.
HoldsEvent == {"mallocHook", "freeHook", "add", "retry", "get", "dispatch", "delete"}

PlaceInv ==
    \A t \in Threads :
        /\ pc[t] \in HoldsEvent => event[t] # NoEvent
        /\ pc[t] \in {"idle", "loop"} => event[t] = NoEvent

TypeInv == TypeOK /\ PlaceInv

LEMMA EventOf ==
    ASSUME TypeInv, NEW t \in Threads, pc[t] \in HoldsEvent
    PROVE  event[t] \in MemoryEvent
  BY DEF TypeInv, TypeOK, PlaceInv

\* AddEvent that accepts: the completed event joins the cache at one receiver.
Accepts(t, e, k) ==
    /\ e = Completed(states, event[t]) /\ e.id = event[t].id /\ e.type = event[t].type
    /\ e.pool = event[t].pool /\ e.addr = event[t].addr
    /\ KeyOf(e) = KeyOf(event[t]) /\ KeyOf(e) \in MemoryStateKey
    /\ ~Refuses(states, e)
    /\ k \in Receivers(states, e)
    /\ states' = Added(states, count, e, k) /\ states' \in StatesMap
    /\ count' = CountAfter(states, count, e, k) /\ count' \in Nat
    /\ event' = [event EXCEPT ![t] = e]
    /\ pc' = [pc EXCEPT ![t] = "get"]
    /\ key' = key

LEMMA Accepting ==
    ASSUME TypeInv, NEW t \in Threads, event[t] \in MemoryEvent, Accept(t)
    PROVE  \E e \in MemoryEvent, k \in MemoryStateKey : Accepts(t, e, k)
<1> DEFINE e == Completed(states, event[t])
<1>1. states \in StatesMap
  BY DEF TypeInv, TypeOK
<1>2. count \in Nat
  BY DEF TypeInv, TypeOK
<1>3. /\ e \in MemoryEvent /\ e.id = event[t].id /\ e.type = event[t].type
      /\ e.pool = event[t].pool /\ e.addr = event[t].addr
      /\ KeyOf(e) = KeyOf(event[t]) /\ KeyOf(e) \in MemoryStateKey
  BY <1>1, CompletedEvent
<1>4. PICK k \in Receivers(states, e) :
          /\ states' = Added(states, count, e, k)
          /\ count' = CountAfter(states, count, e, k)
  BY DEF Accept
<1>5. /\ ~Refuses(states, e) /\ event' = [event EXCEPT ![t] = e]
      /\ pc' = [pc EXCEPT ![t] = "get"] /\ key' = key
  BY DEF Accept, Goto
<1> HIDE DEF e
<1>6. k \in MemoryStateKey
  BY <1>1, <1>3, ReceiverKey
<1>7. states' \in StatesMap /\ count' \in Nat
  BY <1>1, <1>2, <1>3, <1>4, <1>6, AddedMap
<1>8. Accepts(t, e, k)
  BY <1>3, <1>4, <1>5, <1>7 DEF Accepts, e
<1> QED BY <1>3, <1>6, <1>8

\* AddEvent that refuses a MALLOC turns to the clean-up of its key.
LEMMA Refusing ==
    ASSUME TypeInv, NEW t \in Threads, event[t] \in MemoryEvent, Refuse(t)
    PROVE  \E e \in MemoryEvent :
              /\ e.id = event[t].id /\ e.type = event[t].type
              /\ e.pool = event[t].pool /\ e.addr = event[t].addr
              /\ KeyOf(e) = KeyOf(event[t]) /\ KeyOf(e) \in MemoryStateKey
              /\ Refuses(states, e)
              /\ event' = [event EXCEPT ![t] = e]
              /\ key' = [key EXCEPT ![t] = KeyOf(e)]
              /\ pc' = [pc EXCEPT ![t] = "cleanGet"]
              /\ states' = states /\ count' = count
<1>1. states \in StatesMap
  BY DEF TypeInv, TypeOK
<1> QED BY <1>1, CompletedEvent DEF Refuse, Goto, cache

\* What GetState returns is a pointer, or none.
LEMMA PointerType ==
    ASSUME NEW m \in StatesMap, NEW k \in MemoryStateKey
    PROVE  (IF m[k] = NoState THEN NoState ELSE [key |-> k, state |-> m[k]]) \in Pointer
  BY DEF Pointer, StatesMap

\* What Dump writes for a thread is rows.
LEMMA RowsPointedToType ==
    ASSUME TypeInv, NEW t \in Threads
    PROVE  RowsPointedTo(t) \in Seq(Row)
<1>1. ASSUME NEW k \in MemoryStateKey, NEW s \in MemoryState PROVE Rows(s) \in Seq(Row)
  <2> DEFINE m == [EmptyMap EXCEPT ![k] = s]
  <2>1. m \in StatesMap /\ m[k] = s /\ s # NoState
    BY NoStateAssumption DEF EmptyMap, StatesMap
  <2> HIDE DEF m
  <2>2. RowsAt(m, k) = Rows(s)
    BY <2>1 DEF RowsAt
  <2> QED BY <2>1, <2>2, RowsOfKey
<1>2. CASE ptr[t] = NoState
  BY <1>2 DEF RowsPointedTo
<1>3. CASE ptr[t] # NoState
  <2>1. ptr[t].key \in MemoryStateKey /\ ptr[t].state \in MemoryState
    BY <1>3 DEF TypeInv, TypeOK, Pointer
  <2>2. ~Dangling(t) => states[ptr[t].key] \in MemoryState
    BY <1>3, <2>1 DEF Dangling, TypeInv, TypeOK, StatesMap
  <2> QED BY <1>1, <1>3, <2>1, <2>2 DEF RowsPointedTo
<1> QED BY <1>2, <1>3

LEMMA DispatchType ==
    ASSUME TypeInv, NEW t \in Threads, NEW dumps \in BOOLEAN, NEW next \in Places,
           Dispatch(t, dumps, next)
    PROVE  /\ written' \in Seq(Row) /\ crashed' \in BOOLEAN
           /\ pc' = pc \/ pc' = [pc EXCEPT ![t] = next]
<1>1. written \in Seq(Row) /\ RowsPointedTo(t) \in Seq(Row) /\ crashed \in BOOLEAN
  BY RowsPointedToType DEF TypeInv, TypeOK
<1>2. CASE /\ written' = IF dumps THEN written \o RowsPointedTo(t) ELSE written
           /\ Goto(t, next)
           /\ crashed' = crashed
  BY <1>1, <1>2 DEF Goto
<1>3. CASE crashed' = TRUE /\ UNCHANGED <<written, pc>>
  BY <1>1, <1>3
<1> QED BY <1>2, <1>3 DEF Dispatch

LEMMA TypeInvStep == TypeInv /\ [Next]_vars => TypeInv'
<1> SUFFICES ASSUME TypeInv, [Next]_vars PROVE TypeInv'
  OBVIOUS
<1> USE ManagerAssumption, ThreadsAssumption
<1> USE DEF switch, reports, cache, Goto, At, Places, HoldsEvent
<1>0. TypeOK /\ PlaceInv
  BY DEF TypeInv
<1>1. ASSUME NEW t \in Threads, NEW b \in BlocksOf[t], NEW d \in Devices, HalMemAlloc(t, b, d)
      PROVE  TypeInv'
  <2> DEFINE e == [id |-> 0, type |-> "MALLOC", pool |-> HAL,
                   addr |-> b.addr, size |-> b.size, device |-> d]
  <2>1. b \in Block /\ e \in MemoryEvent
    BY DEF Block, MemoryEvent, EventTypes
  <2>2. event' = [event EXCEPT ![t] = e] /\ pc' = [pc EXCEPT ![t] = "mallocHook"]
    BY <1>1 DEF HalMemAlloc
  <2> HIDE DEF e
  <2>3. TypeOK'
    BY <1>0, <1>1, <2>1, <2>2 DEF TypeOK, HalMemAlloc
  <2>4. PlaceInv'
    BY <1>0, <2>1, <2>2 DEF TypeOK, PlaceInv
  <2> QED BY <2>3, <2>4 DEF TypeInv
<1>2. ASSUME NEW t \in Threads, NEW b \in BlocksOf[t], HalMemFree(t, b) PROVE TypeInv'
  <2> DEFINE e == [id |-> 0, type |-> "FREE", pool |-> HAL,
                   addr |-> b.addr, size |-> 0, device |-> NA]
  <2>1. b \in Block /\ e \in MemoryEvent
    BY DEF Block, MemoryEvent, EventTypes
  <2>2. event' = [event EXCEPT ![t] = e] /\ pc' = [pc EXCEPT ![t] = "freeHook"]
    BY <1>2 DEF HalMemFree
  <2> HIDE DEF e
  <2>3. TypeOK'
    BY <1>0, <1>2, <2>1, <2>2 DEF TypeOK, HalMemFree
  <2>4. PlaceInv'
    BY <1>0, <2>1, <2>2 DEF TypeOK, PlaceInv
  <2> QED BY <2>3, <2>4 DEF TypeInv
<1>3. ASSUME NEW t \in Threads, ReportHalMalloc(t) \/ ReportHalFree(t) PROVE TypeInv'
  <2>1. event[t] \in MemoryEvent
    BY <1>0, <1>3, EventOf DEF ReportHalMalloc, ReportHalFree, TypeInv
  <2>2. halPtrs' \in SUBSET Addrs
    <3>1. event[t].addr \in Addrs /\ halPtrs \in SUBSET Addrs
      BY <1>0, <2>1 DEF TypeOK, MemoryEvent
    <3>2. halPtrs' \in {halPtrs, halPtrs \cup {event[t].addr}, halPtrs \ {event[t].addr}}
      BY <1>3 DEF ReportHalMalloc, ReportHalFree, NotReported, Reported
    <3> QED BY <3>1, <3>2
  <2>3. CASE NotReported(t)
    BY <1>0, <1>3, <2>2, <2>3
       DEF ReportHalMalloc, ReportHalFree, NotReported, TypeInv, TypeOK, PlaceInv
  <2>4. CASE Reported(t)
    <3> DEFINE e == [event[t] EXCEPT !.id = recordIndex + 1]
    <3>1. recordIndex + 1 \in Nat /\ e \in MemoryEvent
      BY <1>0, <2>1 DEF TypeOK, MemoryEvent
    <3>2. event' = [event EXCEPT ![t] = e] /\ pc' = [pc EXCEPT ![t] = "add"]
          /\ recordIndex' = recordIndex + 1
      BY <2>4 DEF Reported
    <3> HIDE DEF e
    <3>3. TypeOK'
      BY <1>0, <1>3, <2>2, <3>1, <3>2 DEF ReportHalMalloc, ReportHalFree, TypeOK
    <3>4. PlaceInv'
      BY <1>0, <3>1, <3>2 DEF TypeOK, PlaceInv
    <3> QED BY <3>3, <3>4 DEF TypeInv
  <2> QED BY <1>3, <2>3, <2>4 DEF ReportHalMalloc, ReportHalFree
<1>4. ASSUME NEW t \in Threads, AddEvent(t) \/ RetryAddEvent(t), Accept(t) PROVE TypeInv'
  <2>1. event[t] \in MemoryEvent
    BY <1>0, <1>4, EventOf DEF AddEvent, RetryAddEvent, TypeInv
  <2>2. PICK e \in MemoryEvent, k \in MemoryStateKey : Accepts(t, e, k)
    BY <1>4, <2>1, Accepting
  <2>3. TypeOK'
    BY <1>0, <1>4, <2>2 DEF Accepts, TypeOK, AddEvent, RetryAddEvent
  <2>4. PlaceInv'
    BY <1>0, <2>2 DEF Accepts, TypeOK, PlaceInv
  <2> QED BY <2>3, <2>4 DEF TypeInv
<1>5. ASSUME NEW t \in Threads, AddEvent(t), Refuse(t) PROVE TypeInv'
  <2>1. event[t] \in MemoryEvent
    BY <1>0, <1>5, EventOf DEF AddEvent, TypeInv
  <2>2. PICK e \in MemoryEvent :
            /\ KeyOf(e) \in MemoryStateKey
            /\ event' = [event EXCEPT ![t] = e]
            /\ key' = [key EXCEPT ![t] = KeyOf(e)]
            /\ pc' = [pc EXCEPT ![t] = "cleanGet"]
            /\ states' = states /\ count' = count
    BY <1>5, <2>1, Refusing
  <2>3. TypeOK'
    BY <1>0, <1>5, <2>2 DEF TypeOK, AddEvent
  <2>4. PlaceInv'
    BY <1>0, <2>2 DEF TypeOK, PlaceInv
  <2> QED BY <2>3, <2>4 DEF TypeInv
<1>6. ASSUME NEW t \in Threads, RetryAddEvent(t), ~Accept(t) PROVE TypeInv'
  BY <1>0, <1>6 DEF RetryAddEvent, TypeInv, TypeOK, PlaceInv
<1>7. ASSUME NEW t \in Threads, GetState(t) \/ GetCleanUpState(t) PROVE TypeInv'
  <2>1. \A k \in MemoryStateKey : PointerTo(k) \in Pointer
    BY <1>0, PointerType DEF PointerTo, TypeOK
  <2>2. ptr' \in [Threads -> Pointer]
    <3>1. GetState(t) => \A k \in FindStateInPool(states, event[t]) : k \in MemoryStateKey
      <4> SUFFICES ASSUME GetState(t), NEW k \in FindStateInPool(states, event[t])
                   PROVE  k \in MemoryStateKey
        OBVIOUS
      <4>1. event[t] \in MemoryEvent
        BY <1>0, EventOf DEF GetState, TypeInv
      <4> QED BY <4>1 DEF FindStateInPool, Enclosing, LiveKeys, KeyOf, MemoryStateKey, MemoryEvent
    <3>2. NoState \in Pointer
      BY DEF Pointer
    <3> QED BY <1>0, <1>7, <2>1, <3>1, <3>2 DEF GetState, GetCleanUpState, TypeOK
  <2>3. TypeOK'
    BY <1>0, <1>7, <2>2 DEF GetState, GetCleanUpState, TypeOK
  <2>4. PlaceInv'
    BY <1>0, <1>7 DEF GetState, GetCleanUpState, TypeOK, PlaceInv
  <2> QED BY <2>3, <2>4 DEF TypeInv
<1>8. ASSUME NEW t \in Threads, DispatchEvent(t) \/ DispatchCleanUp(t) PROVE TypeInv'
  <2>1. /\ written' \in Seq(Row) /\ crashed' \in BOOLEAN
        /\ pc' = pc \/ (pc[t] = "dispatch" /\ pc' = [pc EXCEPT ![t] = "delete"])
                    \/ (pc[t] = "cleanDispatch" /\ pc' = [pc EXCEPT ![t] = "cleanDelete"])
    BY <1>8, DispatchType DEF DispatchEvent, DispatchCleanUp
  <2>2. UNCHANGED <<heap, switch, reports, cache, event, key, ptr>>
    BY <1>8 DEF DispatchEvent, DispatchCleanUp, Dispatch
  <2>3. TypeOK'
    BY <1>0, <2>1, <2>2 DEF TypeOK
  <2>4. PlaceInv'
    BY <1>0, <2>1, <2>2 DEF TypeOK, PlaceInv
  <2> QED BY <2>3, <2>4 DEF TypeInv
<1>9. ASSUME NEW t \in Threads, DeteleState(t) \/ DeleteCleanedUp(t) PROVE TypeInv'
  <2>1. states' \in StatesMap
    <3>1. DeteleState(t) => KeyOf(event[t]) \in MemoryStateKey
      BY <1>0, EventOf, CompletedEvent DEF DeteleState, TypeInv, TypeOK
    <3> QED BY <1>0, <1>9, <3>1, DeletedMap DEF DeteleState, DeleteCleanedUp, TypeOK
  <2>2. NoState \in Pointer
    BY DEF Pointer
  <2>3. TypeOK'
    BY <1>0, <1>9, <2>1, <2>2 DEF DeteleState, DeleteCleanedUp, TypeOK
  <2>4. PlaceInv'
    BY <1>0, <1>9 DEF DeteleState, DeleteCleanedUp, TypeOK, PlaceInv
  <2> QED BY <2>3, <2>4 DEF TypeInv
<1>10. ASSUME NEW t \in Threads, NEW new \in Status, BeginSetTraceStatus(t, new) PROVE TypeInv'
  <2>1. LiveKeys(states) \in SUBSET MemoryStateKey
    BY DEF LiveKeys
  <2>2. {e.id : e \in Cached(states)} \in SUBSET Nat
    <3>1. \A e \in Cached(states) : e \in MemoryEvent
      BY <1>0, LiveState, ElementOfSeq DEF Cached, TypeOK
    <3> QED BY <3>1 DEF MemoryEvent
  <2>3. TypeOK'
    BY <1>0, <1>10, <2>1, <2>2 DEF BeginSetTraceStatus, TypeOK
  <2>4. PlaceInv'
    BY <1>0, <1>10 DEF BeginSetTraceStatus, TypeOK, PlaceInv
  <2> QED BY <2>3, <2>4 DEF TypeInv
<1>11. ASSUME NEW t \in Threads, NEW k \in MemoryStateKey, NextKey(t, k) PROVE TypeInv'
  BY <1>0, <1>11 DEF NextKey, TypeInv, TypeOK, PlaceInv
<1>12. ASSUME NEW t \in Threads, EndSetTraceStatus(t) PROVE TypeInv'
  BY <1>0, <1>12 DEF EndSetTraceStatus, TypeInv, TypeOK, PlaceInv
<1>13. CASE UNCHANGED vars
  BY <1>0, <1>13 DEF vars, TypeInv, TypeOK, PlaceInv
<1> QED
  BY <1>1, <1>2, <1>3, <1>4, <1>5, <1>6, <1>7, <1>8, <1>9, <1>10, <1>11, <1>12, <1>13
     DEF Next, Handler, AddEvent, RetryAddEvent

LEMMA InitTypeInv == Init => TypeInv
<1> SUFFICES ASSUME Init PROVE TypeInv
  OBVIOUS
<1>1. EmptyMap \in StatesMap /\ << >> \in Seq(Row) /\ NoState \in Pointer
  BY DEF EmptyMap, StatesMap, Pointer
<1>2. key \in [Threads -> MemoryStateKey]
  <2>1. (CHOOSE a \in Addrs : TRUE) \in Addrs
    BY ThreadsAssumption
  <2>2. <<HAL, CHOOSE a \in Addrs : TRUE>> \in MemoryStateKey
    BY <2>1, ManagerAssumption DEF MemoryStateKey
  <2> QED BY <2>2 DEF Init
<1>3. TypeOK
  BY <1>1, <1>2 DEF Init, TypeOK, Status, Places
<1>4. PlaceInv
  BY DEF Init, PlaceInv, HoldsEvent
<1> QED BY <1>3, <1>4 DEF TypeInv

------------------------------------------------------------------------------------
(***************************************************************************)
(* An event joins the cache once.                                          *)
(***************************************************************************)
\* A thread whose event has an id and has yet to be accepted.
Pending(t) ==
    /\ pc[t] \in {"add", "retry", "cleanGet", "cleanDispatch", "cleanDelete"}
    /\ event[t] # NoEvent

\* The ids of pending events are taken, differ, and are not cached; nor were they when
\* the running switch began.
JoinInv ==
    /\ OnceInMap(states)
    /\ IdsIn(states) \subseteq 1 .. recordIndex
    /\ cachedBefore \subseteq 1 .. recordIndex
    /\ \A t \in Threads : Pending(t) => /\ event[t].id \in 1 .. recordIndex
                                        /\ event[t].id \notin IdsIn(states)
                                        /\ event[t].id \notin cachedBefore
    /\ \A t, u \in Threads : Pending(t) /\ Pending(u) /\ event[t].id = event[u].id => t = u

\* A step that takes no id and adds no event keeps the ids apart.
LEMMA JoinKept ==
    ASSUME JoinInv, OnceInMap(states'), IdsIn(states') \subseteq IdsIn(states),
           recordIndex' = recordIndex, cachedBefore' \in {cachedBefore, IdsIn(states)},
           \A u \in Threads : Pending(u)' => Pending(u) /\ event'[u].id = event[u].id
    PROVE  JoinInv'
<1>1. \A u \in Threads : Pending(u)' => /\ event'[u].id \in 1 .. recordIndex'
                                        /\ event'[u].id \notin IdsIn(states')
                                        /\ event'[u].id \notin cachedBefore'
  BY DEF JoinInv
<1>2. \A t, u \in Threads : Pending(t)' /\ Pending(u)' /\ event'[t].id = event'[u].id => t = u
  BY DEF JoinInv
<1>3. OnceInMap(states)' = OnceInMap(states') /\ IdsIn(states)' = IdsIn(states')
  BY DEF OnceInMap, IdsIn, Cached, LiveKeys
<1>4. IdsIn(states') \subseteq 1 .. recordIndex' /\ cachedBefore' \subseteq 1 .. recordIndex'
  BY DEF JoinInv
<1> QED BY <1>1, <1>2, <1>3, <1>4 DEF JoinInv

\* What the cache holds is left alone or loses a key.
CacheShrinks == states' = states \/ \E k \in MemoryStateKey : states' = Deleted(states, k)

LEMMA ShrinkingIds ==
    ASSUME TypeInv, JoinInv, CacheShrinks
    PROVE  OnceInMap(states') /\ IdsIn(states') \subseteq IdsIn(states)
<1>1. states \in StatesMap /\ OnceInMap(states)
  BY DEF TypeInv, TypeOK, JoinInv
<1> QED BY <1>1, DeletedIds DEF CacheShrinks

\* The record of a thread gets the next id.
LEMMA JoinReported ==
    ASSUME TypeInv, JoinInv, NEW t \in Threads, Reported(t), event[t] \in MemoryEvent,
           states' = states, cachedBefore' = cachedBefore
    PROVE  JoinInv'
<1>1. /\ recordIndex \in Nat /\ recordIndex' = recordIndex + 1
      /\ recordIndex + 1 \notin 1 .. recordIndex /\ 1 .. recordIndex \subseteq 1 .. recordIndex'
      /\ recordIndex + 1 \in 1 .. recordIndex'
  BY DEF Reported, TypeInv, TypeOK
<1>2. /\ pc' = [pc EXCEPT ![t] = "add"]
      /\ event' = [event EXCEPT ![t] = [event[t] EXCEPT !.id = recordIndex + 1]]
      /\ pc \in [Threads -> Places] /\ event \in [Threads -> MemoryEvent \cup {NoEvent}]
  BY DEF Reported, Goto, TypeInv, TypeOK
<1>3. ASSUME NEW u \in Threads, u # t
      PROVE  Pending(u)' = Pending(u) /\ event'[u] = event[u]
  BY <1>2, <1>3 DEF Pending
<1>4. event'[t].id = recordIndex + 1
  BY <1>2 DEF MemoryEvent
<1>5. ASSUME NEW u \in Threads, Pending(u)'
      PROVE  /\ event'[u].id \in 1 .. recordIndex'
             /\ event'[u].id \notin IdsIn(states)
             /\ event'[u].id \notin cachedBefore
             /\ u # t => event'[u].id \in 1 .. recordIndex
  <2>1. CASE u # t
    BY <1>1, <1>3, <1>5, <2>1 DEF JoinInv
  <2>2. CASE u = t
    BY <1>1, <1>4, <2>2 DEF JoinInv
  <2> QED BY <2>1, <2>2
<1>6. ASSUME NEW u \in Threads, NEW v \in Threads, Pending(u)', Pending(v)',
             event'[u].id = event'[v].id
      PROVE  u = v
  BY <1>1, <1>3, <1>4, <1>5, <1>6 DEF JoinInv
<1>7. OnceInMap(states)' = OnceInMap(states) /\ IdsIn(states)' = IdsIn(states)
  BY DEF OnceInMap, IdsIn, Cached, LiveKeys
<1>8. IdsIn(states) \subseteq 1 .. recordIndex' /\ cachedBefore \subseteq 1 .. recordIndex'
  BY <1>1 DEF JoinInv
<1> QED BY <1>5, <1>6, <1>7, <1>8 DEF JoinInv

\* An event that is accepted is pending no more; its id is cached.
LEMMA JoinAccepted ==
    ASSUME TypeInv, JoinInv, NEW t \in Threads, pc[t] \in {"add", "retry"},
           NEW e \in MemoryEvent, NEW k \in MemoryStateKey, Accepts(t, e, k),
           recordIndex' = recordIndex, cachedBefore' = cachedBefore
    PROVE  JoinInv'
<1>1. /\ event' = [event EXCEPT ![t] = e] /\ e.id = event[t].id
      /\ pc' = [pc EXCEPT ![t] = "get"]
      /\ states' = Added(states, count, e, k)
  BY DEF Accepts
<1>2. /\ pc \in [Threads -> Places] /\ event \in [Threads -> MemoryEvent \cup {NoEvent}]
      /\ states \in StatesMap
  BY DEF TypeInv, TypeOK
<1>3. Pending(t)
  BY DEF Pending, TypeInv, PlaceInv, HoldsEvent
<1>4. /\ ~Pending(t)'
      /\ \A u \in Threads : u # t => Pending(u)' = Pending(u) /\ event'[u] = event[u]
  BY <1>1, <1>2 DEF Pending
<1>5. IdsIn(states') = IdsIn(states) \cup {e.id} /\ OnceInMap(states')
  <2>1. e.id \notin IdsIn(states) /\ OnceInMap(states)
    BY <1>1, <1>3 DEF JoinInv
  <2>2. count \in Nat
    BY DEF TypeInv, TypeOK
  <2> QED BY <1>1, <1>2, <2>1, <2>2, AddedIds
<1>6. e.id \in 1 .. recordIndex
  BY <1>1, <1>3 DEF JoinInv
<1>7. OnceInMap(states)' = OnceInMap(states') /\ IdsIn(states)' = IdsIn(states')
  BY DEF OnceInMap, IdsIn, Cached, LiveKeys
<1>8. \A u \in Threads : Pending(u)' => /\ u # t /\ Pending(u) /\ event'[u].id = event[u].id
                                        /\ event[u].id # e.id
  BY <1>1, <1>3, <1>4 DEF JoinInv
<1> QED BY <1>5, <1>6, <1>7, <1>8 DEF JoinInv

LEMMA JoinInvStep == TypeInv /\ JoinInv /\ [Next]_vars => JoinInv'
<1> SUFFICES ASSUME TypeInv, JoinInv, [Next]_vars PROVE JoinInv'
  OBVIOUS
<1> USE DEF switch, reports, cache, Goto, At
<1>0. /\ pc \in [Threads -> Places] /\ event \in [Threads -> MemoryEvent \cup {NoEvent}]
      /\ states \in StatesMap
  BY DEF TypeInv, TypeOK
\* A step that adds no event, and after which no thread is pending that was not.
<1>1. ASSUME CacheShrinks, recordIndex' = recordIndex, cachedBefore' \in {cachedBefore, IdsIn(states)},
             \A u \in Threads : Pending(u)' => Pending(u) /\ event'[u].id = event[u].id
      PROVE  JoinInv'
  BY <1>1, ShrinkingIds, JoinKept
<1>2. ASSUME NEW t \in Threads,
             \/ \E b \in BlocksOf[t], d \in Devices : HalMemAlloc(t, b, d)
             \/ \E b \in BlocksOf[t] : HalMemFree(t, b)
      PROVE  JoinInv'
  <2>1. /\ states' = states /\ recordIndex' = recordIndex /\ cachedBefore' = cachedBefore
        /\ pc'[t] \in {"mallocHook", "freeHook"}
        /\ \A u \in Threads : u # t => pc'[u] = pc[u] /\ event'[u] = event[u]
    BY <1>0, <1>2 DEF HalMemAlloc, HalMemFree
  <2>2. \A u \in Threads : Pending(u)' => Pending(u) /\ event'[u].id = event[u].id
    BY <2>1 DEF Pending
  <2> QED BY <1>1, <2>1, <2>2 DEF CacheShrinks
<1>3. ASSUME NEW t \in Threads, ReportHalMalloc(t) \/ ReportHalFree(t) PROVE JoinInv'
  <2>1. /\ states' = states /\ cachedBefore' = cachedBefore
        /\ NotReported(t) \/ Reported(t)
    BY <1>3 DEF ReportHalMalloc, ReportHalFree
  <2>2. event[t] \in MemoryEvent
    BY <1>3, EventOf DEF ReportHalMalloc, ReportHalFree, HoldsEvent
  <2>3. CASE NotReported(t)
    <3>1. \A u \in Threads : Pending(u)' => Pending(u) /\ event'[u].id = event[u].id
      BY <1>0, <2>3 DEF NotReported, Pending
    <3> QED BY <1>1, <2>1, <2>3, <3>1 DEF CacheShrinks, NotReported
  <2> QED BY <2>1, <2>2, <2>3, JoinReported
<1>4. ASSUME NEW t \in Threads, AddEvent(t) \/ RetryAddEvent(t), Accept(t) PROVE JoinInv'
  <2>1. /\ pc[t] \in {"add", "retry"} /\ recordIndex' = recordIndex /\ cachedBefore' = cachedBefore
    BY <1>4 DEF AddEvent, RetryAddEvent
  <2>2. event[t] \in MemoryEvent
    BY <2>1, EventOf DEF HoldsEvent
  <2>3. PICK e \in MemoryEvent, k \in MemoryStateKey : Accepts(t, e, k)
    BY <1>4, <2>2, Accepting
  <2> QED BY <2>1, <2>3, JoinAccepted
<1>5. ASSUME NEW t \in Threads, AddEvent(t), Refuse(t) PROVE JoinInv'
  <2>1. event[t] \in MemoryEvent
    BY <1>5, EventOf DEF AddEvent, HoldsEvent
  <2>2. PICK e \in MemoryEvent :
            /\ e.id = event[t].id
            /\ event' = [event EXCEPT ![t] = e]
            /\ pc' = [pc EXCEPT ![t] = "cleanGet"]
            /\ states' = states
    BY <1>5, <2>1, Refusing
  <2>3. pc[t] = "add" /\ event[t] # NoEvent
    BY <1>5, <2>1, ThreadsAssumption DEF AddEvent
  <2>4. \A u \in Threads : Pending(u)' => Pending(u) /\ event'[u].id = event[u].id
    BY <1>0, <2>2, <2>3 DEF Pending
  <2> QED BY <1>1, <1>5, <2>2, <2>4 DEF AddEvent, CacheShrinks
<1>6. ASSUME NEW t \in Threads, RetryAddEvent(t), ~Accept(t) PROVE JoinInv'
  <2>1. /\ states' = states /\ recordIndex' = recordIndex /\ cachedBefore' = cachedBefore
        /\ pc' = [pc EXCEPT ![t] = "get"] /\ event' = event
    BY <1>6 DEF RetryAddEvent
  <2>2. \A u \in Threads : Pending(u)' => Pending(u) /\ event'[u].id = event[u].id
    BY <1>0, <2>1 DEF Pending
  <2> QED BY <1>1, <2>1, <2>2 DEF CacheShrinks
<1>7. ASSUME NEW t \in Threads, GetState(t) \/ GetCleanUpState(t) \/ DispatchEvent(t) \/ DispatchCleanUp(t)
      PROVE  JoinInv'
  <2>1. /\ states' = states /\ recordIndex' = recordIndex /\ cachedBefore' = cachedBefore
        /\ event' = event
    BY <1>7 DEF GetState, GetCleanUpState, DispatchEvent, DispatchCleanUp, Dispatch
  <2>2. \/ pc' = pc
        \/ pc' = [pc EXCEPT ![t] = "dispatch"] \/ pc' = [pc EXCEPT ![t] = "delete"]
        \/ pc[t] = "cleanGet" /\ pc' = [pc EXCEPT ![t] = "cleanDispatch"]
        \/ pc[t] = "cleanDispatch" /\ pc' = [pc EXCEPT ![t] = "cleanDelete"]
    BY <1>7 DEF GetState, GetCleanUpState, DispatchEvent, DispatchCleanUp, Dispatch
  <2>3. \A u \in Threads : Pending(u)' => Pending(u) /\ event'[u].id = event[u].id
    BY <1>0, <2>1, <2>2 DEF Pending
  <2> QED BY <1>1, <2>1, <2>3 DEF CacheShrinks
<1>8. ASSUME NEW t \in Threads, DeteleState(t) PROVE JoinInv'
  <2>1. KeyOf(event[t]) \in MemoryStateKey
    BY <1>0, <1>8, EventOf, CompletedEvent DEF DeteleState, HoldsEvent
  <2>2. CacheShrinks
    BY <1>8, <2>1 DEF DeteleState, CacheShrinks
  <2>3. \A u \in Threads : Pending(u)' => Pending(u) /\ event'[u].id = event[u].id
    BY <1>0, <1>8 DEF DeteleState, Pending
  <2> QED BY <1>1, <1>8, <2>2, <2>3 DEF DeteleState
<1>9. ASSUME NEW t \in Threads, DeleteCleanedUp(t) PROVE JoinInv'
  <2>1. CacheShrinks
    BY <1>9 DEF DeleteCleanedUp, CacheShrinks, TypeInv, TypeOK
  <2>2. \A u \in Threads : Pending(u)' => Pending(u) /\ event'[u].id = event[u].id
    BY <1>0, <1>9 DEF DeleteCleanedUp, Pending
  <2> QED BY <1>1, <1>9, <2>1, <2>2 DEF DeleteCleanedUp
<1>10. ASSUME NEW t \in Threads, NEW new \in Status, BeginSetTraceStatus(t, new) PROVE JoinInv'
  <2>1. \A u \in Threads : Pending(u)' => Pending(u) /\ event'[u].id = event[u].id
    BY <1>0, <1>10 DEF BeginSetTraceStatus, Pending
  <2>2. states' = states /\ recordIndex' = recordIndex /\ cachedBefore' = IdsIn(states)
    BY <1>10 DEF BeginSetTraceStatus, IdsIn
  <2> QED BY <1>1, <2>1, <2>2 DEF CacheShrinks
<1>11. ASSUME NEW t \in Threads,
              (\E k \in MemoryStateKey : NextKey(t, k)) \/ EndSetTraceStatus(t)
       PROVE  JoinInv'
  <2>1. /\ states' = states /\ recordIndex' = recordIndex /\ cachedBefore' = cachedBefore
        /\ event' = event /\ pc[t] = "loop" /\ \A u \in Threads : u # t => pc'[u] = pc[u]
    BY <1>0, <1>11 DEF NextKey, EndSetTraceStatus
  <2>2. event[t] = NoEvent
    BY <2>1 DEF TypeInv, PlaceInv
  <2>3. \A u \in Threads : Pending(u)' => Pending(u) /\ event'[u].id = event[u].id
    BY <2>1, <2>2 DEF Pending
  <2> QED BY <1>1, <2>1, <2>3 DEF CacheShrinks
<1>12. CASE UNCHANGED vars
  <2>1. \A u \in Threads : Pending(u)' => Pending(u) /\ event'[u].id = event[u].id
    BY <1>12 DEF vars, Pending
  <2> QED BY <1>1, <1>12, <2>1 DEF vars, CacheShrinks
<1> QED
  BY <1>2, <1>3, <1>4, <1>5, <1>6, <1>7, <1>8, <1>9, <1>10, <1>11, <1>12
     DEF Next, Handler, AddEvent, RetryAddEvent

\* However the threads interleave, and even when the driver gives one address to two of
\* them, no event is in two places of the cache.
THEOREM EventsJoinOnce == Spec => []JoinsOnce
<1>1. Init => TypeInv /\ JoinInv
  <2> SUFFICES ASSUME Init PROVE JoinInv
    BY InitTypeInv
  <2>1. LiveKeys(states) = {} /\ IdsIn(states) = {}
    BY DEF Init, EmptyMap, LiveKeys, IdsIn, Cached
  <2> QED BY <2>1 DEF Init, JoinInv, OnceInMap, Pending
<1>2. (TypeInv /\ JoinInv) /\ [Next]_vars => (TypeInv /\ JoinInv)'
  BY TypeInvStep, JoinInvStep
<1>3. TypeInv /\ JoinInv => JoinsOnce
  BY DEF JoinInv, OnceInMap, JoinsOnce
<1> QED BY <1>1, <1>2, <1>3, PTL DEF Spec

------------------------------------------------------------------------------------
(***************************************************************************)
(* start() and stop() clear the cache.                                     *)
(***************************************************************************)
\* The thread that cleans a key up for a switch, and the thread of the switch.
Cleaning(t) == pc[t] \in {"cleanGet", "cleanDispatch", "cleanDelete"} /\ event[t] = NoEvent

Looping(t) == pc[t] = "loop" \/ Cleaning(t)

\* One switch runs at a time, and what was cached when it began is at a key that it has
\* still to clean up.
LoopInv ==
    /\ \A t, u \in Threads : Looping(t) /\ Looping(u) => t = u
    /\ \A t \in Threads : Looping(t) =>
          \A k \in LiveKeys(states) : \A i \in 1 .. Len(states[k].events) :
              states[k].events[i].id \in cachedBefore =>
                  k \in cleaning \/ (Cleaning(t) /\ key[t] = k)

\* The cache gets no event that was cached when the switch began.
NothingReturns ==
    \A k \in LiveKeys(states') : \A i \in 1 .. Len(states'[k].events) :
        states'[k].events[i].id \in cachedBefore =>
            /\ k \in LiveKeys(states)
            /\ \E j \in 1 .. Len(states[k].events) :
                  states[k].events[j].id = states'[k].events[i].id

LEMMA ShrinkingReturns ==
    ASSUME TypeInv, CacheShrinks
    PROVE  NothingReturns /\ \A k \in LiveKeys(states') : k \in LiveKeys(states) /\ states'[k] = states[k]
<1>1. states \in StatesMap
  BY DEF TypeInv, TypeOK
<1>2. \A k \in LiveKeys(states') : k \in LiveKeys(states) /\ states'[k] = states[k]
  BY <1>1, DeletedMap DEF CacheShrinks, LiveKeys
<1> QED BY <1>2 DEF NothingReturns

LEMMA AcceptedReturns ==
    ASSUME TypeInv, JoinInv, NEW t \in Threads, pc[t] \in {"add", "retry"},
           NEW e \in MemoryEvent, NEW k \in MemoryStateKey, Accepts(t, e, k)
    PROVE  NothingReturns
<1>1. e.id \notin cachedBefore
  BY DEF Accepts, JoinInv, Pending, TypeInv, PlaceInv, HoldsEvent
<1>2. states \in StatesMap
  BY DEF TypeInv, TypeOK
<1>3. count \in Nat
  BY DEF TypeInv, TypeOK
<1>4. states' = Added(states, count, e, k)
  BY DEF Accepts
<1>5. /\ LiveKeys(states') = LiveKeys(states) \cup {k} /\ states'[k] = StateWith(states, count, e, k)
      /\ \A j \in MemoryStateKey : j # k => states'[j] = states[j]
  BY <1>2, <1>3, <1>4, AddedMap
<1>6. /\ k \in LiveKeys(states) =>
           /\ Len(states'[k].events) = Len(states[k].events) + 1
           /\ states'[k].events[Len(states[k].events) + 1] = e
           /\ \A i \in 1 .. Len(states[k].events) : states'[k].events[i] = states[k].events[i]
           /\ Len(states[k].events) \in Nat
      /\ k \notin LiveKeys(states) => states'[k].events = <<e>>
  BY <1>2, <1>3, <1>5, StateWithEvent, LiveState DEF LiveKeys
<1> SUFFICES ASSUME NEW l \in LiveKeys(states'), NEW i \in 1 .. Len(states'[l].events),
                    states'[l].events[i].id \in cachedBefore
             PROVE  /\ l \in LiveKeys(states)
                    /\ \E j \in 1 .. Len(states[l].events) :
                          states[l].events[j].id = states'[l].events[i].id
  BY DEF NothingReturns
<1>7. CASE l # k
  BY <1>5, <1>7 DEF LiveKeys
<1>8. CASE l = k /\ k \in LiveKeys(states)
  <2>1. i \in 1 .. Len(states[k].events) \/ i = Len(states[k].events) + 1
    BY <1>6, <1>8
  <2>2. i \in 1 .. Len(states[k].events)
    BY <1>1, <1>6, <1>8, <2>1
  <2> QED BY <1>6, <1>8, <2>2
<1>9. CASE l = k /\ k \notin LiveKeys(states)
  <2>1. states'[l].events = <<e>>
    BY <1>6, <1>9
  <2>2. i = 1
    BY <2>1
  <2> QED BY <1>1, <2>1, <2>2
<1> QED BY <1>7, <1>8, <1>9

\* A step that is not one of the switch leaves it what it had to do.
LEMMA LoopKept ==
    ASSUME LoopInv, NothingReturns, cleaning' = cleaning, cachedBefore' = cachedBefore,
           \A u \in Threads : Looping(u)' => /\ Looping(u)
                                             /\ Cleaning(u) => Cleaning(u)' /\ key'[u] = key[u]
    PROVE  LoopInv'
<1>1. \A t, u \in Threads : Looping(t)' /\ Looping(u)' => t = u
  BY DEF LoopInv
<1>2. ASSUME NEW t \in Threads, Looping(t)', NEW k \in LiveKeys(states'),
             NEW i \in 1 .. Len(states'[k].events), states'[k].events[i].id \in cachedBefore
      PROVE  k \in cleaning \/ (Cleaning(t)' /\ key'[t] = k)
  <2>1. PICK j \in 1 .. Len(states[k].events) : states[k].events[j].id = states'[k].events[i].id
    BY <1>2 DEF NothingReturns
  <2>2. k \in LiveKeys(states) /\ Looping(t)
    BY <1>2 DEF NothingReturns
  <2>3. k \in cleaning \/ (Cleaning(t) /\ key[t] = k)
    BY <1>2, <2>1, <2>2 DEF LoopInv
  <2> QED BY <1>2, <2>3
<1>3. LiveKeys(states)' = LiveKeys(states')
  BY DEF LiveKeys
<1> QED BY <1>1, <1>2, <1>3 DEF LoopInv

LEMMA LoopInvStep == TypeInv /\ JoinInv /\ LoopInv /\ [Next]_vars => LoopInv'
<1> SUFFICES ASSUME TypeInv, JoinInv, LoopInv, [Next]_vars PROVE LoopInv'
  OBVIOUS
<1> USE DEF switch, reports, cache, Goto, At
<1>0. /\ pc \in [Threads -> Places] /\ event \in [Threads -> MemoryEvent \cup {NoEvent}]
      /\ key \in [Threads -> MemoryStateKey] /\ states \in StatesMap
  BY DEF TypeInv, TypeOK
<1>1. ASSUME NEW t \in Threads, NothingReturns, cleaning' = cleaning, cachedBefore' = cachedBefore,
             \A u \in Threads : u # t => pc'[u] = pc[u] /\ event'[u] = event[u] /\ key'[u] = key[u],
             Looping(t)' => /\ Looping(t)
                            /\ Cleaning(t) => Cleaning(t)' /\ key'[t] = key[t]
      PROVE  LoopInv'
  <2>1. \A u \in Threads : Looping(u)' => /\ Looping(u)
                                          /\ Cleaning(u) => Cleaning(u)' /\ key'[u] = key[u]
    BY <1>1 DEF Looping, Cleaning
  <2> QED BY <1>1, <2>1, LoopKept
<1>2. ASSUME states' = states PROVE NothingReturns
  BY <1>2, ShrinkingReturns DEF CacheShrinks
<1>3. ASSUME NEW t \in Threads,
             \/ \E b \in BlocksOf[t], d \in Devices : HalMemAlloc(t, b, d)
             \/ \E b \in BlocksOf[t] : HalMemFree(t, b)
             \/ ReportHalMalloc(t) \/ ReportHalFree(t)
      PROVE  LoopInv'
  <2>1. /\ states' = states /\ cleaning' = cleaning /\ cachedBefore' = cachedBefore /\ key' = key
        /\ pc'[t] \in {"mallocHook", "freeHook", "add", "idle"}
        /\ \A u \in Threads : u # t => pc'[u] = pc[u] /\ event'[u] = event[u]
    BY <1>0, <1>3 DEF HalMemAlloc, HalMemFree, ReportHalMalloc, ReportHalFree, Reported, NotReported
  <2>2. ~Looping(t)'
    BY <2>1 DEF Looping, Cleaning
  <2> QED BY <1>1, <1>2, <2>1, <2>2
<1>4. ASSUME NEW t \in Threads, AddEvent(t) \/ RetryAddEvent(t), Accept(t) PROVE LoopInv'
  <2>1. pc[t] \in {"add", "retry"} /\ cleaning' = cleaning /\ cachedBefore' = cachedBefore
    BY <1>4 DEF AddEvent, RetryAddEvent
  <2>2. event[t] \in MemoryEvent
    BY <2>1, EventOf DEF HoldsEvent
  <2>3. PICK e \in MemoryEvent, k \in MemoryStateKey : Accepts(t, e, k)
    BY <1>4, <2>2, Accepting
  <2>4. /\ NothingReturns /\ pc'[t] = "get" /\ key' = key
        /\ \A u \in Threads : u # t => pc'[u] = pc[u] /\ event'[u] = event[u]
    BY <1>0, <2>1, <2>3, AcceptedReturns DEF Accepts
  <2>5. ~Looping(t)'
    BY <2>4 DEF Looping, Cleaning
  <2> QED BY <1>1, <2>1, <2>4, <2>5
<1>5. ASSUME NEW t \in Threads, AddEvent(t), Refuse(t) PROVE LoopInv'
  <2>1. event[t] \in MemoryEvent
    BY <1>5, EventOf DEF AddEvent, HoldsEvent
  <2>2. PICK e \in MemoryEvent :
            /\ event' = [event EXCEPT ![t] = e]
            /\ key' = [key EXCEPT ![t] = KeyOf(e)]
            /\ pc' = [pc EXCEPT ![t] = "cleanGet"]
            /\ states' = states
    BY <1>5, <2>1, Refusing
  <2>3. event'[t] # NoEvent /\ pc'[t] = "cleanGet"
    BY <1>0, <2>2, ThreadsAssumption
  <2>4. ~Looping(t)'
    BY <2>3 DEF Looping, Cleaning
  <2>5. /\ cleaning' = cleaning /\ cachedBefore' = cachedBefore
        /\ \A u \in Threads : u # t => pc'[u] = pc[u] /\ event'[u] = event[u] /\ key'[u] = key[u]
    BY <1>0, <1>5, <2>2 DEF AddEvent
  <2> QED BY <1>1, <1>2, <2>2, <2>4, <2>5
<1>6. ASSUME NEW t \in Threads,
             \/ RetryAddEvent(t) /\ ~Accept(t)
             \/ GetState(t) \/ GetCleanUpState(t) \/ DispatchEvent(t) \/ DispatchCleanUp(t)
      PROVE  LoopInv'
  <2>1. /\ states' = states /\ cleaning' = cleaning /\ cachedBefore' = cachedBefore /\ key' = key
        /\ event' = event
    BY <1>6 DEF RetryAddEvent, GetState, GetCleanUpState, DispatchEvent, DispatchCleanUp, Dispatch
  <2>2. \/ pc' = pc
        \/ pc' = [pc EXCEPT ![t] = "get"]
        \/ pc' = [pc EXCEPT ![t] = "dispatch"] \/ pc' = [pc EXCEPT ![t] = "delete"]
        \/ pc[t] = "cleanGet" /\ pc' = [pc EXCEPT ![t] = "cleanDispatch"]
        \/ pc[t] = "cleanDispatch" /\ pc' = [pc EXCEPT ![t] = "cleanDelete"]
    BY <1>6 DEF RetryAddEvent, GetState, GetCleanUpState, DispatchEvent, DispatchCleanUp, Dispatch
  <2>3. Looping(t)' => Looping(t) /\ (Cleaning(t) => Cleaning(t)')
    BY <1>0, <2>1, <2>2 DEF Looping, Cleaning
  <2>4. \A u \in Threads : u # t => pc'[u] = pc[u]
    BY <1>0, <2>2
  <2> QED BY <1>1, <1>2, <2>1, <2>3, <2>4
<1>7. ASSUME NEW t \in Threads, DeteleState(t) PROVE LoopInv'
  <2>1. KeyOf(event[t]) \in MemoryStateKey
    BY <1>0, <1>7, EventOf, CompletedEvent DEF DeteleState, HoldsEvent
  <2>2. CacheShrinks
    BY <1>7, <2>1 DEF DeteleState, CacheShrinks
  <2>3. /\ cleaning' = cleaning /\ cachedBefore' = cachedBefore /\ key' = key /\ pc'[t] = "idle"
        /\ \A u \in Threads : u # t => pc'[u] = pc[u] /\ event'[u] = event[u]
    BY <1>0, <1>7 DEF DeteleState
  <2>4. ~Looping(t)'
    BY <2>3 DEF Looping, Cleaning
  <2> QED BY <1>1, <2>2, <2>3, <2>4, ShrinkingReturns
<1>8. ASSUME NEW t \in Threads, DeleteCleanedUp(t) PROVE LoopInv'
  <2>1. /\ states' = Deleted(states, key[t]) /\ key[t] \in MemoryStateKey
        /\ cleaning' = cleaning /\ cachedBefore' = cachedBefore /\ key' = key /\ event' = event
        /\ pc' = [pc EXCEPT ![t] = IF event[t] = NoEvent THEN "loop" ELSE "retry"]
        /\ pc[t] = "cleanDelete"
    BY <1>0, <1>8 DEF DeleteCleanedUp
  <2>2. CacheShrinks
    BY <2>1 DEF CacheShrinks
  <2>3. \A u \in Threads : u # t => pc'[u] = pc[u]
    BY <1>0, <2>1
  <2>4. CASE event[t] # NoEvent
    <3>1. ~Looping(t)'
      BY <1>0, <2>1, <2>4 DEF Looping, Cleaning
    <3> QED BY <1>1, <2>1, <2>2, <2>3, <3>1, ShrinkingReturns
  <2>5. CASE event[t] = NoEvent
    <3>1. /\ Looping(t) /\ Cleaning(t) /\ pc'[t] = "loop"
          /\ \A u \in Threads : Looping(u)' => Looping(u)
      BY <1>0, <2>1, <2>3, <2>5 DEF Looping, Cleaning
    <3>2. \A u, v \in Threads : Looping(u)' /\ Looping(v)' => u = v
      BY <3>1 DEF LoopInv
    <3>3. ASSUME NEW u \in Threads, Looping(u)', NEW k \in LiveKeys(states'),
                 NEW i \in 1 .. Len(states'[k].events), states'[k].events[i].id \in cachedBefore
          PROVE  k \in cleaning
      <4>1. k \in LiveKeys(states) /\ states'[k] = states[k]
        BY <2>2, ShrinkingReturns
      <4>2. k # key[t]
        BY <1>0, <2>1, DeletedMap DEF LiveKeys
      <4> QED BY <3>1, <3>3, <4>1, <4>2 DEF LoopInv
    <3>4. LiveKeys(states)' = LiveKeys(states')
      BY DEF LiveKeys
    <3> QED BY <2>1, <3>2, <3>3, <3>4 DEF LoopInv
  <2> QED BY <2>4, <2>5
<1>9. ASSUME NEW t \in Threads, NEW new \in Status, BeginSetTraceStatus(t, new) PROVE LoopInv'
  <2>1. /\ states' = states /\ cleaning' = LiveKeys(states)
        /\ \A u \in Threads : ~Looping(u)
        /\ \A u \in Threads : u # t => pc'[u] = pc[u] /\ event'[u] = event[u]
    BY <1>0, <1>9 DEF BeginSetTraceStatus, Looping, Cleaning
  <2>2. \A u \in Threads : Looping(u)' => u = t
    BY <2>1 DEF Looping, Cleaning
  <2>3. LiveKeys(states)' = LiveKeys(states)
    BY <2>1 DEF LiveKeys
  <2> QED BY <2>1, <2>2, <2>3 DEF LoopInv
<1>10. ASSUME NEW t \in Threads, NEW k \in MemoryStateKey, NextKey(t, k) PROVE LoopInv'
  <2>1. /\ states' = states /\ cleaning' = cleaning \ {k} /\ cachedBefore' = cachedBefore
        /\ event' = event /\ pc[t] = "loop" /\ pc'[t] = "cleanGet" /\ key'[t] = k
        /\ \A u \in Threads : u # t => pc'[u] = pc[u] /\ key'[u] = key[u]
    BY <1>0, <1>10 DEF NextKey
  <2>2. event[t] = NoEvent /\ Looping(t) /\ ~Cleaning(t) /\ Cleaning(t)'
    BY <2>1 DEF TypeInv, PlaceInv, Looping, Cleaning
  <2>3. \A u \in Threads : Looping(u)' => u = t
    BY <2>1, <2>2 DEF Looping, Cleaning, LoopInv
  <2>4. LiveKeys(states)' = LiveKeys(states)
    BY <2>1 DEF LiveKeys
  <2> QED BY <2>1, <2>2, <2>3, <2>4 DEF LoopInv
<1>11. ASSUME NEW t \in Threads, EndSetTraceStatus(t) PROVE LoopInv'
  <2>1. /\ states' = states /\ cleaning' = cleaning /\ cachedBefore' = cachedBefore
        /\ event' = event /\ key' = key /\ pc'[t] = "idle"
        /\ \A u \in Threads : u # t => pc'[u] = pc[u]
    BY <1>0, <1>11 DEF EndSetTraceStatus
  <2>2. ~Looping(t)'
    BY <2>1 DEF Looping, Cleaning
  <2> QED BY <1>1, <1>2, <2>1, <2>2
<1>12. CASE UNCHANGED vars
  <2>1. /\ NothingReturns /\ cleaning' = cleaning /\ cachedBefore' = cachedBefore
        /\ \A u \in Threads : Looping(u)' => /\ Looping(u)
                                             /\ Cleaning(u) => Cleaning(u)' /\ key'[u] = key[u]
    BY <1>2, <1>12 DEF vars, Looping, Cleaning
  <2> QED BY <2>1, LoopKept
<1> QED
  BY <1>3, <1>4, <1>5, <1>6, <1>7, <1>8, <1>9, <1>10, <1>11, <1>12
     DEF Next, Handler, AddEvent, RetryAddEvent

\* Whatever other threads do meanwhile, what was cached when start() or stop() began is not
\* cached when it ends.
THEOREM SwitchesClear == Spec => []SwitchClearsCache
<1> DEFINE Inv == TypeInv /\ JoinInv /\ LoopInv
<1>1. Init => Inv
  <2> SUFFICES ASSUME Init PROVE JoinInv /\ LoopInv
    BY InitTypeInv
  <2>1. LiveKeys(states) = {} /\ IdsIn(states) = {}
    BY DEF Init, EmptyMap, LiveKeys, IdsIn, Cached
  <2>2. \A t \in Threads : pc[t] = "idle"
    BY DEF Init
  <2>3. JoinInv
    BY <2>1 DEF Init, JoinInv, OnceInMap, Pending
  <2>4. LoopInv
    BY <2>2 DEF LoopInv, Looping, Cleaning
  <2> QED BY <2>3, <2>4
<1>2. Inv /\ [Next]_vars => Inv'
  BY TypeInvStep, JoinInvStep, LoopInvStep
<1>3. Inv => SwitchClearsCache
  <2> SUFFICES ASSUME LoopInv, NEW t \in Threads, pc[t] = "loop", cleaning = {},
                      NEW e \in Cached(states), e.id \in cachedBefore
               PROVE  FALSE
    BY DEF SwitchClearsCache
  <2>1. PICK k \in LiveKeys(states) : \E i \in 1 .. Len(states[k].events) : e = states[k].events[i]
    BY DEF Cached
  <2>2. Looping(t) /\ ~Cleaning(t)
    BY DEF Looping, Cleaning
  <2> QED BY <2>1, <2>2 DEF LoopInv
<1> QED BY <1>1, <1>2, <1>3, PTL DEF Spec

------------------------------------------------------------------------------------
(***************************************************************************)
(* Threads that do not share addresses, while tracing stays on: each of    *)
(* them leads each of its addresses through the same stages, alone.        *)
(***************************************************************************)
OwnAddresses ==
    \A t, u \in Threads : t # u => \A b \in BlocksOf[t], c \in BlocksOf[u] : b.addr # c.addr

Own(t) == {b.addr : b \in BlocksOf[t]}

InUse(a) == \E b \in heap : b.addr = a

KeyAt(a) == <<HAL, a>>

Live(a) == states[KeyAt(a)] # NoState

EventsAt(a) == states[KeyAt(a)].events

\* The state of the address has seen its MALLOC; its MALLOC and its FREE.
HoldsMalloc(a) ==
    /\ Live(a) /\ Len(EventsAt(a)) = 1
    /\ EventsAt(a)[1].type = "MALLOC" /\ EventsAt(a)[1].addr = a

HoldsBoth(a) ==
    /\ Live(a) /\ Len(EventsAt(a)) = 2
    /\ EventsAt(a)[1].type = "MALLOC" /\ EventsAt(a)[1].addr = a
    /\ EventsAt(a)[2].type = "FREE" /\ EventsAt(a)[2].addr = a

Working(t, a) == pc[t] # "idle" /\ event[t].addr = a

\* Between the calls of its thread an address is in use and known everywhere, or nowhere.
AtRest(a) == \/ InUse(a) /\ a \in halPtrs /\ HoldsMalloc(a)
             \/ ~InUse(a) /\ a \notin halPtrs /\ ~Live(a)

Beginning(t, a) ==
    /\ event[t].type = "MALLOC" /\ InUse(a)
    /\ \/ pc[t] = "mallocHook" /\ a \notin halPtrs /\ ~Live(a)
       \/ pc[t] = "add" /\ a \in halPtrs /\ ~Live(a)
       \/ pc[t] \in {"get", "dispatch", "delete"} /\ a \in halPtrs /\ HoldsMalloc(a)

Ending(t, a) ==
    /\ event[t].type = "FREE" /\ ~InUse(a)
    /\ \/ pc[t] = "freeHook" /\ a \in halPtrs /\ HoldsMalloc(a)
       \/ pc[t] = "add" /\ a \notin halPtrs /\ HoldsMalloc(a)
       \/ pc[t] \in {"get", "dispatch", "delete"} /\ a \notin halPtrs /\ HoldsBoth(a)

Stage(t, a) == IF Working(t, a) THEN Beginning(t, a) \/ Ending(t, a) ELSE AtRest(a)

\* The driver's blocks are the threads' and do not overlap.
OwnHeap ==
    /\ \A b \in heap : \E t \in Threads : b \in BlocksOf[t]
    /\ \A b, c \in heap : b # c => ~Overlap(b, c)

\* A thread handles events of its own addresses, and is never refused.
OwnEvents ==
    \A t \in Threads :
        /\ pc[t] \in {"idle", "mallocHook", "freeHook", "add", "get", "dispatch", "delete"}
        /\ pc[t] # "idle" => event[t].addr \in Own(t) /\ event[t].pool = HAL

OwnStates == \A k \in LiveKeys(states) : k[1] = HAL /\ \E t \in Threads : k[2] \in Own(t)

\* The pointer in use is to the state of the event's own key, as it still is.
OwnPointers ==
    \A t \in Threads : pc[t] \in {"dispatch", "delete"} =>
        ptr[t] # NoState /\ ptr[t].key = KeyOf(event[t]) /\ ptr[t].state = states[KeyOf(event[t])]

\* A MALLOC is written with its FREE behind it.
Paired(w) ==
    \A i \in 1 .. Len(w) :
        w[i].event.type = "MALLOC" =>
            /\ i < Len(w)
            /\ w[i + 1].event.type = "FREE"
            /\ w[i + 1].event.addr = w[i].event.addr

PairsWritten == Paired(written)

OwnInv ==
    /\ Tracing /\ ~crashed
    /\ OwnHeap /\ OwnEvents /\ OwnStates /\ OwnPointers /\ PairsWritten
    /\ \A t \in Threads : \A a \in Own(t) : Stage(t, a)

\* A step of thread t that only touches address a.
OnlyAt(t, a) ==
    /\ \A x \in Addrs : x # a =>
          /\ (\E b \in heap' : b.addr = x) = InUse(x)
          /\ (x \in halPtrs') = (x \in halPtrs)
          /\ states'[KeyAt(x)] = states[KeyAt(x)]
    /\ \A u \in Threads : u # t => pc'[u] = pc[u] /\ event'[u] = event[u] /\ ptr'[u] = ptr[u]
    /\ pc[t] # "idle" => event[t].addr = a
    /\ pc'[t] # "idle" => event'[t].addr = a

LEMMA OwnTypes ==
    ASSUME NEW t \in Threads
    PROVE  Own(t) \subseteq Addrs /\ \A b \in BlocksOf[t] : b \in Block /\ b.addr \in Own(t)
  BY ThreadsAssumption DEF Own, Block

\* Every other address stays at its stage.
LEMMA OthersStay ==
    ASSUME OwnAddresses, TypeInv, OwnInv, NEW t \in Threads, NEW a \in Own(t), OnlyAt(t, a),
           NEW u \in Threads, NEW x \in Own(u), u # t \/ x # a
    PROVE  Stage(u, x)'
<1>1. x \in Addrs /\ x # a
  <2>1. x \in Addrs
    BY OwnTypes
  <2>2. u # t => x # a
    BY DEF OwnAddresses, Own
  <2> QED BY <2>1, <2>2
<1>2. /\ InUse(x)' = InUse(x)
      /\ (x \in halPtrs') = (x \in halPtrs)
      /\ states'[KeyAt(x)] = states[KeyAt(x)]
  BY <1>1 DEF OnlyAt, InUse
<1>3. Stage(u, x)
  BY DEF OwnInv
<1>4. KeyAt(x)' = KeyAt(x)
  BY DEF KeyAt
<1>5. HoldsMalloc(x)' = HoldsMalloc(x) /\ HoldsBoth(x)' = HoldsBoth(x) /\ Live(x)' = Live(x)
  BY <1>2, <1>4 DEF HoldsMalloc, HoldsBoth, Live, EventsAt
<1>6. AtRest(x)' = AtRest(x)
  BY <1>2, <1>5 DEF AtRest
<1>7. CASE u # t
  <2>1. pc'[u] = pc[u] /\ event'[u] = event[u]
    BY <1>7 DEF OnlyAt
  <2> QED BY <1>2, <1>3, <1>5, <1>6, <2>1 DEF Stage, Working, Beginning, Ending
<1>8. CASE u = t
  <2>1. ~Working(u, x) /\ ~Working(u, x)'
    BY <1>1, <1>8 DEF OnlyAt, Working
  <2> QED BY <1>3, <1>6, <2>1 DEF Stage
<1> QED BY <1>7, <1>8

\* A step of thread t at address a that leads it to its next stage keeps the invariant.
LEMMA OwnStep ==
    ASSUME OwnAddresses, TypeInv, OwnInv, NEW t \in Threads, NEW a \in Own(t), OnlyAt(t, a),
           Stage(t, a)', OwnHeap', PairsWritten', status' = status, crashed' = crashed,
           pc'[t] \in {"idle", "mallocHook", "freeHook", "add", "get", "dispatch", "delete"},
           pc'[t] # "idle" => event'[t].pool = HAL,
           \A k \in LiveKeys(states') : k \in LiveKeys(states) \/ k = KeyAt(a),
           pc'[t] \in {"dispatch", "delete"} =>
               /\ ptr'[t] # NoState /\ ptr'[t].key = KeyOf(event'[t])
               /\ ptr'[t].state = states'[KeyOf(event'[t])]
    PROVE  OwnInv'
<1>1. \A u \in Threads : \A x \in Own(u) : Stage(u, x)'
  BY OthersStay
<1>2. \A u \in Threads : Own(u)' = Own(u)
  BY DEF Own
<1>3. Tracing' /\ ~crashed'
  BY DEF OwnInv, Tracing
<1>4. OwnEvents'
  <2>1. \A u \in Threads : u # t => pc'[u] = pc[u] /\ event'[u] = event[u]
    BY DEF OnlyAt
  <2>2. pc'[t] # "idle" => event'[t].addr = a
    BY DEF OnlyAt
  <2> QED BY <1>2, <2>1, <2>2 DEF OwnInv, OwnEvents
<1>5. OwnStates'
  <2>1. LiveKeys(states)' = LiveKeys(states')
    BY DEF LiveKeys
  <2>2. KeyAt(a)[1] = HAL /\ KeyAt(a)[2] = a
    BY DEF KeyAt
  <2> QED BY <1>2, <2>1, <2>2 DEF OwnInv, OwnStates
<1>6. OwnPointers'
  <2> SUFFICES ASSUME NEW u \in Threads, pc'[u] \in {"dispatch", "delete"}
               PROVE  /\ ptr'[u] # NoState /\ ptr'[u].key = KeyOf(event'[u])
                      /\ ptr'[u].state = states'[KeyOf(event'[u])]
    BY DEF OwnPointers, KeyOf
  <2>1. CASE u = t
    BY <2>1
  <2>2. CASE u # t
    <3>1. pc'[u] = pc[u] /\ event'[u] = event[u] /\ ptr'[u] = ptr[u]
      BY <2>2 DEF OnlyAt
    <3>2. /\ ptr[u] # NoState /\ ptr[u].key = KeyOf(event[u])
          /\ ptr[u].state = states[KeyOf(event[u])]
          /\ event[u].addr \in Own(u) /\ event[u].pool = HAL
      BY <3>1 DEF OwnInv, OwnPointers, OwnEvents
    <3>3. event[u].addr # a /\ event[u].addr \in Addrs
      BY <2>2, <3>2, OwnTypes DEF OwnAddresses, Own
    <3>4. KeyOf(event[u]) = KeyAt(event[u].addr)
      BY <3>2 DEF KeyOf, KeyAt
    <3>5. states'[KeyOf(event[u])] = states[KeyOf(event[u])]
      BY <3>3, <3>4 DEF OnlyAt
    <3> QED BY <3>1, <3>2, <3>5
  <2> QED BY <2>1, <2>2
<1> QED BY <1>1, <1>2, <1>3, <1>4, <1>5, <1>6 DEF OwnInv

\* Blocks of one address overlap, so that an address is in use through one block.
LEMMA SameAddress ==
    ASSUME NEW b \in Block, NEW c \in Block, b.addr = c.addr
    PROVE  Overlap(b, c)
<1>1. b.addr \in Nat /\ b.size \in Nat \ {0} /\ c.size \in Nat \ {0}
  BY ManagerAssumption DEF Block
<1> QED BY <1>1 DEF Overlap

\* Where thread t is on the way with its event.
LEMMA AtStage ==
    ASSUME TypeInv, OwnInv, NEW t \in Threads, pc[t] # "idle"
    PROVE  /\ event[t] \in MemoryEvent /\ event[t].addr \in Own(t)
           /\ event[t].pool = HAL /\ KeyOf(event[t]) = KeyAt(event[t].addr)
           /\ Beginning(t, event[t].addr) \/ Ending(t, event[t].addr)
<1>1. /\ event[t].addr \in Own(t) /\ event[t].pool = HAL
      /\ pc[t] \in {"mallocHook", "freeHook", "add", "get", "dispatch", "delete"}
  BY DEF OwnInv, OwnEvents
<1>2. event[t] \in MemoryEvent
  BY <1>1, EventOf DEF HoldsEvent
<1>3. Stage(t, event[t].addr) /\ Working(t, event[t].addr)
  BY <1>1 DEF OwnInv, Working
<1> QED BY <1>1, <1>2, <1>3 DEF Stage, KeyOf, KeyAt

\* The two ways to touch one address without the driver or the cache.
LEMMA OwnHeapKept == ASSUME OwnHeap, heap' = heap PROVE OwnHeap'
  BY DEF OwnHeap, Overlap

LEMMA PairsKept == ASSUME PairsWritten, written' = written PROVE PairsWritten'
  BY DEF PairsWritten

\* The driver's calls.
LEMMA OwnAlloc ==
    ASSUME OwnAddresses, TypeInv, OwnInv, NEW t \in Threads, NEW b \in BlocksOf[t],
           NEW d \in Devices, HalMemAlloc(t, b, d)
    PROVE  OwnInv'
<1> USE DEF switch, reports, cache, Goto, At
<1> DEFINE a == b.addr
<1>1. /\ b \in Block /\ a \in Own(t) /\ heap \subseteq Block
      /\ pc \in [Threads -> Places] /\ event \in [Threads -> MemoryEvent \cup {NoEvent}]
  BY OwnTypes DEF TypeInv, TypeOK
<1>2. /\ pc[t] = "idle" /\ heap' = heap \cup {b} /\ \A c \in heap : ~Overlap(b, c)
      /\ pc'[t] = "mallocHook"
      /\ event'[t].type = "MALLOC" /\ event'[t].pool = HAL /\ event'[t].addr = a
      /\ \A u \in Threads : u # t => pc'[u] = pc[u] /\ event'[u] = event[u]
      /\ UNCHANGED <<halPtrs, states, ptr, written, status, crashed>>
  BY <1>1 DEF HalMemAlloc
<1> HIDE DEF a
<1>3. ~InUse(a)
  BY <1>1, <1>2, SameAddress DEF InUse, a
<1>4. a \notin halPtrs /\ ~Live(a)
  <2>1. AtRest(a)
    BY <1>1, <1>2 DEF OwnInv, Stage, Working
  <2> QED BY <1>3, <2>1 DEF AtRest
<1>5. OnlyAt(t, a)
  BY <1>2 DEF OnlyAt, InUse, a
<1>6. Stage(t, a)'
  <2>1. InUse(a)' /\ Live(a)' = Live(a)
    BY <1>2 DEF InUse, Live, a
  <2> QED BY <1>2, <1>4, <2>1 DEF Stage, Working, Beginning
<1>7. OwnHeap'
  <2>1. \A c, e \in heap' : c # e => ~Overlap(c, e)
    <3>1. \A c \in heap : ~Overlap(c, b)
      BY <1>2 DEF Overlap
    <3> QED BY <1>2, <3>1 DEF OwnInv, OwnHeap
  <2> QED BY <1>2, <2>1 DEF OwnInv, OwnHeap, Overlap
<1>8. PairsWritten'
  BY <1>2, PairsKept DEF OwnInv
<1>9. \A k \in LiveKeys(states') : k \in LiveKeys(states)
  BY <1>2
<1> QED BY <1>1, <1>2, <1>5, <1>6, <1>7, <1>8, <1>9, OwnStep

LEMMA OwnFree ==
    ASSUME OwnAddresses, TypeInv, OwnInv, NEW t \in Threads, NEW b \in BlocksOf[t],
           HalMemFree(t, b)
    PROVE  OwnInv'
<1> USE DEF switch, reports, cache, Goto, At
<1> DEFINE a == b.addr
<1>1. /\ b \in Block /\ a \in Own(t) /\ heap \subseteq Block
      /\ pc \in [Threads -> Places] /\ event \in [Threads -> MemoryEvent \cup {NoEvent}]
  BY OwnTypes DEF TypeInv, TypeOK
<1>2. /\ pc[t] = "idle" /\ b \in heap /\ heap' = heap \ {b}
      /\ pc'[t] = "freeHook"
      /\ event'[t].type = "FREE" /\ event'[t].pool = HAL /\ event'[t].addr = a
      /\ \A u \in Threads : u # t => pc'[u] = pc[u] /\ event'[u] = event[u]
      /\ UNCHANGED <<halPtrs, states, ptr, written, status, crashed>>
  BY <1>1 DEF HalMemFree
<1> HIDE DEF a
<1>3. a \in halPtrs /\ HoldsMalloc(a)
  <2>1. AtRest(a)
    BY <1>1, <1>2 DEF OwnInv, Stage, Working
  <2> QED BY <1>2, <2>1 DEF AtRest, InUse, a
<1>4. \A c \in heap' : c.addr # a
  BY <1>1, <1>2, SameAddress DEF OwnInv, OwnHeap, a
<1>5. OnlyAt(t, a)
  BY <1>2 DEF OnlyAt, InUse, a
<1>6. Stage(t, a)'
  <2>1. ~InUse(a)' /\ HoldsMalloc(a)'
    BY <1>2, <1>3, <1>4 DEF InUse, HoldsMalloc, Live, EventsAt, KeyAt
  <2> QED BY <1>2, <1>3, <2>1 DEF Stage, Working, Ending
<1>7. OwnHeap'
  BY <1>2 DEF OwnInv, OwnHeap, Overlap
<1>8. PairsWritten'
  BY <1>2, PairsKept DEF OwnInv
<1>9. \A k \in LiveKeys(states') : k \in LiveKeys(states)
  BY <1>2
<1> QED BY <1>1, <1>2, <1>5, <1>6, <1>7, <1>8, <1>9, OwnStep

\* Both hooks report while tracing is on: the address of a free is known.
LEMMA OwnReport ==
    ASSUME OwnAddresses, TypeInv, OwnInv, NEW t \in Threads, ReportHalMalloc(t) \/ ReportHalFree(t)
    PROVE  OwnInv'
<1> USE DEF switch, reports, cache, Goto, At
<1>1. /\ event[t] \in MemoryEvent /\ event[t].addr \in Own(t) /\ event[t].pool = HAL
      /\ Beginning(t, event[t].addr) \/ Ending(t, event[t].addr)
      /\ pc[t] \in {"mallocHook", "freeHook"}
  BY AtStage DEF ReportHalMalloc, ReportHalFree
<1>2. /\ pc \in [Threads -> Places] /\ event \in [Threads -> MemoryEvent \cup {NoEvent}]
      /\ recordIndex \in Nat /\ Tracing
  BY DEF TypeInv, TypeOK, OwnInv
<1>3. PICK a \in Own(t) : a = event[t].addr
  BY <1>1
<1>4. \/ /\ Beginning(t, a) /\ pc[t] = "mallocHook" /\ Reported(t) /\ halPtrs' = halPtrs \cup {a}
      \/ /\ Ending(t, a) /\ pc[t] = "freeHook" /\ Reported(t) /\ halPtrs' = halPtrs \ {a}
  BY <1>1, <1>2, <1>3 DEF ReportHalMalloc, ReportHalFree, Beginning, Ending
<1>5. /\ pc'[t] = "add" /\ event'[t] = [event[t] EXCEPT !.id = recordIndex + 1]
      /\ \A u \in Threads : u # t => pc'[u] = pc[u] /\ event'[u] = event[u]
      /\ UNCHANGED <<heap, states, ptr, written, status, crashed>>
  BY <1>2, <1>4 DEF Reported, ReportHalMalloc, ReportHalFree
<1>6. event'[t].type = event[t].type /\ event'[t].pool = HAL /\ event'[t].addr = a
  BY <1>1, <1>3, <1>5 DEF MemoryEvent
<1>7. OnlyAt(t, a)
  BY <1>3, <1>4, <1>5, <1>6 DEF OnlyAt, InUse
<1>8. Stage(t, a)'
  <2>1. InUse(a)' = InUse(a) /\ Live(a)' = Live(a) /\ HoldsMalloc(a)' = HoldsMalloc(a)
    BY <1>5 DEF InUse, HoldsMalloc, Live, EventsAt
  <2>2. CASE Beginning(t, a) /\ pc[t] = "mallocHook" /\ halPtrs' = halPtrs \cup {a}
    BY <1>5, <1>6, <2>1, <2>2 DEF Stage, Working, Beginning
  <2>3. CASE Ending(t, a) /\ pc[t] = "freeHook" /\ halPtrs' = halPtrs \ {a}
    BY <1>5, <1>6, <2>1, <2>3 DEF Stage, Working, Ending
  <2> QED BY <1>4, <2>2, <2>3
<1>9. OwnHeap' /\ PairsWritten'
  BY <1>5, OwnHeapKept, PairsKept DEF OwnInv
<1>10. \A k \in LiveKeys(states') : k \in LiveKeys(states) \/ k = KeyAt(a)
  BY <1>5
<1>11. status' = status /\ crashed' = crashed
  BY <1>5
<1> QED BY <1>5, <1>6, <1>7, <1>8, <1>9, <1>10, <1>11, OwnStep

\* AddEvent accepts, at the event's own key.
LEMMA OwnAccepts ==
    ASSUME TypeInv, OwnInv, NEW t \in Threads, AddEvent(t)
    PROVE  \E e \in MemoryEvent :
              /\ Accepts(t, e, KeyAt(event[t].addr))
              /\ IF event[t].type = "FREE"
                 THEN Ending(t, event[t].addr) ELSE Beginning(t, event[t].addr)
<1> USE DEF switch, reports, cache, Goto, At
<1> DEFINE a == event[t].addr
<1>1. /\ event[t] \in MemoryEvent /\ event[t].pool = HAL /\ KeyOf(event[t]) = KeyAt(a)
      /\ Beginning(t, a) \/ Ending(t, a)
      /\ pc[t] = "add" /\ states \in StatesMap
  BY AtStage DEF AddEvent, TypeInv, TypeOK
<1>2. ASSUME NEW e \in MemoryEvent, e.type = event[t].type, KeyOf(e) = KeyAt(a)
      PROVE  ~Refuses(states, e)
  BY <1>1, <1>2 DEF Refuses, Beginning, Ending, Live
<1>3. Accept(t)
  BY <1>1, <1>2, Refusing DEF AddEvent
<1>4. PICK e \in MemoryEvent, k \in MemoryStateKey : Accepts(t, e, k)
  BY <1>1, <1>3, Accepting
<1>5. k = KeyAt(a)
  <2>1. k \in Receivers(states, e) /\ KeyOf(e) = KeyAt(a) /\ e.type = event[t].type
    BY <1>1, <1>4 DEF Accepts
  <2>2. e.type = "MALLOC" \/ states[KeyOf(e)] # NoState
    BY <1>1, <2>1 DEF Beginning, Ending, HoldsMalloc, Live
  <2> QED BY <2>1, <2>2 DEF Receivers, FindStateInPool
<1> QED BY <1>1, <1>4, <1>5 DEF Beginning, Ending

LEMMA OwnAdd ==
    ASSUME OwnAddresses, TypeInv, OwnInv, NEW t \in Threads, AddEvent(t)
    PROVE  OwnInv'
<1> USE DEF switch, reports, cache, Goto, At
<1>1. /\ event[t] \in MemoryEvent /\ event[t].addr \in Own(t) /\ event[t].pool = HAL
      /\ pc[t] = "add"
  BY AtStage DEF AddEvent
<1>2. pc \in [Threads -> Places] /\ event \in [Threads -> MemoryEvent \cup {NoEvent}]
  BY DEF TypeInv, TypeOK
<1>3. PICK a \in Own(t) : a = event[t].addr
  BY <1>1
<1>4. a \in Addrs
  BY OwnTypes
<1>5. PICK k \in MemoryStateKey : k = KeyAt(a)
  BY <1>4, ManagerAssumption DEF KeyAt, MemoryStateKey
<1>6. PICK e \in MemoryEvent :
          /\ Accepts(t, e, k)
          /\ IF event[t].type = "FREE" THEN Ending(t, a) ELSE Beginning(t, a)
  BY <1>3, <1>5, OwnAccepts
<1>7. /\ states' = Added(states, count, e, k)
      /\ event'[t] = e /\ e.type = event[t].type /\ e.pool = HAL /\ e.addr = a
      /\ pc'[t] = "get"
      /\ \A u \in Threads : u # t => pc'[u] = pc[u] /\ event'[u] = event[u]
  BY <1>1, <1>2, <1>3, <1>6 DEF Accepts
<1>8. UNCHANGED <<heap, halPtrs, ptr, written, status, crashed>>
  BY DEF AddEvent
<1>9. states \in StatesMap
  BY DEF TypeInv, TypeOK
<1>10. count \in Nat
  BY DEF TypeInv, TypeOK
<1>11. /\ LiveKeys(states') = LiveKeys(states) \cup {k}
       /\ states'[k] = StateWith(states, count, e, k)
       /\ \A j \in MemoryStateKey : j # k => states'[j] = states[j]
  BY <1>7, <1>9, <1>10, AddedMap
<1>12. \A x \in Addrs : x # a => KeyAt(x) \in MemoryStateKey /\ KeyAt(x) # k
  BY <1>5, ManagerAssumption DEF KeyAt, MemoryStateKey
<1>13. OnlyAt(t, a)
  BY <1>3, <1>7, <1>8, <1>11, <1>12 DEF OnlyAt, InUse
<1>14. states'[k] # NoState
  BY <1>11 DEF LiveKeys
<1>15. /\ states[k] # NoState =>
            /\ Len(states'[k].events) = Len(states[k].events) + 1
            /\ states'[k].events[Len(states[k].events) + 1] = e
            /\ \A i \in 1 .. Len(states[k].events) : states'[k].events[i] = states[k].events[i]
       /\ states[k] = NoState => states'[k].events = <<e>>
  <2>1. /\ states[k] # NoState =>
             /\ Len(StateWith(states, count, e, k).events) = Len(states[k].events) + 1
             /\ StateWith(states, count, e, k).events[Len(states[k].events) + 1] = e
             /\ \A i \in 1 .. Len(states[k].events) :
                   StateWith(states, count, e, k).events[i] = states[k].events[i]
        /\ states[k] = NoState => StateWith(states, count, e, k).events = <<e>>
    BY <1>9, <1>10, StateWithEvent
  <2> QED BY <1>11, <2>1
<1>16. InUse(a)' = InUse(a) /\ Live(a)' /\ EventsAt(a)' = states'[k].events
  BY <1>5, <1>8, <1>14 DEF InUse, Live, EventsAt, KeyAt
<1>17. Stage(t, a)'
  <2>1. CASE event[t].type = "FREE"
    <3>1. HoldsMalloc(a) /\ ~InUse(a) /\ a \notin halPtrs
      BY <1>1, <1>6, <2>1 DEF Ending
    <3>2. /\ Len(states[k].events) = 1 /\ states[k] # NoState
          /\ states[k].events[1].type = "MALLOC" /\ states[k].events[1].addr = a
      BY <1>5, <3>1 DEF HoldsMalloc, Live, EventsAt
    <3>3. /\ Len(states'[k].events) = 2 /\ states'[k].events[2] = e
          /\ states'[k].events[1] = states[k].events[1]
      BY <1>15, <3>2
    <3>4. HoldsBoth(a)'
      BY <1>7, <1>16, <2>1, <3>2, <3>3 DEF HoldsBoth
    <3> QED BY <1>7, <1>8, <1>16, <2>1, <3>1, <3>4 DEF Stage, Working, Ending
  <2>2. CASE event[t].type # "FREE"
    <3>1. event[t].type = "MALLOC" /\ InUse(a) /\ a \in halPtrs /\ ~Live(a)
      BY <1>1, <1>6, <2>2 DEF Beginning
    <3>2. states'[k].events = <<e>>
      BY <1>5, <1>15, <3>1 DEF Live
    <3>3. Len(EventsAt(a)') = 1 /\ EventsAt(a)'[1] = e
      BY <1>16, <3>2
    <3>4. HoldsMalloc(a)'
      BY <1>7, <1>16, <3>1, <3>3 DEF HoldsMalloc
    <3> QED BY <1>7, <1>8, <1>16, <3>1, <3>4 DEF Stage, Working, Beginning
  <2> QED BY <2>1, <2>2
<1>18. OwnHeap' /\ PairsWritten'
  BY <1>8, OwnHeapKept, PairsKept DEF OwnInv
<1>19. \A j \in LiveKeys(states') : j \in LiveKeys(states) \/ j = KeyAt(a)
  BY <1>5, <1>11
<1>20. status' = status /\ crashed' = crashed
  BY <1>8
<1> QED BY <1>7, <1>13, <1>17, <1>18, <1>19, <1>20, OwnStep

\* GetState finds the state of the event's own key.
LEMMA OwnGet ==
    ASSUME OwnAddresses, TypeInv, OwnInv, NEW t \in Threads, GetState(t)
    PROVE  OwnInv'
<1> USE DEF switch, reports, cache, Goto, At
<1>1. /\ event[t] \in MemoryEvent /\ event[t].addr \in Own(t) /\ event[t].pool = HAL
      /\ KeyOf(event[t]) = KeyAt(event[t].addr)
      /\ Beginning(t, event[t].addr) \/ Ending(t, event[t].addr)
      /\ pc[t] = "get"
  BY AtStage DEF GetState
<1>2. /\ pc \in [Threads -> Places] /\ ptr \in [Threads -> Pointer]
  BY DEF TypeInv, TypeOK
<1>3. PICK a \in Own(t) : a = event[t].addr
  BY <1>1
<1>4. PICK k \in MemoryStateKey : k = KeyAt(a)
  BY <1>1, <1>3, ManagerAssumption DEF KeyAt, MemoryStateKey, MemoryEvent
<1>5. states[k] # NoState
  BY <1>1, <1>3, <1>4 DEF Beginning, Ending, HoldsMalloc, HoldsBoth, Live
<1>6. FindStateInPool(states, event[t]) = {k}
  BY <1>1, <1>3, <1>4, <1>5 DEF FindStateInPool
<1>7. /\ ptr' = [ptr EXCEPT ![t] = [key |-> k, state |-> states[k]]]
      /\ pc' = [pc EXCEPT ![t] = "dispatch"]
      /\ UNCHANGED <<heap, halPtrs, states, event, written, status, crashed>>
  BY <1>5, <1>6 DEF GetState, PointerTo
<1>8. states[k] \in MemoryState
  BY <1>5 DEF TypeInv, TypeOK, StatesMap
<1>9. /\ ptr'[t] # NoState /\ ptr'[t].key = KeyOf(event'[t])
      /\ ptr'[t].state = states'[KeyOf(event'[t])]
  <2>1. ptr'[t] = [key |-> k, state |-> states[k]]
    BY <1>2, <1>7
  <2>2. [key |-> k, state |-> states[k]] # NoState
    BY <1>8, PointerAssumption
  <2> QED BY <1>1, <1>3, <1>4, <1>7, <2>1, <2>2
<1>10. OnlyAt(t, a)
  BY <1>2, <1>3, <1>7 DEF OnlyAt, InUse
<1>11. Stage(t, a)'
  <2>1. /\ InUse(a)' = InUse(a) /\ HoldsBoth(a)' = HoldsBoth(a) /\ HoldsMalloc(a)' = HoldsMalloc(a)
    BY <1>7 DEF InUse, HoldsMalloc, HoldsBoth, Live, EventsAt
  <2>2. Beginning(t, a)' \/ Ending(t, a)'
    BY <1>1, <1>2, <1>3, <1>7, <2>1 DEF Beginning, Ending
  <2> QED BY <1>2, <1>3, <1>7, <2>2 DEF Stage, Working
<1>12. OwnHeap' /\ PairsWritten'
  BY <1>7, OwnHeapKept, PairsKept DEF OwnInv
<1>13. \A j \in LiveKeys(states') : j \in LiveKeys(states) \/ j = KeyAt(a)
  BY <1>7
<1>14. status' = status /\ crashed' = crashed
  BY <1>7
<1>15. pc'[t] = "dispatch" /\ event'[t].pool = HAL
  BY <1>1, <1>2, <1>7
<1> QED BY <1>9, <1>10, <1>11, <1>12, <1>13, <1>14, <1>15, OwnStep

\* The rows that a FREE writes: the MALLOC and the FREE of its block.
LEMMA PairsGrow ==
    ASSUME TypeInv, PairsWritten, NEW a \in Addrs, HoldsBoth(a), NEW w \in Seq(Row),
           w = written \o Rows(states[KeyAt(a)])
    PROVE  /\ Len(w) = Len(written) + 2
           /\ \A i \in 1 .. Len(written) : w[i] = written[i]
           /\ w[Len(written) + 1].event.type = "MALLOC" /\ w[Len(written) + 1].event.addr = a
           /\ w[Len(written) + 2].event.type = "FREE" /\ w[Len(written) + 2].event.addr = a
           /\ Paired(w)
<1>1. KeyAt(a) \in MemoryStateKey
  BY ManagerAssumption DEF KeyAt, MemoryStateKey
<1>2. written \in Seq(Row) /\ states \in StatesMap
  BY DEF TypeInv, TypeOK
<1> DEFINE r == Rows(states[KeyAt(a)])
<1>3. /\ r \in Seq(Row) /\ Len(r) = 2
      /\ r[1].event = EventsAt(a)[1] /\ r[2].event = EventsAt(a)[2]
  <2>1. states[KeyAt(a)] # NoState /\ Len(states[KeyAt(a)].events) = 2
    BY DEF HoldsBoth, Live, EventsAt
  <2>2. RowsAt(states, KeyAt(a)) = r
    BY <2>1 DEF RowsAt
  <2>3. /\ RowsAt(states, KeyAt(a)) \in Seq(Row)
        /\ Len(RowsAt(states, KeyAt(a))) = 2
        /\ \A i \in 1 .. 2 : RowsAt(states, KeyAt(a))[i].event = states[KeyAt(a)].events[i]
    BY <1>1, <1>2, <2>1, RowsOfKey
  <2> HIDE DEF r
  <2> QED BY <2>2, <2>3 DEF EventsAt
<1> HIDE DEF r
<1>4. w = written \o r
  BY DEF r
<1>5. /\ Len(written) \in Nat /\ Len(w) = Len(written) + 2
      /\ \A i \in 1 .. Len(written) : w[i] = written[i]
      /\ w[Len(written) + 1] = r[1] /\ w[Len(written) + 2] = r[2]
  <2>1. /\ Len(written) \in Nat /\ Len(written \o r) = Len(written) + 2
        /\ \A i \in 1 .. Len(written) : (written \o r)[i] = written[i]
        /\ \A i \in 1 .. 2 : (written \o r)[Len(written) + i] = r[i]
    <3>1. written \in Seq(Row)
      BY <1>2
    <3>2. r \in Seq(Row)
      BY <1>3
    <3>3. /\ Len(written) \in Nat /\ Len(written \o r) = Len(written) + Len(r)
          /\ \A i \in 1 .. Len(written) : (written \o r)[i] = written[i]
          /\ \A i \in 1 .. Len(r) : (written \o r)[Len(written) + i] = r[i]
      BY <3>1, <3>2
    <3> QED BY <1>3, <3>3
  <2> QED BY <1>4, <2>1
<1>6. /\ r[1].event.type = "MALLOC" /\ r[1].event.addr = a
      /\ r[2].event.type = "FREE" /\ r[2].event.addr = a
  BY <1>3 DEF HoldsBoth
<1>7. ASSUME NEW i \in 1 .. Len(w), w[i].event.type = "MALLOC"
      PROVE  /\ i < Len(w) /\ w[i + 1].event.type = "FREE"
             /\ w[i + 1].event.addr = w[i].event.addr
  <2>1. CASE i \in 1 .. Len(written)
    <3>1. /\ i < Len(written) /\ written[i + 1].event.type = "FREE"
          /\ written[i + 1].event.addr = written[i].event.addr
      BY <1>5, <1>7, <2>1 DEF PairsWritten, Paired
    <3>2. i + 1 \in 1 .. Len(written)
      BY <1>5, <2>1, <3>1
    <3> QED BY <1>5, <2>1, <3>1, <3>2
  <2>2. CASE i = Len(written) + 1
    BY <1>5, <1>6, <2>2
  <2>3. i # Len(written) + 2
    BY <1>5, <1>6, <1>7
  <2>4. i \in 1 .. Len(written) \/ i = Len(written) + 1 \/ i = Len(written) + 2
    BY <1>5
  <2> QED BY <2>1, <2>2, <2>3, <2>4
<1> QED BY <1>5, <1>6, <1>7 DEF Paired

\* The subscribers get a pointer to the state that GetState found, unchanged.
LEMMA OwnNoDangling ==
    ASSUME OwnInv, TypeInv, NEW t \in Threads, pc[t] \in {"dispatch", "delete"}
    PROVE  /\ ~Dangling(t) /\ ptr[t] # NoState
           /\ ptr[t].key = KeyAt(event[t].addr)
<1>1. /\ event[t].addr \in Own(t) /\ KeyOf(event[t]) = KeyAt(event[t].addr)
      /\ Beginning(t, event[t].addr) \/ Ending(t, event[t].addr)
  BY AtStage
<1>2. ptr[t] # NoState /\ ptr[t].key = KeyOf(event[t]) /\ ptr[t].state = states[KeyOf(event[t])]
  BY DEF OwnInv, OwnPointers
<1>3. states[KeyAt(event[t].addr)] # NoState
  BY <1>1 DEF Beginning, Ending, HoldsMalloc, HoldsBoth, Live
<1> QED BY <1>1, <1>2, <1>3 DEF Dangling

LEMMA OwnDispatch ==
    ASSUME OwnAddresses, TypeInv, OwnInv, NEW t \in Threads, DispatchEvent(t)
    PROVE  OwnInv'
<1> USE DEF switch, reports, cache, Goto, At
<1>1. /\ event[t] \in MemoryEvent /\ event[t].addr \in Own(t) /\ event[t].pool = HAL
      /\ KeyOf(event[t]) = KeyAt(event[t].addr)
      /\ Beginning(t, event[t].addr) \/ Ending(t, event[t].addr)
      /\ pc[t] = "dispatch"
  BY AtStage DEF DispatchEvent
<1>2. pc \in [Threads -> Places]
  BY DEF TypeInv, TypeOK
<1>3. PICK a \in Own(t) : a = event[t].addr
  BY <1>1
<1>4. ~Dangling(t) /\ ptr[t] # NoState /\ ptr[t].key = KeyAt(a)
  BY <1>1, <1>3, OwnNoDangling
<1>5. /\ written' = IF event[t].type = "FREE" THEN written \o RowsPointedTo(t) ELSE written
      /\ pc' = [pc EXCEPT ![t] = "delete"]
      /\ UNCHANGED <<heap, halPtrs, states, event, ptr, status, crashed>>
  BY <1>4 DEF DispatchEvent, Dispatch
<1>6. RowsPointedTo(t) = Rows(states[KeyAt(a)])
  BY <1>4 DEF RowsPointedTo
<1>7. OnlyAt(t, a)
  BY <1>2, <1>3, <1>5 DEF OnlyAt, InUse
<1>8. Stage(t, a)'
  <2>1. /\ InUse(a)' = InUse(a) /\ HoldsBoth(a)' = HoldsBoth(a) /\ HoldsMalloc(a)' = HoldsMalloc(a)
    BY <1>5 DEF InUse, HoldsMalloc, HoldsBoth, Live, EventsAt
  <2>2. Beginning(t, a)' \/ Ending(t, a)'
    BY <1>1, <1>2, <1>3, <1>5, <2>1 DEF Beginning, Ending
  <2> QED BY <1>2, <1>3, <1>5, <2>2 DEF Stage, Working
<1>9. PairsWritten'
  <2>1. CASE event[t].type = "FREE"
    <3>1. HoldsBoth(a) /\ a \in Addrs
      BY <1>1, <1>3, <2>1, OwnTypes DEF Ending, Beginning
    <3>2. written' \in Seq(Row)
      BY <1>5, <2>1, RowsPointedToType DEF TypeInv, TypeOK
    <3>3. written' = written \o Rows(states[KeyAt(a)])
      BY <1>5, <1>6, <2>1
    <3>4. PairsWritten
      BY DEF OwnInv
    <3> QED BY <3>1, <3>2, <3>3, <3>4, PairsGrow DEF PairsWritten
  <2>2. CASE event[t].type # "FREE"
    BY <1>5, <2>2, PairsKept DEF OwnInv
  <2> QED BY <2>1, <2>2
<1>10. OwnHeap'
  BY <1>5, OwnHeapKept DEF OwnInv
<1>11. \A j \in LiveKeys(states') : j \in LiveKeys(states) \/ j = KeyAt(a)
  BY <1>5
<1>12. /\ status' = status /\ crashed' = crashed /\ pc'[t] = "delete" /\ event'[t].pool = HAL
       /\ ptr'[t] # NoState /\ ptr'[t].key = KeyOf(event'[t])
       /\ ptr'[t].state = states'[KeyOf(event'[t])]
  BY <1>1, <1>2, <1>5 DEF OwnInv, OwnPointers
<1> QED BY <1>7, <1>8, <1>9, <1>10, <1>11, <1>12, OwnStep

\* The end of the handler: the address is at rest again.
LEMMA OwnDelete ==
    ASSUME OwnAddresses, TypeInv, OwnInv, NEW t \in Threads, DeteleState(t)
    PROVE  OwnInv'
<1> USE DEF switch, reports, cache, Goto, At
<1>1. /\ event[t] \in MemoryEvent /\ event[t].addr \in Own(t) /\ event[t].pool = HAL
      /\ KeyOf(event[t]) = KeyAt(event[t].addr)
      /\ Beginning(t, event[t].addr) \/ Ending(t, event[t].addr)
      /\ pc[t] = "delete"
  BY AtStage DEF DeteleState
<1>2. /\ pc \in [Threads -> Places] /\ event \in [Threads -> MemoryEvent \cup {NoEvent}]
      /\ ptr \in [Threads -> Pointer] /\ states \in StatesMap
  BY DEF TypeInv, TypeOK
<1>3. PICK a \in Own(t) : a = event[t].addr
  BY <1>1
<1>4. PICK k \in MemoryStateKey : k = KeyAt(a)
  BY <1>1, <1>3, ManagerAssumption DEF KeyAt, MemoryStateKey, MemoryEvent
<1>5. /\ states' = IF event[t].type = "FREE" THEN Deleted(states, k) ELSE states
      /\ pc'[t] = "idle"
      /\ \A u \in Threads : u # t => pc'[u] = pc[u] /\ event'[u] = event[u] /\ ptr'[u] = ptr[u]
      /\ UNCHANGED <<heap, halPtrs, written, status, crashed>>
  BY <1>1, <1>2, <1>3, <1>4 DEF DeteleState
<1>6. /\ \A j \in MemoryStateKey : j # k => states'[j] = states[j]
      /\ \A j \in LiveKeys(states') : j \in LiveKeys(states)
      /\ states'[k] = IF event[t].type = "FREE" THEN NoState ELSE states[k]
  BY <1>2, <1>5, DeletedMap DEF LiveKeys
<1>7. \A x \in Addrs : x # a => KeyAt(x) \in MemoryStateKey /\ KeyAt(x) # k
  BY <1>4, ManagerAssumption DEF KeyAt, MemoryStateKey
<1>8. OnlyAt(t, a)
  BY <1>3, <1>5, <1>6, <1>7 DEF OnlyAt, InUse
<1>9. Stage(t, a)'
  <2>1. /\ InUse(a)' = InUse(a)
        /\ Live(a)' = (states'[k] # NoState) /\ Live(a) = (states[k] # NoState)
    BY <1>4, <1>5 DEF InUse, Live, KeyAt
  <2>2. CASE event[t].type = "FREE"
    <3>1. ~InUse(a) /\ a \notin halPtrs
      BY <1>1, <1>3, <2>2 DEF Beginning, Ending
    <3>2. AtRest(a)'
      BY <1>5, <1>6, <2>1, <2>2, <3>1 DEF AtRest
    <3> QED BY <1>5, <3>2 DEF Stage, Working
  <2>3. CASE event[t].type # "FREE"
    <3>1. InUse(a) /\ a \in halPtrs /\ HoldsMalloc(a)
      BY <1>1, <1>3, <2>3 DEF Beginning, Ending
    <3>2. HoldsMalloc(a)' = HoldsMalloc(a)
      BY <1>5, <2>3 DEF HoldsMalloc, Live, EventsAt
    <3>3. AtRest(a)'
      BY <1>5, <2>1, <3>1, <3>2 DEF AtRest
    <3> QED BY <1>5, <3>3 DEF Stage, Working
  <2> QED BY <2>2, <2>3
<1>10. OwnHeap' /\ PairsWritten'
  BY <1>5, OwnHeapKept, PairsKept DEF OwnInv
<1>11. \A j \in LiveKeys(states') : j \in LiveKeys(states) \/ j = KeyAt(a)
  BY <1>6
<1>12. status' = status /\ crashed' = crashed
  BY <1>5
<1> QED BY <1>5, <1>8, <1>9, <1>10, <1>11, <1>12, OwnStep

LEMMA OwnInvStep ==
    OwnAddresses /\ ~Switching /\ TypeInv /\ OwnInv /\ [Next]_vars => OwnInv'
<1> SUFFICES ASSUME OwnAddresses, ~Switching, TypeInv, OwnInv, [Next]_vars PROVE OwnInv'
  OBVIOUS
<1>1. \A t \in Threads : pc[t] \in {"idle", "mallocHook", "freeHook", "add", "get", "dispatch", "delete"}
  BY DEF OwnInv, OwnEvents
<1>2. ASSUME NEW t \in Threads,
             \/ RetryAddEvent(t) \/ GetCleanUpState(t) \/ DispatchCleanUp(t) \/ DeleteCleanedUp(t)
             \/ \E new \in Status : BeginSetTraceStatus(t, new)
             \/ \E k \in MemoryStateKey : NextKey(t, k)
             \/ EndSetTraceStatus(t)
      PROVE  FALSE
  BY <1>1, <1>2 DEF RetryAddEvent, GetCleanUpState, DispatchCleanUp, DeleteCleanedUp,
                    BeginSetTraceStatus, NextKey, EndSetTraceStatus, At
<1>3. CASE UNCHANGED vars
  <2>1. \A t \in Threads : \A a \in Own(t) : Stage(t, a)'
    BY <1>3 DEF vars, OwnInv, Stage, Working, Beginning, Ending, AtRest, HoldsMalloc, HoldsBoth,
                Live, EventsAt, InUse
  <2>2. OwnHeap' /\ PairsWritten' /\ OwnEvents' /\ OwnStates' /\ OwnPointers'
    BY <1>3 DEF vars, OwnInv, OwnHeap, PairsWritten, OwnEvents, OwnStates, OwnPointers, LiveKeys,
                KeyOf
  <2>3. \A t \in Threads : Own(t)' = Own(t)
    BY DEF Own
  <2> QED BY <1>3, <2>1, <2>2, <2>3 DEF vars, OwnInv, Tracing
<1> QED
  BY <1>2, <1>3, OwnAlloc, OwnFree, OwnReport, OwnAdd, OwnGet, OwnDispatch, OwnDelete
     DEF Next, Handler

LEMMA InitOwnInv == Init => OwnInv
<1> SUFFICES ASSUME Init PROVE OwnInv
  OBVIOUS
<1> USE DEF Init
<1>1. ASSUME NEW t \in Threads, NEW a \in Own(t) PROVE Stage(t, a)
  <2>1. a \in Addrs
    BY OwnTypes
  <2>2. KeyAt(a) \in MemoryStateKey
    BY <2>1, ManagerAssumption DEF KeyAt, MemoryStateKey
  <2>3. ~InUse(a) /\ a \notin halPtrs /\ ~Live(a)
    BY <2>2 DEF InUse, Live, EmptyMap
  <2> QED BY <2>3 DEF Stage, Working, AtRest
<1>2. OwnHeap /\ OwnEvents /\ OwnPointers /\ PairsWritten
  BY DEF OwnHeap, OwnEvents, OwnPointers, PairsWritten, Paired
<1>3. OwnStates
  BY DEF OwnStates, LiveKeys, EmptyMap
<1> QED BY <1>1, <1>2, <1>3 DEF OwnInv, Tracing

LEMMA OwnAlways == ASSUME OwnAddresses, ~Switching PROVE Spec => [](TypeInv /\ OwnInv)
<1>1. Init => TypeInv /\ OwnInv
  BY InitTypeInv, InitOwnInv
<1>2. TypeInv /\ OwnInv /\ [Next]_vars => TypeInv' /\ OwnInv'
  BY TypeInvStep, OwnInvStep
<1> QED BY <1>1, <1>2, PTL DEF Spec

\* While tracing stays on and no two threads share an address, no subscriber gets a pointer
\* to a state that has been deleted: the window between GetState and DispatchEvent is
\* harmless when only the thread itself deletes the state it points to.
THEOREM OwnPointersLive == ASSUME OwnAddresses, ~Switching PROVE Spec => []NoDangling
<1>1. TypeInv /\ OwnInv => NoDangling
  <2> SUFFICES ASSUME TypeInv, OwnInv, NEW t \in Threads, pc[t] \in {"dispatch", "cleanDispatch"}
               PROVE  ~Dangling(t)
    BY DEF NoDangling
  <2>1. pc[t] = "dispatch"
    BY DEF OwnInv, OwnEvents
  <2> QED BY <2>1, OwnNoDangling
<1>2. Spec => [](TypeInv /\ OwnInv)
  BY OwnAlways
<1> QED BY <1>1, <1>2, PTL

\* While tracing stays on and no two threads share an address, the life of a ptr is what
\* the output says: when no call is under way an address is in use exactly when the last
\* event of it, cached or written, is a MALLOC.
THEOREM OwnLifeOfPtr == ASSUME OwnAddresses, ~Switching PROVE Spec => []LifeOfPtr
<1>1. TypeInv /\ OwnInv => LifeOfPtr
  <2> SUFFICES ASSUME TypeInv, OwnInv, Quiet, NEW a \in Addrs
               PROVE  InUse(a) <=> LastIsMalloc(a)
    BY DEF LifeOfPtr, InUse
  <2>1. IF InUse(a) THEN HoldsMalloc(a) ELSE ~Live(a)
    <3>1. CASE \E t \in Threads : a \in Own(t)
      BY <3>1 DEF OwnInv, Stage, Working, AtRest, Quiet
    <3>2. CASE \A t \in Threads : a \notin Own(t)
      <4>1. ~InUse(a)
        BY <3>2 DEF OwnInv, OwnHeap, InUse, Own
      <4>2. ~Live(a)
        <5>1. KeyAt(a) \in MemoryStateKey /\ KeyAt(a)[2] = a
          BY ManagerAssumption DEF KeyAt, MemoryStateKey
        <5> QED BY <3>2, <5>1 DEF OwnInv, OwnStates, Live, LiveKeys
      <4> QED BY <4>1, <4>2
    <3> QED BY <3>1, <3>2
  <2>2. CASE InUse(a)
    <3>1. HoldsMalloc(a)
      BY <2>1, <2>2
    <3>2. LastIsMalloc(a)
      BY <3>1 DEF HoldsMalloc, LastIsMalloc, Live, EventsAt, KeyAt
    <3> QED BY <2>2, <3>2
  <2>3. CASE ~InUse(a)
    <3>1. states[<<HAL, a>>] = NoState
      BY <2>1, <2>3 DEF Live, KeyAt
    <3>2. ASSUME NEW i \in 1 .. Len(written), written[i].event.addr = a,
                 written[i].event.type = "MALLOC"
          PROVE  \E j \in i + 1 .. Len(written) : written[j].event.addr = a
      <4>1. i < Len(written) /\ written[i + 1].event.addr = a
        BY <3>2 DEF OwnInv, PairsWritten, Paired
      <4>2. i + 1 \in i + 1 .. Len(written)
        <5>1. Len(written) \in Nat
          BY DEF TypeInv, TypeOK
        <5> QED BY <4>1, <5>1
      <4> QED BY <4>1, <4>2
    <3>3. ~LastIsMalloc(a)
      BY <3>1, <3>2 DEF LastIsMalloc
    <3> QED BY <2>3, <3>3
  <2> QED BY <2>2, <2>3
<1>2. Spec => [](TypeInv /\ OwnInv)
  BY OwnAlways
<1> QED BY <1>1, <1>2, PTL

------------------------------------------------------------------------------------
(***************************************************************************)
(* Threads that do not share addresses keep the promise of BlockHistory.   *)
(***************************************************************************)
\* The records that are still to come fit under the bound.
InHook == {t \in Threads : pc[t] \in {"mallocHook", "freeHook"}}

RecordsFit == recordIndex + Cardinality(InHook) <= MaxRecords + Cardinality(Threads)

\* The mapping, for threads that are never refused: an event has happened when it has left
\* "add"; a history is open until its rows are written.
Happened == (1 .. recordIndex) \ {event[t].id : t \in {u \in Threads : pc[u] = "add"}}

Closed(t) == pc[t] = "delete" /\ event[t].type = "FREE"

OpenKeys == {k \in LiveKeys(states) : \A t \in Threads : Closed(t) => k # KeyAt(event[t].addr)}

OpenHistories == {HistoryIn(states, k) : k \in OpenKeys}

LEMMA HooksFinite == Cardinality(Threads) \in Nat /\ IsFiniteSet(InHook) /\ Cardinality(InHook) \in Nat
<1>1. IsFiniteSet(Threads) /\ InHook \subseteq Threads
  BY ThreadsAssumption DEF InHook
<1> QED BY <1>1, FS_Subset, FS_CardinalityType

\* Records that fit leave room for the thread that leaves its hook.
LEMMA RecordsFitStep == TypeInv /\ RecordsFit /\ [Next]_vars => RecordsFit'
<1> SUFFICES ASSUME TypeInv, RecordsFit, [Next]_vars PROVE RecordsFit'
  OBVIOUS
<1> USE DEF switch, reports, cache, Goto, At
<1>1. /\ pc \in [Threads -> Places] /\ recordIndex \in Nat /\ MaxRecords \in Nat
  BY ThreadsAssumption DEF TypeInv, TypeOK
<1>2. /\ Cardinality(Threads) \in Nat /\ Cardinality(InHook) \in Nat /\ IsFiniteSet(InHook)
  BY HooksFinite
<1>3. IsFiniteSet(Threads)
  BY ThreadsAssumption
<1>4. CASE InHook' = InHook /\ recordIndex' = recordIndex
  BY <1>4 DEF RecordsFit
<1>5. ASSUME recordIndex < MaxRecords, recordIndex' = recordIndex PROVE RecordsFit'
  <2>1. InHook' \subseteq Threads
    BY DEF InHook
  <2>2. Cardinality(InHook') <= Cardinality(Threads) /\ Cardinality(InHook') \in Nat
    BY <1>3, <2>1, FS_Subset, FS_CardinalityType
  <2> QED BY <1>1, <1>2, <1>5, <2>2 DEF RecordsFit
<1>6. ASSUME NEW t \in InHook, InHook' = InHook \ {t}, recordIndex' \in {recordIndex, recordIndex + 1}
      PROVE  RecordsFit'
  <2>1. Cardinality(InHook') = Cardinality(InHook) - 1
    BY <1>2, <1>6, FS_RemoveElement
  <2> QED BY <1>1, <1>2, <1>6, <2>1 DEF RecordsFit
<1>7. ASSUME NEW t \in Threads,
             \/ \E b \in BlocksOf[t], d \in Devices : HalMemAlloc(t, b, d)
             \/ \E b \in BlocksOf[t] : HalMemFree(t, b)
      PROVE  RecordsFit'
  BY <1>5, <1>7 DEF HalMemAlloc, HalMemFree
<1>8. ASSUME NEW t \in Threads, ReportHalMalloc(t) \/ ReportHalFree(t) PROVE RecordsFit'
  <2>1. t \in InHook /\ pc'[t] \notin {"mallocHook", "freeHook"}
        /\ recordIndex' \in {recordIndex, recordIndex + 1}
        /\ \A u \in Threads : u # t => pc'[u] = pc[u]
    BY <1>1, <1>8 DEF ReportHalMalloc, ReportHalFree, Reported, NotReported, InHook
  <2>2. InHook' = InHook \ {t}
    BY <2>1 DEF InHook
  <2> QED BY <1>6, <2>1, <2>2
<1>9. ASSUME NEW t \in Threads, recordIndex' = recordIndex, pc[t] \notin {"mallocHook", "freeHook"},
             NEW p, p \notin {"mallocHook", "freeHook"}, pc' = pc \/ pc' = [pc EXCEPT ![t] = p]
      PROVE  RecordsFit'
  <2>1. InHook' = InHook
    BY <1>1, <1>9 DEF InHook
  <2> QED BY <1>4, <1>9, <2>1
<1>10. ASSUME NEW t \in Threads, Handler(t) PROVE RecordsFit'
  <2>1. recordIndex' = recordIndex /\ pc[t] \notin {"mallocHook", "freeHook"}
    BY <1>10 DEF Handler, AddEvent, RetryAddEvent, GetState, DispatchEvent, DeteleState,
                 GetCleanUpState, DispatchCleanUp, DeleteCleanedUp, Dispatch
  <2>2. \/ pc' = pc
        \/ \E p \in {"get", "cleanGet", "dispatch", "delete", "idle", "cleanDispatch", "cleanDelete",
                     "loop", "retry"} : pc' = [pc EXCEPT ![t] = p]
    BY <1>10 DEF Handler, AddEvent, RetryAddEvent, Accept, Refuse, GetState, DispatchEvent,
                 DeteleState, GetCleanUpState, DispatchCleanUp, DeleteCleanedUp, Dispatch
  <2>3. \E p \in Places : p \notin {"mallocHook", "freeHook"} /\ (pc' = pc \/ pc' = [pc EXCEPT ![t] = p])
    BY <2>2 DEF Places
  <2> QED BY <1>9, <2>1, <2>3
<1>11. ASSUME NEW t \in Threads,
              \/ \E new \in Status : BeginSetTraceStatus(t, new)
              \/ \E k \in MemoryStateKey : NextKey(t, k)
              \/ EndSetTraceStatus(t)
       PROVE  RecordsFit'
  <2>1. recordIndex' = recordIndex /\ pc[t] \notin {"mallocHook", "freeHook"}
        /\ \E p \in {"loop", "cleanGet", "idle"} : pc' = [pc EXCEPT ![t] = p]
    BY <1>11 DEF BeginSetTraceStatus, NextKey, EndSetTraceStatus
  <2>2. \E p \in Places : p \notin {"mallocHook", "freeHook"} /\ (pc' = pc \/ pc' = [pc EXCEPT ![t] = p])
    BY <2>1 DEF Places
  <2> QED BY <1>9, <2>1, <2>2
<1>12. CASE UNCHANGED vars
  <2>1. InHook' = InHook /\ recordIndex' = recordIndex
    BY <1>12 DEF vars, InHook
  <2> QED BY <1>4, <2>1
<1> QED BY <1>7, <1>8, <1>10, <1>11, <1>12 DEF Next

\* The mapping is the one of KeepsHistories.
LEMMA OwnMapping ==
    TypeInv /\ OwnInv => /\ (1 .. recordIndex) \ Unhandled = Happened
                         /\ LiveKeys(states) \ Dumped = OpenKeys
                         /\ {HistoryOf(k) : k \in LiveKeys(states) \ Dumped} = OpenHistories
                         /\ [i \in 1 .. Len(written) |-> written[i].event.id] = LogOf(written)
<1> SUFFICES ASSUME TypeInv, OwnInv
             PROVE  /\ (1 .. recordIndex) \ Unhandled = Happened
                    /\ LiveKeys(states) \ Dumped = OpenKeys
                    /\ {HistoryOf(k) : k \in LiveKeys(states) \ Dumped} = OpenHistories
                    /\ [i \in 1 .. Len(written) |-> written[i].event.id] = LogOf(written)
  OBVIOUS
<1>1. \A t \in Threads : pc[t] \in {"idle", "mallocHook", "freeHook", "add", "get", "dispatch", "delete"}
  BY DEF OwnInv, OwnEvents
<1>2. \A t \in Threads : pc[t] = "add" => event[t] # NoEvent
  BY DEF TypeInv, PlaceInv, HoldsEvent
<1>3. (1 .. recordIndex) \ Unhandled = Happened
  BY <1>1, <1>2 DEF Unhandled, Happened
<1>4. \A t \in Threads : pc[t] = "delete" => ptr[t] # NoState /\ ptr[t].key = KeyAt(event[t].addr)
  BY OwnNoDangling
<1>5. LiveKeys(states) \ Dumped = OpenKeys
  BY <1>1, <1>4 DEF Dumped, OpenKeys, Closed
<1> QED BY <1>3, <1>5 DEF OpenHistories, HistoryOf, HistoryIn, LogOf

\* A step of a thread that neither leaves "add" nor changes what is open.
Unseen ==
    Happened' = Happened /\ OpenHistories' = OpenHistories /\ LogOf(written)' = LogOf(written)

LEMMA OwnUnseen ==
    ASSUME NEW t \in Threads, states' = states, recordIndex' = recordIndex, written' = written,
           \A u \in Threads : u # t => pc'[u] = pc[u] /\ event'[u] = event[u],
           pc[t] # "add", pc'[t] # "add", ~Closed(t), ~Closed(t)'
    PROVE  Unseen
<1>1. \A u \in Threads : /\ pc'[u] = "add" <=> pc[u] = "add"
                         /\ pc[u] = "add" => event'[u] = event[u]
                         /\ Closed(u)' = Closed(u)
                         /\ Closed(u) => event'[u] = event[u]
  BY DEF Closed
<1>2. {event'[u].id : u \in {v \in Threads : pc'[v] = "add"}}
        = {event[u].id : u \in {v \in Threads : pc[v] = "add"}}
  BY <1>1
<1>3. Happened' = Happened
  BY <1>2 DEF Happened
<1>4. OpenKeys' = OpenKeys
  BY <1>1 DEF OpenKeys, LiveKeys, KeyAt
<1>5. OpenHistories' = OpenHistories
  BY <1>4 DEF OpenHistories, HistoryIn
<1> QED BY <1>3, <1>5 DEF Unseen, LogOf

\* The record of a hook: its id is taken and has not happened.
LEMMA OwnReportUnseen ==
    ASSUME TypeInv, OwnInv, NEW t \in Threads, ReportHalMalloc(t) \/ ReportHalFree(t)
    PROVE  Unseen
<1> USE DEF switch, reports, cache, Goto, At
<1>1. /\ event[t] \in MemoryEvent
      /\ Beginning(t, event[t].addr) \/ Ending(t, event[t].addr)
      /\ pc[t] \in {"mallocHook", "freeHook"}
  BY AtStage DEF ReportHalMalloc, ReportHalFree
<1>2. /\ pc \in [Threads -> Places] /\ event \in [Threads -> MemoryEvent \cup {NoEvent}]
      /\ recordIndex \in Nat /\ Tracing
  BY DEF TypeInv, TypeOK, OwnInv
<1>3. Reported(t)
  BY <1>1, <1>2 DEF ReportHalMalloc, ReportHalFree, Beginning, Ending
<1>4. /\ pc'[t] = "add" /\ event'[t].id = recordIndex + 1 /\ recordIndex' = recordIndex + 1
      /\ \A u \in Threads : u # t => pc'[u] = pc[u] /\ event'[u] = event[u]
      /\ states' = states /\ written' = written
  BY <1>1, <1>2, <1>3 DEF Reported, ReportHalMalloc, ReportHalFree, MemoryEvent
<1> DEFINE adding == {event[u].id : u \in {v \in Threads : pc[v] = "add"}}
           then   == {event'[u].id : u \in {v \in Threads : pc'[v] = "add"}}
<1>5. then = adding \cup {recordIndex + 1}
  BY <1>1, <1>4
<1>6. 1 .. recordIndex + 1 = (1 .. recordIndex) \cup {recordIndex + 1}
      /\ recordIndex + 1 \notin 1 .. recordIndex
  BY <1>2
<1>7. Happened' = (1 .. recordIndex + 1) \ then
  BY <1>4 DEF Happened
<1>8. Happened = (1 .. recordIndex) \ adding
  BY DEF Happened
<1> HIDE DEF adding, then
<1>9. Happened' = Happened
  BY <1>5, <1>6, <1>7, <1>8
<1>10. \A u \in Threads : Closed(u)' = Closed(u) /\ (Closed(u) => event'[u] = event[u])
  BY <1>1, <1>4 DEF Closed
<1>11. OpenKeys' = OpenKeys
  BY <1>4, <1>10 DEF OpenKeys, LiveKeys, KeyAt
<1>12. OpenHistories' = OpenHistories
  BY <1>4, <1>11 DEF OpenHistories, HistoryIn
<1> QED BY <1>4, <1>9, <1>12 DEF Unseen, LogOf

\* AddEvent: the event happens and starts a history or continues that of its address.
LEMMA OwnAddHappens ==
    ASSUME OwnAddresses, TypeInv, JoinInv, OwnInv, RecordsFit, NEW t \in Threads, AddEvent(t)
    PROVE  \E id \in 1 .. MaxRecords + Cardinality(Threads) :
              /\ id \notin Happened /\ Happened' = Happened \cup {id}
              /\ LogOf(written)' = LogOf(written)
              /\ \/ OpenHistories' = OpenHistories \cup {<<id>>}
                 \/ \E h \in OpenHistories :
                       OpenHistories' = (OpenHistories \ {h}) \cup {Append(h, id)}
<1> USE DEF switch, reports, cache, Goto, At
<1>1. /\ event[t] \in MemoryEvent /\ event[t].addr \in Own(t) /\ event[t].pool = HAL
      /\ pc[t] = "add"
  BY AtStage DEF AddEvent
<1>2. /\ pc \in [Threads -> Places] /\ event \in [Threads -> MemoryEvent \cup {NoEvent}]
      /\ states \in StatesMap /\ recordIndex \in Nat
  BY DEF TypeInv, TypeOK
<1>3. PICK a \in Own(t) : a = event[t].addr
  BY <1>1
<1>4. PICK k \in MemoryStateKey : k = KeyAt(a)
  BY <1>3, OwnTypes, ManagerAssumption DEF KeyAt, MemoryStateKey
<1>5. PICK e \in MemoryEvent : Accepts(t, e, k)
  BY <1>3, <1>4, OwnAccepts
<1>6. PICK id \in Nat : id = e.id
  BY DEF MemoryEvent
<1>7. /\ states' = Added(states, count, e, k) /\ event[t].id = id
      /\ pc'[t] = "get"
      /\ \A u \in Threads : u # t => pc'[u] = pc[u] /\ event'[u] = event[u]
      /\ recordIndex' = recordIndex /\ written' = written
  BY <1>2, <1>5, <1>6 DEF Accepts, AddEvent
<1>8. /\ id \in 1 .. recordIndex
      /\ \A u \in Threads : pc[u] = "add" /\ event[u].id = id => u = t
  BY <1>1, <1>7 DEF JoinInv, Pending, TypeInv, PlaceInv, HoldsEvent
<1>9. id \in 1 .. MaxRecords + Cardinality(Threads)
  <2>1. Cardinality(InHook) \in Nat /\ Cardinality(Threads) \in Nat /\ MaxRecords \in Nat
    BY HooksFinite, ThreadsAssumption
  <2> QED BY <1>2, <1>8, <2>1 DEF RecordsFit
<1>10. id \notin Happened /\ Happened' = Happened \cup {id}
  <2> DEFINE adding == {event[u].id : u \in {v \in Threads : pc[v] = "add"}}
             then   == {event'[u].id : u \in {v \in Threads : pc'[v] = "add"}}
  <2>1. id \in adding
    BY <1>1, <1>7
  <2>2. then = adding \ {id}
    BY <1>1, <1>7, <1>8
  <2>3. Happened' = (1 .. recordIndex) \ then /\ Happened = (1 .. recordIndex) \ adding
    BY <1>7 DEF Happened
  <2> HIDE DEF adding, then
  <2> QED BY <1>8, <2>1, <2>2, <2>3
<1>11. \A u \in Threads : Closed(u) => KeyAt(event[u].addr) # k
  <2> SUFFICES ASSUME NEW u \in Threads, Closed(u), KeyAt(event[u].addr) = k PROVE FALSE
    OBVIOUS
  <2>1. u # t
    BY <1>1 DEF Closed
  <2>2. event[u].addr \in Own(u) /\ event[u].addr = a
    BY <1>4, AtStage DEF Closed, KeyAt
  <2> QED BY <2>1, <2>2 DEF OwnAddresses, Own
<1>12. \A u \in Threads : Closed(u)' = Closed(u) /\ (Closed(u) => event'[u] = event[u])
  BY <1>1, <1>7 DEF Closed
<1>13. LiveKeys(states') = LiveKeys(states) \cup {k}
       /\ \A j \in MemoryStateKey : j # k => states'[j] = states[j]
  <2>1. count \in Nat
    BY DEF TypeInv, TypeOK
  <2> QED BY <1>2, <1>7, <2>1, AddedMap
<1>14. OpenKeys' = OpenKeys \cup {k} /\ (k \in OpenKeys <=> k \in LiveKeys(states))
  <2>1. LiveKeys(states)' = LiveKeys(states')
    BY DEF LiveKeys
  <2> QED BY <1>11, <1>12, <1>13, <2>1 DEF OpenKeys, KeyAt
<1>15. Joined(states, states', id, k)
  <2>1. count \in Nat
    BY DEF TypeInv, TypeOK
  <2>2. OnceInMap(states)
    BY DEF JoinInv
  <2> QED BY <1>2, <1>6, <1>7, <2>1, <2>2, HistoriesWith
<1>16. OpenHistories' = {HistoryIn(states, j) : j \in OpenKeys \ {k}} \cup {HistoryIn(states', k)}
  <2>1. \A j \in OpenKeys \ {k} : HistoryIn(states', j) = HistoryIn(states, j)
    BY <1>13 DEF HistoryIn, OpenKeys, LiveKeys
  <2>2. OpenHistories' = {HistoryIn(states', j) : j \in OpenKeys \cup {k}}
    BY <1>14 DEF OpenHistories, HistoryIn
  <2> QED BY <2>1, <2>2
<1>17. CASE k \in LiveKeys(states)
  <2>1. HistoryIn(states, k) \in OpenHistories
    BY <1>14, <1>17 DEF OpenHistories
  <2>2. HistoryIn(states', k) = Append(HistoryIn(states, k), id)
    BY <1>15, <1>17 DEF Joined
  <2>3. \A j \in OpenKeys : HistoryIn(states, j) = HistoryIn(states, k) <=> j = k
    BY <1>2, <1>17, HistoriesDiffer DEF OpenKeys, JoinInv
  <2>4. {HistoryIn(states, j) : j \in OpenKeys \ {k}} = OpenHistories \ {HistoryIn(states, k)}
    BY <2>3 DEF OpenHistories
  <2> QED BY <1>7, <1>9, <1>10, <1>16, <2>1, <2>2, <2>4 DEF LogOf
<1>18. CASE k \notin LiveKeys(states)
  <2>1. HistoryIn(states', k) = <<id>>
    BY <1>15, <1>18 DEF Joined
  <2>2. {HistoryIn(states, j) : j \in OpenKeys \ {k}} = OpenHistories
    BY <1>14, <1>18 DEF OpenHistories
  <2> QED BY <1>7, <1>9, <1>10, <1>16, <2>1, <2>2 DEF LogOf
<1> QED BY <1>17, <1>18

\* The FREE of an address closes its history: its rows are written, in one piece.
LEMMA OwnDispatchCloses ==
    ASSUME OwnAddresses, TypeInv, JoinInv, OwnInv, NEW t \in Threads, DispatchEvent(t),
           event[t].type = "FREE"
    PROVE  /\ Happened' = Happened
           /\ \E h \in OpenHistories : /\ OpenHistories' = OpenHistories \ {h}
                                       /\ LogOf(written)' = LogOf(written) \o h
<1> USE DEF switch, reports, cache, Goto, At
<1>1. /\ event[t].addr \in Own(t) /\ Ending(t, event[t].addr) /\ pc[t] = "dispatch"
  BY AtStage DEF DispatchEvent, Beginning
<1>2. /\ pc \in [Threads -> Places] /\ states \in StatesMap /\ written \in Seq(Row)
  BY DEF TypeInv, TypeOK
<1>3. PICK a \in Own(t) : a = event[t].addr
  BY <1>1
<1>4. PICK k \in MemoryStateKey : k = KeyAt(a)
  BY <1>3, OwnTypes, ManagerAssumption DEF KeyAt, MemoryStateKey
<1>5. ~Dangling(t) /\ ptr[t] # NoState /\ ptr[t].key = k
  BY <1>1, <1>3, <1>4, OwnNoDangling
<1>6. /\ written' = written \o Rows(states[k])
      /\ pc' = [pc EXCEPT ![t] = "delete"]
      /\ UNCHANGED <<recordIndex, states, event>>
  BY <1>5 DEF DispatchEvent, Dispatch, RowsPointedTo
<1>7. k \in LiveKeys(states)
  BY <1>1, <1>3, <1>4 DEF Ending, HoldsBoth, Live, LiveKeys
<1>8. Happened' = Happened
  <2>1. \A u \in Threads : pc'[u] = "add" <=> pc[u] = "add"
    BY <1>1, <1>2, <1>6
  <2> QED BY <1>6, <2>1 DEF Happened
<1>9. LogOf(written)' = LogOf(written) \o HistoryIn(states, k)
  <2>1. RowsAt(states, k) = Rows(states[k]) /\ RowsAt(states, k) \in Seq(Row)
    BY <1>2, <1>7, RowsOfKey DEF RowsAt, LiveKeys
  <2>2. LogOf(RowsAt(states, k)) = HistoryIn(states, k)
    BY <1>2, <1>7, LogOfRows
  <2>3. LogOf(written \o RowsAt(states, k)) = LogOf(written) \o LogOf(RowsAt(states, k))
    BY <1>2, <2>1, LogOfConcat
  <2>4. LogOf(written)' = LogOf(written')
    BY DEF LogOf
  <2> QED BY <1>6, <2>1, <2>2, <2>3, <2>4
<1>10. \A u \in Threads : Closed(u)' <=> Closed(u) \/ u = t
  BY <1>2, <1>6 DEF Closed
<1>11. OpenKeys' = OpenKeys \ {k}
  BY <1>3, <1>4, <1>6, <1>10 DEF OpenKeys, LiveKeys, KeyAt
<1>12. k \in OpenKeys
  <2>1. ASSUME NEW u \in Threads, Closed(u), KeyAt(event[u].addr) = k PROVE FALSE
    <3>1. u # t
      BY <1>1, <2>1 DEF Closed
    <3>2. event[u].addr \in Own(u) /\ event[u].addr = a
      BY <1>4, <2>1, AtStage DEF Closed, KeyAt
    <3> QED BY <3>1, <3>2 DEF OwnAddresses, Own
  <2> QED BY <1>7, <2>1 DEF OpenKeys
<1>13. OpenHistories' = {HistoryIn(states, j) : j \in OpenKeys \ {k}}
  BY <1>6, <1>11 DEF OpenHistories, HistoryIn
<1>14. \A j \in OpenKeys : HistoryIn(states, j) = HistoryIn(states, k) <=> j = k
  BY <1>2, <1>7, HistoriesDiffer DEF OpenKeys, JoinInv
<1>15. OpenHistories' = OpenHistories \ {HistoryIn(states, k)}
  BY <1>13, <1>14 DEF OpenHistories
<1>16. HistoryIn(states, k) \in OpenHistories
  BY <1>12 DEF OpenHistories
<1> QED BY <1>8, <1>9, <1>15, <1>16

\* Deleting a state after its rows are written changes no history that is open.
LEMMA OwnDeleteUnseen ==
    ASSUME OwnAddresses, TypeInv, OwnInv, NEW t \in Threads, DeteleState(t)
    PROVE  Unseen
<1> USE DEF switch, reports, cache, Goto, At
<1>1. /\ event[t] \in MemoryEvent /\ event[t].addr \in Own(t)
      /\ KeyOf(event[t]) = KeyAt(event[t].addr) /\ pc[t] = "delete"
  BY AtStage DEF DeteleState
<1>2. /\ pc \in [Threads -> Places] /\ event \in [Threads -> MemoryEvent \cup {NoEvent}]
      /\ states \in StatesMap
  BY DEF TypeInv, TypeOK
<1>3. PICK a \in Own(t) : a = event[t].addr
  BY <1>1
<1>4. PICK k \in MemoryStateKey : k = KeyAt(a)
  BY <1>3, OwnTypes, ManagerAssumption DEF KeyAt, MemoryStateKey
<1>5. /\ states' = IF event[t].type = "FREE" THEN Deleted(states, k) ELSE states
      /\ pc'[t] = "idle"
      /\ \A u \in Threads : u # t => pc'[u] = pc[u] /\ event'[u] = event[u]
      /\ UNCHANGED <<recordIndex, written>>
  BY <1>1, <1>2, <1>3, <1>4 DEF DeteleState
<1>6. CASE event[t].type # "FREE"
  BY <1>1, <1>5, <1>6, OwnUnseen DEF Closed
<1>7. CASE event[t].type = "FREE"
  <2>1. /\ LiveKeys(states') = LiveKeys(states) \ {k}
        /\ \A j \in MemoryStateKey : j # k => states'[j] = states[j]
    BY <1>2, <1>5, <1>7, DeletedMap
  <2>2. \A u \in Threads : /\ Closed(u)' <=> Closed(u) /\ u # t
                           /\ u # t => event'[u] = event[u]
                           /\ pc'[u] = "add" <=> pc[u] = "add"
    BY <1>1, <1>5 DEF Closed
  <2>3. Closed(t)
    BY <1>1, <1>7 DEF Closed
  <2>4. LiveKeys(states)' = LiveKeys(states')
    BY DEF LiveKeys
  <2>5. OpenKeys' = OpenKeys
    BY <1>3, <1>4, <2>1, <2>2, <2>3, <2>4 DEF OpenKeys, KeyAt
  <2>6. \A j \in OpenKeys : HistoryIn(states', j) = HistoryIn(states, j)
    BY <1>3, <1>4, <2>1, <2>3 DEF HistoryIn, OpenKeys, LiveKeys
  <2>7. OpenHistories' = OpenHistories
    <3>1. OpenHistories' = {HistoryIn(states', j) : j \in OpenKeys}
      BY <2>5 DEF OpenHistories, HistoryIn
    <3> QED BY <2>6, <3>1 DEF OpenHistories
  <2>8. {event'[u].id : u \in {v \in Threads : pc'[v] = "add"}}
          = {event[u].id : u \in {v \in Threads : pc[v] = "add"}}
    BY <1>1, <2>2
  <2>9. Happened' = Happened
    BY <1>5, <2>8 DEF Happened
  <2> QED BY <1>5, <2>7, <2>9 DEF Unseen, LogOf
<1> QED BY <1>6, <1>7

\* The steps that do not change what is open, and the two that do.
LEMMA OwnStepsOfHistories ==
    ASSUME OwnAddresses, ~Switching, TypeInv, JoinInv, OwnInv, RecordsFit, [Next]_vars
    PROVE  \/ Unseen
           \/ \E id \in 1 .. MaxRecords + Cardinality(Threads) :
                 /\ id \notin Happened /\ Happened' = Happened \cup {id}
                 /\ LogOf(written)' = LogOf(written)
                 /\ \/ OpenHistories' = OpenHistories \cup {<<id>>}
                    \/ \E h \in OpenHistories :
                          OpenHistories' = (OpenHistories \ {h}) \cup {Append(h, id)}
           \/ /\ Happened' = Happened
              /\ \E h \in OpenHistories : /\ OpenHistories' = OpenHistories \ {h}
                                          /\ LogOf(written)' = LogOf(written) \o h
<1> USE DEF switch, reports, cache, Goto, At
<1>1. /\ pc \in [Threads -> Places] /\ event \in [Threads -> MemoryEvent \cup {NoEvent}]
  BY DEF TypeInv, TypeOK
<1>2. \A t \in Threads : pc[t] \in {"idle", "mallocHook", "freeHook", "add", "get", "dispatch", "delete"}
  BY DEF OwnInv, OwnEvents
<1>3. ASSUME NEW t \in Threads,
             \/ RetryAddEvent(t) \/ GetCleanUpState(t) \/ DispatchCleanUp(t) \/ DeleteCleanedUp(t)
             \/ \E new \in Status : BeginSetTraceStatus(t, new)
             \/ \E k \in MemoryStateKey : NextKey(t, k)
             \/ EndSetTraceStatus(t)
      PROVE  FALSE
  BY <1>2, <1>3 DEF RetryAddEvent, GetCleanUpState, DispatchCleanUp, DeleteCleanedUp,
                    BeginSetTraceStatus, NextKey, EndSetTraceStatus
<1>4. ASSUME NEW t \in Threads,
             \/ \E b \in BlocksOf[t], d \in Devices : HalMemAlloc(t, b, d)
             \/ \E b \in BlocksOf[t] : HalMemFree(t, b)
             \/ GetState(t)
             \/ DispatchEvent(t) /\ event[t].type # "FREE"
      PROVE  Unseen
  <2>1. DispatchEvent(t) => ~Dangling(t)
    BY OwnNoDangling DEF DispatchEvent
  <2>2. /\ states' = states /\ recordIndex' = recordIndex /\ written' = written
        /\ \A u \in Threads : u # t => pc'[u] = pc[u] /\ event'[u] = event[u]
        /\ pc[t] \in {"idle", "get", "dispatch"}
        /\ \/ pc'[t] \in {"mallocHook", "freeHook", "dispatch"}
           \/ pc'[t] = "delete" /\ event'[t].type # "FREE"
    BY <1>1, <1>4, <2>1 DEF HalMemAlloc, HalMemFree, GetState, DispatchEvent, Dispatch
  <2> QED BY <2>2, OwnUnseen DEF Closed
<1>5. CASE UNCHANGED vars
  <2>1. Happened' = Happened
    BY <1>5 DEF vars, Happened
  <2>2. OpenHistories' = OpenHistories
    BY <1>5 DEF vars, OpenHistories, OpenKeys, LiveKeys, Closed, HistoryIn, KeyAt
  <2> QED BY <1>5, <2>1, <2>2 DEF vars, Unseen, LogOf
<1>6. CASE \E t \in Threads : ReportHalMalloc(t) \/ ReportHalFree(t) \/ DeteleState(t)
  BY <1>6, OwnReportUnseen, OwnDeleteUnseen
<1>7. CASE \E t \in Threads : AddEvent(t)
  BY <1>7, OwnAddHappens
<1>8. CASE \E t \in Threads : DispatchEvent(t) /\ event[t].type = "FREE"
  BY <1>8, OwnDispatchCloses
<1> QED BY <1>3, <1>4, <1>5, <1>6, <1>7, <1>8 DEF Next, Handler

\* While tracing stays on and no two threads share an address, threads that overlap in
\* EventHandler keep the promise of BlockHistory: every event joins the history of one block,
\* and the output is histories written whole, one after the other.
THEOREM OwnHistories == ASSUME OwnAddresses, ~Switching PROVE Spec => KeepsHistories
<1> DEFINE Inv == TypeInv /\ JoinInv /\ OwnInv /\ RecordsFit
<1>1. Init => Inv
  <2> SUFFICES ASSUME Init PROVE JoinInv /\ RecordsFit
    BY InitTypeInv, InitOwnInv
  <2>1. LiveKeys(states) = {} /\ IdsIn(states) = {}
    BY DEF Init, EmptyMap, LiveKeys, IdsIn, Cached
  <2>2. JoinInv
    BY <2>1 DEF Init, JoinInv, OnceInMap, Pending
  <2>3. InHook = {}
    BY DEF Init, InHook
  <2>4. recordIndex = 0 /\ Cardinality(InHook) = 0
    BY <2>3, FS_EmptySet DEF Init
  <2>5. RecordsFit
    BY <2>4, HooksFinite, ThreadsAssumption DEF RecordsFit
  <2> QED BY <2>2, <2>5
<1>2. Inv /\ [Next]_vars => Inv'
  BY TypeInvStep, JoinInvStep, OwnInvStep, RecordsFitStep
<1>3. Init => History!Init
  <2> SUFFICES ASSUME Init PROVE History!Init
    OBVIOUS
  <2>1. LiveKeys(states) = {} /\ recordIndex = 0 /\ written = << >>
    BY DEF Init, EmptyMap, LiveKeys
  <2> QED BY <2>1 DEF History!Init
<1>4. Inv /\ Inv' /\ [Next]_vars => [History!Next]_(History!vars)
  <2> SUFFICES ASSUME Inv, TypeInv', OwnInv', [Next]_vars PROVE [History!Next]_(History!vars)
    OBVIOUS
  <2> DEFINE happened == (1 .. recordIndex) \ Unhandled
             open     == {HistoryOf(k) : k \in LiveKeys(states) \ Dumped}
             log      == [i \in 1 .. Len(written) |-> written[i].event.id]
  <2>1. happened = Happened /\ open = OpenHistories /\ log = LogOf(written)
    BY OwnMapping
  <2>2. (TypeInv /\ OwnInv => happened = Happened /\ open = OpenHistories /\ log = LogOf(written))'
    BY OwnMapping, PTL
  <2>3. happened' = Happened' /\ open' = OpenHistories' /\ log' = LogOf(written)'
    BY <2>2
  <2> HIDE DEF happened, open, log
  <2>4. CASE Unseen
    BY <2>1, <2>3, <2>4 DEF Unseen, History!vars, happened, open, log
  <2>5. ASSUME NEW id \in 1 .. MaxRecords + Cardinality(Threads),
               id \notin Happened, Happened' = Happened \cup {id},
               LogOf(written)' = LogOf(written),
               \/ OpenHistories' = OpenHistories \cup {<<id>>}
               \/ \E h \in OpenHistories :
                     OpenHistories' = (OpenHistories \ {h}) \cup {Append(h, id)}
        PROVE  History!Next
    <3>1. History!Happens(id)
      BY <2>1, <2>3, <2>5 DEF History!Happens, happened
    <3>2. History!Start(id) \/ \E h \in OpenHistories : History!Continue(id, h)
      BY <2>1, <2>3, <2>5, <3>1 DEF History!Start, History!Continue, open, log
    <3> QED BY <2>1, <3>2 DEF History!Next, open
  <2>6. ASSUME Happened' = Happened, NEW h \in OpenHistories,
               OpenHistories' = OpenHistories \ {h}, LogOf(written)' = LogOf(written) \o h
        PROVE  History!Next
    <3>1. History!Close(h)
      BY <2>1, <2>3, <2>6 DEF History!Close, happened, open, log
    <3> QED BY <2>1, <3>1 DEF History!Next, open
  <2> QED BY <2>4, <2>5, <2>6, OwnStepsOfHistories
<1> QED BY <1>1, <1>2, <1>3, <1>4, PTL DEF Spec, KeepsHistories, History!Spec
====================================================================================
