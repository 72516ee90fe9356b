----------------------------- MODULE EventPipeline_proofs -----------------------------
(***************************************************************************)
(* Theorems about EventPipeline, for every set of addresses, sizes, pools  *)
(* and devices and every bound on the number of records.                   *)
(***************************************************************************)
EXTENDS EventPipeline, MemoryStateManager_proofs

\* HandleMemoryEvent(event), with its local values named: e is the completed event,
\* base the cache without the state it supersedes, k the key of the receiver.
Handles(event, e, base, k) ==
    /\ e = Completed(states, event)
    /\ base = IF Refuses(states, e) THEN Deleted(states, KeyOf(e)) ELSE states
    /\ k \in Receivers(base, e)
    /\ count' = CountAfter(base, count, e, k)
    /\ states' = IF e.type = "FREE" THEN Deleted(Added(base, count, e, k), KeyOf(e))
                                    ELSE Added(base, count, e, k)
    /\ written' = IF e.type = "FREE"
                  THEN (written \o StaleRows(e)) \o RowsAt(Added(base, count, e, k), k)
                  ELSE written \o StaleRows(e)

\* EventHandler takes a memory event to one receiver.
LEMMA Handling ==
    ASSUME TypeOK, NEW event \in MemoryEvent, HandleMemoryEvent(event)
    PROVE  \E e \in MemoryEvent, base \in StatesMap, k \in MemoryStateKey :
              /\ Handles(event, e, base, k)
              /\ Added(base, count, e, k) \in StatesMap
<1> DEFINE e    == Completed(states, event)
           base == WithoutStale(e)
<1>1. e \in MemoryEvent /\ KeyOf(e) \in MemoryStateKey
  BY CompletedEvent DEF TypeOK
<1>2. base \in StatesMap
  BY <1>1, DeletedMap DEF TypeOK, WithoutStale
<1>3. PICK k \in Receivers(base, e) :
         LET added == Added(base, count, e, k)
         IN  /\ count' = CountAfter(base, count, e, k)
             /\ IF e.type = "FREE"
                THEN /\ states' = Deleted(added, KeyOf(e))
                     /\ written' = (written \o StaleRows(e)) \o RowsAt(added, k)
                ELSE /\ states' = added
                     /\ written' = written \o StaleRows(e)
  BY Zenon DEF HandleMemoryEvent, WithoutStale
<1>4. e = Completed(states, event)
  OBVIOUS
<1>5. base = IF Refuses(states, e) THEN Deleted(states, KeyOf(e)) ELSE states
  BY DEF WithoutStale
<1> HIDE DEF e, base
<1>6. k \in MemoryStateKey
  BY <1>1, <1>2, <1>3, ReceiverKey
<1>7. Added(base, count, e, k) \in StatesMap
  BY <1>1, <1>2, <1>6, AddedMap DEF TypeOK
<1>8. Handles(event, e, base, k)
  BY <1>3, <1>4, <1>5 DEF Handles
<1> QED
  BY <1>1, <1>2, <1>6, <1>7, <1>8

\* EventHandler keeps the types of what it writes.
LEMMA HandlingTypes ==
    ASSUME TypeOK, NEW event \in MemoryEvent, HandleMemoryEvent(event)
    PROVE  states' \in StatesMap /\ count' \in Nat /\ written' \in Seq(Row)
<1>1. PICK e \in MemoryEvent, base \in StatesMap, k \in MemoryStateKey :
              /\ Handles(event, e, base, k)
              /\ Added(base, count, e, k) \in StatesMap
  BY Handling
<1>2. KeyOf(e) \in MemoryStateKey
  BY CompletedEvent
<1>3. states' \in StatesMap
  BY <1>1, <1>2, DeletedMap DEF Handles
<1>4. count' \in Nat
  BY <1>1, AddedMap DEF TypeOK, Handles
<1>5. written' \in Seq(Row)
  <2>1. StaleRows(e) \in Seq(Row) /\ RowsAt(Added(base, count, e, k), k) \in Seq(Row)
    BY <1>1, <1>2, RowsOfKey DEF TypeOK, StaleRows
  <2> QED
    BY <1>1, <2>1 DEF TypeOK, Handles
<1> QED
  BY <1>3, <1>4, <1>5

LEMMA NewEventType ==
    ASSUME TypeOK, NEW type \in EventTypes, NEW p \in Pools, NEW a \in Addrs,
           NEW s \in Sizes \cup {0}, NEW d \in Devices \cup {NA}
    PROVE  NewEvent(type, p, a, s, d) \in MemoryEvent
  BY DEF NewEvent, MemoryEvent, TypeOK

LEMMA CleanUpTypes ==
    ASSUME TypeOK, NEW k \in MemoryStateKey, CleanUp(k)
    PROVE  states' \in StatesMap /\ count' \in Nat /\ written' \in Seq(Row)
<1>1. RowsAt(states, k) \in Seq(Row) /\ Deleted(states, k) \in StatesMap
  BY RowsOfKey, DeletedMap DEF TypeOK
<1> QED
  BY <1>1 DEF CleanUp, TypeOK

\* A report is one record, handled; or nothing of the pipeline changes.
LEMMA ReportTypes ==
    ASSUME TypeOK, NEW event \in MemoryEvent, Report(event) \/ NoReport
    PROVE  /\ recordIndex' \in Nat /\ states' \in StatesMap
           /\ count' \in Nat /\ written' \in Seq(Row)
<1>1. CASE Report(event)
  BY <1>1, HandlingTypes DEF Report, TypeOK
<1>2. CASE NoReport
  BY <1>2 DEF NoReport, TypeOK
<1> QED
  BY <1>1, <1>2

LEMMA InitTypeOK == Init => TypeOK
<1> SUFFICES ASSUME Init PROVE TypeOK
  OBVIOUS
<1>1. EmptyMap \in StatesMap
  BY DEF EmptyMap, StatesMap
<1>2. << >> \in Seq(Row)
  OBVIOUS
<1> QED
  BY <1>1, <1>2 DEF Init, InitTraceStatus, TypeOK, Status, Phases

LEMMA NextTypeOK == TypeOK /\ [Next]_vars => TypeOK'
<1> SUFFICES ASSUME TypeOK, [Next]_vars PROVE TypeOK'
  OBVIOUS
<1> USE PipelineAssumption, ManagerAssumption
<1>1. ASSUME NEW b \in BlocksOf[HAL], NEW d \in Devices, NEW onHost \in BOOLEAN,
             HalMemAlloc(b, d, onHost)
      PROVE  TypeOK'
  <2> DEFINE event == NewEvent("MALLOC", HAL, b.addr, b.size, d)
  <2>1. b \in Block /\ b.addr \in Addrs /\ b.size \in Sizes
    BY DEF Block
  <2>2. event \in MemoryEvent
    BY <2>1, NewEventType DEF EventTypes
  <2>3. /\ Report(event) \/ NoReport
        /\ halPtrs' \in SUBSET Addrs
        /\ heap' \in [Pools -> SUBSET Block]
        /\ UNCHANGED <<status, phase, cleaning>>
    BY <1>1, <2>1 DEF HalMemAlloc, TypeOK
  <2> QED
    BY <2>2, <2>3, ReportTypes DEF TypeOK
<1>2. ASSUME NEW b \in BlocksOf[HAL], HalMemFree(b)
      PROVE  TypeOK'
  <2> DEFINE event == NewEvent("FREE", HAL, b.addr, 0, NA)
  <2>1. b \in Block /\ b.addr \in Addrs
    BY DEF Block
  <2>2. event \in MemoryEvent
    BY <2>1, NewEventType DEF EventTypes
  <2>3. /\ Report(event) \/ NoReport
        /\ halPtrs' \in SUBSET Addrs
        /\ heap' \in [Pools -> SUBSET Block]
        /\ UNCHANGED <<status, phase, cleaning>>
    BY <1>2, <2>1 DEF HalMemFree, TypeOK
  <2> QED
    BY <2>2, <2>3, ReportTypes DEF TypeOK
<1>3. ASSUME NEW type \in EventTypes, NEW p \in Pools, NEW r \in Block,
             NEW d \in Devices \cup {NA}, heap' \in [Pools -> SUBSET Block],
             PoolReport(type, p, r.addr, r.size, d)
      PROVE  TypeOK'
  <2> DEFINE event == NewEvent(type, p, r.addr, r.size, d)
  <2>1. event \in MemoryEvent
    BY NewEventType DEF Block
  <2>2. (Report(event) \/ NoReport) /\ UNCHANGED <<status, phase, cleaning, halPtrs>>
    BY <1>3 DEF PoolReport
  <2> QED
    BY <1>3, <2>1, <2>2, ReportTypes DEF TypeOK
<1>4. ASSUME NEW p \in Pools \ {HAL}, NEW b \in BlocksOf[p], NEW d \in Devices,
             PoolMalloc(p, b, d) \/ PoolFree(p, b, d)
      PROVE  TypeOK'
  <2>1. b \in Block /\ heap' \in [Pools -> SUBSET Block]
    BY <1>4 DEF PoolMalloc, PoolFree, TypeOK
  <2> QED
    BY <1>3, <1>4, <2>1 DEF PoolMalloc, PoolFree, EventTypes
<1>5. ASSUME NEW p \in AccessPools, NEW r \in Tensors, NEW d \in Devices \cup {NA},
             MemAccess(p, r, d)
      PROVE  TypeOK'
  <2>1. r \in Block /\ p \in Pools /\ heap' \in [Pools -> SUBSET Block]
    BY <1>5 DEF MemAccess, TypeOK
  <2> QED
    BY <1>3, <1>5, <2>1 DEF MemAccess, EventTypes
<1>6. ASSUME NEW new \in Status, BeginSetTraceStatus(new)
      PROVE  TypeOK'
  BY <1>6 DEF BeginSetTraceStatus, TypeOK, Phases, Loops, Status, LiveKeys
<1>7. CASE BeginExit
  BY <1>7 DEF BeginExit, TypeOK, Phases, Loops, LiveKeys
<1>8. ASSUME NEW k \in MemoryStateKey, CleanUpOne(k)
      PROVE  TypeOK'
  <2>1. states' \in StatesMap /\ count' \in Nat /\ written' \in Seq(Row)
    BY <1>8, CleanUpTypes DEF CleanUpOne
  <2> QED
    BY <1>8, <2>1 DEF CleanUpOne, TypeOK
<1>9. CASE EndSetTraceStatus
  BY <1>9 DEF EndSetTraceStatus, TypeOK, Phases
<1>10. CASE EndExit
  BY <1>10 DEF EndExit, TypeOK, Phases
<1>11. CASE UNCHANGED vars
  BY <1>11 DEF vars, TypeOK
<1> QED
  BY <1>1, <1>2, <1>4, <1>5, <1>6, <1>7, <1>8, <1>9, <1>10, <1>11
     DEF Next, Application, Loop

\* Every variable keeps its type, whatever the application and the filters do.
THEOREM TypeCorrect == Spec => []TypeOK
<1> QED
  BY InitTypeOK, NextTypeOK, PTL DEF Spec

-----------------------------------------------------------------------------
(***************************************************************************)
(* The cache mirrors the application.                                      *)
(***************************************************************************)
\* What a memory event does to the keys of the cache.  A state other than the one of
\* the event's own key keeps its first event and its size; a MALLOC opens its own key
\* anew, a FREE closes it, an ACCESS opens it only when it is not live.
OthersKept(own) ==
    /\ \A j \in LiveKeys(states') : j # own =>
          /\ j \in LiveKeys(states)
          /\ states'[j].size = states[j].size
          /\ states'[j].events[1] = states[j].events[1]
    /\ \A j \in LiveKeys(states) : j # own => j \in LiveKeys(states')

Opened(own, event) ==
    /\ own \in LiveKeys(states')
    /\ states'[own].size \in {0, event.size}
    /\ states'[own].events[1].type = "MALLOC"
    /\ states'[own].events[1].size = event.size

Touched(own, event) ==
    /\ own \in LiveKeys(states) =>
         /\ own \in LiveKeys(states')
         /\ states'[own].size = states[own].size
         /\ states'[own].events[1] = states[own].events[1]
    /\ own \in LiveKeys(states') /\ own \notin LiveKeys(states) =>
         /\ states'[own].size \in {0, event.size}
         /\ states'[own].events[1].type = "ACCESS"

LEMMA HandlingEffect ==
    ASSUME TypeOK, NEW event \in MemoryEvent, HandleMemoryEvent(event)
    PROVE  /\ OthersKept(KeyOf(event))
           /\ event.type = "FREE" => KeyOf(event) \notin LiveKeys(states')
           /\ event.type = "MALLOC" => Opened(KeyOf(event), event)
           /\ event.type = "ACCESS" => Touched(KeyOf(event), event)
<1> DEFINE own == KeyOf(event)
<1>1. PICK e \in MemoryEvent, base \in StatesMap, k \in MemoryStateKey :
              /\ Handles(event, e, base, k)
              /\ Added(base, count, e, k) \in StatesMap
  BY Handling
<1> DEFINE added == Added(base, count, e, k)
<1>2. /\ e = Completed(states, event)
      /\ base = IF Refuses(states, e) THEN Deleted(states, own) ELSE states
      /\ k \in Receivers(base, e)
      /\ states' = IF e.type = "FREE" THEN Deleted(added, own) ELSE added
      /\ own = KeyOf(e) /\ own \in MemoryStateKey
      /\ e.type = event.type /\ e.pool = event.pool
      /\ event.type # "FREE" => e.size = event.size
  BY <1>1, CompletedEvent DEF Handles, TypeOK
<1>3. /\ LiveKeys(added) = LiveKeys(base) \cup {k}
      /\ added[k] = StateWith(base, count, e, k)
      /\ \A j \in MemoryStateKey : j # k => added[j] = base[j]
      /\ added \in StatesMap
  <2>1. count \in Nat
    BY DEF TypeOK
  <2> QED
    BY <2>1, AddedMap
<1>4. /\ \A j \in MemoryStateKey : j # own => base[j] = states[j]
      /\ LiveKeys(base) \subseteq LiveKeys(states)
      /\ \A j \in LiveKeys(states) : j # own => j \in LiveKeys(base)
      /\ event.type = "MALLOC" => base[own] = NoState
      /\ event.type # "MALLOC" => base = states
  BY <1>2, DeletedMap DEF TypeOK, Refuses, LiveKeys
<1>5. k # own => k \in LiveKeys(base)
  BY <1>2, ReceiverKey DEF Enclosing
<1>6. event.type = "MALLOC" => k = own
  BY <1>2 DEF Receivers
<1>7. base[k] # NoState =>
         added[k].size = base[k].size /\ added[k].events[1] = base[k].events[1]
  <2> SUFFICES ASSUME base[k] # NoState
               PROVE  added[k].size = base[k].size /\ added[k].events[1] = base[k].events[1]
    OBVIOUS
  <2>1. Len(base[k].events) \in Nat \ {0}
    BY LiveState DEF LiveKeys
  <2>2. /\ added[k].size = base[k].size
        /\ \A i \in 1 .. Len(base[k].events) : added[k].events[i] = base[k].events[i]
    BY <1>3, StateWithEvent DEF TypeOK
  <2> QED
    BY <2>1, <2>2
<1>8. base[k] = NoState => added[k].events = <<e>> /\ added[k].size \in {0, e.size}
  BY <1>3, StateWithEvent DEF TypeOK
<1> DEFINE after == IF e.type = "FREE" THEN Deleted(added, own) ELSE added
<1>9. /\ \A j \in MemoryStateKey : j # own => after[j] = added[j]
      /\ e.type = "FREE" => after[own] = NoState /\ LiveKeys(after) = LiveKeys(added) \ {own}
      /\ e.type # "FREE" => after = added
      /\ states' = after
  BY <1>2, <1>3, DeletedMap
<1> HIDE DEF own, added, after
<1>10. /\ \A j \in LiveKeys(after) : j # own =>
             /\ j \in LiveKeys(states)
             /\ after[j].size = states[j].size
             /\ after[j].events[1] = states[j].events[1]
       /\ \A j \in LiveKeys(states) : j # own => j \in LiveKeys(after)
  <2>1. ASSUME NEW j \in LiveKeys(after), j # own
        PROVE  /\ j \in LiveKeys(states)
               /\ after[j].size = states[j].size
               /\ after[j].events[1] = states[j].events[1]
    <3>1. j \in MemoryStateKey /\ after[j] = added[j] /\ j \in LiveKeys(added) /\ base[j] = states[j]
      BY <2>1, <1>9, <1>4 DEF LiveKeys
    <3>2. CASE j = k
      BY <2>1, <3>1, <3>2, <1>5, <1>7, <1>4 DEF LiveKeys
    <3>3. CASE j # k
      BY <3>1, <3>3, <1>3, <1>4 DEF LiveKeys
    <3> QED
      BY <3>2, <3>3
  <2>2. ASSUME NEW j \in LiveKeys(states), j # own
        PROVE  j \in LiveKeys(after)
    BY <2>2, <1>3, <1>4, <1>9 DEF LiveKeys
  <2> QED
    BY <2>1, <2>2
<1>11. event.type = "FREE" => own \notin LiveKeys(after)
  BY <1>2, <1>9
<1>12. event.type = "MALLOC" =>
          /\ own \in LiveKeys(after)
          /\ after[own].size \in {0, event.size}
          /\ after[own].events[1].type = "MALLOC"
          /\ after[own].events[1].size = event.size
  BY <1>2, <1>3, <1>4, <1>6, <1>8, <1>9
<1>13. event.type = "ACCESS" =>
          /\ own \in LiveKeys(states) =>
               /\ own \in LiveKeys(after)
               /\ after[own].size = states[own].size
               /\ after[own].events[1] = states[own].events[1]
          /\ own \in LiveKeys(after) /\ own \notin LiveKeys(states) =>
               /\ after[own].size \in {0, event.size}
               /\ after[own].events[1].type = "ACCESS"
  <2> SUFFICES ASSUME event.type = "ACCESS"
               PROVE  /\ own \in LiveKeys(states) =>
                           /\ own \in LiveKeys(added)
                           /\ added[own].size = states[own].size
                           /\ added[own].events[1] = states[own].events[1]
                      /\ own \in LiveKeys(added) /\ own \notin LiveKeys(states) =>
                           /\ added[own].size \in {0, event.size}
                           /\ added[own].events[1].type = "ACCESS"
    BY <1>2, <1>9
  <2>1. base = states
    BY <1>4
  <2>2. CASE k = own
    BY <2>1, <2>2, <1>2, <1>3, <1>7, <1>8 DEF LiveKeys
  <2>3. CASE k # own
    BY <2>1, <2>3, <1>2, <1>3, <1>5 DEF LiveKeys
  <2> QED
    BY <2>2, <2>3
<1> QED
  BY <1>9, <1>10, <1>11, <1>12, <1>13 DEF own, OthersKept, Opened, Touched

\* Blocks that share an address overlap, and what overlaps a part overlaps the whole.
LEMMA BlockFacts ==
    ASSUME NEW b \in Block, NEW c \in Block
    PROVE  /\ b.addr \in Nat /\ b.size \in Nat \ {0}
           /\ b.addr = c.addr => Overlap(b, c)
           /\ c.addr <= b.addr /\ b.addr < c.addr + c.size => Overlap(b, c)
           /\ \A r \in Block : Inside(r, c) /\ Overlap(b, r) => Overlap(b, c)
           /\ Overlap(b, c) = Overlap(c, b)
<1>1. \A x \in Block : x.addr \in Nat /\ x.size \in Nat \ {0}
  BY ManagerAssumption DEF Block
<1> QED
  BY <1>1 DEF Overlap, Inside

\* A report while tracing is an event that changes the keys as HandlingEffect says; a
\* call that is not reported leaves the cache alone.
LEMMA PoolReportEffect ==
    ASSUME TypeOK, ~Filtered,
           NEW type \in EventTypes, NEW p \in Pools, NEW r \in Block,
           NEW d \in Devices \cup {NA}, PoolReport(type, p, r.addr, r.size, d)
    PROVE  LET own == <<p, r.addr>>
           IN  /\ UNCHANGED <<status, phase, cleaning, halPtrs>>
               /\ ~Tracing => states' = states
               /\ Tracing =>
                    /\ OthersKept(own)
                    /\ type = "FREE" => own \notin LiveKeys(states')
                    /\ type = "MALLOC" => Opened(own, r)
                    /\ type = "ACCESS" => Touched(own, r)
<1> DEFINE event == NewEvent(type, p, r.addr, r.size, d)
<1>1. event \in MemoryEvent
  BY NewEventType DEF Block
<1>2. /\ KeyOf(event) = <<p, r.addr>>
      /\ event.type = type
      /\ event.size = r.size
  BY DEF NewEvent, KeyOf
<1>3. CASE Tracing
  <2>1. HandleMemoryEvent(event) /\ UNCHANGED <<status, phase, cleaning, halPtrs>>
    BY <1>3 DEF PoolReport, SkipAnswers, Report
  <2> HIDE DEF event
  <2> QED
    BY <1>1, <1>2, <1>3, <2>1, HandlingEffect DEF Opened, Touched
<1>4. CASE ~Tracing
  BY <1>4 DEF PoolReport, SkipAnswers, NoReport
<1> QED
  BY <1>3, <1>4

\* The driver's calls: a reported malloc opens the key of its block, a reported free
\* closes it, and a call that is not reported leaves the cache alone.
LEMMA HalMallocEffect ==
    ASSUME TypeOK, NEW b \in BlocksOf[HAL], NEW d \in Devices, NEW onHost \in BOOLEAN,
           HalMemAlloc(b, d, onHost)
    PROVE  \/ /\ Tracing
              /\ halPtrs' = halPtrs \cup {b.addr}
              /\ OthersKept(<<HAL, b.addr>>)
              /\ Opened(<<HAL, b.addr>>, b)
           \/ UNCHANGED <<halPtrs, states>>
<1> DEFINE event == NewEvent("MALLOC", HAL, b.addr, b.size, d)
<1>1. b \in Block
  BY PipelineAssumption, ManagerAssumption
<1>2. event \in MemoryEvent
  BY <1>1, NewEventType, ManagerAssumption DEF Block, EventTypes
<1>3. /\ KeyOf(event) = <<HAL, b.addr>>
      /\ event.type = "MALLOC"
      /\ event.size = b.size
  BY DEF NewEvent, KeyOf
<1>4. \/ Tracing /\ halPtrs' = halPtrs \cup {b.addr} /\ HandleMemoryEvent(event)
      \/ UNCHANGED <<halPtrs, states>>
  BY DEF HalMemAlloc, Report, NoReport
<1> HIDE DEF event
<1> QED
  BY <1>2, <1>3, <1>4, HandlingEffect DEF Opened

LEMMA HalFreeEffect ==
    ASSUME TypeOK, NEW b \in BlocksOf[HAL], HalMemFree(b)
    PROVE  \/ /\ Tracing
              /\ halPtrs' = halPtrs \ {b.addr}
              /\ OthersKept(<<HAL, b.addr>>)
              /\ <<HAL, b.addr>> \notin LiveKeys(states')
           \/ /\ ~Filtered => ~Tracing \/ b.addr \notin halPtrs
              /\ UNCHANGED <<halPtrs, states>>
<1> DEFINE event == NewEvent("FREE", HAL, b.addr, 0, NA)
<1>1. b \in Block
  BY PipelineAssumption, ManagerAssumption
<1>2. event \in MemoryEvent
  BY <1>1, NewEventType, ManagerAssumption DEF Block, EventTypes
<1>3. KeyOf(event) = <<HAL, b.addr>> /\ event.type = "FREE"
  BY DEF NewEvent, KeyOf
<1>4. \/ Tracing /\ halPtrs' = halPtrs \ {b.addr} /\ HandleMemoryEvent(event)
      \/ /\ ~Filtered => ~Tracing \/ b.addr \notin halPtrs
         /\ UNCHANGED <<halPtrs, states>>
  BY DEF HalMemFree, Report, NoReport, SkipAnswers
<1> HIDE DEF event
<1> QED
  BY <1>2, <1>3, <1>4, HandlingEffect

\* The application never hands out a block over another one.
LEMMA HeapDisjointStep == TypeOK /\ HeapDisjoint /\ [Next]_vars => HeapDisjoint'
<1> SUFFICES ASSUME TypeOK, HeapDisjoint, [Next]_vars PROVE HeapDisjoint'
  OBVIOUS
<1> USE PipelineAssumption, ManagerAssumption
<1>1. ASSUME NEW p \in Pools, NEW b \in BlocksOf[p],
             IsFreeSpace(p, b), heap' = [heap EXCEPT ![p] = @ \cup {b}]
      PROVE  HeapDisjoint'
  <2> SUFFICES ASSUME NEW q \in Pools, NEW x \in heap'[q], NEW y \in heap'[q], x # y
               PROVE  ~Overlap(x, y)
    BY DEF HeapDisjoint
  <2>0. x \in heap'[q] /\ y \in heap'[q] /\ x # y
    OBVIOUS
  <2>1. b \in Block /\ heap[q] \subseteq Block
    BY DEF TypeOK
  <2>2. \/ x \in heap[q] /\ y \in heap[q]
        \/ q = p /\ ((x = b /\ y \in heap[q]) \/ (x \in heap[q] /\ y = b))
    <3>1. heap'[p] = heap[p] \cup {b} /\ (q # p => heap'[q] = heap[q])
      BY <1>1 DEF TypeOK
    <3>2. CASE q = p
      BY <2>0, <3>1, <3>2
    <3>3. CASE q # p
      BY <2>0, <3>1, <3>3
    <3> QED
      BY <3>2, <3>3
  <2>3. CASE x \in heap[q] /\ y \in heap[q]
    BY <2>3 DEF HeapDisjoint
  <2>4. CASE q = p /\ ((x = b /\ y \in heap[q]) \/ (x \in heap[q] /\ y = b))
    BY <1>1, <2>1, <2>4, BlockFacts DEF IsFreeSpace
  <2> QED
    BY <2>2, <2>3, <2>4
<1>2. ASSUME NEW p \in Pools, NEW b, heap' = [heap EXCEPT ![p] = @ \ {b}]
      PROVE  HeapDisjoint'
  BY <1>2 DEF HeapDisjoint, TypeOK
<1>3. ASSUME heap' = heap PROVE HeapDisjoint'
  BY <1>3 DEF HeapDisjoint
<1> QED
  BY <1>1, <1>2, <1>3 DEF Next, Application, Loop, HalMemAlloc, HalMemFree, PoolMalloc,
     PoolFree, MemAccess, BeginSetTraceStatus, BeginExit, CleanUpOne, EndSetTraceStatus,
     EndExit, vars

\* A loop starts from every key, and loses one only when its state is gone.
LEMMA LoopCoversStep == TypeOK /\ LoopCovers /\ [Next]_vars => LoopCovers'
<1> SUFFICES ASSUME TypeOK, LoopCovers, [Next]_vars PROVE LoopCovers'
  OBVIOUS
<1> USE DEF LoopCovers, Loops, Status
<1>1. ASSUME phase = "running", phase' = "running" PROVE LoopCovers'
  BY <1>1
<1>2. ASSUME NEW new \in Status, BeginSetTraceStatus(new) PROVE LoopCovers'
  BY <1>2 DEF BeginSetTraceStatus, LiveKeys
<1>3. CASE BeginExit
  BY <1>3 DEF BeginExit, LiveKeys
<1>4. ASSUME NEW k \in MemoryStateKey, CleanUpOne(k) PROVE LoopCovers'
  BY <1>4, DeletedMap DEF CleanUpOne, CleanUp, TypeOK
<1>5. CASE EndSetTraceStatus
  BY <1>5 DEF EndSetTraceStatus
<1>6. CASE EndExit
  BY <1>6 DEF EndExit, LiveKeys
<1>7. CASE UNCHANGED vars
  BY <1>7 DEF vars, LiveKeys
<1> QED
  BY <1>1, <1>2, <1>3, <1>4, <1>5, <1>6, <1>7 DEF Next, Application, Loop, HalMemAlloc,
     HalMemFree, PoolMalloc, PoolFree, MemAccess, PoolReport, CanAct

\* An application's call in a pool other than HAL, by what it does to heap and cache.
PoolCall(p, r, d) ==
    /\ phase = "running"
    /\ \/ /\ r \in BlocksOf[p]
          /\ IsFreeSpace(p, r)
          /\ heap' = [heap EXCEPT ![p] = @ \cup {r}]
          /\ PoolReport("MALLOC", p, r.addr, r.size, d)
       \/ /\ r \in heap[p]
          /\ heap' = [heap EXCEPT ![p] = @ \ {r}]
          /\ PoolReport("FREE", p, r.addr, r.size, d)
       \/ /\ IsFreeSpace(p, r) \/ \E b \in heap[p] : Inside(r, b)
          /\ heap' = heap
          /\ PoolReport("ACCESS", p, r.addr, r.size, d)

\* The steps, by what an invariant of the cache has to survive.
LEMMA Steps ==
    ASSUME [Next]_vars
    PROVE  \/ \E b \in BlocksOf[HAL], d \in Devices, onHost \in BOOLEAN : HalMemAlloc(b, d, onHost)
           \/ \E b \in BlocksOf[HAL] : HalMemFree(b)
           \/ \E p \in Pools \ {HAL}, r \in Block, d \in Devices \cup {NA} : PoolCall(p, r, d)
           \/ \E new \in Status : BeginSetTraceStatus(new)
           \/ BeginExit
           \/ \E k \in MemoryStateKey : CleanUpOne(k)
           \/ EndSetTraceStatus
           \/ EndExit
           \/ UNCHANGED vars
<1>1. ASSUME NEW p \in Pools \ {HAL}, NEW b \in BlocksOf[p], NEW d \in Devices,
             PoolMalloc(p, b, d) \/ PoolFree(p, b, d)
      PROVE  b \in Block /\ d \in Devices \cup {NA} /\ PoolCall(p, b, d)
  BY <1>1, PipelineAssumption DEF PoolMalloc, PoolFree, PoolCall, CanAct
<1>2. ASSUME NEW p \in AccessPools, NEW r \in Tensors, NEW d \in Devices \cup {NA},
             MemAccess(p, r, d)
      PROVE  p \in Pools \ {HAL} /\ r \in Block /\ PoolCall(p, r, d)
  BY <1>2, PipelineAssumption DEF MemAccess, PoolCall, CanAct
<1> QED
  BY <1>1, <1>2 DEF Next, Application, Loop

\* A step that only cleans up, or does not touch the cache.
Shrinks ==
    /\ LiveKeys(states') \subseteq LiveKeys(states)
    /\ \A k \in LiveKeys(states') : states'[k] = states[k]

\* The steps that are not calls of the application leave heap and halPtrs alone and
\* only ever take states out of the cache.
LEMMA OtherSteps ==
    ASSUME TypeOK,
           \/ \E new \in Status : BeginSetTraceStatus(new)
           \/ BeginExit
           \/ \E k \in MemoryStateKey : CleanUpOne(k)
           \/ EndSetTraceStatus
           \/ EndExit
           \/ UNCHANGED vars
    PROVE  heap' = heap /\ halPtrs' = halPtrs /\ Shrinks
<1>1. ASSUME NEW k \in MemoryStateKey, CleanUpOne(k)
      PROVE  heap' = heap /\ halPtrs' = halPtrs /\ Shrinks
  <2>1. LiveKeys(states') = LiveKeys(states) \ {k}
    BY <1>1, DeletedMap DEF CleanUpOne, CleanUp, TypeOK
  <2>2. \A j \in MemoryStateKey : j # k => states'[j] = states[j]
    BY <1>1, DeletedMap DEF CleanUpOne, CleanUp, TypeOK
  <2> QED
    BY <1>1, <2>1, <2>2 DEF CleanUpOne, Shrinks, LiveKeys
<1>2. ASSUME UNCHANGED <<heap, halPtrs, states>>
      PROVE  heap' = heap /\ halPtrs' = halPtrs /\ Shrinks
  BY <1>2 DEF Shrinks
<1> QED
  BY <1>1, <1>2 DEF BeginSetTraceStatus, BeginExit, EndSetTraceStatus, EndExit, vars

\* A HAL state is opened with its address put into halPtrs and closed with it taken out.
LEMMA HalStatesStep == TypeOK /\ HalStates /\ [Next]_vars => HalStates'
<1> SUFFICES ASSUME TypeOK, HalStates, [Next]_vars PROVE HalStates'
  OBVIOUS
<1>1. ASSUME NEW b \in BlocksOf[HAL], NEW d \in Devices, NEW onHost \in BOOLEAN,
             HalMemAlloc(b, d, onHost)
      PROVE  HalStates'
  <2>1. CASE /\ halPtrs' = halPtrs \cup {b.addr}
             /\ OthersKept(<<HAL, b.addr>>)
             /\ Opened(<<HAL, b.addr>>, b)
    <3> SUFFICES ASSUME NEW k \in LiveKeys(states'), k[1] = HAL
                 PROVE  k[2] \in halPtrs' /\ states'[k].events[1].type = "MALLOC"
      BY DEF HalStates
    <3>1. CASE k = <<HAL, b.addr>>
      BY <2>1, <3>1 DEF Opened
    <3>2. CASE k # <<HAL, b.addr>>
      BY <2>1, <3>2 DEF HalStates, OthersKept
    <3> QED
      BY <3>1, <3>2
  <2>2. CASE UNCHANGED <<halPtrs, states>>
    BY <2>2 DEF HalStates
  <2> QED
    BY <1>1, <2>1, <2>2, HalMallocEffect
<1>2. ASSUME NEW b \in BlocksOf[HAL], HalMemFree(b)
      PROVE  HalStates'
  <2>1. CASE /\ halPtrs' = halPtrs \ {b.addr}
             /\ OthersKept(<<HAL, b.addr>>)
             /\ <<HAL, b.addr>> \notin LiveKeys(states')
    <3> SUFFICES ASSUME NEW k \in LiveKeys(states'), k[1] = HAL
                 PROVE  k[2] \in halPtrs' /\ states'[k].events[1].type = "MALLOC"
      BY DEF HalStates
    <3>1. k = <<k[1], k[2]>>
      BY DEF LiveKeys, MemoryStateKey
    <3>2. k # <<HAL, b.addr>> /\ k[2] # b.addr
      BY <2>1, <3>1
    <3> QED
      BY <2>1, <3>2 DEF HalStates, OthersKept
  <2>2. CASE UNCHANGED <<halPtrs, states>>
    BY <2>2 DEF HalStates
  <2> QED
    BY <1>2, <2>1, <2>2, HalFreeEffect
<1>3. ASSUME NEW p \in Pools \ {HAL}, NEW r \in Block, NEW d \in Devices \cup {NA},
             PoolCall(p, r, d)
      PROVE  HalStates'
  <2>1. PICK type \in EventTypes : PoolReport(type, p, r.addr, r.size, d)
    BY <1>3 DEF PoolCall, EventTypes
  <2>2. \/ OthersKept(<<p, r.addr>>) /\ halPtrs' = halPtrs
        \/ UNCHANGED <<halPtrs, states>>
    <3> DEFINE event == NewEvent(type, p, r.addr, r.size, d)
    <3>1. event \in MemoryEvent /\ KeyOf(event) = <<p, r.addr>>
      BY NewEventType DEF Block, NewEvent, KeyOf
    <3>2. halPtrs' = halPtrs /\ (HandleMemoryEvent(event) \/ states' = states)
      BY <2>1 DEF PoolReport, Report, NoReport
    <3> HIDE DEF event
    <3> QED
      BY <3>1, <3>2, HandlingEffect
  <2>3. \A k \in LiveKeys(states') : k[1] = HAL => k # <<p, r.addr>>
    OBVIOUS
  <2> QED
    BY <2>2, <2>3 DEF HalStates, OthersKept
<1>4. ASSUME heap' = heap, halPtrs' = halPtrs, Shrinks
      PROVE  HalStates'
  BY <1>4 DEF HalStates, Shrinks
<1> QED
  BY <1>1, <1>2, <1>3, <1>4, Steps, OtherSteps

\* Tracing stops only after the loop over the keys has run.
LEMMA EmptyWhileStoppedStep ==
    TypeOK /\ LoopCovers /\ EmptyWhileStopped /\ [Next]_vars => EmptyWhileStopped'
<1> SUFFICES ASSUME TypeOK, LoopCovers, EmptyWhileStopped, [Next]_vars,
                    ~Filtered, phase' = "running", ~Tracing'
             PROVE  LiveKeys(states') = {}
  BY DEF EmptyWhileStopped
<1>1. ASSUME NEW b \in BlocksOf[HAL], NEW d \in Devices, NEW onHost \in BOOLEAN,
             HalMemAlloc(b, d, onHost)
      PROVE  LiveKeys(states') = {}
  <2>1. states' = states
    BY <1>1 DEF HalMemAlloc, NoReport, Tracing
  <2> QED
    BY <1>1, <2>1 DEF HalMemAlloc, EmptyWhileStopped, Tracing, CanAct
<1>2. ASSUME NEW b \in BlocksOf[HAL], HalMemFree(b)
      PROVE  LiveKeys(states') = {}
  <2>1. states' = states
    BY <1>2 DEF HalMemFree, NoReport, Tracing
  <2> QED
    BY <1>2, <2>1 DEF HalMemFree, EmptyWhileStopped, Tracing, CanAct
<1>3. ASSUME NEW p \in Pools \ {HAL}, NEW r \in Block, NEW d \in Devices \cup {NA},
             PoolCall(p, r, d)
      PROVE  LiveKeys(states') = {}
  <2>1. phase = "running" /\ status' = status /\ (~Tracing => states' = states)
    BY <1>3 DEF PoolCall, PoolReport, NoReport
  <2> QED
    BY <2>1 DEF EmptyWhileStopped, Tracing
<1>4. ASSUME NEW new \in Status, BeginSetTraceStatus(new)
      PROVE  LiveKeys(states') = {}
  BY <1>4 DEF BeginSetTraceStatus, SkipAnswers, Status
<1>5. CASE BeginExit
  BY <1>5 DEF BeginExit
<1>6. ASSUME NEW k \in MemoryStateKey, CleanUpOne(k)
      PROVE  LiveKeys(states') = {}
  BY <1>6 DEF CleanUpOne, Loops
<1>7. CASE EndSetTraceStatus
  BY <1>7 DEF EndSetTraceStatus, LoopCovers, Loops, Status
<1>8. CASE EndExit
  BY <1>8 DEF EndExit
<1>9. CASE UNCHANGED vars
  BY <1>9 DEF vars, EmptyWhileStopped, Tracing
<1> QED
  BY <1>1, <1>2, <1>3, <1>4, <1>5, <1>6, <1>7, <1>8, <1>9, Steps

\* A block keeps its place in the heap until its free, which closes the state.
BlockAt(k) == [addr |-> k[2], size |-> states[k].events[1].size]

LEMMA MirrorsHeapStep ==
    /\ TypeOK /\ HalStates /\ EmptyWhileStopped /\ MirrorsHeap
    /\ [Next]_vars
    => MirrorsHeap'
<1> SUFFICES ASSUME TypeOK, HalStates, EmptyWhileStopped, MirrorsHeap, [Next]_vars,
                    ~Filtered,
                    NEW k \in LiveKeys(states'), states'[k].events[1].type = "MALLOC"
             PROVE  [addr |-> k[2], size |-> states'[k].events[1].size] \in heap'[k[1]]
  BY DEF MirrorsHeap
<1>0. k[1] \in Pools /\ k = <<k[1], k[2]>>
  BY DEF LiveKeys, MemoryStateKey
<1>1. ASSUME NEW p \in Pools, NEW b \in Block, heap' = [heap EXCEPT ![p] = @ \cup {b}],
             states' = states \/ (OthersKept(<<p, b.addr>>) /\ Opened(<<p, b.addr>>, b))
      PROVE  [addr |-> k[2], size |-> states'[k].events[1].size] \in heap'[k[1]]
  <2>1. heap'[p] = heap[p] \cup {b} /\ heap[k[1]] \subseteq heap'[k[1]]
    BY <1>0, <1>1 DEF TypeOK
  <2>2. CASE k = <<p, b.addr>> /\ Opened(<<p, b.addr>>, b)
    <3>1. [addr |-> k[2], size |-> states'[k].events[1].size] = b
      BY <2>2 DEF Opened, Block
    <3> QED
      BY <2>1, <2>2, <3>1
  <2>3. CASE states'[k].events[1] = states[k].events[1] /\ k \in LiveKeys(states)
    BY <2>1, <2>3 DEF MirrorsHeap
  <2> QED
    BY <1>1, <2>2, <2>3 DEF OthersKept
<1>2. ASSUME NEW p \in Pools, NEW b \in Block, heap' = [heap EXCEPT ![p] = @ \ {b}],
             OthersKept(<<p, b.addr>>), <<p, b.addr>> \notin LiveKeys(states')
      PROVE  [addr |-> k[2], size |-> states'[k].events[1].size] \in heap'[k[1]]
  <2>1. /\ k # <<p, b.addr>>
        /\ k \in LiveKeys(states)
        /\ states'[k].events[1] = states[k].events[1]
    BY <1>2 DEF OthersKept
  <2> DEFINE block == [addr |-> k[2], size |-> states'[k].events[1].size]
  <2>2. block \in heap[k[1]]
    BY <2>1 DEF MirrorsHeap
  <2>3. k[1] = p => block # b
    BY <2>1, <1>0
  <2> HIDE DEF block
  <2>4. block \in heap'[k[1]]
    BY <1>0, <1>2, <2>2, <2>3 DEF TypeOK
  <2> QED
    BY <2>4 DEF block
<1>3. ASSUME heap' = heap, Shrinks
      PROVE  [addr |-> k[2], size |-> states'[k].events[1].size] \in heap'[k[1]]
  BY <1>3 DEF Shrinks, MirrorsHeap
<1>4. ASSUME NEW b \in BlocksOf[HAL], NEW d \in Devices, NEW onHost \in BOOLEAN,
             HalMemAlloc(b, d, onHost)
      PROVE  [addr |-> k[2], size |-> states'[k].events[1].size] \in heap'[k[1]]
  BY <1>1, <1>4, HalMallocEffect, PipelineAssumption, ManagerAssumption DEF HalMemAlloc
<1>5. ASSUME NEW b \in BlocksOf[HAL], HalMemFree(b)
      PROVE  [addr |-> k[2], size |-> states'[k].events[1].size] \in heap'[k[1]]
  <2>1. b \in Block /\ HAL \in Pools /\ heap' = [heap EXCEPT ![HAL] = @ \ {b}]
    BY <1>5, PipelineAssumption, ManagerAssumption DEF HalMemFree
  <2>2. CASE OthersKept(<<HAL, b.addr>>) /\ <<HAL, b.addr>> \notin LiveKeys(states')
    BY <1>2, <2>1, <2>2
  <2>3. CASE (~Tracing \/ b.addr \notin halPtrs) /\ states' = states
    <3>1. <<HAL, b.addr>> \notin LiveKeys(states')
      BY <1>5, <2>3 DEF HalMemFree, CanAct, EmptyWhileStopped, HalStates
    <3> QED
      BY <1>2, <2>1, <2>3, <3>1 DEF OthersKept
  <2> QED
    BY <1>5, <2>2, <2>3, HalFreeEffect
<1>6. ASSUME NEW p \in Pools \ {HAL}, NEW r \in Block, NEW d \in Devices \cup {NA},
             PoolCall(p, r, d)
      PROVE  [addr |-> k[2], size |-> states'[k].events[1].size] \in heap'[k[1]]
  <2>1. CASE /\ heap' = [heap EXCEPT ![p] = @ \cup {r}]
             /\ PoolReport("MALLOC", p, r.addr, r.size, d)
    BY <1>1, <2>1, PoolReportEffect DEF EventTypes
  <2>2. CASE /\ heap' = [heap EXCEPT ![p] = @ \ {r}]
             /\ PoolReport("FREE", p, r.addr, r.size, d)
    <3>1. OthersKept(<<p, r.addr>>) /\ <<p, r.addr>> \notin LiveKeys(states')
      <4>1. CASE Tracing
        BY <2>2, <4>1, PoolReportEffect DEF EventTypes
      <4>2. CASE ~Tracing
        BY <1>6, <2>2, <4>2, PoolReportEffect DEF EventTypes, PoolCall,
           EmptyWhileStopped, OthersKept
      <4> QED
        BY <4>1, <4>2
    <3> QED
      BY <1>2, <2>2, <3>1
  <2>3. CASE heap' = heap /\ PoolReport("ACCESS", p, r.addr, r.size, d)
    <3>1. k \in LiveKeys(states) /\ states'[k].events[1] = states[k].events[1]
      <4>1. states' = states \/ (OthersKept(<<p, r.addr>>) /\ Touched(<<p, r.addr>>, r))
        BY <2>3, PoolReportEffect DEF EventTypes
      <4>2. states'[k].events[1].type # "ACCESS"
        OBVIOUS
      <4> QED
        BY <4>1, <4>2 DEF OthersKept, Touched
    <3> QED
      BY <2>3, <3>1 DEF MirrorsHeap
  <2> QED
    BY <1>6, <2>1, <2>2, <2>3 DEF PoolCall
<1> QED
  BY <1>3, <1>4, <1>5, <1>6, Steps, OtherSteps

\* What TLC and the prover are given: the invariants that hold each other up.
HeapInv == TypeOK /\ LoopCovers /\ HalStates /\ EmptyWhileStopped /\ MirrorsHeap

LEMMA HeapInvInductive == (Init => HeapInv) /\ (HeapInv /\ [Next]_vars => HeapInv')
<1>1. Init => HeapInv
  <2> SUFFICES ASSUME Init PROVE HeapInv
    OBVIOUS
  <2>1. LiveKeys(states) = {}
    BY DEF Init, EmptyMap, LiveKeys
  <2> QED
    BY <2>1, InitTypeOK DEF Init, HeapInv, LoopCovers, Loops, HalStates,
       EmptyWhileStopped, MirrorsHeap
<1>2. HeapInv /\ [Next]_vars => HeapInv'
  BY NextTypeOK, LoopCoversStep, HalStatesStep, EmptyWhileStoppedStep, MirrorsHeapStep
     DEF HeapInv
<1> QED
  BY <1>1, <1>2

\* Nothing of one tracing session is carried into the next.
THEOREM NothingCarriedOver == Spec => []EmptyWhileStopped
<1>1. HeapInv => EmptyWhileStopped
  BY DEF HeapInv
<1> QED
  BY <1>1, HeapInvInductive, PTL DEF Spec

\* Without filters the cache tells the truth about the application: a cached block
\* that begins with a MALLOC is in use.
THEOREM CacheMirrorsHeap == Spec => []MirrorsHeap
<1>1. HeapInv => MirrorsHeap
  BY DEF HeapInv
<1> QED
  BY <1>1, HeapInvInductive, PTL DEF Spec

-----------------------------------------------------------------------------
(***************************************************************************)
(* A FREE ends the life of its own block.                                  *)
(***************************************************************************)
\* A block in use whose MALLOC was not seen lies in no cached block of its pool.
LEMMA NoStrayFreeStep ==
    /\ TypeOK /\ HeapDisjoint /\ LoopCovers /\ EmptyWhileStopped /\ NoStrayFree
    /\ [Next]_vars
    => NoStrayFree'
<1> SUFFICES ASSUME TypeOK, HeapDisjoint, LoopCovers, EmptyWhileStopped, NoStrayFree,
                    [Next]_vars, ~Filtered, phase' = "running",
                    NEW q \in Pools \ {HAL}, NEW x \in heap'[q],
                    <<q, x.addr>> \notin LiveKeys(states'),
                    NEW k \in LiveKeys(states'), k[1] = q,
                    k[2] <= x.addr, x.addr < k[2] + states'[k].size
             PROVE  FALSE
  BY DEF NoStrayFree, Covers
<1>0. k = <<q, k[2]>> /\ heap[q] \subseteq Block
  BY DEF LiveKeys, MemoryStateKey, TypeOK
<1>1. \* a block that was there before, in a state that was there before
      ASSUME phase = "running", x \in heap[q], <<q, x.addr>> \notin LiveKeys(states),
             k \in LiveKeys(states), states'[k].size = states[k].size
      PROVE  FALSE
  BY <1>1 DEF NoStrayFree, Covers
<1>2. ASSUME NEW b \in BlocksOf[HAL], NEW d \in Devices, NEW onHost \in BOOLEAN,
             HalMemAlloc(b, d, onHost)
      PROVE  FALSE
  <2>1. phase = "running" /\ heap'[q] = heap[q]
    BY <1>2 DEF HalMemAlloc, CanAct, TypeOK
  <2>2. OthersKept(<<HAL, b.addr>>) \/ states' = states
    BY <1>2, HalMallocEffect
  <2> QED
    BY <1>0, <1>1, <2>1, <2>2 DEF OthersKept
<1>3. ASSUME NEW b \in BlocksOf[HAL], HalMemFree(b)
      PROVE  FALSE
  <2>1. phase = "running" /\ heap'[q] = heap[q]
    BY <1>3 DEF HalMemFree, CanAct, TypeOK
  <2>2. OthersKept(<<HAL, b.addr>>) \/ states' = states
    BY <1>3, HalFreeEffect
  <2> QED
    BY <1>0, <1>1, <2>1, <2>2 DEF OthersKept
<1>4. ASSUME NEW p \in Pools \ {HAL}, NEW r \in Block, NEW d \in Devices \cup {NA},
             PoolCall(p, r, d)
      PROVE  FALSE
  <2> DEFINE own == <<p, r.addr>>
  <2>1. phase = "running" /\ Tracing
    <3>1. phase = "running"
      BY <1>4 DEF PoolCall
    <3>2. ~Tracing => states' = states
      BY <1>4, PoolReportEffect DEF PoolCall, EventTypes
    <3> QED
      BY <3>1, <3>2 DEF EmptyWhileStopped
  <2>2. OthersKept(own)
    BY <1>4, <2>1, PoolReportEffect DEF PoolCall, EventTypes
  <2>3. p # q => heap'[q] = heap[q]
    BY <1>4 DEF PoolCall, TypeOK
  <2>4. CASE p # q
    BY <1>0, <1>1, <2>1, <2>2, <2>3, <2>4 DEF OthersKept
  <2>5. CASE /\ p = q
             /\ IsFreeSpace(p, r)
             /\ heap' = [heap EXCEPT ![p] = @ \cup {r}]
             /\ PoolReport("MALLOC", p, r.addr, r.size, d)
    <3>1. Opened(own, r)
      BY <2>1, <2>5, PoolReportEffect DEF EventTypes
    <3>2. x # r /\ x \in heap[q] /\ <<q, x.addr>> # own /\ <<q, x.addr>> \notin LiveKeys(states)
      BY <2>2, <2>5, <3>1 DEF Opened, OthersKept, TypeOK
    <3>3. CASE k = own
      <4>1. k[2] = r.addr /\ states'[k].size \in {0, r.size}
        BY <3>1, <3>3 DEF Opened
      <4>2. Overlap(x, r) /\ Overlap(r, x)
        BY <1>0, <3>2, <4>1, BlockFacts
      <4> QED
        BY <2>5, <3>2, <4>2 DEF IsFreeSpace
    <3>4. CASE k # own
      BY <1>1, <2>1, <2>2, <3>2, <3>4 DEF OthersKept
    <3> QED
      BY <3>3, <3>4
  <2>6. CASE /\ p = q
             /\ r \in heap[p]
             /\ heap' = [heap EXCEPT ![p] = @ \ {r}]
             /\ PoolReport("FREE", p, r.addr, r.size, d)
    <3>1. own \notin LiveKeys(states')
      BY <2>1, <2>6, PoolReportEffect DEF EventTypes
    <3>2. x # r /\ x \in heap[q]
      BY <2>6 DEF TypeOK
    <3>3. x.addr # r.addr
      BY <1>0, <2>6, <3>2, BlockFacts DEF HeapDisjoint
    <3>4. <<q, x.addr>> # own
      BY <3>3
    <3> QED
      BY <1>1, <2>1, <2>2, <3>1, <3>2, <3>4 DEF OthersKept
  <2>7. CASE /\ p = q
             /\ IsFreeSpace(p, r) \/ \E b \in heap[p] : Inside(r, b)
             /\ heap' = heap
             /\ PoolReport("ACCESS", p, r.addr, r.size, d)
    <3>1. Touched(own, r)
      BY <2>1, <2>7, PoolReportEffect DEF EventTypes
    <3>2. x \in heap[q] /\ <<q, x.addr>> \notin LiveKeys(states)
      BY <2>2, <2>7, <3>1 DEF Touched, OthersKept
    <3>3. CASE k = own /\ own \notin LiveKeys(states)
      <4>1. k[2] = r.addr /\ states'[k].size \in {0, r.size} /\ x.addr # r.addr
        BY <2>7, <3>1, <3>3 DEF Touched
      <4>2. Overlap(x, r) /\ Overlap(r, x)
        BY <1>0, <3>2, <4>1, BlockFacts
      <4>3. PICK b \in heap[p] : Inside(r, b)
        BY <2>7, <3>2, <4>2 DEF IsFreeSpace
      <4>4. Overlap(x, b)
        BY <1>0, <2>7, <3>2, <4>2, <4>3, BlockFacts
      <4>5. x = b
        BY <2>7, <3>2, <4>3, <4>4 DEF HeapDisjoint
      <4>6. x \in Block /\ r \in Block
        BY <1>0, <3>2
      <4> QED
        BY <4>1, <4>3, <4>5, <4>6, BlockFacts DEF Inside
    <3>4. CASE k # own \/ own \in LiveKeys(states)
      BY <1>1, <2>1, <2>2, <3>1, <3>2, <3>4 DEF OthersKept, Touched
    <3> QED
      BY <3>3, <3>4
  <2> QED
    BY <1>4, <2>4, <2>5, <2>6, <2>7 DEF PoolCall
<1>5. ASSUME NEW new \in Status, BeginSetTraceStatus(new)
      PROVE  FALSE
  BY <1>5 DEF BeginSetTraceStatus, SkipAnswers, Status
<1>6. CASE BeginExit
  BY <1>6 DEF BeginExit
<1>7. ASSUME NEW j \in MemoryStateKey, CleanUpOne(j)
      PROVE  FALSE
  BY <1>7 DEF CleanUpOne, Loops
<1>8. CASE EndSetTraceStatus
  BY <1>8 DEF EndSetTraceStatus, LoopCovers, Loops, Status
<1>9. CASE EndExit
  BY <1>9 DEF EndExit
<1>10. CASE UNCHANGED vars
  BY <1>1, <1>10 DEF vars
<1> QED
  BY <1>2, <1>3, <1>4, <1>5, <1>6, <1>7, <1>8, <1>9, <1>10, Steps

-----------------------------------------------------------------------------
(***************************************************************************)
(* Nothing is lost, and nothing is written twice.                          *)
(***************************************************************************)
\* A FREE goes to the state of its own key.
FreeIsOwn(event) ==
    event.type = "FREE" =>
        \A k \in Receivers(states, Completed(states, event)) : k = KeyOf(event)

\* EventHandler moves ids from the cache to the output and adds the one of its event.
LEMMA HandlingIds ==
    ASSUME TypeOK, NEW event \in MemoryEvent, HandleMemoryEvent(event),
           OnceInMap(states), event.id \notin IdsIn(states)
    PROVE  /\ IdsIn(states') \cup RowIds(written')
                = (IdsIn(states) \cup RowIds(written)) \cup {event.id}
           /\ OnceInMap(states')
           /\ /\ FreeIsOwn(event)
              /\ event.id \notin RowIds(written)
              /\ OnceInRows(written)
              /\ RowIds(written) \cap IdsIn(states) = {}
              => /\ OnceInRows(written')
                 /\ RowIds(written') \cap IdsIn(states') = {}
<1> DEFINE own == KeyOf(event)
<1>1. PICK e \in MemoryEvent, base \in StatesMap, k \in MemoryStateKey :
              /\ Handles(event, e, base, k)
              /\ Added(base, count, e, k) \in StatesMap
  BY Handling
<1> DEFINE added == Added(base, count, e, k)
           stale == StaleRows(e)
           rows  == IF e.type = "FREE" THEN RowsAt(added, k) ELSE << >>
           moved == written \o stale
<1>2. /\ e = Completed(states, event)
      /\ k \in Receivers(base, e)
      /\ states' = IF e.type = "FREE" THEN Deleted(added, own) ELSE added
      /\ written' = IF e.type = "FREE" THEN moved \o RowsAt(added, k) ELSE moved
      /\ own = KeyOf(e) /\ own \in MemoryStateKey
      /\ e.type = event.type /\ e.id = event.id
  BY <1>1, CompletedEvent DEF Handles, TypeOK
<1>3. written \in Seq(Row) /\ states \in StatesMap /\ count \in Nat /\ added \in StatesMap
  BY <1>1 DEF TypeOK
<1>4. /\ stale \in Seq(Row)
      /\ IdsIn(states) = IdsIn(base) \cup RowIds(stale)
      /\ OnceInMap(base)
      /\ IdsIn(base) \cap RowIds(stale) = {}
      /\ OnceInRows(stale)
  <2>1. CASE Refuses(states, e)
    <3>1. stale = RowsAt(states, own) /\ base = Deleted(states, own)
      BY <1>1, <1>2, <2>1 DEF StaleRows, Handles
    <3> QED
      BY <1>2, <1>3, <3>1, DeletedIds, IdsOfRows, RowsOfKey
  <2>2. CASE ~Refuses(states, e)
    <3>1. stale = << >> /\ base = states
      BY <1>1, <2>2 DEF StaleRows, Handles
    <3> QED
      BY <3>1 DEF RowIds, OnceInRows
  <2> QED
    BY <2>1, <2>2
<1>5. /\ IdsIn(added) = IdsIn(base) \cup {e.id}
      /\ OnceInMap(added)
  BY <1>2, <1>3, <1>4, AddedIds
<1>6. /\ moved \in Seq(Row)
      /\ RowIds(moved) = RowIds(written) \cup RowIds(stale)
      /\ OnceInRows(written) /\ RowIds(written) \cap IdsIn(states) = {} => OnceInRows(moved)
  BY <1>3, <1>4, ConcatRows
<1> HIDE DEF own, added, stale, moved
<1>7. CASE e.type # "FREE"
  <2>1. states' = added /\ written' = moved
    BY <1>2, <1>7
  <2> QED
    BY <1>2, <1>4, <1>5, <1>6, <2>1
<1>8. CASE e.type = "FREE"
  <2>1. states' = Deleted(added, own) /\ written' = moved \o RowsAt(added, k)
    BY <1>2, <1>8
  <2>2. /\ RowsAt(added, k) \in Seq(Row)
        /\ RowIds(RowsAt(added, k)) \subseteq IdsIn(added)
        /\ OnceInRows(RowsAt(added, k))
    BY <1>3, <1>5, RowsOfKey, IdsOfRows
  <2>3. /\ RowIds(written') = RowIds(moved) \cup RowIds(RowsAt(added, k))
        /\ OnceInRows(moved) /\ RowIds(moved) \cap RowIds(RowsAt(added, k)) = {}
           => OnceInRows(written')
    BY <1>6, <2>1, <2>2, ConcatRows
  <2>4. /\ IdsIn(added) = IdsIn(states') \cup RowIds(RowsAt(added, own))
        /\ OnceInMap(states')
        /\ IdsIn(states') \cap RowIds(RowsAt(added, own)) = {}
    BY <1>2, <1>3, <1>5, <2>1, DeletedIds
  <2>5. k # own => RowIds(RowsAt(added, own)) = {}
    <3> SUFFICES ASSUME k # own PROVE RowIds(RowsAt(added, own)) = {}
      OBVIOUS
    <3>0. k \in Receivers(base, e) /\ own = KeyOf(e) /\ own \in MemoryStateKey /\ count \in Nat
      BY <1>2, <1>3
    <3>1. base[own] = NoState
      BY <3>0 DEF Receivers, FindStateInPool
    <3>2. added[own] = NoState
      <4>1. \A j \in MemoryStateKey : j # k => added[j] = base[j]
        BY <3>0, AddedMap DEF added
      <4> QED
        BY <3>0, <3>1, <4>1
    <3>3. RowsAt(added, own) = << >>
      BY <3>2 DEF RowsAt
    <3> QED
      BY <3>3 DEF RowIds
  <2>6. IdsIn(states') \cup RowIds(written') = (IdsIn(states) \cup RowIds(written)) \cup {event.id}
    <3>1. IdsIn(states') \cup RowIds(RowsAt(added, k)) = IdsIn(added)
      BY <2>2, <2>4, <2>5
    <3> QED
      BY <1>2, <1>4, <1>5, <1>6, <2>3, <3>1
  <2>7. ASSUME FreeIsOwn(event), event.id \notin RowIds(written), OnceInRows(written),
               RowIds(written) \cap IdsIn(states) = {}
        PROVE  OnceInRows(written') /\ RowIds(written') \cap IdsIn(states') = {}
    <3>1. base = states /\ stale = << >>
      BY <1>1, <1>8 DEF Handles, Refuses, StaleRows, stale
    <3>2. k = own
      BY <1>2, <1>8, <2>7, <3>1 DEF FreeIsOwn, own
    <3>3. RowIds(moved) \cap IdsIn(added) = {}
      BY <1>2, <1>4, <1>5, <1>6, <2>7, <3>1
    <3> QED
      BY <1>6, <2>2, <2>3, <2>4, <2>7, <3>2, <3>3
  <2> QED
    BY <2>4, <2>6, <2>7
<1> QED
  BY <1>7, <1>8

\* The block that a pool frees is the one its FREE joins: no other cached block of the
\* pool holds its address.  A driver's FREE always stays at its own key.
LEMMA FreesItself ==
    ASSUME TypeOK, NEW event \in MemoryEvent, event.type = "FREE",
           \/ event.pool = HAL
           \/ /\ event.size \in Nat \ {0}
              /\ \/ KeyOf(event) \in LiveKeys(states)
                 \/ \A k \in LiveKeys(states) : k[1] = event.pool => ~Covers(k, event.addr)
    PROVE  FreeIsOwn(event)
<1> DEFINE e   == Completed(states, event)
           own == KeyOf(event)
<1>1. /\ KeyOf(e) = own /\ own \in MemoryStateKey
      /\ e.type = "FREE" /\ e.pool = event.pool /\ e.addr = event.addr
      /\ event.pool # HAL => e.size = event.size
      /\ event.addr \in Nat
  BY CompletedEvent, ManagerAssumption DEF TypeOK, MemoryEvent
<1> HIDE DEF e, own
<1> SUFFICES ASSUME NEW k \in Receivers(states, e), k # own PROVE FALSE
  BY DEF FreeIsOwn, e, own
<1>2. states[own] = NoState /\ event.pool # HAL /\ k \in Enclosing(states, e)
  BY <1>1 DEF Receivers, FindStateInPool, CreatesDefault
<1>3. k \in LiveKeys(states) /\ k \in MemoryStateKey /\ k[2] \in Nat /\ states[k].size \in Nat
  <2>1. k \in LiveKeys(states) /\ k \in MemoryStateKey
    BY <1>2 DEF Enclosing, LiveKeys
  <2>2. states[k] \in MemoryState
    BY <2>1, LiveState DEF TypeOK
  <2>3. k[2] \in Addrs
    BY <2>1 DEF MemoryStateKey
  <2>4. states[k].size \in Sizes \cup {0}
    BY <2>2 DEF MemoryState
  <2>5. k[2] \in Nat
    BY <2>3, ManagerAssumption
  <2>6. states[k].size \in Nat
    <3>1. Sizes \cup {0} \subseteq Nat
      BY ManagerAssumption
    <3> QED
      BY <2>4, <3>1, Zenon
  <2> QED
    BY <2>1, <2>5, <2>6
<1>4. /\ k[1] = event.pool
      /\ event.addr >= k[2]
      /\ event.addr + event.size <= k[2] + states[k].size
  BY <1>1, <1>2 DEF Enclosing, Contains
<1>5. Covers(k, event.addr)
  BY <1>1, <1>2, <1>3, <1>4 DEF Covers
<1> QED
  BY <1>2, <1>3, <1>4, <1>5 DEF LiveKeys, own

\* What a FREE says of the block it ends: a driver's says nothing but the address.
FreeOfBlock(event) ==
    event.type = "FREE" =>
        IF event.pool = HAL
        THEN event.device = NA
        ELSE [addr |-> event.addr, size |-> event.size] \in heap[event.pool]

\* Every step adds one event to the cache, cleans one key up, or leaves it alone.
LEMMA CacheSteps ==
    ASSUME TypeOK, [Next]_vars
    PROVE  \/ \E event \in MemoryEvent :
                 /\ Report(event)
                 /\ event.id = recordIndex + 1
                 /\ FreeOfBlock(event)
                 /\ ~Filtered /\ NoStrayFree => FreeIsOwn(event)
           \/ \E k \in MemoryStateKey : CleanUp(k) /\ recordIndex' = recordIndex
           \/ UNCHANGED <<recordIndex, states, count, written>>
<1> USE PipelineAssumption, ManagerAssumption
<1>1. ASSUME NEW b \in BlocksOf[HAL], NEW d \in Devices, NEW onHost \in BOOLEAN,
             HalMemAlloc(b, d, onHost), ~NoReport
      PROVE  \E event \in MemoryEvent :
                Report(event) /\ event.id = recordIndex + 1 /\ FreeIsOwn(event) /\ FreeOfBlock(event)
  <2> DEFINE event == NewEvent("MALLOC", HAL, b.addr, b.size, d)
  <2>1. event \in MemoryEvent
    <3>1. b.addr \in Addrs /\ b.size \in Sizes /\ {"MALLOC", "FREE"} \subseteq EventTypes
      BY DEF Block, EventTypes
    <3> QED
      BY <3>1, NewEventType
  <2>2. event.id = recordIndex + 1 /\ FreeIsOwn(event) /\ FreeOfBlock(event)
    BY DEF NewEvent, FreeIsOwn, FreeOfBlock
  <2>3. Report(event)
    BY <1>1 DEF HalMemAlloc
  <2> QED
    BY <2>1, <2>2, <2>3
<1>2. ASSUME NEW b \in BlocksOf[HAL], HalMemFree(b), ~NoReport
      PROVE  \E event \in MemoryEvent :
                Report(event) /\ event.id = recordIndex + 1 /\ FreeIsOwn(event) /\ FreeOfBlock(event)
  <2> DEFINE event == NewEvent("FREE", HAL, b.addr, 0, NA)
  <2>1. event \in MemoryEvent
    <3>1. b.addr \in Addrs /\ b.size \in Sizes /\ {"MALLOC", "FREE"} \subseteq EventTypes
      BY DEF Block, EventTypes
    <3> QED
      BY <3>1, NewEventType
  <2>2. event.id = recordIndex + 1 /\ event.type = "FREE" /\ event.pool = HAL /\ event.device = NA
    BY DEF NewEvent
  <2>3. Report(event)
    BY <1>2 DEF HalMemFree
  <2> HIDE DEF event
  <2>4. FreeIsOwn(event) /\ FreeOfBlock(event)
    BY <2>1, <2>2, FreesItself DEF FreeOfBlock
  <2> QED
    BY <2>1, <2>2, <2>3, <2>4
<1>3. ASSUME NEW p \in Pools \ {HAL}, NEW r \in Block, NEW d \in Devices \cup {NA},
             PoolCall(p, r, d), ~NoReport
      PROVE  \E event \in MemoryEvent :
                /\ Report(event)
                /\ event.id = recordIndex + 1
                /\ FreeOfBlock(event)
                /\ ~Filtered /\ NoStrayFree => FreeIsOwn(event)
  <2>1. PICK type \in EventTypes :
           /\ PoolReport(type, p, r.addr, r.size, d)
           /\ type = "FREE" => r \in heap[p]
    BY <1>3 DEF PoolCall, EventTypes
  <2> DEFINE event == NewEvent(type, p, r.addr, r.size, d)
  <2>2. event \in MemoryEvent
    BY NewEventType DEF Block
  <2>3. /\ event.id = recordIndex + 1 /\ event.type = type /\ event.pool = p
        /\ event.addr = r.addr /\ event.size = r.size /\ KeyOf(event) = <<p, r.addr>>
    BY DEF NewEvent, KeyOf
  <2>4. Report(event)
    BY <1>3, <2>1 DEF PoolReport
  <2> HIDE DEF event
  <2>5. ASSUME ~Filtered, NoStrayFree, type = "FREE" PROVE FreeIsOwn(event)
    <3>1. \/ KeyOf(event) \in LiveKeys(states)
          \/ \A k \in LiveKeys(states) : k[1] = event.pool => ~Covers(k, event.addr)
      BY <1>3, <2>1, <2>3, <2>5 DEF NoStrayFree, PoolCall
    <3>2. event.size \in Nat \ {0}
      BY <2>3 DEF Block
    <3> QED
      BY <2>2, <2>3, <2>5, <3>1, <3>2, FreesItself
  <2>6. type # "FREE" => FreeIsOwn(event)
    BY <2>3 DEF FreeIsOwn
  <2>7. FreeOfBlock(event)
    <3>1. [addr |-> r.addr, size |-> r.size] = r
      BY DEF Block
    <3> QED
      BY <1>3, <2>1, <2>3, <3>1 DEF FreeOfBlock
  <2> QED
    BY <2>2, <2>3, <2>4, <2>5, <2>6, <2>7
<1>4. ASSUME NEW k \in MemoryStateKey, CleanUpOne(k)
      PROVE  CleanUp(k) /\ recordIndex' = recordIndex
  BY <1>4 DEF CleanUpOne
<1>5. ASSUME \/ \E new \in Status : BeginSetTraceStatus(new)
             \/ BeginExit \/ EndSetTraceStatus \/ EndExit \/ UNCHANGED vars
      PROVE  UNCHANGED <<recordIndex, states, count, written>>
  BY <1>5 DEF BeginSetTraceStatus, BeginExit, EndSetTraceStatus, EndExit, vars
<1> QED
  BY <1>1, <1>2, <1>3, <1>4, <1>5, Steps DEF NoReport

\* Every id taken is in the cache or in the output, and in the cache only once.
IdInv == IdsIn(states) \cup RowIds(written) = Ids /\ OnceInMap(states)

\* Without filters the output has no id twice, and none that is still cached.
OnceInv == OnceInRows(written) /\ RowIds(written) \cap IdsIn(states) = {}

LEMMA IdInvStep ==
    /\ TypeOK /\ IdInv /\ [Next]_vars
    => /\ IdInv'
       /\ ~Filtered /\ NoStrayFree /\ OnceInv => OnceInv'
<1> SUFFICES ASSUME TypeOK, IdInv, [Next]_vars
             PROVE  IdInv' /\ (~Filtered /\ NoStrayFree /\ OnceInv => OnceInv')
  OBVIOUS
<1>1. /\ IdsIn(states) \cup RowIds(written) = Ids
      /\ OnceInMap(states) /\ recordIndex \in Nat
      /\ states \in StatesMap /\ written \in Seq(Row)
  BY DEF IdInv, TypeOK
<1>2. ASSUME NEW event \in MemoryEvent, Report(event), event.id = recordIndex + 1,
             ~Filtered /\ NoStrayFree => FreeIsOwn(event)
      PROVE  IdInv' /\ (~Filtered /\ NoStrayFree /\ OnceInv => OnceInv')
  <2>1. event.id \notin IdsIn(states) /\ event.id \notin RowIds(written)
    BY <1>1, <1>2 DEF Ids
  <2>2. Ids' = Ids \cup {event.id}
    <3>1. recordIndex' = recordIndex + 1
      BY <1>2 DEF Report
    <3> QED
      BY <1>1, <1>2, <3>1 DEF Ids
  <2>3. HandleMemoryEvent(event)
    BY <1>2 DEF Report
  <2>4. /\ IdsIn(states') \cup RowIds(written')
             = (IdsIn(states) \cup RowIds(written)) \cup {event.id}
        /\ OnceInMap(states')
        /\ ~Filtered /\ NoStrayFree /\ OnceInv
           => /\ OnceInRows(written')
              /\ RowIds(written') \cap IdsIn(states') = {}
    BY <1>1, <1>2, <2>1, <2>3, HandlingIds DEF OnceInv
  <2> QED
    BY <1>1, <2>2, <2>4 DEF IdInv, OnceInv
<1>3. ASSUME NEW k \in MemoryStateKey, CleanUp(k), recordIndex' = recordIndex
      PROVE  IdInv' /\ (OnceInv => OnceInv')
  <2>1. states' = Deleted(states, k) /\ written' = written \o RowsAt(states, k)
    BY <1>3 DEF CleanUp
  <2>2. /\ RowsAt(states, k) \in Seq(Row)
        /\ RowIds(RowsAt(states, k)) \subseteq IdsIn(states)
        /\ OnceInRows(RowsAt(states, k))
    BY <1>1, RowsOfKey, IdsOfRows
  <2>3. /\ IdsIn(states) = IdsIn(states') \cup RowIds(RowsAt(states, k))
        /\ OnceInMap(states')
        /\ IdsIn(states') \cap RowIds(RowsAt(states, k)) = {}
    BY <1>1, <2>1, DeletedIds
  <2>4. /\ RowIds(written') = RowIds(written) \cup RowIds(RowsAt(states, k))
        /\ OnceInv => OnceInRows(written')
    BY <1>1, <2>1, <2>2, ConcatRows DEF OnceInv
  <2>5. Ids' = Ids
    BY <1>3 DEF Ids
  <2> QED
    BY <1>1, <2>3, <2>4, <2>5 DEF IdInv, OnceInv
<1>4. CASE UNCHANGED <<recordIndex, states, count, written>>
  <2>1. states' = states /\ written' = written /\ recordIndex' = recordIndex
    BY <1>4
  <2>2. /\ IdsIn(states)' = IdsIn(states) /\ RowIds(written)' = RowIds(written) /\ Ids' = Ids
        /\ OnceInMap(states)' = OnceInMap(states) /\ OnceInRows(written)' = OnceInRows(written)
    BY <2>1 DEF Ids, IdsIn, RowIds, Cached, LiveKeys, OnceInMap, OnceInRows
  <2> QED
    BY <1>1, <2>2 DEF IdInv, OnceInv
<1> QED
  BY <1>2, <1>3, <1>4, CacheSteps

LEMMA InitIds == Init => IdInv /\ OnceInv /\ HeapDisjoint /\ NoStrayFree
<1> SUFFICES ASSUME Init PROVE IdInv /\ OnceInv /\ HeapDisjoint /\ NoStrayFree
  OBVIOUS
<1>1. LiveKeys(states) = {}
  BY DEF Init, EmptyMap, LiveKeys
<1>2. IdsIn(states) = {} /\ RowIds(written) = {} /\ Ids = {}
  BY <1>1 DEF Init, IdsIn, Cached, RowIds, Ids
<1>3. OnceInMap(states) /\ OnceInRows(written)
  BY <1>1 DEF Init, OnceInMap, OnceInRows
<1> QED
  BY <1>1, <1>2, <1>3 DEF Init, IdInv, OnceInv, HeapDisjoint, NoStrayFree

\* No record is lost between EventHandler and the file, filters or not: every event is
\* cached or written, and when the process has exited all of them are written.
THEOREM NoRecordLost == Spec => []NothingLost
<1> DEFINE Inv == TypeOK /\ LoopCovers /\ IdInv
<1>1. Init => Inv
  BY InitTypeOK, InitIds, HeapInvInductive DEF HeapInv
<1>2. Inv /\ [Next]_vars => Inv'
  BY NextTypeOK, LoopCoversStep, IdInvStep
<1>3. Inv => NothingLost
  <2> SUFFICES ASSUME Inv PROVE NothingLost
    OBVIOUS
  <2>1. WrittenIds = RowIds(written) /\ CachedIds = IdsIn(states)
    BY DEF WrittenIds, CachedIds, RowIds, IdsIn
  <2>2. phase = "done" => IdsIn(states) = {}
    BY DEF LoopCovers, IdsIn, Cached
  <2> QED
    BY <2>1, <2>2 DEF IdInv, NothingLost
<1> QED
  BY <1>1, <1>2, <1>3, PTL DEF Spec

\* Without filters no record reaches the output twice, and none that is in the output
\* is still in the cache: EventHandler deletes exactly what it has dumped.
THEOREM NoRecordTwice == Spec => []WrittenOnce
<1> DEFINE Inv == HeapInv /\ HeapDisjoint /\ NoStrayFree /\ IdInv /\ (~Filtered => OnceInv)
<1>1. Init => Inv
  BY InitIds, HeapInvInductive
<1>2. Inv /\ [Next]_vars => Inv'
  <2> SUFFICES ASSUME Inv, [Next]_vars PROVE Inv'
    OBVIOUS
  <2>1. HeapInv' /\ HeapDisjoint' /\ NoStrayFree' /\ IdInv'
    BY HeapInvInductive, HeapDisjointStep, NoStrayFreeStep, IdInvStep DEF HeapInv
  <2>2. ~Filtered => OnceInv'
    BY IdInvStep DEF HeapInv
  <2> QED
    BY <2>1, <2>2
<1>3. Inv => WrittenOnce
  <2>1. WrittenIds = RowIds(written) /\ CachedIds = IdsIn(states)
    BY DEF WrittenIds, CachedIds, RowIds, IdsIn
  <2> QED
    BY <2>1 DEF OnceInv, OnceInRows, WrittenOnce
<1> QED
  BY <1>1, <1>2, <1>3, PTL DEF Spec

-----------------------------------------------------------------------------
(***************************************************************************)
(* A row ends its block.                                                   *)
(***************************************************************************)
AllocationInv == OwnAllocation(states, count)

\* A step that writes rows leaves no state with their allocation id.
RowsEnd ==
    \A i \in Len(written) + 1 .. Len(written') :
        \A k \in LiveKeys(states') : states'[k].allocationId # written'[i].allocationId

\* Rows of one key end its block when no state that is left has its allocation id.
LEMMA RowsOfKeyEnd ==
    ASSUME TypeOK, NEW m \in StatesMap, NEW k \in MemoryStateKey,
           written' = written \o RowsAt(m, k),
           k \in LiveKeys(m) =>
               \A j \in LiveKeys(states') : states'[j].allocationId # m[k].allocationId
    PROVE  RowsEnd
<1> SUFFICES ASSUME NEW i \in Len(written) + 1 .. Len(written'), NEW j \in LiveKeys(states')
             PROVE  states'[j].allocationId # written'[i].allocationId
  BY DEF RowsEnd
<1>1. /\ i - Len(written) \in 1 .. Len(RowsAt(m, k))
      /\ written'[i] = RowsAt(m, k)[i - Len(written)]
  <2> DEFINE rows == RowsAt(m, k)
  <2>1. written \in Seq(Row) /\ rows \in Seq(Row) /\ written' = written \o rows
    BY RowsOfKey DEF TypeOK
  <2> HIDE DEF rows
  <2>2. i - Len(written) \in 1 .. Len(rows) /\ written'[i] = rows[i - Len(written)]
    BY <2>1
  <2> QED
    BY <2>2 DEF rows
<1>2. k \in LiveKeys(m) /\ written'[i].allocationId = m[k].allocationId
  BY <1>1, RowsAllocation
<1> QED
  BY <1>2

LEMMA HandlingAllocation ==
    ASSUME TypeOK, AllocationInv, NEW event \in MemoryEvent, HandleMemoryEvent(event)
    PROVE  AllocationInv' /\ (FreeIsOwn(event) => RowsEnd)
<1> DEFINE own == KeyOf(event)
<1>1. PICK e \in MemoryEvent, base \in StatesMap, k \in MemoryStateKey :
              /\ Handles(event, e, base, k)
              /\ Added(base, count, e, k) \in StatesMap
  BY Handling
<1> DEFINE added == Added(base, count, e, k)
<1>2. /\ e = Completed(states, event) /\ e.type = event.type /\ own = KeyOf(e)
      /\ k \in Receivers(base, e) /\ own \in MemoryStateKey
      /\ states' = IF e.type = "FREE" THEN Deleted(added, own) ELSE added
      /\ count' = CountAfter(base, count, e, k)
  BY <1>1, CompletedEvent DEF Handles, TypeOK
<1>3. CASE Refuses(states, e)
  <2>1. /\ base = Deleted(states, own) /\ k = own
        /\ states' = added /\ written' = written \o RowsAt(states, own)
        /\ own \in LiveKeys(states)
    BY <1>1, <1>2, <1>3 DEF Handles, Refuses, StaleRows, Receivers, LiveKeys
  <2>2. /\ OwnAllocation(base, count)
        /\ \A j \in LiveKeys(base) : base[j].allocationId # states[own].allocationId
    BY <1>2, <2>1, DeletedAllocation DEF TypeOK, AllocationInv
  <2>3. OwnAllocation(states', count')
    BY <1>2, <1>3, <2>1, <2>2, AddedAllocation DEF TypeOK, Refuses
  <2>4. \A j \in LiveKeys(states') : states'[j].allocationId # states[own].allocationId
    <3>0. base[own] = NoState /\ count \in Nat /\ states \in StatesMap
      BY <1>2, <2>1, DeletedMap DEF TypeOK
    <3>1. added[own].allocationId = count + 1
      <4>1. added[own] = StateWith(base, count, e, own)
        BY <1>2, <2>1, <3>0, AddedMap
      <4>2. ~CreatesDefault(base, e)
        BY <1>3 DEF CreatesDefault, Refuses
      <4> HIDE DEF added
      <4> QED
        BY <3>0, <4>1, <4>2 DEF StateWith
    <3>2. states[own].allocationId \in 1 .. count /\ count \in Nat
      BY <2>1 DEF AllocationInv, OwnAllocation, TypeOK
    <3>3. /\ LiveKeys(added) = LiveKeys(base) \cup {own}
          /\ \A j \in LiveKeys(base) : j # own => added[j] = base[j]
      <4>1. \A j \in LiveKeys(base) : j \in MemoryStateKey
        BY DEF LiveKeys
      <4>2. /\ LiveKeys(added) = LiveKeys(base) \cup {k}
            /\ \A j \in MemoryStateKey : j # k => added[j] = base[j]
        BY <3>0, AddedMap
      <4> HIDE DEF added, own
      <4> QED
        BY <2>1, <4>1, <4>2
    <3> QED
      BY <2>1, <2>2, <3>1, <3>2, <3>3
  <2> QED
    BY <1>2, <2>1, <2>3, <2>4, RowsOfKeyEnd DEF AllocationInv, TypeOK
<1>4. CASE ~Refuses(states, e)
  <2>1. /\ base = states /\ k \in Receivers(states, e)
        /\ written' = IF e.type = "FREE" THEN written \o RowsAt(added, k) ELSE written
    <3>1. base = states /\ StaleRows(e) = << >>
      BY <1>1, <1>4 DEF Handles, StaleRows
    <3>2. written \o << >> = written
      BY DEF TypeOK
    <3> QED
      BY <1>1, <1>2, <3>1, <3>2 DEF Handles
  <2>2. OwnAllocation(states', count')
    BY <1>2, <2>1, AddedAllocation DEF TypeOK, AllocationInv
  <2>3. CASE e.type # "FREE"
    <3>1. written' = written
      BY <2>1, <2>3
    <3>2. RowsEnd
      BY <3>1 DEF RowsEnd, TypeOK
    <3> QED
      BY <2>2, <3>2 DEF AllocationInv
  <2>4. CASE e.type = "FREE"
    <3> SUFFICES ASSUME FreeIsOwn(event) PROVE RowsEnd
      BY <2>2 DEF AllocationInv
    <3>1. k = own
      BY <1>2, <2>1, <2>4 DEF FreeIsOwn
    <3>2. \A j \in LiveKeys(added) \ {k} : added[j].allocationId # added[k].allocationId
      BY <2>1, AddedAllocation DEF TypeOK, AllocationInv
    <3>3. /\ states' = Deleted(added, k) /\ added \in StatesMap
      BY <1>1, <1>2, <2>4, <3>1
    <3>4. \A j \in LiveKeys(states') : states'[j].allocationId # added[k].allocationId
      BY <3>2, <3>3, DeletedMap DEF LiveKeys
    <3> QED
      BY <2>1, <2>4, <3>3, <3>4, RowsOfKeyEnd
  <2> QED
    BY <2>3, <2>4
<1> QED
  BY <1>3, <1>4

LEMMA AllocationStep ==
    /\ TypeOK /\ AllocationInv /\ [Next]_vars
    => /\ AllocationInv'
       /\ ~Filtered /\ NoStrayFree => RowsEnd
<1> SUFFICES ASSUME TypeOK, AllocationInv, [Next]_vars
             PROVE  AllocationInv' /\ (~Filtered /\ NoStrayFree => RowsEnd)
  OBVIOUS
<1>1. ASSUME NEW k \in MemoryStateKey, CleanUp(k)
      PROVE  AllocationInv' /\ RowsEnd
  <2>1. states' = Deleted(states, k) /\ written' = written \o RowsAt(states, k) /\ count' = count
    BY <1>1 DEF CleanUp
  <2>2. OwnAllocation(states', count')
    BY <2>1, DeletedAllocation DEF TypeOK, AllocationInv
  <2>3. k \in LiveKeys(states) =>
            \A j \in LiveKeys(states') : states'[j].allocationId # states[k].allocationId
    BY <2>1, DeletedAllocation DEF TypeOK, AllocationInv
  <2> QED
    BY <2>1, <2>2, <2>3, RowsOfKeyEnd DEF TypeOK, AllocationInv
<1>2. CASE UNCHANGED <<recordIndex, states, count, written>>
  <2>1. states' = states /\ count' = count /\ written' = written
    BY <1>2
  <2>2. RowsEnd
    BY <2>1 DEF RowsEnd, TypeOK
  <2>3. AllocationInv'
    BY <2>1 DEF AllocationInv, OwnAllocation, LiveKeys
  <2> QED
    BY <2>2, <2>3
<1>3. ASSUME NEW event \in MemoryEvent, Report(event),
             ~Filtered /\ NoStrayFree => FreeIsOwn(event)
      PROVE  AllocationInv' /\ (~Filtered /\ NoStrayFree => RowsEnd)
  <2>1. HandleMemoryEvent(event)
    BY <1>3 DEF Report
  <2> QED
    BY <1>3, <2>1, HandlingAllocation
<1> QED
  BY <1>1, <1>2, <1>3, CacheSteps

\* Without filters a FREE that is written ends the life of its block: no state with its
\* allocation id is left in the cache.
THEOREM FreeEndsABlock == Spec => FreeEndsItsBlock
<1> DEFINE Inv == HeapInv /\ HeapDisjoint /\ NoStrayFree /\ AllocationInv
<1>1. Init => Inv
  <2>1. Init => AllocationInv
    BY DEF Init, EmptyMap, LiveKeys, AllocationInv, OwnAllocation
  <2> QED
    BY <2>1, InitIds, HeapInvInductive
<1>2. Inv /\ [Next]_vars => Inv'
  <2> SUFFICES ASSUME Inv, [Next]_vars PROVE Inv'
    OBVIOUS
  <2>1. HeapInv' /\ HeapDisjoint' /\ NoStrayFree' /\ AllocationInv'
    BY HeapInvInductive, HeapDisjointStep, NoStrayFreeStep, AllocationStep DEF HeapInv
  <2> QED
    BY <2>1
<1>3. Inv /\ [Next]_vars => [~Filtered => FreeRowsEnd]_vars
  <2> SUFFICES ASSUME Inv, [Next]_vars, ~Filtered PROVE FreeRowsEnd
    OBVIOUS
  <2>1. RowsEnd
    BY AllocationStep DEF HeapInv
  <2> QED
    BY <2>1 DEF RowsEnd, FreeRowsEnd
<1> QED
  BY <1>1, <1>2, <1>3, PTL DEF Spec, FreeEndsItsBlock

(***************************************************************************)
(* What EventPipeline without filters writes is the histories of blocks:   *)
(* it implements BlockHistory, and its rows are whole and match.           *)
(***************************************************************************)

\* What an event with this id does to the histories and the log: the five ways of
\* BlockHistory, in its order.
JoinsHistory(id) ==
    LET open  == Histories(states)
        log   == LogOf(written)
        open1 == Histories(states')
        log1  == LogOf(written')
    IN  \/ open1 = open \cup {<<id>>} /\ log1 = log
        \/ open1 = open /\ log1 = Append(log, id)
        \/ \E h \in open :
              \/ open1 = (open \ {h}) \cup {<<id>>} /\ log1 = log \o h
              \/ open1 = (open \ {h}) \cup {Append(h, id)} /\ log1 = log
              \/ open1 = open \ {h} /\ log1 = log \o Append(h, id)

\* An event joins one history, and what is written is one history: that of the block whose
\* place a MALLOC takes, or that which a FREE ends.
LEMMA HandlingJoins ==
    ASSUME TypeOK, OnceInMap(states), NEW event \in MemoryEvent, HandleMemoryEvent(event),
           FreeIsOwn(event)
    PROVE  JoinsHistory(event.id)
<1> DEFINE own == KeyOf(event)
<1>1. PICK e \in MemoryEvent, base \in StatesMap, k \in MemoryStateKey :
              /\ Handles(event, e, base, k)
              /\ Added(base, count, e, k) \in StatesMap
  BY Handling
<1> DEFINE added == Added(base, count, e, k)
<1>2. /\ e = Completed(states, event) /\ e.type = event.type /\ e.id = event.id
      /\ own = KeyOf(e) /\ own \in MemoryStateKey
      /\ k \in Receivers(base, e)
      /\ states' = IF e.type = "FREE" THEN Deleted(added, own) ELSE added
  BY <1>1, CompletedEvent DEF Handles, TypeOK
<1>3. /\ states \in StatesMap /\ written \in Seq(Row) /\ count \in Nat
      /\ LogOf(written) \in Seq(Nat) /\ e.id \in Nat
  BY LogOfConcat DEF TypeOK, MemoryEvent
<1>4. CASE Refuses(states, e)
  <2>1. /\ base = Deleted(states, own) /\ k = own /\ states' = added
        /\ written' = written \o RowsAt(states, own) /\ own \in LiveKeys(states)
    BY <1>1, <1>2, <1>4 DEF Handles, Refuses, StaleRows, Receivers, LiveKeys
  <2> DEFINE h == HistoryIn(states, own)
  <2>2. Histories(base) = Histories(states) \ {h} /\ own \notin LiveKeys(base)
        /\ OnceInMap(base)
    <3>1. /\ LiveKeys(base) = LiveKeys(states) \ {own}
          /\ \A j \in LiveKeys(base) : base[j] = states[j]
      BY <1>2, <1>3, <2>1, DeletedMap DEF LiveKeys
    <3> QED BY <1>2, <1>3, <2>1, <3>1, HistoriesWithout, DeletedIds
  <2>3. Histories(states') = (Histories(states) \ {h}) \cup {<<event.id>>}
    <3>1. Joined(base, added, e.id, own)
      BY <1>2, <1>3, <2>1, <2>2, HistoriesWith
    <3> HIDE DEF added, own, h
    <3>2. Histories(added) = Histories(base) \cup {<<e.id>>}
      BY <2>2, <3>1 DEF Joined
    <3> QED BY <1>2, <2>1, <2>2, <3>2
  <2>4. LogOf(written') = LogOf(written) \o h
    <3>1. RowsAt(states, own) \in Seq(Row) /\ LogOf(RowsAt(states, own)) = h
      BY <1>2, <1>3, <2>1, LogOfRows, RowsOfKey
    <3> QED BY <1>3, <2>1, <3>1, LogOfConcat
  <2>5. h \in Histories(states)
    BY <2>1 DEF Histories
  <2> QED BY <2>3, <2>4, <2>5 DEF JoinsHistory
<1>5. CASE ~Refuses(states, e)
  <2>1. /\ base = states
        /\ written' = IF e.type = "FREE" THEN written \o RowsAt(added, k) ELSE written
    <3>1. base = states /\ StaleRows(e) = << >>
      BY <1>1, <1>5 DEF Handles, StaleRows
    <3>2. written \o << >> = written
      BY <1>3
    <3> QED BY <1>1, <3>1, <3>2 DEF Handles
  <2> DEFINE h == HistoryIn(states, k)
  <2>2. /\ k \in LiveKeys(added)
        /\ k \in LiveKeys(states) =>
              /\ HistoryIn(added, k) = Append(h, event.id)
              /\ Histories(added) = (Histories(states) \ {h}) \cup {Append(h, event.id)}
        /\ k \notin LiveKeys(states) =>
              /\ HistoryIn(added, k) = <<event.id>>
              /\ Histories(added) = Histories(states) \cup {<<event.id>>}
    <3>1. Joined(states, added, e.id, k)
      BY <1>3, <2>1, HistoriesWith
    <3> QED BY <1>2, <3>1 DEF Joined
  <2>3. k \in LiveKeys(states) => h \in Histories(states)
    BY DEF Histories
  <2>4. CASE e.type # "FREE"
    <3>1. states' = added /\ written' = written
      BY <1>2, <2>1, <2>4
    <3> QED BY <2>2, <2>3, <3>1 DEF JoinsHistory
  <2>5. CASE e.type = "FREE"
    <3>1. k = own /\ states' = Deleted(added, k) /\ written' = written \o RowsAt(added, k)
      BY <1>2, <2>1, <2>5 DEF FreeIsOwn
    <3>2. LogOf(written') = LogOf(written) \o HistoryIn(added, k)
      BY <1>1, <1>3, <2>2, <3>1, LogOfConcat, LogOfRows, RowsOfKey
    <3>3. Histories(states') = IF k \in LiveKeys(states) THEN Histories(states) \ {h}
                                                         ELSE Histories(states)
      <4>1. /\ LiveKeys(added) = LiveKeys(base) \cup {k}
            /\ \A j \in MemoryStateKey : j # k => added[j] = base[j]
        <5>1. count \in Nat
          BY <1>3
        <5> QED BY <5>1, AddedMap
      <4>2. /\ states' \in StatesMap /\ LiveKeys(states') = LiveKeys(added) \ {k}
            /\ \A j \in MemoryStateKey : j # k => states'[j] = added[j]
        BY <1>1, <3>1, DeletedMap
      <4>3. /\ LiveKeys(states') = LiveKeys(states) \ {k}
            /\ \A j \in LiveKeys(states') : states'[j] = states[j]
        BY <2>1, <4>1, <4>2 DEF LiveKeys
      <4> QED BY <1>3, <4>2, <4>3, HistoriesWithout
    <3>4. LogOf(written) \o <<event.id>> = Append(LogOf(written), event.id)
      BY <1>2, <1>3
    <3> QED BY <2>2, <2>3, <3>2, <3>3, <3>4 DEF JoinsHistory
  <2> QED BY <2>4, <2>5
<1> QED BY <1>4, <1>5

\* CLEAN_UP of a key writes its history, if it has one.
LEMMA CleanUpCloses ==
    ASSUME TypeOK, OnceInMap(states), NEW k \in MemoryStateKey, CleanUp(k)
    PROVE  \/ \E h \in Histories(states) :
                /\ Histories(states') = Histories(states) \ {h}
                /\ LogOf(written') = LogOf(written) \o h
           \/ Histories(states') = Histories(states) /\ LogOf(written') = LogOf(written)
<1>1. /\ states \in StatesMap /\ written \in Seq(Row) /\ states' = Deleted(states, k)
      /\ written' = written \o RowsAt(states, k)
  BY DEF TypeOK, CleanUp
<1>2. LogOf(written') = LogOf(written) \o LogOf(RowsAt(states, k)) /\ LogOf(written) \in Seq(Nat)
  BY <1>1, LogOfConcat, RowsOfKey
<1>3. Histories(states') = IF k \in LiveKeys(states) THEN Histories(states) \ {HistoryIn(states, k)}
                                                     ELSE Histories(states)
  <2>1. /\ states' \in StatesMap /\ LiveKeys(states') = LiveKeys(states) \ {k}
        /\ \A j \in MemoryStateKey : j # k => states'[j] = states[j]
    BY <1>1, DeletedMap
  <2>2. \A j \in LiveKeys(states') : states'[j] = states[j]
    BY <2>1 DEF LiveKeys
  <2> QED BY <1>1, <2>1, <2>2, HistoriesWithout
<1>4. CASE k \in LiveKeys(states)
  <2>1. HistoryIn(states, k) \in Histories(states)
    BY <1>4 DEF Histories
  <2> QED BY <1>1, <1>2, <1>3, <1>4, <2>1, LogOfRows
<1>5. CASE k \notin LiveKeys(states)
  <2>1. LogOf(RowsAt(states, k)) = << >>
    BY <1>1, <1>5, LogOfRows
  <2>2. LogOf(written) \o << >> = LogOf(written)
    BY <1>2
  <2> QED BY <1>2, <1>3, <1>5, <2>1, <2>2
<1> QED BY <1>4, <1>5

\* A record is only made while there is room for one.
LEMMA RecordsBounded == TypeOK /\ [Next]_vars => recordIndex' = recordIndex \/ recordIndex < MaxRecords
<1> SUFFICES ASSUME TypeOK, [Next]_vars, recordIndex' # recordIndex
             PROVE  recordIndex < MaxRecords
  OBVIOUS
<1>1. Application
  BY DEF Next, Loop, CleanUpOne, EndSetTraceStatus, EndExit, vars
<1>2. CanAct
  BY <1>1 DEF Application, HalMemAlloc, HalMemFree, PoolMalloc, PoolFree, MemAccess,
     BeginSetTraceStatus, BeginExit
<1> QED BY <1>2 DEF CanAct

\* What the refinement rests on: ids are cached once, and frees find their own state.
HistoryInv == HeapInv /\ HeapDisjoint /\ NoStrayFree /\ IdInv

\* A step joins one new event to a history, closes one, or changes neither.
LEMMA StepsJoinOrClose ==
    ASSUME ~Filtered, HistoryInv, [Next]_vars
    PROVE  \/ /\ JoinsHistory(recordIndex + 1)
              /\ recordIndex' = recordIndex + 1 /\ recordIndex < MaxRecords
           \/ /\ recordIndex' = recordIndex
              /\ \/ \E h \in Histories(states) :
                       /\ Histories(states') = Histories(states) \ {h}
                       /\ LogOf(written') = LogOf(written) \o h
                 \/ Histories(states') = Histories(states) /\ LogOf(written') = LogOf(written)
<1>1. TypeOK /\ OnceInMap(states) /\ NoStrayFree /\ recordIndex \in Nat
  BY DEF HistoryInv, HeapInv, IdInv, TypeOK
<1>2. ASSUME NEW event \in MemoryEvent, Report(event), event.id = recordIndex + 1, FreeIsOwn(event)
      PROVE  /\ JoinsHistory(recordIndex + 1)
             /\ recordIndex' = recordIndex + 1 /\ recordIndex < MaxRecords
  <2>1. HandleMemoryEvent(event) /\ recordIndex' = recordIndex + 1
    BY <1>2 DEF Report
  <2>2. recordIndex < MaxRecords
    BY <1>1, <2>1, RecordsBounded
  <2> QED BY <1>1, <1>2, <2>1, <2>2, HandlingJoins
<1>3. CASE \E k \in MemoryStateKey : CleanUp(k) /\ recordIndex' = recordIndex
  BY <1>1, <1>3, CleanUpCloses
<1>4. CASE UNCHANGED <<recordIndex, states, count, written>>
  BY <1>4
<1> QED BY <1>1, <1>2, <1>3, <1>4, CacheSteps

\* Without filters the tool keeps its promise: the output is the histories of blocks, each
\* written whole and once.
THEOREM HistoriesKept == ~Filtered => (Spec => KeepsHistories)
<1> SUFFICES ASSUME ~Filtered PROVE Spec => KeepsHistories
  OBVIOUS
<1>1. Init => HistoryInv
  BY InitIds, HeapInvInductive DEF HistoryInv
<1>2. HistoryInv /\ [Next]_vars => HistoryInv'
  BY HeapInvInductive, HeapDisjointStep, NoStrayFreeStep, IdInvStep DEF HistoryInv, HeapInv
<1>3. Init => History!Init
  <2> SUFFICES ASSUME Init PROVE History!Init
    OBVIOUS
  <2>1. LiveKeys(states) = {} /\ recordIndex = 0 /\ written = << >>
    BY DEF Init, EmptyMap, LiveKeys
  <2> QED BY <2>1 DEF History!Init, Ids
<1>4. HistoryInv /\ [Next]_vars => [History!Next]_(History!vars)
  <2> SUFFICES ASSUME HistoryInv, [Next]_vars PROVE [History!Next]_(History!vars)
    OBVIOUS
  <2>1. /\ {HistoryOf(k) : k \in LiveKeys(states)} = Histories(states)
        /\ {HistoryOf(k) : k \in LiveKeys(states)}' = Histories(states')
        /\ [i \in 1 .. Len(written) |-> written[i].event.id] = LogOf(written)
        /\ [i \in 1 .. Len(written) |-> written[i].event.id]' = LogOf(written')
    BY DEF HistoryOf, HistoryIn, Histories, LogOf
  <2>2. CASE /\ JoinsHistory(recordIndex + 1)
             /\ recordIndex' = recordIndex + 1 /\ recordIndex < MaxRecords
    <3>1. recordIndex \in Nat /\ recordIndex + 1 \in 1 .. MaxRecords
      BY <2>2, PipelineAssumption DEF HistoryInv, HeapInv, TypeOK
    <3>2. PICK id \in 1 .. MaxRecords : id = recordIndex + 1
      BY <3>1
    <3>3. JoinsHistory(id)
      BY <2>2, <3>2 DEF JoinsHistory
    <3>4. History!Happens(id)
      BY <2>2, <3>1, <3>2 DEF Ids, History!Happens
    <3>5. \/ History!Start(id) \/ History!StartAndFinish(id)
          \/ \E h \in Histories(states) :
                History!Supersede(id, h) \/ History!Continue(id, h) \/ History!Finish(id, h)
      BY <2>1, <3>3, <3>4 DEF JoinsHistory, History!Start, History!StartAndFinish,
         History!Supersede, History!Continue, History!Finish
    <3> QED BY <2>1, <3>5 DEF History!Next
  <2>3. ASSUME NEW h \in Histories(states), recordIndex' = recordIndex,
               Histories(states') = Histories(states) \ {h},
               LogOf(written') = LogOf(written) \o h
        PROVE  History!Next
    <3>1. Ids' = Ids
      BY <2>3 DEF Ids
    <3>2. History!Close(h)
      BY <2>1, <2>3, <3>1 DEF History!Close
    <3> QED BY <2>1, <3>2 DEF History!Next
  <2>4. CASE /\ recordIndex' = recordIndex
             /\ Histories(states') = Histories(states) /\ LogOf(written') = LogOf(written)
    BY <2>1, <2>4 DEF History!vars, Ids
  <2> QED BY <2>2, <2>3, <2>4, StepsJoinOrClose
<1> QED BY <1>1, <1>2, <1>3, <1>4, PTL DEF Spec, KeepsHistories, History!Spec

------------------------------------------------------------------------------------
(***************************************************************************)
(* The rows of one allocation id are the history of one block.             *)
(***************************************************************************)
\* HistoriesAreWhole and FreeMatchesMalloc of any rows.
Whole(w) ==
    \A i, j \in 1 .. Len(w) :
        /\ i < j
        /\ w[i].allocationId = w[j].allocationId
        /\ w[i].allocationId # 0
        => /\ w[j].event.type # "MALLOC"
           /\ w[i].event.type # "FREE"
           /\ \A m \in i .. j : w[m].allocationId = w[i].allocationId

Matches(w) ==
    \A i, j \in 1 .. Len(w) :
        /\ w[i].allocationId = w[j].allocationId
        /\ w[i].event.type = "MALLOC"
        /\ w[j].event.type = "FREE"
        => /\ w[j].event.size = w[i].event.size
           /\ w[i].event.pool = HAL => w[j].event.device = w[i].event.device

\* A block that was opened by its MALLOC has an allocation id.
MallocsNumbered(w) ==
    \A i \in 1 .. Len(w) : w[i].event.type = "MALLOC" => w[i].allocationId # 0

RowsInv(w) == Whole(w) /\ Matches(w) /\ MallocsNumbered(w)

\* What the rows of one key are: one id, the MALLOC first and the FREE last.
OneBlock(r) ==
    /\ \A i, j \in 1 .. Len(r) : r[i].allocationId = r[j].allocationId
    /\ \A i \in 1 .. Len(r) : /\ r[i].event.type = "MALLOC" => i = 1
                              /\ r[i].event.type = "FREE" => i = Len(r)
    /\ Matches(r) /\ MallocsNumbered(r)

\* No row of r continues a block of w; 0 is the id of no block.
NewBlock(w, r) ==
    \A i \in 1 .. Len(w), j \in 1 .. Len(r) :
        r[j].allocationId # 0 => w[i].allocationId # r[j].allocationId

\* Writing the rows of a block that has none yet keeps the rows of every block together.
LEMMA BlockWritten ==
    ASSUME NEW w \in Seq(Row), NEW r \in Seq(Row), RowsInv(w), OneBlock(r), NewBlock(w, r)
    PROVE  RowsInv(w \o r)
<1> DEFINE c == w \o r
           n == Len(w)
<1>1. /\ n \in Nat /\ Len(r) \in Nat /\ Len(c) = n + Len(r)
      /\ \A i \in 1 .. n : c[i] = w[i]
      /\ \A i \in n + 1 .. n + Len(r) : c[i] = r[i - n]
  OBVIOUS
<1>2. \A i \in 1 .. n + Len(r) : i \in 1 .. n \/ (i \in n + 1 .. n + Len(r) /\ i - n \in 1 .. Len(r))
  BY <1>1
<1>3. ASSUME NEW i \in 1 .. n, NEW j \in n + 1 .. n + Len(r)
      PROVE  c[i].allocationId = c[j].allocationId => c[j].allocationId = 0
  BY <1>1, <1>2, <1>3 DEF NewBlock
<1> HIDE DEF c, n
<1>4. Whole(c)
  <2> SUFFICES ASSUME NEW i \in 1 .. n + Len(r), NEW j \in 1 .. n + Len(r), i < j,
                      c[i].allocationId = c[j].allocationId, c[i].allocationId # 0
               PROVE  /\ c[j].event.type # "MALLOC"
                      /\ c[i].event.type # "FREE"
                      /\ \A m \in i .. j : c[m].allocationId = c[i].allocationId
    BY <1>1 DEF Whole
  <2>1. CASE j \in 1 .. n
    <3>1. i \in 1 .. n /\ i .. j \subseteq 1 .. n
      BY <1>1, <2>1
    <3>2. w[i].allocationId = w[j].allocationId /\ w[i].allocationId # 0
      BY <1>1, <2>1, <3>1
    <3>3. /\ w[j].event.type # "MALLOC" /\ w[i].event.type # "FREE"
          /\ \A m \in i .. j : w[m].allocationId = w[i].allocationId
      BY <2>1, <3>1, <3>2 DEF RowsInv, Whole, n
    <3> QED BY <1>1, <2>1, <3>1, <3>3
  <2>2. CASE j \in n + 1 .. n + Len(r)
    <3>1. i \in n + 1 .. n + Len(r)
      BY <1>2, <1>3, <2>2
    <3>2. \A m \in i .. j : m - n \in 1 .. Len(r) /\ c[m] = r[m - n]
      BY <1>1, <2>2, <3>1
    <3>3. j - n # 1 /\ i - n # Len(r) /\ i \in i .. j /\ j \in i .. j
      BY <1>1, <2>2, <3>1
    <3>4. r[j - n].event.type # "MALLOC" /\ r[i - n].event.type # "FREE"
      BY <3>2, <3>3 DEF OneBlock
    <3>5. \A m \in i .. j : r[m - n].allocationId = r[i - n].allocationId
      BY <3>2, <3>3 DEF OneBlock
    <3> QED BY <3>2, <3>3, <3>4, <3>5
  <2> QED BY <1>2, <2>1, <2>2
<1>5. MallocsNumbered(c)
  BY <1>1, <1>2 DEF MallocsNumbered, OneBlock, RowsInv, n
<1>6. Matches(c)
  <2> SUFFICES ASSUME NEW i \in 1 .. n + Len(r), NEW j \in 1 .. n + Len(r),
                      c[i].allocationId = c[j].allocationId,
                      c[i].event.type = "MALLOC", c[j].event.type = "FREE"
               PROVE  /\ c[j].event.size = c[i].event.size
                      /\ c[i].event.pool = HAL => c[j].event.device = c[i].event.device
    BY <1>1 DEF Matches
  <2>1. c[i].allocationId # 0
    BY <1>1, <1>5 DEF MallocsNumbered
  <2>2. CASE i \in 1 .. n /\ j \in 1 .. n
    BY <1>1, <2>2 DEF RowsInv, Matches, n
  <2>3. CASE i \in n + 1 .. n + Len(r) /\ j \in n + 1 .. n + Len(r)
    <3>1. /\ i - n \in 1 .. Len(r) /\ j - n \in 1 .. Len(r)
          /\ c[i] = r[i - n] /\ c[j] = r[j - n]
      BY <1>1, <2>3
    <3> QED BY <3>1 DEF OneBlock, Matches
  <2> QED BY <1>2, <1>3, <2>1, <2>2, <2>3
<1> QED BY <1>4, <1>5, <1>6 DEF RowsInv, c

\* A cached block: events of the pool of its key, the MALLOC first, no FREE yet.
Begun(m) ==
    \A k \in LiveKeys(m) :
        \A i \in 1 .. Len(m[k].events) :
            /\ m[k].events[i].pool = k[1]
            /\ m[k].events[i].type # "FREE"
            /\ m[k].events[i].type = "MALLOC" => i = 1

\* The rows of a cached block are one block.
LEMMA RowsOfBegun ==
    ASSUME NEW m \in StatesMap, NEW n, OwnAllocation(m, n), Begun(m), NEW k \in MemoryStateKey
    PROVE  OneBlock(RowsAt(m, k))
<1> DEFINE r == RowsAt(m, k)
<1>1. CASE k \notin LiveKeys(m)
  <2>1. r = << >>
    BY <1>1, RowsOfKey DEF LiveKeys
  <2> QED BY <2>1 DEF OneBlock, Matches, MallocsNumbered
<1>2. CASE k \in LiveKeys(m)
  <2>1. /\ Len(r) = Len(m[k].events)
        /\ \A i \in 1 .. Len(m[k].events) : r[i].event = m[k].events[i]
        /\ \A i \in 1 .. Len(r) : r[i].allocationId = m[k].allocationId
    BY <1>2, RowsOfKey, RowsAllocation DEF LiveKeys
  <2>2. m[k].allocationId \in 1 .. n
    BY <1>2 DEF OwnAllocation
  <2>3. \A i \in 1 .. Len(r) : /\ r[i].event.type # "FREE"
                               /\ r[i].event.type = "MALLOC" => i = 1
                               /\ r[i].allocationId # 0
    BY <1>2, <2>1, <2>2 DEF Begun
  <2> HIDE DEF r
  <2> QED BY <2>1, <2>3 DEF OneBlock, Matches, MallocsNumbered, r
<1> QED BY <1>1, <1>2

\* What a FREE knows of the block it ends.
Ends(m, e, k) ==
    k \in LiveKeys(m) /\ m[k].events[1].type = "MALLOC" =>
        /\ e.size = m[k].events[1].size
        /\ e.pool = HAL => e.device = m[k].events[1].device

\* The rows of a block that ends with its FREE are one block, under its id, the next one
\* or, for a block whose MALLOC is not cached, 0.
LEMMA RowsOfEnded ==
    ASSUME NEW m \in StatesMap, NEW n \in Nat, OwnAllocation(m, n), Begun(m),
           NEW e \in MemoryEvent, NEW k \in MemoryStateKey, e.type = "FREE", k[1] = e.pool,
           Ends(m, e, k)
    PROVE  /\ OneBlock(RowsAt(Added(m, n, e, k), k))
           /\ \A i \in 1 .. Len(RowsAt(Added(m, n, e, k), k)) :
                  \/ RowsAt(Added(m, n, e, k), k)[i].allocationId \in {0, n + 1}
                  \/ /\ k \in LiveKeys(m)
                     /\ RowsAt(Added(m, n, e, k), k)[i].allocationId = m[k].allocationId
<1> DEFINE a == Added(m, n, e, k)
           r == RowsAt(a, k)
<1>1. a \in StatesMap /\ k \in LiveKeys(a) /\ a[k] = StateWith(m, n, e, k)
  BY AddedMap
<1> HIDE DEF a
<1>2. /\ Len(r) = Len(a[k].events)
      /\ \A i \in 1 .. Len(a[k].events) : r[i].event = a[k].events[i]
      /\ \A i \in 1 .. Len(r) : r[i].allocationId = a[k].allocationId
  BY <1>1, RowsOfKey, RowsAllocation DEF LiveKeys
<1> HIDE DEF r
<1>3. CASE k \in LiveKeys(m)
  <2> DEFINE old == m[k].events
  <2>1. m[k] # NoState /\ Len(old) \in Nat \ {0} /\ old[1].pool = k[1]
    <3>1. m[k] # NoState /\ Len(old) \in Nat \ {0}
      BY <1>3, LiveState DEF LiveKeys
    <3> QED BY <1>3, <3>1 DEF Begun
  <2>2. /\ Len(r) = Len(old) + 1 /\ r[Len(old) + 1].event = e
        /\ \A i \in 1 .. Len(old) : r[i].event = old[i]
    <3>1. /\ Len(a[k].events) = Len(old) + 1 /\ a[k].events[Len(old) + 1] = e
          /\ \A i \in 1 .. Len(old) : a[k].events[i] = old[i]
      BY <1>1, <2>1, StateWithEvent
    <3> QED BY <1>2, <2>1, <3>1
  <2>3. a[k].allocationId = m[k].allocationId /\ m[k].allocationId \in 1 .. n
    BY <1>1, <1>3, <2>1 DEF StateWith, OwnAllocation
  <2>4. \A i \in 1 .. Len(old) : /\ old[i].type # "FREE"
                                 /\ old[i].type = "MALLOC" => i = 1
    BY <1>3 DEF Begun
  <2>5. old[1].type = "MALLOC" => /\ e.size = old[1].size
                                  /\ e.pool = HAL => e.device = old[1].device
    BY <1>3 DEF Ends
  <2> HIDE DEF old
  <2>6. \A i \in 1 .. Len(r) : i \in 1 .. Len(old) \/ i = Len(old) + 1
    BY <2>1, <2>2
  <2>7. \A i \in 1 .. Len(r) : /\ r[i].event.type = "MALLOC" => i = 1 /\ 1 \in 1 .. Len(old)
                               /\ r[i].event.type = "FREE" => i = Len(old) + 1
                               /\ r[i].allocationId = m[k].allocationId
    BY <1>2, <2>1, <2>2, <2>3, <2>4, <2>6
  <2>8. Matches(r)
    BY <2>2, <2>1, <2>5, <2>7 DEF Matches
  <2>9. MallocsNumbered(r)
    BY <2>3, <2>7 DEF MallocsNumbered
  <2>10. OneBlock(r)
    BY <2>2, <2>7, <2>8, <2>9 DEF OneBlock
  <2> QED BY <1>3, <2>7, <2>10 DEF r, a
<1>4. CASE k \notin LiveKeys(m)
  <2>1. a[k].events = <<e>> /\ a[k].allocationId \in {0, n + 1}
    BY <1>1, <1>4 DEF StateWith, LiveKeys
  <2>2. Len(r) = 1 /\ r[1].event = e /\ r[1].allocationId \in {0, n + 1}
    BY <1>2, <2>1
  <2>3. OneBlock(r)
    BY <2>2 DEF OneBlock, Matches, MallocsNumbered
  <2> QED BY <2>2, <2>3 DEF r, a
<1> QED BY <1>3, <1>4

\* The ids in the output are given out, and no cached block has one of them.
IdsSpent ==
    \A i \in 1 .. Len(written) :
        /\ written[i].allocationId <= count
        /\ \A k \in LiveKeys(states) : states[k].allocationId # written[i].allocationId

WrittenInv == RowsInv(written) /\ Begun(states) /\ IdsSpent

\* A step gives a state the next id, or an id that a state had.
IdsContinue ==
    /\ count' \in Nat /\ count <= count'
    /\ \A k \in LiveKeys(states') :
          \/ states'[k].allocationId = count + 1
          \/ \E j \in LiveKeys(states) : states'[k].allocationId = states[j].allocationId

\* Writing the rows of one block, with an id that is not spent, keeps blocks together.
LEMMA RowsWritten ==
    ASSUME TypeOK, AllocationInv, RowsInv(written), IdsSpent, IdsContinue, RowsEnd,
           NEW r \in Seq(Row), OneBlock(r), written' = written \o r,
           \A i \in 1 .. Len(r) :
               /\ r[i].allocationId <= count'
               /\ \/ r[i].allocationId \in {0, count + 1}
                  \/ \E j \in LiveKeys(states) : r[i].allocationId = states[j].allocationId
    PROVE  RowsInv(written') /\ IdsSpent'
<1>1. written \in Seq(Row) /\ count \in Nat
  BY DEF TypeOK
<1>2. \A i \in 1 .. Len(written) : written[i].allocationId \in Nat
  <2>1. \A i \in 1 .. Len(written) : written[i] \in Row
    BY <1>1, ElementOfSeq
  <2> QED BY <2>1 DEF Row
<1>3. NewBlock(written, r)
  <2> SUFFICES ASSUME NEW i \in 1 .. Len(written), NEW j \in 1 .. Len(r),
                      r[j].allocationId # 0, written[i].allocationId = r[j].allocationId
               PROVE  FALSE
    BY DEF NewBlock
  <2>1. written[i].allocationId \in Nat /\ written[i].allocationId <= count
    BY <1>2 DEF IdsSpent
  <2>2. \E k \in LiveKeys(states) : r[j].allocationId = states[k].allocationId
    BY <1>1, <2>1
  <2> QED BY <2>2 DEF IdsSpent
<1>4. RowsInv(written')
  BY <1>1, <1>3, BlockWritten
<1>5. /\ Len(written) \in Nat /\ Len(written') = Len(written) + Len(r) /\ Len(r) \in Nat
      /\ \A i \in 1 .. Len(written) : written'[i] = written[i]
      /\ \A i \in Len(written) + 1 .. Len(written') :
             i - Len(written) \in 1 .. Len(r) /\ written'[i] = r[i - Len(written)]
  BY <1>1
<1>6. ASSUME NEW i \in 1 .. Len(written')
      PROVE  /\ written'[i].allocationId <= count'
             /\ \A k \in LiveKeys(states') : states'[k].allocationId # written'[i].allocationId
  <2>1. CASE i \in 1 .. Len(written)
    <3>1. /\ written'[i] = written[i] /\ written[i].allocationId \in Nat
          /\ written[i].allocationId <= count
          /\ \A k \in LiveKeys(states) : states[k].allocationId # written[i].allocationId
      BY <1>2, <1>5, <2>1 DEF IdsSpent
    <3>2. written'[i].allocationId <= count' /\ written'[i].allocationId # count + 1
      BY <1>1, <3>1 DEF IdsContinue
    <3> QED BY <3>1, <3>2 DEF IdsContinue
  <2>2. CASE i \in Len(written) + 1 .. Len(written')
    <3>1. written'[i].allocationId <= count'
      BY <1>5, <2>2
    <3> QED BY <2>2, <3>1 DEF RowsEnd
  <2> QED BY <1>5, <2>1, <2>2
<1>7. IdsSpent'
  <2>1. IdsSpent' <=> \A i \in 1 .. Len(written') :
            /\ written'[i].allocationId <= count'
            /\ \A k \in LiveKeys(states') : states'[k].allocationId # written'[i].allocationId
    BY DEF IdsSpent, LiveKeys
  <2> QED BY <1>6, <2>1
<1> QED BY <1>4, <1>7

\* A FREE has the size of the MALLOC of its block: from the application, of which the cache
\* tells the truth, or for a driver block from the cache itself.
LEMMA FreeKnowsItsBlock ==
    ASSUME TypeOK, ~Filtered, MirrorsHeap, HeapDisjoint, NEW event \in MemoryEvent,
           event.type = "FREE", FreeOfBlock(event)
    PROVE  Ends(states, Completed(states, event), KeyOf(event))
<1> DEFINE own   == KeyOf(event)
           e     == Completed(states, event)
           first == states[own].events[1]
<1> SUFFICES ASSUME own \in LiveKeys(states), first.type = "MALLOC"
             PROVE  e.size = first.size /\ (e.pool = HAL => e.device = first.device)
  BY DEF Ends
<1>1. /\ own = <<event.pool, event.addr>> /\ own[1] = event.pool /\ own[2] = event.addr
      /\ e.pool = event.pool /\ event.pool \in Pools
  BY CompletedEvent DEF KeyOf, TypeOK, MemoryEvent
<1>2. CASE event.pool = HAL
  <2>1. event.device = NA /\ states[own] # NoState
    BY <1>2 DEF FreeOfBlock, LiveKeys
  <2>2. e = [event EXCEPT !.device = first.device, !.size = first.size]
    BY <1>2, <2>1 DEF Completed
  <2> QED BY <2>2 DEF MemoryEvent
<1>3. CASE event.pool # HAL
  <2>1. [addr |-> event.addr, size |-> event.size] \in heap[event.pool]
    BY <1>3 DEF FreeOfBlock
  <2>2. [addr |-> event.addr, size |-> first.size] \in heap[event.pool]
    BY <1>1 DEF MirrorsHeap
  <2>3. PICK b \in heap[event.pool], c \in heap[event.pool] :
            b.addr = c.addr /\ b.size = event.size /\ c.size = first.size
    BY <2>1, <2>2
  <2>4. b \in Block /\ c \in Block
    BY <1>1 DEF TypeOK
  <2>5. b = c
    BY <1>1, <2>3, <2>4, BlockFacts DEF HeapDisjoint
  <2>6. e.size = event.size
    BY <1>3, CompletedEvent DEF TypeOK
  <2> QED BY <1>1, <1>3, <2>3, <2>5, <2>6
<1> QED BY <1>2, <1>3

\* An event leaves its receiver begun: a MALLOC is the first of a new state, and a FREE
\* goes with the state that its key held.
LEMMA AddedBegun ==
    ASSUME NEW m \in StatesMap, Begun(m), NEW n \in Nat, NEW e \in MemoryEvent,
           NEW k \in Receivers(m, e), e.type # "FREE", ~Refuses(m, e)
    PROVE  Begun(Added(m, n, e, k))
<1> DEFINE a == Added(m, n, e, k)
<1>1. k \in MemoryStateKey /\ k[1] = e.pool
  BY ReceiverKey
<1>2. /\ LiveKeys(a) = LiveKeys(m) \cup {k} /\ a[k] = StateWith(m, n, e, k)
      /\ \A j \in MemoryStateKey : j # k => a[j] = m[j]
  BY <1>1, AddedMap
<1>3. /\ k \in LiveKeys(m) =>
           /\ m[k] # NoState /\ Len(m[k].events) \in Nat
           /\ Len(a[k].events) = Len(m[k].events) + 1
           /\ a[k].events[Len(m[k].events) + 1] = e
           /\ \A i \in 1 .. Len(m[k].events) : a[k].events[i] = m[k].events[i]
      /\ k \notin LiveKeys(m) => a[k].events = <<e>>
  BY <1>1, <1>2, StateWithEvent, LiveState DEF LiveKeys
<1>4. k \in LiveKeys(m) => e.type # "MALLOC"
  BY DEF Receivers, Refuses, LiveKeys
<1> HIDE DEF a
<1> SUFFICES ASSUME NEW j \in LiveKeys(a), NEW i \in 1 .. Len(a[j].events)
             PROVE  /\ a[j].events[i].pool = j[1]
                    /\ a[j].events[i].type # "FREE"
                    /\ a[j].events[i].type = "MALLOC" => i = 1
  BY DEF Begun, a
<1>5. CASE j # k
  <2>1. j \in LiveKeys(m) /\ a[j] = m[j]
    BY <1>2, <1>5 DEF LiveKeys
  <2> QED BY <2>1 DEF Begun
<1>6. CASE j = k /\ k \in LiveKeys(m)
  <2>1. i \in 1 .. Len(m[k].events) \/ i = Len(m[k].events) + 1
    BY <1>3, <1>6
  <2>2. CASE i \in 1 .. Len(m[k].events)
    BY <1>3, <1>6, <2>2 DEF Begun
  <2>3. CASE i = Len(m[k].events) + 1
    <3>1. a[j].events[i] = e /\ e.type # "MALLOC"
      BY <1>3, <1>4, <1>6, <2>3
    <3> QED BY <1>1, <1>6, <3>1
  <2> QED BY <2>1, <2>2, <2>3
<1>7. CASE j = k /\ k \notin LiveKeys(m)
  <2>1. a[j].events = <<e>>
    BY <1>3, <1>7
  <2>2. i = 1
    BY <2>1
  <2> QED BY <1>1, <1>7, <2>1, <2>2
<1> QED BY <1>5, <1>6, <1>7

LEMMA BegunWithout ==
    ASSUME NEW m \in StatesMap, Begun(m), NEW d, LiveKeys(d) \subseteq LiveKeys(m),
           \A j \in LiveKeys(d) : d[j] = m[j]
    PROVE  Begun(d)
  BY DEF Begun

\* The id that an event leaves at its receiver is the one found there, the next one, or,
\* at the default entry that a driver FREE makes and deletes, 0.
LEMMA AddedId ==
    ASSUME NEW m \in StatesMap, NEW n \in Nat, NEW e \in MemoryEvent, NEW k \in MemoryStateKey
    PROVE  /\ k \in LiveKeys(m) => Added(m, n, e, k)[k].allocationId = m[k].allocationId
           /\ k \notin LiveKeys(m) =>
                 \/ /\ Added(m, n, e, k)[k].allocationId = n + 1
                    /\ CountAfter(m, n, e, k) = n + 1
                 \/ CreatesDefault(m, e)
           /\ CountAfter(m, n, e, k) \in Nat /\ n <= CountAfter(m, n, e, k)
<1>1. Added(m, n, e, k)[k] = StateWith(m, n, e, k)
  BY AddedMap
<1>2. CountAfter(m, n, e, k) \in {n, n + 1}
  BY DEF CountAfter
<1>3. /\ k \in LiveKeys(m) => StateWith(m, n, e, k).allocationId = m[k].allocationId
      /\ k \notin LiveKeys(m) /\ ~CreatesDefault(m, e) =>
            /\ StateWith(m, n, e, k).allocationId = n + 1
            /\ CountAfter(m, n, e, k) = n + 1
  BY DEF StateWith, CountAfter, LiveKeys
<1> QED BY <1>1, <1>2, <1>3

\* EventHandler gives states the next id, or leaves them theirs.
LEMMA HandlingContinues ==
    ASSUME TypeOK, NEW event \in MemoryEvent, HandleMemoryEvent(event), FreeIsOwn(event)
    PROVE  IdsContinue
<1> DEFINE own == KeyOf(event)
<1>1. PICK e \in MemoryEvent, base \in StatesMap, k \in MemoryStateKey :
              /\ Handles(event, e, base, k)
              /\ Added(base, count, e, k) \in StatesMap
  BY Handling
<1> DEFINE added == Added(base, count, e, k)
<1>2. /\ e = Completed(states, event) /\ e.type = event.type /\ own = KeyOf(e)
      /\ own \in MemoryStateKey /\ k \in Receivers(base, e)
      /\ base = IF Refuses(states, e) THEN Deleted(states, own) ELSE states
      /\ states' = IF e.type = "FREE" THEN Deleted(added, own) ELSE added
      /\ count' = CountAfter(base, count, e, k)
  BY <1>1, CompletedEvent DEF Handles, TypeOK
<1>3. count \in Nat /\ states \in StatesMap
  BY DEF TypeOK
<1>4. \A j \in LiveKeys(base) : j \in LiveKeys(states) /\ base[j] = states[j]
  BY <1>2, <1>3, DeletedMap DEF LiveKeys
<1>5. /\ LiveKeys(added) = LiveKeys(base) \cup {k}
      /\ \A j \in MemoryStateKey : j # k => added[j] = base[j]
  BY <1>3, AddedMap
<1>6. /\ k \in LiveKeys(base) => added[k].allocationId = base[k].allocationId
      /\ k \notin LiveKeys(base) =>
            added[k].allocationId = count + 1 \/ CreatesDefault(base, e)
      /\ count' \in Nat /\ count <= count'
  BY <1>2, <1>3, AddedId
<1>7. CreatesDefault(base, e) => e.type = "FREE" /\ k = own
  BY <1>2 DEF CreatesDefault, Receivers
<1>8. added \in StatesMap
  BY <1>1
<1> HIDE DEF added
<1>9. /\ \A j \in LiveKeys(states') : j \in LiveKeys(added) /\ states'[j] = added[j]
      /\ e.type = "FREE" => own \notin LiveKeys(states')
  BY <1>2, <1>8, DeletedMap DEF LiveKeys
<1>10. ASSUME NEW j \in LiveKeys(states')
       PROVE  \/ states'[j].allocationId = count + 1
              \/ \E l \in LiveKeys(states) : states'[j].allocationId = states[l].allocationId
  <2>1. j \in LiveKeys(added) /\ states'[j] = added[j] /\ j \in MemoryStateKey
    BY <1>9 DEF LiveKeys
  <2>2. CASE j # k
    BY <1>4, <1>5, <2>1, <2>2
  <2>3. CASE j = k
    <3>1. ~CreatesDefault(base, e)
      BY <1>7, <1>9, <2>3
    <3> QED BY <1>4, <1>6, <2>1, <2>3, <3>1
  <2> QED BY <2>2, <2>3
<1> QED BY <1>6, <1>10 DEF IdsContinue

\* An event keeps what is written in blocks: it writes the block whose place a MALLOC takes,
\* or the one a FREE ends.
LEMMA HandlingWrites ==
    ASSUME TypeOK, AllocationInv, WrittenInv, ~Filtered, MirrorsHeap, HeapDisjoint,
           NEW event \in MemoryEvent, HandleMemoryEvent(event),
           FreeIsOwn(event), FreeOfBlock(event)
    PROVE  WrittenInv'
<1> DEFINE own == KeyOf(event)
<1>1. PICK e \in MemoryEvent, base \in StatesMap, k \in MemoryStateKey :
              /\ Handles(event, e, base, k)
              /\ Added(base, count, e, k) \in StatesMap
  BY Handling
<1> DEFINE added == Added(base, count, e, k)
<1>2. /\ e = Completed(states, event) /\ e.type = event.type /\ own = KeyOf(e)
      /\ own \in MemoryStateKey /\ k \in Receivers(base, e) /\ own[1] = e.pool
      /\ base = IF Refuses(states, e) THEN Deleted(states, own) ELSE states
      /\ states' = IF e.type = "FREE" THEN Deleted(added, own) ELSE added
      /\ count' = CountAfter(base, count, e, k)
  BY <1>1, CompletedEvent DEF Handles, TypeOK, KeyOf
<1>3. /\ count \in Nat /\ states \in StatesMap /\ written \in Seq(Row)
      /\ RowsInv(written) /\ Begun(states) /\ IdsSpent /\ OwnAllocation(states, count)
  BY DEF TypeOK, WrittenInv, AllocationInv
<1>4. IdsContinue /\ RowsEnd
  BY HandlingContinues, HandlingAllocation
<1>5. Begun(base)
  <2>1. /\ LiveKeys(base) \subseteq LiveKeys(states)
        /\ \A j \in LiveKeys(base) : base[j] = states[j]
    BY <1>2, <1>3, DeletedMap DEF LiveKeys
  <2> QED BY <1>3, <2>1, BegunWithout
<1>6. CASE Refuses(states, e)
  <2>1. /\ base = Deleted(states, own) /\ k = own /\ e.type # "FREE" /\ states' = added
        /\ written' = written \o RowsAt(states, own) /\ own \in LiveKeys(states)
    BY <1>1, <1>2, <1>6 DEF Handles, Refuses, StaleRows, Receivers, LiveKeys
  <2>2. ~Refuses(base, e)
    BY <1>2, <1>3, <2>1, DeletedMap DEF Refuses
  <2>3. Begun(states')
    BY <1>2, <1>3, <1>5, <2>1, <2>2, AddedBegun
  <2>4. OneBlock(RowsAt(states, own)) /\ RowsAt(states, own) \in Seq(Row)
    BY <1>2, <1>3, RowsOfBegun, RowsOfKey
  <2>5. \A i \in 1 .. Len(RowsAt(states, own)) :
            /\ RowsAt(states, own)[i].allocationId = states[own].allocationId
            /\ states[own].allocationId <= count'
    <3>1. states[own].allocationId \in 1 .. count
      BY <1>3, <2>1 DEF OwnAllocation
    <3> QED BY <1>2, <1>3, <1>4, <3>1, RowsAllocation DEF IdsContinue
  <2>6. RowsInv(written') /\ IdsSpent'
    BY <1>3, <1>4, <2>1, <2>4, <2>5, RowsWritten
  <2> QED BY <2>3, <2>6 DEF WrittenInv, Begun, LiveKeys
<1>7. CASE ~Refuses(states, e)
  <2>1. /\ base = states /\ k \in Receivers(states, e)
        /\ written' = IF e.type = "FREE" THEN written \o RowsAt(added, k) ELSE written
    <3>1. base = states /\ StaleRows(e) = << >>
      BY <1>1, <1>7 DEF Handles, StaleRows
    <3>2. written \o << >> = written
      BY <1>3
    <3> QED BY <1>1, <1>2, <3>1, <3>2 DEF Handles
  <2>2. CASE e.type # "FREE"
    <3>1. Begun(states')
      BY <1>2, <1>3, <1>7, <2>1, <2>2, AddedBegun
    <3> DEFINE r == << >>
    <3>2. r \in Seq(Row) /\ Len(r) = 0 /\ written \o r = written
      BY <1>3
    <3> HIDE DEF r
    <3>3. written' = written \o r
      BY <2>1, <2>2, <3>2
    <3>4. OneBlock(r)
      BY <3>2 DEF OneBlock, Matches, MallocsNumbered
    <3>5. RowsInv(written') /\ IdsSpent'
      <4>1. \A i \in 1 .. Len(r) : FALSE
        BY <3>2
      <4> QED BY <1>3, <1>4, <3>2, <3>3, <3>4, <4>1, RowsWritten
    <3> QED BY <3>1, <3>5 DEF WrittenInv, Begun, LiveKeys
  <2>3. CASE e.type = "FREE"
    <3>1. k = own /\ states' = Deleted(added, own) /\ written' = written \o RowsAt(added, own)
      BY <1>2, <2>1, <2>3 DEF FreeIsOwn
    <3>7. count \in Nat
      BY <1>3
    <3>8. /\ LiveKeys(added) = LiveKeys(states) \cup {own}
          /\ added[own] = StateWith(states, count, e, own)
          /\ \A j \in MemoryStateKey : j # own => added[j] = states[j]
      <4>1. /\ LiveKeys(added) = LiveKeys(base) \cup {k}
            /\ added[k] = StateWith(base, count, e, k)
            /\ \A j \in MemoryStateKey : j # k => added[j] = base[j]
        BY <3>7, AddedMap
      <4> HIDE DEF added, own
      <4> QED BY <2>1, <3>1, <4>1
    <3>2. Ends(states, e, own)
      BY <1>2, <2>3, FreeKnowsItsBlock
    <3>3. /\ OneBlock(RowsAt(added, own)) /\ RowsAt(added, own) \in Seq(Row)
          /\ \A i \in 1 .. Len(RowsAt(added, own)) :
                \/ RowsAt(added, own)[i].allocationId \in {0, count + 1}
                \/ /\ own \in LiveKeys(states)
                   /\ RowsAt(added, own)[i].allocationId = states[own].allocationId
      BY <1>1, <1>2, <1>3, <2>1, <2>3, <3>1, <3>2, RowsOfEnded, RowsOfKey
    <3>4. \A i \in 1 .. Len(RowsAt(added, own)) : RowsAt(added, own)[i].allocationId <= count'
      <4>1. \A i \in 1 .. Len(RowsAt(added, own)) :
                RowsAt(added, own)[i].allocationId = added[own].allocationId
        BY <1>1, <1>2, <3>1, RowsAllocation
      <4>2. added[own].allocationId <= count'
        <5>1. /\ own \in LiveKeys(states) => added[own].allocationId = states[own].allocationId
              /\ own \notin LiveKeys(states) =>
                    \/ added[own].allocationId = count + 1 /\ count' = count + 1
                    \/ CreatesDefault(states, e)
              /\ count' \in Nat /\ count <= count'
          <6>1. /\ k \in LiveKeys(base) => added[k].allocationId = base[k].allocationId
                /\ k \notin LiveKeys(base) =>
                      \/ added[k].allocationId = count + 1 /\ count' = count + 1
                      \/ CreatesDefault(base, e)
                /\ count' \in Nat /\ count <= count'
            BY <1>2, <3>7, AddedId
          <6> HIDE DEF added, own
          <6> QED BY <2>1, <3>1, <6>1
        <5>2. own \in LiveKeys(states) => states[own].allocationId \in 1 .. count
          BY <1>3 DEF OwnAllocation
        <5>3. CreatesDefault(states, e) => added[own].allocationId = 0
          <6>1. added[own] = StateWith(states, count, e, own)
            BY <3>8
          <6>2. CreatesDefault(states, e) => states[own] = NoState
            BY <1>2 DEF CreatesDefault
          <6> QED BY <6>1, <6>2 DEF StateWith
        <5> HIDE DEF added, own
        <5> QED BY <1>3, <5>1, <5>2, <5>3
      <4> QED BY <4>1, <4>2
    <3>5. RowsInv(written') /\ IdsSpent'
      BY <1>3, <1>4, <3>1, <3>3, <3>4, RowsWritten
    <3>6. Begun(states')
      <4>1. /\ LiveKeys(states') = LiveKeys(added) \ {own}
            /\ \A j \in MemoryStateKey : j # own => states'[j] = added[j]
        BY <1>1, <1>2, <3>1, DeletedMap
      <4>2. /\ LiveKeys(added) = LiveKeys(states) \cup {own}
            /\ \A j \in MemoryStateKey : j # own => added[j] = states[j]
        BY <3>8
      <4>3. /\ LiveKeys(states') \subseteq LiveKeys(states)
            /\ \A j \in LiveKeys(states') : states'[j] = states[j]
        BY <4>1, <4>2 DEF LiveKeys
      <4> QED BY <1>3, <4>3, BegunWithout
    <3> QED BY <3>5, <3>6 DEF WrittenInv, Begun, LiveKeys
  <2> QED BY <2>2, <2>3
<1> QED BY <1>6, <1>7

\* What the written histories rest on: the truth of the cache, which gives every FREE the
\* size of its MALLOC, and ids that no two blocks share.
WholeInv == HistoryInv /\ AllocationInv /\ (~Filtered => WrittenInv)

LEMMA WholeInvInductive == (Init => WholeInv) /\ (WholeInv /\ [Next]_vars => WholeInv')
<1>1. ASSUME Init PROVE WholeInv
  <2>1. HistoryInv
    BY <1>1, InitIds, HeapInvInductive DEF HistoryInv
  <2>2. LiveKeys(states) = {} /\ Len(written) = 0
    BY <1>1 DEF Init, EmptyMap, LiveKeys
  <2>3. AllocationInv /\ WrittenInv
    BY <2>2 DEF AllocationInv, OwnAllocation, WrittenInv, RowsInv, Whole, Matches,
       MallocsNumbered, Begun, IdsSpent
  <2> QED BY <2>1, <2>3 DEF WholeInv
<1>2. ASSUME WholeInv, [Next]_vars PROVE WholeInv'
  <2>1. /\ TypeOK /\ HeapInv /\ HeapDisjoint /\ NoStrayFree /\ IdInv /\ AllocationInv
        /\ MirrorsHeap /\ LoopCovers /\ EmptyWhileStopped
    BY <1>2 DEF WholeInv, HistoryInv, HeapInv
  <2>2. HistoryInv' /\ AllocationInv'
    BY <1>2, <2>1, HeapInvInductive, HeapDisjointStep, NoStrayFreeStep, IdInvStep, AllocationStep
       DEF HistoryInv
  <2>3. ASSUME ~Filtered PROVE WrittenInv'
    <3>1. WrittenInv
      BY <1>2, <2>3 DEF WholeInv
    <3>2. ASSUME NEW event \in MemoryEvent, Report(event), FreeOfBlock(event), FreeIsOwn(event)
          PROVE  WrittenInv'
      <4>1. HandleMemoryEvent(event)
        BY <3>2 DEF Report
      <4> QED BY <2>1, <2>3, <3>1, <3>2, <4>1, HandlingWrites
    <3>3. ASSUME NEW k \in MemoryStateKey, CleanUp(k) PROVE WrittenInv'
      <4>1. /\ written' = written \o RowsAt(states, k) /\ states' = Deleted(states, k)
            /\ count' = count /\ count \in Nat /\ states \in StatesMap /\ written \in Seq(Row)
            /\ Begun(states) /\ RowsInv(written) /\ IdsSpent /\ OwnAllocation(states, count)
        BY <2>1, <3>1, <3>3 DEF CleanUp, TypeOK, WrittenInv, AllocationInv
      <4>2. /\ LiveKeys(states') \subseteq LiveKeys(states)
            /\ \A j \in LiveKeys(states') : states'[j] = states[j]
        BY <4>1, DeletedMap DEF LiveKeys
      <4>3. Begun(states') /\ IdsContinue /\ RowsEnd
        BY <1>2, <2>1, <2>3, <4>1, <4>2, BegunWithout, AllocationStep DEF IdsContinue
      <4>4. OneBlock(RowsAt(states, k)) /\ RowsAt(states, k) \in Seq(Row)
        BY <4>1, RowsOfBegun, RowsOfKey
      <4>5. \A i \in 1 .. Len(RowsAt(states, k)) :
                /\ k \in LiveKeys(states)
                /\ RowsAt(states, k)[i].allocationId = states[k].allocationId
                /\ states[k].allocationId <= count'
        BY <4>1, RowsAllocation DEF OwnAllocation
      <4>6. RowsInv(written') /\ IdsSpent'
        BY <2>1, <4>1, <4>3, <4>4, <4>5, RowsWritten
      <4> QED BY <4>3, <4>6 DEF WrittenInv, Begun, LiveKeys
    <3>4. CASE UNCHANGED <<recordIndex, states, count, written>>
      BY <3>1, <3>4 DEF WrittenInv, RowsInv, Whole, Matches, MallocsNumbered, Begun, IdsSpent,
         LiveKeys
    <3> QED BY <1>2, <2>1, <2>3, <3>2, <3>3, <3>4, CacheSteps
  <2> QED BY <2>2, <2>3 DEF WholeInv
<1> QED BY <1>1, <1>2

\* Without filters the rows of an allocation id are the history of one block: together in
\* the output, the MALLOC only first and the FREE only last.
THEOREM HistoriesAreOneBlock == Spec => []HistoriesAreWhole
<1>1. WholeInv => HistoriesAreWhole
  BY DEF WholeInv, WrittenInv, RowsInv, Whole, HistoriesAreWhole
<1> QED BY <1>1, WholeInvInductive, PTL DEF Spec

\* Without filters a FREE is written with the size of the MALLOC it ends, and for a driver
\* block, whose free call knows neither, with its device.
THEOREM FreesMatchMallocs == Spec => []FreeMatchesMalloc
<1>1. WholeInv => FreeMatchesMalloc
  BY DEF WholeInv, WrittenInv, RowsInv, Matches, FreeMatchesMalloc
<1> QED BY <1>1, WholeInvInductive, PTL DEF Spec
=============================================================================
