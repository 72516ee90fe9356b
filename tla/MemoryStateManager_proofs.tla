-------------------------- MODULE MemoryStateManager_proofs --------------------------
(***************************************************************************)
(* Facts about the operations of the cache, for the proofs about           *)
(* EventPipeline and EventThreads.                                         *)
(***************************************************************************)
EXTENDS MemoryStateManager, SequenceTheorems, WellFoundedInduction, TLAPS

\* A state that is there is a MemoryState: its events are a nonempty sequence.
LEMMA LiveState ==
    ASSUME NEW m \in StatesMap, NEW k \in LiveKeys(m)
    PROVE  /\ k \in MemoryStateKey
           /\ m[k] \in MemoryState
           /\ m[k].events \in Seq(MemoryEvent)
           /\ Len(m[k].events) \in Nat \ {0}
           /\ m[k].events[1] \in MemoryEvent
<1>1. k \in MemoryStateKey /\ m[k] \in MemoryState
  BY DEF StatesMap, LiveKeys
<1>2. m[k].events \in Seq(MemoryEvent) /\ m[k].events # << >>
  BY <1>1 DEF MemoryState
<1>3. Len(m[k].events) \in Nat \ {0}
  BY <1>2, EmptySeq
<1>4. m[k].events[1] \in MemoryEvent
  BY <1>2, <1>3, ElementOfSeq
<1> QED
  BY <1>1, <1>2, <1>3, <1>4

\* AddEvent completes an event without changing what identifies it.
LEMMA CompletedEvent ==
    ASSUME NEW m \in StatesMap, NEW e \in MemoryEvent
    PROVE  /\ Completed(m, e) \in MemoryEvent
           /\ Completed(m, e).id = e.id
           /\ Completed(m, e).type = e.type
           /\ KeyOf(Completed(m, e)) = KeyOf(e)
           /\ KeyOf(e) \in MemoryStateKey
           /\ e.type # "FREE" \/ e.pool # HAL => Completed(m, e).size = e.size
           /\ Completed(m, e).pool = e.pool
           /\ Completed(m, e).addr = e.addr
<1>1. KeyOf(e) \in MemoryStateKey
  BY DEF KeyOf, MemoryStateKey, MemoryEvent
<1>2. CASE m[KeyOf(e)] = NoState
  BY <1>1, <1>2 DEF Completed
<1>3. CASE m[KeyOf(e)] # NoState
  <2> DEFINE first == m[KeyOf(e)].events[1]
  <2>1. first \in MemoryEvent
    BY <1>1, <1>3, LiveState DEF LiveKeys
  <2>2. first.device \in Devices \cup {NA} /\ first.size \in Sizes \cup {0}
    BY <2>1 DEF MemoryEvent
  <2>3. Completed(m, e) =
          [e EXCEPT !.device = IF e.device = NA THEN first.device ELSE e.device,
                    !.size = IF e.type = "FREE" /\ e.pool = HAL /\ first.type = "MALLOC"
                             THEN first.size ELSE e.size]
    BY <1>3 DEF Completed
  <2> HIDE DEF first
  <2>4. QED
    BY <1>1, <2>2, <2>3 DEF MemoryEvent, KeyOf
<1> QED
  BY <1>2, <1>3

\* The receiver of an event is a key, and it is live when it is not the event's own.
LEMMA ReceiverKey ==
    ASSUME NEW m \in StatesMap, NEW e \in MemoryEvent, NEW k \in Receivers(m, e)
    PROVE  /\ k \in MemoryStateKey
           /\ k # KeyOf(e) => k \in Enclosing(m, e)
           /\ k[1] = e.pool
<1>1. KeyOf(e) \in MemoryStateKey /\ KeyOf(e)[1] = e.pool
  BY DEF KeyOf, MemoryStateKey, MemoryEvent
<1>2. k = KeyOf(e) \/ k \in Enclosing(m, e)
  BY DEF Receivers, FindStateInPool
<1>3. k \in Enclosing(m, e) => k \in MemoryStateKey /\ k[1] = e.pool
  BY DEF Enclosing, LiveKeys, Contains
<1> QED
  BY <1>1, <1>2, <1>3

\* What an accepted event leaves at its receiver: a state whose events are those of
\* the state found there, if any, and the new one at the end.
LEMMA StateWithEvent ==
    ASSUME NEW m \in StatesMap, NEW n \in Nat, NEW e \in MemoryEvent,
           NEW k \in MemoryStateKey
    PROVE  /\ StateWith(m, n, e, k) \in MemoryState
           /\ m[k] # NoState =>
                /\ StateWith(m, n, e, k).events = Append(m[k].events, e)
                /\ StateWith(m, n, e, k).size = m[k].size
                /\ Len(StateWith(m, n, e, k).events) = Len(m[k].events) + 1
                /\ StateWith(m, n, e, k).events[Len(m[k].events) + 1] = e
                /\ \A i \in 1 .. Len(m[k].events) :
                      StateWith(m, n, e, k).events[i] = m[k].events[i]
           /\ m[k] = NoState =>
                /\ StateWith(m, n, e, k).events = <<e>>
                /\ StateWith(m, n, e, k).size \in {0, e.size}
<1> DEFINE s == StateWith(m, n, e, k)
<1>1. CASE m[k] # NoState
  <2>1. m[k] \in MemoryState
    BY <1>1 DEF StatesMap
  <2>2. s = [m[k] EXCEPT !.events = Append(m[k].events, e)]
    BY <1>1 DEF StateWith
  <2>3. m[k].events \in Seq(MemoryEvent)
    BY <2>1 DEF MemoryState
  <2>4. Append(m[k].events, e) \in Seq(MemoryEvent) \ {<< >>}
    BY <2>3
  <2>5. s \in MemoryState /\ s.events = Append(m[k].events, e) /\ s.size = m[k].size
    BY <2>1, <2>2, <2>4 DEF MemoryState
  <2> HIDE DEF s
  <2>6. /\ Len(s.events) = Len(m[k].events) + 1
        /\ s.events[Len(m[k].events) + 1] = e
        /\ \A i \in 1 .. Len(m[k].events) : s.events[i] = m[k].events[i]
    BY <2>3, <2>5
  <2>7. QED
    BY <1>1, <2>5, <2>6 DEF s
<1>2. CASE m[k] = NoState
  <2>1. <<e>> \in Seq(MemoryEvent) \ {<< >>}
    OBVIOUS
  <2>2. s = [events       |-> <<e>>,
             size         |-> IF CreatesDefault(m, e) THEN 0 ELSE e.size,
             allocationId |-> IF CreatesDefault(m, e) THEN 0 ELSE n + 1]
    BY <1>2 DEF StateWith
  <2>3. e.size \in Sizes \cup {0}
    BY DEF MemoryEvent
  <2>4. s \in MemoryState
    BY <2>1, <2>2, <2>3 DEF MemoryState
  <2>5. QED
    BY <1>2, <2>2, <2>4
<1> QED
  BY <1>1, <1>2

\* Adding and deleting keep the cache a map of states.
LEMMA AddedMap ==
    ASSUME NEW m \in StatesMap, NEW n \in Nat, NEW e \in MemoryEvent,
           NEW k \in MemoryStateKey
    PROVE  /\ Added(m, n, e, k) \in StatesMap
           /\ CountAfter(m, n, e, k) \in Nat
           /\ LiveKeys(Added(m, n, e, k)) = LiveKeys(m) \cup {k}
           /\ Added(m, n, e, k)[k] = StateWith(m, n, e, k)
           /\ \A j \in MemoryStateKey : j # k => Added(m, n, e, k)[j] = m[j]
<1>1. StateWith(m, n, e, k) \in MemoryState
  BY StateWithEvent
<1>2. StateWith(m, n, e, k) # NoState
  BY <1>1, NoStateAssumption
<1> QED
  BY <1>1, <1>2 DEF Added, StatesMap, CountAfter, LiveKeys

LEMMA DeletedMap ==
    ASSUME NEW m \in StatesMap, NEW k \in MemoryStateKey
    PROVE  /\ Deleted(m, k) \in StatesMap
           /\ LiveKeys(Deleted(m, k)) = LiveKeys(m) \ {k}
           /\ Deleted(m, k)[k] = NoState
           /\ \A j \in MemoryStateKey : j # k => Deleted(m, k)[j] = m[j]
  BY DEF Deleted, StatesMap, LiveKeys

\* The rows of a key are one row per event of its state.
LEMMA RowsOfKey ==
    ASSUME NEW m \in StatesMap, NEW k \in MemoryStateKey
    PROVE  /\ RowsAt(m, k) \in Seq(Row)
           /\ m[k] = NoState => RowsAt(m, k) = << >>
           /\ m[k] # NoState =>
                /\ Len(RowsAt(m, k)) = Len(m[k].events)
                /\ \A i \in 1 .. Len(m[k].events) :
                       RowsAt(m, k)[i].event = m[k].events[i]
<1>1. CASE m[k] = NoState
  BY <1>1 DEF RowsAt
<1>2. CASE m[k] # NoState
  <2>1. /\ m[k] \in MemoryState
        /\ m[k].events \in Seq(MemoryEvent)
        /\ Len(m[k].events) \in Nat
    BY <1>2, LiveState DEF LiveKeys
  <2> DEFINE n == Len(m[k].events)
             row(i) == [event |-> m[k].events[i], allocationId |-> m[k].allocationId]
  <2>2. \A i \in 1 .. n : m[k].events[i] \in MemoryEvent
    BY <2>1, ElementOfSeq
  <2>3. \A i \in 1 .. n : row(i) \in Row
    BY <2>1, <2>2 DEF Row, MemoryState
  <2>4. RowsAt(m, k) = [i \in 1 .. n |-> row(i)]
    BY <1>2 DEF RowsAt, Rows
  <2>5. RowsAt(m, k) \in Seq(Row) /\ Len(RowsAt(m, k)) = n
    <3> HIDE DEF n, row
    <3>1. n \in Nat
      BY <2>1 DEF n
    <3>2. RowsAt(m, k) \in [1 .. n -> Row]
      BY <2>3, <2>4
    <3>3. QED
      BY <3>1, <3>2
  <2>6. QED
    BY <1>2, <2>4, <2>5
<1> QED
  BY <1>1, <1>2

-----------------------------------------------------------------------------
(***************************************************************************)
(* Where the id of an event is: in the cache, in a sequence of rows.       *)
(***************************************************************************)
StateIds(m, k) == {m[k].events[i].id : i \in 1 .. Len(m[k].events)}

IdsIn(m) == {e.id : e \in Cached(m)}

RowIds(w) == {w[i].event.id : i \in 1 .. Len(w)}

\* No id occurs twice in a sequence of rows, or in a cache.
OnceInRows(w) == \A i, j \in 1 .. Len(w) : w[i].event.id = w[j].event.id => i = j

OnceInMap(m) ==
    \A k, l \in LiveKeys(m) :
        \A i \in 1 .. Len(m[k].events), j \in 1 .. Len(m[l].events) :
            m[k].events[i].id = m[l].events[j].id => k = l /\ i = j

\* The ids of a cache are those of its states.
LEMMA IdsOfStates ==
    ASSUME NEW m
    PROVE  \A x : x \in IdsIn(m) <=> \E k \in LiveKeys(m) : x \in StateIds(m, k)
  BY DEF IdsIn, Cached, StateIds

\* Adding an event adds its id, and only its id.
LEMMA AddedIds ==
    ASSUME NEW m \in StatesMap, NEW n \in Nat, NEW e \in MemoryEvent,
           NEW k \in MemoryStateKey
    PROVE  /\ IdsIn(Added(m, n, e, k)) = IdsIn(m) \cup {e.id}
           /\ OnceInMap(m) /\ e.id \notin IdsIn(m) => OnceInMap(Added(m, n, e, k))
<1> DEFINE a == Added(m, n, e, k)
           old == IF m[k] = NoState THEN 0 ELSE Len(m[k].events)
<1>1. /\ LiveKeys(a) = LiveKeys(m) \cup {k}
      /\ \A j \in MemoryStateKey : j # k => a[j] = m[j]
      /\ a[k] = StateWith(m, n, e, k)
  BY AddedMap
<1>2. /\ old \in Nat
      /\ Len(a[k].events) = old + 1
      /\ a[k].events[old + 1] = e
      /\ \A i \in 1 .. old : k \in LiveKeys(m) /\ a[k].events[i] = m[k].events[i]
      /\ k \in LiveKeys(m) => Len(m[k].events) = old
  <2>1. CASE m[k] = NoState
    <3>1. a[k].events = <<e>> /\ old = 0 /\ k \notin LiveKeys(m)
      BY <1>1, <2>1, StateWithEvent DEF LiveKeys
    <3> QED
      BY <3>1
  <2>2. CASE m[k] # NoState
    BY <1>1, <2>2, StateWithEvent, LiveState DEF LiveKeys
  <2> QED
    BY <2>1, <2>2
<1>3. \A j \in LiveKeys(m) : j \in MemoryStateKey /\ Len(m[j].events) \in Nat
  BY LiveState
<1> HIDE DEF a, old
<1>4. StateIds(a, k) = (IF k \in LiveKeys(m) THEN StateIds(m, k) ELSE {}) \cup {e.id}
  <2>1. k \notin LiveKeys(m) => old = 0
    BY <1>2 DEF LiveKeys, old
  <2>2. CASE k \in LiveKeys(m)
    BY <1>2, <2>2 DEF StateIds
  <2>3. CASE k \notin LiveKeys(m)
    BY <1>2, <2>1, <2>3 DEF StateIds
  <2> QED
    BY <2>2, <2>3
<1>5. \A j \in LiveKeys(m) : j # k => StateIds(a, j) = StateIds(m, j)
  BY <1>1, <1>3 DEF StateIds
<1>6. IdsIn(a) = IdsIn(m) \cup {e.id}
  <2>1. ASSUME NEW x \in IdsIn(a) PROVE x \in IdsIn(m) \cup {e.id}
    BY <1>1, <1>4, <1>5, IdsOfStates
  <2>2. ASSUME NEW x \in IdsIn(m) \cup {e.id} PROVE x \in IdsIn(a)
    BY <1>1, <1>4, <1>5, IdsOfStates
  <2> QED
    BY <2>1, <2>2
<1>7. ASSUME OnceInMap(m), e.id \notin IdsIn(m) PROVE OnceInMap(a)
  <2> SUFFICES ASSUME NEW p \in LiveKeys(a), NEW q \in LiveKeys(a),
                      NEW i \in 1 .. Len(a[p].events), NEW j \in 1 .. Len(a[q].events),
                      a[p].events[i].id = a[q].events[j].id
               PROVE  p = q /\ i = j
    BY DEF OnceInMap
  <2> DEFINE new(r, h) == r = k /\ h = old + 1
  <2>1. ASSUME NEW r \in LiveKeys(a), NEW h \in 1 .. Len(a[r].events), ~new(r, h)
        PROVE  /\ r \in LiveKeys(m)
               /\ h \in 1 .. Len(m[r].events)
               /\ a[r].events[h] = m[r].events[h]
               /\ a[r].events[h].id # e.id
    <3>1. CASE r = k
      <4>1. h \in 1 .. old
        BY <1>2, <2>1, <3>1
      <4>2. r \in LiveKeys(m) /\ h \in 1 .. Len(m[r].events) /\ a[r].events[h] = m[r].events[h]
        BY <1>2, <3>1, <4>1
      <4> QED
        BY <1>7, <4>2, IdsOfStates DEF StateIds
    <3>2. CASE r # k
      <4>1. r \in LiveKeys(m) /\ a[r] = m[r]
        BY <1>1, <1>3, <3>2
      <4> QED
        BY <1>7, <4>1, IdsOfStates DEF StateIds
    <3> QED
      BY <3>1, <3>2
  <2>2. ASSUME NEW r \in LiveKeys(a), NEW h \in 1 .. Len(a[r].events), new(r, h)
        PROVE  a[r].events[h].id = e.id
    BY <1>2, <2>2
  <2>3. CASE new(p, i) /\ new(q, j)
    BY <2>3
  <2>4. CASE new(p, i) /\ ~new(q, j)
    BY <2>1, <2>2, <2>4
  <2>5. CASE ~new(p, i) /\ new(q, j)
    BY <2>1, <2>2, <2>5
  <2>6. CASE ~new(p, i) /\ ~new(q, j)
    <3>1. /\ p \in LiveKeys(m) /\ i \in 1 .. Len(m[p].events)
          /\ q \in LiveKeys(m) /\ j \in 1 .. Len(m[q].events)
          /\ m[p].events[i].id = m[q].events[j].id
      BY <2>1, <2>6
    <3> QED
      BY <1>7, <3>1 DEF OnceInMap
  <2> QED
    BY <2>3, <2>4, <2>5, <2>6
<1> QED
  BY <1>6, <1>7 DEF a

\* The rows of a state have the ids of its events.
LEMMA IdsOfRows ==
    ASSUME NEW m \in StatesMap, NEW k \in MemoryStateKey
    PROVE  /\ RowIds(RowsAt(m, k)) = (IF k \in LiveKeys(m) THEN StateIds(m, k) ELSE {})
           /\ RowIds(RowsAt(m, k)) \subseteq IdsIn(m)
           /\ OnceInMap(m) => OnceInRows(RowsAt(m, k))
<1>1. CASE k \notin LiveKeys(m)
  <2>1. RowsAt(m, k) = << >>
    BY <1>1, RowsOfKey DEF LiveKeys
  <2> QED
    BY <1>1, <2>1 DEF RowIds, OnceInRows
<1>2. CASE k \in LiveKeys(m)
  <2>1. /\ Len(RowsAt(m, k)) = Len(m[k].events)
        /\ \A i \in 1 .. Len(m[k].events) : RowsAt(m, k)[i].event = m[k].events[i]
    BY <1>2, RowsOfKey DEF LiveKeys
  <2>2. RowIds(RowsAt(m, k)) = StateIds(m, k)
    BY <2>1 DEF RowIds, StateIds
  <2>3. StateIds(m, k) \subseteq IdsIn(m)
    BY <1>2, IdsOfStates
  <2>4. OnceInMap(m) => OnceInRows(RowsAt(m, k))
    BY <1>2, <2>1 DEF OnceInMap, OnceInRows
  <2> QED
    BY <1>2, <2>2, <2>3, <2>4
<1> QED
  BY <1>1, <1>2

\* Deleting a key takes the ids of its rows out of the cache.
LEMMA DeletedIds ==
    ASSUME NEW m \in StatesMap, NEW k \in MemoryStateKey
    PROVE  /\ IdsIn(m) = IdsIn(Deleted(m, k)) \cup RowIds(RowsAt(m, k))
           /\ OnceInMap(m) => /\ OnceInMap(Deleted(m, k))
                              /\ IdsIn(Deleted(m, k)) \cap RowIds(RowsAt(m, k)) = {}
<1> DEFINE d == Deleted(m, k)
<1>1. /\ LiveKeys(d) = LiveKeys(m) \ {k}
      /\ \A j \in LiveKeys(d) : d[j] = m[j] /\ StateIds(d, j) = StateIds(m, j)
  BY DeletedMap DEF LiveKeys, StateIds
<1> HIDE DEF d
<1>2. \A x : x \in IdsIn(m) <=> x \in IdsIn(d) \/ x \in RowIds(RowsAt(m, k))
  BY <1>1, IdsOfStates, IdsOfRows
<1>3. ASSUME OnceInMap(m) PROVE OnceInMap(d)
  BY <1>1, <1>3 DEF OnceInMap
<1>4. ASSUME OnceInMap(m), NEW x \in IdsIn(d), x \in RowIds(RowsAt(m, k)) PROVE FALSE
  <2>1. PICK j \in LiveKeys(d) : x \in StateIds(m, j)
    BY <1>1, <1>4, IdsOfStates
  <2>2. k \in LiveKeys(m) /\ x \in StateIds(m, k)
    BY <1>4, IdsOfRows
  <2> QED
    BY <1>1, <1>4, <2>1, <2>2 DEF OnceInMap, StateIds
<1> QED
  BY <1>2, <1>3, <1>4 DEF d

\* Rows one after the other.
LEMMA ConcatRows ==
    ASSUME NEW v \in Seq(Row), NEW w \in Seq(Row)
    PROVE  /\ RowIds(v \o w) = RowIds(v) \cup RowIds(w)
           /\ OnceInRows(v) /\ OnceInRows(w) /\ RowIds(v) \cap RowIds(w) = {}
              => OnceInRows(v \o w)
<1>1. /\ Len(v) \in Nat /\ Len(w) \in Nat
      /\ Len(v \o w) = Len(v) + Len(w)
      /\ \A i \in 1 .. Len(v) : (v \o w)[i] = v[i]
      /\ \A i \in 1 .. Len(w) : (v \o w)[Len(v) + i] = w[i]
      /\ \A i \in Len(v) + 1 .. Len(v) + Len(w) : (v \o w)[i] = w[i - Len(v)]
  OBVIOUS
<1> DEFINE c == v \o w
<1> HIDE DEF c
<1>2. /\ Len(c) = Len(v) + Len(w)
      /\ \A i \in 1 .. Len(v) : i \in 1 .. Len(c) /\ c[i] = v[i]
      /\ \A i \in 1 .. Len(w) : Len(v) + i \in 1 .. Len(c) /\ c[Len(v) + i] = w[i]
  BY <1>1 DEF c
<1>3. \A i \in 1 .. Len(c) : \/ i \in 1 .. Len(v)
                             \/ i - Len(v) \in 1 .. Len(w) /\ c[i] = w[i - Len(v)]
  BY <1>1 DEF c
<1>4. RowIds(c) \subseteq RowIds(v) \cup RowIds(w)
  <2> SUFFICES ASSUME NEW i \in 1 .. Len(c)
               PROVE  c[i].event.id \in RowIds(v) \cup RowIds(w)
    BY DEF RowIds
  <2>1. CASE i \in 1 .. Len(v)
    BY <1>2, <2>1 DEF RowIds
  <2>2. CASE i - Len(v) \in 1 .. Len(w) /\ c[i] = w[i - Len(v)]
    BY <2>2 DEF RowIds
  <2> QED
    BY <1>3, <2>1, <2>2
<1>5. RowIds(v) \cup RowIds(w) \subseteq RowIds(c)
  <2>1. RowIds(v) \subseteq RowIds(c)
    BY <1>2 DEF RowIds
  <2>2. RowIds(w) \subseteq RowIds(c)
    BY <1>2 DEF RowIds
  <2> QED
    BY <2>1, <2>2
<1>6. ASSUME OnceInRows(v), OnceInRows(w), RowIds(v) \cap RowIds(w) = {}
      PROVE  OnceInRows(c)
  <2> SUFFICES ASSUME NEW i \in 1 .. Len(c), NEW j \in 1 .. Len(c),
                      c[i].event.id = c[j].event.id
               PROVE  i = j
    BY DEF OnceInRows
  <2>1. CASE i \in 1 .. Len(v) /\ j \in 1 .. Len(v)
    BY <1>2, <1>6, <2>1 DEF OnceInRows
  <2>2. CASE i \notin 1 .. Len(v) /\ j \notin 1 .. Len(v)
    <3>1. /\ i - Len(v) \in 1 .. Len(w) /\ c[i] = w[i - Len(v)]
          /\ j - Len(v) \in 1 .. Len(w) /\ c[j] = w[j - Len(v)]
      BY <1>3, <2>2
    <3>2. w[i - Len(v)].event.id = w[j - Len(v)].event.id
      BY <3>1
    <3>3. \A a, b \in 1 .. Len(w) : w[a].event.id = w[b].event.id => a = b
      BY <1>6 DEF OnceInRows
    <3>4. i - Len(v) = j - Len(v)
      BY <3>1, <3>2, <3>3
    <3> QED
      BY <1>1, <3>4
  <2>3. ASSUME NEW h \in 1 .. Len(c)
        PROVE  c[h].event.id \in IF h \in 1 .. Len(v) THEN RowIds(v) ELSE RowIds(w)
    <3>1. CASE h \in 1 .. Len(v)
      BY <1>2, <3>1 DEF RowIds
    <3>2. CASE h \notin 1 .. Len(v)
      BY <1>3, <3>2 DEF RowIds
    <3> QED
      BY <3>1, <3>2
  <2>4. i \in 1 .. Len(v) <=> j \in 1 .. Len(v)
    BY <1>6, <2>3
  <2> QED
    BY <2>1, <2>2, <2>4
<1> QED
  BY <1>4, <1>5, <1>6 DEF c

-----------------------------------------------------------------------------
(***************************************************************************)
(* Allocation ids.                                                         *)
(***************************************************************************)
\* Every state of the cache has an allocation id of its own, already given out.
OwnAllocation(m, n) ==
    \A k \in LiveKeys(m) :
        /\ m[k].allocationId \in 1 .. n
        /\ \A l \in LiveKeys(m) : m[k].allocationId = m[l].allocationId => k = l

\* All rows of a key carry the allocation id of its state.
LEMMA RowsAllocation ==
    ASSUME NEW m \in StatesMap, NEW k \in MemoryStateKey
    PROVE  \A i \in 1 .. Len(RowsAt(m, k)) :
               k \in LiveKeys(m) /\ RowsAt(m, k)[i].allocationId = m[k].allocationId
<1>1. CASE m[k] = NoState
  BY <1>1, RowsOfKey
<1>2. CASE m[k] # NoState
  <2>1. k \in LiveKeys(m) /\ Len(RowsAt(m, k)) = Len(m[k].events)
    BY <1>2, RowsOfKey DEF LiveKeys
  <2> QED
    BY <1>2, <2>1 DEF RowsAt, Rows
<1> QED
  BY <1>1, <1>2

\* Deleting a key keeps the other ids, and leaves none equal to the deleted one.
LEMMA DeletedAllocation ==
    ASSUME NEW m \in StatesMap, NEW n, OwnAllocation(m, n), NEW k \in MemoryStateKey
    PROVE  /\ OwnAllocation(Deleted(m, k), n)
           /\ k \in LiveKeys(m) =>
                \A j \in LiveKeys(Deleted(m, k)) :
                    Deleted(m, k)[j].allocationId # m[k].allocationId
<1>1. /\ LiveKeys(Deleted(m, k)) = LiveKeys(m) \ {k}
      /\ \A j \in LiveKeys(m) \ {k} : Deleted(m, k)[j] = m[j]
  BY DeletedMap DEF LiveKeys
<1> QED
  BY <1>1 DEF OwnAllocation

\* An event that is added leaves the receiver with an id of its own: its old one, the
\* next one, or 0 for the default entry, which its FREE then deletes.
LEMMA AddedAllocation ==
    ASSUME NEW m \in StatesMap, NEW n \in Nat, OwnAllocation(m, n),
           NEW e \in MemoryEvent, NEW k \in Receivers(m, e)
    PROVE  /\ \A j \in LiveKeys(Added(m, n, e, k)) \ {k} :
                  Added(m, n, e, k)[j].allocationId # Added(m, n, e, k)[k].allocationId
           /\ OwnAllocation(IF e.type = "FREE" THEN Deleted(Added(m, n, e, k), KeyOf(e))
                                               ELSE Added(m, n, e, k),
                            CountAfter(m, n, e, k))
<1> DEFINE a    == Added(m, n, e, k)
           own  == KeyOf(e)
           next == CountAfter(m, n, e, k)
<1>1. k \in MemoryStateKey /\ own \in MemoryStateKey
  BY ReceiverKey, CompletedEvent
<1>2. /\ a \in StatesMap /\ LiveKeys(a) = LiveKeys(m) \cup {k}
      /\ \A j \in LiveKeys(m) : j # k => a[j] = m[j]
      /\ a[k] = StateWith(m, n, e, k)
  BY <1>1, AddedMap DEF LiveKeys
<1>3. CASE m[k] # NoState
  <2>1. k \in LiveKeys(m) /\ m[k] \in MemoryState
    BY <1>1, <1>3 DEF LiveKeys, StatesMap
  <2>2. a[k].allocationId = m[k].allocationId /\ next = n
    BY <1>2, <1>3, <2>1 DEF StateWith, MemoryState, CountAfter
  <2> HIDE DEF a, own, next
  <2>3. OwnAllocation(a, next)
    BY <1>2, <2>1, <2>2 DEF OwnAllocation
  <2>4. OwnAllocation(Deleted(a, own), next)
    BY <1>1, <1>2, <2>3, DeletedAllocation
  <2>5. \A j \in LiveKeys(a) \ {k} : a[j].allocationId # a[k].allocationId
    BY <1>2, <2>3 DEF OwnAllocation
  <2> QED
    BY <2>3, <2>4, <2>5 DEF a, own, next
<1>4. CASE m[k] = NoState
  <2>1. k \notin LiveKeys(m) /\ k = own
    BY <1>4, ReceiverKey DEF LiveKeys, Enclosing
  <2>2. /\ \/ a[k].allocationId = 0 /\ next = n
           \/ a[k].allocationId = n + 1 /\ next = n + 1
        /\ a[k].allocationId = 0 => e.type = "FREE"
    BY <1>2, <1>4 DEF StateWith, CountAfter, CreatesDefault
  <2> HIDE DEF a, own, next
  <2>3. \A j \in LiveKeys(a) \ {k} :
            /\ j \in LiveKeys(m) /\ a[j] = m[j] /\ a[j].allocationId \in 1 .. n
            /\ a[j].allocationId # a[k].allocationId
    BY <1>2, <2>1, <2>2 DEF OwnAllocation
  <2>4. CASE e.type = "FREE"
    <3>1. /\ LiveKeys(Deleted(a, own)) = LiveKeys(a) \ {k}
          /\ \A j \in LiveKeys(a) \ {k} : Deleted(a, own)[j] = m[j]
      BY <1>1, <1>2, <2>1, <2>3, DeletedMap DEF LiveKeys
    <3>2. OwnAllocation(Deleted(a, own), next)
      BY <2>2, <2>3, <3>1 DEF OwnAllocation
    <3> QED
      BY <2>3, <2>4, <3>2 DEF a, own, next
  <2>5. CASE e.type # "FREE"
    <3>1. a[k].allocationId = n + 1 /\ next = n + 1
      BY <2>2, <2>5
    <3>2. OwnAllocation(a, next)
      BY <1>2, <2>3, <3>1 DEF OwnAllocation
    <3> QED
      BY <2>3, <2>5, <3>2 DEF a, own, next
  <2> QED
    BY <2>4, <2>5
<1> QED
  BY <1>3, <1>4

-----------------------------------------------------------------------------
(***************************************************************************)
(* The histories of a cache: what it is for BlockHistory.                  *)
(***************************************************************************)
\* The history of a key, the histories of a cache and the log of a sequence of rows.
HistoryIn(m, k) == [i \in 1 .. Len(m[k].events) |-> m[k].events[i].id]

Histories(m) == {HistoryIn(m, k) : k \in LiveKeys(m)}

LogOf(w) == [i \in 1 .. Len(w) |-> w[i].event.id]

\* A history is as long as the list of its state's events, and never empty.
LEMMA HistoryType ==
    ASSUME NEW m \in StatesMap, NEW k \in LiveKeys(m)
    PROVE  /\ HistoryIn(m, k) \in Seq(Nat)
           /\ Len(HistoryIn(m, k)) = Len(m[k].events)
           /\ Len(m[k].events) \in Nat \ {0}
<1> DEFINE n == Len(m[k].events)
<1>1. n \in Nat \ {0} /\ m[k].events \in Seq(MemoryEvent)
  BY LiveState
<1>2. \A i \in 1 .. n : m[k].events[i].id \in Nat
  <2>1. \A i \in 1 .. n : m[k].events[i] \in MemoryEvent
    BY <1>1, ElementOfSeq
  <2> QED BY <2>1 DEF MemoryEvent
<1>3. HistoryIn(m, k) = [i \in 1 .. n |-> m[k].events[i].id]
  BY DEF HistoryIn
<1> HIDE DEF n
<1>4. HistoryIn(m, k) \in [1 .. n -> Nat]
  BY <1>2, <1>3 DEF n
<1>5. HistoryIn(m, k) \in Seq(Nat) /\ Len(HistoryIn(m, k)) = n
  BY <1>1, <1>4
<1> QED BY <1>1, <1>5 DEF n

\* Different keys have different histories, since no id is cached twice.
LEMMA HistoriesDiffer ==
    ASSUME NEW m \in StatesMap, OnceInMap(m), NEW k \in LiveKeys(m), NEW l \in LiveKeys(m),
           HistoryIn(m, k) = HistoryIn(m, l)
    PROVE  k = l
<1>1. 1 \in 1 .. Len(m[k].events) /\ 1 \in 1 .. Len(m[l].events)
  BY HistoryType
<1>2. HistoryIn(m, k)[1] = m[k].events[1].id /\ HistoryIn(m, l)[1] = m[l].events[1].id
  BY <1>1 DEF HistoryIn
<1>3. m[k].events[1].id = m[l].events[1].id
  BY <1>2
<1> QED BY <1>1, <1>3 DEF OnceInMap

\* The log of rows one after the other.
LEMMA LogOfConcat ==
    ASSUME NEW v \in Seq(Row), NEW w \in Seq(Row)
    PROVE  /\ LogOf(v) \in Seq(Nat)
           /\ LogOf(v \o w) = LogOf(v) \o LogOf(w)
<1>1. ASSUME NEW u \in Seq(Row)
      PROVE  /\ LogOf(u) \in Seq(Nat) /\ Len(LogOf(u)) = Len(u)
             /\ \A i \in 1 .. Len(u) : LogOf(u)[i] = u[i].event.id
  <2> DEFINE n == Len(u)
  <2>1. n \in Nat
    OBVIOUS
  <2>2. \A i \in 1 .. n : u[i].event.id \in Nat
    <3>1. \A i \in 1 .. n : u[i] \in Row
      BY ElementOfSeq
    <3> QED BY <3>1 DEF Row, MemoryEvent
  <2>3. LogOf(u) = [i \in 1 .. n |-> u[i].event.id]
    BY DEF LogOf
  <2> HIDE DEF n
  <2>4. LogOf(u) \in [1 .. n -> Nat]
    BY <2>2, <2>3
  <2>5. LogOf(u) \in Seq(Nat) /\ Len(LogOf(u)) = n
    BY <2>1, <2>4
  <2> QED BY <2>3, <2>5 DEF n
<1>2. /\ v \o w \in Seq(Row) /\ Len(v \o w) = Len(v) + Len(w)
      /\ Len(v) \in Nat /\ Len(w) \in Nat
      /\ \A i \in 1 .. Len(v) + Len(w) :
             (v \o w)[i] = IF i <= Len(v) THEN v[i] ELSE w[i - Len(v)]
  OBVIOUS
<1> DEFINE c == v \o w
           joined == LogOf(v) \o LogOf(w)
<1>3. /\ joined \in Seq(Nat) /\ Len(joined) = Len(v) + Len(w)
      /\ \A i \in 1 .. Len(v) + Len(w) :
             joined[i] = IF i <= Len(v) THEN LogOf(v)[i] ELSE LogOf(w)[i - Len(v)]
  <2> DEFINE first  == LogOf(v)
             second == LogOf(w)
  <2>1. first \in Seq(Nat) /\ second \in Seq(Nat) /\ Len(first) = Len(v) /\ Len(second) = Len(w)
    BY <1>1
  <2> HIDE DEF first, second
  <2>2. /\ first \o second \in Seq(Nat) /\ Len(first \o second) = Len(first) + Len(second)
        /\ \A i \in 1 .. Len(first) + Len(second) :
               (first \o second)[i] = IF i <= Len(first) THEN first[i] ELSE second[i - Len(first)]
    BY <2>1, ConcatProperties
  <2> QED BY <2>1, <2>2 DEF first, second
<1>4. /\ LogOf(c) \in Seq(Nat) /\ Len(LogOf(c)) = Len(v) + Len(w)
      /\ \A i \in 1 .. Len(v) + Len(w) : LogOf(c)[i] = c[i].event.id
  BY <1>1, <1>2
<1> HIDE DEF c, joined
<1>5. ASSUME NEW i \in 1 .. Len(v) + Len(w) PROVE LogOf(c)[i] = joined[i]
  <2>1. CASE i <= Len(v)
    <3>1. i \in 1 .. Len(v) /\ c[i] = v[i]
      BY <1>2, <2>1 DEF c
    <3> QED BY <1>1, <1>3, <1>4, <2>1, <3>1
  <2>2. CASE ~(i <= Len(v))
    <3>1. i - Len(v) \in 1 .. Len(w) /\ c[i] = w[i - Len(v)]
      BY <1>2, <2>2 DEF c
    <3>2. LogOf(w)[i - Len(v)] = w[i - Len(v)].event.id
      BY <1>1, <3>1
    <3> QED BY <1>3, <1>4, <2>2, <3>1, <3>2
  <2> QED BY <2>1, <2>2
<1>6. LogOf(c) = joined
  BY <1>2, <1>3, <1>4, <1>5, SeqEqual
<1> QED BY <1>1, <1>6 DEF c, joined

\* The rows of a key are its history.
LEMMA LogOfRows ==
    ASSUME NEW m \in StatesMap, NEW k \in MemoryStateKey
    PROVE  LogOf(RowsAt(m, k)) = IF k \in LiveKeys(m) THEN HistoryIn(m, k) ELSE << >>
<1>1. CASE k \in LiveKeys(m)
  <2>1. /\ Len(RowsAt(m, k)) = Len(m[k].events)
        /\ \A i \in 1 .. Len(m[k].events) : RowsAt(m, k)[i].event = m[k].events[i]
    BY <1>1, RowsOfKey DEF LiveKeys
  <2> QED BY <1>1, <2>1 DEF LogOf, HistoryIn
<1>2. CASE k \notin LiveKeys(m)
  <2>1. RowsAt(m, k) = << >>
    BY <1>2, RowsOfKey DEF LiveKeys
  <2> QED BY <1>2, <2>1 DEF LogOf
<1> QED BY <1>1, <1>2

\* Taking one key out of a cache takes out its history, if it had one.
LEMMA HistoriesWithout ==
    ASSUME NEW m \in StatesMap, OnceInMap(m), NEW k \in MemoryStateKey, NEW d \in StatesMap,
           LiveKeys(d) = LiveKeys(m) \ {k}, \A j \in LiveKeys(d) : d[j] = m[j]
    PROVE  Histories(d) = IF k \in LiveKeys(m) THEN Histories(m) \ {HistoryIn(m, k)}
                                               ELSE Histories(m)
<1>1. \A j \in LiveKeys(d) : HistoryIn(d, j) = HistoryIn(m, j)
  BY DEF HistoryIn
<1>2. Histories(d) = {HistoryIn(m, j) : j \in LiveKeys(m) \ {k}}
  BY <1>1 DEF Histories
<1>3. CASE k \in LiveKeys(m)
  <2>1. \A j \in LiveKeys(m) : HistoryIn(m, j) = HistoryIn(m, k) <=> j = k
    BY <1>3, HistoriesDiffer
  <2> QED BY <1>2, <1>3, <2>1 DEF Histories
<1>4. CASE k \notin LiveKeys(m)
  BY <1>2, <1>4 DEF Histories
<1> QED BY <1>3, <1>4

\* The caches m and a differ by the event id at k.
Joined(m, a, id, k) ==
    /\ k \in LiveKeys(a)
    /\ k \in LiveKeys(m) =>
          /\ HistoryIn(a, k) = Append(HistoryIn(m, k), id)
          /\ Histories(a) = (Histories(m) \ {HistoryIn(m, k)}) \cup {HistoryIn(a, k)}
    /\ k \notin LiveKeys(m) =>
          /\ HistoryIn(a, k) = <<id>>
          /\ Histories(a) = Histories(m) \cup {HistoryIn(a, k)}

\* An event that is added begins a history or continues that of its receiver.
LEMMA HistoriesWith ==
    ASSUME NEW m \in StatesMap, OnceInMap(m), NEW n \in Nat, NEW e \in MemoryEvent,
           NEW k \in MemoryStateKey
    PROVE  Joined(m, Added(m, n, e, k), e.id, k)
<1> DEFINE a == Added(m, n, e, k)
<1>1. /\ a \in StatesMap /\ LiveKeys(a) = LiveKeys(m) \cup {k} /\ a[k] = StateWith(m, n, e, k)
      /\ \A j \in MemoryStateKey : j # k => a[j] = m[j]
  BY AddedMap
<1>2. k \in LiveKeys(m) => m[k] # NoState /\ HistoryIn(m, k) \in Seq(Nat)
  BY HistoryType DEF LiveKeys
<1>3. /\ k \in LiveKeys(m) =>
           /\ Len(a[k].events) = Len(m[k].events) + 1
           /\ a[k].events[Len(m[k].events) + 1] = e
           /\ \A i \in 1 .. Len(m[k].events) : a[k].events[i] = m[k].events[i]
      /\ k \notin LiveKeys(m) => a[k].events = <<e>>
  BY <1>1, StateWithEvent DEF LiveKeys
<1> HIDE DEF a
<1>4. Histories(a) = {HistoryIn(m, j) : j \in LiveKeys(m) \ {k}} \cup {HistoryIn(a, k)}
  <2>1. \A j \in LiveKeys(m) \ {k} : HistoryIn(a, j) = HistoryIn(m, j)
    BY <1>1 DEF HistoryIn, LiveKeys
  <2> QED BY <1>1, <2>1 DEF Histories
<1>5. CASE k \in LiveKeys(m)
  <2> DEFINE h    == HistoryIn(m, k)
             size == Len(m[k].events)
  <2>1. size \in Nat \ {0} /\ h \in Seq(Nat) /\ Len(h) = size /\ e.id \in Nat
    BY <1>5, HistoryType DEF MemoryEvent
  <2>2. /\ Len(a[k].events) = size + 1 /\ a[k].events[size + 1] = e
        /\ \A i \in 1 .. size : a[k].events[i] = m[k].events[i]
    BY <1>3, <1>5
  <2>3. HistoryIn(a, k) \in Seq(Nat) /\ Len(HistoryIn(a, k)) = size + 1
    BY <1>1, <2>2, HistoryType
  <2>4. ASSUME NEW i \in 1 .. size + 1 PROVE HistoryIn(a, k)[i] = Append(h, e.id)[i]
    <3>1. HistoryIn(a, k)[i] = a[k].events[i].id
      BY <2>2 DEF HistoryIn
    <3>2. i \in 1 .. size => h[i] = m[k].events[i].id
      BY DEF HistoryIn
    <3> HIDE DEF h, size
    <3>3. i \in 1 .. size \/ i = size + 1
      BY <2>1
    <3> QED BY <2>1, <2>2, <3>1, <3>2, <3>3
  <2> HIDE DEF h, size
  <2>5. HistoryIn(a, k) = Append(h, e.id)
    <3>1. Append(h, e.id) \in Seq(Nat) /\ Len(Append(h, e.id)) = size + 1
      BY <2>1
    <3> QED BY <2>3, <2>4, <3>1, SeqEqual
  <2>6. {HistoryIn(m, j) : j \in LiveKeys(m) \ {k}} = Histories(m) \ {h}
    <3>1. \A j \in LiveKeys(m) : HistoryIn(m, j) = h <=> j = k
      BY <1>5, HistoriesDiffer DEF h
    <3> QED BY <3>1 DEF Histories
  <2> QED BY <1>1, <1>4, <1>5, <2>5, <2>6 DEF a, h, Joined
<1>6. CASE k \notin LiveKeys(m)
  <2>1. a[k].events = <<e>>
    BY <1>3, <1>6
  <2>2. HistoryIn(a, k) = <<e.id>>
    BY <2>1 DEF HistoryIn
  <2>3. {HistoryIn(m, j) : j \in LiveKeys(m) \ {k}} = Histories(m)
    BY <1>6 DEF Histories
  <2> QED BY <1>1, <1>4, <1>6, <2>2, <2>3 DEF a, Joined
<1> QED BY <1>5, <1>6 DEF a

------------------------------------------------------------------------------------
(***************************************************************************)
(* Folds over sequences: a fold has the value its steps give, found from   *)
(* the least length at which it would not.                                 *)
(***************************************************************************)
\* A nonempty set of numbers has a least element.
LEMMA LeastElement ==
    ASSUME NEW T \in SUBSET Nat, T # {}
    PROVE  \E m \in T : \A n \in T : m <= n
<1> DEFINE R == OpToRel(<, Nat)
<1>1. IsWellFoundedOn(R, Nat)
  BY NatLessThanWellFounded
<1>2. \A x, y \in Nat : <<x, y>> \in R <=> x < y
  BY DEF OpToRel
<1> HIDE DEF R
<1>3. PICK x \in T : \A y \in T : ~ (<<y, x>> \in R)
  <2>1. T \subseteq Nat
    OBVIOUS
  <2> QED BY ONLY <1>1, <2>1, T # {}, WFMin
<1>4. ASSUME NEW n \in T PROVE x <= n
  <2>1. n \in Nat /\ x \in Nat
    OBVIOUS
  <2>2. <<n, x>> \notin R
    BY <1>3
  <2>3. ~ (n < x)
    BY <1>2, <2>1, <2>2
  <2> QED BY <2>1, <2>3
<1> QED BY <1>4

\* Induction, with a set of numbers for the property.
LEMMA Induction ==
    ASSUME NEW P, 0 \in P, \A n \in P \cap Nat : n + 1 \in P
    PROVE  Nat \subseteq P
<1> SUFFICES ASSUME Nat \ P # {} PROVE FALSE
  OBVIOUS
<1>1. PICK m \in Nat \ P : \A n \in Nat \ P : m <= n
  BY LeastElement
<1>2. m # 0 /\ m - 1 \in Nat
  BY <1>1
<1>3. m - 1 \in P
  BY <1>1, <1>2
<1> QED BY <1>1, <1>2, <1>3

\* The same up to a bound.
LEMMA InductionTo ==
    ASSUME NEW n \in Nat, NEW P, 0 \in P, \A i \in 1 .. n : i - 1 \in P => i \in P
    PROVE  n \in P
<1> DEFINE Q == {m \in Nat : m <= n => m \in P}
<1>1. 0 \in Q
  OBVIOUS
<1>2. ASSUME NEW m \in Q \cap Nat PROVE m + 1 \in Q
  <2> SUFFICES ASSUME m + 1 <= n PROVE m + 1 \in P
    OBVIOUS
  <2>1. m + 1 \in 1 .. n /\ (m + 1) - 1 = m /\ m \in P
    OBVIOUS
  <2> QED BY <2>1
<1> HIDE DEF Q
<1>3. n \in Q
  BY <1>1, <1>2, Induction
<1> QED BY <1>3 DEF Q

-----------------------------------------------------------------------------
(***************************************************************************)
(* FoldLeft takes a sequence from the left: its definition removes the     *)
(* largest index of a set, from 1 .. Len(seq) down to {}.                  *)
(***************************************************************************)
Largest(s) == CHOOSE x \in s : \A y \in s : x >= y

LEMMA LargestOf ==
    ASSUME NEW n \in Nat, NEW s \in SUBSET (1 .. n)
    PROVE  /\ n \in s => Largest(s) = n
           /\ s # {} => Largest(s) \in s
<1> DEFINE P == {m \in 0 .. n : \A t \in SUBSET (1 .. m) : t # {} => \E x \in t : \A y \in t : x >= y}
<1>1. 0 \in P
  <2>1. 0 \in 0 .. n /\ \A t \in SUBSET (1 .. 0) : t = {}
    OBVIOUS
  <2> QED BY <2>1
<1>2. ASSUME NEW m \in 1 .. n, m - 1 \in P PROVE m \in P
  <2> SUFFICES ASSUME NEW t \in SUBSET (1 .. m), t # {} PROVE \E x \in t : \A y \in t : x >= y
    OBVIOUS
  <2>1. CASE m \in t
    BY <2>1
  <2>2. CASE m \notin t
    <3>1. \A y \in t : y \in 1 .. m /\ y # m
      BY <2>2
    <3>2. \A y \in t : y \in 1 .. (m - 1)
      BY <3>1
    <3>3. t \in SUBSET (1 .. (m - 1))
      BY <3>2
    <3> QED BY <1>2, <3>3
  <2>3. m \in 0 .. n
    OBVIOUS
  <2> QED BY <2>1, <2>2, <2>3
<1>3. n \in P
  <2> HIDE DEF P
  <2> QED BY <1>1, <1>2, InductionTo
<1>4. s # {} => Largest(s) \in s /\ \A y \in s : Largest(s) >= y
  BY <1>3 DEF Largest
<1>5. ASSUME n \in s PROVE Largest(s) = n
  <2>1. Largest(s) \in 1 .. n /\ Largest(s) >= n
    BY <1>4, <1>5
  <2> QED BY <2>1
<1> QED BY <1>4, <1>5

LEMMA Prefixes ==
    ASSUME NEW n \in Nat, NEW i \in 1 .. n
    PROVE  /\ 1 .. i \subseteq 1 .. n /\ 1 .. (i - 1) \subseteq 1 .. n /\ 1 .. i # {}
           /\ Largest(1 .. i) = i
           /\ (1 .. i) \ {Largest(1 .. i)} = 1 .. (i - 1)
<1>1. i \in Nat /\ 1 .. i \in SUBSET (1 .. i) /\ i \in 1 .. i
  OBVIOUS
<1>2. Largest(1 .. i) = i
  BY <1>1, LargestOf
<1>3. 1 .. i \subseteq 1 .. n /\ 1 .. (i - 1) \subseteq 1 .. n /\ 1 .. i # {}
  BY <1>1
<1>4. (1 .. i) \ {i} = 1 .. (i - 1)
  BY <1>1
<1> QED BY <1>2, <1>3, <1>4

\* g is as the definition of the fold of F has it.
Unfolds(g, F, base, seq) ==
    \A s \in SUBSET (1 .. Len(seq)) :
       g[s] = IF s = {} THEN base ELSE F[<<g[s \ {Largest(s)}], seq[Largest(s)]>>]

\* The same, while the values are in P.
UnfoldsIn(P, g, F, base, seq) ==
    /\ g[{}] = base
    /\ \A s \in SUBSET (1 .. Len(seq)) :
          s # {} /\ g[s \ {Largest(s)}] \in P =>
             g[s] = F[<<g[s \ {Largest(s)}], seq[Largest(s)]>>]

\* h goes through P from base to result, one element at a time.
RunsIn(P, h, F, base, seq, result) ==
    /\ h \in [0 .. Len(seq) -> P]
    /\ h[0] = base /\ h[Len(seq)] = result
    /\ \A i \in 1 .. Len(seq) : h[i] = F[<<h[i - 1], seq[i]>>]

LEMMA FoldExists ==
    ASSUME NEW P, NEW E, NEW F, F \in [P \X E -> P], NEW base \in P, NEW seq, seq \in Seq(E)
    PROVE  \E g : g \in [SUBSET (1 .. Len(seq)) -> P] /\ Unfolds(g, F, base, seq)
<1> DEFINE n == Len(seq)
           UpTo(g, m) ==
              \A s \in SUBSET (1 .. m) :
                 g[s] = IF s = {} THEN base ELSE F[<<g[s \ {Largest(s)}], seq[Largest(s)]>>]
           Q == {m \in 0 .. n : \E g \in [SUBSET (1 .. m) -> P] : UpTo(g, m)}
<1>0. n \in Nat /\ \A i \in 1 .. n : seq[i] \in E
  OBVIOUS
<1>1. 0 \in Q
  <2> DEFINE g == [s \in SUBSET (1 .. 0) |-> base]
  <2>1. 0 \in 0 .. n /\ \A s \in SUBSET (1 .. 0) : s = {}
    BY <1>0
  <2>2. g \in [SUBSET (1 .. 0) -> P] /\ UpTo(g, 0)
    BY <2>1
  <2> HIDE DEF g, UpTo
  <2> QED BY <2>1, <2>2
<1>2. ASSUME NEW m \in 1 .. n, m - 1 \in Q PROVE m \in Q
  <2>1. PICK g \in [SUBSET (1 .. (m - 1)) -> P] : UpTo(g, m - 1)
    BY <1>2
  <2> DEFINE new == [s \in SUBSET (1 .. m) |->
                        IF m \in s THEN F[<<g[s \ {m}], seq[m]>>] ELSE g[s]]
  <2>2. \A s \in SUBSET (1 .. m) : s \ {m} \in SUBSET (1 .. (m - 1))
    <3>1. (1 .. m) \ {m} \subseteq 1 .. (m - 1)
      BY <1>0
    <3> QED BY <3>1
  <2>3. new \in [SUBSET (1 .. m) -> P]
    <3> SUFFICES ASSUME NEW s \in SUBSET (1 .. m) PROVE new[s] \in P
      OBVIOUS
    <3>1. g[s \ {m}] \in P /\ seq[m] \in E
      BY <1>0, <2>2
    <3>2. m \notin s => s \ {m} = s
      OBVIOUS
    <3>3. m \in s => new[s] = F[<<g[s \ {m}], seq[m]>>]
      OBVIOUS
    <3>4. m \notin s => new[s] = g[s \ {m}]
      BY <3>2
    <3>5. F[<<g[s \ {m}], seq[m]>>] \in P
      BY <3>1
    <3> HIDE DEF new
    <3> QED BY <3>1, <3>3, <3>4, <3>5
  <2>4. ASSUME NEW s \in SUBSET (1 .. m)
        PROVE  new[s] = IF s = {} THEN base ELSE F[<<new[s \ {Largest(s)}], seq[Largest(s)]>>]
    <3>1. CASE m \in s
      <4>1. Largest(s) = m
        BY <1>0, <3>1, LargestOf
      <4>2. new[s \ {m}] = g[s \ {m}]
        OBVIOUS
      <4> QED BY <3>1, <4>1, <4>2
    <3>2. CASE m \notin s
      <4>1. s \in SUBSET (1 .. (m - 1)) /\ s \ {m} = s
        BY <2>2, <3>2
      <4>2. new[s] = g[s] /\ new[s \ {Largest(s)}] = g[s \ {Largest(s)}]
        BY <4>1, <3>2
      <4>3. g[s] = IF s = {} THEN base ELSE F[<<g[s \ {Largest(s)}], seq[Largest(s)]>>]
        BY <2>1, <4>1
      <4> HIDE DEF new
      <4> QED BY <4>2, <4>3
    <3> QED BY <3>1, <3>2
  <2>5. UpTo(new, m)
    BY <2>4
  <2> HIDE DEF UpTo, new
  <2> QED BY <2>3, <2>5
<1>3. n \in Q
  <2> HIDE DEF Q, n
  <2> QED BY <1>0, <1>1, <1>2, InductionTo
<1> HIDE DEF UpTo
<1>4. \E g \in [SUBSET (1 .. n) -> P] : UpTo(g, n)
  BY <1>3
<1> QED BY <1>4 DEF UpTo, Unfolds

\* Such a function goes through P, one element at a time.
LEMMA FoldSteps ==
    ASSUME NEW P, NEW E, NEW F, F \in [P \X E -> P], NEW base \in P, NEW seq, seq \in Seq(E),
           NEW g, UnfoldsIn(P, g, F, base, seq)
    PROVE  \E h : RunsIn(P, h, F, base, seq, g[1 .. Len(seq)])
<1> DEFINE n == Len(seq)
           h == [i \in 0 .. n |-> g[1 .. i]]
<1>0. n \in Nat /\ \A i \in 1 .. n : seq[i] \in E
  OBVIOUS
<1>1. h[0] = base
  <2>1. 1 .. 0 = {} /\ 0 \in 0 .. n
    BY <1>0
  <2> QED BY <2>1 DEF UnfoldsIn
<1>2. h[n] = g[1 .. n]
  BY <1>0
<1>3. ASSUME NEW i \in 1 .. n, h[i - 1] \in P
      PROVE  h[i] = F[<<h[i - 1], seq[i]>>] /\ h[i] \in P
  <2>1. i \in 0 .. n /\ i - 1 \in 0 .. n
    BY <1>0
  <2>2. h[i] = g[1 .. i] /\ h[i - 1] = g[1 .. (i - 1)]
    BY <2>1
  <2>3. /\ 1 .. i \subseteq 1 .. n /\ 1 .. i # {}
        /\ Largest(1 .. i) = i
        /\ (1 .. i) \ {Largest(1 .. i)} = 1 .. (i - 1)
    BY <1>0, Prefixes
  <2> HIDE DEF h
  <2>4. g[1 .. i] = F[<<g[1 .. (i - 1)], seq[i]>>]
    <3> DEFINE s == 1 .. i
    <3>1. s \in SUBSET (1 .. n) /\ s # {} /\ Largest(s) = i
      BY <2>3
    <3>2. g[s \ {Largest(s)}] = h[i - 1]
      BY <2>2, <2>3
    <3> HIDE DEF s
    <3>3. g[s] = F[<<g[s \ {Largest(s)}], seq[Largest(s)]>>]
      BY <1>3, <3>1, <3>2 DEF UnfoldsIn
    <3> QED BY <2>2, <3>1, <3>2, <3>3 DEF s
  <2> QED BY <1>0, <1>3, <2>2, <2>4
<1>4. \A i \in 0 .. n : h[i] \in P
  <2> DEFINE Q == {m \in 0 .. n : \A i \in 0 .. m : h[i] \in P}
  <2> HIDE DEF h
  <2>1. 0 \in Q
    BY <1>0, <1>1
  <2>2. ASSUME NEW m \in 1 .. n, m - 1 \in Q PROVE m \in Q
    <3>1. h[m - 1] \in P /\ \A i \in 0 .. (m - 1) : h[i] \in P
      BY <1>0, <2>2
    <3>2. h[m] \in P
      BY <1>3, <3>1
    <3> QED BY <1>0, <3>1, <3>2
  <2> HIDE DEF Q, n
  <2>3. n \in Q
    BY <1>0, <2>1, <2>2, InductionTo
  <2> QED BY <2>3 DEF Q
<1>5. h \in [0 .. n -> P]
  BY <1>4
<1>6. \A i \in 1 .. n : h[i] = F[<<h[i - 1], seq[i]>>]
  <2> HIDE DEF h
  <2> SUFFICES ASSUME NEW i \in 1 .. n PROVE h[i] = F[<<h[i - 1], seq[i]>>]
    OBVIOUS
  <2>1. i - 1 \in 0 .. n
    BY <1>0
  <2> QED BY <1>3, <1>4, <2>1
<1> HIDE DEF h
<1> QED BY <1>1, <1>2, <1>5, <1>6 DEF RunsIn
=============================================================================
