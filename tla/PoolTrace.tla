---------------------------------- MODULE PoolTrace ----------------------------------
(***************************************************************************)
(* The tracers of the frameworks' memory pools (memory_pool_trace/): what  *)
(* each keeps of the heaps and regions that its pool registers through     *)
(* mstx, and the records it makes of them.  All operations hold the        *)
(* tracer's mutex_.                                                        *)
(*                                                                         *)
(* Three of the four are the same program with different totals; ATB's     *)
(* identifies a region by a handle of its own, the others by its address.  *)
(* Left out: the call stacks and owners of a record; the overflow of sums, *)
(* which are bytes in 64 bits.                                             *)
(***************************************************************************)
EXTENDS Integers, Sequences, FiniteSets
Seqs == INSTANCE SequencesExt
Funs == INSTANCE Functions

CONSTANTS NoHandle  \* the null pointer

TracerNames == {"atb", "mindsporeMemPool", "ptaCaching", "ptaWorkspace"}

\* A tracer is [usage, heaps, regions]: memUsageMp_ by device, heapHandleMp_ by address,
\* regionHandleMp_ by address or handle.  Heaps and regions are [addr, device, size].
NewTracer == [usage |-> <<>>, heaps |-> <<>>, regions |-> <<>>]

\* The map f with x for k, whether or not it had k.
With(f, k, x) == [j \in DOMAIN f \cup {k} |-> IF j = k THEN x ELSE f[j]]

\* operator[] makes an entry of zeros.
Usage(tracer, d) ==
    IF d \in DOMAIN tracer.usage THEN tracer.usage[d] ELSE [reserved |-> 0, used |-> 0]

\* What the pool gets back: ATB's address, or nothing.
HeapHandle(p, heap) == IF p = "atb" THEN heap.addr ELSE NoHandle

\* ATB adds the heaps of a device up; elsewhere a heap stands for the whole pool.
Allocate(p, tracer, heap) ==
    LET usage == Usage(tracer, heap.device)
        sum   == IF p = "atb" THEN usage.reserved + heap.size ELSE heap.size
    IN  [tracer EXCEPT !.usage = With(@, heap.device, [usage EXCEPT !.reserved = sum]),
                       !.heaps = With(@, heap.addr, heap)]

\* Only ATB forgets the heap.
Deallocate(p, tracer, handle) ==
    IF handle = NoHandle \/ handle \notin DOMAIN tracer.heaps THEN tracer
    ELSE LET heap  == tracer.heaps[handle]
             usage == Usage(tracer, heap.device)
             left  == [usage EXCEPT !.reserved = @ - heap.size]
         IN  [tracer EXCEPT !.usage = With(@, heap.device, left),
                            !.heaps = IF p = "atb" THEN Funs!Restrict(@, DOMAIN @ \ {handle})
                                                   ELSE @]

\* A mstxMemRegion_t of the allocator: one that is not in use.
FreshHandle(tracer) ==
    CHOOSE h \in 1..(1 + Cardinality(DOMAIN tracer.regions)) : h \notin DOMAIN tracer.regions

Record(type, p, region, usage) ==
    [type |-> type, pool |-> p, addr |-> region.addr, size |-> region.size,
     device |-> region.device, used |-> usage.used, reserved |-> usage.reserved]

\* One region of a batch.  `done` is what the batch has made so far: the tracer, the records
\* and the handles handed out.  ATB passes over a device that never had a heap; the
\* workspace's total is the last region alone.
Registered(p, done, region) ==
    LET tracer == done.tracer
        usage  == Usage(tracer, region.device)
        used   == IF p = "ptaWorkspace" THEN region.size ELSE usage.used + region.size
        after  == [usage EXCEPT !.used = used]
        key    == IF p = "atb" THEN FreshHandle(tracer) ELSE region.addr
    IN  IF p = "atb" /\ region.device \notin DOMAIN tracer.usage
        THEN [done EXCEPT !.keys = Append(@, NoHandle)]
        ELSE [tracer  |-> [tracer EXCEPT !.usage = With(@, region.device, after),
                                         !.regions = With(@, key, region)],
              records |-> Append(done.records, Record("MALLOC", p, region, after)),
              keys    |-> Append(done.keys, key)]

\* One region of a batch that is given up: only ATB forgets it.
Released(p, done, key) ==
    IF key \notin DOMAIN done.tracer.regions THEN done
    ELSE LET tracer == done.tracer
             region == tracer.regions[key]
             after  == [Usage(tracer, region.device) EXCEPT !.used = @ - region.size]
         IN  [tracer  |-> [tracer EXCEPT
                             !.usage = With(@, region.device, after),
                             !.regions = IF p = "atb" THEN Funs!Restrict(@, DOMAIN @ \ {key})
                                                      ELSE @],
              records |-> Append(done.records, Record("FREE", p, region, after)),
              keys    |-> done.keys]

NothingDone(tracer) == [tracer |-> tracer, records |-> <<>>, keys |-> <<>>]

Reallocate(p, tracer, regions) ==
    Seqs!FoldLeft(LAMBDA done, region : Registered(p, done, region), NothingDone(tracer), regions)

Release(p, tracer, keys) ==
    Seqs!FoldLeft(LAMBDA done, key : Released(p, done, key), NothingDone(tracer), keys)
====================================================================================
