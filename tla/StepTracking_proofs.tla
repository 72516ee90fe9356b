---------------------------- MODULE StepTracking_proofs ----------------------------
(***************************************************************************)
(* Steps, pools and the leak analysis, for every set of devices, threads,  *)
(* pools and blocks and every bound: what the analysis holds is what the   *)
(* pools hold, every leak is reported, the extremes of the allocated       *)
(* totals are kept, and every step that is open is listed.                 *)
(***************************************************************************)
EXTENDS StepTracking, TLAPS

\* Totals are typed as integers: that a pool never gives back more than it has handed out
\* is a sum over its blocks, which nothing here needs.
Ratio == [gapStepId : Nat, min : Int, max : Int]

PoolTotals == [totalAllocated : Int, stepMaxAllocated : Int, stepMinAllocated : Int,
               maxGapInfo : Ratio, minGapInfo : Ratio]

StatusTable == UNION {[P -> PoolTotals] : P \in SUBSET PoolTypes}

NpuMemUsage == [poolOpTable : SUBSET NpuMemInfo, poolStatusTable : StatusTable, duringStep : Nat]

AnalyzerType ==
    /\ npuMemUsages \in [DeviceIds -> NpuMemUsage]
    /\ leakMemSums \in [DeviceIds -> SUBSET LeakInfo]
    /\ seen \in [DeviceIds -> [PoolTypes -> SUBSET Int]]
    /\ gaps \in [DeviceIds -> [PoolTypes -> SUBSET Ratio]]

ProgramType ==
    /\ stepList \in SUBSET Nat
    /\ regions \in [DeviceIds -> [PoolTypes -> [Ptrs -> BlockSizes \cup {NoRegion}]]]
    /\ totalAllocated \in [DeviceIds -> [PoolTypes -> Int]]
    /\ tracing \in BOOLEAN /\ subscribed \in BOOLEAN
    /\ stepInfo \in MstxStepInfo
    /\ pyStepId \in Nat /\ rangeId \in Nat \ {0}
    /\ ranges \in SUBSET Range
    /\ at \in [Threads -> {"idle", "stamp", "notify"}]
    /\ mark \in [Threads -> MstxRecord]

TypeInv == AnalyzerType /\ ProgramType

------------------------------------------------------------------------------------
(***************************************************************************)
(* What the handlers of the analyzer do to one device.                     *)
(***************************************************************************)
LEMMA TableOf ==
    ASSUME NEW f \in StatusTable
    PROVE  /\ DOMAIN f \in SUBSET PoolTypes
           /\ \A p \in DOMAIN f : f[p] \in PoolTotals
  BY DEF StatusTable

LEMMA NewStatusType == NewPoolStatus \in PoolTotals
  BY DEF NewPoolStatus, NoGapYet, PoolTotals, Ratio

LEMMA StatusType ==
    ASSUME NEW u \in NpuMemUsage, NEW p \in PoolTypes
    PROVE  PoolStatus(u, p) \in PoolTotals
  BY TableOf, NewStatusType DEF PoolStatus, Pools, NpuMemUsage

\* A record changes the status of its own pool only.
LEMMA AccountedTable ==
    ASSUME NEW u \in NpuMemUsage, NEW type \in PoolTypes, NEW total \in Int
    PROVE  /\ Accounted(u, type, total) \in StatusTable
           /\ DOMAIN Accounted(u, type, total) = Pools(u) \cup {type}
           /\ UpdateAllocated(u, PoolStatus(u, type), total) \in PoolTotals
           /\ Accounted(u, type, total)[type]
                = [UpdateAllocated(u, PoolStatus(u, type), total) EXCEPT !.totalAllocated = total]
           /\ \A p \in Pools(u) : p # type => Accounted(u, type, total)[p] = u.poolStatusTable[p]
<1> DEFINE s == PoolStatus(u, type)
           v == UpdateAllocated(u, s, total)
           f == Accounted(u, type, total)
<1>1. s \in PoolTotals
  BY StatusType
<1> HIDE DEF s
<1>2. v \in PoolTotals
  BY <1>1 DEF UpdateAllocated, PoolTotals
<1> HIDE DEF v
<1>3. [v EXCEPT !.totalAllocated = total] \in PoolTotals
  BY <1>2 DEF PoolTotals
<1>4. Pools(u) \in SUBSET PoolTypes /\ \A p \in Pools(u) : u.poolStatusTable[p] \in PoolTotals
  BY TableOf DEF Pools, NpuMemUsage
<1>5. f = [p \in Pools(u) \cup {type} |->
             IF p = type THEN [v EXCEPT !.totalAllocated = total] ELSE u.poolStatusTable[p]]
  BY DEF Accounted, v, s
<1> HIDE DEF f
<1>6. f \in [Pools(u) \cup {type} -> PoolTotals]
  BY <1>3, <1>4, <1>5
<1>7. f \in StatusTable
  BY <1>4, <1>6 DEF StatusTable
<1> QED BY <1>2, <1>5, <1>7 DEF f, v, s

LEMMA NewExtremes ==
    ASSUME NEW s \in PoolTotals, NEW hi \in Ratio, NEW lo \in Ratio
    PROVE  [s EXCEPT !.maxGapInfo = hi, !.minGapInfo = lo] \in PoolTotals
  BY DEF PoolTotals

WithStepExtremes(s, hi, lo) == [s EXCEPT !.stepMaxAllocated = hi, !.stepMinAllocated = lo]

LEMMA NewStepExtremes ==
    ASSUME NEW s \in PoolTotals, NEW hi \in Int, NEW lo \in Int
    PROVE  WithStepExtremes(s, hi, lo) \in PoolTotals
  BY DEF PoolTotals, WithStepExtremes

\* CheckGap replaces the status of every pool, from step 2 on.
LEMMA CheckedUsage ==
    ASSUME NEW u \in NpuMemUsage
    PROVE  /\ CheckGap(u) \in NpuMemUsage
           /\ CheckGap(u).poolOpTable = u.poolOpTable
           /\ CheckGap(u).duringStep = u.duringStep
           /\ Pools(CheckGap(u)) = Pools(u)
           /\ \A p \in Pools(u) :
                CheckGap(u).poolStatusTable[p] =
                  IF u.duringStep <= skipSteps THEN u.poolStatusTable[p]
                                               ELSE GapChecked(u, u.poolStatusTable[p])
<1>1. Pools(u) \in SUBSET PoolTypes /\ \A p \in Pools(u) : u.poolStatusTable[p] \in PoolTotals
  BY TableOf DEF Pools, NpuMemUsage
<1>2. ASSUME NEW s \in PoolTotals PROVE GapChecked(u, s) \in PoolTotals
  <2>1. Gap(u, s) \in Ratio
    BY DEF Gap, Ratio, PoolTotals, NpuMemUsage
  <2> DEFINE g == Gap(u, s)
             hi == IF s.maxGapInfo.min = 0 \/ Below(s.maxGapInfo, g) THEN g ELSE s.maxGapInfo
             lo == IF s.maxGapInfo.min = 0 \/ Below(g, s.minGapInfo) THEN g ELSE s.minGapInfo
  <2>2. hi \in Ratio /\ lo \in Ratio
    BY <2>1 DEF PoolTotals
  <2>3. GapChecked(u, s) = IF s.stepMaxAllocated = 0 THEN s
                           ELSE [s EXCEPT !.maxGapInfo = hi, !.minGapInfo = lo,
                                          !.stepMaxAllocated = 0, !.stepMinAllocated = 0]
    BY DEF GapChecked
  <2> HIDE DEF hi, lo
  <2>4. PICK r \in PoolTotals : r = [s EXCEPT !.maxGapInfo = hi, !.minGapInfo = lo]
    BY <2>2, NewExtremes
  <2>5. WithStepExtremes(r, 0, 0) \in PoolTotals
    BY NewStepExtremes
  <2>6. WithStepExtremes(r, 0, 0)
          = [s EXCEPT !.maxGapInfo = hi, !.minGapInfo = lo,
                      !.stepMaxAllocated = 0, !.stepMinAllocated = 0]
    BY <2>4 DEF WithStepExtremes
  <2> QED BY <2>3, <2>5, <2>6
<1> DEFINE f == [p \in Pools(u) |-> GapChecked(u, u.poolStatusTable[p])]
<1>3. f \in [Pools(u) -> PoolTotals]
  BY <1>1, <1>2
<1>4. f \in StatusTable
  BY <1>1, <1>3 DEF StatusTable
<1>5. CheckGap(u) = IF u.duringStep <= skipSteps THEN u ELSE [u EXCEPT !.poolStatusTable = f]
  BY DEF CheckGap
<1>6. \A p \in Pools(u) : f[p] = GapChecked(u, u.poolStatusTable[p])
  OBVIOUS
<1> HIDE DEF f
<1>7. CASE u.duringStep <= skipSteps
  BY <1>5, <1>7
<1>8. CASE ~(u.duringStep <= skipSteps)
  <2>1. CheckGap(u) = [u EXCEPT !.poolStatusTable = f]
    BY <1>5, <1>8
  <2>2. /\ CheckGap(u) \in NpuMemUsage
        /\ CheckGap(u).poolOpTable = u.poolOpTable /\ CheckGap(u).duringStep = u.duringStep
        /\ CheckGap(u).poolStatusTable = f
    BY <1>4, <2>1 DEF NpuMemUsage
  <2> QED BY <1>3, <1>6, <1>8, <2>2 DEF Pools
<1> QED BY <1>7, <1>8

\* The beginning of a step: every block is a step older.
Older(b) == [b EXCEPT !.duration = @ + 1]

LEMMA BegunUsage ==
    ASSUME NEW u \in NpuMemUsage, NEW stepId \in Nat
    PROVE  /\ StepBegun(u, stepId) \in NpuMemUsage
           /\ StepBegun(u, stepId).poolOpTable = {Older(b) : b \in u.poolOpTable}
           /\ StepBegun(u, stepId).poolStatusTable = u.poolStatusTable
           /\ StepBegun(u, stepId).duringStep = stepId
<1>1. \A b \in u.poolOpTable : Older(b) \in NpuMemInfo
  BY DEF NpuMemUsage, NpuMemInfo, Older
<1>2. StepBegun(u, stepId) = [u EXCEPT !.duringStep = stepId,
                                       !.poolOpTable = {Older(b) : b \in u.poolOpTable}]
  BY DEF StepBegun, AddDuration, SetStepId, Older, NpuMemUsage
<1>3. {Older(b) : b \in u.poolOpTable} \in SUBSET NpuMemInfo
  BY <1>1
<1> QED BY <1>2, <1>3 DEF NpuMemUsage

------------------------------------------------------------------------------------
(***************************************************************************)
(* What each handler leaves behind.                                        *)
(***************************************************************************)
Recorded(usages, d, table, status) ==
    [usages EXCEPT ![d].poolOpTable = table, ![d].poolStatusTable = status]

LEMMA RecordedUsages ==
    ASSUME NEW f \in [DeviceIds -> NpuMemUsage], NEW d \in DeviceIds,
           NEW X \in SUBSET NpuMemInfo, NEW Y \in StatusTable
    PROVE  /\ Recorded(f, d, X, Y) \in [DeviceIds -> NpuMemUsage]
           /\ Recorded(f, d, X, Y)[d].poolOpTable = X
           /\ Recorded(f, d, X, Y)[d].poolStatusTable = Y
           /\ Recorded(f, d, X, Y)[d].duringStep = f[d].duringStep
           /\ \A e \in DeviceIds : e # d => Recorded(f, d, X, Y)[e] = f[e]
  BY DEF NpuMemUsage, Recorded

LEMMA SeenType ==
    ASSUME AnalyzerType, NEW d \in DeviceIds, NEW type \in PoolTypes, NEW total \in Int,
           Seen(d, type, total)
    PROVE  seen' \in [DeviceIds -> [PoolTypes -> SUBSET Int]]
  BY DEF Seen, AnalyzerType

LEMMA EmplacedType ==
    ASSUME NEW u \in NpuMemUsage, NEW ptr \in Ptrs, NEW type \in PoolTypes, NEW size \in Nat
    PROVE  Emplaced(u, ptr, type, size) \in SUBSET NpuMemInfo
  BY DEF Emplaced, NpuMemUsage, NpuMemInfo

LEMMA MallocFields ==
    ASSUME AnalyzerType, NEW d \in DeviceIds, NEW type \in PoolTypes, NEW ptr \in Ptrs,
           NEW size \in Nat, NEW total \in Int, RecordNpuMalloc(d, type, ptr, size, total)
    PROVE  /\ AnalyzerType'
           /\ npuMemUsages'[d].poolOpTable = Emplaced(npuMemUsages[d], ptr, type, size)
           /\ npuMemUsages'[d].poolStatusTable = Accounted(npuMemUsages[d], type, total)
           /\ npuMemUsages'[d].duringStep = npuMemUsages[d].duringStep
           /\ \A e \in DeviceIds : e # d => npuMemUsages'[e] = npuMemUsages[e]
<1>1. npuMemUsages \in [DeviceIds -> NpuMemUsage]
  BY DEF AnalyzerType
<1>2. npuMemUsages[d] \in NpuMemUsage
  BY <1>1
<1>3. PICK X \in SUBSET NpuMemInfo : X = Emplaced(npuMemUsages[d], ptr, type, size)
  BY <1>2, EmplacedType
<1>4. PICK Y \in StatusTable : Y = Accounted(npuMemUsages[d], type, total)
  BY <1>2, AccountedTable
<1>5. npuMemUsages' = Recorded(npuMemUsages, d, X, Y)
  BY <1>3, <1>4 DEF RecordNpuMalloc, Recorded
<1>6. /\ npuMemUsages' \in [DeviceIds -> NpuMemUsage]
      /\ npuMemUsages'[d].poolOpTable = X /\ npuMemUsages'[d].poolStatusTable = Y
      /\ npuMemUsages'[d].duringStep = npuMemUsages[d].duringStep
      /\ \A e \in DeviceIds : e # d => npuMemUsages'[e] = npuMemUsages[e]
  BY ONLY <1>1, <1>5, d \in DeviceIds, X \in SUBSET NpuMemInfo, Y \in StatusTable, RecordedUsages
<1>7. seen' \in [DeviceIds -> [PoolTypes -> SUBSET Int]]
  BY SeenType DEF RecordNpuMalloc
<1> QED BY <1>3, <1>4, <1>6, <1>7 DEF RecordNpuMalloc, AnalyzerType

LEMMA FreeFields ==
    ASSUME AnalyzerType, NEW d \in DeviceIds, NEW type \in PoolTypes, NEW ptr \in Ptrs,
           NEW total \in Int, RecordNpuFree(d, type, ptr, total)
    PROVE  /\ AnalyzerType'
           /\ npuMemUsages'[d].poolOpTable = Erased(npuMemUsages[d], ptr, type)
           /\ npuMemUsages'[d].poolStatusTable = Accounted(npuMemUsages[d], type, total)
           /\ npuMemUsages'[d].duringStep = npuMemUsages[d].duringStep
           /\ \A e \in DeviceIds : e # d => npuMemUsages'[e] = npuMemUsages[e]
<1>1. npuMemUsages \in [DeviceIds -> NpuMemUsage]
  BY DEF AnalyzerType
<1>2. npuMemUsages[d] \in NpuMemUsage
  BY <1>1
<1>3. Erased(npuMemUsages[d], ptr, type) \in SUBSET NpuMemInfo
  BY <1>2 DEF Erased, NpuMemUsage
<1>4. Accounted(npuMemUsages[d], type, total) \in StatusTable
  BY <1>2, AccountedTable
<1>5. npuMemUsages' = Recorded(npuMemUsages, d, Erased(npuMemUsages[d], ptr, type),
                                Accounted(npuMemUsages[d], type, total))
  BY DEF RecordNpuFree, Recorded
<1>6. /\ npuMemUsages' \in [DeviceIds -> NpuMemUsage]
      /\ npuMemUsages'[d].poolOpTable = Erased(npuMemUsages[d], ptr, type)
      /\ npuMemUsages'[d].poolStatusTable = Accounted(npuMemUsages[d], type, total)
      /\ npuMemUsages'[d].duringStep = npuMemUsages[d].duringStep
      /\ \A e \in DeviceIds : e # d => npuMemUsages'[e] = npuMemUsages[e]
  BY <1>1, <1>3, <1>4, <1>5, RecordedUsages
<1>7. seen' \in [DeviceIds -> [PoolTypes -> SUBSET Int]]
  BY SeenType DEF RecordNpuFree
<1> QED BY <1>6, <1>7 DEF RecordNpuFree, AnalyzerType

\* A step ends whose extremes count.
Checks(d, stepId) ==
    ~ ReturnsInStep1(npuMemUsages[d], stepId) /\ npuMemUsages[d].duringStep > skipSteps

LEMMA GapsFields ==
    ASSUME AnalyzerType, NEW d \in DeviceIds, NEW stepId \in Nat, GapsSeen(d, stepId)
    PROVE  /\ seen' \in [DeviceIds -> [PoolTypes -> SUBSET Int]]
           /\ gaps' \in [DeviceIds -> [PoolTypes -> SUBSET Ratio]]
           /\ \A e \in DeviceIds : e # d => seen'[e] = seen[e] /\ gaps'[e] = gaps[e]
           /\ ~ Checks(d, stepId) => UNCHANGED <<seen, gaps>>
           /\ Checks(d, stepId) => \A p \in PoolTypes :
                /\ seen'[d][p] = {}
                /\ gaps'[d][p] = gaps[d][p] \cup Extremes(npuMemUsages[d].duringStep, seen[d][p])
<1> DEFINE n == npuMemUsages[d].duringStep
           E(p) == Extremes(n, seen[d][p])
<1>1. n \in Nat
  BY DEF AnalyzerType, NpuMemUsage
<1>2. \A p \in PoolTypes : E(p) \in SUBSET Ratio
  BY <1>1 DEF Extremes, Ratio, AnalyzerType
<1>3. CASE ~ Checks(d, stepId)
  <2>1. UNCHANGED <<seen, gaps>>
    BY <1>1, <1>3 DEF GapsSeen, Checks, skipSteps
  <2> QED BY <1>3, <2>1 DEF AnalyzerType
<1>4. CASE Checks(d, stepId)
  <2>1. /\ gaps' = [gaps EXCEPT ![d] = [p \in PoolTypes |-> gaps[d][p] \cup E(p)]]
        /\ seen' = [seen EXCEPT ![d] = [p \in PoolTypes |-> {}]]
    <3>1. ~ (ReturnsInStep1(npuMemUsages[d], stepId) \/ n <= skipSteps)
      BY <1>1, <1>4 DEF Checks, skipSteps
    <3> QED BY <3>1 DEF GapsSeen, AnalyzerType
  <2>2. [p \in PoolTypes |-> gaps[d][p] \cup E(p)] \in [PoolTypes -> SUBSET Ratio]
    BY <1>2 DEF AnalyzerType
  <2>3. [p \in PoolTypes |-> {}] \in [PoolTypes -> SUBSET Int]
    OBVIOUS
  <2>4. \A p \in PoolTypes :
          [q \in PoolTypes |-> gaps[d][q] \cup E(q)][p] = gaps[d][p] \cup E(p)
    OBVIOUS
  <2> HIDE DEF E
  <2>5. /\ seen' \in [DeviceIds -> [PoolTypes -> SUBSET Int]]
        /\ gaps' \in [DeviceIds -> [PoolTypes -> SUBSET Ratio]]
        /\ \A e \in DeviceIds : e # d => seen'[e] = seen[e] /\ gaps'[e] = gaps[e]
    BY <2>1, <2>2, <2>3 DEF AnalyzerType
  <2>6. \A p \in PoolTypes : seen'[d][p] = {} /\ gaps'[d][p] = gaps[d][p] \cup E(p)
    BY <2>1, <2>4 DEF AnalyzerType
  <2> QED BY <1>4, <2>5, <2>6 DEF E
<1> QED BY <1>3, <1>4

LEMMA FoundType ==
    ASSUME NEW u \in NpuMemUsage, NEW sums \in SUBSET LeakInfo
    PROVE  CheckNpuLeak(sums, u) \in SUBSET LeakInfo
  BY DEF CheckNpuLeak, LeakCandidates, Leak, NpuMemUsage, NpuMemInfo, LeakInfo

LEMMA StartFields ==
    ASSUME AnalyzerType, NEW d \in DeviceIds, NEW stepId \in Nat, NEW id,
           ReceiveStepStart(d, stepId, id)
    PROVE  /\ AnalyzerType'
           /\ npuMemUsages'[d] = StepBegun(npuMemUsages[d], stepId)
           /\ \A e \in DeviceIds : e # d => npuMemUsages'[e] = npuMemUsages[e]
<1>1. npuMemUsages[d] \in NpuMemUsage
  BY DEF AnalyzerType
<1>2. PICK u \in NpuMemUsage : u = StepBegun(npuMemUsages[d], stepId)
  BY <1>1, BegunUsage
<1>3. npuMemUsages' = [npuMemUsages EXCEPT ![d] = u]
  BY <1>2 DEF ReceiveStepStart
<1> QED BY <1>2, <1>3 DEF AnalyzerType, ReceiveStepStart

LEMMA HandledType ==
    ASSUME NEW u \in NpuMemUsage, NEW stepId \in Nat
    PROVE  /\ HandleStepMsg(u, stepId) \in NpuMemUsage
           /\ HandleStepMsg(u, stepId).poolOpTable = u.poolOpTable
           /\ HandleStepMsg(u, stepId).duringStep = u.duringStep
           /\ Pools(HandleStepMsg(u, stepId)) = Pools(u)
  BY CheckedUsage DEF HandleStepMsg

LEMMA EndFields ==
    ASSUME AnalyzerType, NEW d \in DeviceIds, NEW stepId \in Nat, NEW id,
           ReceiveRangeEnd(d, stepId, id)
    PROVE  /\ AnalyzerType'
           /\ npuMemUsages'[d] = HandleStepMsg(npuMemUsages[d], stepId)
           /\ leakMemSums'[d] = LeaksAfter(leakMemSums[d], npuMemUsages[d], stepId)
           /\ \A e \in DeviceIds : e # d => /\ npuMemUsages'[e] = npuMemUsages[e]
                                            /\ leakMemSums'[e] = leakMemSums[e]
<1>1. npuMemUsages[d] \in NpuMemUsage /\ leakMemSums[d] \in SUBSET LeakInfo
  BY DEF AnalyzerType
<1>2. PICK u \in NpuMemUsage : u = HandleStepMsg(npuMemUsages[d], stepId)
  BY <1>1, HandledType
<1>3. PICK sums \in SUBSET LeakInfo : sums = LeaksAfter(leakMemSums[d], npuMemUsages[d], stepId)
  BY <1>1, FoundType DEF LeaksAfter
<1>4. /\ npuMemUsages' = [npuMemUsages EXCEPT ![d] = u]
      /\ leakMemSums' = [leakMemSums EXCEPT ![d] = sums]
      /\ GapsSeen(d, stepId)
  BY <1>2, <1>3 DEF ReceiveRangeEnd
<1>5. /\ seen' \in [DeviceIds -> [PoolTypes -> SUBSET Int]]
      /\ gaps' \in [DeviceIds -> [PoolTypes -> SUBSET Ratio]]
  BY <1>4, GapsFields
<1> QED BY <1>2, <1>3, <1>4, <1>5 DEF AnalyzerType

\* The half of ReceiveStepMsg that changes anything.
StepMsgReceived(d, stepId) ==
    /\ leakMemSums' = [leakMemSums EXCEPT ![d] = LeaksAfter(@, npuMemUsages[d], stepId)]
    /\ npuMemUsages' =
         [npuMemUsages EXCEPT ![d] = StepBegun(HandleStepMsg(@, stepId), stepId + 1)]
    /\ GapsSeen(d, stepId)

LEMMA StepMsgFields ==
    ASSUME AnalyzerType, NEW d \in DeviceIds, NEW stepId \in Nat, StepMsgReceived(d, stepId)
    PROVE  /\ AnalyzerType'
           /\ npuMemUsages'[d] = StepBegun(HandleStepMsg(npuMemUsages[d], stepId), stepId + 1)
           /\ leakMemSums'[d] = LeaksAfter(leakMemSums[d], npuMemUsages[d], stepId)
           /\ \A e \in DeviceIds : e # d => /\ npuMemUsages'[e] = npuMemUsages[e]
                                            /\ leakMemSums'[e] = leakMemSums[e]
<1>1. npuMemUsages[d] \in NpuMemUsage /\ leakMemSums[d] \in SUBSET LeakInfo
  BY DEF AnalyzerType
<1>2. PICK v \in NpuMemUsage : v = HandleStepMsg(npuMemUsages[d], stepId)
  BY <1>1, HandledType
<1>3. stepId + 1 \in Nat
  OBVIOUS
<1>4. PICK u \in NpuMemUsage : u = StepBegun(v, stepId + 1)
  BY <1>3, BegunUsage
<1>5. PICK sums \in SUBSET LeakInfo : sums = LeaksAfter(leakMemSums[d], npuMemUsages[d], stepId)
  BY <1>1, FoundType DEF LeaksAfter
<1>6. /\ npuMemUsages' = [npuMemUsages EXCEPT ![d] = u]
      /\ leakMemSums' = [leakMemSums EXCEPT ![d] = sums]
      /\ GapsSeen(d, stepId)
  BY <1>2, <1>4, <1>5 DEF StepMsgReceived
<1>7. /\ seen' \in [DeviceIds -> [PoolTypes -> SUBSET Int]]
      /\ gaps' \in [DeviceIds -> [PoolTypes -> SUBSET Ratio]]
  BY <1>6, GapsFields
<1> QED BY <1>2, <1>4, <1>5, <1>6, <1>7 DEF AnalyzerType

LEMMA StepMsgCases ==
    ASSUME NEW d \in DeviceIds, NEW stepId \in Nat, ReceiveStepMsg(d, stepId)
    PROVE  StepMsgReceived(d, stepId) \/ UNCHANGED analyzerVars
  BY DEF ReceiveStepMsg, StepMsgReceived

------------------------------------------------------------------------------------
(***************************************************************************)
(* Types.                                                                  *)
(***************************************************************************)
LEMMA PoolTotalsOf ==
    ASSUME TypeInv, NEW d \in DeviceIds, NEW type \in PoolTypes, NEW ptr \in Ptrs
    PROVE  regions[d][type][ptr] \in Int /\ totalAllocated[d][type] \in Int
<1>1. regions[d][type][ptr] \in BlockSizes \cup {NoRegion}
  BY DEF TypeInv, ProgramType
<1>2. totalAllocated[d][type] \in Int
  BY DEF TypeInv, ProgramType
<1>3. BlockSizes \subseteq Int /\ NoRegion \in Int
  BY TrackingAssumption DEF NoRegion
<1> QED BY <1>1, <1>2, <1>3

LEMMA PoolTypesKept ==
    ASSUME TypeInv, NEW t \in Threads, NEW type \in PoolTypes, NEW ptr \in Ptrs,
           \/ PoolFree(t, type, ptr)
           \/ \E size \in BlockSizes : PoolMalloc(t, type, ptr, size)
    PROVE  TypeInv'
<1> PICK d \in DeviceIds : d = DeviceOf[t]
  BY TrackingAssumption
<1>1. regions[d][type][ptr] \in Int /\ totalAllocated[d][type] \in Int
  BY PoolTotalsOf
<1>2. CASE PoolFree(t, type, ptr)
  <2>1. PICK total \in Int : total = totalAllocated[d][type] - regions[d][type][ptr]
    BY <1>1
  <2>2. RecordNpuFree(d, type, ptr, total) \/ UNCHANGED analyzerVars
    BY <1>2, <2>1 DEF PoolFree
  <2>3. AnalyzerType'
    BY <2>2, FreeFields DEF TypeInv, AnalyzerType, analyzerVars
  <2>4. /\ regions' = [regions EXCEPT ![d][type][ptr] = NoRegion]
        /\ totalAllocated' = [totalAllocated EXCEPT ![d][type] = total]
        /\ subscribed' \in BOOLEAN
        /\ UNCHANGED <<stepList, tracing, markVars, pyStepId>>
    BY <1>2, <2>1 DEF PoolFree, GetInstance
  <2>5. ProgramType'
    BY <2>4 DEF TypeInv, ProgramType, markVars
  <2> QED BY <2>3, <2>5 DEF TypeInv
<1>3. ASSUME NEW size \in BlockSizes, PoolMalloc(t, type, ptr, size) PROVE TypeInv'
  <2> size \in Nat
    BY TrackingAssumption
  <2>1. PICK total \in Int : total = totalAllocated[d][type] + size
    BY <1>1
  <2>2. RecordNpuMalloc(d, type, ptr, size, total) \/ UNCHANGED analyzerVars
    BY <1>3, <2>1 DEF PoolMalloc
  <2>3. AnalyzerType'
    BY <2>2, MallocFields DEF TypeInv, AnalyzerType, analyzerVars
  <2>4. /\ regions' = [regions EXCEPT ![d][type][ptr] = size]
        /\ totalAllocated' = [totalAllocated EXCEPT ![d][type] = total]
        /\ subscribed' \in BOOLEAN
        /\ UNCHANGED <<stepList, tracing, markVars, pyStepId>>
    BY <1>3, <2>1 DEF PoolMalloc, GetInstance
  <2>5. ProgramType'
    BY <2>4 DEF TypeInv, ProgramType, markVars
  <2> QED BY <2>3, <2>5 DEF TypeInv
<1> QED BY <1>2, <1>3

LEMMA RangeTypesKept ==
    ASSUME TypeInv, NEW t \in Threads,
           \/ \E message \in Messages : RangeStart(t, message) \/ RangeStartStopped(t, message)
           \/ \E r \in ranges : RangeEnd(t, r) \/ RangeEndStopped(t, r)
           \/ Stamp(t)
    PROVE  TypeInv'
<1>1. ASSUME NEW message \in Messages, RangeStart(t, message) PROVE TypeInv'
  <2>1. stepInfo' \in MstxStepInfo
    BY <1>1 DEF RangeStart, StepInfoAtStart, TypeInv, ProgramType, MstxStepInfo
  <2>2. PICK n \in Nat : n = IF message = StepStart THEN stepInfo'.currentStepId ELSE 0
    BY <2>1 DEF MstxStepInfo
  <2>3. ranges' = ranges \cup {[id |-> rangeId, message |-> message, by |-> t, step |-> n]}
    BY <1>1, <2>2 DEF RangeStart
  <2>4. ranges' \in SUBSET Range
    BY <2>3 DEF TypeInv, ProgramType, Range
  <2>5. mark' \in [Threads -> MstxRecord]
    BY <1>1 DEF RangeStart, TypeInv, ProgramType, MstxRecord
  <2> QED BY <1>1, <2>1, <2>4, <2>5
          DEF RangeStart, TypeInv, ProgramType, AnalyzerType, analyzerVars, poolVars
<1>2. ASSUME NEW message \in Messages, RangeStartStopped(t, message) PROVE TypeInv'
  BY <1>2 DEF RangeStartStopped, TypeInv, ProgramType, AnalyzerType, analyzerVars, poolVars, Range
<1>3. ASSUME NEW r \in ranges, RangeEnd(t, r) PROVE TypeInv'
  <2>1. stepInfo' \in MstxStepInfo
    BY <1>3 DEF RangeEnd, StepInfoAtEnd, TypeInv, ProgramType, MstxStepInfo
  <2>2. r \in Range
    BY DEF TypeInv, ProgramType
  <2>3. mark' \in [Threads -> MstxRecord]
    BY <1>3, <2>2 DEF RangeEnd, TypeInv, ProgramType, MstxRecord, Range
  <2> QED BY <1>3, <2>1, <2>3
          DEF RangeEnd, TypeInv, ProgramType, AnalyzerType, analyzerVars, poolVars
<1>4. ASSUME NEW r \in ranges, RangeEndStopped(t, r) PROVE TypeInv'
  BY <1>4 DEF RangeEndStopped, TypeInv, ProgramType, AnalyzerType, analyzerVars, poolVars
<1>5. CASE Stamp(t)
  <2>1. stepInfo.currentStepId \in Nat
    BY DEF TypeInv, ProgramType, MstxStepInfo
  <2>2. mark' \in [Threads -> MstxRecord]
    BY <1>5, <2>1 DEF Stamp, TypeInv, ProgramType, MstxRecord
  <2> QED BY <1>5, <2>2 DEF Stamp, TypeInv, ProgramType, AnalyzerType, analyzerVars, poolVars
<1> QED BY <1>1, <1>2, <1>3, <1>4, <1>5

\* The marks that reach the analysis, by the handler that takes them.
NotifyStart(t) == mark[t].markType = "RANGE_START_A"
                  /\ ReceiveStepStart(DeviceOf[t], mark[t].stepId, mark[t].rangeId)
NotifyEnd(t) == mark[t].markType = "RANGE_END"
                /\ ReceiveRangeEnd(DeviceOf[t], mark[t].stepId, mark[t].rangeId)

LEMMA NotifyCases ==
    ASSUME NEW t, Notify(t)
    PROVE  NotifyStart(t) \/ NotifyEnd(t) \/ UNCHANGED analyzerVars
  BY DEF Notify, ReceiveMstxMsg, IgnoreMark, NotifyStart, NotifyEnd

\* Nothing reaches the analysis before a record of a pool has built it.
LEMMA OnlySubscribed ==
    ASSUME NEW t, Notify(t) \/ ReportPyStepRecord(t)
    PROVE  UNCHANGED subscribed /\ (subscribed \/ UNCHANGED analyzerVars)
  BY DEF Notify, ReportPyStepRecord, poolVars

LEMMA PoolSubscribes ==
    ASSUME TypeInv, NEW t, NEW type, NEW ptr,
           \/ PoolFree(t, type, ptr)
           \/ \E size \in BlockSizes : PoolMalloc(t, type, ptr, size)
    PROVE  /\ subscribed' \in {subscribed, TRUE}
           /\ subscribed' \/ UNCHANGED analyzerVars
<1>1. GetInstance /\ ((tracing /\ ~ IsNeedSkip) \/ UNCHANGED analyzerVars)
  BY DEF PoolFree, PoolMalloc
<1> QED BY <1>1 DEF GetInstance, TypeInv, ProgramType

LEMMA MarkStep ==
    ASSUME TypeInv, NEW t \in Threads
    PROVE  mark[t].stepId \in Nat /\ DeviceOf[t] \in DeviceIds
  BY TrackingAssumption DEF TypeInv, ProgramType, MstxRecord

LEMMA ReportTypesKept ==
    ASSUME TypeInv, NEW t \in Threads, Notify(t) \/ ReportPyStepRecord(t)
    PROVE  TypeInv'
<1>1. CASE Notify(t)
  <2>1. AnalyzerType'
    BY <1>1, NotifyCases, MarkStep, StartFields, EndFields
       DEF NotifyStart, NotifyEnd, TypeInv, AnalyzerType, analyzerVars
  <2>2. NoMark \in MstxRecord
    BY DEF NoMark, MstxRecord
  <2>3. ProgramType'
    BY <1>1, <2>2 DEF Notify, TypeInv, ProgramType, poolVars
  <2> QED BY <2>1, <2>3 DEF TypeInv
<1>2. CASE ReportPyStepRecord(t)
  <2>1. pyStepId + 1 \in Nat
    BY DEF TypeInv, ProgramType
  <2>2. ReceiveStepMsg(DeviceOf[t], pyStepId + 1) \/ UNCHANGED analyzerVars
    BY <1>2 DEF ReportPyStepRecord
  <2>3. StepMsgReceived(DeviceOf[t], pyStepId + 1) \/ UNCHANGED analyzerVars
    BY <2>1, <2>2, MarkStep, StepMsgCases
  <2>4. AnalyzerType'
    BY <2>1, <2>3, MarkStep, StepMsgFields DEF TypeInv, AnalyzerType, analyzerVars
  <2>5. ProgramType'
    BY <1>2, <2>1 DEF ReportPyStepRecord, TypeInv, ProgramType, poolVars, markVars
  <2> QED BY <2>4, <2>5 DEF TypeInv
<1> QED BY <1>1, <1>2

LEMMA TypesKept ==
    ASSUME TypeInv, [Next]_vars
    PROVE  TypeInv'
<1>1. CASE SwitchTracing
  BY <1>1 DEF SwitchTracing, TypeInv, ProgramType, AnalyzerType, analyzerVars, poolVars, markVars
<1>2. CASE UNCHANGED vars
  BY <1>2 DEF vars, TypeInv, ProgramType, AnalyzerType, analyzerVars, poolVars, markVars
<1> QED BY <1>1, <1>2, PoolTypesKept, RangeTypesKept, ReportTypesKept DEF Next

LEMMA InitTypes ==
    ASSUME Init
    PROVE  TypeInv
<1>1. [p \in {} |-> NewPoolStatus] \in StatusTable
  <2>1. [p \in {} |-> NewPoolStatus] \in [{} -> PoolTotals]
    OBVIOUS
  <2> QED BY <2>1 DEF StatusTable
<1>2. AnalyzerType
  BY <1>1 DEF Init, AnalyzerInit, AnalyzerType, NpuMemUsage
<1>3. ProgramType
  <2>1. stepList \in SUBSET Nat
    BY AnalyzerAssumption DEF Init
  <2>2. NoMark \in MstxRecord
    BY DEF MstxRecord, NoMark
  <2>3. stepInfo \in MstxStepInfo
    BY DEF Init, MstxStepInfo
  <2>4. regions \in [DeviceIds -> [PoolTypes -> [Ptrs -> BlockSizes \cup {NoRegion}]]]
    BY DEF Init
  <2>5. tracing \in BOOLEAN /\ subscribed \in BOOLEAN
    BY DEF Init
  <2> QED BY <2>1, <2>2, <2>3, <2>4, <2>5 DEF Init, ProgramType
<1> QED BY <1>2, <1>3 DEF TypeInv

\* Marks, records, stops and checks, in any order, leave every variable with its type.
THEOREM TypeCorrect == Spec => []TypeInv
<1>1. Init => TypeInv
  BY InitTypes
<1>2. TypeInv /\ [Next]_vars => TypeInv'
  BY TypesKept
<1> QED BY <1>1, <1>2, PTL DEF Spec

------------------------------------------------------------------------------------
(***************************************************************************)
(* The analysis of a device implements LeakReport.                         *)
(***************************************************************************)
Fresh(u) == {BlockOf(b) : b \in {b \in u.poolOpTable : b.duration = 0}}
Aged(u) == {BlockOf(b) : b \in {b \in u.poolOpTable : b.duration > 0}}
ReportOf(l) == [key |-> <<l.type, l.ptr>>, step |-> l.leakStepId, size |-> l.leakSize]
ReportsIn(sums) == {ReportOf(l) : l \in sums}

LEMMA BlocksOf ==
    ASSUME NEW u \in NpuMemUsage
    PROVE  /\ Fresh(u) \cup Aged(u) = {BlockOf(b) : b \in u.poolOpTable}
           /\ \A b \in u.poolOpTable : /\ BlockOf(b).key = <<b.type, b.ptr>>
                                       /\ BlockOf(b).step = b.stepId
  BY DEF Fresh, Aged, BlockOf, NpuMemUsage, NpuMemInfo

LEMMA EmplacedBlock ==
    ASSUME NEW u \in NpuMemUsage, NEW v \in NpuMemUsage,
           NEW ptr \in Ptrs, NEW type \in PoolTypes, NEW size \in Nat,
           v.poolOpTable = Emplaced(u, ptr, type, size)
    PROVE  \/ v.poolOpTable = u.poolOpTable
           \/ /\ \A b \in Fresh(u) \cup Aged(u) : b.key # <<type, ptr>>
              /\ Fresh(v) = Fresh(u)
                   \cup {[key |-> <<type, ptr>>, step |-> u.duringStep, size |-> size]}
              /\ Aged(v) = Aged(u)
<1>1. CASE \E b \in u.poolOpTable : b.ptr = ptr /\ b.type = type
  BY <1>1 DEF Emplaced
<1>2. CASE ~ \E b \in u.poolOpTable : b.ptr = ptr /\ b.type = type
  <2> DEFINE new == [ptr |-> ptr, type |-> type, memSize |-> size,
                     duration |-> 0, stepId |-> u.duringStep]
  <2>1. v.poolOpTable = u.poolOpTable \cup {new}
    BY <1>2 DEF Emplaced
  <2>2. \A b \in Fresh(u) \cup Aged(u) : b.key # <<type, ptr>>
    BY <1>2, BlocksOf
  <2>3. /\ BlockOf(new) = [key |-> <<type, ptr>>, step |-> u.duringStep, size |-> size]
        /\ new.duration = 0
    BY DEF BlockOf
  <2> HIDE DEF new
  <2>4. Fresh(v) = Fresh(u) \cup {BlockOf(new)}
    BY <2>1, <2>3 DEF Fresh
  <2>5. Aged(v) = Aged(u)
    BY <2>1, <2>3 DEF Aged
  <2> QED BY <2>2, <2>3, <2>4, <2>5
<1> QED BY <1>1, <1>2

LEMMA ErasedBlock ==
    ASSUME NEW u \in NpuMemUsage, NEW v \in NpuMemUsage,
           NEW ptr \in Ptrs, NEW type \in PoolTypes,
           v.poolOpTable = Erased(u, ptr, type)
    PROVE  \/ v.poolOpTable = u.poolOpTable
           \/ /\ \E b \in Fresh(u) \cup Aged(u) : b.key = <<type, ptr>>
              /\ Fresh(v) = {b \in Fresh(u) : b.key # <<type, ptr>>}
              /\ Aged(v) = {b \in Aged(u) : b.key # <<type, ptr>>}
<1>1. \A b \in u.poolOpTable : (b.ptr = ptr /\ b.type = type) <=> BlockOf(b).key = <<type, ptr>>
  BY BlocksOf
<1>2. v.poolOpTable = {b \in u.poolOpTable : BlockOf(b).key # <<type, ptr>>}
  BY <1>1 DEF Erased
<1>3. CASE \A b \in u.poolOpTable : BlockOf(b).key # <<type, ptr>>
  BY <1>2, <1>3
<1>4. CASE \E b \in u.poolOpTable : BlockOf(b).key = <<type, ptr>>
  <2>1. \E b \in Fresh(u) \cup Aged(u) : b.key = <<type, ptr>>
    BY <1>4, BlocksOf
  <2>2. Fresh(v) = {b \in Fresh(u) : b.key # <<type, ptr>>}
    BY <1>2 DEF Fresh
  <2>3. Aged(v) = {b \in Aged(u) : b.key # <<type, ptr>>}
    BY <1>2 DEF Aged
  <2> QED BY <2>1, <2>2, <2>3
<1> QED BY <1>3, <1>4

\* Every block ages when a step begins.
LEMMA BegunBlocks ==
    ASSUME NEW u \in NpuMemUsage, NEW v \in NpuMemUsage,
           v.poolOpTable = {Older(b) : b \in u.poolOpTable}
    PROVE  Fresh(v) = {} /\ Aged(v) = Fresh(u) \cup Aged(u)
<1>1. \A b \in u.poolOpTable : /\ Older(b).duration \in Nat \ {0}
                               /\ BlockOf(Older(b)) = BlockOf(b)
  BY DEF Older, BlockOf, NpuMemUsage, NpuMemInfo
<1>2. Fresh(v) = {}
  BY <1>1 DEF Fresh
<1>3. Aged(v) = {BlockOf(b) : b \in u.poolOpTable}
  BY <1>1 DEF Aged
<1> QED BY <1>2, <1>3, BlocksOf

\* A leak is reported again in the place of an earlier report of the same block.
DueBlocks(u) == {b \in Aged(u) : b.step > 1}
ReportedBlocks(u, sums) ==
    {l \in ReportsIn(sums) : \A b \in DueBlocks(u) : l.key # b.key \/ l.step # b.step}
    \cup DueBlocks(u)

LEMMA FoundLeaks ==
    ASSUME NEW u \in NpuMemUsage, NEW sums \in SUBSET LeakInfo
    PROVE  ReportsIn(CheckNpuLeak(sums, u)) = ReportedBlocks(u, sums)
<1> DEFINE found == {Leak(b) : b \in LeakCandidates(u)}
           kept == {l \in sums : \A k \in found : ~ SameLeakKey(l, k)}
<1>1. \A b \in u.poolOpTable : b \in LeakCandidates(u) <=> b.stepId > 1 /\ b.duration > 0
  BY DEF LeakCandidates, SkipCheck, skipSteps, durationThreshold, NpuMemUsage, NpuMemInfo
<1>2. \A b \in u.poolOpTable : Leak(b) \in LeakInfo /\ ReportOf(Leak(b)) = BlockOf(b)
  BY DEF Leak, ReportOf, BlockOf, LeakInfo, NpuMemUsage, NpuMemInfo
<1>3. LeakCandidates(u) \subseteq u.poolOpTable
  BY DEF LeakCandidates
<1>4. ReportsIn(found) = DueBlocks(u)
  <2>1. ReportsIn(found) = {BlockOf(b) : b \in LeakCandidates(u)}
    BY <1>2, <1>3 DEF ReportsIn
  <2>2. \A x : x \in DueBlocks(u) <=>
          \E b \in u.poolOpTable : b.duration > 0 /\ x = BlockOf(b) /\ x.step > 1
    BY DEF DueBlocks, Aged
  <2> QED BY <1>1, <1>3, <2>1, <2>2, BlocksOf
<1>5. \A l, k \in LeakInfo : SameLeakKey(l, k) <=> /\ ReportOf(l).key = ReportOf(k).key
                                                   /\ ReportOf(l).step = ReportOf(k).step
  BY DEF SameLeakKey, ReportOf, LeakInfo
<1>6. found \in SUBSET LeakInfo
  BY <1>2, <1>3
<1>7. CheckNpuLeak(sums, u) = kept \cup found
  BY DEF CheckNpuLeak
<1> HIDE DEF found
<1>8. \A l \in sums : l \in kept <=>
        \A b \in DueBlocks(u) : ReportOf(l).key # b.key \/ ReportOf(l).step # b.step
  BY <1>4, <1>5, <1>6 DEF ReportsIn
<1> HIDE DEF kept
<1>9. kept \subseteq sums
  BY DEF kept
<1>10. ReportsIn(kept \cup found) = ReportsIn(kept) \cup ReportsIn(found)
  BY DEF ReportsIn
<1>11. ReportsIn(kept) = {l \in ReportsIn(sums) :
                            \A b \in DueBlocks(u) : l.key # b.key \/ l.step # b.step}
  BY <1>8, <1>9 DEF ReportsIn
<1> QED BY <1>4, <1>7, <1>10, <1>11 DEF ReportedBlocks

\* What happens on one device is nothing to another, but that a record has come.
LEMMA UnheardOf ==
    ASSUME NEW d \in DeviceIds, subscribed' \in {subscribed, TRUE},
           npuMemUsages'[d].poolOpTable = npuMemUsages[d].poolOpTable,
           npuMemUsages'[d].duringStep = npuMemUsages[d].duringStep,
           leakMemSums'[d] = leakMemSums[d]
    PROVE  LeaksOf(d)!Step
<1>1. CASE UNCHANGED subscribed
  BY <1>1 DEF LeaksOf!Step, LeaksOf!vars
<1>2. CASE subscribed' = TRUE
  <2>1. LeaksOf(d)!Hear
    BY <1>2 DEF LeaksOf!Hear
  <2> QED BY <2>1 DEF LeaksOf!Step, LeaksOf!Next
<1> QED BY <1>1, <1>2

LEMMA OtherDevice ==
    ASSUME NEW d \in DeviceIds, subscribed' \in {subscribed, TRUE},
           npuMemUsages'[d] = npuMemUsages[d], leakMemSums'[d] = leakMemSums[d]
    PROVE  LeaksOf(d)!Step
  BY UnheardOf

LEMMA DeviceMalloc ==
    ASSUME TypeInv, TypeInv', NEW d \in DeviceIds, NEW type \in PoolTypes, NEW ptr \in Ptrs,
           NEW size \in BlockSizes, NEW total \in Int, RecordNpuMalloc(d, type, ptr, size, total),
           subscribed' = TRUE
    PROVE  LeaksOf(d)!Step
<1> size \in Nat
  BY TrackingAssumption
<1> DEFINE u == npuMemUsages[d]
           k == <<type, ptr>>
<1>1. AnalyzerType /\ AnalyzerType'
  BY DEF TypeInv
<1>2. /\ npuMemUsages'[d].poolOpTable = Emplaced(u, ptr, type, size)
      /\ npuMemUsages'[d].duringStep = u.duringStep
      /\ UNCHANGED leakMemSums
  BY <1>1, MallocFields DEF RecordNpuMalloc
<1>3. PICK v \in NpuMemUsage : v = npuMemUsages'[d]
  BY <1>1 DEF AnalyzerType
<1>4. u \in NpuMemUsage
  BY <1>1 DEF AnalyzerType
<1>5. \/ v.poolOpTable = u.poolOpTable
      \/ /\ \A b \in Fresh(u) \cup Aged(u) : b.key # k
         /\ Fresh(v) = Fresh(u) \cup {[key |-> k, step |-> u.duringStep, size |-> size]}
         /\ Aged(v) = Aged(u)
  BY <1>2, <1>3, <1>4, EmplacedBlock
<1>6. CASE v.poolOpTable = u.poolOpTable
  BY <1>2, <1>3, <1>6, UnheardOf
<1>7. CASE /\ \A b \in Fresh(u) \cup Aged(u) : b.key # k
           /\ Fresh(v) = Fresh(u) \cup {[key |-> k, step |-> u.duringStep, size |-> size]}
           /\ Aged(v) = Aged(u)
  <2>1. LeaksOf(d)!Malloc(k, size)
    BY <1>2, <1>3, <1>7 DEF LeaksOf!Malloc, LeaksOf!Held, Fresh, Aged
  <2>2. k \in PoolTypes \X Ptrs
    OBVIOUS
  <2> HIDE DEF k
  <2>3. LeaksOf(d)!Next
    BY <2>1, <2>2 DEF LeaksOf!Next
  <2> QED BY <2>3 DEF LeaksOf!Step
<1> QED BY <1>5, <1>6, <1>7

LEMMA DeviceFree ==
    ASSUME TypeInv, TypeInv', NEW d \in DeviceIds, NEW type \in PoolTypes, NEW ptr \in Ptrs,
           NEW total \in Int, RecordNpuFree(d, type, ptr, total), subscribed' = TRUE
    PROVE  LeaksOf(d)!Step
<1> DEFINE u == npuMemUsages[d]
           k == <<type, ptr>>
<1>1. AnalyzerType /\ AnalyzerType'
  BY DEF TypeInv
<1>2. /\ npuMemUsages'[d].poolOpTable = Erased(u, ptr, type)
      /\ npuMemUsages'[d].duringStep = u.duringStep
      /\ UNCHANGED leakMemSums
  BY <1>1, FreeFields DEF RecordNpuFree
<1>3. PICK v \in NpuMemUsage : v = npuMemUsages'[d]
  BY <1>1 DEF AnalyzerType
<1>4. u \in NpuMemUsage
  BY <1>1 DEF AnalyzerType
<1>5. \/ v.poolOpTable = u.poolOpTable
      \/ /\ \E b \in Fresh(u) \cup Aged(u) : b.key = k
         /\ Fresh(v) = {b \in Fresh(u) : b.key # k}
         /\ Aged(v) = {b \in Aged(u) : b.key # k}
  BY <1>2, <1>3, <1>4, ErasedBlock
<1>6. CASE v.poolOpTable = u.poolOpTable
  BY <1>2, <1>3, <1>6, UnheardOf
<1>7. CASE /\ \E b \in Fresh(u) \cup Aged(u) : b.key = k
           /\ Fresh(v) = {b \in Fresh(u) : b.key # k}
           /\ Aged(v) = {b \in Aged(u) : b.key # k}
  <2>1. LeaksOf(d)!Free(k)
    BY <1>2, <1>3, <1>7 DEF LeaksOf!Free, LeaksOf!Held, Fresh, Aged
  <2>2. k \in PoolTypes \X Ptrs
    OBVIOUS
  <2> HIDE DEF k
  <2>3. LeaksOf(d)!Next
    BY <2>1, <2>2 DEF LeaksOf!Next
  <2> QED BY <2>3 DEF LeaksOf!Step
<1> QED BY <1>5, <1>6, <1>7

LEMMA DeviceReported ==
    ASSUME TypeInv, NEW d \in DeviceIds
    PROVE  LeaksOf(d)!Reported = ReportedBlocks(npuMemUsages[d], leakMemSums[d])
  BY DEF LeaksOf!Reported, LeaksOf!Due, ReportedBlocks, DueBlocks, Aged, ReportsIn, ReportOf

\* The step begins, by a mark or by a call of step(), which ends the one before it.
LEMMA DeviceBegin ==
    ASSUME TypeInv, TypeInv', NEW d \in DeviceIds, subscribed, UNCHANGED subscribed,
           npuMemUsages'[d].poolOpTable = {Older(b) : b \in npuMemUsages[d].poolOpTable},
           leakMemSums'[d] \in {leakMemSums[d], CheckNpuLeak(leakMemSums[d], npuMemUsages[d])}
    PROVE  LeaksOf(d)!Step
<1> DEFINE u == npuMemUsages[d]
<1>1. u \in NpuMemUsage /\ leakMemSums[d] \in SUBSET LeakInfo
  BY DEF TypeInv, AnalyzerType
<1>2. PICK v \in NpuMemUsage : v = npuMemUsages'[d]
  BY DEF TypeInv, AnalyzerType
<1>3. Fresh(v) = {} /\ Aged(v) = Fresh(u) \cup Aged(u)
  BY <1>1, <1>2, BegunBlocks
<1>4. v.duringStep \in Nat
  BY DEF NpuMemUsage
<1>5. ReportsIn(leakMemSums'[d]) \in {ReportsIn(leakMemSums[d]), ReportedBlocks(u, leakMemSums[d])}
  BY <1>1, FoundLeaks
<1>6. LeaksOf(d)!BeginStep
  BY <1>2, <1>3, <1>4, <1>5, DeviceReported
     DEF LeaksOf!BeginStep, LeaksOf!Held, Fresh, Aged, ReportsIn, ReportOf
<1> QED BY <1>6 DEF LeaksOf!Step, LeaksOf!Next

LEMMA DeviceEnd ==
    ASSUME TypeInv, NEW d \in DeviceIds, subscribed, UNCHANGED subscribed,
           npuMemUsages'[d].poolOpTable = npuMemUsages[d].poolOpTable,
           npuMemUsages'[d].duringStep = npuMemUsages[d].duringStep,
           leakMemSums'[d] \in {leakMemSums[d], CheckNpuLeak(leakMemSums[d], npuMemUsages[d])}
    PROVE  LeaksOf(d)!Step
<1>1. npuMemUsages[d] \in NpuMemUsage /\ leakMemSums[d] \in SUBSET LeakInfo
  BY DEF TypeInv, AnalyzerType
<1>2. CASE leakMemSums'[d] = leakMemSums[d]
  BY <1>2, UnheardOf
<1>3. CASE leakMemSums'[d] = CheckNpuLeak(leakMemSums[d], npuMemUsages[d])
  <2>1. ReportsIn(leakMemSums'[d]) = ReportedBlocks(npuMemUsages[d], leakMemSums[d])
    BY <1>1, <1>3, FoundLeaks
  <2>2. LeaksOf(d)!EndStep
    BY <2>1, DeviceReported DEF LeaksOf!EndStep, ReportsIn, ReportOf
  <2> QED BY <2>2 DEF LeaksOf!Step, LeaksOf!Next
<1> QED BY <1>2, <1>3

LEMMA LeaksAfterCases ==
    ASSUME NEW sums, NEW u, NEW stepId
    PROVE  LeaksAfter(sums, u, stepId) \in {sums, CheckNpuLeak(sums, u)}
  BY DEF LeaksAfter

LEMMA PoolLeaks ==
    ASSUME TypeInv, TypeInv', NEW t \in Threads, NEW type \in PoolTypes, NEW ptr \in Ptrs,
           \/ PoolFree(t, type, ptr)
           \/ \E size \in BlockSizes : PoolMalloc(t, type, ptr, size),
           NEW e \in DeviceIds
    PROVE  LeaksOf(e)!Step
<1> PICK d \in DeviceIds : d = DeviceOf[t]
  BY TrackingAssumption
<1>1. regions[d][type][ptr] \in Int /\ totalAllocated[d][type] \in Int
  BY PoolTotalsOf
<1>2. CASE UNCHANGED analyzerVars
  BY <1>2, PoolSubscribes, OtherDevice DEF analyzerVars
<1>3. CASE PoolFree(t, type, ptr) /\ ~ UNCHANGED analyzerVars
  <2>1. PICK total \in Int : total = totalAllocated[d][type] - regions[d][type][ptr]
    BY <1>1
  <2>2. RecordNpuFree(d, type, ptr, total)
    BY <1>3, <2>1 DEF PoolFree
  <2>3. e # d => npuMemUsages'[e] = npuMemUsages[e] /\ leakMemSums'[e] = leakMemSums[e]
    BY <2>2, FreeFields DEF TypeInv, RecordNpuFree
  <2>4. subscribed' = TRUE
    BY <1>3, PoolSubscribes DEF TypeInv, ProgramType
  <2> QED BY <2>2, <2>3, <2>4, DeviceFree, OtherDevice
<1>4. ASSUME NEW size \in BlockSizes, PoolMalloc(t, type, ptr, size), ~ UNCHANGED analyzerVars
      PROVE  LeaksOf(e)!Step
  <2>1. size \in Nat
    BY TrackingAssumption
  <2>2. PICK total \in Int : total = totalAllocated[d][type] + size
    BY <1>1, <2>1
  <2>3. RecordNpuMalloc(d, type, ptr, size, total)
    BY <1>4, <2>2 DEF PoolMalloc
  <2>4. e # d => npuMemUsages'[e] = npuMemUsages[e] /\ leakMemSums'[e] = leakMemSums[e]
    BY <2>1, <2>3, MallocFields DEF TypeInv, RecordNpuMalloc
  <2>5. subscribed' = TRUE
    BY <1>4, PoolSubscribes DEF TypeInv, ProgramType
  <2> QED BY <2>3, <2>4, <2>5, DeviceMalloc, OtherDevice
<1> QED BY <1>2, <1>3, <1>4

LEMMA MarkLeaks ==
    ASSUME TypeInv, TypeInv', NEW t \in Threads, Notify(t), NEW e \in DeviceIds
    PROVE  LeaksOf(e)!Step
<1> PICK d \in DeviceIds : d = DeviceOf[t]
  BY TrackingAssumption
<1> PICK n \in Nat : n = mark[t].stepId
  BY MarkStep
<1> DEFINE u == npuMemUsages[d]
<1>1. AnalyzerType /\ u \in NpuMemUsage
  BY DEF TypeInv, AnalyzerType
<1>2. CASE UNCHANGED analyzerVars
  BY <1>2, OnlySubscribed, OtherDevice DEF analyzerVars
<1>3. CASE NotifyStart(t) /\ ~ UNCHANGED analyzerVars
  <2>1. ReceiveStepStart(d, n, mark[t].rangeId)
    BY <1>3 DEF NotifyStart
  <2>2. /\ npuMemUsages'[d] = StepBegun(u, n)
        /\ e # d => npuMemUsages'[e] = npuMemUsages[e]
        /\ UNCHANGED leakMemSums
    BY <1>1, <2>1, StartFields DEF ReceiveStepStart
  <2>3. npuMemUsages'[d].poolOpTable = {Older(b) : b \in u.poolOpTable}
    BY <1>1, <2>2, BegunUsage
  <2>4. CASE e = d
    BY <1>3, <2>2, <2>3, <2>4, OnlySubscribed, DeviceBegin
  <2>5. CASE e # d
    BY <2>2, <2>5, OnlySubscribed, OtherDevice
  <2> QED BY <2>4, <2>5
<1>4. CASE NotifyEnd(t) /\ ~ UNCHANGED analyzerVars
  <2>1. ReceiveRangeEnd(d, n, mark[t].rangeId)
    BY <1>4 DEF NotifyEnd
  <2>2. /\ npuMemUsages'[d] = HandleStepMsg(u, n)
        /\ leakMemSums'[d] = LeaksAfter(leakMemSums[d], u, n)
        /\ e # d => npuMemUsages'[e] = npuMemUsages[e] /\ leakMemSums'[e] = leakMemSums[e]
    BY <1>1, <2>1, EndFields
  <2>3. npuMemUsages'[d].poolOpTable = u.poolOpTable /\ npuMemUsages'[d].duringStep = u.duringStep
    BY <1>1, <2>2, HandledType
  <2>4. leakMemSums'[d] \in {leakMemSums[d], CheckNpuLeak(leakMemSums[d], u)}
    BY <2>2, LeaksAfterCases
  <2>5. CASE e = d
    BY <1>4, <2>3, <2>4, <2>5, OnlySubscribed, DeviceEnd
  <2>6. CASE e # d
    BY <2>2, <2>6, OnlySubscribed, OtherDevice
  <2> QED BY <2>5, <2>6
<1> QED BY <1>2, <1>3, <1>4, NotifyCases

LEMMA PyStepLeaks ==
    ASSUME TypeInv, TypeInv', NEW t \in Threads, ReportPyStepRecord(t), NEW e \in DeviceIds
    PROVE  LeaksOf(e)!Step
<1> PICK d \in DeviceIds : d = DeviceOf[t]
  BY TrackingAssumption
<1> PICK n \in Nat : n = pyStepId + 1
  BY DEF TypeInv, ProgramType
<1> DEFINE u == npuMemUsages[d]
<1>1. AnalyzerType /\ u \in NpuMemUsage
  BY DEF TypeInv, AnalyzerType
<1>2. CASE UNCHANGED analyzerVars
  BY <1>2, OnlySubscribed, OtherDevice DEF analyzerVars
<1>3. CASE StepMsgReceived(d, n) /\ ~ UNCHANGED analyzerVars
  <2>1. /\ npuMemUsages'[d] = StepBegun(HandleStepMsg(u, n), n + 1)
        /\ leakMemSums'[d] = LeaksAfter(leakMemSums[d], u, n)
        /\ e # d => npuMemUsages'[e] = npuMemUsages[e] /\ leakMemSums'[e] = leakMemSums[e]
    BY <1>1, <1>3, StepMsgFields
  <2>2. PICK v \in NpuMemUsage : v = HandleStepMsg(u, n) /\ v.poolOpTable = u.poolOpTable
    BY <1>1, HandledType
  <2>3. n + 1 \in Nat
    OBVIOUS
  <2>4. npuMemUsages'[d].poolOpTable = {Older(b) : b \in u.poolOpTable}
    BY <2>1, <2>2, <2>3, BegunUsage
  <2>5. leakMemSums'[d] \in {leakMemSums[d], CheckNpuLeak(leakMemSums[d], u)}
    BY <2>1, LeaksAfterCases
  <2>6. CASE e = d
    BY <1>3, <2>4, <2>5, <2>6, OnlySubscribed, DeviceBegin
  <2>7. CASE e # d
    BY <2>1, <2>7, OnlySubscribed, OtherDevice
  <2> QED BY <2>6, <2>7
<1>4. ReceiveStepMsg(d, n) \/ UNCHANGED analyzerVars
  BY DEF ReportPyStepRecord
<1> QED BY <1>2, <1>3, <1>4, StepMsgCases

\* On every device the analysis does what LeakReport allows of the steps that begin once a
\* record of a pool has come, and nothing else.
THEOREM LeaksReported == Spec => ReportsLeaks
<1> DEFINE Steps == \A d \in DeviceIds : LeaksOf(d)!Step
<1>1. Init => \A d \in DeviceIds : LeaksOf(d)!Init
  BY DEF Init, AnalyzerInit, LeaksOf!Init
<1>2. TypeInv /\ TypeInv' /\ [Next]_vars => [Steps]_vars
  <2> SUFFICES ASSUME TypeInv, TypeInv', Next, NEW e \in DeviceIds
               PROVE  LeaksOf(e)!Step
    OBVIOUS
  <2>1. CASE UNCHANGED <<poolVars, analyzerVars>>
    BY <2>1, OtherDevice DEF poolVars, analyzerVars
  <2>2. ASSUME ~ UNCHANGED <<poolVars, analyzerVars>>
        PROVE  \E t \in Threads :
                 \/ \E type \in PoolTypes, ptr \in Ptrs :
                      PoolFree(t, type, ptr) \/ \E size \in BlockSizes : PoolMalloc(t, type, ptr, size)
                 \/ Notify(t) \/ ReportPyStepRecord(t)
    BY <2>2 DEF Next, RangeStart, RangeStartStopped, RangeEnd, RangeEndStopped, Stamp,
                SwitchTracing
  <2> QED BY <2>1, <2>2, PoolLeaks, MarkLeaks, PyStepLeaks
<1> HIDE DEF Steps
<1>3. Spec => (\A d \in DeviceIds : LeaksOf(d)!Init) /\ [][Steps]_vars
  BY <1>1, <1>2, TypeCorrect, PTL DEF Spec
<1> QED BY <1>3 DEF ReportsLeaks, Steps

------------------------------------------------------------------------------------
(***************************************************************************)
(* The list of the steps that are open.  A range is found by its number,   *)
(* so the number must be its own: only the ranges that were begun while    *)
(* tracing was stopped share one, 0, which no step has.                    *)
(***************************************************************************)
RangesNumbered ==
    /\ \A r \in ranges : r.id < rangeId /\ (r.step # 0 => r.id # 0)
    /\ \A r, q \in ranges : r.id = q.id /\ r.id # 0 => r = q

ListInv == RangesNumbered /\ ListsOpenRanges

\* The actions that leave the ranges of the program alone.
LEMMA RangeSteps ==
    ASSUME [Next]_vars
    PROVE  \/ UNCHANGED <<stepInfo, rangeId, ranges>>
           \/ \E t \in Threads :
                \/ \E message \in Messages : RangeStart(t, message) \/ RangeStartStopped(t, message)
                \/ \E r \in ranges : RangeEnd(t, r) \/ RangeEndStopped(t, r)
<1>1. CASE UNCHANGED vars
  BY <1>1 DEF vars, markVars
<1>2. CASE \E t \in Threads, type \in PoolTypes, ptr \in Ptrs :
             PoolFree(t, type, ptr) \/ \E size \in BlockSizes : PoolMalloc(t, type, ptr, size)
  <2>1. ASSUME NEW t, NEW type, NEW ptr, PoolFree(t, type, ptr) PROVE UNCHANGED markVars
    BY <2>1 DEF PoolFree
  <2>2. ASSUME NEW t, NEW type, NEW ptr, NEW size, PoolMalloc(t, type, ptr, size)
        PROVE  UNCHANGED markVars
    BY <2>2 DEF PoolMalloc
  <2>3. UNCHANGED markVars
    BY <1>2, <2>1, <2>2
  <2> QED BY <2>3 DEF markVars
<1>3. CASE \E t \in Threads : Stamp(t) \/ Notify(t) \/ ReportPyStepRecord(t)
  BY <1>3 DEF Stamp, Notify, ReportPyStepRecord, markVars
<1>4. CASE SwitchTracing
  BY <1>4 DEF SwitchTracing, markVars
<1> QED BY <1>1, <1>2, <1>3, <1>4, Zenon DEF Next

LEMMA StartedRange ==
    ASSUME TypeInv, NEW t \in Threads, NEW message \in Messages, RangeStart(t, message)
    PROVE  \E r \in Range :
             /\ r.id = rangeId /\ r.message = message /\ r.by = t
             /\ r.step = IF message = StepStart THEN stepInfo.currentStepId + 1 ELSE 0
             /\ ranges' = ranges \cup {r}
             /\ rangeId' = rangeId + 1
             /\ stepInfo' = IF message # StepStart THEN stepInfo
                            ELSE [currentStepId |-> stepInfo.currentStepId + 1,
                                  inStepRange |-> TRUE,
                                  stepMarkRangeIdList |-> stepInfo.stepMarkRangeIdList \cup {rangeId}]
<1>1. stepInfo.currentStepId \in Nat /\ rangeId \in Nat
  BY DEF TypeInv, ProgramType, MstxStepInfo
<1>2. PICK n \in Nat : n = IF message = StepStart THEN stepInfo.currentStepId + 1 ELSE 0
  BY <1>1
<1> DEFINE r == [id |-> rangeId, message |-> message, by |-> t, step |-> n]
<1>3. r \in Range
  BY <1>1 DEF Range
<1>4. stepInfo' = StepInfoAtStart(message, rangeId)
  BY DEF RangeStart
<1>5. message = StepStart => stepInfo'.currentStepId = stepInfo.currentStepId + 1
  BY <1>4 DEF StepInfoAtStart
<1>6. ranges' = ranges \cup {r} /\ rangeId' = rangeId + 1
  BY <1>2, <1>5 DEF RangeStart
<1>7. r.id = rangeId /\ r.message = message /\ r.by = t /\ r.step = n
  OBVIOUS
<1> HIDE DEF r
<1> QED BY <1>2, <1>3, <1>4, <1>6, <1>7 DEF StepInfoAtStart

LEMMA StoppedRange ==
    ASSUME NEW t \in Threads, NEW message \in Messages, RangeStartStopped(t, message)
    PROVE  \E r \in Range :
             /\ r.id = 0 /\ r.step = 0 /\ ranges' = ranges \cup {r}
             /\ UNCHANGED <<stepInfo, rangeId>>
<1> DEFINE r == [id |-> 0, message |-> message, by |-> t, step |-> 0]
<1>1. r \in Range /\ r.id = 0 /\ r.step = 0
  BY DEF Range
<1>2. ranges' = ranges \cup {r} /\ UNCHANGED <<stepInfo, rangeId>>
  BY DEF RangeStartStopped
<1> QED BY <1>1, <1>2

LEMMA NumbersKept ==
    ASSUME TypeInv, RangesNumbered, [Next]_vars
    PROVE  RangesNumbered'
<1>1. rangeId \in Nat \ {0} /\ ranges \in SUBSET Range
  BY DEF TypeInv, ProgramType
<1>2. \A r \in ranges : r.id \in Nat
  BY <1>1 DEF Range
<1>3. CASE UNCHANGED <<stepInfo, rangeId, ranges>>
  BY <1>3 DEF RangesNumbered
<1>4. ASSUME NEW t \in Threads, NEW message \in Messages, RangeStart(t, message)
      PROVE  RangesNumbered'
  <2>1. PICK r \in Range : r.id = rangeId /\ ranges' = ranges \cup {r} /\ rangeId' = rangeId + 1
    BY <1>4, StartedRange
  <2> QED BY <1>1, <1>2, <2>1 DEF RangesNumbered
<1>5. ASSUME NEW t \in Threads, NEW message \in Messages, RangeStartStopped(t, message)
      PROVE  RangesNumbered'
  <2>1. PICK r \in Range : r.id = 0 /\ r.step = 0 /\ ranges' = ranges \cup {r} /\ UNCHANGED rangeId
    BY <1>5, StoppedRange
  <2> QED BY <1>1, <1>2, <2>1 DEF RangesNumbered
<1>6. ASSUME NEW t \in Threads, NEW r \in ranges, RangeEnd(t, r) \/ RangeEndStopped(t, r)
      PROVE  RangesNumbered'
  BY <1>6 DEF RangeEnd, RangeEndStopped, RangesNumbered
<1> QED BY <1>3, <1>4, <1>5, <1>6, RangeSteps

LEMMA ListKept ==
    ASSUME TypeInv, ListInv, [Next]_vars
    PROVE  ListsOpenRanges'
<1> USE DEF ListsOpenRanges, OpenStepRanges
<1>1. CASE UNCHANGED <<stepInfo, rangeId, ranges>>
  BY <1>1 DEF ListInv
<1>2. ASSUME NEW t \in Threads, NEW message \in Messages, RangeStart(t, message)
      PROVE  ListsOpenRanges'
  <2>1. PICK r \in Range :
          /\ r.id = rangeId /\ ranges' = ranges \cup {r}
          /\ r.step = IF message = StepStart THEN stepInfo.currentStepId + 1 ELSE 0
          /\ message # StepStart => stepInfo' = stepInfo
          /\ message = StepStart => stepInfo'.stepMarkRangeIdList
                                      = stepInfo.stepMarkRangeIdList \cup {rangeId}
    BY <1>2, StartedRange
  <2> QED BY <2>1 DEF ListInv
<1>3. ASSUME NEW t \in Threads, NEW message \in Messages, RangeStartStopped(t, message)
      PROVE  ListsOpenRanges'
  <2>1. PICK r \in Range : r.step = 0 /\ ranges' = ranges \cup {r} /\ UNCHANGED stepInfo
    BY <1>3, StoppedRange
  <2> QED BY <2>1 DEF ListInv
<1>4. ASSUME NEW t \in Threads, NEW r \in ranges, RangeEnd(t, r) PROVE ListsOpenRanges'
  <2>1. stepInfo'.stepMarkRangeIdList \in {stepInfo.stepMarkRangeIdList,
                                           stepInfo.stepMarkRangeIdList \ {r.id}}
    BY <1>4 DEF RangeEnd, StepInfoAtEnd, TypeInv, ProgramType, MstxStepInfo
  <2>2. ranges' = ranges \ {r}
    BY <1>4 DEF RangeEnd
  <2>3. \A q \in ranges' : q.step # 0 => q.id # r.id
    BY <2>2 DEF ListInv, RangesNumbered
  <2> QED BY <2>1, <2>2, <2>3 DEF ListInv
<1>5. ASSUME NEW t \in Threads, NEW r \in ranges, RangeEndStopped(t, r) PROVE ListsOpenRanges'
  BY <1>5 DEF RangeEndStopped, ListInv
<1> QED BY <1>1, <1>2, <1>3, <1>4, <1>5, RangeSteps

\* Every step that is open is listed, and its end will be found.
THEOREM StepsListed == Spec => []ListsOpenRanges
<1>1. Init => ListInv
  BY DEF Init, ListInv, RangesNumbered, ListsOpenRanges, OpenStepRanges
<1>2. TypeInv /\ ListInv /\ [Next]_vars => ListInv'
  BY NumbersKept, ListKept DEF ListInv
<1>3. ListInv => ListsOpenRanges
  BY DEF ListInv
<1> QED BY <1>1, <1>2, <1>3, TypeCorrect, PTL DEF Spec

------------------------------------------------------------------------------------
(***************************************************************************)
(* What --steps selects, in a program of one thread that does not stop the *)
(* tracing: two threads may have steps open at once, and the end of either *)
(* then ends the selection of both (OverlappingSelection).                 *)
(***************************************************************************)
OneThread == \A s, t \in Threads : s = t

SelectInv ==
    /\ tracing
    /\ stepInfo.inStepRange => OpenStepRanges # {}
    /\ \A r \in OpenStepRanges : stepInfo.inStepRange /\ r.step = stepInfo.currentStepId
    /\ \A r, q \in OpenStepRanges : r = q
    /\ \A r \in ranges : r.message = StepStart <=> r.step # 0
    /\ \A id \in stepInfo.stepMarkRangeIdList : \E r \in OpenStepRanges : r.id = id

LEMMA StartSelects ==
    ASSUME TypeInv, OneThread, SelectInv,
           NEW t \in Threads, NEW message \in Messages, RangeStart(t, message)
    PROVE  SelectInv'
<1>1. PICK r \in Range :
        /\ r.id = rangeId /\ r.message = message /\ ranges' = ranges \cup {r}
        /\ r.step = IF message = StepStart THEN stepInfo.currentStepId + 1 ELSE 0
        /\ stepInfo' = IF message # StepStart THEN stepInfo
                       ELSE [currentStepId |-> stepInfo.currentStepId + 1,
                             inStepRange |-> TRUE,
                             stepMarkRangeIdList |-> stepInfo.stepMarkRangeIdList \cup {rangeId}]
  BY StartedRange
<1>2. tracing'
  BY DEF RangeStart, SelectInv
<1>3. CASE message # StepStart
  <2>1. OpenStepRanges' = OpenStepRanges
    BY <1>1, <1>3 DEF OpenStepRanges
  <2>2. stepInfo' = stepInfo
    BY <1>1, <1>3
  <2>3. \A q \in ranges' : q.message = StepStart <=> q.step # 0
    BY <1>1, <1>3 DEF SelectInv
  <2> QED BY <1>2, <2>1, <2>2, <2>3 DEF SelectInv
<1>4. CASE message = StepStart
  <2>1. stepInfo.currentStepId \in Nat
    BY DEF TypeInv, ProgramType, MstxStepInfo
  <2>2. \A q \in ranges : q.message # StepStart
    BY <1>4 DEF RangeStart, OneThread, TypeInv, ProgramType, Range
  <2>3. OpenStepRanges = {}
    BY <2>2 DEF OpenStepRanges, SelectInv
  <2>4. r.step # 0 /\ r.step = stepInfo.currentStepId + 1
    BY <1>1, <1>4, <2>1
  <2>5. OpenStepRanges' = {r}
    BY <1>1, <2>3, <2>4 DEF OpenStepRanges
  <2>6. stepInfo.stepMarkRangeIdList = {}
    BY <2>3 DEF SelectInv
  <2>7. /\ stepInfo'.currentStepId = stepInfo.currentStepId + 1 /\ stepInfo'.inStepRange
        /\ stepInfo'.stepMarkRangeIdList = {rangeId}
    BY <1>1, <1>4, <2>6
  <2>8. \A q \in ranges' : q.message = StepStart <=> q.step # 0
    BY <1>1, <1>4, <2>4 DEF SelectInv
  <2> QED BY <1>1, <1>2, <2>4, <2>5, <2>7, <2>8 DEF SelectInv
<1> QED BY <1>3, <1>4

LEMMA EndSelects ==
    ASSUME TypeInv, ListInv, SelectInv, NEW t \in Threads, NEW r \in ranges, RangeEnd(t, r)
    PROVE  SelectInv'
<1>1. tracing' /\ ranges' = ranges \ {r} /\ stepInfo' = StepInfoAtEnd(r.id)
  BY DEF RangeEnd, SelectInv
<1>2. \A q \in ranges' : q.message = StepStart <=> q.step # 0
  BY <1>1 DEF SelectInv
<1>3. CASE r.id \in stepInfo.stepMarkRangeIdList
  <2>1. PICK q \in OpenStepRanges : q.id = r.id
    BY <1>3 DEF SelectInv
  <2>2. q = r
    BY <2>1 DEF ListInv, RangesNumbered, OpenStepRanges
  <2>3. OpenStepRanges = {r}
    BY <2>1, <2>2 DEF SelectInv
  <2>4. OpenStepRanges' = {}
    BY <1>1, <2>3 DEF OpenStepRanges
  <2>5. stepInfo' = [stepInfo EXCEPT !.inStepRange = FALSE,
                       !.stepMarkRangeIdList = stepInfo.stepMarkRangeIdList \ {r.id}]
    BY <1>1, <1>3 DEF StepInfoAtEnd
  <2>6. ~ stepInfo'.inStepRange
        /\ stepInfo'.stepMarkRangeIdList = stepInfo.stepMarkRangeIdList \ {r.id}
    BY <2>5 DEF TypeInv, ProgramType, MstxStepInfo
  <2>7. stepInfo'.stepMarkRangeIdList = {}
    BY <2>3, <2>6 DEF SelectInv
  <2> QED BY <1>1, <1>2, <2>4, <2>6, <2>7 DEF SelectInv
<1>4. CASE r.id \notin stepInfo.stepMarkRangeIdList
  <2>1. r \notin OpenStepRanges
    BY <1>4 DEF ListInv, ListsOpenRanges
  <2>2. OpenStepRanges' = OpenStepRanges
    BY <1>1, <2>1 DEF OpenStepRanges
  <2>3. stepInfo' = stepInfo
    BY <1>1, <1>4 DEF StepInfoAtEnd
  <2> QED BY <1>1, <1>2, <2>2, <2>3 DEF SelectInv
<1> QED BY <1>3, <1>4

LEMMA TracingKept ==
    ASSUME ~ Stops, tracing, [Next]_vars
    PROVE  tracing'
<1>1. CASE UNCHANGED vars
  BY <1>1 DEF vars
<1>2. CASE \E t \in Threads, type \in PoolTypes, ptr \in Ptrs :
             PoolFree(t, type, ptr) \/ \E size \in BlockSizes : PoolMalloc(t, type, ptr, size)
  <2>1. ASSUME NEW t, NEW type, NEW ptr, PoolFree(t, type, ptr) PROVE UNCHANGED tracing
    BY <2>1 DEF PoolFree
  <2>2. ASSUME NEW t, NEW type, NEW ptr, NEW size, PoolMalloc(t, type, ptr, size)
        PROVE  UNCHANGED tracing
    BY <2>2 DEF PoolMalloc
  <2> QED BY <1>2, <2>1, <2>2
<1>3. CASE \E t \in Threads, message \in Messages :
             RangeStart(t, message) \/ RangeStartStopped(t, message)
  BY <1>3 DEF RangeStart, RangeStartStopped
<1>4. CASE \E t \in Threads, r \in ranges : RangeEnd(t, r) \/ RangeEndStopped(t, r)
  BY <1>4 DEF RangeEnd, RangeEndStopped
<1>5. CASE \E t \in Threads : Stamp(t) \/ Notify(t) \/ ReportPyStepRecord(t)
  BY <1>5 DEF Stamp, Notify, ReportPyStepRecord
<1>6. CASE SwitchTracing
  BY <1>6 DEF SwitchTracing
<1> QED BY <1>1, <1>2, <1>3, <1>4, <1>5, <1>6, Zenon DEF Next

LEMMA SelectionKept ==
    ASSUME ~ Stops, OneThread, TypeInv, ListInv, SelectInv, [Next]_vars
    PROVE  SelectInv'
<1>1. CASE UNCHANGED <<stepInfo, rangeId, ranges>>
  BY <1>1, TracingKept DEF SelectInv, OpenStepRanges
<1>2. ASSUME NEW t \in Threads, NEW message \in Messages, RangeStartStopped(t, message)
      PROVE  SelectInv'
  BY <1>2 DEF RangeStartStopped, SelectInv
<1>3. ASSUME NEW t \in Threads, NEW r \in ranges, RangeEndStopped(t, r)
      PROVE  SelectInv'
  BY <1>3 DEF RangeEndStopped, SelectInv
<1> QED BY <1>1, <1>2, <1>3, StartSelects, EndSelects, RangeSteps

\* --steps collects what happens in a range of one of its steps and nothing else, where one
\* thread marks the steps and tracing is never stopped.
THEOREM SelectionCollected ==
    ASSUME ~ Stops, OneThread
    PROVE  Spec => []CollectsSelectedSteps
<1>1. Init => ListInv /\ SelectInv
  BY DEF Init, ListInv, RangesNumbered, ListsOpenRanges, OpenStepRanges, SelectInv
<1>2. TypeInv /\ ListInv /\ SelectInv /\ [Next]_vars => ListInv' /\ SelectInv'
  BY NumbersKept, ListKept, SelectionKept DEF ListInv
<1>3. SelectInv => CollectsSelectedSteps
  <2> SUFFICES ASSUME SelectInv, stepList # {}
               PROVE  ~ IsNeedSkip <=> \E r \in OpenStepRanges : r.step \in stepList
    BY DEF CollectsSelectedSteps
  <2>1. ~ IsNeedSkip <=> stepInfo.currentStepId \in stepList /\ stepInfo.inStepRange
    BY DEF IsNeedSkip
  <2> QED BY <2>1 DEF SelectInv
<1> QED BY <1>1, <1>2, <1>3, TypeCorrect, PTL DEF Spec

------------------------------------------------------------------------------------
(***************************************************************************)
(* What the analysis holds is what the pools have handed out, as long as   *)
(* tracing is not stopped: it sees every block come and go.                *)
(***************************************************************************)
Mirrors(d) ==
    /\ \A b \in npuMemUsages[d].poolOpTable :
         b.memSize # NoRegion /\ regions[d][b.type][b.ptr] = b.memSize
    /\ \A p \in PoolTypes, a \in Ptrs : regions[d][p][a] # NoRegion =>
         \E b \in npuMemUsages[d].poolOpTable : b.type = p /\ b.ptr = a
    /\ \A p \in PoolTypes :
         PoolStatus(npuMemUsages[d], p).totalAllocated = totalAllocated[d][p]

MirrorInv ==
    /\ tracing
    /\ IsStepInnerAnalysisEnable => \A d \in DeviceIds : Mirrors(d)

LEMMA AccountedTotals ==
    ASSUME NEW u \in NpuMemUsage, NEW v \in NpuMemUsage, NEW type \in PoolTypes, NEW total \in Int,
           v.poolStatusTable = Accounted(u, type, total)
    PROVE  /\ PoolStatus(v, type)
                = [UpdateAllocated(u, PoolStatus(u, type), total) EXCEPT !.totalAllocated = total]
           /\ PoolStatus(v, type).totalAllocated = total
           /\ \A p \in PoolTypes : p # type => PoolStatus(v, p) = PoolStatus(u, p)
<1>1. /\ DOMAIN Accounted(u, type, total) = Pools(u) \cup {type}
      /\ \A p \in Pools(u) : p # type => Accounted(u, type, total)[p] = u.poolStatusTable[p]
  BY AccountedTable
<1> DEFINE s == UpdateAllocated(u, PoolStatus(u, type), total)
<1>2. s \in PoolTotals /\ Accounted(u, type, total)[type] = [s EXCEPT !.totalAllocated = total]
  BY AccountedTable
<1> HIDE DEF s
<1>3. [s EXCEPT !.totalAllocated = total].totalAllocated = total
  BY <1>2 DEF PoolTotals
<1>4. PoolStatus(v, type) = [s EXCEPT !.totalAllocated = total]
  BY <1>1, <1>2 DEF PoolStatus, Pools
<1>5. \A p \in PoolTypes : p # type => PoolStatus(v, p) = PoolStatus(u, p)
  BY <1>1 DEF PoolStatus, Pools
<1>6. PoolStatus(v, type).totalAllocated = total
  BY <1>3, <1>4
<1> QED BY ONLY <1>4, <1>5, <1>6 DEF s

LEMMA CheckedTotals ==
    ASSUME NEW u \in NpuMemUsage, NEW stepId \in Nat, NEW p \in PoolTypes
    PROVE  PoolStatus(HandleStepMsg(u, stepId), p).totalAllocated = PoolStatus(u, p).totalAllocated
<1>1. ASSUME NEW s \in PoolTotals PROVE GapChecked(u, s).totalAllocated = s.totalAllocated
  BY DEF GapChecked, PoolTotals
<1>2. \A q \in Pools(u) : u.poolStatusTable[q] \in PoolTotals
  BY TableOf DEF Pools, NpuMemUsage
<1>3. \A q \in Pools(u) :
        CheckGap(u).poolStatusTable[q].totalAllocated = u.poolStatusTable[q].totalAllocated
  BY <1>1, <1>2, CheckedUsage
<1>4. PoolStatus(CheckGap(u), p).totalAllocated = PoolStatus(u, p).totalAllocated
  BY <1>3, CheckedUsage DEF PoolStatus
<1> QED BY <1>4 DEF HandleStepMsg

LEMMA MallocMirrors ==
    ASSUME TypeInv, NEW t \in Threads, NEW type \in PoolTypes, NEW ptr \in Ptrs,
           NEW size \in BlockSizes, PoolMalloc(t, type, ptr, size),
           tracing, IsStepInnerAnalysisEnable, \A d \in DeviceIds : Mirrors(d),
           NEW e \in DeviceIds
    PROVE  Mirrors(e)'
<1> PICK d \in DeviceIds : d = DeviceOf[t]
  BY TrackingAssumption
<1> DEFINE u == npuMemUsages[d]
<1>1. size \in Nat /\ size # NoRegion
  BY TrackingAssumption DEF NoRegion
<1>2. PICK total \in Int : total = totalAllocated[d][type] + size
  BY <1>1, PoolTotalsOf
<1>3. RecordNpuMalloc(d, type, ptr, size, total)
  BY <1>2 DEF PoolMalloc, IsNeedSkip, IsStepInnerAnalysisEnable
<1>4. /\ AnalyzerType'
      /\ npuMemUsages'[d].poolOpTable = Emplaced(u, ptr, type, size)
      /\ npuMemUsages'[d].poolStatusTable = Accounted(u, type, total)
      /\ e # d => npuMemUsages'[e] = npuMemUsages[e]
  BY <1>1, <1>3, MallocFields DEF TypeInv
<1>5. u \in NpuMemUsage /\ npuMemUsages'[d] \in NpuMemUsage
  BY <1>4 DEF TypeInv, AnalyzerType
<1>6. /\ regions[d][type][ptr] = NoRegion
      /\ regions' = [regions EXCEPT ![d][type][ptr] = size]
      /\ totalAllocated' = [totalAllocated EXCEPT ![d][type] = total]
  BY <1>2 DEF PoolMalloc
<1>7. CASE e # d
  <2>1. regions'[e] = regions[e] /\ totalAllocated'[e] = totalAllocated[e]
    BY <1>6, <1>7 DEF TypeInv, ProgramType
  <2> QED BY <1>4, <1>7, <2>1 DEF Mirrors
<1>8. CASE e = d
  <2>1. /\ regions'[d][type][ptr] = size
        /\ \A p \in PoolTypes, a \in Ptrs :
             p # type \/ a # ptr => regions'[d][p][a] = regions[d][p][a]
    BY <1>6 DEF TypeInv, ProgramType
  <2>2. /\ totalAllocated'[d][type] = total
        /\ \A p \in PoolTypes : p # type => totalAllocated'[d][p] = totalAllocated[d][p]
    BY <1>6 DEF TypeInv, ProgramType
  <2>3. \A b \in u.poolOpTable : /\ b.type \in PoolTypes /\ b.ptr \in Ptrs
                                 /\ ~ (b.ptr = ptr /\ b.type = type)
    BY <1>5, <1>6 DEF Mirrors, NpuMemUsage, NpuMemInfo
  <2> DEFINE new == [ptr |-> ptr, type |-> type, memSize |-> size,
                     duration |-> 0, stepId |-> u.duringStep]
  <2>4. npuMemUsages'[d].poolOpTable = u.poolOpTable \cup {new}
    BY <1>4, <2>3 DEF Emplaced
  <2>5. new.ptr = ptr /\ new.type = type /\ new.memSize = size
    OBVIOUS
  <2> HIDE DEF new
  <2>6. \A b \in npuMemUsages'[d].poolOpTable :
          b.memSize # NoRegion /\ regions'[d][b.type][b.ptr] = b.memSize
    BY <1>1, <2>1, <2>3, <2>4, <2>5 DEF Mirrors
  <2>7. \A p \in PoolTypes, a \in Ptrs : regions'[d][p][a] # NoRegion =>
          \E b \in npuMemUsages'[d].poolOpTable : b.type = p /\ b.ptr = a
    BY <2>1, <2>4, <2>5 DEF Mirrors
  <2>8. \A p \in PoolTypes :
          PoolStatus(npuMemUsages'[d], p).totalAllocated = totalAllocated'[d][p]
    BY <1>4, <1>5, <2>2, AccountedTotals DEF Mirrors
  <2> QED BY <1>8, <2>6, <2>7, <2>8 DEF Mirrors
<1> QED BY <1>7, <1>8

LEMMA FreeMirrors ==
    ASSUME TypeInv, NEW t \in Threads, NEW type \in PoolTypes, NEW ptr \in Ptrs,
           PoolFree(t, type, ptr),
           tracing, IsStepInnerAnalysisEnable, \A d \in DeviceIds : Mirrors(d),
           NEW e \in DeviceIds
    PROVE  Mirrors(e)'
<1> PICK d \in DeviceIds : d = DeviceOf[t]
  BY TrackingAssumption
<1> DEFINE u == npuMemUsages[d]
<1>1. PICK total \in Int : total = totalAllocated[d][type] - regions[d][type][ptr]
  BY PoolTotalsOf
<1>2. RecordNpuFree(d, type, ptr, total)
  BY <1>1 DEF PoolFree, IsNeedSkip, IsStepInnerAnalysisEnable
<1>3. /\ AnalyzerType'
      /\ npuMemUsages'[d].poolOpTable = Erased(u, ptr, type)
      /\ npuMemUsages'[d].poolStatusTable = Accounted(u, type, total)
      /\ e # d => npuMemUsages'[e] = npuMemUsages[e]
  BY <1>2, FreeFields DEF TypeInv
<1>4. u \in NpuMemUsage /\ npuMemUsages'[d] \in NpuMemUsage
  BY <1>3 DEF TypeInv, AnalyzerType
<1>5. /\ regions' = [regions EXCEPT ![d][type][ptr] = NoRegion]
      /\ totalAllocated' = [totalAllocated EXCEPT ![d][type] = total]
  BY <1>1 DEF PoolFree
<1>6. CASE e # d
  <2>1. regions'[e] = regions[e] /\ totalAllocated'[e] = totalAllocated[e]
    BY <1>5, <1>6 DEF TypeInv, ProgramType
  <2> QED BY <1>3, <1>6, <2>1 DEF Mirrors
<1>7. CASE e = d
  <2>1. /\ regions'[d][type][ptr] = NoRegion
        /\ \A p \in PoolTypes, a \in Ptrs :
             p # type \/ a # ptr => regions'[d][p][a] = regions[d][p][a]
    BY <1>5 DEF TypeInv, ProgramType
  <2>2. /\ totalAllocated'[d][type] = total
        /\ \A p \in PoolTypes : p # type => totalAllocated'[d][p] = totalAllocated[d][p]
    BY <1>5 DEF TypeInv, ProgramType
  <2>3. \A b \in u.poolOpTable : b.type \in PoolTypes /\ b.ptr \in Ptrs
    BY <1>4 DEF NpuMemUsage, NpuMemInfo
  <2>4. npuMemUsages'[d].poolOpTable = {b \in u.poolOpTable : ~ (b.ptr = ptr /\ b.type = type)}
    BY <1>3 DEF Erased
  <2>5. \A b \in npuMemUsages'[d].poolOpTable :
          b.memSize # NoRegion /\ regions'[d][b.type][b.ptr] = b.memSize
    BY <2>1, <2>3, <2>4 DEF Mirrors
  <2>6. \A p \in PoolTypes, a \in Ptrs : regions'[d][p][a] # NoRegion =>
          \E b \in npuMemUsages'[d].poolOpTable : b.type = p /\ b.ptr = a
    BY <2>1, <2>4 DEF Mirrors
  <2>7. \A p \in PoolTypes :
          PoolStatus(npuMemUsages'[d], p).totalAllocated = totalAllocated'[d][p]
    BY <1>3, <1>4, <2>2, AccountedTotals DEF Mirrors
  <2> QED BY <1>7, <2>5, <2>6, <2>7 DEF Mirrors
<1> QED BY <1>6, <1>7

\* The end of a step and the beginning of the next one leave the blocks and the totals.
LEMMA StepMirrors ==
    ASSUME TypeInv, NEW d \in DeviceIds, Mirrors(d), UNCHANGED poolVars,
           npuMemUsages'[d].poolOpTable \in
             {npuMemUsages[d].poolOpTable, {Older(b) : b \in npuMemUsages[d].poolOpTable}},
           \A p \in PoolTypes : PoolStatus(npuMemUsages'[d], p).totalAllocated
                                  = PoolStatus(npuMemUsages[d], p).totalAllocated
    PROVE  Mirrors(d)'
<1> DEFINE T == npuMemUsages[d].poolOpTable
           T2 == npuMemUsages'[d].poolOpTable
<1>1. \A b \in T : /\ Older(b).ptr = b.ptr /\ Older(b).type = b.type
                   /\ Older(b).memSize = b.memSize
  BY DEF TypeInv, AnalyzerType, NpuMemUsage, NpuMemInfo, Older
<1>2. /\ \A c \in T2 : \E b \in T : c.ptr = b.ptr /\ c.type = b.type /\ c.memSize = b.memSize
      /\ \A b \in T : \E c \in T2 : c.ptr = b.ptr /\ c.type = b.type
  <2>1. CASE T2 = T
    BY <2>1
  <2>2. CASE T2 = {Older(b) : b \in T}
    BY <1>1, <2>2
  <2> QED BY <2>1, <2>2
<1>3. /\ \A c \in T2 : c.memSize # NoRegion /\ regions[d][c.type][c.ptr] = c.memSize
      /\ \A p \in PoolTypes, a \in Ptrs : regions[d][p][a] # NoRegion =>
           \E c \in T2 : c.type = p /\ c.ptr = a
  <2>1. \A b \in T : b.memSize # NoRegion /\ regions[d][b.type][b.ptr] = b.memSize
    BY DEF Mirrors
  <2>2. \A p \in PoolTypes, a \in Ptrs : regions[d][p][a] # NoRegion =>
          \E b \in T : b.type = p /\ b.ptr = a
    BY DEF Mirrors
  <2> HIDE DEF T, T2
  <2>3. ASSUME NEW c \in T2 PROVE c.memSize # NoRegion /\ regions[d][c.type][c.ptr] = c.memSize
    <3>1. PICK b \in T : c.ptr = b.ptr /\ c.type = b.type /\ c.memSize = b.memSize
      BY <1>2
    <3> QED BY <2>1, <3>1
  <2>4. ASSUME NEW p \in PoolTypes, NEW a \in Ptrs, regions[d][p][a] # NoRegion
        PROVE  \E c \in T2 : c.type = p /\ c.ptr = a
    <3>1. PICK b \in T : b.type = p /\ b.ptr = a
      BY <2>2, <2>4
    <3> QED BY <1>2, <3>1
  <2> QED BY <2>3, <2>4
<1> QED BY <1>3 DEF Mirrors, poolVars

LEMMA MarkMirrors ==
    ASSUME TypeInv, TypeInv', NEW t \in Threads, Notify(t), NEW e \in DeviceIds, Mirrors(e)
    PROVE  Mirrors(e)'
<1> PICK d \in DeviceIds : d = DeviceOf[t]
  BY TrackingAssumption
<1> PICK n \in Nat : n = mark[t].stepId
  BY MarkStep
<1> DEFINE u == npuMemUsages[d]
<1>1. AnalyzerType /\ u \in NpuMemUsage /\ UNCHANGED poolVars
  BY DEF TypeInv, AnalyzerType, Notify, poolVars
<1>2. CASE npuMemUsages'[e] = npuMemUsages[e]
  BY <1>1, <1>2 DEF Mirrors, poolVars
<1>3. CASE NotifyStart(t) /\ e = d
  <2>1. ReceiveStepStart(d, n, mark[t].rangeId)
    BY <1>3 DEF NotifyStart
  <2>2. npuMemUsages'[d] = StepBegun(u, n)
    BY <1>1, <2>1, StartFields
  <2>3. /\ npuMemUsages'[d].poolOpTable = {Older(b) : b \in u.poolOpTable}
        /\ npuMemUsages'[d].poolStatusTable = u.poolStatusTable
    BY <1>1, <2>2, BegunUsage
  <2>4. \A p \in PoolTypes : PoolStatus(npuMemUsages'[d], p) = PoolStatus(u, p)
    BY <2>3 DEF PoolStatus, Pools
  <2> QED BY <1>1, <1>3, <2>3, <2>4, StepMirrors
<1>4. CASE NotifyEnd(t) /\ e = d
  <2>1. ReceiveRangeEnd(d, n, mark[t].rangeId)
    BY <1>4 DEF NotifyEnd
  <2>2. npuMemUsages'[d] = HandleStepMsg(u, n)
    BY <1>1, <2>1, EndFields
  <2>3. npuMemUsages'[d].poolOpTable = u.poolOpTable
    BY <1>1, <2>2, HandledType
  <2>4. \A p \in PoolTypes : PoolStatus(npuMemUsages'[d], p).totalAllocated
                               = PoolStatus(u, p).totalAllocated
    BY <1>1, <2>2, CheckedTotals
  <2> QED BY <1>1, <1>4, <2>3, <2>4, StepMirrors
<1>5. e # d \/ UNCHANGED analyzerVars => npuMemUsages'[e] = npuMemUsages[e]
  BY <1>1, NotifyCases, StartFields, EndFields DEF NotifyStart, NotifyEnd, analyzerVars
<1> QED BY <1>2, <1>3, <1>4, <1>5, NotifyCases

LEMMA PyStepMirrors ==
    ASSUME TypeInv, TypeInv', NEW t \in Threads, ReportPyStepRecord(t),
           NEW e \in DeviceIds, Mirrors(e)
    PROVE  Mirrors(e)'
<1> PICK d \in DeviceIds : d = DeviceOf[t]
  BY TrackingAssumption
<1> PICK n \in Nat : n = pyStepId + 1
  BY DEF TypeInv, ProgramType
<1> DEFINE u == npuMemUsages[d]
<1>1. AnalyzerType /\ u \in NpuMemUsage /\ UNCHANGED poolVars
  BY DEF TypeInv, AnalyzerType, ReportPyStepRecord, poolVars
<1>2. StepMsgReceived(d, n) \/ UNCHANGED analyzerVars
  BY StepMsgCases DEF ReportPyStepRecord
<1>3. CASE UNCHANGED analyzerVars \/ e # d
  <2>1. npuMemUsages'[e] = npuMemUsages[e]
    BY <1>1, <1>2, <1>3, StepMsgFields DEF analyzerVars
  <2> QED BY <1>1, <2>1 DEF Mirrors, poolVars
<1>4. CASE StepMsgReceived(d, n) /\ e = d
  <2>1. npuMemUsages'[d] = StepBegun(HandleStepMsg(u, n), n + 1)
    BY <1>1, <1>4, StepMsgFields
  <2>2. PICK v \in NpuMemUsage : v = HandleStepMsg(u, n) /\ v.poolOpTable = u.poolOpTable
    BY <1>1, HandledType
  <2>3. n + 1 \in Nat
    OBVIOUS
  <2>4. /\ npuMemUsages'[d].poolOpTable = {Older(b) : b \in u.poolOpTable}
        /\ npuMemUsages'[d].poolStatusTable = v.poolStatusTable
    BY <2>1, <2>2, <2>3, BegunUsage
  <2>5. \A p \in PoolTypes : PoolStatus(npuMemUsages'[d], p) = PoolStatus(v, p)
    BY <2>4 DEF PoolStatus, Pools
  <2>6. \A p \in PoolTypes : PoolStatus(v, p).totalAllocated = PoolStatus(u, p).totalAllocated
    BY <1>1, <2>2, CheckedTotals
  <2> QED BY <1>1, <1>4, <2>4, <2>5, <2>6, StepMirrors
<1> QED BY <1>2, <1>3, <1>4

LEMMA OnlyPoolsAndReports ==
    ASSUME [Next]_vars
    PROVE  \/ UNCHANGED <<poolVars, analyzerVars>>
           \/ \E t \in Threads :
                \/ \E type \in PoolTypes, ptr \in Ptrs :
                     PoolFree(t, type, ptr) \/ \E size \in BlockSizes : PoolMalloc(t, type, ptr, size)
                \/ Notify(t) \/ ReportPyStepRecord(t)
<1>1. CASE UNCHANGED vars
  BY <1>1 DEF vars
<1>2. CASE Next
  BY <1>2 DEF Next, RangeStart, RangeStartStopped, RangeEnd, RangeEndStopped, Stamp, SwitchTracing
<1> QED BY <1>1, <1>2

LEMMA MirrorKept ==
    ASSUME ~ Stops, TypeInv, TypeInv', MirrorInv, [Next]_vars
    PROVE  MirrorInv'
<1>1. tracing'
  BY TracingKept DEF MirrorInv
<1>2. UNCHANGED stepList
  <2>1. ASSUME NEW t, NEW type, NEW ptr, NEW size, PoolMalloc(t, type, ptr, size)
        PROVE  UNCHANGED stepList
    BY <2>1 DEF PoolMalloc
  <2>2. ASSUME NEW t, NEW type, NEW ptr, PoolFree(t, type, ptr) PROVE UNCHANGED stepList
    BY <2>2 DEF PoolFree
  <2>3. CASE UNCHANGED vars
    BY <2>3 DEF vars
  <2>4. CASE Next
    BY <2>1, <2>2, <2>4 DEF Next, RangeStart, RangeStartStopped, RangeEnd, RangeEndStopped, Stamp,
                            Notify, ReportPyStepRecord, SwitchTracing
  <2> QED BY <2>3, <2>4
<1>3. ASSUME IsStepInnerAnalysisEnable, NEW e \in DeviceIds PROVE Mirrors(e)'
  <2>1. tracing /\ \A d \in DeviceIds : Mirrors(d)
    BY <1>3 DEF MirrorInv
  <2>2. CASE UNCHANGED <<poolVars, analyzerVars>>
    BY <2>1, <2>2 DEF Mirrors, poolVars, analyzerVars
  <2> QED BY <1>3, <2>1, <2>2, OnlyPoolsAndReports, MallocMirrors, FreeMirrors, MarkMirrors,
             PyStepMirrors
<1> QED BY <1>1, <1>2, <1>3 DEF MirrorInv, IsStepInnerAnalysisEnable

LEMMA InitMirrors ==
    ASSUME Init
    PROVE  MirrorInv
<1>1. \A d \in DeviceIds : /\ npuMemUsages[d].poolOpTable = {}
                           /\ npuMemUsages[d].poolStatusTable = [p \in {} |-> NewPoolStatus]
  BY DEF Init, AnalyzerInit
<1>2. \A d \in DeviceIds, p \in PoolTypes : PoolStatus(npuMemUsages[d], p).totalAllocated = 0
  BY <1>1 DEF PoolStatus, Pools, NewPoolStatus
<1>3. \A d \in DeviceIds, p \in PoolTypes :
        totalAllocated[d][p] = 0 /\ \A a \in Ptrs : regions[d][p][a] = NoRegion
  BY DEF Init
<1> QED BY <1>1, <1>2, <1>3 DEF MirrorInv, Mirrors, Init

LEMMA MirroredTables ==
    ASSUME TypeInv, NEW d \in DeviceIds, Mirrors(d)
    PROVE  {<<b.type, b.ptr, b.memSize>> : b \in npuMemUsages[d].poolOpTable} =
           {<<x[1], x[2], regions[d][x[1]][x[2]]>> :
               x \in {y \in PoolTypes \X Ptrs : regions[d][y[1]][y[2]] # NoRegion}}
<1> DEFINE T == npuMemUsages[d].poolOpTable
           given == {y \in PoolTypes \X Ptrs : regions[d][y[1]][y[2]] # NoRegion}
<1>1. \A b \in T : b.type \in PoolTypes /\ b.ptr \in Ptrs
  BY DEF TypeInv, AnalyzerType, NpuMemUsage, NpuMemInfo
<1>2. ASSUME NEW b \in T
      PROVE  \E x \in given : <<b.type, b.ptr, b.memSize>> = <<x[1], x[2], regions[d][x[1]][x[2]]>>
  <2> DEFINE x == <<b.type, b.ptr>>
  <2>1. x \in given
    BY <1>1 DEF Mirrors
  <2>2. <<b.type, b.ptr, b.memSize>> = <<x[1], x[2], regions[d][x[1]][x[2]]>>
    BY DEF Mirrors
  <2> QED BY <2>1, <2>2
<1>3. ASSUME NEW x \in given
      PROVE  \E b \in T : <<b.type, b.ptr, b.memSize>> = <<x[1], x[2], regions[d][x[1]][x[2]]>>
  <2>1. PICK b \in T : b.type = x[1] /\ b.ptr = x[2]
    BY DEF Mirrors
  <2> QED BY <2>1 DEF Mirrors
<1> QED BY <1>2, <1>3

\* As long as tracing is not stopped and all steps are analysed, the table of a device is
\* the blocks its pools hold, and its totals are theirs.
THEOREM TablesMirrorPools ==
    ASSUME ~ Stops
    PROVE  Spec => []TableMirrorsPools
<1>1. Init => MirrorInv
  BY InitMirrors
<1>2. TypeInv /\ TypeInv' /\ MirrorInv /\ [Next]_vars => MirrorInv'
  BY MirrorKept
<1>3. TypeInv /\ MirrorInv => TableMirrorsPools
  <2> SUFFICES ASSUME TypeInv, IsStepInnerAnalysisEnable, MirrorInv, NEW d \in DeviceIds
               PROVE  /\ {<<b.type, b.ptr, b.memSize>> : b \in npuMemUsages[d].poolOpTable} =
                         {<<x[1], x[2], regions[d][x[1]][x[2]]>> :
                             x \in {y \in PoolTypes \X Ptrs : regions[d][y[1]][y[2]] # NoRegion}}
                      /\ \A p \in PoolTypes :
                           PoolStatus(npuMemUsages[d], p).totalAllocated = totalAllocated[d][p]
    BY DEF TableMirrorsPools
  <2>1. Mirrors(d)
    BY DEF MirrorInv
  <2> QED BY <2>1, MirroredTables DEF Mirrors
<1> QED BY <1>1, <1>2, <1>3, TypeCorrect, PTL DEF Spec

------------------------------------------------------------------------------------
(***************************************************************************)
(* The extremes of the allocated totals, for pools that are never emptied: *)
(* a total of 0 would stand for "no total yet" (EmptiedPool).              *)
(***************************************************************************)
Positive == Nat \ {0}
PositiveRatio == [gapStepId : Nat, min : Positive, max : Positive]

LEMMA RatiosCompare ==
    ASSUME NEW a \in Positive, NEW b \in Positive, NEW c \in Positive, NEW d \in Positive,
           NEW e \in Positive, NEW f \in Positive, a * d <= c * b, c * f <= e * d
    PROVE  a * f <= e * b
<1> USE DEF Positive
<1>1. (a * d) * f <= (c * b) * f
  OBVIOUS
<1>2. (c * f) * b <= (e * d) * b
  OBVIOUS
<1>3. (c * b) * f = (c * f) * b
  OBVIOUS
<1>4. (a * d) * f = (a * f) * d /\ (e * d) * b = (e * b) * d
  OBVIOUS
<1>5. PICK x \in Nat, y \in Nat : x = a * f /\ y = e * b
  OBVIOUS
<1>6. x * d <= y * d
  BY <1>1, <1>2, <1>3, <1>4, <1>5
<1>7. x <= y
  <2>1. SUFFICES ASSUME x > y PROVE FALSE
    OBVIOUS
  <2>2. PICK z \in Positive : x = y + z
    <3>1. x - y \in Positive /\ x = y + (x - y)
      BY <2>1
    <3> QED BY <3>1
  <2>3. x * d = y * d + z * d
    BY <2>2
  <2>4. z * d > 0
    OBVIOUS
  <2> QED BY <1>6, <2>3, <2>4
<1> QED BY <1>5, <1>7

LEMMA NotBelow ==
    ASSUME NEW g \in PositiveRatio, NEW h \in PositiveRatio, NEW k \in PositiveRatio,
           ~ Below(h, g), ~ Below(k, h)
    PROVE  ~ Below(k, g)
<1>1. /\ g.min \in Positive /\ g.max \in Positive /\ h.min \in Positive /\ h.max \in Positive
      /\ k.min \in Positive /\ k.max \in Positive
  BY DEF PositiveRatio
<1>2. \A x, y \in Positive : x * y \in Nat
  BY DEF Positive
<1>3. g.min * h.max <= h.min * g.max
  BY <1>1, <1>2 DEF Below
<1>4. h.min * k.max <= k.min * h.max
  BY <1>1, <1>2 DEF Below
<1>5. g.min * k.max <= k.min * g.max
  BY <1>1, <1>3, <1>4, RatiosCompare
<1> QED BY <1>1, <1>2, <1>5 DEF Below

LEMMA BelowNotBelow ==
    ASSUME NEW g \in PositiveRatio, NEW h \in PositiveRatio, Below(g, h)
    PROVE  ~ Below(h, g)
<1>1. /\ g.min * h.max \in Nat /\ h.min * g.max \in Nat
  BY DEF PositiveRatio, Positive
<1> QED BY <1>1 DEF Below

StepExtremes(s, totals) ==
    IF totals = {} THEN s.stepMaxAllocated = 0
    ELSE /\ s.stepMaxAllocated \in totals /\ s.stepMinAllocated \in totals
         /\ \A x \in totals : s.stepMinAllocated <= x /\ x <= s.stepMaxAllocated

GapExtremes(s, known) ==
    IF known = {} THEN s.maxGapInfo.min = 0
    ELSE /\ s.maxGapInfo \in known /\ s.minGapInfo \in known
         /\ \A g \in known : ~ Below(g, s.minGapInfo) /\ ~ Below(s.maxGapInfo, g)

\* A total of the step in progress.
LEMMA UpdatedExtremes ==
    ASSUME NEW u \in NpuMemUsage, NEW s \in PoolTotals, NEW total \in Positive,
           NEW totals \in SUBSET Positive, StepExtremes(s, totals)
    PROVE  LET v == [UpdateAllocated(u, s, total) EXCEPT !.totalAllocated = total]
           IN  /\ v.maxGapInfo = s.maxGapInfo /\ v.minGapInfo = s.minGapInfo
               /\ IF u.duringStep <= skipSteps THEN StepExtremes(v, totals)
                                               ELSE StepExtremes(v, totals \cup {total})
<1> DEFINE w == UpdateAllocated(u, s, total)
           v == [w EXCEPT !.totalAllocated = total]
<1>1. /\ w \in PoolTotals
      /\ w.maxGapInfo = s.maxGapInfo /\ w.minGapInfo = s.minGapInfo
  <2>1. PICK hi \in Int : hi = IF s.stepMaxAllocated = 0 \/ total > s.stepMaxAllocated
                               THEN total ELSE s.stepMaxAllocated
    BY DEF PoolTotals, Positive
  <2>2. PICK lo \in Int : lo = IF s.stepMaxAllocated = 0 \/ total < s.stepMinAllocated
                               THEN total ELSE s.stepMinAllocated
    BY DEF PoolTotals, Positive
  <2>3. w = s \/ w = WithStepExtremes(s, hi, lo)
    BY <2>1, <2>2 DEF UpdateAllocated, WithStepExtremes
  <2>4. /\ WithStepExtremes(s, hi, lo).maxGapInfo = s.maxGapInfo
        /\ WithStepExtremes(s, hi, lo).minGapInfo = s.minGapInfo
    BY DEF WithStepExtremes, PoolTotals
  <2> QED BY <2>3, <2>4, NewStepExtremes
<1>2. u.duringStep <= skipSteps =>
        w.stepMaxAllocated = s.stepMaxAllocated /\ w.stepMinAllocated = s.stepMinAllocated
  BY DEF UpdateAllocated
<1>3. ~ (u.duringStep <= skipSteps) =>
        IF s.stepMaxAllocated = 0 THEN w.stepMaxAllocated = total /\ w.stepMinAllocated = total
        ELSE /\ w.stepMaxAllocated = IF total > s.stepMaxAllocated THEN total ELSE s.stepMaxAllocated
             /\ w.stepMinAllocated = IF total < s.stepMinAllocated THEN total ELSE s.stepMinAllocated
  BY DEF UpdateAllocated, PoolTotals
<1>4. s.stepMaxAllocated \in Int /\ s.stepMinAllocated \in Int
  BY DEF PoolTotals
<1> HIDE DEF w
<1>5. /\ v.maxGapInfo = w.maxGapInfo /\ v.minGapInfo = w.minGapInfo
      /\ v.stepMaxAllocated = w.stepMaxAllocated /\ v.stepMinAllocated = w.stepMinAllocated
  BY <1>1 DEF PoolTotals
<1> HIDE DEF v
<1>6. CASE u.duringStep <= skipSteps
  BY <1>1, <1>2, <1>5, <1>6 DEF StepExtremes, v, w
<1>7. CASE ~ (u.duringStep <= skipSteps)
  <2>1. StepExtremes(v, totals \cup {total})
    <3>1. CASE totals = {}
      BY <1>3, <1>5, <1>7, <3>1 DEF StepExtremes, Positive
    <3>2. CASE totals # {}
      <4>1. /\ s.stepMaxAllocated \in totals /\ s.stepMinAllocated \in totals
            /\ \A x \in totals : s.stepMinAllocated <= x /\ x <= s.stepMaxAllocated
        BY <3>2 DEF StepExtremes
      <4>2. s.stepMaxAllocated # 0
        BY <4>1 DEF Positive
      <4>3. \A x \in totals : x \in Int
        BY DEF Positive
      <4> QED BY <1>3, <1>4, <1>5, <1>7, <4>1, <4>2, <4>3 DEF StepExtremes, Positive
    <3> QED BY <3>1, <3>2
  <2> QED BY <1>1, <1>5, <1>7, <2>1 DEF v, w
<1> QED BY <1>6, <1>7

\* The end of a step: its ratio joins those that are known.
LEMMA StepRatio ==
    ASSUME NEW u \in NpuMemUsage, NEW s \in PoolTotals, NEW totals \in SUBSET Positive,
           totals # {}, StepExtremes(s, totals)
    PROVE  Gap(u, s) \in PositiveRatio /\ Extremes(u.duringStep, totals) = {Gap(u, s)}
<1> DEFINE lo == s.stepMinAllocated
           hi == s.stepMaxAllocated
<1>1. /\ lo \in totals /\ hi \in totals
      /\ \A x \in totals : lo <= x /\ x <= hi
  BY DEF StepExtremes
<1>2. lo \in Positive /\ hi \in Positive
  BY <1>1
<1> HIDE DEF lo, hi
<1>3. {x \in totals : \A y \in totals : x <= y} = {lo}
  <2>1. ASSUME NEW x \in totals, \A y \in totals : x <= y PROVE x = lo
    <3>1. x <= lo /\ lo <= x
      BY <1>1, <2>1
    <3> QED BY <1>2, <3>1 DEF Positive
  <2> QED BY <1>1, <2>1
<1>4. {x \in totals \ {0} : \A y \in totals : x >= y} = {hi}
  <2>1. ASSUME NEW x \in totals, \A y \in totals : x >= y PROVE x = hi
    <3>1. x >= hi /\ x <= hi
      BY <1>1, <2>1
    <3> QED BY <1>2, <3>1 DEF Positive
  <2>2. hi # 0 /\ \A y \in totals : hi >= y
    BY <1>1, <1>2 DEF Positive
  <2> QED BY <1>1, <2>1, <2>2
<1> USE DEF lo, hi
<1>5. Extremes(u.duringStep, totals)
        = {[gapStepId |-> u.duringStep, min |-> x, max |-> y] : x \in {lo}, y \in {hi}}
  BY <1>3, <1>4 DEF Extremes
<1>6. Gap(u, s) = [gapStepId |-> u.duringStep, min |-> lo, max |-> hi]
  BY DEF Gap
<1> QED BY <1>2, <1>5, <1>6 DEF PositiveRatio, NpuMemUsage

LEMMA GapCheckedFields ==
    ASSUME NEW u \in NpuMemUsage, NEW s \in PoolTotals, s.stepMaxAllocated # 0
    PROVE  LET g == Gap(u, s)
               v == GapChecked(u, s)
           IN  /\ v.maxGapInfo = IF s.maxGapInfo.min = 0 \/ Below(s.maxGapInfo, g)
                                 THEN g ELSE s.maxGapInfo
               /\ v.minGapInfo = IF s.maxGapInfo.min = 0 \/ Below(g, s.minGapInfo)
                                 THEN g ELSE s.minGapInfo
               /\ v.stepMaxAllocated = 0
<1> DEFINE g == Gap(u, s)
           hi == IF s.maxGapInfo.min = 0 \/ Below(s.maxGapInfo, g) THEN g ELSE s.maxGapInfo
           lo == IF s.maxGapInfo.min = 0 \/ Below(g, s.minGapInfo) THEN g ELSE s.minGapInfo
<1>1. GapChecked(u, s) = [s EXCEPT !.maxGapInfo = hi, !.minGapInfo = lo,
                                   !.stepMaxAllocated = 0, !.stepMinAllocated = 0]
  BY DEF GapChecked
<1> HIDE DEF hi, lo
<1>2. /\ GapChecked(u, s).maxGapInfo = hi /\ GapChecked(u, s).minGapInfo = lo
      /\ GapChecked(u, s).stepMaxAllocated = 0
  BY <1>1 DEF PoolTotals
<1> QED BY <1>2 DEF hi, lo

LEMMA CheckedExtremes ==
    ASSUME NEW u \in NpuMemUsage, NEW s \in PoolTotals, NEW totals \in SUBSET Positive,
           NEW known \in SUBSET PositiveRatio, StepExtremes(s, totals), GapExtremes(s, known)
    PROVE  LET now == known \cup Extremes(u.duringStep, totals)
           IN  /\ now \in SUBSET PositiveRatio
               /\ StepExtremes(GapChecked(u, s), {})
               /\ GapExtremes(GapChecked(u, s), now)
<1>1. CASE totals = {}
  <2>1. Extremes(u.duringStep, totals) = {}
    BY <1>1 DEF Extremes
  <2>2. s.stepMaxAllocated = 0
    BY <1>1 DEF StepExtremes
  <2>3. GapChecked(u, s) = s
    BY <2>2 DEF GapChecked
  <2> QED BY <2>1, <2>2, <2>3 DEF StepExtremes
<1>2. CASE totals # {}
  <2>1. PICK g \in PositiveRatio : g = Gap(u, s) /\ Extremes(u.duringStep, totals) = {g}
    BY <1>2, StepRatio
  <2>2. s.stepMaxAllocated # 0
    BY <1>2 DEF StepExtremes, Positive
  <2> DEFINE v == GapChecked(u, s)
  <2>3. /\ v.maxGapInfo = IF s.maxGapInfo.min = 0 \/ Below(s.maxGapInfo, g)
                          THEN g ELSE s.maxGapInfo
        /\ v.minGapInfo = IF s.maxGapInfo.min = 0 \/ Below(g, s.minGapInfo)
                          THEN g ELSE s.minGapInfo
        /\ v.stepMaxAllocated = 0
    BY <2>1, <2>2, GapCheckedFields
  <2> HIDE DEF v
  <2>4. ~ Below(g, g)
    BY BelowNotBelow
  <2>5. GapExtremes(v, known \cup {g})
    <3>1. CASE known = {}
      <4>1. v.maxGapInfo = g /\ v.minGapInfo = g
        BY <2>3, <3>1 DEF GapExtremes
      <4> QED BY <2>4, <3>1, <4>1 DEF GapExtremes
    <3>2. CASE known # {}
      <4>1. PICK hi \in PositiveRatio, lo \in PositiveRatio :
              /\ hi = s.maxGapInfo /\ lo = s.minGapInfo
              /\ hi \in known /\ lo \in known
              /\ \A k \in known : ~ Below(k, lo) /\ ~ Below(hi, k)
        BY <3>2 DEF GapExtremes
      <4>2. hi.min # 0
        BY DEF PositiveRatio, Positive
      <4>3. /\ v.maxGapInfo = IF Below(hi, g) THEN g ELSE hi
            /\ v.minGapInfo = IF Below(g, lo) THEN g ELSE lo
        BY <2>3, <4>1, <4>2
      <4>4. \A k \in known : k \in PositiveRatio
        OBVIOUS
      <4>5. Below(hi, g) => \A k \in known : ~ Below(g, k)
        BY <4>1, <4>4, BelowNotBelow, NotBelow
      <4>6. Below(g, lo) => \A k \in known : ~ Below(k, g)
        BY <4>1, <4>4, BelowNotBelow, NotBelow
      <4> QED BY <2>4, <4>1, <4>3, <4>5, <4>6 DEF GapExtremes
    <3> QED BY <3>1, <3>2
  <2>6. StepExtremes(v, {})
    BY <2>3 DEF StepExtremes
  <2> QED BY <2>1, <2>5, <2>6 DEF v
<1> QED BY <1>1, <1>2

Extremal(d, p) ==
    /\ seen[d][p] \in SUBSET Positive
    /\ gaps[d][p] \in SUBSET PositiveRatio
    /\ StepExtremes(PoolStatus(npuMemUsages[d], p), seen[d][p])
    /\ GapExtremes(PoolStatus(npuMemUsages[d], p), gaps[d][p])

ExtremesInv ==
    /\ \A d \in DeviceIds, p \in PoolTypes : totalAllocated[d][p] \in Nat
    /\ \A d \in DeviceIds, p \in PoolTypes : Extremal(d, p)

LEMMA SameExtremes ==
    ASSUME NEW d \in DeviceIds, NEW p \in PoolTypes, Extremal(d, p),
           PoolStatus(npuMemUsages'[d], p) = PoolStatus(npuMemUsages[d], p),
           seen'[d][p] = seen[d][p], gaps'[d][p] = gaps[d][p]
    PROVE  Extremal(d, p)'
  BY DEF Extremal

LEMMA RecordedExtremes ==
    ASSUME AnalyzerType, AnalyzerType', NEW d \in DeviceIds, NEW type \in PoolTypes,
           NEW total \in Positive, Seen(d, type, total), UNCHANGED gaps,
           npuMemUsages'[d].poolStatusTable = Accounted(npuMemUsages[d], type, total),
           NEW e \in DeviceIds, NEW p \in PoolTypes, Extremal(e, p),
           e # d => npuMemUsages'[e] = npuMemUsages[e]
    PROVE  Extremal(e, p)'
<1> PICK u \in NpuMemUsage : u = npuMemUsages[d]
  BY DEF AnalyzerType
<1> PICK v \in NpuMemUsage : v = npuMemUsages'[d]
  BY DEF AnalyzerType
<1>1. total \in Int
  BY DEF Positive
<1>2. seen' = IF u.duringStep <= skipSteps THEN seen
              ELSE [seen EXCEPT ![d][type] = seen[d][type] \cup {total}]
  BY DEF Seen
<1>3. e # d \/ p # type => seen'[e][p] = seen[e][p]
  BY <1>2 DEF AnalyzerType
<1>4. CASE e # d
  BY <1>3, <1>4, SameExtremes
<1>5. CASE e = d /\ p # type
  <2>1. PoolStatus(v, p) = PoolStatus(u, p)
    BY <1>1, <1>5, AccountedTotals
  <2> QED BY <1>3, <1>5, <2>1, SameExtremes
<1>6. CASE e = d /\ p = type
  <2>1. PICK s \in PoolTotals : s = PoolStatus(u, type)
    BY StatusType
  <2>2. PICK totals \in SUBSET Positive : totals = seen[d][type] /\ StepExtremes(s, totals)
    BY <1>6, <2>1 DEF Extremal
  <2> DEFINE w == [UpdateAllocated(u, s, total) EXCEPT !.totalAllocated = total]
  <2>3. PoolStatus(v, type) = w
    <3>1. PoolStatus(v, type)
            = [UpdateAllocated(u, PoolStatus(u, type), total) EXCEPT !.totalAllocated = total]
      BY <1>1, AccountedTotals
    <3> QED BY <2>1, <3>1
  <2>4. /\ w.maxGapInfo = s.maxGapInfo /\ w.minGapInfo = s.minGapInfo
        /\ IF u.duringStep <= skipSteps THEN StepExtremes(w, totals)
                                        ELSE StepExtremes(w, totals \cup {total})
    BY <2>2, UpdatedExtremes
  <2> HIDE DEF w
  <2>5. GapExtremes(w, gaps[d][type])
    BY <1>6, <2>1, <2>4 DEF Extremal, GapExtremes
  <2>6. seen'[d][type] = IF u.duringStep <= skipSteps THEN totals ELSE totals \cup {total}
    BY <1>2, <2>2 DEF AnalyzerType
  <2>7. StepExtremes(w, seen'[d][type]) /\ seen'[d][type] \in SUBSET Positive
    BY <2>4, <2>6
  <2>8. gaps[d][type] \in SUBSET PositiveRatio
    BY <1>6 DEF Extremal
  <2> QED BY <1>6, <2>3, <2>5, <2>7, <2>8 DEF Extremal
<1> QED BY <1>4, <1>5, <1>6

\* CheckGap on every pool, those included that the table does not name yet.
LEMMA CheckedStatus ==
    ASSUME NEW u \in NpuMemUsage, NEW p \in PoolTypes, u.duringStep > skipSteps
    PROVE  PoolStatus(CheckGap(u), p) = GapChecked(u, PoolStatus(u, p))
<1>1. ~ (u.duringStep <= skipSteps)
  BY DEF skipSteps, NpuMemUsage
<1>2. CASE p \in Pools(u)
  BY <1>1, <1>2, CheckedUsage DEF PoolStatus
<1>3. CASE p \notin Pools(u)
  <2>1. PoolStatus(CheckGap(u), p) = NewPoolStatus /\ PoolStatus(u, p) = NewPoolStatus
    BY <1>3, CheckedUsage DEF PoolStatus
  <2> QED BY <2>1 DEF GapChecked, NewPoolStatus
<1> QED BY <1>2, <1>3

LEMMA HandledExtremes ==
    ASSUME AnalyzerType, NEW d \in DeviceIds, NEW stepId \in Nat, GapsSeen(d, stepId),
           NEW p \in PoolTypes, Extremal(d, p),
           PoolStatus(npuMemUsages'[d], p)
             = PoolStatus(HandleStepMsg(npuMemUsages[d], stepId), p)
    PROVE  Extremal(d, p)'
<1> PICK u \in NpuMemUsage : u = npuMemUsages[d]
  BY DEF AnalyzerType
<1> PICK s \in PoolTotals : s = PoolStatus(u, p)
  BY StatusType
<1>1. CASE ~ Checks(d, stepId)
  <2>1. UNCHANGED <<seen, gaps>>
    BY <1>1, GapsFields
  <2>2. HandleStepMsg(u, stepId) = u
    BY <1>1 DEF Checks, HandleStepMsg, CheckGap, skipSteps, NpuMemUsage
  <2> QED BY <2>1, <2>2, SameExtremes
<1>2. CASE Checks(d, stepId)
  <2>1. /\ seen'[d][p] = {}
        /\ gaps'[d][p] = gaps[d][p] \cup Extremes(u.duringStep, seen[d][p])
    BY <1>2, GapsFields
  <2>2. HandleStepMsg(u, stepId) = CheckGap(u) /\ u.duringStep > skipSteps
    BY <1>2 DEF Checks, HandleStepMsg
  <2>3. PoolStatus(npuMemUsages'[d], p) = GapChecked(u, s)
    BY <2>2, CheckedStatus
  <2>4. PICK totals \in SUBSET Positive, known \in SUBSET PositiveRatio :
          /\ totals = seen[d][p] /\ known = gaps[d][p]
          /\ StepExtremes(s, totals) /\ GapExtremes(s, known)
    BY DEF Extremal
  <2>5. PICK now \in SUBSET PositiveRatio :
          /\ now = known \cup Extremes(u.duringStep, totals)
          /\ StepExtremes(GapChecked(u, s), {}) /\ GapExtremes(GapChecked(u, s), now)
    BY <2>4, CheckedExtremes
  <2> QED BY <2>1, <2>3, <2>4, <2>5 DEF Extremal
<1> QED BY <1>1, <1>2

LEMMA PoolExtremes ==
    ASSUME KeepsWeights, TypeInv, TypeInv', ExtremesInv,
           NEW t \in Threads, NEW type \in PoolTypes, NEW ptr \in Ptrs,
           \/ PoolFree(t, type, ptr)
           \/ \E size \in BlockSizes : PoolMalloc(t, type, ptr, size)
    PROVE  ExtremesInv'
<1> PICK d \in DeviceIds : d = DeviceOf[t]
  BY TrackingAssumption
<1>1. PICK total \in Positive :
        /\ totalAllocated' = [totalAllocated EXCEPT ![d][type] = total]
        /\ \/ UNCHANGED analyzerVars
           \/ RecordNpuFree(d, type, ptr, total)
           \/ \E size \in Nat : RecordNpuMalloc(d, type, ptr, size, total)
  <2>1. totalAllocated[d][type] \in Nat /\ regions[d][type][ptr] \in Int
    BY PoolTotalsOf DEF ExtremesInv
  <2>2. CASE PoolFree(t, type, ptr)
    <3>1. PICK n \in Int : n = totalAllocated[d][type] - regions[d][type][ptr]
      BY <2>1
    <3>2. n > 0
      BY <2>2, <3>1 DEF PoolFree
    <3>3. n \in Positive
      BY <3>2 DEF Positive
    <3>4. /\ totalAllocated' = [totalAllocated EXCEPT ![d][type] = n]
          /\ UNCHANGED analyzerVars \/ RecordNpuFree(d, type, ptr, n)
      BY <2>2, <3>1 DEF PoolFree
    <3> QED BY <3>3, <3>4
  <2>3. ASSUME NEW size \in BlockSizes, PoolMalloc(t, type, ptr, size)
        PROVE  \E n \in Positive :
                 /\ totalAllocated' = [totalAllocated EXCEPT ![d][type] = n]
                 /\ UNCHANGED analyzerVars \/ RecordNpuMalloc(d, type, ptr, size, n)
    <3>1. size \in Positive
      BY TrackingAssumption DEF Positive
    <3>2. PICK n \in Positive : n = totalAllocated[d][type] + size
      BY <2>1, <3>1 DEF Positive
    <3>3. /\ totalAllocated' = [totalAllocated EXCEPT ![d][type] = n]
          /\ UNCHANGED analyzerVars \/ RecordNpuMalloc(d, type, ptr, size, n)
      BY <2>3, <3>2 DEF PoolMalloc
    <3> QED BY <3>3
  <2>4. BlockSizes \subseteq Nat
    BY TrackingAssumption
  <2> QED BY <2>2, <2>3, <2>4
<1>2. \A e \in DeviceIds, p \in PoolTypes : totalAllocated'[e][p] \in Nat
  BY <1>1 DEF ExtremesInv, TypeInv, ProgramType, Positive
<1>3. ASSUME NEW e \in DeviceIds, NEW p \in PoolTypes PROVE Extremal(e, p)'
  <2>1. Extremal(e, p)
    BY DEF ExtremesInv
  <2>2. total \in Int /\ AnalyzerType /\ AnalyzerType'
    BY DEF Positive, TypeInv
  <2>3. CASE UNCHANGED analyzerVars
    BY <2>1, <2>3, SameExtremes DEF analyzerVars
  <2>4. CASE RecordNpuFree(d, type, ptr, total)
    <3>1. Seen(d, type, total) /\ UNCHANGED gaps
      BY <2>4 DEF RecordNpuFree
    <3>2. /\ npuMemUsages'[d].poolStatusTable = Accounted(npuMemUsages[d], type, total)
          /\ e # d => npuMemUsages'[e] = npuMemUsages[e]
      BY <2>2, <2>4, FreeFields
    <3> QED BY <2>1, <2>2, <3>1, <3>2, RecordedExtremes
  <2>5. ASSUME NEW size \in Nat, RecordNpuMalloc(d, type, ptr, size, total)
        PROVE  Extremal(e, p)'
    <3>1. Seen(d, type, total) /\ UNCHANGED gaps
      BY <2>5 DEF RecordNpuMalloc
    <3>2. /\ npuMemUsages'[d].poolStatusTable = Accounted(npuMemUsages[d], type, total)
          /\ e # d => npuMemUsages'[e] = npuMemUsages[e]
      BY <2>2, <2>5, MallocFields
    <3> QED BY <2>1, <2>2, <3>1, <3>2, RecordedExtremes
  <2> QED BY <1>1, <2>3, <2>4, <2>5
<1> QED BY <1>2, <1>3 DEF ExtremesInv

LEMMA OtherExtremes ==
    ASSUME AnalyzerType, NEW d \in DeviceIds, NEW stepId \in Nat, GapsSeen(d, stepId),
           NEW e \in DeviceIds, e # d, npuMemUsages'[e] = npuMemUsages[e],
           NEW p \in PoolTypes, Extremal(e, p)
    PROVE  Extremal(e, p)'
<1>1. seen'[e] = seen[e] /\ gaps'[e] = gaps[e]
  BY GapsFields
<1> QED BY <1>1, SameExtremes

LEMMA MarkExtremes ==
    ASSUME TypeInv, NEW t \in Threads, Notify(t), NEW e \in DeviceIds, NEW p \in PoolTypes,
           Extremal(e, p)
    PROVE  Extremal(e, p)'
<1> PICK d \in DeviceIds : d = DeviceOf[t]
  BY TrackingAssumption
<1> PICK n \in Nat : n = mark[t].stepId
  BY MarkStep
<1> DEFINE u == npuMemUsages[d]
<1>1. AnalyzerType /\ u \in NpuMemUsage
  BY DEF TypeInv, AnalyzerType
<1>2. CASE UNCHANGED analyzerVars
  BY <1>2, SameExtremes DEF analyzerVars
<1>3. CASE NotifyStart(t)
  <2>1. ReceiveStepStart(d, n, mark[t].rangeId)
    BY <1>3 DEF NotifyStart
  <2>2. /\ npuMemUsages'[d] = StepBegun(u, n)
        /\ e # d => npuMemUsages'[e] = npuMemUsages[e]
        /\ UNCHANGED <<seen, gaps>>
    BY <1>1, <2>1, StartFields DEF ReceiveStepStart
  <2>3. npuMemUsages'[d].poolStatusTable = u.poolStatusTable
    BY <1>1, <2>2, BegunUsage
  <2>4. PoolStatus(npuMemUsages'[d], p) = PoolStatus(u, p)
    BY <2>3 DEF PoolStatus, Pools
  <2> QED BY <2>2, <2>4, SameExtremes
<1>4. CASE NotifyEnd(t)
  <2>1. ReceiveRangeEnd(d, n, mark[t].rangeId)
    BY <1>4 DEF NotifyEnd
  <2>2. /\ npuMemUsages'[d] = HandleStepMsg(u, n)
        /\ e # d => npuMemUsages'[e] = npuMemUsages[e]
    BY <1>1, <2>1, EndFields
  <2>3. GapsSeen(d, n)
    BY <2>1 DEF ReceiveRangeEnd
  <2>4. CASE e = d
    <3>1. PoolStatus(npuMemUsages'[d], p) = PoolStatus(HandleStepMsg(u, n), p)
      BY <2>2
    <3> QED BY <1>1, <2>3, <2>4, <3>1, HandledExtremes
  <2>5. CASE e # d
    BY <1>1, <2>2, <2>3, <2>5, OtherExtremes
  <2> QED BY <2>4, <2>5
<1> QED BY <1>2, <1>3, <1>4, NotifyCases

LEMMA PyStepExtremes ==
    ASSUME TypeInv, NEW t \in Threads, ReportPyStepRecord(t),
           NEW e \in DeviceIds, NEW p \in PoolTypes, Extremal(e, p)
    PROVE  Extremal(e, p)'
<1> PICK d \in DeviceIds : d = DeviceOf[t]
  BY TrackingAssumption
<1> PICK n \in Nat : n = pyStepId + 1
  BY DEF TypeInv, ProgramType
<1> DEFINE u == npuMemUsages[d]
<1>1. AnalyzerType /\ u \in NpuMemUsage
  BY DEF TypeInv, AnalyzerType
<1>2. StepMsgReceived(d, n) \/ UNCHANGED analyzerVars
  BY StepMsgCases DEF ReportPyStepRecord
<1>3. CASE UNCHANGED analyzerVars
  BY <1>3, SameExtremes DEF analyzerVars
<1>4. CASE StepMsgReceived(d, n)
  <2>1. /\ npuMemUsages'[d] = StepBegun(HandleStepMsg(u, n), n + 1)
        /\ e # d => npuMemUsages'[e] = npuMemUsages[e]
    BY <1>1, <1>4, StepMsgFields
  <2>2. GapsSeen(d, n)
    BY <1>4 DEF StepMsgReceived
  <2>3. CASE e = d
    <3>1. PICK v \in NpuMemUsage : v = HandleStepMsg(u, n)
      BY <1>1, HandledType
    <3>2. n + 1 \in Nat
      OBVIOUS
    <3>3. StepBegun(v, n + 1).poolStatusTable = v.poolStatusTable
      BY <3>2, BegunUsage
    <3>4. npuMemUsages'[d].poolStatusTable = v.poolStatusTable
      BY <2>1, <3>1, <3>3
    <3>5. PoolStatus(npuMemUsages'[d], p) = PoolStatus(HandleStepMsg(u, n), p)
      BY <3>1, <3>4 DEF PoolStatus, Pools
    <3> QED BY <1>1, <2>2, <2>3, <3>5, HandledExtremes
  <2>4. CASE e # d
    BY <1>1, <2>1, <2>2, <2>4, OtherExtremes
  <2> QED BY <2>3, <2>4
<1> QED BY <1>2, <1>3, <1>4

LEMMA ExtremesKept ==
    ASSUME KeepsWeights, TypeInv, TypeInv', ExtremesInv, [Next]_vars
    PROVE  ExtremesInv'
<1>1. CASE UNCHANGED <<poolVars, analyzerVars>>
  BY <1>1 DEF ExtremesInv, Extremal, poolVars, analyzerVars
<1>2. ASSUME NEW t \in Threads, Notify(t) \/ ReportPyStepRecord(t) PROVE ExtremesInv'
  <2>1. UNCHANGED totalAllocated
    BY <1>2 DEF Notify, ReportPyStepRecord, poolVars
  <2>2. \A e \in DeviceIds, p \in PoolTypes : Extremal(e, p)'
    BY <1>2, MarkExtremes, PyStepExtremes DEF ExtremesInv
  <2> QED BY <2>1, <2>2 DEF ExtremesInv
<1> QED BY <1>1, <1>2, OnlyPoolsAndReports, PoolExtremes

LEMMA InitExtremes ==
    ASSUME Init
    PROVE  ExtremesInv
<1>1. \A d \in DeviceIds, p \in PoolTypes :
        /\ totalAllocated[d][p] = 0 /\ seen[d][p] = {} /\ gaps[d][p] = {}
        /\ PoolStatus(npuMemUsages[d], p) = NewPoolStatus
  BY DEF Init, AnalyzerInit, PoolStatus, Pools
<1> QED BY <1>1 DEF ExtremesInv, Extremal, StepExtremes, GapExtremes, NewPoolStatus, NoGapYet

\* The ratios the fluctuation report prints are the extremes of all steps that were checked,
\* in a program that never frees all blocks of a pool.
THEOREM ExtremesReported ==
    ASSUME KeepsWeights
    PROVE  Spec => []ExtremeGapsKept
<1>1. Init => ExtremesInv
  BY InitExtremes
<1>2. TypeInv /\ TypeInv' /\ ExtremesInv /\ [Next]_vars => ExtremesInv'
  BY ExtremesKept
<1>3. TypeInv /\ ExtremesInv => ExtremeGapsKept
  <2> SUFFICES ASSUME TypeInv, ExtremesInv, NEW d \in DeviceIds, NEW p \in Pools(npuMemUsages[d]),
                      NEW g \in gaps[d][p]
               PROVE  /\ ~ Below(g, npuMemUsages[d].poolStatusTable[p].minGapInfo)
                      /\ ~ Below(npuMemUsages[d].poolStatusTable[p].maxGapInfo, g)
    BY DEF ExtremeGapsKept
  <2>1. p \in PoolTypes
    BY TableOf DEF Pools, TypeInv, AnalyzerType, NpuMemUsage
  <2>2. PoolStatus(npuMemUsages[d], p) = npuMemUsages[d].poolStatusTable[p]
    BY DEF PoolStatus
  <2> QED BY <2>1, <2>2 DEF ExtremesInv, Extremal, GapExtremes
<1> QED BY <1>1, <1>2, <1>3, TypeCorrect, PTL DEF Spec
=============================================================================
