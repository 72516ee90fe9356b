---------------------------- MODULE StepInnerAnalyzer ----------------------------
(***************************************************************************)
(* The online leak and fluctuation analysis of analysis/stepinner_analyzer.cpp: *)
(* for every device a table of the blocks its memory pools hand out, with  *)
(* the step each was allocated in and how many steps it has seen begin,    *)
(* and for every pool the extremes of its allocated total in the step.     *)
(* A step ends with a mark of mstx or a call of msmemscope.step(); both    *)
(* arrive here through the subscriptions of MstxAnalyzer and PyStepManager.*)
(* Every handler runs under mutex_ and is one action.                      *)
(*                                                                         *)
(* Left out: the totals that only feed log lines (startAllocated,          *)
(* totalReserved, totalActive), kernelIndex, BLOCK_FREE records, which     *)
(* Record ignores, and the printing of the two reports in the destructor.  *)
(* An entry of npuMemUsages_ or stepInfoTables_ that is not there yet is   *)
(* an empty one.                                                           *)
(***************************************************************************)
EXTENDS Integers, FiniteSets

CONSTANTS DeviceIds, PoolTypes, Ptrs,
          StepLists    \* what the user may give with --steps; {} when it is not given

ASSUME AnalyzerAssumption == StepLists \subseteq SUBSET Nat

VARIABLES
    stepList,        \* Config::stepList, fixed when the process begins
    npuMemUsages,    \* npuMemUsages_
    stepInfoTables,  \* stepInfoTables_: the rangeId of every step that is listed
    leakMemSums,     \* leakMemSums_
    crtStepSource,   \* crtStepSource_
    seen,            \* history: the totals recorded in this step, by device and pool
    gaps             \* history: the extremes of every step that has been checked

analyzerVars == <<npuMemUsages, stepInfoTables, leakMemSums, crtStepSource, seen, gaps>>

skipSteps == 1
durationThreshold == 1

StepSource == {"None", "MSTX_SOURCE", "PY_STEP_SOURCE"}
NpuMemInfo == [ptr : Ptrs, type : PoolTypes, memSize : Nat, duration : Nat, stepId : Nat]
LeakInfo == [ptr : Ptrs, type : PoolTypes, leakStepId : Nat, leakSize : Nat]

\* A ratio is kept as the two totals it is the quotient of.
GapInfo == [gapStepId : Nat, min : Nat, max : Nat \ {0}]
NoGapYet == [gapStepId |-> 0, min |-> 0, max |-> 1]
Below(g, h) == g.min * h.max < h.min * g.max

MemoryPoolStatus == [totalAllocated : Nat, stepMaxAllocated : Nat, stepMinAllocated : Nat,
                     maxGapInfo : GapInfo, minGapInfo : GapInfo]
NewPoolStatus == [totalAllocated |-> 0, stepMaxAllocated |-> 0, stepMinAllocated |-> 0,
                  maxGapInfo |-> NoGapYet, minGapInfo |-> NoGapYet]

\* IsStepInnerAnalysisEnable: leak analysis is on and both event types are collected.
IsStepInnerAnalysisEnable == stepList = {}

-----------------------------------------------------------------------------
(***************************************************************************)
(* One record of a pool.                                                   *)
(***************************************************************************)
Pools(u) == DOMAIN u.poolStatusTable
PoolStatus(u, type) == IF type \in Pools(u) THEN u.poolStatusTable[type] ELSE NewPoolStatus

\* The first total of a step is both of its extremes; a maximum of 0 stands for
\* "no total yet".
UpdateAllocated(u, status, total) ==
    IF u.duringStep <= skipSteps THEN status
    ELSE IF status.stepMaxAllocated = 0
    THEN [status EXCEPT !.stepMaxAllocated = total, !.stepMinAllocated = total]
    ELSE [status EXCEPT !.stepMaxAllocated = IF total > @ THEN total ELSE @,
                        !.stepMinAllocated = IF total < @ THEN total ELSE @]

\* Seeded fault: the total of a step whose extremes are skipped is lost.
AccountedWhenStable(u, type, total) ==
    [p \in Pools(u) \cup {type} |->
        IF p = type /\ u.duringStep > skipSteps
        THEN [UpdateAllocated(u, PoolStatus(u, type), total) EXCEPT !.totalAllocated = total]
        ELSE PoolStatus(u, p)]

Accounted(u, type, total) ==
    [p \in Pools(u) \cup {type} |->
        IF p = type
        THEN [UpdateAllocated(u, PoolStatus(u, type), total) EXCEPT !.totalAllocated = total]
        ELSE u.poolStatusTable[p]]

\* Seeded fault: a second malloc replaces the entry.
EmplacedAnew(u, ptr, type, size) ==
    {b \in u.poolOpTable : ~ (b.ptr = ptr /\ b.type = type)}
    \cup {[ptr |-> ptr, type |-> type, memSize |-> size, duration |-> 0, stepId |-> u.duringStep]}

\* A block that is in the table already keeps its entry (double malloc).
Emplaced(u, ptr, type, size) ==
    IF \E b \in u.poolOpTable : b.ptr = ptr /\ b.type = type THEN u.poolOpTable
    ELSE u.poolOpTable \cup {[ptr |-> ptr, type |-> type, memSize |-> size,
                              duration |-> 0, stepId |-> u.duringStep]}

Erased(u, ptr, type) == {b \in u.poolOpTable : ~ (b.ptr = ptr /\ b.type = type)}

Seen(d, type, total) ==
    seen' = IF npuMemUsages[d].duringStep <= skipSteps THEN seen
            ELSE [seen EXCEPT ![d][type] = @ \cup {total}]

RecordNpuMalloc(d, type, ptr, size, total) ==
    /\ npuMemUsages' = [npuMemUsages EXCEPT ![d].poolOpTable = Emplaced(npuMemUsages[d], ptr, type, size),
                                            ![d].poolStatusTable = Accounted(npuMemUsages[d], type, total)]
    /\ Seen(d, type, total)
    /\ UNCHANGED <<stepInfoTables, leakMemSums, crtStepSource, gaps>>

RecordNpuFree(d, type, ptr, total) ==
    /\ npuMemUsages' = [npuMemUsages EXCEPT ![d].poolOpTable = Erased(npuMemUsages[d], ptr, type),
                                            ![d].poolStatusTable = Accounted(npuMemUsages[d], type, total)]
    /\ Seen(d, type, total)
    /\ UNCHANGED <<stepInfoTables, leakMemSums, crtStepSource, gaps>>

-----------------------------------------------------------------------------
(***************************************************************************)
(* The end of a step.                                                      *)
(***************************************************************************)
\* The blocks of step 2 or later that have seen another step begin.
SkipCheck(b) == b.stepId <= skipSteps
LeakCandidatesAnyAge(u) == {b \in u.poolOpTable : ~ SkipCheck(b)}   \* seeded fault
LeakCandidates(u) == {b \in u.poolOpTable : ~ SkipCheck(b) /\ b.duration >= durationThreshold}

Leak(b) == [ptr |-> b.ptr, type |-> b.type, leakStepId |-> b.stepId, leakSize |-> b.memSize]
SameLeakKey(l, k) == l.ptr = k.ptr /\ l.type = k.type /\ l.leakStepId = k.leakStepId

CheckNpuLeak(sums, u) ==
    LET found == {Leak(b) : b \in LeakCandidates(u)}
    IN  {l \in sums : \A k \in found : ~ SameLeakKey(l, k)} \cup found

Gap(u, status) == [gapStepId |-> u.duringStep, min |-> status.stepMinAllocated,
                   max |-> status.stepMaxAllocated]

\* Seeded fault: the extremes are not reset.
GapCheckedWithoutReset(u, status) ==
    LET gap == Gap(u, status)
    IN  IF status.stepMaxAllocated = 0 THEN status
        ELSE [status EXCEPT
                !.maxGapInfo = IF @.min = 0 \/ Below(@, gap) THEN gap ELSE @,
                !.minGapInfo = IF status.maxGapInfo.min = 0 \/ Below(gap, @) THEN gap ELSE @]

\* Ratio 0 stands for "no ratio yet".
GapChecked(u, status) ==
    LET gap == Gap(u, status)
    IN  IF status.stepMaxAllocated = 0 THEN status
        ELSE [status EXCEPT
                !.maxGapInfo = IF @.min = 0 \/ Below(@, gap) THEN gap ELSE @,
                !.minGapInfo = IF status.maxGapInfo.min = 0 \/ Below(gap, @) THEN gap ELSE @,
                !.stepMaxAllocated = 0,
                !.stepMinAllocated = 0]

CheckGap(u) ==
    IF u.duringStep <= skipSteps THEN u
    ELSE [u EXCEPT !.poolStatusTable = [p \in Pools(u) |-> GapChecked(u, @[p])]]

\* The loop over the pools lists the step, and returns from the handler in step 1.
ListedIfNew(table, steps) ==
    [s \in DOMAIN table \cup steps |-> IF s \in DOMAIN table THEN table[s] ELSE 0]

ReturnsInStep1(u, stepId) == stepId = 1 /\ Pools(u) # {}
HandleStepMsg(u, stepId) == IF ReturnsInStep1(u, stepId) THEN u ELSE CheckGap(u)
LeaksAfter(sums, u, stepId) ==
    IF ReturnsInStep1(u, stepId) THEN sums ELSE CheckNpuLeak(sums, u)
ListedAtEnd(table, u, stepId) ==
    IF Pools(u) = {} THEN table ELSE ListedIfNew(table, {stepId})

\* What CheckGap ought to have seen of a step: its smallest and its largest total.
Extremes(stepId, totals) ==
    {[gapStepId |-> stepId, min |-> lo, max |-> hi] :
        lo \in {x \in totals : \A y \in totals : x <= y},
        hi \in {x \in totals \ {0} : \A y \in totals : x >= y}}

GapsSeen(d, stepId) ==
    LET u == npuMemUsages[d]
    IN  IF ReturnsInStep1(u, stepId) \/ u.duringStep <= skipSteps
        THEN UNCHANGED <<seen, gaps>>
        ELSE /\ gaps' = [gaps EXCEPT ![d] = [p \in PoolTypes |->
                                               @[p] \cup Extremes(u.duringStep, seen[d][p])]]
             /\ seen' = [seen EXCEPT ![d] = [p \in PoolTypes |-> {}]]

-----------------------------------------------------------------------------
(***************************************************************************)
(* The two sources of steps; the first one to be received stays.           *)
(***************************************************************************)
AddDuration(u) == [u EXCEPT !.poolOpTable = {[b EXCEPT !.duration = @ + 1] : b \in @}]
SetStepId(u, stepId) == [u EXCEPT !.duringStep = stepId]
StepBegun(u, stepId) == AddDuration(SetStepId(u, stepId))

\* ReceiveMstxMsg, a RANGE_START_A with the message "step start".
ReceiveStepStart(d, stepId, rangeId) ==
    /\ IsStepInnerAnalysisEnable /\ crtStepSource # "PY_STEP_SOURCE"
    /\ crtStepSource' = "MSTX_SOURCE"
    /\ stepInfoTables' =
         IF Pools(npuMemUsages[d]) = {} THEN stepInfoTables
         ELSE [stepInfoTables EXCEPT ![d] = [ListedIfNew(@, {stepId}) EXCEPT ![stepId] = rangeId]]
    /\ npuMemUsages' = [npuMemUsages EXCEPT ![d] = StepBegun(@, stepId)]
    /\ UNCHANGED <<leakMemSums, seen, gaps>>

\* ReceiveMstxMsg, a RANGE_END: it counts when the step is listed with its range.
EndsListedRange(d, stepId, rangeId) ==
    stepId \in DOMAIN stepInfoTables[d] /\ stepInfoTables[d][stepId] = rangeId

ReceiveRangeEnd(d, stepId, rangeId) ==
    /\ IsStepInnerAnalysisEnable /\ EndsListedRange(d, stepId, rangeId)
    /\ stepInfoTables' = [stepInfoTables EXCEPT ![d] = ListedAtEnd(@, npuMemUsages[d], stepId)]
    /\ leakMemSums' = [leakMemSums EXCEPT ![d] = LeaksAfter(@, npuMemUsages[d], stepId)]
    /\ npuMemUsages' = [npuMemUsages EXCEPT ![d] = HandleStepMsg(@, stepId)]
    /\ GapsSeen(d, stepId)
    /\ UNCHANGED crtStepSource

\* ReceiveMstxMsg: the marks that change nothing here.
IgnoreMark(d, mark) ==
    /\ \/ ~ IsStepInnerAnalysisEnable
       \/ /\ mark.markType = "RANGE_START_A"
          /\ mark.markMessage # "step start" \/ crtStepSource = "PY_STEP_SOURCE"
       \/ mark.markType = "RANGE_END" /\ ~ EndsListedRange(d, mark.stepId, mark.rangeId)
    /\ UNCHANGED analyzerVars

ReceiveMstxMsg(d, mark) ==
    \/ /\ mark.markType = "RANGE_START_A" /\ mark.markMessage = "step start"
       /\ ReceiveStepStart(d, mark.stepId, mark.rangeId)
    \/ mark.markType = "RANGE_END" /\ ReceiveRangeEnd(d, mark.stepId, mark.rangeId)
    \/ IgnoreMark(d, mark)

\* ReceiveStepMsg: the end of step stepId and the beginning of the next one.
ReceiveStepMsg(d, stepId) ==
    \/ /\ IsStepInnerAnalysisEnable /\ crtStepSource # "MSTX_SOURCE"
       /\ crtStepSource' = "PY_STEP_SOURCE"
       /\ leakMemSums' = [leakMemSums EXCEPT ![d] = LeaksAfter(@, npuMemUsages[d], stepId)]
       /\ stepInfoTables' =
            IF Pools(npuMemUsages[d]) = {} THEN stepInfoTables
            ELSE [stepInfoTables EXCEPT ![d] = ListedIfNew(@, {stepId, stepId + 1})]
       /\ npuMemUsages' =
            [npuMemUsages EXCEPT ![d] = StepBegun(HandleStepMsg(@, stepId), stepId + 1)]
       /\ GapsSeen(d, stepId)
    \/ /\ ~ IsStepInnerAnalysisEnable \/ crtStepSource = "MSTX_SOURCE"
       /\ UNCHANGED analyzerVars

AnalyzerInit ==
    /\ npuMemUsages = [d \in DeviceIds |->
         [poolOpTable |-> {}, poolStatusTable |-> [p \in {} |-> NewPoolStatus], duringStep |-> 0]]
    /\ stepInfoTables = [d \in DeviceIds |-> [s \in {} |-> 0]]
    /\ leakMemSums = [d \in DeviceIds |-> {}]
    /\ crtStepSource = "None"
    /\ seen = [d \in DeviceIds |-> [p \in PoolTypes |-> {}]]
    /\ gaps = [d \in DeviceIds |-> [p \in PoolTypes |-> {}]]
=============================================================================
