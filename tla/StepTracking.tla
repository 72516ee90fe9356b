------------------------------ MODULE StepTracking ------------------------------
(***************************************************************************)
(* How the steps of a training program reach the analysis: ranges of mstx  *)
(* (mstx_inject.cpp, mstx_manager.cpp) and msmemscope.step(), numbered in  *)
(* event_trace/event_report.cpp and handed to StepInnerAnalyzer, beside    *)
(* the records of the memory pools.                                        *)
(*                                                                         *)
(* ReportMark takes its locks one after the other, so a mark has three     *)
(* steps: SetStepInfo under mutex_, the unlocked read of currentStepId,    *)
(* and the handlers.  msmemscope.step() keeps Python's lock and a pool's   *)
(* tracer its own from the change of the pool to the end of the report;    *)
(* each is one step.  All devices are collected (--device is not given).   *)
(*                                                                         *)
(* The analyzer is built, and subscribes to marks and steps, at the first  *)
(* record of a pool; what was reported before had no subscriber.           *)
(***************************************************************************)
EXTENDS StepInnerAnalyzer

CONSTANTS Threads,
          DeviceOf,      \* the device each thread works on
          BlockSizes,
          Messages,      \* what the program calls its ranges
          PySteps,       \* it calls msmemscope.step()
          Stops,         \* it calls stop() and start()
          KeepsWeights,  \* it never frees all blocks of a pool
          MaxStep,       \* bound on the steps of each source
          MaxRange       \* bound on rangeId_

ASSUME TrackingAssumption ==
    /\ DeviceOf \in [Threads -> DeviceIds]
    /\ BlockSizes \subseteq Nat \ {0}
    /\ PySteps \in BOOLEAN /\ Stops \in BOOLEAN /\ KeepsWeights \in BOOLEAN
    /\ MaxStep \in Nat /\ MaxRange \in Nat

VARIABLES
    regions,        \* the blocks each pool has handed out, by device (external)
    totalAllocated, \* memUsageMp_[device].totalAllocated of each pool's tracer
    subscribed,     \* StepInnerAnalyzer's constructor has run
    tracing,        \* EventTraceManager::IsTracingEnabled()
    stepInfo,       \* EventReport::stepInfo_
    pyStepId,       \* EventReport::pyStepId_
    rangeId,        \* MstxManager::rangeId_
    ranges,         \* the ranges the program has open (external)
    at,             \* where each thread is in ReportMark
    mark            \* the mark it reports

poolVars == <<regions, totalAllocated, subscribed>>
markVars == <<stepInfo, rangeId, ranges, at, mark>>
vars == <<stepList, poolVars, tracing, markVars, pyStepId, analyzerVars>>

StepStart == "step start"
NoRegion == 0
NoMark == [markType |-> "MARK_A", markMessage |-> "", rangeId |-> 0, stepId |-> 0]

\* step is history: the number SetStepInfo gave to the range, 0 when it gave none.
Range == [id : Nat, message : Messages, by : Threads, step : Nat]
\* The list is only searched and erased from, and holds no id twice: a set.
MstxStepInfo == [currentStepId : Nat, inStepRange : BOOLEAN, stepMarkRangeIdList : SUBSET Nat]
MstxRecord == [markType : {"MARK_A", "RANGE_START_A", "RANGE_END"},
               markMessage : Messages \cup {"", "Range end"}, rangeId : Nat, stepId : Nat]

IsNeedSkip ==
    /\ stepList # {}
    /\ ~ (stepInfo.currentStepId \in stepList /\ stepInfo.inStepRange)

-----------------------------------------------------------------------------
(***************************************************************************)
(* The memory pools.                                                       *)
(***************************************************************************)
\* StepInnerAnalyzer::GetInstance: a record that is dispatched builds the analyzer,
\* whatever it then does with it.
GetInstance == subscribed' = (subscribed \/ (tracing /\ ~ IsNeedSkip))

PoolMalloc(t, type, ptr, size) ==
    LET d == DeviceOf[t]
        total == totalAllocated[d][type] + size
    IN  /\ regions[d][type][ptr] = NoRegion
        /\ regions' = [regions EXCEPT ![d][type][ptr] = size]
        /\ totalAllocated' = [totalAllocated EXCEPT ![d][type] = total]
        /\ IF tracing /\ ~ IsNeedSkip /\ IsStepInnerAnalysisEnable
           THEN RecordNpuMalloc(d, type, ptr, size, total)
           ELSE UNCHANGED analyzerVars
        /\ GetInstance
        /\ UNCHANGED <<stepList, tracing, markVars, pyStepId>>

PoolFree(t, type, ptr) ==
    LET d == DeviceOf[t]
        total == totalAllocated[d][type] - regions[d][type][ptr]
    IN  /\ regions[d][type][ptr] # NoRegion
        /\ KeepsWeights => total > 0
        /\ regions' = [regions EXCEPT ![d][type][ptr] = NoRegion]
        /\ totalAllocated' = [totalAllocated EXCEPT ![d][type] = total]
        /\ IF tracing /\ ~ IsNeedSkip /\ IsStepInnerAnalysisEnable
           THEN RecordNpuFree(d, type, ptr, total)
           ELSE UNCHANGED analyzerVars
        /\ GetInstance
        /\ UNCHANGED <<stepList, tracing, markVars, pyStepId>>

-----------------------------------------------------------------------------
(***************************************************************************)
(* Ranges of mstx.                                                         *)
(***************************************************************************)
\* Seeded fault: one step range is remembered.
StepInfoAtOnlyStart(message, id) ==
    IF message # StepStart THEN stepInfo
    ELSE [currentStepId |-> stepInfo.currentStepId + 1, inStepRange |-> TRUE,
          stepMarkRangeIdList |-> {id}]

\* SetStepInfo for a RANGE_START_A; only "step start" begins a step.
StepInfoAtStart(message, id) ==
    IF message # StepStart THEN stepInfo
    ELSE [currentStepId |-> stepInfo.currentStepId + 1,
          inStepRange |-> TRUE,
          stepMarkRangeIdList |-> stepInfo.stepMarkRangeIdList \cup {id}]

\* Seeded fault: the end of any range ends the step.
StepInfoAtAnyEnd(id) ==
    [stepInfo EXCEPT !.inStepRange = FALSE, !.stepMarkRangeIdList = @ \ {id}]

\* SetStepInfo for a RANGE_END: the end of a listed range ends the step.
StepInfoAtEnd(id) ==
    IF id \notin stepInfo.stepMarkRangeIdList THEN stepInfo
    ELSE [stepInfo EXCEPT !.inStepRange = FALSE,
                          !.stepMarkRangeIdList = @ \ {id}]

\* mstxRangeStartA returns 0 while nothing is traced.
RangeStartStopped(t, message) ==
    /\ at[t] = "idle" /\ ~ tracing
    /\ \A r \in ranges : r.by = t => r.message # message
    /\ ranges' = ranges \cup {[id |-> 0, message |-> message, by |-> t, step |-> 0]}
    /\ UNCHANGED <<stepList, poolVars, tracing, stepInfo, rangeId, at, mark, pyStepId, analyzerVars>>

RangeStart(t, message) ==
    /\ at[t] = "idle" /\ tracing
    /\ \A r \in ranges : r.by = t => r.message # message
    /\ rangeId <= MaxRange
    /\ message = StepStart => stepInfo.currentStepId < MaxStep
    /\ rangeId' = rangeId + 1
    /\ stepInfo' = StepInfoAtStart(message, rangeId)
    /\ ranges' = ranges \cup {[id |-> rangeId, message |-> message, by |-> t,
                               step |-> IF message = StepStart THEN stepInfo'.currentStepId ELSE 0]}
    /\ mark' = [mark EXCEPT ![t] = [markType |-> "RANGE_START_A", markMessage |-> message,
                                    rangeId |-> rangeId, stepId |-> 0]]
    /\ at' = [at EXCEPT ![t] = "stamp"]
    /\ UNCHANGED <<stepList, poolVars, tracing, pyStepId, analyzerVars>>

\* The mark of an end is stamped with the step in progress, not with the range's own.
RangeEnd(t, r) ==
    /\ at[t] = "idle" /\ tracing
    /\ r \in ranges /\ r.by = t
    /\ ranges' = ranges \ {r}
    /\ stepInfo' = StepInfoAtEnd(r.id)
    /\ mark' = [mark EXCEPT ![t] = [markType |-> "RANGE_END", markMessage |-> "Range end",
                                    rangeId |-> r.id, stepId |-> 0]]
    /\ at' = [at EXCEPT ![t] = "stamp"]
    /\ UNCHANGED <<stepList, poolVars, tracing, rangeId, pyStepId, analyzerVars>>

RangeEndStopped(t, r) ==
    /\ at[t] = "idle" /\ ~ tracing
    /\ r \in ranges /\ r.by = t
    /\ ranges' = ranges \ {r}
    /\ UNCHANGED <<stepList, poolVars, tracing, stepInfo, rangeId, at, mark, pyStepId, analyzerVars>>

\* record->stepId = stepInfo_.currentStepId, outside the lock of SetStepInfo.
Stamp(t) ==
    /\ at[t] = "stamp"
    /\ mark' = [mark EXCEPT ![t].stepId = stepInfo.currentStepId]
    /\ at' = [at EXCEPT ![t] = "notify"]
    /\ UNCHANGED <<stepList, poolVars, tracing, stepInfo, rangeId, ranges, pyStepId, analyzerVars>>

\* MstxAnalyzer::RecordMstx hands the marks of ranges to its subscriber, if it has one.
Notify(t) ==
    /\ at[t] = "notify"
    /\ IF IsNeedSkip \/ ~ subscribed THEN UNCHANGED analyzerVars
       ELSE ReceiveMstxMsg(DeviceOf[t], mark[t])
    /\ mark' = [mark EXCEPT ![t] = NoMark]
    /\ at' = [at EXCEPT ![t] = "idle"]
    /\ UNCHANGED <<stepList, poolVars, tracing, stepInfo, rangeId, ranges, pyStepId>>

-----------------------------------------------------------------------------
\* msmemscope.step(): PyStepManager tells its subscriber, if it has one.
ReportPyStepRecord(t) ==
    /\ PySteps /\ at[t] = "idle" /\ tracing
    /\ ~ IsNeedSkip
    /\ pyStepId < MaxStep
    /\ pyStepId' = pyStepId + 1
    /\ IF subscribed THEN ReceiveStepMsg(DeviceOf[t], pyStepId + 1)
       ELSE UNCHANGED analyzerVars
    /\ UNCHANGED <<stepList, poolVars, tracing, markVars>>

\* start() and stop().
SwitchTracing ==
    /\ Stops
    /\ tracing' = ~ tracing
    /\ UNCHANGED <<stepList, poolVars, markVars, pyStepId, analyzerVars>>

Init ==
    /\ stepList \in StepLists
    /\ AnalyzerInit
    /\ regions = [d \in DeviceIds |-> [p \in PoolTypes |-> [a \in Ptrs |-> NoRegion]]]
    /\ totalAllocated = [d \in DeviceIds |-> [p \in PoolTypes |-> 0]]
    /\ subscribed = FALSE
    /\ tracing = TRUE
    /\ stepInfo = [currentStepId |-> 0, inStepRange |-> FALSE, stepMarkRangeIdList |-> {}]
    /\ pyStepId = 0
    /\ rangeId = 1
    /\ ranges = {}
    /\ at = [t \in Threads |-> "idle"]
    /\ mark = [t \in Threads |-> NoMark]

Next ==
    \/ \E t \in Threads, type \in PoolTypes, ptr \in Ptrs :
         PoolFree(t, type, ptr) \/ \E size \in BlockSizes : PoolMalloc(t, type, ptr, size)
    \/ \E t \in Threads, message \in Messages : RangeStart(t, message) \/ RangeStartStopped(t, message)
    \/ \E t \in Threads, r \in ranges : RangeEnd(t, r) \/ RangeEndStopped(t, r)
    \/ \E t \in Threads : Stamp(t) \/ Notify(t) \/ ReportPyStepRecord(t)
    \/ SwitchTracing

Spec == Init /\ [][Next]_vars

-----------------------------------------------------------------------------
(***************************************************************************)
(* Properties.                                                             *)
(***************************************************************************)
\* The program is in no call: a thread in ReportMark may have done half of it.
AtRest == \A t \in Threads : at[t] = "idle"

TypeOK ==
    /\ \A d \in DeviceIds :
         /\ npuMemUsages[d].poolOpTable \subseteq NpuMemInfo
         /\ npuMemUsages[d].duringStep \in Nat
         /\ Pools(npuMemUsages[d]) \subseteq PoolTypes
         /\ \A p \in Pools(npuMemUsages[d]) : npuMemUsages[d].poolStatusTable[p] \in MemoryPoolStatus
         /\ \A s \in DOMAIN stepInfoTables[d] : s \in Nat /\ stepInfoTables[d][s] \in Nat
         /\ leakMemSums[d] \subseteq LeakInfo
    /\ crtStepSource \in StepSource
    /\ subscribed \in BOOLEAN
    /\ stepInfo \in MstxStepInfo
    /\ pyStepId \in Nat /\ rangeId \in Nat \ {0}
    /\ ranges \subseteq Range
    /\ at \in [Threads -> {"idle", "stamp", "notify"}]
    /\ mark \in [Threads -> MstxRecord]

\* As long as tracing is not stopped and all steps are analysed, the table of a device holds the blocks its pools
\* have handed out, and the total of each pool is the sum the pool would give.
TableMirrorsPools ==
    IsStepInnerAnalysisEnable => \A d \in DeviceIds :
        /\ {<<b.type, b.ptr, b.memSize>> : b \in npuMemUsages[d].poolOpTable} =
           {<<x[1], x[2], regions[d][x[1]][x[2]]>> :
               x \in {y \in PoolTypes \X Ptrs : regions[d][y[1]][y[2]] # NoRegion}}
        /\ \A p \in PoolTypes :
             PoolStatus(npuMemUsages[d], p).totalAllocated =
             totalAllocated[d][p]

\* The extremes that the fluctuation report prints are those of the steps checked so
\* far: minGapInfo the smallest ratio, maxGapInfo the largest.
ExtremeGapsKept ==
    \A d \in DeviceIds : \A p \in Pools(npuMemUsages[d]) :
        LET status == npuMemUsages[d].poolStatusTable[p]
        IN  gaps[d][p] # {} =>
              \A g \in gaps[d][p] : /\ ~ Below(g, status.minGapInfo)
                                    /\ ~ Below(status.maxGapInfo, g)

OpenStepRanges == {r \in ranges : r.step # 0}

\* Every step that the program has open is listed, so that its end is found however many
\* other steps begin and end meanwhile; a listed range that is not open was ended while
\* tracing was stopped.
ListsOpenRanges == {r.id : r \in OpenStepRanges} \subseteq stepInfo.stepMarkRangeIdList

\* --steps collects what happens in a range of one of its steps and nothing else.
CollectsSelectedSteps ==
    (AtRest /\ stepList # {}) =>
        (~ IsNeedSkip <=> \E r \in OpenStepRanges : r.step \in stepList)

\* Every device behaves as LeakReport says: LeaksOf(d)!Spec for every d, in the form
\* that TLC takes for a parameterised instance.
BlockOf(b) == [key |-> <<b.type, b.ptr>>, step |-> b.stepId, size |-> b.memSize]

LeaksOf(d) == INSTANCE LeakReport WITH
    Keys <- PoolTypes \X Ptrs,
    Sizes <- BlockSizes,
    heard <- subscribed,
    step <- npuMemUsages[d].duringStep,
    fresh <- {BlockOf(b) : b \in {b \in npuMemUsages[d].poolOpTable : b.duration = 0}},
    older <- {BlockOf(b) : b \in {b \in npuMemUsages[d].poolOpTable : b.duration > 0}},
    leaks <- {[key |-> <<l.type, l.ptr>>, step |-> l.leakStepId, size |-> l.leakSize] :
                 l \in leakMemSums[d]}

ReportsLeaks ==
    /\ \A d \in DeviceIds : LeaksOf(d)!Init
    /\ [][\A d \in DeviceIds : LeaksOf(d)!Step]_vars
=============================================================================
