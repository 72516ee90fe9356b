---------------------------- MODULE InefficientAnalyzer ----------------------------
(***************************************************************************)
(* analysis/inefficient_analyzer.{h,cpp}: which blocks are allocated too   *)
(* early, freed too late or left idle, judged by the numbers of the APIs   *)
(* their events belong to.  An API is an operator, from its START to its   *)
(* END, or a single event outside of any operator.                         *)
(*                                                                         *)
(* A pool type has one PidState (the process is one); inefficientType is   *)
(* the sequence of the marks that the code joins with commas.              *)
(***************************************************************************)
EXTENDS Integers, Sequences
Funs == INSTANCE Functions

CONSTANT Threshold   \* THREHOLD

ASSUME ThresholdAssumption == Threshold \in Nat

NoApi == 0   \* MAX_UNIT64; the first API has number 1

Inefficiencies == {"early_allocation", "late_deallocation", "temporary_idleness"}

\* apiTmp: the types of the events of the current API, all that is read of them.
PidState == [apiId          : Nat,
             mallocApiTmpId : Nat,
             freeApiTmpId   : Nat,
             isOpStart      : BOOLEAN,
             apiTmp         : SUBSET {"MALLOC", "ACCESS", "FREE"}]

InitialPidState ==
    [apiId |-> 0, mallocApiTmpId |-> NoApi, freeApiTmpId |-> NoApi,
     isOpStart |-> FALSE, apiTmp |-> {}]

\* At the end of an API: was something allocated or freed in it.
ClassifyEventsTmp(p) ==
    [p EXCEPT !.mallocApiTmpId = IF "MALLOC" \in p.apiTmp THEN p.apiId ELSE @,
              !.freeApiTmpId   = IF "FREE" \in p.apiTmp THEN p.apiId ELSE @,
              !.apiTmp         = {}]

HandleOpLaunchEvent(p, isStart) ==
    IF isStart
    THEN [p EXCEPT !.isOpStart = TRUE, !.apiId = @ + 1]
    ELSE [ClassifyEventsTmp(p) EXCEPT !.isOpStart = FALSE]

\* The API a memory event belongs to: the running operator or one of its own.
ApiOfEvent(p) == IF p.isOpStart THEN p.apiId ELSE p.apiId + 1

AfterMemoryEvent(p, e) ==
    LET noted == [p EXCEPT !.apiId = ApiOfEvent(p), !.apiTmp = @ \cup {e.type}]
    IN  IF p.isOpStart THEN noted ELSE ClassifyEventsTmp(noted)

-----------------------------------------------------------------------------
(***************************************************************************)
(* The three verdicts on a block: events are those of its state, apiId     *)
(* their APIs, p is the PidState as the event has left it.                 *)
(***************************************************************************)
\* Seeded fault: a block is not judged idle by its latest access.
TemporaryIdlenessBefore(events, apiId) ==
    LET n == Len(events)
    IN  /\ n >= 3
        /\ events[n - 1].type = "ACCESS"
        /\ events[n - 2].type = "ACCESS"
        /\ apiId[n - 1] - apiId[n - 2] > Threshold

TemporaryIdleness(events, apiId) ==
    LET n == Len(events)
    IN  /\ n >= 2
        /\ events[n - 1].type = "ACCESS"
        /\ apiId[n] > apiId[n - 1]
        /\ apiId[n] - apiId[n - 1] > Threshold

\* Seeded fault: the latest access is compared, not the first one.
EarlyAllocationByLast(p, events, apiId) ==
    /\ p.freeApiTmpId # NoApi
    /\ apiId[1] < p.freeApiTmpId
    /\ p.freeApiTmpId < apiId[Len(events)]

\* The first access from another API than that of the MALLOC.
LaterAccesses(events, apiId) ==
    {i \in 1 .. Len(events) : events[i].type = "ACCESS" /\ apiId[i] # apiId[1]}

EarlyAllocation(p, events, apiId) ==
    /\ p.freeApiTmpId # NoApi
    /\ \E i \in LaterAccesses(events, apiId) :
          /\ \A j \in LaterAccesses(events, apiId) : i <= j
          /\ apiId[1] < p.freeApiTmpId
          /\ p.freeApiTmpId < apiId[i]

LateDeallocation(p, events, apiId) ==
    LET n == Len(events)
    IN  /\ p.mallocApiTmpId # NoApi
        /\ n >= 2
        /\ events[n - 1].type = "ACCESS"
        /\ apiId[n - 1] < p.mallocApiTmpId
        /\ p.mallocApiTmpId < p.apiId

\* A mark that a block may get once.
MarkedOnce(marks, mark, holds) ==
    IF holds /\ mark \notin Funs!Range(marks) THEN Append(marks, mark) ELSE marks

\* InefficientAnalysis of the latest event of a state.
InefficientAnalysis(p, events, apiId, marks) ==
    LET type == events[Len(events)].type
        idle == MarkedOnce(marks, "temporary_idleness", TemporaryIdleness(events, apiId))
    IN  IF events[1].type # "MALLOC" \/ Len(events) # Len(apiId)
        THEN marks
        ELSE CASE type = "ACCESS" ->
                     MarkedOnce(idle, "early_allocation", EarlyAllocation(p, events, apiId))
               [] type = "FREE" /\ LateDeallocation(p, events, apiId) ->
                     Append(marks, "late_deallocation")
               [] OTHER -> marks
=============================================================================
