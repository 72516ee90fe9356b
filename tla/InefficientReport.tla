----------------------------- MODULE InefficientReport -----------------------------
(***************************************************************************)
(* The offline analysis of python/msmemscope/analyzer/inefficient.py: the  *)
(* rows of an output file are read, put in the order of their ids and      *)
(* judged again.  A row tells its type, its pool and its allocation id;    *)
(* the minimal size and the selection of verdicts are at their defaults.   *)
(***************************************************************************)
EXTENDS Integers, SequencesExt

CONSTANT idle_threshold

MAX_UINT64 == -1   \* stands for the initial value of the two ids

NewPidState == [api_tmp |-> {}, api_id |-> 0, malloc_api_tmp_id |-> MAX_UINT64,
                free_api_tmp_id |-> MAX_UINT64, is_operation_started |-> FALSE]

\* pid_states by pool, memory_state by allocation id, and the verdicts on each.
InitialAnalysis(pools, allocations) ==
    [pid_states   |-> [p \in pools |-> NewPidState],
     memory_state |-> [a \in allocations |-> << >>],
     results      |-> [a \in allocations |-> << >>]]

_classify_event_tmp(s) ==
    [s EXCEPT !.api_tmp = {},
              !.malloc_api_tmp_id = IF "MALLOC" \in s.api_tmp THEN s.api_id ELSE @,
              !.free_api_tmp_id = IF "FREE" \in s.api_tmp THEN s.api_id ELSE @]

_handle_oplaunch_event(s, isStart) ==
    IF isStart
    THEN [s EXCEPT !.is_operation_started = TRUE, !.api_id = @ + 1]
    ELSE _classify_event_tmp([s EXCEPT !.is_operation_started = FALSE])

_api_id(s) == IF s.is_operation_started THEN s.api_id ELSE s.api_id + 1

_pid_state_after(s, row) ==
    LET added == [s EXCEPT !.api_id = _api_id(s), !.api_tmp = @ \cup {row.type}]
    IN  IF s.is_operation_started THEN added ELSE _classify_event_tmp(added)

-----------------------------------------------------------------------------
\* The verdicts on the events of one allocation, of which the last is new.
_temporary_idleness(state) ==
    LET n == Len(state)
    IN  /\ n >= 2
        /\ state[n - 1].event = "ACCESS"
        /\ state[n].api_id - state[n - 1].api_id > idle_threshold

_early_allocation(state, s) ==
    LET isLater(x) == x.event = "ACCESS" /\ x.api_id # state[1].api_id
        first == SelectInSeq(state, isLater)
    IN  /\ s.free_api_tmp_id # MAX_UINT64
        /\ first # 0
        /\ state[first].api_id > s.free_api_tmp_id
        /\ state[1].api_id < s.free_api_tmp_id

_late_deallocation(state, s) ==
    LET n == Len(state)
    IN  /\ s.malloc_api_tmp_id # MAX_UINT64
        /\ n >= 2
        /\ state[n - 1].event = "ACCESS"
        /\ state[n - 1].api_id < s.malloc_api_tmp_id
        /\ s.api_id > s.malloc_api_tmp_id

\* _inefficient_analysis: the verdicts on an allocation after its latest event.  Only
\* the first two are given once.
_inefficient_analysis(state, s, verdicts) ==
    LET event == state[Len(state)].event
        with(v, type, holds) == IF holds /\ ~Contains(v, type) THEN Append(v, type) ELSE v
        idle == with(verdicts, "temporary_idleness", _temporary_idleness(state))
    IN  CASE state[1].event = "MALLOC" /\ event = "ACCESS" ->
                 with(idle, "early_allocation", _early_allocation(state, s))
          [] state[1].event = "MALLOC" /\ event = "FREE" /\ _late_deallocation(state, s) ->
                 Append(verdicts, "late_deallocation")
          [] OTHER -> verdicts

event_handle(x, row) ==
    LET s     == x.pid_states[row.pool]
        after == _pid_state_after(s, row)
        state == Append(x.memory_state[row.allocationId],
                        [event |-> row.type, api_id |-> _api_id(s)])
    IN  IF row.type \in {"START", "END"}
        THEN [x EXCEPT !.pid_states[row.pool] = _handle_oplaunch_event(s, row.type = "START")]
        ELSE [x EXCEPT !.pid_states[row.pool] = after,
                       !.memory_state[row.allocationId] = state,
                       !.results[row.allocationId] = _inefficient_analysis(state, after, @)]

\* origin_events.sort, which is stable: where the i-th row comes in the order of the ids.
Place(rows, i) ==
    1 + Cardinality({j \in DOMAIN rows : \/ rows[j].id < rows[i].id
                                         \/ rows[j].id = rows[i].id /\ j < i})

SortedById(rows) ==
    [n \in DOMAIN rows |-> rows[CHOOSE i \in DOMAIN rows : Place(rows, i) = n]]

\* Seeded fault: the rows are taken in the order they were written.
analyze_unsorted(rows, pools, allocations) ==
    FoldLeft(event_handle, InitialAnalysis(pools, allocations), rows).results

\* The verdicts of the file, by allocation id.
analyze(rows, pools, allocations) ==
    FoldLeft(event_handle, InitialAnalysis(pools, allocations), SortedById(rows)).results
=============================================================================
