--------------------------------- MODULE HalAnalyzer ---------------------------------
(***************************************************************************)
(* analysis/hal_analyzer.cpp: the addresses of the driver that were ever   *)
(* allocated, each with whether its block still has to be freed, and the   *)
(* list of leaks made of it when the process exits.  There is one client,  *)
(* the process itself.                                                     *)
(***************************************************************************)
EXTENDS Naturals

\* A configuration is [analyses, steps, mode, events].
IsHalAnalysisEnable(config) ==
    /\ "leaks" \in config.analyses
    /\ config.steps = 0
    /\ config.mode # "DEFERRED"
    /\ {"alloc", "free"} \subseteq config.events

\* CreateMemTables
NewTable == <<>>

\* Seeded fault: only a new entry is set to wait for its free.
RecordFirstMalloc(table, addr) ==
    [a \in DOMAIN table \cup {addr} |->
        IF a \in DOMAIN table THEN table[a] ELSE "FREE_WAIT"]

\* An address that is allocated again before its free was seen is only logged.
RecordMalloc(table, addr) ==
    [a \in DOMAIN table \cup {addr} |-> IF a = addr THEN "FREE_WAIT" ELSE table[a]]

\* A free of no malloc, or a second one, is only logged.
RecordFree(table, addr) ==
    IF addr \in DOMAIN table THEN [table EXCEPT ![addr] = "FREE_ALREADY"] ELSE table

HalRecord(config, table, type, addr) ==
    CASE ~IsHalAnalysisEnable(config) -> table
      [] OTHER -> IF type = "MALLOC" THEN RecordMalloc(table, addr) ELSE RecordFree(table, addr)

\* CheckLeak
Leaks(table) == {addr \in DOMAIN table : table[addr] # "FREE_ALREADY"}

LeakAnalyze(config, table) == IF IsHalAnalysisEnable(config) THEN Leaks(table) ELSE {}
====================================================================================
