----------------------------- MODULE MCBlockAnalysis -----------------------------
\* A small instance of BlockAnalysis: two blocks of PyTorch's caching pool.
EXTENDS BlockAnalysis

CONSTANTS d1, weight

MCPools == {HAL, PTA_CACHING, ATB}
MCBlock(a) == [addr |-> a, size |-> 1]
MCBlocks == [p \in MCPools \ {HAL} |->
                IF p = PTA_CACHING THEN {MCBlock(0), MCBlock(1)} ELSE {}]
MCSwitches == {{"DECOMPOSE_ANALYZER", "INEFFICIENT_ANALYZER"}, {"DECOMPOSE_ANALYZER"}}
MCAddrs == 0 .. 1
=============================================================================
