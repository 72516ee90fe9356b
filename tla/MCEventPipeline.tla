----------------------------- MODULE MCEventPipeline -----------------------------
\* Small instances of EventPipeline.  The blocks of the pool are nested in, adjacent to
\* and reused over one another, and the driver hands out the same addresses.
EXTENDS EventPipeline

CONSTANTS PTA, d1

MCPools == {HAL, PTA}
MCBlock(a, s) == [addr |-> a, size |-> s]
MCBlocks == [p \in MCPools |->
                IF p = HAL THEN {MCBlock(0, 1)}
                           ELSE {MCBlock(0, 1), MCBlock(0, 2), MCBlock(1, 1)}]
MCTensors == {MCBlock(1, 1)}
MCAddrs == 0 .. 1
MCSizes == 1 .. 2
MCDevices == {d1}
=============================================================================
