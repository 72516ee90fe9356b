------------------------------ MODULE MCEventThreads ------------------------------
\* Small instances of EventThreads: two threads with a block each, or with blocks that
\* they share.
EXTENDS EventThreads

CONSTANTS t1, t2, d1

MCPools == {HAL}
MCBlock(a, s) == [addr |-> a, size |-> s]
MCOwnBlocks == [t \in Threads |-> IF t = t1 THEN {MCBlock(0, 1), MCBlock(0, 2)}
                                            ELSE {MCBlock(2, 1), MCBlock(3, 1)}]
MCSharedBlocks == [t \in Threads |-> {MCBlock(0, 1)}]
MCAddrs == 0 .. 3
MCSizes == 1 .. 2
=============================================================================
