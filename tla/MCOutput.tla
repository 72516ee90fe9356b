----------------------------------- MODULE MCOutput -----------------------------------
\* Driver memory and its leaks; files and sessions; the pools of ATB, of PyTorch (two names
\* of one pool, and the workspace) and of MindSpore.
EXTENDS Output, TLC

CONSTANTS t1, t2, p1, p2, d0, d1

At(a, d) == [addr |-> a, device |-> d, size |-> a]

MCPools == {HAL} \cup TracerNames

MCConfig == [analyses |-> {"leaks"}, steps |-> 0, mode |-> "IMMEDIATE",
             events |-> {"alloc", "free"}]

NoPools == [c \in {} |-> ""]

Base == [tracing |-> TRUE, config |-> [MCConfig EXCEPT !.analyses = {}], writable |-> {d0, d1},
         blocks |-> {}, marks |-> {}, pools |-> NoPools, heaps |-> {}, batches |-> {},
         current |-> NA, calls |-> 6, switches |-> 1]

PoolsOf(name1, name2) ==
    [Base EXCEPT !.pools = (p1 :> name1) @@ (p2 :> name2), !.heaps = {At(4, d0)},
                 !.batches = {<<At(1, d0)>>, <<At(2, d0), At(3, d1)>>}]

MCSettings ==
    { [Base EXCEPT !.config = MCConfig, !.blocks = {At(1, d0), At(2, d1)}, !.calls = 5],
      [Base EXCEPT !.blocks = {At(1, d0)}, !.marks = {d1, NA}, !.writable = {d1},
                   !.calls = 4, !.switches = 2],
      [Base EXCEPT !.tracing = FALSE, !.marks = {d0, d1, NA}, !.calls = 3, !.switches = 3],
      PoolsOf("atb", "atb"),
      [PoolsOf("ptaCaching", "msleaks") EXCEPT !.current = d1],
      PoolsOf("ptaWorkspace", "mindsporeMemPool") }

MCAddrs == 1..4
Symmetric == Permutations(Threads)
====================================================================================
