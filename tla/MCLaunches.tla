---------------------------------- MODULE MCLaunches ----------------------------------
\* Two threads that run an operator of ATB, a kernel of ATB and kernels of the runtime.
EXTENDS Launches

CONSTANTS t1, t2, k1, k2

MCOutputs(i) == CASE i = "op" -> <<"x", "y">> [] i = "atb" -> <<"y">> [] OTHER -> <<>>

Both == {"op", "kernel"}

\* Launches alone, with copies among them; a window of --watch; watch() and remove(); ATB with
\* nothing to watch.
MCSettings ==
    { [level |-> Both, events |-> {"launch"}, isWatched |-> FALSE,
       runs |-> {"add", "mul", NoHash}, calls |-> 2, switches |-> 0, watches |-> 0],
      [level |-> Both, events |-> {}, isWatched |-> TRUE,
       runs |-> {"op", "atb", "add"}, calls |-> 2, switches |-> 1, watches |-> 0],
      [level |-> Both, events |-> {}, isWatched |-> FALSE,
       runs |-> {"op"}, calls |-> 3, switches |-> 0, watches |-> 2],
      [level |-> {"op"}, events |-> {"launch", "access"}, isWatched |-> FALSE,
       runs |-> {"op", "atb", "add"}, calls |-> 2, switches |-> 1, watches |-> 0] }

MCUnlimited == -1
====================================================================================
