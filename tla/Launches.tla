----------------------------------- MODULE Launches -----------------------------------
(***************************************************************************)
(* The operators and kernels of the process: the hooks around the runtime's *)
(* kernel launches and around ATB's operators and kernels                  *)
(* (kernel_hooks/runtime_hooks.cpp, atb_hooks/atb_hooks.cpp), the runtime's *)
(* reports of its tasks (runtime_prof_api.cpp), the thread that reads the  *)
(* device's logs (kernel_event_trace.cpp), and the dumps they trigger      *)
(* (memory_watch/).                                                        *)
(*                                                                         *)
(* Each host thread runs operators, in them kernels of ATB, in them        *)
(* launches.  A task that the runtime reports runs on the device, which    *)
(* logs its begin and its end.  The runtime reports the task of a launch   *)
(* on the launching thread, before the launch returns, and nothing comes   *)
(* between the two on that thread (the comment above RuntimeKernelLinker). *)
(***************************************************************************)
EXTENDS KernelLinker, MemoryWatch

CONSTANTS Threads, Keys,              \* host threads; (device, stream, task)
          Ops, AtbKernels, Kernels,   \* what they run, by name
          Tensors,                    \* what the Python interface watches; named for itself
          Outputs(_),                 \* the output tensors of an operator or kernel
          Settings,                   \* configurations, what the application runs under
                                      \* each, and the bounds on its calls: see below
          BufferLogs,                 \* logs that fill the read buffer
          MaxCalls, MaxDumps          \* bounds on all calls and on dump_nums

ASSUME LaunchesAssumption ==
    /\ BufferLogs \in Nat \ {0} /\ MaxCalls \in Nat /\ MaxDumps \in Nat
    /\ WatchOutput \in Nat /\ AllOutputs \in Nat /\ Unlimited = -1
    /\ \A i \in Ops \cup AtbKernels : Outputs(i) \in Seq(Seqs!ToSet(Outputs(i)))
    /\ NoKey \notin Keys /\ NoName \notin Ops \cup AtbKernels \cup Kernels
    /\ NoHash \notin Kernels
    /\ \A c \in Settings : /\ c.level \subseteq {"op", "kernel"}
                            /\ c.events \subseteq {"launch", "access"}
                            /\ c.isWatched \in BOOLEAN
                            /\ c.runs \subseteq Ops \cup AtbKernels \cup Kernels \cup {NoHash}
                            /\ c.calls \in 0..MaxCalls
                            /\ c.switches \in Nat /\ c.watches \in Nat

Items == Ops \cup AtbKernels \cup Kernels \cup {NoName}

VARIABLES config,   \* the configuration, which stays
          linker, watch,
          tracing,  \* EventTraceManager's status_
          trace,    \* the device's logging: not started, on, ended
          host,     \* what each thread is in
          device,   \* the task each key stands for: idle, queued or running; as history, the
                    \* kernel and the launch that made it, 0 for a task that is no kernel
          channel,  \* logs of the device not read yet
          buffer,   \* logs read and not handled yet
          watcher,  \* the watch() or remove() in progress
          reported, \* history: the rows of the last step
          written,  \* history: the files that are numbered by their call
          overwritten, \* history: those of them that were written twice
          spoiled,  \* history: keys that no longer tell one launch from another
          calls, launches, switches, watches

traceVars == <<linker, trace, device, channel, buffer, spoiled, launches>>
vars == <<config, linker, watch, tracing, trace, host, device, channel, buffer, watcher,
          reported, written, overwritten, spoiled, calls, launches, switches, watches>>

------------------------------------------------------------------------------------
\* What is traced, and what is watched

IsNeedTraceOp     == "op" \in config.level
IsNeedTraceKernel == "kernel" \in config.level
IsNeedTraceLaunch == "launch" \in config.events
IsNeedTraceAccess == "access" \in config.events

ShouldTraceType(type) ==
    CASE type \in {"KERNEL_LAUNCH", "KERNEL_EXCUTE"} -> IsNeedTraceKernel /\ IsNeedTraceLaunch
      [] type = "OP_LAUNCH"      -> IsNeedTraceOp /\ IsNeedTraceLaunch
      [] type = "ATB_OP_EXECUTE" -> IsNeedTraceOp
      [] type = "ATB_KERNEL"     -> IsNeedTraceKernel
      [] type = "MEM_ACCESS"     -> IsNeedTraceAccess

Traced(type) == tracing /\ ShouldTraceType(type)

\* EventReport's reports, as the set of rows that each makes; a row also says, as history,
\* what `ran`.  The device and the steps that are selected are left out here.
Rows(condition, type, key, name, ran) ==
    IF condition THEN {[type |-> type, key |-> key, name |-> name, ran |-> ran]} ELSE {}

ReportKernelLaunch(key, name, ran) ==
    Rows(Traced("KERNEL_LAUNCH"), "KERNEL_LAUNCH", key, name, ran)

ReportKernelExcute(type, key, name, ran) ==
    Rows(Traced("KERNEL_EXCUTE"), type, key, name, ran)

ReportAtbOpExecute(type, op)     == Rows(TRUE, type, NoKey, op, op)
ReportAtbKernel(type, kernel)    == Rows(TRUE, type, NoKey, kernel, kernel)
ReportAtbAccessMemory(name)      == Rows(TRUE, "ACCESS", NoKey, name, name)

\* Of each tensor; that there are several is left out.
MemScopeReportTensors(name) == ReportAtbAccessMemory(name)

OpRows(type, op) ==
    (IF Traced("OP_LAUNCH") THEN ReportAtbOpExecute(type, op) ELSE {})
    \cup (IF Traced("MEM_ACCESS") THEN MemScopeReportTensors(op) ELSE {})

\* The conditions are disjunctions whose first part SaveLaunchParam has just tested.
KernelRows(type, k) == ReportAtbKernel(type, k) \cup MemScopeReportTensors(k)

IsWatching == config.isWatched \/ IsInMonitoring(watch)

\* One of the outcomes of an operation of MemoryWatch; `counted` if it ends a call whose
\* begin was counted, which then numbers the dump.
WatchBy(outcomes, counted) ==
    \E o \in outcomes :
        LET opens    == watch.watched = NoTarget /\ o.watch.watched # NoTarget
            numbered == IF counted /\ ~opens THEN o.files ELSE {}
        IN  /\ watch' = o.watch
            /\ written' = written \cup numbered
            /\ overwritten' = overwritten \cup (numbered \cap written)

NoWatch == UNCHANGED <<watch, written, overwritten>>

------------------------------------------------------------------------------------
\* Operators and kernels of ATB

Idle == [op |-> NoName, opBegun |-> FALSE, atb |-> NoName, atbBegun |-> FALSE,
         pc |-> "out", kernel |-> NoName, kernelBegun |-> FALSE]

\* Runner::Execute, up to the call of the original.  It does nothing of its own, then or
\* later, unless ATB operators are traced when it is entered.
OpBegin(t, op) ==
    /\ host[t].op = NoName /\ host[t].atb = NoName /\ host[t].pc = "out"
    /\ calls < config.calls
    /\ Traced("ATB_OP_EXECUTE")
    /\ host' = [host EXCEPT ![t].op = op, ![t].opBegun = IsWatching]
    /\ reported' = OpRows("ATB_START", op)
    /\ IF IsWatching THEN WatchBy(OpExcuteBegin(watch, t, op), TRUE) ELSE NoWatch
    /\ calls' = calls + 1
    /\ UNCHANGED <<config, tracing, watcher, switches, watches, traceVars>>

\* The rest of Runner::Execute.  If the watch began in the meantime, the operator's path was
\* never copied: the name is whatever the stack holds.
OpEnd(t) ==
    /\ host[t].op # NoName /\ host[t].atb = NoName /\ host[t].pc = "out"
    /\ host' = [host EXCEPT ![t] = Idle]
    /\ reported' = OpRows("ATB_END", host[t].op)
    /\ IF IsWatching
       THEN \E path \in IF host[t].opBegun THEN {host[t].op} ELSE Items :
                WatchBy(OpExcuteEnd(watch, t, path, Outputs(host[t].op)), host[t].opBegun)
       ELSE NoWatch
    /\ UNCHANGED <<config, tracing, watcher, calls, switches, watches, traceVars>>

\* SaveLaunchParam, which ATB calls before and after each kernel.
AtbBefore(t, k) ==
    /\ host[t].atb = NoName /\ host[t].pc = "out"
    /\ calls < config.calls
    /\ LET saves == Traced("ATB_KERNEL")
       IN  /\ host' = [host EXCEPT ![t].atb = k, ![t].atbBegun = saves /\ IsWatching]
           /\ reported' = IF saves THEN KernelRows("ATB_KERNEL_START", k) ELSE {}
           /\ IF saves /\ IsWatching
              THEN WatchBy(KernelExcuteBegin(watch, t, k, TRUE), TRUE)
              ELSE NoWatch
    /\ calls' = calls + 1
    /\ UNCHANGED <<config, tracing, watcher, switches, watches, traceVars>>

AtbAfter(t) ==
    /\ host[t].atb # NoName /\ host[t].pc = "out"
    /\ LET saves == Traced("ATB_KERNEL")
           k     == host[t].atb
       IN  /\ host' = [host EXCEPT ![t].atb = NoName, ![t].atbBegun = FALSE]
           /\ reported' = IF saves THEN KernelRows("ATB_KERNEL_END", k) ELSE {}
           /\ IF saves /\ IsWatching
              THEN WatchBy(KernelExcuteEnd(watch, t, k, TRUE, Outputs(k)), host[t].atbBegun)
              ELSE NoWatch
    /\ UNCHANGED <<config, tracing, watcher, calls, switches, watches, traceVars>>

------------------------------------------------------------------------------------
\* Launches, and what the runtime says of them

\* GetHashIdCallBackImply: the runtime asks for the hash id of a kernel's
\* name, unless it did before it knew this callback.
RegisterHash(t) ==
    /\ host[t].pc = "launched" /\ host[t].kernel \notin linker.known
    /\ linker' = SetHashInfo(linker, host[t].kernel)
    /\ reported' = {}
    /\ NoWatch
    /\ UNCHANGED <<config, tracing, trace, host, device, channel, buffer, watcher, spoiled,
                   calls, launches, switches, watches>>

\* SetProfCommand and prof_drv_start, once; prof_stop.
StartKernelEventTrace == trace' = IF trace = "none" THEN "on" ELSE trace
EndKernelEventTrace   == trace' = "ended"

\* A launch hook, up to the call of the original.  The first one starts the device's
\* logging.  A launch that aclrtLaunchKernel makes itself is not hooked again.
LaunchKernel(t, k) ==
    /\ host[t].pc = "out"
    /\ calls < config.calls
    /\ trace # "ended"
    /\ StartKernelEventTrace
    /\ linker' = KernelLaunch(linker, t, launches + 1)
    /\ host' = [host EXCEPT ![t].pc = "launched", ![t].kernel = k]
    /\ launches' = launches + 1
    /\ calls' = calls + 1
    /\ reported' = {}
    /\ NoWatch
    /\ UNCHANGED <<config, tracing, device, channel, buffer, watcher, spoiled, switches,
                   watches>>

NoTask == [state |-> "idle", kernel |-> NoName, launch |-> 0]

\* The key of a new task is not its own yet: another thread has it in the table still, or the
\* logs of a task that was no kernel are not read.
IsTaken(t, key) ==
    \/ \E u \in Threads \ {t} : \E e \in Seqs!ToSet(linker.entries[u]) : e.key = key
    \/ \E log \in Seqs!ToSet(buffer \o channel) : log.key = key /\ log.launch = 0

\* CompactInfoReporterCallbackImpl: the runtime has made the launch a task, whose key no
\* other task of the device has at this time.
TaskInfo(t, key) ==
    /\ host[t].pc = "launched"
    /\ Completes(linker, t, host[t].kernel)
    /\ device[key].state = "idle"
    /\ device' = [device EXCEPT ![key] = [state |-> "queued", kernel |-> host[t].kernel,
                                          launch |-> Seqs!Last(linker.entries[t]).launch]]
    /\ linker' = Complete(linker, t, key, host[t].kernel)
    /\ LET name    == linker'.last[t]
           begins  == IsWatching /\ IsNeedTraceKernel
       IN  /\ host' = [host EXCEPT ![t].pc = "told",
                                   ![t].kernelBegun = begins /\ t \notin watch.repeat]
           /\ IF begins THEN WatchBy(KernelExcuteBegin(watch, t, name, FALSE), TRUE)
                        ELSE NoWatch
           /\ reported' = ReportKernelLaunch(key, name, host[t].kernel)
    /\ spoiled' = IF IsTaken(t, key) THEN spoiled \cup {key} ELSE spoiled
    /\ UNCHANGED <<config, tracing, trace, channel, buffer, watcher, calls, launches,
                   switches, watches>>

\* The device also gets tasks that are no kernels, copies for one.  The runtime reports
\* them with no name, and RuntimeTaskInfoLaunch leaves them out.
OtherTask(key) ==
    /\ NoHash \in config.runs
    /\ calls < config.calls
    /\ device[key].state = "idle"
    /\ device' = [device EXCEPT ![key].state = "queued"]
    /\ calls' = calls + 1
    /\ reported' = {}
    /\ NoWatch
    /\ UNCHANGED <<config, linker, tracing, trace, host, channel, buffer, watcher, spoiled,
                   launches, switches, watches>>

\* The rest of the hook.  A launch that failed, or made no kernel task, leaves its entry in
\* the table; its end is taken for the end of the thread's last kernel.
KernelReturn(t) ==
    /\ host[t].pc \in {"launched", "told"}
    /\ host' = [host EXCEPT ![t].pc = "out", ![t].kernel = NoName, ![t].kernelBegun = FALSE]
    /\ IF IsWatching /\ IsNeedTraceKernel
       THEN WatchBy(KernelExcuteEnd(watch, t, linker.last[t], FALSE, <<>>),
                    host[t].kernelBegun)
       ELSE NoWatch
    /\ reported' = {}
    /\ UNCHANGED <<config, tracing, watcher, calls, switches, watches, traceVars>>

------------------------------------------------------------------------------------
\* The device, and the thread that reads its logs

\* A log also says, as history, what ran.
Log(type, key) == [type |-> type, key |-> key, ran |-> device[key].kernel,
                   launch |-> device[key].launch]

Logged(log) == IF trace = "on" THEN Append(channel, log) ELSE channel

StartTask(key) ==
    /\ device[key].state = "queued"
    /\ device' = [device EXCEPT ![key].state = "running"]
    /\ channel' = Logged(Log("KERNEL_START", key))
    /\ reported' = {}
    /\ NoWatch
    /\ UNCHANGED <<config, linker, tracing, trace, host, buffer, watcher, spoiled, calls,
                   launches, switches, watches>>

FinishTask(key) ==
    /\ device[key].state = "running"
    /\ device' = [device EXCEPT ![key] = NoTask]
    /\ channel' = Logged(Log("KERNEL_END", key))
    /\ reported' = {}
    /\ NoWatch
    /\ UNCHANGED <<config, linker, tracing, trace, host, buffer, watcher, spoiled, calls,
                   launches, switches, watches>>

\* Seeded fault: a read that fills the buffer is handled, and overruns it.
ReadFullBuffer ==
    /\ buffer = <<>>
    /\ \E n \in 1..Len(channel) :
           /\ n <= BufferLogs
           /\ channel' = SubSeq(channel, n + 1, Len(channel))
           /\ buffer' = SubSeq(channel, 1, n)
    /\ reported' = {}
    /\ NoWatch
    /\ UNCHANGED <<config, linker, tracing, trace, host, device, watcher, spoiled, calls,
                   launches, switches, watches>>

\* A read that fills the buffer is taken for an error, and its logs are lost.
Read ==
    /\ buffer = <<>>
    /\ \E n \in 1..Len(channel) :
           LET logs == SubSeq(channel, 1, n)
           IN  /\ n <= BufferLogs
               /\ channel' = SubSeq(channel, n + 1, Len(channel))
               /\ IF n = BufferLogs
                  THEN /\ spoiled' = spoiled \cup {log.key : log \in Seqs!ToSet(logs)}
                       /\ UNCHANGED buffer
                  ELSE buffer' = logs /\ UNCHANGED spoiled
    /\ reported' = {}
    /\ NoWatch
    /\ UNCHANGED <<config, linker, tracing, trace, host, device, watcher, calls, launches,
                   switches, watches>>

\* ReportStarsSocLog, KernelStartExcute, KernelEndExcute.
HandleLog ==
    /\ buffer # <<>>
    /\ buffer' = Tail(buffer)
    /\ LET log == Head(buffer)
       IN  \/ /\ Places(linker, log.key) = {}
              /\ reported' = {}
              /\ UNCHANGED linker
           \/ \E place \in Places(linker, log.key) :
                  LET name == NameAt(linker, place)
                  IN  /\ linker' = Used(linker, place, log.type)
                      /\ reported' = IF name = NoName THEN {}
                             ELSE ReportKernelExcute(log.type, log.key, name, log.ran)
    /\ NoWatch
    /\ UNCHANGED <<config, tracing, trace, host, device, channel, watcher, spoiled, calls,
                   launches, switches, watches>>

\* aclFinalize stops the device's logging if it is called while tracing.
AclFinalize ==
    /\ trace = "on" /\ tracing
    /\ \A t \in Threads : host[t] = Idle
    /\ EndKernelEventTrace
    /\ reported' = {}
    /\ NoWatch
    /\ UNCHANGED <<config, linker, tracing, host, device, channel, buffer, watcher, spoiled,
                   calls, launches, switches, watches>>

\* start() and stop().
SwitchTracing ==
    /\ switches < config.switches
    /\ tracing' = ~tracing
    /\ switches' = switches + 1
    /\ reported' = {}
    /\ NoWatch
    /\ UNCHANGED <<config, host, watcher, calls, watches, traceVars>>

------------------------------------------------------------------------------------
\* msmemscope.watcher: watch() and remove() take the dumper's and the monitor's locks one
\* after the other.

Ready == [pc |-> "ready", tensor |-> NoName, nums |-> Unlimited]

WatcherStep(from, to, next) ==
    /\ watcher.pc = from
    /\ watcher' = IF to = "ready" THEN Ready ELSE [watcher EXCEPT !.pc = to]
    /\ watch' = next
    /\ reported' = {}
    /\ UNCHANGED <<config, tracing, host, written, overwritten, calls, switches, watches,
                   traceVars>>

Call(pc) ==
    /\ watcher = Ready /\ watches < config.watches
    /\ \E tensor \in Tensors, n \in {Unlimited} \cup 0..MaxDumps :
           watcher' = [pc |-> pc, tensor |-> tensor, nums |-> n]
    /\ watches' = watches + 1
    /\ reported' = {}
    /\ NoWatch
    /\ UNCHANGED <<config, tracing, host, calls, switches, traceVars>>

WatcherWatch ==
    \/ Call("nums")
    \/ WatcherStep("nums", "name", SetDumpNums(watch, watcher.tensor, watcher.nums))
    \/ WatcherStep("name", "add", SetDumpName(watch, watcher.tensor, watcher.tensor))
    \/ WatcherStep("add", "ready", AddWatchTensor(watch, watcher.tensor))

WatcherRemove ==
    \/ Call("uncount")
    \/ WatcherStep("uncount", "unname", DeleteDumpNums(watch, watcher.tensor))
    \/ WatcherStep("unname", "drop", DeleteDumpName(watch, watcher.tensor))
    \/ WatcherStep("drop", "ready", DeleteWatchTensor(watch, watcher.tensor))

------------------------------------------------------------------------------------
Init ==
    /\ config \in Settings
    /\ linker = NewLinker(Threads)
    /\ watch = NewWatch(Items)
    /\ tracing \in BOOLEAN
    /\ trace = "none"
    /\ host = [t \in Threads |-> Idle]
    /\ device = [key \in Keys |-> NoTask]
    /\ channel = <<>> /\ buffer = <<>>
    /\ watcher = Ready
    /\ reported = {} /\ written = {} /\ overwritten = {} /\ spoiled = {}
    /\ calls = 0 /\ launches = 0 /\ switches = 0 /\ watches = 0

Host(t) == \/ \E op \in Ops \cap config.runs : OpBegin(t, op)
           \/ OpEnd(t)
           \/ \E k \in AtbKernels \cap config.runs : AtbBefore(t, k)
           \/ AtbAfter(t)
           \/ \E k \in Kernels \cap config.runs : LaunchKernel(t, k)
           \/ RegisterHash(t)
           \/ \E key \in Keys : TaskInfo(t, key)
           \/ KernelReturn(t)

Next == \/ \E t \in Threads : Host(t)
        \/ \E key \in Keys : OtherTask(key) \/ StartTask(key) \/ FinishTask(key)
        \/ Read \/ HandleLog
        \/ AclFinalize \/ SwitchTracing
        \/ WatcherWatch \/ WatcherRemove

\* The device runs the tasks it is given, and the reader's loop runs until the process
\* exits.  Nothing is assumed of the application.
Fairness == /\ \A key \in Keys : WF_vars(StartTask(key)) /\ WF_vars(FinishTask(key))
            /\ WF_vars(Read) /\ WF_vars(HandleLog)

Spec == Init /\ [][Next]_vars /\ Fairness

------------------------------------------------------------------------------------
\* Properties

Entry == [key : Keys \cup {NoKey}, name : Kernels \cup {NoName}, launch : 1..MaxCalls]

\* The type invariant; among others, a thread has no more entries than it made launches.
TypeOK ==
    /\ linker.known \subseteq Kernels
    /\ \A t \in Threads : linker.last[t] \in Kernels \cup {NoName}
    /\ \A t \in Threads : Seqs!ToSet(linker.entries[t]) \subseteq Entry
    /\ watch.cmd \cup watch.python \subseteq
           Tensors \cup UNION {Seqs!ToSet(Outputs(i)) : i \in Items}
    /\ \A i \in Items : watch.count[i] \in 0..MaxCalls
    /\ \A tensor \in DOMAIN watch.nums : watch.nums[tensor] \in Unlimited..MaxDumps
    /\ watch.repeat \subseteq Threads
    /\ tracing \in BOOLEAN /\ trace \in {"none", "on", "ended"}
    /\ \A t \in Threads : host[t].pc \in {"out", "launched", "told"}
    /\ Len(buffer) < BufferLogs
    /\ spoiled \subseteq Keys

\* A row with a name carries the name of the kernel that was launched, or that the device
\* ran, as this task: the launches of two threads may interleave, tasks of one stream may
\* wait behind those of another, and the logs come long after the launch returned.
\* Excepted are keys whose end was lost and keys that were given to a launch too soon: while
\* another thread had them in the table or the logs of a copy, say, were not read
\* (GetKernelName, RuntimeTaskInfoLaunch).
RowsNameTheirLaunch ==
    \A row \in reported : row.key \in spoiled \/ row.name \in {NoName, row.ran}

Tracked(n) == \E t \in Threads : \E e \in Seqs!ToSet(linker.entries[t]) :
                  e.launch = n /\ e.key # NoKey

SpoiledLaunch(n) == \E t \in Threads : \E e \in Seqs!ToSet(linker.entries[t]) :
                        e.launch = n /\ e.key \in spoiled

\* The entry of a launch that became a task leaves the table in the end, whatever is traced
\* by then, unless its key was spoiled or aclFinalize stopped the logging: the table does
\* not grow with the kernels that run (KernelEndExcute asks for the name before it looks at
\* the tracing status).
KernelsLeaveTheTable ==
    \A n \in 1..MaxCalls : Tracked(n) ~> (~Tracked(n) \/ SpoiledLaunch(n) \/ trace = "ended")

\* Dumps that are numbered by the calls of their operator or kernel never get the same file
\* name: none overwrites an earlier one.  Not numbered so are the dump that opens the
\* window and that of an end whose begin was not seen (BeginExcute, EndExcute).
DumpsKeepApart == overwritten = {}
====================================================================================
