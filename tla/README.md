# msmemscope in TLA+

msmemscope records what an Ascend NPU application does with device memory. It is
preloaded into the application: hooks around the driver, the frameworks' memory
pools, ATB operators, mstx marks and the Python API turn each call into a
*record*; `EventHandler` (`src/csrc/framework/process.cpp`) turns records into
*events*, keeps the events of every block in use in a cache, lets analyzers look
at them, and writes the rows of a block when the block is freed. This directory
holds a specification of that program, small instances that TLC checks, and
theorems that TLAPS proves.

Paths below are relative to `src/csrc/` unless they begin with `docs/`.

## 1. The system

    application thread(s)
      |  halMemAlloc/Free, pool callbacks, operators, start()/stop()
      v
    hooks  --->  EventReport  --->  Process::RecordHandler
    (event_trace/*)  filters,        |            |
                     record ids      v            v
                               EventHandler    HalAnalyzer, MstxAnalyzer,
                                |   ^   |      PyStepManager, StepInnerAnalyzer
             AddEvent, GetState |   |   | DispatchEvent(event, state)
             DeteleState        v   |   v
                       MemoryStateManager  EventDispatcher -> Inefficient,
                        (the cache)          Decompose, Dump -> files

There is no thread of the tool's own on this path: every call runs on the
application's thread that made it, to the end of `EventHandler`, and several
application threads may be inside it at the same time.

| component | state | operations | what makes it correct |
|---|---|---|---|
| Memory state cache `analysis/memory_state_manager` | `poolsMap_`: pool, (pid, address) -> events, size, allocation id; `count` | AddEvent, GetState, DeteleState, GetAllStateKeys | an event joins the block it belongs to; an id names one block |
| Event handler `framework/process` | none of its own | EventHandler: retry, loops over all keys, dispatch, delete | every event reaches the output once |
| Event reports `event_trace/event_report` | `recordIndex_`, `halPtrs_`, `stepInfo_`, kernel index | one Report* per record type, IsNeedSkip | a record per call that passes the filters; driver frees only of addresses that were reported |
| Trace status `event_trace/trace_manager` | `status_`, `aclInit_`, configuration | SetTraceStatus, IsTracingEnabled, ShouldTraceType, SetConfig | nothing of a session survives into the next |
| Driver hooks `event_trace/hal_hooks` | none | halMemAlloc/Free/Create/Release | report after the driver's answer |
| Output `analysis/dump`, `data_handler`, `utility/file` | one handler per device, shared events | EventHandle, WriteToFile, WritePublicEventToFile | device-less events reach every file |
| Dispatcher `analysis/event_dispatcher` | subscribers by type and priority | Subscribe, UnSubscribe, DispatchEvent | analyzers see an event before Dump writes it |
| Steps `analysis/{py_step_manager,mstx_analyzer,stepinner_analyzer}` | current step per device, allocations per step, gap extremes | RecordPyStep, RecordMstx, Record | a leak candidate is a block that outlives its steps |
| Driver leaks `analysis/hal_analyzer` | `memtables_` | RecordMalloc, RecordFree, CheckLeak | one entry per allocation in use |
| Inefficiency `analysis/inefficient_analyzer` | api id, open operator, pending events per pid | EventHandle, ClassifyEventsTmp | a block is classified by the operators around its accesses |
| Decompose `analysis/decompose_analyzer` | owner strings in the cache's states | InitOwner, UpdateOwner | the most specific owner wins |
| Pool tracers `event_trace/memory_pool_trace` | regions, totals per device | Allocate, Deallocate, Reallocate, Release | totals are the sizes of the registered regions |
| Kernel launches `event_trace/kernel_hooks` | launches per thread without a key, names by key | KernelLaunch, RuntimeTaskInfoLaunch, GetKernelName | a key gets the name of its own launch |
| ATB hooks, mstx hooks | watched operator | reports of operators, accesses, marks | reports what is configured |
| Memory watch `event_trace/memory_watch` | watched window, tensors, dump counts | OpExcuteBegin/End, KernelExcuteBegin/End, Dump | dumps from the first to the last watched operator |
| Snapshot comparison `analysis/memory_compare` | lines of two files, by device | RunComparison: MyersDiff, BuildDiff | a shortest alignment, with the size of the pool record that follows each launch |
| Command line `framework/{client_parser,command,process}`, `utility/json_manager` | the configuration, the file that carries it | ParseUserCommand, DoUserCommand, SetConfig, GetConfig | a process begins with the whole configuration |
| Python interface and package | configuration, registered hooks | config, start, stop, watch, step | analyzers and collectors follow the configuration |
| Describe, Python trace | stacks per thread | describe/undescribe, call/return | balanced stacks |

How they interact: by calls on the reporting thread, and by the shared singletons
named in the table. `MemoryStateManager`, `EventReport` (for `halPtrs_` and the step
marks), `StepInnerAnalyzer`, the pool tracers and the file layer have locks;
`Dump`'s maps, `HalAnalyzer`, `InefficientAnalyzer` and `DescribeTrace` have none.

What is hard: events that meet a stale or an enclosing block in the cache; the
boundaries of a tracing session, during which the application goes on allocating
unseen; filters that drop one event of a pair; the window between the driver's
free and its report; pointers into the cache used after its lock is released;
Python called under a C++ mutex. The complete list, each at its line, is in
`PROJECT.json` under `hazards`.

## 2. Modules

**MemoryStateManager** is the cache. Its operators are functions of the cache they
are given: `Completed` is what AddEvent writes into an event, `Refuses` its `return
false`, `Receivers` the state an accepted event goes to, `Added` and `Deleted` the
cache afterwards. `FindStateInPool` is a set because the code takes the first hit of an
unordered map. `CreatesDefault` is the entry that `statesMap[key]` creates as a side
effect of looking at the key of a driver free.

**EventPipeline** is one application thread and everything it drives, from the hook to
the rows. An action is one call of the application, to the end of `EventHandler`; the
loops over all keys (`SetTraceStatus`, the manager's destructor) go key by key in any
order, as the hash map yields them.

| variable | code |
|---|---|
| `heap` | the application's blocks; not in the code |
| `status` | `EventTraceManager::status_` |
| `phase`, `cleaning` | where the thread is in a loop over the keys, and the keys left |
| `halPtrs`, `recordIndex` | `EventReport::halPtrs_`, `recordIndex_` |
| `states`, `count` | `MemoryStateManager::poolsMap_`, `MemoryState::count` |
| `written` | the rows passed to `Dump::WriteToFile`, in order |

`HalMemAlloc` and `HalMemFree` stand for `halMemAlloc`/`halMemCreate` and
`halMemFree`/`halMemRelease`, whose reports differ only in the record's fields;
`PoolMalloc` and `PoolFree` for the reports of the four pool tracers; `MemAccess` for
those of ATen and ATB tensors. The filters of `IsNeedSkip` depend on step marks and on the
calling thread's device, which move independently of the blocks: with `Filtered` any
call may be skipped, without it none is (the default configuration).

**BlockHistory** is the promise to the reader of the output, in terms of event ids
only: every event joins one history, and the log consists of whole histories, each
once. `EventPipeline` implements it under the refinement mapping at its end.

**EventThreads** is several threads that allocate and free driver memory, with
`EventHandler` cut at its locks: `HalMemAlloc`/`HalMemFree` are the driver's part of the
hooks, `ReportHalMalloc`/`ReportHalFree` the report (one step: `recordIndex_` is atomic and
`halPtrs_` is read and written once, under its mutex), then AddEvent, the clean-up and the
retry of a refused event, GetState, DispatchEvent and DeteleState are a step each. `ptr` is
the pointer GetState returned with a copy of what it pointed to: when another thread has
deleted the state (`Dangling`), using it writes the old rows or ends the process. It
implements `BlockHistory` where threads do not share blocks.

**StepInnerAnalyzer** is the online leak and fluctuation analysis: per device the table of
blocks (`poolOpTable`, with the step each was allocated in and its `duration`), per pool
the extremes of the allocated total in the step and the best and worst ratio so far. Each
handler is a function of a device's usage, so that `ReceiveStepMsg`, which ends one step
and begins the next, composes the same pieces as the two marks of mstx. `seen` and `gaps`
are history: the totals of the step and the extremes of every step checked, as the report
means them.

**StepTracking** is what feeds it: `EventReport::SetStepInfo`, `ReportMark`,
`ReportPyStepRecord` and `IsNeedSkip`, the mstx entry points, which return id 0 while
tracing is stopped, and the records of the pools with the tracers' totals. A mark is three
steps, because `ReportMark` reads `currentStepId` after `SetStepInfo` has released its lock and
the analysis takes another one; a pool record and `msmemscope.step()` are one, since the
tracer's mutex and Python's lock are held throughout. The analyzer is constructed, and only then
subscribes to marks and steps, by the first pool record (`GetInstance`; `process.cpp:155-158`,
`stepinner_analyzer.cpp:38-48`): until `subscribed` they reach nobody.

**LeakReport** is the promise of the leak analysis: a block of step 2 or later that is
held when a step ends which began after its allocation is reported, and nothing else. Its steps
are those that are `heard` of, after the first record of a pool (`Hear`); one that began before
is step 0 to it. `StepTracking` implements it per device; `fresh` and `older` are the blocks with duration 0
and above.

**EventDispatcher** is the lists of subscribers by event type. **InefficientAnalyzer** and
**DecomposeAnalyzer** are the two analyzers, as functions of the process's `PidState`, the
events of a state with their API numbers, and the owner of a block. An *API* is an operator,
from its START to its END, or a single event outside of any.

**BlockAnalysis** puts them around the cache of `MemoryStateManager`. An action is one call of
the application to the end of `EventHandler`, which folds the handlers of the event over what
they share: `pidStates`, `notes` (the owner, verdicts and API numbers that a `MemoryState`
holds beside its events) and `written`. A handler is called where `subscribers` puts it, so
that the order of analyzers and Dump comes from the priorities and from what `config()` did
to the lists. `apiOf` and `api` are history: the API that each record really belongs to.

**InefficientReport** is the second implementation of the inefficiency analysis,
`src/python/msmemscope/analyzer/inefficient.py`, over the rows of an output file.
`BlockAnalysis` applies it to `written` when the process has exited.

**ClientParser** is what each option of the command line and each argument of `config()` does
to the configuration, **MemoryCompare** the comparison of two output files, both as
functions. **Configuration** is the way of a configuration through a command, the
processes it starts and the processes those start, and what it switches there.

| variable | code |
|---|---|
| `command` | the options read so far; `ClientParser`'s `UserCommand` |
| `comparison` | `MemoryCompare::result_`, with the files it came from |
| `process[p]` | per process: the singletons' configuration and what they made of it: `status_`, the analyzers, Dump's handler and directory, the Python collectors |
| `caller[p][c]` | where the Python thread and the thread in `aclInit` are between the steps of `SetTraceStatus` and `HandleWithATenCollect` |
| `files`, `torn` | the files that `JsonConfig::SaveConfigToJson` writes, those half written |

A process reads the file its environment names (`ReadConfig`); one that reads a torn file ends there. In
`CallAtenCollector` and `CallOptimizerHook` the thread holds the interpreter lock, in `Decide`
it read what they act on: the two threads of a process can be between these steps at once. The
directory of the output is fixed by the first save or the first line of the log, of whatever
level (`MakeOutput`; `utility/log.h:87`). Such a line comes when `EventReport` is built (`Report`;
`event_report.cpp:205`) and at any other moment of a process (`LogLine`): most files of the code
log somewhere.

**KernelLinker** is `RuntimeKernelLinker`, the table from launches to the device's task keys;
**MemoryWatch** the window of `--watch` and the counts of its dumps, and the calls of `watch()`
and `remove()`. **Launches** puts around them the hooks of the runtime and ATB on the host's
threads, the device that queues, begins and ends tasks in the order the hardware chooses, the
channel of its logs and the thread that reads them, a buffer at a time
(`kernel_event_trace.cpp`). A read that fills the buffer is taken for an error and its logs are lost;
keys are used again; tracing is switched and `aclFinalize` ends the logging at any moment.

**PoolTrace** is the four tracers of memory pools as functions of one tracer; **DumpFiles** the
files of `Dump`, with the events of no device that all of them share; **HalAnalyzer** the leak
table of the driver's blocks. **Output** composes them with the cache of
`MemoryStateManager`: threads that allocate driver memory and make marks, pools that register
heaps and regions, a controller that starts, stops and exits. A call has three steps: the
hook, the gate of the report, and `RecordHandler`. Two calls in `RecordHandler` at once set
`raced`: neither Dump nor HalAnalyzer has a lock, and nothing is claimed any more.

**MCEventPipeline**, **MCEventThreads**, **MCStepTracking**, **MCBlockAnalysis**,
**MCConfiguration**, **MCLaunches** and **MCOutput** give the constants small values.
**MemoryStateManager_proofs**, **EventPipeline_proofs**, **EventThreads_proofs**,
**StepTracking_proofs**, **BlockAnalysis_proofs**, **Launches_proofs**, **Output_proofs** and
**Configuration_proofs** hold the theorems. Definitions called *seeded faults* are not part of the specification: they are
plausible mistakes in the definition that follows them, used to see that each property notices
one.

## 3. What is checked

`Blocks` uses `MCEventPipeline`, `OwnBlocks`, `SharedBlocks` and `AddressReuse` use
`MCEventThreads`, `Inefficiency` uses `MCBlockAnalysis`, `Commands` uses `MCConfiguration`,
`Launches` and `Output` the modules of their names, the others `MCStepTracking`. Deadlock is not
checked: the process exits, and the records, steps or calls of an instance run out.

| run | instance | shows |
|---|---|---|
| `Blocks` | one pool with blocks of sizes 1 and 2 at two addresses, a driver block at one of them, accesses, 4 records, no filter | `TypeOK`, `EmptyWhileStopped`, `MirrorsHeap`, `NothingLost`, `WrittenOnce`, `FreeMatchesMalloc`, `HistoriesAreWhole`, `FreeEndsItsBlock`, `KeepsHistories` |
| `OwnBlocks` | two threads, two blocks each that only they use, 5 records | `NoDangling`, `LifeOfPtr`, `KeepsHistories` |
| `SharedBlocks` | two threads, one block that both use, start and stop at any time, 4 records | `JoinsOnce`, `SwitchClearsCache` |
| `AddressReuse` | two threads, one block that both use, 5 records | *violated*: `LifeOfPtr` |
| `Steps` | one thread, mstx steps, other ranges and `msmemscope.step()` in any order, one pool with two addresses that never becomes empty; no `--steps`, `--steps=2`, `--steps=2,3` | `TableMirrorsPools`, `ExtremeGapsKept`, `CollectsSelectedSteps`, `ReportsLeaks` |
| `OverlappingSteps` | two threads whose step ranges overlap, start and stop at any time | `ListsOpenRanges`, `ReportsLeaks` |
| `Inefficiency` | two blocks of PyTorch's pool, operators and single events, the optimizer's hook, start, stop and config between operators, 6 records, 2 calls from Python, threshold 1 | `EarlyAllocationsFound`, `LateDeallocationsFound`, `IdlenessFound`, `OfflineAgrees`, `ListsInOrder`, `AtenNeverOverrides` |
| `Commands` | a command line of up to two options and the processes it starts, or one started by hand; `config()`, `start()`, `stop()`, `aclInit`, `exec` and `fork`; or two snapshots of up to four launches compared | `TypeOK`, `AnalysesGetTheirEvents`, `SingletonsFollowConfig`, `DiffIsMinimal`, `InheritsConfig`, `CollectorFollowsTracing` |
| `Launches` | two threads, two task keys: launches alone; a watched window; `watch()` and `remove()`; ATB with nothing to watch | `TypeOK`, `RowsNameTheirLaunch`, `DumpsKeepApart`, `KernelsLeaveTheTable` |
| `Output` | two threads and a controller, two devices: driver leaks; sessions and their files; the pools of ATB, of PyTorch under two names, the workspace and MindSpore | `TypeOK`, `TotalsAreRegions`, `SessionsAreWhole`, `HeldBlocksAreListed` |
| `OverlappingSelection` | `--steps=2`, two threads | *violated*: `CollectsSelectedSteps` |
| `EmptiedPool` | `msmemscope.step()`, the pool may become empty | *violated*: `ExtremeGapsKept` |

Bounds of `EventPipeline` and `EventThreads`. `MaxRecords` bounds the records that are
made, not the calls: calls made while tracing is off are unlimited, and so are starts and
stops. Four records let a block be allocated, accessed and freed with another block's event
in between, or two sessions see a block each. Two addresses with sizes 1 and 2 give blocks
that are equal, nested, adjacent and reused at a different size, which is all that
`FindStateInPool` distinguishes; the driver's block shows that equal addresses in different
pools do not meet. The rows are a sequence and never collapse. Filters are left to the proofs
(`TypeCorrect` and `NoRecordLost` hold with them). Two threads are all that any of the races
needs; five records are a MALLOC and FREE of one block, a MALLOC and FREE of its successor
and one more. In `EventThreads` a call may begin while `recordIndex < MaxRecords`, so that
each thread can go one beyond the bound.

Bounds of `StepTracking`. `MaxStep` is 4 in `Steps`: step 1 is skipped, step 2 allocates,
step 3 is the first whose end can report, and the fourth meets what was reported before.
Two addresses give totals of one and two blocks, so ratios below and equal to 1, and blocks
freed and allocated again in any step. Where several threads and stops multiply the orders,
one address and three steps suffice.

Bounds of `BlockAnalysis`. Two blocks are what a verdict needs: the block judged and one that
is freed or allocated meanwhile. Six records are, for instance, an operator (two records) that
frees the other block between a block's MALLOC and its access, or a MALLOC, an
access, an operator around the other block's MALLOC and the FREE. The threshold is 1, for 3000
in the code: API numbers reach 6, so distances below, at and above it occur. The second
pool's operators have a `PidState` of their own and share nothing with the first's; the
instance has none. Two calls from Python stop and restart the session, or turn the analysis
off and on again, with blocks in the cache.

Bounds of `Configuration`. Two options show every pair that could undo each other (`--analysis` and
`--events`, say, in both orders), and with one more call a process is configured, started and
asked again. Two processes are a parent and a child, by `exec` or by `fork`. At most two steps
may be selected (5 in the code), depths end at 5 (1000), a bit set has 2 slots (32): one below,
at and above each limit is among the options. The compared files are all pairs of up to two
lines, or up to three launches, of two operators, and some longer or odd ones; a pool row lies
between launches.

Bounds of `Launches`. Each of the four settings allows what its question needs: two launches on two
threads meet in the table; three calls of one operator number its dumps past the first; two
keys are needed for one to be reused while the other is queued. Three logs fill the buffer, so that
reads of one and two logs occur, some ending in the middle of a task, and reads that are lost. In the
first setting a copy may take a key whose logs are read when a kernel has it already. No symmetry is used, since `KernelsLeaveTheTable` is a
liveness property.

Bounds of `Output`. Two blocks at different addresses on two devices; five calls are two lives of one
address and half of another's, so that an address is allocated again before its free is
reported. One or two switches give two sessions, and a third where one thread's marks are all
there is. Two instances of a pool register heaps and batches of one or two regions on two
devices, and may register again at an address they released. Threads are symmetric.

What the violated runs show:

* `AddressReuse`. The driver gives an address away between `halMemFree` and its report.
  The second block's MALLOC re-inserts an address that is still in `halPtrs_`, the first
  block's late report erases it, and the second block's free is never reported: its MALLOC
  stays in the cache and reaches the output without a FREE.
* `OverlappingSelection`. Threads A and B have a step range open each; A's ends;
  `inStepRange` is now false and nothing of B's step is collected, although it is a
  selected one. `event_report.h:52-54` gives this very order as the reason for keeping
  a list of ranges.
* `EmptiedPool`. In `UpdateAllocated` and `CheckGap` the value 0 stands for "nothing
  recorded yet"; a pool that is empty for a moment makes it a real value, and the next total
  or the next step overwrites the minimum. With a block that is never freed
  (`KeepsWeights`, as in `Steps`) the extremes are right.

Where the properties end. Their conditions are part of what they say; without them:

* `HistoriesAreWhole` leaves allocation id 0 out. Driver blocks that are allocated in one
  session and freed in the next find an empty cache but their address in `halPtrs_`; every
  such FREE gets the default state that its own lookup creates, with id 0
  (`memory_state_manager.cpp:58`).
* `FreeEndsItsBlock` needs that no call is filtered. When a block's free and its
  successor's malloc are skipped by the step filter, the successor's FREE can lie within the
  stale block; it is written with it, but `DeteleState` gets the FREE's own key
  (`process.cpp:270`) and the stale block stays.
* `NoDangling`, `LifeOfPtr` and `KeepsHistories` of `EventThreads` need that threads do not
  share addresses and that no other thread calls start() or stop() meanwhile.
* `CollectsSelectedSteps` is stated for one thread that marks steps, which is what the
  documentation shows. With overlapping ranges two starts may be stamped with one step
  number, and a block allocated between their deliveries then counts as having outlived its
  step.
* `TableMirrorsPools` needs that tracing is never stopped. A range begun while it is stopped has
  id 0 (`mstx_inject.cpp:53`), and when it ends later it passes for the end of a step of
  `msmemscope.step()`, which is listed with range id 0 (`stepinner_analyzer.cpp:440`).
* The verdicts are about whole operators: operators of a pool neither nest nor overlap, and
  start(), stop() and config() are called between them. With two threads the one `isOpStart`
  of a process is closed by whichever operator ends first.
* While the inefficiency analysis is off, events go unjudged and APIs unnumbered. A state that
  has events without API number is not judged any more (`inefficient_analyzer.cpp:168`), so that
  no wrong verdict is given, but verdicts are missing: `EarlyAllocationsFound` and its two
  companions say *exactly* only of processes in which it was never off while tracing,
  `OfflineAgrees` is said only of them.
* "First access" in `docs/zh/memory_analysis.md:327` is the first access of all; the code
  skips those in the API that allocated the block (`inefficient_analyzer.cpp:199-208`), as the
  comment there says. The properties follow the code in this.
* `ReportsLeaks` holds in all these cases, but says then what follows from the marks and
  records that arrived, not from those the program made. Marks and steps before the first pool
  record do not arrive: see section 5.
* `CollectorFollowsTracing` is about calls that no other overlapped (`alone`). Two threads can
  decide in one order and act in the other (`event_trace_manager.cpp:285`), and the collector then
  stays as the slower one left it. A hook of the optimizer that is enabled twice is
  registered twice, and only the second can be removed again: `lostHooks` counts the first.
* `InheritsConfig` is about processes that read a file. One that meets a file half
  written ends there, and one without a file begins with the defaults.
* `SingletonsFollowConfig` speaks of a Dump and a directory that were made after something had been
  configured; of those made before, see section 5. A format changed afterwards is not followed,
  since Dump is built once.
* `RowsNameTheirLaunch` and `KernelsLeaveTheTable` except keys that are `spoiled`: the log of a
  task's end was lost; or two threads had a launch of the same key in the table; or a launch got the
  key of a copy whose logs were still to be read, which are then taken for its own: the end of
  the copy removes the launch's entry.
* `DumpsKeepApart` leaves out the dump that opens the window and that of an end whose begin was
  not seen, which are not numbered. Its theorem needs that no operator has the name of a kernel
  (`NamesDiffer`), as in the run: both are counted and filed under their name alone, so that the
  end of one would be numbered like the end of the other within it.
* `TotalsAreRegions` leaves out the workspace of a device that had two at once (`crowded`):
  `pta_workspace_pool_trace.cpp` replaces the total by the last one.
* `HeldBlocksAreListed` leaves out addresses whose last event was not reported, or whose free was
  reported after the next allocation (`missed`).
* `SessionsAreWhole` and `HeldBlocksAreListed` end when two calls meet in `RecordHandler`.

`TypeOK` of `EventThreads`, `StepTracking` and `BlockAnalysis` describes their variables for the
reader; no run lists it, the other properties of those modules take its place.

Fairness. Of the pipeline no liveness is stated: every call runs to its end on the caller's thread, and
nothing obliges an application to free a block or to stop tracing. What goes on without the
application is the device and the reader of its logs. `Launches` assumes weak fairness of `StartTask` and
`FinishTask` of each key (the device runs the tasks it is given) and of `Read` and `HandleLog` (the
loop in `kernel_event_trace.cpp` runs until the process exits), and nothing of the host's threads.

## 4. What is proved

For all constants that satisfy the modules' named assumptions: any sets of pools, addresses, sizes and devices, any blocks, any
number of records, threads and settings, any options and dictionaries, any number of processes.

| theorem | statement |
|---|---|
| `TypeCorrect` | `Spec => []TypeOK` |
| `NothingCarriedOver` | `Spec => []EmptyWhileStopped` |
| `CacheMirrorsHeap` | `Spec => []MirrorsHeap` |
| `NoRecordLost` | `Spec => []NothingLost`, filters or not |
| `NoRecordTwice` | `Spec => []WrittenOnce` |
| `FreeEndsABlock` | `Spec => FreeEndsItsBlock` |
| `HistoriesKept` | `~Filtered => (Spec => KeepsHistories)`: `EventPipeline` implements `BlockHistory` |
| `HistoriesAreOneBlock` | `Spec => []HistoriesAreWhole` |
| `FreesMatchMallocs` | `Spec => []FreeMatchesMalloc` |
| `EventThreads_proofs!EventsJoinOnce` | `Spec => []JoinsOnce` |
| `EventThreads_proofs!SwitchesClear` | `Spec => []SwitchClearsCache` |
| `EventThreads_proofs!OwnPointersLive` | `Spec => []NoDangling`, threads with addresses of their own |
| `EventThreads_proofs!OwnLifeOfPtr` | `Spec => []LifeOfPtr`, likewise |
| `EventThreads_proofs!OwnHistories` | `Spec => KeepsHistories`, likewise: overlapping threads implement `BlockHistory` |
| `StepTracking_proofs!TypeCorrect` | `Spec => []TypeInv` |
| `StepTracking_proofs!LeaksReported` | `Spec => ReportsLeaks`: every device's analysis implements `LeakReport`, whose steps are those heard of |
| `StepTracking_proofs!StepsListed` | `Spec => []ListsOpenRanges` |
| `StepTracking_proofs!SelectionCollected` | `Spec => []CollectsSelectedSteps`, one thread, never stopped |
| `StepTracking_proofs!TablesMirrorPools` | `Spec => []TableMirrorsPools`, never stopped |
| `StepTracking_proofs!ExtremesReported` | `Spec => []ExtremeGapsKept`, pools that never become empty |
| `BlockAnalysis_proofs!ListsOrdered` | `Spec => []ListsInOrder` |
| `BlockAnalysis_proofs!ClassesKept` | `Spec => AtenNeverOverrides` |
| `BlockAnalysis_proofs!EarlyFound` | `Spec => []EarlyAllocationsFound` |
| `BlockAnalysis_proofs!LateFound` | `Spec => []LateDeallocationsFound` |
| `BlockAnalysis_proofs!IdleFound` | `Spec => []IdlenessFound` |
| `BlockAnalysis_proofs!OfflineConfirms` | `Spec => []OfflineAgrees` |
| `Launches_proofs!LaunchesTypes` | `Spec => []TypeOK` of `Launches` |
| `Launches_proofs!RowsNamed` | `Spec => []RowsNameTheirLaunch` |
| `Launches_proofs!DumpsApart` | `Spec => []DumpsKeepApart`, names that differ |
| `Output_proofs!WellFormed` | `Spec => []TypeOK` of `Output` |
| `Output_proofs!LeaksAreHeldBlocks` | `Spec => []HeldBlocksAreListed` |
| `Output_proofs!FilesAreWhole` | `Spec => []SessionsAreWhole` |
| `Output_proofs!TotalsAreHeld` | `Spec => []TotalsAreRegions` |
| `Configuration_proofs!ConfigurationTypes` | `Spec => []TypeOK` of `Configuration` |
| `Configuration_proofs!ConfigurationsComplete` | `Spec => []AnalysesGetTheirEvents` |
| `Configuration_proofs!SingletonsFollow` | `Spec => []SingletonsFollowConfig` |
| `Configuration_proofs!CollectorFollows` | `Spec => CollectorFollowsTracing` |
| `Configuration_proofs!ConfigInherited` | `Spec => InheritsConfig` |

The hypotheses of a theorem are conditions on the program that uses the tool, and a run satisfies
each: `OwnBlocks` has threads with addresses of their own and no start() or stop()
(`OwnAddresses`, `~Switching`), `Steps` has one thread that is never stopped and pools that never
become empty (`OneThread`, `~Stops`, `KeepsWeights`), `Launches` has operators and kernels of
different names (`NamesDiffer`). That the first two groups are needed is what the violated runs show.

`MemoryStateManager_proofs` states what the operators on the cache do: which keys
`Added` and `Deleted` change, whose ids they add and remove (`AddedIds`, `DeletedIds`),
that the rows of a key carry the ids and the allocation id of its state.
`EventPipeline_proofs` builds on it in four layers.

1. *Types.* `HandleMemoryEvent` is a nest of LETs over a choice of receiver; the lemma
   `Handling` opens it once, for everything that follows.
2. *Mirror.* `MirrorsHeap` is not inductive alone. A free that is not reported must not
   leave a cached MALLOC behind: in a pool that cannot happen while tracing is on; while
   it is off the cache must be empty (`EmptyWhileStopped`), for which the loops must
   reach every key (`LoopCovers`); and a driver free goes unreported unless its address
   is in `halPtrs_`, so every cached driver block must have its address there
   (`HalStates`). `HeapInv`, the conjunction of these with `TypeOK`, is inductive.
3. *Ids.* `HandleMemoryEvent` moves ids from the cache to the output and adds that of its
   event (`HandlingIds`), `CleanUp` only moves them: so `IdInv` is inductive whatever the
   filters do, and `NothingLost` follows with `LoopCovers` at the end of the process. That
   none is written twice needs that a FREE goes to the state whose key is then deleted
   (`FreeIsOwn`). A pool's FREE whose block has no state of its own would go to one that
   encloses it: `NoStrayFree` excludes that, and its step rests on `HeapDisjoint` (the
   application's blocks do not overlap), `EmptyWhileStopped` and `LoopCovers`. With filters
   `NoStrayFree` fails: see section 3.
4. *Allocation ids.* States have distinct ids in `1 .. count` between two events; only the
   default entry of a driver free has id 0, and its own event deletes it
   (`AddedAllocation`). With `FreeIsOwn`, the rows a step writes belong to a state that
   the step removes.

The refinement comes on top of the four layers. Under the mapping the open
histories are a set, so that two keys must not share one: `IdInv` says that no id is cached
twice. `HandlingJoins` goes through what `EventHandler` makes of an event: a refused
MALLOC supersedes, a MALLOC or ACCESS at a free key starts, one at a cached block
continues, a FREE finishes the history at its key or is one of its own. That the FREE deletes the
state that it was written with is again `FreeIsOwn`; without it (with filters) the finished history
would stay open. `CleanUpCloses` is the turn of a loop.

What the rows say is proved with `WholeInv`. A block's rows are written in one go, so
that two things keep them apart from all others: the rows of one key have the shape of a block
(`OneBlock`), which follows from how states begin (`Begun`) and from `FreeIsOwn`; and its id is new in the
output (`IdsSpent`: an id that was written is not in the cache, nor above `count`). A FREE gets
the size of its MALLOC because the cached MALLOC is the block in the heap (`MirrorsHeap`), of which
the FREE comes.

`EventThreads_proofs` has three arguments. For `JoinsOnce`, `JoinInv` says that the events still to be
accepted have ids of their own, and none that is cached; the place of each thread in
`EventHandler` (`PlaceInv`) says which events these are. For `SwitchClearsCache`, `LoopInv` says that what was cached
when the loop began is at a key still to be visited or at the one that is being cleaned up. The third is about threads with addresses of their own and concerns one address at a time:
`Stage` lists where its owner can be between the driver and the cache, and what the heap,
`halPtrs_`, the cache and the thread's pointer are there. `OwnInv` says that every address is at
one of its stages. A step of a thread moves one address to the next stage and leaves every
other where it is (`OnlyAt`): that no other thread's step can reach it is where `OwnAddresses` is used.
`NoDangling`, `LifeOfPtr` and the refinement are read off the stages.

`StepTracking_proofs` begins with what each handler of the analyzer does to one device
(`AnalyzerType`), since `ReceiveStepMsg` is composed of the others. `LeaksReported` needs no more than
types: a handler is `BeginStep`, `EndStep`, an allocation or a free of `LeakReport`, or leaves blocks
and report alone, and touches one device. Only a handler can be about a mark or a step that was heard of:
what is not delivered changes no device (`OnlySubscribed`), and a pool record is, if nothing else, `Hear`
(`PoolSubscribes`). `ListInv` adds that ranges have numbers of their own;
`SelectInv` that with one thread at most one step range is open, which carries the
current number, and that `inStepRange` says whether there is one; `MirrorInv` that the tracer's total is
the analyzer's. `ExtremesInv` says of a pool that the recorded minimum and maximum are those of
the totals seen in the step, once there are any, and likewise of the ratios and the steps
checked: 0 may stand for "nothing recorded" as long as no total is 0.

`BlockAnalysis_proofs` begins with the dispatcher. `Subscribe` and `UnSubscribe` are made of `InsertAt` and
`RemoveFirst` of the community modules; `ListsOK` says of the lists of all event types at once which of
two analyzers and Dump they hold, and in which order, and `ListsInOrder` follows. A list that `ListsOK` describes has
one, two or three subscribers, so that `DispatchEvent` can be given a closed form (`Dispatched`): what
the analyzers make of the note of the event's block and of the state of its pool, and the rows that Dump, last, writes
with that note. `EveryStep` opens each action of `Next` into one of five kinds of step, the report of a
memory event, an operator, an owner, a sweep of `CleanUp` and `config()`, and later invariants are proved by these five.
`BaseInv` adds to types and lists that the cached blocks are in the heap, with allocation ids of their own, that
nothing is cached while tracing is off, and that while it is on InefficientAnalyzer is called unless `unwatched`
says otherwise. `AtenNeverOverrides` concerns one note, and the rows written with it, in one of the five.

The verdicts compare two ways of counting APIs: the analyzer's, which counts only while it is called and
notes a number per event, and the history `api`, `apiOf`, which counts all. `VerdictsInv` relates them by a
function `w` per pool (`Tracks`): `w[a]` is what the analyzer had counted at API `a`. It never decreases,
grows by at most one per API, and is the identity unless `unwatched`; the numbers in `mallocApiTmpId` and
`freeApiTmpId` are those of events that were recorded, and of the latest ones unless some were missed.
The notes of a cached block hold `w` of the APIs of its events, one number per event unless some are missing
(`NumbersOK`). With that a judgement can be compared with the rule (`EarlyIsRight`, `LateIsRight`,
`IdleIsRight`): a larger number means a later API, so a mark that is given is deserved; while
nothing has been missed the converse holds, the fact needed being that the *latest* FREE (or MALLOC) of another API
is enough to decide whether there was any since. A mark must also stay right while the application goes on:
a later event has a later API than all before it (`Continues`), so it is not between two events of a block
already recorded (`StayRight`). `BlocksOK` carries that for the cached blocks and `RowsOK` for those
written, whose events are all in the rows of their allocation id, an id that no cached block has any more.
The five kinds of step then fall into two: the report of a memory event, which extends `w`, one
block and its marks, and the others (`Quiet`), which record nothing.

`OfflineConfirms` compares two programs that work in different orders: the online analyzer sees each event as it
happens, `inefficient.py` sees a file written block by block and sorts it. What they share is the order of the
ids, so the invariant `LogOK` is about a *log*, every record so far as the row it is or will be in the file
(`Filed`), the i-th with id i. Fed to `event_handle` row by row (`Reaches`), the log takes the offline
analysis to a state that agrees with the online one (`Agreement`): pool by pool on the numbers, block by block on
events, their APIs and verdicts, row by row on the verdicts already written. An event keeps the two in step by
comparing the two implementations of a judgement (`SameVerdicts`; the one has `MAX_UINT64` where the other has
`NoApi`), and what has been written never changes, because an allocation id is not used again. `OnceOK` says that
no record is in the file twice or both in the file and in the cache; a sweep keeps that, block after
block (`CleanedInTurn`). When the process has exited nothing is cached (`ExitedOK`): the rows of the file are then
those of the log, as many as there are ids, so that sorting gives the log (`SortedLog`), and the fold of `analyze`
over it ends where the log leads (`FoldReaches`). The sort is modelled by what a stable sort does, each row at the
place after those that come before it (`SortedById`). While the analysis was off, `LogOK` keeps the log
but not the agreement.

`Launches_proofs` proves `RowsNameTheirLaunch` with three invariants. `TypeInv`. `TableInv`: the entries
of a thread are in the order of its launches, a launch number is in one thread's list only, and the
launch a thread is in is its last entry, which has no key yet. `KeyInv`, about the keys that are not spoiled: one thread at most
has entries of a key (`OneThread`); the device's task has its entry, with its
kernel's name or none (`TasksHaveEntries`), and so has every log of a kernel not yet handled
(`LogsHaveEntries`); the end of a task is its last log (`EndsAreLast`); and an older entry of a key
waits for an end that comes before any log of a later task of the key (`EndsComeFirst`,
`EndsToCome`). So the first entry that `GetKernelName` meets is that of the task whose log it
handles. Proving it showed what `spoiled` had missed before: a launch that gets the key of a copy
with logs still to be read. For `DumpsKeepApart`, `FileInv` says that the number of every written file is
at most the count of its item, and `BegunInv` that the end of a call that was begun is still ahead of
all the files of its thread and item: the hooks of ATB and of the runtime may both see the end of a
kernel, but while ATB's call is open the thread is in `repeat` and the runtime's is left out.

`LaunchesTypes` bounds what the model counts: a call takes at most one number of an item and opens at most one launch,
so that the count of an item, together with the threads that are still in a call, stays
below `calls`. It assumes of the constants that the bounds are naturals, that the output of an operator is a
sequence and that `Unlimited` is -1 (`tensor_dumper.cpp:221`).

`Output_proofs` proves `LeakInv`, which `Output` states at its end, inductive. The property excuses an
address while any call on it is under way; but a step may end that call, so the invariant must say
which call excuses which half. `ListFollowsHeap` does: an allocated address is listed unless its
MALLOC is still under way, a listed one is allocated unless its FREE is. The late report of a
FREE would break it when the address is in use again, which is what `missed` records; that it
is recorded there, at the moment the address is handed out, needs `MallocHoldsItsBlock`: a
MALLOC under way has its block, and no second thread is about to report one for the same
address. `TypeOK` gives the calls their shape. The lemmas follow the table: what a record of
each type does to the list at its address and at others.

Much of `Output` is folds: over the keys and rows that are cleaned up, the regions of a batch, the
records it makes, and the sums of `TotalsAreRegions`. The library's induction theorems take an operator, which
the provers cannot instantiate; `MemoryStateManager_proofs` therefore derives induction up to a number, with a
set for the property, from the least counterexample (`InductionTo`, by `WFMin`), and from it that a
`FoldLeft` whose steps stay in a set goes through that set one element at a time (`FoldSteps`). A lemma
about a batch then needs only its single step: `DumpStateHolds`, `ReallocateSteps`,
`ReportedHolds`. Sums are handled alike, by the number of elements (`BytesIn`, `BytesOut`).

`FilesAreWhole` rests on `SessionInv`. Dump keeps the rows of no device apart (`shared`) until the
flush that ends the session, so that while it runs no file has any of them (`FileOK`) and `shared` has all of
them, each once and none of an ended session (`SharedOK`); the flush appends them all. That a row is there *once* needs
that the numbers of records differ, of rows as of calls still under way (`NumbersOK`); that every
row and event has a device or none, needs the types of tracers and clients (`PoolsOK`) and of calls (`CalledOK`).

`TotalsAreHeld` adds `PoolTotals`: the tracer of a pool knows the region of every entry that a client
holds, by its key, and its totals are the sums of these entries (`Mirrors`, for ATB's heaps `MirrorsHeaps`).
A region that is given up must be one of them and no other client's, hence `ClientsApart`: an address is held
once, and a client has what it holds through the tracer of its one domain. For the workspace, whose total is
its last region, the induction over a batch needs that no two regions meet on the device at any point of it, which `crowded`
after the batch says.

`Configuration_proofs` proves `EventsInv`, stated at the end of `Configuration`, inductive. No
parser adds an event that does not exist (`ParsersKeepProper`) and `SetConfigImpl` completes
whatever it is given (`ImplCompletes`). The rest is about who can hand on a configuration that
`SetConfigImpl` has not seen. `config()` changes the configuration and writes the file in a later step, so that a
caller between the two must belong to a process that has its configuration
(`CallersAreLoaded`); and a process that is up while options are still being read would begin
with half a command line (`OptionsComeFirst`).

The other theorems about `Configuration` rest on `LocalInv`, which speaks of one process and its two callers
at a time. `Once` says that the format and the directory are those of the configuration, or
older than any - the first line of the log may have come at any moment, so that every action which reports
must be shown to leave a directory already made alone, and to make one from the configuration in force; `Called` that a call that is alone has no other beside it; `Switched` how far the collector
and the hook have come at each place of a call that is alone, and that the value it read in `Decide`
is still the one wanted. A step of another caller would disturb `Switched`, but then the call is not
alone. `Settles` is what `CollectorFollows` needs of the last step of a call. `FilesInv` says of every
file that is not torn that it holds its writer's configuration of the moment: `config()` marks
the file torn in the same step in which it changes the configuration, so that a process that reads in between
finds no stale file, and a writer keeps its place and stays loaded.

`ConfigurationTypes` goes through the command line option by option: a parser replaces
its own part of the configuration by something of its type, or fails, and only `--steps` touches the steps. Its loop over
the words is a function of the position (`ParseSelectSteps`), and that at most
`MaxSteps` are taken is shown by induction on it. `Merged` takes each field from one of two configurations. What an option
or a key may be given (`Fits`) is an assumption: a format is one of the formats, a list is a list. A
word is any string or `Empty`.

Left to TLC:

* `KernelsLeaveTheTable` of `Launches`: liveness under fairness, out of the prover's reach.
* `DiffIsMinimal` of `Configuration` compares a search through a whole list with a reference definition of
  another shape, for every list. The list comes from `SelectSeq` and `SortSeq`, which the prover knows nothing of.

## 5. What is left out

The pid of a key (one process has one), call
stacks and most timestamps, the wrap-around of 64-bit sums (`GetAddResult`). Pool type
INVALID, which AddEvent refuses, is given to no record. The configured event types:
accesses, allocations and frees are taken as configured. Of owners: `userDefinedOwner`,
which is only appended to, and the module names of driver blocks. Of the offline analysis:
the options for a minimal size and for single verdicts, and writing the file back. The
optimizer's hook may fire at any time. Two subscribers' or
Dump's own data races (`EventThreads` takes a dispatch as one step). The unlocked read of
`stepInfo_` is a step of its own in `ReportMark`, but its value is never torn. `PROJECT.json`
lists the status of every component.

Not modelled: `describe` and the Python trace, whose stacks concern one thread and whose text is
only copied into rows; the watch of ATen tensors in Python; the text of rows, the database and
the files' splitting at their size; the correction of stream and task numbers by device type;
`take_snapshot()`; which thread waits for which lock. The last is the hazard that matters most of
these: `SetTraceStatus`, `Reallocate` and `Release` call Python under a C++ mutex
(`event_trace_manager.cpp:285`, `pta_caching_pool_trace.cpp:72`).

Differences between code and documentation, or within the code, that the models follow and
no run is spent on:

* The step analysis starts late. `StepInnerAnalyzer` is constructed by the first pool record
  (`process.cpp:155-158`) and subscribes to marks and steps in its constructor
  (`stepinner_analyzer.cpp:38-48`); what came before it has not heard. If the first record comes
  in step 2 of the program or later, its block is entered with step 0 until the next step begins, and
  `SkipCheck` passes over it for good, although the comment there speaks of "step 1 and before"
  (`stepinner_analyzer.cpp:143`). `LeakReport` therefore counts steps heard of.
* The output directory is fixed by the first line of the log. `Log::Printf` builds
  `FileCreateManager` before it looks at the level (`utility/log.h:87`), and `EventReport`'s constructor
  logs (`event_report.cpp:205`). After `stop()` or `start()` and then `config(output=...)` the
  configuration in force names the new directory and the files stay in the default one;
  `docs/zh/memory_profile.md:53` and `:219` say otherwise.
* The comparison's column Allocated Memory is not "kernel调用前后的内存变化", the change of memory from
  before the call to after it (`docs/zh/output_file_spec.md:51`). It is the `size` of the first pool
  record after the launch (`memory_compare.cpp:246`): the bytes of one allocation or one free, both
  positive, even if it comes after later launches. A launch around which nothing was allocated
  may show a value. `DiffIsMinimal` says what the code computes.
* `--log-level` is written to the file but never applied in a process of the application
  (`event_trace_manager.cpp:51-65`; `docs/zh/memory_profile.md:220` says otherwise).
* The names of dumped tensors differ from those in `docs/zh/memory_analysis.md:237`.
* A configuration file read while it is written ends the process (`json_manager.cpp:61`).
* `atb_hooks.cpp:339` and `:346` join with `||` two conditions that the other hooks join with `&&`.
* `OptimizerStepHook.enable` registers once more when it is registered
  (`optimizer_step_hook.py:66`).
* A leak that is listed stays listed when the block is freed later (`stepinner_analyzer.cpp:180`);
  `LeakReport` promises no more.
* Rows of a pool pass the device filter by the device current on the calling thread
  (`event_report.cpp:301`).
* A pool created while tracing is off is never traced (`mstx_inject.cpp:149`).

## 6. Plan

In this order; each module comes with an MC module, a run per question, and proofs
where the property matters for every size.

1. `Locks`: the mutexes and the interpreter lock; deadlock freedom and where it fails.
2. `ThreadStacks`: describe and the Python trace.
