--------------------------------- MODULE MemoryWatch ---------------------------------
(***************************************************************************)
(* memory_watch/: MemoryWatch, which opens a window at the end of the      *)
(* first watched operator and closes it at the end of the last one,        *)
(* TensorMonitor, the tensors watched by --watch and those watched by      *)
(* msmemscope.watcher, and TensorDumper, which writes their contents       *)
(* before and after each operator.                                         *)
(*                                                                         *)
(* A watch is [watched, firstCnt, count, outputId, repeat, cmd, cmdOutput, *)
(* python, nums, names].  An operation that may dump gives the set of      *)
(* [watch, files] it may lead to; a file is the parts of its name:         *)
(* [thread, item, call, of, index, when].                                  *)
(***************************************************************************)
EXTENDS Integers, Sequences
LOCAL INSTANCE FiniteSets
Maps == INSTANCE Functions

CONSTANTS WatchStart, WatchEnd, \* watchConfig.start and .end
          WatchOutput,          \* watchConfig.outputId
          AllOutputs,           \* UINT32_MAX
          Unlimited,            \* a dump count of -1
          NoTarget,             \* the empty name
          Unknown               \* "UNKNWON", the name of a tensor that has none

NewWatch(items) ==
    [watched |-> NoTarget, firstCnt |-> 1, count |-> [i \in items |-> 0],
     outputId |-> WatchOutput, repeat |-> {}, cmd |-> {}, cmdOutput |-> AllOutputs,
     python |-> {}, nums |-> <<>>, names |-> <<>>]

IsInMonitoring(w) == w.cmd # {} \/ w.python # {}

------------------------------------------------------------------------------------
\* TensorDumper and TensorMonitor

GetDumpNums(w, tensor) == IF tensor \in DOMAIN w.nums THEN w.nums[tensor] ELSE Unlimited

GetDumpName(w, tensor) == IF tensor \in DOMAIN w.names THEN w.names[tensor] ELSE Unknown

SetDumpNums(w, tensor, n) ==
    [w EXCEPT !.nums = [t \in DOMAIN @ \cup {tensor} |-> IF t = tensor THEN n ELSE @[t]]]

SetDumpName(w, tensor, name) ==
    [w EXCEPT !.names = [t \in DOMAIN @ \cup {tensor} |-> IF t = tensor THEN name ELSE @[t]]]

DeleteDumpNums(w, tensor) == [w EXCEPT !.nums = Maps!Restrict(@, DOMAIN @ \ {tensor})]
DeleteDumpName(w, tensor) == [w EXCEPT !.names = Maps!Restrict(@, DOMAIN @ \ {tensor})]

AddWatchTensor(w, tensor)    == [w EXCEPT !.python = @ \cup {tensor}]
DeleteWatchTensor(w, tensor) == [w EXCEPT !.python = @ \ {tensor}]

\* The tensors of the Python interface that one Dump reaches: their order is not defined,
\* and the first whose count is used up ends the loop.
Reached(w) ==
    LET usedUp == {t \in w.python : GetDumpNums(w, t) = 0}
    IN  IF usedUp = {} THEN {w.python} ELSE SUBSET (w.python \ usedUp)

\* DumpOneTensor may fail, which changes nothing here: the dump counts all the same.
Counted(w, reached) ==
    [w EXCEPT !.nums = [t \in DOMAIN @ |-> IF t \in reached /\ @[t] > 0 THEN @[t] - 1
                                                                       ELSE @[t]]]

FileOf(label, of, index, when) ==
    [thread |-> label.thread, item |-> label.item, call |-> label.call,
     of |-> of, index |-> index, when |-> when]

\* The tensors of --watch are told apart by their index, those of the Python interface by
\* their name alone.
Dump(w, label, when) ==
    { [watch |-> Counted(w, reached),
       files |-> {FileOf(label, w.watched, i, when) :
                     i \in IF w.cmdOutput # AllOutputs /\ w.cmd # {} THEN {w.cmdOutput}
                                                       ELSE 0..(Cardinality(w.cmd) - 1)}
                 \cup {FileOf(label, GetDumpName(w, t), 0, when) : t \in reached}]
      : reached \in Reached(w) }

NoDump(w) == {[watch |-> w, files |-> {}]}

------------------------------------------------------------------------------------
\* MemoryWatch

Label(t, item, call) == [thread |-> t, item |-> item, call |-> call]

\* Seeded fault: the calls are not counted.
CountOpNameOnce(w, item) == [w EXCEPT !.count[item] = 1]

CountOpName(w, item) == [w EXCEPT !.count[item] = @ + 1]

BeginExcute(w, t, item) ==
    LET counted == CountOpName(w, item)
    IN  IF IsInMonitoring(counted)
        THEN Dump(counted, Label(t, item, counted.count[item]), "before")
        ELSE NoDump(counted)

\* The end of the first target opens the window, unless it is open, and numbers the dump
\* by the windows; the end of the last one dumps once more and closes it.
OpensWindow(w, item) == item = WatchStart /\ w.watched = NoTarget

EndExcute(w, t, item, outputs, outputId) ==
    LET opened == [w EXCEPT !.watched = item, !.firstCnt = @ + 1, !.cmdOutput = outputId,
                            !.cmd = @ \cup outputs]
        label  == Label(t, item, w.count[item])
    IN  CASE OpensWindow(w, item) -> Dump(opened, Label(t, item, w.firstCnt), "after")
          [] ~OpensWindow(w, item) /\ item = WatchEnd ->
                {[d EXCEPT !.watch.watched = NoTarget, !.watch.cmd = {}]
                    : d \in Dump(w, label, "after")}
          [] ~OpensWindow(w, item) /\ item # WatchEnd /\ IsInMonitoring(w) ->
                Dump(w, label, "after")
          [] OTHER -> NoDump(w)

\* The output that is watched: the chosen one, or all of them.  An operator that has fewer
\* outputs changes the choice for good.
WithOutputs(w, t, item, outputs) ==
    IF item # WatchStart THEN EndExcute(w, t, item, {}, AllOutputs)
    ELSE IF w.outputId < Len(outputs)
    THEN EndExcute(w, t, item, {outputs[w.outputId + 1]}, w.outputId)
    ELSE EndExcute([w EXCEPT !.outputId = AllOutputs], t, item, Maps!Range(outputs),
                   AllOutputs)

OpExcuteBegin(w, t, op) == BeginExcute(w, t, op)

OpExcuteEnd(w, t, op, outputs) == WithOutputs(w, t, op, outputs)

\* A kernel that ATB reports itself is not watched a second time when the runtime launches
\* it: between the two reports of ATB the thread's other kernels are left out.
KernelExcuteBegin(w, t, kernel, isOuterLayer) ==
    IF isOuterLayer THEN BeginExcute([w EXCEPT !.repeat = @ \cup {t}], t, kernel)
    ELSE IF t \in w.repeat THEN NoDump(w)
    ELSE BeginExcute(w, t, kernel)

KernelExcuteEnd(w, t, kernel, isOuterLayer, outputs) ==
    IF isOuterLayer
    THEN WithOutputs([w EXCEPT !.repeat = @ \ {t}], t, kernel, outputs)
    ELSE IF t \in w.repeat THEN NoDump(w)
    ELSE WithOutputs(w, t, kernel, outputs)
====================================================================================
