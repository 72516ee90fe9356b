------------------------------- MODULE Launches_proofs -------------------------------
(***************************************************************************)
(* What holds of Launches for every set of threads, task keys, operators   *)
(* and kernels, every size of the read buffer and every number of calls:   *)
(* which launch a row is named for, which file a dump is written to, and   *)
(* how large the table and the counters may get.                           *)
(***************************************************************************)
EXTENDS Launches, SequenceTheorems, FiniteSetTheorems, TLAPS

------------------------------------------------------------------------------------
\* Types

Entries == [key : Keys \cup {NoKey}, name : Kernels \cup {NoName}, launch : Nat]

Linkers == [entries : [Threads -> Seq(Entries)],
            last    : [Threads -> Kernels \cup {NoName}],
            known   : SUBSET Kernels]

HostStates == [op : Ops \cup {NoName}, opBegun : BOOLEAN,
               atb : AtbKernels \cup {NoName}, atbBegun : BOOLEAN,
               pc : {"out", "launched", "told"}, kernel : Kernels \cup {NoName},
               kernelBegun : BOOLEAN]

Tasks == [state : {"idle", "queued", "running"}, kernel : Kernels \cup {NoName},
          launch : Nat]

Logs == [type : {"KERNEL_START", "KERNEL_END"}, key : Keys, ran : Kernels \cup {NoName},
         launch : Nat]

\* A thread is in a launch only with its kernel, while the device logs.
Launched(t) == host[t].pc = "launched"

TypeInv ==
    /\ linker \in Linkers
    /\ host \in [Threads -> HostStates]
    /\ \A t \in Threads : Launched(t) => host[t].kernel \in Kernels /\ trace = "on"
    /\ device \in [Keys -> Tasks]
    /\ \A key \in Keys : device[key].state = "idle" => device[key] = NoTask
    /\ channel \in Seq(Logs) /\ buffer \in Seq(Logs)
    /\ trace \in {"none", "on", "ended"}
    /\ spoiled \in SUBSET Keys
    /\ launches \in Nat

------------------------------------------------------------------------------------
\* What the linker's operations do to its table

LEMMA LaunchEntry ==
    ASSUME NEW l \in Linkers, NEW t \in Threads, NEW n \in Nat
    PROVE  /\ KernelLaunch(l, t, n) \in Linkers
           /\ KernelLaunch(l, t, n).last = l.last
           /\ KernelLaunch(l, t, n).entries =
                  [l.entries EXCEPT ![t] =
                      Append(@, [key |-> NoKey, name |-> NoName, launch |-> n])]
<1> DEFINE e == [key |-> NoKey, name |-> NoName, launch |-> n]
<1>1. e \in Entries
  BY DEF Entries
<1>2. l.entries \in [Threads -> Seq(Entries)]
  BY DEF Linkers
<1>3. KernelLaunch(l, t, n) =
          [l EXCEPT !.entries = [l.entries EXCEPT ![t] = Append(l.entries[t], e)]]
  BY DEF KernelLaunch
<1> HIDE DEF e
<1>4. Append(l.entries[t], e) \in Seq(Entries)
  BY <1>1, <1>2
<1>5. [l.entries EXCEPT ![t] = Append(l.entries[t], e)] \in [Threads -> Seq(Entries)]
  BY <1>2, <1>4
<1> QED BY <1>2, <1>3, <1>5 DEF Linkers, e

\* The last entry of a thread, completed.
Completion(s, key, name) == [s EXCEPT ![Len(s)] = [key |-> key, name |-> name,
                                                   launch |-> s[Len(s)].launch]]

LEMMA CompletedEntry ==
    ASSUME NEW l \in Linkers, NEW t \in Threads, NEW key \in Keys, NEW kernel \in Kernels,
           l.entries[t] # <<>>
    PROVE  LET name == GetHashInfo(l, kernel)
           IN  /\ name \in {NoName, kernel}
               /\ Complete(l, t, key, kernel) \in Linkers
               /\ Complete(l, t, key, kernel).entries =
                      [l.entries EXCEPT ![t] = Completion(@, key, name)]
               /\ Complete(l, t, key, kernel).last = [l.last EXCEPT ![t] = name]
<1> DEFINE name == GetHashInfo(l, kernel)
           s == l.entries[t]
           n == Len(s)
<1>1. name \in {NoName, kernel}
  BY DEF GetHashInfo
<1>2. l.entries \in [Threads -> Seq(Entries)] /\ s \in Seq(Entries)
      /\ l.last \in [Threads -> Kernels \cup {NoName}]
  BY DEF Linkers
<1>3. n \in 1..Len(s) /\ n \in DOMAIN s /\ s[n] \in Entries
  BY <1>2
<1>4. [[s EXCEPT ![n].key = key] EXCEPT ![n].name = name] = Completion(s, key, name)
  <2>1. [[s[n] EXCEPT !.key = key] EXCEPT !.name = name]
            = [key |-> key, name |-> name, launch |-> s[n].launch]
    <3> DEFINE e == s[n]
    <3>1. e \in Entries
      BY <1>3
    <3> HIDE DEF e
    <3>2. [[e EXCEPT !.key = key] EXCEPT !.name = name]
              = [key |-> key, name |-> name, launch |-> e.launch]
      <4>1. e = [key |-> e.key, name |-> e.name, launch |-> e.launch]
        BY <3>1 DEF Entries
      <4>2. [e EXCEPT !.key = key] = [key |-> key, name |-> e.name, launch |-> e.launch]
        BY <4>1
      <4>3. ASSUME NEW f, f = [key |-> key, name |-> e.name, launch |-> e.launch]
            PROVE  [f EXCEPT !.name = name]
                       = [key |-> key, name |-> name, launch |-> e.launch]
        BY <4>3
      <4> QED BY <4>2, <4>3
    <3> QED BY <3>2 DEF e
  <2>2. [[s EXCEPT ![n].key = key] EXCEPT ![n].name = name]
            = [s EXCEPT ![n] = [[s[n] EXCEPT !.key = key] EXCEPT !.name = name]]
    BY <1>2, <1>3
  <2> QED BY <2>1, <2>2 DEF Completion
<1>5. [key |-> key, name |-> name, launch |-> s[n].launch] \in Entries
  BY <1>1, <1>3 DEF Entries
<1>6. Completion(s, key, name) \in Seq(Entries)
  BY <1>2, <1>3, <1>5, ExceptSeq DEF Completion
<1>7. Complete(l, t, key, kernel) =
          [[[l EXCEPT !.entries[t][n].key = key] EXCEPT !.entries[t][n].name = name]
               EXCEPT !.last[t] = name]
  BY DEF Complete
<1> DEFINE new == [l.entries EXCEPT ![t] = Completion(s, key, name)]
<1>8. [[l EXCEPT !.entries[t][n].key = key] EXCEPT !.entries[t][n].name = name]
          = [l EXCEPT !.entries = new]
  BY <1>2, <1>4 DEF Linkers
<1>9. new \in [Threads -> Seq(Entries)]
  BY <1>2, <1>6
<1> HIDE DEF name, new, n
<1>10. [l EXCEPT !.entries = new] \in Linkers /\ [l EXCEPT !.entries = new].entries = new
       /\ [l EXCEPT !.entries = new].last = l.last
  BY <1>9 DEF Linkers
<1>11. Complete(l, t, key, kernel) = [[l EXCEPT !.entries = new] EXCEPT !.last[t] = name]
  BY <1>7, <1>8
<1>12. [l.last EXCEPT ![t] = name] \in [Threads -> Kernels \cup {NoName}]
  BY <1>1, <1>2
<1>13. Complete(l, t, key, kernel) =
          [[l EXCEPT !.entries = new] EXCEPT !.last = [l.last EXCEPT ![t] = name]]
  BY <1>10, <1>11
<1>14. Complete(l, t, key, kernel) \in Linkers
       /\ Complete(l, t, key, kernel).entries = new
       /\ Complete(l, t, key, kernel).last = [l.last EXCEPT ![t] = name]
  BY <1>10, <1>12, <1>13 DEF Linkers
<1> QED BY <1>1, <1>14 DEF new, name

LEMMA RemoveAtType ==
    ASSUME NEW S, NEW s \in Seq(S), NEW i \in 1..Len(s)
    PROVE  /\ Seqs!RemoveAt(s, i) \in Seq(S)
           /\ Len(Seqs!RemoveAt(s, i)) = Len(s) - 1
           /\ \A j \in 1..(Len(s) - 1) :
                  Seqs!RemoveAt(s, i)[j] = IF j < i THEN s[j] ELSE s[j + 1]
<1> DEFINE a == SubSeq(s, 1, i - 1)
           b == SubSeq(s, i + 1, Len(s))
<1>1. a \in Seq(S) /\ Len(a) = i - 1 /\ \A j \in 1..(i - 1) : a[j] = s[j]
  OBVIOUS
<1>2. b \in Seq(S) /\ Len(b) = Len(s) - i /\ \A j \in 1..(Len(s) - i) : b[j] = s[i + j]
  OBVIOUS
<1>3. Seqs!RemoveAt(s, i) = a \o b
  BY DEF Seqs!RemoveAt
<1> HIDE DEF a, b
<1>4. a \o b \in Seq(S) /\ Len(a \o b) = Len(s) - 1
  <2>1. a \o b \in Seq(S) /\ Len(a \o b) = Len(a) + Len(b)
    BY <1>1, <1>2, ConcatProperties
  <2> QED BY <1>1, <1>2, <2>1
<1>5. ASSUME NEW j \in 1..(Len(s) - 1)
      PROVE  (a \o b)[j] = IF j < i THEN s[j] ELSE s[j + 1]
  <2>1. CASE j < i
    BY <1>1, <1>2, <2>1
  <2>2. CASE ~(j < i)
    <3>1. (a \o b)[j] = b[j - (i - 1)]
      BY <1>1, <1>2, <2>2
    <3>2. j - (i - 1) \in 1..(Len(s) - i) /\ i + (j - (i - 1)) = j + 1
      BY <2>2
    <3> QED BY <1>2, <2>2, <3>1, <3>2
  <2> QED BY <2>1, <2>2
<1> QED BY <1>3, <1>4, <1>5

\* Where GetKernelName finds a key, and what the end of the task takes out.
LEMMA PlaceOf ==
    ASSUME NEW l \in Linkers, NEW key, NEW place \in Places(l, key)
    PROVE  /\ place[1] \in Threads /\ place[2] \in 1..Len(l.entries[place[1]])
           /\ l.entries[place[1]][place[2]].key = key
           /\ \A j \in 1..(place[2] - 1) : l.entries[place[1]][j].key # key
<1>1. \A t \in Threads : DOMAIN l.entries[t] = 1..Len(l.entries[t])
  BY DEF Linkers
<1>2. DOMAIN l.entries = Threads
  BY DEF Linkers
<1> QED BY <1>1, <1>2 DEF Places

LEMMA UsedEntry ==
    ASSUME NEW l \in Linkers, NEW key, NEW place \in Places(l, key), NEW type
    PROVE  /\ Used(l, place, type) \in Linkers
           /\ type # "KERNEL_END" => Used(l, place, type) = l
           /\ type = "KERNEL_END" =>
                  Used(l, place, type).entries =
                      [l.entries EXCEPT ![place[1]] = Seqs!RemoveAt(@, place[2])]
<1> DEFINE t == place[1]
           i == place[2]
<1>1. t \in Threads /\ i \in 1..Len(l.entries[t]) /\ l.entries \in [Threads -> Seq(Entries)]
      /\ l.entries[t] \in Seq(Entries)
  BY PlaceOf DEF Linkers
<1> HIDE DEF t, i
<1>2. Seqs!RemoveAt(l.entries[t], i) \in Seq(Entries)
  BY <1>1, RemoveAtType
<1> DEFINE new == [l.entries EXCEPT ![t] = Seqs!RemoveAt(@, i)]
<1>3. new \in [Threads -> Seq(Entries)]
  BY <1>1, <1>2
<1>4. type = "KERNEL_END" => Used(l, place, type) = [l EXCEPT !.entries = new]
  BY DEF Used, t, i, Linkers
<1>5. type # "KERNEL_END" => Used(l, place, type) = l
  BY DEF Used
<1> HIDE DEF new
<1>6. [l EXCEPT !.entries = new] \in Linkers /\ [l EXCEPT !.entries = new].entries = new
  BY <1>3 DEF Linkers
<1> QED BY <1>4, <1>5, <1>6 DEF new, t, i

------------------------------------------------------------------------------------
\* Types are kept

\* Steps that touch neither the table nor the device nor its logs, and start no launch.
Quiet ==
    /\ UNCHANGED traceVars
    /\ \A t \in Threads : Launched(t)' => Launched(t) /\ host[t].kernel = host'[t].kernel

WatcherCalls == WatcherWatch \/ WatcherRemove

LEMMA WatcherQuiet ==
    ASSUME WatcherCalls
    PROVE  UNCHANGED traceVars /\ UNCHANGED host /\ reported' = {}
  BY DEF WatcherCalls, WatcherWatch, WatcherRemove, WatcherStep, Call

LEMMA QuietSteps ==
    ASSUME TypeInv,
           \/ \E t \in Threads : \/ \E op \in Ops : OpBegin(t, op)
                                 \/ OpEnd(t)
                                 \/ \E k \in AtbKernels : AtbBefore(t, k)
                                 \/ AtbAfter(t)
                                 \/ KernelReturn(t)
           \/ SwitchTracing
           \/ WatcherCalls
           \/ UNCHANGED vars
    PROVE  Quiet /\ host' \in [Threads -> HostStates]
<1>1. host \in [Threads -> HostStates]
  BY DEF TypeInv
<1>2. ASSUME NEW t \in Threads, NEW op \in Ops, OpBegin(t, op)
      PROVE  Quiet /\ host' \in [Threads -> HostStates]
  <2>1. PICK b \in BOOLEAN : host' = [host EXCEPT ![t].op = op, ![t].opBegun = b]
    BY <1>2 DEF OpBegin, IsWatching, IsInMonitoring
  <2>2. host' \in [Threads -> HostStates]
    BY <1>1, <2>1 DEF HostStates
  <2>3. \A u \in Threads : host'[u].pc = host[u].pc /\ host'[u].kernel = host[u].kernel
    BY <1>1, <2>1 DEF HostStates
  <2> QED BY <1>2, <2>2, <2>3 DEF OpBegin, Quiet, Launched
<1>3. ASSUME NEW t \in Threads, OpEnd(t)
      PROVE  Quiet /\ host' \in [Threads -> HostStates]
  BY <1>1, <1>3 DEF OpEnd, Quiet, Launched, HostStates, Idle
<1>4. ASSUME NEW t \in Threads, NEW k \in AtbKernels, AtbBefore(t, k)
      PROVE  Quiet /\ host' \in [Threads -> HostStates]
  <2>1. PICK b \in BOOLEAN : host' = [host EXCEPT ![t].atb = k, ![t].atbBegun = b]
    BY <1>4 DEF AtbBefore, IsWatching, IsInMonitoring
  <2>2. host' \in [Threads -> HostStates]
    BY <1>1, <2>1 DEF HostStates
  <2>3. \A u \in Threads : host'[u].pc = host[u].pc /\ host'[u].kernel = host[u].kernel
    BY <1>1, <2>1 DEF HostStates
  <2> QED BY <1>4, <2>2, <2>3 DEF AtbBefore, Quiet, Launched
<1>5. ASSUME NEW t \in Threads, AtbAfter(t)
      PROVE  Quiet /\ host' \in [Threads -> HostStates]
  BY <1>1, <1>5 DEF AtbAfter, Quiet, Launched, HostStates
<1>6. ASSUME NEW t \in Threads, KernelReturn(t)
      PROVE  Quiet /\ host' \in [Threads -> HostStates]
  <2> DEFINE g == [host EXCEPT ![t].pc = "out", ![t].kernel = NoName]
  <2>1. g \in [Threads -> HostStates]
    BY <1>1 DEF HostStates
  <2>2. g[t].pc = "out" /\ \A u \in Threads \ {t} : g[u] = host[u]
    BY <1>1 DEF HostStates
  <2>3. host' = [g EXCEPT ![t].kernelBegun = FALSE]
    BY <1>6 DEF KernelReturn
  <2> HIDE DEF g
  <2>4. host' \in [Threads -> HostStates]
    BY <2>1, <2>3 DEF HostStates
  <2>5. host'[t].pc = "out" /\ \A u \in Threads \ {t} : host'[u] = host[u]
    BY <2>1, <2>2, <2>3 DEF HostStates
  <2> QED BY <1>6, <2>4, <2>5 DEF KernelReturn, Quiet, Launched
<1>7. CASE SwitchTracing
  BY <1>1, <1>7 DEF SwitchTracing, Quiet, Launched
<1>8. CASE WatcherCalls
  BY <1>1, <1>8, WatcherQuiet DEF Quiet, Launched
<1>9. CASE UNCHANGED vars
  BY <1>1, <1>9 DEF vars, traceVars, Quiet, Launched
<1> QED BY <1>2, <1>3, <1>4, <1>5, <1>6, <1>7, <1>8, <1>9

\* Every other step.
Busy == \/ \E t \in Threads, k \in Kernels : LaunchKernel(t, k)
        \/ \E t \in Threads : RegisterHash(t)
        \/ \E t \in Threads, key \in Keys : TaskInfo(t, key)
        \/ \E key \in Keys : OtherTask(key) \/ StartTask(key) \/ FinishTask(key)
        \/ Read \/ HandleLog \/ AclFinalize

LEMMA Steps ==
    ASSUME TypeInv, [Next]_vars
    PROVE  Busy \/ (Quiet /\ host' \in [Threads -> HostStates])
<1>1. CASE Next
  BY <1>1, QuietSteps DEF Next, Host, Busy, WatcherCalls
<1>2. CASE UNCHANGED vars
  BY <1>2, QuietSteps
<1> QED BY <1>1, <1>2

LEMMA LogType ==
    ASSUME TypeInv, NEW key \in Keys, NEW type \in {"KERNEL_START", "KERNEL_END"}
    PROVE  Log(type, key) \in Logs /\ Logged(Log(type, key)) \in Seq(Logs)
<1>1. device[key] \in Tasks /\ channel \in Seq(Logs)
  BY DEF TypeInv
<1>2. Log(type, key) \in Logs
  BY <1>1 DEF Log, Logs, Tasks
<1> QED BY <1>1, <1>2 DEF Logged

LEMMA LastEntry ==
    ASSUME NEW S, NEW s \in Seq(S), s # <<>>
    PROVE  /\ Len(s) \in Nat \ {0} /\ Len(s) \in DOMAIN s
           /\ Seqs!Last(s) = s[Len(s)] /\ Seqs!Last(s) \in S
  BY DEF Seqs!Last

LEMMA TypeInvStep == TypeInv /\ [Next]_vars => TypeInv'
<1> SUFFICES ASSUME TypeInv, [Next]_vars PROVE TypeInv'
  OBVIOUS
<1>0. /\ linker \in Linkers /\ host \in [Threads -> HostStates]
      /\ \A t \in Threads : Launched(t) => host[t].kernel \in Kernels /\ trace = "on"
      /\ device \in [Keys -> Tasks]
      /\ \A key \in Keys : device[key].state = "idle" => device[key] = NoTask
      /\ channel \in Seq(Logs) /\ buffer \in Seq(Logs)
      /\ trace \in {"none", "on", "ended"}
      /\ spoiled \in SUBSET Keys
      /\ launches \in Nat
  BY DEF TypeInv
<1>1. ASSUME Quiet, host' \in [Threads -> HostStates] PROVE TypeInv'
  BY <1>0, <1>1 DEF Quiet, traceVars, TypeInv, Launched
<1>2. ASSUME NEW t \in Threads, NEW k \in Kernels, LaunchKernel(t, k) PROVE TypeInv'
  <2>1. launches + 1 \in Nat /\ launches' = launches + 1
    BY <1>0, <1>2 DEF LaunchKernel
  <2>2. linker' \in Linkers
    BY <1>0, <1>2, <2>1, LaunchEntry DEF LaunchKernel
  <2>3. host' \in [Threads -> HostStates]
    BY <1>0, <1>2 DEF LaunchKernel, HostStates
  <2>4. trace' = "on"
    BY <1>0, <1>2 DEF LaunchKernel, StartKernelEventTrace
  <2>5. host'[t].kernel = k /\ \A u \in Threads \ {t} : host'[u] = host[u]
    BY <1>0, <1>2 DEF LaunchKernel, HostStates
  <2>6. UNCHANGED <<device, channel, buffer, spoiled>>
    BY <1>2 DEF LaunchKernel
  <2> QED BY <1>0, <2>1, <2>2, <2>3, <2>4, <2>5, <2>6 DEF TypeInv, Launched
<1>3. ASSUME NEW t \in Threads, RegisterHash(t) PROVE TypeInv'
  <2>1. host[t].kernel \in Kernels
    BY <1>0, <1>3 DEF RegisterHash, Launched
  <2>2. linker' = [linker EXCEPT !.known = linker.known \cup {host[t].kernel}]
    BY <1>3 DEF RegisterHash, SetHashInfo
  <2>3. linker' \in Linkers
    BY <1>0, <2>1, <2>2 DEF Linkers
  <2>4. UNCHANGED <<trace, host, device, channel, buffer, spoiled, launches>>
    BY <1>3 DEF RegisterHash
  <2> QED BY <1>0, <2>3, <2>4 DEF TypeInv, Launched
<1>4. ASSUME NEW t \in Threads, NEW key \in Keys, TaskInfo(t, key) PROVE TypeInv'
  <2> DEFINE last == Seqs!Last(linker.entries[t])
  <2>1. host[t].kernel \in Kernels /\ trace = "on"
    BY <1>0, <1>4 DEF TaskInfo, Launched
  <2>2. linker.entries[t] # <<>> /\ linker.entries[t] \in Seq(Entries)
    BY <1>0, <1>4 DEF TaskInfo, Completes, Linkers
  <2>3. last \in Entries
    BY <2>2, LastEntry
  <2>4. linker' \in Linkers
    BY <1>0, <1>4, <2>1, <2>2, CompletedEntry DEF TaskInfo
  <2>5. device' = [device EXCEPT ![key] = [state |-> "queued", kernel |-> host[t].kernel,
                                           launch |-> last.launch]]
    BY <1>4 DEF TaskInfo
  <2>6. device' \in [Keys -> Tasks]
        /\ \A k \in Keys : device'[k].state = "idle" => device'[k] = NoTask
    BY <1>0, <2>1, <2>3, <2>5 DEF Tasks, Entries
  <2>7. PICK b \in BOOLEAN : host' = [host EXCEPT ![t].pc = "told", ![t].kernelBegun = b]
    BY <1>4 DEF TaskInfo, IsWatching, IsInMonitoring
  <2>8. host' \in [Threads -> HostStates]
    BY <1>0, <2>7 DEF HostStates
  <2>9. host'[t].pc = "told" /\ \A u \in Threads \ {t} : host'[u] = host[u]
    BY <1>0, <2>7 DEF HostStates
  <2>10. spoiled' \in SUBSET Keys
    BY <1>0, <1>4 DEF TaskInfo
  <2>11. UNCHANGED <<trace, channel, buffer, launches>>
    BY <1>4 DEF TaskInfo
  <2> QED BY <1>0, <2>4, <2>6, <2>8, <2>9, <2>10, <2>11 DEF TypeInv, Launched
<1>5. ASSUME NEW key \in Keys, OtherTask(key) PROVE TypeInv'
  <2>1. device' = [device EXCEPT ![key].state = "queued"]
    BY <1>5 DEF OtherTask
  <2>2. device' \in [Keys -> Tasks]
        /\ \A k \in Keys : device'[k].state = "idle" => device'[k] = NoTask
    BY <1>0, <2>1 DEF Tasks
  <2>3. UNCHANGED <<linker, host, trace, channel, buffer, spoiled, launches>>
    BY <1>5 DEF OtherTask
  <2> QED BY <1>0, <2>2, <2>3 DEF TypeInv, Launched
<1>6. ASSUME NEW key \in Keys, StartTask(key) PROVE TypeInv'
  <2>1. device' = [device EXCEPT ![key].state = "running"]
    BY <1>6 DEF StartTask
  <2>2. device' \in [Keys -> Tasks]
        /\ \A k \in Keys : device'[k].state = "idle" => device'[k] = NoTask
    BY <1>0, <2>1 DEF Tasks
  <2>3. channel' \in Seq(Logs)
    BY <1>6, LogType DEF StartTask
  <2>4. UNCHANGED <<linker, host, trace, buffer, spoiled, launches>>
    BY <1>6 DEF StartTask
  <2> QED BY <1>0, <2>2, <2>3, <2>4 DEF TypeInv, Launched
<1>7. ASSUME NEW key \in Keys, FinishTask(key) PROVE TypeInv'
  <2>1. device' = [device EXCEPT ![key] = NoTask]
    BY <1>7 DEF FinishTask
  <2>2. device' \in [Keys -> Tasks]
        /\ \A k \in Keys : device'[k].state = "idle" => device'[k] = NoTask
    BY <1>0, <2>1 DEF Tasks, NoTask
  <2>3. channel' \in Seq(Logs)
    BY <1>7, LogType DEF FinishTask
  <2>4. UNCHANGED <<linker, host, trace, buffer, spoiled, launches>>
    BY <1>7 DEF FinishTask
  <2> QED BY <1>0, <2>2, <2>3, <2>4 DEF TypeInv, Launched
<1>8. CASE Read
  <2>1. PICK n \in 1..Len(channel) :
            /\ channel' = SubSeq(channel, n + 1, Len(channel))
            /\ \/ spoiled' = spoiled \cup {log.key : log \in Seqs!ToSet(SubSeq(channel, 1, n))}
                  /\ buffer' = buffer
               \/ buffer' = SubSeq(channel, 1, n) /\ spoiled' = spoiled
    BY <1>8 DEF Read
  <2>2. channel' \in Seq(Logs) /\ SubSeq(channel, 1, n) \in Seq(Logs)
    BY <1>0, <2>1
  <2>3. {log.key : log \in Seqs!ToSet(SubSeq(channel, 1, n))} \subseteq Keys
    BY <2>2 DEF Seqs!ToSet, Logs
  <2>4. UNCHANGED <<linker, host, trace, device, launches>>
    BY <1>8 DEF Read
  <2> QED BY <1>0, <2>1, <2>2, <2>3, <2>4 DEF TypeInv, Launched
<1>9. CASE HandleLog
  <2>1. buffer' \in Seq(Logs)
    BY <1>0, <1>9 DEF HandleLog
  <2>2. linker' \in Linkers
    <3>1. ASSUME NEW place \in Places(linker, Head(buffer).key),
                 linker' = Used(linker, place, Head(buffer).type)
          PROVE  linker' \in Linkers
      BY <1>0, <3>1, UsedEntry
    <3> QED BY <1>0, <1>9, <3>1 DEF HandleLog
  <2>3. UNCHANGED <<host, trace, device, channel, spoiled, launches>>
    BY <1>9 DEF HandleLog
  <2> QED BY <1>0, <2>1, <2>2, <2>3 DEF TypeInv, Launched
<1>10. CASE AclFinalize
  <2>1. \A t \in Threads : ~Launched(t)
    BY <1>10 DEF AclFinalize, Launched, Idle
  <2>2. UNCHANGED <<linker, host, device, channel, buffer, spoiled, launches>>
        /\ trace' = "ended"
    BY <1>10 DEF AclFinalize, EndKernelEventTrace
  <2> QED BY <1>0, <2>1, <2>2 DEF TypeInv, Launched
<1> QED
  BY <1>1, <1>2, <1>3, <1>4, <1>5, <1>6, <1>7, <1>8, <1>9, <1>10, Steps DEF Busy

------------------------------------------------------------------------------------
\* The table and the logs, together

Held(t) == Seqs!ToSet(linker.entries[t])

\* The logs that are still to be handled, in their order.
Pending == buffer \o channel

InOrder(s) == \A i, j \in DOMAIN s : i < j => s[i].launch < s[j].launch

\* The entries of a thread are in the order of their launches; the launch that a thread is
\* in is its last entry, whose task is not known.
TableInv ==
    /\ trace = "none" => \A t \in Threads : linker.entries[t] = <<>>
    /\ \A t \in Threads : \A i \in DOMAIN linker.entries[t] :
           linker.entries[t][i].launch \in 1..launches
    /\ \A t \in Threads : InOrder(linker.entries[t])
    /\ \A t, u \in Threads : \A e \in Held(t), f \in Held(u) :
           e.launch = f.launch => t = u
    /\ \A t \in Threads :
           Launched(t) => /\ linker.entries[t] # <<>>
                          /\ linker.entries[t][Len(linker.entries[t])].key = NoKey

\* Keys that tell one launch from another.
Telling == Keys \ spoiled

IsEndOf(log, e) == log.type = "KERNEL_END" /\ log.key = e.key /\ log.launch = e.launch

HasEntry(key, launch, ran) ==
    \E t \in Threads : \E e \in Held(t) :
        e.key = key /\ e.launch = launch /\ e.name \in {NoName, ran}

\* Only one thread has entries of a key.
OneThread ==
    \A t, u \in Threads : \A e \in Held(t), f \in Held(u) :
        e.key = f.key /\ e.key \in Telling => t = u

\* What the device runs for a launch, and what it logged of one, has its entry still.
TasksHaveEntries ==
    \A key \in Telling :
        device[key].launch # 0 => HasEntry(key, device[key].launch, device[key].kernel)

LogsHaveEntries ==
    \A p \in DOMAIN Pending :
        LET log == Pending[p]
        IN  log.key \in Telling /\ log.launch # 0 => HasEntry(log.key, log.launch, log.ran)

\* Nothing of a launch comes after its end.
EndsAreLast ==
    \A p \in DOMAIN Pending :
        LET log == Pending[p]
        IN  log.type = "KERNEL_END" /\ log.key \in Telling /\ log.launch # 0 =>
                /\ device[log.key].launch # log.launch
                /\ \A q \in DOMAIN Pending :
                       q > p /\ Pending[q].key = log.key => Pending[q].launch # log.launch

\* Before a log of a later task of the same key comes the end of an entry's own task.
EndsComeFirst ==
    \A t \in Threads : \A e \in Held(t) : \A q \in DOMAIN Pending :
        /\ e.key \in Telling /\ Pending[q].key = e.key
        /\ Pending[q].launch = 0 \/ Pending[q].launch > e.launch
        => \E p \in 1..(q - 1) : IsEndOf(Pending[p], e)

\* The end of an entry's task is logged or is still to come.
EndsToCome ==
    trace = "on" =>
        \A t \in Threads : \A e \in Held(t) :
            e.key \in Telling =>
                \/ device[e.key].launch = e.launch
                \/ \E p \in DOMAIN Pending : IsEndOf(Pending[p], e)

KeyInv == /\ OneThread /\ TasksHaveEntries /\ LogsHaveEntries
          /\ EndsAreLast /\ EndsComeFirst /\ EndsToCome

------------------------------------------------------------------------------------
\* Lists of entries

LEMMA AppendedEntry ==
    ASSUME NEW s \in Seq(Entries), NEW e \in Entries, InOrder(s),
           \A i \in DOMAIN s : s[i].launch < e.launch
    PROVE  /\ InOrder(Append(s, e))
           /\ Seqs!ToSet(Append(s, e)) = Seqs!ToSet(s) \cup {e}
<1> DEFINE r == Append(s, e)
<1>1. /\ Len(s) \in Nat /\ DOMAIN s = 1..Len(s) /\ DOMAIN r = 1..(Len(s) + 1)
      /\ r[Len(s) + 1] = e /\ \A i \in 1..Len(s) : r[i] = s[i]
  OBVIOUS
<1> HIDE DEF r
<1>2. InOrder(r)
  BY <1>1 DEF InOrder
<1>3. Seqs!ToSet(r) = Seqs!ToSet(s) \cup {e}
  BY <1>1 DEF Seqs!ToSet
<1> QED BY <1>2, <1>3 DEF r

LEMMA CompletedOrder ==
    ASSUME NEW s \in Seq(Entries), s # <<>>, InOrder(s), NEW key, NEW name
    PROVE  /\ InOrder(Completion(s, key, name))
           /\ DOMAIN Completion(s, key, name) = DOMAIN s
           /\ \A i \in DOMAIN s : Completion(s, key, name)[i].launch = s[i].launch
<1> DEFINE n == Len(s)
           new == [key |-> key, name |-> name, launch |-> s[n].launch]
           r == Completion(s, key, name)
<1>1. n \in Nat \ {0} /\ DOMAIN s = 1..n
  OBVIOUS
<1>2. DOMAIN r = 1..n /\ r[n] = new /\ \A i \in 1..n : i # n => r[i] = s[i]
  BY <1>1 DEF Completion
<1>3. new.launch = s[n].launch
  OBVIOUS
<1>4. \A i \in 1..n : r[i].launch = s[i].launch
  BY <1>1, <1>2, <1>3
<1> HIDE DEF r, new
<1>5. InOrder(r)
  BY <1>1, <1>2, <1>4 DEF InOrder
<1> QED BY <1>1, <1>2, <1>4, <1>5 DEF r

LEMMA CompletedList ==
    ASSUME NEW s \in Seq(Entries), s # <<>>, InOrder(s), NEW key, NEW name
    PROVE  LET last == s[Len(s)]
               new  == [key |-> key, name |-> name, launch |-> last.launch]
               r    == Completion(s, key, name)
           IN  /\ new \in Seqs!ToSet(r)
               /\ \A e \in Seqs!ToSet(r) :
                      \/ e = new
                      \/ e \in Seqs!ToSet(s) /\ e.launch < last.launch
               /\ \A e \in Seqs!ToSet(s) : e = last \/ e \in Seqs!ToSet(r)
<1> DEFINE n    == Len(s)
           last == s[n]
           new  == [key |-> key, name |-> name, launch |-> last.launch]
           r    == Completion(s, key, name)
<1>1. n \in Nat \ {0} /\ DOMAIN s = 1..n
  OBVIOUS
<1>2. DOMAIN r = 1..n /\ r[n] = new /\ \A i \in 1..n : i # n => r[i] = s[i]
  BY <1>1 DEF Completion
<1>9. last = s[n]
  OBVIOUS
<1> HIDE DEF r, new, n, last
<1>6. ASSUME NEW e \in Seqs!ToSet(r)
      PROVE  e = new \/ (e \in Seqs!ToSet(s) /\ e.launch < last.launch)
  <2>1. PICK i \in 1..n : e = r[i]
    BY <1>2 DEF Seqs!ToSet
  <2>2. CASE i # n
    <3>1. e = s[i] /\ i < n
      BY <1>1, <1>2, <2>1, <2>2
    <3> QED BY <1>1, <1>9, <3>1 DEF InOrder, Seqs!ToSet
  <2> QED BY <1>2, <2>1, <2>2
<1>7. \A e \in Seqs!ToSet(s) : e = last \/ e \in Seqs!ToSet(r)
  BY <1>1, <1>2, <1>9 DEF Seqs!ToSet
<1>8. new \in Seqs!ToSet(r)
  BY <1>1, <1>2 DEF Seqs!ToSet
<1> QED BY <1>6, <1>7, <1>8 DEF r, new, n, last

LEMMA ShorterList ==
    ASSUME NEW s \in Seq(Entries), InOrder(s), NEW i \in 1..Len(s)
    PROVE  LET r == Seqs!RemoveAt(s, i)
           IN  /\ r \in Seq(Entries) /\ InOrder(r) /\ Seqs!ToSet(r) = Seqs!ToSet(s) \ {s[i]}
               /\ i < Len(s) => r # <<>> /\ r[Len(r)] = s[Len(s)]
<1> DEFINE n == Len(s)
           r == Seqs!RemoveAt(s, i)
<1>1. n \in Nat \ {0} /\ DOMAIN s = 1..n /\ \A j \in 1..n : s[j] \in Entries
  OBVIOUS
<1>2. r \in Seq(Entries) /\ Len(r) = n - 1
      /\ \A j \in 1..(n - 1) : r[j] = IF j < i THEN s[j] ELSE s[j + 1]
  BY RemoveAtType
<1> HIDE DEF r, n
<1>3. DOMAIN r = 1..(n - 1)
  BY <1>2
<1>4. i \in 1..n
  BY DEF n
<1>5. InOrder(r)
  <2> SUFFICES ASSUME NEW j \in 1..(n - 1), NEW k \in 1..(n - 1), j < k
               PROVE  r[j].launch < r[k].launch
    BY <1>3 DEF InOrder
  <2>1. j \in 1..n /\ k \in 1..n /\ j + 1 \in 1..n /\ k + 1 \in 1..n
    BY <1>1
  <2>2. s[j].launch < s[k].launch /\ s[j].launch < s[k + 1].launch
        /\ s[j + 1].launch < s[k + 1].launch
    BY <1>1, <2>1 DEF InOrder
  <2>3. CASE j < i /\ k < i
    BY <1>2, <2>2, <2>3
  <2>4. CASE j < i /\ ~(k < i)
    BY <1>2, <2>2, <2>4
  <2>5. CASE ~(j < i) /\ ~(k < i)
    BY <1>2, <2>2, <2>5
  <2> QED BY <1>4, <2>3, <2>4, <2>5
<1>6. ASSUME NEW e \in Seqs!ToSet(r) PROVE e \in Seqs!ToSet(s) \ {s[i]}
  <2>1. PICK j \in 1..(n - 1) : e = r[j]
    BY <1>3 DEF Seqs!ToSet
  <2>2. CASE j < i
    <3>1. e = s[j] /\ s[j].launch < s[i].launch /\ j \in 1..n
      BY <1>1, <1>2, <1>4, <2>1, <2>2 DEF InOrder
    <3>2. s[j].launch \in Nat /\ s[i].launch \in Nat
      BY <1>1, <1>4, <3>1 DEF Entries
    <3> QED BY <1>1, <3>1, <3>2 DEF Seqs!ToSet
  <2>3. CASE ~(j < i)
    <3>1. j + 1 \in 1..n /\ i < j + 1
      BY <1>1, <1>4, <2>3
    <3>2. e = s[j + 1] /\ s[i].launch < s[j + 1].launch
      BY <1>1, <1>2, <1>4, <2>1, <2>3, <3>1 DEF InOrder
    <3>3. s[j + 1].launch \in Nat /\ s[i].launch \in Nat
      BY <1>1, <1>4, <3>1 DEF Entries
    <3> QED BY <1>1, <3>1, <3>2, <3>3 DEF Seqs!ToSet
  <2> QED BY <1>4, <2>2, <2>3
<1>7. ASSUME NEW e \in Seqs!ToSet(s), e # s[i] PROVE e \in Seqs!ToSet(r)
  <2>1. PICK j \in 1..n : e = s[j]
    BY <1>1 DEF Seqs!ToSet
  <2>2. CASE j < i
    <3>1. j \in 1..(n - 1) /\ r[j] = e
      BY <1>1, <1>2, <1>4, <2>1, <2>2
    <3> QED BY <1>3, <3>1 DEF Seqs!ToSet
  <2>3. CASE j > i
    <3>1. j - 1 \in 1..(n - 1) /\ ~(j - 1 < i) /\ (j - 1) + 1 = j
      BY <1>1, <1>4, <2>3
    <3>2. r[j - 1] = e
      BY <1>2, <2>1, <3>1
    <3> QED BY <1>3, <3>1, <3>2 DEF Seqs!ToSet
  <2>4. j # i
    BY <1>7, <2>1
  <2> QED BY <1>4, <2>2, <2>3, <2>4
<1>8. Seqs!ToSet(r) = Seqs!ToSet(s) \ {s[i]}
  BY <1>6, <1>7
<1>9. ASSUME i < n PROVE r # <<>> /\ r[Len(r)] = s[n]
  <2>1. n - 1 \in 1..(n - 1) /\ ~(n - 1 < i) /\ (n - 1) + 1 = n
    BY <1>1, <1>4, <1>9
  <2> QED BY <1>2, <2>1
<1> QED BY <1>2, <1>5, <1>8, <1>9 DEF r, n

------------------------------------------------------------------------------------
\* What the steps do to the table

NewEntry(n) == [key |-> NoKey, name |-> NoName, launch |-> n]

LEMMA Launching ==
    ASSUME TypeInv, TableInv, NEW t \in Threads, NEW k \in Kernels, LaunchKernel(t, k)
    PROVE  LET e == NewEntry(launches + 1)
           IN  /\ e \in Entries /\ launches' = launches + 1 /\ launches + 1 \in Nat
               /\ linker'.entries = [linker.entries EXCEPT ![t] = Append(@, e)]
               /\ InOrder(linker'.entries[t])
               /\ Held(t)' = Held(t) \cup {e}
               /\ \A u \in Threads \ {t} : Held(u)' = Held(u)
<1> DEFINE e == NewEntry(launches + 1)
           s == linker.entries[t]
<1>1. launches + 1 \in Nat /\ launches' = launches + 1 /\ launches \in Nat
  BY DEF TypeInv, LaunchKernel
<1>2. linker' = KernelLaunch(linker, t, launches + 1)
  BY DEF LaunchKernel
<1>3. linker \in Linkers /\ linker.entries \in [Threads -> Seq(Entries)]
  BY DEF TypeInv, Linkers
<1>4. e \in Entries /\ e.launch = launches + 1
  BY <1>1 DEF Entries, NewEntry
<1>5. linker'.entries = [linker.entries EXCEPT ![t] = Append(s, e)]
  BY <1>1, <1>2, <1>3, LaunchEntry DEF NewEntry
<1>6. InOrder(s) /\ \A i \in DOMAIN s : s[i].launch \in 1..launches
  BY DEF TableInv
<1> HIDE DEF e, s
<1>7. \A i \in DOMAIN s : s[i].launch < e.launch
  BY <1>1, <1>4, <1>6
<1>8. s \in Seq(Entries)
  BY <1>3 DEF s
<1>9. InOrder(Append(s, e)) /\ Seqs!ToSet(Append(s, e)) = Seqs!ToSet(s) \cup {e}
  BY <1>4, <1>6, <1>7, <1>8, AppendedEntry
<1>10. linker'.entries[t] = Append(s, e)
       /\ \A u \in Threads \ {t} : linker'.entries[u] = linker.entries[u]
  BY <1>3, <1>5
<1> QED BY <1>1, <1>4, <1>5, <1>9, <1>10 DEF Held, e, s

LastOf(t) == linker.entries[t][Len(linker.entries[t])]

TaskEntry(key, name, launch) == [key |-> key, name |-> name, launch |-> launch]

LEMMA Completing ==
    ASSUME TypeInv, TableInv, NEW t \in Threads, NEW key \in Keys, TaskInfo(t, key)
    PROVE  \E name \in {NoName, host[t].kernel} :
               /\ linker'.last[t] = name
               /\ linker'.entries =
                      [linker.entries EXCEPT ![t] = Completion(@, key, name)]
               /\ host[t].kernel \in Kernels
               /\ LastOf(t) \in Held(t) /\ LastOf(t) \in Entries /\ LastOf(t).key = NoKey
               /\ TaskEntry(key, name, LastOf(t).launch) \in Held(t)'
               /\ \A e \in Held(t)' :
                      \/ e = TaskEntry(key, name, LastOf(t).launch)
                      \/ e \in Held(t) /\ e.launch < LastOf(t).launch
               /\ \A e \in Held(t) : e = LastOf(t) \/ e \in Held(t)'
               /\ \A u \in Threads \ {t} : Held(u)' = Held(u)
               /\ device' = [device EXCEPT ![key] =
                                 [state |-> "queued", kernel |-> host[t].kernel,
                                  launch |-> LastOf(t).launch]]
<1> DEFINE s    == linker.entries[t]
           name == GetHashInfo(linker, host[t].kernel)
<1>1. linker \in Linkers /\ linker.entries \in [Threads -> Seq(Entries)]
      /\ linker.last \in [Threads -> Kernels \cup {NoName}]
  BY DEF TypeInv, Linkers
<1>2. Launched(t) /\ host[t].kernel \in Kernels
  BY DEF TypeInv, TaskInfo, Launched
<1>3. s # <<>> /\ s[Len(s)].key = NoKey /\ InOrder(s) /\ s \in Seq(Entries)
  BY <1>1, <1>2 DEF TableInv
<1>4. Len(s) \in DOMAIN s /\ Seqs!Last(s) = s[Len(s)] /\ s[Len(s)] \in Entries
  BY <1>3, LastEntry
<1>5. s[Len(s)] \in Seqs!ToSet(s)
  BY <1>4 DEF Seqs!ToSet
<1>6. linker' = Complete(linker, t, key, host[t].kernel)
  BY DEF TaskInfo
<1>7. name \in {NoName, host[t].kernel}
      /\ linker'.entries = [linker.entries EXCEPT ![t] = Completion(s, key, name)]
      /\ linker'.last = [linker.last EXCEPT ![t] = name]
  BY <1>1, <1>2, <1>3, <1>6, CompletedEntry
<1> HIDE DEF name
<1>8. linker'.entries[t] = Completion(s, key, name) /\ linker'.last[t] = name
      /\ \A u \in Threads \ {t} : linker'.entries[u] = linker.entries[u]
  BY <1>1, <1>7
<1>9. device' = [device EXCEPT ![key] = [state |-> "queued", kernel |-> host[t].kernel,
                                         launch |-> LastOf(t).launch]]
  BY <1>4 DEF TaskInfo, LastOf
<1>10. LET r == Completion(s, key, name)
       IN  /\ TaskEntry(key, name, LastOf(t).launch) \in Seqs!ToSet(r)
           /\ \A e \in Seqs!ToSet(r) :
                  \/ e = TaskEntry(key, name, LastOf(t).launch)
                  \/ e \in Seqs!ToSet(s) /\ e.launch < LastOf(t).launch
           /\ \A e \in Seqs!ToSet(s) : e = LastOf(t) \/ e \in Seqs!ToSet(r)
  BY <1>3, CompletedList DEF LastOf, TaskEntry
<1> QED
  BY <1>2, <1>3, <1>4, <1>5, <1>7, <1>8, <1>9, <1>10 DEF Held, LastOf

\* HandleLog leaves the table alone, or takes out the first entry with the key of the end.
IsFirst(t, i) ==
    /\ linker.entries[t][i].key = Head(buffer).key
    /\ \A j \in 1..(i - 1) : linker.entries[t][j].key # Head(buffer).key

Uses(t, i) ==
    /\ IsFirst(t, i)
    /\ LET name == linker.entries[t][i].name
       IN  reported' = IF name = NoName THEN {}
                       ELSE ReportKernelExcute(Head(buffer).type, Head(buffer).key, name,
                                               Head(buffer).ran)
    /\ IF Head(buffer).type = "KERNEL_END"
       THEN /\ linker'.entries =
                   [linker.entries EXCEPT ![t] = Seqs!RemoveAt(@, i)]
            /\ InOrder(linker'.entries[t])
            /\ Held(t)' = Held(t) \ {linker.entries[t][i]}
            /\ \A u \in Threads \ {t} : Held(u)' = Held(u)
            /\ i < Len(linker.entries[t]) =>
                   linker'.entries[t] # <<>>
                   /\ linker'.entries[t][Len(linker'.entries[t])] = LastOf(t)
       ELSE linker' = linker

LEMMA Handling ==
    ASSUME TypeInv, TableInv, HandleLog
    PROVE  /\ buffer # <<>> /\ buffer' = Tail(buffer) /\ Head(buffer) \in Logs
           /\ \/ /\ linker' = linker /\ reported' = {}
                 /\ \A t \in Threads : \A i \in 1..Len(linker.entries[t]) : ~IsFirst(t, i)
              \/ \E t \in Threads : \E i \in 1..Len(linker.entries[t]) : Uses(t, i)
<1>1. linker \in Linkers /\ linker.entries \in [Threads -> Seq(Entries)]
      /\ buffer \in Seq(Logs) /\ buffer # <<>> /\ buffer' = Tail(buffer)
  BY DEF TypeInv, Linkers, HandleLog
<1>2. Head(buffer) \in Logs
  BY <1>1
<1> DEFINE log == Head(buffer)
<1>3. CASE /\ Places(linker, log.key) = {}
           /\ reported' = {} /\ linker' = linker
  <2> SUFFICES ASSUME NEW t \in Threads, NEW i \in 1..Len(linker.entries[t]), IsFirst(t, i)
               PROVE  FALSE
    BY <1>1, <1>2, <1>3
  <2>1. <<t, i>> \in UNION {{u} \X DOMAIN linker.entries[u] : u \in DOMAIN linker.entries}
    BY <1>1
  <2>2. <<t, i>> \in Places(linker, log.key)
    BY <2>1 DEF Places, IsFirst
  <2> QED BY <1>3, <2>2
<1>4. CASE \E place \in Places(linker, log.key) :
               LET name == NameAt(linker, place)
               IN  /\ linker' = Used(linker, place, log.type)
                   /\ reported' = IF name = NoName THEN {}
                          ELSE ReportKernelExcute(log.type, log.key, name, log.ran)
  <2>1. PICK place \in Places(linker, log.key) :
            LET name == NameAt(linker, place)
            IN  /\ linker' = Used(linker, place, log.type)
                /\ reported' = IF name = NoName THEN {}
                       ELSE ReportKernelExcute(log.type, log.key, name, log.ran)
    BY <1>4
  <2> DEFINE t == place[1]
             i == place[2]
             s == linker.entries[t]
  <2>2. /\ t \in Threads /\ i \in 1..Len(s) /\ s[i].key = log.key
        /\ \A j \in 1..(i - 1) : s[j].key # log.key
    BY <1>1, PlaceOf
  <2>3. reported' = IF s[i].name = NoName THEN {}
                    ELSE ReportKernelExcute(log.type, log.key, s[i].name, log.ran)
    BY <2>1 DEF NameAt
  <2>4. /\ log.type # "KERNEL_END" => linker' = linker
        /\ log.type = "KERNEL_END" =>
               linker'.entries = [linker.entries EXCEPT ![t] = Seqs!RemoveAt(s, i)]
    BY <1>1, <2>1, UsedEntry
  <2> HIDE DEF t, i
  <2>5. s \in Seq(Entries) /\ InOrder(s)
    BY <1>1, <2>2 DEF TableInv
  <2>6. /\ InOrder(Seqs!RemoveAt(s, i))
        /\ Seqs!ToSet(Seqs!RemoveAt(s, i)) = Seqs!ToSet(s) \ {s[i]}
        /\ i < Len(s) => /\ Seqs!RemoveAt(s, i) # <<>>
                         /\ Seqs!RemoveAt(s, i)[Len(Seqs!RemoveAt(s, i))] = s[Len(s)]
    BY <2>2, <2>5, ShorterList
  <2>7. log.type = "KERNEL_END" =>
            /\ linker'.entries[t] = Seqs!RemoveAt(s, i)
            /\ \A u \in Threads \ {t} : linker'.entries[u] = linker.entries[u]
    BY <1>1, <2>2, <2>4
  <2>8. Uses(t, i)
    BY <2>2, <2>3, <2>4, <2>6, <2>7 DEF Uses, IsFirst, Held, LastOf
  <2> QED BY <1>1, <1>2, <2>2, <2>8
<1> QED BY <1>3, <1>4 DEF HandleLog

\* The other steps leave the entries alone and start no launch.
Still ==
    /\ linker'.entries = linker.entries /\ launches' = launches
    /\ trace' = trace \/ (trace = "on" /\ trace' = "ended")
    /\ \A t \in Threads : Launched(t)' => Launched(t)

LEMMA StillSteps ==
    ASSUME TypeInv,
           \/ Quiet
           \/ \E t \in Threads : RegisterHash(t)
           \/ \E key \in Keys : OtherTask(key) \/ StartTask(key) \/ FinishTask(key)
           \/ Read \/ AclFinalize
    PROVE  Still
<1>1. CASE Quiet
  BY <1>1 DEF Quiet, traceVars, Still
<1>2. ASSUME NEW t \in Threads, RegisterHash(t) PROVE Still
  <2>1. linker' = [linker EXCEPT !.known = linker.known \cup {host[t].kernel}]
    BY <1>2 DEF RegisterHash, SetHashInfo
  <2>2. linker'.entries = linker.entries
    BY <2>1 DEF TypeInv, Linkers
  <2> QED BY <1>2, <2>2 DEF RegisterHash, Still, Launched
<1>3. ASSUME NEW key \in Keys, OtherTask(key) \/ StartTask(key) \/ FinishTask(key)
      PROVE  Still
  BY <1>3 DEF OtherTask, StartTask, FinishTask, Still, Launched
<1>4. CASE Read
  BY <1>4 DEF Read, Still, Launched
<1>5. CASE AclFinalize
  BY <1>5 DEF AclFinalize, EndKernelEventTrace, Still, Launched
<1> QED BY <1>1, <1>2, <1>3, <1>4, <1>5

LEMMA TableInvStep == TypeInv /\ TableInv /\ [Next]_vars => TableInv'
<1> SUFFICES ASSUME TypeInv, TableInv, [Next]_vars PROVE TableInv'
  OBVIOUS
<1>0. /\ linker.entries \in [Threads -> Seq(Entries)] /\ launches \in Nat
      /\ NoKey \notin Keys
  BY LaunchesAssumption DEF TypeInv, Linkers
<1>i. ASSUME NEW u \in Threads
      PROVE  /\ InOrder(linker.entries[u])
             /\ \A e \in Held(u) : e.launch \in 1..launches
             /\ Held(u) \subseteq Entries
  BY <1>0 DEF TableInv, Held, Seqs!ToSet
<1>1. CASE Still
  BY <1>1 DEF Still, TableInv, Held
<1>2. ASSUME NEW t \in Threads, NEW k \in Kernels, LaunchKernel(t, k) PROVE TableInv'
  <2> DEFINE e == NewEntry(launches + 1)
             s == linker.entries[t]
  <2>1. /\ e \in Entries /\ launches' = launches + 1 /\ launches + 1 \in Nat
        /\ linker'.entries = [linker.entries EXCEPT ![t] = Append(s, e)]
        /\ InOrder(linker'.entries[t])
        /\ Held(t)' = Held(t) \cup {e}
        /\ \A u \in Threads \ {t} : Held(u)' = Held(u)
    BY <1>2, Launching
  <2>2. e.launch = launches + 1 /\ e.key = NoKey
    BY DEF NewEntry
  <2>3. trace' = "on"
    BY <1>2 DEF LaunchKernel, StartKernelEventTrace, TypeInv
  <2>4. s \in Seq(Entries)
    BY <1>0
  <2> HIDE DEF e
  <2>5. linker'.entries[t] = Append(s, e)
        /\ \A u \in Threads \ {t} : linker'.entries[u] = linker.entries[u]
    BY <1>0, <2>1
  <2>6. /\ DOMAIN Append(s, e) = 1..(Len(s) + 1) /\ Append(s, e)[Len(s) + 1] = e
        /\ \A i \in 1..Len(s) : Append(s, e)[i] = s[i]
        /\ Append(s, e) # <<>> /\ Len(Append(s, e)) = Len(s) + 1 /\ DOMAIN s = 1..Len(s)
    BY <2>1, <2>4
  <2>7. ASSUME NEW u \in Threads, NEW i \in DOMAIN linker'.entries[u]
        PROVE  linker'.entries[u][i].launch \in 1..launches'
    <3>1. CASE u = t
      <4>1. CASE i = Len(s) + 1
        BY <1>0, <2>1, <2>2, <2>5, <2>6, <3>1, <4>1
      <4>2. CASE i \in 1..Len(s)
        <5>1. linker'.entries[u][i] = s[i] /\ s[i].launch \in 1..launches
          BY <2>5, <2>6, <3>1, <4>2 DEF TableInv
        <5> QED BY <1>0, <2>1, <5>1
      <4> QED BY <2>4, <2>5, <2>6, <3>1, <4>1, <4>2
    <3>2. CASE u # t
      <4>1. linker'.entries[u][i].launch \in 1..launches
        BY <2>5, <3>2 DEF TableInv
      <4> QED BY <1>0, <2>1, <4>1
    <3> QED BY <3>1, <3>2
  <2>8. ASSUME NEW u \in Threads PROVE InOrder(linker'.entries[u])
    BY <1>i, <2>1, <2>5
  <2>9. ASSUME NEW u \in Threads, NEW v \in Threads, NEW f \in Held(u)', NEW g \in Held(v)',
               f.launch = g.launch
        PROVE  u = v
    <3>1. f \in Held(u) \/ (u = t /\ f = e)
      BY <2>1
    <3>2. g \in Held(v) \/ (v = t /\ g = e)
      BY <2>1
    <3>3. f \in Held(u) => f.launch # launches + 1
      BY <1>0, <1>i
    <3>4. g \in Held(v) => g.launch # launches + 1
      BY <1>0, <1>i
    <3> QED BY <2>2, <2>9, <3>1, <3>2, <3>3, <3>4 DEF TableInv
  <2>10. ASSUME NEW u \in Threads, Launched(u)'
         PROVE  /\ linker'.entries[u] # <<>>
                /\ linker'.entries[u][Len(linker'.entries[u])].key = NoKey
    <3>1. CASE u = t
      BY <2>2, <2>5, <2>6, <3>1
    <3>2. CASE u # t
      <4>1. Launched(u)
        BY <1>2, <2>10, <3>2 DEF LaunchKernel, Launched, TypeInv
      <4> QED BY <2>5, <3>2, <4>1 DEF TableInv
    <3> QED BY <3>1, <3>2
  <2> QED BY <2>3, <2>7, <2>8, <2>9, <2>10 DEF TableInv
<1>3. ASSUME NEW t \in Threads, NEW key \in Keys, TaskInfo(t, key) PROVE TableInv'
  <2> DEFINE s == linker.entries[t]
  <2>1. PICK name \in {NoName, host[t].kernel} :
           /\ linker'.entries = [linker.entries EXCEPT ![t] = Completion(s, key, name)]
           /\ LastOf(t) \in Held(t)
           /\ \A e \in Held(t)' :
                  \/ e = TaskEntry(key, name, LastOf(t).launch)
                  \/ e \in Held(t) /\ e.launch < LastOf(t).launch
           /\ \A u \in Threads \ {t} : Held(u)' = Held(u)
    BY <1>3, Completing
  <2>2. s # <<>> /\ s \in Seq(Entries) /\ InOrder(s)
    BY <1>0, <1>i, <1>3 DEF TaskInfo, Completes
  <2>3. /\ InOrder(Completion(s, key, name)) /\ DOMAIN Completion(s, key, name) = DOMAIN s
        /\ \A i \in DOMAIN s : Completion(s, key, name)[i].launch = s[i].launch
    <3> HIDE DEF s
    <3> QED BY ONLY <2>2, CompletedOrder
  <2>4. linker'.entries[t] = Completion(s, key, name)
        /\ \A u \in Threads \ {t} : linker'.entries[u] = linker.entries[u]
    BY <1>0, <2>1
  <2>5. launches' = launches /\ trace' = "on" /\ trace = "on"
    BY <1>3 DEF TaskInfo, TypeInv, Launched
  <2>6. \A u \in Threads : InOrder(linker'.entries[u])
    BY <1>i, <2>3, <2>4
  <2>7. ASSUME NEW u \in Threads, NEW i \in DOMAIN linker'.entries[u]
        PROVE  linker'.entries[u][i].launch \in 1..launches'
    <3>1. i \in DOMAIN linker.entries[u]
          /\ linker'.entries[u][i].launch = linker.entries[u][i].launch
      BY <2>3, <2>4
    <3> QED BY <2>5, <3>1 DEF TableInv
  <2>8. ASSUME NEW u \in Threads, NEW f \in Held(u)'
        PROVE  \E e \in Held(u) : e.launch = f.launch
    BY <2>1 DEF TaskEntry
  <2>9. ASSUME NEW u \in Threads, NEW v \in Threads, NEW f \in Held(u)', NEW g \in Held(v)',
               f.launch = g.launch
        PROVE  u = v
    <3>1. PICK e \in Held(u) : e.launch = f.launch
      BY <2>8
    <3>2. PICK d \in Held(v) : d.launch = g.launch
      BY <2>8
    <3> QED BY <2>9, <3>1, <3>2 DEF TableInv
  <2>10. ASSUME NEW u \in Threads, Launched(u)' PROVE u # t /\ Launched(u)
    <3>1. \E b : host' = [host EXCEPT ![t].pc = "told", ![t].kernelBegun = b]
      BY <1>3 DEF TaskInfo
    <3> QED BY <2>10, <3>1 DEF TypeInv, HostStates, Launched
  <2> QED BY <2>4, <2>5, <2>6, <2>7, <2>9, <2>10 DEF TableInv
<1>4. CASE HandleLog
  <2>1. launches' = launches /\ trace' = trace /\ host' = host
    BY <1>4 DEF HandleLog
  <2>2. CASE linker' = linker
    BY <2>1, <2>2 DEF TableInv, Launched, Held
  <2>3. ASSUME NEW t \in Threads, NEW i \in 1..Len(linker.entries[t]), Uses(t, i),
               Head(buffer).type = "KERNEL_END", Head(buffer) \in Logs
        PROVE  TableInv'
    <3> DEFINE s == linker.entries[t]
    <3>1. /\ linker'.entries = [linker.entries EXCEPT ![t] = Seqs!RemoveAt(s, i)]
          /\ InOrder(linker'.entries[t])
          /\ Held(t)' = Held(t) \ {s[i]}
          /\ \A u \in Threads \ {t} : Held(u)' = Held(u)
          /\ i < Len(s) => /\ linker'.entries[t] # <<>>
                           /\ linker'.entries[t][Len(linker'.entries[t])] = LastOf(t)
          /\ s[i].key = Head(buffer).key
      BY <2>3 DEF Uses, IsFirst
    <3>2. \A u \in Threads \ {t} : linker'.entries[u] = linker.entries[u]
      BY <1>0, <3>1
    <3>3. s \in Seq(Entries) /\ Len(s) \in Nat /\ s # <<>>
      BY <1>0
    <3>4. trace # "none"
      BY <3>3 DEF TableInv
    <3>5. \A u \in Threads : InOrder(linker'.entries[u])
      BY <1>i, <3>1, <3>2
    <3>6. \A u \in Threads : Held(u)' \subseteq Held(u)
      BY <3>1
    <3>7. ASSUME NEW u \in Threads, NEW j \in DOMAIN linker'.entries[u]
          PROVE  linker'.entries[u][j].launch \in 1..launches'
      <4>1. linker'.entries[u][j] \in Held(u)'
        BY DEF Held, Seqs!ToSet
      <4> QED BY <1>i, <2>1, <3>6, <4>1
    <3>8. ASSUME NEW u \in Threads, Launched(u)'
          PROVE  /\ linker'.entries[u] # <<>>
                 /\ linker'.entries[u][Len(linker'.entries[u])].key = NoKey
      <4>1. Launched(u)
        BY <2>1, <3>8 DEF Launched
      <4>2. CASE u = t
        <5>1. LastOf(t).key = NoKey
          BY <4>1, <4>2 DEF TableInv, LastOf
        <5>2. i # Len(s)
          BY <1>0, <2>3, <3>1, <5>1 DEF LastOf, Logs
        <5> QED BY <3>1, <3>3, <4>2, <5>1, <5>2
      <4> QED BY <3>2, <4>1, <4>2 DEF TableInv
    <3> QED BY <2>1, <3>4, <3>5, <3>6, <3>7, <3>8 DEF TableInv
  <2> QED BY <1>4, <2>2, <2>3, Handling DEF Uses
<1> QED BY <1>1, <1>2, <1>3, <1>4, StillSteps, Steps DEF Busy

------------------------------------------------------------------------------------
\* What the steps do to the logs

LEMMA PendingType ==
    ASSUME TypeInv
    PROVE  Pending \in Seq(Logs) /\ Len(Pending) \in Nat /\ DOMAIN Pending = 1..Len(Pending)
           /\ \A p \in 1..Len(Pending) : Pending[p] \in Logs
  BY ConcatProperties DEF TypeInv, Pending

\* A log joins the others.
Joins(log) ==
    /\ Len(Pending') = Len(Pending) + 1 /\ DOMAIN Pending' = 1..(Len(Pending) + 1)
    /\ Pending'[Len(Pending) + 1] = log
    /\ \A p \in 1..Len(Pending) : Pending'[p] = Pending[p]

LEMMA Joining ==
    ASSUME TypeInv, NEW log \in Logs, channel' = Append(channel, log), buffer' = buffer
    PROVE  Joins(log)
<1>1. channel \in Seq(Logs) /\ buffer \in Seq(Logs) /\ Pending \in Seq(Logs)
  BY PendingType DEF TypeInv
<1>2. <<log>> \in Seq(Logs)
  OBVIOUS
<1>3. Pending' = buffer \o Append(channel, log)
  BY DEF Pending
<1>4. Append(channel, log) = channel \o <<log>> /\ Append(Pending, log) = Pending \o <<log>>
  BY <1>1, AppendIsConcat
<1>5. (buffer \o channel) \o <<log>> = buffer \o (channel \o <<log>>)
  BY <1>1, <1>2, ConcatAssociative
<1>6. Pending' = Append(Pending, log)
  BY <1>3, <1>4, <1>5 DEF Pending
<1>7. Append(Pending, log) \in Seq(Logs) /\ Len(Append(Pending, log)) = Len(Pending) + 1
      /\ \A i \in 1..Len(Pending) : Append(Pending, log)[i] = Pending[i]
      /\ Append(Pending, log)[Len(Pending) + 1] = log
  BY <1>1, AppendProperties
<1> QED BY <1>6, <1>7 DEF Joins

\* The first n logs leave.
Leave(n) ==
    /\ n \in 0..Len(Pending)
    /\ Len(Pending') = Len(Pending) - n /\ DOMAIN Pending' = 1..(Len(Pending) - n)
    /\ \A p \in 1..(Len(Pending) - n) : Pending'[p] = Pending[p + n]

LEMMA Reading ==
    ASSUME TypeInv, Read
    PROVE  /\ spoiled \subseteq spoiled'
           /\ \E n \in 0..Len(Pending) :
                 Leave(n) /\ \A p \in 1..n : Pending[p].key \in spoiled'
<1>1. channel \in Seq(Logs) /\ buffer = <<>> /\ Len(channel) \in Nat
      /\ DOMAIN channel = 1..Len(channel)
  BY DEF TypeInv, Read
<1>2. Pending = channel
  BY <1>1, ConcatEmptySeq DEF Pending
<1>3. PICK n \in 1..Len(channel) :
          /\ channel' = SubSeq(channel, n + 1, Len(channel))
          /\ \/ /\ spoiled' = spoiled \cup
                       {log.key : log \in Seqs!ToSet(SubSeq(channel, 1, n))}
                /\ buffer' = buffer
             \/ buffer' = SubSeq(channel, 1, n) /\ spoiled' = spoiled
  BY DEF Read
<1> DEFINE a == SubSeq(channel, 1, n)
           b == SubSeq(channel, n + 1, Len(channel))
<1>4. /\ a \in Seq(Logs) /\ Len(a) = n /\ \A p \in 1..n : a[p] = channel[p]
      /\ b \in Seq(Logs) /\ Len(b) = Len(channel) - n
      /\ \A p \in 1..(Len(channel) - n) : b[p] = channel[p + n]
  <2>1. a \in Seq(Logs) /\ Len(a) = n /\ \A p \in 1..n : a[p] = channel[p]
    BY <1>1
  <2>2. b \in Seq(Logs) /\ Len(b) = Len(channel) - n
    <3>1. PICK l \in Nat : l = Len(channel)
      BY <1>1
    <3>2. n \in 1..l /\ l \in Nat
      BY <3>1
    <3>3. n + 1 \in Int /\ l \in Int /\ \A p \in (n + 1)..l : channel[p] \in Logs
      BY <1>1, <3>1, <3>2
    <3>4. b \in Seq(Logs) /\ Len(b) = IF n + 1 <= l THEN l - (n + 1) + 1 ELSE 0
      BY <3>1, <3>3, SubSeqProperties
    <3>5. (IF n + 1 <= l THEN l - (n + 1) + 1 ELSE 0) = l - n
      BY ONLY <3>2
    <3> QED BY <3>1, <3>4, <3>5
  <2>3. \A p \in 1..(Len(channel) - n) : b[p] = channel[p + n]
    BY <1>1
  <2> QED BY <2>1, <2>2, <2>3
<1>5. a \o b = channel
  <2>1. 1 \in 1..(Len(channel) + 1) /\ n \in (1 - 1)..Len(channel)
        /\ Len(channel) \in n..Len(channel)
    BY <1>1
  <2>2. SubSeq(channel, 1, n) \o SubSeq(channel, n + 1, Len(channel))
            = SubSeq(channel, 1, Len(channel))
    BY <1>1, <2>1, ConcatAdjacentSubSeq
  <2> QED BY <1>1, <2>2, SubSeqFull
<1>6. CASE spoiled' = spoiled \cup {log.key : log \in Seqs!ToSet(a)} /\ buffer' = buffer
  <2>1. Pending' = b
    BY <1>1, <1>3, <1>4, <1>6, ConcatEmptySeq DEF Pending
  <2> HIDE DEF a, b
  <2>2. Leave(n)
    <3>1. n \in 0..Len(Pending) /\ Len(Pending') = Len(Pending) - n
          /\ DOMAIN Pending' = 1..(Len(Pending) - n)
      <4>1. PICK l \in Nat : l = Len(channel)
        BY <1>1
      <4>2. n \in 1..l /\ DOMAIN b = 1..Len(b) /\ Len(b) = l - n
        BY <1>4, <4>1
      <4>3. n \in 0..l
        BY <4>2
      <4> QED BY <1>2, <2>1, <4>1, <4>2, <4>3
    <3>2. \A p \in 1..(Len(Pending) - n) : Pending'[p] = Pending[p + n]
      BY <1>2, <1>4, <2>1
    <3> QED BY <3>1, <3>2 DEF Leave
  <2>3. \A p \in 1..n : Pending[p].key \in spoiled'
    <3> TAKE p \in 1..n
    <3>1. p \in DOMAIN a /\ a[p] = Pending[p]
      BY <1>1, <1>2, <1>4
    <3>2. Pending[p] \in Seqs!ToSet(a)
      BY <3>1 DEF Seqs!ToSet
    <3> QED BY <1>6, <3>2
  <2> QED BY <1>1, <1>2, <1>6, <2>2, <2>3
<1>7. CASE buffer' = a /\ spoiled' = spoiled
  <2>1. Pending' = Pending
    BY <1>2, <1>3, <1>5, <1>7 DEF Pending
  <2>2. Leave(0)
    BY <2>1, PendingType DEF Leave
  <2> QED BY <1>1, <1>2, <1>7, <2>2
<1> QED BY <1>3, <1>6, <1>7

LEMMA Popping ==
    ASSUME TypeInv, HandleLog
    PROVE  Leave(1) /\ Head(buffer) = Pending[1] /\ Len(Pending) \in Nat \ {0}
<1>1. buffer \in Seq(Logs) /\ channel \in Seq(Logs) /\ buffer # <<>>
      /\ buffer' = Tail(buffer) /\ channel' = channel
  BY DEF TypeInv, HandleLog
<1>2. /\ Head(buffer) = buffer[1] /\ Tail(buffer) \in Seq(Logs) /\ Len(buffer) \in Nat \ {0}
      /\ Len(Tail(buffer)) = Len(buffer) - 1
      /\ \A i \in 1..(Len(buffer) - 1) : Tail(buffer)[i] = buffer[i + 1]
  BY <1>1
<1>3. Pending' = Tail(buffer) \o channel
  BY <1>1 DEF Pending
<1>4. /\ Len(Pending) = Len(buffer) + Len(channel)
      /\ \A i \in 1..(Len(buffer) + Len(channel)) :
             Pending[i] = IF i <= Len(buffer) THEN buffer[i] ELSE channel[i - Len(buffer)]
  BY <1>1, ConcatProperties DEF Pending
<1>5. /\ Pending' \in Seq(Logs) /\ Len(Pending') = Len(Tail(buffer)) + Len(channel)
      /\ \A i \in 1..(Len(Tail(buffer)) + Len(channel)) :
             Pending'[i] = IF i <= Len(Tail(buffer)) THEN Tail(buffer)[i]
                                                     ELSE channel[i - Len(Tail(buffer))]
  BY <1>1, <1>2, <1>3, ConcatProperties
<1>6. Len(channel) \in Nat
  BY <1>1
<1>7. Len(Pending') = Len(Pending) - 1 /\ Len(Pending) \in Nat \ {0}
      /\ DOMAIN Pending' = 1..(Len(Pending) - 1)
  BY <1>2, <1>4, <1>5, <1>6
<1>8. ASSUME NEW p \in 1..(Len(Pending) - 1) PROVE Pending'[p] = Pending[p + 1]
  <2>1. p + 1 \in 1..(Len(buffer) + Len(channel))
        /\ p \in 1..(Len(Tail(buffer)) + Len(channel))
    BY <1>2, <1>4, <1>6
  <2>2. CASE p <= Len(buffer) - 1
    BY <1>2, <1>4, <1>5, <2>1, <2>2
  <2>3. CASE ~(p <= Len(buffer) - 1)
    <3>1. p - (Len(buffer) - 1) = (p + 1) - Len(buffer)
      BY <1>2
    <3> QED BY <1>2, <1>4, <1>5, <2>1, <2>3, <3>1
  <2> QED BY <2>2, <2>3
<1>9. Head(buffer) = Pending[1]
  BY <1>2, <1>4, <1>6
<1> QED BY <1>7, <1>8, <1>9 DEF Leave

------------------------------------------------------------------------------------
\* The table and the logs stay together

SameTable == \A t \in Threads : Held(t)' = Held(t)

SameTasks == \A key \in Keys : /\ device'[key].launch = device[key].launch
                               /\ device'[key].kernel = device[key].kernel

LEMMA KeyInvSame ==
    ASSUME TypeInv, KeyInv, SameTable, SameTasks, Pending' = Pending, spoiled' = spoiled,
           trace' = "on" => trace = "on"
    PROVE  KeyInv'
<1> USE DEF SameTable, SameTasks
<1>1. Telling' = Telling /\ Telling \subseteq Keys
  BY DEF Telling
<1>2. \A key, launch, ran : HasEntry(key, launch, ran) => HasEntry(key, launch, ran)'
  BY DEF HasEntry
<1>3. OneThread'
  BY <1>1 DEF KeyInv, OneThread
<1>4. TasksHaveEntries'
  BY <1>1, <1>2 DEF KeyInv, TasksHaveEntries
<1>5. LogsHaveEntries'
  BY <1>1, <1>2 DEF KeyInv, LogsHaveEntries
<1>6. EndsAreLast'
  BY <1>1 DEF KeyInv, EndsAreLast
<1>7. EndsComeFirst'
  BY <1>1 DEF KeyInv, EndsComeFirst, IsEndOf
<1>8. EndsToCome'
  BY <1>1 DEF KeyInv, EndsToCome, IsEndOf
<1> QED BY <1>3, <1>4, <1>5, <1>6, <1>7, <1>8 DEF KeyInv

\* A new launch has no key.
LEMMA KeyInvLaunch ==
    ASSUME TypeInv, TableInv, KeyInv, NEW t \in Threads, NEW k \in Kernels,
           LaunchKernel(t, k)
    PROVE  KeyInv'
<1> DEFINE e0 == NewEntry(launches + 1)
<1>1. /\ Held(t)' = Held(t) \cup {e0}
      /\ \A u \in Threads \ {t} : Held(u)' = Held(u)
  BY Launching
<1>2. e0.key = NoKey
  BY DEF NewEntry
<1>3. Telling' = Telling /\ Telling \subseteq Keys /\ NoKey \notin Telling
  BY LaunchesAssumption DEF Telling, LaunchKernel
<1>4. Pending' = Pending /\ device' = device
  BY DEF LaunchKernel, Pending
<1> HIDE DEF e0
<1>5. ASSUME NEW u \in Threads, NEW e \in Held(u)', e.key \in Telling PROVE e \in Held(u)
  BY <1>1, <1>2, <1>3, <1>5
<1>6. \A key, launch, ran : HasEntry(key, launch, ran) => HasEntry(key, launch, ran)'
  BY <1>1 DEF HasEntry
<1>7. OneThread'
  BY <1>3, <1>5 DEF KeyInv, OneThread
<1>8. TasksHaveEntries'
  BY <1>3, <1>4, <1>6 DEF KeyInv, TasksHaveEntries
<1>9. LogsHaveEntries'
  BY <1>3, <1>4, <1>6 DEF KeyInv, LogsHaveEntries
<1>10. EndsAreLast'
  BY <1>3, <1>4 DEF KeyInv, EndsAreLast
<1>11. EndsComeFirst'
  BY <1>3, <1>4, <1>5 DEF KeyInv, EndsComeFirst, IsEndOf
<1>12. EndsToCome'
  <2>1. CASE trace = "on"
    BY <1>3, <1>4, <1>5, <2>1 DEF KeyInv, EndsToCome, IsEndOf
  <2>2. CASE trace # "on"
    <3>1. trace = "none"
      BY <2>2 DEF LaunchKernel, TypeInv
    <3>2. \A u \in Threads : Held(u) = {}
      BY <3>1 DEF TableInv, Held, Seqs!ToSet
    <3> QED BY <1>3, <1>5, <3>2 DEF EndsToCome
  <2> QED BY <2>1, <2>2
<1> QED BY <1>7, <1>8, <1>9, <1>10, <1>11, <1>12 DEF KeyInv

\* The last entry of a thread has the largest launch, and every launch has one entry.
LEMMA LastIsLatest ==
    ASSUME TypeInv, TableInv, NEW t \in Threads, NEW e \in Held(t)
    PROVE  e \in Entries /\ e.launch \in Nat \ {0}
           /\ (e = LastOf(t) \/ e.launch < LastOf(t).launch)
<1> DEFINE s == linker.entries[t]
<1>1. s \in Seq(Entries) /\ DOMAIN s = 1..Len(s) /\ Len(s) \in Nat
  BY DEF TypeInv, Linkers
<1>2. PICK i \in 1..Len(s) : e = s[i]
  BY <1>1 DEF Held, Seqs!ToSet
<1>3. e \in Entries /\ e.launch \in 1..launches /\ launches \in Nat
  BY <1>1, <1>2 DEF TableInv, TypeInv
<1>4. InOrder(s)
  BY DEF TableInv
<1>5. i = Len(s) \/ i < Len(s)
  BY <1>1
<1>6. Len(s) \in 1..Len(s)
  BY <1>1
<1>7. e = s[Len(s)] \/ e.launch < s[Len(s)].launch
  BY <1>1, <1>2, <1>4, <1>5, <1>6 DEF InOrder
<1> QED BY <1>3, <1>7 DEF LastOf

LEMMA EntryOfLaunch ==
    ASSUME TypeInv, TableInv, NEW t \in Threads, NEW u \in Threads,
           NEW e \in Held(t), NEW f \in Held(u), e.launch = f.launch
    PROVE  t = u /\ e = f
<1>1. t = u
  BY DEF TableInv
<1> DEFINE s == linker.entries[t]
<1>2. s \in Seq(Entries) /\ DOMAIN s = 1..Len(s) /\ Len(s) \in Nat /\ InOrder(s)
  BY DEF TypeInv, Linkers, TableInv
<1>3. PICK i \in 1..Len(s), j \in 1..Len(s) : e = s[i] /\ f = s[j]
  BY <1>1, <1>2 DEF Held, Seqs!ToSet
<1>4. e.launch \in Nat
  BY LastIsLatest
<1>5. i = j
  BY <1>2, <1>3, <1>4 DEF InOrder
<1> QED BY <1>1, <1>3, <1>5

\* A task takes a key that tells it from the others, or spoils it.
LEMMA KeyInvTask ==
    ASSUME TypeInv, TableInv, KeyInv, NEW t \in Threads, NEW key \in Keys, TaskInfo(t, key)
    PROVE  KeyInv'
<1> DEFINE last == LastOf(t)
           m    == last.launch
<1>1. PICK name \in {NoName, host[t].kernel} :
         /\ last \in Held(t) /\ last \in Entries /\ last.key = NoKey
         /\ TaskEntry(key, name, m) \in Held(t)'
         /\ \A e \in Held(t)' :
                \/ e = TaskEntry(key, name, m)
                \/ e \in Held(t) /\ e.launch < m
         /\ \A e \in Held(t) : e = last \/ e \in Held(t)'
         /\ \A u \in Threads \ {t} : Held(u)' = Held(u)
         /\ device' = [device EXCEPT ![key] =
                           [state |-> "queued", kernel |-> host[t].kernel, launch |-> m]]
  BY Completing
<1> DEFINE e0 == TaskEntry(key, name, m)
<1>2. e0.key = key /\ e0.name = name /\ e0.launch = m
  BY DEF TaskEntry
<1> HIDE DEF e0
<1>3. m \in Nat \ {0}
  BY <1>1, LastIsLatest
<1>4. /\ Telling' \subseteq Telling /\ Telling \subseteq Keys
      /\ NoKey \notin Keys
      /\ key \in Telling' => ~IsTaken(t, key)
      /\ Pending' = Pending /\ trace' = trace /\ trace = "on"
  BY LaunchesAssumption DEF Telling, TaskInfo, Pending, TypeInv, Launched
<1>5. device[key].launch = 0
  BY DEF TaskInfo, TypeInv, NoTask
<1>6. /\ device'[key].launch = m /\ device'[key].kernel = host[t].kernel
      /\ \A k \in Keys \ {key} : device'[k] = device[k]
  BY <1>1 DEF TypeInv
<1>7. ASSUME NEW u \in Threads, NEW e \in Held(u), e.key \in Keys PROVE e \in Held(u)'
  BY <1>1, <1>4, <1>7
<1>8. ASSUME NEW k \in Keys, NEW launch, NEW ran, HasEntry(k, launch, ran)
      PROVE  HasEntry(k, launch, ran)'
  BY <1>7, <1>8 DEF HasEntry
<1>9. ASSUME NEW u \in Threads, NEW e \in Held(u)'
      PROVE  (u = t /\ e = e0) \/ e \in Held(u)
  BY <1>1 DEF e0
<1>10. e0 \in Held(t)'
  BY <1>1 DEF e0
<1>11. ASSUME key \in Telling', NEW u \in Threads, NEW e \in Held(u), e.key = key
       PROVE  u = t /\ e.launch < m
  <2>1. u = t
    BY <1>4, <1>11 DEF IsTaken, Held
  <2>2. e # last
    BY <1>1, <1>4, <1>11
  <2> QED BY <2>1, <2>2, LastIsLatest
<1>12. ASSUME key \in Telling', NEW p \in DOMAIN Pending, Pending[p].key = key
       PROVE  Pending[p].launch # 0 /\ Pending[p].launch < m
  <2>1. Pending[p] \in Seqs!ToSet(buffer \o channel)
    BY DEF Pending, Seqs!ToSet
  <2>2. Pending[p].launch # 0
    BY <1>4, <1>12, <2>1 DEF IsTaken
  <2>3. HasEntry(key, Pending[p].launch, Pending[p].ran)
    BY <1>4, <1>12, <2>2 DEF KeyInv, LogsHaveEntries
  <2> QED BY <1>11, <1>12, <2>2, <2>3 DEF HasEntry
<1>13. OneThread'
  <2> SUFFICES ASSUME NEW u \in Threads, NEW v \in Threads,
                      NEW e \in Held(u)', NEW f \in Held(v)',
                      e.key = f.key, e.key \in Telling'
               PROVE  u = v
    BY DEF OneThread
  <2>1. CASE e.key = key
    BY <1>2, <1>9, <1>11, <2>1
  <2>2. CASE e.key # key
    <3>1. e \in Held(u) /\ f \in Held(v)
      BY <1>2, <1>9, <2>2
    <3> QED BY <1>4, <3>1 DEF KeyInv, OneThread
  <2> QED BY <2>1, <2>2
<1>14. TasksHaveEntries'
  <2> SUFFICES ASSUME NEW k \in Telling', device'[k].launch # 0
               PROVE  \E u \in Threads : \E e \in Held(u)' :
                          /\ e.key = k /\ e.launch = device'[k].launch
                          /\ e.name \in {NoName, device'[k].kernel}
    BY DEF TasksHaveEntries, HasEntry
  <2>1. CASE k = key
    BY <1>1, <1>2, <1>6, <1>10, <2>1
  <2>2. CASE k # key
    <3>1. k \in Keys /\ k \in Telling /\ device'[k] = device[k]
      BY <1>4, <1>6, <2>2
    <3>2. HasEntry(k, device[k].launch, device[k].kernel)
      BY <3>1 DEF KeyInv, TasksHaveEntries
    <3> QED BY <1>7, <3>1, <3>2 DEF HasEntry
  <2> QED BY <2>1, <2>2
<1>15. LogsHaveEntries'
  BY <1>4, <1>8 DEF KeyInv, LogsHaveEntries
<1>16. EndsAreLast'
  <2> SUFFICES ASSUME NEW p \in DOMAIN Pending, Pending[p].type = "KERNEL_END",
                      Pending[p].key \in Telling', Pending[p].launch # 0
               PROVE  /\ device'[Pending[p].key].launch # Pending[p].launch
                      /\ \A q \in DOMAIN Pending :
                             q > p /\ Pending[q].key = Pending[p].key =>
                                 Pending[q].launch # Pending[p].launch
    BY <1>4 DEF EndsAreLast
  <2>1. /\ device[Pending[p].key].launch # Pending[p].launch
        /\ \A q \in DOMAIN Pending : q > p /\ Pending[q].key = Pending[p].key =>
                                         Pending[q].launch # Pending[p].launch
    BY <1>4 DEF KeyInv, EndsAreLast
  <2>2. CASE Pending[p].key = key
    <3>1. Pending[p].launch < m
      BY <1>12, <2>2
    <3>2. Pending[p].launch \in Nat
      BY PendingType DEF Logs
    <3> QED BY <1>3, <1>6, <2>1, <2>2, <3>1, <3>2
  <2>3. CASE Pending[p].key # key
    BY <1>4, <1>6, <2>1, <2>3
  <2> QED BY <2>2, <2>3
<1>17. EndsComeFirst'
  <2> SUFFICES ASSUME NEW u \in Threads, NEW e \in Held(u)', NEW q \in DOMAIN Pending,
                      e.key \in Telling', Pending[q].key = e.key,
                      Pending[q].launch = 0 \/ Pending[q].launch > e.launch
               PROVE  \E p \in 1..(q - 1) : IsEndOf(Pending[p], e)
    BY <1>4 DEF EndsComeFirst, IsEndOf
  <2>1. CASE e \in Held(u)
    BY <1>4, <2>1 DEF KeyInv, EndsComeFirst
  <2>2. CASE e = e0
    <3>1. Pending[q].launch # 0 /\ Pending[q].launch < m
      BY <1>2, <1>12, <2>2
    <3>2. Pending[q].launch \in Nat
      BY PendingType DEF Logs
    <3> QED BY <1>2, <1>3, <2>2, <3>1, <3>2
  <2> QED BY <1>9, <2>1, <2>2
<1>18. EndsToCome'
  <2> SUFFICES ASSUME NEW u \in Threads, NEW e \in Held(u)', e.key \in Telling'
               PROVE  \/ device'[e.key].launch = e.launch
                      \/ \E p \in DOMAIN Pending : IsEndOf(Pending[p], e)
    BY <1>4 DEF EndsToCome, IsEndOf
  <2>1. CASE e = e0
    BY <1>2, <1>6, <2>1
  <2>2. CASE e \in Held(u)
    <3>1. \/ device[e.key].launch = e.launch
          \/ \E p \in DOMAIN Pending : IsEndOf(Pending[p], e)
      BY <1>4, <2>2 DEF KeyInv, EndsToCome
    <3>2. e.launch # 0
      BY <2>2, LastIsLatest
    <3> QED BY <1>4, <1>5, <1>6, <3>1, <3>2
  <2> QED BY <1>9, <2>1, <2>2
<1> QED BY <1>13, <1>14, <1>15, <1>16, <1>17, <1>18 DEF KeyInv

\* A task logs its begin or its end.
LEMMA KeyInvLogged ==
    ASSUME TypeInv, TableInv, KeyInv, SameTable, spoiled' = spoiled, trace' = trace,
           trace = "on", NEW key \in Keys, NEW type, Joins(Log(type, key)),
           \A k \in Keys \ {key} : device'[k] = device[k],
           \/ /\ type = "KERNEL_START"
              /\ device'[key].launch = device[key].launch
              /\ device'[key].kernel = device[key].kernel
           \/ type = "KERNEL_END" /\ device'[key].launch = 0
    PROVE  KeyInv'
<1> USE DEF SameTable
<1> DEFINE log == Log(type, key)
           n   == Len(Pending)
<1>1. /\ log.key = key /\ log.type = type
      /\ log.launch = device[key].launch /\ log.ran = device[key].kernel
  BY DEF Log
<1>2. /\ n \in Nat /\ DOMAIN Pending = 1..n /\ DOMAIN Pending' = 1..(n + 1)
      /\ Pending'[n + 1] = log /\ \A p \in 1..n : Pending'[p] = Pending[p]
  BY PendingType DEF Joins
<1> HIDE DEF log, n
<1>3. \A p \in 1..(n + 1) : p \in 1..n \/ p = n + 1
  BY <1>2
<1>4. Telling' = Telling /\ Telling \subseteq Keys
  BY DEF Telling
<1>5. ASSUME NEW k, NEW launch, NEW ran, HasEntry(k, launch, ran)
      PROVE  HasEntry(k, launch, ran)'
  BY <1>5 DEF HasEntry
<1>6. OneThread'
  BY <1>4 DEF KeyInv, OneThread
<1>7. TasksHaveEntries'
  <2> SUFFICES ASSUME NEW k \in Telling, device'[k].launch # 0
               PROVE  \E u \in Threads : \E e \in Held(u)' :
                          /\ e.key = k /\ e.launch = device'[k].launch
                          /\ e.name \in {NoName, device'[k].kernel}
    BY <1>4 DEF TasksHaveEntries, HasEntry
  <2>1. device'[k].launch = device[k].launch /\ device'[k].kernel = device[k].kernel
    BY <1>4
  <2>2. HasEntry(k, device[k].launch, device[k].kernel)
    BY <2>1 DEF KeyInv, TasksHaveEntries
  <2> QED BY <2>1, <2>2 DEF HasEntry
<1>8. LogsHaveEntries'
  <2> SUFFICES ASSUME NEW p \in 1..(n + 1), Pending'[p].key \in Telling,
                      Pending'[p].launch # 0
               PROVE  \E u \in Threads : \E e \in Held(u)' :
                          /\ e.key = Pending'[p].key /\ e.launch = Pending'[p].launch
                          /\ e.name \in {NoName, Pending'[p].ran}
    BY <1>2, <1>4 DEF LogsHaveEntries, HasEntry
  <2>1. CASE p \in 1..n
    <3>1. HasEntry(Pending[p].key, Pending[p].launch, Pending[p].ran)
      BY <1>2, <2>1 DEF KeyInv, LogsHaveEntries
    <3> QED BY <1>2, <2>1, <3>1 DEF HasEntry
  <2>2. CASE p = n + 1
    <3>1. HasEntry(key, device[key].launch, device[key].kernel)
      BY <1>1, <1>2, <2>2 DEF KeyInv, TasksHaveEntries
    <3> QED BY <1>1, <1>2, <2>2, <3>1 DEF HasEntry
  <2> QED BY <1>3, <2>1, <2>2
<1>9. EndsAreLast'
  <2> SUFFICES ASSUME NEW p \in 1..(n + 1), Pending'[p].type = "KERNEL_END",
                      Pending'[p].key \in Telling, Pending'[p].launch # 0
               PROVE  /\ device'[Pending'[p].key].launch # Pending'[p].launch
                      /\ \A q \in 1..(n + 1) :
                             q > p /\ Pending'[q].key = Pending'[p].key =>
                                 Pending'[q].launch # Pending'[p].launch
    BY <1>2, <1>4 DEF EndsAreLast
  <2>1. CASE p \in 1..n
    <3>1. /\ Pending'[p] = Pending[p]
          /\ device[Pending[p].key].launch # Pending[p].launch
          /\ \A q \in 1..n : q > p /\ Pending[q].key = Pending[p].key =>
                                 Pending[q].launch # Pending[p].launch
      BY <1>2, <2>1 DEF KeyInv, EndsAreLast
    <3>2. device'[Pending[p].key].launch # Pending[p].launch
      BY <1>4, <3>1
    <3>3. ASSUME NEW q \in 1..(n + 1), q > p, Pending'[q].key = Pending[p].key
          PROVE  Pending'[q].launch # Pending[p].launch
      <4>1. CASE q \in 1..n
        BY <1>2, <3>1, <3>3, <4>1
      <4>2. CASE q = n + 1
        BY <1>1, <1>2, <3>1, <3>3, <4>2
      <4> QED BY <1>3, <4>1, <4>2
    <3> QED BY <3>1, <3>2, <3>3
  <2>2. CASE p = n + 1
    <3>1. type = "KERNEL_END" /\ device'[key].launch = 0 /\ Pending'[p] = log
      BY <1>1, <1>2, <2>2
    <3>2. \A q \in 1..(n + 1) : ~(q > p)
      BY <1>2, <2>2
    <3> QED BY <1>1, <3>1, <3>2
  <2> QED BY <1>3, <2>1, <2>2
<1>10. EndsComeFirst'
  <2> SUFFICES ASSUME NEW u \in Threads, NEW e \in Held(u), NEW q \in 1..(n + 1),
                      e.key \in Telling, Pending'[q].key = e.key,
                      Pending'[q].launch = 0 \/ Pending'[q].launch > e.launch
               PROVE  \E p \in 1..(q - 1) : IsEndOf(Pending'[p], e)
    BY <1>2, <1>4 DEF EndsComeFirst, IsEndOf
  <2>1. CASE q \in 1..n
    <3>1. PICK p \in 1..(q - 1) : IsEndOf(Pending[p], e)
      BY <1>2, <2>1 DEF KeyInv, EndsComeFirst
    <3>2. p \in 1..n
      BY <1>2, <2>1
    <3> QED BY <1>2, <3>1, <3>2
  <2>2. CASE q = n + 1
    <3>1. e.key = key /\ (device[key].launch = 0 \/ device[key].launch > e.launch)
      BY <1>1, <1>2, <2>2
    <3>2. e.launch \in Nat \ {0}
      BY LastIsLatest
    <3>3. device[key].launch # e.launch
      BY <3>1, <3>2
    <3>4. PICK p \in 1..n : IsEndOf(Pending[p], e)
      BY <1>2, <3>1, <3>3 DEF KeyInv, EndsToCome
    <3>5. p \in 1..(q - 1)
      BY <1>2, <2>2
    <3> QED BY <1>2, <3>4, <3>5
  <2> QED BY <1>3, <2>1, <2>2
<1>11. EndsToCome'
  <2> SUFFICES ASSUME NEW u \in Threads, NEW e \in Held(u), e.key \in Telling
               PROVE  \/ device'[e.key].launch = e.launch
                      \/ \E p \in 1..(n + 1) : IsEndOf(Pending'[p], e)
    BY <1>2, <1>4 DEF EndsToCome, IsEndOf
  <2>1. CASE \E p \in 1..n : IsEndOf(Pending[p], e)
    <3>1. PICK p \in 1..n : IsEndOf(Pending[p], e)
      BY <2>1
    <3>2. p \in 1..(n + 1) /\ Pending'[p] = Pending[p]
      BY <1>2
    <3> QED BY <3>1, <3>2
  <2>2. CASE device[e.key].launch = e.launch
    <3>1. CASE e.key = key /\ type = "KERNEL_END"
      <4>1. n + 1 \in 1..(n + 1)
        BY <1>2
      <4> QED BY <1>1, <1>2, <2>2, <3>1, <4>1 DEF IsEndOf
    <3>2. CASE ~(e.key = key /\ type = "KERNEL_END")
      BY <1>4, <2>2, <3>2
    <3> QED BY <3>1, <3>2
  <2> QED BY <1>2, <2>1, <2>2 DEF KeyInv, EndsToCome
<1> QED BY <1>6, <1>7, <1>8, <1>9, <1>10, <1>11 DEF KeyInv

\* Logs are read; the keys of those that get lost are spoiled.
LEMMA KeyInvRead ==
    ASSUME TypeInv, TableInv, KeyInv, Read
    PROVE  KeyInv'
<1>1. spoiled \subseteq spoiled'
      /\ \E d \in 0..Len(Pending) :
             Leave(d) /\ \A p \in 1..d : Pending[p].key \in spoiled'
  BY Reading
<1>2. PICK d \in 0..Len(Pending) : Leave(d) /\ \A p \in 1..d : Pending[p].key \in spoiled'
  BY <1>1
<1> DEFINE n == Len(Pending)
<1>3. /\ n \in Nat /\ DOMAIN Pending = 1..n /\ DOMAIN Pending' = 1..(n - d)
      /\ d \in 0..n /\ \A p \in 1..(n - d) : Pending'[p] = Pending[p + d]
  BY <1>2, PendingType DEF Leave
<1> HIDE DEF n
<1>4. Telling' \subseteq Telling /\ Telling \subseteq Keys
  BY <1>1 DEF Telling
<1>5. linker' = linker /\ device' = device /\ trace' = trace
  BY DEF Read
<1>6. \A t \in Threads : Held(t)' = Held(t)
  BY <1>5 DEF Held
<1>7. \A p \in 1..(n - d) : p + d \in 1..n
  BY <1>3
<1>8. ASSUME NEW p \in 1..n, Pending[p].key \in Telling'
      PROVE  p - d \in 1..(n - d) /\ Pending'[p - d] = Pending[p]
  <2>1. p \notin 1..d
    BY <1>2, <1>8 DEF Telling
  <2>2. p - d \in 1..(n - d) /\ (p - d) + d = p
    BY <1>3, <2>1
  <2> QED BY <1>3, <2>2
<1>9. OneThread'
  BY <1>4, <1>6 DEF KeyInv, OneThread
<1>10. TasksHaveEntries'
  BY <1>4, <1>5, <1>6 DEF KeyInv, TasksHaveEntries, HasEntry
<1>11. LogsHaveEntries'
  <2> SUFFICES ASSUME NEW p \in 1..(n - d), Pending'[p].key \in Telling',
                      Pending'[p].launch # 0
               PROVE  \E u \in Threads : \E e \in Held(u)' :
                          /\ e.key = Pending'[p].key /\ e.launch = Pending'[p].launch
                          /\ e.name \in {NoName, Pending'[p].ran}
    BY <1>3 DEF LogsHaveEntries, HasEntry
  <2>1. HasEntry(Pending[p + d].key, Pending[p + d].launch, Pending[p + d].ran)
    BY <1>3, <1>4, <1>7 DEF KeyInv, LogsHaveEntries
  <2> QED BY <1>3, <1>6, <2>1 DEF HasEntry
<1>12. EndsAreLast'
  <2> SUFFICES ASSUME NEW p \in 1..(n - d), Pending'[p].type = "KERNEL_END",
                      Pending'[p].key \in Telling', Pending'[p].launch # 0
               PROVE  /\ device[Pending'[p].key].launch # Pending'[p].launch
                      /\ \A q \in 1..(n - d) :
                             q > p /\ Pending'[q].key = Pending'[p].key =>
                                 Pending'[q].launch # Pending'[p].launch
    BY <1>3, <1>5 DEF EndsAreLast
  <2>1. p + d \in 1..n /\ Pending'[p] = Pending[p + d]
    BY <1>3, <1>7
  <2>2. /\ device[Pending[p + d].key].launch # Pending[p + d].launch
        /\ \A q \in 1..n : q > p + d /\ Pending[q].key = Pending[p + d].key =>
                               Pending[q].launch # Pending[p + d].launch
    BY <1>3, <1>4, <2>1 DEF KeyInv, EndsAreLast
  <2>3. ASSUME NEW q \in 1..(n - d), q > p PROVE q + d > p + d /\ q + d \in 1..n
    BY <1>3, <1>7, <2>3
  <2> QED BY <1>3, <2>1, <2>2, <2>3
<1>13. EndsComeFirst'
  <2> SUFFICES ASSUME NEW u \in Threads, NEW e \in Held(u), NEW q \in 1..(n - d),
                      e.key \in Telling', Pending'[q].key = e.key,
                      Pending'[q].launch = 0 \/ Pending'[q].launch > e.launch
               PROVE  \E p \in 1..(q - 1) : IsEndOf(Pending'[p], e)
    BY <1>3, <1>6 DEF EndsComeFirst, IsEndOf
  <2>1. q + d \in 1..n /\ Pending'[q] = Pending[q + d]
    BY <1>3, <1>7
  <2>2. PICK p \in 1..((q + d) - 1) : IsEndOf(Pending[p], e)
    BY <1>3, <1>4, <2>1 DEF KeyInv, EndsComeFirst
  <2>3. p \in 1..n
    BY <1>3, <2>1
  <2>4. p - d \in 1..(n - d) /\ Pending'[p - d] = Pending[p]
    BY <1>8, <2>2, <2>3 DEF IsEndOf
  <2>5. p - d \in 1..(q - 1)
    BY <1>3, <2>4
  <2> QED BY <2>2, <2>4, <2>5
<1>14. EndsToCome'
  <2> SUFFICES ASSUME trace = "on", NEW u \in Threads, NEW e \in Held(u),
                      e.key \in Telling'
               PROVE  \/ device[e.key].launch = e.launch
                      \/ \E p \in 1..(n - d) : IsEndOf(Pending'[p], e)
    BY <1>3, <1>5, <1>6 DEF EndsToCome, IsEndOf
  <2>1. CASE \E p \in 1..n : IsEndOf(Pending[p], e)
    <3>1. PICK p \in 1..n : IsEndOf(Pending[p], e)
      BY <2>1
    <3>2. p - d \in 1..(n - d) /\ Pending'[p - d] = Pending[p]
      BY <1>8, <3>1 DEF IsEndOf
    <3> QED BY <3>1, <3>2
  <2> QED BY <1>3, <1>4, <2>1 DEF KeyInv, EndsToCome
<1> QED BY <1>9, <1>10, <1>11, <1>12, <1>13, <1>14 DEF KeyInv

\* So there is no older entry for the first log.
LEMMA NoneOlder ==
    ASSUME KeyInv, NEW t \in Threads, NEW e \in Held(t), e.key \in Telling,
           1 \in DOMAIN Pending, Pending[1].key = e.key,
           Pending[1].launch = 0 \/ Pending[1].launch > e.launch
    PROVE  FALSE
<1>1. \E p \in 1..(1 - 1) : IsEndOf(Pending[p], e)
  BY DEF KeyInv, EndsComeFirst
<1> QED BY <1>1

\* The entry that the reader finds for a log is the one of the launch that the log is of.
LEMMA FirstIsOwn ==
    ASSUME TypeInv, TableInv, KeyInv, buffer # <<>>, Head(buffer) = Pending[1],
           Len(Pending) \in Nat \ {0}, Head(buffer).key \in Telling,
           NEW t \in Threads, NEW i \in 1..Len(linker.entries[t]), IsFirst(t, i)
    PROVE  LET e == linker.entries[t][i]
           IN  /\ e.launch = Head(buffer).launch /\ e.name \in {NoName, Head(buffer).ran}
<1> DEFINE s == linker.entries[t]
           e == s[i]
           log == Pending[1]
<1>1. s \in Seq(Entries) /\ DOMAIN s = 1..Len(s) /\ Len(s) \in Nat /\ InOrder(s)
  BY DEF TypeInv, Linkers, TableInv
<1>2. e \in Held(t) /\ e.key = log.key /\ \A j \in 1..(i - 1) : s[j].key # log.key
  BY <1>1 DEF Held, Seqs!ToSet, IsFirst
<1>3. e.launch \in Nat \ {0}
  BY <1>2, LastIsLatest
<1>4. 1 \in DOMAIN Pending /\ log \in Logs
  BY PendingType
<1>5. ~(log.launch = 0 \/ log.launch > e.launch)
  <2> HIDE DEF e
  <2> QED BY <1>2, <1>4, NoneOlder
<1>13. PICK u \in Threads : \E f \in Held(u) :
          f.key = log.key /\ f.launch = log.launch /\ f.name \in {NoName, log.ran}
  BY <1>4, <1>5 DEF KeyInv, LogsHaveEntries, HasEntry
<1>6. PICK f \in Held(u) :
          f.key = log.key /\ f.launch = log.launch /\ f.name \in {NoName, log.ran}
  BY <1>13
<1>7. u = t
  BY <1>2, <1>6 DEF KeyInv, OneThread
<1>8. PICK j \in 1..Len(s) : f = s[j]
  BY <1>1, <1>6, <1>7 DEF Held, Seqs!ToSet
<1>9. j \notin 1..(i - 1)
  BY <1>2, <1>6, <1>8
<1>10. log.launch \in Nat
  BY <1>4 DEF Logs
<1>11. ~(i < j)
  <2> SUFFICES ASSUME i < j PROVE FALSE
    OBVIOUS
  <2>1. e.launch < f.launch
    BY <1>1, <1>8 DEF InOrder
  <2> QED BY <1>3, <1>5, <1>6, <1>10, <2>1
<1>12. i = j
  BY <1>1, <1>9, <1>11
<1> QED BY <1>6, <1>8, <1>12

\* The entry of a launch is among those that the reader looks through.
LEMMA EntryIsFirst ==
    ASSUME TypeInv, TableInv, KeyInv, buffer # <<>>, Head(buffer) = Pending[1],
           Len(Pending) \in Nat \ {0}, Head(buffer).key \in Telling,
           NEW t \in Threads, NEW e \in Held(t), IsEndOf(Head(buffer), e)
    PROVE  \E i \in 1..Len(linker.entries[t]) : linker.entries[t][i] = e /\ IsFirst(t, i)
<1> DEFINE s == linker.entries[t]
           log == Pending[1]
<1>1. s \in Seq(Entries) /\ DOMAIN s = 1..Len(s) /\ Len(s) \in Nat /\ InOrder(s)
  BY DEF TypeInv, Linkers, TableInv
<1>2. PICK i \in 1..Len(s) : e = s[i]
  BY <1>1 DEF Held, Seqs!ToSet
<1>3. e.key = log.key /\ e.launch = log.launch
  BY DEF IsEndOf
<1>4. ASSUME NEW j \in 1..(i - 1), s[j].key = log.key PROVE FALSE
  <2>1. j \in 1..Len(s) /\ j < i
    BY <1>1
  <2>2. s[j] \in Held(t) /\ s[j].launch < log.launch
    BY <1>1, <1>2, <1>3, <2>1 DEF Held, Seqs!ToSet, InOrder
  <2>3. 1 \in DOMAIN Pending
    BY PendingType
  <2>4. s[j].launch \in Nat /\ log.launch \in Nat
    BY <1>3, <2>2, LastIsLatest
  <2>5. log.launch > s[j].launch
    BY <2>2, <2>4
  <2> QED BY <1>4, <2>2, <2>3, <2>5, NoneOlder
<1> QED BY <1>2, <1>3, <1>4 DEF IsFirst

\* A log is handled: the end of a launch takes out the entry of that launch and no other.
LEMMA KeyInvHandled ==
    ASSUME TypeInv, TableInv, KeyInv, HandleLog
    PROVE  KeyInv'
<1>1. /\ Leave(1) /\ Head(buffer) = Pending[1] /\ Len(Pending) \in Nat \ {0}
      /\ buffer # <<>> /\ Head(buffer) \in Logs
  BY Popping, Handling
<1> DEFINE n == Len(Pending)
           log == Head(buffer)
<1>2. /\ n \in Nat \ {0} /\ DOMAIN Pending = 1..n /\ DOMAIN Pending' = 1..(n - 1)
      /\ \A p \in 1..(n - 1) : Pending'[p] = Pending[p + 1]
      /\ Pending[1] = log
  BY <1>1, PendingType DEF Leave
<1>3. \A p \in 1..(n - 1) : p + 1 \in 1..n
  BY <1>2
<1>4. 1 \in 1..n
  BY <1>2
<1>5. /\ Telling' = Telling /\ Telling \subseteq Keys
      /\ device' = device /\ trace' = trace
  BY DEF HandleLog, Telling
<1>6. \A t \in Threads : Held(t)' \subseteq Held(t)
  <2>1. CASE linker' = linker
    BY <2>1 DEF Held
  <2>2. ASSUME NEW t \in Threads, NEW i \in 1..Len(linker.entries[t]), Uses(t, i),
               log.type = "KERNEL_END"
        PROVE  \A u \in Threads : Held(u)' \subseteq Held(u)
    BY <2>2 DEF Uses
  <2> QED BY <2>1, <2>2, Handling DEF Uses
\* Only the entry of the log's own launch leaves, as far as keys tell.
<1>7. ASSUME NEW t \in Threads, NEW e \in Held(t), e.key \in Telling, e \notin Held(t)'
      PROVE  IsEndOf(log, e)
  <2>1. linker' # linker
    BY <1>7 DEF Held
  <2>2. PICK u \in Threads : \E i \in 1..Len(linker.entries[u]) : Uses(u, i)
    BY <2>1, Handling
  <2>3. PICK i \in 1..Len(linker.entries[u]) : Uses(u, i)
    BY <2>2
  <2>4. log.type = "KERNEL_END" /\ IsFirst(u, i)
    BY <2>1, <2>3 DEF Uses
  <2>5. u = t /\ e = linker.entries[u][i]
    BY <1>7, <2>3, <2>4 DEF Uses
  <2>6. e.key = log.key
    BY <2>4, <2>5 DEF IsFirst
  <2>7. e.launch = log.launch
    BY <1>1, <1>7, <2>4, <2>5, <2>6, FirstIsOwn
  <2> QED BY <2>4, <2>6, <2>7 DEF IsEndOf
\* And it does leave.
<1>8. ASSUME NEW t \in Threads, NEW e \in Held(t), e.key \in Telling, IsEndOf(log, e)
      PROVE  e \notin Held(t)'
  <2>1. log.key \in Telling /\ log.type = "KERNEL_END"
    BY <1>8 DEF IsEndOf
  <2>2. PICK j \in 1..Len(linker.entries[t]) : linker.entries[t][j] = e /\ IsFirst(t, j)
    BY <1>1, <1>8, <2>1, EntryIsFirst
  <2>3. PICK u \in Threads : \E i \in 1..Len(linker.entries[u]) : Uses(u, i)
    BY <2>2, Handling
  <2>4. PICK i \in 1..Len(linker.entries[u]) : Uses(u, i)
    BY <2>3
  <2> DEFINE f == linker.entries[u][i]
  <2>5. IsFirst(u, i) /\ Held(u)' = Held(u) \ {f}
    BY <2>1, <2>4 DEF Uses
  <2>6. f.launch = log.launch
    BY <1>1, <2>1, <2>5, FirstIsOwn
  <2>7. f \in Held(u)
    BY DEF TypeInv, Linkers, Held, Seqs!ToSet
  <2>8. u = t /\ f = e
    BY <1>8, <2>6, <2>7, EntryOfLaunch DEF IsEndOf
  <2> QED BY <2>5, <2>8
<1> HIDE DEF n, log
<1>9. OneThread'
  BY <1>5, <1>6 DEF KeyInv, OneThread
<1>10. TasksHaveEntries'
  <2> SUFFICES ASSUME NEW k \in Telling, device[k].launch # 0
               PROVE  \E u \in Threads : \E e \in Held(u)' :
                          /\ e.key = k /\ e.launch = device[k].launch
                          /\ e.name \in {NoName, device[k].kernel}
    BY <1>5 DEF TasksHaveEntries, HasEntry
  <2>4. PICK u \in Threads : \E e \in Held(u) :
            /\ e.key = k /\ e.launch = device[k].launch
            /\ e.name \in {NoName, device[k].kernel}
    BY DEF KeyInv, TasksHaveEntries, HasEntry
  <2>1. PICK e \in Held(u) :
            /\ e.key = k /\ e.launch = device[k].launch
            /\ e.name \in {NoName, device[k].kernel}
    BY <2>4
  <2>2. ~IsEndOf(log, e)
    BY <1>2, <1>4, <2>1 DEF KeyInv, EndsAreLast, IsEndOf
  <2> QED BY <1>7, <2>1, <2>2
<1>11. LogsHaveEntries'
  <2> SUFFICES ASSUME NEW p \in 1..(n - 1), Pending'[p].key \in Telling,
                      Pending'[p].launch # 0
               PROVE  \E u \in Threads : \E e \in Held(u)' :
                          /\ e.key = Pending'[p].key /\ e.launch = Pending'[p].launch
                          /\ e.name \in {NoName, Pending'[p].ran}
    BY <1>2, <1>5 DEF LogsHaveEntries, HasEntry
  <2>1. p + 1 \in 1..n /\ Pending'[p] = Pending[p + 1] /\ p + 1 > 1
    BY <1>2, <1>3
  <2>4. PICK u \in Threads : \E e \in Held(u) :
            /\ e.key = Pending'[p].key /\ e.launch = Pending'[p].launch
            /\ e.name \in {NoName, Pending'[p].ran}
    BY <1>2, <2>1 DEF KeyInv, LogsHaveEntries, HasEntry
  <2>2. PICK e \in Held(u) :
            /\ e.key = Pending'[p].key /\ e.launch = Pending'[p].launch
            /\ e.name \in {NoName, Pending'[p].ran}
    BY <2>4
  <2>3. ~IsEndOf(log, e)
    <3> SUFFICES ASSUME IsEndOf(log, e) PROVE FALSE
      OBVIOUS
    <3>1. log.type = "KERNEL_END" /\ log.key = Pending[p + 1].key
          /\ log.launch = Pending[p + 1].launch /\ log.key \in Telling /\ log.launch # 0
      BY <2>1, <2>2 DEF IsEndOf
    <3> QED BY <1>2, <1>4, <2>1, <3>1 DEF KeyInv, EndsAreLast
  <2> QED BY <1>7, <2>2, <2>3
<1>12. EndsAreLast'
  <2> SUFFICES ASSUME NEW p \in 1..(n - 1), Pending'[p].type = "KERNEL_END",
                      Pending'[p].key \in Telling, Pending'[p].launch # 0
               PROVE  /\ device[Pending'[p].key].launch # Pending'[p].launch
                      /\ \A q \in 1..(n - 1) :
                             q > p /\ Pending'[q].key = Pending'[p].key =>
                                 Pending'[q].launch # Pending'[p].launch
    BY <1>2, <1>5 DEF EndsAreLast
  <2>1. p + 1 \in 1..n /\ Pending'[p] = Pending[p + 1]
    BY <1>2, <1>3
  <2>2. /\ device[Pending[p + 1].key].launch # Pending[p + 1].launch
        /\ \A q \in 1..n : q > p + 1 /\ Pending[q].key = Pending[p + 1].key =>
                               Pending[q].launch # Pending[p + 1].launch
    BY <1>2, <2>1 DEF KeyInv, EndsAreLast
  <2>3. ASSUME NEW q \in 1..(n - 1), q > p PROVE q + 1 > p + 1 /\ q + 1 \in 1..n
    BY <1>3, <2>3
  <2> QED BY <1>2, <2>1, <2>2, <2>3
<1>13. EndsComeFirst'
  <2> SUFFICES ASSUME NEW u \in Threads, NEW e \in Held(u)', NEW q \in 1..(n - 1),
                      e.key \in Telling, Pending'[q].key = e.key,
                      Pending'[q].launch = 0 \/ Pending'[q].launch > e.launch
               PROVE  \E p \in 1..(q - 1) : IsEndOf(Pending'[p], e)
    BY <1>2, <1>5 DEF EndsComeFirst, IsEndOf
  <2>1. q + 1 \in 1..n /\ Pending'[q] = Pending[q + 1] /\ e \in Held(u)
    BY <1>2, <1>3, <1>6
  <2>2. PICK p \in 1..((q + 1) - 1) : IsEndOf(Pending[p], e)
    BY <1>2, <2>1 DEF KeyInv, EndsComeFirst
  <2>3. p # 1
    BY <1>2, <1>8, <2>1, <2>2
  <2>4. p - 1 \in 1..(q - 1) /\ p - 1 \in 1..(n - 1) /\ (p - 1) + 1 = p
    BY <1>2, <2>3
  <2>5. Pending'[p - 1] = Pending[p]
    BY <1>2, <2>4
  <2> QED BY <2>2, <2>4, <2>5
<1>14. EndsToCome'
  <2> SUFFICES ASSUME trace = "on", NEW u \in Threads, NEW e \in Held(u)',
                      e.key \in Telling
               PROVE  \/ device[e.key].launch = e.launch
                      \/ \E p \in 1..(n - 1) : IsEndOf(Pending'[p], e)
    BY <1>2, <1>5 DEF EndsToCome, IsEndOf
  <2>1. e \in Held(u)
    BY <1>6
  <2>2. CASE \E p \in 1..n : IsEndOf(Pending[p], e)
    <3>1. PICK p \in 1..n : IsEndOf(Pending[p], e)
      BY <2>2
    <3>2. p # 1
      BY <1>2, <1>8, <2>1, <3>1
    <3>3. p - 1 \in 1..(n - 1) /\ (p - 1) + 1 = p
      BY <1>2, <3>2
    <3>4. Pending'[p - 1] = Pending[p]
      BY <1>2, <3>3
    <3> QED BY <3>1, <3>3, <3>4
  <2> QED BY <1>2, <2>1, <2>2 DEF KeyInv, EndsToCome
<1> QED BY <1>9, <1>10, <1>11, <1>12, <1>13, <1>14 DEF KeyInv

LEMMA KeyInvStep == TypeInv /\ TableInv /\ KeyInv /\ [Next]_vars => KeyInv'
<1> SUFFICES ASSUME TypeInv, TableInv, KeyInv, [Next]_vars PROVE KeyInv'
  OBVIOUS
<1>1. ASSUME Still, UNCHANGED <<device, channel, buffer, spoiled>> PROVE KeyInv'
  <2>1. SameTable /\ SameTasks /\ Pending' = Pending /\ spoiled' = spoiled
        /\ (trace' = "on" => trace = "on")
    BY <1>1 DEF Still, SameTable, SameTasks, Held, Pending
  <2> QED BY <2>1, KeyInvSame
<1>2. CASE Quiet
  BY <1>1, <1>2, StillSteps DEF Quiet, traceVars
<1>3. ASSUME NEW t \in Threads, RegisterHash(t) PROVE KeyInv'
  BY <1>1, <1>3, StillSteps DEF RegisterHash
<1>4. CASE AclFinalize
  BY <1>1, <1>4, StillSteps DEF AclFinalize
<1>5. ASSUME NEW key \in Keys, OtherTask(key) PROVE KeyInv'
  <2>1. device' = [device EXCEPT ![key].state = "queued"]
    BY <1>5 DEF OtherTask
  <2>2. SameTasks
    BY <2>1 DEF SameTasks, TypeInv, Tasks
  <2>3. SameTable /\ Pending' = Pending /\ spoiled' = spoiled /\ trace' = trace
    BY <1>5 DEF OtherTask, SameTable, Held, Pending
  <2> QED BY <2>2, <2>3, KeyInvSame
<1>6. ASSUME NEW key \in Keys, StartTask(key) PROVE KeyInv'
  <2>1. device' = [device EXCEPT ![key].state = "running"]
    BY <1>6 DEF StartTask
  <2>2. SameTasks /\ \A k \in Keys \ {key} : device'[k] = device[k]
    BY <2>1 DEF SameTasks, TypeInv, Tasks
  <2>3. SameTable /\ spoiled' = spoiled /\ trace' = trace /\ buffer' = buffer
    BY <1>6 DEF StartTask, SameTable, Held
  <2>4. CASE trace = "on"
    <3>1. channel' = Append(channel, Log("KERNEL_START", key))
      BY <1>6, <2>4 DEF StartTask, Logged
    <3>2. Joins(Log("KERNEL_START", key))
      BY <2>3, <3>1, LogType, Joining
    <3> QED BY <2>2, <2>3, <2>4, <3>2, KeyInvLogged DEF SameTasks
  <2>5. CASE trace # "on"
    <3>1. Pending' = Pending
      BY <1>6, <2>5 DEF StartTask, Logged, Pending
    <3> QED BY <2>2, <2>3, <3>1, KeyInvSame
  <2> QED BY <2>4, <2>5
<1>7. ASSUME NEW key \in Keys, FinishTask(key) PROVE KeyInv'
  <2>1. device' = [device EXCEPT ![key] = NoTask]
    BY <1>7 DEF FinishTask
  <2>2. device'[key].launch = 0 /\ \A k \in Keys \ {key} : device'[k] = device[k]
    BY <2>1 DEF TypeInv, NoTask
  <2>3. SameTable /\ spoiled' = spoiled /\ trace' = trace /\ buffer' = buffer
    BY <1>7 DEF FinishTask, SameTable, Held
  <2>4. CASE trace = "on"
    <3>1. channel' = Append(channel, Log("KERNEL_END", key))
      BY <1>7, <2>4 DEF FinishTask, Logged
    <3>2. Joins(Log("KERNEL_END", key))
      BY <2>3, <3>1, LogType, Joining
    <3> QED BY <2>2, <2>3, <2>4, <3>2, KeyInvLogged
  <2>5. CASE trace # "on"
    <3>1. Pending' = Pending /\ Telling' = Telling /\ Telling \subseteq Keys
      BY <1>7, <2>5 DEF FinishTask, Logged, Pending, Telling
    <3>2. \A k, launch, ran : HasEntry(k, launch, ran) => HasEntry(k, launch, ran)'
      BY <2>3 DEF HasEntry, SameTable
    <3>3. OneThread'
      BY <2>3, <3>1 DEF KeyInv, OneThread, SameTable
    <3>4. TasksHaveEntries'
      <4> SUFFICES ASSUME NEW k \in Telling, device'[k].launch # 0
                   PROVE  \E u \in Threads : \E e \in Held(u)' :
                              /\ e.key = k /\ e.launch = device'[k].launch
                              /\ e.name \in {NoName, device'[k].kernel}
        BY <3>1 DEF TasksHaveEntries, HasEntry
      <4>1. device'[k] = device[k]
        BY <2>2, <3>1
      <4>2. HasEntry(k, device[k].launch, device[k].kernel)
        BY <4>1 DEF KeyInv, TasksHaveEntries
      <4> QED BY <2>3, <4>1, <4>2 DEF HasEntry, SameTable
    <3>5. LogsHaveEntries'
      BY <3>1, <3>2 DEF KeyInv, LogsHaveEntries
    <3>6. EndsAreLast'
      <4> SUFFICES ASSUME NEW p \in DOMAIN Pending, Pending[p].type = "KERNEL_END",
                          Pending[p].key \in Telling, Pending[p].launch # 0
                   PROVE  device'[Pending[p].key].launch # Pending[p].launch
        BY <3>1 DEF KeyInv, EndsAreLast
      <4>1. device[Pending[p].key].launch # Pending[p].launch
        BY DEF KeyInv, EndsAreLast
      <4> QED BY <2>2, <3>1, <4>1
    <3>7. EndsComeFirst'
      BY <2>3, <3>1 DEF KeyInv, EndsComeFirst, IsEndOf, SameTable
    <3>8. EndsToCome'
      BY <2>3, <2>5 DEF EndsToCome
    <3> QED BY <3>3, <3>4, <3>5, <3>6, <3>7, <3>8 DEF KeyInv
  <2> QED BY <2>4, <2>5
<1>8. ASSUME NEW t \in Threads, NEW k \in Kernels, LaunchKernel(t, k) PROVE KeyInv'
  BY <1>8, KeyInvLaunch
<1>9. ASSUME NEW t \in Threads, NEW key \in Keys, TaskInfo(t, key) PROVE KeyInv'
  BY <1>9, KeyInvTask
<1>10. CASE Read
  BY <1>10, KeyInvRead
<1>11. CASE HandleLog
  BY <1>11, KeyInvHandled
<1> QED
  BY <1>2, <1>3, <1>4, <1>5, <1>6, <1>7, <1>8, <1>9, <1>10, <1>11, Steps DEF Busy

------------------------------------------------------------------------------------
\* Rows name their launch

LEMMA InitKeyInv == Init => TypeInv /\ TableInv /\ KeyInv
<1> SUFFICES ASSUME Init PROVE TypeInv /\ TableInv /\ KeyInv
  OBVIOUS
<1>1. linker = [entries |-> [t \in Threads |-> <<>>], last |-> [t \in Threads |-> NoName],
                known |-> {}]
  BY DEF Init, NewLinker
<1>2. linker \in Linkers /\ \A t \in Threads : linker.entries[t] = <<>>
  BY <1>1 DEF Linkers
<1>3. host \in [Threads -> HostStates] /\ \A t \in Threads : ~Launched(t)
  BY DEF Init, HostStates, Idle, Launched
<1>4. device \in [Keys -> Tasks] /\ \A key \in Keys : device[key] = NoTask
  BY DEF Init, Tasks, NoTask
<1>5. TypeInv
  BY <1>2, <1>3, <1>4 DEF Init, TypeInv
<1>6. \A t \in Threads : Held(t) = {}
  BY <1>2 DEF Held, Seqs!ToSet
<1>7. TableInv
  BY <1>2, <1>3, <1>6 DEF TableInv, InOrder
<1>8. DOMAIN Pending = {}
  BY DEF Init, Pending
<1>9. KeyInv
  BY <1>4, <1>6, <1>8 DEF KeyInv, OneThread, TasksHaveEntries, LogsHaveEntries, EndsAreLast,
     EndsComeFirst, EndsToCome, Telling, NoTask
<1> QED BY <1>5, <1>7, <1>9

LEMMA NamedRows ==
    ASSUME NEW condition, NEW type, NEW key, NEW name, NEW ran,
           NEW row \in Rows(condition, type, key, name, ran)
    PROVE  row.key = key /\ row.name = name /\ row.ran = ran
  BY DEF Rows

LEMMA RowsStep ==
    TypeInv /\ TableInv /\ KeyInv /\ RowsNameTheirLaunch /\ [Next]_vars
        => RowsNameTheirLaunch'
<1> SUFFICES ASSUME TypeInv, TableInv, KeyInv, RowsNameTheirLaunch, [Next]_vars
             PROVE  RowsNameTheirLaunch'
  OBVIOUS
<1>1. CASE UNCHANGED vars
  BY <1>1 DEF vars, RowsNameTheirLaunch
<1>2. ASSUME reported' = {} PROVE RowsNameTheirLaunch'
  BY <1>2 DEF RowsNameTheirLaunch
<1>3. ASSUME \A row \in reported' : row.name = row.ran PROVE RowsNameTheirLaunch'
  BY <1>3 DEF RowsNameTheirLaunch
<1>4. ASSUME NEW t \in Threads, NEW op \in Ops, OpBegin(t, op) PROVE RowsNameTheirLaunch'
  <2>1. \A row \in OpRows("ATB_START", op) : row.name = row.ran
    BY DEF OpRows, ReportAtbOpExecute, MemScopeReportTensors, ReportAtbAccessMemory, Rows
  <2> QED BY <1>3, <1>4, <2>1 DEF OpBegin
<1>5. ASSUME NEW t \in Threads, OpEnd(t) PROVE RowsNameTheirLaunch'
  <2>1. \A op : \A row \in OpRows("ATB_END", op) : row.name = row.ran
    BY DEF OpRows, ReportAtbOpExecute, MemScopeReportTensors, ReportAtbAccessMemory, Rows
  <2> QED BY <1>3, <1>5, <2>1 DEF OpEnd
<1>6. \A type, k : \A row \in KernelRows(type, k) : row.name = row.ran
  BY DEF KernelRows, ReportAtbKernel, MemScopeReportTensors, ReportAtbAccessMemory, Rows
<1>7. ASSUME NEW t \in Threads, NEW k \in AtbKernels, AtbBefore(t, k)
      PROVE  RowsNameTheirLaunch'
  BY <1>3, <1>6, <1>7 DEF AtbBefore
<1>8. ASSUME NEW t \in Threads, AtbAfter(t) PROVE RowsNameTheirLaunch'
  BY <1>3, <1>6, <1>8 DEF AtbAfter
<1>9. ASSUME NEW t \in Threads, NEW key \in Keys, TaskInfo(t, key) PROVE RowsNameTheirLaunch'
  <2>1. PICK name \in {NoName, host[t].kernel} : linker'.last[t] = name
    BY <1>9, Completing
  <2>2. reported' = ReportKernelLaunch(key, name, host[t].kernel)
    BY <1>9, <2>1 DEF TaskInfo
  <2>3. \A row \in reported' : row.name = name /\ row.ran = host[t].kernel
    BY <2>2 DEF ReportKernelLaunch, Rows
  <2> QED BY <2>1, <2>3 DEF RowsNameTheirLaunch
<1>10. CASE HandleLog
  <2>1. CASE reported' = {}
    BY <1>2, <2>1
  <2>2. ASSUME NEW t \in Threads, NEW i \in 1..Len(linker.entries[t]), Uses(t, i)
        PROVE  RowsNameTheirLaunch'
    <3> DEFINE log == Head(buffer)
               name == linker.entries[t][i].name
    <3>1. reported' = IF name = NoName THEN {}
                      ELSE ReportKernelExcute(log.type, log.key, name, log.ran)
      BY <2>2 DEF Uses
    <3>2. ASSUME NEW row \in reported'
          PROVE  row.key = log.key /\ row.name = name /\ row.ran = log.ran
      BY <3>1, <3>2 DEF ReportKernelExcute, Rows
    <3>3. log.key \in Telling => name \in {NoName, log.ran}
      BY <1>10, <2>2, Popping, Handling, FirstIsOwn DEF Uses
    <3>4. log.key \in Keys /\ spoiled' = spoiled
      BY <1>10, Handling DEF HandleLog, Logs
    <3> QED BY <3>2, <3>3, <3>4 DEF RowsNameTheirLaunch, Telling
  <2> QED BY <1>10, <2>1, <2>2, Handling
<1>11. ASSUME \/ \E t \in Threads : \/ \E k \in Kernels : LaunchKernel(t, k)
                                    \/ RegisterHash(t) \/ KernelReturn(t)
              \/ \E key \in Keys : OtherTask(key) \/ StartTask(key) \/ FinishTask(key)
              \/ Read \/ AclFinalize \/ SwitchTracing
       PROVE  RowsNameTheirLaunch'
  <2>1. reported' = {}
    BY <1>11 DEF LaunchKernel, RegisterHash, KernelReturn, OtherTask, StartTask, FinishTask,
                 Read, AclFinalize, SwitchTracing
  <2> QED BY <1>2, <2>1
<1>12. CASE WatcherCalls
  BY <1>2, <1>12, WatcherQuiet
<1> QED
  BY <1>1, <1>4, <1>5, <1>7, <1>8, <1>9, <1>10, <1>11, <1>12
  DEF Next, Host, WatcherCalls

\* Every row that the tool writes of a kernel carries the name of the kernel that was
\* launched, or that the device ran, as this task, or no name at all: whatever the threads
\* launch, the order in which the device runs it, when the logs are read and what is lost.
\* Excepted are the keys that no longer tell one launch from another.
THEOREM RowsNamed == Spec => []RowsNameTheirLaunch
<1>1. Init => RowsNameTheirLaunch
  BY DEF Init, RowsNameTheirLaunch
<1> QED BY <1>1, InitKeyInv, TypeInvStep, TableInvStep, KeyInvStep, RowsStep, PTL DEF Spec

------------------------------------------------------------------------------------
\* What the operations of the watch do to its counters

WatchFields == {"watched", "firstCnt", "count", "outputId", "repeat", "cmd", "cmdOutput",
                "python", "nums", "names"}

IsWatch(w) == DOMAIN w = WatchFields /\ w = [f \in WatchFields |-> w[f]]

Counts(w) == <<w.count, w.firstCnt, w.repeat>>

\* The counters and the window stay.
Kept(w, o) == IsWatch(o) /\ Counts(o) = Counts(w) /\ o.watched = w.watched

LEMMA FieldSet ==
    ASSUME NEW w, IsWatch(w), NEW v
    PROVE  /\ Kept(w, [w EXCEPT !.nums = v]) /\ Kept(w, [w EXCEPT !.names = v])
           /\ Kept(w, [w EXCEPT !.python = v]) /\ Kept(w, [w EXCEPT !.cmd = v])
           /\ Kept(w, [w EXCEPT !.cmdOutput = v]) /\ Kept(w, [w EXCEPT !.outputId = v])
<1>1. Kept(w, [w EXCEPT !.nums = v]) /\ Kept(w, [w EXCEPT !.names = v])
  BY DEF IsWatch, WatchFields, Counts, Kept
<1>2. Kept(w, [w EXCEPT !.python = v]) /\ Kept(w, [w EXCEPT !.cmd = v])
  BY DEF IsWatch, WatchFields, Counts, Kept
<1>3. Kept(w, [w EXCEPT !.cmdOutput = v]) /\ Kept(w, [w EXCEPT !.outputId = v])
  BY DEF IsWatch, WatchFields, Counts, Kept
<1> QED BY <1>1, <1>2, <1>3

LEMMA CounterSet ==
    ASSUME NEW w, IsWatch(w), NEW v
    PROVE  /\ LET o == [w EXCEPT !.watched = v]
              IN  IsWatch(o) /\ Counts(o) = Counts(w) /\ o.watched = v
           /\ LET o == [w EXCEPT !.repeat = v]
              IN  IsWatch(o) /\ Counts(o) = <<w.count, w.firstCnt, v>> /\ o.watched = w.watched
           /\ LET o == [w EXCEPT !.count = v]
              IN  IsWatch(o) /\ Counts(o) = <<v, w.firstCnt, w.repeat>> /\ o.watched = w.watched
           /\ LET o == [w EXCEPT !.firstCnt = v]
              IN  IsWatch(o) /\ Counts(o) = <<w.count, v, w.repeat>> /\ o.watched = w.watched
<1>1. LET o == [w EXCEPT !.watched = v]
      IN  IsWatch(o) /\ Counts(o) = Counts(w) /\ o.watched = v
  BY DEF IsWatch, WatchFields, Counts
<1>2. LET o == [w EXCEPT !.repeat = v]
      IN  IsWatch(o) /\ Counts(o) = <<w.count, w.firstCnt, v>> /\ o.watched = w.watched
  BY DEF IsWatch, WatchFields, Counts
<1>3. LET o == [w EXCEPT !.count = v]
      IN  IsWatch(o) /\ Counts(o) = <<v, w.firstCnt, w.repeat>> /\ o.watched = w.watched
  BY DEF IsWatch, WatchFields, Counts
<1>4. LET o == [w EXCEPT !.firstCnt = v]
      IN  IsWatch(o) /\ Counts(o) = <<w.count, v, w.repeat>> /\ o.watched = w.watched
  BY DEF IsWatch, WatchFields, Counts
<1> QED BY <1>1, <1>2, <1>3, <1>4

\* The steps of watch() and remove().
LEMMA WatcherKeeps ==
    ASSUME NEW w, IsWatch(w), NEW tensor, NEW n
    PROVE  /\ Kept(w, SetDumpNums(w, tensor, n)) /\ Kept(w, SetDumpName(w, tensor, n))
           /\ Kept(w, AddWatchTensor(w, tensor)) /\ Kept(w, DeleteDumpNums(w, tensor))
           /\ Kept(w, DeleteDumpName(w, tensor)) /\ Kept(w, DeleteWatchTensor(w, tensor))
<1>1. Kept(w, SetDumpNums(w, tensor, n)) /\ Kept(w, SetDumpName(w, tensor, n))
  BY FieldSet DEF SetDumpNums, SetDumpName
<1>2. Kept(w, AddWatchTensor(w, tensor)) /\ Kept(w, DeleteDumpNums(w, tensor))
  BY FieldSet DEF AddWatchTensor, DeleteDumpNums
<1>3. Kept(w, DeleteDumpName(w, tensor)) /\ Kept(w, DeleteWatchTensor(w, tensor))
  BY FieldSet DEF DeleteDumpName, DeleteWatchTensor
<1> QED BY <1>1, <1>2, <1>3

\* The files of a call of an item on a thread.
FilesOf(files, t, item, call, when) ==
    \A f \in files : f.thread = t /\ f.item = item /\ f.call = call /\ f.when = when

LEMMA OneDump ==
    ASSUME NEW w, IsWatch(w), NEW t, NEW item, NEW call, NEW when,
           NEW o \in Dump(w, Label(t, item, call), when)
    PROVE  Kept(w, o.watch) /\ FilesOf(o.files, t, item, call, when)
<1> DEFINE label == Label(t, item, call)
           Files(ids, reached) == {FileOf(label, w.watched, i, when) : i \in ids}
                                  \cup {FileOf(label, GetDumpName(w, u), 0, when) : u \in reached}
<1>1. PICK ready \in Reached(w) :
          \E ids : o = [watch |-> Counted(w, ready), files |-> Files(ids, ready)]
  BY Zenon DEF Dump
<1>2. \A of, index : LET f == FileOf(label, of, index, when)
                     IN  f.thread = t /\ f.item = item /\ f.call = call /\ f.when = when
  BY DEF FileOf, Label
<1>3. \A ids, reached : FilesOf(Files(ids, reached), t, item, call, when)
  BY <1>2 DEF FilesOf
<1>4. Kept(w, Counted(w, ready))
  BY FieldSet DEF Counted
<1> HIDE DEF Files
<1> QED BY <1>1, <1>3, <1>4

\* An outcome of the begin of an item, and of its end.
Begins(w, t, item, o) ==
    /\ IsWatch(o.watch) /\ o.watch.watched = w.watched
    /\ Counts(o.watch) = <<[w.count EXCEPT ![item] = @ + 1], w.firstCnt, w.repeat>>
    /\ FilesOf(o.files, t, item, w.count[item] + 1, "before")

Ends(w, t, item, o) ==
    /\ IsWatch(o.watch) /\ o.watch.count = w.count /\ o.watch.repeat = w.repeat
    /\ IF OpensWindow(w, item)
       THEN /\ o.watch.watched = item /\ o.watch.firstCnt = w.firstCnt + 1
            /\ FilesOf(o.files, t, item, w.firstCnt, "after")
       ELSE /\ o.watch.watched \in {w.watched, NoTarget} /\ o.watch.firstCnt = w.firstCnt
            /\ FilesOf(o.files, t, item, w.count[item], "after")

LEMMA NoFiles ==
    ASSUME NEW w, IsWatch(w), NEW o \in NoDump(w)
    PROVE  o.watch = w /\ o.files = {} /\ Kept(w, o.watch)
  BY DEF NoDump, Kept

LEMMA Beginning ==
    ASSUME NEW w, IsWatch(w), NEW t, NEW item \in Items, w.count \in [Items -> Nat],
           NEW o \in BeginExcute(w, t, item)
    PROVE  Begins(w, t, item, o)
<1> DEFINE counted == CountOpName(w, item)
           count == [w.count EXCEPT ![item] = @ + 1]
<1>1. counted = [w EXCEPT !.count = count]
  BY DEF CountOpName
<1>2. IsWatch(counted) /\ Counts(counted) = <<count, w.firstCnt, w.repeat>>
      /\ counted.watched = w.watched
  <2> HIDE DEF count, counted
  <2> QED BY <1>1, CounterSet
<1>3. counted.count[item] = w.count[item] + 1
  BY <1>2 DEF Counts
<1> HIDE DEF counted
<1>4. CASE o \in Dump(counted, Label(t, item, counted.count[item]), "before")
  <2>1. Kept(counted, o.watch) /\ FilesOf(o.files, t, item, counted.count[item], "before")
    BY <1>2, <1>4, OneDump
  <2> QED BY <1>2, <1>3, <2>1 DEF Kept, Begins
<1>5. CASE o \in NoDump(counted)
  <2>1. Kept(counted, o.watch) /\ o.files = {}
    BY <1>2, <1>5, NoFiles
  <2>2. FilesOf(o.files, t, item, w.count[item] + 1, "before")
    BY <2>1 DEF FilesOf
  <2> QED BY <1>2, <2>1, <2>2 DEF Kept, Begins
<1>6. o \in Dump(counted, Label(t, item, counted.count[item]), "before") \/ o \in NoDump(counted)
  BY DEF BeginExcute, counted
<1> QED BY <1>4, <1>5, <1>6

LEMMA Ending ==
    ASSUME NEW w, IsWatch(w), NEW t, NEW item, NEW outputs, NEW outputId,
           NEW o \in EndExcute(w, t, item, outputs, outputId)
    PROVE  Ends(w, t, item, o)
<1> DEFINE o1 == [w EXCEPT !.watched = item]
           o2 == [o1 EXCEPT !.firstCnt = w.firstCnt + 1]
           o3 == [o2 EXCEPT !.cmdOutput = outputId]
           opened == [o3 EXCEPT !.cmd = w.cmd \cup outputs]
           label  == Label(t, item, w.count[item])
<1>1. IsWatch(o1) /\ Counts(o1) = Counts(w) /\ o1.watched = item
  BY CounterSet
<1>2. IsWatch(o2) /\ Counts(o2) = <<o1.count, w.firstCnt + 1, o1.repeat>> /\ o2.watched = item
  <2> HIDE DEF o1
  <2> QED BY <1>1, CounterSet
<1>3. Kept(o2, o3)
  <2> HIDE DEF o2
  <2> QED BY <1>2, FieldSet
<1>4. Kept(o3, opened)
  <2> HIDE DEF o3
  <2> QED BY <1>3, FieldSet DEF Kept
<1>5. opened = [w EXCEPT !.watched = item, !.firstCnt = @ + 1, !.cmdOutput = outputId,
                         !.cmd = @ \cup outputs]
  BY DEF IsWatch, WatchFields
<1> HIDE DEF opened, o1, o2, o3
<1>6. IsWatch(opened) /\ Counts(opened) = <<w.count, w.firstCnt + 1, w.repeat>>
      /\ opened.watched = item
  BY <1>1, <1>2, <1>3, <1>4 DEF Kept, Counts
<1>7. CASE OpensWindow(w, item)
  <2>1. o \in Dump(opened, Label(t, item, w.firstCnt), "after")
    BY <1>5, <1>7 DEF EndExcute
  <2>2. Kept(opened, o.watch) /\ FilesOf(o.files, t, item, w.firstCnt, "after")
    BY <1>6, <2>1, OneDump
  <2> QED BY <1>6, <1>7, <2>2 DEF Kept, Counts, Ends
<1>8. CASE ~OpensWindow(w, item) /\ item = WatchEnd
  <2>1. PICK d \in Dump(w, label, "after") :
            o = [d EXCEPT !.watch.watched = NoTarget, !.watch.cmd = {}]
    BY <1>8 DEF EndExcute
  <2>2. Kept(w, d.watch) /\ FilesOf(d.files, t, item, w.count[item], "after")
    BY <2>1, OneDump
  <2>3. \E x, y : d = [watch |-> x, files |-> y]
    BY <2>1 DEF Dump
  <2> DEFINE w1 == [d.watch EXCEPT !.watched = NoTarget]
             w2 == [w1 EXCEPT !.cmd = {}]
  <2>4. o.watch = w2 /\ o.files = d.files
    BY <2>1, <2>3
  <2>5. IsWatch(w1) /\ Counts(w1) = Counts(d.watch) /\ w1.watched = NoTarget
    BY <2>2, CounterSet DEF Kept
  <2>6. Kept(w1, w2)
    <3> HIDE DEF w1
    <3> QED BY <2>5, FieldSet
  <2> HIDE DEF w1, w2
  <2> QED BY <1>8, <2>2, <2>4, <2>5, <2>6 DEF Kept, Counts, Ends
<1>9. CASE ~OpensWindow(w, item) /\ o \in Dump(w, label, "after")
  <2>1. Kept(w, o.watch) /\ FilesOf(o.files, t, item, w.count[item], "after")
    BY <1>9, OneDump
  <2> QED BY <1>9, <2>1 DEF Kept, Counts, Ends
<1>10. CASE ~OpensWindow(w, item) /\ o \in NoDump(w)
  <2>1. o.watch = w /\ o.files = {}
    BY <1>10, NoFiles
  <2> QED BY <1>10, <2>1 DEF Kept, Counts, Ends, FilesOf
<1>11. ~OpensWindow(w, item) /\ item # WatchEnd =>
           o \in Dump(w, label, "after") \/ o \in NoDump(w)
  BY DEF EndExcute
<1> QED BY <1>7, <1>8, <1>9, <1>10, <1>11

LEMMA EndingWithOutputs ==
    ASSUME NEW w, IsWatch(w), NEW t, NEW item, NEW outputs,
           NEW o \in WithOutputs(w, t, item, outputs)
    PROVE  Ends(w, t, item, o)
<1>1. CASE \E out, id : o \in EndExcute(w, t, item, out, id)
  BY <1>1, Ending
<1>2. CASE \E out, id :
               o \in EndExcute([w EXCEPT !.outputId = AllOutputs], t, item, out, id)
  <2> DEFINE v == [w EXCEPT !.outputId = AllOutputs]
  <2>1. Kept(w, v)
    BY FieldSet
  <2> HIDE DEF v
  <2>2. PICK out, id : o \in EndExcute(v, t, item, out, id)
    BY <1>2 DEF v
  <2>3. Ends(v, t, item, o)
    BY <2>1, <2>2, Ending DEF Kept
  <2> QED BY <2>1, <2>3 DEF Ends, Kept, Counts, OpensWindow
<1> QED BY <1>1, <1>2 DEF WithOutputs

------------------------------------------------------------------------------------
\* Dumps keep apart

\* With no window configured, the end of an item with the empty name opens one each time.
ByWindow(item) == item = WatchStart /\ WatchStart = NoTarget

\* What is numbered by the calls is not ahead of their count.
FileInv ==
    /\ IsWatch(watch) /\ watch.count \in [Items -> Nat] /\ watch.firstCnt \in Nat
    /\ WatchStart = NoTarget => watch.watched = NoTarget
    /\ overwritten = {}
    /\ \A f \in written :
           /\ f.item \in Items /\ f.call \in Nat
           /\ f.when = "before" => f.call <= watch.count[f.item]
           /\ f.when = "after" => IF ByWindow(f.item) THEN f.call < watch.firstCnt
                                                      ELSE f.call <= watch.count[f.item]

\* The end of the item on this thread still has its own number to come.
Ahead(t, item) ==
    ~ByWindow(item) =>
        \A f \in written : f.thread = t /\ f.item = item /\ f.when = "after" =>
            f.call < watch.count[item]

BegunInv ==
    \A t \in Threads :
        /\ host[t].opBegun => host[t].op # NoName /\ Ahead(t, host[t].op)
        /\ host[t].atbBegun =>
               host[t].atb # NoName /\ t \in watch.repeat /\ Ahead(t, host[t].atb)
        /\ host[t].kernelBegun => host[t].pc = "told" /\ Ahead(t, linker.last[t])

\* The watch as an operation is given it: but for who repeats, it is the watch itself.
SameCounts(v) == IsWatch(v) /\ v.count = watch.count /\ v.firstCnt = watch.firstCnt
                 /\ v.watched = watch.watched

LEMMA Begun ==
    ASSUME FileInv, NEW t \in Threads, NEW item \in Items, NEW v, SameCounts(v), NEW outcomes,
           \A o \in outcomes : Begins(v, t, item, o), WatchBy(outcomes, TRUE)
    PROVE  /\ FileInv' /\ watch'.repeat = v.repeat /\ Ahead(t, item)'
           /\ \A u, i : i \in Items /\ Ahead(u, i) => Ahead(u, i)'
<1>1. PICK o \in outcomes :
         LET opens    == watch.watched = NoTarget /\ o.watch.watched # NoTarget
             numbered == IF ~opens THEN o.files ELSE {}
         IN  /\ watch' = o.watch
             /\ written' = written \cup numbered
             /\ overwritten' = overwritten \cup (numbered \cap written)
  BY DEF WatchBy
<1>2. /\ IsWatch(watch') /\ watch'.watched = watch.watched
      /\ watch'.count = [watch.count EXCEPT ![item] = @ + 1]
      /\ watch'.firstCnt = watch.firstCnt /\ watch'.repeat = v.repeat
      /\ FilesOf(o.files, t, item, watch.count[item] + 1, "before")
  BY <1>1 DEF Begins, Counts, SameCounts
<1>3. written' = written \cup o.files /\ overwritten' = overwritten \cup (o.files \cap written)
  BY <1>1, <1>2
<1>4. /\ watch.count \in [Items -> Nat] /\ watch.count[item] \in Nat
      /\ watch'.count[item] = watch.count[item] + 1
      /\ \A i \in Items \ {item} : watch'.count[i] = watch.count[i]
      /\ watch'.count \in [Items -> Nat]
  BY <1>2 DEF FileInv
<1>5. ASSUME NEW i \in Items PROVE watch.count[i] \in Nat /\ watch.count[i] <= watch'.count[i]
  BY <1>4
<1>6. ASSUME NEW f \in written PROVE f \notin o.files
  BY <1>2, <1>4, <1>6 DEF FilesOf, FileInv
<1>7. overwritten' = {}
  BY <1>3, <1>6 DEF FileInv
<1>8. ASSUME NEW f \in written'
      PROVE  /\ f.item \in Items /\ f.call \in Nat
             /\ f.when = "before" => f.call <= watch'.count[f.item]
             /\ f.when = "after" => IF ByWindow(f.item) THEN f.call < watch'.firstCnt
                                                        ELSE f.call <= watch'.count[f.item]
  <2>1. CASE f \in written
    <3>1. /\ f.item \in Items /\ f.call \in Nat
          /\ f.when = "before" => f.call <= watch.count[f.item]
          /\ f.when = "after" => IF ByWindow(f.item) THEN f.call < watch.firstCnt
                                                     ELSE f.call <= watch.count[f.item]
      BY <2>1 DEF FileInv
    <3>2. watch.count[f.item] \in Nat /\ watch'.count[f.item] \in Nat
          /\ watch.count[f.item] <= watch'.count[f.item]
      BY <1>4, <1>5, <3>1
    <3> QED BY <1>2, <3>1, <3>2
  <2>2. CASE f \in o.files
    BY <1>2, <1>4, <2>2 DEF FilesOf
  <2> QED BY <1>3, <2>1, <2>2
<1>9. FileInv'
  BY <1>2, <1>4, <1>7, <1>8 DEF FileInv, ByWindow
<1>10. ASSUME NEW f \in written', f.when = "after" PROVE f \in written
  BY <1>2, <1>3, <1>10 DEF FilesOf
<1>11. Ahead(t, item)'
  <2> SUFFICES ASSUME ~ByWindow(item), NEW f \in written', f.item = item, f.when = "after"
               PROVE  f.call < watch'.count[item]
    BY DEF Ahead, ByWindow
  <2>1. f.call \in Nat /\ f.call <= watch.count[item]
    BY <1>10 DEF FileInv
  <2> QED BY <1>4, <2>1
<1>12. ASSUME NEW u, NEW i, i \in Items, Ahead(u, i) PROVE Ahead(u, i)'
  <2> SUFFICES ASSUME ~ByWindow(i), NEW f \in written', f.thread = u, f.item = i,
                      f.when = "after"
               PROVE  f.call < watch'.count[i]
    BY DEF Ahead, ByWindow
  <2>1. f.call \in Nat /\ f.call < watch.count[i]
    BY <1>10, <1>12 DEF FileInv, Ahead
  <2>2. watch.count[i] \in Nat /\ watch'.count[i] \in Nat /\ watch.count[i] <= watch'.count[i]
    BY <1>4, <1>5, <1>12
  <2> QED BY <2>1, <2>2
<1> QED BY <1>2, <1>9, <1>11, <1>12

LEMMA Ended ==
    ASSUME FileInv, NEW t \in Threads, NEW item \in Items, NEW v, SameCounts(v), NEW outcomes,
           \A o \in outcomes : Ends(v, t, item, o), NEW counted \in BOOLEAN,
           counted => Ahead(t, item), WatchBy(outcomes, counted)
    PROVE  /\ FileInv' /\ watch'.repeat = v.repeat
           /\ \A u, i : (u # t \/ i # item) /\ Ahead(u, i) => Ahead(u, i)'
<1>1. PICK o \in outcomes :
         LET opens    == watch.watched = NoTarget /\ o.watch.watched # NoTarget
             numbered == IF counted /\ ~opens THEN o.files ELSE {}
         IN  /\ watch' = o.watch
             /\ written' = written \cup numbered
             /\ overwritten' = overwritten \cup (numbered \cap written)
  BY DEF WatchBy
<1> DEFINE opens == watch.watched = NoTarget /\ o.watch.watched # NoTarget
           new   == IF counted /\ ~opens THEN o.files ELSE {}
<1>2. /\ watch' = o.watch /\ written' = written \cup new
      /\ overwritten' = overwritten \cup (new \cap written)
  BY <1>1
<1>3. /\ IsWatch(watch') /\ watch'.count = watch.count /\ watch'.repeat = v.repeat
      /\ OpensWindow(v, item) <=> (item = WatchStart /\ watch.watched = NoTarget)
  BY <1>2 DEF Ends, SameCounts, OpensWindow
<1>4. CASE OpensWindow(v, item)
  <2>1. /\ watch'.watched = item /\ watch'.firstCnt = watch.firstCnt + 1
        /\ FilesOf(o.files, t, item, watch.firstCnt, "after")
        /\ item = WatchStart /\ watch.watched = NoTarget
    BY <1>2, <1>3, <1>4 DEF Ends, SameCounts
  <2>2. WatchStart = NoTarget => watch'.watched = NoTarget
    BY <2>1
  <2>3. new # {} => ByWindow(item)
    BY <1>2, <2>1 DEF ByWindow
  <2>4. FilesOf(new, t, item, watch.firstCnt, "after")
    BY <2>1 DEF FilesOf
  <2> HIDE DEF new
  <2>5. watch.firstCnt \in Nat /\ watch.count \in [Items -> Nat]
    BY DEF FileInv
  <2>6. ASSUME NEW f \in written PROVE f \notin new
    <3> SUFFICES ASSUME f \in new PROVE FALSE
      OBVIOUS
    <3>1. f.item = item /\ f.call = watch.firstCnt /\ f.when = "after" /\ ByWindow(item)
      BY <2>3, <2>4 DEF FilesOf
    <3>2. f.call < watch.firstCnt
      BY <3>1 DEF FileInv
    <3> QED BY <2>5, <3>1, <3>2
  <2>7. overwritten' = {}
    BY <1>2, <2>6 DEF FileInv
  <2>8. ASSUME NEW f \in written'
        PROVE  /\ f.item \in Items /\ f.call \in Nat
               /\ f.when = "before" => f.call <= watch.count[f.item]
               /\ f.when = "after" => IF ByWindow(f.item) THEN f.call < watch.firstCnt + 1
                                                          ELSE f.call <= watch.count[f.item]
    <3>1. CASE f \in written
      <4>1. /\ f.item \in Items /\ f.call \in Nat
            /\ f.when = "before" => f.call <= watch.count[f.item]
            /\ f.when = "after" => IF ByWindow(f.item) THEN f.call < watch.firstCnt
                                                       ELSE f.call <= watch.count[f.item]
        BY <3>1 DEF FileInv
      <4> QED BY <2>5, <4>1
    <3>2. CASE f \in new
      <4>1. f.item = item /\ f.call = watch.firstCnt /\ f.when = "after" /\ ByWindow(item)
        BY <2>3, <2>4, <3>2 DEF FilesOf
      <4> QED BY <2>5, <4>1
    <3> QED BY <1>2, <3>1, <3>2
  <2>9. FileInv'
    BY <1>3, <2>1, <2>2, <2>5, <2>7, <2>8 DEF FileInv, ByWindow
  <2>10. ASSUME NEW u, NEW i, u # t \/ i # item, Ahead(u, i) PROVE Ahead(u, i)'
    BY <1>2, <1>3, <2>4, <2>10 DEF Ahead, FilesOf, ByWindow
  <2> QED BY <1>3, <2>9, <2>10
<1>5. CASE ~OpensWindow(v, item)
  <2>1. /\ watch'.watched \in {watch.watched, NoTarget} /\ watch'.firstCnt = watch.firstCnt
        /\ FilesOf(o.files, t, item, watch.count[item], "after")
        /\ ~(item = WatchStart /\ watch.watched = NoTarget)
    BY <1>2, <1>3, <1>5 DEF Ends, SameCounts
  <2>2. WatchStart = NoTarget => watch'.watched = NoTarget
    BY <2>1 DEF FileInv
  <2>3. ~ByWindow(item)
    BY <2>1 DEF ByWindow, FileInv
  <2>4. FilesOf(new, t, item, watch.count[item], "after") /\ (new # {} => counted)
    BY <2>1 DEF FilesOf
  <2> HIDE DEF new
  <2>5. watch.count[item] \in Nat /\ watch.firstCnt \in Nat /\ watch.count \in [Items -> Nat]
    BY DEF FileInv
  <2>6. ASSUME NEW f \in written PROVE f \notin new
    <3> SUFFICES ASSUME f \in new PROVE FALSE
      OBVIOUS
    <3>1. /\ f.thread = t /\ f.item = item /\ f.call = watch.count[item] /\ f.when = "after"
          /\ counted
      BY <2>4 DEF FilesOf
    <3>2. f.call < watch.count[item]
      BY <2>3, <3>1 DEF Ahead
    <3> QED BY <2>5, <3>1, <3>2
  <2>7. overwritten' = {}
    BY <1>2, <2>6 DEF FileInv
  <2>8. ASSUME NEW f \in written'
        PROVE  /\ f.item \in Items /\ f.call \in Nat
               /\ f.when = "before" => f.call <= watch.count[f.item]
               /\ f.when = "after" => IF ByWindow(f.item) THEN f.call < watch.firstCnt
                                                          ELSE f.call <= watch.count[f.item]
    <3>1. CASE f \in written
      BY <3>1 DEF FileInv
    <3>2. CASE f \in new
      BY <2>3, <2>4, <2>5, <3>2 DEF FilesOf
    <3> QED BY <1>2, <3>1, <3>2
  <2>9. FileInv'
    BY <1>3, <2>1, <2>2, <2>5, <2>7, <2>8 DEF FileInv, ByWindow
  <2>10. ASSUME NEW u, NEW i, u # t \/ i # item, Ahead(u, i) PROVE Ahead(u, i)'
    BY <1>2, <1>3, <2>4, <2>10 DEF Ahead, FilesOf, ByWindow
  <2> QED BY <1>3, <2>9, <2>10
<1> QED BY <1>4, <1>5

\* An operation that dumps nothing and counts nothing.
LEMMA Unwatched ==
    ASSUME FileInv, \/ NoWatch
                    \/ \E counted \in BOOLEAN : WatchBy(NoDump(watch), counted)
                    \/ Kept(watch, watch') /\ UNCHANGED <<written, overwritten>>
    PROVE  /\ FileInv' /\ watch'.repeat = watch.repeat
           /\ \A u, i : Ahead(u, i) => Ahead(u, i)'
<1>1. Kept(watch, watch') /\ UNCHANGED <<written, overwritten>>
  <2>1. CASE NoWatch
    BY <2>1 DEF NoWatch, FileInv, Kept
  <2>2. ASSUME NEW counted \in BOOLEAN, WatchBy(NoDump(watch), counted)
        PROVE  Kept(watch, watch') /\ UNCHANGED <<written, overwritten>>
    BY <2>2 DEF WatchBy, NoDump, FileInv, Kept
  <2> QED BY <2>1, <2>2
<1>2. IsWatch(watch') /\ watch'.count = watch.count /\ watch'.firstCnt = watch.firstCnt
      /\ watch'.watched = watch.watched /\ watch'.repeat = watch.repeat
  BY <1>1 DEF Kept, Counts
<1>3. FileInv'
  BY <1>1, <1>2 DEF FileInv, ByWindow
<1>4. \A u, i : Ahead(u, i) => Ahead(u, i)'
  BY <1>1, <1>2 DEF Ahead, ByWindow
<1> QED BY <1>2, <1>3, <1>4
\* The name that a thread's last task was given.
LEMMA LastStays ==
    ASSUME TypeInv, [Next]_vars, ~\E t \in Threads, key \in Keys : TaskInfo(t, key)
    PROVE  linker'.last = linker.last
<1>1. linker \in Linkers
  BY DEF TypeInv
<1>2. CASE Quiet
  BY <1>2 DEF Quiet, traceVars
<1>3. ASSUME NEW t \in Threads, NEW k \in Kernels, LaunchKernel(t, k)
      PROVE  linker'.last = linker.last
  <2>1. launches + 1 \in Nat /\ linker' = KernelLaunch(linker, t, launches + 1)
    BY <1>3 DEF LaunchKernel, TypeInv
  <2> QED BY <1>1, <2>1, LaunchEntry
<1>4. ASSUME NEW t \in Threads, RegisterHash(t) PROVE linker'.last = linker.last
  BY <1>1, <1>4 DEF RegisterHash, SetHashInfo, Linkers
<1>5. CASE HandleLog
  <2>1. CASE UNCHANGED linker
    BY <2>1
  <2>2. CASE \E place \in Places(linker, Head(buffer).key) :
                 linker' = Used(linker, place, Head(buffer).type)
    BY <1>1, <2>2 DEF Used, Linkers
  <2> QED BY <1>5, <2>1, <2>2 DEF HandleLog
<1>6. CASE Read
  BY <1>6 DEF Read
<1>7. CASE AclFinalize \/ \E key \in Keys : OtherTask(key) \/ StartTask(key) \/ FinishTask(key)
  BY <1>7 DEF AclFinalize, OtherTask, StartTask, FinishTask
<1> QED BY <1>2, <1>3, <1>4, <1>5, <1>6, <1>7, Steps DEF Busy

\* Ahead after the step.
AheadNext(t, item) ==
    ~ByWindow(item) =>
        \A f \in written' : f.thread = t /\ f.item = item /\ f.when = "after" =>
            f.call < watch'.count[item]

BegunNext(t) ==
    /\ host'[t].opBegun => host'[t].op # NoName /\ AheadNext(t, host'[t].op)
    /\ host'[t].atbBegun =>
           host'[t].atb # NoName /\ t \in watch'.repeat /\ AheadNext(t, host'[t].atb)
    /\ host'[t].kernelBegun => host'[t].pc = "told" /\ AheadNext(t, linker'.last[t])

LEMMA EndedNext ==
    ASSUME FileInv, NEW t \in Threads, NEW item \in Items, NEW v, SameCounts(v), NEW outcomes,
           \A o \in outcomes : Ends(v, t, item, o), NEW counted \in BOOLEAN,
           counted => Ahead(t, item), WatchBy(outcomes, counted)
    PROVE  /\ FileInv' /\ watch'.repeat = v.repeat
           /\ \A u, i : (u # t \/ i # item) /\ Ahead(u, i) => AheadNext(u, i)
<1>1. /\ FileInv' /\ watch'.repeat = v.repeat
      /\ \A u, i : (u # t \/ i # item) /\ Ahead(u, i) => Ahead(u, i)'
  BY Ended
<1> QED BY <1>1 DEF AheadNext, Ahead, ByWindow

LEMMA AllBegun == ASSUME \A t \in Threads : BegunNext(t) PROVE BegunInv'
  BY DEF BegunNext, BegunInv, AheadNext, Ahead, ByWindow

LEMMA ItemsOfHost ==
    ASSUME TypeInv, NEW t \in Threads
    PROVE  host[t].op \in Items /\ host[t].atb \in Items /\ linker.last[t] \in Items
  BY DEF TypeInv, HostStates, Linkers, Items

\* A thread that takes no part keeps what it has to come.
LEMMA StillBegun ==
    ASSUME TypeInv, BegunInv, NEW t \in Threads, host'[t] = host[t],
           linker'.last[t] = linker.last[t], t \in watch.repeat => t \in watch'.repeat,
           \A i \in Items : Ahead(t, i) => AheadNext(t, i)
    PROVE  BegunNext(t)
  BY ItemsOfHost DEF BegunInv, BegunNext

LEMMA UnwatchedBegun ==
    ASSUME TypeInv, FileInv, BegunInv, UNCHANGED host, linker'.last = linker.last,
           NoWatch \/ (Kept(watch, watch') /\ UNCHANGED <<written, overwritten>>)
    PROVE  FileInv' /\ BegunInv'
<1>1. FileInv' /\ watch'.repeat = watch.repeat /\ \A u, i : Ahead(u, i) => AheadNext(u, i)
  BY Unwatched DEF Ahead, AheadNext, ByWindow
<1>2. ASSUME NEW t \in Threads PROVE BegunNext(t)
  BY <1>1, StillBegun
<1> QED BY <1>1, <1>2, AllBegun
\* No operator has the name of a kernel: the dumps of both are named by it.
NamesDiffer == Ops \cap (AtbKernels \cup Kernels) = {}

LEMMA OutcomesEnd ==
    ASSUME NEW v, IsWatch(v), NEW t, NEW item, NEW outputs
    PROVE  \A o \in WithOutputs(v, t, item, outputs) : Ends(v, t, item, o)
  BY EndingWithOutputs

LEMMA OutcomesBegin ==
    ASSUME NEW v, IsWatch(v), NEW t, NEW item \in Items, v.count \in [Items -> Nat]
    PROVE  \A o \in BeginExcute(v, t, item) : Begins(v, t, item, o)
  BY Beginning

LEMMA OpBeginBegun ==
    ASSUME TypeInv, FileInv, BegunInv, NEW t \in Threads, NEW op \in Ops, OpBegin(t, op),
           linker'.last = linker.last
    PROVE  FileInv' /\ BegunInv'
<1>1. /\ host[t] \in HostStates /\ host \in [Threads -> HostStates]
      /\ host[t].op = NoName /\ host[t].atb = NoName /\ host[t].pc = "out"
      /\ host' = [host EXCEPT ![t].op = op, ![t].opBegun = IsWatching]
  BY DEF OpBegin, TypeInv
<1>2. /\ \A u \in Threads \ {t} : host'[u] = host[u]
      /\ host'[t].op = op /\ host'[t].opBegun = IsWatching
      /\ host'[t].atbBegun = host[t].atbBegun /\ host'[t].kernelBegun = host[t].kernelBegun
  BY <1>1 DEF HostStates
<1>3. ~host[t].atbBegun /\ ~host[t].kernelBegun
  BY <1>1 DEF BegunInv
<1>4. op \in Items /\ op # NoName
  BY LaunchesAssumption DEF Items
<1>5. CASE IsWatching
  <2>1. WatchBy(BeginExcute(watch, t, op), TRUE)
    BY <1>5 DEF OpBegin, OpExcuteBegin
  <2>2. IsWatch(watch) /\ SameCounts(watch) /\ watch.count \in [Items -> Nat]
    BY DEF FileInv, SameCounts
  <2>3. \A o \in BeginExcute(watch, t, op) : Begins(watch, t, op, o)
    BY <1>4, <2>2, OutcomesBegin
  <2>4. /\ FileInv' /\ watch'.repeat = watch.repeat /\ AheadNext(t, op)
        /\ \A u, i : i \in Items /\ Ahead(u, i) => AheadNext(u, i)
    BY <1>4, <2>1, <2>2, <2>3, Begun DEF AheadNext, Ahead, ByWindow
  <2>5. BegunNext(t)
    BY <1>2, <1>3, <1>4, <2>4 DEF BegunNext
  <2>6. \A u \in Threads \ {t} : BegunNext(u)
    BY <1>2, <2>4, StillBegun
  <2> QED BY <2>4, <2>5, <2>6, AllBegun
<1>6. CASE ~IsWatching
  <2>1. NoWatch
    BY <1>6 DEF OpBegin
  <2>2. FileInv' /\ watch'.repeat = watch.repeat /\ \A u, i : Ahead(u, i) => AheadNext(u, i)
    BY <2>1, Unwatched DEF Ahead, AheadNext, ByWindow
  <2>3. BegunNext(t)
    BY <1>2, <1>3, <1>6 DEF BegunNext
  <2>4. \A u \in Threads \ {t} : BegunNext(u)
    BY <1>2, <2>2, StillBegun
  <2> QED BY <2>2, <2>3, <2>4, AllBegun
<1> QED BY <1>5, <1>6

LEMMA OpEndBegun ==
    ASSUME TypeInv, FileInv, BegunInv, NEW t \in Threads, OpEnd(t),
           linker'.last = linker.last
    PROVE  FileInv' /\ BegunInv'
<1>1. host[t] \in HostStates /\ host' = [host EXCEPT ![t] = Idle]
  BY DEF OpEnd, TypeInv
<1>2. (\A u \in Threads \ {t} : host'[u] = host[u]) /\ host'[t] = Idle
  BY <1>1 DEF TypeInv
<1>3. BegunNext(t)
  BY <1>2 DEF BegunNext, Idle
<1>4. CASE IsWatching
  <2>1. PICK path \in IF host[t].opBegun THEN {host[t].op} ELSE Items :
            WatchBy(WithOutputs(watch, t, path, Outputs(host[t].op)), host[t].opBegun)
    BY <1>4 DEF OpEnd, OpExcuteEnd
  <2>2. IsWatch(watch) /\ SameCounts(watch)
    BY DEF FileInv, SameCounts
  <2>3. path \in Items /\ host[t].opBegun \in BOOLEAN
    BY <1>1, ItemsOfHost DEF HostStates
  <2>4. host[t].opBegun => Ahead(t, path)
    BY <2>1 DEF BegunInv
  <2> DEFINE outcomes == WithOutputs(watch, t, path, Outputs(host[t].op))
  <2>5. \A o \in outcomes : Ends(watch, t, path, o)
    BY <2>2, OutcomesEnd
  <2> HIDE DEF outcomes
  <2> DEFINE counted == host[t].opBegun
  <2>6. WatchBy(outcomes, counted) /\ (counted => Ahead(t, path)) /\ counted \in BOOLEAN
    BY <2>1, <2>3, <2>4 DEF outcomes
  <2> HIDE DEF counted
  <2>7. /\ FileInv' /\ watch'.repeat = watch.repeat
        /\ \A u, i : (u # t \/ i # path) /\ Ahead(u, i) => AheadNext(u, i)
    <3>1. CASE counted
      <4>1. WatchBy(outcomes, TRUE) /\ Ahead(t, path)
        BY <2>6, <3>1 DEF WatchBy
      <4> QED BY <2>2, <2>3, <2>5, <4>1, EndedNext
    <3>2. CASE ~counted
      <4>1. WatchBy(outcomes, FALSE)
        BY <2>6, <3>2 DEF WatchBy
      <4> QED BY <2>2, <2>3, <2>5, <4>1, EndedNext
    <3> QED BY <3>1, <3>2
  <2>8. \A u \in Threads \ {t} : BegunNext(u)
    BY <1>2, <2>7, StillBegun
  <2> QED BY <1>3, <2>7, <2>8, AllBegun
<1>5. CASE ~IsWatching
  <2>1. NoWatch
    BY <1>5 DEF OpEnd
  <2>2. FileInv' /\ watch'.repeat = watch.repeat /\ \A u, i : Ahead(u, i) => AheadNext(u, i)
    BY <2>1, Unwatched DEF Ahead, AheadNext, ByWindow
  <2>3. \A u \in Threads \ {t} : BegunNext(u)
    BY <1>2, <2>2, StillBegun
  <2> QED BY <1>3, <2>2, <2>3, AllBegun
<1> QED BY <1>4, <1>5

LEMMA AtbBeforeBegun ==
    ASSUME TypeInv, FileInv, BegunInv, NEW t \in Threads, NEW k \in AtbKernels,
           AtbBefore(t, k), linker'.last = linker.last
    PROVE  FileInv' /\ BegunInv'
<1> DEFINE begins == Traced("ATB_KERNEL") /\ IsWatching
<1>1. /\ host[t] \in HostStates /\ host \in [Threads -> HostStates]
      /\ host[t].atb = NoName /\ host[t].pc = "out"
      /\ host' = [host EXCEPT ![t].atb = k, ![t].atbBegun = begins]
  BY DEF AtbBefore, TypeInv
<1> HIDE DEF begins
<1>2. /\ \A u \in Threads \ {t} : host'[u] = host[u]
      /\ host'[t].atb = k /\ host'[t].atbBegun = begins
      /\ host'[t].opBegun = host[t].opBegun /\ host'[t].op = host[t].op
      /\ host'[t].kernelBegun = host[t].kernelBegun
  BY <1>1 DEF HostStates
<1>3. ~host[t].kernelBegun /\ (host[t].opBegun => host[t].op # NoName /\ Ahead(t, host[t].op))
  BY <1>1 DEF BegunInv
<1>4. k \in Items /\ k # NoName /\ host[t].op \in Items
  BY ItemsOfHost, LaunchesAssumption DEF Items
<1>5. CASE begins
  <2> DEFINE v == [watch EXCEPT !.repeat = watch.repeat \cup {t}]
  <2>1. WatchBy(BeginExcute(v, t, k), TRUE)
    BY <1>5 DEF AtbBefore, KernelExcuteBegin, begins
  <2>2. IsWatch(v) /\ Counts(v) = <<watch.count, watch.firstCnt, watch.repeat \cup {t}>>
        /\ v.watched = watch.watched
    BY CounterSet DEF FileInv
  <2> HIDE DEF v
  <2>3. SameCounts(v) /\ v.count \in [Items -> Nat] /\ v.repeat = watch.repeat \cup {t}
    BY <2>2 DEF FileInv, SameCounts, Counts
  <2>4. \A o \in BeginExcute(v, t, k) : Begins(v, t, k, o)
    BY <1>4, <2>2, <2>3, OutcomesBegin
  <2>5. /\ FileInv' /\ watch'.repeat = v.repeat /\ AheadNext(t, k)
        /\ \A u, i : i \in Items /\ Ahead(u, i) => AheadNext(u, i)
    BY <1>4, <2>1, <2>3, <2>4, Begun DEF AheadNext, Ahead, ByWindow
  <2>6. BegunNext(t)
    BY <1>2, <1>3, <1>4, <2>3, <2>5 DEF BegunNext
  <2>7. \A u \in Threads \ {t} : BegunNext(u)
    BY <1>2, <2>3, <2>5, StillBegun
  <2> QED BY <2>5, <2>6, <2>7, AllBegun
<1>6. CASE ~begins
  <2>1. NoWatch
    BY <1>6 DEF AtbBefore, begins
  <2>2. FileInv' /\ watch'.repeat = watch.repeat /\ \A u, i : Ahead(u, i) => AheadNext(u, i)
    BY <2>1, Unwatched DEF Ahead, AheadNext, ByWindow
  <2>3. BegunNext(t)
    BY <1>2, <1>3, <1>6, <2>2 DEF BegunNext
  <2>4. \A u \in Threads \ {t} : BegunNext(u)
    BY <1>2, <2>2, StillBegun
  <2> QED BY <2>2, <2>3, <2>4, AllBegun
<1> QED BY <1>5, <1>6
LEMMA AtbAfterBegun ==
    ASSUME TypeInv, FileInv, BegunInv, NamesDiffer, NEW t \in Threads, AtbAfter(t),
           linker'.last = linker.last
    PROVE  FileInv' /\ BegunInv'
<1> DEFINE k == host[t].atb
           saves == Traced("ATB_KERNEL") /\ IsWatching
           counted == host[t].atbBegun
<1>1. /\ host[t] \in HostStates /\ host \in [Threads -> HostStates]
      /\ host[t].atb # NoName /\ host[t].pc = "out"
      /\ host' = [host EXCEPT ![t].atb = NoName, ![t].atbBegun = FALSE]
  BY DEF AtbAfter, TypeInv
<1>2. /\ \A u \in Threads \ {t} : host'[u] = host[u]
      /\ ~host'[t].atbBegun
      /\ host'[t].opBegun = host[t].opBegun /\ host'[t].op = host[t].op
      /\ host'[t].kernelBegun = host[t].kernelBegun
  BY <1>1 DEF HostStates
<1>3. ~host[t].kernelBegun /\ (host[t].opBegun => host[t].op # NoName /\ Ahead(t, host[t].op))
  BY <1>1 DEF BegunInv
<1>4. /\ k \in Items /\ host[t].op \in Items /\ counted \in BOOLEAN
      /\ host[t].op # NoName => host[t].op # k
  BY <1>1, ItemsOfHost DEF HostStates, NamesDiffer
<1>5. CASE saves
  <2> DEFINE v == [watch EXCEPT !.repeat = watch.repeat \ {t}]
             outcomes == WithOutputs(v, t, k, Outputs(k))
  <2>1. WatchBy(outcomes, counted)
    BY <1>5 DEF AtbAfter, KernelExcuteEnd
  <2>2. IsWatch(v) /\ Counts(v) = <<watch.count, watch.firstCnt, watch.repeat \ {t}>>
        /\ v.watched = watch.watched
    BY CounterSet DEF FileInv
  <2>3. \A o \in outcomes : Ends(v, t, k, o)
    <3> HIDE DEF v
    <3> QED BY <2>2, OutcomesEnd
  <2> HIDE DEF v, outcomes
  <2>4. SameCounts(v) /\ v.repeat = watch.repeat \ {t}
    BY <2>2 DEF SameCounts, Counts
  <2>5. counted => Ahead(t, k)
    BY DEF BegunInv
  <2> HIDE DEF counted, k
  <2>6. /\ FileInv' /\ watch'.repeat = watch.repeat \ {t}
        /\ \A u, i : (u # t \/ i # k) /\ Ahead(u, i) => AheadNext(u, i)
    <3>1. CASE counted
      <4>1. WatchBy(outcomes, TRUE) /\ Ahead(t, k)
        BY <2>1, <2>5, <3>1 DEF WatchBy
      <4> QED BY <1>4, <2>3, <2>4, <4>1, EndedNext
    <3>2. CASE ~counted
      <4>1. WatchBy(outcomes, FALSE)
        BY <2>1, <3>2 DEF WatchBy
      <4> QED BY <1>4, <2>3, <2>4, <4>1, EndedNext
    <3> QED BY <3>1, <3>2
  <2>7. BegunNext(t)
    BY <1>2, <1>3, <1>4, <2>6 DEF BegunNext
  <2>8. \A u \in Threads \ {t} : BegunNext(u)
    BY <1>2, <2>6, StillBegun
  <2> QED BY <2>6, <2>7, <2>8, AllBegun
<1>6. CASE ~saves
  <2>1. NoWatch
    BY <1>6 DEF AtbAfter
  <2>2. FileInv' /\ watch'.repeat = watch.repeat /\ \A u, i : Ahead(u, i) => AheadNext(u, i)
    BY <2>1, Unwatched DEF Ahead, AheadNext, ByWindow
  <2>3. BegunNext(t)
    BY <1>2, <1>3, <2>2 DEF BegunNext
  <2>4. \A u \in Threads \ {t} : BegunNext(u)
    BY <1>2, <2>2, StillBegun
  <2> QED BY <2>2, <2>3, <2>4, AllBegun
<1> QED BY <1>5, <1>6

LEMMA TaskInfoBegun ==
    ASSUME TypeInv, TableInv, FileInv, BegunInv, NEW t \in Threads, NEW key \in Keys,
           TaskInfo(t, key)
    PROVE  FileInv' /\ BegunInv'
<1>1. /\ linker \in Linkers /\ linker.entries[t] # <<>> /\ host[t].kernel \in Kernels
      /\ linker' = Complete(linker, t, key, host[t].kernel)
  BY DEF TaskInfo, TypeInv, Completes, Launched
<1> DEFINE name == GetHashInfo(linker, host[t].kernel)
<1>2. name \in {NoName, host[t].kernel}
      /\ linker'.entries = [linker.entries EXCEPT ![t] = Completion(@, key, name)]
      /\ linker'.last = [linker.last EXCEPT ![t] = name]
  BY <1>1, CompletedEntry
<1> HIDE DEF name
<1>3. name \in Items /\ linker'.last[t] = name
      /\ \A u \in Threads \ {t} : linker'.last[u] = linker.last[u]
  BY <1>1, <1>2 DEF Items, Linkers
<1> DEFINE begins == IsWatching /\ IsNeedTraceKernel
           begun == begins /\ t \notin watch.repeat
<1>4. /\ host[t] \in HostStates /\ host \in [Threads -> HostStates]
      /\ host' = [host EXCEPT ![t].pc = "told", ![t].kernelBegun = begun]
  BY DEF TaskInfo, TypeInv
<1> HIDE DEF begun
<1>5. /\ \A u \in Threads \ {t} : host'[u] = host[u]
      /\ host'[t].pc = "told" /\ host'[t].kernelBegun = begun
      /\ host'[t].opBegun = host[t].opBegun /\ host'[t].op = host[t].op
      /\ host'[t].atbBegun = host[t].atbBegun /\ host'[t].atb = host[t].atb
  BY <1>4 DEF HostStates
<1>6. host[t].op \in Items /\ host[t].atb \in Items
  BY ItemsOfHost
<1>7. CASE begun
  <2>1. WatchBy(BeginExcute(watch, t, name), TRUE)
    BY <1>3, <1>7 DEF TaskInfo, KernelExcuteBegin, begun
  <2>2. IsWatch(watch) /\ SameCounts(watch) /\ watch.count \in [Items -> Nat]
    BY DEF FileInv, SameCounts
  <2>3. \A o \in BeginExcute(watch, t, name) : Begins(watch, t, name, o)
    BY <1>3, <2>2, OutcomesBegin
  <2>4. /\ FileInv' /\ watch'.repeat = watch.repeat /\ AheadNext(t, name)
        /\ \A u, i : i \in Items /\ Ahead(u, i) => AheadNext(u, i)
    BY <1>3, <2>1, <2>2, <2>3, Begun DEF AheadNext, Ahead, ByWindow
  <2>5. BegunNext(t)
    BY <1>3, <1>5, <1>6, <2>4 DEF BegunInv, BegunNext
  <2>6. \A u \in Threads \ {t} : BegunNext(u)
    BY <1>3, <1>5, <2>4, StillBegun
  <2> QED BY <2>4, <2>5, <2>6, AllBegun
<1>8. CASE ~begun
  <2>1. NoWatch \/ WatchBy(NoDump(watch), TRUE)
    BY <1>8 DEF TaskInfo, KernelExcuteBegin, begun
  <2>2. FileInv' /\ watch'.repeat = watch.repeat /\ \A u, i : Ahead(u, i) => AheadNext(u, i)
    BY <2>1, Unwatched DEF Ahead, AheadNext, ByWindow
  <2>3. BegunNext(t)
    BY <1>5, <1>8, <2>2 DEF BegunInv, BegunNext
  <2>4. \A u \in Threads \ {t} : BegunNext(u)
    BY <1>3, <1>5, <2>2, StillBegun
  <2> QED BY <2>2, <2>3, <2>4, AllBegun
<1> QED BY <1>7, <1>8

LEMMA KernelReturnBegun ==
    ASSUME TypeInv, FileInv, BegunInv, NamesDiffer, NEW t \in Threads, KernelReturn(t),
           linker'.last = linker.last
    PROVE  FileInv' /\ BegunInv'
<1> DEFINE k == linker.last[t]
           counted == host[t].kernelBegun
           g == [host EXCEPT ![t].pc = "out", ![t].kernel = NoName]
           ends == IsWatching /\ IsNeedTraceKernel /\ t \notin watch.repeat
<1>1. g \in [Threads -> HostStates]
  BY DEF TypeInv, HostStates
<1>2. /\ \A u \in Threads \ {t} : g[u] = host[u]
      /\ g[t].opBegun = host[t].opBegun /\ g[t].op = host[t].op
      /\ g[t].atbBegun = host[t].atbBegun /\ g[t].atb = host[t].atb
  BY DEF TypeInv, HostStates
<1>3. host' = [g EXCEPT ![t].kernelBegun = FALSE]
  BY DEF KernelReturn
<1> HIDE DEF g
<1>4. /\ \A u \in Threads \ {t} : host'[u] = host[u]
      /\ ~host'[t].kernelBegun
      /\ host'[t].opBegun = host[t].opBegun /\ host'[t].op = host[t].op
      /\ host'[t].atbBegun = host[t].atbBegun /\ host'[t].atb = host[t].atb
  BY <1>1, <1>2, <1>3 DEF HostStates
<1>5. /\ k \in Items /\ host[t].op \in Items /\ counted \in BOOLEAN
      /\ host[t].op # NoName => host[t].op # k
  BY ItemsOfHost, LaunchesAssumption DEF HostStates, NamesDiffer, TypeInv, Linkers
<1>6. CASE ends
  <2> DEFINE outcomes == WithOutputs(watch, t, k, <<>>)
  <2>1. WatchBy(outcomes, counted)
    BY <1>6 DEF KernelReturn, KernelExcuteEnd
  <2>2. IsWatch(watch) /\ SameCounts(watch)
    BY DEF FileInv, SameCounts
  <2>3. \A o \in outcomes : Ends(watch, t, k, o)
    BY <2>2, OutcomesEnd
  <2> HIDE DEF outcomes
  <2>4. ~host[t].atbBegun /\ (host[t].opBegun => host[t].op # NoName /\ Ahead(t, host[t].op))
    BY <1>6 DEF BegunInv
  <2>5. counted => Ahead(t, k)
    BY DEF BegunInv
  <2> HIDE DEF counted, k
  <2>6. /\ FileInv' /\ watch'.repeat = watch.repeat
        /\ \A u, i : (u # t \/ i # k) /\ Ahead(u, i) => AheadNext(u, i)
    <3>1. CASE counted
      <4>1. WatchBy(outcomes, TRUE) /\ Ahead(t, k)
        BY <2>1, <2>5, <3>1 DEF WatchBy
      <4> QED BY <1>5, <2>2, <2>3, <4>1, EndedNext
    <3>2. CASE ~counted
      <4>1. WatchBy(outcomes, FALSE)
        BY <2>1, <3>2 DEF WatchBy
      <4> QED BY <1>5, <2>2, <2>3, <4>1, EndedNext
    <3> QED BY <3>1, <3>2
  <2>7. BegunNext(t)
    BY <1>4, <1>5, <2>4, <2>6 DEF BegunNext
  <2>8. \A u \in Threads \ {t} : BegunNext(u)
    BY <1>4, <2>6, StillBegun
  <2> QED BY <2>6, <2>7, <2>8, AllBegun
<1>7. CASE ~ends
  <2>1. NoWatch \/ WatchBy(NoDump(watch), counted)
    BY <1>7 DEF KernelReturn, KernelExcuteEnd
  <2>2. FileInv' /\ watch'.repeat = watch.repeat /\ \A u, i : Ahead(u, i) => AheadNext(u, i)
    BY <1>5, <2>1, Unwatched DEF Ahead, AheadNext, ByWindow
  <2>3. BegunNext(t)
    BY <1>4, <2>2 DEF BegunInv, BegunNext
  <2>4. \A u \in Threads \ {t} : BegunNext(u)
    BY <1>4, <2>2, StillBegun
  <2> QED BY <2>2, <2>3, <2>4, AllBegun
<1> QED BY <1>6, <1>7

LEMMA FilesStep ==
    ASSUME NamesDiffer
    PROVE  TypeInv /\ TableInv /\ FileInv /\ BegunInv /\ [Next]_vars => FileInv' /\ BegunInv'
<1> SUFFICES ASSUME TypeInv, TableInv, FileInv, BegunInv, [Next]_vars
             PROVE  FileInv' /\ BegunInv'
  OBVIOUS
<1>1. ASSUME NEW t \in Threads, NEW key \in Keys, TaskInfo(t, key)
      PROVE  FileInv' /\ BegunInv'
  BY <1>1, TaskInfoBegun
<1>2. CASE ~\E t \in Threads, key \in Keys : TaskInfo(t, key)
  <2>1. linker'.last = linker.last
    BY <1>2, LastStays
  <2>2. ASSUME UNCHANGED host, NoWatch PROVE FileInv' /\ BegunInv'
    BY <2>1, <2>2, UnwatchedBegun
  <2>3. CASE \E t \in Threads, op \in Ops : OpBegin(t, op)
    BY <2>1, <2>3, OpBeginBegun
  <2>4. CASE \E t \in Threads : OpEnd(t)
    BY <2>1, <2>4, OpEndBegun
  <2>5. CASE \E t \in Threads, k \in AtbKernels : AtbBefore(t, k)
    BY <2>1, <2>5, AtbBeforeBegun
  <2>6. CASE \E t \in Threads : AtbAfter(t)
    BY <2>1, <2>6, AtbAfterBegun
  <2>7. CASE \E t \in Threads : KernelReturn(t)
    BY <2>1, <2>7, KernelReturnBegun
  <2>8. ASSUME NEW t \in Threads, NEW k \in Kernels, LaunchKernel(t, k)
        PROVE  FileInv' /\ BegunInv'
    <3>1. host[t].pc = "out" /\ NoWatch
          /\ host' = [host EXCEPT ![t].pc = "launched", ![t].kernel = k]
      BY <2>8 DEF LaunchKernel
    <3>2. /\ \A u \in Threads \ {t} : host'[u] = host[u]
          /\ host'[t].kernelBegun = host[t].kernelBegun
          /\ host'[t].opBegun = host[t].opBegun /\ host'[t].op = host[t].op
          /\ host'[t].atbBegun = host[t].atbBegun /\ host'[t].atb = host[t].atb
      BY <3>1 DEF TypeInv, HostStates
    <3>3. FileInv' /\ watch'.repeat = watch.repeat /\ \A u, i : Ahead(u, i) => AheadNext(u, i)
      BY <3>1, Unwatched DEF Ahead, AheadNext, ByWindow
    <3>4. BegunNext(t)
      BY <3>1, <3>2, <3>3 DEF BegunInv, BegunNext
    <3>5. \A u \in Threads \ {t} : BegunNext(u)
      BY <2>1, <3>2, <3>3, StillBegun
    <3> QED BY <3>3, <3>4, <3>5, AllBegun
  <2>9. ASSUME NEW t \in Threads, RegisterHash(t) PROVE FileInv' /\ BegunInv'
    BY <2>2, <2>9 DEF RegisterHash
  <2>10. ASSUME NEW key \in Keys, OtherTask(key) \/ StartTask(key) \/ FinishTask(key)
         PROVE  FileInv' /\ BegunInv'
    BY <2>2, <2>10 DEF OtherTask, StartTask, FinishTask
  <2>11. CASE Read \/ HandleLog \/ AclFinalize \/ SwitchTracing
    BY <2>2, <2>11 DEF Read, HandleLog, AclFinalize, SwitchTracing
  <2>12. CASE WatcherCalls
    <3>1. NoWatch \/ (Kept(watch, watch') /\ UNCHANGED <<written, overwritten>>)
      BY <2>12, WatcherKeeps
      DEF WatcherCalls, WatcherWatch, WatcherRemove, WatcherStep, Call, FileInv
    <3> QED BY <2>1, <2>12, <3>1, WatcherQuiet, UnwatchedBegun
  <2>13. CASE UNCHANGED vars
    BY <2>2, <2>13 DEF vars, NoWatch
  <2> QED
    BY <1>2, <2>3, <2>4, <2>5, <2>6, <2>7, <2>8, <2>9, <2>10, <2>11, <2>12, <2>13
    DEF Next, Host, WatcherCalls
<1> QED BY <1>1, <1>2

LEMMA InitFiles == Init => FileInv /\ BegunInv
<1> SUFFICES ASSUME Init PROVE FileInv /\ BegunInv
  OBVIOUS
<1>1. watch = NewWatch(Items) /\ written = {} /\ overwritten = {}
  BY DEF Init
<1>2. IsWatch(watch)
  BY <1>1 DEF NewWatch, IsWatch, WatchFields
<1>3. watch.count = [i \in Items |-> 0] /\ watch.firstCnt = 1 /\ watch.watched = NoTarget
  BY <1>1 DEF NewWatch
<1>4. FileInv
  BY <1>1, <1>2, <1>3 DEF FileInv
<1>5. BegunInv
  BY DEF Init, BegunInv, Idle
<1> QED BY <1>4, <1>5

\* No dump is written over an earlier one: the file of a dump that is numbered by the calls
\* of its operator or kernel is named once, in whatever order the threads' calls begin and
\* end, whatever is watched, started and stopped in the meantime.  That the hooks of ATB and
\* of the runtime both see a kernel makes no difference; that an operator has the name of a
\* kernel would.
THEOREM DumpsApart == ASSUME NamesDiffer PROVE Spec => []DumpsKeepApart
<1>1. FileInv => DumpsKeepApart
  BY DEF FileInv, DumpsKeepApart
<1>2. TypeInv /\ TableInv /\ FileInv /\ BegunInv /\ [Next]_vars => FileInv' /\ BegunInv'
  BY FilesStep
<1> QED BY <1>1, <1>2, InitKeyInv, InitFiles, TypeInvStep, TableInvStep, PTL DEF Spec

------------------------------------------------------------------------------------
\* Types of the watch, and how often an item is counted

Watchable == Tensors \cup UNION {Seqs!ToSet(Outputs(i)) : i \in Items}

Counters(nums) == \A tensor \in DOMAIN nums : nums[tensor] \in Unlimited..MaxDumps

WatchType(w) ==
    /\ IsWatch(w) /\ w.cmd \subseteq Watchable /\ w.python \subseteq Watchable
    /\ Counters(w.nums) /\ w.outputId \in Nat /\ w.repeat \subseteq Threads

LEMMA SetTypes ==
    ASSUME NEW w, WatchType(w), NEW v
    PROVE  /\ v \subseteq Watchable => /\ WatchType([w EXCEPT !.cmd = v])
                                       /\ WatchType([w EXCEPT !.python = v])
           /\ Counters(v) => WatchType([w EXCEPT !.nums = v])
           /\ v \in Nat => WatchType([w EXCEPT !.outputId = v])
           /\ v \subseteq Threads => WatchType([w EXCEPT !.repeat = v])
           /\ WatchType([w EXCEPT !.watched = v]) /\ WatchType([w EXCEPT !.firstCnt = v])
           /\ WatchType([w EXCEPT !.count = v]) /\ WatchType([w EXCEPT !.cmdOutput = v])
           /\ WatchType([w EXCEPT !.names = v])
<1>1. v \subseteq Watchable => WatchType([w EXCEPT !.cmd = v]) /\ WatchType([w EXCEPT !.python = v])
  BY DEF WatchType, IsWatch, WatchFields
<1>2. /\ Counters(v) => WatchType([w EXCEPT !.nums = v])
      /\ v \in Nat => WatchType([w EXCEPT !.outputId = v])
      /\ v \subseteq Threads => WatchType([w EXCEPT !.repeat = v])
  BY DEF WatchType, IsWatch, WatchFields
<1>3. WatchType([w EXCEPT !.watched = v]) /\ WatchType([w EXCEPT !.firstCnt = v])
  BY DEF WatchType, IsWatch, WatchFields
<1>4. /\ WatchType([w EXCEPT !.count = v]) /\ WatchType([w EXCEPT !.cmdOutput = v])
      /\ WatchType([w EXCEPT !.names = v])
  BY DEF WatchType, IsWatch, WatchFields
<1> QED BY <1>1, <1>2, <1>3, <1>4

\* A dump counts down no further than to 0.
LEMMA CountedType ==
    ASSUME NEW w, WatchType(w), NEW reached
    PROVE  WatchType(Counted(w, reached))
<1> DEFINE nums == [t \in DOMAIN w.nums |-> IF t \in reached /\ w.nums[t] > 0
                                            THEN w.nums[t] - 1 ELSE w.nums[t]]
<1>1. Counters(nums)
  BY LaunchesAssumption DEF WatchType, Counters
<1>2. Counted(w, reached) = [w EXCEPT !.nums = nums]
  BY DEF Counted
<1>3. WatchType([w EXCEPT !.nums = nums])
  <2> HIDE DEF nums
  <2> QED BY <1>1, SetTypes
<1> QED BY <1>2, <1>3

LEMMA DumpType ==
    ASSUME NEW w, WatchType(w), NEW label, NEW when, NEW o \in Dump(w, label, when)
    PROVE  WatchType(o.watch)
<1>1. PICK ready : \E files : o = [watch |-> Counted(w, ready), files |-> files]
  BY Zenon DEF Dump
<1> QED BY <1>1, CountedType

LEMMA NoDumpType ==
    ASSUME NEW w, WatchType(w), NEW o \in NoDump(w)
    PROVE  WatchType(o.watch)
  BY DEF NoDump

LEMMA BeginType ==
    ASSUME NEW w, WatchType(w), NEW t, NEW item, NEW o \in BeginExcute(w, t, item)
    PROVE  WatchType(o.watch)
<1> DEFINE counted == CountOpName(w, item)
<1>1. WatchType(counted)
  BY SetTypes DEF CountOpName
<1>2. o \in Dump(counted, Label(t, item, counted.count[item]), "before") \/ o \in NoDump(counted)
  BY DEF BeginExcute
<1> HIDE DEF counted
<1> QED BY <1>1, <1>2, DumpType, NoDumpType

LEMMA EndType ==
    ASSUME NEW w, WatchType(w), NEW t, NEW item, NEW outputs \in SUBSET Watchable,
           NEW outputId, NEW o \in EndExcute(w, t, item, outputs, outputId)
    PROVE  WatchType(o.watch)
<1> DEFINE o1 == [w EXCEPT !.watched = item]
           o2 == [o1 EXCEPT !.firstCnt = w.firstCnt + 1]
           o3 == [o2 EXCEPT !.cmdOutput = outputId]
           opened == [o3 EXCEPT !.cmd = w.cmd \cup outputs]
           label  == Label(t, item, w.count[item])
<1>1. WatchType(o1)
  BY SetTypes
<1>2. WatchType(o2)
  <2> HIDE DEF o1
  <2> QED BY <1>1, SetTypes
<1>3. WatchType(o3)
  <2> HIDE DEF o2
  <2> QED BY <1>2, SetTypes
<1>4. WatchType(opened)
  <2>1. w.cmd \cup outputs \subseteq Watchable
    BY DEF WatchType
  <2> HIDE DEF o3
  <2> QED BY <1>3, <2>1, SetTypes
<1>5. opened = [w EXCEPT !.watched = item, !.firstCnt = @ + 1, !.cmdOutput = outputId,
                         !.cmd = @ \cup outputs]
  BY DEF WatchType, IsWatch, WatchFields
<1> HIDE DEF opened, o1, o2, o3
<1>6. CASE o \in Dump(opened, Label(t, item, w.firstCnt), "after")
  BY <1>4, <1>6, DumpType
<1>7. CASE \E d \in Dump(w, label, "after") :
               o = [d EXCEPT !.watch.watched = NoTarget, !.watch.cmd = {}]
  <2>1. PICK d \in Dump(w, label, "after") :
            o = [d EXCEPT !.watch.watched = NoTarget, !.watch.cmd = {}]
    BY <1>7
  <2>2. WatchType(d.watch)
    BY <2>1, DumpType
  <2>3. \E x, y : d = [watch |-> x, files |-> y]
    BY <2>1 DEF Dump
  <2> DEFINE w1 == [d.watch EXCEPT !.watched = NoTarget]
             w2 == [w1 EXCEPT !.cmd = {}]
  <2>4. o.watch = w2
    BY <2>1, <2>3
  <2>5. WatchType(w1)
    BY <2>2, SetTypes
  <2>6. WatchType(w2)
    <3> HIDE DEF w1
    <3> QED BY <2>5, SetTypes
  <2> HIDE DEF w2
  <2> QED BY <2>4, <2>6
<1>8. CASE o \in Dump(w, label, "after") \/ o \in NoDump(w)
  BY <1>8, DumpType, NoDumpType
<1>9. \/ o \in Dump(opened, Label(t, item, w.firstCnt), "after")
      \/ \E d \in Dump(w, label, "after") :
             o = [d EXCEPT !.watch.watched = NoTarget, !.watch.cmd = {}]
      \/ o \in Dump(w, label, "after") \/ o \in NoDump(w)
  BY <1>5 DEF EndExcute
<1> QED BY <1>6, <1>7, <1>8, <1>9

\* The outputs of an operator or kernel.
IsOutputs(outputs) == outputs \in Seq(Watchable)

LEMMA WithOutputsType ==
    ASSUME NEW w, WatchType(w), NEW t, NEW item, NEW outputs, IsOutputs(outputs),
           NEW o \in WithOutputs(w, t, item, outputs)
    PROVE  WatchType(o.watch)
<1> DEFINE v == [w EXCEPT !.outputId = AllOutputs]
           out == outputs[w.outputId + 1]
           all == {outputs[i] : i \in DOMAIN outputs}
<1>1. WatchType(v)
  BY LaunchesAssumption, SetTypes
<1>2. w.outputId < Len(outputs) => {out} \in SUBSET Watchable
  BY DEF IsOutputs, WatchType
<1>3. all \in SUBSET Watchable
  BY DEF IsOutputs
<1>4. \/ o \in EndExcute(w, t, item, {}, AllOutputs)
      \/ w.outputId < Len(outputs) /\ o \in EndExcute(w, t, item, {out}, w.outputId)
      \/ o \in EndExcute(v, t, item, all, AllOutputs)
  BY DEF WithOutputs, Maps!Range
<1> HIDE DEF v, out, all
<1>5. {} \in SUBSET Watchable
  OBVIOUS
<1> QED BY <1>1, <1>2, <1>3, <1>4, <1>5, EndType

LEMMA OutputsType ==
    ASSUME NEW i \in Ops \cup AtbKernels
    PROVE  IsOutputs(Outputs(i))
<1>1. Outputs(i) \in Seq(Seqs!ToSet(Outputs(i)))
  BY LaunchesAssumption
<1>2. Seqs!ToSet(Outputs(i)) \subseteq Watchable
  BY DEF Watchable, Items
<1> HIDE DEF Watchable
<1> QED BY <1>1, <1>2 DEF IsOutputs

\* The threads whose launch may still be counted.
InLaunch == {t \in Threads : Launched(t)}

\* Every call is counted for an item once at most.
CountInv ==
    /\ IsFiniteSet(InLaunch) /\ calls \in Nat /\ watch.count \in [Items -> Nat]
    /\ \A i \in Items : watch.count[i] + Cardinality(InLaunch) <= calls

WatcherType ==
    /\ watcher \in [pc : {"ready", "nums", "name", "add", "uncount", "unname", "drop"},
                    tensor : Tensors \cup {NoName}, nums : Unlimited..MaxDumps]
    /\ watcher.pc # "ready" => watcher.tensor \in Tensors

BoundInv ==
    /\ config \in Settings /\ calls \in Nat /\ calls <= config.calls /\ launches <= calls
    /\ Len(buffer) < BufferLogs /\ tracing \in BOOLEAN

Uncounted == watch'.count = watch.count
CountedOnce == \E i \in Items : watch'.count = [watch.count EXCEPT ![i] = @ + 1]

LEMMA CountStep ==
    ASSUME CountInv, calls' \in Nat,
           \/ Uncounted /\ InLaunch' \subseteq InLaunch /\ calls <= calls'
           \/ CountedOnce /\ InLaunch' \subseteq InLaunch /\ calls' = calls + 1
           \/ /\ Uncounted /\ calls' = calls + 1
              /\ \E t : InLaunch' = InLaunch \cup {t}
           \/ /\ CountedOnce /\ calls' = calls
              /\ \E t \in InLaunch : InLaunch' = InLaunch \ {t}
    PROVE  CountInv'
<1> DEFINE a == Cardinality(InLaunch)
           b == Cardinality(InLaunch')
<1>1. /\ watch'.count \in [Items -> Nat]
      /\ \A i \in Items : watch'.count[i] \in {watch.count[i], watch.count[i] + 1}
      /\ Uncounted => \A i \in Items : watch'.count[i] = watch.count[i]
  <2>0. watch.count \in [Items -> Nat]
    BY DEF CountInv
  <2>1. CASE Uncounted
    BY <2>0, <2>1 DEF Uncounted
  <2>2. CASE CountedOnce /\ ~Uncounted
    <3>1. PICK i \in Items : watch'.count = [watch.count EXCEPT ![i] = @ + 1]
      BY <2>2 DEF CountedOnce
    <3> QED BY <2>0, <2>2, <3>1
  <2> QED BY <2>1, <2>2
<1>2. a \in Nat /\ \A i \in Items : watch.count[i] \in Nat /\ watch.count[i] + a <= calls
  BY FS_CardinalityType DEF CountInv
<1>3. calls \in Nat
  BY DEF CountInv
<1>4. CASE InLaunch' \subseteq InLaunch /\ ((Uncounted /\ calls <= calls') \/ calls' = calls + 1)
  <2>1. IsFiniteSet(InLaunch') /\ b \in Nat /\ b <= a
    BY <1>4, FS_Subset, FS_CardinalityType DEF CountInv
  <2> HIDE DEF a
  <2>2. \A i \in Items : watch'.count[i] + b <= calls'
    <3> HIDE DEF b
    <3> QED BY <1>1, <1>2, <1>3, <1>4, <2>1
  <2> QED BY <1>1, <2>1, <2>2 DEF CountInv
<1>5. CASE Uncounted /\ calls' = calls + 1 /\ \E t : InLaunch' = InLaunch \cup {t}
  <2>1. IsFiniteSet(InLaunch') /\ b \in Nat /\ b <= a + 1
    <3>1. PICK t : InLaunch' = InLaunch \cup {t}
      BY <1>5
    <3>2. IsFiniteSet(InLaunch) /\ Cardinality(InLaunch) \in Nat
      BY <1>2 DEF CountInv
    <3>3. /\ IsFiniteSet(InLaunch \cup {t})
          /\ Cardinality(InLaunch \cup {t}) \in {Cardinality(InLaunch), Cardinality(InLaunch) + 1}
      BY <3>2, FS_AddElement
    <3>4. IsFiniteSet(InLaunch') /\ b \in {a, a + 1}
      BY <3>1, <3>3
    <3> QED BY <1>2, <3>4
  <2> HIDE DEF a
  <2>2. \A i \in Items : watch'.count[i] + b <= calls'
    <3> HIDE DEF b
    <3> QED BY <1>1, <1>2, <1>3, <1>5, <2>1
  <2> QED BY <1>1, <2>1, <2>2 DEF CountInv
<1>6. CASE calls' = calls /\ \E t \in InLaunch : InLaunch' = InLaunch \ {t}
  <2>1. IsFiniteSet(InLaunch') /\ b \in Nat /\ b = a - 1
    BY <1>2, <1>6, FS_RemoveElement, FS_CardinalityType DEF CountInv
  <2> HIDE DEF a
  <2>2. \A i \in Items : watch'.count[i] + b <= calls'
    <3> HIDE DEF b
    <3> QED BY <1>1, <1>2, <1>3, <1>6, <2>1
  <2> QED BY <1>1, <2>1, <2>2 DEF CountInv
<1> QED BY <1>4, <1>5, <1>6

LEMMA BegunTypes ==
    ASSUME CountInv, NEW t, NEW item \in Items, NEW v, WatchType(v), v.count = watch.count,
           NEW counted, WatchBy(BeginExcute(v, t, item), counted)
    PROVE  WatchType(watch') /\ CountedOnce
<1>1. PICK o \in BeginExcute(v, t, item) : watch' = o.watch
  BY DEF WatchBy
<1>2. IsWatch(v) /\ v.count \in [Items -> Nat]
  BY DEF WatchType, CountInv
<1>3. Begins(v, t, item, o)
  BY <1>2, Beginning
<1>4. WatchType(o.watch)
  BY BeginType
<1> QED BY <1>1, <1>3, <1>4 DEF Begins, Counts, CountedOnce

LEMMA EndedTypes ==
    ASSUME NEW t, NEW item, NEW v, WatchType(v), v.count = watch.count, NEW outputs,
           IsOutputs(outputs), NEW counted, WatchBy(WithOutputs(v, t, item, outputs), counted)
    PROVE  WatchType(watch') /\ Uncounted
<1>1. PICK o \in WithOutputs(v, t, item, outputs) : watch' = o.watch
  BY DEF WatchBy
<1>2. IsWatch(v)
  BY DEF WatchType
<1>3. Ends(v, t, item, o)
  BY <1>2, EndingWithOutputs
<1>4. WatchType(o.watch)
  BY WithOutputsType
<1> QED BY <1>1, <1>3, <1>4 DEF Ends, Uncounted

LEMMA SameTypes ==
    ASSUME WatchType(watch), NoWatch \/ \E counted : WatchBy(NoDump(watch), counted)
    PROVE  WatchType(watch') /\ Uncounted
<1>1. watch' = watch
  BY DEF NoWatch, WatchBy, NoDump
<1> QED BY <1>1 DEF Uncounted

\* What a step does to the watch and to the count of its calls.
Counting == WatchType(watch') /\ (Uncounted \/ CountedOnce)

LEMMA OpBeginCounts ==
    ASSUME WatchType(watch), CountInv, NEW t, NEW op \in Ops, OpBegin(t, op)
    PROVE  Counting
<1>1. op \in Items
  BY DEF Items
<1>2. WatchBy(BeginExcute(watch, t, op), TRUE) \/ NoWatch
  BY DEF OpBegin, OpExcuteBegin
<1> QED BY <1>1, <1>2, BegunTypes, SameTypes DEF Counting

LEMMA OpEndCounts ==
    ASSUME TypeInv, WatchType(watch), NEW t \in Threads, OpEnd(t)
    PROVE  WatchType(watch') /\ Uncounted
<1>1. IsOutputs(Outputs(host[t].op))
  BY OutputsType DEF OpEnd, TypeInv, HostStates
<1>2. NoWatch \/ \E path : WatchBy(WithOutputs(watch, t, path, Outputs(host[t].op)),
                                   host[t].opBegun)
  BY DEF OpEnd, OpExcuteEnd
<1> QED BY <1>1, <1>2, EndedTypes, SameTypes

LEMMA AtbBeforeCounts ==
    ASSUME WatchType(watch), CountInv, NEW t \in Threads, NEW k \in AtbKernels, AtbBefore(t, k)
    PROVE  Counting
<1> DEFINE v == [watch EXCEPT !.repeat = @ \cup {t}]
<1>1. k \in Items
  BY DEF Items
<1>2. WatchBy(BeginExcute(v, t, k), TRUE) \/ NoWatch
  BY DEF AtbBefore, KernelExcuteBegin
<1>3. WatchType(v) /\ v.count = watch.count
  BY SetTypes DEF WatchType, IsWatch, WatchFields
<1> HIDE DEF v
<1> QED BY <1>1, <1>2, <1>3, BegunTypes, SameTypes DEF Counting

LEMMA AtbAfterCounts ==
    ASSUME TypeInv, WatchType(watch), NEW t \in Threads, AtbAfter(t)
    PROVE  WatchType(watch') /\ Uncounted
<1> DEFINE v == [watch EXCEPT !.repeat = @ \ {t}]
           k == host[t].atb
<1>1. IsOutputs(Outputs(k))
  BY OutputsType DEF AtbAfter, TypeInv, HostStates
<1>2. NoWatch \/ WatchBy(WithOutputs(v, t, k, Outputs(k)), host[t].atbBegun)
  BY DEF AtbAfter, KernelExcuteEnd
<1>3. WatchType(v) /\ v.count = watch.count
  BY SetTypes DEF WatchType, IsWatch, WatchFields
<1> HIDE DEF v, k
<1> QED BY <1>1, <1>2, <1>3, EndedTypes, SameTypes

LEMMA TaskInfoCounts ==
    ASSUME TypeInv, TypeInv', WatchType(watch), CountInv, NEW t \in Threads, NEW key \in Keys,
           TaskInfo(t, key)
    PROVE  Counting
<1> DEFINE name == linker'.last[t]
<1>1. name \in Items
  BY DEF TypeInv, Linkers, Items
<1>2. \/ WatchBy(BeginExcute(watch, t, name), TRUE)
      \/ NoWatch \/ WatchBy(NoDump(watch), TRUE)
  BY DEF TaskInfo, KernelExcuteBegin
<1> HIDE DEF name
<1> QED BY <1>1, <1>2, BegunTypes, SameTypes DEF Counting

LEMMA KernelReturnCounts ==
    ASSUME WatchType(watch), NEW t \in Threads, KernelReturn(t)
    PROVE  WatchType(watch') /\ Uncounted
<1>1. IsOutputs(<<>>)
  BY DEF IsOutputs
<1>2. \/ WatchBy(WithOutputs(watch, t, linker.last[t], <<>>), host[t].kernelBegun)
      \/ NoWatch \/ WatchBy(NoDump(watch), host[t].kernelBegun)
  BY DEF KernelReturn, KernelExcuteEnd
<1> QED BY <1>1, <1>2, EndedTypes, SameTypes

LEMMA WatcherStepTypes ==
    ASSUME WatchType(watch), WatcherType, WatcherCalls
    PROVE  WatchType(watch') /\ Uncounted /\ WatcherType'
<1> DEFINE w == watch
           tensor == watcher.tensor
           n == watcher.nums
<1>0. IsWatch(watch) /\ Counters(watch.nums) /\ watch.python \subseteq Watchable
  BY DEF WatchType
<1>1. ASSUME NEW pc \in {"nums", "uncount"}, Call(pc)
      PROVE  WatchType(watch') /\ Uncounted /\ WatcherType'
  <2>1. watch' = watch
    BY <1>1 DEF Call, NoWatch
  <2>2. WatcherType'
    BY <1>1, LaunchesAssumption DEF Call, WatcherType
  <2> QED BY <2>1, <2>2 DEF Uncounted
<1>2. ASSUME NEW from \in {"nums", "name", "add", "uncount", "unname", "drop"},
             NEW to \in {"ready", "name", "add", "unname", "drop"}, NEW next,
             WatcherStep(from, to, next)
      PROVE  /\ watch' = next /\ WatcherType' /\ watcher.tensor \in Tensors
             /\ watcher.nums \in Unlimited..MaxDumps
  BY <1>2, LaunchesAssumption DEF WatcherStep, WatcherType, Ready
<1>3. CASE \/ WatcherStep("nums", "name", SetDumpNums(watch, watcher.tensor, watcher.nums))
           \/ WatcherStep("uncount", "unname", DeleteDumpNums(watch, watcher.tensor))
  <2>1. WatcherType' /\ n \in Unlimited..MaxDumps
        /\ watch' \in {SetDumpNums(watch, tensor, n), DeleteDumpNums(watch, tensor)}
    BY <1>2, <1>3
  <2> DEFINE more == [t \in DOMAIN watch.nums \cup {tensor} |-> IF t = tensor THEN n
                                                                ELSE watch.nums[t]]
             less == Maps!Restrict(watch.nums, DOMAIN watch.nums \ {tensor})
  <2>2. SetDumpNums(watch, tensor, n) = [w EXCEPT !.nums = more]
        /\ DeleteDumpNums(watch, tensor) = [w EXCEPT !.nums = less]
    BY DEF SetDumpNums, DeleteDumpNums
  <2>3. Counters(more) /\ Counters(less)
    BY <1>0, <2>1 DEF Counters, Maps!Restrict
  <2> HIDE DEF more, less
  <2>4. WatchType([w EXCEPT !.nums = more]) /\ WatchType([w EXCEPT !.nums = less])
    BY <2>3, SetTypes
  <2>5. [w EXCEPT !.nums = more].count = w.count /\ [w EXCEPT !.nums = less].count = w.count
    BY <1>0 DEF IsWatch, WatchFields
  <2> QED BY <2>1, <2>2, <2>4, <2>5 DEF Uncounted
<1>4. CASE \/ WatcherStep("name", "add", SetDumpName(watch, watcher.tensor, watcher.tensor))
           \/ WatcherStep("unname", "drop", DeleteDumpName(watch, watcher.tensor))
  <2>1. WatcherType' /\ watch' \in {SetDumpName(watch, tensor, tensor), DeleteDumpName(watch, tensor)}
    BY <1>2, <1>4
  <2>2. PICK names : watch' = [w EXCEPT !.names = names]
    BY <2>1 DEF SetDumpName, DeleteDumpName
  <2>3. WatchType([w EXCEPT !.names = names])
    BY SetTypes
  <2>4. [w EXCEPT !.names = names].count = w.count
    BY <1>0 DEF IsWatch, WatchFields
  <2> QED BY <2>1, <2>2, <2>3, <2>4 DEF Uncounted
<1>5. CASE \/ WatcherStep("add", "ready", AddWatchTensor(watch, watcher.tensor))
           \/ WatcherStep("drop", "ready", DeleteWatchTensor(watch, watcher.tensor))
  <2>1. WatcherType' /\ tensor \in Tensors
        /\ watch' \in {AddWatchTensor(watch, tensor), DeleteWatchTensor(watch, tensor)}
    BY <1>2, <1>5
  <2>2. PICK python : watch' = [w EXCEPT !.python = python] /\ python \subseteq Watchable
    BY <1>0, <2>1 DEF AddWatchTensor, DeleteWatchTensor, Watchable
  <2>3. WatchType([w EXCEPT !.python = python])
    BY <2>2, SetTypes
  <2>4. [w EXCEPT !.python = python].count = w.count
    BY <1>0 DEF IsWatch, WatchFields
  <2> QED BY <2>1, <2>2, <2>3, <2>4 DEF Uncounted
<1> QED BY <1>1, <1>3, <1>4, <1>5 DEF WatcherCalls, WatcherWatch, WatcherRemove

\* What the steps do to the calls, the launches and the threads that are in a launch.
LEMMA CallsOf ==
    ASSUME TypeInv, BoundInv, [Next]_vars
    PROVE  BoundInv' /\ calls' \in {calls, calls + 1}
<1>1. config' = config /\ config \in Settings
  BY DEF Next, Host, OpBegin, OpEnd, AtbBefore, AtbAfter, LaunchKernel, RegisterHash, TaskInfo,
         KernelReturn, OtherTask, StartTask, FinishTask, Read, HandleLog, AclFinalize,
         SwitchTracing, WatcherWatch, WatcherRemove, WatcherStep, Call, vars, BoundInv
<1>2. tracing' \in BOOLEAN
  BY DEF Next, Host, OpBegin, OpEnd, AtbBefore, AtbAfter, LaunchKernel, RegisterHash, TaskInfo,
         KernelReturn, OtherTask, StartTask, FinishTask, Read, HandleLog, AclFinalize,
         SwitchTracing, WatcherWatch, WatcherRemove, WatcherStep, Call, vars, BoundInv
<1>3. \/ calls' = calls /\ launches' = launches
      \/ calls < config.calls /\ calls' = calls + 1 /\ launches' \in {launches, launches + 1}
  BY DEF Next, Host, OpBegin, OpEnd, AtbBefore, AtbAfter, LaunchKernel, RegisterHash, TaskInfo,
         KernelReturn, OtherTask, StartTask, FinishTask, Read, HandleLog, AclFinalize,
         SwitchTracing, WatcherWatch, WatcherRemove, WatcherStep, Call, vars, traceVars
<1>4. config.calls \in Nat /\ launches \in Nat
  BY LaunchesAssumption DEF BoundInv, TypeInv
<1>5. Len(buffer') < BufferLogs
  <2>1. CASE Read
    <3>1. CASE buffer' = buffer
      BY <3>1 DEF BoundInv
    <3>2. CASE buffer' # buffer
      <4>1. PICK n \in 1..Len(channel) : n <= BufferLogs /\ n # BufferLogs
                                         /\ buffer' = SubSeq(channel, 1, n)
        BY <2>1, <3>2 DEF Read
      <4>2. Len(SubSeq(channel, 1, n)) = n
        BY <4>1 DEF TypeInv
      <4> QED BY <4>1, <4>2, LaunchesAssumption
    <3> QED BY <3>1, <3>2
  <2>2. CASE HandleLog
    <3>1. Len(buffer') = Len(buffer) - 1 /\ Len(buffer) \in Nat
      BY <2>2 DEF HandleLog, TypeInv
    <3> QED BY <3>1, LaunchesAssumption DEF BoundInv
  <2>3. CASE buffer' = buffer
    BY <2>3 DEF BoundInv
  <2>4. buffer' = buffer \/ Read \/ HandleLog
    BY DEF Next, Host, OpBegin, OpEnd, AtbBefore, AtbAfter, LaunchKernel, RegisterHash, TaskInfo,
           KernelReturn, OtherTask, StartTask, FinishTask, AclFinalize,
           SwitchTracing, WatcherWatch, WatcherRemove, WatcherStep, Call, vars, traceVars
  <2> QED BY <2>1, <2>2, <2>3, <2>4
<1>6. calls' \in Nat /\ calls' <= config.calls /\ launches' <= calls'
  BY <1>3, <1>4 DEF BoundInv
<1> QED BY <1>1, <1>2, <1>3, <1>5, <1>6 DEF BoundInv

LEMMA TypesStep ==
    ASSUME TypeInv, TypeInv', WatchType(watch), WatcherType, CountInv, BoundInv, BoundInv',
           [Next]_vars
    PROVE  WatchType(watch') /\ WatcherType' /\ CountInv'
<1>0. calls \in Nat /\ calls' \in Nat
  BY DEF BoundInv
<1>1. ASSUME NoWatch, UNCHANGED watcher, InLaunch' \subseteq InLaunch, calls <= calls'
      PROVE  WatchType(watch') /\ WatcherType' /\ CountInv'
  <2>1. WatchType(watch') /\ Uncounted
    BY <1>1, SameTypes
  <2>2. CountInv'
    BY <1>0, <1>1, <2>1, CountStep
  <2> QED BY <1>1, <2>1, <2>2 DEF WatcherType
<1>2. ASSUME NEW t \in Threads, NEW op \in Ops, OpBegin(t, op)
      PROVE  WatchType(watch') /\ WatcherType' /\ CountInv'
  <2>1. Counting
    BY <1>2, OpBeginCounts
  <2>2. UNCHANGED watcher /\ calls' = calls + 1
    BY <1>2 DEF OpBegin
  <2>3. InLaunch' \subseteq InLaunch
    BY <1>2 DEF OpBegin, InLaunch, Launched, TypeInv, HostStates
  <2>4. CountInv'
    BY <1>0, <2>1, <2>2, <2>3, CountStep DEF Counting
  <2> QED BY <2>1, <2>2, <2>4 DEF Counting, WatcherType
<1>3. ASSUME NEW t \in Threads, OpEnd(t) \/ AtbAfter(t) \/ KernelReturn(t)
      PROVE  WatchType(watch') /\ WatcherType' /\ CountInv'
  <2>1. WatchType(watch') /\ Uncounted
    BY <1>3, OpEndCounts, AtbAfterCounts, KernelReturnCounts
  <2>2. UNCHANGED watcher /\ calls' = calls
    BY <1>3 DEF OpEnd, AtbAfter, KernelReturn
  <2>3. InLaunch' \subseteq InLaunch
    <3>1. CASE OpEnd(t)
      BY <3>1 DEF OpEnd, Idle, InLaunch, Launched, TypeInv
    <3>2. CASE AtbAfter(t)
      BY <3>2 DEF AtbAfter, InLaunch, Launched, TypeInv, HostStates
    <3>3. CASE KernelReturn(t)
      BY <3>3 DEF KernelReturn, InLaunch, Launched, TypeInv, HostStates
    <3> QED BY <1>3, <3>1, <3>2, <3>3
  <2>4. CountInv'
    BY <1>0, <2>1, <2>2, <2>3, CountStep
  <2> QED BY <2>1, <2>2, <2>4 DEF WatcherType
<1>4. ASSUME NEW t \in Threads, NEW k \in AtbKernels, AtbBefore(t, k)
      PROVE  WatchType(watch') /\ WatcherType' /\ CountInv'
  <2>1. Counting
    BY <1>4, AtbBeforeCounts
  <2>2. UNCHANGED watcher /\ calls' = calls + 1
    BY <1>4 DEF AtbBefore
  <2>3. InLaunch' \subseteq InLaunch
    BY <1>4 DEF AtbBefore, InLaunch, Launched, TypeInv, HostStates
  <2>4. CountInv'
    BY <1>0, <2>1, <2>2, <2>3, CountStep DEF Counting
  <2> QED BY <2>1, <2>2, <2>4 DEF Counting, WatcherType
<1>5. ASSUME NEW t \in Threads, NEW k \in Kernels, LaunchKernel(t, k)
      PROVE  WatchType(watch') /\ WatcherType' /\ CountInv'
  <2>1. WatchType(watch') /\ Uncounted
    BY <1>5, SameTypes DEF LaunchKernel
  <2>2. UNCHANGED watcher /\ calls' = calls + 1
    BY <1>5 DEF LaunchKernel
  <2>3. InLaunch' = InLaunch \cup {t}
    BY <1>5 DEF LaunchKernel, InLaunch, Launched, TypeInv, HostStates
  <2>4. CountInv'
    BY <1>0, <2>1, <2>2, <2>3, CountStep
  <2> QED BY <2>1, <2>2, <2>4 DEF WatcherType
<1>6. ASSUME NEW t \in Threads, NEW key \in Keys, TaskInfo(t, key)
      PROVE  WatchType(watch') /\ WatcherType' /\ CountInv'
  <2>1. Counting
    BY <1>6, TaskInfoCounts
  <2>2. UNCHANGED watcher /\ calls' = calls
    BY <1>6 DEF TaskInfo
  <2>3. t \in InLaunch /\ InLaunch' = InLaunch \ {t}
    BY <1>6 DEF TaskInfo, InLaunch, Launched, TypeInv, HostStates
  <2>4. CASE Uncounted
    <3>1. CountInv'
      BY <1>0, <2>2, <2>3, <2>4, CountStep
    <3> QED BY <2>1, <2>2, <3>1 DEF Counting, WatcherType
  <2>5. CASE CountedOnce
    <3>1. CountInv'
      BY <1>0, <2>2, <2>3, <2>5, CountStep
    <3> QED BY <2>1, <2>2, <3>1 DEF Counting, WatcherType
  <2> QED BY <2>1, <2>4, <2>5 DEF Counting
<1>7. CASE WatcherCalls
  <2>1. WatchType(watch') /\ Uncounted /\ WatcherType'
    BY <1>7, WatcherStepTypes
  <2>2. UNCHANGED host /\ calls' = calls
    BY <1>7, WatcherQuiet DEF WatcherCalls, WatcherWatch, WatcherRemove, WatcherStep, Call
  <2>3. InLaunch' \subseteq InLaunch
    BY <2>2 DEF InLaunch, Launched
  <2>4. CountInv'
    BY <1>0, <2>1, <2>2, <2>3, CountStep
  <2> QED BY <2>1, <2>4
<1>8. ASSUME UNCHANGED <<host, watcher>>, NoWatch, calls' \in {calls, calls + 1}
      PROVE  WatchType(watch') /\ WatcherType' /\ CountInv'
  <2>1. InLaunch' \subseteq InLaunch
    BY <1>8 DEF InLaunch, Launched
  <2> QED BY <1>0, <1>1, <1>8, <2>1
<1>9. ASSUME NEW t \in Threads, RegisterHash(t)
      PROVE  WatchType(watch') /\ WatcherType' /\ CountInv'
  BY <1>8, <1>9 DEF RegisterHash
<1>10. ASSUME NEW key \in Keys, OtherTask(key) \/ StartTask(key) \/ FinishTask(key)
       PROVE  WatchType(watch') /\ WatcherType' /\ CountInv'
  BY <1>8, <1>10 DEF OtherTask, StartTask, FinishTask
<1>11. CASE Read \/ HandleLog \/ AclFinalize \/ SwitchTracing
  BY <1>8, <1>11 DEF Read, HandleLog, AclFinalize, SwitchTracing
<1>12. CASE UNCHANGED vars
  BY <1>8, <1>12 DEF vars, NoWatch
<1> QED
  BY <1>2, <1>3, <1>4, <1>5, <1>6, <1>7, <1>9, <1>10, <1>11, <1>12
  DEF Next, Host, WatcherCalls

LEMMA InitTypes == Init => WatchType(watch) /\ WatcherType /\ CountInv /\ BoundInv
<1> SUFFICES ASSUME Init PROVE WatchType(watch) /\ WatcherType /\ CountInv /\ BoundInv
  OBVIOUS
<1>1. watch = NewWatch(Items) /\ host = [t \in Threads |-> Idle]
  BY DEF Init
<1>2. WatchType(watch)
  <2>1. IsWatch(watch)
    BY <1>1 DEF NewWatch, IsWatch, WatchFields
  <2>2. /\ watch.cmd = {} /\ watch.python = {} /\ watch.nums = <<>> /\ watch.repeat = {}
        /\ watch.outputId = WatchOutput
    BY <1>1 DEF NewWatch
  <2>3. Counters(<<>>)
    BY DEF Counters
  <2> QED BY <2>1, <2>2, <2>3, LaunchesAssumption DEF WatchType
<1>3. WatcherType
  BY LaunchesAssumption DEF Init, Ready, WatcherType
<1>4. InLaunch = {}
  BY <1>1 DEF InLaunch, Launched, Idle
<1>5. CountInv
  <2>1. watch.count = [i \in Items |-> 0] /\ calls = 0
    BY <1>1 DEF NewWatch, Init
  <2>2. IsFiniteSet(InLaunch) /\ Cardinality(InLaunch) = 0
    BY <1>4, FS_EmptySet
  <2> QED BY <2>1, <2>2 DEF CountInv
<1>6. BoundInv
  BY LaunchesAssumption DEF Init, BoundInv
<1> QED BY <1>2, <1>3, <1>5, <1>6

\* Every item is counted once for each call at most, whether ATB, the runtime or both report
\* it; the table holds an entry for each launch at most; a buffer that was filled is never
\* handled; and a dump count is -1 or what is left of the one that was set.
THEOREM LaunchesTypes == Spec => []TypeOK
<1>1. /\ TypeInv /\ TableInv /\ WatchType(watch) /\ WatcherType /\ CountInv /\ BoundInv
      => TypeOK
  <2> SUFFICES ASSUME TypeInv, TableInv, WatchType(watch), CountInv, BoundInv
               PROVE  TypeOK
    OBVIOUS
  <2>1. /\ linker.known \subseteq Kernels
        /\ \A t \in Threads : linker.last[t] \in Kernels \cup {NoName}
    BY DEF TypeInv, Linkers
  <2>2. calls \in Nat /\ calls <= MaxCalls /\ launches \in Nat /\ launches <= MaxCalls
    BY LaunchesAssumption DEF BoundInv, TypeInv
  <2>3. \A t \in Threads : Seqs!ToSet(linker.entries[t]) \subseteq Entry
    <3> SUFFICES ASSUME NEW t \in Threads, NEW i \in DOMAIN linker.entries[t]
                 PROVE  linker.entries[t][i] \in Entry
      BY DEF Seqs!ToSet
    <3>1. linker.entries[t][i] \in Entries
      BY DEF TypeInv, Linkers
    <3>2. linker.entries[t][i].launch \in 1..MaxCalls
      <4>1. linker.entries[t][i].launch \in 1..launches
        BY DEF TableInv
      <4> QED BY <2>2, <4>1, LaunchesAssumption
    <3> QED BY <3>1, <3>2 DEF Entries, Entry
  <2>4. /\ watch.cmd \cup watch.python \subseteq
               Tensors \cup UNION {Seqs!ToSet(Outputs(i)) : i \in Items}
        /\ \A tensor \in DOMAIN watch.nums : watch.nums[tensor] \in Unlimited..MaxDumps
        /\ watch.repeat \subseteq Threads
    BY DEF WatchType, Watchable, Counters
  <2>5. \A i \in Items : watch.count[i] \in 0..MaxCalls
    <3>1. Cardinality(InLaunch) \in Nat /\ \A i \in Items : watch.count[i] \in Nat
      BY FS_CardinalityType DEF CountInv
    <3> QED BY <2>2, <3>1, LaunchesAssumption DEF CountInv
  <2>6. /\ tracing \in BOOLEAN /\ trace \in {"none", "on", "ended"}
        /\ \A t \in Threads : host[t].pc \in {"out", "launched", "told"}
        /\ Len(buffer) < BufferLogs /\ spoiled \subseteq Keys
    BY DEF BoundInv, TypeInv, HostStates
  <2> QED BY <2>1, <2>3, <2>4, <2>5, <2>6 DEF TypeOK
<1>2. TypeInv /\ BoundInv /\ [Next]_vars => BoundInv'
  BY CallsOf
<1>3. TypeInv /\ TypeInv' /\ WatchType(watch) /\ WatcherType /\ CountInv /\ BoundInv /\ BoundInv'
      /\ [Next]_vars => WatchType(watch)' /\ WatcherType' /\ CountInv'
  BY TypesStep
<1> QED BY <1>1, <1>2, <1>3, InitKeyInv, InitTypes, TypeInvStep, TableInvStep, PTL DEF Spec
====================================================================================
