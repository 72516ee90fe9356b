-------------------------------- MODULE KernelLinker --------------------------------
(***************************************************************************)
(* RuntimeKernelLinker (kernel_hooks/kernel_event_trace.cpp): the table    *)
(* that gives a task of the device the name of the kernel that was         *)
(* launched for it.  A launch appends an entry to the list of its thread,  *)
(* the runtime's report of the task completes the last entry of the        *)
(* thread, and the end of the task on the device removes it.               *)
(*                                                                         *)
(* All operations hold mutex_.  A hash id is the name it stands for.  An   *)
(* entry carries the launch it was made for, as history.                   *)
(***************************************************************************)
EXTENDS Integers, Sequences
Seqs == INSTANCE SequencesExt

CONSTANTS NoKey,  \* the key (-1, -1, -1) of an entry whose task is not known yet
          NoName, \* the empty name
          NoHash  \* the hash id of a task that is no kernel

\* A linker is [entries, last, known]: kernelNameMp_, currentNameMap_, hashInfo_map_.
NewLinker(threads) == [entries |-> [t \in threads |-> <<>>],
                       last    |-> [t \in threads |-> NoName],
                       known   |-> {}]

SetHashInfo(linker, name) == [linker EXCEPT !.known = @ \cup {name}]

GetHashInfo(linker, hash) == IF hash \in linker.known THEN hash ELSE NoName

KernelLaunch(linker, t, launch) ==
    [linker EXCEPT !.entries[t] =
        Append(@, [key |-> NoKey, name |-> NoName, launch |-> launch])]

\* RuntimeTaskInfoLaunch.  It finds nothing to complete if the thread has no entry.
Completes(linker, t, hash) == hash # NoHash /\ linker.entries[t] # <<>>

\* Seeded fault: the first entry of the thread is completed.
CompleteFirst(linker, t, key, hash) ==
    LET name == GetHashInfo(linker, hash)
    IN  [linker EXCEPT !.entries[t][1].key = key, !.entries[t][1].name = name,
                       !.last[t] = name]

Complete(linker, t, key, hash) ==
    LET name == GetHashInfo(linker, hash)
        back == Len(linker.entries[t])
    IN  [linker EXCEPT !.entries[t][back].key = key, !.entries[t][back].name = name,
                       !.last[t] = name]

\* GetKernelName finds the first entry with the key in any of the lists, whose order is not
\* defined: the places it may find.
Places(linker, key) ==
    {place \in UNION {{t} \X DOMAIN linker.entries[t] : t \in DOMAIN linker.entries} :
        LET entries == linker.entries[place[1]]
        IN  /\ entries[place[2]].key = key
            /\ \A j \in 1..(place[2] - 1) : entries[j].key # key}

NameAt(linker, place) == linker.entries[place[1]][place[2]].name

\* Seeded fault: an entry stays when its task has ended.
UsedForEver(linker, place, type) == linker

\* The end of the task uses the entry up.
Used(linker, place, type) ==
    IF type = "KERNEL_END"
    THEN [linker EXCEPT !.entries[place[1]] = Seqs!RemoveAt(@, place[2])]
    ELSE linker
====================================================================================
