------------------------------- MODULE LeakReport -------------------------------
(***************************************************************************)
(* What the leak analysis promises for one device: a block that was        *)
(* allocated in step 2 or later and is still held when a step ends that    *)
(* began after its allocation is reported, once for the step it was        *)
(* allocated in, and nothing else is; what has been reported stays.  The   *)
(* steps are those heard of: one that begins or ends before the first      *)
(* record of a pool, of any device, is not counted.                        *)
(* docs/zh/memory_analysis.md and the comment on SkipCheck.                *)
(***************************************************************************)
EXTENDS Naturals

CONSTANT Keys, Sizes     \* what tells the blocks of a device apart, and their sizes

VARIABLES heard,  \* a record of a pool has come
          step,   \* the step in progress
          fresh,  \* the blocks allocated since it began
          older,  \* the blocks held since an earlier step
          leaks   \* what has been reported

Held == fresh \cup older

Init == heard = FALSE /\ step = 0 /\ fresh = {} /\ older = {} /\ leaks = {}

Malloc(k, n) ==
    /\ heard' = TRUE
    /\ \A b \in Held : b.key # k
    /\ fresh' = fresh \cup {[key |-> k, step |-> step, size |-> n]}
    /\ UNCHANGED <<step, older, leaks>>

Free(k) ==
    /\ heard' = TRUE
    /\ \E b \in Held : b.key = k
    /\ fresh' = {b \in fresh : b.key # k}
    /\ older' = {b \in older : b.key # k}
    /\ UNCHANGED <<step, leaks>>

\* A record that concerns no block of the device.
Hear == heard' = TRUE /\ UNCHANGED <<step, fresh, older, leaks>>

Due == {b \in older : b.step > 1}
Reported == {l \in leaks : \A b \in Due : l.key # b.key \/ l.step # b.step} \cup Due

EndStep == heard /\ leaks' = Reported /\ UNCHANGED <<heard, step, fresh, older>>

BeginStep ==
    /\ heard /\ UNCHANGED heard
    /\ step' \in Nat
    /\ older' = Held
    /\ fresh' = {}
    /\ leaks' \in {leaks, Reported}

Next ==
    \/ \E k \in Keys : Free(k) \/ \E n \in Sizes : Malloc(k, n)
    \/ Hear
    \/ EndStep
    \/ BeginStep

vars == <<heard, step, fresh, older, leaks>>
Step == [Next]_vars

Spec == Init /\ [][Next]_vars
=============================================================================
