------------------------------- MODULE BlockHistory -------------------------------
(***************************************************************************)
(* What the event pipeline promises to the reader of its output: every     *)
(* memory event joins the history of one block, and the output is histories*)
(* written whole, one after the other, each of them once.                  *)
(***************************************************************************)
EXTENDS Sequences

CONSTANT Events

VARIABLES happened,  \* the events that happened so far
          open,      \* the histories of the blocks in use: nonempty sequences of events
          log        \* the output: the events of the histories that were closed

vars == <<happened, open, log>>

Init == happened = {} /\ open = {} /\ log = << >>

Happens(e) == e \notin happened /\ happened' = happened \cup {e}

\* The first event seen of a block.
Start(e) == Happens(e) /\ open' = open \cup {<<e>>} /\ log' = log

\* The first event of a block that takes the place of another one.
Supersede(e, h) ==
    /\ Happens(e)
    /\ h \in open
    /\ open' = (open \ {h}) \cup {<<e>>}
    /\ log' = log \o h

\* A further event of a block.
Continue(e, h) ==
    /\ Happens(e)
    /\ h \in open
    /\ open' = (open \ {h}) \cup {Append(h, e)}
    /\ log' = log

\* The last event of a block.
Finish(e, h) ==
    /\ Happens(e)
    /\ h \in open
    /\ open' = open \ {h}
    /\ log' = log \o Append(h, e)

\* An event that is the whole history of a block.
StartAndFinish(e) == Happens(e) /\ open' = open /\ log' = Append(log, e)

\* The tool stops watching a block.
Close(h) == h \in open /\ open' = open \ {h} /\ log' = log \o h /\ happened' = happened

Next ==
    \/ \E e \in Events :
           \/ Start(e)
           \/ StartAndFinish(e)
           \/ \E h \in open : Supersede(e, h) \/ Continue(e, h) \/ Finish(e, h)
    \/ \E h \in open : Close(h)

Spec == Init /\ [][Next]_vars
=============================================================================
