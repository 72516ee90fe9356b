------------------------------ MODULE EventDispatcher ------------------------------
(***************************************************************************)
(* analysis/event_dispatcher.{h,cpp}: for each type of event the list of   *)
(* those who handle it, in the order they are called: DispatchEvent is a   *)
(* fold over lists[type].  Every operator is a function of the lists it is *)
(* given.                                                                  *)
(***************************************************************************)
EXTENDS Integers, Sequences
Seqs == INSTANCE SequencesExt

SubscriberId == {"DECOMPOSE_ANALYZER", "INEFFICIENT_ANALYZER", "DUMP"}

\* The event types that reach any of them in this model.
EventBaseType == {"MALLOC", "ACCESS", "FREE", "MEMORY_OWNER", "OP_LAUNCH", "CLEAN_UP"}

\* Subscribe() of the two analyzers and the constructor of Dump.
EventTypesOf == [DECOMPOSE_ANALYZER   |-> {"MALLOC", "ACCESS", "MEMORY_OWNER"},
                 INEFFICIENT_ANALYZER |-> {"MALLOC", "ACCESS", "FREE", "OP_LAUNCH"},
                 DUMP                 |-> {"FREE", "OP_LAUNCH", "CLEAN_UP"}]

\* Seeded fault: Dump asks for the analyzers' priority.
EqualPriority == [DECOMPOSE_ANALYZER |-> 3, INEFFICIENT_ANALYZER |-> 3, DUMP |-> 3]

\* Priority::High and Priority::Lowest.
PriorityOf == [DECOMPOSE_ANALYZER |-> 3, INEFFICIENT_ANALYZER |-> 3, DUMP |-> 0]

Subscribers == [EventBaseType -> Seq(SubscriberId)]

NoSubscribers == [t \in EventBaseType |-> << >>]

\* std::lower_bound with the operator< of Subscriber: before the first that does not
\* come strictly before the new one, so in front of those of the same priority.
LowerBound(list, id) ==
    LET first == Seqs!SelectInSeq(list, LAMBDA s : PriorityOf[s] <= PriorityOf[id])
    IN  IF first = 0 THEN Len(list) + 1 ELSE first

\* Seeded fault: who is in a list already is inserted again.
SubscribedAgain(lists, id) ==
    [t \in EventBaseType |->
        IF t \in EventTypesOf[id]
        THEN Seqs!InsertAt(lists[t], LowerBound(lists[t], id), id)
        ELSE lists[t]]

Subscribe(lists, id) ==
    [t \in EventBaseType |->
        IF t \in EventTypesOf[id] /\ ~Seqs!Contains(lists[t], id)
        THEN Seqs!InsertAt(lists[t], LowerBound(lists[t], id), id)
        ELSE lists[t]]

UnSubscribe(lists, id) == [t \in EventBaseType |-> Seqs!RemoveFirst(lists[t], id)]
=============================================================================
