----------------------------- MODULE MCConfiguration -----------------------------
\* A command with a few options, a process it starts and one that this one starts; or two
\* snapshots compared.
EXTENDS Configuration

CONSTANTS p1, p2

O(opt, param) == <<opt, param>>
Stack(stack, depth) == [stack |-> stack, depth |-> depth]
Device(device, slot) == [device |-> device, slot |-> slot]
Path(kind, dir) == [kind |-> kind, dir |-> dir]
Watch(start, colon, outputId, rest) ==
    [start |-> start, colon |-> colon, outputId |-> outputId, rest |-> rest]

MCOptions ==
    { O("steps", <<1, NoNumber, 2>>), O("steps", <<1, 2, 3>>), O("steps", <<0>>),
      O("analysis", <<>>), O("analysis", <<"decompose", "">>),
      O("analysis", <<"inefficient">>), O("analysis", <<"leak">>),
      O("call-stack", <<>>), O("call-stack", <<Stack("c", 1), Stack("python", NoNumber)>>),
      O("call-stack", <<Stack("c", 9)>>),
      O("compare", <<>>), O("input", [tooLong |-> FALSE, valid |-> 2]),
      O("input", [tooLong |-> FALSE, valid |-> 1]), O("input", [tooLong |-> TRUE, valid |-> 0]),
      O("watch", Watch("op0", TRUE, 1, <<"op1", "full-content">>)),
      O("watch", Watch("", FALSE, NoNumber, <<"op1">>)),
      O("watch", Watch("", TRUE, 1, <<"op1">>)),
      O("output", Path("valid", "out")), O("output", Path("tooLong", "out")),
      O("output", Path("blank", "out")), O("output", Path("invalid", "out")),
      O("level", <<"1">>), O("level", <<"op", "kernel">>), O("level", <<"2">>),
      O("events", <<"access">>), O("events", <<"launch">>), O("events", <<"traceback", "x">>),
      O("log-level", "error"), O("log-level", "debug"),
      O("data-format", "db"), O("data-format", "json"),
      O("device", <<Device("npu:", 1)>>), O("device", <<Device("npu:", 2)>>),
      O("device", <<Device("", 0), Device("npu", 0), Device("npu:", 0)>>),
      O("device", <<Device("", 0)>>),
      O("collect-mode", "deferred"), O("collect-mode", "later"), O("help", <<>>) }

MCDictionaries ==
    { [level |-> <<"kernel">>],
      [events |-> <<"alloc", "traceback">>, analysis |-> <<"decompose">>],
      [events |-> <<"traceback">>, analysis |-> <<"x">>],
      [analysis |-> <<"inefficient">>, device |-> <<Device("npu:", 0)>>],
      [data_format |-> "db", output |-> Path("valid", "out")],
      [watch |-> Watch("op0", FALSE, NoNumber, <<"op1", "">>),
       call_stack |-> <<Stack("c", 2)>>],
      [events |-> <<"access">>], [colour |-> <<>>] }

MCUnwritable == {{}, {CommandFile, p1}}

Line(device, type, name, ts, size) ==
    [good |-> TRUE, device |-> device, type |-> type, name |-> name, ts |-> ts, size |-> size]

\* A snapshot of one device: launches of two operators, and the pool between them.
Snapshot(kinds) ==
    [n \in DOMAIN kinds |->
        IF kinds[n] = "pool" THEN Line("0", "PTA", "", 9 - n, n)
                             ELSE Line("0", "ATEN_END", kinds[n], 9 - n, 0)]

Short == UNION {[1..n -> {"a", "b", "pool"}] : n \in 0..2} \cup [1..3 -> {"a", "b"}]

Others ==
    { <<Line("1", "KERNEL_LAUNCH", "k", 1, 0), Line("0", "ATB_END", "a", 2, 0)>>,
      <<Line("0", "MINDSPORE", "", 1, 4), Line("0", "ATB_END", "a", 2, 0)>>,
      <<Line("0", "PTA", "", 1, 4), Line("0", "MINDSPORE", "", 2, 4)>>,
      <<Line(NoDevice, "HOST", "", 1, 4), Line("0", "ATB_END", "a", 2, 0)>>,
      <<[Line("0", "PTA", "", 1, 4) EXCEPT !.good = FALSE]>> }

MCComparedFiles ==
    {[base |-> Snapshot(b), compare |-> Snapshot(c)] : b \in Short, c \in Short}
    \cup {[base |-> b, compare |-> Snapshot(<<"a", "pool">>)] : b \in Others}
    \cup {[base |-> Snapshot(<<"pool", "a">>), compare |-> c] : c \in Others}
    \cup {[base |-> Snapshot(<<"a", "b", "a", "pool">>),
           compare |-> Snapshot(<<"b", "a", "b", "a">>)],
          [base |-> Snapshot(<<"pool", "a", "b">>), compare |-> Snapshot(<<"a", "b">>)]}
==================================================================================
