------------------------------- MODULE MemoryCompare -------------------------------
(***************************************************************************)
(* analysis/memory_compare.cpp: the comparison of two snapshots, the csv   *)
(* files of two runs.  The names of the operators or kernels that each run *)
(* launched are aligned with Myers' algorithm, device by device, and every *)
(* launch becomes a row with, for either run, the size of the first        *)
(* allocation or free of the framework's pool after it.                    *)
(*                                                                         *)
(* A line of a file is [good, device, type, name, ts, size]: good says     *)
(* that it has as many columns as the header.  The time limits of          *)
(* BuildPath and of BuildDiff are arguments: whether it was reached, and   *)
(* how many nodes of the path had been walked by then.                     *)
(* Names are taken to be valid ones, and times to differ.                  *)
(***************************************************************************)
EXTENDS Integers, FiniteSetsExt, SequencesExt

CONSTANTS NoFramework, NoDevice, NotAvailable

Frameworks == {"PTA", "MINDSPORE"}

\* A node of the path: where it is, whether it is a Snake, and the node before it.  The
\* list of nodes is kept from the first to the last.
Node(i, j, snake) == [i |-> i, j |-> j, snake |-> snake]

------------------------------------------------------------------------------------
\* Reading

FrameworksIn(lines) ==
    SelectSeq([n \in DOMAIN lines |-> lines[n].type], LAMBDA t : t \in Frameworks)

\* ReadCsvFile, up to its first bad line: a wrong number of columns, or a second
\* framework.  framework_ is kept from the first file for the second.
FrameworkAfter(lines, framework) ==
    LET bad   == SelectInSeq(lines, LAMBDA line : ~line.good)
        read  == IF bad = 0 THEN lines ELSE SubSeq(lines, 1, bad - 1)
        found == FrameworksIn(read)
    IN  IF framework = NoFramework /\ found # <<>> THEN found[1] ELSE framework

IsReadable(lines, framework) ==
    /\ \A n \in DOMAIN lines : lines[n].good
    /\ ToSet(FrameworksIn(lines)) \subseteq {FrameworkAfter(lines, framework)}

\* ReadFile: the lines of each device, sorted by their time.  A bad file leaves nothing;
\* lines of the host and of no device are passed over.
ReadFile(lines, framework) ==
    LET devices == {lines[n].device : n \in DOMAIN lines} \ {NoDevice}
        of(d)   == SelectSeq(lines, LAMBDA line : line.device = d)
    IN  IF IsReadable(lines, framework)
        THEN [d \in devices |-> SortSeq(of(d), LAMBDA a, b : a.ts < b.ts)]
        ELSE <<>>

\* ReadNameIndexData: the launches of the chosen levels, with their index.
ReadNameIndexData(lines, levelType, framework) ==
    LET types == (IF "op" \in levelType THEN {"ATB_END", "ATEN_END"} ELSE {})
                 \cup (IF "kernel" \in levelType THEN {"KERNEL_LAUNCH"} ELSE {})
        wanted(n) == lines[n].type \in types
    IN  IF "op" \in levelType /\ framework = "MINDSPORE"
        THEN <<>>
        ELSE SelectSeq([n \in DOMAIN lines |->
                            [name |-> lines[n].name, index |-> n]],
                       LAMBDA launch : wanted(launch.index))

\* GetMemoryUsage: the size at the first line of the framework's pool from index on.
GetMemoryUsage(index, lines, framework) ==
    LET pool == {n \in index..Len(lines) : lines[n].type = framework}
    IN  IF pool = {} THEN 0 ELSE lines[Min(pool)].size

------------------------------------------------------------------------------------
\* Myers' algorithm

\* How far the names agree from (i, j) on: the loop along the diagonal.
Agreement(base, compare, i, j) ==
    Max({0} \cup {l \in 1..(Len(base) - i) :
                     /\ j + l <= Len(compare)
                     /\ \A x \in 1..l : base[i + x].name = compare[j + x].name})

\* Seeded fault: the path that is behind is taken further.
ExtendTheWrongOne(base, compare, before, d, k) ==
    LET last(path) == path[Len(path)]
        down  == \/ k = -d
                 \/ k # d /\ last(before[k - 1]).i > last(before[k + 1]).i
        prev  == IF down THEN before[k + 1] ELSE before[k - 1]
        i     == IF down THEN last(prev).i ELSE last(prev).i + 1
        run   == Agreement(base, compare, i, i - k)
        step  == Append(prev, Node(i, i - k, FALSE))
    IN  IF run > 0 THEN Append(step, Node(i + run, i + run - k, TRUE)) ELSE step

\* One turn of the inner loop of BuildPath: the path to diagonal k in d steps, from the
\* paths that d - 1 steps had reached on the diagonals around it.
Extend(base, compare, before, d, k) ==
    LET last(path) == path[Len(path)]
        down  == \/ k = -d
                 \/ k # d /\ last(before[k - 1]).i < last(before[k + 1]).i
        prev  == IF down THEN before[k + 1] ELSE before[k - 1]
        i     == IF down THEN last(prev).i ELSE last(prev).i + 1
        run   == Agreement(base, compare, i, i - k)
        step  == Append(prev, Node(i, i - k, FALSE))
    IN  IF run > 0 THEN Append(step, Node(i + run, i + run - k, TRUE)) ELSE step

\* The diagonals that d steps can reach, with the path to each.
Diagonals(base, compare) ==
    LET paths[d \in Nat] ==
            IF d = 0
            THEN [k \in {0} |-> Extend(base, compare,
                                       [one \in {1} |-> <<Node(0, -1, TRUE)>>], 0, 0)]
            ELSE LET before == paths[d - 1]
                 IN  [k \in {x \in -d..d : (x + d) % 2 = 0} |->
                         Extend(base, compare, before, d, k)]
    IN  paths

\* BuildPath: the first path that reaches the end of both lists, the smallest number of
\* steps first and then the smallest diagonal.  Nothing when the time is over.
BuildPath(base, compare, timeOver) ==
    LET paths   == Diagonals(base, compare)
        atEnd(path) == /\ path[Len(path)].i >= Len(base)
                       /\ path[Len(path)].j >= Len(compare)
        ends(d) == {k \in DOMAIN paths[d] : atEnd(paths[d][k])}
        steps   == Min({d \in 0..(Len(base) + Len(compare)) : ends(d) # {}})
    IN  IF timeOver THEN <<>> ELSE paths[steps][Min(ends(steps))]

\* CalcuMemoryDiff: a row; 0 stands for no launch on that side.
Row(device, base, compare, b, c, data) ==
    LET usage(side, launches, n) ==
            IF n = 0 THEN 0
            ELSE GetMemoryUsage(launches[n].index, data[side], data.framework)
        inBase    == usage("base", base, b)
        inCompare == usage("compare", compare, c)
    IN  [name   |-> IF c # 0 THEN compare[c].name ELSE base[b].name,
         device |-> device, of |-> <<b, c>>,
         base   |-> IF b = 0 THEN NotAvailable ELSE inBase,
         compare |-> IF c = 0 THEN NotAvailable ELSE inCompare,
         diff   |-> inCompare - inBase]

\* What a node of the path stands for, in the order of the finished file: the launches
\* of a snake pairwise, or the one launch of a single step.
PairsOf(path, n) ==
    LET node == path[n]
        prev == path[n - 1]
    IN  CASE node.snake       -> [x \in 1..(node.j - prev.j) |-> <<prev.i + x, prev.j + x>>]
          [] prev.i < node.i  -> <<<<node.i, 0>>>>
          [] OTHER            -> <<<<0, node.j>>>>

\* BuildDiff walks the path from its end, and WriteCompareDataToCsv turns the rows round.
\* The node at (0, -1) and the one after it stand for nothing.  When its time is over,
\* the rows of the last nodes only are there.
BuildDiff(path, walked) ==
    LET from == Max({3, Len(path) - walked + 1})
    IN  FlattenSeq([n \in 1..(Len(path) - from + 1) |-> PairsOf(path, n + from - 1)])

\* MyersDiff, for one device.
MyersDiff(device, base, compare, data, timeOver, walked) ==
    LET path  == BuildPath(base, compare, timeOver)
        pairs == IF path = <<>> THEN <<>> ELSE BuildDiff(path, walked)
    IN  [n \in DOMAIN pairs |->
            Row(device, base, compare, pairs[n][1], pairs[n][2], data)]

\* RunComparison: the rows of every device that either file has.  Files that leave
\* nothing to compare end it.
RunComparison(files, levelType, timeOver, walked) ==
    LET first     == FrameworkAfter(files.base, NoFramework)
        framework == FrameworkAfter(files.compare, first)
        base      == ReadFile(files.base, NoFramework)
        compare   == ReadFile(files.compare, first)
        lines(side, d) == IF d \in DOMAIN side THEN side[d] ELSE <<>>
        launches(side, d) == ReadNameIndexData(lines(side, d), levelType, framework)
        data(d) == [base |-> lines(base, d), compare |-> lines(compare, d),
                    framework |-> framework]
    IN  IF DOMAIN base = {} \/ DOMAIN compare = {}
        THEN <<>>
        ELSE [d \in DOMAIN base \cup DOMAIN compare |->
                MyersDiff(d, launches(base, d), launches(compare, d), data(d),
                          timeOver, walked)]
====================================================================================
