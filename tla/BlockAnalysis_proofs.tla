----------------------------- MODULE BlockAnalysis_proofs -----------------------------
(***************************************************************************)
(* Theorems about BlockAnalysis, for any addresses, sizes and blocks of the *)
(* application, every threshold and every bound on the number of records.  *)
(***************************************************************************)
EXTENDS BlockAnalysis, MemoryStateManager_proofs, FiniteSetTheorems, TLAPS

\* InsertAt and RemoveAt, element by element.
InsertsAt(r, S, s, n, x) ==
    /\ r \in Seq(S) /\ Len(r) = Len(s) + 1
    /\ \A i \in 1 .. Len(s) + 1 :
          r[i] = IF i < n THEN s[i] ELSE IF i = n THEN x ELSE s[i - 1]

LEMMA InsertedAt ==
    ASSUME NEW S, NEW s \in Seq(S), NEW x \in S, NEW n \in 1 .. Len(s) + 1
    PROVE  InsertsAt(Seqs!InsertAt(s, n, x), S, s, n, x)
<1> DEFINE a == SubSeq(s, 1, n - 1)
           b == SubSeq(s, n, Len(s))
<1>1. Len(s) \in Nat /\ n \in Int /\ n - 1 \in Int
  OBVIOUS
<1>2. a \in Seq(S) /\ Len(a) = n - 1 /\ \A i \in 1 .. n - 1 : a[i] = s[i]
  <2>1. \A i \in 1 .. n - 1 : s[i] \in S
    BY <1>1
  <2>2. a \in Seq(S) /\ Len(a) = (IF 1 <= n - 1 THEN n - 1 - 1 + 1 ELSE 0)
        /\ \A i \in 1 .. n - 1 - 1 + 1 : a[i] = s[1 + i - 1]
    BY <1>1, <2>1, SubSeqProperties
  <2> HIDE DEF a
  <2> QED BY <1>1, <2>2
<1>3. b \in Seq(S) /\ Len(b) = Len(s) - n + 1 /\ \A i \in 1 .. Len(s) - n + 1 : b[i] = s[n + i - 1]
  <2>1. \A i \in n .. Len(s) : s[i] \in S
    BY <1>1
  <2>2. b \in Seq(S) /\ Len(b) = (IF n <= Len(s) THEN Len(s) - n + 1 ELSE 0)
        /\ \A i \in 1 .. Len(s) - n + 1 : b[i] = s[n + i - 1]
    BY <1>1, <2>1, SubSeqProperties
  <2> HIDE DEF b
  <2> QED BY <1>1, <2>2
<1>4. Seqs!InsertAt(s, n, x) = a \o <<x>> \o b
  BY DEF Seqs!InsertAt
<1> HIDE DEF a, b
<1>5. a \o <<x>> \in Seq(S) /\ Len(a \o <<x>>) = n
      /\ \A i \in 1 .. n : (a \o <<x>>)[i] = IF i < n THEN s[i] ELSE x
  <2>1. <<x>> \in Seq(S) /\ Len(<<x>>) = 1 /\ <<x>>[1] = x
    OBVIOUS
  <2>2. /\ a \o <<x>> \in Seq(S) /\ Len(a \o <<x>>) = Len(a) + 1
        /\ \A i \in 1 .. Len(a) + 1 : (a \o <<x>>)[i] = IF i <= Len(a) THEN a[i] ELSE <<x>>[i - Len(a)]
    BY <1>2, <2>1, ConcatProperties
  <2> QED BY <1>1, <1>2, <2>1, <2>2
<1>6. PICK c : c = a \o <<x>>
  OBVIOUS
<1>7. c \in Seq(S) /\ Len(c) = n /\ \A i \in 1 .. n : c[i] = IF i < n THEN s[i] ELSE x
  BY <1>5, <1>6
<1>8. /\ c \o b \in Seq(S) /\ Len(c \o b) = Len(c) + Len(b)
      /\ \A i \in 1 .. Len(c) + Len(b) : (c \o b)[i] = IF i <= Len(c) THEN c[i] ELSE b[i - Len(c)]
  BY <1>3, <1>7, ConcatProperties
<1>9. Seqs!InsertAt(s, n, x) = c \o b
  BY <1>4, <1>6
<1> DEFINE r == c \o b
<1>10. Len(r) = Len(s) + 1
  BY <1>1, <1>3, <1>8, <1>7
<1>11. ASSUME NEW i \in 1 .. Len(s) + 1
       PROVE  r[i] = IF i < n THEN s[i] ELSE IF i = n THEN x ELSE s[i - 1]
  <2>1. i \in 1 .. Len(c) + Len(b) /\ r[i] = IF i <= n THEN c[i] ELSE b[i - n]
    BY <1>1, <1>3, <1>8, <1>7
  <2>2. i > n => i - n \in 1 .. Len(s) - n + 1 /\ n + (i - n) - 1 = i - 1
    BY <1>1
  <2>3. i <= n => c[i] = IF i < n THEN s[i] ELSE x
    BY <1>1, <1>7
  <2> HIDE DEF r
  <2> QED BY <1>1, <1>3, <2>1, <2>2, <2>3
<1> HIDE DEF r
<1>12. r \in Seq(S)
  BY <1>8 DEF r
<1>13. InsertsAt(r, S, s, n, x)
  BY <1>10, <1>11, <1>12 DEF InsertsAt
<1>14. Seqs!InsertAt(s, n, x) = r
  BY <1>9 DEF r
<1> QED BY <1>13, <1>14

LEMMA RemovedAt ==
    ASSUME NEW S, NEW s \in Seq(S), NEW n \in 1 .. Len(s)
    PROVE  LET r == Seqs!RemoveAt(s, n)
           IN  /\ r \in Seq(S) /\ Len(r) = Len(s) - 1
               /\ \A i \in 1 .. Len(s) - 1 : r[i] = IF i < n THEN s[i] ELSE s[i + 1]
<1> DEFINE a == SubSeq(s, 1, n - 1)
           b == SubSeq(s, n + 1, Len(s))
<1>1. Len(s) \in Nat /\ n \in Int /\ n - 1 \in Int
  OBVIOUS
<1>2. a \in Seq(S) /\ Len(a) = n - 1 /\ \A i \in 1 .. n - 1 : a[i] = s[i]
  <2>1. \A i \in 1 .. n - 1 : s[i] \in S
    BY <1>1
  <2>2. a \in Seq(S) /\ Len(a) = (IF 1 <= n - 1 THEN n - 1 - 1 + 1 ELSE 0)
        /\ \A i \in 1 .. n - 1 - 1 + 1 : a[i] = s[1 + i - 1]
    BY <1>1, <2>1, SubSeqProperties
  <2> HIDE DEF a
  <2> QED BY <1>1, <2>2
<1>3. b \in Seq(S) /\ Len(b) = Len(s) - n /\ \A i \in 1 .. Len(s) - n : b[i] = s[n + i]
  <2>1. \A i \in n + 1 .. Len(s) : s[i] \in S
    BY <1>1
  <2>2. b \in Seq(S) /\ Len(b) = (IF n + 1 <= Len(s) THEN Len(s) - (n + 1) + 1 ELSE 0)
        /\ \A i \in 1 .. Len(s) - (n + 1) + 1 : b[i] = s[(n + 1) + i - 1]
    BY <1>1, <2>1, SubSeqProperties
  <2> HIDE DEF b
  <2> QED BY <1>1, <2>2
<1>4. Seqs!RemoveAt(s, n) = a \o b
  BY DEF Seqs!RemoveAt
<1> HIDE DEF a, b
<1>5. /\ a \o b \in Seq(S) /\ Len(a \o b) = Len(a) + Len(b)
      /\ \A i \in 1 .. Len(a) + Len(b) : (a \o b)[i] = IF i <= Len(a) THEN a[i] ELSE b[i - Len(a)]
  BY <1>2, <1>3, ConcatProperties
<1> QED BY <1>1, <1>2, <1>3, <1>4, <1>5

\* The lists have at most two elements.
LEMMA Inserted ==
    ASSUME NEW x, NEW y
    PROVE  /\ Seqs!InsertAt(<< >>, 1, x) = <<x>>
           /\ Seqs!InsertAt(<<y>>, 1, x) = <<x, y>>
           /\ Seqs!InsertAt(<<y>>, 2, x) = <<y, x>>
<1> DEFINE Goes(s, n, t) ==
              /\ s \in Seq({x, y}) /\ n \in 1 .. Len(s) + 1
              /\ t \in Seq({x, y}) /\ Len(t) = Len(s) + 1
              /\ \A i \in 1 .. Len(s) + 1 :
                    t[i] = IF i < n THEN s[i] ELSE IF i = n THEN x ELSE s[i - 1]
<1>1. ASSUME NEW s, NEW n, NEW t, Goes(s, n, t)
      PROVE  Seqs!InsertAt(s, n, x) = t
  <2> DEFINE r == Seqs!InsertAt(s, n, x)
  <2>2. /\ r \in Seq({x, y}) /\ Len(r) = Len(s) + 1
        /\ \A i \in 1 .. Len(s) + 1 : r[i] = IF i < n THEN s[i] ELSE IF i = n THEN x ELSE s[i - 1]
    <3>1. x \in {x, y} /\ s \in Seq({x, y}) /\ n \in 1 .. Len(s) + 1
      BY <1>1
    <3>2. PICK S : S = {x, y}
      OBVIOUS
    <3>3. s \in Seq(S) /\ x \in S
      BY <3>1, <3>2
    <3> HIDE DEF Goes
    <3>4. InsertsAt(r, S, s, n, x)
      BY <3>1, <3>3, InsertedAt
    <3> QED BY <3>2, <3>4 DEF InsertsAt
  <2> HIDE DEF r
  <2>3. Len(r) = Len(t) /\ \A i \in 1 .. Len(r) : r[i] = t[i]
    BY <1>1, <2>2
  <2>4. r = t
    BY <1>1, <2>2, <2>3, SeqEqual
  <2> QED BY <2>4 DEF r
<1>2. \A i \in 1 .. 2 : i = 1 \/ i = 2
  OBVIOUS
<1>3. Goes(<< >>, 1, <<x>>)
  OBVIOUS
<1>4. Goes(<<y>>, 1, <<x, y>>)
  BY <1>2
<1>5. Goes(<<y>>, 2, <<y, x>>)
  BY <1>2
<1> HIDE DEF Goes
<1> QED BY <1>1, <1>3, <1>4, <1>5

RemovesFrom(x, y, z) ==
    /\ Seqs!RemoveFirst(<< >>, x) = << >>
    /\ Seqs!RemoveFirst(<<x>>, x) = << >>
    /\ Seqs!RemoveFirst(<<y>>, x) = <<y>>
    /\ Seqs!RemoveFirst(<<x, y>>, x) = <<y>>
    /\ Seqs!RemoveFirst(<<y, x>>, x) = <<y>>
    /\ Seqs!RemoveFirst(<<y, z>>, x) = <<y, z>>

LEMMA Removed ==
    ASSUME NEW x, NEW y, NEW z, x # y, x # z
    PROVE  RemovesFrom(x, y, z)
<1> DEFINE Places(s) == {i \in 1 .. Len(s) : s[i] = x}
           Place(s) == Seqs!SelectInSeq(s, LAMBDA v : v = x)
<1>1. \A i \in 1 .. 2 : i = 1 \/ i = 2
  OBVIOUS
<1>2. /\ Len(<< >>) = 0 /\ Len(<<x>>) = 1 /\ Len(<<y>>) = 1
      /\ Len(<<x, y>>) = 2 /\ Len(<<y, x>>) = 2 /\ Len(<<y, z>>) = 2
  OBVIOUS
<1>3. /\ Places(<< >>) = {} /\ Places(<<y>>) = {} /\ Places(<<y, z>>) = {}
      /\ Places(<<x>>) = {1} /\ Places(<<x, y>>) = {1} /\ Places(<<y, x>>) = {2}
  BY <1>1, <1>2
<1>4. ASSUME NEW s, Places(s) = {}
      PROVE  Seqs!RemoveFirst(s, x) = s
  BY <1>4 DEF Seqs!RemoveFirst
<1> DEFINE Leaves(s, n, t) ==
              /\ s \in Seq({x, y}) /\ n \in 1 .. Len(s) /\ Places(s) = {n}
              /\ t \in Seq({x, y}) /\ Len(t) = Len(s) - 1
              /\ \A i \in 1 .. Len(s) - 1 : t[i] = IF i < n THEN s[i] ELSE s[i + 1]
<1>5. ASSUME NEW s, NEW n, NEW t, Leaves(s, n, t)
      PROVE  Seqs!RemoveFirst(s, x) = t
  <2>1. Place(s) = n
    <3>1. Seqs!Min({n}) = n
      BY <1>5 DEF Seqs!Min
    <3> QED BY <1>5, <3>1 DEF Seqs!SelectInSeq
  <2>2. Seqs!RemoveFirst(s, x) = Seqs!RemoveAt(s, n)
    BY <1>5, <2>1 DEF Seqs!RemoveFirst
  <2> DEFINE r == Seqs!RemoveAt(s, n)
  <2>3. /\ r \in Seq({x, y}) /\ Len(r) = Len(s) - 1
        /\ \A i \in 1 .. Len(s) - 1 : r[i] = IF i < n THEN s[i] ELSE s[i + 1]
    BY <1>5, RemovedAt
  <2> HIDE DEF r, Place, Places
  <2>4. Len(r) = Len(t) /\ \A i \in 1 .. Len(r) : r[i] = t[i]
    BY <1>5, <2>3
  <2>5. r = t
    BY <1>5, <2>3, <2>4, SeqEqual
  <2> QED BY <2>2, <2>5 DEF r
<1>6. Leaves(<<x>>, 1, << >>)
  <2>1. <<x>> \in Seq({x, y}) /\ << >> \in Seq({x, y}) /\ 1 .. 0 = {}
    OBVIOUS
  <2>2. 1 .. Len(<<x>>) - 1 = {} /\ 1 \in 1 .. Len(<<x>>) /\ Len(<< >>) = Len(<<x>>) - 1
    BY <1>2, <2>1
  <2> HIDE DEF Places
  <2> QED BY <1>3, <2>1, <2>2
<1>7. Leaves(<<x, y>>, 1, <<y>>)
  <2>1. <<x, y>> \in Seq({x, y}) /\ <<y>> \in Seq({x, y}) /\ <<x, y>>[1 + 1] = <<y>>[1]
    OBVIOUS
  <2>2. /\ 1 \in 1 .. Len(<<x, y>>) /\ Len(<<y>>) = Len(<<x, y>>) - 1
        /\ \A i \in 1 .. Len(<<x, y>>) - 1 : i = 1
    BY <1>2
  <2>3. \A i \in 1 .. Len(<<x, y>>) - 1 : <<y>>[i] = IF i < 1 THEN <<x, y>>[i] ELSE <<x, y>>[i + 1]
    BY <2>1, <2>2
  <2> HIDE DEF Places
  <2> QED BY <1>3, <2>1, <2>2, <2>3
<1>8. Leaves(<<y, x>>, 2, <<y>>)
  BY <1>1, <1>3
<1> HIDE DEF Leaves, Places, Place
<1> QED BY <1>3, <1>4, <1>5, <1>6, <1>7, <1>8 DEF RemovesFrom

\* What lists of at most two contain.
Lists(x, y, z) ==
    /\ ~Seqs!Contains(<< >>, x)
    /\ Seqs!Contains(<<y>>, x) <=> x = y
    /\ Seqs!Contains(<<y, z>>, x) <=> (x = y \/ x = z)

LEMMA Listed == \A x, y, z : Lists(x, y, z)
<1> SUFFICES ASSUME NEW x, NEW y, NEW z PROVE Lists(x, y, z)
  OBVIOUS
<1>1. Seqs!Contains(<<y>>, x) <=> x = y
  <2>1. 1 \in 1 .. Len(<<y>>)
    OBVIOUS
  <2> QED BY <2>1 DEF Seqs!Contains
<1>2. Seqs!Contains(<<y, z>>, x) <=> (x = y \/ x = z)
  <2>1. 1 \in 1 .. Len(<<y, z>>) /\ 2 \in 1 .. Len(<<y, z>>) /\ \A i \in 1 .. Len(<<y, z>>) : i = 1 \/ i = 2
    OBVIOUS
  <2> QED BY <2>1 DEF Seqs!Contains
<1> QED BY <1>1, <1>2 DEF Lists, Seqs!Contains

Decompose == "DECOMPOSE_ANALYZER"
Inefficient == "INEFFICIENT_ANALYZER"

\* Where a subscriber goes: the analyzers to the front, Dump to the back.
LEMMA Places ==
    ASSUME NEW x \in {Decompose, Inefficient}, NEW y \in {Decompose, Inefficient}
    PROVE  /\ LowerBound(<< >>, x) = 1 /\ LowerBound(<< >>, "DUMP") = 1
           /\ LowerBound(<<y>>, x) = 1
           /\ LowerBound(<<"DUMP">>, x) = 1
           /\ LowerBound(<<y>>, "DUMP") = 2
<1>1. /\ PriorityOf[x] = 3 /\ PriorityOf[y] = 3 /\ PriorityOf["DUMP"] = 0
  BY DEF PriorityOf, Decompose, Inefficient
<1>2. Seqs!Min({1}) = 1
  BY DEF Seqs!Min
<1>3. LowerBound(<< >>, x) = 1 /\ LowerBound(<< >>, "DUMP") = 1
  BY DEF LowerBound, Seqs!SelectInSeq
<1>4. LowerBound(<<y>>, x) = 1
  <2>1. {i \in 1 .. Len(<<y>>) : PriorityOf[<<y>>[i]] <= PriorityOf[x]} = {1}
    BY <1>1
  <2> QED BY <1>2, <2>1 DEF LowerBound, Seqs!SelectInSeq
<1>5. LowerBound(<<"DUMP">>, x) = 1
  <2>1. {i \in 1 .. Len(<<"DUMP">>) : PriorityOf[<<"DUMP">>[i]] <= PriorityOf[x]} = {1}
    BY <1>1
  <2> QED BY <1>2, <2>1 DEF LowerBound, Seqs!SelectInSeq
<1>6. LowerBound(<<y>>, "DUMP") = 2
  <2>1. {i \in 1 .. Len(<<y>>) : PriorityOf[<<y>>[i]] <= PriorityOf["DUMP"]} = {}
    BY <1>1
  <2> QED BY <2>1 DEF LowerBound, Seqs!SelectInSeq
<1> QED BY <1>3, <1>4, <1>5, <1>6

\* Who is in a list: the analyzers that asked for its events, in either order, then Dump.
OfBoth == {<< >>, <<Decompose>>, <<Inefficient>>, <<Decompose, Inefficient>>,
           <<Inefficient, Decompose>>}

ListsOK(lists) ==
    /\ lists \in Subscribers
    /\ lists["CLEAN_UP"] = <<"DUMP">>
    /\ lists["FREE"] \in {<<"DUMP">>, <<Inefficient, "DUMP">>}
    /\ lists["OP_LAUNCH"] = lists["FREE"]
    /\ lists["MEMORY_OWNER"] \in {<< >>, <<Decompose>>}
    /\ \A t \in {"MALLOC", "ACCESS"} :
          /\ lists[t] \in OfBoth
          /\ Seqs!Contains(lists[t], Inefficient) <=> lists["FREE"] = <<Inefficient, "DUMP">>
          /\ Seqs!Contains(lists[t], Decompose) <=> lists["MEMORY_OWNER"] = <<Decompose>>

\* What the lists are made of, and who is in them.
LEMMA InBoth ==
    /\ Decompose # Inefficient /\ Decompose # "DUMP" /\ Inefficient # "DUMP"
    /\ \A x \in {Decompose, Inefficient} :
          /\ ~Seqs!Contains(<< >>, x)
          /\ ~Seqs!Contains(<<"DUMP">>, x)
          /\ \A y \in {Decompose, Inefficient} :
                /\ Seqs!Contains(<<y>>, x) <=> x = y
                /\ Seqs!Contains(<<y, "DUMP">>, x) <=> x = y
          /\ Seqs!Contains(<<Decompose, Inefficient>>, x)
          /\ Seqs!Contains(<<Inefficient, Decompose>>, x)
<1>1. Decompose # Inefficient /\ Decompose # "DUMP" /\ Inefficient # "DUMP"
  BY DEF Decompose, Inefficient
<1> QED BY <1>1, Listed DEF Lists

\* A list in which the analyzer is not yet, and one from which it goes.
LEMMA JoinedList ==
    ASSUME NEW list \in OfBoth, NEW x \in {Decompose, Inefficient}, ~Seqs!Contains(list, x)
    PROVE  LET r == Seqs!InsertAt(list, LowerBound(list, x), x)
           IN  /\ r \in OfBoth
               /\ \A y \in {Decompose, Inefficient} :
                     Seqs!Contains(r, y) <=> y = x \/ Seqs!Contains(list, y)
<1> DEFINE r == Seqs!InsertAt(list, LowerBound(list, x), x)
<1>1. PICK z \in {Decompose, Inefficient} :
         /\ z # x /\ {Decompose, Inefficient} = {x, z}
         /\ OfBoth = {<< >>, <<x>>, <<z>>, <<x, z>>, <<z, x>>}
  <2>1. CASE x = Decompose
    BY <2>1, InBoth DEF OfBoth
  <2>2. CASE x = Inefficient
    BY <2>2, InBoth DEF OfBoth
  <2> QED BY <2>1, <2>2
<1>2. list \in {<< >>, <<z>>}
  <2>1. /\ Seqs!Contains(<<x>>, x) /\ Seqs!Contains(<<x, z>>, x) /\ Seqs!Contains(<<z, x>>, x)
    BY Listed DEF Lists
  <2> QED BY <1>1, <2>1
<1>3. CASE list = << >>
  <2>1. r = <<x>>
    BY <1>3, Places, Inserted
  <2>2. \A y : (Seqs!Contains(<<x>>, y) <=> y = x) /\ ~Seqs!Contains(<< >>, y)
    <3> SUFFICES ASSUME NEW y
                 PROVE  (Seqs!Contains(<<x>>, y) <=> y = x) /\ ~Seqs!Contains(<< >>, y)
      OBVIOUS
    <3>1. Seqs!Contains(<<x, z>>, y) <=> (y = x \/ y = z)
      BY Listed DEF Lists
    <3> QED BY <3>1, Listed DEF Lists
  <2> HIDE DEF r
  <2> QED BY <1>1, <1>3, <2>1, <2>2 DEF r
<1>4. CASE list = <<z>>
  <2>1. r = <<x, z>>
    BY <1>1, <1>4, Places, Inserted
  <2> HIDE DEF r
  <2>2. r \in OfBoth
    BY <1>1, <2>1, InBoth DEF OfBoth
  <2>3. \A y \in {Decompose, Inefficient} : Seqs!Contains(r, y) /\ (y = x \/ Seqs!Contains(list, y))
    BY <1>1, <1>4, <2>1, InBoth
  <2> QED BY <2>2, <2>3 DEF r
<1> QED BY <1>2, <1>3, <1>4

LEMMA LeftList ==
    ASSUME NEW list \in OfBoth, NEW x \in {Decompose, Inefficient}
    PROVE  LET r == Seqs!RemoveFirst(list, x)
           IN  /\ r \in OfBoth
               /\ \A y \in {Decompose, Inefficient} :
                     Seqs!Contains(r, y) <=> y # x /\ Seqs!Contains(list, y)
<1> DEFINE r == Seqs!RemoveFirst(list, x)
<1>1. PICK z \in {Decompose, Inefficient} :
         /\ z # x /\ {Decompose, Inefficient} = {x, z}
         /\ OfBoth = {<< >>, <<x>>, <<z>>, <<x, z>>, <<z, x>>}
  <2>1. CASE x = Decompose
    BY <2>1, InBoth DEF OfBoth
  <2>2. CASE x = Inefficient
    BY <2>2, InBoth DEF OfBoth
  <2> QED BY <2>1, <2>2
<1>2. /\ Seqs!RemoveFirst(<< >>, x) = << >>
      /\ Seqs!RemoveFirst(<<x>>, x) = << >>
      /\ Seqs!RemoveFirst(<<z>>, x) = <<z>>
      /\ Seqs!RemoveFirst(<<x, z>>, x) = <<z>>
      /\ Seqs!RemoveFirst(<<z, x>>, x) = <<z>>
      /\ Seqs!RemoveFirst(<<z, z>>, x) = <<z, z>>
  <2>1. x # z
    BY <1>1
  <2>2. RemovesFrom(x, z, z)
    BY <2>1, Removed
  <2> QED BY <2>2 DEF RemovesFrom
<1>3. list \in {<< >>, <<x>>, <<z>>, <<x, z>>, <<z, x>>}
  BY <1>1
<1>4. CASE list \in {<< >>, <<x>>}
  <2>1. r = << >>
    <3>1. Seqs!RemoveFirst(<< >>, x) = << >> /\ Seqs!RemoveFirst(<<x>>, x) = << >>
      BY <1>2
    <3> QED BY <1>4, <3>1
  <2>2. \A y : (Seqs!Contains(<<x>>, y) <=> y = x) /\ ~Seqs!Contains(<< >>, y)
    <3> SUFFICES ASSUME NEW y
                 PROVE  (Seqs!Contains(<<x>>, y) <=> y = x) /\ ~Seqs!Contains(<< >>, y)
      OBVIOUS
    <3>1. Seqs!Contains(<<x, z>>, y) <=> (y = x \/ y = z)
      BY Listed DEF Lists
    <3> QED BY <3>1, Listed DEF Lists
  <2> HIDE DEF r
  <2> QED BY <1>1, <1>4, <2>1, <2>2 DEF r
<1>5. CASE list \in {<<z>>, <<x, z>>, <<z, x>>}
  <2>1. r = <<z>>
    BY <1>2, <1>5
  <2> HIDE DEF r
  <2>2. \A y \in {Decompose, Inefficient} : y # x => y = z
    BY <1>1
  <2>3. Seqs!Contains(list, z)
    BY <1>1, <1>5, InBoth
  <2>4. r \in OfBoth
    BY <1>1, <2>1
  <2> QED BY <1>1, <2>1, <2>2, <2>3, <2>4, InBoth DEF r
<1> QED BY <1>3, <1>4, <1>5

\* Whether an analyzer is called.
Asked(lists, x) == Seqs!Contains(lists["MALLOC"], x)

\* Subscribe and UnSubscribe of an analyzer keep the lists in order, and make it one that is
\* called or not called.
LEMMA Subscribed ==
    ASSUME NEW lists, ListsOK(lists), NEW x \in {Decompose, Inefficient}
    PROVE  /\ ListsOK(Subscribe(lists, x)) /\ Asked(Subscribe(lists, x), x)
           /\ \A y \in {Decompose, Inefficient} \ {x} : Asked(Subscribe(lists, x), y) <=> Asked(lists, y)
<1> DEFINE r == Subscribe(lists, x)
           With(list) == IF Seqs!Contains(list, x) THEN list
                         ELSE Seqs!InsertAt(list, LowerBound(list, x), x)
<1>1. /\ EventTypesOf[Decompose] = {"MALLOC", "ACCESS", "MEMORY_OWNER"}
      /\ EventTypesOf[Inefficient] = {"MALLOC", "ACCESS", "FREE", "OP_LAUNCH"}
  BY DEF EventTypesOf, Decompose, Inefficient
<1>2. /\ \A t \in {"MALLOC", "ACCESS"} : r[t] = With(lists[t])
      /\ r["CLEAN_UP"] = lists["CLEAN_UP"]
      /\ r["FREE"] = IF x = Inefficient THEN With(lists["FREE"]) ELSE lists["FREE"]
      /\ r["OP_LAUNCH"] = IF x = Inefficient THEN With(lists["OP_LAUNCH"]) ELSE lists["OP_LAUNCH"]
      /\ r["MEMORY_OWNER"] = IF x = Decompose THEN With(lists["MEMORY_OWNER"]) ELSE lists["MEMORY_OWNER"]
      /\ DOMAIN r = EventBaseType
  BY <1>1, InBoth DEF Subscribe, EventBaseType
<1>3. ASSUME NEW list \in OfBoth
      PROVE  /\ With(list) \in OfBoth
             /\ \A y \in {Decompose, Inefficient} :
                   Seqs!Contains(With(list), y) <=> y = x \/ Seqs!Contains(list, y)
  BY JoinedList
<1>4. x = Inefficient => With(<<"DUMP">>) = <<Inefficient, "DUMP">> /\ With(<<Inefficient, "DUMP">>) = <<Inefficient, "DUMP">>
  BY Places, Inserted, InBoth
<1>5. x = Decompose => With(<< >>) = <<Decompose>> /\ With(<<Decompose>>) = <<Decompose>>
  BY Places, Inserted, InBoth
<1>6. r = [t \in EventBaseType |-> r[t]]
  BY DEF Subscribe
<1> HIDE DEF r, With
<1>7. r["FREE"] = IF x = Inefficient THEN <<Inefficient, "DUMP">> ELSE lists["FREE"]
  BY <1>2, <1>4 DEF ListsOK
<1>8. r["MEMORY_OWNER"] = IF x = Decompose THEN <<Decompose>> ELSE lists["MEMORY_OWNER"]
  BY <1>2, <1>5 DEF ListsOK
<1>9. r["OP_LAUNCH"] = r["FREE"]
  BY <1>2 DEF ListsOK
<1>10. ASSUME NEW t \in {"MALLOC", "ACCESS"}
       PROVE  /\ r[t] \in OfBoth
              /\ \A y \in {Decompose, Inefficient} :
                    Seqs!Contains(r[t], y) <=> y = x \/ Seqs!Contains(lists[t], y)
  BY <1>2, <1>3 DEF ListsOK
<1>11. r["CLEAN_UP"] = <<"DUMP">>
  BY <1>2 DEF ListsOK
<1>12. r \in Subscribers
  <2>1. << >> \in Seq(SubscriberId) /\ <<Decompose>> \in Seq(SubscriberId) /\ <<Inefficient>> \in Seq(SubscriberId)
        /\ <<Decompose, Inefficient>> \in Seq(SubscriberId) /\ <<Inefficient, Decompose>> \in Seq(SubscriberId)
        /\ <<"DUMP">> \in Seq(SubscriberId) /\ <<Inefficient, "DUMP">> \in Seq(SubscriberId)
    BY DEF SubscriberId, Decompose, Inefficient
  <2>2. OfBoth \subseteq Seq(SubscriberId)
    BY <2>1 DEF OfBoth
  <2>3. lists["FREE"] \in Seq(SubscriberId) /\ lists["MEMORY_OWNER"] \in Seq(SubscriberId)
    BY <2>1 DEF ListsOK
  <2>4. ASSUME NEW t \in EventBaseType PROVE r[t] \in Seq(SubscriberId)
    BY <1>7, <1>8, <1>9, <1>10, <1>11, <2>1, <2>2, <2>3 DEF EventBaseType
  <2> QED BY <1>6, <2>4 DEF Subscribers
<1>13. /\ r["FREE"] \in {<<"DUMP">>, <<Inefficient, "DUMP">>}
       /\ r["MEMORY_OWNER"] \in {<< >>, <<Decompose>>}
  BY <1>7, <1>8 DEF ListsOK
<1>14. ASSUME NEW t \in {"MALLOC", "ACCESS"}
       PROVE  /\ Seqs!Contains(r[t], Inefficient) <=> r["FREE"] = <<Inefficient, "DUMP">>
              /\ Seqs!Contains(r[t], Decompose) <=> r["MEMORY_OWNER"] = <<Decompose>>
  BY <1>7, <1>8, <1>10, InBoth DEF ListsOK
<1>15. ListsOK(r)
  BY <1>9, <1>10, <1>11, <1>12, <1>13, <1>14 DEF ListsOK
<1> QED BY <1>10, <1>15 DEF r, Asked

LEMMA UnSubscribed ==
    ASSUME NEW lists, ListsOK(lists), NEW x \in {Decompose, Inefficient}
    PROVE  /\ ListsOK(UnSubscribe(lists, x)) /\ ~Asked(UnSubscribe(lists, x), x)
           /\ \A y \in {Decompose, Inefficient} \ {x} :
                 Asked(UnSubscribe(lists, x), y) <=> Asked(lists, y)
<1> DEFINE r == UnSubscribe(lists, x)
           Without(list) == Seqs!RemoveFirst(list, x)
<1>1. /\ \A t \in EventBaseType : r[t] = Without(lists[t])
      /\ DOMAIN r = EventBaseType
  BY DEF UnSubscribe
<1>2. ASSUME NEW list \in OfBoth
      PROVE  /\ Without(list) \in OfBoth
             /\ \A y \in {Decompose, Inefficient} :
                   Seqs!Contains(Without(list), y) <=> y # x /\ Seqs!Contains(list, y)
  BY LeftList
<1>3. /\ Without(<<"DUMP">>) = <<"DUMP">>
      /\ Without(<<Inefficient, "DUMP">>) =
            IF x = Inefficient THEN <<"DUMP">> ELSE <<Inefficient, "DUMP">>
  <2>1. x # "DUMP"
    BY InBoth
  <2>2. RemovesFrom(x, "DUMP", "DUMP")
    BY <2>1, Removed
  <2>3. x # Inefficient => RemovesFrom(x, Inefficient, "DUMP")
    BY <2>1, Removed
  <2> QED BY <2>2, <2>3 DEF RemovesFrom
<1>4. /\ Without(<< >>) = << >>
      /\ Without(<<Decompose>>) = IF x = Decompose THEN << >> ELSE <<Decompose>>
  <2>1. RemovesFrom(x, "DUMP", "DUMP")
    BY InBoth, Removed
  <2>2. x # Decompose => RemovesFrom(x, Decompose, Decompose)
    BY Removed
  <2> QED BY <2>1, <2>2 DEF RemovesFrom
<1>5. r = [t \in EventBaseType |-> r[t]]
  BY DEF UnSubscribe
<1> HIDE DEF r, Without
<1>6. EventBaseType = {"MALLOC", "ACCESS", "FREE", "MEMORY_OWNER", "OP_LAUNCH", "CLEAN_UP"}
  BY DEF EventBaseType
<1>7. r["FREE"] = IF x = Inefficient THEN <<"DUMP">> ELSE lists["FREE"]
  BY <1>1, <1>3, <1>6 DEF ListsOK
<1>8. r["MEMORY_OWNER"] = IF x = Decompose THEN << >> ELSE lists["MEMORY_OWNER"]
  BY <1>1, <1>4, <1>6 DEF ListsOK
<1>9. r["OP_LAUNCH"] = r["FREE"]
  BY <1>1, <1>6 DEF ListsOK
<1>10. ASSUME NEW t \in {"MALLOC", "ACCESS"}
       PROVE  /\ r[t] \in OfBoth
              /\ \A y \in {Decompose, Inefficient} :
                    Seqs!Contains(r[t], y) <=> y # x /\ Seqs!Contains(lists[t], y)
  <2>1. t \in EventBaseType /\ lists[t] \in OfBoth
    BY <1>6 DEF ListsOK
  <2> QED BY <1>1, <1>2, <2>1
<1>11. r["CLEAN_UP"] = <<"DUMP">>
  BY <1>1, <1>3, <1>6 DEF ListsOK
<1>12. r \in Subscribers
  <2>1. << >> \in Seq(SubscriberId) /\ <<Decompose>> \in Seq(SubscriberId) /\ <<Inefficient>> \in Seq(SubscriberId)
        /\ <<Decompose, Inefficient>> \in Seq(SubscriberId) /\ <<Inefficient, Decompose>> \in Seq(SubscriberId)
        /\ <<"DUMP">> \in Seq(SubscriberId) /\ <<Inefficient, "DUMP">> \in Seq(SubscriberId)
    BY DEF SubscriberId, Decompose, Inefficient
  <2>2. OfBoth \subseteq Seq(SubscriberId)
    BY <2>1 DEF OfBoth
  <2>3. lists["FREE"] \in Seq(SubscriberId) /\ lists["MEMORY_OWNER"] \in Seq(SubscriberId)
    BY <2>1 DEF ListsOK
  <2>4. ASSUME NEW t \in EventBaseType PROVE r[t] \in Seq(SubscriberId)
    BY <1>7, <1>8, <1>9, <1>10, <1>11, <2>1, <2>2, <2>3 DEF EventBaseType
  <2> QED BY <1>5, <2>4 DEF Subscribers
<1>13. /\ r["FREE"] \in {<<"DUMP">>, <<Inefficient, "DUMP">>}
       /\ r["MEMORY_OWNER"] \in {<< >>, <<Decompose>>}
  BY <1>7, <1>8 DEF ListsOK
<1>14. <<"DUMP">> # <<Inefficient, "DUMP">> /\ << >> # <<Decompose>>
  <2>1. Len(<<"DUMP">>) = 1 /\ Len(<<Inefficient, "DUMP">>) = 2 /\ Len(<< >>) = 0 /\ Len(<<Decompose>>) = 1
    OBVIOUS
  <2> QED BY <2>1
<1>15. ASSUME NEW t \in {"MALLOC", "ACCESS"}
       PROVE  /\ Seqs!Contains(r[t], Inefficient) <=> r["FREE"] = <<Inefficient, "DUMP">>
              /\ Seqs!Contains(r[t], Decompose) <=> r["MEMORY_OWNER"] = <<Decompose>>
  BY <1>7, <1>8, <1>10, <1>14, InBoth DEF ListsOK
<1>16. ListsOK(r)
  BY <1>9, <1>10, <1>11, <1>12, <1>13, <1>15 DEF ListsOK
<1> QED BY <1>10, <1>16 DEF r, Asked

LEMMA ConfiguredLists ==
    ASSUME NEW lists, ListsOK(lists), NEW analyses
    PROVE  LET r == Configured(Configured(lists, analyses, Decompose), analyses, Inefficient)
           IN  ListsOK(r) /\ (Asked(r, Inefficient) <=> Inefficient \in analyses)
<1> DEFINE m == Configured(lists, analyses, Decompose)
<1>1. ListsOK(m)
  BY Subscribed, UnSubscribed DEF Configured
<1> HIDE DEF m
<1>2. LET r == Configured(m, analyses, Inefficient)
      IN  ListsOK(r) /\ (Asked(r, Inefficient) <=> Inefficient \in analyses)
  BY <1>1, Subscribed, UnSubscribed DEF Configured
<1> QED BY <1>2 DEF m

\* The constructor of EventReport.
LEMMA FirstLists ==
    ASSUME NEW analyses
    PROVE  LET r == InitSubscribers(analyses)
           IN  ListsOK(r) /\ (Asked(r, Inefficient) <=> Inefficient \in analyses)
<1> DEFINE With(list, x) == IF Seqs!Contains(list, x) THEN list
                            ELSE Seqs!InsertAt(list, LowerBound(list, x), x)
           d == Decompose \in analyses
           n == Inefficient \in analyses
           first  == IF d THEN Subscribe(NoSubscribers, Decompose) ELSE NoSubscribers
           second == IF n THEN Subscribe(first, Inefficient) ELSE first
           r == Subscribe(second, "DUMP")
<1>1. /\ EventTypesOf[Decompose] = {"MALLOC", "ACCESS", "MEMORY_OWNER"}
      /\ EventTypesOf[Inefficient] = {"MALLOC", "ACCESS", "FREE", "OP_LAUNCH"}
      /\ EventTypesOf["DUMP"] = {"FREE", "OP_LAUNCH", "CLEAN_UP"}
      /\ EventBaseType = {"MALLOC", "ACCESS", "FREE", "MEMORY_OWNER", "OP_LAUNCH", "CLEAN_UP"}
  BY DEF EventTypesOf, EventBaseType, Decompose, Inefficient
<1>2. \A lists, x, t : t \in EventBaseType =>
         Subscribe(lists, x)[t] = IF t \in EventTypesOf[x] THEN With(lists[t], x) ELSE lists[t]
  BY DEF Subscribe
<1>3. \A t \in EventBaseType : NoSubscribers[t] = << >>
  BY DEF NoSubscribers
<1>4. \A x \in {Decompose, Inefficient} : With(<< >>, x) = <<x>>
  BY Places, Inserted, InBoth
<1>5. With(<<Decompose>>, Inefficient) = <<Inefficient, Decompose>>
  BY Places, Inserted, InBoth
<1>6. With(<< >>, "DUMP") = <<"DUMP">> /\ With(<<Inefficient>>, "DUMP") = <<Inefficient, "DUMP">>
  <2>1. ~Seqs!Contains(<< >>, "DUMP")
    BY Listed DEF Lists
  <2>2. ~Seqs!Contains(<<Inefficient>>, "DUMP")
    <3>1. Seqs!Contains(<<Inefficient, Inefficient>>, "DUMP") <=> ("DUMP" = Inefficient \/ "DUMP" = Inefficient)
      BY Listed DEF Lists
    <3>2. Seqs!Contains(<<Inefficient>>, "DUMP") <=> "DUMP" = Inefficient
      BY <3>1, Listed DEF Lists
    <3> QED BY <3>2, InBoth
  <2> QED BY <2>1, <2>2, Places, Inserted
<1> HIDE DEF With
<1>7. \A t \in EventBaseType :
         first[t] = IF d /\ t \in {"MALLOC", "ACCESS", "MEMORY_OWNER"} THEN <<Decompose>> ELSE << >>
  BY <1>1, <1>2, <1>3, <1>4
<1> HIDE DEF first, d
<1>8. \A t \in EventBaseType :
         second[t] = IF n /\ t \in {"MALLOC", "ACCESS", "FREE", "OP_LAUNCH"}
                     THEN (IF first[t] = << >> THEN <<Inefficient>> ELSE <<Inefficient, Decompose>>)
                     ELSE first[t]
  <2>1. \A t \in EventBaseType : first[t] \in {<< >>, <<Decompose>>}
    BY <1>7
  <2> QED BY <1>1, <1>2, <1>4, <1>5, <2>1
<1> HIDE DEF second, n
<1>9. /\ \A t \in {"MALLOC", "ACCESS", "MEMORY_OWNER"} : t \in EventBaseType /\ r[t] = second[t]
      /\ \A t \in {"FREE", "OP_LAUNCH", "CLEAN_UP"} : t \in EventBaseType /\ r[t] = With(second[t], "DUMP")
  BY <1>1, <1>2
<1>10. /\ r["FREE"] = (IF n THEN <<Inefficient, "DUMP">> ELSE <<"DUMP">>)
       /\ r["OP_LAUNCH"] = r["FREE"] /\ r["CLEAN_UP"] = <<"DUMP">>
  BY <1>6, <1>7, <1>8, <1>9
<1>11. r["MEMORY_OWNER"] = IF d THEN <<Decompose>> ELSE << >>
  BY <1>7, <1>8, <1>9
<1>12. <<Decompose>> # << >> /\ <<"DUMP">> # <<Inefficient, "DUMP">>
  <2>1. Len(<<"DUMP">>) = 1 /\ Len(<<Inefficient, "DUMP">>) = 2 /\ Len(<< >>) = 0 /\ Len(<<Decompose>>) = 1
    OBVIOUS
  <2> QED BY <2>1
<1>13. ASSUME NEW t \in {"MALLOC", "ACCESS"}
       PROVE  /\ r[t] \in OfBoth
              /\ Seqs!Contains(r[t], Inefficient) <=> n
              /\ Seqs!Contains(r[t], Decompose) <=> d
  <2>1. r[t] = IF n THEN (IF d THEN <<Inefficient, Decompose>> ELSE <<Inefficient>>)
                    ELSE (IF d THEN <<Decompose>> ELSE << >>)
    BY <1>7, <1>8, <1>9, <1>12
  <2> HIDE DEF r
  <2> QED BY <2>1, InBoth DEF OfBoth
<1>14. r = [t \in EventBaseType |-> r[t]]
  BY DEF Subscribe
<1> HIDE DEF r
<1>15. r \in Subscribers
  <2>1. << >> \in Seq(SubscriberId) /\ <<Decompose>> \in Seq(SubscriberId) /\ <<Inefficient>> \in Seq(SubscriberId)
        /\ <<Decompose, Inefficient>> \in Seq(SubscriberId) /\ <<Inefficient, Decompose>> \in Seq(SubscriberId)
        /\ <<"DUMP">> \in Seq(SubscriberId) /\ <<Inefficient, "DUMP">> \in Seq(SubscriberId)
    BY DEF SubscriberId, Decompose, Inefficient
  <2>2. ASSUME NEW t \in EventBaseType PROVE r[t] \in Seq(SubscriberId)
    BY <1>1, <1>10, <1>11, <1>13, <2>1 DEF OfBoth
  <2> QED BY <1>14, <2>2 DEF Subscribers
<1>16. ListsOK(r)
  BY <1>10, <1>11, <1>12, <1>13, <1>15 DEF ListsOK
<1>17. r = InitSubscribers(analyses)
  BY DEF r, second, first, n, d, InitSubscribers, Decompose, Inefficient
<1> QED BY <1>13, <1>16, <1>17 DEF Asked, n

\* Only config() changes the lists.
LEMMA ListsKept == (Init => ListsOK(subscribers)) /\ (ListsOK(subscribers) /\ [Next]_vars => ListsOK(subscribers)')
<1>1. Init => ListsOK(subscribers)
  BY FirstLists DEF Init
<1>2. ASSUME ListsOK(subscribers), [Next]_vars PROVE ListsOK(subscribers')
  <2>1. ASSUME NEW analyses \in Switches, SetConfig(analyses) PROVE ListsOK(subscribers')
    BY <1>2, <2>1, ConfiguredLists DEF SetConfig, Decompose, Inefficient
  <2>2. (~ \E analyses \in Switches : SetConfig(analyses)) => subscribers' = subscribers
    BY <1>2 DEF Next, vars, PoolMalloc, PoolFree, MemAccess, OperatorStart, OperatorEnd, OptimizerStep,
                NoCall, Unswitched, SetTraceStatus, CleanUpAll, Exit
  <2> QED BY <1>2, <2>1, <2>2
<1>3. ListsOK(subscribers') => ListsOK(subscribers)'
  BY DEF ListsOK
<1> QED BY <1>1, <1>2, <1>3

LEMMA OrderedLists == ListsOK(subscribers) => ListsInOrder
<1> SUFFICES ASSUME ListsOK(subscribers) PROVE ListsInOrder
  OBVIOUS
<1> DEFINE Ordered(list) == Seqs!IsInjective(list) /\ (Seqs!Contains(list, "DUMP") => list[Len(list)] = "DUMP")
<1>1. \A list \in OfBoth \cup {<<"DUMP">>, <<Inefficient, "DUMP">>} : Ordered(list)
  <2>1. \A x, y \in SubscriberId : x # y => Seqs!IsInjective(<<x, y>>)
    BY DEF Seqs!IsInjective
  <2>2. \A x \in SubscriberId : Seqs!IsInjective(<<x>>) /\ Seqs!IsInjective(<< >>)
    BY DEF Seqs!IsInjective
  <2>3. Decompose \in SubscriberId /\ Inefficient \in SubscriberId /\ "DUMP" \in SubscriberId
    BY DEF SubscriberId, Decompose, Inefficient
  <2>4. \A list \in OfBoth : ~Seqs!Contains(list, "DUMP")
    <3>1. \A y, z : Lists("DUMP", y, z)
      BY Listed
    <3>2. ASSUME NEW y \in {Decompose, Inefficient}, NEW z \in {Decompose, Inefficient}
          PROVE  /\ ~Seqs!Contains(<< >>, "DUMP") /\ ~Seqs!Contains(<<y>>, "DUMP")
                 /\ ~Seqs!Contains(<<y, z>>, "DUMP")
      <4>1. Lists("DUMP", y, z) /\ y # "DUMP" /\ z # "DUMP"
        BY <3>1, InBoth
      <4> QED BY <4>1 DEF Lists
    <3> QED BY <3>2 DEF OfBoth
  <2>5. <<"DUMP">>[Len(<<"DUMP">>)] = "DUMP" /\ <<Inefficient, "DUMP">>[Len(<<Inefficient, "DUMP">>)] = "DUMP"
    OBVIOUS
  <2> QED BY <2>1, <2>2, <2>3, <2>4, <2>5, InBoth DEF OfBoth
<1>2. ASSUME NEW t \in EventBaseType PROVE Ordered(subscribers[t])
  BY <1>1 DEF ListsOK, EventBaseType, OfBoth
<1>3. ASSUME NEW t \in EventTypesOf[Inefficient]
      PROVE  Seqs!Contains(subscribers[t], Inefficient) <=> subscribers["FREE"] = <<Inefficient, "DUMP">>
  <2>1. t \in {"MALLOC", "ACCESS"} \/ subscribers[t] = subscribers["FREE"]
    BY DEF EventTypesOf, Inefficient, ListsOK
  <2>2. Seqs!Contains(<<Inefficient, "DUMP">>, Inefficient) /\ ~Seqs!Contains(<<"DUMP">>, Inefficient)
    BY InBoth
  <2> QED BY <2>1, <2>2 DEF ListsOK
<1>4. ASSUME NEW t \in EventTypesOf[Decompose]
      PROVE  Seqs!Contains(subscribers[t], Decompose) <=> subscribers["MEMORY_OWNER"] = <<Decompose>>
  <2>1. t \in {"MALLOC", "ACCESS", "MEMORY_OWNER"}
    BY DEF EventTypesOf, Decompose
  <2>2. Seqs!Contains(<<Decompose>>, Decompose) /\ ~Seqs!Contains(<< >>, Decompose)
    BY InBoth
  <2> QED BY <2>1, <2>2 DEF ListsOK
<1>5. ASSUME NEW id \in {Decompose, Inefficient}, NEW t \in EventTypesOf[id], NEW u \in EventTypesOf[id]
      PROVE  Seqs!Contains(subscribers[t], id) = Seqs!Contains(subscribers[u], id)
  <2>1. Seqs!Contains(subscribers[t], id) \in BOOLEAN /\ Seqs!Contains(subscribers[u], id) \in BOOLEAN
    BY DEF Seqs!Contains
  <2>2. Seqs!Contains(subscribers[t], id) <=> Seqs!Contains(subscribers[u], id)
    BY <1>3, <1>4
  <2> QED BY <2>1, <2>2
<1> QED BY <1>2, <1>5 DEF ListsInOrder, Decompose, Inefficient

\* However config() changes the analyses and whatever comes in between, each event reaches each
\* analyzer that is asked for once, and Dump last.
THEOREM ListsOrdered == Spec => []ListsInOrder
<1>1. Spec => []ListsOK(subscribers)
  BY ListsKept, PTL DEF Spec
<1> QED BY <1>1, OrderedLists, PTL

\* The sets that a fold over at most two elements goes through.
LEMMA SmallSets ==
    /\ 1 .. 2 = {1, 2} /\ 1 .. 1 = {1}
    /\ SUBSET {1} = {{}, {1}} /\ SUBSET {1, 2} = {{}, {1}, {2}, {1, 2}}
    /\ {1} # {} /\ {2} # {} /\ {1, 2} # {} /\ {1} # {2} /\ {1, 2} # {1} /\ {1, 2} # {2}
    /\ Largest({1}) = 1 /\ Largest({2}) = 2 /\ Largest({1, 2}) = 2
    /\ {1} \ {Largest({1})} = {} /\ {2} \ {Largest({2})} = {} /\ {1, 2} \ {Largest({1, 2})} = {1}
<1>1. 1 .. 2 = {1, 2} /\ 1 .. 1 = {1}
  OBVIOUS
<1>2. SUBSET {1} = {{}, {1}}
  OBVIOUS
<1>3. SUBSET {1, 2} = {{}, {1}, {2}, {1, 2}}
  OBVIOUS
<1>4. Largest({1}) = 1 /\ Largest({2}) = 2 /\ Largest({1, 2}) = 2
  <2>1. {1} \in SUBSET (1 .. 1) /\ {2} \in SUBSET (1 .. 2) /\ {1, 2} \in SUBSET (1 .. 2)
    BY <1>1
  <2> QED BY <2>1, LargestOf
<1> QED BY <1>1, <1>2, <1>3, <1>4

\* DispatchEvent of a memory event, with the lists there are: the handlers one after the other.
LEMMA MemoryDispatched ==
    ASSUME NEW x, NEW type, NEW e, NEW s, NEW k
    PROVE  LET op(y, id) == MemoryHandler(y, id, e, s, k)
               r == DispatchMemory(x, type, e, s, k)
           IN  /\ subscribers[type] = << >> => r = x
               /\ \A a : subscribers[type] = <<a>> => r = op(x, a)
               /\ \A a, b : subscribers[type] = <<a, b>> => r = op(op(x, a), b)
<1> DEFINE op(y, id) == MemoryHandler(y, id, e, s, k)
           list == subscribers[type]
           Iterates(g) == g = [t \in SUBSET DOMAIN list |->
                                  IF t = {} THEN x ELSE op(g[t \ {Largest(t)}], list[Largest(t)])]
           iter == CHOOSE g : Iterates(g)
           r == DispatchMemory(x, type, e, s, k)
<1>1. r = iter[DOMAIN list]
  BY DEF DispatchMemory, Seqs!FoldLeft, Seqs!MapThenFoldSet, Seqs!Max, Largest
<1> HIDE DEF op, list, r
<1> DEFINE Value(g, t) == IF t = {} THEN x ELSE op(g[t \ {Largest(t)}], list[Largest(t)])
<1>2. ASSUME NEW T, SUBSET DOMAIN list = T, NEW g, g = [t \in T |-> g[t]],
             \A t \in T : g[t] = Value(g, t)
      PROVE  \A t \in T : iter[t] = Value(iter, t)
  <2>1. g = [t \in T |-> Value(g, t)]
    <3> HIDE DEF Value
    <3> QED BY <1>2
  <2>2. Iterates(g)
    BY <1>2, <2>1
  <2>3. Iterates(iter)
    <3> HIDE DEF Iterates
    <3> QED BY <2>2
  <2> HIDE DEF iter
  <2> QED BY <1>2, <2>3
<1> HIDE DEF iter, Iterates
<1>3. ASSUME list = << >> PROVE r = x
  <2>1. DOMAIN list = {} /\ SUBSET {} = {{}}
    BY <1>3
  <2> DEFINE T == {{}}
             g == [t \in T |-> x]
  <2>2. \A t \in T : g[t] = Value(g, t)
    OBVIOUS
  <2>3. g = [t \in T |-> g[t]] /\ SUBSET DOMAIN list = T
    BY <2>1
  <2> HIDE DEF g, Value
  <2>4. \A t \in T : iter[t] = Value(iter, t)
    <3> HIDE DEF T
    <3> QED BY <1>2, <2>2, <2>3
  <2>5. iter[{}] = Value(iter, {})
    BY <2>4
  <2> QED BY <1>1, <2>1, <2>5 DEF Value
<1>4. ASSUME NEW a, list = <<a>> PROVE r = op(x, a)
  <2>1. DOMAIN list = {1} /\ list[1] = a
    BY <1>4
  <2> DEFINE g == [t \in {{}, {1}} |-> IF t = {} THEN x ELSE op(x, a)]
  <2>2. g[{}] = x /\ g[{1}] = op(x, a) /\ {1} # {} /\ {1} \ {1} = {}
    OBVIOUS
  <2>3. Value(g, {}) = g[{}] /\ Value(g, {1}) = g[{1}]
    BY <2>1, <2>2, SmallSets
  <2> DEFINE T == {{}, {1}}
  <2> HIDE DEF g, Value
  <2>4. \A t \in T : iter[t] = Value(iter, t)
    <3>1. g = [t \in T |-> g[t]] /\ SUBSET DOMAIN list = T
      BY <2>1, SmallSets DEF g
    <3>2. \A t \in T : g[t] = Value(g, t)
      BY <2>3
    <3> HIDE DEF T
    <3> QED BY <1>2, <3>1, <3>2
  <2>5. iter[{}] = Value(iter, {}) /\ iter[{1}] = Value(iter, {1})
    BY <2>4
  <2>6. iter[{}] = x
    BY <2>5 DEF Value
  <2> QED BY <1>1, <2>1, <2>5, <2>6, SmallSets DEF Value
<1>5. ASSUME NEW a, NEW b, list = <<a, b>> PROVE r = op(op(x, a), b)
  <2>1. DOMAIN list = {1, 2} /\ list[1] = a /\ list[2] = b
    BY <1>5, SmallSets
  <2>2. ASSUME NEW h
        PROVE  /\ Value(h, {}) = x
               /\ Value(h, {1}) = op(h[{}], a)
               /\ Value(h, {2}) = op(h[{}], b)
               /\ Value(h, {1, 2}) = op(h[{1}], b)
    <3>1. {1} # {} /\ {2} # {} /\ {1, 2} # {}
      OBVIOUS
    <3>2. Largest({1}) = 1 /\ Largest({2}) = 2 /\ Largest({1, 2}) = 2
      BY SmallSets
    <3>3. {1} \ {1} = {} /\ {2} \ {2} = {} /\ {1, 2} \ {2} = {1}
      OBVIOUS
    <3>4. Value(h, {}) = x
      OBVIOUS
    <3>5. Value(h, {1}) = op(h[{1} \ {1}], list[1])
      BY <3>1, <3>2
    <3>6. Value(h, {2}) = op(h[{2} \ {2}], list[2])
      BY <3>1, <3>2
    <3>7. Value(h, {1, 2}) = op(h[{1, 2} \ {2}], list[2])
      BY <3>1, <3>2
    <3> HIDE DEF Value
    <3> QED BY <2>1, <3>3, <3>4, <3>5, <3>6, <3>7
  <2> DEFINE T == {{}, {1}, {2}, {1, 2}}
             v(t) == IF t = {} THEN x ELSE IF t = {1} THEN op(x, a)
                     ELSE IF t = {2} THEN op(x, b) ELSE op(op(x, a), b)
             g == [t \in T |-> v(t)]
  <2>3. g[{}] = x /\ g[{1}] = op(x, a) /\ g[{2}] = op(x, b) /\ g[{1, 2}] = op(op(x, a), b)
    BY SmallSets
  <2>4. g = [t \in T |-> g[t]] /\ SUBSET DOMAIN list = T
    <3>1. SUBSET DOMAIN list = T
      BY <2>1, SmallSets
    <3> HIDE DEF v, T
    <3>2. g = [t \in T |-> g[t]]
      OBVIOUS
    <3> QED BY <3>1, <3>2
  <2> HIDE DEF g, Value
  <2>5. \A t \in T : g[t] = Value(g, t)
    <3>1. /\ g[{}] = Value(g, {}) /\ g[{1}] = Value(g, {1})
          /\ g[{2}] = Value(g, {2}) /\ g[{1, 2}] = Value(g, {1, 2})
      BY <2>2, <2>3
    <3> QED BY <3>1
  <2>6. \A t \in T : iter[t] = Value(iter, t)
    <3> HIDE DEF T
    <3> QED BY <1>2, <2>4, <2>5
  <2>7. /\ iter[{}] = Value(iter, {}) /\ iter[{1}] = Value(iter, {1})
        /\ iter[{1, 2}] = Value(iter, {1, 2})
    BY <2>6
  <2>8. iter[{1, 2}] = op(op(x, a), b)
    BY <2>2, <2>7
  <2> QED BY <1>1, <2>1, <2>8
<1> QED BY <1>3, <1>4, <1>5 DEF op, list, r

\* The same of an operator.
LEMMA OperatorDispatched ==
    ASSUME NEW x, NEW e
    PROVE  LET op(y, id) == OperatorHandler(y, id, e)
               r == DispatchOperator(x, e)
           IN  /\ subscribers["OP_LAUNCH"] = << >> => r = x
               /\ \A a : subscribers["OP_LAUNCH"] = <<a>> => r = op(x, a)
               /\ \A a, b : subscribers["OP_LAUNCH"] = <<a, b>> => r = op(op(x, a), b)
<1> DEFINE op(y, id) == OperatorHandler(y, id, e)
           list == subscribers["OP_LAUNCH"]
           Iterates(g) == g = [t \in SUBSET DOMAIN list |->
                                  IF t = {} THEN x ELSE op(g[t \ {Largest(t)}], list[Largest(t)])]
           iter == CHOOSE g : Iterates(g)
           r == DispatchOperator(x, e)
<1>1. r = iter[DOMAIN list]
  BY DEF DispatchOperator, Seqs!FoldLeft, Seqs!MapThenFoldSet, Seqs!Max, Largest
<1> HIDE DEF op, list, r
<1> DEFINE Value(g, t) == IF t = {} THEN x ELSE op(g[t \ {Largest(t)}], list[Largest(t)])
<1>2. ASSUME NEW T, SUBSET DOMAIN list = T, NEW g, g = [t \in T |-> g[t]],
             \A t \in T : g[t] = Value(g, t)
      PROVE  \A t \in T : iter[t] = Value(iter, t)
  <2>1. g = [t \in T |-> Value(g, t)]
    <3> HIDE DEF Value
    <3> QED BY <1>2
  <2>2. Iterates(g)
    BY <1>2, <2>1
  <2>3. Iterates(iter)
    <3> HIDE DEF Iterates
    <3> QED BY <2>2
  <2> HIDE DEF iter
  <2> QED BY <1>2, <2>3
<1> HIDE DEF iter, Iterates
<1>3. ASSUME list = << >> PROVE r = x
  <2>1. DOMAIN list = {} /\ SUBSET {} = {{}}
    BY <1>3
  <2> DEFINE T == {{}}
             g == [t \in T |-> x]
  <2>2. \A t \in T : g[t] = Value(g, t)
    OBVIOUS
  <2>3. g = [t \in T |-> g[t]] /\ SUBSET DOMAIN list = T
    BY <2>1
  <2> HIDE DEF g, Value
  <2>4. \A t \in T : iter[t] = Value(iter, t)
    <3> HIDE DEF T
    <3> QED BY <1>2, <2>2, <2>3
  <2>5. iter[{}] = Value(iter, {})
    BY <2>4
  <2> QED BY <1>1, <2>1, <2>5 DEF Value
<1>4. ASSUME NEW a, list = <<a>> PROVE r = op(x, a)
  <2>1. DOMAIN list = {1} /\ list[1] = a
    BY <1>4
  <2> DEFINE g == [t \in {{}, {1}} |-> IF t = {} THEN x ELSE op(x, a)]
  <2>2. g[{}] = x /\ g[{1}] = op(x, a) /\ {1} # {} /\ {1} \ {1} = {}
    OBVIOUS
  <2>3. Value(g, {}) = g[{}] /\ Value(g, {1}) = g[{1}]
    BY <2>1, <2>2, SmallSets
  <2> DEFINE T == {{}, {1}}
  <2> HIDE DEF g, Value
  <2>4. \A t \in T : iter[t] = Value(iter, t)
    <3>1. g = [t \in T |-> g[t]] /\ SUBSET DOMAIN list = T
      BY <2>1, SmallSets DEF g
    <3>2. \A t \in T : g[t] = Value(g, t)
      BY <2>3
    <3> HIDE DEF T
    <3> QED BY <1>2, <3>1, <3>2
  <2>5. iter[{}] = Value(iter, {}) /\ iter[{1}] = Value(iter, {1})
    BY <2>4
  <2>6. iter[{}] = x
    BY <2>5 DEF Value
  <2> QED BY <1>1, <2>1, <2>5, <2>6, SmallSets DEF Value
<1>5. ASSUME NEW a, NEW b, list = <<a, b>> PROVE r = op(op(x, a), b)
  <2>1. DOMAIN list = {1, 2} /\ list[1] = a /\ list[2] = b
    BY <1>5, SmallSets
  <2>2. ASSUME NEW h
        PROVE  /\ Value(h, {}) = x
               /\ Value(h, {1}) = op(h[{}], a)
               /\ Value(h, {2}) = op(h[{}], b)
               /\ Value(h, {1, 2}) = op(h[{1}], b)
    <3>1. {1} # {} /\ {2} # {} /\ {1, 2} # {}
      OBVIOUS
    <3>2. Largest({1}) = 1 /\ Largest({2}) = 2 /\ Largest({1, 2}) = 2
      BY SmallSets
    <3>3. {1} \ {1} = {} /\ {2} \ {2} = {} /\ {1, 2} \ {2} = {1}
      OBVIOUS
    <3>4. Value(h, {}) = x
      OBVIOUS
    <3>5. Value(h, {1}) = op(h[{1} \ {1}], list[1])
      BY <3>1, <3>2
    <3>6. Value(h, {2}) = op(h[{2} \ {2}], list[2])
      BY <3>1, <3>2
    <3>7. Value(h, {1, 2}) = op(h[{1, 2} \ {2}], list[2])
      BY <3>1, <3>2
    <3> HIDE DEF Value
    <3> QED BY <2>1, <3>3, <3>4, <3>5, <3>6, <3>7
  <2> DEFINE T == {{}, {1}, {2}, {1, 2}}
             v(t) == IF t = {} THEN x ELSE IF t = {1} THEN op(x, a)
                     ELSE IF t = {2} THEN op(x, b) ELSE op(op(x, a), b)
             g == [t \in T |-> v(t)]
  <2>3. g[{}] = x /\ g[{1}] = op(x, a) /\ g[{2}] = op(x, b) /\ g[{1, 2}] = op(op(x, a), b)
    BY SmallSets
  <2>4. g = [t \in T |-> g[t]] /\ SUBSET DOMAIN list = T
    <3>1. SUBSET DOMAIN list = T
      BY <2>1, SmallSets
    <3> HIDE DEF v, T
    <3>2. g = [t \in T |-> g[t]]
      OBVIOUS
    <3> QED BY <3>1, <3>2
  <2> HIDE DEF g, Value
  <2>5. \A t \in T : g[t] = Value(g, t)
    <3>1. /\ g[{}] = Value(g, {}) /\ g[{1}] = Value(g, {1})
          /\ g[{2}] = Value(g, {2}) /\ g[{1, 2}] = Value(g, {1, 2})
      BY <2>2, <2>3
    <3> QED BY <3>1
  <2>6. \A t \in T : iter[t] = Value(iter, t)
    <3> HIDE DEF T
    <3> QED BY <1>2, <2>4, <2>5
  <2>7. /\ iter[{}] = Value(iter, {}) /\ iter[{1}] = Value(iter, {1})
        /\ iter[{1, 2}] = Value(iter, {1, 2})
    BY <2>6
  <2>8. iter[{1, 2}] = op(op(x, a), b)
    BY <2>2, <2>7
  <2> QED BY <1>1, <2>1, <2>8
<1> QED BY <1>3, <1>4, <1>5 DEF op, list, r

\* And of an owner.
LEMMA OwnerDispatched ==
    ASSUME NEW x, NEW k, NEW class
    PROVE  LET op(y, id) == OwnerHandler(y, k, class)
               r == DispatchOwner(x, k, class)
           IN  /\ subscribers["MEMORY_OWNER"] = << >> => r = x
               /\ \A a : subscribers["MEMORY_OWNER"] = <<a>> => r = op(x, a)
               /\ \A a, b : subscribers["MEMORY_OWNER"] = <<a, b>> => r = op(op(x, a), b)
<1> DEFINE op(y, id) == OwnerHandler(y, k, class)
           list == subscribers["MEMORY_OWNER"]
           Iterates(g) == g = [t \in SUBSET DOMAIN list |->
                                  IF t = {} THEN x ELSE op(g[t \ {Largest(t)}], list[Largest(t)])]
           iter == CHOOSE g : Iterates(g)
           r == DispatchOwner(x, k, class)
<1>1. r = iter[DOMAIN list]
  BY DEF DispatchOwner, Seqs!FoldLeft, Seqs!MapThenFoldSet, Seqs!Max, Largest
<1> HIDE DEF op, list, r
<1> DEFINE Value(g, t) == IF t = {} THEN x ELSE op(g[t \ {Largest(t)}], list[Largest(t)])
<1>2. ASSUME NEW T, SUBSET DOMAIN list = T, NEW g, g = [t \in T |-> g[t]],
             \A t \in T : g[t] = Value(g, t)
      PROVE  \A t \in T : iter[t] = Value(iter, t)
  <2>1. g = [t \in T |-> Value(g, t)]
    <3> HIDE DEF Value
    <3> QED BY <1>2
  <2>2. Iterates(g)
    BY <1>2, <2>1
  <2>3. Iterates(iter)
    <3> HIDE DEF Iterates
    <3> QED BY <2>2
  <2> HIDE DEF iter
  <2> QED BY <1>2, <2>3
<1> HIDE DEF iter, Iterates
<1>3. ASSUME list = << >> PROVE r = x
  <2>1. DOMAIN list = {} /\ SUBSET {} = {{}}
    BY <1>3
  <2> DEFINE T == {{}}
             g == [t \in T |-> x]
  <2>2. \A t \in T : g[t] = Value(g, t)
    OBVIOUS
  <2>3. g = [t \in T |-> g[t]] /\ SUBSET DOMAIN list = T
    BY <2>1
  <2> HIDE DEF g, Value
  <2>4. \A t \in T : iter[t] = Value(iter, t)
    <3> HIDE DEF T
    <3> QED BY <1>2, <2>2, <2>3
  <2>5. iter[{}] = Value(iter, {})
    BY <2>4
  <2> QED BY <1>1, <2>1, <2>5 DEF Value
<1>4. ASSUME NEW a, list = <<a>> PROVE r = op(x, a)
  <2>1. DOMAIN list = {1} /\ list[1] = a
    BY <1>4
  <2> DEFINE g == [t \in {{}, {1}} |-> IF t = {} THEN x ELSE op(x, a)]
  <2>2. g[{}] = x /\ g[{1}] = op(x, a) /\ {1} # {} /\ {1} \ {1} = {}
    OBVIOUS
  <2>3. Value(g, {}) = g[{}] /\ Value(g, {1}) = g[{1}]
    BY <2>1, <2>2, SmallSets
  <2> DEFINE T == {{}, {1}}
  <2> HIDE DEF g, Value
  <2>4. \A t \in T : iter[t] = Value(iter, t)
    <3>1. g = [t \in T |-> g[t]] /\ SUBSET DOMAIN list = T
      BY <2>1, SmallSets DEF g
    <3>2. \A t \in T : g[t] = Value(g, t)
      BY <2>3
    <3> HIDE DEF T
    <3> QED BY <1>2, <3>1, <3>2
  <2>5. iter[{}] = Value(iter, {}) /\ iter[{1}] = Value(iter, {1})
    BY <2>4
  <2>6. iter[{}] = x
    BY <2>5 DEF Value
  <2> QED BY <1>1, <2>1, <2>5, <2>6, SmallSets DEF Value
<1>5. ASSUME NEW a, NEW b, list = <<a, b>> PROVE r = op(op(x, a), b)
  <2>1. DOMAIN list = {1, 2} /\ list[1] = a /\ list[2] = b
    BY <1>5, SmallSets
  <2>2. ASSUME NEW h
        PROVE  /\ Value(h, {}) = x
               /\ Value(h, {1}) = op(h[{}], a)
               /\ Value(h, {2}) = op(h[{}], b)
               /\ Value(h, {1, 2}) = op(h[{1}], b)
    <3>1. {1} # {} /\ {2} # {} /\ {1, 2} # {}
      OBVIOUS
    <3>2. Largest({1}) = 1 /\ Largest({2}) = 2 /\ Largest({1, 2}) = 2
      BY SmallSets
    <3>3. {1} \ {1} = {} /\ {2} \ {2} = {} /\ {1, 2} \ {2} = {1}
      OBVIOUS
    <3>4. Value(h, {}) = x
      OBVIOUS
    <3>5. Value(h, {1}) = op(h[{1} \ {1}], list[1])
      BY <3>1, <3>2
    <3>6. Value(h, {2}) = op(h[{2} \ {2}], list[2])
      BY <3>1, <3>2
    <3>7. Value(h, {1, 2}) = op(h[{1, 2} \ {2}], list[2])
      BY <3>1, <3>2
    <3> HIDE DEF Value
    <3> QED BY <2>1, <3>3, <3>4, <3>5, <3>6, <3>7
  <2> DEFINE T == {{}, {1}, {2}, {1, 2}}
             v(t) == IF t = {} THEN x ELSE IF t = {1} THEN op(x, a)
                     ELSE IF t = {2} THEN op(x, b) ELSE op(op(x, a), b)
             g == [t \in T |-> v(t)]
  <2>3. g[{}] = x /\ g[{1}] = op(x, a) /\ g[{2}] = op(x, b) /\ g[{1, 2}] = op(op(x, a), b)
    BY SmallSets
  <2>4. g = [t \in T |-> g[t]] /\ SUBSET DOMAIN list = T
    <3>1. SUBSET DOMAIN list = T
      BY <2>1, SmallSets
    <3> HIDE DEF v, T
    <3>2. g = [t \in T |-> g[t]]
      OBVIOUS
    <3> QED BY <3>1, <3>2
  <2> HIDE DEF g, Value
  <2>5. \A t \in T : g[t] = Value(g, t)
    <3>1. /\ g[{}] = Value(g, {}) /\ g[{1}] = Value(g, {1})
          /\ g[{2}] = Value(g, {2}) /\ g[{1, 2}] = Value(g, {1, 2})
      BY <2>2, <2>3
    <3> QED BY <3>1
  <2>6. \A t \in T : iter[t] = Value(iter, t)
    <3> HIDE DEF T
    <3> QED BY <1>2, <2>4, <2>5
  <2>7. /\ iter[{}] = Value(iter, {}) /\ iter[{1}] = Value(iter, {1})
        /\ iter[{1, 2}] = Value(iter, {1, 2})
    BY <2>6
  <2>8. iter[{1, 2}] = op(op(x, a), b)
    BY <2>2, <2>7
  <2> QED BY <1>1, <2>1, <2>8
<1> QED BY <1>3, <1>4, <1>5 DEF op, list, r

\* Whether the analyzers are called.
Watching == Asked(subscribers, Inefficient)

Decomposing == Asked(subscribers, Decompose)

\* What the handlers work on, and the note that they leave at the key of an event.
Works == [pidStates : [AnalysedPools -> PidState], notes : [MemoryStateKey -> Note],
          written : Seq(MemoryRow \cup OperatorRow)]

JudgedNote(x, e, s, k) ==
    LET p   == AfterMemoryEvent(x.pidStates[e.pool], e)
        ids == Append(x.notes[k].apiId, p.apiId)
    IN  [apiId                |-> ids,
         inefficientType      |-> InefficientAnalysis(p, s.events, ids, x.notes[k].inefficientType),
         memscopeDefinedOwner |-> x.notes[k].memscopeDefinedOwner]

OwnedNote(note, e) ==
    [apiId                |-> note.apiId,
     inefficientType      |-> note.inefficientType,
     memscopeDefinedOwner |-> IF e.type = "MALLOC" THEN InitOwner(e.pool)
                              ELSE UpdateOwnerByAtenAccess(note.memscopeDefinedOwner, e.pool)]

NoteAfter(x, e, s, k) ==
    LET judged == IF Watching THEN JudgedNote(x, e, s, k) ELSE x.notes[k]
    IN  IF Decomposing /\ e.type # "FREE" THEN OwnedNote(judged, e) ELSE judged

PidAfter(x, e) == IF Watching THEN [x.pidStates EXCEPT ![e.pool] = AfterMemoryEvent(@, e)]
                  ELSE x.pidStates

\* What each handler does, by its own.
Handlers(x, e, s, k) ==
    /\ MemoryHandler(x, Inefficient, e, s, k) =
          [pidStates |-> [x.pidStates EXCEPT ![e.pool] = AfterMemoryEvent(@, e)],
           notes     |-> [x.notes EXCEPT ![k] = JudgedNote(x, e, s, k)],
           written   |-> x.written]
    /\ MemoryHandler(x, Decompose, e, s, k) =
          [pidStates |-> x.pidStates,
           notes     |-> [x.notes EXCEPT ![k] = OwnedNote(x.notes[k], e)],
           written   |-> x.written]
    /\ MemoryHandler(x, "DUMP", e, s, k) =
          [pidStates |-> x.pidStates, notes |-> x.notes,
           written   |-> x.written \o DumpMemoryState(s, x.notes[k])]

LEMMA HandlersOf ==
    ASSUME NEW x \in Works, NEW e, e.pool \in AnalysedPools, NEW s, NEW k \in MemoryStateKey
    PROVE  Handlers(x, e, s, k)
<1>1. /\ x = [pidStates |-> x.pidStates, notes |-> x.notes, written |-> x.written]
      /\ x.pidStates \in [AnalysedPools -> PidState] /\ x.notes \in [MemoryStateKey -> Note]
  BY DEF Works
<1> DEFINE n == x.notes[k]
           p == AfterMemoryEvent(x.pidStates[e.pool], e)
           ids == Append(n.apiId, p.apiId)
<1>2. n = [apiId |-> n.apiId, inefficientType |-> n.inefficientType,
           memscopeDefinedOwner |-> n.memscopeDefinedOwner]
  <2>1. n \in Note
    BY <1>1
  <2> HIDE DEF n
  <2> QED BY <2>1 DEF Note
<1>3. MemoryHandler(x, Inefficient, e, s, k) = InefficientHandleMemoryEvent(x, e, s, k)
  BY DEF MemoryHandler, Inefficient
<1>4. MemoryHandler(x, Decompose, e, s, k) = DecomposeHandleMemoryEvent(x, e, k)
  BY DEF MemoryHandler, Decompose
<1>5. MemoryHandler(x, "DUMP", e, s, k) = [x EXCEPT !.written = @ \o DumpMemoryState(s, x.notes[k])]
  BY DEF MemoryHandler
<1>6. InefficientHandleMemoryEvent(x, e, s, k) =
        [pidStates |-> [x.pidStates EXCEPT ![e.pool] = p],
         notes     |-> [x.notes EXCEPT ![k] = JudgedNote(x, e, s, k)],
         written   |-> x.written]
  <2> DEFINE y1 == [x EXCEPT !.pidStates[e.pool] = p]
             y2 == [y1 EXCEPT !.notes[k].apiId = ids]
             y3 == [y2 EXCEPT !.notes[k].inefficientType = InefficientAnalysis(p, s.events, ids, @)]
             m2 == [n EXCEPT !.apiId = ids]
  <2>1. InefficientHandleMemoryEvent(x, e, s, k) = y3
    BY DEF InefficientHandleMemoryEvent
  <2>2. /\ y1 = [pidStates |-> [x.pidStates EXCEPT ![e.pool] = p], notes |-> x.notes,
                 written |-> x.written]
    BY <1>1
  <2>3. m2 = [apiId |-> ids, inefficientType |-> n.inefficientType,
              memscopeDefinedOwner |-> n.memscopeDefinedOwner]
    <3> HIDE DEF n, ids
    <3> QED BY <1>2
  <2> HIDE DEF p, ids
  <2>4. y2 = [pidStates |-> [x.pidStates EXCEPT ![e.pool] = p],
              notes |-> [x.notes EXCEPT ![k] = m2], written |-> x.written]
    <3> HIDE DEF y1
    <3> QED BY <2>2
  <2> HIDE DEF y2, y1
  <2>5. y2.notes[k] = m2
    <3>1. DOMAIN x.notes = MemoryStateKey
      BY <1>1
    <3> HIDE DEF m2
    <3> QED BY <2>4, <3>1
  <2> HIDE DEF m2
  <2> DEFINE marks == InefficientAnalysis(p, s.events, ids, y2.notes[k].inefficientType)
             m3 == [m2 EXCEPT !.inefficientType = marks]
  <2>6. y3 = [pidStates |-> [x.pidStates EXCEPT ![e.pool] = p],
              notes |-> [y2.notes EXCEPT ![k] = m3], written |-> x.written]
    BY <2>4, <2>5
  <2> HIDE DEF y3
  <2>7. m3 = JudgedNote(x, e, s, k)
    <3>1. y2.notes[k].inefficientType = n.inefficientType
      BY <2>3, <2>5
    <3>2. JudgedNote(x, e, s, k) = [apiId |-> ids, inefficientType |-> marks,
                                    memscopeDefinedOwner |-> n.memscopeDefinedOwner]
      BY <3>1 DEF JudgedNote, p, ids
    <3> HIDE DEF marks, n
    <3> QED BY <2>3, <3>2
  <2> HIDE DEF m3
  <2>8. [y2.notes EXCEPT ![k] = m3] = [x.notes EXCEPT ![k] = m3]
    BY <1>1, <2>4
  <2> QED BY <1>1, <2>1, <2>6, <2>7, <2>8
<1>7. DecomposeHandleMemoryEvent(x, e, k) =
        [x EXCEPT !.notes = [x.notes EXCEPT ![k] = OwnedNote(x.notes[k], e)]]
  BY <1>1, <1>2 DEF DecomposeHandleMemoryEvent, OwnedNote
<1>8. MemoryHandler(x, Inefficient, e, s, k) =
        [pidStates |-> [x.pidStates EXCEPT ![e.pool] = AfterMemoryEvent(@, e)],
         notes     |-> [x.notes EXCEPT ![k] = JudgedNote(x, e, s, k)],
         written   |-> x.written]
  BY <1>1, <1>3, <1>6
<1>9. MemoryHandler(x, Decompose, e, s, k) =
                [pidStates |-> x.pidStates,
                 notes     |-> [x.notes EXCEPT ![k] = OwnedNote(x.notes[k], e)],
                 written   |-> x.written]
  BY <1>1, <1>4, <1>7
<1>10. MemoryHandler(x, "DUMP", e, s, k) =
                [pidStates |-> x.pidStates, notes |-> x.notes,
                 written   |-> x.written \o DumpMemoryState(s, x.notes[k])]
  BY <1>1, <1>5
<1> QED BY <1>8, <1>9, <1>10 DEF Handlers

\* The types of what the handlers compute.
LEMMA PidTypes ==
    ASSUME NEW p \in PidState
    PROVE  /\ ClassifyEventsTmp(p) \in PidState
           /\ \A b : HandleOpLaunchEvent(p, b) \in PidState
           /\ \A e : e.type \in EventTypes => AfterMemoryEvent(p, e) \in PidState
<1>1. \A q \in PidState : ClassifyEventsTmp(q) \in PidState
  BY DEF ClassifyEventsTmp, PidState
<1>2. \A b : HandleOpLaunchEvent(p, b) \in PidState
  <2>1. [p EXCEPT !.isOpStart = TRUE, !.apiId = @ + 1] \in PidState
    <3>1. p.apiId + 1 \in Nat
      BY DEF PidState
    <3>4. \A q \in PidState : [q EXCEPT !.isOpStart = TRUE] \in PidState
      BY DEF PidState
    <3>2. \A q \in PidState, n \in Nat : [q EXCEPT !.apiId = n] \in PidState
      BY DEF PidState
    <3>3. [p EXCEPT !.isOpStart = TRUE].apiId = p.apiId
      BY DEF PidState
    <3> QED BY <3>1, <3>2, <3>3, <3>4
  <2>2. \A q \in PidState : [q EXCEPT !.isOpStart = FALSE] \in PidState
    BY DEF PidState
  <2> QED BY <1>1, <2>1, <2>2 DEF HandleOpLaunchEvent
<1>3. ASSUME NEW e, e.type \in EventTypes PROVE AfterMemoryEvent(p, e) \in PidState
  <2>1. [p EXCEPT !.apiId = ApiOfEvent(p), !.apiTmp = @ \cup {e.type}] \in PidState
    <3>1. ApiOfEvent(p) \in Nat
      BY DEF ApiOfEvent, PidState
    <3>2. p.apiTmp \cup {e.type} \in SUBSET {"MALLOC", "ACCESS", "FREE"}
      BY <1>3 DEF PidState, EventTypes
    <3> QED BY <3>1, <3>2 DEF PidState
  <2> QED BY <1>1, <2>1 DEF AfterMemoryEvent
<1> QED BY <1>1, <1>2, <1>3

LEMMA MarkTypes ==
    ASSUME NEW p, NEW events, NEW ids, NEW marks \in Seq(Inefficiencies)
    PROVE  InefficientAnalysis(p, events, ids, marks) \in Seq(Inefficiencies)
<1>1. \A b : \A m \in Seq(Inefficiencies), x \in Inefficiencies : MarkedOnce(m, x, b) \in Seq(Inefficiencies)
  BY DEF MarkedOnce
<1> HIDE DEF Inefficiencies
<1>2. /\ "temporary_idleness" \in Inefficiencies /\ "early_allocation" \in Inefficiencies
      /\ "late_deallocation" \in Inefficiencies
  BY DEF Inefficiencies
<1> QED BY <1>1, <1>2 DEF InefficientAnalysis

LEMMA NoteTypes ==
    ASSUME NEW x \in Works, NEW e, e.pool \in AnalysedPools, e.type \in EventTypes, NEW s,
           NEW k \in MemoryStateKey
    PROVE  /\ JudgedNote(x, e, s, k) \in Note /\ NoteAfter(x, e, s, k) \in Note
           /\ \A note \in Note : OwnedNote(note, e) \in Note
           /\ PidAfter(x, e) \in [AnalysedPools -> PidState]
<1>1. x.notes[k] \in Note /\ x.pidStates[e.pool] \in PidState /\ x.pidStates \in [AnalysedPools -> PidState]
  BY DEF Works
<1>2. AfterMemoryEvent(x.pidStates[e.pool], e) \in PidState
  BY <1>1, PidTypes
<1>3. JudgedNote(x, e, s, k) \in Note
  <2> DEFINE p   == AfterMemoryEvent(x.pidStates[e.pool], e)
             ids == Append(x.notes[k].apiId, p.apiId)
  <2>1. p.apiId \in Nat
    BY <1>2 DEF PidState
  <2>2. ids \in Seq(Nat) /\ x.notes[k].inefficientType \in Seq(Inefficiencies)
        /\ x.notes[k].memscopeDefinedOwner \in Owners
    <3> HIDE DEF p
    <3> QED BY <1>1, <2>1 DEF Note
  <2>3. InefficientAnalysis(p, s.events, ids, x.notes[k].inefficientType) \in Seq(Inefficiencies)
    BY <2>2, MarkTypes
  <2> HIDE DEF p, ids
  <2> QED BY <2>2, <2>3 DEF JudgedNote, Note, p, ids
<1>4. ASSUME NEW note \in Note PROVE OwnedNote(note, e) \in Note
  <2>1. note.memscopeDefinedOwner \in Owners /\ note.apiId \in Seq(Nat)
        /\ note.inefficientType \in Seq(Inefficiencies)
    BY DEF Note
  <2>2. InitOwner(e.pool) \in Owners
    BY DEF InitOwner, Owners
  <2>3. UpdateOwnerByAtenAccess(note.memscopeDefinedOwner, e.pool) \in Owners
    <3>1. <<"PTA", aten>> \in Owners
      BY DEF Owners
    <3> QED BY <2>1, <3>1 DEF UpdateOwnerByAtenAccess
  <2> QED BY <2>1, <2>2, <2>3 DEF OwnedNote, Note
<1>5. NoteAfter(x, e, s, k) \in Note
  BY <1>1, <1>3, <1>4 DEF NoteAfter
<1>6. PidAfter(x, e) \in [AnalysedPools -> PidState]
  BY <1>1, <1>2 DEF PidAfter
<1> QED BY <1>3, <1>4, <1>5, <1>6

\* What Dump makes of a block.
LEMMA DumpedRows ==
    ASSUME NEW s \in MemoryState, NEW note \in Note
    PROVE  /\ DumpMemoryState(s, note) \in Seq(MemoryRow)
           /\ Len(DumpMemoryState(s, note)) = Len(s.events)
           /\ \A i \in 1 .. Len(s.events) :
                 LET r == DumpMemoryState(s, note)[i]
                 IN  /\ r \in MemoryRow /\ r.event = s.events[i] /\ r.event \in MemoryEvent
                     /\ r.allocationId = s.allocationId
                     /\ r.event.type = "MALLOC" => /\ r.verdicts = note.inefficientType
                                                   /\ r.owner = note.memscopeDefinedOwner
<1>1. s.events \in Seq(MemoryEvent) /\ s.allocationId \in Nat
  BY DEF MemoryState
<1>2. note.inefficientType \in Seq(Inefficiencies) /\ note.memscopeDefinedOwner \in Owners
  BY DEF Note
<1>3. NoOwner \in Owners /\ << >> \in Seq(Inefficiencies)
  <2>1. "" \in {"", "PTA", "ATB"} /\ noClass \in Classes \cup {noClass, aten}
    OBVIOUS
  <2>2. NoOwner \in Owners
    BY <2>1 DEF NoOwner, Owners
  <2> QED BY <2>2
<1> DEFINE Made(i) ==
             LET isMalloc == s.events[i].type = "MALLOC"
             IN  [event        |-> s.events[i],
                  allocationId |-> s.allocationId,
                  verdicts     |-> IF isMalloc THEN note.inefficientType ELSE << >>,
                  owner        |-> IF isMalloc THEN note.memscopeDefinedOwner ELSE NoOwner]
           rows == DumpMemoryState(s, note)
<1>4. ASSUME NEW i \in 1 .. Len(s.events)
      PROVE  /\ Made(i) \in MemoryRow /\ Made(i).event = s.events[i] /\ s.events[i] \in MemoryEvent
             /\ Made(i).allocationId = s.allocationId
             /\ s.events[i].type = "MALLOC" => /\ Made(i).verdicts = note.inefficientType
                                           /\ Made(i).owner = note.memscopeDefinedOwner
  <2>1. s.events[i] \in MemoryEvent
    BY <1>1
  <2> QED BY <1>1, <1>2, <1>3, <2>1 DEF MemoryRow
<1>5. rows = [i \in 1 .. Len(s.events) |-> Made(i)]
  BY DEF DumpMemoryState
<1> HIDE DEF Made, rows
<1>6. Len(s.events) \in Nat
  BY <1>1
<1>7. rows \in Seq(MemoryRow) /\ Len(rows) = Len(s.events)
  BY <1>4, <1>5, <1>6
<1>8. \A i \in 1 .. Len(s.events) : rows[i] = Made(i)
  BY <1>5
<1>9. ASSUME NEW i \in 1 .. Len(s.events)
      PROVE  LET r == rows[i]
                 IN  /\ r \in MemoryRow /\ r.event = s.events[i] /\ r.event \in MemoryEvent
                     /\ r.allocationId = s.allocationId
                     /\ r.event.type = "MALLOC" => /\ r.verdicts = note.inefficientType
                                                   /\ r.owner = note.memscopeDefinedOwner
  BY <1>4, <1>8
<1> QED BY <1>7, <1>9 DEF rows

\* The lists, by whether the analyzers are called.
LEMMA ListsOf ==
    ASSUME ListsOK(subscribers)
    PROVE  /\ \A t \in {"MALLOC", "ACCESS"} :
                 subscribers[t] \in
                    (IF Decomposing THEN IF Watching THEN {<<Decompose, Inefficient>>, <<Inefficient, Decompose>>}
                                         ELSE {<<Decompose>>}
                     ELSE IF Watching THEN {<<Inefficient>>} ELSE {<< >>})
           /\ subscribers["FREE"] = (IF Watching THEN <<Inefficient, "DUMP">> ELSE <<"DUMP">>)
           /\ subscribers["OP_LAUNCH"] = subscribers["FREE"]
           /\ subscribers["MEMORY_OWNER"] = (IF Decomposing THEN <<Decompose>> ELSE << >>)
<1>1. Watching <=> subscribers["FREE"] = <<Inefficient, "DUMP">>
  BY DEF ListsOK, Watching, Asked
<1>2. Decomposing <=> subscribers["MEMORY_OWNER"] = <<Decompose>>
  BY DEF ListsOK, Decomposing, Asked
<1>3. ASSUME NEW t \in {"MALLOC", "ACCESS"}
      PROVE  /\ Watching <=> Seqs!Contains(subscribers[t], Inefficient)
             /\ Decomposing <=> Seqs!Contains(subscribers[t], Decompose)
             /\ subscribers[t] \in OfBoth
  BY <1>1, <1>2 DEF ListsOK
<1>4. /\ subscribers["FREE"] \in {<<"DUMP">>, <<Inefficient, "DUMP">>}
      /\ subscribers["MEMORY_OWNER"] \in {<< >>, <<Decompose>>}
      /\ subscribers["OP_LAUNCH"] = subscribers["FREE"]
  BY DEF ListsOK
<1> HIDE DEF Watching, Decomposing
<1>5. ASSUME NEW t \in {"MALLOC", "ACCESS"}
      PROVE  subscribers[t] \in
                    (IF Decomposing THEN IF Watching THEN {<<Decompose, Inefficient>>, <<Inefficient, Decompose>>}
                                         ELSE {<<Decompose>>}
                     ELSE IF Watching THEN {<<Inefficient>>} ELSE {<< >>})
  <2> DEFINE list == subscribers[t]
  <2>1. list \in OfBoth /\ (Watching <=> Seqs!Contains(list, Inefficient))
        /\ (Decomposing <=> Seqs!Contains(list, Decompose))
    BY <1>3
  <2> HIDE DEF list
  <2>2. CASE list = << >>
    BY <2>1, <2>2, InBoth DEF list
  <2>3. CASE list = <<Decompose>>
    BY <2>1, <2>3, InBoth DEF list
  <2>4. CASE list = <<Inefficient>>
    BY <2>1, <2>4, InBoth DEF list
  <2>5. CASE list \in {<<Decompose, Inefficient>>, <<Inefficient, Decompose>>}
    BY <2>1, <2>5, InBoth DEF list
  <2> QED BY <2>1, <2>2, <2>3, <2>4, <2>5 DEF OfBoth
<1> QED BY <1>1, <1>2, <1>4, <1>5

\* All handlers of a memory event together.
LEMMA Dispatched ==
    ASSUME ListsOK(subscribers), NEW x \in Works, NEW e, e.pool \in AnalysedPools,
           e.type \in EventTypes, NEW s, NEW k \in MemoryStateKey
    PROVE  DispatchMemory(x, e.type, e, s, k) =
             [pidStates |-> PidAfter(x, e),
              notes     |-> [x.notes EXCEPT ![k] = NoteAfter(x, e, s, k)],
              written   |-> IF e.type = "FREE" THEN x.written \o DumpMemoryState(s, NoteAfter(x, e, s, k))
                            ELSE x.written]
<1> DEFINE op(y, id) == MemoryHandler(y, id, e, s, k)
           r == DispatchMemory(x, e.type, e, s, k)
           list == subscribers[e.type]
           judged == [pidStates |-> [x.pidStates EXCEPT ![e.pool] = AfterMemoryEvent(@, e)],
                      notes     |-> [x.notes EXCEPT ![k] = JudgedNote(x, e, s, k)],
                      written   |-> x.written]
           owned == [pidStates |-> x.pidStates,
                     notes     |-> [x.notes EXCEPT ![k] = OwnedNote(x.notes[k], e)],
                     written   |-> x.written]
<1>1. /\ list = << >> => r = x
      /\ \A a : list = <<a>> => r = op(x, a)
      /\ \A a, b : list = <<a, b>> => r = op(op(x, a), b)
  BY MemoryDispatched
<1>2. /\ x.notes \in [MemoryStateKey -> Note] /\ x.notes[k] \in Note
      /\ x.pidStates \in [AnalysedPools -> PidState] /\ x.pidStates[e.pool] \in PidState
      /\ x.written \in Seq(MemoryRow \cup OperatorRow)
      /\ x = [pidStates |-> x.pidStates, notes |-> x.notes, written |-> x.written]
  BY DEF Works
<1>3. op(x, Inefficient) = judged /\ op(x, Decompose) = owned
  <2>1. Handlers(x, e, s, k)
    BY HandlersOf
  <2> QED BY <2>1 DEF Handlers
<1>4. JudgedNote(x, e, s, k) \in Note /\ OwnedNote(x.notes[k], e) \in Note
      /\ AfterMemoryEvent(x.pidStates[e.pool], e) \in PidState
  BY <1>2, NoteTypes, PidTypes
<1>5. judged \in Works /\ owned \in Works
  BY <1>2, <1>4 DEF Works
<1>6. judged.notes[k] = JudgedNote(x, e, s, k) /\ owned.notes[k] = OwnedNote(x.notes[k], e)
      /\ owned.pidStates = x.pidStates
  BY <1>2
<1>7. op(judged, Decompose) = [pidStates |-> judged.pidStates,
                               notes |-> [x.notes EXCEPT ![k] = OwnedNote(JudgedNote(x, e, s, k), e)],
                               written |-> x.written]
  <2>1. op(judged, Decompose) = [pidStates |-> judged.pidStates,
                                 notes |-> [judged.notes EXCEPT ![k] = OwnedNote(judged.notes[k], e)],
                                 written |-> judged.written]
    <3>1. Handlers(judged, e, s, k)
      BY <1>5, HandlersOf
    <3> HIDE DEF judged
    <3> QED BY <3>1 DEF Handlers
  <2>2. [judged.notes EXCEPT ![k] = OwnedNote(judged.notes[k], e)]
          = [x.notes EXCEPT ![k] = OwnedNote(JudgedNote(x, e, s, k), e)]
    BY <1>2, <1>6
  <2> QED BY <2>1, <2>2
<1>8. op(owned, Inefficient) = op(judged, Decompose)
  <2>1. op(owned, Inefficient) = [pidStates |-> [x.pidStates EXCEPT ![e.pool] = AfterMemoryEvent(@, e)],
                                  notes |-> [owned.notes EXCEPT ![k] = JudgedNote(owned, e, s, k)],
                                  written |-> x.written]
    <3>1. Handlers(owned, e, s, k)
      BY <1>5, HandlersOf
    <3>2. owned.written = x.written
      OBVIOUS
    <3> HIDE DEF owned
    <3> QED BY <1>6, <3>1, <3>2 DEF Handlers
  <2>2. [owned.notes EXCEPT ![k] = JudgedNote(owned, e, s, k)]
          = [x.notes EXCEPT ![k] = JudgedNote(owned, e, s, k)]
    BY <1>2, <1>6
  <2>3. JudgedNote(owned, e, s, k) = OwnedNote(JudgedNote(x, e, s, k), e)
    <3> DEFINE n == x.notes[k]
               p == AfterMemoryEvent(x.pidStates[e.pool], e)
               ids == Append(n.apiId, p.apiId)
               marks == InefficientAnalysis(p, s.events, ids, n.inefficientType)
               o == OwnedNote(n, e)
    <3>1. o.apiId = n.apiId /\ o.inefficientType = n.inefficientType
      BY DEF OwnedNote
    <3>2. owned.notes[k] = o /\ owned.pidStates = x.pidStates
      BY <1>6
    <3> HIDE DEF owned, o
    <3>3. JudgedNote(owned, e, s, k) = [apiId |-> ids, inefficientType |-> marks,
                                        memscopeDefinedOwner |-> o.memscopeDefinedOwner]
      BY <3>1, <3>2 DEF JudgedNote
    <3>4. JudgedNote(x, e, s, k) = [apiId |-> ids, inefficientType |-> marks,
                                    memscopeDefinedOwner |-> n.memscopeDefinedOwner]
      BY DEF JudgedNote
    <3> HIDE DEF n, ids, marks, p
    <3> QED BY <3>3, <3>4 DEF OwnedNote, o
  <2> QED BY <1>7, <2>1, <2>2, <2>3
<1>9. op(x, "DUMP") = [pidStates |-> x.pidStates, notes |-> x.notes,
                       written |-> x.written \o DumpMemoryState(s, x.notes[k])]
  <2>1. Handlers(x, e, s, k)
    BY HandlersOf
  <2> QED BY <2>1 DEF Handlers
<1>10. op(judged, "DUMP") = [pidStates |-> judged.pidStates, notes |-> judged.notes,
                             written |-> x.written \o DumpMemoryState(s, JudgedNote(x, e, s, k))]
  <2>1. Handlers(judged, e, s, k)
    BY <1>5, HandlersOf
  <2>2. judged.written = x.written
    OBVIOUS
  <2> HIDE DEF judged
  <2> QED BY <1>6, <2>1, <2>2 DEF Handlers
<1>11. x.notes = [x.notes EXCEPT ![k] = x.notes[k]]
  BY <1>2
<1>12. x.pidStates = PidAfter(x, e) \/ Watching
  BY DEF PidAfter
<1>13. Watching => judged.pidStates = PidAfter(x, e)
  BY DEF PidAfter
<1> DEFINE n == NoteAfter(x, e, s, k)
<1>14. CASE e.type = "FREE"
  <2>1. list = (IF Watching THEN <<Inefficient, "DUMP">> ELSE <<"DUMP">>)
    BY <1>14, ListsOf
  <2>2. n = IF Watching THEN JudgedNote(x, e, s, k) ELSE x.notes[k]
    BY <1>14 DEF NoteAfter
  <2> HIDE DEF op, list, r, n
  <2>3. CASE Watching
    <3>1. r = op(judged, "DUMP")
      BY <1>1, <1>3, <2>1, <2>3
    <3>2. judged.notes = [x.notes EXCEPT ![k] = n]
      BY <2>2, <2>3
    <3> HIDE DEF judged
    <3> QED BY <1>10, <1>13, <1>14, <2>2, <2>3, <3>1, <3>2 DEF r, n
  <2>4. CASE ~Watching
    <3>1. r = op(x, "DUMP")
      BY <1>1, <2>1, <2>4
    <3> QED BY <1>9, <1>11, <1>12, <1>14, <2>2, <2>4, <3>1 DEF r, n
  <2> QED BY <2>3, <2>4
<1>15. CASE e.type # "FREE"
  <2>1. list \in (IF Decomposing THEN IF Watching THEN {<<Decompose, Inefficient>>, <<Inefficient, Decompose>>}
                                      ELSE {<<Decompose>>}
                  ELSE IF Watching THEN {<<Inefficient>>} ELSE {<< >>})
    <3>1. e.type \in {"MALLOC", "ACCESS"}
      BY <1>15 DEF EventTypes
    <3> QED BY <3>1, ListsOf
  <2>2. n = (LET m == IF Watching THEN JudgedNote(x, e, s, k) ELSE x.notes[k]
             IN  IF Decomposing THEN OwnedNote(m, e) ELSE m)
    BY <1>15 DEF NoteAfter
  <2> HIDE DEF op, list, r, n
  <2> SUFFICES r = [pidStates |-> PidAfter(x, e), notes |-> [x.notes EXCEPT ![k] = n],
                    written |-> x.written]
    BY <1>15 DEF r, n
  <2>3. CASE Watching /\ Decomposing
    <3>1. r = op(judged, Decompose)
      BY <1>1, <1>3, <1>8, <2>1, <2>3
    <3> HIDE DEF judged
    <3> QED BY <1>7, <1>13, <2>2, <2>3, <3>1
  <2>4. CASE Watching /\ ~Decomposing
    <3>1. r = judged
      BY <1>1, <1>3, <2>1, <2>4
    <3> QED BY <1>13, <2>2, <2>4, <3>1
  <2>5. CASE ~Watching /\ Decomposing
    <3>1. r = owned
      BY <1>1, <1>3, <2>1, <2>5
    <3> QED BY <1>12, <2>2, <2>5, <3>1
  <2>6. CASE ~Watching /\ ~Decomposing
    <3>1. r = x
      BY <1>1, <2>1, <2>6
    <3> QED BY <1>2, <1>11, <1>12, <2>2, <2>6, <3>1
  <2> QED BY <2>3, <2>4, <2>5, <2>6
<1> QED BY <1>14, <1>15

\* The blocks of a pool do not overlap, and the cache holds blocks that are in use, at
\* their own addresses.
Apart(b, c) == b = c \/ b.addr + b.size <= c.addr \/ c.addr + c.size <= b.addr

BlockOf(k) == [addr |-> k[2], size |-> states[k].size]

HeapOK ==
    /\ \A p \in AnalysedPools : \A b, c \in heap[p] : Apart(b, c)
    /\ \A k \in LiveKeys(states) : k[1] \in AnalysedPools /\ BlockOf(k) \in heap[k[1]]

CacheOK ==
    /\ IsFiniteSet(LiveKeys(states))
    /\ OwnAllocation(states, count)
    /\ ~tracing => LiveKeys(states) = {} /\ operators = {}
    /\ tracing /\ ~unwatched => Watching

BaseInv == TypeOK /\ ListsOK(subscribers) /\ CacheOK /\ HeapOK

\* The events that the actions make, and the state they find.
Legal(e) ==
    /\ e \in MemoryEvent /\ e.id = recordIndex + 1
    /\ e.pool \in AnalysedPools /\ e.device \in Devices /\ e.size \in Sizes
    /\ IF e.type = "MALLOC"
       THEN \A c \in heap[e.pool] : c.addr + c.size <= e.addr \/ e.addr + e.size <= c.addr
       ELSE [addr |-> e.addr, size |-> e.size] \in heap[e.pool]

\* An event goes to the key of its own address and is taken as it is.
LEMMA OwnKey ==
    ASSUME BaseInv, NEW e, Legal(e)
    PROVE  /\ Completed(states, e) = e /\ ~Refuses(states, e)
           /\ Receivers(states, e) = {KeyOf(e)} /\ ~CreatesDefault(states, e)
           /\ KeyOf(e) \in MemoryStateKey /\ KeyOf(e)[1] = e.pool /\ KeyOf(e)[2] = e.addr
           /\ e.type = "MALLOC" => states[KeyOf(e)] = NoState
<1>1. /\ e \in MemoryEvent /\ e.device \in Devices /\ e.pool \in AnalysedPools /\ e.pool # HAL
      /\ e.size \in Nat \ {0} /\ e.addr \in Nat /\ e.addr \in Addrs /\ e.pool \in Pools
  BY ManagerAssumption DEF Legal, MemoryEvent, AnalysedPools
<1>2. /\ KeyOf(e) = <<e.pool, e.addr>> /\ KeyOf(e) \in MemoryStateKey
      /\ KeyOf(e)[1] = e.pool /\ KeyOf(e)[2] = e.addr
  BY <1>1 DEF KeyOf, MemoryStateKey
<1>3. e.device # NA
  BY <1>1, ManagerAssumption
<1>4. Completed(states, e) = e
  <2>1. [e EXCEPT !.device = e.device, !.size = e.size] = e
    BY <1>1 DEF MemoryEvent
  <2> QED BY <1>1, <1>3, <2>1 DEF Completed
<1>5. ~CreatesDefault(states, e)
  BY <1>1 DEF CreatesDefault
<1>6. ASSUME NEW k \in LiveKeys(states), k[1] = e.pool
      PROVE  /\ BlockOf(k) \in heap[e.pool] /\ k \in MemoryStateKey
             /\ BlockOf(k).addr = k[2] /\ BlockOf(k).size = states[k].size
             /\ k[2] \in Nat /\ states[k].size \in Nat \ {0} /\ k = <<k[1], k[2]>>
  <2>1. BlockOf(k) \in heap[e.pool] /\ k \in MemoryStateKey
    BY <1>6 DEF BaseInv, HeapOK, LiveKeys
  <2>2. heap[e.pool] \subseteq [addr : Addrs, size : Sizes]
    BY <1>1 DEF BaseInv, TypeOK
  <2>3. BlockOf(k).addr = k[2] /\ BlockOf(k).size = states[k].size
    BY DEF BlockOf
  <2>4. k[2] \in Addrs /\ states[k].size \in Sizes
    <3> HIDE DEF BlockOf
    <3> QED BY <2>1, <2>2, <2>3
  <2>5. k[2] \in Nat /\ states[k].size \in Nat \ {0}
    BY <2>4, ManagerAssumption
  <2>6. k = <<k[1], k[2]>>
    BY <2>1 DEF MemoryStateKey
  <2> QED BY <2>1, <2>3, <2>5, <2>6
<1>7. e.type = "MALLOC" => states[KeyOf(e)] = NoState
  <2> SUFFICES ASSUME e.type = "MALLOC", KeyOf(e) \in LiveKeys(states) PROVE FALSE
    BY <1>2 DEF LiveKeys
  <2> DEFINE c == BlockOf(KeyOf(e))
  <2>1. c \in heap[e.pool] /\ c.addr = e.addr /\ c.size \in Nat \ {0}
    BY <1>2, <1>6
  <2>2. c.addr + c.size <= e.addr \/ e.addr + e.size <= c.addr
    BY <2>1 DEF Legal
  <2> QED BY <1>1, <2>1, <2>2
<1>8. e.type # "MALLOC" /\ states[KeyOf(e)] = NoState => Enclosing(states, e) = {}
  <2> SUFFICES ASSUME e.type # "MALLOC", states[KeyOf(e)] = NoState, NEW k \in Enclosing(states, e)
               PROVE  FALSE
    OBVIOUS
  <2>1. /\ k \in LiveKeys(states) /\ k[1] = e.pool /\ e.addr >= k[2]
        /\ e.addr + e.size <= k[2] + states[k].size
    BY DEF Enclosing, Contains
  <2> DEFINE b == [addr |-> e.addr, size |-> e.size]
  <2>2. b \in heap[e.pool] /\ b.addr = e.addr /\ b.size = e.size
    BY DEF Legal
  <2>3. BlockOf(k) \in heap[e.pool]
    BY <1>6, <2>1
  <2>4. Apart(b, BlockOf(k))
    BY <1>1, <2>2, <2>3 DEF BaseInv, HeapOK
  <2>5. k[2] \in Nat /\ states[k].size \in Nat \ {0} /\ k = <<k[1], k[2]>>
        /\ BlockOf(k).addr = k[2] /\ BlockOf(k).size = states[k].size
    BY <1>6, <2>1
  <2> HIDE DEF b
  <2>6. b = BlockOf(k)
    BY <1>1, <2>1, <2>2, <2>4, <2>5 DEF Apart
  <2>7. k = KeyOf(e)
    BY <1>2, <2>1, <2>2, <2>5, <2>6
  <2> QED BY <2>1, <2>7 DEF LiveKeys
<1>9. ~Refuses(states, e)
  BY <1>7 DEF Refuses
<1>10. Receivers(states, e) = {KeyOf(e)}
  BY <1>5, <1>8 DEF Receivers, FindStateInPool
<1> QED BY <1>2, <1>4, <1>5, <1>7, <1>9, <1>10

\* What EventHandler does with such an event.
Fresh(k) == states[k] = NoState

Noting(e) ==
    LET k == KeyOf(e)
        x == [pidStates |-> pidStates, notes |-> [notes EXCEPT ![k] = IF Fresh(k) THEN NewNote ELSE @],
              written |-> written]
    IN  NoteAfter(x, e, StateWith(states, count, e, k), k)

Handled(e) ==
    LET k == KeyOf(e)
        s == StateWith(states, count, e, k)
    IN  /\ count' = IF Fresh(k) THEN count + 1 ELSE count
        /\ pidStates' = PidAfter([pidStates |-> pidStates], e)
        /\ states' = [states EXCEPT ![k] = IF e.type = "FREE" THEN NoState ELSE s]
        /\ notes' = [notes EXCEPT ![k] = IF e.type = "FREE" THEN NewNote ELSE Noting(e)]
        /\ written' = IF e.type = "FREE" THEN written \o DumpMemoryState(s, Noting(e)) ELSE written

LEMMA HandledEvents ==
    ASSUME BaseInv, NEW e, Legal(e), HandleMemoryEvent(e)
    PROVE  Handled(e) /\ Noting(e) \in Note
<1> DEFINE k == KeyOf(e)
           added == Added(states, count, e, k)
           noted == [notes EXCEPT ![k] = IF states[k] = NoState THEN NewNote ELSE @]
           x == [pidStates |-> pidStates, notes |-> noted, written |-> written]
           result == DispatchMemory(x, e.type, e, added[k], k)
<1>1. /\ Completed(states, e) = e /\ ~Refuses(states, e)
      /\ Receivers(states, e) = {k} /\ ~CreatesDefault(states, e) /\ k \in MemoryStateKey
  BY OwnKey
<1>2. [Working(written) EXCEPT !.notes = noted] = x
  BY DEF Working
<1> HIDE DEF k
<1>3. /\ count' = CountAfter(states, count, e, k)
      /\ pidStates' = result.pidStates
      /\ written' = result.written
      /\ IF e.type = "FREE"
         THEN /\ states' = Deleted(added, k)
              /\ notes' = [result.notes EXCEPT ![k] = NewNote]
         ELSE /\ states' = added
              /\ notes' = result.notes
  <2>1. \E j \in Receivers(states, e) :
            LET a == Added(states, count, e, j)
                n == [notes EXCEPT ![j] = IF states[j] = NoState THEN NewNote ELSE @]
                res == DispatchMemory([Working(written) EXCEPT !.notes = n], e.type, e, a[j], j)
            IN  /\ count' = CountAfter(states, count, e, j)
                /\ pidStates' = res.pidStates
                /\ written' = res.written
                /\ IF e.type = "FREE"
                   THEN /\ states' = Deleted(a, KeyOf(e))
                        /\ notes' = [res.notes EXCEPT ![KeyOf(e)] = NewNote]
                   ELSE /\ states' = a
                        /\ notes' = res.notes
    BY <1>1 DEF HandleMemoryEvent
  <2> HIDE DEF added, x, result
  <2> QED BY <1>1, <1>2, <2>1 DEF added, x, result, k
<1>4. added[k] = StateWith(states, count, e, k) /\ states \in StatesMap
      /\ Deleted(added, k) = [states EXCEPT ![k] = NoState]
  <2>1. states \in [MemoryStateKey -> MemoryState \cup {NoState}] /\ states \in StatesMap
    BY DEF BaseInv, TypeOK, StatesMap
  <2> QED BY <1>1, <2>1 DEF Added, Deleted
<1>5. x \in Works
  <2>1. NewNote \in Note
    <3>1. << >> \in Seq(Nat) /\ << >> \in Seq(Inefficiencies)
      OBVIOUS
    <3>2. "" \in {"", "PTA", "ATB"} /\ noClass \in Classes \cup {noClass, aten}
      OBVIOUS
    <3>3. NoOwner \in Owners
      BY <3>2 DEF NoOwner, Owners
    <3> QED BY <3>1, <3>3 DEF NewNote, Note
  <2>2. noted \in [MemoryStateKey -> Note]
    BY <2>1 DEF BaseInv, TypeOK
  <2> QED BY <2>2 DEF Works, BaseInv, TypeOK
<1>6. e.pool \in AnalysedPools /\ e.type \in EventTypes
  BY DEF Legal, MemoryEvent
<1> DEFINE n == NoteAfter(x, e, added[k], k)
<1>7. result = [pidStates |-> PidAfter(x, e),
                notes     |-> [x.notes EXCEPT ![k] = n],
                written   |-> IF e.type = "FREE" THEN x.written \o DumpMemoryState(added[k], n)
                              ELSE x.written]
  <2> HIDE DEF x, added
  <2>1. ListsOK(subscribers)
    BY DEF BaseInv
  <2> QED BY <1>1, <1>5, <1>6, <2>1, Dispatched
<1>8. n \in Note
  BY <1>1, <1>5, <1>6, NoteTypes
<1>9. Noting(e) = n
  BY <1>4 DEF Noting, Fresh, k
<1>10. PidAfter(x, e) = PidAfter([pidStates |-> pidStates], e)
  BY DEF PidAfter
<1>11. x.notes = noted /\ x.written = written
  OBVIOUS
<1>12. CountAfter(states, count, e, k) = IF Fresh(k) THEN count + 1 ELSE count
  BY <1>1 DEF CountAfter, Fresh
<1>13. /\ [noted EXCEPT ![k] = n] = [notes EXCEPT ![k] = n]
       /\ [[noted EXCEPT ![k] = n] EXCEPT ![k] = NewNote] = [notes EXCEPT ![k] = NewNote]
  BY <1>1 DEF BaseInv, TypeOK
<1> HIDE DEF n, x, noted, result
<1>14. /\ pidStates' = PidAfter(x, e)
       /\ written' = IF e.type = "FREE" THEN written \o DumpMemoryState(added[k], n) ELSE written
       /\ result.notes = [noted EXCEPT ![k] = n]
  BY <1>3, <1>7, <1>11
<1>15. notes' = [notes EXCEPT ![k] = IF e.type = "FREE" THEN NewNote ELSE n]
  BY <1>3, <1>13, <1>14
<1>16. states' = [states EXCEPT ![k] = IF e.type = "FREE" THEN NoState ELSE added[k]]
  BY <1>3, <1>4 DEF Added
<1>17. count' = IF Fresh(k) THEN count + 1 ELSE count
  BY <1>3, <1>12
<1>18. Handled(e)
  <2> HIDE DEF added
  <2> QED BY <1>4, <1>9, <1>10, <1>14, <1>15, <1>16, <1>17 DEF Handled, k
<1> QED BY <1>8, <1>9, <1>18

\* The rows of a cached block, and what the output is while the cache is written.
DumpAt(k) == DumpMemoryState(states[k], notes[k])

From(w) ==
    /\ w \in Seq(MemoryRow \cup OperatorRow)
    /\ Len(written) <= Len(w) /\ \A i \in 1 .. Len(written) : w[i] = written[i]
    /\ \A i \in Len(written) + 1 .. Len(w) :
          \E k \in LiveKeys(states) : \E j \in 1 .. Len(states[k].events) : w[i] = DumpAt(k)[j]

IsIn(w, k) ==
    \A j \in 1 .. Len(states[k].events) :
        \E i \in Len(written) + 1 .. Len(w) : w[i] = DumpAt(k)[j]

LEMMA RowsAdded ==
    ASSUME BaseInv, NEW w, From(w), NEW k \in LiveKeys(states)
    PROVE  /\ From(w \o DumpAt(k)) /\ IsIn(w \o DumpAt(k), k)
           /\ \A l : IsIn(w, l) => IsIn(w \o DumpAt(k), l)
<1> DEFINE rows == DumpAt(k)
           v == w \o rows
           n == Len(states[k].events)
<1>1. k \in MemoryStateKey /\ states[k] \in MemoryState /\ notes[k] \in Note
  <2>1. states \in StatesMap
    BY DEF BaseInv, TypeOK
  <2>2. k \in MemoryStateKey /\ states[k] \in MemoryState
    BY <2>1, LiveState
  <2> QED BY <2>2 DEF BaseInv, TypeOK
<1>2. rows \in Seq(MemoryRow) /\ Len(rows) = n /\ n \in Nat
  <2>1. states[k].events \in Seq(MemoryEvent)
    BY <1>1 DEF MemoryState
  <2> QED BY <1>1, <2>1, DumpedRows DEF DumpAt
<1>3. rows \in Seq(MemoryRow \cup OperatorRow) /\ w \in Seq(MemoryRow \cup OperatorRow)
  BY <1>2 DEF From
<1>4. Len(w) \in Nat /\ Len(written) \in Nat /\ Len(written) <= Len(w)
  BY <1>3 DEF From, BaseInv, TypeOK
<1> DEFINE S == MemoryRow \cup OperatorRow
<1> HIDE DEF rows, n, S
<1>5. v \in Seq(S) /\ Len(v) = Len(w) + n
      /\ \A i \in 1 .. Len(w) + n : v[i] = IF i <= Len(w) THEN w[i] ELSE rows[i - Len(w)]
  <2>1. rows \in Seq(S) /\ w \in Seq(S)
    BY <1>3 DEF S
  <2> QED BY <1>2, <2>1, ConcatProperties
<1> HIDE DEF v
<1>6. From(v)
  <2>1. \A i \in 1 .. Len(written) : v[i] = written[i]
    BY <1>2, <1>4, <1>5 DEF From
  <2>2. ASSUME NEW i \in Len(written) + 1 .. Len(v)
        PROVE  \E l \in LiveKeys(states) : \E j \in 1 .. Len(states[l].events) : v[i] = DumpAt(l)[j]
    <3>1. CASE i <= Len(w)
      <4>1. i \in Len(written) + 1 .. Len(w) /\ v[i] = w[i]
        BY <1>2, <1>4, <1>5, <3>1
      <4> QED BY <4>1 DEF From
    <3>2. CASE i > Len(w)
      <4>1. i - Len(w) \in 1 .. n /\ v[i] = rows[i - Len(w)]
        BY <1>2, <1>4, <1>5, <3>2
      <4> QED BY <4>1 DEF n, rows
    <3> QED BY <1>4, <3>1, <3>2
  <2>3. Len(written) <= Len(v)
    BY <1>2, <1>4, <1>5
  <2> QED BY <1>5, <2>1, <2>2, <2>3 DEF From, S
<1>7. IsIn(v, k)
  <2> SUFFICES ASSUME NEW j \in 1 .. n
               PROVE  \E i \in Len(written) + 1 .. Len(v) : v[i] = rows[j]
    BY DEF IsIn, n, rows
  <2>1. Len(w) + j \in Len(written) + 1 .. Len(v) /\ v[Len(w) + j] = rows[j]
    BY <1>2, <1>4, <1>5
  <2> QED BY <2>1
<1>8. ASSUME NEW l, IsIn(w, l) PROVE IsIn(v, l)
  <2> SUFFICES ASSUME NEW j \in 1 .. Len(states[l].events)
               PROVE  \E i \in Len(written) + 1 .. Len(v) : v[i] = DumpAt(l)[j]
    BY DEF IsIn
  <2>1. PICK i \in Len(written) + 1 .. Len(w) : w[i] = DumpAt(l)[j]
    BY <1>8 DEF IsIn
  <2>2. i \in Len(written) + 1 .. Len(v) /\ v[i] = w[i]
    BY <1>2, <1>4, <1>5
  <2> QED BY <2>1, <2>2
<1> QED BY <1>6, <1>7, <1>8 DEF v, rows

LEMMA OneCleanedUp ==
    ASSUME BaseInv, NEW w, NEW k \in MemoryStateKey
    PROVE  CleanedUp(w, k) = w \o DumpAt(k)
<1> DEFINE x == Working(w)
           s == states[k]
<1>1. subscribers["CLEAN_UP"] = <<"DUMP">>
  BY DEF BaseInv, ListsOK
<1>2. DispatchMemory(x, "CLEAN_UP", s, s, k) = MemoryHandler(x, "DUMP", s, s, k)
  BY <1>1, MemoryDispatched
<1>3. MemoryHandler(x, "DUMP", s, s, k) = [x EXCEPT !.written = @ \o DumpMemoryState(s, x.notes[k])]
  BY DEF MemoryHandler
<1>4. x.notes = notes /\ x.written = w /\ [x EXCEPT !.written = w \o DumpAt(k)].written = w \o DumpAt(k)
  BY DEF Working
<1> QED BY <1>2, <1>3, <1>4 DEF CleanedUp, DumpAt

\* SetToSeq lists a finite set, every element of it, once.
LEMMA SequenceOfSet ==
    ASSUME NEW S, IsFiniteSet(S)
    PROVE  LET q == Seqs!SetToSeq(S)
           IN  /\ q \in Seq(S) /\ \A x \in S : \E i \in 1 .. Len(q) : q[i] = x
               /\ \A i, j \in 1 .. Len(q) : q[i] = q[j] => i = j
<1> DEFINE n == Cardinality(S)
           q == CHOOSE f \in [1 .. n -> S] : \A i, j \in DOMAIN f : f[i] = f[j] => i = j
<1>1. n \in Nat /\ ExistsBijection(1 .. n, S)
  BY FS_CardinalityType
<1>2. PICK f : f \in Bijection(1 .. n, S)
  BY <1>1 DEF ExistsBijection
<1>3. f \in [1 .. n -> S] /\ \A i, j \in DOMAIN f : f[i] = f[j] => i = j
  BY <1>2 DEF Bijection, Injection, IsInjective
<1>4. q \in [1 .. n -> S] /\ \A i, j \in DOMAIN q : q[i] = q[j] => i = j
  BY <1>3
<1>5. Seqs!SetToSeq(S) = q
  <2>1. Seqs!Cardinality(S) = Cardinality(S)
    BY DEF Seqs!Cardinality, Cardinality
  <2> QED BY <2>1 DEF Seqs!SetToSeq, Seqs!IsInjective
<1> HIDE DEF n, q
<1>6. q \in Seq(S) /\ Len(q) = n
  BY <1>1, <1>4
<1>7. q \in Injection(1 .. n, S)
  BY <1>4 DEF Injection, IsInjective
<1>8. IsFiniteSet(1 .. n) /\ Cardinality(1 .. n) = n
  BY <1>1, FS_Interval
<1>9. q \in Surjection(1 .. n, S)
  BY <1>7, <1>8, FS_Injection DEF n
<1>10. \A x \in S : \E i \in 1 .. n : q[i] = x
  BY <1>9 DEF Surjection
<1>11. \A i, j \in 1 .. n : q[i] = q[j] => i = j
  BY <1>4
<1> QED BY <1>5, <1>6, <1>10, <1>11

\* The cached blocks are written one after the other.
InTurn(n, keys, h) ==
    /\ n \in Nat /\ keys \in [1 .. n -> LiveKeys(states)]
    /\ \A k \in LiveKeys(states) : \E i \in 1 .. n : keys[i] = k
    /\ \A i, j \in 1 .. n : keys[i] = keys[j] => i = j
    /\ h \in [0 .. n -> {w \in Seq(MemoryRow \cup OperatorRow) : From(w)}]
    /\ h[0] = written /\ h[n] = written'
    /\ \A i \in 1 .. n : h[i] = h[i - 1] \o DumpAt(keys[i])

LEMMA CleanedInTurn ==
    ASSUME BaseInv, CleanUpAll
    PROVE  \E n, keys, h : InTurn(n, keys, h)
<1> DEFINE P == {w \in Seq(MemoryRow \cup OperatorRow) : From(w)}
           L == LiveKeys(states)
           keys == Seqs!SetToSeq(L)
           F == [x \in P \X L |-> x[1] \o DumpAt(x[2])]
           Iterates(g) == g = [t \in SUBSET (1 .. Len(keys)) |->
                                  IF t = {} THEN written
                                  ELSE CleanedUp(g[t \ {Largest(t)}], keys[Largest(t)])]
           iter == CHOOSE g : Iterates(g)
<1>1. \A w \in P, k \in L : w \o DumpAt(k) \in P
  <2>1. ASSUME NEW w \in P, NEW k \in L PROVE w \o DumpAt(k) \in P
    <3>1. From(w \o DumpAt(k))
      BY RowsAdded
    <3> QED BY <3>1 DEF From
  <2> QED BY <2>1
<1>2. written \in P
  <2>1. written \in Seq(MemoryRow \cup OperatorRow) /\ Len(written) \in Nat
    BY DEF BaseInv, TypeOK
  <2>2. Len(written) + 1 .. Len(written) = {}
    BY <2>1
  <2> QED BY <2>1, <2>2 DEF From
<1>3. /\ keys \in Seq(L) /\ \A k \in L : \E i \in 1 .. Len(keys) : keys[i] = k
      /\ \A i, j \in 1 .. Len(keys) : keys[i] = keys[j] => i = j
  <2>1. IsFiniteSet(L)
    BY DEF BaseInv, CacheOK
  <2> HIDE DEF L
  <2> QED BY <2>1, SequenceOfSet
<1>4. written' = iter[1 .. Len(keys)]
  <2>1. DOMAIN keys = 1 .. Len(keys)
    BY <1>3
  <2>2. written' = Seqs!FoldLeft(CleanedUp, written, keys)
    BY DEF CleanUpAll
  <2> HIDE DEF keys
  <2> QED BY <2>1, <2>2 DEF Seqs!FoldLeft, Seqs!MapThenFoldSet, Seqs!Max, Largest
<1>5. L \subseteq MemoryStateKey
  BY DEF LiveKeys
<1> HIDE DEF keys, P, L
<1>6. Len(keys) \in Nat /\ \A i \in 1 .. Len(keys) : keys[i] \in L
  BY <1>3
<1>7. F \in [P \X L -> P]
  BY <1>1
<1>8. \A w \in P, k \in L : F[<<w, k>>] = CleanedUp(w, k) /\ F[<<w, k>>] = w \o DumpAt(k)
  BY <1>5, OneCleanedUp
<1> HIDE DEF F
<1>9. PICK g : g \in [SUBSET (1 .. Len(keys)) -> P] /\ Unfolds(g, F, written, keys)
  BY <1>2, <1>3, <1>7, FoldExists
<1>10. ASSUME NEW t \in SUBSET (1 .. Len(keys)), t # {}
       PROVE  keys[Largest(t)] \in L /\ t \ {Largest(t)} \in SUBSET (1 .. Len(keys))
  <2>1. Largest(t) \in t
    BY <1>6, <1>10, LargestOf
  <2> QED BY <1>6, <2>1
<1>11. Iterates(g)
  <2>1. \A t \in SUBSET (1 .. Len(keys)) :
           g[t] = IF t = {} THEN written ELSE CleanedUp(g[t \ {Largest(t)}], keys[Largest(t)])
    BY <1>8, <1>9, <1>10 DEF Unfolds
  <2> QED BY <1>9, <2>1
<1>12. Iterates(iter)
  <2> HIDE DEF Iterates
  <2> QED BY <1>11
<1> HIDE DEF iter
<1>13. UnfoldsIn(P, iter, F, written, keys)
  BY <1>8, <1>10, <1>12 DEF UnfoldsIn
<1> HIDE DEF Iterates
<1>14. PICK h : RunsIn(P, h, F, written, keys, iter[1 .. Len(keys)])
  BY <1>2, <1>3, <1>7, <1>13, FoldSteps
<1> DEFINE n == Len(keys)
<1>15. h \in [0 .. n -> P] /\ h[0] = written /\ h[n] = written'
       /\ \A i \in 1 .. n : h[i] = h[i - 1] \o DumpAt(keys[i])
  <2>1. h \in [0 .. n -> P] /\ h[0] = written /\ h[n] = written'
        /\ \A i \in 1 .. n : h[i] = F[<<h[i - 1], keys[i]>>]
    BY <1>4, <1>14 DEF RunsIn
  <2>2. \A i \in 1 .. n : i - 1 \in 0 .. n
    BY <1>6
  <2> QED BY <1>6, <1>8, <2>1, <2>2
<1>16. keys \in [1 .. n -> L]
  BY <1>3
<1>17. InTurn(n, keys, h)
  <2> HIDE DEF n
  <2>1. n \in Nat
    BY <1>6 DEF n
  <2> QED BY <1>3, <1>15, <1>16, <2>1 DEF InTurn, P, L, n
<1> QED BY <1>17

\* All cached blocks are written, and nothing else.
LEMMA AllCleanedUp ==
    ASSUME BaseInv, CleanUpAll
    PROVE  From(written') /\ \A k \in LiveKeys(states) : IsIn(written', k)
<1> DEFINE P == {w \in Seq(MemoryRow \cup OperatorRow) : From(w)}
           L == LiveKeys(states)
<1>1. PICK n, keys, h : InTurn(n, keys, h)
  BY CleanedInTurn
<1> HIDE DEF P, L
<1>3. \A k \in L : \E i \in 1 .. n : keys[i] = k
  BY <1>1 DEF InTurn, L
<1>6. n \in Nat /\ \A i \in 1 .. n : keys[i] \in L
  BY <1>1 DEF InTurn, L
<1>15. h \in [0 .. n -> P] /\ h[n] = written' /\ \A i \in 1 .. n : h[i] = h[i - 1] \o DumpAt(keys[i])
  BY <1>1 DEF InTurn, P
<1> DEFINE Q == {m \in 0 .. n : \A i \in 1 .. m : IsIn(h[m], keys[i])}
<1>16. n \in Q
  <2>1. 0 \in Q
    BY <1>6
  <2>2. ASSUME NEW m \in 1 .. n, m - 1 \in Q PROVE m \in Q
    <3> DEFINE w == h[m - 1]
    <3>0. m - 1 \in 0 .. n
      BY <1>6
    <3>1. w \in P /\ From(w) /\ h[m] = w \o DumpAt(keys[m]) /\ keys[m] \in LiveKeys(states)
      <4>1. w \in P /\ h[m] = w \o DumpAt(keys[m])
        BY <1>15, <3>0
      <4> QED BY <1>6, <4>1 DEF P, L
    <3>2. \A i \in 1 .. m - 1 : IsIn(w, keys[i])
      BY <2>2
    <3> HIDE DEF w
    <3>3. IsIn(h[m], keys[m]) /\ \A l : IsIn(w, l) => IsIn(h[m], l)
      BY <3>1, RowsAdded
    <3>4. m \in 0 .. n /\ \A i \in 1 .. m : i = m \/ i \in 1 .. m - 1
      BY <1>6
    <3> QED BY <3>2, <3>3, <3>4
  <2> HIDE DEF Q
  <2> QED BY <1>6, <2>1, <2>2, InductionTo
<1>17. From(written')
  <2>1. n \in 0 .. n
    BY <1>6
  <2>2. written' \in P
    BY <1>15, <2>1
  <2> QED BY <2>2 DEF P
<1> QED BY <1>3, <1>15, <1>16, <1>17 DEF L

\* The API of the next record of a pool.
ApiOfNext(p) == IF p \in operators THEN api[p] ELSE api[p] + 1

\* A memory event, recorded and handled.
BlockIn(e) == [addr |-> e.addr, size |-> e.size]

Reported(e) ==
    /\ tracing /\ Legal(e) /\ Handled(e) /\ Noting(e) \in Note
    /\ recordIndex' = recordIndex + 1
    /\ apiOf' = Append(apiOf, ApiOfNext(e.pool))
    /\ api' = [api EXCEPT ![e.pool] = ApiOfNext(e.pool)]
    /\ heap' = [heap EXCEPT ![e.pool] = IF e.type = "MALLOC" THEN @ \cup {BlockIn(e)}
                                        ELSE IF e.type = "FREE" THEN @ \ {BlockIn(e)} ELSE @]
    /\ operators' = operators /\ NoCall

\* What the application does while nothing is recorded.
Unreported ==
    /\ ~tracing
    /\ heap' \in [AnalysedPools -> SUBSET [addr : Addrs, size : Sizes]]
    /\ \A p \in AnalysedPools : \A b, c \in heap'[p] : Apart(b, c)
    /\ UNCHANGED <<operators, tracing, exited, subscribers, pidStates, states, count, notes,
                   recordIndex, written, api, apiOf, unwatched, calls>>

LEMMA MemoryReports ==
    ASSUME BaseInv, NEW p \in AnalysedPools, NEW b \in BlocksOf[p], NEW d \in Devices,
           PoolMalloc(p, b, d) \/ PoolFree(p, b, d) \/ MemAccess(p, b, d)
    PROVE  (\E e : Reported(e)) \/ Unreported
<1>1. /\ b \in [addr : Addrs, size : Sizes] /\ p \in Pools
      /\ heap \in [AnalysedPools -> SUBSET [addr : Addrs, size : Sizes]]
      /\ api \in [AnalysedPools -> Nat] /\ recordIndex \in Nat
  BY AnalysisAssumption DEF AnalysedPools, BaseInv, TypeOK
<1>2. b = [addr |-> b.addr, size |-> b.size] /\ b.addr \in Addrs /\ b.size \in Sizes
  BY <1>1
<1> DEFINE type == IF PoolMalloc(p, b, d) THEN "MALLOC" ELSE IF PoolFree(p, b, d) THEN "FREE" ELSE "ACCESS"
           e == [id |-> recordIndex + 1, type |-> type, pool |-> p, addr |-> b.addr, size |-> b.size,
                 device |-> d]
<1>3. /\ ReportMemory(type, p, b, b.size, d) /\ NoCall /\ operators' = operators
      /\ heap' = [heap EXCEPT ![p] = IF type = "MALLOC" THEN @ \cup {b}
                                     ELSE IF type = "FREE" THEN @ \ {b} ELSE @]
      /\ IF type = "MALLOC"
         THEN \A c \in heap[p] : c.addr + c.size <= b.addr \/ b.addr + b.size <= c.addr
         ELSE b \in heap[p]
  <2>1. CASE PoolMalloc(p, b, d)
    BY <2>1 DEF PoolMalloc
  <2>2. CASE ~PoolMalloc(p, b, d) /\ PoolFree(p, b, d)
    BY <2>2 DEF PoolFree
  <2>3. CASE ~PoolMalloc(p, b, d) /\ ~PoolFree(p, b, d)
    <3>1. MemAccess(p, b, d) /\ type = "ACCESS"
      BY <2>3
    <3>2. heap = [heap EXCEPT ![p] = @]
      BY <1>1
    <3> QED BY <3>1, <3>2 DEF MemAccess
  <2> QED BY <2>1, <2>2, <2>3
<1>4. type \in EventTypes
  BY DEF EventTypes
<1> HIDE DEF type
<1>5. /\ e \in MemoryEvent /\ e.id = recordIndex + 1 /\ e.pool = p /\ e.type = type
      /\ e.addr = b.addr /\ e.size = b.size /\ e.device = d
  BY <1>1, <1>2, <1>4 DEF MemoryEvent
<1>6. BlockIn(e) = b
  BY <1>2, <1>5 DEF BlockIn
<1>7. Legal(e)
  BY <1>2, <1>3, <1>5, <1>6 DEF Legal, BlockIn
<1>8. CASE tracing
  <2>1. HandleMemoryEvent(e) /\ Numbered(p, ApiOfNext(p))
    BY <1>3, <1>8 DEF ReportMemory, ApiOfNext
  <2> HIDE DEF e
  <2>2. Handled(e) /\ Noting(e) \in Note
    BY <1>7, <2>1, HandledEvents
  <2>3. api' = [api EXCEPT ![p] = ApiOfNext(p)]
    <3>1. ApiOfNext(p) = 0 => api[p] = ApiOfNext(p)
      BY <1>1 DEF ApiOfNext
    <3> QED BY <2>1, <3>1 DEF Numbered
  <2>4. recordIndex' = recordIndex + 1 /\ apiOf' = Append(apiOf, ApiOfNext(p))
    BY <2>1 DEF Numbered
  <2>5. heap' = [heap EXCEPT ![e.pool] = IF e.type = "MALLOC" THEN @ \cup {BlockIn(e)}
                                         ELSE IF e.type = "FREE" THEN @ \ {BlockIn(e)} ELSE @]
    BY <1>3, <1>5, <1>6
  <2>6. Reported(e)
    BY <1>3, <1>5, <1>7, <1>8, <2>2, <2>3, <2>4, <2>5 DEF Reported
  <2> QED BY <2>6
<1>9. CASE ~tracing
  <2>1. UNCHANGED <<operators, tracing, exited, subscribers, pidStates, states, count, notes,
                    recordIndex, written, api, apiOf, unwatched, calls>>
    BY <1>3, <1>9 DEF ReportMemory, NoCall, Unswitched
  <2>2. heap' \in [AnalysedPools -> SUBSET [addr : Addrs, size : Sizes]]
    <3>1. \A S \in SUBSET [addr : Addrs, size : Sizes] :
             (IF type = "MALLOC" THEN S \cup {b} ELSE IF type = "FREE" THEN S \ {b} ELSE S)
               \in SUBSET [addr : Addrs, size : Sizes]
      BY <1>1
    <3> QED BY <1>1, <1>3, <3>1
  <2>3. ASSUME NEW q \in AnalysedPools, NEW x \in heap'[q], NEW y \in heap'[q] PROVE Apart(x, y)
    <3>1. /\ x \in heap[q] \/ (type = "MALLOC" /\ q = p /\ x = b)
          /\ y \in heap[q] \/ (type = "MALLOC" /\ q = p /\ y = b)
      BY <1>1, <1>3, <2>3
    <3>2. type = "MALLOC" => \A c \in heap[p] : Apart(b, c) /\ Apart(c, b)
      BY <1>3 DEF Apart
    <3>3. \A c, f \in heap[q] : Apart(c, f)
      BY DEF BaseInv, HeapOK
    <3>4. Apart(b, b)
      BY DEF Apart
    <3> QED BY <3>1, <3>2, <3>3, <3>4
  <2> QED BY <1>9, <2>1, <2>2, <2>3 DEF Unreported
<1> QED BY <1>8, <1>9

\* What such an event leaves in the cache.
LEMMA ReportedCache ==
    ASSUME BaseInv, NEW e, Reported(e)
    PROVE  LET k == KeyOf(e)
               s == StateWith(states, count, e, k)
           IN  /\ k \in MemoryStateKey /\ k[1] = e.pool /\ k[2] = e.addr
               /\ s \in MemoryState
               /\ states' \in StatesMap /\ count' \in Nat /\ count' >= count
               /\ \A j \in MemoryStateKey \ {k} : states'[j] = states[j] /\ notes'[j] = notes[j]
               /\ states'[k] = (IF e.type = "FREE" THEN NoState ELSE s)
               /\ LiveKeys(states') = (IF e.type = "FREE" THEN LiveKeys(states) \ {k}
                                      ELSE LiveKeys(states) \cup {k})
               /\ OwnAllocation(states', count')
               /\ s.allocationId \in 1 .. count'
               /\ \A j \in LiveKeys(states) \ {k} : states[j].allocationId # s.allocationId
               /\ Fresh(k) => s.events = <<e>> /\ s.size = e.size /\ s.allocationId = count + 1
               /\ ~Fresh(k) => s.events = Append(states[k].events, e) /\ s.size = states[k].size
                               /\ s.allocationId = states[k].allocationId
<1> DEFINE k == KeyOf(e)
           s == StateWith(states, count, e, k)
<1>1. /\ Receivers(states, e) = {k} /\ ~CreatesDefault(states, e)
      /\ k \in MemoryStateKey /\ k[1] = e.pool /\ k[2] = e.addr
  BY OwnKey DEF Reported
<1>2. /\ states \in StatesMap /\ count \in Nat /\ OwnAllocation(states, count)
      /\ e \in MemoryEvent /\ notes \in [MemoryStateKey -> Note]
  BY DEF BaseInv, TypeOK, CacheOK, Reported, Legal
<1>3. /\ count' = (IF Fresh(k) THEN count + 1 ELSE count)
      /\ states' = [states EXCEPT ![k] = IF e.type = "FREE" THEN NoState ELSE s]
      /\ notes' = [notes EXCEPT ![k] = IF e.type = "FREE" THEN NewNote ELSE Noting(e)]
  BY DEF Reported, Handled
<1> HIDE DEF k, s
<1>4. s \in MemoryState /\ s # NoState
  <2>1. s \in MemoryState
    BY <1>1, <1>2, StateWithEvent DEF s
  <2> QED BY <2>1, NoStateAssumption
<1>5. /\ states' \in StatesMap
      /\ \A j \in MemoryStateKey \ {k} : states'[j] = states[j] /\ notes'[j] = notes[j]
      /\ states'[k] = (IF e.type = "FREE" THEN NoState ELSE s)
  BY <1>1, <1>2, <1>3, <1>4 DEF StatesMap
<1>6. LiveKeys(states') = (IF e.type = "FREE" THEN LiveKeys(states) \ {k} ELSE LiveKeys(states) \cup {k})
  BY <1>1, <1>4, <1>5 DEF LiveKeys
<1>7. count' \in Nat /\ count' >= count
  BY <1>2, <1>3
<1>8. /\ Fresh(k) => s.events = <<e>> /\ s.size = e.size /\ s.allocationId = count + 1
      /\ ~Fresh(k) => s.events = Append(states[k].events, e) /\ s.size = states[k].size
                      /\ s.allocationId = states[k].allocationId
  <2>1. ~Fresh(k) => states[k] \in MemoryState
    BY <1>1, <1>2 DEF StatesMap, Fresh
  <2> QED BY <1>1, <2>1 DEF s, StateWith, Fresh, MemoryState
<1>9. \A j \in LiveKeys(states) : states[j].allocationId \in 1 .. count
  BY <1>2 DEF OwnAllocation
<1>10. \A j \in LiveKeys(states) \ {k} : states[j].allocationId # s.allocationId
  <2>1. CASE Fresh(k)
    BY <1>2, <1>8, <1>9, <2>1
  <2>2. CASE ~Fresh(k)
    <3>1. k \in LiveKeys(states)
      BY <1>1, <2>2 DEF LiveKeys, Fresh
    <3> QED BY <1>2, <1>8, <2>2, <3>1 DEF OwnAllocation
  <2> QED BY <2>1, <2>2
<1>11. s.allocationId \in 1 .. count'
  <2>1. CASE Fresh(k)
    BY <1>2, <1>3, <1>8, <2>1
  <2>2. CASE ~Fresh(k)
    <3>1. k \in LiveKeys(states)
      BY <1>1, <2>2 DEF LiveKeys, Fresh
    <3> QED BY <1>3, <1>8, <1>9, <2>2, <3>1
  <2> QED BY <2>1, <2>2
<1>12. OwnAllocation(states', count')
  <2> SUFFICES ASSUME NEW j \in LiveKeys(states')
               PROVE  /\ states'[j].allocationId \in 1 .. count'
                      /\ \A l \in LiveKeys(states') : states'[j].allocationId = states'[l].allocationId => j = l
    BY DEF OwnAllocation
  <2>1. ASSUME NEW l \in LiveKeys(states')
        PROVE  \/ l # k /\ l \in LiveKeys(states) /\ states'[l] = states[l]
               \/ l = k /\ states'[l] = s
    <3>1. LiveKeys(states) \subseteq MemoryStateKey
      BY DEF LiveKeys
    <3>2. l # k => l \in LiveKeys(states)
      BY <1>6
    <3>3. l # k => states'[l] = states[l]
      BY <1>5, <3>1, <3>2
    <3>4. l = k => e.type # "FREE"
      BY <1>6
    <3>5. l = k => states'[l] = s
      BY <1>5, <3>4
    <3> QED BY <3>2, <3>3, <3>5
  <2>2. \A l \in LiveKeys(states) : states[l].allocationId \in 1 .. count'
    BY <1>2, <1>7, <1>9
  <2> QED BY <1>2, <1>10, <1>11, <2>1, <2>2 DEF OwnAllocation
<1> QED BY <1>1, <1>4, <1>5, <1>6, <1>7, <1>8, <1>10, <1>11, <1>12 DEF s, k

\* An operator's START or END.
Operated(p, type) ==
    LET e == [id |-> recordIndex + 1, type |-> type, pool |-> p]
    IN  /\ tracing /\ p \in AnalysedPools
        /\ (type = "START" /\ p \notin operators) \/ (type = "END" /\ p \in operators)
        /\ operators' = IF type = "START" THEN operators \cup {p} ELSE operators \ {p}
        /\ recordIndex' = recordIndex + 1
        /\ apiOf' = Append(apiOf, 0)
        /\ api' = [api EXCEPT ![p] = IF type = "START" THEN @ + 1 ELSE @]
        /\ pidStates' = IF Watching
                        THEN [pidStates EXCEPT ![p] = HandleOpLaunchEvent(@, type = "START")]
                        ELSE pidStates
        /\ written' = Append(written, [event |-> e])
        /\ UNCHANGED <<heap, states, count, notes>> /\ NoCall

LEMMA OperatorSteps ==
    ASSUME BaseInv, NEW p \in OperatorPools, OperatorStart(p) \/ OperatorEnd(p)
    PROVE  \E type \in {"START", "END"} : Operated(p, type)
<1>1. p \in AnalysedPools /\ api \in [AnalysedPools -> Nat]
      /\ pidStates \in [AnalysedPools -> PidState] /\ operators \subseteq AnalysedPools
  BY AnalysisAssumption DEF AnalysedPools, BaseInv, TypeOK
<1>2. ASSUME NEW type \in {"START", "END"},
             HandleOperatorEvent([id |-> recordIndex + 1, type |-> type, pool |-> p])
      PROVE  /\ pidStates' = (IF Watching
                              THEN [pidStates EXCEPT ![p] = HandleOpLaunchEvent(@, type = "START")]
                              ELSE pidStates)
             /\ written' = Append(written, [event |-> [id |-> recordIndex + 1, type |-> type, pool |-> p]])
             /\ UNCHANGED <<states, count, notes>>
  <2> DEFINE e == [id |-> recordIndex + 1, type |-> type, pool |-> p]
             x == Working(written)
             op(y, id) == OperatorHandler(y, id, e)
             r == DispatchOperator(x, e)
             y0 == [x EXCEPT !.pidStates[p] = HandleOpLaunchEvent(@, type = "START")]
  <2>1. pidStates' = r.pidStates /\ written' = r.written /\ UNCHANGED <<states, count, notes>>
    BY <1>2 DEF HandleOperatorEvent
  <2>2. /\ \A a : subscribers["OP_LAUNCH"] = <<a>> => r = op(x, a)
        /\ \A a, b : subscribers["OP_LAUNCH"] = <<a, b>> => r = op(op(x, a), b)
    BY OperatorDispatched
  <2>3. subscribers["OP_LAUNCH"] = (IF Watching THEN <<Inefficient, "DUMP">> ELSE <<"DUMP">>)
    BY ListsOf DEF BaseInv
  <2>4. x = [pidStates |-> pidStates, notes |-> notes, written |-> written]
    BY DEF Working
  <2>5. \A y : op(y, "DUMP") = [y EXCEPT !.written = Append(@, [event |-> e])]
    BY DEF OperatorHandler
  <2>6. op(x, Inefficient) = y0
    <3>1. e.pool = p /\ e.type = type
      OBVIOUS
    <3> HIDE DEF e, x
    <3> QED BY <3>1 DEF OperatorHandler, Inefficient
  <2>7. y0 = [pidStates |-> [pidStates EXCEPT ![p] = HandleOpLaunchEvent(@, type = "START")],
              notes |-> notes, written |-> written]
    BY <2>4
  <2> HIDE DEF op, x, r, y0, e
  <2>8. CASE Watching
    <3>1. r = op(y0, "DUMP")
      BY <2>2, <2>3, <2>6, <2>8
    <3>2. r = [y0 EXCEPT !.written = Append(@, [event |-> e])]
      BY <2>5, <3>1
    <3> QED BY <2>1, <2>7, <2>8, <3>2 DEF e
  <2>9. CASE ~Watching
    <3>1. r = op(x, "DUMP")
      BY <2>2, <2>3, <2>9
    <3>2. r = [x EXCEPT !.written = Append(@, [event |-> e])]
      BY <2>5, <3>1
    <3> QED BY <2>1, <2>4, <2>9, <3>2 DEF e
  <2> QED BY <2>8, <2>9
<1>3. PICK type \in {"START", "END"} : IF type = "START" THEN OperatorStart(p) ELSE OperatorEnd(p)
  <2>1. CASE OperatorStart(p)
    BY <2>1
  <2>2. CASE OperatorEnd(p)
    <3>1. "END" # "START"
      OBVIOUS
    <3> QED BY <2>2, <3>1
  <2> QED BY <2>1, <2>2
<1> DEFINE e == [id |-> recordIndex + 1, type |-> type, pool |-> p]
<1>4. HandleOperatorEvent(e) /\ NoCall /\ heap' = heap /\ tracing
      /\ recordIndex' = recordIndex + 1 /\ apiOf' = Append(apiOf, 0)
      /\ ((type = "START" /\ p \notin operators) \/ (type = "END" /\ p \in operators))
      /\ operators' = (IF type = "START" THEN operators \cup {p} ELSE operators \ {p})
      /\ api' = [api EXCEPT ![p] = IF type = "START" THEN @ + 1 ELSE @]
  <2>1. CASE type = "START"
    <3>1. OperatorStart(p)
      BY <1>3, <2>1
    <3>2. /\ tracing /\ p \notin operators /\ operators' = operators \cup {p}
          /\ recordIndex' = recordIndex + 1 /\ apiOf' = Append(apiOf, 0)
          /\ api' = [api EXCEPT ![p] = @ + 1] /\ heap' = heap /\ NoCall
      BY <3>1 DEF OperatorStart
    <3>3. HandleOperatorEvent([id |-> recordIndex + 1, type |-> "START", pool |-> p])
      BY <3>1 DEF OperatorStart
    <3>4. HandleOperatorEvent(e)
      BY <2>1, <3>3
    <3> HIDE DEF e
    <3>5. api' = [api EXCEPT ![p] = IF type = "START" THEN @ + 1 ELSE @]
      BY <2>1, <3>2
    <3>6. operators' = (IF type = "START" THEN operators \cup {p} ELSE operators \ {p})
      BY <2>1, <3>2
    <3>7. (type = "START" /\ p \notin operators) \/ (type = "END" /\ p \in operators)
      BY <2>1, <3>2
    <3> QED BY <3>2, <3>4, <3>5, <3>6, <3>7
  <2>2. CASE type = "END"
    <3>1. OperatorEnd(p) /\ type # "START"
      BY <1>3, <2>2
    <3>2. tracing
      BY <3>1 DEF OperatorEnd, BaseInv, CacheOK
    <3>3. api' = api /\ api = [api EXCEPT ![p] = @]
      BY <1>1, <3>1 DEF OperatorEnd, Numbered
    <3> QED BY <2>2, <3>1, <3>2, <3>3 DEF OperatorEnd, Numbered
  <2> QED BY <2>1, <2>2
<1>5. /\ pidStates' = (IF Watching
                       THEN [pidStates EXCEPT ![p] = HandleOpLaunchEvent(@, type = "START")]
                       ELSE pidStates)
      /\ written' = Append(written, [event |-> e])
      /\ UNCHANGED <<states, count, notes>>
  BY <1>2, <1>4
<1>6. Operated(p, type)
  BY <1>1, <1>4, <1>5 DEF Operated
<1> QED BY <1>6

\* The owner that the optimizer's hook reports.
Owned(k, class) ==
    /\ class \in Classes /\ k \in MemoryStateKey
    /\ notes' = IF states[k] = NoState \/ ~Decomposing THEN notes
                ELSE [notes EXCEPT ![k].memscopeDefinedOwner = UpdateOwner(@, class)]
    /\ calls' \in 0 .. MaxCalls
    /\ UNCHANGED <<heap, operators, tracing, exited, subscribers, pidStates, states, count,
                   recordIndex, written, api, apiOf, unwatched>>

LEMMA OwnerSteps ==
    ASSUME BaseInv, NEW b \in BlocksOf[PTA_CACHING], NEW class \in Classes, OptimizerStep(b, class)
    PROVE  Owned(<<PTA_CACHING, b.addr>>, class)
<1> DEFINE k == <<PTA_CACHING, b.addr>>
           x == Working(written)
           op(y, id) == OwnerHandler(y, k, class)
           r == DispatchOwner(x, k, class)
<1>1. k \in MemoryStateKey /\ calls' \in 0 .. MaxCalls
  <2>2. b \in heap[PTA_CACHING] /\ heap \in [AnalysedPools -> SUBSET [addr : Addrs, size : Sizes]]
    BY DEF OptimizerStep, BaseInv, TypeOK
  <2>3. PTA_CACHING \in Pools
    BY AnalysisAssumption
  <2>4. b \in [addr : Addrs, size : Sizes]
    BY <2>2, <2>3, AnalysisAssumption DEF AnalysedPools
  <2>5. calls \in 0 .. MaxCalls /\ calls < MaxCalls /\ calls' = calls + 1 /\ MaxCalls \in Nat
    BY AnalysisAssumption DEF OptimizerStep, Call, BaseInv, TypeOK
  <2> QED BY <2>3, <2>4, <2>5 DEF MemoryStateKey
<1>2. notes' = (IF states[k] = NoState \/ ~Decomposing THEN notes
                ELSE [notes EXCEPT ![k].memscopeDefinedOwner = UpdateOwner(@, class)])
  <2>1. notes' = IF states[k] = NoState THEN notes ELSE r.notes
    BY DEF OptimizerStep
  <2>2. /\ subscribers["MEMORY_OWNER"] = << >> => r = x
        /\ \A a : subscribers["MEMORY_OWNER"] = <<a>> => r = op(x, a)
    BY OwnerDispatched
  <2>3. subscribers["MEMORY_OWNER"] = (IF Decomposing THEN <<Decompose>> ELSE << >>)
    BY ListsOf DEF BaseInv
  <2>4. x = [pidStates |-> pidStates, notes |-> notes, written |-> written]
    BY DEF Working
  <2>5. \A a : op(x, a) = [x EXCEPT !.notes[k].memscopeDefinedOwner = UpdateOwner(@, class)]
    BY DEF OwnerHandler
  <2> HIDE DEF op, x, r, k
  <2>6. Decomposing => r.notes = [notes EXCEPT ![k].memscopeDefinedOwner = UpdateOwner(@, class)]
    <3> SUFFICES ASSUME Decomposing
                 PROVE  r.notes = [notes EXCEPT ![k].memscopeDefinedOwner = UpdateOwner(@, class)]
      OBVIOUS
    <3>1. r = [x EXCEPT !.notes[k].memscopeDefinedOwner = UpdateOwner(@, class)]
      BY <2>2, <2>3, <2>5
    <3> QED BY <2>4, <3>1
  <2>7. ~Decomposing => r.notes = notes
    BY <2>2, <2>3, <2>4
  <2> QED BY <2>1, <2>6, <2>7
<1> QED BY <1>1, <1>2 DEF Owned, OptimizerStep, Unswitched

\* A sweep of the cache, by start(), stop() or the end of the process.
Swept ==
    /\ CleanUpAll
    /\ From(written') /\ (\A k \in LiveKeys(states) : IsIn(written', k))
    /\ states' = EmptyMap /\ notes' = [k \in MemoryStateKey |-> NewNote]
    /\ operators = {} /\ tracing' \in BOOLEAN /\ exited' \in BOOLEAN
    /\ unwatched' = (unwatched \/ (tracing' /\ ~Watching))
    /\ calls' \in 0 .. MaxCalls
    /\ UNCHANGED <<heap, operators, subscribers, pidStates, count, recordIndex, apiOf, api>>

LEMMA Sweeps ==
    ASSUME BaseInv, Exit \/ \E new \in BOOLEAN : SetTraceStatus(new)
    PROVE  Swept
<1>1. CleanUpAll /\ operators = {}
  BY DEF Exit, SetTraceStatus
<1>2. From(written') /\ (\A k \in LiveKeys(states) : IsIn(written', k))
  BY <1>1, AllCleanedUp
<1>3. calls \in 0 .. MaxCalls /\ MaxCalls \in Nat /\ tracing \in BOOLEAN /\ exited \in BOOLEAN
      /\ unwatched \in BOOLEAN
  BY AnalysisAssumption DEF BaseInv, TypeOK
<1>4. tracing' \in BOOLEAN /\ exited' \in BOOLEAN /\ calls' \in 0 .. MaxCalls
      /\ unwatched' = (unwatched \/ (tracing' /\ ~Watching))
  <2>1. CASE Exit
    <3>1. exited' = TRUE /\ tracing' = tracing /\ calls' = calls /\ unwatched' = unwatched
      BY <2>1 DEF Exit
    <3>2. tracing /\ ~unwatched => Watching
      BY DEF BaseInv, CacheOK
    <3> QED BY <1>3, <3>1, <3>2
  <2>2. CASE \E new \in BOOLEAN : SetTraceStatus(new)
    <3>1. PICK new \in BOOLEAN : SetTraceStatus(new)
      BY <2>2
    <3>2. /\ calls < MaxCalls /\ calls' = calls + 1 /\ tracing' = new /\ exited' = exited
          /\ unwatched' = (unwatched \/ (new /\ ~Watching))
      BY <3>1 DEF SetTraceStatus, Call, Watching, Asked, Inefficient
    <3> QED BY <1>3, <3>2
  <2> QED BY <2>1, <2>2
<1> QED BY <1>1, <1>2, <1>4 DEF Swept, CleanUpAll

\* config() between two operators.
Reconfigured ==
    /\ ListsOK(subscribers') /\ operators = {}
    /\ calls' \in 0 .. MaxCalls
    /\ unwatched' = (unwatched \/ (tracing /\ ~Watching'))
    /\ UNCHANGED <<heap, operators, tracing, exited, pidStates, states, count, notes,
                   recordIndex, written, api, apiOf>>

LEMMA Reconfigures ==
    ASSUME BaseInv, NEW analyses, SetConfig(analyses)
    PROVE  Reconfigured
<1>1. calls' \in 0 .. MaxCalls
  <2>1. calls \in 0 .. MaxCalls /\ calls < MaxCalls /\ calls' = calls + 1 /\ MaxCalls \in Nat
    BY AnalysisAssumption DEF SetConfig, Call, BaseInv, TypeOK
  <2> QED BY <2>1
<1>2. ListsOK(subscribers') /\ (Asked(subscribers', Inefficient) <=> Inefficient \in analyses)
  <2>1. ListsOK(subscribers)
    BY DEF BaseInv
  <2>2. subscribers' = Configured(Configured(subscribers, analyses, Decompose), analyses, Inefficient)
    BY DEF SetConfig, Decompose, Inefficient
  <2> QED BY <2>1, <2>2, ConfiguredLists
<1>3. unwatched' = (unwatched \/ (tracing /\ ~Watching'))
  BY <1>2 DEF SetConfig, Watching, Inefficient
<1> QED BY <1>1, <1>2, <1>3 DEF Reconfigured, SetConfig

\* Every step is one of these.
Steps ==
    \/ \E e : Reported(e)
    \/ Unreported
    \/ \E p, type : Operated(p, type)
    \/ \E k, class : Owned(k, class)
    \/ Swept
    \/ Reconfigured
    \/ UNCHANGED vars

LEMMA EveryStep ==
    ASSUME BaseInv, [Next]_vars
    PROVE  Steps
<1>1. CASE \E p \in AnalysedPools : \E b \in BlocksOf[p], d \in Devices :
              PoolMalloc(p, b, d) \/ PoolFree(p, b, d) \/ MemAccess(p, b, d)
  BY <1>1, MemoryReports DEF Steps
<1>2. CASE \E p \in OperatorPools : OperatorStart(p) \/ OperatorEnd(p)
  BY <1>2, OperatorSteps DEF Steps
<1>3. CASE \E b \in BlocksOf[PTA_CACHING], class \in Classes : OptimizerStep(b, class)
  BY <1>3, OwnerSteps DEF Steps
<1>4. CASE Exit \/ \E new \in BOOLEAN : SetTraceStatus(new)
  BY <1>4, Sweeps DEF Steps
<1>5. CASE \E analyses \in Switches : SetConfig(analyses)
  BY <1>5, Reconfigures DEF Steps
<1>6. CASE UNCHANGED vars
  BY <1>6 DEF Steps
<1> QED BY <1>1, <1>2, <1>3, <1>4, <1>5, <1>6 DEF Next

-----------------------------------------------------------------------------
\* The first invariant.
LEMMA BaseInit == Init => BaseInv
<1> SUFFICES ASSUME Init PROVE BaseInv
  OBVIOUS
<1>1. NewNote \in Note
  <2>1. << >> \in Seq(Nat) /\ << >> \in Seq(Inefficiencies)
    OBVIOUS
  <2>2. "" \in {"", "PTA", "ATB"} /\ noClass \in Classes \cup {noClass, aten}
    OBVIOUS
  <2>3. NoOwner \in Owners
    BY <2>2 DEF NoOwner, Owners
  <2> QED BY <2>1, <2>3 DEF NewNote, Note
<1>2. EmptyMap \in StatesMap /\ LiveKeys(EmptyMap) = {}
  BY DEF EmptyMap, StatesMap, LiveKeys
<1>3. InitialPidState \in PidState
  BY DEF InitialPidState, PidState, NoApi
<1>4. PICK analyses \in Switches :
         subscribers = InitSubscribers(analyses) /\ unwatched = ("INEFFICIENT_ANALYZER" \notin analyses)
  BY DEF Init
<1>5. ListsOK(subscribers) /\ (Watching <=> Inefficient \in analyses)
  BY <1>4, FirstLists DEF Watching
<1>6. unwatched \in BOOLEAN /\ (~unwatched => Watching)
  BY <1>4, <1>5 DEF Inefficient
<1>7. apiOf \in [1 .. recordIndex -> Nat] /\ written \in Seq(MemoryRow \cup OperatorRow)
  BY DEF Init
<1>8. TypeOK
  <2>1. subscribers \in Subscribers
    BY <1>5 DEF ListsOK
  <2>2. calls \in 0 .. MaxCalls
    BY AnalysisAssumption DEF Init
  <2> QED BY <1>1, <1>2, <1>3, <1>6, <1>7, <2>1, <2>2 DEF Init, TypeOK
<1>9. CacheOK
  <2>1. IsFiniteSet({})
    BY FS_EmptySet
  <2> QED BY <1>2, <1>6, <2>1 DEF Init, CacheOK, OwnAllocation
<1>10. HeapOK
  BY <1>2 DEF Init, HeapOK
<1> QED BY <1>5, <1>8, <1>9, <1>10 DEF BaseInv

\* apiOf grows by one record at a time.
LEMMA ApiGrows ==
    ASSUME BaseInv, NEW a \in Nat, apiOf' = Append(apiOf, a), recordIndex' = recordIndex + 1
    PROVE  /\ apiOf' \in [1 .. recordIndex' -> Nat] /\ apiOf'[recordIndex'] = a
           /\ \A i \in 1 .. recordIndex : apiOf'[i] = apiOf[i]
           /\ \A i \in 1 .. recordIndex' : i \in 1 .. recordIndex \/ i = recordIndex'
<1>1. apiOf \in [1 .. recordIndex -> Nat] /\ recordIndex \in Nat
  BY DEF BaseInv, TypeOK
<1>2. apiOf \in Seq(Nat) /\ Len(apiOf) = recordIndex
  BY <1>1
<1>3. /\ apiOf' \in Seq(Nat) /\ Len(apiOf') = recordIndex + 1 /\ apiOf'[recordIndex + 1] = a
      /\ \A i \in 1 .. recordIndex : apiOf'[i] = apiOf[i]
  BY <1>2, AppendProperties
<1>4. apiOf' \in [1 .. recordIndex' -> Nat]
  <2>1. \A t \in Seq(Nat) : t \in [1 .. Len(t) -> Nat]
    OBVIOUS
  <2>2. apiOf' \in [1 .. Len(apiOf') -> Nat] /\ Len(apiOf') = recordIndex'
    BY <1>3, <2>1
  <2> QED BY <2>2
<1> QED BY <1>1, <1>3, <1>4

LEMMA ReportedKeepsTypes ==
    ASSUME BaseInv, NEW e, Reported(e)
    PROVE  TypeOK'
<1> DEFINE k == KeyOf(e)
           s == StateWith(states, count, e, k)
<1>1. TypeOK
  BY DEF BaseInv
<1>2. /\ e \in MemoryEvent /\ e.pool \in AnalysedPools /\ e.type \in EventTypes
      /\ BlockIn(e) \in [addr : Addrs, size : Sizes]
  BY DEF Reported, Legal, MemoryEvent, BlockIn
<1>3. k \in MemoryStateKey /\ s \in MemoryState /\ states' \in StatesMap /\ count' \in Nat
  BY ReportedCache
<1>4. heap' \in [AnalysedPools -> SUBSET [addr : Addrs, size : Sizes]]
  BY <1>1, <1>2 DEF Reported, TypeOK
<1>5. pidStates' \in [AnalysedPools -> PidState]
  <2>1. pidStates' = IF Watching THEN [pidStates EXCEPT ![e.pool] = AfterMemoryEvent(@, e)] ELSE pidStates
    BY DEF Reported, Handled, PidAfter
  <2>2. AfterMemoryEvent(pidStates[e.pool], e) \in PidState
    BY <1>1, <1>2, PidTypes DEF TypeOK
  <2> QED BY <1>1, <2>1, <2>2 DEF TypeOK
<1>6. notes' \in [MemoryStateKey -> Note]
  <2>1. << >> \in Seq(Nat) /\ << >> \in Seq(Inefficiencies)
    OBVIOUS
  <2>2. "" \in {"", "PTA", "ATB"} /\ noClass \in Classes \cup {noClass, aten}
    OBVIOUS
  <2>3. NoOwner \in Owners
    BY <2>2 DEF NoOwner, Owners
  <2>4. NewNote \in Note
    BY <2>1, <2>3 DEF NewNote, Note
  <2>5. notes' = [notes EXCEPT ![k] = IF e.type = "FREE" THEN NewNote ELSE Noting(e)]
        /\ Noting(e) \in Note
    BY DEF Reported, Handled
  <2> QED BY <1>1, <2>4, <2>5 DEF TypeOK
<1>7. written' \in Seq(MemoryRow \cup OperatorRow)
  <2>1. written' = IF e.type = "FREE" THEN written \o DumpMemoryState(s, Noting(e)) ELSE written
    BY DEF Reported, Handled
  <2>2. DumpMemoryState(s, Noting(e)) \in Seq(MemoryRow)
    BY <1>3, DumpedRows DEF Reported
  <2>3. DumpMemoryState(s, Noting(e)) \in Seq(MemoryRow \cup OperatorRow)
    BY <2>2
  <2>4. written \in Seq(MemoryRow \cup OperatorRow)
    BY <1>1 DEF TypeOK
  <2> HIDE DEF s
  <2> QED BY <2>1, <2>3, <2>4
<1>8. ApiOfNext(e.pool) \in Nat
  BY <1>1, <1>2 DEF ApiOfNext, TypeOK
<1>9. api' \in [AnalysedPools -> Nat] /\ recordIndex' \in Nat
  BY <1>1, <1>2, <1>8 DEF Reported, TypeOK
<1>10. apiOf' \in [1 .. recordIndex' -> Nat]
  BY <1>8, ApiGrows DEF Reported
<1> HIDE DEF k, s
<1>11. UNCHANGED <<operators, tracing, exited, subscribers, unwatched, calls>>
  BY DEF Reported, NoCall, Unswitched
<1> QED BY <1>1, <1>3, <1>4, <1>5, <1>6, <1>7, <1>9, <1>10, <1>11 DEF TypeOK

LEMMA ReportedKeepsHeap ==
    ASSUME BaseInv, NEW e, Reported(e)
    PROVE  HeapOK' /\ CacheOK'
<1> DEFINE k == KeyOf(e)
           s == StateWith(states, count, e, k)
           b == BlockIn(e)
<1>1. /\ e \in MemoryEvent /\ e.pool \in AnalysedPools /\ e.type \in EventTypes
      /\ b.addr = e.addr /\ b.size = e.size
      /\ IF e.type = "MALLOC"
         THEN \A c \in heap[e.pool] : c.addr + c.size <= b.addr \/ b.addr + b.size <= c.addr
         ELSE b \in heap[e.pool]
  BY DEF Reported, Legal, MemoryEvent, BlockIn
<1>2. /\ k \in MemoryStateKey /\ k[1] = e.pool /\ k[2] = e.addr
      /\ \A j \in MemoryStateKey \ {k} : states'[j] = states[j] /\ notes'[j] = notes[j]
      /\ states'[k] = (IF e.type = "FREE" THEN NoState ELSE s)
      /\ LiveKeys(states') = (IF e.type = "FREE" THEN LiveKeys(states) \ {k}
                              ELSE LiveKeys(states) \cup {k})
      /\ OwnAllocation(states', count')
      /\ Fresh(k) => s.size = e.size
      /\ ~Fresh(k) => s.size = states[k].size
  BY ReportedCache
<1>3. /\ heap' = [heap EXCEPT ![e.pool] = IF e.type = "MALLOC" THEN @ \cup {b}
                                          ELSE IF e.type = "FREE" THEN @ \ {b} ELSE @]
      /\ heap \in [AnalysedPools -> SUBSET [addr : Addrs, size : Sizes]]
  BY DEF Reported, BaseInv, TypeOK
<1>4. /\ \A p \in AnalysedPools : \A c, f \in heap[p] : Apart(c, f)
      /\ \A j \in LiveKeys(states) : j \in MemoryStateKey /\ j[1] \in AnalysedPools /\ BlockOf(j) \in heap[j[1]]
  BY DEF BaseInv, HeapOK, LiveKeys
<1>5. /\ tracing /\ UNCHANGED <<operators, tracing, subscribers, unwatched>>
      /\ IsFiniteSet(LiveKeys(states)) /\ (~unwatched => Watching)
  BY DEF Reported, NoCall, Unswitched, BaseInv, CacheOK
<1> HIDE DEF k, s, b
<1>6. CacheOK'
  <2>1. IsFiniteSet(LiveKeys(states) \cup {k}) /\ IsFiniteSet(LiveKeys(states) \ {k})
    BY <1>5, FS_AddElement, FS_RemoveElement
  <2>2. IsFiniteSet(LiveKeys(states'))
    BY <1>2, <2>1
  <2>3. Watching' = Watching
    BY <1>5 DEF Watching
  <2> QED BY <1>2, <1>5, <2>2, <2>3 DEF CacheOK
<1>7. ASSUME NEW p \in AnalysedPools, NEW c \in heap'[p], NEW f \in heap'[p] PROVE Apart(c, f)
  <2>1. /\ c \in heap[p] \/ (e.type = "MALLOC" /\ p = e.pool /\ c = b)
        /\ f \in heap[p] \/ (e.type = "MALLOC" /\ p = e.pool /\ f = b)
    BY <1>1, <1>3, <1>7
  <2>2. e.type = "MALLOC" => \A x \in heap[e.pool] : Apart(b, x) /\ Apart(x, b)
    BY <1>1 DEF Apart
  <2>3. Apart(b, b)
    BY DEF Apart
  <2> QED BY <1>4, <2>1, <2>2, <2>3
<1>8. ASSUME NEW j \in LiveKeys(states')
      PROVE  j[1] \in AnalysedPools /\ [addr |-> j[2], size |-> states'[j].size] \in heap'[j[1]]
  <2> DEFINE block == [addr |-> j[2], size |-> states'[j].size]
  <2>1. CASE j = k
    <3>1. e.type # "FREE" /\ states'[k] = s
      BY <1>2, <1>8, <2>1
    <3>2. block = [addr |-> e.addr, size |-> s.size]
      BY <1>2, <2>1, <3>1
    <3>3. CASE Fresh(k)
      <4>1. block = b
        BY <1>2, <3>2, <3>3 DEF b, BlockIn
      <4>2. b \in heap'[e.pool]
        BY <1>1, <1>3, <3>1
      <4> QED BY <1>1, <1>2, <2>1, <4>1, <4>2
    <3>4. CASE ~Fresh(k)
      <4>1. k \in LiveKeys(states)
        BY <1>2, <3>4 DEF Fresh, LiveKeys
      <4>2. block = BlockOf(k)
        BY <1>2, <3>2, <3>4 DEF BlockOf
      <4>3. BlockOf(k) \in heap[e.pool]
        BY <1>2, <1>4, <4>1
      <4>4. BlockOf(k) \in heap'[e.pool]
        BY <1>1, <1>3, <3>1, <4>3
      <4> HIDE DEF block
      <4> QED BY <1>1, <1>2, <2>1, <4>2, <4>4 DEF block
    <3> QED BY <3>3, <3>4
  <2>2. CASE j # k
    <3>1. j \in LiveKeys(states)
      BY <1>2, <1>8, <2>2
    <3>2. j \in MemoryStateKey /\ states'[j] = states[j]
      BY <1>2, <1>4, <2>2, <3>1
    <3>3. block = BlockOf(j)
      BY <3>2 DEF BlockOf
    <3>4. BlockOf(j) \in heap[j[1]] /\ j[1] \in AnalysedPools
      BY <1>4, <3>1
    <3>5. j[1] = e.pool => BlockOf(j) # b
      <4> SUFFICES ASSUME j[1] = e.pool, BlockOf(j) = b PROVE FALSE
        OBVIOUS
      <4>1. BlockOf(j).addr = j[2]
        BY DEF BlockOf
      <4>2. j[2] = e.addr
        BY <1>1, <4>1
      <4>3. j = <<j[1], j[2]>> /\ k = <<k[1], k[2]>>
        BY <1>2, <3>2 DEF MemoryStateKey
      <4> QED BY <1>2, <2>2, <4>2, <4>3
    <3>6. BlockOf(j) \in heap'[j[1]]
      BY <1>1, <1>3, <3>4, <3>5
    <3> HIDE DEF block
    <3> QED BY <3>3, <3>4, <3>6 DEF block
  <2> QED BY <2>1, <2>2
<1> QED BY <1>6, <1>7, <1>8 DEF HeapOK, BlockOf

LEMMA OthersKeep ==
    ASSUME BaseInv, Unreported \/ (\E p, type : Operated(p, type)) \/ (\E k, class : Owned(k, class))
                    \/ Swept \/ Reconfigured
    PROVE  BaseInv'
<1>1. /\ TypeOK /\ ListsOK(subscribers) /\ CacheOK /\ HeapOK
      /\ states \in StatesMap /\ count \in Nat /\ recordIndex \in Nat
      /\ heap \in [AnalysedPools -> SUBSET [addr : Addrs, size : Sizes]]
      /\ notes \in [MemoryStateKey -> Note] /\ pidStates \in [AnalysedPools -> PidState]
      /\ written \in Seq(MemoryRow \cup OperatorRow) /\ operators \subseteq AnalysedPools
      /\ api \in [AnalysedPools -> Nat]
  BY DEF BaseInv, TypeOK
<1>2. CASE Unreported
  <2>1. /\ heap' \in [AnalysedPools -> SUBSET [addr : Addrs, size : Sizes]]
        /\ \A p \in AnalysedPools : \A b, c \in heap'[p] : Apart(b, c)
        /\ LiveKeys(states) = {}
        /\ UNCHANGED <<operators, tracing, exited, subscribers, pidStates, states, count, notes,
                       recordIndex, written, api, apiOf, unwatched, calls>>
    BY <1>1, <1>2 DEF Unreported, CacheOK
  <2>2. TypeOK'
    BY <1>1, <2>1 DEF TypeOK
  <2>3. CacheOK'
    <3>1. Watching' = Watching
      BY <2>1 DEF Watching
    <3> QED BY <1>1, <2>1, <3>1 DEF CacheOK
  <2>4. HeapOK'
    BY <2>1 DEF HeapOK
  <2> QED BY <1>1, <2>1, <2>2, <2>3, <2>4 DEF BaseInv
<1>3. ASSUME NEW p, NEW type, Operated(p, type) PROVE BaseInv'
  <2> DEFINE e == [id |-> recordIndex + 1, type |-> type, pool |-> p]
  <2>1. /\ p \in AnalysedPools /\ type \in {"START", "END"} /\ tracing
        /\ UNCHANGED <<heap, states, count, notes, tracing, exited, unwatched, subscribers, calls>>
        /\ operators' \subseteq AnalysedPools
        /\ recordIndex' = recordIndex + 1
    BY <1>1, <1>3 DEF Operated, NoCall, Unswitched
  <2>2. written' \in Seq(MemoryRow \cup OperatorRow)
    <3>1. e \in OperatorEvent
      BY <1>1, <2>1 DEF OperatorEvent, AnalysedPools
    <3> HIDE DEF e
    <3>2. [event |-> e] \in MemoryRow \cup OperatorRow
      BY <3>1 DEF OperatorRow
    <3>3. written' = Append(written, [event |-> e])
      BY <1>3 DEF Operated, e
    <3> QED BY <1>1, <3>2, <3>3
  <2>3. pidStates' \in [AnalysedPools -> PidState]
    <3>1. HandleOpLaunchEvent(pidStates[p], type = "START") \in PidState
      BY <1>1, <2>1, PidTypes
    <3> QED BY <1>1, <1>3, <3>1 DEF Operated
  <2>4. api' \in [AnalysedPools -> Nat]
    BY <1>1, <1>3, <2>1 DEF Operated
  <2>5. apiOf' \in [1 .. recordIndex' -> Nat]
    <3>1. apiOf' = Append(apiOf, 0)
      BY <1>3 DEF Operated
    <3> QED BY <2>1, <3>1, ApiGrows
  <2>6. TypeOK'
    BY <1>1, <2>1, <2>2, <2>3, <2>4, <2>5 DEF TypeOK
  <2>7. CacheOK'
    <3>1. Watching' = Watching
      BY <2>1 DEF Watching
    <3> QED BY <1>1, <2>1, <3>1 DEF CacheOK
  <2>8. HeapOK'
    BY <1>1, <2>1 DEF HeapOK, BlockOf
  <2> QED BY <1>1, <2>1, <2>6, <2>7, <2>8 DEF BaseInv
<1>4. ASSUME NEW k, NEW class, Owned(k, class) PROVE BaseInv'
  <2>1. /\ class \in Classes /\ k \in MemoryStateKey /\ calls' \in 0 .. MaxCalls
        /\ UNCHANGED <<heap, operators, tracing, exited, subscribers, pidStates, states, count,
                       recordIndex, written, api, apiOf, unwatched>>
    BY <1>4 DEF Owned
  <2>2. notes' \in [MemoryStateKey -> Note]
    <3> DEFINE note == [notes[k] EXCEPT !.memscopeDefinedOwner = UpdateOwner(@, class)]
    <3>1. notes[k] \in Note
      BY <1>1, <2>1
    <3>2. \A o \in Owners : UpdateOwner(o, class) \in Owners
      <4>1. <<"PTA", class>> \in Owners
        BY <2>1 DEF Owners
      <4> QED BY <4>1 DEF UpdateOwner
    <3>3. note \in Note
      BY <3>1, <3>2 DEF Note
    <3>4. notes' = notes \/ notes' = [notes EXCEPT ![k] = note]
      BY <1>4 DEF Owned
    <3> HIDE DEF note
    <3> QED BY <1>1, <3>3, <3>4
  <2>3. TypeOK'
    BY <1>1, <2>1, <2>2 DEF TypeOK
  <2>4. CacheOK'
    <3>1. Watching' = Watching
      BY <2>1 DEF Watching
    <3> QED BY <1>1, <2>1, <3>1 DEF CacheOK
  <2>5. HeapOK'
    BY <1>1, <2>1 DEF HeapOK, BlockOf
  <2> QED BY <1>1, <2>1, <2>3, <2>4, <2>5 DEF BaseInv
<1>5. CASE Swept
  <2>1. /\ written' \in Seq(MemoryRow \cup OperatorRow)
        /\ states' = EmptyMap /\ notes' = [k \in MemoryStateKey |-> NewNote]
        /\ operators = {} /\ tracing' \in BOOLEAN /\ exited' \in BOOLEAN
        /\ unwatched' = (unwatched \/ (tracing' /\ ~Watching))
        /\ calls' \in 0 .. MaxCalls
        /\ UNCHANGED <<heap, operators, subscribers, pidStates, count, recordIndex, apiOf, api>>
    BY <1>5 DEF Swept, From
  <2>2. states' \in StatesMap /\ LiveKeys(states') = {}
    BY <2>1 DEF EmptyMap, StatesMap, LiveKeys
  <2>3. notes' \in [MemoryStateKey -> Note]
    <3>1. << >> \in Seq(Nat) /\ << >> \in Seq(Inefficiencies)
      OBVIOUS
    <3>2. "" \in {"", "PTA", "ATB"} /\ noClass \in Classes \cup {noClass, aten}
      OBVIOUS
    <3>3. NoOwner \in Owners
      BY <3>2 DEF NoOwner, Owners
    <3>4. NewNote \in Note
      BY <3>1, <3>3 DEF NewNote, Note
    <3> QED BY <2>1, <3>4
  <2>4. unwatched' \in BOOLEAN
    BY <1>1, <2>1 DEF TypeOK
  <2>5. TypeOK'
    BY <1>1, <2>1, <2>2, <2>3, <2>4 DEF TypeOK
  <2>6. CacheOK'
    <3>1. Watching' = Watching
      BY <2>1 DEF Watching
    <3>2. IsFiniteSet({})
      BY FS_EmptySet
    <3> QED BY <1>1, <2>1, <2>2, <3>1, <3>2 DEF CacheOK, OwnAllocation
  <2>7. HeapOK'
    BY <1>1, <2>1, <2>2 DEF HeapOK
  <2> QED BY <1>1, <2>1, <2>5, <2>6, <2>7 DEF BaseInv
<1>6. CASE Reconfigured
  <2>1. /\ ListsOK(subscribers') /\ calls' \in 0 .. MaxCalls
        /\ unwatched' = (unwatched \/ (tracing /\ ~Watching'))
        /\ UNCHANGED <<heap, operators, tracing, exited, pidStates, states, count, notes,
                       recordIndex, written, api, apiOf>>
    BY <1>6 DEF Reconfigured
  <2>2. unwatched' \in BOOLEAN
    BY <1>1, <2>1 DEF TypeOK
  <2>3. subscribers' \in Subscribers
    BY <2>1 DEF ListsOK
  <2>4. TypeOK'
    BY <1>1, <2>1, <2>2, <2>3 DEF TypeOK
  <2>5. CacheOK'
    BY <1>1, <2>1 DEF CacheOK
  <2>6. HeapOK'
    BY <1>1, <2>1 DEF HeapOK, BlockOf
  <2> QED BY <2>1, <2>4, <2>5, <2>6 DEF BaseInv
<1> QED BY <1>2, <1>3, <1>4, <1>5, <1>6

LEMMA BaseStep == BaseInv /\ [Next]_vars => BaseInv'
<1> SUFFICES ASSUME BaseInv, [Next]_vars PROVE BaseInv'
  OBVIOUS
<1>1. ASSUME NEW e, Reported(e) PROVE BaseInv'
  <2>1. TypeOK' /\ HeapOK' /\ CacheOK'
    BY <1>1, ReportedKeepsTypes, ReportedKeepsHeap
  <2>2. subscribers' = subscribers /\ ListsOK(subscribers)
    BY <1>1 DEF Reported, NoCall, Unswitched, BaseInv
  <2> QED BY <2>1, <2>2 DEF BaseInv
<1>2. CASE UNCHANGED vars
  <2>1. Watching' = Watching
    BY <1>2 DEF Watching, vars
  <2>2. TypeOK' /\ CacheOK' /\ HeapOK'
    BY <1>2, <2>1 DEF BaseInv, vars, TypeOK, CacheOK, HeapOK, BlockOf
  <2> QED BY <1>2, <2>2 DEF BaseInv, vars
<1> QED BY <1>1, <1>2, EveryStep, OthersKeep DEF Steps

\* The two parts of KeepsClass.
ClassKept(k) ==
    /\ states[k].allocationId = states'[k].allocationId
    /\ ClassOf(k) \in Classes
    => ClassOf(k)' \in Classes

OwnerWritten(k, r) ==
    r.event.type = "MALLOC" /\ r.allocationId = states[k].allocationId
       => r.owner = notes[k].memscopeDefinedOwner

LEMMA KeepsBoth ==
    ASSUME \A k \in LiveKeys(states) \cap LiveKeys(states') : ClassKept(k),
           \A k \in LiveKeys(states) : \A i \in Len(written) + 1 .. Len(written') : OwnerWritten(k, written'[i])
    PROVE  KeepsClass
  BY DEF KeepsClass, ClassKept, OwnerWritten

LEMMA ReportKeepsClass ==
    ASSUME BaseInv, NEW e, Reported(e)
    PROVE  KeepsClass
<1> DEFINE k == KeyOf(e)
           s == StateWith(states, count, e, k)
           old == notes[k].memscopeDefinedOwner
<1>1. /\ k \in MemoryStateKey /\ s \in MemoryState
      /\ \A j \in MemoryStateKey \ {k} : notes'[j] = notes[j]
      /\ LiveKeys(states') = (IF e.type = "FREE" THEN LiveKeys(states) \ {k}
                              ELSE LiveKeys(states) \cup {k})
      /\ \A j \in LiveKeys(states) \ {k} : states[j].allocationId # s.allocationId
  BY ReportedCache
<1>2. /\ notes \in [MemoryStateKey -> Note]
      /\ notes' = [notes EXCEPT ![k] = IF e.type = "FREE" THEN NewNote ELSE Noting(e)]
      /\ written' = IF e.type = "FREE" THEN written \o DumpMemoryState(s, Noting(e)) ELSE written
      /\ written \in Seq(MemoryRow \cup OperatorRow) /\ Noting(e) \in Note
  BY DEF BaseInv, TypeOK, Reported, Handled
<1>3. e.type = "MALLOC" => k \notin LiveKeys(states)
  BY OwnKey DEF Reported, LiveKeys
<1>4. k \in LiveKeys(states) =>
        Noting(e).memscopeDefinedOwner =
          IF Decomposing /\ e.type # "FREE" THEN UpdateOwnerByAtenAccess(old, e.pool) ELSE old
  <2> SUFFICES ASSUME k \in LiveKeys(states)
               PROVE  Noting(e).memscopeDefinedOwner =
                        IF Decomposing /\ e.type # "FREE" THEN UpdateOwnerByAtenAccess(old, e.pool) ELSE old
    OBVIOUS
  <2> DEFINE noted == [notes EXCEPT ![k] = IF Fresh(k) THEN NewNote ELSE @]
             x == [pidStates |-> pidStates, notes |-> noted, written |-> written]
  <2>1. ~Fresh(k) /\ e.type # "MALLOC"
    BY <1>3 DEF Fresh, LiveKeys
  <2>2. x.notes[k] = notes[k]
    BY <1>1, <1>2, <2>1
  <2>3. Noting(e) = NoteAfter(x, e, s, k)
    BY DEF Noting
  <2> HIDE DEF x, s, k
  <2>4. JudgedNote(x, e, s, k).memscopeDefinedOwner = notes[k].memscopeDefinedOwner
    BY <2>2 DEF JudgedNote
  <2> DEFINE judged == IF Watching THEN JudgedNote(x, e, s, k) ELSE x.notes[k]
  <2>5. judged.memscopeDefinedOwner = notes[k].memscopeDefinedOwner
    BY <2>2, <2>4
  <2>6. NoteAfter(x, e, s, k) = IF Decomposing /\ e.type # "FREE" THEN OwnedNote(judged, e) ELSE judged
    BY DEF NoteAfter
  <2> HIDE DEF judged
  <2>7. OwnedNote(judged, e).memscopeDefinedOwner = UpdateOwnerByAtenAccess(judged.memscopeDefinedOwner, e.pool)
    BY <2>1 DEF OwnedNote
  <2> QED BY <2>3, <2>5, <2>6, <2>7
<1> HIDE DEF k, s
<1>5. ASSUME NEW j \in LiveKeys(states) \cap LiveKeys(states') PROVE ClassKept(j)
  <2> SUFFICES ASSUME ClassOf(j) \in Classes PROVE notes'[j].memscopeDefinedOwner[2] \in Classes
    BY DEF ClassKept, ClassOf
  <2>1. j \in MemoryStateKey
    BY DEF LiveKeys
  <2>2. CASE j # k
    BY <1>1, <2>1, <2>2 DEF ClassOf
  <2>3. CASE j = k
    <3>1. e.type # "FREE"
      BY <1>1, <2>3
    <3>2. notes'[k] = Noting(e)
      BY <1>1, <1>2, <3>1
    <3>3. old[2] \in Classes /\ noClass \notin Classes
      BY <2>3, OwnerAssumption DEF ClassOf
    <3>4. UpdateOwnerByAtenAccess(old, e.pool) = old
      BY <3>3 DEF UpdateOwnerByAtenAccess
    <3> QED BY <1>4, <2>3, <3>2, <3>3, <3>4
  <2> QED BY <2>2, <2>3
<1>6. ASSUME NEW j \in LiveKeys(states), NEW i \in Len(written) + 1 .. Len(written')
      PROVE  OwnerWritten(j, written'[i])
  <2> DEFINE rows == DumpMemoryState(s, Noting(e))
  <2>1. e.type = "FREE" /\ written' = written \o rows
    BY <1>2
  <2>2. /\ rows \in Seq(MemoryRow) /\ Len(rows) = Len(s.events)
        /\ \A n \in 1 .. Len(s.events) :
              /\ rows[n].allocationId = s.allocationId
              /\ rows[n].event.type = "MALLOC" => rows[n].owner = Noting(e).memscopeDefinedOwner
              /\ rows[n].event = s.events[n]
    BY <1>1, <1>2, DumpedRows
  <2> HIDE DEF rows
  <2>3. Len(written) \in Nat /\ Len(rows) \in Nat
    BY <1>2, <2>2
  <2>4. Len(written') = Len(written) + Len(rows)
        /\ \A n \in 1 .. Len(written) + Len(rows) :
              written'[n] = IF n <= Len(written) THEN written[n] ELSE rows[n - Len(written)]
    <3> DEFINE S == MemoryRow \cup OperatorRow
    <3>1. written \in Seq(S) /\ rows \in Seq(S)
      BY <1>2, <2>2
    <3> HIDE DEF S
    <3> QED BY <2>1, <3>1, ConcatProperties
  <2>5. i - Len(written) \in 1 .. Len(s.events) /\ written'[i] = rows[i - Len(written)]
    BY <2>2, <2>3, <2>4
  <2>6. written'[i].allocationId = s.allocationId
        /\ (written'[i].event.type = "MALLOC" => written'[i].owner = Noting(e).memscopeDefinedOwner)
    BY <2>2, <2>5
  <2> SUFFICES ASSUME written'[i].event.type = "MALLOC", written'[i].allocationId = states[j].allocationId
               PROVE  written'[i].owner = notes[j].memscopeDefinedOwner
    BY DEF OwnerWritten
  <2>7. j = k
    BY <1>1, <2>6
  <2> QED BY <1>4, <2>1, <2>6, <2>7
<1> QED BY <1>5, <1>6, KeepsBoth

LEMMA OthersKeepClass ==
    ASSUME BaseInv, Unreported \/ (\E p, type : Operated(p, type)) \/ (\E k, class : Owned(k, class))
                    \/ Swept \/ Reconfigured
    PROVE  KeepsClass
<1>1. /\ states \in StatesMap /\ notes \in [MemoryStateKey -> Note] /\ OwnAllocation(states, count)
      /\ written \in Seq(MemoryRow \cup OperatorRow) /\ Len(written) \in Nat
  BY DEF BaseInv, TypeOK, CacheOK
<1>2. ASSUME notes' = notes, states' = states, written' = written PROVE KeepsClass
  BY <1>1, <1>2 DEF KeepsClass, ClassOf
<1>3. ASSUME NEW p, NEW type, Operated(p, type) PROVE KeepsClass
  <2> DEFINE e == [id |-> recordIndex + 1, type |-> type, pool |-> p]
  <2>1. notes' = notes /\ states' = states /\ written' = Append(written, [event |-> e])
        /\ type # "MALLOC"
    BY <1>3 DEF Operated
  <2>2. Len(written') = Len(written) + 1 /\ written'[Len(written) + 1] = [event |-> e]
    <3>1. \A x, S : \A t \in Seq(S) : Len(Append(t, x)) = Len(t) + 1 /\ Append(t, x)[Len(t) + 1] = x
      OBVIOUS
    <3> HIDE DEF e
    <3> QED BY <1>1, <2>1, <3>1
  <2>3. [event |-> e].event.type # "MALLOC"
    BY <2>1
  <2>4. \A i \in Len(written) + 1 .. Len(written') : i = Len(written) + 1
    BY <1>1, <2>2
  <2>5. \A k : \A i \in Len(written) + 1 .. Len(written') : OwnerWritten(k, written'[i])
    BY <2>2, <2>3, <2>4 DEF OwnerWritten
  <2>6. \A k : ClassKept(k)
    BY <2>1 DEF ClassKept, ClassOf
  <2> QED BY <2>5, <2>6, KeepsBoth
<1>4. ASSUME NEW k, NEW class, Owned(k, class) PROVE KeepsClass
  <2>1. states' = states /\ written' = written /\ class \in Classes /\ k \in MemoryStateKey
    BY <1>4 DEF Owned
  <2>2. \A j : \A i \in Len(written) + 1 .. Len(written') : OwnerWritten(j, written'[i])
    BY <1>1, <2>1
  <2>3. ASSUME NEW j \in LiveKeys(states) PROVE ClassKept(j)
    <3> SUFFICES ASSUME ClassOf(j) \in Classes PROVE notes'[j].memscopeDefinedOwner[2] \in Classes
      BY DEF ClassKept, ClassOf
    <3> DEFINE new == UpdateOwner(notes[k].memscopeDefinedOwner, class)
    <3>1. new[2] \in Classes \/ new = notes[k].memscopeDefinedOwner
      BY <2>1 DEF UpdateOwner
    <3>2. j \in MemoryStateKey /\ notes[j].memscopeDefinedOwner[2] \in Classes
      BY DEF LiveKeys, ClassOf
    <3>3. notes' = notes \/ notes' = [notes EXCEPT ![k].memscopeDefinedOwner = new]
      BY <1>4 DEF Owned
    <3> HIDE DEF new
    <3>4. notes[k] \in Note /\ [notes[k] EXCEPT !.memscopeDefinedOwner = new].memscopeDefinedOwner = new
      BY <1>1, <2>1 DEF Note
    <3> QED BY <1>1, <2>1, <3>1, <3>2, <3>3, <3>4
  <2> QED BY <2>2, <2>3, KeepsBoth
<1>5. CASE Swept
  <2>1. LiveKeys(states') = {}
    BY <1>5 DEF Swept, EmptyMap, LiveKeys
  <2>2. ASSUME NEW k \in LiveKeys(states), NEW i \in Len(written) + 1 .. Len(written')
        PROVE  OwnerWritten(k, written'[i])
    <3>1. PICK l \in LiveKeys(states) : \E j \in 1 .. Len(states[l].events) : written'[i] = DumpAt(l)[j]
      BY <1>5 DEF Swept, From
    <3>2. PICK j \in 1 .. Len(states[l].events) : written'[i] = DumpAt(l)[j]
      BY <3>1
    <3>3. states[l] \in MemoryState /\ notes[l] \in Note
      BY <1>1, LiveState DEF LiveKeys
    <3>4. /\ DumpAt(l)[j].allocationId = states[l].allocationId
          /\ DumpAt(l)[j].event.type = "MALLOC" => DumpAt(l)[j].owner = notes[l].memscopeDefinedOwner
      BY <3>3, DumpedRows DEF DumpAt
    <3>5. states[k].allocationId = states[l].allocationId => k = l
      BY <1>1 DEF OwnAllocation
    <3> QED BY <3>2, <3>4, <3>5 DEF OwnerWritten
  <2> QED BY <2>1, <2>2, KeepsBoth
<1>6. CASE Unreported \/ Reconfigured
  BY <1>2, <1>6 DEF Unreported, Reconfigured
<1> QED BY <1>3, <1>4, <1>5, <1>6

\* decompose_analyzer.cpp:134: a block that is known to be a weight, a gradient or an optimizer
\* state stays one as long as it lives, and its MALLOC row says what it is.
THEOREM ClassesKept == Spec => AtenNeverOverrides
<1>1. BaseInv /\ [Next]_vars => [KeepsClass]_vars
  BY EveryStep, ReportKeepsClass, OthersKeepClass DEF Steps
<1> QED BY <1>1, BaseInit, BaseStep, PTL DEF Spec, AtenNeverOverrides

-----------------------------------------------------------------------------
(***************************************************************************)
(* The numbers that the inefficiency analyzer gives to the APIs of a pool, *)
(* against the true ones: it counts only while it is called, so w[a] says  *)
(* what it had counted at API number a.  R are the recorded events, A the  *)
(* APIs of the records, n the latest API of the pool p, q the PidState.    *)
(* loose says that the analyzer has missed something.                      *)
(***************************************************************************)
Stepped(w, a) == a >= 1 /\ w[a] = w[a - 1] + 1

CountsAs(w, n, q, loose) ==
    /\ w \in [0 .. n -> 0 .. n]
    /\ w[n] = q.apiId
    /\ \A a \in 1 .. n : w[a] = w[a - 1] \/ w[a] = w[a - 1] + 1
    /\ ~loose => \A a \in 0 .. n : w[a] = a
    /\ q.isOpStart => Stepped(w, n)

TmpOf(q, type) == IF type = "MALLOC" THEN q.mallocApiTmpId ELSE q.freeApiTmpId

Of(R, p, type) == {g \in R : g.pool = p /\ g.type = type}

LastOf(w, n, q, p, type, R, A, loose) ==
    /\ TmpOf(q, type) \in 0 .. q.apiId
    /\ q.isOpStart => TmpOf(q, type) < q.apiId
    /\ TmpOf(q, type) # 0 => \E g \in Of(R, p, type) : w[A[g.id]] = TmpOf(q, type)
    /\ type \in q.apiTmp => q.isOpStart /\ \E g \in Of(R, p, type) : A[g.id] = n
    /\ ~loose => \A g \in Of(R, p, type) :
                    A[g.id] <= TmpOf(q, type) \/ (A[g.id] = n /\ type \in q.apiTmp)

\* What is counted never decreases, and not faster than the APIs.
LEMMA Counted ==
    ASSUME NEW n \in Nat, NEW q, NEW loose, NEW w, CountsAs(w, n, q, loose)
    PROVE  /\ \A a, b \in 0 .. n : a <= b => w[a] <= w[b] /\ w[b] - w[a] <= b - a
           /\ \A a, b \in 0 .. n : a < b /\ Stepped(w, b) => w[a] < w[b]
<1>1. ASSUME NEW a \in 0 .. n, NEW b \in 0 .. n, a <= b PROVE w[a] <= w[b] /\ w[b] - w[a] <= b - a
  <2> DEFINE P == {d \in 0 .. b - a : w[a] <= w[a + d] /\ w[a + d] - w[a] <= d}
  <2>1. b - a \in Nat /\ \A d \in 0 .. b - a : a + d \in 0 .. n /\ w[a + d] \in 0 .. n
    BY <1>1 DEF CountsAs
  <2>2. 0 \in P
    BY <2>1
  <2>3. ASSUME NEW d \in 1 .. b - a, d - 1 \in P PROVE d \in P
    <3>1. a + d \in 1 .. n /\ (a + d) - 1 = a + (d - 1)
      BY <2>1
    <3>2. w[a + d] = w[a + (d - 1)] \/ w[a + d] = w[a + (d - 1)] + 1
      BY <3>1 DEF CountsAs
    <3>3. d - 1 \in 0 .. b - a /\ d \in 0 .. b - a
          /\ w[a] <= w[a + (d - 1)] /\ w[a + (d - 1)] - w[a] <= d - 1
      BY <2>1, <2>3
    <3>4. w[a] \in 0 .. n /\ w[a + d] \in 0 .. n /\ w[a + (d - 1)] \in 0 .. n
      <4>1. w \in [0 .. n -> 0 .. n]
        BY DEF CountsAs
      <4> QED BY <2>1, <3>3, <4>1
    <3>5. w[a] <= w[a + d] /\ w[a + d] - w[a] <= d
      BY <3>2, <3>3, <3>4
    <3> QED BY <3>3, <3>5
  <2> HIDE DEF P
  <2>4. b - a \in P
    BY <2>1, <2>2, <2>3, InductionTo
  <2> QED BY <2>1, <2>4 DEF P
<1>2. ASSUME NEW a \in 0 .. n, NEW b \in 0 .. n, a < b, Stepped(w, b) PROVE w[a] < w[b]
  <2>1. b - 1 \in 0 .. n /\ a <= b - 1
    BY <1>2
  <2>2. w[a] <= w[b - 1] /\ w[b] = w[b - 1] + 1
    BY <1>1, <1>2, <2>1 DEF Stepped
  <2>3. w[a] \in 0 .. n /\ w[b - 1] \in 0 .. n
    BY <2>1 DEF CountsAs
  <2> QED BY <2>2, <2>3
<1> QED BY <1>1, <1>2

\* One more API, that is counted or is not.
More(w, n, v) == [a \in 0 .. n + 1 |-> IF a <= n THEN w[a] ELSE v]

Counting(w, n, r, loose, more) ==
    /\ r.apiId = w[n] \/ r.apiId = w[n] + 1
    /\ r.isOpStart => r.apiId = w[n] + 1
    /\ ~more => ~loose /\ r.apiId = w[n] + 1

Prolongs(x, w, n, r, more) ==
    /\ CountsAs(x, n + 1, r, more)
    /\ \A a \in 0 .. n : x[a] = w[a]
    /\ x[n + 1] = r.apiId
    /\ r.apiId = w[n] + 1 => Stepped(x, n + 1)
    /\ \A a \in 0 .. n : Stepped(w, a) => Stepped(x, a)

LEMMA OneMore ==
    ASSUME NEW n \in Nat, NEW q, NEW loose, NEW w, CountsAs(w, n, q, loose),
           NEW r, NEW more, Counting(w, n, r, loose, more)
    PROVE  Prolongs(More(w, n, r.apiId), w, n, r, more)
<1> DEFINE v == r.apiId
           x == More(w, n, v)
<1>1. /\ \A a \in 0 .. n : w[a] \in 0 .. n
      /\ w[n] \in 0 .. n
  BY DEF CountsAs
<1>2. v \in 0 .. n + 1
  BY <1>1 DEF Counting
<1> HIDE DEF v
<1>3. x \in [0 .. n + 1 -> 0 .. n + 1]
  BY <1>1, <1>2 DEF More
<1>4. x[n + 1] = v /\ \A a \in 0 .. n : x[a] = w[a]
  BY DEF More
<1> HIDE DEF x
<1>5. ASSUME NEW a \in 1 .. n + 1 PROVE x[a] = x[a - 1] \/ x[a] = x[a - 1] + 1
  <2>1. CASE a = n + 1
    <3>1. x[a - 1] = w[n] /\ x[a] = v
      BY <1>4, <2>1
    <3> QED BY <3>1 DEF v, Counting
  <2>2. CASE a # n + 1
    <3>1. a \in 1 .. n /\ a - 1 \in 0 .. n /\ a \in 0 .. n
      BY <2>2
    <3> QED BY <1>4, <3>1 DEF CountsAs
  <2> QED BY <2>1, <2>2
<1>6. \A a \in 0 .. n : Stepped(w, a) => Stepped(x, a)
  <2> SUFFICES ASSUME NEW a \in 0 .. n, Stepped(w, a) PROVE Stepped(x, a)
    OBVIOUS
  <2>1. a >= 1 /\ a - 1 \in 0 .. n
    BY DEF Stepped
  <2> QED BY <1>4, <2>1 DEF Stepped
<1>7. v = w[n] + 1 => Stepped(x, n + 1)
  BY <1>4 DEF Stepped
<1>8. ~more => \A a \in 0 .. n + 1 : x[a] = a
  <2> SUFFICES ASSUME ~more, NEW a \in 0 .. n + 1 PROVE x[a] = a
    OBVIOUS
  <2>1. v = w[n] + 1 /\ \A b \in 0 .. n : w[b] = b
    BY DEF CountsAs, v, Counting
  <2>2. a \in 0 .. n \/ a = n + 1
    OBVIOUS
  <2> QED BY <1>4, <2>1, <2>2
<1>9. CountsAs(x, n + 1, r, more)
  <2>1. r.isOpStart => Stepped(x, n + 1)
    BY <1>7 DEF v, Counting
  <2>2. x[n + 1] = r.apiId
    BY <1>4 DEF v
  <2> QED BY <1>3, <1>5, <1>8, <2>1, <2>2 DEF CountsAs
<1> QED BY <1>4, <1>6, <1>7, <1>9 DEF v, x, Prolongs

\* What an event and an operator make of a PidState.
LEMMA PidAfterEvent ==
    ASSUME NEW q \in PidState, NEW e
    PROVE  LET r == AfterMemoryEvent(q, e)
           IN  /\ q.isOpStart => /\ r.apiId = q.apiId /\ r.isOpStart /\ r.apiTmp = q.apiTmp \cup {e.type}
                                 /\ \A type \in {"MALLOC", "FREE"} : TmpOf(r, type) = TmpOf(q, type)
               /\ ~q.isOpStart =>
                     /\ r.apiId = q.apiId + 1 /\ ~r.isOpStart /\ r.apiTmp = {}
                     /\ \A type \in {"MALLOC", "FREE"} :
                           TmpOf(r, type) = IF type \in q.apiTmp \cup {e.type} THEN q.apiId + 1
                                            ELSE TmpOf(q, type)
<1> DEFINE noted == [q EXCEPT !.apiId = ApiOfEvent(q), !.apiTmp = @ \cup {e.type}]
           r == AfterMemoryEvent(q, e)
<1>1. /\ noted.apiId = ApiOfEvent(q) /\ noted.apiTmp = q.apiTmp \cup {e.type}
      /\ noted.mallocApiTmpId = q.mallocApiTmpId /\ noted.freeApiTmpId = q.freeApiTmpId
      /\ noted.isOpStart = q.isOpStart
      /\ noted \in [apiId : {ApiOfEvent(q)}, mallocApiTmpId : Nat, freeApiTmpId : Nat,
                    isOpStart : BOOLEAN, apiTmp : {q.apiTmp \cup {e.type}}]
  BY DEF PidState
<1>2. r = IF q.isOpStart THEN noted ELSE ClassifyEventsTmp(noted)
  BY DEF AfterMemoryEvent
<1> HIDE DEF noted
<1>3. LET c == ClassifyEventsTmp(noted)
      IN  /\ c.apiId = noted.apiId /\ c.isOpStart = noted.isOpStart /\ c.apiTmp = {}
          /\ c.mallocApiTmpId = IF "MALLOC" \in noted.apiTmp THEN noted.apiId ELSE noted.mallocApiTmpId
          /\ c.freeApiTmpId = IF "FREE" \in noted.apiTmp THEN noted.apiId ELSE noted.freeApiTmpId
  BY <1>1 DEF ClassifyEventsTmp
<1>4. CASE q.isOpStart
  <2>1. r = noted /\ ApiOfEvent(q) = q.apiId
    BY <1>2, <1>4 DEF ApiOfEvent
  <2> QED BY <1>1, <1>4, <2>1 DEF TmpOf
<1>5. CASE ~q.isOpStart
  <2>1. r = ClassifyEventsTmp(noted) /\ ApiOfEvent(q) = q.apiId + 1
    BY <1>2, <1>5 DEF ApiOfEvent
  <2>2. r.apiId = q.apiId + 1 /\ ~r.isOpStart /\ r.apiTmp = {}
    BY <1>1, <1>3, <1>5, <2>1
  <2>3. /\ r.mallocApiTmpId = IF "MALLOC" \in q.apiTmp \cup {e.type} THEN q.apiId + 1 ELSE q.mallocApiTmpId
        /\ r.freeApiTmpId = IF "FREE" \in q.apiTmp \cup {e.type} THEN q.apiId + 1 ELSE q.freeApiTmpId
    BY <1>1, <1>3, <2>1
  <2> QED BY <1>5, <2>2, <2>3 DEF TmpOf
<1> QED BY <1>4, <1>5

LEMMA PidAfterOperator ==
    ASSUME NEW q \in PidState
    PROVE  /\ LET r == HandleOpLaunchEvent(q, TRUE)
              IN  /\ r.apiId = q.apiId + 1 /\ r.isOpStart /\ r.apiTmp = q.apiTmp
                  /\ \A type \in {"MALLOC", "FREE"} : TmpOf(r, type) = TmpOf(q, type)
           /\ LET r == HandleOpLaunchEvent(q, FALSE)
              IN  /\ r.apiId = q.apiId /\ ~r.isOpStart /\ r.apiTmp = {}
                  /\ \A type \in {"MALLOC", "FREE"} :
                        TmpOf(r, type) = IF type \in q.apiTmp THEN q.apiId ELSE TmpOf(q, type)
<1>1. LET r == HandleOpLaunchEvent(q, TRUE)
      IN  /\ r.apiId = q.apiId + 1 /\ r.isOpStart /\ r.apiTmp = q.apiTmp
          /\ r.mallocApiTmpId = q.mallocApiTmpId /\ r.freeApiTmpId = q.freeApiTmpId
  BY DEF HandleOpLaunchEvent, PidState
<1>2. LET r == HandleOpLaunchEvent(q, FALSE)
      IN  /\ r.apiId = q.apiId /\ ~r.isOpStart /\ r.apiTmp = {}
          /\ r.mallocApiTmpId = IF "MALLOC" \in q.apiTmp THEN q.apiId ELSE q.mallocApiTmpId
          /\ r.freeApiTmpId = IF "FREE" \in q.apiTmp THEN q.apiId ELSE q.freeApiTmpId
  BY DEF HandleOpLaunchEvent, ClassifyEventsTmp, PidState
<1> QED BY <1>1, <1>2 DEF TmpOf

Tracks(w, n, q, p, R, A, loose) ==
    /\ CountsAs(w, n, q, loose)
    /\ \A type \in {"MALLOC", "FREE"} : LastOf(w, n, q, p, type, R, A, loose)

\* The recorded events of the pool have APIs.
Known(R, A, n, p) == \A g \in R : g.pool = p => A[g.id] \in 1 .. n

\* One number line goes on where the other ends.
Extends(x, m, w, n) ==
    /\ m = n \/ m = n + 1
    /\ \A a \in 0 .. n : x[a] = w[a] /\ (Stepped(w, a) => Stepped(x, a))

\* The records go on.
Grows(S, B, R, A) == R \subseteq S /\ \A g \in R : B[g.id] = A[g.id]

\* What no event of the pool that the analyzer sees changes: other pools' events, and all events
\* that it misses.
LEMMA Untouched ==
    ASSUME NEW n \in Nat, NEW q \in PidState, NEW p, NEW R, NEW A, NEW loose, NEW w,
           Tracks(w, n, q, p, R, A, loose), Known(R, A, n, p),
           NEW S, NEW B, NEW more, Grows(S, B, R, A), loose => more,
           NEW m, m = n \/ (m = n + 1 /\ ~q.isOpStart /\ more),
           more \/ \A type \in {"MALLOC", "FREE"} : Of(S, p, type) = Of(R, p, type)
    PROVE  \E x : Tracks(x, m, q, p, S, B, more) /\ Extends(x, m, w, n)
<1>1. CountsAs(w, n, q, loose)
  BY DEF Tracks
<1>2. PICK x : CountsAs(x, m, q, more) /\ Extends(x, m, w, n)
  <2>1. CASE m = n
    <3>1. CountsAs(w, n, q, more)
      BY <1>1 DEF CountsAs
    <3>2. Extends(w, n, w, n)
      BY DEF Extends
    <3> QED BY <2>1, <3>1, <3>2
  <2>2. CASE m = n + 1 /\ ~q.isOpStart /\ more
    <3>1. q.apiId = w[n]
      BY <1>1 DEF CountsAs
    <3> DEFINE x == More(w, n, q.apiId)
    <3>2. CountsAs(x, n + 1, q, more) /\ \A a \in 0 .. n : x[a] = w[a] /\ (Stepped(w, a) => Stepped(x, a))
      <4>1. Counting(w, n, q, loose, more)
        BY <2>2, <3>1 DEF Counting
      <4> QED BY <1>1, <4>1, OneMore DEF Prolongs
    <3> HIDE DEF x
    <3> QED BY <2>2, <3>2 DEF Extends
  <2> QED BY <2>1, <2>2
<1>3. ASSUME NEW type \in {"MALLOC", "FREE"} PROVE LastOf(x, m, q, p, type, S, B, more)
  <2>1. LastOf(w, n, q, p, type, R, A, loose)
    BY DEF Tracks
  <2>2. Of(R, p, type) \subseteq Of(S, p, type)
        /\ \A g \in Of(R, p, type) : A[g.id] \in 1 .. n /\ B[g.id] = A[g.id]
    BY DEF Of, Grows, Known
  <2>3. \A g \in Of(R, p, type) : x[B[g.id]] = w[A[g.id]]
    <3>1. \A a \in 1 .. n : x[a] = w[a]
      BY <1>2 DEF Extends
    <3> QED BY <2>2, <3>1
  <2>4. TmpOf(q, type) # 0 => \E g \in Of(S, p, type) : x[B[g.id]] = TmpOf(q, type)
    BY <2>1, <2>2, <2>3 DEF LastOf
  <2>5. type \in q.apiTmp => q.isOpStart /\ \E g \in Of(S, p, type) : B[g.id] = m
    BY <2>1, <2>2 DEF LastOf
  <2>6. ~more => \A g \in Of(S, p, type) :
                    B[g.id] <= TmpOf(q, type) \/ (B[g.id] = m /\ type \in q.apiTmp)
    <3> SUFFICES ASSUME ~more, NEW g \in Of(S, p, type)
                 PROVE  B[g.id] <= TmpOf(q, type) \/ (B[g.id] = m /\ type \in q.apiTmp)
      OBVIOUS
    <3>1. m = n /\ g \in Of(R, p, type) /\ ~loose
      OBVIOUS
    <3> QED BY <2>1, <2>2, <3>1 DEF LastOf
  <2>7. TmpOf(q, type) \in 0 .. q.apiId /\ (q.isOpStart => TmpOf(q, type) < q.apiId)
    BY <2>1 DEF LastOf
  <2> QED BY <2>4, <2>5, <2>6, <2>7 DEF LastOf
<1> QED BY <1>2, <1>3 DEF Tracks

\* An event outside of operators is an API of its own.
LEMMA LoneEvent ==
    ASSUME NEW n \in Nat, NEW q \in PidState, NEW p, NEW R, NEW A, NEW loose, NEW w,
           Tracks(w, n, q, p, R, A, loose), Known(R, A, n, p), ~q.isOpStart,
           NEW e, e.pool = p, NEW B, Grows(R \cup {e}, B, R, A), B[e.id] = n + 1
    PROVE  LET r == AfterMemoryEvent(q, e)
           IN  /\ \A type \in {"MALLOC", "FREE"} \ {e.type} : TmpOf(r, type) < r.apiId
               /\ \E x : /\ Tracks(x, n + 1, r, p, R \cup {e}, B, loose) /\ Extends(x, n + 1, w, n)
                         /\ Stepped(x, n + 1)
<1> DEFINE r == AfterMemoryEvent(q, e)
           S == R \cup {e}
<1>1. CountsAs(w, n, q, loose) /\ w[n] = q.apiId /\ q.apiId \in 0 .. n
  <2>1. w \in [0 .. n -> 0 .. n] /\ w[n] = q.apiId
    BY DEF CountsAs, Tracks
  <2> QED BY <2>1 DEF Tracks
<1>2. /\ r.apiId = q.apiId + 1 /\ ~r.isOpStart /\ r.apiTmp = {}
      /\ \A type \in {"MALLOC", "FREE"} :
            TmpOf(r, type) = IF type \in q.apiTmp \cup {e.type} THEN q.apiId + 1 ELSE TmpOf(q, type)
  BY PidAfterEvent
<1> HIDE DEF r
<1>3. ASSUME NEW type \in {"MALLOC", "FREE"}
      PROVE  /\ type = e.type => TmpOf(r, type) = q.apiId + 1
             /\ type # e.type => TmpOf(r, type) = TmpOf(q, type)
             /\ TmpOf(q, type) \in 0 .. q.apiId /\ type \notin q.apiTmp
             /\ LastOf(w, n, q, p, type, R, A, loose)
  <2>1. LastOf(w, n, q, p, type, R, A, loose)
    BY DEF Tracks
  <2>2. type \notin q.apiTmp /\ TmpOf(q, type) \in 0 .. q.apiId
    BY <2>1 DEF LastOf
  <2> QED BY <1>2, <2>1, <2>2
<1>4. ASSUME NEW type \in {"MALLOC", "FREE"} \ {e.type} PROVE TmpOf(r, type) < r.apiId
  <2>1. TmpOf(r, type) = TmpOf(q, type) /\ TmpOf(q, type) \in 0 .. q.apiId
    BY <1>3
  <2>2. r.apiId = q.apiId + 1 /\ q.apiId \in Nat
    BY <1>1, <1>2
  <2> HIDE DEF r
  <2> QED BY <2>1, <2>2
<1> DEFINE x == More(w, n, r.apiId)
<1>5. /\ CountsAs(x, n + 1, r, loose) /\ x[n + 1] = r.apiId /\ Stepped(x, n + 1)
      /\ \A a \in 0 .. n : x[a] = w[a] /\ (Stepped(w, a) => Stepped(x, a))
  <2>1. Counting(w, n, r, loose, loose)
    BY <1>1, <1>2 DEF Counting
  <2> QED BY <1>1, <1>2, <2>1, OneMore DEF Prolongs
<1> HIDE DEF x
<1>6. ASSUME NEW type \in {"MALLOC", "FREE"} PROVE LastOf(x, n + 1, r, p, type, S, B, loose)
  <2>1. Of(R, p, type) \subseteq Of(S, p, type)
        /\ \A g \in Of(R, p, type) : A[g.id] \in 1 .. n /\ B[g.id] = A[g.id]
    BY DEF Of, Grows, Known
  <2>2. \A g \in Of(R, p, type) : x[B[g.id]] = w[A[g.id]]
    BY <1>5, <2>1
  <2>3. TmpOf(r, type) \in 0 .. r.apiId
    <3>1. TmpOf(r, type) = q.apiId + 1 \/ TmpOf(r, type) = TmpOf(q, type)
      BY <1>3
    <3> QED BY <1>1, <1>2, <1>3, <3>1
  <2>4. type = e.type => e \in Of(S, p, type) /\ x[B[e.id]] = TmpOf(r, type)
    BY <1>2, <1>3, <1>5 DEF Of
  <2>5. type # e.type => Of(S, p, type) = Of(R, p, type)
    BY DEF Of
  <2>6. TmpOf(r, type) # 0 => \E g \in Of(S, p, type) : x[B[g.id]] = TmpOf(r, type)
    <3>1. CASE type = e.type
      BY <2>4, <3>1
    <3>2. CASE type # e.type
      <4>1. TmpOf(q, type) # 0 => \E g \in Of(R, p, type) : w[A[g.id]] = TmpOf(q, type)
        BY <1>3 DEF LastOf
      <4> QED BY <1>3, <2>1, <2>2, <3>2, <4>1
    <3> QED BY <3>1, <3>2
  <2>7. ~loose => \A g \in Of(S, p, type) : B[g.id] <= TmpOf(r, type)
    <3> SUFFICES ASSUME ~loose, NEW g \in Of(S, p, type) PROVE B[g.id] <= TmpOf(r, type)
      OBVIOUS
    <3>0. q.apiId = n
      BY <1>1 DEF CountsAs
    <3>1. CASE type = e.type
      <4>1. g = e \/ g \in Of(R, p, type)
        BY DEF Of
      <4>2. TmpOf(r, type) = n + 1
        BY <1>3, <3>0, <3>1
      <4> QED BY <2>1, <4>1, <4>2
    <3>2. CASE type # e.type
      <4>1. g \in Of(R, p, type)
        BY <2>5, <3>2
      <4>2. A[g.id] <= TmpOf(q, type)
        BY <1>3, <4>1 DEF LastOf
      <4> QED BY <1>3, <2>1, <3>2, <4>1, <4>2
    <3> QED BY <3>1, <3>2
  <2> QED BY <1>2, <2>3, <2>6, <2>7 DEF LastOf
<1>7. Tracks(x, n + 1, r, p, S, B, loose)
  BY <1>5, <1>6 DEF Tracks
<1>8. Extends(x, n + 1, w, n)
  BY <1>5 DEF Extends
<1> QED BY <1>4, <1>5, <1>7, <1>8 DEF r

\* An event of a running operator belongs to it.
LEMMA InnerEvent ==
    ASSUME NEW n \in Nat, NEW q \in PidState, NEW p, NEW R, NEW A, NEW loose, NEW w,
           Tracks(w, n, q, p, R, A, loose), Known(R, A, n, p), q.isOpStart,
           NEW e, e.pool = p, NEW B, Grows(R \cup {e}, B, R, A), B[e.id] = n
    PROVE  LET r == AfterMemoryEvent(q, e)
           IN  /\ \A type \in {"MALLOC", "FREE"} : TmpOf(r, type) < r.apiId
               /\ Tracks(w, n, r, p, R \cup {e}, B, loose) /\ Stepped(w, n)
<1> DEFINE r == AfterMemoryEvent(q, e)
           S == R \cup {e}
<1>1. CountsAs(w, n, q, loose) /\ w[n] = q.apiId /\ q.apiId \in 0 .. n /\ Stepped(w, n)
  <2>1. w \in [0 .. n -> 0 .. n] /\ w[n] = q.apiId
    BY DEF CountsAs, Tracks
  <2> QED BY <2>1 DEF Tracks, CountsAs
<1>2. /\ r.apiId = q.apiId /\ r.isOpStart /\ r.apiTmp = q.apiTmp \cup {e.type}
      /\ \A type \in {"MALLOC", "FREE"} : TmpOf(r, type) = TmpOf(q, type)
  BY PidAfterEvent
<1> HIDE DEF r
<1>3. CountsAs(w, n, r, loose)
  BY <1>1, <1>2 DEF CountsAs
<1>4. ASSUME NEW type \in {"MALLOC", "FREE"}
      PROVE  LastOf(w, n, r, p, type, S, B, loose) /\ TmpOf(r, type) < r.apiId
  <2>1. LastOf(w, n, q, p, type, R, A, loose)
    BY DEF Tracks
  <2>2. Of(R, p, type) \subseteq Of(S, p, type)
        /\ (\A g \in Of(R, p, type) : A[g.id] \in 1 .. n /\ B[g.id] = A[g.id])
        /\ \A g \in Of(S, p, type) : g \in Of(R, p, type) \/ (g = e /\ type = e.type)
    BY DEF Of, Grows, Known
  <2>3. TmpOf(r, type) \in 0 .. r.apiId /\ TmpOf(r, type) < r.apiId
    BY <1>2, <2>1 DEF LastOf
  <2>4. TmpOf(r, type) # 0 => \E g \in Of(S, p, type) : w[B[g.id]] = TmpOf(r, type)
    <3>1. TmpOf(q, type) # 0 => \E g \in Of(R, p, type) : w[A[g.id]] = TmpOf(q, type)
      BY <2>1 DEF LastOf
    <3> QED BY <1>2, <2>2, <3>1
  <2>5. type \in r.apiTmp => \E g \in Of(S, p, type) : B[g.id] = n
    <3>1. CASE type = e.type
      <4>1. e \in Of(S, p, type)
        BY <3>1 DEF Of
      <4> QED BY <4>1
    <3>2. CASE type # e.type
      <4>1. type \in q.apiTmp => \E g \in Of(R, p, type) : A[g.id] = n
        BY <2>1 DEF LastOf
      <4> QED BY <1>2, <2>2, <3>2, <4>1
    <3> QED BY <3>1, <3>2
  <2>6. ~loose => \A g \in Of(S, p, type) :
                    B[g.id] <= TmpOf(r, type) \/ (B[g.id] = n /\ type \in r.apiTmp)
    <3> SUFFICES ASSUME ~loose, NEW g \in Of(S, p, type)
                 PROVE  B[g.id] <= TmpOf(r, type) \/ (B[g.id] = n /\ type \in r.apiTmp)
      OBVIOUS
    <3>1. CASE g \in Of(R, p, type)
      <4>1. A[g.id] <= TmpOf(q, type) \/ (A[g.id] = n /\ type \in q.apiTmp)
        BY <2>1, <3>1 DEF LastOf
      <4> QED BY <1>2, <2>2, <3>1, <4>1
    <3>2. CASE g = e /\ type = e.type
      BY <1>2, <3>2
    <3> QED BY <2>2, <3>1, <3>2
  <2>7. type \in r.apiTmp => r.isOpStart
    BY <1>2
  <2> QED BY <2>3, <2>4, <2>5, <2>6, <2>7 DEF LastOf
<1> QED BY <1>1, <1>3, <1>4 DEF Tracks, r

\* An operator starts an API, and its end classifies what came in it.
LEMMA Started ==
    ASSUME NEW n \in Nat, NEW q \in PidState, NEW p, NEW R, NEW A, NEW loose, NEW w,
           Tracks(w, n, q, p, R, A, loose), Known(R, A, n, p), ~q.isOpStart,
           NEW B, Grows(R, B, R, A)
    PROVE  LET r == HandleOpLaunchEvent(q, TRUE)
           IN  r.isOpStart /\ \E x : Tracks(x, n + 1, r, p, R, B, loose) /\ Extends(x, n + 1, w, n)
<1> DEFINE r == HandleOpLaunchEvent(q, TRUE)
<1>1. CountsAs(w, n, q, loose) /\ w[n] = q.apiId /\ q.apiId \in 0 .. n
  <2>1. w \in [0 .. n -> 0 .. n] /\ w[n] = q.apiId
    BY DEF CountsAs, Tracks
  <2> QED BY <2>1 DEF Tracks
<1>2. /\ r.apiId = q.apiId + 1 /\ r.isOpStart /\ r.apiTmp = q.apiTmp
      /\ \A type \in {"MALLOC", "FREE"} : TmpOf(r, type) = TmpOf(q, type)
  BY PidAfterOperator
<1> HIDE DEF r
<1> DEFINE x == More(w, n, r.apiId)
<1>3. /\ CountsAs(x, n + 1, r, loose)
      /\ \A a \in 0 .. n : x[a] = w[a] /\ (Stepped(w, a) => Stepped(x, a))
  <2>1. Counting(w, n, r, loose, loose)
    BY <1>1, <1>2 DEF Counting
  <2> QED BY <1>1, <1>2, <2>1, OneMore DEF Prolongs
<1> HIDE DEF x
<1>4. ASSUME NEW type \in {"MALLOC", "FREE"} PROVE LastOf(x, n + 1, r, p, type, R, B, loose)
  <2>1. LastOf(w, n, q, p, type, R, A, loose)
    BY DEF Tracks
  <2>2. \A g \in Of(R, p, type) : A[g.id] \in 1 .. n /\ B[g.id] = A[g.id]
    BY DEF Of, Grows, Known
  <2>3. \A g \in Of(R, p, type) : x[B[g.id]] = w[A[g.id]]
    BY <1>3, <2>2
  <2>4. type \notin r.apiTmp /\ type \notin q.apiTmp
    BY <1>2, <2>1 DEF LastOf
  <2>5. TmpOf(r, type) \in 0 .. r.apiId /\ TmpOf(r, type) < r.apiId
    <3>1. TmpOf(q, type) \in 0 .. q.apiId
      BY <2>1 DEF LastOf
    <3> QED BY <1>1, <1>2, <3>1
  <2>6. TmpOf(r, type) # 0 => \E g \in Of(R, p, type) : x[B[g.id]] = TmpOf(r, type)
    <3>1. TmpOf(q, type) # 0 => \E g \in Of(R, p, type) : w[A[g.id]] = TmpOf(q, type)
      BY <2>1 DEF LastOf
    <3> QED BY <1>2, <2>3, <3>1
  <2>7. ~loose => \A g \in Of(R, p, type) : B[g.id] <= TmpOf(r, type)
    <3>1. ~loose => \A g \in Of(R, p, type) : A[g.id] <= TmpOf(q, type)
      BY <2>1, <2>4 DEF LastOf
    <3> QED BY <1>2, <2>2, <3>1
  <2> QED BY <2>4, <2>5, <2>6, <2>7 DEF LastOf
<1>5. Tracks(x, n + 1, r, p, R, B, loose) /\ Extends(x, n + 1, w, n)
  BY <1>3, <1>4 DEF Tracks, Extends
<1> QED BY <1>2, <1>5 DEF r

LEMMA Ended ==
    ASSUME NEW n \in Nat, NEW q \in PidState, NEW p, NEW R, NEW A, NEW loose, NEW w,
           Tracks(w, n, q, p, R, A, loose), Known(R, A, n, p), q.isOpStart,
           NEW B, Grows(R, B, R, A)
    PROVE  LET r == HandleOpLaunchEvent(q, FALSE)
           IN  ~r.isOpStart /\ Tracks(w, n, r, p, R, B, loose)
<1> DEFINE r == HandleOpLaunchEvent(q, FALSE)
<1>1. CountsAs(w, n, q, loose) /\ w[n] = q.apiId /\ q.apiId \in 0 .. n
  <2>1. w \in [0 .. n -> 0 .. n] /\ w[n] = q.apiId
    BY DEF CountsAs, Tracks
  <2> QED BY <2>1 DEF Tracks
<1>2. /\ r.apiId = q.apiId /\ ~r.isOpStart /\ r.apiTmp = {}
      /\ \A type \in {"MALLOC", "FREE"} :
            TmpOf(r, type) = IF type \in q.apiTmp THEN q.apiId ELSE TmpOf(q, type)
  BY PidAfterOperator
<1> HIDE DEF r
<1>3. CountsAs(w, n, r, loose)
  BY <1>1, <1>2 DEF CountsAs
<1>4. ASSUME NEW type \in {"MALLOC", "FREE"} PROVE LastOf(w, n, r, p, type, R, B, loose)
  <2>1. LastOf(w, n, q, p, type, R, A, loose)
    BY DEF Tracks
  <2>2. \A g \in Of(R, p, type) : A[g.id] \in 1 .. n /\ B[g.id] = A[g.id]
    BY DEF Of, Grows, Known
  <2>3. TmpOf(q, type) \in 0 .. q.apiId /\ (type \in q.apiTmp => \E g \in Of(R, p, type) : A[g.id] = n)
        /\ (TmpOf(q, type) # 0 => \E g \in Of(R, p, type) : w[A[g.id]] = TmpOf(q, type))
    BY <2>1 DEF LastOf
  <2>4. TmpOf(r, type) \in 0 .. r.apiId
    BY <1>1, <1>2, <2>3
  <2>5. TmpOf(r, type) # 0 => \E g \in Of(R, p, type) : w[B[g.id]] = TmpOf(r, type)
    <3>1. CASE type \in q.apiTmp
      BY <1>1, <1>2, <2>2, <2>3, <3>1
    <3>2. CASE type \notin q.apiTmp
      BY <1>2, <2>2, <2>3, <3>2
    <3> QED BY <3>1, <3>2
  <2>6. ~loose => \A g \in Of(R, p, type) : B[g.id] <= TmpOf(r, type)
    <3> SUFFICES ASSUME ~loose, NEW g \in Of(R, p, type) PROVE B[g.id] <= TmpOf(r, type)
      OBVIOUS
    <3>1. q.apiId = n
      BY <1>1 DEF CountsAs
    <3>2. CASE type \in q.apiTmp
      BY <1>2, <2>2, <3>1, <3>2
    <3>3. CASE type \notin q.apiTmp
      <4>1. A[g.id] <= TmpOf(q, type)
        BY <2>1, <3>3 DEF LastOf
      <4> QED BY <1>2, <2>2, <3>3, <4>1
    <3> QED BY <3>2, <3>3
  <2> QED BY <1>2, <2>4, <2>5, <2>6 DEF LastOf
<1> QED BY <1>2, <1>3, <1>4 DEF Tracks, r

-----------------------------------------------------------------------------
(***************************************************************************)
(* The verdicts: what EarlyAllocation and the others compute from the      *)
(* numbers in the notes of a block, against the definition over the true   *)
(* APIs of all recorded events.  B is the set of the events of the block.  *)
(***************************************************************************)
Gap(R, A, e, f, type) == \E g \in Of(R, e.pool, type) : A[e.id] < A[g.id] /\ A[g.id] < A[f.id]

FirstIn(A, B, m, f) ==
    /\ A[f.id] > A[m.id]
    /\ \A g \in B : g.type = "ACCESS" /\ A[g.id] > A[m.id] => f.id <= g.id

EarlyBy(R, A, B) ==
    \E m, f \in B : m.type = "MALLOC" /\ f.type = "ACCESS" /\ FirstIn(A, B, m, f) /\ Gap(R, A, m, f, "FREE")

LateBy(R, A, B) ==
    \E f, g \in B : /\ f.type = "ACCESS" /\ g.type = "FREE"
                    /\ \A h \in B : h.type = "ACCESS" => h.id <= f.id
                    /\ Gap(R, A, f, g, "MALLOC")

IdleBy(A, B) ==
    \E f, g \in B : /\ f.type = "ACCESS" /\ g.type = "ACCESS" /\ f.id < g.id
                    /\ \A h \in B : h.type = "ACCESS" => h.id <= f.id \/ g.id <= h.id
                    /\ A[g.id] - A[f.id] > Threshold

\* The marks are none but those that the block deserves, and all of them unless events are missing.
IsMarked(marks, verdict, holds, loose) ==
    /\ Seqs!Contains(marks, verdict) => holds
    /\ ~loose /\ holds => Seqs!Contains(marks, verdict)

RightBy(R, A, loose, marks, B) ==
    /\ IsMarked(marks, "early_allocation", EarlyBy(R, A, B), loose)
    /\ IsMarked(marks, "late_deallocation", LateBy(R, A, B), loose)
    /\ IsMarked(marks, "temporary_idleness", IdleBy(A, B), loose)

EventsOf(s) == {s[i] : i \in 1 .. Len(s)}

\* A block's events in order: a MALLOC, accesses, and the latest event.
InOrder(A, p, n, s) ==
    /\ \A i \in 1 .. Len(s) : s[i].pool = p /\ s[i].id \in Nat /\ A[s[i].id] \in 1 .. n
    /\ \A i, j \in 1 .. Len(s) : i < j => s[i].id < s[j].id /\ A[s[i].id] <= A[s[j].id]
    /\ \A i \in 1 .. Len(s) - 1 : s[i].type = IF i = 1 THEN "MALLOC" ELSE "ACCESS"

\* What has been noted of the block when its latest event is judged.
Judging(w, n, q, p, R, A, loose, s, ids) ==
    /\ Tracks(w, n, q, p, R, A, loose) /\ Known(R, A, n, p)
    /\ InOrder(A, p, n, s) /\ Len(ids) = Len(s) /\ Len(s) \in Nat \ {0, 1}
    /\ s[Len(s)].type \in {"ACCESS", "FREE"} /\ A[s[Len(s)].id] = n
    /\ \A type \in {"MALLOC", "FREE"} \ {s[Len(s)].type} : TmpOf(q, type) < q.apiId
    /\ \A i \in 1 .. Len(s) : ids[i] = w[A[s[i].id]] /\ Stepped(w, A[s[i].id])

\* Numbers and true APIs order the events alike.
LEMMA Ordered ==
    ASSUME NEW n \in Nat, NEW q, NEW p, NEW R, NEW A, NEW loose, NEW w, NEW s, NEW ids,
           Judging(w, n, q, p, R, A, loose, s, ids)
    PROVE  /\ \A i \in 1 .. Len(s) : ids[i] \in Nat /\ A[s[i].id] \in 1 .. n
           /\ \A i, j \in 1 .. Len(s) :
                 /\ ids[i] < ids[j] <=> A[s[i].id] < A[s[j].id]
                 /\ A[s[i].id] < A[s[j].id] => i < j
                 /\ i <= j => ids[i] <= ids[j] /\ ids[j] - ids[i] <= A[s[j].id] - A[s[i].id]
           /\ \A i \in 1 .. Len(s), g \in R :
                 g.pool = p => /\ w[A[g.id]] \in Nat /\ A[g.id] \in 1 .. n
                               /\ ids[i] < w[A[g.id]] => A[s[i].id] < A[g.id]
                               /\ w[A[g.id]] < ids[i] => A[g.id] < A[s[i].id]
           /\ q.apiId = w[n] /\ ids[Len(s)] = q.apiId
           /\ ~loose => \A a \in 0 .. n : w[a] = a
<1>1. CountsAs(w, n, q, loose) /\ w \in [0 .. n -> 0 .. n]
  BY DEF Judging, Tracks, CountsAs
<1>2. ASSUME NEW i \in 1 .. Len(s)
      PROVE  A[s[i].id] \in 1 .. n /\ A[s[i].id] \in 0 .. n /\ ids[i] = w[A[s[i].id]] /\ ids[i] \in Nat
             /\ Stepped(w, A[s[i].id])
  <2>1. A[s[i].id] \in 1 .. n
    BY DEF Judging, InOrder
  <2>2. A[s[i].id] \in 0 .. n
    BY <2>1
  <2>3. ids[i] = w[A[s[i].id]] /\ Stepped(w, A[s[i].id])
    BY DEF Judging
  <2>4. w[A[s[i].id]] \in 0 .. n
    BY <1>1, <2>2
  <2> QED BY <2>1, <2>2, <2>3, <2>4
<1>3. /\ \A a, b \in 0 .. n : a <= b => w[a] <= w[b] /\ w[b] - w[a] <= b - a
      /\ \A a, b \in 0 .. n : a < b /\ Stepped(w, b) => w[a] < w[b]
  BY <1>1, Counted
<1>4. \A a \in 0 .. n : w[a] \in Nat
  BY <1>1
<1>5. ASSUME NEW i \in 1 .. Len(s), NEW b \in 0 .. n
      PROVE  /\ ids[i] < w[b] => A[s[i].id] < b
             /\ w[b] < ids[i] => b < A[s[i].id]
  <2>1. A[s[i].id] \in 0 .. n /\ ids[i] = w[A[s[i].id]]
    BY <1>2
  <2>2. /\ b <= A[s[i].id] => w[b] <= w[A[s[i].id]]
        /\ A[s[i].id] <= b => w[A[s[i].id]] <= w[b]
    BY <1>3, <2>1
  <2> QED BY <1>2, <1>4, <2>1, <2>2
<1>6. ASSUME NEW i \in 1 .. Len(s), NEW j \in 1 .. Len(s)
      PROVE  /\ ids[i] < ids[j] <=> A[s[i].id] < A[s[j].id]
             /\ A[s[i].id] < A[s[j].id] => i < j
             /\ i <= j => ids[i] <= ids[j] /\ ids[j] - ids[i] <= A[s[j].id] - A[s[i].id]
  <2> DEFINE a == A[s[i].id]
             b == A[s[j].id]
  <2>1. a \in 0 .. n /\ b \in 0 .. n /\ ids[i] = w[a] /\ ids[j] = w[b] /\ Stepped(w, b)
    BY <1>2
  <2>2. /\ j < i => b <= a
        /\ i < j => a <= b
    BY DEF Judging, InOrder
  <2>3. i <= j => a <= b
    <3>1. i = j => a = b
      OBVIOUS
    <3>2. Len(s) \in Nat
      BY DEF Judging
    <3> QED BY <2>1, <2>2, <3>1, <3>2
  <2>4. a < b => i < j
    <3>1. i = j => a = b
      OBVIOUS
    <3>2. Len(s) \in Nat
      BY DEF Judging
    <3> HIDE DEF a, b
    <3> QED BY <2>1, <2>2, <3>1, <3>2
  <2> HIDE DEF a, b
  <2>5. w[a] \in Nat /\ w[b] \in Nat
    BY <1>4, <2>1
  <2>6. /\ a <= b => w[a] <= w[b] /\ w[b] - w[a] <= b - a
        /\ b <= a => w[b] <= w[a]
        /\ a < b => w[a] < w[b]
    BY <1>3, <2>1
  <2>7. ids[i] < ids[j] <=> a < b
    BY <2>1, <2>5, <2>6
  <2> QED BY <2>1, <2>3, <2>4, <2>6, <2>7 DEF a, b
<1>7. ASSUME NEW i \in 1 .. Len(s), NEW g \in R, g.pool = p
      PROVE  /\ w[A[g.id]] \in Nat /\ A[g.id] \in 1 .. n
             /\ ids[i] < w[A[g.id]] => A[s[i].id] < A[g.id]
             /\ w[A[g.id]] < ids[i] => A[g.id] < A[s[i].id]
  <2>1. A[g.id] \in 1 .. n
    BY <1>7 DEF Judging, Known
  <2>2. A[g.id] \in 0 .. n
    BY <2>1
  <2> QED BY <1>4, <1>5, <2>1, <2>2
<1>8. q.apiId = w[n] /\ ids[Len(s)] = q.apiId
  <2>1. q.apiId = w[n]
    BY <1>1 DEF CountsAs
  <2>2. Len(s) \in 1 .. Len(s) /\ A[s[Len(s)].id] = n
    BY DEF Judging
  <2> QED BY <1>2, <2>1, <2>2
<1>9. ~loose => \A a \in 0 .. n : w[a] = a
  BY <1>1 DEF CountsAs
<1> QED BY <1>2, <1>6, <1>7, <1>8, <1>9

Earlier(s) == {s[i] : i \in 1 .. Len(s) - 1}

\* What the latest event changes for a block, whatever has been noted.
LEMMA LatestEvent ==
    ASSUME NEW n \in Nat, NEW p, NEW R, NEW A, NEW s, InOrder(A, p, n, s), Len(s) \in Nat \ {0, 1},
           s[Len(s)].type \in {"ACCESS", "FREE"}
    PROVE  /\ EarlyBy(R, A, Earlier(s)) => EarlyBy(R, A, EventsOf(s))
           /\ IdleBy(A, Earlier(s)) => IdleBy(A, EventsOf(s))
           /\ ~LateBy(R, A, Earlier(s))
           /\ s[Len(s)].type = "ACCESS" => ~LateBy(R, A, EventsOf(s))
           /\ s[Len(s)].type = "FREE" =>
                 /\ EarlyBy(R, A, EventsOf(s)) => EarlyBy(R, A, Earlier(s))
                 /\ IdleBy(A, EventsOf(s)) => IdleBy(A, Earlier(s))
<1> DEFINE N == Len(s)
<1>1. /\ \A x \in Earlier(s) : x \in EventsOf(s) /\ x.id <= s[N].id
      /\ \A x \in EventsOf(s) : x \in Earlier(s) \/ x = s[N]
      /\ \A x \in Earlier(s) : x.type \in {"MALLOC", "ACCESS"}
  <2>1. ASSUME NEW x \in Earlier(s)
        PROVE  x \in EventsOf(s) /\ x.id <= s[N].id /\ x.type \in {"MALLOC", "ACCESS"}
    <3>1. PICK i \in 1 .. N - 1 : x = s[i]
      BY DEF Earlier
    <3>2. i \in 1 .. N /\ N \in 1 .. N /\ i < N
      OBVIOUS
    <3>3. s[i].id < s[N].id /\ s[i].id \in Nat /\ s[N].id \in Nat
      BY <3>2 DEF InOrder
    <3>4. s[i].type = IF i = 1 THEN "MALLOC" ELSE "ACCESS"
      BY DEF InOrder
    <3> QED BY <3>1, <3>2, <3>3, <3>4 DEF EventsOf
  <2>2. ASSUME NEW x \in EventsOf(s) PROVE x \in Earlier(s) \/ x = s[N]
    <3>1. PICK i \in 1 .. N : x = s[i]
      BY DEF EventsOf
    <3>2. i \in 1 .. N - 1 \/ i = N
      OBVIOUS
    <3> QED BY <3>1, <3>2 DEF Earlier
  <2> QED BY <2>1, <2>2
<1>2. EarlyBy(R, A, Earlier(s)) => EarlyBy(R, A, EventsOf(s))
  <2> SUFFICES ASSUME EarlyBy(R, A, Earlier(s)) PROVE EarlyBy(R, A, EventsOf(s))
    OBVIOUS
  <2>1. PICK m \in Earlier(s), f \in Earlier(s) :
           m.type = "MALLOC" /\ f.type = "ACCESS" /\ FirstIn(A, Earlier(s), m, f) /\ Gap(R, A, m, f, "FREE")
    BY DEF EarlyBy
  <2>2. FirstIn(A, EventsOf(s), m, f)
    BY <1>1, <2>1 DEF FirstIn
  <2> QED BY <1>1, <2>1, <2>2 DEF EarlyBy
<1>3. IdleBy(A, Earlier(s)) => IdleBy(A, EventsOf(s))
  BY <1>1 DEF IdleBy
<1>4. ~LateBy(R, A, Earlier(s))
  BY <1>1 DEF LateBy
<1>5. s[N].type = "ACCESS" => ~LateBy(R, A, EventsOf(s))
  BY <1>1 DEF LateBy
<1>6. s[N].type = "FREE" /\ EarlyBy(R, A, EventsOf(s)) => EarlyBy(R, A, Earlier(s))
  <2> SUFFICES ASSUME s[N].type = "FREE", EarlyBy(R, A, EventsOf(s)) PROVE EarlyBy(R, A, Earlier(s))
    OBVIOUS
  <2>1. PICK m \in EventsOf(s), f \in EventsOf(s) :
           m.type = "MALLOC" /\ f.type = "ACCESS" /\ FirstIn(A, EventsOf(s), m, f) /\ Gap(R, A, m, f, "FREE")
    BY DEF EarlyBy
  <2>2. FirstIn(A, Earlier(s), m, f)
    BY <1>1, <2>1 DEF FirstIn
  <2>3. m \in Earlier(s) /\ f \in Earlier(s)
    BY <1>1, <2>1
  <2> QED BY <2>1, <2>2, <2>3 DEF EarlyBy
<1>7. s[N].type = "FREE" /\ IdleBy(A, EventsOf(s)) => IdleBy(A, Earlier(s))
  BY <1>1 DEF IdleBy
<1> QED BY <1>2, <1>3, <1>4, <1>5, <1>6, <1>7

\* The places of the events of a block that is being judged.
InPlace(p, s) ==
    /\ \A x : x \in EventsOf(s) <=> \E i \in 1 .. Len(s) : x = s[i]
    /\ \A i \in 1 .. Len(s) : i < Len(s) => s[i] \in Earlier(s)
    /\ Earlier(s) \subseteq EventsOf(s)
    /\ \A i, j \in 1 .. Len(s) : s[i].id <= s[j].id <=> i <= j
    /\ \A i \in 1 .. Len(s) : s[i].id \in Nat /\ s[i].pool = p
    /\ \A i \in 1 .. Len(s) : s[i].type = "MALLOC" <=> i = 1
    /\ \A i \in 1 .. Len(s) : 1 < i /\ i < Len(s) => s[i].type = "ACCESS"
    /\ \A i \in 1 .. Len(s) : s[i].type = "FREE" => i = Len(s)
    /\ 1 \in 1 .. Len(s) /\ Len(s) \in 1 .. Len(s) /\ Len(s) - 1 \in 1 .. Len(s)

LEMMA Placed ==
    ASSUME NEW n \in Nat, NEW p, NEW A, NEW s, InOrder(A, p, n, s), Len(s) \in Nat \ {0, 1},
           s[Len(s)].type \in {"ACCESS", "FREE"}
    PROVE  InPlace(p, s)
<1>1. \A x : x \in EventsOf(s) <=> \E i \in 1 .. Len(s) : x = s[i]
  BY DEF EventsOf
<1>2. \A i \in 1 .. Len(s) : i < Len(s) => s[i] \in Earlier(s)
  <2>1. \A i \in 1 .. Len(s) : i < Len(s) => i \in 1 .. Len(s) - 1
    OBVIOUS
  <2> QED BY <2>1 DEF Earlier
<1>3. Earlier(s) \subseteq EventsOf(s)
  <2>1. \A i \in 1 .. Len(s) - 1 : i \in 1 .. Len(s)
    OBVIOUS
  <2> QED BY <2>1 DEF Earlier, EventsOf
<1>4. \A i \in 1 .. Len(s) : s[i].id \in Nat /\ s[i].pool = p
  BY DEF InOrder
<1>5. ASSUME NEW i \in 1 .. Len(s), NEW j \in 1 .. Len(s) PROVE s[i].id <= s[j].id <=> i <= j
  <2>1. /\ i < j => s[i].id < s[j].id
        /\ j < i => s[j].id < s[i].id
    BY DEF InOrder
  <2>2. i = j => s[i].id = s[j].id
    OBVIOUS
  <2> QED BY <1>4, <2>1, <2>2
<1>6. \A i \in 1 .. Len(s) : i < Len(s) => s[i].type = IF i = 1 THEN "MALLOC" ELSE "ACCESS"
  <2>1. \A i \in 1 .. Len(s) : i < Len(s) => i \in 1 .. Len(s) - 1
    OBVIOUS
  <2> QED BY <2>1 DEF InOrder
<1>7. ASSUME NEW i \in 1 .. Len(s)
      PROVE  (s[i].type = "MALLOC" <=> i = 1) /\ (s[i].type = "FREE" => i = Len(s))
  <2>1. CASE i < Len(s)
    BY <1>6, <2>1
  <2>2. CASE i = Len(s)
    <3>1. i # 1 /\ s[i].type \in {"ACCESS", "FREE"}
      BY <2>2
    <3> QED BY <2>2, <3>1
  <2> QED BY <2>1, <2>2
<1>8. \A i \in 1 .. Len(s) : 1 < i /\ i < Len(s) => s[i].type = "ACCESS"
  BY <1>6
<1>9. 1 \in 1 .. Len(s) /\ Len(s) \in 1 .. Len(s) /\ Len(s) - 1 \in 1 .. Len(s)
  <2>1. \A N \in Nat \ {0, 1} : 1 \in 1 .. N /\ N \in 1 .. N /\ N - 1 \in 1 .. N
    OBVIOUS
  <2> QED BY <2>1
<1> QED BY <1>1, <1>2, <1>3, <1>4, <1>5, <1>7, <1>8, <1>9 DEF InPlace

\* EarlyAllocation: some FREE, in an API of its own, between the MALLOC and the first access of
\* another API.
LEMMA EarlyIsRight ==
    ASSUME NEW n \in Nat, NEW q, NEW p, NEW R, NEW A, NEW loose, NEW w, NEW s, NEW ids,
           Judging(w, n, q, p, R, A, loose, s, ids)
    PROVE  /\ EarlyAllocation(q, s, ids) => EarlyBy(R, A, EventsOf(s))
           /\ s[Len(s)].type = "ACCESS" /\ ~loose /\ EarlyBy(R, A, EventsOf(s))
              => EarlyBy(R, A, Earlier(s)) \/ EarlyAllocation(q, s, ids)
<1> DEFINE N == Len(s)
           Tmp == TmpOf(q, "FREE")
<1>1. /\ \A x : x \in EventsOf(s) <=> \E i \in 1 .. N : x = s[i]
      /\ \A i \in 1 .. N : i < N => s[i] \in Earlier(s)
      /\ Earlier(s) \subseteq EventsOf(s)
      /\ \A i, j \in 1 .. N : s[i].id <= s[j].id <=> i <= j
      /\ \A i \in 1 .. N : s[i].pool = p /\ (s[i].type = "MALLOC" <=> i = 1)
      /\ 1 \in 1 .. N /\ N \in 1 .. N /\ N \in Nat \ {0, 1}
  <2>1. InPlace(p, s) /\ N \in Nat \ {0, 1}
    BY Placed DEF Judging
  <2> QED BY <2>1 DEF InPlace
<1>2. /\ \A i \in 1 .. N : ids[i] \in Nat /\ A[s[i].id] \in 1 .. n
      /\ \A i, j \in 1 .. N : /\ ids[i] < ids[j] <=> A[s[i].id] < A[s[j].id]
                              /\ i <= j => ids[i] <= ids[j]
      /\ \A i \in 1 .. N, g \in R :
            g.pool = p => /\ w[A[g.id]] \in Nat /\ A[g.id] \in 1 .. n
                          /\ ids[i] < w[A[g.id]] => A[s[i].id] < A[g.id]
                          /\ w[A[g.id]] < ids[i] => A[g.id] < A[s[i].id]
      /\ q.apiId = w[n] /\ ids[N] = q.apiId
      /\ ~loose => \A a \in 0 .. n : w[a] = a
  BY Ordered
<1>3. LastOf(w, n, q, p, "FREE", R, A, loose)
  BY DEF Judging, Tracks
<1>4. q.freeApiTmpId = Tmp /\ Tmp \in 0 .. q.apiId /\ q.apiId \in Nat
  <2>1. q.freeApiTmpId = Tmp
    BY DEF TmpOf
  <2> QED BY <1>1, <1>2, <1>3, <2>1 DEF LastOf
<1> HIDE DEF Tmp
<1>5. \A i \in 1 .. N : i \in LaterAccesses(s, ids) <=> s[i].type = "ACCESS" /\ A[s[1].id] < A[s[i].id]
  <2> SUFFICES ASSUME NEW i \in 1 .. N PROVE ids[i] # ids[1] <=> A[s[1].id] < A[s[i].id]
    BY DEF LaterAccesses
  <2>1. ids[1] <= ids[i] /\ ids[1] \in Nat /\ ids[i] \in Nat /\ (ids[1] < ids[i] <=> A[s[1].id] < A[s[i].id])
    BY <1>1, <1>2
  <2> QED BY <2>1
<1>6. ASSUME EarlyAllocation(q, s, ids) PROVE EarlyBy(R, A, EventsOf(s))
  <2>1. PICK i \in LaterAccesses(s, ids) :
           /\ \A j \in LaterAccesses(s, ids) : i <= j
           /\ ids[1] < Tmp /\ Tmp < ids[i] /\ Tmp # 0
    BY <1>4, <1>6 DEF EarlyAllocation, NoApi
  <2>2. i \in 1 .. N /\ s[i].type = "ACCESS" /\ A[s[1].id] < A[s[i].id]
    <3>1. i \in 1 .. N
      BY DEF LaterAccesses
    <3> QED BY <1>5, <3>1
  <2>3. PICK g \in Of(R, p, "FREE") : w[A[g.id]] = Tmp
    BY <1>3, <2>1 DEF LastOf, Tmp
  <2>4. A[s[1].id] < A[g.id] /\ A[g.id] < A[s[i].id]
    BY <1>1, <1>2, <2>1, <2>2, <2>3 DEF Of
  <2>5. Gap(R, A, s[1], s[i], "FREE")
    BY <1>1, <2>3, <2>4 DEF Gap
  <2>6. FirstIn(A, EventsOf(s), s[1], s[i])
    <3> SUFFICES ASSUME NEW x \in EventsOf(s), x.type = "ACCESS", A[x.id] > A[s[1].id]
                 PROVE  s[i].id <= x.id
      BY <2>2 DEF FirstIn
    <3>1. PICK j \in 1 .. N : x = s[j]
      BY <1>1
    <3>2. j \in LaterAccesses(s, ids)
      BY <1>2, <1>5, <3>1
    <3> QED BY <1>1, <2>1, <2>2, <3>1, <3>2
  <2> QED BY <1>1, <2>2, <2>5, <2>6 DEF EarlyBy
<1>7. ASSUME s[N].type = "ACCESS", ~loose, EarlyBy(R, A, EventsOf(s)), ~EarlyBy(R, A, Earlier(s))
      PROVE  EarlyAllocation(q, s, ids)
  <2>1. PICK m \in EventsOf(s), f \in EventsOf(s) :
           m.type = "MALLOC" /\ f.type = "ACCESS" /\ FirstIn(A, EventsOf(s), m, f) /\ Gap(R, A, m, f, "FREE")
    BY <1>7 DEF EarlyBy
  <2>2. m = s[1] /\ m \in Earlier(s)
    BY <1>1, <2>1
  <2>3. PICK j \in 1 .. N : f = s[j]
    BY <1>1
  <2>4. j = N
    <3> SUFFICES ASSUME j < N PROVE FALSE
      OBVIOUS
    <3>1. f \in Earlier(s)
      BY <1>1, <2>3
    <3>2. FirstIn(A, Earlier(s), m, f)
      BY <1>1, <2>1 DEF FirstIn
    <3> QED BY <1>7, <2>1, <2>2, <3>1, <3>2 DEF EarlyBy
  <2>5. PICK g \in Of(R, p, "FREE") : A[s[1].id] < A[g.id] /\ A[g.id] < A[s[N].id]
    BY <1>1, <2>1, <2>2, <2>3, <2>4 DEF Gap
  <2>6. A[s[N].id] = n /\ Tmp < q.apiId
    BY <1>7 DEF Judging, Tmp
  <2>7. A[g.id] \in 1 .. n /\ A[s[1].id] \in 1 .. n
    BY <1>1, <1>2 DEF Of
  <2>8. A[g.id] <= Tmp
    BY <1>3, <1>7, <2>5, <2>6, <2>7 DEF LastOf, Tmp
  <2>9. ids[1] = A[s[1].id]
    <3>1. ids[1] = w[A[s[1].id]]
      BY <1>1 DEF Judging
    <3>2. A[s[1].id] \in 0 .. n
      BY <2>7
    <3> QED BY <1>2, <1>7, <3>1, <3>2
  <2>10. Tmp # 0 /\ ids[1] < Tmp /\ Tmp < ids[N]
    BY <1>2, <1>4, <2>5, <2>6, <2>7, <2>8, <2>9
  <2>11. N \in LaterAccesses(s, ids)
    BY <1>1, <1>2, <1>5, <1>7, <2>5, <2>7
  <2>12. ASSUME NEW k \in LaterAccesses(s, ids) PROVE N <= k
    <3>1. k \in 1 .. N
      BY DEF LaterAccesses
    <3>2. s[k].type = "ACCESS" /\ A[s[1].id] < A[s[k].id] /\ s[k] \in EventsOf(s)
      BY <1>1, <1>5, <3>1
    <3>3. A[s[k].id] > A[s[1].id]
      BY <1>1, <1>2, <3>1, <3>2
    <3>4. s[N].id <= s[k].id
      BY <2>1, <2>2, <2>3, <2>4, <3>2, <3>3 DEF FirstIn
    <3> QED BY <1>1, <3>1, <3>4
  <2> QED BY <1>4, <2>10, <2>11, <2>12 DEF EarlyAllocation, NoApi
<1> QED BY <1>6, <1>7

\* LateDeallocation: some MALLOC, in an API of its own, between the last access and the FREE.
LEMMA LateIsRight ==
    ASSUME NEW n \in Nat, NEW q, NEW p, NEW R, NEW A, NEW loose, NEW w, NEW s, NEW ids,
           Judging(w, n, q, p, R, A, loose, s, ids), s[Len(s)].type = "FREE"
    PROVE  /\ LateDeallocation(q, s, ids) => LateBy(R, A, EventsOf(s))
           /\ ~loose /\ LateBy(R, A, EventsOf(s)) => LateDeallocation(q, s, ids)
<1> DEFINE N == Len(s)
           Tmp == TmpOf(q, "MALLOC")
<1>1. /\ \A x : x \in EventsOf(s) <=> \E i \in 1 .. N : x = s[i]
      /\ \A i, j \in 1 .. N : s[i].id <= s[j].id <=> i <= j
      /\ \A i \in 1 .. N : s[i].pool = p /\ (s[i].type = "MALLOC" <=> i = 1)
      /\ \A i \in 1 .. N : 1 < i /\ i < N => s[i].type = "ACCESS"
      /\ \A i \in 1 .. N : s[i].type = "FREE" => i = N
      /\ N - 1 \in 1 .. N /\ N \in 1 .. N /\ N \in Nat \ {0, 1}
  <2>1. InPlace(p, s) /\ N \in Nat \ {0, 1}
    BY Placed DEF Judging
  <2> QED BY <2>1 DEF InPlace
<1>2. /\ \A i \in 1 .. N : ids[i] \in Nat /\ A[s[i].id] \in 1 .. n
      /\ \A i \in 1 .. N, g \in R :
            g.pool = p => /\ w[A[g.id]] \in Nat /\ A[g.id] \in 1 .. n
                          /\ ids[i] < w[A[g.id]] => A[s[i].id] < A[g.id]
                          /\ w[A[g.id]] < ids[i] => A[g.id] < A[s[i].id]
      /\ q.apiId = w[n] /\ ids[N] = q.apiId
      /\ ~loose => \A a \in 0 .. n : w[a] = a
  BY Ordered
<1>3. LastOf(w, n, q, p, "MALLOC", R, A, loose)
  BY DEF Judging, Tracks
<1>4. q.mallocApiTmpId = Tmp /\ Tmp \in 0 .. q.apiId /\ q.apiId \in Nat
  <2>1. q.mallocApiTmpId = Tmp
    BY DEF TmpOf
  <2> QED BY <1>1, <1>2, <1>3, <2>1 DEF LastOf
<1> HIDE DEF Tmp
<1>5. ASSUME LateDeallocation(q, s, ids) PROVE LateBy(R, A, EventsOf(s))
  <2>1. Tmp # 0 /\ s[N - 1].type = "ACCESS" /\ ids[N - 1] < Tmp /\ Tmp < ids[N]
    BY <1>2, <1>4, <1>5 DEF LateDeallocation, NoApi
  <2>2. PICK g \in Of(R, p, "MALLOC") : w[A[g.id]] = Tmp
    BY <1>3, <2>1 DEF LastOf, Tmp
  <2>3. A[s[N - 1].id] < A[g.id] /\ A[g.id] < A[s[N].id]
    BY <1>1, <1>2, <2>1, <2>2 DEF Of
  <2>4. Gap(R, A, s[N - 1], s[N], "MALLOC")
    BY <1>1, <2>2, <2>3 DEF Gap
  <2>5. ASSUME NEW x \in EventsOf(s), x.type = "ACCESS" PROVE x.id <= s[N - 1].id
    <3>1. PICK j \in 1 .. N : x = s[j]
      BY <1>1
    <3>2. j # N
      BY <2>5, <3>1
    <3> QED BY <1>1, <3>1, <3>2
  <2>6. s[N - 1] \in EventsOf(s) /\ s[N] \in EventsOf(s)
    BY <1>1
  <2> QED BY <2>1, <2>4, <2>5, <2>6 DEF LateBy
<1>6. ASSUME ~loose, LateBy(R, A, EventsOf(s)) PROVE LateDeallocation(q, s, ids)
  <2>1. PICK f \in EventsOf(s), g \in EventsOf(s) :
           /\ f.type = "ACCESS" /\ g.type = "FREE"
           /\ \A h \in EventsOf(s) : h.type = "ACCESS" => h.id <= f.id
           /\ Gap(R, A, f, g, "MALLOC")
    BY <1>6 DEF LateBy
  <2>2. g = s[N]
    BY <1>1, <2>1
  <2>3. PICK i \in 1 .. N : f = s[i]
    BY <1>1
  <2>4. 1 < i /\ i < N
    <3>1. i # N /\ i # 1
      BY <1>1, <2>1, <2>3
    <3> QED BY <1>1, <3>1
  <2>5. i = N - 1 /\ s[N - 1].type = "ACCESS"
    <3>1. 1 < N - 1 /\ N - 1 < N
      BY <1>1, <2>4
    <3>2. s[N - 1].type = "ACCESS" /\ s[N - 1] \in EventsOf(s)
      BY <1>1, <3>1
    <3>3. s[N - 1].id <= s[i].id
      BY <2>1, <2>3, <3>2
    <3>4. N - 1 <= i
      BY <1>1, <3>3
    <3> QED BY <1>1, <2>4, <3>2, <3>4
  <2>6. PICK x \in Of(R, p, "MALLOC") : A[s[N - 1].id] < A[x.id] /\ A[x.id] < A[s[N].id]
    BY <1>1, <2>1, <2>2, <2>3, <2>5 DEF Gap
  <2>7. A[s[N].id] = n /\ Tmp < q.apiId
    BY DEF Judging, Tmp
  <2>8. A[x.id] \in 1 .. n /\ A[s[N - 1].id] \in 1 .. n
    BY <1>1, <1>2 DEF Of
  <2>9. A[x.id] <= Tmp
    BY <1>3, <1>6, <2>6, <2>7, <2>8 DEF LastOf, Tmp
  <2>10. ids[N - 1] = A[s[N - 1].id]
    <3>1. ids[N - 1] = w[A[s[N - 1].id]]
      BY <1>1 DEF Judging
    <3>2. A[s[N - 1].id] \in 0 .. n
      BY <2>8
    <3> QED BY <1>2, <1>6, <3>1, <3>2
  <2>11. Tmp # 0 /\ ids[N - 1] < Tmp
    BY <1>4, <2>6, <2>8, <2>9, <2>10
  <2> QED BY <1>1, <1>4, <2>5, <2>7, <2>11 DEF LateDeallocation, NoApi
<1> QED BY <1>5, <1>6

\* TemporaryIdleness: the latest two events are accesses further apart than the threshold.
LEMMA IdleIsRight ==
    ASSUME NEW n \in Nat, NEW q, NEW p, NEW R, NEW A, NEW loose, NEW w, NEW s, NEW ids,
           Judging(w, n, q, p, R, A, loose, s, ids), s[Len(s)].type = "ACCESS"
    PROVE  /\ TemporaryIdleness(s, ids) => IdleBy(A, EventsOf(s))
           /\ ~loose /\ IdleBy(A, EventsOf(s)) => IdleBy(A, Earlier(s)) \/ TemporaryIdleness(s, ids)
<1> DEFINE N == Len(s)
<1>1. /\ \A x : x \in EventsOf(s) <=> \E i \in 1 .. N : x = s[i]
      /\ \A i \in 1 .. N : i < N => s[i] \in Earlier(s)
      /\ Earlier(s) \subseteq EventsOf(s)
      /\ \A i, j \in 1 .. N : s[i].id <= s[j].id <=> i <= j
      /\ \A i \in 1 .. N : s[i].id \in Nat /\ (s[i].type = "MALLOC" <=> i = 1)
      /\ \A i \in 1 .. N : 1 < i /\ i < N => s[i].type = "ACCESS"
      /\ N - 1 \in 1 .. N /\ N \in 1 .. N /\ N \in Nat \ {0, 1}
  <2>1. InPlace(p, s) /\ N \in Nat \ {0, 1}
    BY Placed DEF Judging
  <2> QED BY <2>1 DEF InPlace
<1>2. /\ \A i \in 1 .. N : ids[i] \in Nat /\ A[s[i].id] \in 1 .. n
      /\ ids[N] - ids[N - 1] <= A[s[N].id] - A[s[N - 1].id]
      /\ ~loose => \A a \in 0 .. n : w[a] = a
  <2>1. N - 1 <= N
    BY <1>1
  <2> QED BY <1>1, <2>1, Ordered
<1>3. Threshold \in Nat
  BY ThresholdAssumption
<1>4. ASSUME TemporaryIdleness(s, ids) PROVE IdleBy(A, EventsOf(s))
  <2>1. s[N - 1].type = "ACCESS" /\ ids[N] - ids[N - 1] > Threshold
    BY <1>4 DEF TemporaryIdleness
  <2>2. A[s[N].id] - A[s[N - 1].id] > Threshold
    <3>1. /\ ids[N] \in Nat /\ ids[N - 1] \in Nat
          /\ A[s[N].id] \in Nat /\ A[s[N - 1].id] \in Nat
      BY <1>1, <1>2
    <3> QED BY <1>2, <1>3, <2>1, <3>1
  <2>3. s[N - 1].id < s[N].id /\ s[N - 1] \in EventsOf(s) /\ s[N] \in EventsOf(s)
    BY <1>1
  <2>4. ASSUME NEW x \in EventsOf(s) PROVE x.id <= s[N - 1].id \/ s[N].id <= x.id
    <3>1. PICK j \in 1 .. N : x = s[j]
      BY <1>1
    <3>2. j <= N - 1 \/ N <= j
      BY <1>1
    <3> QED BY <1>1, <3>1, <3>2
  <2> QED BY <2>1, <2>2, <2>3, <2>4 DEF IdleBy
<1>5. ASSUME ~loose, IdleBy(A, EventsOf(s)), ~IdleBy(A, Earlier(s)) PROVE TemporaryIdleness(s, ids)
  <2>1. PICK f \in EventsOf(s), g \in EventsOf(s) :
           /\ f.type = "ACCESS" /\ g.type = "ACCESS" /\ f.id < g.id
           /\ \A h \in EventsOf(s) : h.type = "ACCESS" => h.id <= f.id \/ g.id <= h.id
           /\ A[g.id] - A[f.id] > Threshold
    BY <1>5 DEF IdleBy
  <2>2. PICK i \in 1 .. N : f = s[i]
    BY <1>1
  <2>3. PICK j \in 1 .. N : g = s[j]
    BY <1>1
  <2>4. i < j /\ 1 < i
    <3>1. ~(s[j].id <= s[i].id) /\ i # 1
      BY <1>1, <2>1, <2>2, <2>3
    <3> QED BY <1>1, <3>1
  <2>5. j = N
    <3> SUFFICES ASSUME j < N PROVE FALSE
      BY <1>1
    <3>1. f \in Earlier(s) /\ g \in Earlier(s)
      BY <1>1, <2>2, <2>3, <2>4
    <3> QED BY <1>1, <1>5, <2>1, <3>1 DEF IdleBy
  <2>6. i = N - 1 /\ s[N - 1].type = "ACCESS"
    <3>1. 1 < N - 1 /\ N - 1 < N
      BY <1>1, <2>4, <2>5
    <3>2. s[N - 1].type = "ACCESS" /\ s[N - 1] \in EventsOf(s)
      BY <1>1, <3>1
    <3>3. s[N - 1].id <= s[i].id \/ s[N].id <= s[N - 1].id
      BY <2>1, <2>2, <2>3, <2>5, <3>2
    <3>4. N - 1 <= i
      <4>1. /\ s[N - 1].id <= s[i].id <=> N - 1 <= i
            /\ s[N].id <= s[N - 1].id <=> N <= N - 1
        BY <1>1
      <4> QED BY <1>1, <3>3, <4>1
    <3> QED BY <1>1, <2>4, <2>5, <3>2, <3>4
  <2>7. A[s[N].id] - A[s[N - 1].id] > Threshold
    BY <2>1, <2>2, <2>3, <2>5, <2>6
  <2>8. ids[N] = A[s[N].id] /\ ids[N - 1] = A[s[N - 1].id]
    <3>1. ids[N] = w[A[s[N].id]] /\ ids[N - 1] = w[A[s[N - 1].id]]
      BY <1>1 DEF Judging
    <3>2. A[s[N].id] \in 0 .. n /\ A[s[N - 1].id] \in 0 .. n
      BY <1>1, <1>2
    <3> QED BY <1>2, <1>5, <3>1, <3>2
  <2> QED BY <1>1, <1>2, <1>3, <2>6, <2>7, <2>8 DEF TemporaryIdleness
<1> QED BY <1>4, <1>5

\* The marks that a judgement leaves.
LEMMA AppendedMark ==
    ASSUME NEW marks \in Seq(Inefficiencies), NEW x, NEW y
    PROVE  Seqs!Contains(Append(marks, x), y) <=> Seqs!Contains(marks, y) \/ y = x
<1> DEFINE m == Append(marks, x)
<1>1. /\ Len(marks) \in Nat /\ Len(m) = Len(marks) + 1 /\ m[Len(marks) + 1] = x
      /\ \A i \in 1 .. Len(marks) : m[i] = marks[i]
  <2>1. \A S : \A t \in Seq(S) : /\ Len(t) \in Nat /\ Len(Append(t, x)) = Len(t) + 1
                                 /\ Append(t, x)[Len(t) + 1] = x
                                 /\ \A i \in 1 .. Len(t) : Append(t, x)[i] = t[i]
    OBVIOUS
  <2> QED BY <2>1
<1> HIDE DEF m
<1>2. \A i \in 1 .. Len(m) : i \in 1 .. Len(marks) \/ i = Len(marks) + 1
  BY <1>1
<1>3. \A i \in 1 .. Len(marks) + 1 : i \in 1 .. Len(m)
  BY <1>1
<1>4. Len(marks) + 1 \in 1 .. Len(m) /\ \A i \in 1 .. Len(marks) : i \in 1 .. Len(m)
  BY <1>1
<1>5. Seqs!Contains(m, y) <=> Seqs!Contains(marks, y) \/ y = x
  BY <1>1, <1>2, <1>4 DEF Seqs!Contains
<1> QED BY <1>5 DEF m

LEMMA Mark ==
    ASSUME NEW marks \in Seq(Inefficiencies), NEW x \in Inefficiencies, NEW holds
    PROVE  /\ MarkedOnce(marks, x, holds) \in Seq(Inefficiencies)
           /\ Seqs!Contains(MarkedOnce(marks, x, holds), x) <=> Seqs!Contains(marks, x) \/ holds
           /\ \A y : y # x => (Seqs!Contains(MarkedOnce(marks, x, holds), y) <=> Seqs!Contains(marks, y))
<1>1. x \in Funs!Range(marks) <=> Seqs!Contains(marks, x)
  <2>1. DOMAIN marks = 1 .. Len(marks)
    OBVIOUS
  <2> QED BY <2>1 DEF Funs!Range, Seqs!Contains
<1>2. CASE holds /\ x \notin Funs!Range(marks)
  <2>1. MarkedOnce(marks, x, holds) = Append(marks, x)
    BY <1>2 DEF MarkedOnce
  <2>2. Append(marks, x) \in Seq(Inefficiencies)
    OBVIOUS
  <2> QED BY <1>2, <2>1, <2>2, AppendedMark
<1>3. CASE ~(holds /\ x \notin Funs!Range(marks))
  <2>1. MarkedOnce(marks, x, holds) = marks
    BY <1>3 DEF MarkedOnce
  <2> QED BY <1>1, <1>3, <2>1
<1> QED BY <1>2, <1>3

\* A judgement that is made makes the marks right for the block with its latest event; if it
\* is not made, something has been missed and no mark becomes wrong.
LEMMA JudgedRight ==
    ASSUME NEW n \in Nat, NEW q, NEW p, NEW R, NEW A, NEW loose, NEW w, NEW s, NEW ids,
           NEW marks \in Seq(Inefficiencies),
           Judging(w, n, q, p, R, A, loose, s, ids), RightBy(R, A, loose, marks, Earlier(s))
    PROVE  RightBy(R, A, loose, InefficientAnalysis(q, s, ids, marks), EventsOf(s))
<1> DEFINE N == Len(s)
           E == EarlyAllocation(q, s, ids)
           L == LateDeallocation(q, s, ids)
           I == TemporaryIdleness(s, ids)
           idle == MarkedOnce(marks, "temporary_idleness", I)
           both == MarkedOnce(idle, "early_allocation", E)
           late == Append(marks, "late_deallocation")
           result == InefficientAnalysis(q, s, ids, marks)
<1>1. InPlace(p, s) /\ InOrder(A, p, n, s) /\ N \in Nat \ {0, 1} /\ s[N].type \in {"ACCESS", "FREE"}
      /\ Len(s) = Len(ids)
  BY Placed DEF Judging
<1>2. s[1].type = "MALLOC"
  BY <1>1 DEF InPlace
<1>3. /\ EarlyBy(R, A, Earlier(s)) => EarlyBy(R, A, EventsOf(s))
      /\ IdleBy(A, Earlier(s)) => IdleBy(A, EventsOf(s))
      /\ ~LateBy(R, A, Earlier(s))
      /\ s[N].type = "ACCESS" => ~LateBy(R, A, EventsOf(s))
      /\ s[N].type = "FREE" => /\ EarlyBy(R, A, EventsOf(s)) => EarlyBy(R, A, Earlier(s))
                               /\ IdleBy(A, EventsOf(s)) => IdleBy(A, Earlier(s))
  BY <1>1, LatestEvent
<1>4. /\ E => EarlyBy(R, A, EventsOf(s))
      /\ s[N].type = "ACCESS" /\ ~loose /\ EarlyBy(R, A, EventsOf(s)) => EarlyBy(R, A, Earlier(s)) \/ E
      /\ s[N].type = "FREE" => /\ L => LateBy(R, A, EventsOf(s))
                               /\ ~loose /\ LateBy(R, A, EventsOf(s)) => L
      /\ s[N].type = "ACCESS" => /\ I => IdleBy(A, EventsOf(s))
                                 /\ ~loose /\ IdleBy(A, EventsOf(s)) => IdleBy(A, Earlier(s)) \/ I
  <2> HIDE DEF E, L, I
  <2>1. /\ E => EarlyBy(R, A, EventsOf(s))
        /\ s[N].type = "ACCESS" /\ ~loose /\ EarlyBy(R, A, EventsOf(s)) => EarlyBy(R, A, Earlier(s)) \/ E
    BY EarlyIsRight DEF E
  <2>2. s[N].type = "FREE" => /\ L => LateBy(R, A, EventsOf(s))
                              /\ ~loose /\ LateBy(R, A, EventsOf(s)) => L
    BY LateIsRight DEF L
  <2>3. s[N].type = "ACCESS" => /\ I => IdleBy(A, EventsOf(s))
                                /\ ~loose /\ IdleBy(A, EventsOf(s)) => IdleBy(A, Earlier(s)) \/ I
    BY IdleIsRight DEF I
  <2> QED BY <2>1, <2>2, <2>3
<1>5. result = IF s[N].type = "ACCESS" THEN both ELSE IF L THEN late ELSE marks
  <2> HIDE DEF E, L, I
  <2>1. CASE s[N].type = "ACCESS"
    BY <1>1, <1>2, <2>1 DEF InefficientAnalysis, E, L, I
  <2>2. CASE s[N].type = "FREE"
    BY <1>1, <1>2, <2>2 DEF InefficientAnalysis, E, L, I
  <2> QED BY <1>1, <2>1, <2>2
<1> HIDE DEF E, L, I, result
<1>6. "temporary_idleness" \in Inefficiencies /\ "early_allocation" \in Inefficiencies
  BY DEF Inefficiencies
<1>7. /\ Seqs!Contains(marks, "early_allocation") => EarlyBy(R, A, Earlier(s))
      /\ ~loose /\ EarlyBy(R, A, Earlier(s)) => Seqs!Contains(marks, "early_allocation")
      /\ ~Seqs!Contains(marks, "late_deallocation")
      /\ Seqs!Contains(marks, "temporary_idleness") => IdleBy(A, Earlier(s))
      /\ ~loose /\ IdleBy(A, Earlier(s)) => Seqs!Contains(marks, "temporary_idleness")
  BY <1>3 DEF RightBy, IsMarked
<1>8. ASSUME s[N].type = "ACCESS" PROVE RightBy(R, A, loose, result, EventsOf(s))
  <2>1. /\ idle \in Seq(Inefficiencies)
        /\ Seqs!Contains(idle, "temporary_idleness") <=> Seqs!Contains(marks, "temporary_idleness") \/ I
        /\ Seqs!Contains(idle, "early_allocation") <=> Seqs!Contains(marks, "early_allocation")
        /\ Seqs!Contains(idle, "late_deallocation") <=> Seqs!Contains(marks, "late_deallocation")
    BY <1>6, Mark
  <2> HIDE DEF idle
  <2>2. /\ Seqs!Contains(both, "temporary_idleness") <=> Seqs!Contains(marks, "temporary_idleness") \/ I
        /\ Seqs!Contains(both, "early_allocation") <=> Seqs!Contains(marks, "early_allocation") \/ E
        /\ Seqs!Contains(both, "late_deallocation") <=> Seqs!Contains(marks, "late_deallocation")
    BY <1>6, <2>1, Mark
  <2>3. result = both
    BY <1>5, <1>8
  <2> HIDE DEF both
  <2>4. IsMarked(both, "early_allocation", EarlyBy(R, A, EventsOf(s)), loose)
    BY <1>3, <1>4, <1>7, <1>8, <2>2 DEF IsMarked
  <2>5. IsMarked(both, "late_deallocation", LateBy(R, A, EventsOf(s)), loose)
    BY <1>3, <1>7, <1>8, <2>2 DEF IsMarked
  <2>6. IsMarked(both, "temporary_idleness", IdleBy(A, EventsOf(s)), loose)
    BY <1>3, <1>4, <1>7, <1>8, <2>2 DEF IsMarked
  <2> QED BY <2>3, <2>4, <2>5, <2>6 DEF RightBy
<1>9. ASSUME s[N].type = "FREE" PROVE RightBy(R, A, loose, result, EventsOf(s))
  <2>1. /\ Seqs!Contains(late, "temporary_idleness") <=> Seqs!Contains(marks, "temporary_idleness")
        /\ Seqs!Contains(late, "early_allocation") <=> Seqs!Contains(marks, "early_allocation")
        /\ Seqs!Contains(late, "late_deallocation")
    BY AppendedMark
  <2> HIDE DEF late
  <2>2. result = IF L THEN late ELSE marks
    BY <1>5, <1>9
  <2>3. IsMarked(result, "early_allocation", EarlyBy(R, A, EventsOf(s)), loose)
    BY <1>3, <1>7, <1>9, <2>1, <2>2 DEF IsMarked
  <2>4. IsMarked(result, "late_deallocation", LateBy(R, A, EventsOf(s)), loose)
    BY <1>4, <1>7, <1>9, <2>1, <2>2 DEF IsMarked
  <2>5. IsMarked(result, "temporary_idleness", IdleBy(A, EventsOf(s)), loose)
    BY <1>3, <1>7, <1>9, <2>1, <2>2 DEF IsMarked
  <2> QED BY <2>3, <2>4, <2>5 DEF RightBy
<1> QED BY <1>1, <1>8, <1>9 DEF result

LEMMA UnjudgedRight ==
    ASSUME NEW n \in Nat, NEW p, NEW R, NEW A, NEW loose, loose, NEW s, NEW marks,
           InOrder(A, p, n, s), Len(s) \in Nat \ {0, 1}, s[Len(s)].type \in {"ACCESS", "FREE"},
           RightBy(R, A, loose, marks, Earlier(s))
    PROVE  RightBy(R, A, loose, marks, EventsOf(s))
<1>1. /\ EarlyBy(R, A, Earlier(s)) => EarlyBy(R, A, EventsOf(s))
      /\ IdleBy(A, Earlier(s)) => IdleBy(A, EventsOf(s))
      /\ ~LateBy(R, A, Earlier(s))
  BY LatestEvent
<1> QED BY <1>1 DEF RightBy, IsMarked

LEMMA FirstRight ==
    ASSUME NEW R, NEW A, NEW loose, NEW e, e.type = "MALLOC"
    PROVE  RightBy(R, A, loose, << >>, {e})
<1>1. ~EarlyBy(R, A, {e}) /\ ~LateBy(R, A, {e}) /\ ~IdleBy(A, {e})
  BY DEF EarlyBy, LateBy, IdleBy
<1>2. \A x : ~Seqs!Contains(<< >>, x)
  BY DEF Seqs!Contains
<1> QED BY <1>1, <1>2 DEF RightBy, IsMarked

\* The events that come later have later APIs.
Continues(S, A2, R, A) ==
    /\ Grows(S, A2, R, A)
    /\ \A b \in R : A[b.id] \in Nat
    /\ \A g \in S \ R : A2[g.id] \in Nat /\ \A b \in R : b.pool = g.pool => A[b.id] <= A2[g.id]

OfPool(B, p) == \A g \in B : g.pool = p

\* Marks stay right while other events come: none of them is between two events of the block.
LEMMA StayRight ==
    ASSUME NEW R, NEW A, NEW loose, NEW marks, NEW B, RightBy(R, A, loose, marks, B),
           NEW S, NEW A2, Continues(S, A2, R, A), NEW more, loose => more, B \subseteq R,
           NEW p, OfPool(B, p)
    PROVE  RightBy(S, A2, more, marks, B)
<1>1. Grows(S, A2, R, A) /\ (\A b \in B : b.pool = p /\ A[b.id] \in Nat)
      /\ \A g \in S \ R : g.pool = p => A2[g.id] \in Nat /\ \A b \in B : A[b.id] <= A2[g.id]
  BY DEF Continues, OfPool
<1>2. \A b \in B : A2[b.id] = A[b.id] /\ b.pool = p /\ A[b.id] \in Nat
  BY <1>1 DEF Grows
<1>3. ASSUME NEW e \in B, NEW f \in B, NEW type PROVE Gap(S, A2, e, f, type) <=> Gap(R, A, e, f, type)
  <2>1. ASSUME Gap(R, A, e, f, type) PROVE Gap(S, A2, e, f, type)
    <3>1. PICK g \in Of(R, e.pool, type) : A[e.id] < A[g.id] /\ A[g.id] < A[f.id]
      BY <2>1 DEF Gap
    <3>2. g \in Of(S, e.pool, type) /\ A2[g.id] = A[g.id]
      BY <1>1 DEF Of, Grows
    <3> QED BY <1>2, <3>1, <3>2 DEF Gap
  <2>2. ASSUME Gap(S, A2, e, f, type) PROVE Gap(R, A, e, f, type)
    <3>1. PICK g \in Of(S, e.pool, type) : A2[e.id] < A2[g.id] /\ A2[g.id] < A2[f.id]
      BY <2>2 DEF Gap
    <3>2. g \in S /\ g.pool = p /\ g.type = type
      BY <1>2 DEF Of
    <3>3. g \in R
      <4> SUFFICES ASSUME g \notin R PROVE FALSE
        OBVIOUS
      <4>1. A2[g.id] \in Nat /\ A[f.id] <= A2[g.id]
        BY <1>1, <3>2
      <4> QED BY <1>2, <3>1, <4>1
    <3>4. g \in Of(R, e.pool, type) /\ A2[g.id] = A[g.id]
      BY <1>1, <1>2, <3>2, <3>3 DEF Of, Grows
    <3> QED BY <1>2, <3>1, <3>4 DEF Gap
  <2> QED BY <2>1, <2>2
<1>4. \A m, f \in B : FirstIn(A2, B, m, f) <=> FirstIn(A, B, m, f)
  BY <1>2 DEF FirstIn
<1>5. EarlyBy(S, A2, B) <=> EarlyBy(R, A, B)
  BY <1>3, <1>4 DEF EarlyBy
<1>6. LateBy(S, A2, B) <=> LateBy(R, A, B)
  BY <1>3 DEF LateBy
<1>7. IdleBy(A2, B) <=> IdleBy(A, B)
  BY <1>2 DEF IdleBy
<1> QED BY <1>5, <1>6, <1>7 DEF RightBy, IsMarked

-----------------------------------------------------------------------------
(***************************************************************************)
(* What is recorded, step by step: an event is cached, then written.       *)
(***************************************************************************)
DumpRows(s, note) == {DumpMemoryState(s, note)[i] : i \in 1 .. Len(s.events)}

EventsAt(k) == EventsOf(states[k].events)

\* The rows of a block are its events.
AreRowsOf(D, s, note) ==
    /\ \A r \in D : /\ r.event \in EventsOf(s.events) /\ r.event.type \in EventTypes
                    /\ r.allocationId = s.allocationId
                    /\ r.event.type = "MALLOC" => r.verdicts = note.inefficientType
    /\ \A g \in EventsOf(s.events) : \E r \in D : r.event = g

LEMMA RowsOfBlock ==
    ASSUME NEW s \in MemoryState, NEW note \in Note
    PROVE  AreRowsOf(DumpRows(s, note), s, note)
<1>1. ASSUME NEW i \in 1 .. Len(s.events)
      PROVE  LET r == DumpMemoryState(s, note)[i]
             IN  /\ r \in DumpRows(s, note) /\ r.event = s.events[i] /\ r.event.type \in EventTypes
                 /\ r.allocationId = s.allocationId
                 /\ r.event.type = "MALLOC" => r.verdicts = note.inefficientType
  <2>1. LET r == DumpMemoryState(s, note)[i]
        IN  /\ r.event = s.events[i] /\ r.event \in MemoryEvent
            /\ r.allocationId = s.allocationId
            /\ r.event.type = "MALLOC" => r.verdicts = note.inefficientType
    BY DumpedRows
  <2> QED BY <2>1 DEF DumpRows, MemoryEvent
<1> QED BY <1>1 DEF AreRowsOf, DumpRows, EventsOf

\* Rows that are added at the end.
RowsIn(w) == {w[i] : i \in 1 .. Len(w)}

LEMMA RowsAfter ==
    ASSUME NEW T, NEW v \in Seq(T), NEW w \in Seq(T)
    PROVE  RowsIn(v \o w) = RowsIn(v) \cup RowsIn(w)
<1>1. /\ Len(v \o w) = Len(v) + Len(w) /\ Len(v) \in Nat /\ Len(w) \in Nat
      /\ \A i \in 1 .. Len(v) + Len(w) : (v \o w)[i] = IF i <= Len(v) THEN v[i] ELSE w[i - Len(v)]
  BY ConcatProperties
<1>2. PICK c : c = v \o w
  OBVIOUS
<1>3. ASSUME NEW i \in 1 .. Len(c) PROVE c[i] \in RowsIn(v) \cup RowsIn(w)
  <2>1. CASE i <= Len(v)
    <3>1. i \in 1 .. Len(v) /\ c[i] = v[i]
      BY <1>1, <1>2, <2>1
    <3> QED BY <3>1 DEF RowsIn
  <2>2. CASE ~(i <= Len(v))
    <3>1. i - Len(v) \in 1 .. Len(w) /\ c[i] = w[i - Len(v)]
      BY <1>1, <1>2, <2>2
    <3> QED BY <3>1 DEF RowsIn
  <2> QED BY <2>1, <2>2
<1>4. ASSUME NEW i \in 1 .. Len(v) PROVE v[i] \in RowsIn(c)
  <2>1. i \in 1 .. Len(c) /\ c[i] = v[i]
    BY <1>1, <1>2
  <2> QED BY <2>1 DEF RowsIn
<1>5. ASSUME NEW i \in 1 .. Len(w) PROVE w[i] \in RowsIn(c)
  <2>1. PICK j : j = Len(v) + i
    OBVIOUS
  <2>2. j \in 1 .. Len(v) + Len(w) /\ ~(j <= Len(v)) /\ j - Len(v) = i
    BY <1>1, <2>1
  <2>3. j \in 1 .. Len(c) /\ c[j] = w[i]
    BY <1>1, <1>2, <2>2
  <2> QED BY <2>3 DEF RowsIn
<1>6. RowsIn(c) \subseteq RowsIn(v) \cup RowsIn(w)
  BY <1>3 DEF RowsIn
<1>7. RowsIn(v) \subseteq RowsIn(c) /\ RowsIn(w) \subseteq RowsIn(c)
  BY <1>4, <1>5 DEF RowsIn
<1> QED BY <1>2, <1>6, <1>7

\* What the cache holds, block by block.
LEMMA CachedEvents == Cached(states) = UNION {EventsAt(k) : k \in LiveKeys(states)}
  BY DEF Cached, EventsAt, EventsOf

RecordsGrow(e) ==
    LET s == StateWith(states, count, e, KeyOf(e))
    IN  /\ Written' = IF e.type = "FREE" THEN Written \cup DumpRows(s, Noting(e)) ELSE Written
        /\ MemoryRows' = IF e.type = "FREE" THEN MemoryRows \cup DumpRows(s, Noting(e)) ELSE MemoryRows
        /\ Recorded' = Recorded \cup {e}
        /\ EventsOf(s.events) = IF Fresh(KeyOf(e)) THEN {e} ELSE EventsAt(KeyOf(e)) \cup {e}

LEMMA ReportedRecords ==
    ASSUME BaseInv, NEW e, Reported(e)
    PROVE  RecordsGrow(e)
<1> DEFINE k == KeyOf(e)
           s == StateWith(states, count, e, k)
           D == DumpRows(s, Noting(e))
<1>1. /\ k \in MemoryStateKey /\ s \in MemoryState
      /\ \A j \in MemoryStateKey \ {k} : states'[j] = states[j]
      /\ states'[k] = (IF e.type = "FREE" THEN NoState ELSE s)
      /\ LiveKeys(states') = (IF e.type = "FREE" THEN LiveKeys(states) \ {k} ELSE LiveKeys(states) \cup {k})
      /\ Fresh(k) => s.events = <<e>>
      /\ ~Fresh(k) => s.events = Append(states[k].events, e)
  BY ReportedCache
<1>2. written \in Seq(MemoryRow \cup OperatorRow) /\ Noting(e) \in Note /\ states \in StatesMap
      /\ e \in MemoryEvent
  BY DEF BaseInv, TypeOK, Reported, Legal
<1>3. EventsOf(s.events) = IF Fresh(k) THEN {e} ELSE EventsAt(k) \cup {e}
  <2>1. CASE Fresh(k)
    <3>1. Len(<<e>>) = 1 /\ <<e>>[1] = e /\ 1 .. 1 = {1}
      OBVIOUS
    <3> HIDE DEF s, k
    <3> QED BY <1>1, <2>1, <3>1 DEF EventsOf
  <2>2. CASE ~Fresh(k)
    <3>1. k \in LiveKeys(states)
      BY <1>1, <2>2 DEF Fresh, LiveKeys
    <3>2. PICK v : v = states[k].events
      OBVIOUS
    <3>3. v \in Seq(MemoryEvent)
      BY <1>2, <3>1, <3>2, LiveState
    <3>4. RowsIn(<<e>>) = {e}
      <4>1. Len(<<e>>) = 1 /\ <<e>>[1] = e /\ 1 .. 1 = {1}
        OBVIOUS
      <4> QED BY <4>1 DEF RowsIn
    <3>5. RowsIn(v \o <<e>>) = RowsIn(v) \cup {e}
      <4>1. PICK d : d = <<e>>
        OBVIOUS
      <4>2. d \in Seq(MemoryEvent) /\ RowsIn(d) = {e}
        BY <1>2, <3>4, <4>1
      <4>3. RowsIn(v \o d) = RowsIn(v) \cup RowsIn(d)
        BY <3>3, <4>2, RowsAfter
      <4> QED BY <4>1, <4>2, <4>3
    <3>6. s.events = v \o <<e>>
      <4>1. Append(v, e) = v \o <<e>>
        BY <1>2, <3>3, AppendIsConcat
      <4>2. s.events = Append(v, e)
        BY <1>1, <2>2, <3>2
      <4> QED BY <4>1, <4>2
    <3> HIDE DEF s, k
    <3> QED BY <2>2, <3>2, <3>5, <3>6 DEF EventsOf, EventsAt, RowsIn
  <2> QED BY <2>1, <2>2
<1>4. /\ Written' = IF e.type = "FREE" THEN Written \cup D ELSE Written
      /\ MemoryRows' = IF e.type = "FREE" THEN MemoryRows \cup D ELSE MemoryRows
  <2>1. CASE e.type = "FREE"
    <3> DEFINE d == DumpMemoryState(s, Noting(e))
    <3>1. written' = written \o d
      BY <2>1 DEF Reported, Handled
    <3>2. d \in Seq(MemoryRow) /\ Len(d) = Len(s.events)
      BY <1>1, <1>2, DumpedRows
    <3>3. D = RowsIn(d)
      <4> HIDE DEF d, s
      <4>1. D = {d[i] : i \in 1 .. Len(s.events)}
        BY DEF DumpRows, d
      <4> QED BY <3>2, <4>1 DEF RowsIn
    <3> DEFINE T == MemoryRow \cup OperatorRow
    <3>4. d \in Seq(T) /\ written \in Seq(T)
      BY <1>2, <3>2
    <3> HIDE DEF T, d
    <3>5. RowsIn(written') = RowsIn(written) \cup D
      BY <3>1, <3>3, <3>4, RowsAfter
    <3>6. \A r \in D : r.event.type \in EventTypes
      BY <1>1, <1>2, RowsOfBlock DEF AreRowsOf
    <3> HIDE DEF D
    <3>7. Written = RowsIn(written) /\ Written' = RowsIn(written')
      BY DEF Written, RowsIn
    <3> QED BY <2>1, <3>5, <3>6, <3>7 DEF MemoryRows
  <2>2. CASE e.type # "FREE"
    <3>1. written' = written
      BY <2>2 DEF Reported, Handled
    <3> QED BY <2>2, <3>1 DEF MemoryRows, Written
  <2> QED BY <2>1, <2>2
<1>5. {r.event : r \in D} = EventsOf(s.events)
  <2>1. AreRowsOf(D, s, Noting(e))
    BY <1>1, <1>2, RowsOfBlock
  <2> HIDE DEF D, s
  <2> QED BY <2>1 DEF AreRowsOf
<1> DEFINE others == UNION {EventsAt(j) : j \in LiveKeys(states) \ {k}}
<1>6. Cached(states) = IF Fresh(k) THEN others ELSE others \cup EventsAt(k)
  <2>1. Fresh(k) <=> k \notin LiveKeys(states)
    BY <1>1 DEF Fresh, LiveKeys
  <2> HIDE DEF k
  <2>2. Cached(states) = UNION {EventsAt(j) : j \in LiveKeys(states)}
    BY CachedEvents
  <2> QED BY <2>1, <2>2
<1>7. Cached(states)' = IF e.type = "FREE" THEN others ELSE others \cup EventsOf(s.events)
  <2>1. \A j \in LiveKeys(states) \ {k} : EventsOf(states'[j].events) = EventsAt(j)
    BY <1>1 DEF LiveKeys, EventsAt
  <2>2. Cached(states') = UNION {EventsOf(states'[j].events) : j \in LiveKeys(states')}
    BY DEF Cached, EventsOf
  <2>3. Cached(states)' = Cached(states')
    BY DEF Cached, LiveKeys
  <2> HIDE DEF k, s
  <2> QED BY <1>1, <2>1, <2>2, <2>3
<1>8. Recorded' = Recorded \cup {e}
  <2> HIDE DEF D, s, others, k
  <2> QED BY <1>3, <1>4, <1>5, <1>6, <1>7 DEF Recorded
<1> QED BY <1>3, <1>4, <1>8 DEF RecordsGrow

\* A sweep writes what was cached.
SweptRows == UNION {DumpRows(states[k], notes[k]) : k \in LiveKeys(states)}

LEMMA SweptRecords ==
    ASSUME BaseInv, Swept
    PROVE  /\ Written' = Written \cup SweptRows /\ MemoryRows' = MemoryRows \cup SweptRows
           /\ Recorded' = Recorded
<1>1. From(written') /\ (\A k \in LiveKeys(states) : IsIn(written', k)) /\ states' = EmptyMap
  BY DEF Swept
<1>2. written \in Seq(MemoryRow \cup OperatorRow) /\ states \in StatesMap /\ notes \in [MemoryStateKey -> Note]
  BY DEF BaseInv, TypeOK
<1>3. ASSUME NEW k \in LiveKeys(states)
      PROVE  AreRowsOf(DumpRows(states[k], notes[k]), states[k], notes[k])
  <2>1. k \in MemoryStateKey /\ states[k] \in MemoryState /\ notes[k] \in Note
    BY <1>2, LiveState
  <2> QED BY <2>1, RowsOfBlock
<1>4. \A r \in SweptRows : r.event.type \in EventTypes
  BY <1>3 DEF SweptRows, AreRowsOf
<1>5. RowsIn(written') = RowsIn(written) \cup SweptRows
  <2>1. PICK w : w = written'
    OBVIOUS
  <2>2. /\ Len(written) \in Nat /\ Len(w) \in Nat /\ Len(written) <= Len(w)
        /\ \A i \in 1 .. Len(written) : w[i] = written[i]
    BY <1>1, <1>2, <2>1 DEF From
  <2>3. ASSUME NEW i \in 1 .. Len(w) PROVE w[i] \in RowsIn(written) \cup SweptRows
    <3>1. CASE i \in 1 .. Len(written)
      BY <2>2, <3>1 DEF RowsIn
    <3>2. CASE i \notin 1 .. Len(written)
      <4>1. i \in Len(written) + 1 .. Len(w)
        BY <2>2, <3>2
      <4>2. PICK k \in LiveKeys(states) : \E j \in 1 .. Len(states[k].events) : w[i] = DumpAt(k)[j]
        BY <1>1, <2>1, <4>1 DEF From
      <4> QED BY <4>2 DEF SweptRows, DumpRows, DumpAt
    <3> QED BY <3>1, <3>2
  <2>4. ASSUME NEW r \in SweptRows PROVE r \in RowsIn(w)
    <3>1. PICK k \in LiveKeys(states) : r \in DumpRows(states[k], notes[k])
      BY DEF SweptRows
    <3>2. PICK j \in 1 .. Len(states[k].events) : r = DumpAt(k)[j]
      BY <3>1 DEF DumpRows, DumpAt
    <3>3. PICK i \in Len(written) + 1 .. Len(w) : w[i] = r
      BY <1>1, <2>1, <3>2 DEF IsIn
    <3>4. i \in 1 .. Len(w)
      BY <2>2
    <3> QED BY <3>3, <3>4 DEF RowsIn
  <2>5. \A i \in 1 .. Len(written) : i \in 1 .. Len(w) /\ w[i] = written[i]
    BY <2>2
  <2>6. RowsIn(written) \subseteq RowsIn(w)
    BY <2>5 DEF RowsIn
  <2>7. RowsIn(w) \subseteq RowsIn(written) \cup SweptRows
    BY <2>3 DEF RowsIn
  <2> QED BY <2>1, <2>4, <2>6, <2>7
<1>6. Written = RowsIn(written) /\ Written' = RowsIn(written')
  BY DEF Written, RowsIn
<1>7. MemoryRows' = MemoryRows \cup SweptRows
  BY <1>4, <1>5, <1>6 DEF MemoryRows
<1>8. {r.event : r \in SweptRows} = Cached(states)
  <2>1. \A g \in Cached(states) : \E r \in SweptRows : r.event = g
    <3> SUFFICES ASSUME NEW g \in Cached(states) PROVE \E r \in SweptRows : r.event = g
      OBVIOUS
    <3>1. PICK k \in LiveKeys(states) : g \in EventsAt(k)
      BY CachedEvents
    <3> QED BY <1>3, <3>1 DEF AreRowsOf, SweptRows, EventsAt
  <2>2. \A r \in SweptRows : r.event \in Cached(states)
    BY <1>3, CachedEvents DEF AreRowsOf, SweptRows, EventsAt
  <2> QED BY <2>1, <2>2
<1>9. Cached(states)' = {}
  <2>1. LiveKeys(states') = {}
    BY <1>1 DEF LiveKeys, EmptyMap
  <2>2. Cached(states)' = UNION {EventsOf(states'[j].events) : j \in LiveKeys(states')}
    BY DEF Cached, EventsOf, LiveKeys
  <2> QED BY <2>1, <2>2
<1>10. Recorded' = Recorded
  BY <1>7, <1>8, <1>9 DEF Recorded
<1> QED BY <1>5, <1>6, <1>7, <1>10

\* Operators are not among the recorded events.
LEMMA OperatedRecords ==
    ASSUME BaseInv, NEW p, NEW type, Operated(p, type)
    PROVE  /\ Written' = Written \cup {[event |-> [id |-> recordIndex + 1, type |-> type, pool |-> p]]}
           /\ MemoryRows' = MemoryRows /\ Recorded' = Recorded
<1> DEFINE e == [id |-> recordIndex + 1, type |-> type, pool |-> p]
           r == [event |-> e]
           T == MemoryRow \cup OperatorRow
<1>1. written \in Seq(T) /\ written' = Append(written, r) /\ states' = states
      /\ type \in {"START", "END"} /\ recordIndex \in Nat /\ p \in Pools
  BY DEF BaseInv, TypeOK, Operated, AnalysedPools
<1>2. r \in OperatorRow /\ r.event.type = type /\ type \notin EventTypes
  BY <1>1 DEF OperatorRow, OperatorEvent, EventTypes
<1>3. PICK d : d = <<r>>
  OBVIOUS
<1>4. r \in T
  BY <1>2
<1> HIDE DEF T, r
<1>5. d \in Seq(T) /\ RowsIn(d) = {r}
  <2>1. Len(d) = 1 /\ d[1] = r /\ 1 .. 1 = {1}
    BY <1>3
  <2>2. RowsIn(d) = {r}
    BY <2>1 DEF RowsIn
  <2>3. d \in Seq(T)
    BY <1>3, <1>4
  <2> QED BY <2>2, <2>3
<1>6. written' = written \o d
  BY <1>1, <1>3, <1>4, AppendIsConcat
<1>7. RowsIn(written') = RowsIn(written) \cup {r}
  BY <1>1, <1>5, <1>6, RowsAfter
<1>8. Written = RowsIn(written) /\ Written' = RowsIn(written')
  BY DEF Written, RowsIn
<1>9. MemoryRows' = MemoryRows
  BY <1>2, <1>7, <1>8 DEF MemoryRows
<1>10. Cached(states)' = Cached(states)
  BY <1>1 DEF Cached, LiveKeys
<1> QED BY <1>7, <1>8, <1>9, <1>10 DEF Recorded, r

LEMMA SameRecords ==
    ASSUME written' = written, states' = states
    PROVE  Written' = Written /\ MemoryRows' = MemoryRows /\ Recorded' = Recorded
<1>1. MemoryRows' = MemoryRows
  BY DEF MemoryRows, Written
<1>2. Cached(states)' = Cached(states)
  BY DEF Cached, LiveKeys
<1> QED BY <1>1, <1>2 DEF Recorded, Written

-----------------------------------------------------------------------------
(***************************************************************************)
(* The invariant of the verdicts.                                          *)
(***************************************************************************)
\* Every recorded event has an API of its pool.
RecordsOK ==
    /\ \A g \in Recorded : /\ g.pool \in AnalysedPools /\ g.id \in 1 .. recordIndex
                           /\ apiOf[g.id] \in 1 .. api[g.pool]
    /\ \A p \in operators : api[p] >= 1

\* A block that is cached: a MALLOC or an access whose MALLOC was not seen, then accesses.
InBlock(A, p, n, s) ==
    /\ \A i \in 1 .. Len(s) : s[i].pool = p /\ s[i].id \in Nat /\ A[s[i].id] \in 1 .. n
    /\ \A i, j \in 1 .. Len(s) : i < j => s[i].id < s[j].id /\ A[s[i].id] <= A[s[j].id]
    /\ \A i \in 1 .. Len(s) : s[i].type = "ACCESS" \/ (i = 1 /\ s[i].type = "MALLOC")

LiveRight(R, A, loose, note, s) ==
    s[1].type = "MALLOC" => RightBy(R, A, loose, note.inefficientType, EventsOf(s))

BlocksOK ==
    \A k \in LiveKeys(states) :
        /\ InBlock(apiOf, k[1], api[k[1]], states[k].events)
        /\ LiveRight(Recorded, apiOf, unwatched, notes[k], states[k].events)

\* The numbers in the notes of a block are those of its events, unless some are missing.
Noted(w, A, ids, s, loose) ==
    /\ ids \in Seq(Nat) /\ Len(ids) <= Len(s)
    /\ ~loose => Len(ids) = Len(s)
    /\ Len(ids) = Len(s) => \A i \in 1 .. Len(s) : ids[i] = w[A[s[i].id]] /\ Stepped(w, A[s[i].id])

NotedIn(K, w, A, st, nt, loose) == \A k \in K : Noted(w, A, nt[k].apiId, st[k].events, loose)

KeysOf(p, st) == {k \in LiveKeys(st) : k[1] = p}

Numbers(p, n, q, R, A, st, nt, loose) ==
    \E w : Tracks(w, n, q, p, R, A, loose) /\ NotedIn(KeysOf(p, st), w, A, st, nt, loose)

NumbersOK ==
    \A p \in AnalysedPools :
        /\ pidStates[p].isOpStart <=> p \in operators /\ Watching
        /\ Numbers(p, api[p], pidStates[p], Recorded, apiOf, states, notes, unwatched)

\* The rows of a block that is no longer cached.
EventsIn(M, a) == {r.event : r \in {q \in M : q.allocationId = a}}

Done(c, m) == {a \in 1 .. c : \A k \in LiveKeys(m) : m[k].allocationId # a}

RowsRight(M, done, R, A, loose) ==
    \A r \in M :
        /\ r.allocationId \in done /\ r.event \in R
        /\ \E p \in AnalysedPools : OfPool(EventsIn(M, r.allocationId), p)
        /\ r.event.type = "MALLOC" => RightBy(R, A, loose, r.verdicts, EventsIn(M, r.allocationId))

RowsOK == RowsRight(MemoryRows, Done(count, states), Recorded, apiOf, unwatched)

VerdictsInv == BaseInv /\ RecordsOK /\ BlocksOK /\ NumbersOK /\ RowsOK

-----------------------------------------------------------------------------
LEMMA RowsStay ==
    ASSUME NEW M, NEW done, NEW R, NEW A, NEW loose, RowsRight(M, done, R, A, loose),
           NEW S, NEW B, Continues(S, B, R, A), NEW more, loose => more,
           NEW gone, done \subseteq gone
    PROVE  RowsRight(M, gone, S, B, more)
<1> SUFFICES ASSUME NEW r \in M
             PROVE  /\ r.allocationId \in gone /\ r.event \in S
                    /\ \E p \in AnalysedPools : OfPool(EventsIn(M, r.allocationId), p)
                    /\ r.event.type = "MALLOC" => RightBy(S, B, more, r.verdicts, EventsIn(M, r.allocationId))
  BY DEF RowsRight
<1>1. r.allocationId \in gone /\ r.event \in S
  BY DEF RowsRight, Continues, Grows
<1>2. PICK p \in AnalysedPools : OfPool(EventsIn(M, r.allocationId), p)
  BY DEF RowsRight
<1>3. EventsIn(M, r.allocationId) \subseteq R
  BY DEF RowsRight, EventsIn
<1>4. r.event.type = "MALLOC" => RightBy(R, A, loose, r.verdicts, EventsIn(M, r.allocationId))
  BY DEF RowsRight
<1>5. r.event.type = "MALLOC" => RightBy(S, B, more, r.verdicts, EventsIn(M, r.allocationId))
  BY <1>2, <1>3, <1>4, StayRight
<1> QED BY <1>1, <1>2, <1>5

LEMMA RowsJoin ==
    ASSUME NEW M, NEW D, NEW done, NEW R, NEW A, NEW loose, RowsRight(M, done, R, A, loose),
           RowsRight(D, done, R, A, loose), \A r \in M, q \in D : r.allocationId # q.allocationId
    PROVE  RowsRight(M \cup D, done, R, A, loose)
<1>1. ASSUME NEW r \in M PROVE EventsIn(M \cup D, r.allocationId) = EventsIn(M, r.allocationId)
  BY DEF EventsIn
<1>2. ASSUME NEW r \in D PROVE EventsIn(M \cup D, r.allocationId) = EventsIn(D, r.allocationId)
  BY DEF EventsIn
<1> QED BY <1>1, <1>2 DEF RowsRight

\* The rows of one block.
LEMMA RowsOfOne ==
    ASSUME NEW D, NEW s, NEW note, AreRowsOf(D, s, note), NEW done, s.allocationId \in done,
           NEW R, NEW A, NEW loose, EventsOf(s.events) \subseteq R,
           NEW p \in AnalysedPools, OfPool(EventsOf(s.events), p),
           (\E g \in EventsOf(s.events) : g.type = "MALLOC") =>
              RightBy(R, A, loose, note.inefficientType, EventsOf(s.events))
    PROVE  RowsRight(D, done, R, A, loose)
<1>1. ASSUME NEW r \in D PROVE EventsIn(D, r.allocationId) = EventsOf(s.events)
  BY DEF AreRowsOf, EventsIn
<1> SUFFICES ASSUME NEW r \in D
             PROVE  /\ r.allocationId \in done /\ r.event \in R
                    /\ \E x \in AnalysedPools : OfPool(EventsIn(D, r.allocationId), x)
                    /\ r.event.type = "MALLOC" => RightBy(R, A, loose, r.verdicts, EventsIn(D, r.allocationId))
  BY DEF RowsRight
<1>2. r.allocationId = s.allocationId /\ r.event \in EventsOf(s.events)
      /\ (r.event.type = "MALLOC" => r.verdicts = note.inefficientType)
  BY DEF AreRowsOf
<1>3. OfPool(EventsIn(D, r.allocationId), p)
  BY <1>1
<1> QED BY <1>1, <1>2, <1>3

-----------------------------------------------------------------------------
\* Numbers that have been noted stay right.
LEMMA NotesStay ==
    ASSUME NEW n \in Nat, NEW m, NEW w, NEW x, Extends(x, m, w, n), NEW R, NEW A, NEW S, NEW B,
           Grows(S, B, R, A), NEW ids, NEW s, EventsOf(s) \subseteq R,
           \A g \in EventsOf(s) : A[g.id] \in 1 .. n,
           NEW loose, NEW more, loose => more, Noted(w, A, ids, s, loose)
    PROVE  Noted(x, B, ids, s, more)
<1>1. ASSUME NEW i \in 1 .. Len(s), ids[i] = w[A[s[i].id]], Stepped(w, A[s[i].id])
      PROVE  ids[i] = x[B[s[i].id]] /\ Stepped(x, B[s[i].id])
  <2>1. s[i] \in EventsOf(s)
    BY DEF EventsOf
  <2>2. B[s[i].id] = A[s[i].id] /\ A[s[i].id] \in 0 .. n
    BY <2>1 DEF Grows
  <2> QED BY <1>1, <2>2 DEF Extends
<1> QED BY <1>1 DEF Noted

\* An event is noted with its API, or is not.
LEMMA NoteFirst ==
    ASSUME NEW x, NEW B, NEW e, NEW v \in Nat, v = x[B[e.id]], Stepped(x, B[e.id]), NEW loose
    PROVE  Noted(x, B, Append(<< >>, v), <<e>>, loose)
<1>1. Append(<< >>, v) = <<v>> /\ Len(<<v>>) = 1 /\ <<v>>[1] = v /\ Len(<<e>>) = 1 /\ <<e>>[1] = e
      /\ 1 .. 1 = {1} /\ <<v>> \in Seq(Nat)
  OBVIOUS
<1> QED BY <1>1 DEF Noted

LEMMA NoteNext ==
    ASSUME NEW T, NEW s \in Seq(T), NEW e \in T, NEW ids, NEW x, NEW B, NEW loose, Noted(x, B, ids, s, loose),
           NEW v \in Nat, v = x[B[e.id]], Stepped(x, B[e.id])
    PROVE  Noted(x, B, Append(ids, v), Append(s, e), loose)
<1>1. /\ Len(Append(s, e)) = Len(s) + 1 /\ Len(s) \in Nat
      /\ \A i \in 1 .. Len(s) : Append(s, e)[i] = s[i]
      /\ Append(s, e)[Len(s) + 1] = e
  BY AppendProperties
<1>2. ids \in Seq(Nat)
  BY DEF Noted
<1>3. /\ Len(Append(ids, v)) = Len(ids) + 1 /\ Len(ids) \in Nat /\ Append(ids, v) \in Seq(Nat)
      /\ \A i \in 1 .. Len(ids) : Append(ids, v)[i] = ids[i]
      /\ Append(ids, v)[Len(ids) + 1] = v
  BY <1>2, AppendProperties
<1>4. \A i \in 1 .. Len(s) + 1 : i \in 1 .. Len(s) \/ i = Len(s) + 1
  BY <1>1
<1>5. ASSUME Len(ids) = Len(s), NEW i \in 1 .. Len(s) + 1
      PROVE  Append(ids, v)[i] = x[B[Append(s, e)[i].id]] /\ Stepped(x, B[Append(s, e)[i].id])
  <2>1. CASE i \in 1 .. Len(s)
    BY <1>1, <1>3, <1>5, <2>1 DEF Noted
  <2>2. CASE i = Len(s) + 1
    BY <1>1, <1>3, <1>5, <2>2
  <2> QED BY <1>4, <2>1, <2>2
<1> QED BY <1>1, <1>3, <1>5 DEF Noted

LEMMA NoteMissed ==
    ASSUME NEW T, NEW s \in Seq(T), NEW e \in T, NEW ids, NEW x, NEW B, NEW loose, loose,
           Noted(x, B, ids, s, loose)
    PROVE  Noted(x, B, ids, Append(s, e), loose)
<1>1. Len(Append(s, e)) = Len(s) + 1 /\ Len(s) \in Nat
  BY AppendProperties
<1>2. Len(ids) \in Nat /\ Len(ids) <= Len(s)
  BY DEF Noted
<1> QED BY <1>1, <1>2 DEF Noted

\* The blocks of a pool are made of recorded events.
HasApis(K, n, R, A, st) ==
    \A k \in K : EventsOf(st[k].events) \subseteq R /\ \A g \in EventsOf(st[k].events) : A[g.id] \in 1 .. n

LEMMA BlocksHaveApis ==
    ASSUME BlocksOK, NEW p
    PROVE  HasApis(KeysOf(p, states), api[p], Recorded, apiOf, states)
<1> SUFFICES ASSUME NEW k \in KeysOf(p, states)
             PROVE  /\ EventsOf(states[k].events) \subseteq Recorded
                    /\ \A g \in EventsOf(states[k].events) : apiOf[g.id] \in 1 .. api[p]
  BY DEF HasApis
<1>1. k \in LiveKeys(states) /\ k[1] = p
  BY DEF KeysOf
<1>2. EventsOf(states[k].events) \subseteq Recorded
  BY <1>1, CachedEvents DEF Recorded, EventsAt
<1>3. InBlock(apiOf, p, api[p], states[k].events)
  BY <1>1 DEF BlocksOK
<1> QED BY <1>2, <1>3 DEF InBlock, EventsOf

LEMMA KnownRecords ==
    ASSUME RecordsOK, NEW p
    PROVE  Known(Recorded, apiOf, api[p], p)
  BY DEF RecordsOK, Known

\* Blocks that have not changed.
Kept(K, st2, nt2, st, nt) ==
    \A k \in K : st2[k].events = st[k].events /\ nt2[k].apiId = nt[k].apiId

LEMMA NotedInStays ==
    ASSUME NEW n \in Nat, NEW m, NEW w, NEW x, Extends(x, m, w, n), NEW R, NEW A, NEW S, NEW B,
           Grows(S, B, R, A), NEW K, NEW st, NEW nt, HasApis(K, n, R, A, st),
           NEW loose, NEW more, loose => more, NotedIn(K, w, A, st, nt, loose),
           NEW L, L \subseteq K, NEW st2, NEW nt2, Kept(L, st2, nt2, st, nt)
    PROVE  NotedIn(L, x, B, st2, nt2, more)
<1> SUFFICES ASSUME NEW k \in L PROVE Noted(x, B, nt2[k].apiId, st2[k].events, more)
  BY DEF NotedIn
<1>1. st2[k].events = st[k].events /\ nt2[k].apiId = nt[k].apiId
  BY DEF Kept
<1>2. Noted(w, A, nt[k].apiId, st[k].events, loose)
  BY DEF NotedIn
<1>3. EventsOf(st[k].events) \subseteq R /\ \A g \in EventsOf(st[k].events) : A[g.id] \in 1 .. n
  BY DEF HasApis
<1>4. Noted(x, B, nt[k].apiId, st[k].events, more)
  BY <1>2, <1>3, NotesStay
<1> QED BY <1>1, <1>4

\* The numbers of a pool, while the analyzer sees no event of it.
LEMMA NumbersStay ==
    ASSUME NEW n \in Nat, NEW q \in PidState, NEW p, NEW R, NEW A, NEW loose, NEW st, NEW nt,
           Numbers(p, n, q, R, A, st, nt, loose), Known(R, A, n, p),
           HasApis(KeysOf(p, st), n, R, A, st),
           NEW S, NEW B, NEW more, Grows(S, B, R, A), loose => more,
           NEW m, m = n \/ (m = n + 1 /\ ~q.isOpStart /\ more),
           more \/ \A type \in {"MALLOC", "FREE"} : Of(S, p, type) = Of(R, p, type),
           NEW st2, NEW nt2, KeysOf(p, st2) \subseteq KeysOf(p, st), Kept(KeysOf(p, st2), st2, nt2, st, nt)
    PROVE  Numbers(p, m, q, S, B, st2, nt2, more)
<1>1. PICK w : Tracks(w, n, q, p, R, A, loose) /\ NotedIn(KeysOf(p, st), w, A, st, nt, loose)
  BY DEF Numbers
<1>2. PICK x : Tracks(x, m, q, p, S, B, more) /\ Extends(x, m, w, n)
  BY <1>1, Untouched
<1>3. NotedIn(KeysOf(p, st2), x, B, st2, nt2, more)
  BY <1>1, <1>2, NotedInStays
<1> QED BY <1>2, <1>3 DEF Numbers

\* The same when an operator of the pool starts or ends.
LEMMA NumbersOperate ==
    ASSUME NEW n \in Nat, NEW q \in PidState, NEW p, NEW R, NEW A, NEW loose, NEW st, NEW nt,
           Numbers(p, n, q, R, A, st, nt, loose), Known(R, A, n, p),
           HasApis(KeysOf(p, st), n, R, A, st), NEW B, Grows(R, B, R, A)
    PROVE  /\ ~q.isOpStart => Numbers(p, n + 1, HandleOpLaunchEvent(q, TRUE), R, B, st, nt, loose)
           /\ q.isOpStart => Numbers(p, n, HandleOpLaunchEvent(q, FALSE), R, B, st, nt, loose)
<1>1. PICK w : Tracks(w, n, q, p, R, A, loose) /\ NotedIn(KeysOf(p, st), w, A, st, nt, loose)
  BY DEF Numbers
<1>2. Kept(KeysOf(p, st), st, nt, st, nt)
  BY DEF Kept
<1>3. ASSUME ~q.isOpStart
      PROVE  Numbers(p, n + 1, HandleOpLaunchEvent(q, TRUE), R, B, st, nt, loose)
  <2> DEFINE r == HandleOpLaunchEvent(q, TRUE)
  <2>1. PICK x : Tracks(x, n + 1, r, p, R, B, loose) /\ Extends(x, n + 1, w, n)
    BY <1>1, <1>3, Started
  <2> HIDE DEF r
  <2>2. NotedIn(KeysOf(p, st), x, B, st, nt, loose)
    BY <1>1, <1>2, <2>1, NotedInStays
  <2> QED BY <2>1, <2>2 DEF Numbers, r
<1>4. ASSUME q.isOpStart
      PROVE  Numbers(p, n, HandleOpLaunchEvent(q, FALSE), R, B, st, nt, loose)
  <2> DEFINE r == HandleOpLaunchEvent(q, FALSE)
  <2>1. Tracks(w, n, r, p, R, B, loose)
    BY <1>1, <1>4, Ended
  <2> HIDE DEF r
  <2>2. Extends(w, n, w, n)
    BY DEF Extends
  <2>3. NotedIn(KeysOf(p, st), w, B, st, nt, loose)
    BY <1>1, <1>2, <2>2, NotedInStays
  <2> QED BY <2>1, <2>3 DEF Numbers, r
<1> QED BY <1>3, <1>4

-----------------------------------------------------------------------------
(*****************************************************************************)
(* The report of a memory event keeps the invariant: its API and the number  *)
(* the analyzer gives it, then the block, its marks and its rows.            *)
(*****************************************************************************)

\* The numbers of a pool when the analyzer sees an event of it.
SeenBy(x, m, r, p, e, S, B, loose) ==
    /\ Tracks(x, m, r, p, S, B, loose) /\ Stepped(x, m) /\ r.apiId = x[m]
    /\ \A type \in {"MALLOC", "FREE"} \ {e.type} : TmpOf(r, type) < r.apiId

LEMMA NumbersSee ==
    ASSUME NEW n \in Nat, NEW q \in PidState, NEW p, NEW R, NEW A, NEW loose, NEW st, NEW nt,
           Numbers(p, n, q, R, A, st, nt, loose), Known(R, A, n, p),
           HasApis(KeysOf(p, st), n, R, A, st), NEW e, e.pool = p, NEW B, Grows(R \cup {e}, B, R, A),
           NEW m, m = (IF q.isOpStart THEN n ELSE n + 1), B[e.id] = m
    PROVE  \E x : /\ SeenBy(x, m, AfterMemoryEvent(q, e), p, e, R \cup {e}, B, loose)
                  /\ NotedIn(KeysOf(p, st), x, B, st, nt, loose)
<1> DEFINE r == AfterMemoryEvent(q, e)
<1>1. PICK w : Tracks(w, n, q, p, R, A, loose) /\ NotedIn(KeysOf(p, st), w, A, st, nt, loose)
  BY DEF Numbers
<1>2. Kept(KeysOf(p, st), st, nt, st, nt)
  BY DEF Kept
<1>3. \E x : SeenBy(x, m, r, p, e, R \cup {e}, B, loose) /\ Extends(x, m, w, n)
  <2>1. CASE q.isOpStart
    <3>1. /\ \A type \in {"MALLOC", "FREE"} : TmpOf(r, type) < r.apiId
          /\ Tracks(w, n, r, p, R \cup {e}, B, loose) /\ Stepped(w, n)
      BY <1>1, <2>1, InnerEvent
    <3>2. Extends(w, n, w, n)
      BY DEF Extends
    <3> HIDE DEF r
    <3>3. w[n] = r.apiId
      BY <3>1 DEF Tracks, CountsAs
    <3>4. SeenBy(w, n, r, p, e, R \cup {e}, B, loose)
      BY <3>1, <3>3 DEF SeenBy
    <3> QED BY <2>1, <3>2, <3>4
  <2>2. CASE ~q.isOpStart
    <3>1. B[e.id] = n + 1
      BY <2>2
    <3>2. /\ \A type \in {"MALLOC", "FREE"} \ {e.type} : TmpOf(r, type) < r.apiId
          /\ \E x : /\ Tracks(x, n + 1, r, p, R \cup {e}, B, loose) /\ Extends(x, n + 1, w, n)
                    /\ Stepped(x, n + 1)
      BY <1>1, <2>2, <3>1, LoneEvent
    <3> HIDE DEF r
    <3>3. PICK x : /\ Tracks(x, n + 1, r, p, R \cup {e}, B, loose) /\ Extends(x, n + 1, w, n)
                   /\ Stepped(x, n + 1)
      BY <3>2
    <3>4. x[n + 1] = r.apiId
      BY <3>3 DEF Tracks, CountsAs
    <3>5. SeenBy(x, n + 1, r, p, e, R \cup {e}, B, loose)
      BY <3>2, <3>3, <3>4 DEF SeenBy
    <3> QED BY <2>2, <3>3, <3>5
  <2> QED BY <2>1, <2>2
<1> HIDE DEF r
<1>4. PICK x : SeenBy(x, m, r, p, e, R \cup {e}, B, loose) /\ Extends(x, m, w, n)
  BY <1>3
<1>5. NotedIn(KeysOf(p, st), x, B, st, nt, loose)
  BY <1>1, <1>2, <1>4, NotedInStays
<1> QED BY <1>4, <1>5 DEF r

\* What is noted of an event.
OldNote(k) == IF Fresh(k) THEN NewNote ELSE notes[k]

NotedOf(e) ==
    LET k == KeyOf(e)
        r == AfterMemoryEvent(pidStates[e.pool], e)
        ids == Append(OldNote(k).apiId, r.apiId)
        s == StateWith(states, count, e, k)
    IN  /\ Watching => /\ Noting(e).apiId = ids
                       /\ Noting(e).inefficientType =
                             InefficientAnalysis(r, s.events, ids, OldNote(k).inefficientType)
        /\ ~Watching => /\ Noting(e).apiId = OldNote(k).apiId
                        /\ Noting(e).inefficientType = OldNote(k).inefficientType
        /\ OldNote(k).apiId \in Seq(Nat) /\ OldNote(k).inefficientType \in Seq(Inefficiencies)

LEMMA NotingOf ==
    ASSUME BaseInv, NEW e, Reported(e)
    PROVE  NotedOf(e)
<1> DEFINE k == KeyOf(e)
           s == StateWith(states, count, e, k)
           old == OldNote(k)
           x == [pidStates |-> pidStates, notes |-> [notes EXCEPT ![k] = IF Fresh(k) THEN NewNote ELSE @],
                 written |-> written]
           judged == IF Watching THEN JudgedNote(x, e, s, k) ELSE x.notes[k]
<1>1. k \in MemoryStateKey
  BY ReportedCache
<1>2. notes \in [MemoryStateKey -> Note]
  BY DEF BaseInv, TypeOK
<1>3. x.notes[k] = old /\ x.pidStates = pidStates
  <2> HIDE DEF k
  <2> QED BY <1>1, <1>2 DEF OldNote
<1>4. old.apiId \in Seq(Nat) /\ old.inefficientType \in Seq(Inefficiencies)
  <2>1. << >> \in Seq(Nat) /\ << >> \in Seq(Inefficiencies)
    OBVIOUS
  <2> HIDE DEF k
  <2> QED BY <1>1, <1>2, <2>1 DEF OldNote, NewNote, Note
<1>5. Noting(e).apiId = judged.apiId /\ Noting(e).inefficientType = judged.inefficientType
  <2>1. Noting(e) = NoteAfter(x, e, s, k)
    BY DEF Noting
  <2> HIDE DEF x, s, k
  <2>2. NoteAfter(x, e, s, k) = IF Decomposing /\ e.type # "FREE" THEN OwnedNote(judged, e) ELSE judged
    BY DEF NoteAfter
  <2> HIDE DEF judged
  <2>3. OwnedNote(judged, e).apiId = judged.apiId /\ OwnedNote(judged, e).inefficientType = judged.inefficientType
    BY DEF OwnedNote
  <2> QED BY <2>1, <2>2, <2>3
<1> HIDE DEF x, s, k, old
<1>6. Watching => /\ judged.apiId = Append(old.apiId, AfterMemoryEvent(pidStates[e.pool], e).apiId)
                  /\ judged.inefficientType =
                        InefficientAnalysis(AfterMemoryEvent(pidStates[e.pool], e), s.events,
                           Append(old.apiId, AfterMemoryEvent(pidStates[e.pool], e).apiId), old.inefficientType)
  BY <1>3 DEF JudgedNote
<1>7. ~Watching => judged.apiId = old.apiId /\ judged.inefficientType = old.inefficientType
  BY <1>3
<1> HIDE DEF judged
<1> QED BY <1>4, <1>5, <1>6, <1>7 DEF NotedOf, old, s, k

\* The records go on, in the order of their ids.
GoesOn(e) ==
    /\ Continues(Recorded', apiOf', Recorded, apiOf)
    /\ Recorded' = Recorded \cup {e}
    /\ apiOf'[e.id] = ApiOfNext(e.pool)
    /\ \A g \in Recorded : g.id \in Nat /\ g.id < e.id

LEMMA ReportedGoesOn ==
    ASSUME BaseInv, RecordsOK, NEW e, Reported(e)
    PROVE  GoesOn(e) /\ RecordsOK'
<1> DEFINE p == e.pool
           a == ApiOfNext(p)
<1>1. /\ p \in AnalysedPools /\ e.id = recordIndex + 1 /\ recordIndex \in Nat
      /\ api \in [AnalysedPools -> Nat]
      /\ apiOf' = Append(apiOf, a) /\ recordIndex' = recordIndex + 1
      /\ api' = [api EXCEPT ![p] = a] /\ operators' = operators
  BY DEF BaseInv, TypeOK, Reported, Legal
<1>2. a \in Nat /\ a >= 1 /\ a >= api[p]
  BY <1>1 DEF ApiOfNext, RecordsOK
<1> HIDE DEF a
<1>3. /\ apiOf'[recordIndex'] = a
      /\ \A i \in 1 .. recordIndex : apiOf'[i] = apiOf[i]
  BY <1>1, <1>2, ApiGrows
<1>4. Recorded' = Recorded \cup {e}
  BY ReportedRecords DEF RecordsGrow
<1>5. ASSUME NEW g \in Recorded
      PROVE  /\ apiOf'[g.id] = apiOf[g.id] /\ apiOf[g.id] \in Nat /\ g.id \in Nat /\ g.id < e.id
             /\ g.pool \in AnalysedPools /\ g.id \in 1 .. recordIndex' /\ apiOf'[g.id] \in 1 .. api'[g.pool]
             /\ g.pool = p => apiOf[g.id] <= a
  <2>1. g.pool \in AnalysedPools /\ g.id \in 1 .. recordIndex /\ apiOf[g.id] \in 1 .. api[g.pool]
    BY DEF RecordsOK
  <2>2. api[g.pool] \in Nat /\ api'[g.pool] \in Nat /\ api[g.pool] <= api'[g.pool]
    BY <1>1, <1>2, <2>1
  <2>3. g.pool = p => apiOf[g.id] <= a
    BY <1>1, <1>2, <2>1
  <2>4. apiOf'[g.id] = apiOf[g.id]
    BY <1>3, <2>1
  <2> HIDE DEF p
  <2>5. g.id \in Nat /\ g.id < e.id /\ g.id \in 1 .. recordIndex'
    BY <1>1, <2>1
  <2> QED BY <2>1, <2>2, <2>3, <2>4, <2>5
<1>6. apiOf'[e.id] = a
  BY <1>1, <1>3
<1>7. Continues(Recorded', apiOf', Recorded, apiOf)
  BY <1>2, <1>4, <1>5, <1>6 DEF Continues, Grows
<1>8. RecordsOK'
  <2>1. \A g \in Recorded' : /\ g.pool \in AnalysedPools /\ g.id \in 1 .. recordIndex'
                             /\ apiOf'[g.id] \in 1 .. api'[g.pool]
    <3>1. e.id \in 1 .. recordIndex' /\ api'[p] = a /\ a \in 1 .. a
      BY <1>1, <1>2
    <3> QED BY <1>1, <1>4, <1>5, <1>6, <3>1
  <2>2. \A x \in operators' : api'[x] >= 1
    <3> SUFFICES ASSUME NEW x \in operators PROVE api'[x] >= 1
      BY <1>1
    <3>1. x \in AnalysedPools /\ api[x] >= 1
      BY DEF BaseInv, TypeOK, RecordsOK
    <3> QED BY <1>1, <1>2, <3>1
  <2> QED BY <2>1, <2>2 DEF RecordsOK
<1> QED BY <1>4, <1>5, <1>6, <1>7, <1>8 DEF GoesOn, a

\* Blocks, while events come.
LEMMA BlockStays ==
    ASSUME NEW n \in Nat, NEW m \in Nat, n <= m, NEW p, NEW A, NEW s, InBlock(A, p, n, s),
           NEW B, \A g \in EventsOf(s) : B[g.id] = A[g.id]
    PROVE  InBlock(B, p, m, s)
<1>1. \A i \in 1 .. Len(s) : B[s[i].id] = A[s[i].id]
  BY DEF EventsOf
<1> QED BY <1>1 DEF InBlock

LEMMA BlockStarts ==
    ASSUME NEW p, NEW B, NEW m \in Nat \ {0}, NEW e, e.pool = p, e.id \in Nat, B[e.id] = m,
           e.type \in {"MALLOC", "ACCESS"}
    PROVE  InBlock(B, p, m, <<e>>)
<1>1. Len(<<e>>) = 1 /\ <<e>>[1] = e /\ 1 .. 1 = {1}
  OBVIOUS
<1>2. m \in 1 .. m
  OBVIOUS
<1> QED BY <1>1, <1>2 DEF InBlock

Grown(B, p, m, s, t, e) ==
    /\ e.type = "ACCESS" => InBlock(B, p, m, t)
    /\ s[1].type = "MALLOC" => InOrder(B, p, m, t)
    /\ Earlier(t) = EventsOf(s) /\ EventsOf(t) = EventsOf(s) \cup {e}
    /\ Len(t) = Len(s) + 1 /\ Len(t) \in Nat \ {0, 1} /\ t[1] = s[1] /\ t[Len(t)] = e
    /\ (\E g \in EventsOf(t) : g.type = "MALLOC") => s[1].type = "MALLOC"

LEMMA BlockGrows ==
    ASSUME NEW n \in Nat, NEW m \in Nat \ {0}, n <= m, NEW p, NEW A, NEW T, NEW s \in Seq(T), Len(s) # 0,
           InBlock(A, p, n, s), NEW B, \A g \in EventsOf(s) : B[g.id] = A[g.id],
           NEW e \in T, e.pool = p, e.id \in Nat, \A g \in EventsOf(s) : g.id < e.id, B[e.id] = m,
           e.type \in {"ACCESS", "FREE"}
    PROVE  Grown(B, p, m, s, Append(s, e), e)
<1> DEFINE t == Append(s, e)
           N == Len(s)
<1>1. /\ Len(t) = N + 1 /\ N \in Nat \ {0} /\ t[N + 1] = e
      /\ \A i \in 1 .. N : t[i] = s[i]
  BY AppendProperties
<1> HIDE DEF t
<1>2. /\ \A i \in 1 .. Len(t) : i \in 1 .. N \/ i = N + 1
      /\ \A i \in 1 .. Len(t) - 1 : i \in 1 .. N
      /\ \A i \in 1 .. N : i \in 1 .. Len(t) - 1 /\ i \in 1 .. Len(t)
      /\ N + 1 \in 1 .. Len(t) /\ 1 \in 1 .. N /\ N + 1 # 1
  <2> HIDE DEF N
  <2> QED BY <1>1
<1>3. ASSUME NEW i \in 1 .. N
      PROVE  /\ t[i] = s[i] /\ s[i].pool = p /\ s[i].id \in Nat /\ s[i].id < e.id
             /\ B[s[i].id] = A[s[i].id] /\ A[s[i].id] \in 1 .. n /\ A[s[i].id] \in 1 .. m
             /\ s[i].type = "ACCESS" \/ (i = 1 /\ s[i].type = "MALLOC")
  <2>1. s[i] \in EventsOf(s)
    BY DEF EventsOf
  <2> QED BY <1>1, <2>1 DEF InBlock
<1>4. \A i, j \in 1 .. N : i < j => s[i].id < s[j].id /\ A[s[i].id] <= A[s[j].id]
  BY DEF InBlock
<1>5. \A i \in 1 .. Len(t) : t[i].pool = p /\ t[i].id \in Nat /\ B[t[i].id] \in 1 .. m
  <2>1. m \in 1 .. m
    OBVIOUS
  <2> QED BY <1>1, <1>2, <1>3, <2>1
<1>6. ASSUME NEW i \in 1 .. Len(t), NEW j \in 1 .. Len(t), i < j
      PROVE  t[i].id < t[j].id /\ B[t[i].id] <= B[t[j].id]
  <2>1. CASE j \in 1 .. N
    <3>1. i \in 1 .. N
      BY <1>1, <1>6, <2>1
    <3> QED BY <1>3, <1>4, <1>6, <2>1, <3>1
  <2>2. CASE j = N + 1
    <3>1. i \in 1 .. N
      BY <1>1, <1>6, <2>2
    <3> QED BY <1>1, <1>3, <2>2, <3>1
  <2> QED BY <1>2, <2>1, <2>2
<1>7. e.type = "ACCESS" => InBlock(B, p, m, t)
  <2>1. e.type = "ACCESS" => \A i \in 1 .. Len(t) : t[i].type = "ACCESS" \/ (i = 1 /\ t[i].type = "MALLOC")
    BY <1>1, <1>2, <1>3
  <2> QED BY <1>5, <1>6, <2>1 DEF InBlock
<1>8. s[1].type = "MALLOC" => InOrder(B, p, m, t)
  <2>1. s[1].type = "MALLOC" => \A i \in 1 .. Len(t) - 1 : t[i].type = IF i = 1 THEN "MALLOC" ELSE "ACCESS"
    BY <1>2, <1>3
  <2> QED BY <1>5, <1>6, <2>1 DEF InOrder
<1>9. Earlier(t) = EventsOf(s) /\ EventsOf(t) = EventsOf(s) \cup {e}
  <2>1. Earlier(t) = EventsOf(s)
    <3>1. Earlier(t) \subseteq EventsOf(s)
      <4> SUFFICES ASSUME NEW i \in 1 .. Len(t) - 1 PROVE t[i] \in EventsOf(s)
        BY DEF Earlier
      <4>1. i \in 1 .. N /\ t[i] = s[i]
        BY <1>2, <1>3
      <4> QED BY <4>1 DEF EventsOf
    <3>2. EventsOf(s) \subseteq Earlier(t)
      <4> SUFFICES ASSUME NEW i \in 1 .. N PROVE s[i] \in Earlier(t)
        BY DEF EventsOf
      <4>1. i \in 1 .. Len(t) - 1 /\ t[i] = s[i]
        BY <1>2, <1>3
      <4> QED BY <4>1 DEF Earlier
    <3> QED BY <3>1, <3>2
  <2>2. EventsOf(t) = EventsOf(s) \cup {e}
    BY <1>1, <1>2, <1>3 DEF EventsOf
  <2> QED BY <2>1, <2>2
<1>10. Len(t) = N + 1 /\ Len(t) \in Nat \ {0, 1} /\ t[1] = s[1] /\ t[Len(t)] = e
  BY <1>1, <1>2, <1>3
<1>11. (\E g \in EventsOf(t) : g.type = "MALLOC") => s[1].type = "MALLOC"
  BY <1>3, <1>9 DEF EventsOf
<1> QED BY <1>7, <1>8, <1>9, <1>10, <1>11 DEF Grown, t

\* The block of a reported event.
LEMMA ReportedBlock ==
    ASSUME VerdictsInv, NEW e, Reported(e)
    PROVE  LET k == KeyOf(e)
               s == StateWith(states, count, e, k).events
               m == ApiOfNext(e.pool)
           IN  /\ e.type # "FREE" => InBlock(apiOf', e.pool, m, s)
               /\ Fresh(k) => s = <<e>>
               /\ ~Fresh(k) => e.type # "MALLOC" /\ k \in LiveKeys(states)
                               /\ s = Append(states[k].events, e)
                               /\ Grown(apiOf', e.pool, m, states[k].events, s, e)
<1> DEFINE k == KeyOf(e)
           s == StateWith(states, count, e, k).events
           m == ApiOfNext(e.pool)
           p == e.pool
<1>1. /\ k \in MemoryStateKey /\ k[1] = e.pool
      /\ Fresh(k) => s = <<e>>
      /\ ~Fresh(k) => s = Append(states[k].events, e)
  BY ReportedCache DEF VerdictsInv
<1>2. GoesOn(e)
  BY ReportedGoesOn DEF VerdictsInv
<1>3. e \in MemoryEvent /\ p \in AnalysedPools /\ api \in [AnalysedPools -> Nat] /\ e.id \in Nat
      /\ e.type \in EventTypes /\ states \in StatesMap
  BY DEF VerdictsInv, BaseInv, TypeOK, Reported, Legal, MemoryEvent
<1>4. m \in Nat \ {0} /\ api[p] <= m /\ api[p] \in Nat
  BY <1>3 DEF ApiOfNext, VerdictsInv, RecordsOK
<1>5. apiOf'[e.id] = m
  BY <1>2 DEF GoesOn
<1>6. e.type = "MALLOC" => Fresh(k)
  BY OwnKey DEF VerdictsInv, Reported, Fresh
<1> HIDE DEF m, s
<1>7. ASSUME Fresh(k), e.type # "FREE" PROVE InBlock(apiOf', p, m, <<e>>)
  BY <1>3, <1>4, <1>5, <1>7, BlockStarts DEF EventTypes
<1>8. ASSUME ~Fresh(k)
      PROVE  e.type # "MALLOC" /\ k \in LiveKeys(states) /\ Grown(apiOf', p, m, states[k].events, s, e)
  <2>1. k \in LiveKeys(states)
    BY <1>1, <1>8 DEF Fresh, LiveKeys
  <2>2. states[k].events \in Seq(MemoryEvent) /\ Len(states[k].events) # 0
    BY <1>3, <2>1, LiveState
  <2>3. InBlock(apiOf, p, api[p], states[k].events)
    BY <1>1, <2>1 DEF VerdictsInv, BlocksOK
  <2>4. EventsAt(k) \subseteq Recorded
    BY <2>1, CachedEvents DEF Recorded
  <2>5. \A g \in EventsAt(k) : apiOf'[g.id] = apiOf[g.id] /\ g.id < e.id
    BY <1>2, <2>4 DEF GoesOn, Continues, Grows
  <2> HIDE DEF k, p
  <2>6. PICK v : v = states[k].events
    OBVIOUS
  <2>7. \A g \in EventsOf(v) : apiOf'[g.id] = apiOf[g.id] /\ g.id < e.id
    BY <2>5, <2>6 DEF EventsAt
  <2>8. e.type \in {"ACCESS", "FREE"} /\ e.pool = p
    BY <1>3, <1>6, <1>8 DEF EventTypes, p
  <2>9. v \in Seq(MemoryEvent) /\ Len(v) # 0 /\ InBlock(apiOf, p, api[p], v)
    BY <2>2, <2>3, <2>6
  <2>10. Grown(apiOf', p, m, v, Append(v, e), e)
    BY <1>3, <1>4, <1>5, <2>7, <2>8, <2>9, BlockGrows
  <2> QED BY <1>1, <1>8, <2>1, <2>6, <2>8, <2>10
<1>9. ASSUME ~Fresh(k), e.type # "FREE" PROVE InBlock(apiOf', p, m, s)
  BY <1>3, <1>8, <1>9 DEF Grown, EventTypes
<1> QED BY <1>1, <1>7, <1>8, <1>9 DEF m, s

\* The analyzer sees an event.
Sees(e, x) ==
    LET p == e.pool
        k == KeyOf(e)
        r == AfterMemoryEvent(pidStates[p], e)
    IN  /\ SeenBy(x, ApiOfNext(p), r, p, e, Recorded', apiOf', unwatched)
        /\ NotedIn(KeysOf(p, states), x, apiOf', states, notes, unwatched)
        /\ Noted(x, apiOf', Noting(e).apiId, StateWith(states, count, e, k).events, unwatched)

LEMMA ReportedSees ==
    ASSUME VerdictsInv, NEW e, Reported(e), Watching
    PROVE  \E x : Sees(e, x)
<1> DEFINE k == KeyOf(e)
           s == StateWith(states, count, e, k).events
           p == e.pool
           m == ApiOfNext(p)
           r == AfterMemoryEvent(pidStates[p], e)
<1>1. /\ k \in MemoryStateKey /\ k[1] = p
      /\ p \in AnalysedPools /\ api \in [AnalysedPools -> Nat] /\ pidStates \in [AnalysedPools -> PidState]
      /\ e.type \in EventTypes /\ e \in MemoryEvent /\ states \in StatesMap
  BY ReportedCache DEF VerdictsInv, BaseInv, TypeOK, Reported, Legal, MemoryEvent
<1>2. GoesOn(e)
  BY ReportedGoesOn DEF VerdictsInv
<1>3. Numbers(p, api[p], pidStates[p], Recorded, apiOf, states, notes, unwatched)
      /\ (pidStates[p].isOpStart <=> p \in operators)
  BY <1>1 DEF VerdictsInv, NumbersOK
<1>4. m = (IF pidStates[p].isOpStart THEN api[p] ELSE api[p] + 1)
  BY <1>3 DEF ApiOfNext
<1>5. Known(Recorded, apiOf, api[p], p) /\ HasApis(KeysOf(p, states), api[p], Recorded, apiOf, states)
  BY KnownRecords, BlocksHaveApis DEF VerdictsInv
<1>6. Grows(Recorded \cup {e}, apiOf', Recorded, apiOf) /\ apiOf'[e.id] = m /\ Recorded' = Recorded \cup {e}
  BY <1>2 DEF GoesOn, Continues
<1>7. api[p] \in Nat /\ pidStates[p] \in PidState
  BY <1>1
<1>8. \E x : /\ SeenBy(x, m, r, p, e, Recorded \cup {e}, apiOf', unwatched)
             /\ NotedIn(KeysOf(p, states), x, apiOf', states, notes, unwatched)
  <2> HIDE DEF m, k, s
  <2> QED BY <1>3, <1>4, <1>5, <1>6, <1>7, NumbersSee
<1> HIDE DEF r, m, s
<1>9. PICK x : /\ SeenBy(x, m, r, p, e, Recorded', apiOf', unwatched)
               /\ NotedIn(KeysOf(p, states), x, apiOf', states, notes, unwatched)
  BY <1>6, <1>8
<1>10. r.apiId \in Nat /\ r.apiId = x[m] /\ Stepped(x, m)
  <2>1. r \in PidState
    BY <1>1, <1>7, PidTypes DEF r
  <2> QED BY <1>9, <2>1 DEF SeenBy, PidState
<1>11. Noting(e).apiId = Append(OldNote(k).apiId, r.apiId)
  BY NotingOf DEF NotedOf, VerdictsInv, r
<1>12. Noted(x, apiOf', Noting(e).apiId, s, unwatched)
  <2>1. CASE Fresh(k)
    <3>1. s = <<e>>
      BY <2>1, ReportedBlock DEF s
    <3>2. OldNote(k).apiId = << >>
      BY <2>1 DEF OldNote, NewNote
    <3> QED BY <1>6, <1>10, <1>11, <3>1, <3>2, NoteFirst
  <2>2. CASE ~Fresh(k)
    <3>1. k \in LiveKeys(states) /\ s = Append(states[k].events, e)
      BY <2>2, ReportedBlock DEF s
    <3>2. OldNote(k) = notes[k] /\ k \in KeysOf(p, states)
      BY <1>1, <2>2, <3>1 DEF OldNote, KeysOf
    <3>3. Noted(x, apiOf', notes[k].apiId, states[k].events, unwatched)
      BY <1>9, <3>2 DEF NotedIn
    <3>4. states[k].events \in Seq(MemoryEvent)
      BY <1>1, <3>1, LiveState
    <3> HIDE DEF k, p
    <3> QED BY <1>1, <1>6, <1>10, <1>11, <3>1, <3>2, <3>3, <3>4, NoteNext
  <2> QED BY <2>1, <2>2
<1> QED BY <1>9, <1>12 DEF Sees, r, m, s

\* The marks on the block of a reported event are right.
LEMMA ReportedMarks ==
    ASSUME VerdictsInv, NEW e, Reported(e)
    PROVE  LET s == StateWith(states, count, e, KeyOf(e)).events
           IN  (\E g \in EventsOf(s) : g.type = "MALLOC") =>
                  RightBy(Recorded', apiOf', unwatched, Noting(e).inefficientType, EventsOf(s))
<1> DEFINE k == KeyOf(e)
           s == StateWith(states, count, e, k).events
           p == e.pool
           m == ApiOfNext(p)
           r == AfterMemoryEvent(pidStates[p], e)
           marks == OldNote(k).inefficientType
           ids == Append(OldNote(k).apiId, r.apiId)
           Right == RightBy(Recorded', apiOf', unwatched, Noting(e).inefficientType, EventsOf(s))
<1> SUFFICES ASSUME \E g \in EventsOf(s) : g.type = "MALLOC" PROVE Right
  OBVIOUS
<1>1. /\ k[1] = p /\ p \in AnalysedPools /\ api \in [AnalysedPools -> Nat]
      /\ e.type \in EventTypes /\ e \in MemoryEvent /\ states \in StatesMap
  BY ReportedCache DEF VerdictsInv, BaseInv, TypeOK, Reported, Legal, MemoryEvent
<1>2. GoesOn(e) /\ RecordsOK'
  BY ReportedGoesOn DEF VerdictsInv
<1>3. /\ Watching => /\ Noting(e).apiId = ids
                     /\ Noting(e).inefficientType = InefficientAnalysis(r, s, ids, marks)
      /\ ~Watching => Noting(e).inefficientType = marks
      /\ marks \in Seq(Inefficiencies)
  BY NotingOf DEF NotedOf, VerdictsInv
<1>4. ~Watching => unwatched
  BY DEF VerdictsInv, BaseInv, CacheOK, Reported
<1>5. m \in Nat /\ api'[p] = m
  BY <1>1 DEF ApiOfNext, Reported
<1> HIDE DEF r, m, marks, ids, s
<1>6. CASE Fresh(k)
  <2>1. s = <<e>> /\ Len(<<e>>) = 1 /\ <<e>>[1] = e /\ 1 .. 1 = {1}
    BY <1>6, ReportedBlock DEF s
  <2>2. EventsOf(s) = {e} /\ e.type = "MALLOC"
    BY <2>1 DEF EventsOf
  <2>3. marks = << >>
    BY <1>6 DEF marks, OldNote, NewNote
  <2>4. InefficientAnalysis(r, s, ids, marks) = marks
    BY <2>1, <2>2 DEF InefficientAnalysis
  <2>5. Noting(e).inefficientType = << >>
    BY <1>3, <2>3, <2>4
  <2> QED BY <2>2, <2>5, FirstRight
<1>7. CASE ~Fresh(k)
  <2>1. PICK v : v = states[k].events
    OBVIOUS
  <2>2. /\ e.type # "MALLOC" /\ k \in LiveKeys(states) /\ s = Append(v, e)
        /\ Grown(apiOf', p, m, v, s, e)
    BY <1>7, <2>1, ReportedBlock DEF s, m
  <2>3. v[1].type = "MALLOC" /\ InOrder(apiOf', p, m, s) /\ Earlier(s) = EventsOf(v)
        /\ Len(s) \in Nat \ {0, 1} /\ s[Len(s)] = e
    BY <2>2 DEF Grown
  <2>4. e.type \in {"ACCESS", "FREE"}
    BY <1>1, <2>2 DEF EventTypes
  <2>5. OldNote(k) = notes[k] /\ k \in KeysOf(p, states)
    BY <1>1, <1>7, <2>2 DEF OldNote, KeysOf
  <2>6. RightBy(Recorded', apiOf', unwatched, marks, Earlier(s))
    <3>1. RightBy(Recorded, apiOf, unwatched, marks, EventsOf(v))
      BY <2>1, <2>2, <2>3, <2>5 DEF VerdictsInv, BlocksOK, LiveRight, marks
    <3>2. EventsOf(v) \subseteq Recorded
      BY <2>1, <2>2, CachedEvents DEF Recorded, EventsAt
    <3>3. OfPool(EventsOf(v), p)
      <4>1. InBlock(apiOf, p, api[p], v)
        BY <1>1, <2>1, <2>2 DEF VerdictsInv, BlocksOK
      <4> QED BY <4>1 DEF InBlock, OfPool, EventsOf
    <3>4. Continues(Recorded', apiOf', Recorded, apiOf)
      BY <1>2 DEF GoesOn
    <3> HIDE DEF p
    <3> QED BY <2>3, <3>1, <3>2, <3>3, <3>4, StayRight
  <2>7. ASSUME unwatched PROVE RightBy(Recorded', apiOf', unwatched, marks, EventsOf(s))
    BY <1>5, <2>3, <2>4, <2>6, <2>7, UnjudgedRight
  <2>8. CASE ~Watching
    BY <1>3, <1>4, <2>7, <2>8
  <2>9. CASE Watching /\ Len(ids) # Len(s)
    <3>1. InefficientAnalysis(r, s, ids, marks) = marks
      BY <2>9 DEF InefficientAnalysis
    <3>2. unwatched
      <4>1. PICK x : Noted(x, apiOf', ids, s, unwatched)
        BY <1>3, <2>9, ReportedSees DEF Sees, s
      <4> QED BY <2>9, <4>1 DEF Noted
    <3> QED BY <1>3, <2>7, <2>9, <3>1, <3>2
  <2>10. CASE Watching /\ Len(ids) = Len(s)
    <3>1. PICK x : /\ SeenBy(x, m, r, p, e, Recorded', apiOf', unwatched)
                   /\ Noted(x, apiOf', ids, s, unwatched)
      BY <1>3, <2>10, ReportedSees DEF Sees, s, m, r
    <3>2. Known(Recorded', apiOf', m, p)
      BY <1>2, <1>5 DEF RecordsOK, Known
    <3>3. \A i \in 1 .. Len(s) : ids[i] = x[apiOf'[s[i].id]] /\ Stepped(x, apiOf'[s[i].id])
      BY <2>10, <3>1 DEF Noted
    <3>4. apiOf'[s[Len(s)].id] = m /\ s[Len(s)].type \in {"ACCESS", "FREE"}
      BY <1>2, <2>3, <2>4 DEF GoesOn, m
    <3>5. \A type \in {"MALLOC", "FREE"} \ {s[Len(s)].type} : TmpOf(r, type) < r.apiId
      BY <2>3, <3>1 DEF SeenBy
    <3> HIDE DEF p
    <3>6. Judging(x, m, r, p, Recorded', apiOf', unwatched, s, ids)
      BY <2>3, <2>10, <3>1, <3>2, <3>3, <3>4, <3>5 DEF Judging, SeenBy
    <3>7. RightBy(Recorded', apiOf', unwatched, InefficientAnalysis(r, s, ids, marks), EventsOf(s))
      BY <1>3, <1>5, <2>6, <3>6, JudgedRight
    <3> QED BY <1>3, <2>10, <3>7
  <2> QED BY <2>8, <2>9, <2>10
<1> QED BY <1>6, <1>7 DEF s

\* The analyzer is off and misses an event.
Misses(e, x) ==
    LET p == e.pool
    IN  /\ Tracks(x, ApiOfNext(p), pidStates[p], p, Recorded', apiOf', unwatched)
        /\ NotedIn(KeysOf(p, states), x, apiOf', states, notes, unwatched)
        /\ Noted(x, apiOf', Noting(e).apiId, StateWith(states, count, e, KeyOf(e)).events, unwatched)

LEMMA ReportedMisses ==
    ASSUME VerdictsInv, NEW e, Reported(e), ~Watching
    PROVE  \E x : Misses(e, x)
<1> DEFINE k == KeyOf(e)
           s == StateWith(states, count, e, k).events
           p == e.pool
           m == ApiOfNext(p)
<1>1. /\ k \in MemoryStateKey /\ k[1] = p
      /\ p \in AnalysedPools /\ api \in [AnalysedPools -> Nat] /\ pidStates \in [AnalysedPools -> PidState]
      /\ e \in MemoryEvent /\ states \in StatesMap
  BY ReportedCache DEF VerdictsInv, BaseInv, TypeOK, Reported, Legal
<1>2. GoesOn(e)
  BY ReportedGoesOn DEF VerdictsInv
<1>3. Numbers(p, api[p], pidStates[p], Recorded, apiOf, states, notes, unwatched)
      /\ ~pidStates[p].isOpStart
  BY <1>1 DEF VerdictsInv, NumbersOK
<1>4. unwatched
  BY DEF VerdictsInv, BaseInv, CacheOK, Reported
<1>5. Known(Recorded, apiOf, api[p], p) /\ HasApis(KeysOf(p, states), api[p], Recorded, apiOf, states)
  BY KnownRecords, BlocksHaveApis DEF VerdictsInv
<1>6. Grows(Recorded', apiOf', Recorded, apiOf) /\ (m = api[p] \/ m = api[p] + 1)
  BY <1>2 DEF GoesOn, Continues, ApiOfNext
<1>7. api[p] \in Nat /\ pidStates[p] \in PidState
  BY <1>1
<1>8. PICK w : Tracks(w, api[p], pidStates[p], p, Recorded, apiOf, unwatched)
               /\ NotedIn(KeysOf(p, states), w, apiOf, states, notes, unwatched)
  BY <1>3 DEF Numbers
<1> HIDE DEF m, s
<1>9. PICK x : Tracks(x, m, pidStates[p], p, Recorded', apiOf', unwatched) /\ Extends(x, m, w, api[p])
  <2> HIDE DEF p
  <2> QED BY <1>3, <1>4, <1>5, <1>6, <1>7, <1>8, Untouched
<1>10. NotedIn(KeysOf(p, states), x, apiOf', states, notes, unwatched)
  <2>1. Kept(KeysOf(p, states), states, notes, states, notes)
    BY DEF Kept
  <2> HIDE DEF p
  <2> QED BY <1>5, <1>6, <1>7, <1>8, <1>9, <2>1, NotedInStays
<1>11. Noting(e).apiId = OldNote(k).apiId
  BY NotingOf DEF NotedOf, VerdictsInv
<1>12. Noted(x, apiOf', Noting(e).apiId, s, unwatched)
  <2>1. CASE Fresh(k)
    <3>1. s = <<e>> /\ Len(<<e>>) = 1 /\ Len(<< >>) = 0 /\ << >> \in Seq(Nat)
      BY <2>1, ReportedBlock DEF s
    <3>2. OldNote(k).apiId = << >>
      BY <2>1 DEF OldNote, NewNote
    <3> QED BY <1>4, <1>11, <3>1, <3>2 DEF Noted
  <2>2. CASE ~Fresh(k)
    <3>1. k \in LiveKeys(states) /\ s = Append(states[k].events, e)
      BY <2>2, ReportedBlock DEF s
    <3>2. OldNote(k) = notes[k] /\ k \in KeysOf(p, states)
      BY <1>1, <2>2, <3>1 DEF OldNote, KeysOf
    <3>3. Noted(x, apiOf', notes[k].apiId, states[k].events, unwatched)
      BY <1>10, <3>2 DEF NotedIn
    <3>4. states[k].events \in Seq(MemoryEvent)
      BY <1>1, <3>1, LiveState
    <3> HIDE DEF k, p
    <3> QED BY <1>1, <1>4, <1>11, <3>1, <3>2, <3>3, <3>4, NoteMissed
  <2> QED BY <2>1, <2>2
<1> QED BY <1>9, <1>10, <1>12 DEF Misses, m, s

\* What a reported event leaves in the notes.
LEMMA ReportedNotes ==
    ASSUME BaseInv, NEW e, Reported(e)
    PROVE  LET k == KeyOf(e)
           IN  /\ \A j \in LiveKeys(states') :
                     \/ j # k /\ j \in LiveKeys(states) /\ states'[j] = states[j] /\ notes'[j] = notes[j]
                     \/ j = k /\ e.type # "FREE" /\ notes'[j] = Noting(e)
                              /\ states'[j] = StateWith(states, count, e, k)
               /\ k[1] = e.pool /\ unwatched' = unwatched /\ subscribers' = subscribers
<1> DEFINE k == KeyOf(e)
           s == StateWith(states, count, e, k)
<1>1. /\ k \in MemoryStateKey /\ k[1] = e.pool
      /\ \A j \in MemoryStateKey \ {k} : states'[j] = states[j] /\ notes'[j] = notes[j]
      /\ states'[k] = (IF e.type = "FREE" THEN NoState ELSE s)
      /\ LiveKeys(states') = (IF e.type = "FREE" THEN LiveKeys(states) \ {k} ELSE LiveKeys(states) \cup {k})
  BY ReportedCache
<1>2. e.type # "FREE" => notes'[k] = Noting(e)
  BY <1>1 DEF Reported, Handled, BaseInv, TypeOK
<1>3. unwatched' = unwatched /\ subscribers' = subscribers
  BY DEF Reported, NoCall, Unswitched
<1> HIDE DEF k, s
<1>4. \A j \in LiveKeys(states') : j \in MemoryStateKey
  BY DEF LiveKeys
<1> QED BY <1>1, <1>2, <1>3, <1>4 DEF k, s

LEMMA ReportedKeepsNumbers ==
    ASSUME VerdictsInv, NEW e, Reported(e)
    PROVE  NumbersOK'
<1> DEFINE k == KeyOf(e)
           p == e.pool
           m == ApiOfNext(p)
<1>1. /\ p \in AnalysedPools /\ api \in [AnalysedPools -> Nat] /\ pidStates \in [AnalysedPools -> PidState]
      /\ api' = [api EXCEPT ![p] = m] /\ operators' = operators
      /\ pidStates' = PidAfter([pidStates |-> pidStates], e)
  BY DEF VerdictsInv, BaseInv, TypeOK, Reported, Legal, Handled
<1>2. /\ \A j \in LiveKeys(states') :
            \/ j # k /\ j \in LiveKeys(states) /\ states'[j] = states[j] /\ notes'[j] = notes[j]
            \/ j = k /\ e.type # "FREE" /\ notes'[j] = Noting(e) /\ states'[j] = StateWith(states, count, e, k)
      /\ k[1] = p /\ unwatched' = unwatched /\ (Watching' <=> Watching)
  BY ReportedNotes DEF VerdictsInv, Watching, Asked
<1>3. GoesOn(e)
  BY ReportedGoesOn DEF VerdictsInv
<1>4. pidStates' = IF Watching THEN [pidStates EXCEPT ![p] = AfterMemoryEvent(@, e)] ELSE pidStates
  BY <1>1 DEF PidAfter
<1> HIDE DEF m
<1>5. ASSUME NEW o \in AnalysedPools, o # p
      PROVE  /\ pidStates'[o].isOpStart <=> o \in operators' /\ Watching'
             /\ Numbers(o, api'[o], pidStates'[o], Recorded', apiOf', states', notes', unwatched')
  <2>1. /\ pidStates[o].isOpStart <=> o \in operators /\ Watching
        /\ Numbers(o, api[o], pidStates[o], Recorded, apiOf, states, notes, unwatched)
    BY DEF VerdictsInv, NumbersOK
  <2>2. api'[o] = api[o] /\ pidStates'[o] = pidStates[o] /\ api[o] \in Nat /\ pidStates[o] \in PidState
    BY <1>1, <1>4, <1>5
  <2>3. Known(Recorded, apiOf, api[o], o) /\ HasApis(KeysOf(o, states), api[o], Recorded, apiOf, states)
    BY KnownRecords, BlocksHaveApis DEF VerdictsInv
  <2>4. Grows(Recorded', apiOf', Recorded, apiOf)
    BY <1>3 DEF GoesOn, Continues
  <2>5. \A type \in {"MALLOC", "FREE"} : Of(Recorded', o, type) = Of(Recorded, o, type)
    BY <1>3, <1>5 DEF GoesOn, Of
  <2> HIDE DEF k
  <2>6. KeysOf(o, states') \subseteq KeysOf(o, states) /\ Kept(KeysOf(o, states'), states', notes', states, notes)
    BY <1>2, <1>5 DEF KeysOf, Kept
  <2>7. Numbers(o, api[o], pidStates[o], Recorded', apiOf', states', notes', unwatched)
    <3>1. PICK n, q : n = api[o] /\ q = pidStates[o]
      OBVIOUS
    <3>2. n \in Nat /\ q \in PidState /\ Numbers(o, n, q, Recorded, apiOf, states, notes, unwatched)
          /\ Known(Recorded, apiOf, n, o) /\ HasApis(KeysOf(o, states), n, Recorded, apiOf, states)
      BY <2>1, <2>2, <2>3, <3>1
    <3>3. Numbers(o, n, q, Recorded', apiOf', states', notes', unwatched)
      BY <2>4, <2>5, <2>6, <3>2, NumbersStay
    <3> QED BY <3>1, <3>3
  <2> QED BY <1>1, <1>2, <2>1, <2>2, <2>7
<1>6. ASSUME NEW x, NotedIn(KeysOf(p, states), x, apiOf', states, notes, unwatched),
             Noted(x, apiOf', Noting(e).apiId, StateWith(states, count, e, k).events, unwatched)
      PROVE  NotedIn(KeysOf(p, states'), x, apiOf', states', notes', unwatched')
  <2> HIDE DEF k, p
  <2> SUFFICES ASSUME NEW j \in KeysOf(p, states')
               PROVE  Noted(x, apiOf', notes'[j].apiId, states'[j].events, unwatched)
    BY <1>2 DEF NotedIn
  <2>1. j \in LiveKeys(states') /\ j[1] = p
    BY DEF KeysOf
  <2>2. CASE j # k
    <3>1. j \in KeysOf(p, states) /\ states'[j] = states[j] /\ notes'[j] = notes[j]
      BY <1>2, <2>1, <2>2 DEF KeysOf
    <3> QED BY <1>6, <3>1 DEF NotedIn
  <2>3. CASE j = k
    BY <1>2, <1>6, <2>1, <2>3
  <2> QED BY <2>2, <2>3
<1>7. api'[p] = m /\ pidStates[p] \in PidState
  BY <1>1
<1>8. pidStates[p].isOpStart <=> p \in operators /\ Watching
  BY <1>1 DEF VerdictsInv, NumbersOK
<1>9. /\ pidStates'[p].isOpStart <=> p \in operators' /\ Watching'
      /\ Numbers(p, api'[p], pidStates'[p], Recorded', apiOf', states', notes', unwatched')
  <2>1. CASE Watching
    <3> DEFINE r == AfterMemoryEvent(pidStates[p], e)
    <3>1. PICK x : Sees(e, x)
      BY <2>1, ReportedSees
    <3>2. pidStates'[p] = r
      BY <1>1, <1>4, <2>1
    <3>3. r.isOpStart <=> pidStates[p].isOpStart
      BY <1>7, PidAfterEvent
    <3> HIDE DEF r
    <3>4. Tracks(x, m, r, p, Recorded', apiOf', unwatched)
      BY <3>1 DEF Sees, SeenBy, r, m
    <3>5. NotedIn(KeysOf(p, states'), x, apiOf', states', notes', unwatched')
      BY <1>6, <3>1 DEF Sees
    <3> QED BY <1>1, <1>2, <1>7, <1>8, <3>2, <3>3, <3>4, <3>5 DEF Numbers
  <2>2. CASE ~Watching
    <3>1. PICK x : Misses(e, x)
      BY <2>2, ReportedMisses
    <3>2. pidStates'[p] = pidStates[p]
      BY <1>4, <2>2
    <3>3. Tracks(x, m, pidStates[p], p, Recorded', apiOf', unwatched)
      BY <3>1 DEF Misses, m
    <3>4. NotedIn(KeysOf(p, states'), x, apiOf', states', notes', unwatched')
      BY <1>6, <3>1 DEF Misses
    <3> QED BY <1>1, <1>2, <1>7, <1>8, <3>2, <3>3, <3>4 DEF Numbers
  <2> QED BY <2>1, <2>2
<1> HIDE DEF p
<1>10. ASSUME NEW o \in AnalysedPools
       PROVE  /\ pidStates'[o].isOpStart <=> o \in operators' /\ Watching'
              /\ Numbers(o, api'[o], pidStates'[o], Recorded', apiOf', states', notes', unwatched')
  BY <1>5, <1>9
<1> QED BY <1>10 DEF NumbersOK

LEMMA ReportedKeepsBlocks ==
    ASSUME VerdictsInv, NEW e, Reported(e)
    PROVE  BlocksOK'
<1> DEFINE k == KeyOf(e)
           s == StateWith(states, count, e, k)
           p == e.pool
           m == ApiOfNext(p)
<1>1. /\ p \in AnalysedPools /\ api \in [AnalysedPools -> Nat] /\ states \in StatesMap
      /\ api' = [api EXCEPT ![p] = m] /\ e.type \in EventTypes
  BY DEF VerdictsInv, BaseInv, TypeOK, Reported, Legal, Handled, MemoryEvent
<1>2. /\ \A j \in LiveKeys(states') :
            \/ j # k /\ j \in LiveKeys(states) /\ states'[j] = states[j] /\ notes'[j] = notes[j]
            \/ j = k /\ e.type # "FREE" /\ notes'[j] = Noting(e) /\ states'[j] = s
      /\ k[1] = p /\ unwatched' = unwatched
  BY ReportedNotes DEF VerdictsInv
<1>3. GoesOn(e)
  BY ReportedGoesOn DEF VerdictsInv
<1>4. s \in MemoryState
  BY ReportedCache DEF VerdictsInv
<1>5. m \in Nat /\ api[p] <= m
  BY <1>1 DEF ApiOfNext
<1>6. /\ e.type # "FREE" => InBlock(apiOf', p, m, s.events)
      /\ (\E g \in EventsOf(s.events) : g.type = "MALLOC") =>
            RightBy(Recorded', apiOf', unwatched, Noting(e).inefficientType, EventsOf(s.events))
  BY ReportedBlock, ReportedMarks DEF VerdictsInv
<1>7. s.events[1] \in EventsOf(s.events)
  <2>1. s.events \in Seq(MemoryEvent) /\ s.events # << >>
    BY <1>4 DEF MemoryState
  <2> HIDE DEF s
  <2>2. 1 \in 1 .. Len(s.events)
    BY <2>1
  <2> QED BY <2>2 DEF EventsOf
<1> HIDE DEF m, s, k
<1>8. ASSUME NEW j \in LiveKeys(states')
      PROVE  /\ InBlock(apiOf', j[1], api'[j[1]], states'[j].events)
             /\ LiveRight(Recorded', apiOf', unwatched', notes'[j], states'[j].events)
  <2>1. CASE j # k
    <3>1. j \in LiveKeys(states) /\ states'[j] = states[j] /\ notes'[j] = notes[j]
      BY <1>2, <2>1
    <3>2. PICK v, o : v = states[j].events /\ o = j[1]
      OBVIOUS
    <3>3. InBlock(apiOf, o, api[o], v) /\ LiveRight(Recorded, apiOf, unwatched, notes[j], v)
          /\ o \in AnalysedPools
      BY <3>1, <3>2 DEF VerdictsInv, BlocksOK, BaseInv, HeapOK
    <3>4. EventsOf(v) \subseteq Recorded
      BY <3>1, <3>2, CachedEvents DEF Recorded, EventsAt
    <3>5. \A g \in EventsOf(v) : apiOf'[g.id] = apiOf[g.id]
      BY <1>3, <3>4 DEF GoesOn, Continues, Grows
    <3>6. api[o] \in Nat /\ api'[o] \in Nat /\ api[o] <= api'[o]
      BY <1>1, <1>5, <3>3
    <3>7. InBlock(apiOf', o, api'[o], v)
      BY <3>3, <3>5, <3>6, BlockStays
    <3>8. OfPool(EventsOf(v), o)
      BY <3>3 DEF InBlock, OfPool, EventsOf
    <3>9. Continues(Recorded', apiOf', Recorded, apiOf)
      BY <1>3 DEF GoesOn
    <3>10. LiveRight(Recorded', apiOf', unwatched, notes[j], v)
      BY <3>3, <3>4, <3>8, <3>9, StayRight DEF LiveRight
    <3> QED BY <1>2, <3>1, <3>2, <3>7, <3>10
  <2>2. CASE j = k
    <3>1. e.type # "FREE" /\ notes'[j] = Noting(e) /\ states'[j] = s /\ j[1] = p
      BY <1>2, <2>2
    <3>2. api'[p] = m
      BY <1>1, <1>5
    <3>3. LiveRight(Recorded', apiOf', unwatched, Noting(e), s.events)
      BY <1>6, <1>7 DEF LiveRight
    <3> HIDE DEF p
    <3> QED BY <1>2, <1>6, <3>1, <3>2, <3>3
  <2> QED BY <2>1, <2>2
<1> QED BY <1>8 DEF BlocksOK

LEMMA ReportedKeepsRows ==
    ASSUME VerdictsInv, NEW e, Reported(e)
    PROVE  RowsOK'
<1> DEFINE k == KeyOf(e)
           s == StateWith(states, count, e, k)
           p == e.pool
           D == DumpRows(s, Noting(e))
           gone == Done(count', states')
<1>1. /\ s \in MemoryState /\ s.allocationId \in 1 .. count' /\ count' \in Nat /\ count \in Nat /\ count <= count'
      /\ LiveKeys(states') = (IF e.type = "FREE" THEN LiveKeys(states) \ {k} ELSE LiveKeys(states) \cup {k})
      /\ \A j \in LiveKeys(states) \ {k} : states[j].allocationId # s.allocationId /\ states'[j] = states[j]
      /\ states'[k] = (IF e.type = "FREE" THEN NoState ELSE s)
      /\ Fresh(k) => s.allocationId = count + 1
      /\ ~Fresh(k) => s.allocationId = states[k].allocationId /\ k \in LiveKeys(states)
      /\ k[1] = p
  <2>1. LiveKeys(states) \subseteq MemoryStateKey /\ count \in Nat
    BY DEF LiveKeys, VerdictsInv, BaseInv, TypeOK
  <2> QED BY <2>1, ReportedCache DEF VerdictsInv, Fresh, LiveKeys
<1>2. GoesOn(e) /\ RecordsGrow(e) /\ unwatched' = unwatched
  BY ReportedGoesOn, ReportedRecords, ReportedNotes DEF VerdictsInv
<1>3. Noting(e) \in Note /\ p \in AnalysedPools
  BY DEF Reported, Legal
<1>4. (\E g \in EventsOf(s.events) : g.type = "MALLOC") =>
         RightBy(Recorded', apiOf', unwatched, Noting(e).inefficientType, EventsOf(s.events))
  BY ReportedMarks DEF VerdictsInv
<1>5. AreRowsOf(D, s, Noting(e))
  BY <1>1, <1>3, RowsOfBlock
<1>6. /\ MemoryRows' = (IF e.type = "FREE" THEN MemoryRows \cup D ELSE MemoryRows)
      /\ Recorded' = Recorded \cup {e}
      /\ EventsOf(s.events) = IF Fresh(k) THEN {e} ELSE EventsAt(k) \cup {e}
  BY <1>2 DEF RecordsGrow
<1> HIDE DEF s, k, D
<1>7. \A a \in Done(count, states) : a \in Nat /\ a # s.allocationId
  BY <1>1 DEF Done
<1>8. Done(count, states) \subseteq gone
  <2> SUFFICES ASSUME NEW a \in Done(count, states) PROVE a \in Done(count', states')
    OBVIOUS
  <2>1. a \in 1 .. count'
    BY <1>1 DEF Done
  <2>2. ASSUME NEW j \in LiveKeys(states') PROVE states'[j].allocationId # a
    <3>1. CASE j = k
      BY <1>1, <1>7, <3>1 DEF LiveKeys
    <3>2. CASE j # k
      BY <1>1, <3>2 DEF Done
    <3> QED BY <3>1, <3>2
  <2> QED BY <2>1, <2>2 DEF Done
<1> HIDE DEF gone
<1>9. RowsRight(MemoryRows, gone, Recorded', apiOf', unwatched)
  <2>1. Continues(Recorded', apiOf', Recorded, apiOf)
    BY <1>2 DEF GoesOn
  <2>2. RowsRight(MemoryRows, Done(count, states), Recorded, apiOf, unwatched)
    BY DEF VerdictsInv, RowsOK
  <2>3. PICK M, done, R, A, loose : /\ M = MemoryRows /\ done = Done(count, states) /\ R = Recorded
                                    /\ A = apiOf /\ loose = unwatched
    OBVIOUS
  <2>4. PICK S, B, end : S = Recorded' /\ B = apiOf' /\ end = gone
    OBVIOUS
  <2>5. RowsRight(M, done, R, A, loose) /\ Continues(S, B, R, A) /\ done \subseteq end
    BY <1>8, <2>1, <2>2, <2>3, <2>4
  <2>6. RowsRight(M, end, S, B, loose)
    BY <2>5, RowsStay
  <2> QED BY <2>3, <2>4, <2>6
<1>10. ASSUME e.type = "FREE" PROVE RowsRight(D, gone, Recorded', apiOf', unwatched)
  <2>1. s.allocationId \in gone
    BY <1>1, <1>10 DEF Done, gone
  <2>2. ~Fresh(k) => EventsAt(k) \subseteq Recorded
    BY <1>1, CachedEvents DEF Recorded
  <2>3. OfPool(EventsOf(s.events), p)
    <3>1. ASSUME ~Fresh(k) PROVE OfPool(EventsAt(k), p)
      <4>1. InBlock(apiOf, p, api[p], states[k].events)
        BY <1>1, <3>1 DEF VerdictsInv, BlocksOK
      <4> QED BY <4>1 DEF InBlock, OfPool, EventsAt, EventsOf
    <3> QED BY <1>6, <3>1 DEF OfPool
  <2>4. EventsOf(s.events) \subseteq Recorded'
    BY <1>6, <2>2
  <2> HIDE DEF p
  <2> QED BY <1>3, <1>4, <1>5, <2>1, <2>3, <2>4, RowsOfOne
<1>11. ASSUME NEW r \in MemoryRows, NEW d \in D PROVE r.allocationId # d.allocationId
  <2>1. r.allocationId \in Done(count, states)
    BY DEF VerdictsInv, RowsOK, RowsRight
  <2>2. d.allocationId = s.allocationId
    BY <1>5 DEF AreRowsOf
  <2> QED BY <1>7, <2>1, <2>2
<1>12. RowsRight(MemoryRows', gone, Recorded', apiOf', unwatched)
  <2>1. CASE e.type = "FREE"
    BY <1>6, <1>9, <1>10, <1>11, <2>1, RowsJoin
  <2>2. CASE e.type # "FREE"
    BY <1>6, <1>9, <2>2
  <2> QED BY <2>1, <2>2
<1> QED BY <1>2, <1>12 DEF RowsOK, gone, Done, LiveKeys

-----------------------------------------------------------------------------
(*****************************************************************************)
(* So do the other steps, which record no memory event.                      *)
(*****************************************************************************)

\* The steps that record no memory event.
Quiet == \/ Unreported
         \/ \E p, type : Operated(p, type)
         \/ \E k, class : Owned(k, class)
         \/ Swept
         \/ Reconfigured

\* They leave the records, their APIs and the blocks that stay cached as they are.
StaysQuiet ==
    /\ Continues(Recorded', apiOf', Recorded, apiOf) /\ Recorded' = Recorded /\ RecordsOK'
    /\ \A p \in AnalysedPools : api[p] \in Nat /\ api'[p] \in Nat /\ api[p] <= api'[p]
    /\ \A k \in LiveKeys(states') :
          /\ k \in LiveKeys(states) /\ states'[k] = states[k] /\ notes'[k].apiId = notes[k].apiId
          /\ notes'[k].inefficientType = notes[k].inefficientType
    /\ (unwatched => unwatched') /\ count' = count

LEMMA SameApis ==
    ASSUME BaseInv, RecordsOK, Recorded' = Recorded, UNCHANGED <<operators, recordIndex, api, apiOf>>
    PROVE  /\ Continues(Recorded', apiOf', Recorded, apiOf) /\ RecordsOK'
           /\ \A p \in AnalysedPools : api[p] \in Nat /\ api'[p] \in Nat /\ api[p] <= api'[p]
<1>1. /\ operators' = operators /\ recordIndex' = recordIndex /\ api' = api /\ apiOf' = apiOf
      /\ api \in [AnalysedPools -> Nat]
  BY DEF BaseInv, TypeOK
<1>2. RecordsOK'
  BY <1>1 DEF RecordsOK
<1>3. \A g \in Recorded : apiOf[g.id] \in Nat
  BY <1>1 DEF RecordsOK
<1>4. Continues(Recorded', apiOf', Recorded, apiOf)
  BY <1>1, <1>3 DEF Continues, Grows
<1> QED BY <1>1, <1>2, <1>4

LEMMA OperatedApis ==
    ASSUME BaseInv, RecordsOK, NEW p, NEW type, Operated(p, type), Recorded' = Recorded
    PROVE  /\ Continues(Recorded', apiOf', Recorded, apiOf) /\ RecordsOK'
           /\ \A o \in AnalysedPools : api[o] \in Nat /\ api'[o] \in Nat /\ api[o] <= api'[o]
<1>1. /\ recordIndex \in Nat /\ api \in [AnalysedPools -> Nat] /\ p \in AnalysedPools
      /\ operators \subseteq AnalysedPools
      /\ apiOf' = Append(apiOf, 0) /\ recordIndex' = recordIndex + 1
      /\ api' = [api EXCEPT ![p] = IF type = "START" THEN @ + 1 ELSE @]
      /\ operators' = IF type = "START" THEN operators \cup {p} ELSE operators \ {p}
  BY DEF BaseInv, TypeOK, Operated
<1>2. \A o \in AnalysedPools : /\ api[o] \in Nat /\ api'[o] \in Nat /\ api[o] <= api'[o]
                               /\ o = p /\ type = "START" => api'[o] >= 1
  BY <1>1
<1>3. \A i \in 1 .. recordIndex : apiOf'[i] = apiOf[i] /\ i \in 1 .. recordIndex'
  <2>1. \A i \in 1 .. recordIndex : apiOf'[i] = apiOf[i]
    <3>1. PICK a \in Nat : a = 0
      OBVIOUS
    <3>2. apiOf' = Append(apiOf, a) /\ recordIndex' = recordIndex + 1
      BY <1>1, <3>1
    <3> QED BY <3>2, ApiGrows
  <2>2. \A i \in 1 .. recordIndex : i \in 1 .. recordIndex'
    BY <1>1
  <2> QED BY <2>1, <2>2
<1>4. ASSUME NEW g \in Recorded
      PROVE  /\ g.pool \in AnalysedPools /\ g.id \in 1 .. recordIndex'
             /\ apiOf'[g.id] \in 1 .. api'[g.pool] /\ apiOf'[g.id] = apiOf[g.id] /\ apiOf[g.id] \in Nat
  <2>1. g.pool \in AnalysedPools /\ g.id \in 1 .. recordIndex /\ apiOf[g.id] \in 1 .. api[g.pool]
    BY DEF RecordsOK
  <2>2. api[g.pool] \in Nat /\ api'[g.pool] \in Nat /\ api[g.pool] <= api'[g.pool]
    BY <1>2, <2>1
  <2> QED BY <1>3, <2>1, <2>2
<1>5. \A o \in operators' : api'[o] >= 1
  <2> SUFFICES ASSUME NEW o \in operators' PROVE api'[o] >= 1
    OBVIOUS
  <2>1. CASE o \in operators
    <3>1. o \in AnalysedPools /\ api[o] >= 1
      BY <1>1, <2>1 DEF RecordsOK
    <3> QED BY <1>2, <3>1
  <2>2. CASE o \notin operators
    <3>1. o = p /\ type = "START"
      BY <1>1, <2>2
    <3> QED BY <1>1, <1>2, <3>1
  <2> QED BY <2>1, <2>2
<1>6. RecordsOK'
  BY <1>4, <1>5 DEF RecordsOK
<1>7. Continues(Recorded', apiOf', Recorded, apiOf)
  BY <1>4 DEF Continues, Grows
<1> QED BY <1>2, <1>6, <1>7

LEMMA QuietSteps ==
    ASSUME BaseInv, RecordsOK, Quiet
    PROVE  StaysQuiet
<1> DEFINE Blocks == \A k \in LiveKeys(states') :
              /\ k \in LiveKeys(states) /\ states'[k] = states[k] /\ notes'[k].apiId = notes[k].apiId
              /\ notes'[k].inefficientType = notes[k].inefficientType
<1>1. ASSUME states' = states, notes' = notes PROVE Blocks
  BY <1>1 DEF LiveKeys
<1>2. CASE Unreported
  <2>1. Recorded' = Recorded
    BY <1>2, SameRecords DEF Unreported
  <2>2. Blocks
    BY <1>1, <1>2 DEF Unreported
  <2> HIDE DEF Blocks
  <2>3. UNCHANGED <<operators, recordIndex, api, apiOf, unwatched, count>>
    BY <1>2 DEF Unreported
  <2> QED BY <2>1, <2>2, <2>3, SameApis DEF StaysQuiet, Blocks
<1>3. ASSUME NEW p, NEW type, Operated(p, type) PROVE StaysQuiet
  <2>1. Recorded' = Recorded
    BY <1>3, OperatedRecords
  <2>2. Blocks
    BY <1>1, <1>3 DEF Operated
  <2> HIDE DEF Blocks
  <2>3. UNCHANGED <<unwatched, count>>
    BY <1>3 DEF Operated, NoCall, Unswitched
  <2>4. /\ Continues(Recorded', apiOf', Recorded, apiOf) /\ RecordsOK'
        /\ \A o \in AnalysedPools : api[o] \in Nat /\ api'[o] \in Nat /\ api[o] <= api'[o]
    BY <1>3, <2>1, OperatedApis
  <2> QED BY <2>1, <2>2, <2>3, <2>4 DEF StaysQuiet, Blocks
<1>4. ASSUME NEW j, NEW class, Owned(j, class) PROVE StaysQuiet
  <2>1. Recorded' = Recorded
    BY <1>4, SameRecords DEF Owned
  <2>2. Blocks
    <3>1. notes \in [MemoryStateKey -> Note] /\ states' = states /\ j \in MemoryStateKey
      BY <1>4 DEF Owned, BaseInv, TypeOK
    <3>2. notes' = notes \/ notes' = [notes EXCEPT ![j].memscopeDefinedOwner = UpdateOwner(@, class)]
      BY <1>4 DEF Owned
    <3>3. \A k \in MemoryStateKey : /\ notes'[k].apiId = notes[k].apiId
                                    /\ notes'[k].inefficientType = notes[k].inefficientType
      BY <3>1, <3>2 DEF Note
    <3> QED BY <3>1, <3>3 DEF LiveKeys
  <2> HIDE DEF Blocks
  <2>3. UNCHANGED <<operators, recordIndex, api, apiOf, unwatched, count>>
    BY <1>4 DEF Owned
  <2> QED BY <2>1, <2>2, <2>3, SameApis DEF StaysQuiet, Blocks
<1>5. CASE Swept
  <2>1. Recorded' = Recorded
    BY <1>5, SweptRecords
  <2>2. Blocks
    <3>1. LiveKeys(states') = {}
      BY <1>5 DEF Swept, EmptyMap, LiveKeys
    <3> QED BY <3>1
  <2> HIDE DEF Blocks
  <2>3. UNCHANGED <<operators, recordIndex, api, apiOf, count>> /\ (unwatched => unwatched')
    BY <1>5 DEF Swept
  <2> QED BY <2>1, <2>2, <2>3, SameApis DEF StaysQuiet, Blocks
<1>6. CASE Reconfigured
  <2>1. Recorded' = Recorded
    BY <1>6, SameRecords DEF Reconfigured
  <2>2. Blocks
    BY <1>1, <1>6 DEF Reconfigured
  <2> HIDE DEF Blocks
  <2>3. UNCHANGED <<operators, recordIndex, api, apiOf, count>> /\ (unwatched => unwatched')
    BY <1>6 DEF Reconfigured
  <2> QED BY <2>1, <2>2, <2>3, SameApis DEF StaysQuiet, Blocks
<1> QED BY <1>2, <1>3, <1>4, <1>5, <1>6 DEF Quiet

LEMMA QuietKeepsBlocks ==
    ASSUME VerdictsInv, StaysQuiet
    PROVE  BlocksOK'
<1> SUFFICES ASSUME NEW j \in LiveKeys(states')
             PROVE  /\ InBlock(apiOf', j[1], api'[j[1]], states'[j].events)
                    /\ LiveRight(Recorded', apiOf', unwatched', notes'[j], states'[j].events)
  BY DEF BlocksOK
<1>1. PICK v, o, marks : v = states[j].events /\ o = j[1] /\ marks = notes[j].inefficientType
  OBVIOUS
<1>2. /\ j \in LiveKeys(states) /\ states'[j] = states[j] /\ notes'[j].inefficientType = marks
      /\ Continues(Recorded', apiOf', Recorded, apiOf) /\ (unwatched => unwatched')
  BY <1>1 DEF StaysQuiet
<1>3. InBlock(apiOf, o, api[o], v) /\ LiveRight(Recorded, apiOf, unwatched, notes[j], v)
      /\ o \in AnalysedPools
  BY <1>1, <1>2 DEF VerdictsInv, BlocksOK, BaseInv, HeapOK
<1>4. EventsOf(v) \subseteq Recorded
  BY <1>1, <1>2, CachedEvents DEF Recorded, EventsAt
<1>5. \A g \in EventsOf(v) : apiOf'[g.id] = apiOf[g.id]
  BY <1>2, <1>4 DEF Continues, Grows
<1>6. api[o] \in Nat /\ api'[o] \in Nat /\ api[o] <= api'[o]
  BY <1>3 DEF StaysQuiet
<1>7. InBlock(apiOf', o, api'[o], v)
  BY <1>3, <1>5, <1>6, BlockStays
<1>8. OfPool(EventsOf(v), o)
  BY <1>3 DEF InBlock, OfPool, EventsOf
<1>9. v[1].type = "MALLOC" => RightBy(Recorded, apiOf, unwatched, marks, EventsOf(v))
  BY <1>1, <1>3 DEF LiveRight
<1>10. v[1].type = "MALLOC" => RightBy(Recorded', apiOf', unwatched', marks, EventsOf(v))
  BY <1>2, <1>4, <1>8, <1>9, StayRight
<1> QED BY <1>1, <1>2, <1>7, <1>10 DEF LiveRight

\* What a sweep writes.
LEMMA SweptRight ==
    ASSUME VerdictsInv, NEW done, 1 .. count \subseteq done
    PROVE  RowsRight(SweptRows, done, Recorded, apiOf, unwatched)
<1>1. ASSUME NEW k \in LiveKeys(states)
      PROVE  /\ AreRowsOf(DumpRows(states[k], notes[k]), states[k], notes[k])
             /\ states[k].allocationId \in 1 .. count
             /\ states[k].events[1] \in EventsAt(k) /\ InBlock(apiOf, k[1], api[k[1]], states[k].events)
             /\ k[1] \in AnalysedPools
             /\ \A l \in LiveKeys(states) : states[l].allocationId = states[k].allocationId => l = k
  <2>1. states \in StatesMap /\ notes \in [MemoryStateKey -> Note]
    BY DEF VerdictsInv, BaseInv, TypeOK
  <2>2. k \in MemoryStateKey /\ states[k] \in MemoryState /\ notes[k] \in Note
        /\ Len(states[k].events) \in Nat \ {0}
    BY <2>1, LiveState
  <2>3. AreRowsOf(DumpRows(states[k], notes[k]), states[k], notes[k])
    BY <2>2, RowsOfBlock
  <2>4. 1 \in 1 .. Len(states[k].events)
    BY <2>2
  <2>5. states[k].events[1] \in EventsAt(k)
    BY <2>4 DEF EventsAt, EventsOf
  <2> QED BY <2>3, <2>5 DEF VerdictsInv, BaseInv, CacheOK, HeapOK, OwnAllocation, BlocksOK
<1>2. ASSUME NEW k \in LiveKeys(states)
      PROVE  EventsIn(SweptRows, states[k].allocationId) = EventsAt(k)
  <2>1. EventsIn(SweptRows, states[k].allocationId) \subseteq EventsAt(k)
    <3> SUFFICES ASSUME NEW r \in SweptRows, r.allocationId = states[k].allocationId
                 PROVE  r.event \in EventsAt(k)
      BY DEF EventsIn
    <3>1. PICK l \in LiveKeys(states) : r \in DumpRows(states[l], notes[l])
      BY DEF SweptRows
    <3>2. r.allocationId = states[l].allocationId /\ r.event \in EventsAt(l)
      BY <1>1, <3>1 DEF AreRowsOf, EventsAt
    <3> QED BY <1>1, <3>2
  <2>2. EventsAt(k) \subseteq EventsIn(SweptRows, states[k].allocationId)
    <3> SUFFICES ASSUME NEW g \in EventsAt(k)
                 PROVE  \E r \in SweptRows : r.event = g /\ r.allocationId = states[k].allocationId
      BY DEF EventsIn
    <3>1. PICK r \in DumpRows(states[k], notes[k]) : r.event = g
      BY <1>1 DEF AreRowsOf, EventsAt
    <3>2. r \in SweptRows /\ r.allocationId = states[k].allocationId
      BY <1>1, <3>1 DEF SweptRows, AreRowsOf
    <3> QED BY <3>1, <3>2
  <2> QED BY <2>1, <2>2
<1> SUFFICES ASSUME NEW r \in SweptRows
             PROVE  /\ r.allocationId \in done /\ r.event \in Recorded
                    /\ \E p \in AnalysedPools : OfPool(EventsIn(SweptRows, r.allocationId), p)
                    /\ r.event.type = "MALLOC" =>
                          RightBy(Recorded, apiOf, unwatched, r.verdicts, EventsIn(SweptRows, r.allocationId))
  BY DEF RowsRight
<1>3. PICK k \in LiveKeys(states) : r \in DumpRows(states[k], notes[k])
  BY DEF SweptRows
<1>4. /\ r.event \in EventsAt(k) /\ r.allocationId = states[k].allocationId
      /\ r.event.type = "MALLOC" => r.verdicts = notes[k].inefficientType
  BY <1>1, <1>3 DEF AreRowsOf, EventsAt
<1>5. OfPool(EventsAt(k), k[1])
  BY <1>1 DEF InBlock, OfPool, EventsAt, EventsOf
<1>6. EventsAt(k) \subseteq Recorded
  BY CachedEvents DEF Recorded
<1>7. r.event.type = "MALLOC" => RightBy(Recorded, apiOf, unwatched, notes[k].inefficientType, EventsAt(k))
  <2>1. r.event.type = "MALLOC" => states[k].events[1].type = "MALLOC"
    <3>1. PICK i \in 1 .. Len(states[k].events) : r.event = states[k].events[i]
      BY <1>4 DEF EventsAt, EventsOf
    <3>2. states[k].events[i].type = "ACCESS" \/ (i = 1 /\ states[k].events[i].type = "MALLOC")
      BY <1>1 DEF InBlock
    <3> QED BY <3>1, <3>2
  <2> QED BY <2>1 DEF VerdictsInv, BlocksOK, LiveRight, EventsAt
<1>8. EventsIn(SweptRows, r.allocationId) = EventsAt(k)
  BY <1>2, <1>4
<1> QED BY <1>1, <1>4, <1>5, <1>6, <1>7, <1>8

LEMMA QuietKeepsRows ==
    ASSUME VerdictsInv, Quiet, StaysQuiet
    PROVE  RowsOK'
<1>1. PICK S, B, more, end : S = Recorded' /\ B = apiOf' /\ more = unwatched' /\ end = Done(count', states')
  OBVIOUS
<1>2. Continues(S, B, Recorded, apiOf) /\ (unwatched => more) /\ count' = count
  BY <1>1 DEF StaysQuiet
<1>3. RowsRight(MemoryRows, Done(count, states), Recorded, apiOf, unwatched)
  BY DEF VerdictsInv, RowsOK
<1>4. Done(count, states) \subseteq end
  BY <1>1, <1>2 DEF Done, StaysQuiet
<1>5. RowsRight(MemoryRows, end, S, B, more)
  <2>1. PICK done : done = Done(count, states)
    OBVIOUS
  <2> QED BY <1>2, <1>3, <1>4, <2>1, RowsStay
<1>6. RowsRight(MemoryRows', end, S, B, more)
  <2>1. CASE Swept
    <3>1. 1 .. count \subseteq end /\ 1 .. count \subseteq 1 .. count
      <4>1. LiveKeys(states') = {}
        BY <2>1 DEF Swept, LiveKeys, EmptyMap
      <4> QED BY <1>1, <1>2, <4>1 DEF Done
    <3>2. RowsRight(SweptRows, end, Recorded, apiOf, unwatched)
      BY <3>1, SweptRight
    <3>3. RowsRight(SweptRows, end, S, B, more)
      BY <1>2, <3>2, RowsStay
    <3>4. ASSUME NEW r \in MemoryRows, NEW d \in SweptRows PROVE r.allocationId # d.allocationId
      <4>1. r.allocationId \in Done(count, states)
        BY <1>3 DEF RowsRight
      <4>2. PICK k \in LiveKeys(states) : d \in DumpRows(states[k], notes[k])
        BY DEF SweptRows
      <4>3. d.allocationId = states[k].allocationId
        <5>1. states \in StatesMap /\ notes \in [MemoryStateKey -> Note]
          BY DEF VerdictsInv, BaseInv, TypeOK
        <5>2. states[k] \in MemoryState /\ notes[k] \in Note
          BY <5>1, LiveState
        <5> QED BY <4>2, <5>2, RowsOfBlock DEF AreRowsOf
      <4> QED BY <4>1, <4>3 DEF Done
    <3>5. MemoryRows' = MemoryRows \cup SweptRows
      BY <2>1, SweptRecords DEF VerdictsInv
    <3> QED BY <1>5, <3>3, <3>4, <3>5, RowsJoin
  <2>2. CASE ~Swept
    <3>1. ASSUME NEW p, NEW type, Operated(p, type) PROVE MemoryRows' = MemoryRows
      BY <3>1, OperatedRecords DEF VerdictsInv
    <3>2. ASSUME Unreported \/ (\E k, class : Owned(k, class)) \/ Reconfigured PROVE MemoryRows' = MemoryRows
      <4>1. written' = written /\ states' = states
        BY <3>2 DEF Unreported, Owned, Reconfigured
      <4> QED BY <4>1, SameRecords
    <3> QED BY <1>5, <2>2, <3>1, <3>2 DEF Quiet
  <2> QED BY <2>1, <2>2
<1> QED BY <1>1, <1>6 DEF RowsOK, Done, LiveKeys

LEMMA QuietPool ==
    ASSUME VerdictsInv, StaysQuiet, NEW o \in AnalysedPools, pidStates'[o] = pidStates[o],
           \/ api'[o] = api[o]
           \/ api'[o] = api[o] + 1 /\ ~pidStates[o].isOpStart /\ unwatched'
    PROVE  Numbers(o, api'[o], pidStates'[o], Recorded', apiOf', states', notes', unwatched')
<1>1. PICK n, q, m, S, B, more, st2, nt2 :
         /\ n = api[o] /\ q = pidStates[o] /\ m = api'[o] /\ S = Recorded' /\ B = apiOf' /\ more = unwatched'
         /\ st2 = states' /\ nt2 = notes'
  OBVIOUS
<1>2. PICK R, A, loose, st, nt :
         R = Recorded /\ A = apiOf /\ loose = unwatched /\ st = states /\ nt = notes
  OBVIOUS
<1>3. n \in Nat /\ q \in PidState
  BY <1>1 DEF VerdictsInv, BaseInv, TypeOK
<1>4. Numbers(o, n, q, R, A, st, nt, loose)
  BY <1>1, <1>2 DEF VerdictsInv, NumbersOK
<1>5. Known(R, A, n, o) /\ HasApis(KeysOf(o, st), n, R, A, st)
  BY <1>1, <1>2, KnownRecords, BlocksHaveApis DEF VerdictsInv
<1>6. Grows(S, B, R, A) /\ (loose => more)
  BY <1>1, <1>2 DEF StaysQuiet, Continues
<1>7. m = n \/ (m = n + 1 /\ ~q.isOpStart /\ more)
  BY <1>1
<1>8. more \/ \A type \in {"MALLOC", "FREE"} : Of(S, o, type) = Of(R, o, type)
  BY <1>1, <1>2 DEF StaysQuiet
<1>9. KeysOf(o, st2) \subseteq KeysOf(o, st) /\ Kept(KeysOf(o, st2), st2, nt2, st, nt)
  BY <1>1, <1>2 DEF StaysQuiet, KeysOf, Kept
<1>10. Numbers(o, m, q, S, B, st2, nt2, more)
  BY <1>3, <1>4, <1>5, <1>6, <1>7, <1>8, <1>9, NumbersStay
<1> QED BY <1>1, <1>10

LEMMA OperatedNumbers ==
    ASSUME VerdictsInv, StaysQuiet, NEW p, NEW type, Operated(p, type)
    PROVE  NumbersOK'
<1>1. /\ p \in AnalysedPools /\ api \in [AnalysedPools -> Nat] /\ pidStates \in [AnalysedPools -> PidState]
      /\ (type = "START" /\ p \notin operators) \/ (type = "END" /\ p \in operators)
      /\ operators' = IF type = "START" THEN operators \cup {p} ELSE operators \ {p}
      /\ api' = [api EXCEPT ![p] = IF type = "START" THEN @ + 1 ELSE @]
      /\ pidStates' = IF Watching THEN [pidStates EXCEPT ![p] = HandleOpLaunchEvent(@, type = "START")]
                      ELSE pidStates
      /\ unwatched' = unwatched /\ states' = states /\ notes' = notes /\ tracing
  BY DEF VerdictsInv, BaseInv, TypeOK, Operated, NoCall, Unswitched
<1>2. Watching' <=> Watching
  <2>1. subscribers' = subscribers
    BY DEF Operated, NoCall, Unswitched
  <2> QED BY <2>1 DEF Watching, Asked
<1>3. \A o \in AnalysedPools : pidStates[o].isOpStart <=> o \in operators /\ Watching
  BY DEF VerdictsInv, NumbersOK
<1>4. ~Watching => unwatched
  BY <1>1 DEF VerdictsInv, BaseInv, CacheOK
<1>5. ASSUME NEW o \in AnalysedPools, o # p \/ ~Watching
      PROVE  /\ pidStates'[o].isOpStart <=> o \in operators' /\ Watching'
             /\ Numbers(o, api'[o], pidStates'[o], Recorded', apiOf', states', notes', unwatched')
  <2>1. pidStates'[o] = pidStates[o]
    BY <1>1, <1>5
  <2>2. \/ api'[o] = api[o]
        \/ api'[o] = api[o] + 1 /\ ~pidStates[o].isOpStart /\ unwatched'
    <3>1. CASE o # p
      BY <1>1, <3>1
    <3>2. CASE ~Watching
      <4>1. api'[o] = api[o] \/ api'[o] = api[o] + 1
        BY <1>1
      <4> QED BY <1>1, <1>3, <1>4, <3>2, <4>1
    <3> QED BY <1>5, <3>1, <3>2
  <2>3. pidStates'[o].isOpStart <=> o \in operators' /\ Watching'
    BY <1>1, <1>2, <1>3, <1>5, <2>1
  <2> QED BY <2>1, <2>2, <2>3, QuietPool
<1>6. ASSUME Watching
      PROVE  /\ pidStates'[p].isOpStart <=> p \in operators' /\ Watching'
             /\ Numbers(p, api'[p], pidStates'[p], Recorded', apiOf', states', notes', unwatched')
  <2>1. PICK n, q, R, B, loose : n = api[p] /\ q = pidStates[p] /\ R = Recorded /\ B = apiOf' /\ loose = unwatched
    OBVIOUS
  <2>2. n \in Nat /\ q \in PidState
    BY <1>1, <2>1
  <2>3. Numbers(p, n, q, R, apiOf, states, notes, loose) /\ Known(R, apiOf, n, p)
        /\ HasApis(KeysOf(p, states), n, R, apiOf, states)
    BY <1>1, <2>1, KnownRecords, BlocksHaveApis DEF VerdictsInv, NumbersOK
  <2>4. Grows(R, B, R, apiOf) /\ R = Recorded'
    BY <2>1 DEF StaysQuiet, Continues
  <2>5. /\ ~q.isOpStart => Numbers(p, n + 1, HandleOpLaunchEvent(q, TRUE), R, B, states, notes, loose)
        /\ q.isOpStart => Numbers(p, n, HandleOpLaunchEvent(q, FALSE), R, B, states, notes, loose)
    BY <2>2, <2>3, <2>4, NumbersOperate
  <2>6. q.isOpStart <=> p \in operators
    BY <1>1, <1>3, <1>6, <2>1
  <2>7. HandleOpLaunchEvent(q, TRUE).isOpStart /\ ~HandleOpLaunchEvent(q, FALSE).isOpStart
    BY <2>2, PidAfterOperator
  <2>8. CASE type = "START"
    <3>1. api'[p] = n + 1 /\ pidStates'[p] = HandleOpLaunchEvent(q, TRUE) /\ p \in operators' /\ ~q.isOpStart
      BY <1>1, <1>6, <2>1, <2>6, <2>8
    <3> QED BY <1>1, <1>2, <1>6, <2>1, <2>4, <2>5, <2>7, <3>1
  <2>9. CASE type = "END"
    <3>1. api'[p] = n /\ pidStates'[p] = HandleOpLaunchEvent(q, FALSE) /\ p \notin operators' /\ q.isOpStart
      BY <1>1, <1>6, <2>1, <2>6, <2>9
    <3> QED BY <1>1, <2>1, <2>4, <2>5, <2>7, <3>1
  <2> QED BY <1>1, <2>8, <2>9
<1>7. ASSUME NEW o \in AnalysedPools
      PROVE  /\ pidStates'[o].isOpStart <=> o \in operators' /\ Watching'
             /\ Numbers(o, api'[o], pidStates'[o], Recorded', apiOf', states', notes', unwatched')
  BY <1>5, <1>6
<1> QED BY <1>7 DEF NumbersOK

LEMMA QuietKeepsNumbers ==
    ASSUME VerdictsInv, Quiet, StaysQuiet
    PROVE  NumbersOK'
<1>1. ASSUME NEW p, NEW type, Operated(p, type) PROVE NumbersOK'
  BY <1>1, OperatedNumbers
<1>2. ASSUME Unreported \/ (\E k, class : Owned(k, class)) \/ Swept \/ Reconfigured
      PROVE  NumbersOK'
  <2>1. /\ pidStates' = pidStates /\ api' = api /\ operators' = operators
        /\ operators = {} \/ subscribers' = subscribers
    BY <1>2 DEF Unreported, Owned, Swept, Reconfigured
  <2>2. ASSUME NEW o \in AnalysedPools
        PROVE  /\ pidStates'[o].isOpStart <=> o \in operators' /\ Watching'
               /\ Numbers(o, api'[o], pidStates'[o], Recorded', apiOf', states', notes', unwatched')
    <3>1. pidStates[o].isOpStart <=> o \in operators /\ Watching
      BY DEF VerdictsInv, NumbersOK
    <3>2. operators = {} \/ (Watching' <=> Watching)
      BY <2>1 DEF Watching, Asked
    <3> QED BY <2>1, <3>1, <3>2, QuietPool
  <2> QED BY <2>2 DEF NumbersOK
<1> QED BY <1>1, <1>2 DEF Quiet

-----------------------------------------------------------------------------
(*****************************************************************************)
(* The verdicts, from the first state on.                                    *)
(*****************************************************************************)

LEMMA FirstNumbers ==
    ASSUME NEW p, NEW A, NEW loose, NEW st, NEW nt, LiveKeys(st) = {}
    PROVE  Numbers(p, 0, InitialPidState, {}, A, st, nt, loose)
<1> DEFINE w == [a \in 0 .. 0 |-> 0]
           q == InitialPidState
<1>1. q.apiId = 0 /\ q.mallocApiTmpId = 0 /\ q.freeApiTmpId = 0 /\ ~q.isOpStart /\ q.apiTmp = {}
  BY DEF InitialPidState, NoApi
<1>2. w \in [0 .. 0 -> 0 .. 0] /\ w[0] = 0 /\ \A a \in 0 .. 0 : w[a] = a
  OBVIOUS
<1> HIDE DEF w, q
<1>3. CountsAs(w, 0, q, loose)
  BY <1>1, <1>2 DEF CountsAs
<1>4. ASSUME NEW type \in {"MALLOC", "FREE"} PROVE LastOf(w, 0, q, p, type, {}, A, loose)
  <2>1. TmpOf(q, type) = 0
    BY <1>1 DEF TmpOf
  <2>2. Of({}, p, type) = {} /\ type \notin q.apiTmp
    BY <1>1 DEF Of
  <2> QED BY <1>1, <2>1, <2>2 DEF LastOf
<1>5. Tracks(w, 0, q, p, {}, A, loose)
  BY <1>3, <1>4 DEF Tracks
<1>6. NotedIn(KeysOf(p, st), w, A, st, nt, loose)
  BY DEF NotedIn, KeysOf
<1>7. Numbers(p, 0, q, {}, A, st, nt, loose)
  BY <1>5, <1>6 DEF Numbers
<1> QED BY <1>7 DEF q

LEMMA VerdictsInit == Init => VerdictsInv
<1> SUFFICES ASSUME Init PROVE VerdictsInv
  OBVIOUS
<1>1. BaseInv
  BY BaseInit
<1>2. LiveKeys(states) = {}
  BY DEF Init, EmptyMap, LiveKeys
<1>3. MemoryRows = {} /\ Recorded = {}
  <2>1. MemoryRows = {}
    BY DEF Init, MemoryRows, Written
  <2> QED BY <1>2, <2>1 DEF Recorded, Cached
<1>4. RecordsOK
  BY <1>3 DEF RecordsOK, Init
<1>5. BlocksOK
  BY <1>2 DEF BlocksOK
<1>6. RowsOK
  BY <1>3 DEF RowsOK, RowsRight
<1>7. NumbersOK
  <2> SUFFICES ASSUME NEW p \in AnalysedPools
               PROVE  /\ pidStates[p].isOpStart <=> p \in operators /\ Watching
                      /\ Numbers(p, api[p], pidStates[p], Recorded, apiOf, states, notes, unwatched)
    BY DEF NumbersOK
  <2>1. api[p] = 0 /\ pidStates[p] = InitialPidState /\ operators = {}
    BY DEF Init
  <2>2. Numbers(p, 0, InitialPidState, {}, apiOf, states, notes, unwatched)
    BY <1>2, FirstNumbers
  <2>3. ~InitialPidState.isOpStart
    BY DEF InitialPidState
  <2> QED BY <1>3, <2>1, <2>2, <2>3
<1> QED BY <1>1, <1>4, <1>5, <1>6, <1>7 DEF VerdictsInv

LEMMA VerdictsStutter ==
    ASSUME VerdictsInv, UNCHANGED vars
    PROVE  RecordsOK' /\ BlocksOK' /\ NumbersOK' /\ RowsOK'
<1>1. /\ operators' = operators /\ subscribers' = subscribers /\ pidStates' = pidStates
      /\ states' = states /\ count' = count /\ notes' = notes /\ recordIndex' = recordIndex
      /\ written' = written /\ api' = api /\ apiOf' = apiOf /\ unwatched' = unwatched
  BY DEF vars
<1>2. Recorded' = Recorded /\ MemoryRows' = MemoryRows
  BY <1>1, SameRecords
<1>3. Watching' = Watching
  BY <1>1 DEF Watching
<1>4. RecordsOK'
  BY <1>1, <1>2 DEF VerdictsInv, RecordsOK
<1>5. LiveKeys(states') = LiveKeys(states)
  BY <1>1
<1>6. BlocksOK'
  BY <1>1, <1>2, <1>5 DEF VerdictsInv, BlocksOK
<1>7. NumbersOK'
  BY <1>1, <1>2, <1>3 DEF VerdictsInv, NumbersOK
<1>8. RowsOK'
  BY <1>1, <1>2 DEF VerdictsInv, RowsOK
<1> QED BY <1>4, <1>6, <1>7, <1>8

LEMMA VerdictsStep == VerdictsInv /\ [Next]_vars => VerdictsInv'
<1> SUFFICES ASSUME VerdictsInv, [Next]_vars PROVE VerdictsInv'
  OBVIOUS
<1>1. BaseInv /\ RecordsOK /\ BaseInv'
  BY BaseStep DEF VerdictsInv
<1>2. ASSUME NEW e, Reported(e) PROVE RecordsOK' /\ BlocksOK' /\ NumbersOK' /\ RowsOK'
  BY <1>1, <1>2, ReportedGoesOn, ReportedKeepsBlocks, ReportedKeepsNumbers, ReportedKeepsRows
<1>3. ASSUME Quiet PROVE RecordsOK' /\ BlocksOK' /\ NumbersOK' /\ RowsOK'
  <2>1. StaysQuiet
    BY <1>1, <1>3, QuietSteps
  <2>2. RecordsOK'
    BY <2>1 DEF StaysQuiet
  <2> QED BY <1>3, <2>1, <2>2, QuietKeepsBlocks, QuietKeepsNumbers, QuietKeepsRows
<1>4. Quiet \/ (\E e : Reported(e)) \/ UNCHANGED vars
  BY <1>1, EveryStep DEF Steps, Quiet
<1> QED BY <1>1, <1>2, <1>3, <1>4, VerdictsStutter DEF VerdictsInv

-----------------------------------------------------------------------------
\* The rules of the documentation, over the events of one block.
LEMMA Rules ==
    ASSUME NEW a
    PROVE  /\ AllocatedEarly(a) <=> EarlyBy(Recorded, apiOf, EventsIn(MemoryRows, a))
           /\ FreedLate(a) <=> LateBy(Recorded, apiOf, EventsIn(MemoryRows, a))
           /\ LeftIdle(a) <=> IdleBy(apiOf, EventsIn(MemoryRows, a))
<1>1. PICK B : B = EventsIn(MemoryRows, a)
  OBVIOUS
<1>2. BlockEvents(a) = B
  BY <1>1 DEF EventsIn, BlockEvents
<1>3. \A e : e \in Mallocs(a) <=> e \in B /\ e.type = "MALLOC"
  BY <1>2 DEF Mallocs
<1>4. \A e : e \in Accesses(a) <=> e \in B /\ e.type = "ACCESS"
  BY <1>2 DEF Accesses
<1>5. \A e, f, type : Between(e, f, type) <=> Gap(Recorded, apiOf, e, f, type)
  BY DEF Between, Gap, Of
<1>6. \A m, f : IsFirstAccess(a, m, f) <=> FirstIn(apiOf, B, m, f)
  BY <1>4 DEF IsFirstAccess, FirstIn
<1>7. AllocatedEarly(a) <=> EarlyBy(Recorded, apiOf, B)
  BY <1>3, <1>4, <1>5, <1>6 DEF AllocatedEarly, EarlyBy
<1>8. \A f : IsLastAccess(a, f) <=> \A h \in B : h.type = "ACCESS" => h.id <= f.id
  BY <1>4 DEF IsLastAccess
<1>9. FreedLate(a) <=> LateBy(Recorded, apiOf, B)
  BY <1>2, <1>4, <1>5, <1>8 DEF FreedLate, LateBy
<1>10. \A f, g : AreConsecutive(a, f, g) <=>
                    f.id < g.id /\ \A h \in B : h.type = "ACCESS" => h.id <= f.id \/ g.id <= h.id
  BY <1>4 DEF AreConsecutive
<1>11. LeftIdle(a) <=> IdleBy(apiOf, B)
  BY <1>4, <1>10 DEF LeftIdle, IdleBy
<1> QED BY <1>1, <1>7, <1>9, <1>11

LEMMA VerdictsAgree ==
    ASSUME VerdictsInv
    PROVE  EarlyAllocationsFound /\ LateDeallocationsFound /\ IdlenessFound
<1>1. ASSUME NEW r \in MemoryRows, r.event.type = "MALLOC"
      PROVE  /\ IsMarked(r.verdicts, "early_allocation", AllocatedEarly(r.allocationId), unwatched)
             /\ IsMarked(r.verdicts, "late_deallocation", FreedLate(r.allocationId), unwatched)
             /\ IsMarked(r.verdicts, "temporary_idleness", LeftIdle(r.allocationId), unwatched)
  <2>1. PICK a, B : a = r.allocationId /\ B = EventsIn(MemoryRows, a)
    OBVIOUS
  <2>2. RightBy(Recorded, apiOf, unwatched, r.verdicts, B)
    BY <1>1, <2>1 DEF VerdictsInv, RowsOK, RowsRight
  <2>3. /\ AllocatedEarly(a) <=> EarlyBy(Recorded, apiOf, B)
        /\ FreedLate(a) <=> LateBy(Recorded, apiOf, B)
        /\ LeftIdle(a) <=> IdleBy(apiOf, B)
    BY <2>1, Rules
  <2> QED BY <2>1, <2>2, <2>3 DEF RightBy, IsMarked
<1>2. EarlyAllocationsFound
  BY <1>1 DEF EarlyAllocationsFound, Agrees, IsMarked
<1>3. LateDeallocationsFound
  BY <1>1 DEF LateDeallocationsFound, Agrees, IsMarked
<1>4. IdlenessFound
  BY <1>1 DEF IdlenessFound, Agrees, IsMarked
<1> QED BY <1>2, <1>3, <1>4

\* EarlyAllocation of inefficient_analyzer.cpp: however blocks, operators and sessions follow
\* each other, a block is reported as allocated too early exactly if it was (and only if, while
\* the analysis is off some of the time).
THEOREM EarlyFound == Spec => []EarlyAllocationsFound
<1>1. VerdictsInv => EarlyAllocationsFound
  BY VerdictsAgree
<1> QED BY <1>1, VerdictsInit, VerdictsStep, PTL DEF Spec

\* LateDeallocation: a block is reported as freed too late exactly if it was.
THEOREM LateFound == Spec => []LateDeallocationsFound
<1>1. VerdictsInv => LateDeallocationsFound
  BY VerdictsAgree
<1> QED BY <1>1, VerdictsInit, VerdictsStep, PTL DEF Spec

\* TemporaryIdleness: a block is reported as idle exactly if two accesses that follow each
\* other are further apart than the threshold.
THEOREM IdleFound == Spec => []IdlenessFound
<1>1. VerdictsInv => IdlenessFound
  BY VerdictsAgree
<1> QED BY <1>1, VerdictsInit, VerdictsStep, PTL DEF Spec

-----------------------------------------------------------------------------
(*****************************************************************************)
(* The offline analysis against the online one, event by event: the state of *)
(* a pool, and the verdicts on the latest event of a block.                  *)
(*****************************************************************************)
PyPidState == [api_tmp : SUBSET EventTypes, api_id : Nat, malloc_api_tmp_id : Nat \cup {-1},
               free_api_tmp_id : Nat \cup {-1}, is_operation_started : BOOLEAN]

PyTmpOf(s, type) == IF type = "MALLOC" THEN s.malloc_api_tmp_id ELSE s.free_api_tmp_id

\* inefficient.py has no API 0: its initial value stands for none.
Tmp(id) == IF id = NoApi THEN -1 ELSE id

SamePid(s, q) ==
    /\ s \in PyPidState
    /\ s.api_tmp = q.apiTmp /\ s.api_id = q.apiId /\ s.is_operation_started = q.isOpStart
    /\ \A type \in {"MALLOC", "FREE"} : PyTmpOf(s, type) = Tmp(TmpOf(q, type))
    /\ q.apiId = 0 => q.apiTmp = {} /\ ~q.isOpStart

\* What the end of an API, an event and an operator make of the state.
LEMMA PyClassified ==
    ASSUME NEW s \in PyPidState
    PROVE  LET d == Offline!_classify_event_tmp(s)
           IN  /\ d \in PyPidState /\ d.api_tmp = {} /\ d.api_id = s.api_id
               /\ d.is_operation_started = s.is_operation_started
               /\ \A type \in {"MALLOC", "FREE"} :
                     PyTmpOf(d, type) = IF type \in s.api_tmp THEN s.api_id ELSE PyTmpOf(s, type)
<1> DEFINE d == Offline!_classify_event_tmp(s)
<1>1. /\ d.api_tmp = {} /\ d.api_id = s.api_id /\ d.is_operation_started = s.is_operation_started
      /\ d.malloc_api_tmp_id = (IF "MALLOC" \in s.api_tmp THEN s.api_id ELSE s.malloc_api_tmp_id)
      /\ d.free_api_tmp_id = (IF "FREE" \in s.api_tmp THEN s.api_id ELSE s.free_api_tmp_id)
  BY DEF PyPidState, Offline!_classify_event_tmp
<1>2. d \in PyPidState
  BY DEF PyPidState, Offline!_classify_event_tmp
<1> HIDE DEF d
<1>3. \A type \in {"MALLOC", "FREE"} :
         PyTmpOf(d, type) = IF type \in s.api_tmp THEN s.api_id ELSE PyTmpOf(s, type)
  BY <1>1 DEF PyTmpOf
<1> QED BY <1>1, <1>2, <1>3 DEF d

LEMMA PyAfterEvent ==
    ASSUME NEW s \in PyPidState, NEW row, row.type \in EventTypes
    PROVE  LET r == Offline!_pid_state_after(s, row)
               id == Offline!_api_id(s)
           IN  /\ r \in PyPidState
               /\ s.is_operation_started =>
                     /\ r.api_id = s.api_id /\ r.is_operation_started /\ r.api_tmp = s.api_tmp \cup {row.type}
                     /\ id = s.api_id
                     /\ \A type \in {"MALLOC", "FREE"} : PyTmpOf(r, type) = PyTmpOf(s, type)
               /\ ~s.is_operation_started =>
                     /\ r.api_id = s.api_id + 1 /\ ~r.is_operation_started /\ r.api_tmp = {}
                     /\ id = s.api_id + 1
                     /\ \A type \in {"MALLOC", "FREE"} :
                           PyTmpOf(r, type) = IF type \in s.api_tmp \cup {row.type} THEN s.api_id + 1
                                              ELSE PyTmpOf(s, type)
<1> DEFINE id == Offline!_api_id(s)
           added == [s EXCEPT !.api_id = id, !.api_tmp = @ \cup {row.type}]
           r == Offline!_pid_state_after(s, row)
<1>1. id = (IF s.is_operation_started THEN s.api_id ELSE s.api_id + 1) /\ id \in Nat
  BY DEF Offline!_api_id, PyPidState
<1>2. r = IF s.is_operation_started THEN added ELSE Offline!_classify_event_tmp(added)
  BY DEF Offline!_pid_state_after
<1> HIDE DEF id
<1>3. /\ added.api_id = id /\ added.api_tmp = s.api_tmp \cup {row.type}
      /\ added.is_operation_started = s.is_operation_started
      /\ added.malloc_api_tmp_id = s.malloc_api_tmp_id /\ added.free_api_tmp_id = s.free_api_tmp_id
  BY DEF PyPidState
<1>4. added \in PyPidState
  BY <1>1 DEF PyPidState
<1> HIDE DEF added, r
<1>5. CASE s.is_operation_started
  BY <1>1, <1>2, <1>3, <1>4, <1>5 DEF PyTmpOf, id, r
<1>6. CASE ~s.is_operation_started
  <2> DEFINE d == Offline!_classify_event_tmp(added)
  <2>1. /\ d \in PyPidState /\ d.api_tmp = {} /\ d.api_id = added.api_id
        /\ d.is_operation_started = added.is_operation_started
        /\ \A type \in {"MALLOC", "FREE"} :
              PyTmpOf(d, type) = IF type \in added.api_tmp THEN added.api_id ELSE PyTmpOf(added, type)
    BY <1>4, PyClassified
  <2>2. r = d
    BY <1>2, <1>6
  <2>3. \A type \in {"MALLOC", "FREE"} : PyTmpOf(added, type) = PyTmpOf(s, type)
    BY <1>3 DEF PyTmpOf
  <2>4. id = s.api_id + 1
    BY <1>1, <1>6
  <2> HIDE DEF d
  <2>5. r \in PyPidState /\ r.api_id = s.api_id + 1 /\ ~r.is_operation_started /\ r.api_tmp = {}
    BY <1>3, <1>6, <2>1, <2>2, <2>4
  <2>6. \A type \in {"MALLOC", "FREE"} :
           PyTmpOf(r, type) = IF type \in s.api_tmp \cup {row.type} THEN s.api_id + 1 ELSE PyTmpOf(s, type)
    BY <1>3, <2>1, <2>2, <2>3, <2>4
  <2> QED BY <1>6, <2>4, <2>5, <2>6 DEF id, r
<1> QED BY <1>5, <1>6

LEMMA PyAfterOperator ==
    ASSUME NEW s \in PyPidState
    PROVE  /\ LET r == Offline!_handle_oplaunch_event(s, TRUE)
              IN  /\ r \in PyPidState
                  /\ r.api_id = s.api_id + 1 /\ r.is_operation_started /\ r.api_tmp = s.api_tmp
                  /\ \A type \in {"MALLOC", "FREE"} : PyTmpOf(r, type) = PyTmpOf(s, type)
           /\ LET r == Offline!_handle_oplaunch_event(s, FALSE)
              IN  /\ r \in PyPidState
                  /\ r.api_id = s.api_id /\ ~r.is_operation_started /\ r.api_tmp = {}
                  /\ \A type \in {"MALLOC", "FREE"} :
                        PyTmpOf(r, type) = IF type \in s.api_tmp THEN s.api_id ELSE PyTmpOf(s, type)
<1>1. LET r == Offline!_handle_oplaunch_event(s, TRUE)
      IN  /\ r \in PyPidState
          /\ r.api_id = s.api_id + 1 /\ r.is_operation_started /\ r.api_tmp = s.api_tmp
          /\ \A type \in {"MALLOC", "FREE"} : PyTmpOf(r, type) = PyTmpOf(s, type)
  <2> DEFINE r == [s EXCEPT !.is_operation_started = TRUE, !.api_id = @ + 1]
  <2>1. Offline!_handle_oplaunch_event(s, TRUE) = r
    BY DEF Offline!_handle_oplaunch_event
  <2>2. /\ r.api_id = s.api_id + 1 /\ r.is_operation_started /\ r.api_tmp = s.api_tmp
        /\ r.malloc_api_tmp_id = s.malloc_api_tmp_id /\ r.free_api_tmp_id = s.free_api_tmp_id
    BY DEF PyPidState
  <2>3. r \in PyPidState
    <3>1. s.api_id + 1 \in Nat
      BY DEF PyPidState
    <3>2. \A i \in Nat : [s EXCEPT !.is_operation_started = TRUE, !.api_id = i] \in PyPidState
      BY DEF PyPidState
    <3>3. [s EXCEPT !.is_operation_started = TRUE].api_id = s.api_id
      BY DEF PyPidState
    <3> QED BY <3>1, <3>2, <3>3
  <2> HIDE DEF r
  <2> QED BY <2>1, <2>2, <2>3 DEF PyTmpOf
<1>2. LET r == Offline!_handle_oplaunch_event(s, FALSE)
      IN  /\ r \in PyPidState
          /\ r.api_id = s.api_id /\ ~r.is_operation_started /\ r.api_tmp = {}
          /\ \A type \in {"MALLOC", "FREE"} :
                PyTmpOf(r, type) = IF type \in s.api_tmp THEN s.api_id ELSE PyTmpOf(s, type)
  <2> DEFINE b == [s EXCEPT !.is_operation_started = FALSE]
             r == Offline!_classify_event_tmp(b)
  <2>1. Offline!_handle_oplaunch_event(s, FALSE) = r
    BY DEF Offline!_handle_oplaunch_event
  <2>2. /\ b.api_id = s.api_id /\ ~b.is_operation_started /\ b.api_tmp = s.api_tmp
        /\ b.malloc_api_tmp_id = s.malloc_api_tmp_id /\ b.free_api_tmp_id = s.free_api_tmp_id
    BY DEF PyPidState
  <2>3. b \in PyPidState
    BY DEF PyPidState
  <2> HIDE DEF b
  <2>4. /\ r \in PyPidState /\ r.api_tmp = {} /\ r.api_id = b.api_id
        /\ r.is_operation_started = b.is_operation_started
        /\ \A type \in {"MALLOC", "FREE"} :
              PyTmpOf(r, type) = IF type \in b.api_tmp THEN b.api_id ELSE PyTmpOf(b, type)
    BY <2>3, PyClassified
  <2>5. \A type \in {"MALLOC", "FREE"} : PyTmpOf(b, type) = PyTmpOf(s, type)
    BY <2>2 DEF PyTmpOf
  <2> HIDE DEF r
  <2> QED BY <2>1, <2>2, <2>4, <2>5
<1> QED BY <1>1, <1>2

\* Both take the same step.
LEMMA SameAfterEvent ==
    ASSUME NEW q \in PidState, NEW s, SamePid(s, q), NEW e, NEW row, row.type = e.type, e.type \in EventTypes
    PROVE  /\ SamePid(Offline!_pid_state_after(s, row), AfterMemoryEvent(q, e))
           /\ Offline!_api_id(s) = AfterMemoryEvent(q, e).apiId
<1> DEFINE r == Offline!_pid_state_after(s, row)
           t == AfterMemoryEvent(q, e)
<1>0. s \in PyPidState /\ q.apiId \in Nat /\ q.isOpStart \in BOOLEAN
  BY DEF SamePid, PidState
<1>1. CASE q.isOpStart
  <2>1. /\ t.apiId = q.apiId /\ t.isOpStart /\ t.apiTmp = q.apiTmp \cup {e.type}
        /\ \A type \in {"MALLOC", "FREE"} : TmpOf(t, type) = TmpOf(q, type)
    BY <1>1, PidAfterEvent
  <2>2. /\ r \in PyPidState /\ r.api_id = s.api_id /\ r.is_operation_started
        /\ r.api_tmp = s.api_tmp \cup {row.type} /\ Offline!_api_id(s) = s.api_id
        /\ \A type \in {"MALLOC", "FREE"} : PyTmpOf(r, type) = PyTmpOf(s, type)
    BY <1>0, <1>1, PyAfterEvent DEF SamePid
  <2> HIDE DEF r, t
  <2>3. t.isOpStart = r.is_operation_started /\ t.apiId # 0
    BY <1>0, <1>1, <2>1, <2>2, PidTypes DEF SamePid, PidState, PyPidState, t
  <2> QED BY <2>1, <2>2, <2>3 DEF SamePid, r, t
<1>2. CASE ~q.isOpStart
  <2>1. /\ t.apiId = q.apiId + 1 /\ ~t.isOpStart /\ t.apiTmp = {}
        /\ \A type \in {"MALLOC", "FREE"} :
              TmpOf(t, type) = IF type \in q.apiTmp \cup {e.type} THEN q.apiId + 1 ELSE TmpOf(q, type)
    BY <1>2, PidAfterEvent
  <2>2. /\ r \in PyPidState /\ r.api_id = s.api_id + 1 /\ ~r.is_operation_started
        /\ r.api_tmp = {} /\ Offline!_api_id(s) = s.api_id + 1
        /\ \A type \in {"MALLOC", "FREE"} :
              PyTmpOf(r, type) = IF type \in s.api_tmp \cup {row.type} THEN s.api_id + 1
                                 ELSE PyTmpOf(s, type)
    BY <1>0, <1>2, PyAfterEvent DEF SamePid
  <2> HIDE DEF r, t
  <2>3. t.isOpStart = r.is_operation_started /\ t.apiId # 0
    BY <1>0, <2>1, <2>2, PidTypes DEF PidState, PyPidState, t
  <2>4. \A type \in {"MALLOC", "FREE"} : PyTmpOf(r, type) = Tmp(TmpOf(t, type))
    BY <1>0, <2>1, <2>2 DEF SamePid, Tmp, NoApi
  <2> QED BY <2>1, <2>2, <2>3, <2>4 DEF SamePid, r, t
<1> QED BY <1>0, <1>1, <1>2

LEMMA SameAfterOperator ==
    ASSUME NEW q \in PidState, NEW s, SamePid(s, q), NEW b \in BOOLEAN
    PROVE  SamePid(Offline!_handle_oplaunch_event(s, b), HandleOpLaunchEvent(q, b))
<1>0. s \in PyPidState /\ q.apiId \in Nat /\ \A x \in BOOLEAN : HandleOpLaunchEvent(q, x) \in PidState
  BY PidTypes DEF SamePid, PidState
<1>1. SamePid(Offline!_handle_oplaunch_event(s, TRUE), HandleOpLaunchEvent(q, TRUE))
  <2> DEFINE r == Offline!_handle_oplaunch_event(s, TRUE)
             t == HandleOpLaunchEvent(q, TRUE)
  <2>1. /\ t.apiId = q.apiId + 1 /\ t.isOpStart /\ t.apiTmp = q.apiTmp
        /\ \A type \in {"MALLOC", "FREE"} : TmpOf(t, type) = TmpOf(q, type)
    BY PidAfterOperator
  <2>2. /\ r \in PyPidState
        /\ r.api_id = s.api_id + 1 /\ r.is_operation_started /\ r.api_tmp = s.api_tmp
        /\ \A type \in {"MALLOC", "FREE"} : PyTmpOf(r, type) = PyTmpOf(s, type)
    BY <1>0, PyAfterOperator
  <2>3. t.isOpStart \in BOOLEAN
    BY <1>0 DEF PidState
  <2> HIDE DEF r, t
  <2>4. t.isOpStart = r.is_operation_started /\ t.apiId # 0
    BY <1>0, <2>1, <2>2, <2>3 DEF PyPidState
  <2> QED BY <2>1, <2>2, <2>4 DEF SamePid, r, t
<1>2. SamePid(Offline!_handle_oplaunch_event(s, FALSE), HandleOpLaunchEvent(q, FALSE))
  <2> DEFINE r == Offline!_handle_oplaunch_event(s, FALSE)
             t == HandleOpLaunchEvent(q, FALSE)
  <2>1. /\ t.apiId = q.apiId /\ ~t.isOpStart /\ t.apiTmp = {}
        /\ \A type \in {"MALLOC", "FREE"} :
              TmpOf(t, type) = IF type \in q.apiTmp THEN q.apiId ELSE TmpOf(q, type)
    BY PidAfterOperator
  <2>2. /\ r \in PyPidState
        /\ r.api_id = s.api_id /\ ~r.is_operation_started /\ r.api_tmp = {}
        /\ \A type \in {"MALLOC", "FREE"} :
              PyTmpOf(r, type) = IF type \in s.api_tmp THEN s.api_id ELSE PyTmpOf(s, type)
    BY <1>0, PyAfterOperator
  <2>3. t.isOpStart \in BOOLEAN
    BY <1>0 DEF PidState
  <2> HIDE DEF r, t
  <2>4. t.isOpStart = r.is_operation_started
    BY <2>1, <2>2, <2>3 DEF PyPidState
  <2>5. \A type \in {"MALLOC", "FREE"} : PyTmpOf(r, type) = Tmp(TmpOf(t, type))
    <3> SUFFICES ASSUME NEW type \in {"MALLOC", "FREE"} PROVE PyTmpOf(r, type) = Tmp(TmpOf(t, type))
      OBVIOUS
    <3>1. CASE type \in q.apiTmp
      <4>1. q.apiId # 0 /\ type \in s.api_tmp
        BY <3>1 DEF SamePid
      <4> QED BY <2>1, <2>2, <3>1, <4>1 DEF SamePid, Tmp, NoApi
    <3>2. CASE type \notin q.apiTmp
      BY <2>1, <2>2, <3>2 DEF SamePid
    <3> QED BY <3>1, <3>2
  <2> QED BY <2>1, <2>2, <2>4, <2>5 DEF SamePid, r, t
<1> QED BY <1>1, <1>2

-----------------------------------------------------------------------------
\* The events of a block and their numbers, in the records of either side.
Reading == [event : EventTypes, api_id : Nat]

SameBlock(state, events, ids) ==
    /\ state \in Seq(Reading) /\ ids \in Seq(Nat)
    /\ Len(events) = Len(state) /\ Len(ids) = Len(state)
    /\ \A i \in 1 .. Len(state) : events[i].type = state[i].event /\ ids[i] = state[i].api_id

\* What the offline analysis finds on such a block.
LEMMA SameIdle ==
    ASSUME NEW state, NEW events, NEW ids, SameBlock(state, events, ids)
    PROVE  Offline!_temporary_idleness(state) <=> TemporaryIdleness(events, ids)
<1> DEFINE n == Len(state)
<1>1. n \in Nat /\ Len(events) = n /\ Threshold \in Nat
  BY ThresholdAssumption DEF SameBlock
<1>2. CASE n >= 2
  <2>1. n \in 1 .. n /\ n - 1 \in 1 .. n
    BY <1>1, <1>2
  <2>2. /\ state[n].api_id \in Nat /\ state[n - 1].api_id \in Nat
        /\ ids[n] = state[n].api_id /\ ids[n - 1] = state[n - 1].api_id
        /\ events[n - 1].type = state[n - 1].event
    BY <2>1 DEF SameBlock, Reading
  <2> QED BY <1>1, <1>2, <2>2 DEF Offline!_temporary_idleness, TemporaryIdleness
<1>3. CASE ~(n >= 2)
  BY <1>1, <1>3 DEF Offline!_temporary_idleness, TemporaryIdleness
<1> QED BY <1>2, <1>3

LEMMA SameEarly ==
    ASSUME NEW state, NEW events, NEW ids, SameBlock(state, events, ids), Len(state) >= 1,
           NEW q \in PidState, NEW s, SamePid(s, q)
    PROVE  Offline!_early_allocation(state, s) <=> EarlyAllocation(q, events, ids)
<1> DEFINE n == Len(state)
           I == {i \in 1 .. n : state[i].event = "ACCESS" /\ state[i].api_id # state[1].api_id}
           first == IF I # {} THEN Offline!Min(I) ELSE 0
           f == s.free_api_tmp_id
<1>0. n \in Nat /\ 1 \in 1 .. n
  BY DEF SameBlock
<1>1. I = LaterAccesses(events, ids)
  BY <1>0 DEF SameBlock, LaterAccesses
<1>2. Offline!_early_allocation(state, s) <=>
         /\ f # -1 /\ first # 0
         /\ state[first].api_id > f /\ state[1].api_id < f
  BY DEF Offline!_early_allocation, Offline!SelectInSeq, Offline!MAX_UINT64
<1>3. f = Tmp(q.freeApiTmpId) /\ q.freeApiTmpId \in Nat
  BY DEF SamePid, PyTmpOf, TmpOf, PidState
<1>4. ids[1] = state[1].api_id /\ \A i \in I : ids[i] = state[i].api_id /\ state[i].api_id \in Nat
  BY <1>0 DEF SameBlock, Reading
<1>5. CASE I = {}
  <2>1. first = 0
    BY <1>5
  <2> HIDE DEF first, f
  <2>2. ~Offline!_early_allocation(state, s)
    BY <1>2, <2>1
  <2>3. ~EarlyAllocation(q, events, ids)
    BY <1>1, <1>5 DEF EarlyAllocation
  <2> QED BY <2>2, <2>3
<1>6. CASE I # {}
  <2>1. PICK m \in I : \A j \in I : m <= j
    <3>1. I \in SUBSET Nat
      BY <1>0
    <3> HIDE DEF I
    <3> QED BY <1>6, <3>1, LeastElement
  <2>2. first = m
    <3>1. \A j \in I : j \in Nat
      BY <1>0
    <3> HIDE DEF I
    <3>2. \A x \in I : (\A j \in I : x <= j) => x = m
      BY <2>1, <3>1
    <3>3. Offline!Min(I) = m
      BY <2>1, <3>2 DEF Offline!Min
    <3> QED BY <1>6, <3>3
  <2>3. m \in Nat /\ m # 0
    BY <1>0, <2>1
  <2> HIDE DEF first, f
  <2>4. Offline!_early_allocation(state, s) <=> f # -1 /\ ids[m] > f /\ ids[1] < f
    BY <1>2, <1>4, <2>1, <2>2, <2>3
  <2>5. \A i \in I : (\A j \in I : i <= j) <=> i = m
    <3>1. \A j \in I : j \in Nat
      BY <1>0
    <3> HIDE DEF I
    <3> QED BY <2>1, <3>1
  <2>6. EarlyAllocation(q, events, ids) <=>
           q.freeApiTmpId # 0 /\ ids[1] < q.freeApiTmpId /\ q.freeApiTmpId < ids[m]
    <3> HIDE DEF I
    <3> QED BY <1>1, <2>1, <2>5 DEF EarlyAllocation, NoApi
  <2>7. ids[m] \in Nat /\ ids[1] \in Nat
    BY <1>0, <1>4, <2>1 DEF SameBlock
  <2>8. f = IF q.freeApiTmpId = 0 THEN -1 ELSE q.freeApiTmpId
    BY <1>3 DEF Tmp, NoApi
  <2> QED BY <1>3, <2>4, <2>6, <2>7, <2>8
<1> QED BY <1>5, <1>6

LEMMA SameLate ==
    ASSUME NEW state, NEW events, NEW ids, SameBlock(state, events, ids),
           NEW q \in PidState, NEW s, SamePid(s, q)
    PROVE  Offline!_late_deallocation(state, s) <=> LateDeallocation(q, events, ids)
<1> DEFINE n == Len(state)
           f == s.malloc_api_tmp_id
<1>1. n \in Nat /\ Len(events) = n
  BY DEF SameBlock
<1>2. /\ f = IF q.mallocApiTmpId = 0 THEN -1 ELSE q.mallocApiTmpId
      /\ q.mallocApiTmpId \in Nat /\ q.apiId \in Nat /\ s.api_id = q.apiId
  BY DEF SamePid, PyTmpOf, TmpOf, PidState, Tmp, NoApi
<1>3. CASE n >= 2
  <2>1. n - 1 \in 1 .. n
    BY <1>1, <1>3
  <2>2. /\ state[n - 1].api_id \in Nat /\ ids[n - 1] = state[n - 1].api_id
        /\ events[n - 1].type = state[n - 1].event
    <3>1. \A i \in 1 .. n : state[i] \in Reading
      BY DEF SameBlock
    <3>2. state[n - 1] \in Reading
      BY <2>1, <3>1
    <3> QED BY <2>1, <3>2 DEF SameBlock, Reading
  <2>3. Offline!_late_deallocation(state, s) <=>
           /\ f # -1 /\ state[n - 1].event = "ACCESS"
           /\ state[n - 1].api_id < f /\ s.api_id > f
    BY <1>3 DEF Offline!_late_deallocation, Offline!MAX_UINT64
  <2>4. LateDeallocation(q, events, ids) <=>
           /\ q.mallocApiTmpId # 0 /\ state[n - 1].event = "ACCESS"
           /\ state[n - 1].api_id < q.mallocApiTmpId /\ q.mallocApiTmpId < q.apiId
    BY <1>1, <1>3, <2>2 DEF LateDeallocation, NoApi
  <2> HIDE DEF f
  <2> QED BY <1>2, <2>2, <2>3, <2>4
<1>4. CASE ~(n >= 2)
  BY <1>1, <1>4 DEF Offline!_late_deallocation, LateDeallocation
<1> QED BY <1>3, <1>4

\* Both give a mark once.
LEMMA SameMark ==
    ASSUME NEW marks \in Seq(Inefficiencies), NEW x \in Inefficiencies, NEW a, NEW b, a <=> b
    PROVE  (IF a /\ ~Offline!Contains(marks, x) THEN Append(marks, x) ELSE marks)
              = MarkedOnce(marks, x, b)
<1>1. Offline!Contains(marks, x) <=> x \in Funs!Range(marks)
  BY DEF Offline!Contains, Funs!Range
<1> QED BY <1>1 DEF MarkedOnce

\* So both judge a block alike.
LEMMA SameVerdicts ==
    ASSUME NEW state, NEW events, NEW ids, SameBlock(state, events, ids), Len(state) >= 1,
           NEW q \in PidState, NEW s, SamePid(s, q), NEW marks \in Seq(Inefficiencies)
    PROVE  Offline!_inefficient_analysis(state, s, marks) = InefficientAnalysis(q, events, ids, marks)
<1> DEFINE n == Len(state)
           with(v, type, holds) == IF holds /\ ~Offline!Contains(v, type) THEN Append(v, type) ELSE v
           idle == with(marks, "temporary_idleness", Offline!_temporary_idleness(state))
           mark == MarkedOnce(marks, "temporary_idleness", TemporaryIdleness(events, ids))
           early == with(idle, "early_allocation", Offline!_early_allocation(state, s))
           both == MarkedOnce(mark, "early_allocation", EarlyAllocation(q, events, ids))
<1>1. n \in Nat /\ 1 \in 1 .. n /\ n \in 1 .. n /\ Len(events) = n /\ Len(ids) = n
  BY DEF SameBlock
<1>2. events[1].type = state[1].event /\ events[n].type = state[n].event
  BY <1>1 DEF SameBlock
<1>3. idle = mark /\ mark \in Seq(Inefficiencies)
  <2>1. "temporary_idleness" \in Inefficiencies
    BY DEF Inefficiencies
  <2>2. Offline!_temporary_idleness(state) <=> TemporaryIdleness(events, ids)
    BY SameIdle
  <2> QED BY <2>1, <2>2, SameMark, Mark
<1>4. early = both
  <2>1. "early_allocation" \in Inefficiencies
    BY DEF Inefficiencies
  <2>2. Offline!_early_allocation(state, s) <=> EarlyAllocation(q, events, ids)
    BY SameEarly
  <2> HIDE DEF idle, mark
  <2>3. early = with(mark, "early_allocation", Offline!_early_allocation(state, s))
    BY <1>3
  <2> QED BY <1>3, <2>1, <2>2, <2>3, SameMark
<1>5. Offline!_late_deallocation(state, s) <=> LateDeallocation(q, events, ids)
  BY SameLate
<1>6. Offline!_inefficient_analysis(state, s, marks) =
         CASE state[1].event = "MALLOC" /\ state[n].event = "ACCESS" -> early
           [] state[1].event = "MALLOC" /\ state[n].event = "FREE" /\ Offline!_late_deallocation(state, s) ->
                 Append(marks, "late_deallocation")
           [] OTHER -> marks
  BY DEF Offline!_inefficient_analysis
<1>7. InefficientAnalysis(q, events, ids, marks) =
         IF events[1].type # "MALLOC" \/ Len(events) # Len(ids) THEN marks
         ELSE CASE events[Len(events)].type = "ACCESS" -> both
                [] events[Len(events)].type = "FREE" /\ LateDeallocation(q, events, ids) ->
                      Append(marks, "late_deallocation")
                [] OTHER -> marks
  BY DEF InefficientAnalysis
<1> HIDE DEF early, both, idle, mark
<1>8. CASE state[1].event = "MALLOC" /\ state[n].event = "ACCESS"
  BY <1>1, <1>2, <1>4, <1>6, <1>7, <1>8
<1>9. CASE state[1].event = "MALLOC" /\ state[n].event = "FREE"
  BY <1>1, <1>2, <1>5, <1>6, <1>7, <1>9
<1>10. CASE state[1].event = "MALLOC" /\ state[n].event \notin {"ACCESS", "FREE"}
  BY <1>1, <1>2, <1>6, <1>7, <1>10
<1>11. CASE state[1].event # "MALLOC"
  BY <1>1, <1>2, <1>6, <1>7, <1>11
<1> QED BY <1>8, <1>9, <1>10, <1>11

-----------------------------------------------------------------------------
(*****************************************************************************)
(* The offline analysis of a whole file, row by row.                         *)
(*****************************************************************************)
Analyses(c) == [pid_states   : [AnalysedPools -> PyPidState],
                memory_state : [0 .. c -> Seq(Reading)],
                results      : [0 .. c -> Seq(Inefficiencies)]]

OfflineRows(c) == [id : Nat, type : EventTypes \cup {"START", "END"}, pool : AnalysedPools,
                   allocationId : 0 .. c]

LEMMA FirstAnalysis ==
    ASSUME NEW c \in Nat
    PROVE  LET x == Offline!InitialAnalysis(AnalysedPools, 0 .. c)
           IN  /\ x \in Analyses(c)
               /\ \A p \in AnalysedPools : SamePid(x.pid_states[p], InitialPidState)
               /\ \A a \in 0 .. c : x.memory_state[a] = << >> /\ x.results[a] = << >>
<1> DEFINE new == Offline!NewPidState
<1>1. SamePid(new, InitialPidState)
  BY DEF SamePid, InitialPidState, Offline!NewPidState, Offline!MAX_UINT64, PyPidState, PyTmpOf, TmpOf, Tmp, NoApi
<1>2. new \in PyPidState
  BY <1>1 DEF SamePid
<1> HIDE DEF new
<1>3. Offline!InitialAnalysis(AnalysedPools, 0 .. c) =
        [pid_states |-> [p \in AnalysedPools |-> new], memory_state |-> [a \in 0 .. c |-> << >>],
         results |-> [a \in 0 .. c |-> << >>]]
  BY DEF Offline!InitialAnalysis, new
<1>4. << >> \in Seq(Reading) /\ << >> \in Seq(Inefficiencies)
  OBVIOUS
<1> QED BY <1>1, <1>2, <1>3, <1>4 DEF Analyses

LEMMA PyMarkTypes ==
    ASSUME NEW state, NEW s, NEW marks \in Seq(Inefficiencies)
    PROVE  Offline!_inefficient_analysis(state, s, marks) \in Seq(Inefficiencies)
<1> DEFINE with(v, type, holds) == IF holds /\ ~Offline!Contains(v, type) THEN Append(v, type) ELSE v
           idle == with(marks, "temporary_idleness", Offline!_temporary_idleness(state))
           early == with(idle, "early_allocation", Offline!_early_allocation(state, s))
<1>1. {"temporary_idleness", "early_allocation", "late_deallocation"} \subseteq Inefficiencies
  BY DEF Inefficiencies
<1>2. \A v \in Seq(Inefficiencies), type \in Inefficiencies : Append(v, type) \in Seq(Inefficiencies)
  OBVIOUS
<1>3. idle \in Seq(Inefficiencies)
  BY <1>1, <1>2
<1>4. early \in Seq(Inefficiencies)
  <2> HIDE DEF idle
  <2> QED BY <1>1, <1>2, <1>3
<1>5. Offline!_inefficient_analysis(state, s, marks) \in {early, Append(marks, "late_deallocation"), marks}
  <2> DEFINE event == state[Len(state)].event
             A == state[1].event = "MALLOC" /\ event = "ACCESS"
             B == state[1].event = "MALLOC" /\ event = "FREE" /\ Offline!_late_deallocation(state, s)
  <2>1. Offline!_inefficient_analysis(state, s, marks) =
          CASE A -> early [] B -> Append(marks, "late_deallocation") [] OTHER -> marks
    BY DEF Offline!_inefficient_analysis
  <2>2. ~(A /\ B)
    OBVIOUS
  <2> HIDE DEF A, B, early
  <2> QED BY <2>1, <2>2
<1> QED BY <1>1, <1>2, <1>4, <1>5

\* What one row makes of x.
HandlesRow(c, x, row, y) ==
    LET s     == x.pid_states[row.pool]
        a     == row.allocationId
        after == Offline!_pid_state_after(s, row)
        state == Append(x.memory_state[a], [event |-> row.type, api_id |-> Offline!_api_id(s)])
    IN  /\ y \in Analyses(c)
        /\ row.type \notin EventTypes =>
              /\ y.pid_states = [x.pid_states EXCEPT ![row.pool] =
                                    Offline!_handle_oplaunch_event(s, row.type = "START")]
              /\ y.memory_state = x.memory_state /\ y.results = x.results
        /\ row.type \in EventTypes =>
              /\ y.pid_states = [x.pid_states EXCEPT ![row.pool] = after]
              /\ y.memory_state = [x.memory_state EXCEPT ![a] = state]
              /\ y.results = [x.results EXCEPT ![a] = Offline!_inefficient_analysis(state, after, @)]

LEMMA EventHandled ==
    ASSUME NEW c \in Nat, NEW x \in Analyses(c), NEW row \in OfflineRows(c)
    PROVE  HandlesRow(c, x, row, Offline!event_handle(x, row))
<1> DEFINE y     == Offline!event_handle(x, row)
           s     == x.pid_states[row.pool]
           a     == row.allocationId
           after == Offline!_pid_state_after(s, row)
           id    == Offline!_api_id(s)
           state == Append(x.memory_state[a], [event |-> row.type, api_id |-> id])
           op    == Offline!_handle_oplaunch_event(s, row.type = "START")
           marks == Offline!_inefficient_analysis(state, after, x.results[a])
<1>1. /\ row.pool \in AnalysedPools /\ a \in 0 .. c /\ s \in PyPidState
      /\ x.memory_state[a] \in Seq(Reading) /\ x.results[a] \in Seq(Inefficiencies)
      /\ x.pid_states \in [AnalysedPools -> PyPidState]
      /\ x.memory_state \in [0 .. c -> Seq(Reading)] /\ x.results \in [0 .. c -> Seq(Inefficiencies)]
      /\ row.type \in EventTypes \cup {"START", "END"}
  BY DEF Analyses, OfflineRows
<1>2. CASE row.type \notin EventTypes
  <2>1. row.type \in {"START", "END"} /\ (row.type = "START") \in BOOLEAN
    BY <1>1, <1>2
  <2>2. op \in PyPidState
    <3>1. Offline!_handle_oplaunch_event(s, TRUE) \in PyPidState
          /\ Offline!_handle_oplaunch_event(s, FALSE) \in PyPidState
      BY <1>1, PyAfterOperator
    <3>2. (row.type = "START") = TRUE \/ (row.type = "START") = FALSE
      BY <2>1
    <3> QED BY <3>1, <3>2
  <2>3. y = [x EXCEPT !.pid_states[row.pool] = op]
    BY <2>1 DEF Offline!event_handle
  <2> HIDE DEF op, s, y
  <2>4. /\ y.pid_states = [x.pid_states EXCEPT ![row.pool] = op]
        /\ y.memory_state = x.memory_state /\ y.results = x.results
        /\ y = [pid_states |-> y.pid_states, memory_state |-> y.memory_state, results |-> y.results]
    BY <2>3 DEF Analyses
  <2>5. y.pid_states \in [AnalysedPools -> PyPidState]
    BY <1>1, <2>2, <2>4
  <2>6. y \in Analyses(c)
    BY <1>1, <2>4, <2>5 DEF Analyses
  <2> QED BY <1>2, <2>4, <2>6 DEF op, s, y, HandlesRow
<1>3. CASE row.type \in EventTypes
  <2>1. row.type \notin {"START", "END"}
    BY <1>3 DEF EventTypes
  <2>2. after \in PyPidState /\ id \in Nat
    <3>1. id = s.api_id \/ id = s.api_id + 1
      BY DEF Offline!_api_id
    <3>2. s.api_id \in Nat
      BY <1>1 DEF PyPidState
    <3> QED BY <1>1, <1>3, <3>1, <3>2, PyAfterEvent
  <2>3. state \in Seq(Reading)
    <3>1. [event |-> row.type, api_id |-> id] \in Reading
      BY <1>3, <2>2 DEF Reading
    <3> HIDE DEF id
    <3> QED BY <1>1, <3>1
  <2>4. marks \in Seq(Inefficiencies)
    BY <1>1, PyMarkTypes
  <2>5. y = [x EXCEPT !.pid_states[row.pool] = after, !.memory_state[a] = state, !.results[a] = marks]
    BY <2>1 DEF Offline!event_handle
  <2> HIDE DEF after, state, marks, s, y
  <2>6. /\ y.pid_states = [x.pid_states EXCEPT ![row.pool] = after]
        /\ y.memory_state = [x.memory_state EXCEPT ![a] = state]
        /\ y.results = [x.results EXCEPT ![a] = marks]
        /\ y = [pid_states |-> y.pid_states, memory_state |-> y.memory_state, results |-> y.results]
    BY <2>5 DEF Analyses
  <2>7. y.pid_states \in [AnalysedPools -> PyPidState]
    BY <1>1, <2>2, <2>6
  <2>8. y.memory_state \in [0 .. c -> Seq(Reading)] /\ y.results \in [0 .. c -> Seq(Inefficiencies)]
    BY <1>1, <2>3, <2>4, <2>6
  <2>9. y \in Analyses(c)
    BY <2>6, <2>7, <2>8 DEF Analyses
  <2> QED BY <1>3, <2>6, <2>9 DEF after, state, marks, s, y, HandlesRow
<1> QED BY <1>2, <1>3

-----------------------------------------------------------------------------
\* The rows of a log, in its order, taken from the first state of the offline analysis to x.
Reaches(c, log, n, x) ==
    \E g \in [0 .. n -> Analyses(c)] :
        /\ g[0] = Offline!InitialAnalysis(AnalysedPools, 0 .. c)
        /\ \A i \in 1 .. n : g[i] = Offline!event_handle(g[i - 1], log[i])
        /\ g[n] = x

Longer(log, n, row) == [i \in 1 .. n + 1 |-> IF i <= n THEN log[i] ELSE row]

LEMMA ReachesFirst ==
    ASSUME NEW c \in Nat, NEW log
    PROVE  Reaches(c, log, 0, Offline!InitialAnalysis(AnalysedPools, 0 .. c))
<1> DEFINE x == Offline!InitialAnalysis(AnalysedPools, 0 .. c)
           g == [i \in 0 .. 0 |-> x]
<1>1. x \in Analyses(c)
  BY FirstAnalysis
<1> HIDE DEF x
<1>2. g \in [0 .. 0 -> Analyses(c)] /\ g[0] = x /\ 1 .. 0 = {}
  BY <1>1
<1> HIDE DEF g
<1>3. \E h \in [0 .. 0 -> Analyses(c)] :
         h[0] = x /\ (\A i \in 1 .. 0 : h[i] = Offline!event_handle(h[i - 1], log[i])) /\ h[0] = x
  BY <1>2
<1> QED BY <1>3 DEF Reaches, x

LEMMA ReachesNext ==
    ASSUME NEW c \in Nat, NEW log, NEW n \in Nat, NEW x, Reaches(c, log, n, x),
           NEW row \in OfflineRows(c)
    PROVE  x \in Analyses(c) /\ Reaches(c, Longer(log, n, row), n + 1, Offline!event_handle(x, row))
<1> DEFINE more == Longer(log, n, row)
           y == Offline!event_handle(x, row)
<1>1. PICK g \in [0 .. n -> Analyses(c)] :
         /\ g[0] = Offline!InitialAnalysis(AnalysedPools, 0 .. c)
         /\ \A i \in 1 .. n : g[i] = Offline!event_handle(g[i - 1], log[i])
         /\ g[n] = x
  BY DEF Reaches
<1>2. x \in Analyses(c) /\ n \in 0 .. n
  BY <1>1
<1>3. y \in Analyses(c)
  BY <1>2, EventHandled DEF HandlesRow
<1>4. (\A i \in 1 .. n : more[i] = log[i]) /\ more[n + 1] = row
  BY DEF Longer
<1> DEFINE h == [i \in 0 .. n + 1 |-> IF i <= n THEN g[i] ELSE y]
<1> HIDE DEF more, y
<1>5. h \in [0 .. n + 1 -> Analyses(c)]
  <2>1. \A i \in 0 .. n + 1 : i <= n => i \in 0 .. n
    OBVIOUS
  <2> QED BY <1>3, <2>1
<1>6. (\A i \in 0 .. n : h[i] = g[i]) /\ h[n + 1] = y
  OBVIOUS
<1> HIDE DEF h
<1>7. \A i \in 1 .. n + 1 : h[i] = Offline!event_handle(h[i - 1], more[i])
  <2>1. ASSUME NEW i \in 1 .. n PROVE h[i] = Offline!event_handle(h[i - 1], more[i])
    <3>1. i \in 0 .. n /\ i - 1 \in 0 .. n
      OBVIOUS
    <3> QED BY <1>1, <1>4, <1>6, <3>1
  <2>2. h[n + 1] = Offline!event_handle(h[(n + 1) - 1], more[n + 1])
    <3>1. (n + 1) - 1 = n
      OBVIOUS
    <3>2. h[n] = x
      BY <1>1, <1>2, <1>6
    <3> QED BY <1>4, <1>6, <3>1, <3>2 DEF y
  <2>3. \A i \in 1 .. n + 1 : i \in 1 .. n \/ i = n + 1
    OBVIOUS
  <2> QED BY <2>1, <2>2, <2>3
<1>8. h[0] = Offline!InitialAnalysis(AnalysedPools, 0 .. c)
  BY <1>1, <1>6
<1>9. Reaches(c, more, n + 1, y)
  BY <1>5, <1>6, <1>7, <1>8 DEF Reaches
<1> QED BY <1>2, <1>9 DEF more, y

\* The records so far as a log: the n-th row has id n, and the rows are those filed.
IsLog(log, n, c, filed) ==
    /\ log \in [1 .. n -> OfflineRows(c)]
    /\ \A i \in 1 .. n : log[i].id = i
    /\ filed = {log[i] : i \in 1 .. n}

LEMMA LogGrows ==
    ASSUME NEW n \in Nat, NEW c \in Nat, NEW d \in Nat, c <= d, NEW filed, NEW log, IsLog(log, n, c, filed),
           NEW row \in OfflineRows(d), row.id = n + 1
    PROVE  IsLog(Longer(log, n, row), n + 1, d, filed \cup {row})
<1> DEFINE more == Longer(log, n, row)
<1>1. more = [i \in 1 .. n + 1 |-> IF i <= n THEN log[i] ELSE row]
  BY DEF Longer
<1>2. (\A i \in 1 .. n : more[i] = log[i]) /\ more[n + 1] = row
  BY <1>1
<1>3. \A i \in 1 .. n : log[i] \in OfflineRows(d)
  <2>1. \A i \in 1 .. n : log[i] \in OfflineRows(c)
    BY DEF IsLog
  <2>2. 0 .. c \subseteq 0 .. d
    OBVIOUS
  <2> QED BY <2>1, <2>2 DEF OfflineRows
<1> HIDE DEF more
<1>4. \A i \in 1 .. n + 1 : i \in 1 .. n \/ i = n + 1
  OBVIOUS
<1>5. \A i \in 1 .. n : i \in 1 .. n + 1
  OBVIOUS
<1>6. n + 1 \in 1 .. n + 1
  OBVIOUS
<1>7. more \in [1 .. n + 1 -> OfflineRows(d)]
  <2>1. \A i \in 1 .. n + 1 : (IF i <= n THEN log[i] ELSE row) \in OfflineRows(d)
    BY <1>3, <1>4
  <2> QED BY <1>1, <2>1
<1>8. \A i \in 1 .. n + 1 : more[i].id = i
  BY <1>2, <1>4 DEF IsLog
<1>9. filed \cup {row} = {more[i] : i \in 1 .. n + 1}
  <2>1. filed = {log[i] : i \in 1 .. n}
    BY DEF IsLog
  <2>2. \A y : y \in filed \cup {row} => \E i \in 1 .. n + 1 : y = more[i]
    BY <1>2, <1>5, <1>6, <2>1
  <2>3. \A i \in 1 .. n + 1 : more[i] \in filed \cup {row}
    BY <1>2, <1>4, <2>1
  <2> QED BY <2>2, <2>3
<1> QED BY <1>7, <1>8, <1>9 DEF IsLog, more

LEMMA LogStays ==
    ASSUME NEW n \in Nat, NEW c \in Nat, NEW d \in Nat, c <= d, NEW filed, NEW log, IsLog(log, n, c, filed)
    PROVE  IsLog(log, n, d, filed)
<1>1. 0 .. c \subseteq 0 .. d
  OBVIOUS
<1>2. OfflineRows(c) \subseteq OfflineRows(d)
  BY <1>1 DEF OfflineRows
<1> QED BY <1>2 DEF IsLog

\* What the two analyses agree on: x is the offline one, with c allocations, n the last that is used.
PidsAgree(x, pid) == \A p \in AnalysedPools : SamePid(x.pid_states[p], pid[p])

BlocksAgree(x, st, nt) ==
    \A k \in LiveKeys(st) :
        /\ SameBlock(x.memory_state[st[k].allocationId], st[k].events, nt[k].apiId)
        /\ x.results[st[k].allocationId] = nt[k].inefficientType

RowsAgree(x, M) == \A r \in M : r.event.type = "MALLOC" => x.results[r.allocationId] = r.verdicts

RestIsNew(x, c, n) == \A a \in n + 1 .. c : x.memory_state[a] = << >> /\ x.results[a] = << >>

Agreement(x, c, n, pid, st, nt, M) ==
    PidsAgree(x, pid) /\ BlocksAgree(x, st, nt) /\ RowsAgree(x, M) /\ RestIsNew(x, c, n)

\* An event that is noted.
LEMMA SameBlockNext ==
    ASSUME NEW state, NEW T, NEW events \in Seq(T), NEW ids, SameBlock(state, events, ids),
           NEW e \in T, e.type \in EventTypes, NEW v \in Nat
    PROVE  LET new == Append(state, [event |-> e.type, api_id |-> v])
           IN  SameBlock(new, Append(events, e), Append(ids, v)) /\ Len(new) >= 1
<1> DEFINE n == Len(state)
           reading == [event |-> e.type, api_id |-> v]
           new == Append(state, reading)
           evs == Append(events, e)
           vs == Append(ids, v)
<1>1. reading \in Reading /\ reading.event = e.type /\ reading.api_id = v
  BY DEF Reading
<1> HIDE DEF reading
<1>2. /\ n \in Nat /\ state \in Seq(Reading) /\ ids \in Seq(Nat) /\ Len(events) = n /\ Len(ids) = n
      /\ \A i \in 1 .. n : events[i].type = state[i].event /\ ids[i] = state[i].api_id
  BY DEF SameBlock
<1>3. /\ new \in Seq(Reading) /\ Len(new) = n + 1 /\ new[n + 1] = reading
      /\ \A i \in 1 .. n : new[i] = state[i]
  BY <1>1, <1>2
<1>4. Len(evs) = n + 1 /\ evs[n + 1] = e /\ \A i \in 1 .. n : evs[i] = events[i]
  BY <1>2
<1>5. vs \in Seq(Nat) /\ Len(vs) = n + 1 /\ vs[n + 1] = v /\ \A i \in 1 .. n : vs[i] = ids[i]
  BY <1>2
<1> HIDE DEF new, evs, vs
<1>6. \A i \in 1 .. n + 1 : i \in 1 .. n \/ i = n + 1
  BY <1>2
<1>7. \A i \in 1 .. Len(new) : evs[i].type = new[i].event /\ vs[i] = new[i].api_id
  BY <1>1, <1>2, <1>3, <1>4, <1>5, <1>6
<1>8. SameBlock(new, evs, vs) /\ Len(new) >= 1
  BY <1>2, <1>3, <1>4, <1>5, <1>7 DEF SameBlock
<1> QED BY <1>8 DEF new, evs, vs, reading

-----------------------------------------------------------------------------
\* The records so far as rows of the output, those of cached events included.
RowOf(e, a) == [id |-> e.id, type |-> e.type, pool |-> e.pool, allocationId |-> a]

RowsCached(s) == {RowOf(g, s.allocationId) : g \in EventsOf(s.events)}

Filed == {OfflineRow(r) : r \in Written} \cup UNION {RowsCached(states[k]) : k \in LiveKeys(states)}

\* The rows of a block are the same, whether cached or written.
LEMMA RowsSame ==
    ASSUME NEW s \in MemoryState, NEW note \in Note
    PROVE  {OfflineRow(r) : r \in DumpRows(s, note)} = RowsCached(s)
<1> DEFINE D == DumpRows(s, note)
<1>1. /\ \A r \in D : /\ r.event \in EventsOf(s.events) /\ r.event.type \in EventTypes
                      /\ r.allocationId = s.allocationId
      /\ \A g \in EventsOf(s.events) : \E r \in D : r.event = g
  BY RowsOfBlock DEF AreRowsOf
<1> HIDE DEF D
<1>2. \A r \in D : OfflineRow(r) = RowOf(r.event, s.allocationId)
  BY <1>1 DEF OfflineRow, RowOf
<1>3. \A r \in D : OfflineRow(r) \in RowsCached(s)
  BY <1>1, <1>2 DEF RowsCached
<1>4. \A y \in RowsCached(s) : \E r \in D : y = OfflineRow(r)
  BY <1>1, <1>2 DEF RowsCached
<1>5. {OfflineRow(r) : r \in D} = RowsCached(s)
  BY <1>3, <1>4
<1> QED BY <1>5 DEF D

LEMMA ReportedFiles ==
    ASSUME BaseInv, NEW e, Reported(e)
    PROVE  LET row == RowOf(e, StateWith(states, count, e, KeyOf(e)).allocationId)
           IN  /\ Filed' = Filed \cup {row}
               /\ row \in OfflineRows(count') /\ row.id = recordIndex + 1
<1> DEFINE k == KeyOf(e)
           s == StateWith(states, count, e, k)
           row == RowOf(e, s.allocationId)
           D == DumpRows(s, Noting(e))
           Off(W) == {OfflineRow(r) : r \in W}
           others == UNION {RowsCached(states[j]) : j \in LiveKeys(states) \ {k}}
<1>1. /\ k \in MemoryStateKey /\ s \in MemoryState
      /\ \A j \in MemoryStateKey \ {k} : states'[j] = states[j]
      /\ states'[k] = (IF e.type = "FREE" THEN NoState ELSE s)
      /\ LiveKeys(states') = (IF e.type = "FREE" THEN LiveKeys(states) \ {k} ELSE LiveKeys(states) \cup {k})
      /\ s.allocationId \in 1 .. count' /\ count' \in Nat
      /\ Fresh(k) => s.events = <<e>>
      /\ ~Fresh(k) => s.allocationId = states[k].allocationId
  BY ReportedCache
<1>2. Noting(e) \in Note /\ e \in MemoryEvent /\ e.id = recordIndex + 1 /\ e.pool \in AnalysedPools
  BY DEF Reported, Legal
<1>3. /\ Written' = (IF e.type = "FREE" THEN Written \cup D ELSE Written)
      /\ EventsOf(s.events) = IF Fresh(k) THEN {e} ELSE EventsAt(k) \cup {e}
  BY ReportedRecords DEF RecordsGrow
<1>4. Off(D) = RowsCached(s)
  BY <1>1, <1>2, RowsSame
<1>5. RowsCached(s) = IF Fresh(k) THEN {row} ELSE RowsCached(states[k]) \cup {row}
  <2> HIDE DEF s, k
  <2>1. RowsCached(s) = {RowOf(g, s.allocationId) : g \in EventsOf(s.events)}
    BY DEF RowsCached
  <2>2. CASE Fresh(k)
    BY <1>3, <2>1, <2>2
  <2>3. CASE ~Fresh(k)
    <3>1. RowsCached(states[k]) = {RowOf(g, s.allocationId) : g \in EventsAt(k)}
      BY <1>1, <2>3 DEF RowsCached, EventsAt
    <3> QED BY <1>3, <2>1, <2>3, <3>1
  <2> QED BY <2>2, <2>3
<1>6. Filed = Off(Written) \cup others \cup (IF Fresh(k) THEN {} ELSE RowsCached(states[k]))
  <2>1. Fresh(k) <=> k \notin LiveKeys(states)
    BY <1>1 DEF Fresh, LiveKeys
  <2> HIDE DEF k
  <2> QED BY <2>1 DEF Filed
<1>7. Filed' = Off(Written') \cup others \cup (IF e.type = "FREE" THEN {} ELSE RowsCached(s))
  <2>1. Filed' = Off(Written') \cup UNION {RowsCached(states'[j]) : j \in LiveKeys(states')}
    BY DEF Filed, RowsCached, EventsOf, RowOf, OfflineRow, LiveKeys
  <2>2. \A j \in LiveKeys(states) \ {k} : states'[j] = states[j]
    BY <1>1 DEF LiveKeys
  <2> HIDE DEF k, s
  <2>3. UNION {RowsCached(states'[j]) : j \in LiveKeys(states')} =
           others \cup (IF e.type = "FREE" THEN {} ELSE RowsCached(s))
    <3>1. CASE e.type = "FREE"
      BY <1>1, <2>2, <3>1
    <3>2. CASE e.type # "FREE"
      BY <1>1, <2>2, <3>2
    <3> QED BY <3>1, <3>2
  <2> HIDE DEF others
  <2> QED BY <2>1, <2>3
<1>8. Off(Written') = Off(Written) \cup (IF e.type = "FREE" THEN RowsCached(s) ELSE {})
  <2> HIDE DEF D, s, k
  <2>1. CASE e.type = "FREE"
    <3>1. Off(Written \cup D) = Off(Written) \cup Off(D)
      OBVIOUS
    <3> QED BY <1>3, <1>4, <2>1, <3>1
  <2>2. CASE e.type # "FREE"
    BY <1>3, <2>2
  <2> QED BY <2>1, <2>2
<1>9. Filed' = Filed \cup {row}
  <2> HIDE DEF Off, others, row, s, k
  <2> QED BY <1>5, <1>6, <1>7, <1>8
<1>10. row \in OfflineRows(count') /\ row.id = recordIndex + 1
  <2>1. e.id \in Nat /\ e.type \in EventTypes /\ s.allocationId \in 0 .. count'
    BY <1>1, <1>2 DEF MemoryEvent
  <2> HIDE DEF s, k
  <2> QED BY <1>2, <2>1 DEF RowOf, OfflineRows
<1> QED BY <1>9, <1>10

LEMMA OperatedFiles ==
    ASSUME BaseInv, NEW p, NEW type, Operated(p, type)
    PROVE  LET row == RowOf([id |-> recordIndex + 1, type |-> type, pool |-> p], 0)
           IN  /\ Filed' = Filed \cup {row}
               /\ row \in OfflineRows(count') /\ row.id = recordIndex + 1 /\ row.type = type
               /\ row.pool = p /\ type \notin EventTypes /\ type \in {"START", "END"}
<1> DEFINE e == [id |-> recordIndex + 1, type |-> type, pool |-> p]
           r == [event |-> e]
           row == RowOf(e, 0)
           Off(W) == {OfflineRow(q) : q \in W}
<1>1. states' = states /\ count' = count /\ type \in {"START", "END"} /\ recordIndex \in Nat
      /\ p \in AnalysedPools /\ count \in Nat
  BY DEF BaseInv, TypeOK, Operated
<1>2. type \notin EventTypes
  BY <1>1 DEF EventTypes
<1>3. Written' = Written \cup {r}
  BY OperatedRecords
<1>4. r.event = e /\ e.id = recordIndex + 1 /\ e.type = type /\ e.pool = p
  OBVIOUS
<1> HIDE DEF r, e
<1>5. OfflineRow(r) = row
  BY <1>2, <1>4 DEF OfflineRow, RowOf
<1>6. row \in OfflineRows(count') /\ row.id = recordIndex + 1 /\ row.type = type /\ row.pool = p
  <2>1. recordIndex + 1 \in Nat /\ 0 \in 0 .. count'
    BY <1>1
  <2> QED BY <1>1, <1>4, <2>1 DEF RowOf, OfflineRows
<1>7. Filed' = Off(Written') \cup UNION {RowsCached(states[j]) : j \in LiveKeys(states)}
  BY <1>1 DEF Filed, RowsCached, EventsOf, RowOf, OfflineRow, LiveKeys
<1>8. Off(Written') = Off(Written) \cup {row}
  <2> HIDE DEF row
  <2> QED BY <1>3, <1>5
<1>9. Filed' = Filed \cup {row}
  <2> HIDE DEF row
  <2> QED BY <1>7, <1>8 DEF Filed
<1> QED BY <1>1, <1>2, <1>6, <1>9 DEF e

LEMMA SweptFiles ==
    ASSUME BaseInv, Swept
    PROVE  Filed' = Filed
<1> DEFINE Off(W) == {OfflineRow(r) : r \in W}
           cached == UNION {RowsCached(states[k]) : k \in LiveKeys(states)}
<1>1. states \in StatesMap /\ notes \in [MemoryStateKey -> Note] /\ states' = EmptyMap
  BY DEF BaseInv, TypeOK, Swept
<1>2. Off(SweptRows) = cached
  <2>1. \A k \in LiveKeys(states) : Off(DumpRows(states[k], notes[k])) = RowsCached(states[k])
    <3> SUFFICES ASSUME NEW k \in LiveKeys(states)
                 PROVE  Off(DumpRows(states[k], notes[k])) = RowsCached(states[k])
      OBVIOUS
    <3>1. k \in MemoryStateKey /\ states[k] \in MemoryState
      BY <1>1, LiveState
    <3> QED BY <1>1, <3>1, RowsSame
  <2>2. Off(SweptRows) = UNION {Off(DumpRows(states[k], notes[k])) : k \in LiveKeys(states)}
    BY DEF SweptRows
  <2> HIDE DEF Off
  <2> QED BY <2>1, <2>2
<1>3. Written' = Written \cup SweptRows
  BY SweptRecords
<1>4. Filed' = Off(Written')
  <2>1. LiveKeys(states') = {}
    BY <1>1 DEF LiveKeys, EmptyMap
  <2>2. Filed' = Off(Written') \cup UNION {RowsCached(states'[j]) : j \in LiveKeys(states')}
    BY DEF Filed, RowsCached, EventsOf, RowOf, OfflineRow, LiveKeys
  <2> QED BY <2>1, <2>2
<1>5. Off(Written') = Off(Written) \cup Off(SweptRows)
  BY <1>3
<1> QED BY <1>2, <1>4, <1>5 DEF Filed

LEMMA SameFiles ==
    ASSUME written' = written, states' = states
    PROVE  Filed' = Filed
<1>1. Written' = Written
  BY SameRecords
<1> QED BY <1>1 DEF Filed, RowsCached, EventsOf, RowOf, OfflineRow, LiveKeys

-----------------------------------------------------------------------------
\* What the analyses have of the block of a reported event before it.
OldEvents(k) == IF Fresh(k) THEN << >> ELSE states[k].events

LEMMA OldBlock ==
    ASSUME VerdictsInv, NEW e, Reported(e), NEW c \in Nat, c >= count', NEW x \in Analyses(c),
           Agreement(x, c, count, pidStates, states, notes, MemoryRows)
    PROVE  LET k == KeyOf(e)
               s == StateWith(states, count, e, k)
           IN  /\ s.allocationId \in 1 .. c /\ s.allocationId \in 1 .. count'
               /\ OldEvents(k) \in Seq(MemoryEvent) /\ s.events = Append(OldEvents(k), e)
               /\ SameBlock(x.memory_state[s.allocationId], OldEvents(k), OldNote(k).apiId)
               /\ x.results[s.allocationId] = OldNote(k).inefficientType
               /\ \A j \in LiveKeys(states) \ {k} : states[j].allocationId # s.allocationId
               /\ \A r \in MemoryRows : r.allocationId # s.allocationId
<1> DEFINE k == KeyOf(e)
           s == StateWith(states, count, e, k)
           a == s.allocationId
<1>1. /\ k \in MemoryStateKey /\ count' \in Nat /\ count' >= count /\ a \in 1 .. count'
      /\ \A j \in LiveKeys(states) \ {k} : states[j].allocationId # a
      /\ Fresh(k) => s.events = <<e>> /\ a = count + 1
      /\ ~Fresh(k) => s.events = Append(states[k].events, e) /\ a = states[k].allocationId
  BY ReportedCache DEF VerdictsInv
<1>2. a \in 1 .. c /\ count \in Nat /\ states \in StatesMap /\ e \in MemoryEvent
  BY <1>1 DEF VerdictsInv, BaseInv, TypeOK, Reported, Legal
<1>3. \A r \in MemoryRows : r.allocationId \in Done(count, states)
  BY DEF VerdictsInv, RowsOK, RowsRight
<1> HIDE DEF s, k
<1>4. CASE Fresh(k)
  <2>1. OldEvents(k) = << >> /\ OldNote(k).apiId = << >> /\ OldNote(k).inefficientType = << >>
    BY <1>4 DEF OldEvents, OldNote, NewNote
  <2>2. a \in count + 1 .. c
    BY <1>1, <1>2, <1>4
  <2>3. x.memory_state[a] = << >> /\ x.results[a] = << >>
    BY <2>2 DEF Agreement, RestIsNew
  <2>4. SameBlock(<< >>, << >>, << >>)
    <3>1. << >> \in Seq(Reading) /\ << >> \in Seq(Nat) /\ Len(<< >>) = 0 /\ 1 .. 0 = {}
      OBVIOUS
    <3> QED BY <3>1 DEF SameBlock
  <2>5. \A r \in MemoryRows : r.allocationId # a
    <3>1. a \notin Done(count, states)
      BY <1>1, <1>2, <1>4 DEF Done
    <3> QED BY <1>3, <3>1
  <2>6. << >> \in Seq(MemoryEvent) /\ <<e>> = Append(<< >>, e)
    OBVIOUS
  <2> QED BY <1>1, <1>2, <1>4, <2>1, <2>3, <2>4, <2>5, <2>6 DEF s, k
<1>5. CASE ~Fresh(k)
  <2>1. k \in LiveKeys(states)
    BY <1>1, <1>5 DEF Fresh, LiveKeys
  <2>2. OldEvents(k) = states[k].events /\ OldNote(k) = notes[k]
    BY <1>5 DEF OldEvents, OldNote
  <2>3. /\ SameBlock(x.memory_state[states[k].allocationId], states[k].events, notes[k].apiId)
        /\ x.results[states[k].allocationId] = notes[k].inefficientType
    BY <2>1 DEF Agreement, BlocksAgree
  <2>4. states[k].events \in Seq(MemoryEvent)
    BY <1>2, <2>1, LiveState
  <2>5. \A r \in MemoryRows : r.allocationId # a
    <3>1. a \notin Done(count, states)
      BY <1>1, <1>5, <2>1 DEF Done
    <3> QED BY <1>3, <3>1
  <2> QED BY <1>1, <1>2, <1>5, <2>2, <2>3, <2>4, <2>5 DEF s, k
<1> QED BY <1>4, <1>5

\* An event that both analyses see leaves them agreed.
LEMMA ReportedAgrees ==
    ASSUME VerdictsInv, NEW e, Reported(e), Watching, NEW c \in Nat, c >= count', NEW x \in Analyses(c),
           Agreement(x, c, count, pidStates, states, notes, MemoryRows)
    PROVE  LET row == RowOf(e, StateWith(states, count, e, KeyOf(e)).allocationId)
           IN  Agreement(Offline!event_handle(x, row), c, count', pidStates', states', notes', MemoryRows')
<1> DEFINE k == KeyOf(e)
           s == StateWith(states, count, e, k)
           a == s.allocationId
           row == RowOf(e, a)
           y == Offline!event_handle(x, row)
           v == x.pid_states[e.pool]
           w == Offline!_pid_state_after(v, row)
           q == pidStates[e.pool]
           r == AfterMemoryEvent(q, e)
           state == Append(x.memory_state[a], [event |-> e.type, api_id |-> r.apiId])
<1>1. /\ a \in 1 .. c /\ a \in 1 .. count'
      /\ OldEvents(k) \in Seq(MemoryEvent) /\ s.events = Append(OldEvents(k), e)
      /\ SameBlock(x.memory_state[a], OldEvents(k), OldNote(k).apiId)
      /\ x.results[a] = OldNote(k).inefficientType
      /\ \A j \in LiveKeys(states) \ {k} : states[j].allocationId # a
      /\ \A d \in MemoryRows : d.allocationId # a
  BY OldBlock
<1>2. /\ e \in MemoryEvent /\ e.pool \in AnalysedPools /\ e.type \in EventTypes /\ e.id \in Nat
      /\ pidStates \in [AnalysedPools -> PidState] /\ states \in StatesMap
  BY DEF VerdictsInv, BaseInv, TypeOK, Reported, Legal, MemoryEvent
<1>3. row \in OfflineRows(c) /\ row.type = e.type /\ row.pool = e.pool /\ row.allocationId = a
  <2>1. a \in 0 .. c
    BY <1>1
  <2> HIDE DEF s
  <2> QED BY <1>2, <2>1 DEF RowOf, OfflineRows
<1>4. SamePid(v, q) /\ q \in PidState
  BY <1>2 DEF Agreement, PidsAgree
<1>5. SamePid(w, r) /\ Offline!_api_id(v) = r.apiId
  <2> HIDE DEF row, v, q
  <2> QED BY <1>2, <1>3, <1>4, SameAfterEvent
<1>6. r \in PidState /\ r.apiId \in Nat
  <2>1. r \in PidState
    BY <1>2, <1>4, PidTypes
  <2> QED BY <2>1 DEF PidState
<1> HIDE DEF row, s, k
<1>7. /\ y \in Analyses(c)
      /\ y.pid_states = [x.pid_states EXCEPT ![e.pool] = w]
      /\ y.memory_state = [x.memory_state EXCEPT ![a] = state]
      /\ y.results = [x.results EXCEPT ![a] = Offline!_inefficient_analysis(state, w, @)]
  <2> HIDE DEF y
  <2>1. HandlesRow(c, x, row, y)
    BY <1>3, EventHandled DEF y
  <2>2. row.type \in EventTypes
    BY <1>2, <1>3
  <2>3. x.pid_states[row.pool] = v
    BY <1>3
  <2>4. Append(x.memory_state[row.allocationId],
               [event |-> row.type, api_id |-> Offline!_api_id(x.pid_states[row.pool])]) = state
    BY <1>3, <1>5, <2>3
  <2> HIDE DEF state, v
  <2> QED BY <1>3, <2>1, <2>2, <2>3, <2>4 DEF HandlesRow
<1> HIDE DEF y, w, v
<1>8. NotedOf(e)
  BY NotingOf DEF VerdictsInv
<1> DEFINE ids == Append(OldNote(k).apiId, r.apiId)
<1>9. /\ Noting(e).apiId = ids
      /\ Noting(e).inefficientType = InefficientAnalysis(r, s.events, ids, OldNote(k).inefficientType)
      /\ OldNote(k).inefficientType \in Seq(Inefficiencies)
  BY <1>8 DEF NotedOf, s, k
<1>10. SameBlock(state, s.events, ids) /\ Len(state) >= 1
  <2> HIDE DEF r, q, a
  <2>1. e.type \in EventTypes /\ r.apiId \in Nat
    BY <1>2, <1>6
  <2> QED BY <1>1, <1>2, <2>1, SameBlockNext
<1> HIDE DEF ids, state, r, q
<1>11. Offline!_inefficient_analysis(state, w, x.results[a]) = Noting(e).inefficientType
  BY <1>1, <1>5, <1>6, <1>9, <1>10, SameVerdicts
<1>12. /\ x.pid_states \in [AnalysedPools -> PyPidState] /\ x.memory_state \in [0 .. c -> Seq(Reading)]
       /\ x.results \in [0 .. c -> Seq(Inefficiencies)] /\ a \in 0 .. c
  BY <1>1 DEF Analyses
<1> HIDE DEF a
<1>13. /\ y.memory_state[a] = state /\ y.results[a] = Noting(e).inefficientType
       /\ \A b \in 0 .. c : b # a => /\ y.memory_state[b] = x.memory_state[b]
                                     /\ y.results[b] = x.results[b]
  BY <1>7, <1>11, <1>12
<1>14. PidsAgree(y, pidStates')
  <2>1. pidStates' = [pidStates EXCEPT ![e.pool] = r]
    BY DEF Reported, Handled, PidAfter, r, q
  <2>2. ASSUME NEW p \in AnalysedPools PROVE SamePid(y.pid_states[p], pidStates'[p])
    <3>1. CASE p = e.pool
      <4>1. y.pid_states[p] = w /\ pidStates'[p] = r
        BY <1>2, <1>7, <1>12, <2>1, <3>1
      <4> QED BY <1>5, <4>1
    <3>2. CASE p # e.pool
      <4>1. y.pid_states[p] = x.pid_states[p] /\ pidStates'[p] = pidStates[p]
        BY <1>2, <1>7, <1>12, <2>1, <3>2
      <4> QED BY <4>1 DEF Agreement, PidsAgree
    <3> QED BY <3>1, <3>2
  <2> QED BY <2>2 DEF PidsAgree
<1>15. BlocksAgree(y, states', notes')
  <2>1. \A j \in LiveKeys(states') :
           \/ j # k /\ j \in LiveKeys(states) /\ states'[j] = states[j] /\ notes'[j] = notes[j]
           \/ j = k /\ notes'[j] = Noting(e) /\ states'[j] = s
    BY ReportedNotes DEF VerdictsInv, k, s
  <2>2. ASSUME NEW j \in LiveKeys(states')
        PROVE  /\ SameBlock(y.memory_state[states'[j].allocationId], states'[j].events, notes'[j].apiId)
               /\ y.results[states'[j].allocationId] = notes'[j].inefficientType
    <3>1. CASE j = k
      <4>1. states'[j].allocationId = a /\ states'[j].events = s.events /\ notes'[j] = Noting(e)
        BY <2>1, <3>1 DEF a
      <4> QED BY <1>9, <1>10, <1>13, <4>1
    <3>2. CASE j # k
      <4>1. j \in LiveKeys(states) /\ states'[j] = states[j] /\ notes'[j] = notes[j]
        BY <2>1, <3>2
      <4> DEFINE b == states[j].allocationId
      <4>2. b # a /\ b \in 0 .. c
        <5>1. b \in 1 .. count /\ count \in Nat /\ count' >= count /\ count' \in Nat
          BY <4>1, ReportedCache DEF VerdictsInv, BaseInv, CacheOK, OwnAllocation, TypeOK
        <5>2. b # a
          BY <1>1, <3>2, <4>1 DEF a
        <5> HIDE DEF b
        <5> QED BY <5>1, <5>2
      <4>3. SameBlock(x.memory_state[b], states[j].events, notes[j].apiId)
            /\ x.results[b] = notes[j].inefficientType
        BY <4>1 DEF Agreement, BlocksAgree
      <4>4. y.memory_state[b] = x.memory_state[b] /\ y.results[b] = x.results[b]
        BY <1>13, <4>2
      <4> QED BY <4>1, <4>3, <4>4
    <3> QED BY <3>1, <3>2
  <2> QED BY <2>2 DEF BlocksAgree
<1>16. RowsAgree(y, MemoryRows')
  <2>1. MemoryRows' = IF e.type = "FREE" THEN MemoryRows \cup DumpRows(s, Noting(e)) ELSE MemoryRows
    BY ReportedRecords DEF VerdictsInv, RecordsGrow, s, k
  <2>2. ASSUME NEW d \in MemoryRows, d.event.type = "MALLOC" PROVE y.results[d.allocationId] = d.verdicts
    <3>1. d.allocationId \in Done(count, states) /\ d.allocationId # a
      BY <1>1 DEF VerdictsInv, RowsOK, RowsRight, a
    <3>2. count \in Nat /\ count' >= count /\ count' \in Nat
      BY ReportedCache DEF VerdictsInv, BaseInv, TypeOK
    <3>3. d.allocationId \in 0 .. c
      BY <3>1, <3>2 DEF Done
    <3>4. x.results[d.allocationId] = d.verdicts
      BY <2>2 DEF Agreement, RowsAgree
    <3> QED BY <1>13, <3>1, <3>3, <3>4
  <2>3. ASSUME NEW d \in DumpRows(s, Noting(e)), d.event.type = "MALLOC"
        PROVE  y.results[d.allocationId] = d.verdicts
    <3>1. s \in MemoryState /\ Noting(e) \in Note
      BY ReportedCache DEF VerdictsInv, Reported, s, k
    <3>2. d.allocationId = a /\ d.verdicts = Noting(e).inefficientType
      BY <2>3, <3>1, RowsOfBlock DEF AreRowsOf, a
    <3> QED BY <1>13, <3>2
  <2> QED BY <2>1, <2>2, <2>3 DEF RowsAgree
<1>17. RestIsNew(y, c, count')
  <2>1. count \in Nat /\ count' >= count /\ count' \in Nat /\ a \in 1 .. count'
    BY <1>1, ReportedCache DEF VerdictsInv, BaseInv, TypeOK, a
  <2> DEFINE m == count'
             n == count
  <2> HIDE DEF m, n, a
  <2>2. ASSUME NEW b \in m + 1 .. c PROVE b # a /\ b \in 0 .. c /\ b \in n + 1 .. c
    <3>1. m \in Nat /\ n \in Nat /\ m >= n /\ a \in 1 .. m
      BY <2>1 DEF m, n
    <3> QED BY <3>1
  <2>3. \A b \in n + 1 .. c : x.memory_state[b] = << >> /\ x.results[b] = << >>
    BY DEF Agreement, RestIsNew, n
  <2> QED BY <1>13, <2>2, <2>3 DEF RestIsNew, m
<1>18. Agreement(y, c, count', pidStates', states', notes', MemoryRows')
  BY <1>14, <1>15, <1>16, <1>17 DEF Agreement
<1> QED BY <1>18 DEF y, row, a, s, k

-----------------------------------------------------------------------------
\* An operator's event that both analyses see leaves them agreed.
LEMMA OperatedAgrees ==
    ASSUME VerdictsInv, NEW p, NEW type, Operated(p, type), Watching, NEW c \in Nat, NEW x \in Analyses(c),
           Agreement(x, c, count, pidStates, states, notes, MemoryRows)
    PROVE  LET row == RowOf([id |-> recordIndex + 1, type |-> type, pool |-> p], 0)
           IN  Agreement(Offline!event_handle(x, row), c, count', pidStates', states', notes', MemoryRows')
<1> DEFINE e == [id |-> recordIndex + 1, type |-> type, pool |-> p]
           row == RowOf(e, 0)
           y == Offline!event_handle(x, row)
           v == x.pid_states[p]
           q == pidStates[p]
           w == Offline!_handle_oplaunch_event(v, row.type = "START")
           r == HandleOpLaunchEvent(q, type = "START")
<1>1. /\ states' = states /\ count' = count /\ notes' = notes /\ type \in {"START", "END"}
      /\ p \in AnalysedPools /\ recordIndex \in Nat
      /\ pidStates \in [AnalysedPools -> PidState] /\ pidStates' = [pidStates EXCEPT ![p] = r]
  BY DEF VerdictsInv, BaseInv, TypeOK, Operated
<1>2. row \in OfflineRows(c) /\ row.type = type /\ row.pool = p /\ row.type \notin EventTypes
  <2>1. 0 \in 0 .. c /\ recordIndex + 1 \in Nat
    BY <1>1
  <2>2. row.type = type /\ row.pool = p /\ row.id = recordIndex + 1 /\ row.allocationId = 0
    BY DEF RowOf
  <2> QED BY <1>1, <2>1, <2>2 DEF RowOf, OfflineRows, EventTypes
<1>3. SamePid(v, q) /\ q \in PidState
  BY <1>1 DEF Agreement, PidsAgree
<1> HIDE DEF row, v, q
<1>4. SamePid(w, r)
  <2>1. SamePid(Offline!_handle_oplaunch_event(v, TRUE), HandleOpLaunchEvent(q, TRUE))
        /\ SamePid(Offline!_handle_oplaunch_event(v, FALSE), HandleOpLaunchEvent(q, FALSE))
    BY <1>3, SameAfterOperator
  <2>2. \/ (row.type = "START") = TRUE /\ (type = "START") = TRUE
        \/ (row.type = "START") = FALSE /\ (type = "START") = FALSE
    BY <1>2
  <2> QED BY <2>1, <2>2
<1>5. /\ y.pid_states = [x.pid_states EXCEPT ![p] = w]
      /\ y.memory_state = x.memory_state /\ y.results = x.results
  <2> HIDE DEF y
  <2>1. HandlesRow(c, x, row, y)
    BY <1>2, EventHandled DEF y
  <2>2. x.pid_states[row.pool] = v
    BY <1>2 DEF v
  <2> QED BY <1>2, <2>1, <2>2 DEF HandlesRow
<1> HIDE DEF y, w, r
<1>6. x.pid_states \in [AnalysedPools -> PyPidState]
  BY DEF Analyses
<1>7. PidsAgree(y, pidStates')
  <2>1. ASSUME NEW o \in AnalysedPools PROVE SamePid(y.pid_states[o], pidStates'[o])
    <3>1. CASE o = p
      <4>1. y.pid_states[o] = w /\ pidStates'[o] = r
        BY <1>1, <1>5, <1>6, <3>1
      <4> QED BY <1>4, <4>1
    <3>2. CASE o # p
      <4>1. y.pid_states[o] = x.pid_states[o] /\ pidStates'[o] = pidStates[o]
        BY <1>1, <1>5, <1>6, <3>2
      <4> QED BY <4>1 DEF Agreement, PidsAgree
    <3> QED BY <3>1, <3>2
  <2> QED BY <2>1 DEF PidsAgree
<1>8. MemoryRows' = MemoryRows
  BY OperatedRecords DEF VerdictsInv
<1>9. BlocksAgree(y, states', notes') /\ RowsAgree(y, MemoryRows') /\ RestIsNew(y, c, count')
  BY <1>1, <1>5, <1>8 DEF Agreement, BlocksAgree, RowsAgree, RestIsNew
<1>10. Agreement(y, c, count', pidStates', states', notes', MemoryRows')
  BY <1>7, <1>9 DEF Agreement
<1> QED BY <1>10 DEF y, row

\* Everything else leaves both as they are.
LEMMA QuietAgrees ==
    ASSUME VerdictsInv, Unreported \/ (\E k, class : Owned(k, class)) \/ Swept \/ Reconfigured,
           NEW c, NEW x, Agreement(x, c, count, pidStates, states, notes, MemoryRows)
    PROVE  Agreement(x, c, count', pidStates', states', notes', MemoryRows')
<1>1. StaysQuiet
  BY QuietSteps DEF VerdictsInv, Quiet
<1>2. pidStates' = pidStates /\ count' = count
  BY DEF Unreported, Owned, Swept, Reconfigured
<1>3. BlocksAgree(x, states', notes')
  BY <1>1 DEF StaysQuiet, Agreement, BlocksAgree
<1>4. RowsAgree(x, MemoryRows')
  <2>1. CASE Swept
    <3>1. MemoryRows' = MemoryRows \cup SweptRows
      BY <2>1, SweptRecords DEF VerdictsInv
    <3>2. ASSUME NEW d \in SweptRows, d.event.type = "MALLOC" PROVE x.results[d.allocationId] = d.verdicts
      <4>1. PICK k \in LiveKeys(states) : d \in DumpRows(states[k], notes[k])
        BY DEF SweptRows
      <4>2. states[k] \in MemoryState /\ notes[k] \in Note
        <5>1. states \in StatesMap /\ notes \in [MemoryStateKey -> Note]
          BY DEF VerdictsInv, BaseInv, TypeOK
        <5> QED BY <5>1, LiveState
      <4>3. AreRowsOf(DumpRows(states[k], notes[k]), states[k], notes[k])
        BY <4>2, RowsOfBlock
      <4>4. d.allocationId = states[k].allocationId /\ d.verdicts = notes[k].inefficientType
        BY <3>2, <4>1, <4>3 DEF AreRowsOf
      <4> QED BY <4>4 DEF Agreement, BlocksAgree
    <3> QED BY <3>1, <3>2 DEF Agreement, RowsAgree
  <2>2. CASE ~Swept
    <3>1. written' = written /\ states' = states
      BY <2>2 DEF Unreported, Owned, Reconfigured
    <3>2. MemoryRows' = MemoryRows
      BY <3>1, SameRecords
    <3> QED BY <3>2 DEF Agreement
  <2> QED BY <2>1, <2>2
<1> QED BY <1>2, <1>3, <1>4 DEF Agreement

LEMMA QuietFiles ==
    ASSUME BaseInv, Unreported \/ (\E k, class : Owned(k, class)) \/ Swept \/ Reconfigured
    PROVE  Filed' = Filed /\ recordIndex' = recordIndex /\ count' = count
           /\ (unwatched => unwatched')
<1>1. recordIndex' = recordIndex /\ count' = count
  BY DEF Unreported, Owned, Swept, Reconfigured
<1>3. unwatched => unwatched'
  BY Zenon DEF Unreported, Owned, Swept, Reconfigured
<1>2. Filed' = Filed
  <2>1. CASE Swept
    BY <2>1, SweptFiles
  <2>2. CASE ~Swept
    <3>1. written' = written /\ states' = states
      BY <2>2 DEF Unreported, Owned, Reconfigured
    <3> QED BY <3>1, SameFiles
  <2> QED BY <2>1, <2>2
<1> QED BY <1>1, <1>2, <1>3

-----------------------------------------------------------------------------
\* The records so far, in the order of their ids, take the offline analysis to a state that
\* agrees with the online one, however many allocations it makes room for.
Follows(log, n, m, pid, st, nt, M) ==
    \A c \in Nat : c >= m => \E x : Reaches(c, log, n, x) /\ Agreement(x, c, m, pid, st, nt, M)

LogOK ==
    \E log : /\ IsLog(log, recordIndex, count, Filed)
             /\ unwatched \/ Follows(log, recordIndex, count, pidStates, states, notes, MemoryRows)

LEMMA RowsWiden ==
    ASSUME NEW c \in Nat, NEW d \in Nat, c <= d
    PROVE  OfflineRows(c) \subseteq OfflineRows(d)
<1>1. 0 .. c \subseteq 0 .. d
  OBVIOUS
<1> QED BY <1>1 DEF OfflineRows

LEMMA LogInit == Init => LogOK
<1> SUFFICES ASSUME Init PROVE LogOK
  OBVIOUS
<1>1. PICK log : log = [i \in 1 .. 0 |-> 0]
  OBVIOUS
<1>2. /\ recordIndex = 0 /\ count = 0 /\ LiveKeys(states) = {} /\ MemoryRows = {} /\ Filed = {}
      /\ \A p \in AnalysedPools : pidStates[p] = InitialPidState
  <2>1. recordIndex = 0 /\ count = 0 /\ \A p \in AnalysedPools : pidStates[p] = InitialPidState
    BY DEF Init
  <2>2. LiveKeys(states) = {}
    BY DEF Init, EmptyMap, LiveKeys
  <2>3. Written = {}
    BY DEF Init, Written
  <2> QED BY <2>1, <2>2, <2>3 DEF MemoryRows, Filed
<1>3. IsLog(log, 0, 0, {})
  <2>1. 1 .. 0 = {}
    OBVIOUS
  <2>2. log \in [1 .. 0 -> OfflineRows(0)]
    BY <1>1, <2>1
  <2> QED BY <2>1, <2>2 DEF IsLog
<1>4. Follows(log, 0, 0, pidStates, states, notes, {})
  <2> SUFFICES ASSUME NEW c \in Nat
               PROVE  \E x : Reaches(c, log, 0, x) /\ Agreement(x, c, 0, pidStates, states, notes, {})
    BY DEF Follows
  <2> DEFINE x == Offline!InitialAnalysis(AnalysedPools, 0 .. c)
  <2>1. /\ \A p \in AnalysedPools : SamePid(x.pid_states[p], InitialPidState)
        /\ \A a \in 0 .. c : x.memory_state[a] = << >> /\ x.results[a] = << >>
    BY FirstAnalysis
  <2>2. Reaches(c, log, 0, x)
    BY ReachesFirst
  <2> HIDE DEF x
  <2>3. \A a \in 0 + 1 .. c : a \in 0 .. c
    OBVIOUS
  <2>4. Agreement(x, c, 0, pidStates, states, notes, {})
    BY <1>2, <2>1, <2>3 DEF Agreement, PidsAgree, BlocksAgree, RowsAgree, RestIsNew
  <2> QED BY <2>2, <2>4
<1> QED BY <1>2, <1>3, <1>4 DEF LogOK

LEMMA ReportedLog ==
    ASSUME VerdictsInv, LogOK, NEW e, Reported(e)
    PROVE  LogOK'
<1> DEFINE row == RowOf(e, StateWith(states, count, e, KeyOf(e)).allocationId)
           n == recordIndex
<1>0. BaseInv
  BY DEF VerdictsInv
<1>1. PICK log : /\ IsLog(log, n, count, Filed)
                 /\ unwatched \/ Follows(log, n, count, pidStates, states, notes, MemoryRows)
  BY DEF LogOK
<1>2. Filed' = Filed \cup {row} /\ row \in OfflineRows(count') /\ row.id = n + 1
  BY <1>0, ReportedFiles
<1>3. n \in Nat /\ recordIndex' = n + 1 /\ count \in Nat /\ count' \in Nat /\ count <= count'
  BY <1>0, ReportedCache DEF BaseInv, TypeOK, Reported
<1>4. unwatched' = unwatched /\ (~unwatched => Watching)
  BY <1>0 DEF Reported, NoCall, Unswitched, BaseInv, CacheOK
<1> DEFINE more == Longer(log, n, row)
<1> HIDE DEF n
<1>5. IsLog(more, n + 1, count', Filed')
  <2> HIDE DEF row
  <2> QED BY <1>1, <1>2, <1>3, LogGrows
<1>6. ASSUME ~unwatched PROVE Follows(more, n + 1, count', pidStates', states', notes', MemoryRows')
  <2> SUFFICES ASSUME NEW c \in Nat, c >= count'
               PROVE  \E x : /\ Reaches(c, more, n + 1, x)
                             /\ Agreement(x, c, count', pidStates', states', notes', MemoryRows')
    BY DEF Follows
  <2>1. PICK x : Reaches(c, log, n, x) /\ Agreement(x, c, count, pidStates, states, notes, MemoryRows)
    <3>1. c >= count
      BY <1>3
    <3> QED BY <1>1, <1>6, <3>1 DEF Follows
  <2>2. row \in OfflineRows(c)
    <3>1. count' <= c
      BY <1>3
    <3> QED BY <1>2, <1>3, <3>1, RowsWiden
  <2>3. x \in Analyses(c) /\ Reaches(c, more, n + 1, Offline!event_handle(x, row))
    <3> HIDE DEF row
    <3> QED BY <1>3, <2>1, <2>2, ReachesNext
  <2>4. Agreement(Offline!event_handle(x, row), c, count', pidStates', states', notes', MemoryRows')
    BY <1>4, <1>6, <2>1, <2>3, ReportedAgrees
  <2> QED BY <2>3, <2>4
<1> HIDE DEF more
<1>7. \/ unwatched'
      \/ Follows(more, recordIndex', count', pidStates', states', notes', MemoryRows')
  BY <1>3, <1>4, <1>6
<1> QED BY <1>3, <1>5, <1>7 DEF LogOK

LEMMA OperatedLog ==
    ASSUME VerdictsInv, LogOK, NEW p, NEW type, Operated(p, type)
    PROVE  LogOK'
<1> DEFINE row == RowOf([id |-> recordIndex + 1, type |-> type, pool |-> p], 0)
           n == recordIndex
<1>0. BaseInv
  BY DEF VerdictsInv
<1>1. PICK log : /\ IsLog(log, n, count, Filed)
                 /\ unwatched \/ Follows(log, n, count, pidStates, states, notes, MemoryRows)
  BY DEF LogOK
<1>2. Filed' = Filed \cup {row} /\ row \in OfflineRows(count') /\ row.id = n + 1
  BY <1>0, OperatedFiles
<1>3. n \in Nat /\ recordIndex' = n + 1 /\ count \in Nat /\ count' = count
  BY <1>0 DEF BaseInv, TypeOK, Operated
<1>4. unwatched' = unwatched /\ (~unwatched => Watching)
  BY <1>0 DEF Operated, NoCall, Unswitched, BaseInv, CacheOK
<1> DEFINE more == Longer(log, n, row)
<1> HIDE DEF n
<1>5. IsLog(more, n + 1, count, Filed')
  <2>1. row \in OfflineRows(count) /\ count <= count
    BY <1>2, <1>3
  <2> HIDE DEF row
  <2> QED BY <1>1, <1>2, <1>3, <2>1, LogGrows
<1>6. ASSUME ~unwatched PROVE Follows(more, n + 1, count', pidStates', states', notes', MemoryRows')
  <2> SUFFICES ASSUME NEW c \in Nat, c >= count'
               PROVE  \E x : /\ Reaches(c, more, n + 1, x)
                             /\ Agreement(x, c, count', pidStates', states', notes', MemoryRows')
    BY DEF Follows
  <2>1. PICK x : Reaches(c, log, n, x) /\ Agreement(x, c, count, pidStates, states, notes, MemoryRows)
    <3>1. c >= count
      BY <1>3
    <3> QED BY <1>1, <1>6, <3>1 DEF Follows
  <2>2. row \in OfflineRows(c)
    <3>1. count' <= c /\ count' \in Nat
      BY <1>3
    <3> QED BY <1>2, <3>1, RowsWiden
  <2>3. x \in Analyses(c) /\ Reaches(c, more, n + 1, Offline!event_handle(x, row))
    <3> HIDE DEF row
    <3> QED BY <1>3, <2>1, <2>2, ReachesNext
  <2>4. Agreement(Offline!event_handle(x, row), c, count', pidStates', states', notes', MemoryRows')
    BY <1>4, <1>6, <2>1, <2>3, OperatedAgrees
  <2> QED BY <2>3, <2>4
<1> HIDE DEF more
<1>7. \/ unwatched'
      \/ Follows(more, recordIndex', count', pidStates', states', notes', MemoryRows')
  BY <1>3, <1>4, <1>6
<1>8. IsLog(more, recordIndex', count', Filed')
  BY <1>3, <1>5
<1> QED BY <1>7, <1>8 DEF LogOK

LEMMA QuietLog ==
    ASSUME VerdictsInv, LogOK,
           Unreported \/ (\E k, class : Owned(k, class)) \/ Swept \/ Reconfigured
    PROVE  LogOK'
<1>1. PICK log : /\ IsLog(log, recordIndex, count, Filed)
                 /\ unwatched \/ Follows(log, recordIndex, count, pidStates, states, notes, MemoryRows)
  BY DEF LogOK
<1>2. Filed' = Filed /\ recordIndex' = recordIndex /\ count' = count /\ (unwatched => unwatched')
  BY QuietFiles DEF VerdictsInv
<1>3. \A c, x : Agreement(x, c, count, pidStates, states, notes, MemoryRows)
                  => Agreement(x, c, count', pidStates', states', notes', MemoryRows')
  BY QuietAgrees
<1>4. ASSUME ~unwatched'
      PROVE  Follows(log, recordIndex', count', pidStates', states', notes', MemoryRows')
  <2>1. Follows(log, recordIndex, count, pidStates, states, notes, MemoryRows)
    BY <1>1, <1>2, <1>4
  <2> QED BY <1>2, <1>3, <2>1 DEF Follows
<1>5. IsLog(log, recordIndex', count', Filed')
  BY <1>1, <1>2
<1> QED BY <1>4, <1>5 DEF LogOK

LEMMA LogStep == VerdictsInv /\ LogOK /\ [Next]_vars => LogOK'
<1> SUFFICES ASSUME VerdictsInv, LogOK, [Next]_vars PROVE LogOK'
  OBVIOUS
<1>1. Steps
  BY EveryStep DEF VerdictsInv
<1>2. ASSUME UNCHANGED vars PROVE LogOK'
  <2>1. /\ pidStates' = pidStates /\ states' = states /\ count' = count /\ notes' = notes
        /\ recordIndex' = recordIndex /\ written' = written /\ unwatched' = unwatched
    BY <1>2 DEF vars
  <2>2. MemoryRows' = MemoryRows /\ Filed' = Filed
    BY <2>1, SameRecords, SameFiles
  <2> QED BY <2>1, <2>2 DEF LogOK
<1> QED BY <1>1, <1>2, ReportedLog, OperatedLog, QuietLog DEF Steps

-----------------------------------------------------------------------------
(***************************************************************************)
(* Every record is in the file once at most, and not in the cache then.    *)
(***************************************************************************)
RowsOnce(w) == \A i, j \in 1 .. Len(w) : w[i].event.id = w[j].event.id => i = j

IdsOf(events) == {g.id : g \in EventsOf(events)}

RowIdsOf(W) == {r.event.id : r \in W}

KeysApart(st) ==
    \A k, l \in LiveKeys(st) : k # l => IdsOf(st[k].events) \cap IdsOf(st[l].events) = {}

CachedApart(w, st) == \A k \in LiveKeys(st) : IdsOf(st[k].events) \cap RowIdsOf(RowsIn(w)) = {}

OnceOK == RowsOnce(written) /\ KeysApart(states) /\ CachedApart(written, states)

LEMMA RowsOnceJoin ==
    ASSUME NEW T, NEW v \in Seq(T), NEW w \in Seq(T), RowsOnce(v), RowsOnce(w),
           RowIdsOf(RowsIn(v)) \cap RowIdsOf(RowsIn(w)) = {}
    PROVE  RowsOnce(v \o w)
<1>1. /\ Len(v \o w) = Len(v) + Len(w) /\ Len(v) \in Nat /\ Len(w) \in Nat
      /\ \A i \in 1 .. Len(v) + Len(w) : (v \o w)[i] = IF i <= Len(v) THEN v[i] ELSE w[i - Len(v)]
  BY ConcatProperties
<1>2. PICK c : c = v \o w
  OBVIOUS
<1>3. \A i \in 1 .. Len(v), j \in 1 .. Len(w) : v[i].event.id # w[j].event.id
  BY DEF RowIdsOf, RowsIn
<1>4. ASSUME NEW i \in 1 .. Len(c), NEW j \in 1 .. Len(c), c[i].event.id = c[j].event.id PROVE i = j
  <2> DEFINE m == Len(v)
             n == Len(w)
  <2>1. m \in Nat /\ n \in Nat /\ i \in 1 .. m + n /\ j \in 1 .. m + n
    BY <1>1, <1>2
  <2>2. \A l \in 1 .. m + n : /\ l <= m => l \in 1 .. m /\ c[l] = v[l]
                              /\ ~(l <= m) => l - m \in 1 .. n /\ c[l] = w[l - m]
    BY <1>1, <1>2
  <2>3. CASE i <= m /\ j <= m
    <3>0. i \in 1 .. m /\ j \in 1 .. m /\ c[i] = v[i] /\ c[j] = v[j]
      BY <2>1, <2>2, <2>3
    <3>1. i \in 1 .. m /\ j \in 1 .. m /\ v[i].event.id = v[j].event.id
      BY <1>4, <3>0
    <3> QED BY <3>1 DEF RowsOnce
  <2>4. CASE ~(i <= m) /\ ~(j <= m)
    <3>0. i - m \in 1 .. n /\ j - m \in 1 .. n /\ c[i] = w[i - m] /\ c[j] = w[j - m]
      BY <2>1, <2>2, <2>4
    <3>1. i - m = j - m
      BY <1>4, <3>0 DEF RowsOnce
    <3> HIDE DEF m, n
    <3> QED BY <2>1, <3>1
  <2>5. CASE i <= m /\ ~(j <= m)
    BY <1>3, <1>4, <2>1, <2>2, <2>5
  <2>6. CASE ~(i <= m) /\ j <= m
    BY <1>3, <1>4, <2>1, <2>2, <2>6
  <2> QED BY <2>3, <2>4, <2>5, <2>6
<1> QED BY <1>2, <1>4 DEF RowsOnce

\* The rows of a block have the ids of its events.
LEMMA DumpIds ==
    ASSUME NEW s \in MemoryState, NEW note \in Note
    PROVE  /\ DumpMemoryState(s, note) \in Seq(MemoryRow \cup OperatorRow)
           /\ RowIdsOf(RowsIn(DumpMemoryState(s, note))) = IdsOf(s.events)
           /\ (\A i, j \in 1 .. Len(s.events) : i < j => s.events[i].id < s.events[j].id)
                 /\ (\A i \in 1 .. Len(s.events) : s.events[i].id \in Nat)
                 => RowsOnce(DumpMemoryState(s, note))
<1> DEFINE d == DumpMemoryState(s, note)
           n == Len(s.events)
<1>1. /\ d \in Seq(MemoryRow) /\ Len(d) = n
      /\ \A i \in 1 .. n : d[i].event = s.events[i]
  BY DumpedRows
<1>2. n \in Nat
  BY DEF MemoryState
<1> HIDE DEF d
<1>3. d \in Seq(MemoryRow \cup OperatorRow)
  BY <1>1
<1>4. RowIdsOf(RowsIn(d)) = IdsOf(s.events)
  <2>1. \A y \in RowIdsOf(RowsIn(d)) : \E i \in 1 .. n : y = s.events[i].id
    BY <1>1 DEF RowIdsOf, RowsIn
  <2>2. \A i \in 1 .. n : s.events[i].id \in RowIdsOf(RowsIn(d))
    BY <1>1 DEF RowIdsOf, RowsIn
  <2>3. IdsOf(s.events) = {s.events[i].id : i \in 1 .. n}
    BY DEF IdsOf, EventsOf
  <2> QED BY <2>1, <2>2, <2>3
<1>5. ASSUME \A i, j \in 1 .. n : i < j => s.events[i].id < s.events[j].id,
             \A i \in 1 .. n : s.events[i].id \in Nat
      PROVE  RowsOnce(d)
  <2> SUFFICES ASSUME NEW i \in 1 .. n, NEW j \in 1 .. n, s.events[i].id = s.events[j].id, i # j
               PROVE  FALSE
    BY <1>1 DEF RowsOnce
  <2>1. i < j \/ j < i
    BY <1>2
  <2>2. s.events[i].id < s.events[j].id \/ s.events[j].id < s.events[i].id
    BY <1>5, <2>1
  <2> HIDE DEF n
  <2> QED BY <1>5, <2>2
<1> QED BY <1>3, <1>4, <1>5 DEF d

\* The ids so far.
LEMMA IdsSoFar ==
    ASSUME LogOK
    PROVE  /\ RowIdsOf(RowsIn(written)) \subseteq 1 .. recordIndex
           /\ \A k \in LiveKeys(states) : IdsOf(states[k].events) \subseteq 1 .. recordIndex
<1>1. PICK log : IsLog(log, recordIndex, count, Filed)
  BY DEF LogOK
<1>2. \A y \in Filed : y.id \in 1 .. recordIndex
  BY <1>1 DEF IsLog
<1>3. ASSUME NEW r \in RowsIn(written) PROVE r.event.id \in 1 .. recordIndex
  <2>1. OfflineRow(r) \in Filed
    BY DEF Filed, Written, RowsIn
  <2>2. OfflineRow(r).id = r.event.id
    BY DEF OfflineRow
  <2> QED BY <1>2, <2>1, <2>2
<1>4. ASSUME NEW k \in LiveKeys(states), NEW g \in EventsOf(states[k].events)
      PROVE  g.id \in 1 .. recordIndex
  <2>1. RowOf(g, states[k].allocationId) \in Filed
    BY DEF Filed, RowsCached
  <2>2. RowOf(g, states[k].allocationId).id = g.id
    BY DEF RowOf
  <2> QED BY <1>2, <2>1, <2>2
<1> QED BY <1>3, <1>4 DEF RowIdsOf, IdsOf

LEMMA ReportedOnce ==
    ASSUME VerdictsInv, LogOK, OnceOK, NEW e, Reported(e)
    PROVE  OnceOK'
<1> DEFINE k == KeyOf(e)
           s == StateWith(states, count, e, k)
           d == DumpMemoryState(s, Noting(e))
           T == MemoryRow \cup OperatorRow
           n == recordIndex
<1>0. BaseInv
  BY DEF VerdictsInv
<1>1. /\ k \in MemoryStateKey /\ s \in MemoryState
      /\ \A j \in MemoryStateKey \ {k} : states'[j] = states[j]
      /\ states'[k] = (IF e.type = "FREE" THEN NoState ELSE s)
      /\ LiveKeys(states') = (IF e.type = "FREE" THEN LiveKeys(states) \ {k} ELSE LiveKeys(states) \cup {k})
      /\ Fresh(k) => s.events = <<e>>
      /\ ~Fresh(k) => s.events = Append(states[k].events, e)
  BY <1>0, ReportedCache
<1>2. written \in Seq(T) /\ Noting(e) \in Note /\ states \in StatesMap /\ e \in MemoryEvent /\ n \in Nat
      /\ e.id = n + 1
  BY <1>0 DEF BaseInv, TypeOK, Reported, Legal
<1>3. EventsOf(s.events) = IF Fresh(k) THEN {e} ELSE EventsAt(k) \cup {e}
  BY <1>0, ReportedRecords DEF RecordsGrow
<1>4. written' = IF e.type = "FREE" THEN written \o d ELSE written
  BY DEF Reported, Handled
<1> HIDE DEF s, k, T, n
<1>5. IdsOf(s.events) = {n + 1} \cup (IF Fresh(k) THEN {} ELSE IdsOf(states[k].events))
  BY <1>2, <1>3 DEF IdsOf, EventsAt
<1>6. Fresh(k) <=> k \notin LiveKeys(states)
  BY <1>1 DEF Fresh, LiveKeys
<1>7. /\ RowIdsOf(RowsIn(written)) \subseteq 1 .. n
      /\ \A l \in LiveKeys(states) : IdsOf(states[l].events) \subseteq 1 .. n
      /\ n + 1 \notin 1 .. n
  <2>1. n + 1 \notin 1 .. n
    BY <1>2
  <2> QED BY <2>1, IdsSoFar DEF n
<1>8. \A l \in LiveKeys(states) \ {k} : IdsOf(s.events) \cap IdsOf(states[l].events) = {}
  <2>1. \A l \in LiveKeys(states) \ {k} : ~Fresh(k) => IdsOf(states[k].events) \cap IdsOf(states[l].events) = {}
    BY <1>6 DEF OnceOK, KeysApart
  <2> QED BY <1>5, <1>7, <2>1
<1>9. IdsOf(s.events) \cap RowIdsOf(RowsIn(written)) = {}
  <2>1. ~Fresh(k) => IdsOf(states[k].events) \cap RowIdsOf(RowsIn(written)) = {}
    BY <1>6 DEF OnceOK, CachedApart
  <2> QED BY <1>5, <1>7, <2>1
<1>10. /\ d \in Seq(T) /\ RowIdsOf(RowsIn(d)) = IdsOf(s.events) /\ RowsOnce(d)
  <2>1. \A i \in 1 .. Len(s.events) : s.events[i].id \in Nat
    <3>1. s.events \in Seq(MemoryEvent)
      BY <1>1 DEF MemoryState
    <3>2. \A i \in 1 .. Len(s.events) : s.events[i] \in MemoryEvent
      BY <3>1
    <3> QED BY <3>2 DEF MemoryEvent
  <2>2. \A i, j \in 1 .. Len(s.events) : i < j => s.events[i].id < s.events[j].id
    <3>1. CASE Fresh(k)
      <4>1. s.events = <<e>>
        BY <1>1, <3>1
      <4>2. Len(s.events) = 1
        BY <4>1
      <4> QED BY <4>2
    <3>2. CASE ~Fresh(k)
      <4> DEFINE old == states[k].events
      <4>1. old \in Seq(MemoryEvent) /\ k \in LiveKeys(states)
        BY <1>2, <1>6, <3>2, LiveState
      <4>2. \A i, j \in 1 .. Len(old) : i < j => old[i].id < old[j].id
        BY <4>1 DEF VerdictsInv, BlocksOK, InBlock
      <4>3. \A i \in 1 .. Len(old) : old[i].id \in 1 .. n
        <5>1. \A i \in 1 .. Len(old) : old[i].id \in IdsOf(old)
          BY DEF IdsOf, EventsOf
        <5> QED BY <1>7, <4>1, <5>1
      <4> HIDE DEF old
      <4>4. PICK new : new = Append(old, e)
        OBVIOUS
      <4>5. /\ Len(new) = Len(old) + 1 /\ new[Len(old) + 1] = e /\ Len(old) \in Nat
            /\ \A i \in 1 .. Len(old) : new[i] = old[i]
        BY <1>2, <4>1, <4>4
      <4>6. ASSUME NEW i \in 1 .. Len(new), NEW j \in 1 .. Len(new), i < j PROVE new[i].id < new[j].id
        <5>1. i \in 1 .. Len(old)
          BY <4>5, <4>6
        <5>2. CASE j = Len(old) + 1
          <6>1. new[i].id \in 1 .. n /\ new[j].id = n + 1
            BY <1>2, <4>3, <4>5, <5>1, <5>2
          <6> QED BY <1>2, <6>1
        <5>3. CASE j # Len(old) + 1
          <6>1. j \in 1 .. Len(old)
            BY <4>5, <5>3
          <6> QED BY <4>2, <4>5, <4>6, <5>1, <6>1
        <5> QED BY <5>2, <5>3
      <4>7. s.events = new
        BY <1>1, <3>2, <4>4 DEF old
      <4> QED BY <4>6, <4>7
    <3> QED BY <3>1, <3>2
  <2> QED BY <1>1, <1>2, <2>1, <2>2, DumpIds DEF T
<1> HIDE DEF d
<1>11. CASE e.type = "FREE"
  <2>1. written' = written \o d
    BY <1>4, <1>11
  <2>2. RowsOnce(written \o d)
    BY <1>2, <1>9, <1>10, RowsOnceJoin DEF OnceOK
  <2>3. RowsIn(written \o d) = RowsIn(written) \cup RowsIn(d)
    BY <1>2, <1>10, RowsAfter
  <2>4. RowIdsOf(RowsIn(written \o d)) = RowIdsOf(RowsIn(written)) \cup IdsOf(s.events)
    BY <1>10, <2>3 DEF RowIdsOf
  <2>5. \A l \in LiveKeys(states') : l \in LiveKeys(states) \ {k} /\ states'[l] = states[l]
    BY <1>1, <1>11 DEF LiveKeys
  <2>6. KeysApart(states')
    BY <2>5 DEF OnceOK, KeysApart
  <2>7. CachedApart(written \o d, states')
    BY <1>8, <2>4, <2>5 DEF OnceOK, CachedApart
  <2> QED BY <2>1, <2>2, <2>6, <2>7 DEF OnceOK
<1>12. CASE e.type # "FREE"
  <2>1. written' = written
    BY <1>4, <1>12
  <2>2. \A l \in LiveKeys(states') : \/ l = k /\ states'[l] = s
                                     \/ l # k /\ l \in LiveKeys(states) \ {k} /\ states'[l] = states[l]
    BY <1>1, <1>12 DEF LiveKeys
  <2>3. KeysApart(states')
    <3> SUFFICES ASSUME NEW l \in LiveKeys(states'), NEW m \in LiveKeys(states'), l # m
                 PROVE  IdsOf(states'[l].events) \cap IdsOf(states'[m].events) = {}
      BY DEF KeysApart
    <3>1. CASE l # k /\ m # k
      BY <2>2, <3>1 DEF OnceOK, KeysApart
    <3>2. CASE l = k /\ m # k
      BY <1>8, <2>2, <3>2
    <3>3. CASE l # k /\ m = k
      BY <1>8, <2>2, <3>3
    <3> QED BY <3>1, <3>2, <3>3
  <2>4. CachedApart(written, states')
    BY <1>9, <2>2 DEF OnceOK, CachedApart
  <2> QED BY <2>1, <2>3, <2>4 DEF OnceOK
<1> QED BY <1>11, <1>12

-----------------------------------------------------------------------------
LEMMA OperatedOnce ==
    ASSUME BaseInv, LogOK, OnceOK, NEW p, NEW type, Operated(p, type)
    PROVE  OnceOK'
<1> DEFINE r == [event |-> [id |-> recordIndex + 1, type |-> type, pool |-> p]]
           T == MemoryRow \cup OperatorRow
           n == recordIndex
<1>1. written \in Seq(T) /\ written' = Append(written, r) /\ states' = states /\ n \in Nat
      /\ type \in {"START", "END"} /\ p \in Pools
  BY DEF BaseInv, TypeOK, Operated, AnalysedPools
<1>2. r \in T /\ r.event.id = n + 1
  BY <1>1 DEF OperatorRow, OperatorEvent
<1> HIDE DEF r, T, n
<1>3. PICK d : d = <<r>>
  OBVIOUS
<1>4. d \in Seq(T) /\ RowsIn(d) = {r} /\ RowsOnce(d)
  <2>1. d \in Seq(T)
    BY <1>2, <1>3
  <2>2. Len(d) = 1 /\ d[1] = r /\ 1 .. 1 = {1}
    BY <1>3
  <2> QED BY <2>1, <2>2 DEF RowsIn, RowsOnce
<1>5. written' = written \o d
  BY <1>1, <1>2, <1>3, AppendIsConcat
<1>6. RowIdsOf(RowsIn(d)) = {n + 1}
  BY <1>2, <1>4 DEF RowIdsOf
<1>7. /\ RowIdsOf(RowsIn(written)) \subseteq 1 .. n
      /\ \A l \in LiveKeys(states) : IdsOf(states[l].events) \subseteq 1 .. n
      /\ n + 1 \notin 1 .. n
  <2>1. n + 1 \notin 1 .. n
    BY <1>1
  <2> QED BY <2>1, IdsSoFar DEF n
<1>8. RowsOnce(written \o d)
  <2>1. RowIdsOf(RowsIn(written)) \cap RowIdsOf(RowsIn(d)) = {}
    BY <1>6, <1>7
  <2> QED BY <1>1, <1>4, <2>1, RowsOnceJoin DEF OnceOK
<1>9. RowIdsOf(RowsIn(written \o d)) = RowIdsOf(RowsIn(written)) \cup {n + 1}
  <2>1. RowsIn(written \o d) = RowsIn(written) \cup RowsIn(d)
    BY <1>1, <1>4, RowsAfter
  <2> QED BY <1>6, <2>1 DEF RowIdsOf
<1>10. CachedApart(written \o d, states)
  BY <1>7, <1>9 DEF OnceOK, CachedApart
<1> QED BY <1>1, <1>5, <1>8, <1>10 DEF OnceOK

\* The blocks that are cleaned up are written once.
LEMMA SweptOnce ==
    ASSUME VerdictsInv, OnceOK, Swept
    PROVE  OnceOK'
<1> DEFINE T == MemoryRow \cup OperatorRow
           L == LiveKeys(states)
<1>0. BaseInv /\ CleanUpAll /\ LiveKeys(states') = {}
  BY DEF VerdictsInv, Swept, EmptyMap, LiveKeys
<1>1. PICK n, keys, h : InTurn(n, keys, h)
  BY <1>0, CleanedInTurn
<1>2. /\ n \in Nat /\ keys \in [1 .. n -> L]
      /\ \A i, j \in 1 .. n : keys[i] = keys[j] => i = j
      /\ h[0] = written /\ h[n] = written'
      /\ \A i \in 1 .. n : h[i] = h[i - 1] \o DumpAt(keys[i])
  BY <1>1 DEF InTurn
<1>3. \A i \in 0 .. n : h[i] \in Seq(T)
  BY <1>1 DEF InTurn
<1>4. ASSUME NEW k \in L
      PROVE  /\ DumpAt(k) \in Seq(T) /\ RowsOnce(DumpAt(k))
             /\ RowIdsOf(RowsIn(DumpAt(k))) = IdsOf(states[k].events)
  <2>1. states[k] \in MemoryState /\ notes[k] \in Note /\ states[k].events \in Seq(MemoryEvent)
    <3>1. states \in StatesMap /\ notes \in [MemoryStateKey -> Note]
      BY <1>0 DEF BaseInv, TypeOK
    <3> QED BY <3>1, LiveState
  <2>2. /\ \A i, j \in 1 .. Len(states[k].events) : i < j => states[k].events[i].id < states[k].events[j].id
        /\ \A i \in 1 .. Len(states[k].events) : states[k].events[i].id \in Nat
    BY DEF VerdictsInv, BlocksOK, InBlock
  <2> QED BY <2>1, <2>2, DumpIds DEF DumpAt
<1> DEFINE So(m) == /\ RowsOnce(h[m])
                    /\ \A l \in L : (\A i \in 1 .. m : keys[i] # l)
                                      => IdsOf(states[l].events) \cap RowIdsOf(RowsIn(h[m])) = {}
           Q == {m \in 0 .. n : So(m)}
<1> HIDE DEF T, L
<1>5. 0 \in Q
  <2>1. 0 \in 0 .. n
    BY <1>2
  <2>2. RowsOnce(h[0]) /\ \A l \in L : IdsOf(states[l].events) \cap RowIdsOf(RowsIn(h[0])) = {}
    BY <1>2 DEF OnceOK, CachedApart, L
  <2> QED BY <2>1, <2>2
<1>6. ASSUME NEW m \in 1 .. n, m - 1 \in Q PROVE m \in Q
  <2> DEFINE k == keys[m]
             w == h[m - 1]
             d == DumpAt(k)
  <2>0. /\ m - 1 \in 0 .. n /\ m \in 0 .. n /\ m \notin 1 .. m - 1
        /\ \A i \in 1 .. m - 1 : i \in 1 .. m /\ i \in 1 .. n /\ i # m
    BY <1>2
  <2>1. k \in L /\ w \in Seq(T) /\ h[m] = w \o d /\ So(m - 1)
    BY <1>2, <1>3, <1>6, <2>0
  <2>2. d \in Seq(T) /\ RowsOnce(d) /\ RowIdsOf(RowsIn(d)) = IdsOf(states[k].events)
    BY <1>4, <2>1
  <2>3. \A i \in 1 .. m - 1 : keys[i] # k
    BY <1>2, <2>0
  <2>4. IdsOf(states[k].events) \cap RowIdsOf(RowsIn(w)) = {} /\ RowsOnce(w)
    BY <2>1, <2>3
  <2> HIDE DEF k, w, d
  <2>5. RowsOnce(w \o d)
    BY <2>1, <2>2, <2>4, RowsOnceJoin
  <2>6. RowIdsOf(RowsIn(w \o d)) = RowIdsOf(RowsIn(w)) \cup IdsOf(states[k].events)
    <3>1. RowsIn(w \o d) = RowsIn(w) \cup RowsIn(d)
      BY <2>1, <2>2, RowsAfter
    <3> QED BY <2>2, <3>1 DEF RowIdsOf
  <2>7. ASSUME NEW l \in L, \A i \in 1 .. m : keys[i] # l
        PROVE  IdsOf(states[l].events) \cap RowIdsOf(RowsIn(w \o d)) = {}
    <3>1. IdsOf(states[l].events) \cap RowIdsOf(RowsIn(w)) = {}
      BY <2>0, <2>1, <2>7 DEF w
    <3>2. l # k
      <4>1. m \in 1 .. m
        BY <1>2
      <4> QED BY <2>7, <4>1 DEF k
    <3>3. IdsOf(states[l].events) \cap IdsOf(states[k].events) = {}
      BY <2>1, <3>2 DEF OnceOK, KeysApart, L
    <3> QED BY <2>6, <3>1, <3>3
  <2>8. So(m)
    BY <2>1, <2>5, <2>7
  <2> HIDE DEF So
  <2> QED BY <2>0, <2>8
<1>7. RowsOnce(written')
  <2>1. n \in Q
    <3> HIDE DEF Q
    <3> QED BY <1>2, <1>5, <1>6, InductionTo
  <2> QED BY <1>2, <2>1
<1> QED BY <1>0, <1>7 DEF OnceOK, KeysApart, CachedApart

LEMMA OnceInit == Init => OnceOK
<1> SUFFICES ASSUME Init PROVE OnceOK
  OBVIOUS
<1>1. LiveKeys(states) = {} /\ Len(written) = 0 /\ 1 .. 0 = {}
  BY DEF Init, EmptyMap, LiveKeys
<1> QED BY <1>1 DEF OnceOK, RowsOnce, KeysApart, CachedApart

LEMMA OnceStep == VerdictsInv /\ LogOK /\ OnceOK /\ [Next]_vars => OnceOK'
<1> SUFFICES ASSUME VerdictsInv, LogOK, OnceOK, [Next]_vars PROVE OnceOK'
  OBVIOUS
<1>1. BaseInv /\ Steps
  BY EveryStep DEF VerdictsInv
<1>2. ASSUME written' = written, states' = states PROVE OnceOK'
  BY <1>2 DEF OnceOK, KeysApart, CachedApart, LiveKeys
<1>3. CASE Unreported \/ (\E k, class : Owned(k, class)) \/ Reconfigured \/ UNCHANGED vars
  BY <1>2, <1>3 DEF Unreported, Owned, Reconfigured, vars
<1> QED BY <1>1, <1>3, ReportedOnce, OperatedOnce, SweptOnce DEF Steps

\* Nothing is cached after the process has exited, and nothing happens any more.
ExitedOK == exited => LiveKeys(states) = {}

LEMMA ExitedInit == Init => ExitedOK
  BY DEF Init, ExitedOK

LEMMA ExitedStep == ExitedOK /\ [Next]_vars => ExitedOK'
<1> SUFFICES ASSUME ExitedOK, [Next]_vars, exited' PROVE LiveKeys(states') = {}
  BY DEF ExitedOK
<1>1. CASE Exit
  <2>1. states' = EmptyMap
    BY <1>1 DEF Exit, CleanUpAll
  <2> QED BY <2>1 DEF EmptyMap, LiveKeys
<1>2. CASE UNCHANGED vars
  <2>1. states' = states /\ exited' = exited
    BY <1>2 DEF vars
  <2> QED BY <2>1 DEF ExitedOK
<1>3. CASE ~Exit /\ Next
  <2>1. ~exited /\ exited' = exited
    BY <1>3 DEF Next, PoolMalloc, PoolFree, MemAccess, OperatorStart, OperatorEnd, OptimizerStep,
                SetTraceStatus, SetConfig, CanAct, Call, NoCall, Unswitched
  <2> QED BY <2>1
<1> QED BY <1>1, <1>2, <1>3

-----------------------------------------------------------------------------
(***************************************************************************)
(* The file in the order of its ids, and the analysis of it.               *)
(***************************************************************************)
\* As many rows as ids: each row comes at the place its id tells.
LEMMA PlacedById ==
    ASSUME NEW m \in Nat, NEW n \in Nat, NEW rows, DOMAIN rows = 1 .. m,
           \A i \in 1 .. m : rows[i].id \in 1 .. n,
           \A i, j \in 1 .. m : rows[i].id = rows[j].id => i = j,
           \A v \in 1 .. n : \E i \in 1 .. m : rows[i].id = v
    PROVE  m = n /\ \A i \in 1 .. m : Offline!Place(rows, i) = rows[i].id
<1> DEFINE f == [i \in 1 .. m |-> rows[i].id]
<1>1. m = n
  <2>1. f \in Bijection(1 .. m, 1 .. n)
    BY DEF Bijection, Injection, Surjection, IsInjective
  <2>2. /\ IsFiniteSet(1 .. m) /\ Cardinality(1 .. m) = m
        /\ IsFiniteSet(1 .. n) /\ Cardinality(1 .. n) = n
    <3>1. 1 \in Int /\ m \in Int /\ n \in Int
      OBVIOUS
    <3>2. Cardinality(1 .. m) = (IF 1 > m THEN 0 ELSE m - 1 + 1) /\ IsFiniteSet(1 .. m)
      BY <3>1, FS_Interval
    <3>3. Cardinality(1 .. n) = (IF 1 > n THEN 0 ELSE n - 1 + 1) /\ IsFiniteSet(1 .. n)
      BY <3>1, FS_Interval
    <3> QED BY <3>2, <3>3
  <2>3. Cardinality(1 .. m) = Cardinality(1 .. n)
    <3> HIDE DEF f
    <3> QED BY <2>1, <2>2, FS_Bijection DEF ExistsBijection
  <2> QED BY <2>2, <2>3
<1>2. ASSUME NEW i \in 1 .. m PROVE Offline!Place(rows, i) = rows[i].id
  <2> DEFINE v == rows[i].id
             S == {j \in DOMAIN rows : \/ rows[j].id < rows[i].id
                                       \/ rows[j].id = rows[i].id /\ j < i}
             g == [j \in S |-> rows[j].id]
  <2>1. v \in 1 .. n /\ v \in Nat /\ v >= 1
    OBVIOUS
  <2>2. S = {j \in 1 .. m : rows[j].id < v}
    <3>1. \A j \in 1 .. m : rows[j].id = rows[i].id => ~(j < i)
      OBVIOUS
    <3> QED BY <3>1
  <2>3. g \in Bijection(S, 1 .. v - 1)
    <3>1. \A j \in S : g[j] = rows[j].id /\ rows[j].id \in 1 .. v - 1 /\ j \in 1 .. m
      BY <2>1, <2>2
    <3>2. \A a \in 1 .. v - 1 : \E j \in S : rows[j].id = a
      <4> SUFFICES ASSUME NEW a \in 1 .. v - 1 PROVE \E j \in S : rows[j].id = a
        OBVIOUS
      <4>1. a \in 1 .. n /\ a < v
        BY <2>1
      <4>2. PICK j \in 1 .. m : rows[j].id = a
        BY <4>1
      <4> QED BY <2>2, <4>1, <4>2
    <3> DEFINE D == S
    <3>3. g \in [D -> 1 .. v - 1] /\ \A j \in D : g[j] = rows[j].id
      BY <3>1
    <3> HIDE DEF S, g, v
    <3>4. \A a, b \in S : g[a] = g[b] => a = b
      BY <3>1
    <3>5. \A a \in 1 .. v - 1 : \E j \in S : g[j] = a
      BY <3>1, <3>2
    <3> QED BY <3>3, <3>4, <3>5 DEF Bijection, Injection, Surjection, IsInjective
  <2> HIDE DEF g
  <2>4. IsFiniteSet(1 .. v - 1) /\ Cardinality(1 .. v - 1) = v - 1
    <3>1. v - 1 \in Int /\ 1 \in Int
      BY <2>1
    <3>2. Cardinality(1 .. v - 1) = (IF 1 > v - 1 THEN 0 ELSE (v - 1) - 1 + 1) /\ IsFiniteSet(1 .. v - 1)
      BY <3>1, FS_Interval
    <3> HIDE DEF v
    <3> QED BY <2>1, <3>2
  <2>5. Cardinality(S) = v - 1
    <3>1. IsFiniteSet(S)
      <4>1. IsFiniteSet(1 .. m)
        BY FS_Interval
      <4>2. S \subseteq 1 .. m
        BY <2>2
      <4> HIDE DEF S
      <4> QED BY <4>1, <4>2, FS_Subset
    <3> HIDE DEF S, v
    <3> QED BY <2>3, <2>4, <3>1, FS_Bijection DEF ExistsBijection
  <2>6. Offline!Place(rows, i) = 1 + Cardinality(S)
    <3>1. Offline!Cardinality(S) = Cardinality(S)
      BY DEF Offline!Cardinality, Cardinality
    <3> QED BY <3>1 DEF Offline!Place
  <2> HIDE DEF S, v
  <2>7. Offline!Place(rows, i) = v
    BY <2>1, <2>5, <2>6
  <2> QED BY <2>7 DEF v
<1> QED BY <1>1, <1>2

\* The rows of a file, each with an id of its own.
FileOf(rows, m, filed) ==
    /\ DOMAIN rows = 1 .. m /\ filed = {rows[i] : i \in 1 .. m}
    /\ \A i, j \in 1 .. m : rows[i].id = rows[j].id => i = j

LEMMA SortedLog ==
    ASSUME NEW m \in Nat, NEW n \in Nat, NEW c, NEW filed, NEW log, IsLog(log, n, c, filed),
           NEW rows, FileOf(rows, m, filed)
    PROVE  Offline!SortedById(rows) = log
<1>0. DOMAIN rows = 1 .. m /\ filed = {rows[i] : i \in 1 .. m}
  BY DEF FileOf
<1>7. \A i, j \in 1 .. m : rows[i].id = rows[j].id => i = j
  BY DEF FileOf
<1>1. log \in [1 .. n -> OfflineRows(c)] /\ (\A i \in 1 .. n : log[i].id = i) /\ filed = {log[i] : i \in 1 .. n}
  BY DEF IsLog
<1>2. \A i \in 1 .. m : rows[i].id \in 1 .. n /\ rows[i] = log[rows[i].id]
  <2>1. \A i \in 1 .. m : \E j \in 1 .. n : rows[i] = log[j]
    BY <1>0, <1>1
  <2> QED BY <1>1, <2>1
<1>3. \A v \in 1 .. n : \E i \in 1 .. m : rows[i].id = v
  <2>1. \A v \in 1 .. n : \E i \in 1 .. m : rows[i] = log[v]
    <3>1. \A v \in 1 .. n : log[v] \in {rows[i] : i \in 1 .. m}
      BY <1>0, <1>1
    <3> QED BY <3>1
  <2> QED BY <1>1, <2>1
<1>4. m = n /\ \A i \in 1 .. m : Offline!Place(rows, i) = rows[i].id
  <2>1. DOMAIN rows = 1 .. m
    BY <1>0
  <2>2. \A i \in 1 .. m : rows[i].id \in 1 .. n
    BY <1>2
  <2> QED BY <1>3, <1>7, <2>1, <2>2, PlacedById
<1>5. ASSUME NEW v \in 1 .. n
      PROVE  rows[CHOOSE i \in DOMAIN rows : Offline!Place(rows, i) = v] = log[v]
  <2> DEFINE k == CHOOSE i \in DOMAIN rows : Offline!Place(rows, i) = v
  <2>1. \E i \in DOMAIN rows : Offline!Place(rows, i) = v
    BY <1>0, <1>3, <1>4
  <2>2. k \in DOMAIN rows /\ Offline!Place(rows, k) = v
    BY <2>1
  <2> HIDE DEF k
  <2>3. rows[k] = log[v]
    BY <1>0, <1>2, <1>4, <2>2
  <2> QED BY <2>3 DEF k
<1>6. Offline!SortedById(rows) = [v \in 1 .. n |-> log[v]]
  <2>1. DOMAIN rows = 1 .. n
    BY <1>0, <1>4
  <2> QED BY <1>5, <2>1 DEF Offline!SortedById
<1> QED BY <1>1, <1>6

\* The fold of the analysis over a log is the state that the log reaches.
LEMMA FoldReaches ==
    ASSUME NEW c \in Nat, NEW n \in Nat, NEW log \in [1 .. n -> OfflineRows(c)], NEW x, Reaches(c, log, n, x)
    PROVE  Offline!FoldLeft(Offline!event_handle, Offline!InitialAnalysis(AnalysedPools, 0 .. c), log) = x
<1> DEFINE P == Analyses(c)
           L == OfflineRows(c)
           base == Offline!InitialAnalysis(AnalysedPools, 0 .. c)
           F == [z \in P \X L |-> Offline!event_handle(z[1], z[2])]
           Iterates(g) == g = [t \in SUBSET (1 .. Len(log)) |->
                                  IF t = {} THEN base
                                  ELSE Offline!event_handle(g[t \ {Largest(t)}], log[Largest(t)])]
           iter == CHOOSE g : Iterates(g)
           result == Offline!FoldLeft(Offline!event_handle, base, log)
<1>1. /\ log \in Seq(L) /\ Len(log) = n /\ DOMAIN log = 1 .. Len(log)
      /\ Len(log) \in Nat /\ \A i \in 1 .. Len(log) : log[i] \in L
  OBVIOUS
<1>2. base \in P
  BY FirstAnalysis
<1>3. \A z \in P, row \in L : Offline!event_handle(z, row) \in P
  BY EventHandled DEF HandlesRow
<1>4. result = iter[1 .. Len(log)]
  <2> HIDE DEF base
  <2> QED BY <1>1 DEF Offline!FoldLeft, Offline!MapThenFoldSet, Offline!Max, Largest
<1> HIDE DEF P, L, base, result
<1>5. F \in [P \X L -> P]
  BY <1>3
<1>6. \A z \in P, row \in L : F[<<z, row>>] = Offline!event_handle(z, row)
  OBVIOUS
<1> HIDE DEF F
<1>7. PICK g : g \in [SUBSET (1 .. Len(log)) -> P] /\ Unfolds(g, F, base, log)
  BY <1>1, <1>2, <1>5, FoldExists
<1>8. ASSUME NEW t \in SUBSET (1 .. Len(log)), t # {}
      PROVE  log[Largest(t)] \in L /\ t \ {Largest(t)} \in SUBSET (1 .. Len(log))
  <2>1. Largest(t) \in t
    BY <1>1, <1>8, LargestOf
  <2> QED BY <1>1, <2>1
<1>9. Iterates(g)
  <2>1. \A t \in SUBSET (1 .. Len(log)) :
           g[t] = IF t = {} THEN base ELSE Offline!event_handle(g[t \ {Largest(t)}], log[Largest(t)])
    BY <1>6, <1>7, <1>8 DEF Unfolds
  <2> QED BY <1>7, <2>1
<1>10. Iterates(iter)
  <2> HIDE DEF Iterates
  <2> QED BY <1>9
<1> HIDE DEF iter
<1>11. UnfoldsIn(P, iter, F, base, log)
  BY <1>6, <1>8, <1>10 DEF UnfoldsIn
<1> HIDE DEF Iterates
<1>12. PICK h : RunsIn(P, h, F, base, log, iter[1 .. Len(log)])
  BY <1>1, <1>2, <1>5, <1>11, FoldSteps
<1>13. h \in [0 .. n -> P] /\ h[0] = base /\ h[n] = result /\ \A i \in 1 .. n : h[i] = F[<<h[i - 1], log[i]>>]
  BY <1>1, <1>4, <1>12 DEF RunsIn
<1>14. PICK p \in [0 .. n -> P] : p[0] = base /\ p[n] = x /\ \A i \in 1 .. n : p[i] = Offline!event_handle(p[i - 1], log[i])
  BY DEF Reaches, base, P
<1> DEFINE Q == {i \in 0 .. n : h[i] = p[i]}
<1>15. 0 \in Q
  BY <1>13, <1>14
<1>16. ASSUME NEW i \in 1 .. n, i - 1 \in Q PROVE i \in Q
  <2>1. i \in 0 .. n /\ i - 1 \in 0 .. n
    OBVIOUS
  <2>2. h[i - 1] \in P /\ log[i] \in L /\ h[i - 1] = p[i - 1]
    BY <1>1, <1>13, <1>16, <2>1
  <2>3. h[i] = p[i]
    BY <1>6, <1>13, <1>14, <2>2
  <2> QED BY <2>1, <2>3
<1>17. n \in Q
  <2> HIDE DEF Q
  <2> QED BY <1>15, <1>16, InductionTo
<1>18. result = x
  BY <1>13, <1>14, <1>17
<1> QED BY <1>18 DEF result, base

-----------------------------------------------------------------------------
OfflineInv == VerdictsInv /\ LogOK /\ OnceOK /\ ExitedOK

LEMMA AgreesAtExit == OfflineInv => OfflineAgrees
<1> SUFFICES ASSUME OfflineInv, exited, ~unwatched,
                    NEW r \in MemoryRows, r.event.type = "MALLOC"
             PROVE  OfflineResults[r.allocationId] = r.verdicts
  BY DEF OfflineAgrees
<1> DEFINE n == recordIndex
           c == count
           m == Len(written)
           rows == [i \in 1 .. m |-> OfflineRow(written[i])]
<1>1. n \in Nat /\ c \in Nat /\ m \in Nat
  BY DEF OfflineInv, VerdictsInv, BaseInv, TypeOK
<1>2. PICK log : IsLog(log, n, c, Filed) /\ Follows(log, n, c, pidStates, states, notes, MemoryRows)
  BY DEF OfflineInv, LogOK
<1>3. PICK x : Reaches(c, log, n, x) /\ Agreement(x, c, c, pidStates, states, notes, MemoryRows)
  <2>1. c >= c
    BY <1>1
  <2> QED BY <1>1, <1>2, <2>1 DEF Follows
<1>4. /\ DOMAIN rows = 1 .. m /\ Filed = {rows[i] : i \in 1 .. m}
      /\ \A i \in 1 .. m : rows[i].id = written[i].event.id
  <2>1. LiveKeys(states) = {}
    BY DEF OfflineInv, ExitedOK
  <2>2. Filed = {OfflineRow(q) : q \in Written}
    BY <2>1 DEF Filed
  <2>3. DOMAIN rows = 1 .. m /\ \A i \in 1 .. m : rows[i] = OfflineRow(written[i])
    OBVIOUS
  <2>4. \A q : OfflineRow(q).id = q.event.id
    BY DEF OfflineRow
  <2> HIDE DEF rows
  <2>5. Filed = {rows[i] : i \in 1 .. m}
    BY <2>2, <2>3 DEF Written
  <2> QED BY <2>3, <2>4, <2>5
<1>5. \A i, j \in 1 .. m : rows[i].id = rows[j].id => i = j
  <2> HIDE DEF rows
  <2> QED BY <1>4 DEF OfflineInv, OnceOK, RowsOnce
<1> HIDE DEF rows
<1>6. Offline!SortedById(rows) = log
  <2>1. FileOf(rows, m, Filed)
    BY <1>4, <1>5 DEF FileOf
  <2> HIDE DEF m, n, c
  <2> QED BY <1>1, <1>2, <2>1, SortedLog
<1>7. Offline!FoldLeft(Offline!event_handle, Offline!InitialAnalysis(AnalysedPools, 0 .. c), log) = x
  <2>1. log \in [1 .. n -> OfflineRows(c)]
    BY <1>2 DEF IsLog
  <2> HIDE DEF n, c
  <2> QED BY <1>1, <1>3, <2>1, FoldReaches
<1>8. OfflineResults = x.results
  <2>1. OfflineResults = Offline!analyze(rows, AnalysedPools, 0 .. c)
    BY DEF OfflineResults, rows
  <2>2. Offline!analyze(rows, AnalysedPools, 0 .. c) =
           Offline!FoldLeft(Offline!event_handle, Offline!InitialAnalysis(AnalysedPools, 0 .. c),
                            Offline!SortedById(rows)).results
    BY DEF Offline!analyze
  <2> QED BY <1>6, <1>7, <2>1, <2>2
<1> QED BY <1>3, <1>8 DEF Agreement, RowsAgree

\* inefficient.py finds what inefficient_analyzer.cpp found: the file, written block by block and
\* put back in the order of its ids, gives every block the verdicts it was written with.
THEOREM OfflineConfirms == Spec => []OfflineAgrees
<1>1. Init => OfflineInv
  BY VerdictsInit, LogInit, OnceInit, ExitedInit DEF OfflineInv
<1>2. OfflineInv /\ [Next]_vars => OfflineInv'
  BY VerdictsStep, LogStep, OnceStep, ExitedStep DEF OfflineInv
<1> QED BY <1>1, <1>2, AgreesAtExit, PTL DEF Spec
======================================================================================
