----------------------------- MODULE MarksProofs -----------------------------
(***************************************************************************)
(* The marks, for every frame rate, every set of positions and addresses.  *)
(* Their times: the text of a mark is read back as the frame number it was *)
(* made from, unless the second begins in the middle of a frame; then it   *)
(* is read back as the next one.  The sort: when it ends the list is in    *)
(* order, and of a sorted list with one new node it makes what Shifted     *)
(* says.  The list: it stays sorted and free of duplicates, comments stay  *)
(* with their positions, a pointer drifts only as PointerDrift says, and   *)
(* the list implements the set of marks of MarkSet.  The files: for any    *)
(* number of processes, scans, saves, crashes and failing calls, whoever   *)
(* reads the marks of a recording meets a complete list, and what a        *)
(* process that is alone has saved stays saved.                            *)
(***************************************************************************)
EXTENDS MarkList, MarkSort, MarksFile, NumberTheorems, SequenceTheorems

-----------------------------------------------------------------------------
(* The times of the marks.                                                 *)

\* The text keeps the second: hours, minutes and seconds add up to it again.
LEMMA SecondsSplit ==
    ASSUME NEW s \in Nat
    PROVE  (s \div 3600) * 3600 + ((s \div 60) % 60) * 60 + (s % 60) = s
  OBVIOUS

\* The frame field and the rounded start of the second add up to the frame
\* number, whatever the second is: their two divisions round to opposite sides
\* of the same quotient.
LEMMA RoundedPlusFrame ==
    ASSUME NEW i \in Nat, NEW s \in Nat,
           NEW n \in Nat \ {0}, NEW d \in Nat \ {0}
    PROVE  LET r == [num |-> n, den |-> d] IN
             Rounded(s, r) + Frame(i, r, s) =
                 IF HalfFrame(s, r) THEN i + 1 ELSE i
  <1> DEFINE r == [num |-> n, den |-> d]
             p == s * n
             q == (2 * p + d) \div (2 * d)
             m == (2 * p + d) % (2 * d)
  <1>1. p \in Nat /\ 2 * d \in Nat \ {0}
    BY Z3
  <1>2. /\ q \in Int /\ m \in Int /\ 0 <= m /\ m < 2 * d
        /\ 2 * p + d = q * (2 * d) + m
    BY <1>1, Z3
  <1>3. Rounded(s, r) = q /\ (HalfFrame(s, r) <=> m = 0)
    BY DEF Rounded, HalfFrame
  <1>4. Frame(i, r, s) = ((2 * i + 1) * d - 2 * p) \div (2 * d)
    BY DEF Frame
  <1>5. (2 * i + 1) * d - 2 * p = (i + 1 - q) * (2 * d) - m
    <2>1. (2 * i + 1) * d = i * (2 * d) + d
      BY Z3
    <2>2. (i + 1 - q) * (2 * d) = i * (2 * d) + 2 * d - q * (2 * d)
      <3>1. q \in Int
        BY <1>2
      <3> HIDE DEF q
      <3> QED
        BY <3>1, Z3
    <2>3. (2 * i + 1) * d \in Int /\ i * (2 * d) \in Int /\ q * (2 * d) \in Int
      BY <1>2, Z3
    <2> HIDE DEF q, m, p
    <2> QED
      BY <1>1, <1>2, <2>1, <2>2, <2>3, Z3
  <1>6. CASE m = 0
    <2> DEFINE a == (i + 1 - q) * (2 * d)
    <2>1. a \in Int /\ i + 1 - q \in Int
      BY <1>1, <1>2, Z3
    <2>2. a \div (2 * d) = i + 1 - q
      <3>1. a <= a /\ a < a + 2 * d
        BY <1>1, <2>1
      <3> HIDE DEF q
      <3> QED
        BY <1>1, <2>1, <3>1, DivUnique
    <2>3. (2 * i + 1) * d - 2 * p = a
      BY <1>5, <1>6, <2>1
    <2> QED
      BY <1>2, <1>3, <1>4, <1>6, <2>2, <2>3
  <1>7. CASE m # 0
    <2> DEFINE a == (i + 1 - q) * (2 * d) - m
    <2>1. /\ (i - q) * (2 * d) + 2 * d = (i + 1 - q) * (2 * d)
          /\ a \in Int /\ i - q \in Int
      BY <1>1, <1>2, Z3
    <2>2. (i - q) * (2 * d) <= a /\ a < (i - q) * (2 * d) + 2 * d
      <3>1. (i - q) * (2 * d) \in Int /\ (i + 1 - q) * (2 * d) \in Int
        BY <1>1, <1>2, Z3
      <3> HIDE DEF q, m
      <3> QED
        BY <1>1, <1>2, <1>7, <2>1, <3>1, Z3
    <2>3. a \div (2 * d) = i - q
      <3> HIDE DEF a, q
      <3> QED
        BY <1>1, <2>1, <2>2, DivUnique
    <2> QED
      BY <1>2, <1>3, <1>4, <1>5, <1>7, <2>3
  <1> QED
    BY <1>6, <1>7

LEMMA SecondsNat ==
    ASSUME NEW i \in Nat, NEW r \in FrameRate
    PROVE  Seconds(i, r) \in Nat
  <1> DEFINE a == (2 * i + 1) * r.den
             b == 2 * r.num
  <1>1. a \in Nat /\ b \in Nat \ {0}
    <2>1. r.den \in Nat /\ 2 * i + 1 \in Nat /\ r.num \in Nat \ {0}
      BY DEF FrameRate
    <2> QED
      BY <2>1, Z3
  <1>2. a \div b \in Nat
    <2> HIDE DEF a, b
    <2> QED
      BY <1>1, Z3
  <1> QED
    BY <1>2 DEF Seconds

\* The second does not begin behind the middle of the frame.
LEMMA FrameNat ==
    ASSUME NEW i \in Nat, NEW r \in FrameRate
    PROVE  Frame(i, r, Seconds(i, r)) \in Nat
  <1> DEFINE a == (2 * i + 1) * r.den
             n == r.num
             d == r.den
             s == Seconds(i, r)
             b == a - 2 * (s * n)
  <1>1. n \in Nat \ {0} /\ d \in Nat \ {0}
    BY DEF FrameRate
  <1>2. a \in Nat /\ 2 * n \in Nat \ {0}
    BY <1>1, Z3
  <1>3. s = a \div (2 * n) /\ s \in Nat
    BY SecondsNat DEF Seconds
  <1>4. s * (2 * n) <= a
    <2> HIDE DEF a, n, s
    <2> QED
      BY <1>1, <1>2, <1>3, Z3
  <1>5. s * (2 * n) = 2 * (s * n) /\ s * n \in Nat
    <2> HIDE DEF n, s
    <2> QED
      BY <1>1, <1>3, Z3
  <1>6. b \in Nat
    <2> HIDE DEF a, n, s
    <2> QED
      BY <1>2, <1>4, <1>5
  <1>7. b \div (2 * d) \in Nat
    <2> HIDE DEF b, d
    <2> QED
      BY <1>1, <1>6, Z3
  <1> QED
    BY <1>7 DEF Frame

\* What is written into marks.vdr is a time.
LEMMA TextIsTime ==
    ASSUME NEW i \in Nat, NEW r \in FrameRate
    PROVE  IndexToHMSF(i, r) \in Time
  <1> DEFINE s == Seconds(i, r)
  <1>1. s \in Nat /\ Frame(i, r, s) \in Nat
    BY SecondsNat, FrameNat
  <1>2. s \div 3600 \in Nat /\ (s \div 60) % 60 \in 0..59 /\ s % 60 \in 0..59
    <2> HIDE DEF s
    <2> QED
      BY <1>1
  <1> QED
    BY <1>1, <1>2 DEF IndexToHMSF, Time

\* Save and Load are inverse to each other except in a second that begins in
\* the middle of a frame, where they add one frame.
THEOREM RoundTrip ==
    \A r \in FrameRate, i \in Nat :
        HMSFToIndex(IndexToHMSF(i, r), r) =
            IF HalfFrame(Seconds(i, r), r) THEN i + 1 ELSE i
  <1> SUFFICES ASSUME NEW r \in FrameRate, NEW i \in Nat
               PROVE  HMSFToIndex(IndexToHMSF(i, r), r) =
                          IF HalfFrame(Seconds(i, r), r) THEN i + 1 ELSE i
    OBVIOUS
  <1> DEFINE s == Seconds(i, r)
             t == IndexToHMSF(i, r)
  <1>1. /\ r = [num |-> r.num, den |-> r.den]
        /\ r.num \in Nat \ {0} /\ r.den \in Nat \ {0}
    BY DEF FrameRate
  <1>2. s \in Nat
    BY <1>1, SecondsNat
  <1>3. /\ t.h * 3600 + t.m * 60 + t.s = s
        /\ t.f = Frame(i, r, s)
    <2>1. /\ t.h = s \div 3600 /\ t.m = (s \div 60) % 60 /\ t.s = s % 60
          /\ t.f = Frame(i, r, s)
      BY DEF IndexToHMSF
    <2> HIDE DEF s, t
    <2> QED
      BY <1>2, <2>1, SecondsSplit
  <1>4. HMSFToIndex(t, r) = Rounded(s, r) + Frame(i, r, s)
    <2> HIDE DEF s, t
    <2> QED
      BY <1>3 DEF HMSFToIndex
  <1>5. Rounded(s, r) + Frame(i, r, s) = IF HalfFrame(s, r) THEN i + 1 ELSE i
    <2>1. \A n \in Nat \ {0}, d \in Nat \ {0} :
             r = [num |-> n, den |-> d] =>
                 Rounded(s, r) + Frame(i, r, s) =
                     IF HalfFrame(s, r) THEN i + 1 ELSE i
      <3> HIDE DEF s
      <3> QED
        BY <1>2, RoundedPlusFrame
    <2> HIDE DEF s
    <2> QED
      BY <1>1, <2>1
  <1> QED
    BY <1>4, <1>5

-----------------------------------------------------------------------------
(* The exchange sort: the inductive invariant.                             *)

SortTypeInv ==
    /\ given \in Seq(Node) /\ nodes \in Seq(Node) /\ Len(nodes) = Len(given)
    /\ m1 \in 0..Len(given) /\ m2 \in 0..Len(given)
    /\ m2 # 0 => m1 # 0 /\ m1 < m2

\* The nodes in front of m1 have their positions; that of m1 is not behind those
\* it has been compared with.
OrderInv ==
    /\ \A i, j \in 1..Len(given) :
          /\ i < j /\ (m1 = 0 \/ i < m1) => nodes[i].position <= nodes[j].position
          /\ i < j /\ i = m1 /\ (m2 = 0 \/ j < m2) => nodes[i].position <= nodes[j].position
    /\ CommentsStay(nodes)

OccurrencesInv ==
    \A p \in Pos : Cardinality(Occurrences(nodes, p)) = Cardinality(Occurrences(given, p))

\* How many nodes have been compared with the last one.
Rounds == IF m1 = 0 THEN Len(given) ELSE IF m2 = 0 THEN m1 ELSE m1 - 1

\* The node that position and comment of node i come from after d rounds over a
\* sorted list with one new node at the end that belongs in slot k.
Source(d, k, i) ==
    IF d < k \/ i < k THEN i
    ELSE IF i = k THEN Len(given)
    ELSE IF i <= d THEN i - 1
    ELSE IF i < Len(given) THEN i ELSE d

OldNodes == SubSeq(given, 1, Len(given) - 1)
NewNode == given[Len(given)]

AddInv ==
    Len(given) > 0 /\ StrictlySorted(OldNodes) =>
        \A k \in 1..Len(given) : Slot(OldNodes, NewNode.position, k) =>
            \A i \in 1..Len(given) :
                /\ nodes[i].position = given[Source(Rounds, k, i)].position
                /\ nodes[i].comment = given[Source(Rounds, k, i)].comment

\* Addresses and checked flags stay where they are.
NodesInv ==
    \A i \in 1..Len(given) :
        nodes[i].addr = given[i].addr /\ nodes[i].checked = given[i].checked

SortIInv == SortTypeInv /\ OrderInv /\ OccurrencesInv /\ AddInv /\ NodesInv

-----------------------------------------------------------------------------
(* The nodes.                                                              *)

LEMMA NodeSeq ==
    ASSUME NEW s \in Seq(Node)
    PROVE  /\ Len(s) \in Nat /\ DOMAIN s = 1..Len(s)
           /\ \A i \in 1..Len(s) :
                /\ s[i] \in Node /\ s[i].position \in Pos /\ s[i].position \in Nat
                /\ s[i].comment \in Pos \cup {None}
                /\ s[i] = [addr |-> s[i].addr, checked |-> s[i].checked,
                           position |-> s[i].position, comment |-> s[i].comment]
  <1>1. Len(s) \in Nat /\ DOMAIN s = 1..Len(s) /\ \A i \in 1..Len(s) : s[i] \in Node
    OBVIOUS
  <1>2. \A r \in Node : r.position \in Pos /\ r.comment \in Pos \cup {None}
    BY DEF Node
  <1>3. \A r \in Node : r = [addr |-> r.addr, checked |-> r.checked,
                             position |-> r.position, comment |-> r.comment]
    BY DEF Node
  <1> QED
    BY <1>1, <1>2, <1>3, MarkListAssumption

\* The nodes in front of the last one.
LEMMA OldNodesFacts ==
    ASSUME given \in Seq(Node), Len(given) > 0
    PROVE  /\ Len(OldNodes) = Len(given) - 1 /\ DOMAIN OldNodes = 1..(Len(given) - 1)
           /\ \A i \in 1..(Len(given) - 1) : i \in 1..Len(given) /\ OldNodes[i] = given[i]
  <1>1. Len(given) \in Nat
    BY NodeSeq
  <1>2. OldNodes = [i \in 1..(Len(given) - 1) |-> given[i]]
    BY <1>1 DEF OldNodes
  <1>3. Len(OldNodes) = Len(given) - 1
    <2>1. \A i \in 1..(Len(given) - 1) : given[i] \in Node
      BY <1>1, NodeSeq
    <2>2. Len(given) - 1 \in Nat /\ OldNodes \in [1..(Len(given) - 1) -> Node]
      BY <1>1, <1>2, <2>1
    <2> QED
      BY <2>2
  <1> QED
    BY <1>1, <1>2, <1>3

\* In a sorted list there is a slot for every position that is not in it.
LEMMA SlotExists ==
    ASSUME NEW s, NEW n \in Nat, Len(s) = n, DOMAIN s = 1..n,
           \A i \in 1..n : s[i].position \in Nat,
           StrictlySorted(s), NEW p \in Nat, p \notin Positions(s)
    PROVE  \E k \in 1..n + 1 : Slot(s, p, k)
  <1> DEFINE S == {i \in 1..n + 1 : i = n + 1 \/ p < s[i].position}
             k == Min(S)
  <1>1. S \in SUBSET Nat /\ S # {}
    <2>1. n + 1 \in S
      OBVIOUS
    <2> QED
      BY <2>1
  <1>2. k \in S /\ \A y \in S : k <= y
    <2> HIDE DEF S
    <2> QED
      BY <1>1, LeastElement
  <1>3. k \in 1..n + 1 /\ (k = n + 1 \/ p < s[k].position)
    BY <1>2
  <1>4. \A i \in 1..n : i < k => ~(p < s[i].position)
    <2> SUFFICES ASSUME NEW i \in 1..n, i < k, p < s[i].position
                 PROVE  FALSE
      OBVIOUS
    <2>1. i \in S
      OBVIOUS
    <2> HIDE DEF k, S
    <2> QED
      BY <1>2, <1>3, <2>1
  <1>5. \A i \in 1..n : p # s[i].position
    BY DEF Positions
  <1> HIDE DEF k
  <1>6. ASSUME NEW i \in 1..n
        PROVE  IF i < k THEN s[i].position < p ELSE p < s[i].position
    <2>1. s[i].position \in Nat /\ p # s[i].position
      BY <1>5
    <2>2. CASE i < k
      BY <2>1, <2>2, <1>4
    <2>3. CASE ~(i < k)
      <3>1. k \in 1..n /\ (k = i \/ k < i)
        BY <2>3, <1>3
      <3>2. p < s[k].position /\ s[k].position \in Nat
        BY <3>1, <1>3
      <3>3. k < i => s[k].position < s[i].position
        BY <3>1 DEF StrictlySorted
      <3> QED
        BY <2>1, <2>3, <3>1, <3>2, <3>3
    <2> QED
      BY <2>2, <2>3
  <1> QED
    BY <1>3, <1>6 DEF Slot

-----------------------------------------------------------------------------
(* What a comparison does.                                                 *)

Swap == nodes[m2].position < nodes[m1].position

LEMMA CompareFacts ==
    ASSUME SortTypeInv, Compare
    PROVE  /\ m1 \in 1..Len(given) /\ m2 \in 1..Len(given) /\ m1 < m2
           /\ given' = given /\ m1' = m1
           /\ m2' = IF m2 < Len(given) THEN m2 + 1 ELSE 0
           /\ nodes' \in Seq(Node) /\ Len(nodes') = Len(given)
           /\ \A i \in 1..Len(given) :
                /\ nodes'[i].position = IF Swap /\ i = m1 THEN nodes[m2].position
                                        ELSE IF Swap /\ i = m2 THEN nodes[m1].position
                                        ELSE nodes[i].position
                /\ nodes'[i].comment = IF Swap /\ i = m1 THEN nodes[m2].comment
                                       ELSE IF Swap /\ i = m2 THEN nodes[m1].comment
                                       ELSE nodes[i].comment
                /\ nodes'[i].addr = nodes[i].addr
                /\ nodes'[i].checked = nodes[i].checked
  <1> DEFINE n == Len(given)
             a == [nodes[m1] EXCEPT !.position = nodes[m2].position,
                                    !.comment = nodes[m2].comment]
             b == [nodes[m2] EXCEPT !.position = nodes[m1].position,
                                    !.comment = nodes[m1].comment]
  <1>1. /\ m1 \in 1..n /\ m2 \in 1..n /\ m1 < m2 /\ m1 # m2
        /\ given' = given /\ m1' = m1
        /\ m2' = IF m2 < n THEN m2 + 1 ELSE 0
    BY DEF SortTypeInv, Compare, NextOf
  <1>2. /\ nodes \in Seq(Node) /\ Len(nodes) = n /\ DOMAIN nodes = 1..n
        /\ n \in Nat /\ nodes[m1] \in Node /\ nodes[m2] \in Node
    BY <1>1, NodeSeq DEF SortTypeInv
  <1>3. /\ a \in Node /\ b \in Node
        /\ a.position = nodes[m2].position /\ a.comment = nodes[m2].comment
        /\ a.addr = nodes[m1].addr /\ a.checked = nodes[m1].checked
        /\ b.position = nodes[m1].position /\ b.comment = nodes[m1].comment
        /\ b.addr = nodes[m2].addr /\ b.checked = nodes[m2].checked
    BY <1>2 DEF Node
  <1>4. nodes' = IF Swap THEN [nodes EXCEPT ![m1] = a, ![m2] = b] ELSE nodes
    BY <1>1, <1>2 DEF Compare, Swap
  <1> HIDE DEF a, b
  <1>5. CASE Swap
    <2>1. nodes' = [nodes EXCEPT ![m1] = a, ![m2] = b]
      BY <1>4, <1>5
    <2>2. nodes' \in Seq(Node) /\ Len(nodes') = n
      BY <2>1, <1>1, <1>2, <1>3, ExceptSeq
    <2>3. \A i \in 1..n : nodes'[i] = IF i = m1 THEN a ELSE IF i = m2 THEN b ELSE nodes[i]
      BY <2>1, <1>1, <1>2
    <2> QED
      BY <2>2, <2>3, <1>1, <1>3, <1>5
  <1>6. CASE ~Swap
    BY <1>1, <1>2, <1>4, <1>6
  <1> QED
    BY <1>5, <1>6

LEMMA AdvanceFacts ==
    ASSUME SortTypeInv, Advance
    PROVE  /\ m1 \in 1..Len(given) /\ m2 = 0 /\ given' = given /\ nodes' = nodes
           /\ \/ m1 = Len(given) /\ m1' = 0 /\ m2' = 0
              \/ m1 + 1 = Len(given) /\ m1' = m1 + 1 /\ m2' = 0
              \/ m1 + 1 < Len(given) /\ m1' = m1 + 1 /\ m2' = m1 + 2
  BY NodeSeq DEF SortTypeInv, Advance, NextOf

-----------------------------------------------------------------------------
(* The conjuncts of the invariant, one by one.                             *)

LEMMA SortTypeStep ==
    ASSUME SortTypeInv, SortNext
    PROVE  SortTypeInv'
  <1>1. CASE Compare
    BY <1>1, CompareFacts DEF SortTypeInv
  <1>2. CASE Advance
    BY <1>2, AdvanceFacts, NodeSeq DEF SortTypeInv
  <1> QED
    BY <1>1, <1>2 DEF SortNext

LEMMA NodesStep ==
    ASSUME SortTypeInv, NodesInv, SortNext
    PROVE  NodesInv'
  <1>1. CASE Compare
    BY <1>1, CompareFacts DEF NodesInv
  <1>2. CASE Advance
    BY <1>2, AdvanceFacts DEF NodesInv
  <1> QED
    BY <1>1, <1>2 DEF SortNext

LEMMA OrderStep ==
    ASSUME SortTypeInv, OrderInv, SortNext
    PROVE  OrderInv'
  <1> DEFINE n == Len(given)
  <1>0. n \in Nat /\ \A i \in 1..n : nodes[i].position \in Nat
    BY NodeSeq DEF SortTypeInv
  <1>1. ASSUME Compare
        PROVE  OrderInv'
    <2>1. /\ m1 \in 1..n /\ m2 \in 1..n /\ m1 < m2 /\ given' = given /\ m1' = m1
          /\ m2' = IF m2 < n THEN m2 + 1 ELSE 0
          /\ nodes' \in Seq(Node) /\ Len(nodes') = n
          /\ \A i \in 1..n :
                nodes'[i].position = IF Swap /\ i = m1 THEN nodes[m2].position
                                     ELSE IF Swap /\ i = m2 THEN nodes[m1].position
                                     ELSE nodes[i].position
      BY <1>1, CompareFacts
    <2>2. ASSUME NEW i \in 1..n, NEW j \in 1..n, i < j, i < m1
          PROVE  nodes'[i].position <= nodes'[j].position
      <3>1. nodes'[i].position = nodes[i].position
        BY <2>1, <2>2
      <3>2. PICK h \in 1..n : i < h /\ nodes'[j].position = nodes[h].position
        BY <2>1, <2>2
      <3> QED
        BY <2>2, <3>1, <3>2 DEF OrderInv
    <2>3. ASSUME NEW j \in 1..n, m1 < j, j <= m2
          PROVE  nodes'[m1].position <= nodes'[j].position
      <3>1. CASE j = m2
        BY <2>1, <3>1, <1>0 DEF Swap
      <3>2. CASE j # m2
        <4>1. nodes[m1].position <= nodes[j].position
          BY <2>1, <2>3, <3>2 DEF OrderInv
        <4>2. nodes'[j].position = nodes[j].position
          BY <2>1, <2>3, <3>2
        <4>3. nodes'[m1].position <= nodes[m1].position
          BY <2>1, <1>0 DEF Swap
        <4>4. nodes'[m1].position \in Nat /\ nodes[m1].position \in Nat /\ nodes[j].position \in Nat
          BY <2>1, <1>0
        <4> QED
          BY <4>1, <4>2, <4>3, <4>4
      <3> QED
        BY <3>1, <3>2
    <2>4. CommentsStay(nodes')
      <3>1. DOMAIN nodes' = 1..n /\ DOMAIN nodes = 1..n
        BY <2>1, NodeSeq DEF SortTypeInv
      <3>2. \A i \in 1..n :
                nodes'[i].comment = IF Swap /\ i = m1 THEN nodes[m2].comment
                                    ELSE IF Swap /\ i = m2 THEN nodes[m1].comment
                                    ELSE nodes[i].comment
        BY <1>1, CompareFacts
      <3> QED
        BY <2>1, <3>1, <3>2 DEF OrderInv, CommentsStay
    <2> QED
      BY <2>1, <2>2, <2>3, <2>4 DEF OrderInv
  <1>2. ASSUME Advance
        PROVE  OrderInv'
    <2>1. /\ m1 \in 1..n /\ m2 = 0 /\ given' = given /\ nodes' = nodes
          /\ \/ m1 = n /\ m1' = 0 /\ m2' = 0
             \/ m1 + 1 = n /\ m1' = m1 + 1 /\ m2' = 0
             \/ m1 + 1 < n /\ m1' = m1 + 1 /\ m2' = m1 + 2
      BY <1>2, AdvanceFacts
    <2>2. \A i, j \in 1..n : i < j /\ i <= m1 => nodes[i].position <= nodes[j].position
      BY <2>1 DEF OrderInv
    <2> QED
      BY <1>0, <2>1, <2>2 DEF OrderInv
  <1> QED
    BY <1>1, <1>2 DEF SortNext

\* The swap of two nodes is a bijection between the places of a position before
\* and after it.
LEMMA OccurrencesStep ==
    ASSUME SortTypeInv, OccurrencesInv, SortNext
    PROVE  OccurrencesInv'
  <1> DEFINE n == Len(given)
  <1>1. ASSUME Compare, NEW p \in Pos
        PROVE  Cardinality(Occurrences(nodes', p)) = Cardinality(Occurrences(nodes, p))
    <2> DEFINE S == Occurrences(nodes, p)
               T == Occurrences(nodes', p)
               Other(i) == IF ~Swap THEN i
                           ELSE IF i = m1 THEN m2 ELSE IF i = m2 THEN m1 ELSE i
               f == [i \in S |-> Other(i)]
    <2>1. /\ m1 \in 1..n /\ m2 \in 1..n /\ m1 # m2
          /\ DOMAIN nodes = 1..n /\ DOMAIN nodes' = 1..n /\ n \in Nat
      BY <1>1, CompareFacts, NodeSeq DEF SortTypeInv
    <2>2. \A i \in 1..n : nodes'[Other(i)].position = nodes[i].position
      BY <1>1, <2>1, CompareFacts
    <2>3. \A i \in 1..n : Other(i) \in 1..n /\ Other(Other(i)) = i
      BY <2>1
    <2> HIDE DEF Other
    <2>4. \A i \in 1..n : i \in S <=> Other(i) \in T
      BY <2>1, <2>2, <2>3 DEF Occurrences
    <2>5. S \subseteq 1..n /\ T \subseteq 1..n
      BY <2>1 DEF Occurrences
    <2> HIDE DEF S, T
    <2>6. f \in Bijection(S, T)
      <3>1. f \in [S -> T]
        BY <2>4, <2>5
      <3>2. \A i, j \in S : f[i] = f[j] => i = j
        BY <2>3, <2>5
      <3>3. \A t \in T : \E i \in S : f[i] = t
        <4> SUFFICES ASSUME NEW t \in T PROVE \E i \in S : f[i] = t
          OBVIOUS
        <4>1. Other(t) \in S /\ f[Other(t)] = t
          BY <2>3, <2>4, <2>5
        <4> QED
          BY <4>1
      <3> HIDE DEF f
      <3> QED
        BY <3>1, <3>2, <3>3 DEF Bijection, Injection, IsInjective, Surjection
    <2>7. IsFiniteSet(S)
      <3>1. IsFiniteSet(1..n)
        BY <2>1, FS_Interval
      <3> QED
        BY <2>5, <3>1, FS_Subset
    <2> HIDE DEF f
    <2>8. Cardinality(S) = Cardinality(T)
      BY <2>6, <2>7, FS_Bijection DEF ExistsBijection
    <2> QED
      BY <2>8 DEF S, T
  <1>2. CASE Compare
    <2>1. given' = given
      BY <1>2, CompareFacts
    <2> QED
      BY <1>1, <1>2, <2>1 DEF OccurrencesInv
  <1>3. CASE Advance
    BY <1>3, AdvanceFacts DEF OccurrencesInv
  <1> QED
    BY <1>2, <1>3 DEF SortNext

\* A sorted list with one new node: what a round does to it.
LEMMA AddStep ==
    ASSUME SortTypeInv, AddInv, SortNext
    PROVE  AddInv'
  <1> DEFINE n == Len(given)
             p == NewNode.position
             Right(s, d, k) ==
                 \A i \in 1..n : /\ s[i].position = given[Source(d, k, i)].position
                                /\ s[i].comment = given[Source(d, k, i)].comment
  <1>0. n \in Nat /\ n > 0 /\ given' = given /\ OldNodes' = OldNodes /\ NewNode' = NewNode
        /\ \A i \in 1..n : given[i].position \in Nat
    <2>1. given' = given /\ m1 \in 1..n
      BY CompareFacts, AdvanceFacts DEF SortNext
    <2>2. OldNodes' = OldNodes /\ NewNode' = NewNode
      BY <2>1 DEF OldNodes, NewNode
    <2>3. n \in Nat /\ \A i \in 1..n : given[i].position \in Nat
      BY NodeSeq DEF SortTypeInv
    <2> QED
      BY <2>1, <2>2, <2>3
  <1> SUFFICES ASSUME StrictlySorted(OldNodes), NEW k \in 1..n, Slot(OldNodes, p, k)
               PROVE  Right(nodes', Rounds', k)
    BY <1>0 DEF AddInv, Source
  <1>1. Right(nodes, Rounds, k)
    BY <1>0 DEF AddInv
  <1>2. \A i, j \in 1..(n - 1) : i < j => given[i].position < given[j].position
    BY <1>0, OldNodesFacts DEF SortTypeInv, StrictlySorted
  <1>3. \A i \in 1..(n - 1) :
            IF i < k THEN given[i].position < p ELSE p < given[i].position
    BY <1>0, OldNodesFacts DEF SortTypeInv, Slot
  <1>4. p = given[n].position /\ p \in Nat
    BY <1>0 DEF NewNode
  <1>5. ASSUME Compare
        PROVE  Right(nodes', Rounds', k)
    <2> DEFINE d == m1 - 1
    <2>1. /\ m1 \in 1..n /\ m2 \in 1..n /\ m1 < m2 /\ m1' = m1
          /\ m2' = IF m2 < n THEN m2 + 1 ELSE 0
          /\ \A i \in 1..n :
                /\ nodes'[i].position = IF Swap /\ i = m1 THEN nodes[m2].position
                                        ELSE IF Swap /\ i = m2 THEN nodes[m1].position
                                        ELSE nodes[i].position
                /\ nodes'[i].comment = IF Swap /\ i = m1 THEN nodes[m2].comment
                                       ELSE IF Swap /\ i = m2 THEN nodes[m1].comment
                                       ELSE nodes[i].comment
      BY <1>5, CompareFacts
    <2>2. Rounds = d /\ Rounds' = IF m2 < n THEN d ELSE m1
      BY <1>0, <2>1 DEF Rounds
    <2>3. Right(nodes, d, k)
      BY <1>1, <2>2
    <2>4. Source(d, k, m1) = m1
      BY <1>0, <2>1 DEF Source
    <2>5. nodes[m1].position = given[m1].position
      BY <2>1, <2>3, <2>4
    <2>6. CASE m2 < n
      <3>1. Source(d, k, m2) = m2
        BY <1>0, <2>1, <2>6 DEF Source
      <3>2. nodes[m2].position = given[m2].position
        BY <2>1, <2>3, <3>1
      <3>3. ~Swap
        BY <1>0, <1>2, <2>1, <2>5, <2>6, <3>2 DEF Swap
      <3> QED
        BY <2>1, <2>2, <2>3, <2>6, <3>3
    <2>7. CASE m2 = n /\ m1 < k
      <3>1. \A i \in 1..n : Source(d, k, i) = i /\ Source(m1, k, i) = i
        BY <1>0, <2>1, <2>7 DEF Source
      <3>2. nodes[m2].position = p
        BY <1>4, <2>1, <2>3, <2>7, <3>1
      <3>3. ~Swap
        BY <1>0, <1>3, <1>4, <2>1, <2>5, <2>7, <3>2 DEF Swap
      <3> QED
        BY <2>1, <2>2, <2>3, <2>7, <3>1, <3>3
    <2>8. CASE m2 = n /\ m1 = k
      <3>1. /\ \A i \in 1..n : Source(d, k, i) = i
            /\ \A i \in 1..n : Source(m1, k, i) = IF i = m1 THEN n ELSE IF i = n THEN m1 ELSE i
        BY <1>0, <2>1, <2>8 DEF Source
      <3>2. nodes[m2].position = p
        BY <1>4, <2>1, <2>3, <2>8, <3>1
      <3>3. Swap
        BY <1>0, <1>3, <1>4, <2>1, <2>5, <2>8, <3>2 DEF Swap
      <3> QED
        BY <2>1, <2>2, <2>3, <2>8, <3>1, <3>3
    <2>9. CASE m2 = n /\ k < m1
      <3>1. /\ Source(d, k, n) = d
            /\ \A i \in 1..n : Source(m1, k, i) = IF i = m1 THEN d ELSE IF i = n THEN m1
                                                  ELSE Source(d, k, i)
        BY <1>0, <2>1, <2>9 DEF Source
      <3>2. nodes[m2].position = given[d].position
        BY <2>1, <2>3, <2>9, <3>1
      <3>3. Swap
        <4>1. given[d].position < given[m1].position
          BY <1>0, <1>2, <2>1, <2>9
        <4> QED
          BY <2>5, <3>2, <4>1 DEF Swap
      <3> QED
        BY <2>1, <2>2, <2>3, <2>4, <2>9, <3>1, <3>3
    <2> QED
      BY <1>0, <2>1, <2>6, <2>7, <2>8, <2>9
  <1>6. ASSUME Advance
        PROVE  Right(nodes', Rounds', k)
    <2>1. /\ m1 \in 1..n /\ m2 = 0 /\ nodes' = nodes
          /\ \/ m1 = n /\ m1' = 0 /\ m2' = 0
             \/ m1 + 1 = n /\ m1' = m1 + 1 /\ m2' = 0
             \/ m1 + 1 < n /\ m1' = m1 + 1 /\ m2' = m1 + 2
      BY <1>6, AdvanceFacts
    <2>2. Rounds = m1
      BY <2>1 DEF Rounds
    <2>3. Rounds' = m1 \/ (m1 + 1 = n /\ Rounds' = n)
      BY <1>0, <2>1 DEF Rounds
    <2>4. m1 + 1 = n => \A i \in 1..n : Source(m1, k, i) = Source(n, k, i)
      BY <1>0, <2>1 DEF Source
    <2> QED
      BY <1>1, <2>1, <2>2, <2>3, <2>4
  <1> QED
    BY <1>5, <1>6 DEF SortNext

LEMMA SortInitIInv ==
    ASSUME SortInit
    PROVE  SortIInv
  <1>0. PICK n \in 0..MaxLen :
            \E pos \in [1..n -> Pos], chk \in [1..n -> BOOLEAN] :
                given = [i \in 1..n |-> [addr |-> Address[i], position |-> pos[i],
                                        comment |-> pos[i], checked |-> chk[i]]]
    BY DEF SortInit
  <1>1. PICK pos \in [1..n -> Pos], chk \in [1..n -> BOOLEAN] :
            given = [i \in 1..n |-> [addr |-> Address[i], position |-> pos[i],
                                    comment |-> pos[i], checked |-> chk[i]]]
    BY <1>0
  <1>2. n \in Nat /\ n <= MaxLen
    BY MaxLenAssumption
  <1>3. \A i \in 1..n : Address[i] \in Addr
    <2>1. Address \in [1..MaxLen -> Addr]
      BY MaxLenAssumption DEF Address
    <2> QED
      BY <1>2, <2>1, MaxLenAssumption
  <1>4. given \in [1..n -> Node]
    <2>1. \A i \in 1..n : [addr |-> Address[i], position |-> pos[i],
                           comment |-> pos[i], checked |-> chk[i]] \in Node
      <3> TAKE i \in 1..n
      <3>1. Address[i] \in Addr /\ pos[i] \in Pos
        BY <1>3
      <3>2. chk[i] \in BOOLEAN
        OBVIOUS
      <3> HIDE DEF Address
      <3> QED
        BY <3>1, <3>2 DEF Node
    <2> QED
      BY <1>1, <2>1
  <1>5. given \in Seq(Node) /\ Len(given) = n
    BY <1>2, <1>4
  <1>6. /\ nodes = given
        /\ m1 = (IF n = 0 THEN 0 ELSE 1)
        /\ m2 = (IF n > 1 THEN 2 ELSE 0)
    <2>1. given = <<>> <=> n = 0
      BY <1>2, <1>4, <1>5
    <2> QED
      BY <1>5, <2>1 DEF SortInit
  <1>7. SortTypeInv
    BY <1>2, <1>5, <1>6 DEF SortTypeInv
  <1>8. OrderInv
    <2>1. \A i \in 1..n : given[i].comment = given[i].position
      BY <1>1
    <2>2. CommentsStay(nodes)
      BY <1>4, <1>6, <2>1 DEF CommentsStay
    <2> QED
      BY <1>2, <1>5, <1>6, <2>2 DEF OrderInv
  <1>9. OccurrencesInv /\ NodesInv
    BY <1>6 DEF OccurrencesInv, NodesInv
  <1>10. AddInv
    <2>1. \A k, i \in 1..n : Source(Rounds, k, i) = i
      BY <1>2, <1>5, <1>6 DEF Source, Rounds
    <2> QED
      BY <1>5, <1>6, <2>1 DEF AddInv
  <1> QED
    BY <1>7, <1>8, <1>9, <1>10 DEF SortIInv

LEMMA SortIInvHolds == SortSpec => []SortIInv
  <1>1. SortIInv /\ [SortNext]_sortVars => SortIInv'
    <2> SUFFICES ASSUME SortIInv, [SortNext]_sortVars
                 PROVE  SortIInv'
      OBVIOUS
    <2>1. CASE SortNext
      BY <2>1, SortTypeStep, OrderStep, OccurrencesStep, AddStep, NodesStep DEF SortIInv
    <2>2. CASE UNCHANGED sortVars
      BY <2>2 DEF sortVars, SortIInv, SortTypeInv, OrderInv, OccurrencesInv, Occurrences,
                  CommentsStay, AddInv, OldNodes, NewNode, Rounds, Source, NodesInv
    <2> QED
      BY <2>1, <2>2
  <1> QED
    BY SortInitIInv, <1>1, PTL DEF SortSpec

\* When the sort has come to its end, the list is in order: the positions grow,
\* each as often as before and with its comment (cMarks::Sort, vdr_cl.cpp,
\* 941-954).
THEOREM SortInOrder == SortSpec => [](Sorted => InOrder)
  <1>1. SortIInv => (Sorted => InOrder)
    <2> SUFFICES ASSUME SortIInv, m1 = 0
                 PROVE  InOrder
      BY DEF Sorted
    <2>1. DOMAIN nodes = 1..Len(given)
      BY NodeSeq DEF SortIInv, SortTypeInv
    <2> QED
      BY <2>1 DEF SortIInv, OrderInv, OccurrencesInv, InOrder
  <1> QED
    BY <1>1, SortIInvHolds, PTL

\* On a sorted list with one new node at the end the sort does what Shifted says,
\* which the module MarkList relies on (cMarks::Add, vdr_cl.cpp, 900-954).
THEOREM AddIsShiftHolds == SortSpec => []AddIsShift
  <1>1. SortIInv => AddIsShift
    <2> DEFINE n == Len(given)
               p == NewNode.position
    <2> SUFFICES ASSUME SortIInv, m1 = 0, n > 0, StrictlySorted(OldNodes),
                        p \notin Positions(OldNodes), ~NewNode.checked
                 PROVE  \E k \in 1..n :
                           /\ Slot(OldNodes, p, k)
                           /\ nodes = [Shifted(OldNodes, k, p, NewNode.addr)
                                         EXCEPT ![k].comment = NewNode.comment]
      BY DEF AddIsShift, Sorted, OldNodes, NewNode
    <2>1. /\ n \in Nat /\ given \in Seq(Node) /\ nodes \in Seq(Node) /\ Len(nodes) = n
          /\ DOMAIN nodes = 1..n
      BY NodeSeq DEF SortIInv, SortTypeInv
    <2>2. /\ Len(OldNodes) = n - 1 /\ DOMAIN OldNodes = 1..(n - 1) /\ n - 1 \in Nat
          /\ \A i \in 1..(n - 1) : i \in 1..n /\ OldNodes[i] = given[i]
      <3>1. n > 0 /\ n - 1 \in Nat
        BY <2>1
      <3> QED
        BY <2>1, <3>1, OldNodesFacts
    <2>3. PICK k \in 1..n : Slot(OldNodes, p, k)
      <3>1. p \in Nat /\ \A i \in 1..(n - 1) : OldNodes[i].position \in Nat
        <4>1. \A i \in 1..n : given[i].position \in Nat
          BY <2>1, NodeSeq
        <4>2. n \in 1..n
          BY <2>1
        <4> QED
          BY <2>2, <4>1, <4>2 DEF NewNode
      <3>2. \E k \in 1..(n - 1) + 1 : Slot(OldNodes, p, k)
        BY <2>2, <3>1, SlotExists
      <3> QED
        BY <2>1, <3>2
    <2> DEFINE t == Shifted(OldNodes, k, p, NewNode.addr)
               u == [t EXCEPT ![k].comment = NewNode.comment]
    <2>4. \A i \in 1..n :
            /\ nodes[i].position = given[Source(n, k, i)].position
            /\ nodes[i].comment = given[Source(n, k, i)].comment
      <3>1. Rounds = n
        BY DEF Rounds
      <3> QED
        BY <2>3, <3>1 DEF SortIInv, AddInv
    <2>5. \A i \in 1..n : Source(n, k, i) = IF i < k THEN i ELSE IF i = k THEN n ELSE i - 1
      BY <2>1 DEF Source
    <2>6. \A i \in 1..n :
            /\ i < k => i \in 1..(n - 1)
            /\ ~(i < k) /\ i # k => i - 1 \in 1..(n - 1)
            /\ i <= n - 1 => i \in 1..(n - 1)
            /\ ~(i <= n - 1) => i = n
            /\ ~(k < k)
      <3>1. n \in Nat
        BY <2>1
      <3> HIDE DEF n
      <3> QED
        BY <3>1
    <2>7. DOMAIN t = 1..n /\ DOMAIN u = 1..n
      <3>1. 1..Len(OldNodes) + 1 = 1..n
        BY <2>1, <2>2
      <3> QED
        BY <3>1 DEF Shifted
    <2>8. ASSUME NEW i \in 1..n
          PROVE  nodes[i] = u[i]
      <3> DEFINE a == IF i <= n - 1 THEN OldNodes[i].addr ELSE NewNode.addr
                 c == IF i <= n - 1 THEN OldNodes[i].checked ELSE FALSE
                 q == IF i < k THEN OldNodes[i].position
                      ELSE IF i = k THEN p ELSE OldNodes[i - 1].position
                 m == IF i < k THEN OldNodes[i].comment
                      ELSE IF i = k THEN NewNode.comment ELSE OldNodes[i - 1].comment
      <3>1. u[i] = [addr |-> a, checked |-> c, position |-> q, comment |-> m]
        <4>1. t[i] = [addr |-> a, checked |-> c, position |-> q,
                      comment |-> IF i < k THEN OldNodes[i].comment
                                  ELSE IF i = k THEN None ELSE OldNodes[i - 1].comment]
          BY <2>2, <2>7 DEF Shifted
        <4> HIDE DEF t, a, c, q
        <4>2. CASE i = k
          <5>1. u[i] = [t[i] EXCEPT !.comment = NewNode.comment]
            BY <2>7, <4>2
          <5> QED
            BY <4>1, <4>2, <5>1
        <4>3. CASE i # k
          <5>1. u[i] = t[i]
            BY <2>7, <4>3
          <5> QED
            BY <4>1, <4>3, <5>1
        <4> QED
          BY <4>2, <4>3
      <3>2. nodes[i].addr = a /\ nodes[i].checked = c
        <4>1. nodes[i].addr = given[i].addr /\ nodes[i].checked = given[i].checked
          BY DEF SortIInv, NodesInv
        <4>2. CASE i <= n - 1
          BY <2>2, <2>6, <4>1, <4>2, Zenon
        <4>3. CASE ~(i <= n - 1)
          <5>1. given[i] = NewNode /\ (given[i].checked = FALSE)
            BY <2>1, <2>6, <4>3, NodeSeq DEF NewNode, Node
          <5> QED
            BY <4>1, <4>3, <5>1, Zenon
        <4> QED
          BY <4>2, <4>3
      <3>3. nodes[i].position = q /\ nodes[i].comment = m
        <4>1. /\ nodes[i].position = given[Source(n, k, i)].position
              /\ nodes[i].comment = given[Source(n, k, i)].comment
              /\ Source(n, k, i) = IF i < k THEN i ELSE IF i = k THEN n ELSE i - 1
          BY <2>4, <2>5
        <4>2. CASE i < k
          <5>1. Source(n, k, i) = i /\ OldNodes[i] = given[i]
            BY <2>2, <2>6, <4>1, <4>2
          <5> QED
            BY <4>1, <4>2, <5>1
        <4>3. CASE i = k
          <5>1. Source(n, k, i) = n /\ ~(i < k)
            BY <2>6, <4>1, <4>3
          <5> QED
            BY <4>1, <4>3, <5>1 DEF NewNode
        <4>4. CASE ~(i < k) /\ i # k
          <5>1. Source(n, k, i) = i - 1 /\ OldNodes[i - 1] = given[i - 1]
            BY <2>2, <2>6, <4>1, <4>4
          <5> QED
            BY <4>1, <4>4, <5>1
        <4> QED
          BY <4>2, <4>3, <4>4
      <3>4. nodes[i] = [addr |-> nodes[i].addr, checked |-> nodes[i].checked,
                        position |-> nodes[i].position, comment |-> nodes[i].comment]
        BY <2>1, NodeSeq
      <3> HIDE DEF a, c, q, m, u
      <3> QED
        BY <3>1, <3>2, <3>3, <3>4, Zenon
    <2>9. nodes = u
      <3>1. nodes = [i \in 1..n |-> nodes[i]]
        BY <2>1
      <3>2. u = [i \in 1..n |-> u[i]]
        <4>1. t = [i \in DOMAIN t |-> t[i]]
          BY DEF Shifted
        <4> HIDE DEF t
        <4> QED
          BY <2>7, <4>1
      <3> HIDE DEF u
      <3> QED
        BY <2>8, <3>1, <3>2
    <2> QED
      BY <2>3, <2>9
  <1> QED
    BY <1>1, SortIInvHolds, PTL

-----------------------------------------------------------------------------
(* The list of marks: the inductive invariant.                             *)

\* A list as the operations keep it, and a file as they write it.
GoodList(s) ==
    s \in Seq(Node) /\ StrictlySorted(s) /\ CommentsStay(s) /\ DistinctAddrs(s)

GoodFile(f) ==
    /\ f \in Seq(Line)
    /\ StrictlySorted(Parsed(f)) /\ CommentsStay(Parsed(f))
    /\ Positions(Parsed(f)) \subseteq Pos

\* The inductive invariant.
IInv ==
    /\ GoodList(list) /\ GoodFile(file)
    /\ last \in [out : SUBSET Pos, in : SUBSET Pos]

-----------------------------------------------------------------------------
(* What the operators on lists return.                                     *)

LEMMA GoodListFacts ==
    ASSUME NEW s, GoodList(s)
    PROVE  /\ Len(s) \in Nat /\ DOMAIN s = 1..Len(s)
           /\ \A i \in 1..Len(s) :
                /\ s[i] \in Node /\ s[i].addr \in Addr
                /\ s[i].position \in Pos /\ s[i].position \in Int
                /\ s[i].comment \in {None, s[i].position}
                /\ s[i].checked \in BOOLEAN
           /\ Positions(s) \subseteq Pos
  <1>1. Len(s) \in Nat /\ DOMAIN s = 1..Len(s)
    BY DEF GoodList
  <1>2. \A i \in 1..Len(s) : s[i] \in Node
    BY DEF GoodList
  <1>3. Pos \subseteq Int
    BY MarkListAssumption
  <1>4. \A i \in 1..Len(s) :
          /\ s[i].addr \in Addr /\ s[i].position \in Pos
          /\ s[i].checked \in BOOLEAN
    BY <1>2 DEF Node
  <1>5. \A i \in 1..Len(s) : s[i].comment \in {None, s[i].position}
    BY <1>1 DEF GoodList, CommentsStay
  <1>6. Positions(s) \subseteq Pos
    BY <1>1, <1>4 DEF Positions
  <1> QED
    BY <1>1, <1>2, <1>3, <1>4, <1>5, <1>6

\* Del keeps a list good and takes out exactly one position.
LEMMA WithoutGood ==
    ASSUME NEW s, GoodList(s), NEW k \in 1..Len(s)
    PROVE  /\ GoodList(Without(s, k))
           /\ Len(Without(s, k)) = Len(s) - 1
           /\ Positions(Without(s, k)) = Positions(s) \ {s[k].position}
  <1> DEFINE t == Without(s, k)
  <1>1. Len(s) \in Nat /\ DOMAIN s = 1..Len(s) /\ s \in Seq(Node)
    BY GoodListFacts DEF GoodList
  <1>2. t \in Seq(Node) /\ Len(t) = Len(s) - 1 /\ DOMAIN t = 1..Len(s) - 1
    <2>1. \A i \in 1..Len(s) - 1 : (IF i < k THEN s[i] ELSE s[i + 1]) \in Node
      BY <1>1, GoodListFacts
    <2>2. Len(s) - 1 \in Nat
      BY <1>1
    <2>3. t \in [1..Len(s) - 1 -> Node]
      BY <2>1 DEF Without
    <2> QED
      BY <2>2, <2>3
  <1>3. \A i \in 1..Len(s) - 1 : t[i] = IF i < k THEN s[i] ELSE s[i + 1]
    BY DEF Without
  <1>4. StrictlySorted(t)
    <2> SUFFICES ASSUME NEW i \in 1..Len(s) - 1, NEW j \in 1..Len(s) - 1, i < j
                 PROVE  t[i].position < t[j].position
      BY <1>2 DEF StrictlySorted
    <2>1. \A x, y \in 1..Len(s) : x < y => s[x].position < s[y].position
      BY <1>1 DEF GoodList, StrictlySorted
    <2>2. CASE j < k
      BY <2>1, <2>2, <1>1, <1>3
    <2>3. CASE i < k /\ ~(j < k)
      <3>1. i \in 1..Len(s) /\ j + 1 \in 1..Len(s) /\ i < j + 1
        BY <1>1
      <3> QED
        BY <3>1, <2>1, <2>3, <1>3
    <2>4. CASE ~(i < k)
      <3>1. /\ i + 1 \in 1..Len(s) /\ j + 1 \in 1..Len(s) /\ i + 1 < j + 1
            /\ ~(j < k)
        BY <2>4, <1>1
      <3> QED
        BY <3>1, <2>1, <2>4, <1>3
    <2> QED
      BY <2>2, <2>3, <2>4, <1>1
  <1>5. CommentsStay(t)
    BY <1>1, <1>2, <1>3, GoodListFacts DEF CommentsStay
  <1>6. DistinctAddrs(t)
    BY <1>1, <1>2, <1>3 DEF GoodList, DistinctAddrs
  <1>7. Positions(t) = Positions(s) \ {s[k].position}
    <2>1. ASSUME NEW x \in Positions(t)
          PROVE  x \in Positions(s) \ {s[k].position}
      <3>1. PICK i \in 1..Len(s) - 1 : x = t[i].position
        BY <2>1, <1>2 DEF Positions
      <3>2. PICK j \in 1..Len(s) : j # k /\ x = s[j].position
        BY <3>1, <1>1, <1>3
      <3> QED
        BY <3>2, <1>1, GoodListFacts DEF Positions, GoodList, StrictlySorted
    <2>2. ASSUME NEW x \in Positions(s) \ {s[k].position}
          PROVE  x \in Positions(t)
      <3>1. PICK j \in 1..Len(s) : x = s[j].position /\ j # k
        BY <2>2, <1>1 DEF Positions
      <3>2. CASE j < k
        <4>1. j \in 1..Len(s) - 1 /\ t[j].position = x
          BY <3>1, <3>2, <1>1, <1>3
        <4> QED
          BY <4>1, <1>2 DEF Positions
      <3>3. CASE j > k
        <4>1. j - 1 \in 1..Len(s) - 1 /\ ~(j - 1 < k) /\ (j - 1) + 1 = j
          BY <3>3, <1>1
        <4>2. t[j - 1].position = x
          BY <4>1, <3>1, <1>3
        <4> QED
          BY <4>1, <4>2, <1>2 DEF Positions
      <3> QED
        BY <3>1, <3>2, <3>3, <1>1
    <2> QED
      BY <2>1, <2>2
  <1> QED
    BY <1>2, <1>4, <1>5, <1>6, <1>7 DEF GoodList

\* Add of a new position keeps a list good and puts in exactly this position.
LEMMA ShiftedGood ==
    ASSUME NEW s, GoodList(s), NEW p \in Pos, NEW k, Slot(s, p, k),
           NEW a \in Addr \ Addrs(s)
    PROVE  /\ GoodList(Shifted(s, k, p, a))
           /\ Positions(Shifted(s, k, p, a)) = Positions(s) \cup {p}
  <1> DEFINE t == Shifted(s, k, p, a)
             n == Len(s)
  <1>1. n \in Nat /\ DOMAIN s = 1..n /\ k \in 1..n + 1 /\ p \in Int
    BY GoodListFacts, MarkListAssumption DEF Slot
  <1>2. \A i \in 1..n + 1 :
            /\ t[i].addr = IF i <= n THEN s[i].addr ELSE a
            /\ t[i].position = IF i < k THEN s[i].position
                               ELSE IF i = k THEN p ELSE s[i - 1].position
            /\ t[i].comment = IF i < k THEN s[i].comment
                              ELSE IF i = k THEN None ELSE s[i - 1].comment
    BY DEF Shifted
  <1>3. \A i \in 1..n + 1 :
            /\ i < k => i \in 1..n
            /\ i > k => i - 1 \in 1..n
            /\ ~(i <= n) => i = n + 1
    BY <1>1
  <1>4. \A i \in 1..n + 1 : t[i] \in Node
    <2> TAKE i \in 1..n + 1
    <2>1. t[i].addr \in Addr
      BY <1>1, <1>2, GoodListFacts
    <2>4. t[i].checked \in BOOLEAN
      <3>1. t[i].checked = IF i <= n THEN s[i].checked ELSE FALSE
        BY DEF Shifted
      <3>2. CASE i <= n
        <4>1. i \in 1..n
          BY <3>2, <1>1
        <4>2. s[i].checked \in BOOLEAN
          BY <4>1, GoodListFacts
        <4> QED
          BY <3>1, <3>2, <4>2, Zenon
      <3>3. CASE ~(i <= n)
        BY <3>1, <3>3, Zenon
      <3> QED
        BY <3>2, <3>3
    <2>2. t[i].position \in Pos /\ t[i].comment \in Pos \cup {None}
      <3>1. CASE i < k
        BY <3>1, <1>1, <1>2, <1>3, GoodListFacts
      <3>2. CASE i = k
        BY <3>2, <1>1, <1>2
      <3>3. CASE i > k
        <4>1. i - 1 \in 1..n /\ ~(i < k) /\ i # k
          BY <3>3, <1>1, <1>3
        <4> QED
          BY <4>1, <1>2, GoodListFacts
      <3> QED
        BY <3>1, <3>2, <3>3, <1>1
    <2>3. t[i] = [addr |-> t[i].addr, checked |-> t[i].checked,
                  position |-> t[i].position, comment |-> t[i].comment]
      BY DEF Shifted
    <2> QED
      BY <2>1, <2>2, <2>3, <2>4 DEF Node
  <1>5. t \in Seq(Node) /\ Len(t) = n + 1 /\ DOMAIN t = 1..n + 1
    <2>1. n + 1 \in Nat
      BY <1>1
    <2>2. t = [i \in 1..n + 1 |-> t[i]]
      BY DEF Shifted
    <2>3. t \in [1..n + 1 -> Node]
      BY <1>4, <2>2
    <2> QED
      BY <2>1, <2>3
  <1>6. StrictlySorted(t)
    <2> SUFFICES ASSUME NEW i \in 1..n + 1, NEW j \in 1..n + 1, i < j
                 PROVE  t[i].position < t[j].position
      BY <1>5 DEF StrictlySorted
    <2>1. \A x, y \in 1..n : x < y => s[x].position < s[y].position
      BY <1>1 DEF GoodList, StrictlySorted
    <2>2. \A x \in 1..n : IF x < k THEN s[x].position < p ELSE p < s[x].position
      BY DEF Slot
    <2>3. \A x \in 1..n : s[x].position \in Int
      BY GoodListFacts
    <2>4. CASE j < k
      BY <2>1, <2>4, <1>1, <1>2, <1>3
    <2>5. CASE j = k
      BY <2>2, <2>5, <1>1, <1>2, <1>3
    <2>6. CASE j > k /\ i = k
      <3>1. j - 1 \in 1..n /\ ~(j - 1 < k)
        BY <2>6, <1>1
      <3> QED
        BY <3>1, <2>2, <2>6, <1>1, <1>2
    <2>7. CASE j > k /\ i < k
      <3>1. j - 1 \in 1..n /\ ~(j - 1 < k) /\ i \in 1..n
        BY <2>7, <1>1
      <3>2. s[i].position < p /\ p < s[j - 1].position
        BY <3>1, <2>2, <2>7
      <3> QED
        BY <3>1, <3>2, <2>3, <2>7, <1>1, <1>2
    <2>8. CASE j > k /\ i > k
      <3>1. i - 1 \in 1..n /\ j - 1 \in 1..n /\ i - 1 < j - 1
        BY <2>8, <1>1
      <3> QED
        BY <3>1, <2>1, <2>8, <1>1, <1>2
    <2> QED
      BY <2>4, <2>5, <2>6, <2>7, <2>8, <1>1
  <1>7. CommentsStay(t)
    <2> SUFFICES ASSUME NEW i \in 1..n + 1
                 PROVE  t[i].comment \in {None, t[i].position}
      BY <1>5 DEF CommentsStay
    <2>1. CASE i < k
      BY <2>1, <1>1, <1>2, <1>3, GoodListFacts
    <2>2. CASE i = k
      BY <2>2, <1>1, <1>2
    <2>3. CASE i > k
      <3>1. i - 1 \in 1..n /\ ~(i < k) /\ i # k
        BY <2>3, <1>1, <1>3
      <3> QED
        BY <3>1, <1>2, GoodListFacts
    <2> QED
      BY <2>1, <2>2, <2>3, <1>1
  <1>8. DistinctAddrs(t)
    <2>1. \A i \in 1..n : s[i].addr # a
      BY <1>1 DEF Addrs
    <2> QED
      BY <2>1, <1>1, <1>2, <1>3, <1>5 DEF GoodList, DistinctAddrs
  <1>9. Positions(t) = Positions(s) \cup {p}
    <2>1. ASSUME NEW i \in 1..n + 1
          PROVE  t[i].position \in Positions(s) \cup {p}
      <3>1. CASE i < k
        BY <3>1, <1>1, <1>2, <1>3 DEF Positions
      <3>2. CASE i = k
        BY <3>2, <1>1, <1>2
      <3>3. CASE i > k
        <4>1. i - 1 \in 1..n /\ t[i].position = s[i - 1].position
          BY <3>3, <1>1, <1>2, <1>3
        <4> QED
          BY <4>1, <1>1 DEF Positions
      <3> QED
        BY <3>1, <3>2, <3>3, <1>1
    <2>2. p \in Positions(t)
      BY <1>1, <1>2, <1>5 DEF Positions
    <2>3. ASSUME NEW i \in 1..n
          PROVE  s[i].position \in Positions(t)
      <3>1. CASE i < k
        <4>1. i \in 1..n + 1 /\ t[i].position = s[i].position
          BY <3>1, <1>1, <1>2
        <4> QED
          BY <4>1, <1>5 DEF Positions
      <3>2. CASE ~(i < k)
        <4>1. i + 1 \in 1..n + 1 /\ ~(i + 1 < k) /\ i + 1 # k /\ (i + 1) - 1 = i
          BY <3>2, <1>1
        <4>2. t[i + 1].position = s[i].position
          BY <4>1, <1>2
        <4> QED
          BY <4>1, <4>2, <1>5 DEF Positions
      <3> QED
        BY <3>1, <3>2
    <2> QED
      BY <2>1, <2>2, <2>3, <1>1, <1>5 DEF Positions
  <1> QED
    BY <1>5, <1>6, <1>7, <1>8, <1>9 DEF GoodList

\* A comment changes neither the order nor the positions nor the addresses.
LEMMA CommentedGood ==
    ASSUME NEW s, GoodList(s), NEW p \in Pos
    PROVE  /\ GoodList(Commented(s, p))
           /\ Positions(Commented(s, p)) = Positions(s)
           /\ DOMAIN Commented(s, p) = DOMAIN s
           /\ \A i \in DOMAIN s :
                /\ Commented(s, p)[i].addr = s[i].addr
                /\ Commented(s, p)[i].position = s[i].position
  <1> DEFINE t == Commented(s, p)
             n == Len(s)
  <1>1. n \in Nat /\ DOMAIN s = 1..n
    BY GoodListFacts
  <1>2. \A i \in 1..n :
            /\ t[i] \in Node
            /\ t[i].addr = s[i].addr /\ t[i].position = s[i].position
            /\ t[i].comment \in {None, t[i].position}
    <2> TAKE i \in 1..n
    <2>1. s[i] \in Node /\ s[i].comment \in {None, s[i].position}
      BY GoodListFacts
    <2>2. t[i] = IF s[i].position = p THEN [s[i] EXCEPT !.comment = p] ELSE s[i]
      BY DEF Commented
    <2> QED
      BY <2>1, <2>2 DEF Node
  <1>3. t \in Seq(Node) /\ Len(t) = n /\ DOMAIN t = 1..n
    <2>1. t = [i \in 1..n |-> t[i]]
      BY DEF Commented
    <2>2. t \in [1..n -> Node]
      BY <1>2, <2>1
    <2> QED
      BY <1>1, <2>2
  <1>4. StrictlySorted(t) /\ CommentsStay(t) /\ DistinctAddrs(t)
    BY <1>1, <1>2, <1>3
       DEF GoodList, StrictlySorted, CommentsStay, DistinctAddrs
  <1>5. Positions(t) = Positions(s)
    BY <1>1, <1>2, <1>3 DEF Positions
  <1> QED
    BY <1>1, <1>2, <1>3, <1>4, <1>5 DEF GoodList

\* cMarks::Add, and the comment the caller may then write.
LEMMA AddResultsGood ==
    ASSUME NEW s, GoodList(s), NEW p \in Pos, NEW t \in AddResults(s, p),
           NEW u \in {t, Commented(t, p)}
    PROVE  GoodList(u) /\ Positions(u) = Positions(s) \cup {p}
  <1>1. GoodList(t) /\ Positions(t) = Positions(s) \cup {p}
    <2>1. CASE p \in Positions(s)
      BY <2>1 DEF AddResults
    <2>2. CASE p \notin Positions(s)
      <3>1. PICK k \in {j \in 1..Len(s) + 1 : Slot(s, p, j)},
                 a \in Addr \ Addrs(s) : t = Shifted(s, k, p, a)
        BY <2>2 DEF AddResults
      <3> QED
        BY <3>1, ShiftedGood
    <2> QED
      BY <2>1, <2>2
  <1> QED
    BY <1>1, CommentedGood

\* What Save writes is read back as it was.
LEMMA LinesGood ==
    ASSUME NEW s, NEW n \in Nat, DOMAIN s = 1..n,
           \A i \in 1..n : s[i].position \in Pos,
           StrictlySorted(s), CommentsStay(s)
    PROVE  GoodFile(Lines(s)) /\ Positions(Parsed(Lines(s))) = Positions(s)
  <1> DEFINE t == Lines(s)
             u == Parsed(t)
  <1>1. \A p \in Pos : /\ IndexToHMSF(p, Rate) \in Time
                       /\ HMSFToIndex(IndexToHMSF(p, Rate), Rate) = p
    BY MarkListAssumption, RoundTrip, TextIsTime
  <1>2. \A i \in 1..n :
            /\ t[i] \in Line
            /\ t[i].time = IndexToHMSF(s[i].position, Rate)
            /\ t[i].comment = s[i].comment
    BY <1>1 DEF Lines, Line, CommentsStay
  <1>3. t \in Seq(Line) /\ DOMAIN t = 1..n
    <2>1. t \in [1..n -> Line]
      BY <1>2 DEF Lines
    <2> QED
      BY <2>1
  <1>4. /\ DOMAIN u = 1..n
        /\ \A i \in 1..n : /\ u[i].position = s[i].position
                           /\ u[i].comment = s[i].comment
    BY <1>1, <1>2, <1>3 DEF Parsed
  <1>5. StrictlySorted(u) /\ CommentsStay(u)
    BY <1>4 DEF StrictlySorted, CommentsStay
  <1>6. Positions(u) = Positions(s) /\ Positions(s) \subseteq Pos
    BY <1>4 DEF Positions
  <1> QED
    BY <1>3, <1>5, <1>6 DEF GoodFile

LEMMA SavedGood ==
    ASSUME NEW s, GoodList(s)
    PROVE  GoodFile(Lines(s)) /\ Positions(Parsed(Lines(s))) = Positions(s)
  <1>1. Len(s) \in Nat /\ DOMAIN s = 1..Len(s)
    BY GoodListFacts
  <1> QED
    BY <1>1, GoodListFacts, LinesGood DEF GoodList

-----------------------------------------------------------------------------
(* Pointers.                                                               *)

\* Every other node survives Del as it is.
LEMMA WithoutKeeps ==
    ASSUME NEW s, GoodList(s), NEW k \in 1..Len(s), NEW i \in 1..Len(s), i # k
    PROVE  \E j \in DOMAIN Without(s, k) : Without(s, k)[j] = s[i]
  <1>1. Len(s) \in Nat
    BY GoodListFacts
  <1>2. CASE i < k
    <2>1. i \in 1..Len(s) - 1
      BY <1>1, <1>2
    <2> QED
      BY <2>1, <1>2 DEF Without
  <1>3. CASE i > k
    <2>1. i - 1 \in 1..Len(s) - 1 /\ ~(i - 1 < k) /\ (i - 1) + 1 = i
      BY <1>1, <1>3
    <2> QED
      BY <2>1 DEF Without
  <1> QED
    BY <1>2, <1>3, <1>1

\* Del moves no pointer.
LEMMA WithoutDrift ==
    ASSUME NEW s, GoodList(s), NEW k \in 1..Len(s), NEW in
    PROVE  Drift(s, Without(s, k), {s[k].position}, in)
  <1> DEFINE t == Without(s, k)
  <1> SUFFICES ASSUME NEW i \in DOMAIN s, NEW j \in DOMAIN t,
                      s[i].addr = t[j].addr, s[i].position # s[k].position
               PROVE  t[j].position = s[i].position
    BY DEF Drift
  <1>1. i \in 1..Len(s) /\ i # k
    BY GoodListFacts
  <1>2. PICK h \in DOMAIN t : t[h] = s[i]
    BY <1>1, WithoutKeeps
  <1>3. h = j
    BY <1>2, WithoutGood DEF GoodList, DistinctAddrs
  <1> QED
    BY <1>2, <1>3

\* Add of p moves pointers down, and none below p.
LEMMA ShiftedDrift ==
    ASSUME NEW s, GoodList(s), NEW p \in Pos, NEW k, Slot(s, p, k),
           NEW a \in Addr \ Addrs(s)
    PROVE  Drift(s, Shifted(s, k, p, a), {}, {p})
  <1> DEFINE t == Shifted(s, k, p, a)
             n == Len(s)
  <1> SUFFICES ASSUME NEW i \in DOMAIN s, NEW j \in DOMAIN t,
                      s[i].addr = t[j].addr
               PROVE  \/ t[j].position = s[i].position
                      \/ t[j].position < s[i].position /\ p <= t[j].position
    BY DEF Drift
  <1>1. /\ n \in Nat /\ DOMAIN s = 1..n /\ k \in 1..n + 1 /\ p \in Int
        /\ DOMAIN t = 1..n + 1
    BY GoodListFacts, MarkListAssumption DEF Slot, Shifted
  <1>2. j \in 1..n /\ i \in 1..n
    <2>1. \A x \in 1..n : s[x].addr # a
      BY <1>1 DEF Addrs
    <2>2. t[j].addr = IF j <= n THEN s[j].addr ELSE a
      BY <1>1 DEF Shifted
    <2> QED
      BY <2>1, <2>2, <1>1
  <1>3. i = j
    <2>1. t[j].addr = s[j].addr
      BY <1>1, <1>2 DEF Shifted
    <2> QED
      BY <2>1, <1>1, <1>2 DEF GoodList, DistinctAddrs
  <1>4. t[i].position = IF i < k THEN s[i].position
                        ELSE IF i = k THEN p ELSE s[i - 1].position
    BY <1>1, <1>2, <1>3 DEF Shifted
  <1>5. CASE i < k
    BY <1>3, <1>4, <1>5
  <1>6. CASE i = k
    <2>1. p < s[i].position
      BY <1>1, <1>2, <1>6 DEF Slot
    <2> QED
      BY <2>1, <1>1, <1>3, <1>4, <1>6
  <1>7. CASE i > k
    <2>1. i - 1 \in 1..n /\ ~(i - 1 < k) /\ i - 1 < i
      BY <1>1, <1>2, <1>7
    <2>2. p < s[i - 1].position /\ s[i - 1].position < s[i].position
      BY <2>1, <1>1, <1>2 DEF Slot, GoodList, StrictlySorted
    <2>3. s[i - 1].position \in Int
      BY <2>1, GoodListFacts
    <2> QED
      BY <2>2, <2>3, <1>1, <1>2, <1>3, <1>4, <1>7
  <1> QED
    BY <1>5, <1>6, <1>7, <1>1, <1>2

\* Add and the comment after it.
LEMMA AddResultsDrift ==
    ASSUME NEW s, GoodList(s), NEW p \in Pos, NEW t \in AddResults(s, p),
           NEW u \in {t, Commented(t, p)}
    PROVE  Drift(s, u, {}, {p})
  <1>1. GoodList(t)
    BY AddResultsGood
  <1>2. Drift(s, t, {}, {p})
    <2>1. CASE p \in Positions(s)
      <3>1. t = s
        BY <2>1 DEF AddResults
      <3> QED
        BY <3>1 DEF Drift, GoodList, DistinctAddrs
    <2>2. CASE p \notin Positions(s)
      <3>1. PICK k \in {j \in 1..Len(s) + 1 : Slot(s, p, j)},
                 a \in Addr \ Addrs(s) : t = Shifted(s, k, p, a)
        BY <2>2 DEF AddResults
      <3> QED
        BY <3>1, ShiftedDrift
    <2> QED
      BY <2>1, <2>2
  <1>3. /\ DOMAIN u = DOMAIN t
        /\ \A i \in DOMAIN t : u[i].addr = t[i].addr
                               /\ u[i].position = t[i].position
    BY <1>1, CommentedGood
  <1> QED
    BY <1>2, <1>3 DEF Drift

-----------------------------------------------------------------------------
(* One lemma per operation: it keeps the invariant, does to the set of     *)
(* positions what MarkSet says, and moves pointers only as Drift allows.   *)

StepGood == IInv' /\ Drift(list, list', last'.out, last'.in)

AbsVars == Abstract!svars

LEMMA ToggleOffStep ==
    ASSUME IInv, NEW p \in Pos, ToggleOff(p)
    PROVE  StepGood /\ Abstract!Toggle(p)
  <1>1. PICK k \in 1..Len(list) :
            list[k].position = p /\ list' = Without(list, k)
    BY DEF ToggleOff
  <1>2. file' = Lines(list') /\ last' = [out |-> {p}, in |-> {}]
    BY DEF ToggleOff
  <1>3. GoodList(list') /\ Positions(list') = Positions(list) \ {p}
    BY <1>1, WithoutGood DEF IInv
  <1>4. GoodFile(file') /\ Positions(Parsed(file')) = Positions(list')
    BY <1>2, <1>3, SavedGood
  <1>5. p \in Positions(list)
    BY <1>1, GoodListFacts DEF IInv, Positions
  <1>6. Drift(list, list', last'.out, last'.in)
    BY <1>1, <1>2, WithoutDrift DEF IInv
  <1>7. IInv'
    BY <1>2, <1>3, <1>4 DEF IInv
  <1> QED
    BY <1>3, <1>4, <1>5, <1>6, <1>7 DEF StepGood, Abstract!Toggle

LEMMA ToggleOnStep ==
    ASSUME IInv, NEW p \in Pos, ToggleOn(p)
    PROVE  StepGood /\ Abstract!Toggle(p)
  <1>1. PICK t \in AddResults(list, p) : list' \in {t, Commented(t, p)}
    BY DEF ToggleOn
  <1>2. /\ file' = Lines(list') /\ last' = [out |-> {}, in |-> {p}]
        /\ p \notin Positions(list)
    BY DEF ToggleOn
  <1>3. GoodList(list') /\ Positions(list') = Positions(list) \cup {p}
    BY <1>1, AddResultsGood DEF IInv
  <1>4. GoodFile(file') /\ Positions(Parsed(file')) = Positions(list')
    BY <1>2, <1>3, SavedGood
  <1>5. Drift(list, list', last'.out, last'.in)
    BY <1>1, <1>2, AddResultsDrift DEF IInv
  <1>6. IInv'
    BY <1>2, <1>3, <1>4 DEF IInv
  <1> QED
    BY <1>2, <1>3, <1>4, <1>5, <1>6 DEF StepGood, Abstract!Toggle

LEMMA MoveMarkStep ==
    ASSUME IInv, NEW k \in 1..Len(list), NEW p \in Pos, MoveMark(k, p)
    PROVE  StepGood /\ Abstract!MoveTo(list[k].position, p)
  <1> DEFINE rest == Without(list, k)
             old == list[k].position
  <1>1. PICK t \in AddResults(rest, p) : list' \in {t, Commented(t, p)}
    BY DEF MoveMark
  <1>2. file' = Lines(list') /\ last' = [out |-> {old}, in |-> {p}]
    BY DEF MoveMark
  <1>3. GoodList(rest) /\ Positions(rest) = Positions(list) \ {old}
    BY WithoutGood DEF IInv
  <1>4. GoodList(list') /\ Positions(list') = (Positions(list) \ {old}) \cup {p}
    BY <1>1, <1>3, AddResultsGood
  <1>5. GoodFile(file') /\ Positions(Parsed(file')) = Positions(list')
    BY <1>2, <1>4, SavedGood
  <1>6. old \in Positions(list) /\ old \in Pos
    BY GoodListFacts DEF IInv, Positions
  <1>7. Drift(list, list', {old}, {p})
    <2> SUFFICES ASSUME NEW i \in DOMAIN list, NEW j \in DOMAIN list',
                        list[i].addr = list'[j].addr, list[i].position # old
                 PROVE  \/ list'[j].position = list[i].position
                        \/ /\ list'[j].position < list[i].position
                           /\ p <= list'[j].position
      BY DEF Drift
    <2>1. i \in 1..Len(list) /\ i # k
      BY GoodListFacts DEF IInv
    <2>2. PICK h \in DOMAIN rest : rest[h] = list[i]
      BY <2>1, WithoutKeeps DEF IInv
    <2>3. Drift(rest, list', {}, {p})
      BY <1>1, <1>3, AddResultsDrift
    <2> QED
      BY <2>2, <2>3 DEF Drift
  <1>8. IInv'
    BY <1>2, <1>4, <1>5, <1>6 DEF IInv
  <1> QED
    BY <1>2, <1>4, <1>5, <1>6, <1>7, <1>8 DEF StepGood, Abstract!MoveTo

LEMMA DeletePairStep ==
    ASSUME IInv, NEW k \in 1..Len(list), DeletePair(k)
    PROVE  /\ StepGood
           /\ Abstract!DropPair(list[k].position, list[k + 1].position)
           /\ list[k + 1].position \in Pos
  <1> DEFINE rest == Without(list, k + 1)
             p == list[k].position
             q == list[k + 1].position
  <1>1. /\ list' = Without(rest, k) /\ file' = file
        /\ last' = [out |-> {p, q}, in |-> {}]
        /\ k + 1 \in 1..Len(list)
    BY GoodListFacts DEF DeletePair, IInv
  <1>2. /\ GoodList(rest) /\ Positions(rest) = Positions(list) \ {q}
        /\ Len(rest) = Len(list) - 1
    BY <1>1, WithoutGood DEF IInv
  <1>3. k \in 1..Len(rest) /\ rest[k] = list[k]
    <2>1. k \in 1..Len(list) - 1 /\ k < k + 1
      BY <1>1, GoodListFacts DEF IInv
    <2> QED
      BY <2>1, <1>2 DEF Without
  <1>4. GoodList(list') /\ Positions(list') = Positions(list) \ {p, q}
    BY <1>1, <1>2, <1>3, WithoutGood
  <1>5. /\ p \in Positions(list) /\ q \in Positions(list) /\ p < q
        /\ p \in Pos /\ q \in Pos
    BY <1>1, GoodListFacts DEF IInv, Positions, GoodList, StrictlySorted
  <1>6. ~\E r \in Positions(list) : p < r /\ r < q
    <2> SUFFICES ASSUME NEW i \in 1..Len(list),
                        p < list[i].position, list[i].position < q
                 PROVE  FALSE
      BY GoodListFacts DEF IInv, Positions
    <2>1. \A x, y \in 1..Len(list) :
              x < y => list[x].position < list[y].position
      BY GoodListFacts DEF IInv, GoodList, StrictlySorted
    <2>2. p \in Int /\ q \in Int /\ list[i].position \in Int
      BY <1>1, GoodListFacts DEF IInv
    <2>3. CASE i < k
      BY <2>1, <2>2, <2>3
    <2>4. CASE i > k + 1
      BY <2>1, <2>2, <2>4, <1>1
    <2>5. CASE i = k \/ i = k + 1
      BY <2>2, <2>5
    <2> QED
      BY <2>3, <2>4, <2>5, <1>1
  <1>7. Drift(list, list', {p, q}, {})
    <2>1. Drift(list, rest, {q}, {})
      BY <1>1, WithoutDrift DEF IInv
    <2>2. Drift(rest, list', {p}, {})
      BY <1>1, <1>2, <1>3, WithoutDrift
    <2> SUFFICES ASSUME NEW i \in DOMAIN list, NEW j \in DOMAIN list',
                        list[i].addr = list'[j].addr,
                        list[i].position \notin {p, q}
                 PROVE  list'[j].position = list[i].position
      BY DEF Drift
    <2>3. i \in 1..Len(list) /\ i # k + 1
      BY GoodListFacts DEF IInv
    <2>4. PICK h \in DOMAIN rest : rest[h] = list[i]
      BY <2>3, <1>1, WithoutKeeps DEF IInv
    <2> QED
      BY <2>2, <2>4 DEF Drift
  <1>8. IInv'
    BY <1>1, <1>4, <1>5 DEF IInv
  <1> QED
    BY <1>1, <1>4, <1>5, <1>6, <1>7, <1>8 DEF StepGood, Abstract!DropPair

LEMMA AddLastIFrameStep ==
    ASSUME IInv, NEW p \in Pos, AddLastIFrame(p)
    PROVE  StepGood /\ Abstract!Insert(p)
  <1>1. PICK t \in AddResults(list, p) : list' \in {t, Commented(t, p)}
    BY DEF AddLastIFrame
  <1>2. file' = file /\ last' = [out |-> {}, in |-> {p}]
    BY DEF AddLastIFrame
  <1>3. GoodList(list') /\ Positions(list') = Positions(list) \cup {p}
    BY <1>1, AddResultsGood DEF IInv
  <1>4. Drift(list, list', last'.out, last'.in)
    BY <1>1, <1>2, AddResultsDrift DEF IInv
  <1>5. IInv'
    BY <1>2, <1>3 DEF IInv
  <1> QED
    BY <1>2, <1>3, <1>4, <1>5 DEF StepGood, Abstract!Insert

LEMMA SetCheckedStep ==
    ASSUME IInv, NEW k \in 1..Len(list), SetChecked(k)
    PROVE  StepGood /\ UNCHANGED AbsVars
  <1> DEFINE n == Len(list)
  <1>1. /\ n \in Nat /\ DOMAIN list = 1..n /\ list \in Seq(Node)
        /\ list \in [1..n -> Node]
    BY GoodListFacts DEF IInv, GoodList
  <1>2. /\ list' = [list EXCEPT ![k].checked = TRUE] /\ file' = file
        /\ last' = [out |-> {}, in |-> {}]
    BY DEF SetChecked
  <1>3. \A i \in 1..n : /\ list'[i] \in Node
                        /\ list'[i].addr = list[i].addr
                        /\ list'[i].position = list[i].position
                        /\ list'[i].comment = list[i].comment
    <2> TAKE i \in 1..n
    <2>1. CASE i = k
      <3>1. list'[i] = [list[i] EXCEPT !.checked = TRUE]
        BY <2>1, <1>1, <1>2
      <3> QED
        BY <3>1, <1>1 DEF Node
    <2>2. CASE i # k
      BY <2>2, <1>1, <1>2
    <2> QED
      BY <2>1, <2>2
  <1>4. list' \in Seq(Node) /\ DOMAIN list' = 1..n
    <2>1. DOMAIN list' = 1..n /\ list' = [i \in 1..n |-> list'[i]]
      BY <1>1, <1>2
    <2>2. list' \in [1..n -> Node]
      BY <2>1, <1>3
    <2> QED
      BY <2>1, <2>2, <1>1
  <1>5. GoodList(list')
    BY <1>1, <1>3, <1>4
       DEF IInv, GoodList, StrictlySorted, CommentsStay, DistinctAddrs
  <1>6. Positions(list') = Positions(list)
    BY <1>1, <1>3, <1>4 DEF Positions
  <1>7. Drift(list, list', last'.out, last'.in)
    BY <1>1, <1>2, <1>3, <1>4 DEF IInv, GoodList, DistinctAddrs, Drift
  <1>8. IInv'
    BY <1>2, <1>5 DEF IInv
  <1> QED
    BY <1>2, <1>6, <1>7, <1>8 DEF StepGood, AbsVars, Abstract!svars

LEMMA ClearSaveStep ==
    ASSUME IInv
    PROVE  /\ ClearList => StepGood /\ Abstract!Forget
           /\ Save => StepGood /\ Abstract!Store
  <1>1. ASSUME ClearList
        PROVE  StepGood /\ Abstract!Forget
    <2>1. /\ list' = <<>> /\ file' = file
          /\ last' = [out |-> Positions(list), in |-> {}]
      BY <1>1 DEF ClearList
    <2>2. GoodList(list') /\ Positions(list') = {}
      BY <2>1
         DEF GoodList, StrictlySorted, CommentsStay, DistinctAddrs, Positions
    <2>3. Drift(list, list', last'.out, last'.in)
      BY <2>1 DEF Drift
    <2>4. IInv'
      BY <2>1, <2>2, GoodListFacts DEF IInv
    <2> QED
      BY <2>1, <2>2, <2>3, <2>4 DEF StepGood, Abstract!Forget
  <1>2. ASSUME Save
        PROVE  StepGood /\ Abstract!Store
    <2>1. /\ list' = list /\ file' = Lines(list)
          /\ last' = [out |-> {}, in |-> {}]
      BY <1>2 DEF Save
    <2>2. GoodFile(file') /\ Positions(Parsed(file')) = Positions(list)
      BY <2>1, SavedGood DEF IInv
    <2>3. Drift(list, list', last'.out, last'.in)
      BY <2>1 DEF IInv, GoodList, DistinctAddrs, Drift
    <2>4. IInv'
      BY <2>1, <2>2 DEF IInv
    <2> QED
      BY <2>1, <2>2, <2>3, <2>4 DEF StepGood, Abstract!Store
  <1> QED
    BY <1>1, <1>2

LEMMA LoadStep ==
    ASSUME IInv, Load
    PROVE  StepGood /\ Abstract!Reload
  <1> DEFINE n == Len(file)
             marks == Parsed(file)
  <1>1. /\ n \in Nat /\ DOMAIN marks = 1..n
        /\ \A i \in 1..n : /\ marks[i].position \in Pos
                           /\ marks[i].comment \in Pos \cup {None}
    <2>1. n \in Nat /\ DOMAIN file = 1..n /\ \A i \in 1..n : file[i] \in Line
      BY DEF IInv, GoodFile
    <2>2. DOMAIN marks = 1..n
      BY <2>1 DEF Parsed
    <2>3. \A i \in 1..n : marks[i].position \in Positions(marks)
      BY <2>2 DEF Positions
    <2>4. \A i \in 1..n : marks[i].comment = file[i].comment
      BY <2>1 DEF Parsed
    <2> QED
      BY <2>1, <2>2, <2>3, <2>4 DEF IInv, GoodFile, Line
  <1>2. PICK adr \in [1..n -> Addr] :
            /\ \A i, j \in 1..n : adr[i] = adr[j] => i = j
            /\ list' = [i \in 1..n |->
                   [addr |-> adr[i], checked |-> FALSE,
                    position |-> marks[i].position,
                    comment |-> marks[i].comment]]
    BY DEF Load
  <1>3. /\ file' = file
        /\ last' = [out |-> Positions(list), in |-> Positions(marks)]
    BY DEF Load
  <1>4. \A i \in 1..n : /\ list'[i] \in Node /\ list'[i].addr = adr[i]
                        /\ list'[i].position = marks[i].position
                        /\ list'[i].comment = marks[i].comment
    BY <1>1, <1>2 DEF Node
  <1>5. list' \in Seq(Node) /\ DOMAIN list' = 1..n
    <2>1. list' \in [1..n -> Node]
      BY <1>2, <1>4
    <2> QED
      BY <2>1, <1>1
  <1>6. GoodList(list')
    BY <1>1, <1>2, <1>4, <1>5
       DEF IInv, GoodFile, GoodList, StrictlySorted, CommentsStay,
           DistinctAddrs
  <1>7. Positions(list') = Positions(marks) /\ Positions(marks) \subseteq Pos
    BY <1>1, <1>4, <1>5 DEF Positions
  <1>8. Drift(list, list', last'.out, last'.in)
    BY <1>3 DEF Drift, Positions
  <1>9. IInv'
    BY <1>3, <1>6, <1>7, GoodListFacts DEF IInv
  <1> QED
    BY <1>3, <1>7, <1>8, <1>9 DEF StepGood, Abstract!Reload

LEMMA NextStep ==
    ASSUME IInv, Next
    PROVE  StepGood /\ (Abstract!Next \/ UNCHANGED AbsVars)
  <1>1. ASSUME NEW p \in Pos, ToggleOff(p) \/ ToggleOn(p) \/ AddLastIFrame(p)
        PROVE  StepGood /\ Abstract!Next
    BY <1>1, ToggleOffStep, ToggleOnStep, AddLastIFrameStep DEF Abstract!Next
  <1>2. ASSUME NEW k \in 1..Len(list), DeletePair(k)
        PROVE  StepGood /\ Abstract!Next
    BY <1>2, DeletePairStep, GoodListFacts DEF IInv, Abstract!Next
  <1>3. ASSUME NEW k \in 1..Len(list), NEW p \in Pos, MoveMark(k, p)
        PROVE  StepGood /\ Abstract!Next
    BY <1>3, MoveMarkStep, GoodListFacts DEF IInv, Abstract!Next
  <1>4. ASSUME NEW k \in 1..Len(list), SetChecked(k)
        PROVE  StepGood /\ UNCHANGED AbsVars
    BY <1>4, SetCheckedStep
  <1>5. ASSUME ClearList \/ Save \/ Load
        PROVE  StepGood /\ Abstract!Next
    BY <1>5, ClearSaveStep, LoadStep DEF Abstract!Next
  <1> QED
    BY <1>1, <1>2, <1>3, <1>4, <1>5 DEF Next

-----------------------------------------------------------------------------
(* The theorems.                                                           *)

LEMMA InitIInv == Init => IInv /\ Abstract!Init
  <1> SUFFICES ASSUME Init
               PROVE  IInv /\ Abstract!Init
    OBVIOUS
  <1>0. PICK n \in 0..MaxLines :
            \E f \in [1..n -> [position : Pos, comment : Pos \cup {None}]] :
                StrictlySorted(f) /\ CommentsStay(f) /\ file = Lines(f)
    BY DEF Init
  <1>1. PICK f \in [1..n -> [position : Pos, comment : Pos \cup {None}]] :
            StrictlySorted(f) /\ CommentsStay(f) /\ file = Lines(f)
    BY <1>0
  <1>2. GoodFile(file) /\ Positions(Parsed(file)) \subseteq Pos
    <2>1. n \in Nat
      BY <1>0, MaxLinesAssumption
    <2>2. DOMAIN f = 1..n /\ \A i \in 1..n : f[i].position \in Pos
      BY <1>1
    <2>3. GoodFile(Lines(f))
      BY <1>1, <2>1, <2>2, LinesGood
    <2> QED
      BY <1>1, <2>3 DEF GoodFile
  <1>3. list = <<>> /\ last = [out |-> {}, in |-> {}]
    BY DEF Init
  <1>4. GoodList(list) /\ Positions(list) = {}
    BY <1>3 DEF GoodList, StrictlySorted, CommentsStay, DistinctAddrs, Positions
  <1> QED
    BY <1>2, <1>3, <1>4 DEF IInv, Abstract!Init

LEMMA StutterStep ==
    ASSUME IInv, UNCHANGED vars
    PROVE  IInv' /\ UNCHANGED AbsVars
  BY DEF vars, IInv, AbsVars, Abstract!svars

\* Every reachable state satisfies the inductive invariant.
THEOREM IInvHolds == Spec => []IInv
  <1>1. IInv /\ [Next]_vars => IInv'
    BY NextStep, StutterStep DEF StepGood
  <1> QED
    BY InitIInv, <1>1, PTL DEF Spec

\* The variables keep their types.
THEOREM TypeCorrect == Spec => []TypeOK
  <1>1. IInv => TypeOK
    BY DEF IInv, GoodList, GoodFile, TypeOK
  <1> QED
    BY <1>1, IInvHolds, PTL

\* List and file are strictly sorted.
THEOREM SortedHolds == Spec => []SortedInv
  <1>1. IInv => SortedInv
    BY DEF IInv, GoodList, GoodFile, SortedInv
  <1> QED
    BY <1>1, IInvHolds, PTL

\* Comments stay with their positions.
THEOREM CommentHolds == Spec => []CommentInv
  <1>1. IInv => CommentInv
    BY DEF IInv, GoodList, GoodFile, CommentInv
  <1> QED
    BY <1>1, IInvHolds, PTL

\* Pointers drift only to earlier marks, and only behind an insertion.
THEOREM PointerDriftHolds == Spec => PointerDrift
  <1>1. IInv /\ [Next]_vars => [Drift(list, list', last'.out, last'.in)]_vars
    BY NextStep DEF StepGood
  <1> QED
    BY <1>1, IInvHolds, PTL DEF Spec, PointerDrift

\* The list implements the set of marks.
THEOREM ImplementsHolds == Spec => ImplementsMarkSet
  <1>1. IInv /\ [Next]_vars => [Abstract!Next]_AbsVars
    BY NextStep, StutterStep
  <1>2. [Abstract!Next]_AbsVars => [Abstract!Next]_(Abstract!svars)
    BY DEF AbsVars
  <1> QED
    BY InitIInv, <1>1, <1>2, IInvHolds, PTL
       DEF Spec, ImplementsMarkSet, Abstract!Spec

-----------------------------------------------------------------------------
(* The files of the marks: the inductive invariant.                        *)

Contents == Version \cup {Empty, Torn}

TypeInv ==
    /\ pc \in [Writer -> Labels]
    /\ ret \in [Writer -> ScanLabels \cup {"done"}]
    /\ version \in [Writer -> 0..MaxSaves]
    /\ saved \in [Writer -> Version \cup {NoFile}]

\* Two processes inside Save have met there, and both have been started.
OverlapInv ==
    /\ ~overlap => \A v, w \in Writer :
                       pc[v] \in SaveLabels /\ pc[w] \in SaveLabels => v = w
    /\ overlap => \E v, w \in Writer : v # w /\ pc[v] # "idle" /\ pc[w] # "idle"

\* Two names never lead to one inode.
NamesInv ==
    ~overlap =>
        /\ dir \in [Names -> Inode \cup {NoFile}]
        /\ data \in [Inode -> Contents]
        /\ fd \in [Writer -> Inode \cup {NoFile}]
        /\ \A m, n \in Names : dir[m] = dir[n] => m = n \/ dir[m] = NoFile

\* The process inside Save has the temporary file for itself: empty while it
\* is open, and complete from fclose to rename.
TempInv ==
    ~overlap => \A w \in Writer :
        /\ fd[w] # NoFile => pc[w] = "fclose"
        /\ pc[w] = "fclose" => fd[w] # NoFile /\ fd[w] = dir["temp"] /\ data[fd[w]] = Empty
        /\ pc[w] \in {"remove", "rename"} => Loaded("temp") = Own(w)
        /\ pc[w] = "rename" => dir["marks"] = NoFile

FileIInv == TypeInv /\ OverlapInv /\ NamesInv /\ TempInv /\ NeverTorn /\ DurableSave

\* Constants that are needed often.
LEMMA ConstantsLemma ==
    /\ NoFile \notin Inode /\ NoFile \notin Contents /\ UserMarks \in Version
    /\ Empty \notin Version /\ Torn \notin Version
  BY MarksFileAssumption DEF Contents, Version, UserMarks

\* Two names leave an inode for the third.
LEMMA FreshInode ==
    ASSUME NEW a, NEW b
    PROVE  \E i \in Inode : i # a /\ i # b
  <1> SUFFICES ASSUME Inode \subseteq {a, b}
               PROVE  FALSE
    OBVIOUS
  <1>1. IsFiniteSet({a}) /\ Cardinality({a}) = 1
    BY FS_Singleton
  <1>2. IsFiniteSet({a} \cup {b}) /\ Cardinality({a} \cup {b}) \in {1, 2}
    BY <1>1, FS_AddElement
  <1>3. {a} \cup {b} = {a, b}
    OBVIOUS
  <1>4. Cardinality(Inode) <= Cardinality({a, b})
    BY <1>2, <1>3, FS_Subset
  <1>5. Cardinality(Writer) \in Nat /\ Cardinality(Inode) \in Nat
    BY MarksFileAssumption, FS_CardinalityType
  <1> QED
    BY <1>2, <1>3, <1>4, <1>5, MarksFileAssumption

LEMMA InitInv == FileInit => FileIInv
  <1> SUFFICES ASSUME FileInit PROVE FileIInv
    OBVIOUS
  <1>1. PICK exists \in BOOLEAN :
            /\ dir = [name \in Names |-> IF name = "marks" /\ exists
                                        THEN CHOOSE i \in Inode : TRUE ELSE NoFile]
            /\ data = [i \in Inode |-> IF i = dir["marks"] THEN UserMarks ELSE Empty]
    BY DEF FileInit
  <1>2. \E i \in Inode : TRUE
    BY FreshInode
  <1>3. (CHOOSE i \in Inode : TRUE) \in Inode
    BY <1>2
  <1>4. dir \in [Names -> Inode \cup {NoFile}] /\ \A n \in Names : n # "marks" => dir[n] = NoFile
    BY <1>1, <1>3
  <1>5. data \in [Inode -> Contents]
    BY <1>1, ConstantsLemma DEF Contents
  <1>6. TypeInv
    BY MarksFileAssumption DEF FileInit, TypeInv, Labels, ScanLabels
  <1>7. OverlapInv
    BY DEF FileInit, OverlapInv, SaveLabels
  <1>8. NamesInv
    BY <1>4, <1>5 DEF FileInit, NamesInv
  <1>9. TempInv
    BY DEF FileInit, TempInv
  <1>10. NeverTorn
    <2>1. dir["marks"] # NoFile => data[dir["marks"]] = UserMarks
      BY <1>1, <1>4 DEF Names
    <2>2. dir["backup"] = NoFile
      BY <1>4 DEF Names
    <2> QED
      BY <2>1, <2>2, ConstantsLemma DEF NeverTorn, Loaded
  <1>11. DurableSave
    BY DEF FileInit, DurableSave
  <1> QED
    BY <1>6, <1>7, <1>8, <1>9, <1>10, <1>11 DEF FileIInv

-----------------------------------------------------------------------------
(* Steps outside of Save.                                                  *)

\* The files stay as they are, and no process enters or leaves Save.
LEMMA QuietStep ==
    ASSUME FileIInv, NEW w \in Writer, NEW l \in Labels, l \notin SaveLabels, l # "idle",
           pc[w] \notin SaveLabels, Goto(w, l), UNCHANGED <<dir, data, fd, overlap>>,
           ret' \in [Writer -> ScanLabels \cup {"done"}],
           \/ UNCHANGED version
           \/ version[w] < MaxSaves /\ version' = [version EXCEPT ![w] = @ + 1],
           \/ UNCHANGED saved /\ pc[w] # "crashed"
           \/ saved' = [saved EXCEPT ![w] = NoFile]
    PROVE  FileIInv'
  <1> USE DEF Goto
  <1>0. /\ pc \in [Writer -> Labels] /\ version \in [Writer -> 0..MaxSaves]
        /\ saved \in [Writer -> Version \cup {NoFile}] /\ MaxSaves \in Nat
    BY MarksFileAssumption DEF FileIInv, TypeInv
  <1>1. /\ pc' \in [Writer -> Labels] /\ pc'[w] = l
        /\ \A v \in Writer \ {w} : pc'[v] = pc[v]
    BY <1>0
  <1>2. version' \in [Writer -> 0..MaxSaves] /\ \A v \in Writer \ {w} : version'[v] = version[v]
    BY <1>0
  <1>3. /\ saved' \in [Writer -> Version \cup {NoFile}]
        /\ \A v \in Writer : saved'[v] = saved[v] \/ saved'[v] = NoFile
    BY <1>0
  <1>4. TypeInv'
    BY <1>1, <1>2, <1>3 DEF TypeInv
  <1>5. OverlapInv'
    BY <1>1 DEF FileIInv, OverlapInv
  <1>6. NamesInv'
    BY DEF FileIInv, NamesInv
  <1>7. TempInv'
    BY <1>1, <1>2 DEF FileIInv, TempInv, Loaded, Own, SaveLabels
  <1>8. NeverTorn'
    BY DEF FileIInv, NeverTorn, Loaded
  <1>9. DurableSave'
    <2> SUFFICES ASSUME NEW v \in Writer, saved'[v] # NoFile,
                        \A u \in Writer \ {v} : pc'[u] = "idle"
                 PROVE  Loaded("marks")' = saved'[v]
      BY DEF DurableSave
    <2>1. v = w
      BY <1>1
    <2>2. pc[w] # "crashed" /\ pc[w] # "rename" /\ saved'[v] = saved[v]
      BY <1>0, <1>3, <2>1 DEF SaveLabels
    <2>3. \A u \in Writer \ {v} : pc[u] = "idle"
      BY <1>1, <2>1
    <2>4. Loaded("marks") = saved[v]
      BY <2>1, <2>2, <2>3 DEF FileIInv, DurableSave
    <2> QED
      BY <2>2, <2>4 DEF Loaded
  <1> QED
    BY <1>4, <1>5, <1>6, <1>7, <1>8, <1>9 DEF FileIInv

LEMMA RetType == FileIInv => ret \in [Writer -> ScanLabels \cup {"done"}]
  BY DEF FileIInv, TypeInv

LEMMA CallSaveStep ==
    ASSUME FileIInv, NEW w \in Writer, pc[w] \in ScanLabels,
           NEW label \in ScanLabels \cup {"done"}, CallSave(w, label)
    PROVE  FileIInv'
  <1>1. "fopen" \in Labels /\ "fopen" \notin SaveLabels /\ "fopen" # "idle"
    BY DEF Labels, SaveLabels
  <1>2. ret' \in [Writer -> ScanLabels \cup {"done"}]
    BY RetType DEF CallSave
  <1>3. pc[w] \notin SaveLabels /\ pc[w] # "crashed"
    BY DEF ScanLabels, SaveLabels
  <1> QED
    BY <1>1, <1>2, <1>3, QuietStep DEF CallSave

LEMMA StartStep ==
    ASSUME FileIInv, NEW w \in Writer, Start(w)
    PROVE  FileIInv'
  <1>1. "begin" \in Labels /\ "begin" \notin SaveLabels /\ pc[w] \notin SaveLabels
    BY DEF Labels, ScanLabels, SaveLabels, Start
  <1> QED
    BY <1>1, RetType, QuietStep DEF Start

LEMMA ScanSteps ==
    ASSUME FileIInv, NEW w \in Writer, AudioEnds(w) \/ NoLogo(w) \/ LogoEnds(w)
    PROVE  FileIInv'
  <1>1. PICK l \in {"cleanup", "dropped", "done"} : Goto(w, l)
    BY DEF AudioEnds, NoLogo, LogoEnds
  <1>2. l \in Labels /\ l \notin SaveLabels /\ l # "idle"
    BY DEF Labels, ScanLabels, SaveLabels
  <1>3. pc[w] \notin SaveLabels /\ pc[w] # "crashed"
    BY DEF SaveLabels, AudioEnds, NoLogo, LogoEnds
  <1>4. UNCHANGED <<dir, data, ret, fd, version, saved, overlap>>
    BY DEF AudioEnds, NoLogo, LogoEnds
  <1> QED
    BY <1>1, <1>2, <1>3, <1>4, RetType, QuietStep

\* The marks of the user, or of an earlier run, change their name.
LEMMA BackupStep ==
    ASSUME FileIInv, NEW w \in Writer, pc[w] \in {"begin", "dropped"},
           NEW l \in {"audio", "dropped", "logo"}, Goto(w, l), Backup(w),
           UNCHANGED <<data, ret, fd, version, overlap>>
    PROVE  FileIInv'
  <1>1. /\ l \in Labels /\ l \notin SaveLabels /\ l # "idle"
        /\ pc[w] \notin SaveLabels /\ pc[w] # "crashed"
    BY DEF Labels, ScanLabels, SaveLabels
  <1>2. CASE UNCHANGED <<dir, saved>>
    BY <1>1, <1>2, RetType, QuietStep
  <1>3. CASE /\ dir' = [dir EXCEPT !["backup"] = dir["marks"], !["marks"] = NoFile]
             /\ saved' = [saved EXCEPT ![w] = NoFile]
    <2>1. /\ pc \in [Writer -> Labels] /\ saved \in [Writer -> Version \cup {NoFile}]
          /\ version \in [Writer -> 0..MaxSaves]
      BY DEF FileIInv, TypeInv
    <2>2. /\ pc' \in [Writer -> Labels] /\ pc'[w] = l
          /\ \A v \in Writer \ {w} : pc'[v] = pc[v]
      BY <1>1, <2>1 DEF Goto
    <2>3. TypeInv'
      BY <1>3, <2>1, <2>2, RetType DEF TypeInv
    <2>4. OverlapInv'
      BY <1>1, <2>2 DEF FileIInv, OverlapInv
    <2>5. ~overlap => /\ dir' \in [Names -> Inode \cup {NoFile}]
                      /\ dir'["marks"] = NoFile /\ dir'["backup"] = dir["marks"]
                      /\ dir'["temp"] = dir["temp"]
      BY <1>3 DEF FileIInv, NamesInv, Names
    <2>6. NamesInv'
      BY <2>5 DEF FileIInv, NamesInv, Names
    <2>7. TempInv'
      BY <1>1, <2>2, <2>5 DEF FileIInv, TempInv, Loaded, Own, SaveLabels
    <2>8. NeverTorn'
      BY <2>5 DEF FileIInv, NeverTorn, Loaded
    <2>9. DurableSave'
      <3> SUFFICES ASSUME NEW v \in Writer, saved'[v] # NoFile,
                          \A u \in Writer \ {v} : pc'[u] = "idle"
                   PROVE  FALSE
        BY DEF DurableSave
      <3>1. v = w
        BY <1>1, <2>2
      <3> QED
        BY <1>3, <2>1, <3>1
    <2> QED
      BY <2>3, <2>4, <2>6, <2>7, <2>8, <2>9 DEF FileIInv
  <1> QED
    BY <1>2, <1>3 DEF Backup

LEMMA BackupSteps ==
    ASSUME FileIInv, NEW w \in Writer, Begin(w) \/ LogoFound(w)
    PROVE  FileIInv'
  <1>1. PICK l \in {"audio", "dropped", "logo"} : Goto(w, l)
    BY DEF Begin, LogoFound
  <1> QED
    BY <1>1, BackupStep DEF Begin, LogoFound

-----------------------------------------------------------------------------
(* Steps of Save.                                                          *)

\* Where a process is, after a step of Save or its death.
LEMMA GotoLemma ==
    ASSUME FileIInv, NEW w \in Writer, pc[w] # "idle", NEW l \in Labels, l # "idle", Goto(w, l)
    PROVE  /\ pc' \in [Writer -> Labels] /\ pc'[w] = l
           /\ \A v \in Writer \ {w} : pc'[v] = pc[v]
           /\ \A v \in Writer : (pc'[v] = "idle") = (pc[v] = "idle")
           /\ overlap => \E u, v \in Writer : u # v /\ pc'[u] # "idle" /\ pc'[v] # "idle"
  <1>1. pc \in [Writer -> Labels]
    BY DEF FileIInv, TypeInv
  <1>2. /\ pc' \in [Writer -> Labels] /\ pc'[w] = l
        /\ \A v \in Writer \ {w} : pc'[v] = pc[v]
    BY <1>1 DEF Goto
  <1>3. \A v \in Writer : (pc'[v] = "idle") = (pc[v] = "idle")
    BY <1>2
  <1>4. overlap => \E u, v \in Writer : u # v /\ pc'[u] # "idle" /\ pc'[v] # "idle"
    BY <1>3 DEF FileIInv, OverlapInv
  <1> QED
    BY <1>2, <1>3, <1>4

\* A process that is alone has never met another one inside Save.
LEMMA AloneLemma ==
    ASSUME FileIInv, NEW v \in Writer, \A u \in Writer \ {v} : pc[u] = "idle"
    PROVE  ~overlap
  BY DEF FileIInv, OverlapInv

\* What a step may do to the files that is about the temporary one alone.
TempOnly(w) ==
    /\ dir' \in [Names -> Inode \cup {NoFile}]
    /\ data' \in [Inode -> Contents]
    /\ fd' \in [Writer -> Inode \cup {NoFile}]
    /\ \A n \in {"marks", "backup"} :
          /\ dir'[n] = dir[n]
          /\ dir[n] # NoFile => dir'["temp"] # dir[n] /\ data'[dir[n]] = data[dir[n]]
    /\ \A u \in Writer \ {w} : fd'[u] = fd[u]

\* The part of TempInv about w.
TempFor(w) ==
    /\ fd[w] # NoFile => pc[w] = "fclose"
    /\ pc[w] = "fclose" => fd[w] # NoFile /\ fd[w] = dir["temp"] /\ data[fd[w]] = Empty
    /\ pc[w] \in {"remove", "rename"} => Loaded("temp") = Own(w)
    /\ pc[w] = "rename" => dir["marks"] = NoFile

LEMMA TempStep ==
    ASSUME FileIInv, NEW w \in Writer, NEW l \in Labels, l # "idle", Goto(w, l),
           pc[w] \notin {"idle", "crashed"}, UNCHANGED <<version, saved, ret>>,
           overlap => overlap',
           overlap' => overlap \/ \E v \in Writer \ {w} : pc[v] \in SaveLabels,
           ~overlap' => TempOnly(w) /\ TempFor(w)',
           ~overlap' => \A u \in Writer \ {w} :
                           pc[u] \in SaveLabels => l \notin SaveLabels /\ UNCHANGED <<dir, data>>,
           pc[w] = "rename" => l = "crashed" /\ UNCHANGED <<dir, data>>
    PROVE  FileIInv'
  <1>1. /\ pc' \in [Writer -> Labels] /\ pc'[w] = l
        /\ \A v \in Writer \ {w} : pc'[v] = pc[v]
        /\ \A v \in Writer : (pc'[v] = "idle") = (pc[v] = "idle")
        /\ overlap => \E u, v \in Writer : u # v /\ pc'[u] # "idle" /\ pc'[v] # "idle"
    BY GotoLemma
  <1>2. TypeInv'
    BY <1>1 DEF FileIInv, TypeInv
  <1>3. OverlapInv'
    <2>1. ASSUME overlap' PROVE \E u, v \in Writer : u # v /\ pc'[u] # "idle" /\ pc'[v] # "idle"
      <3>1. CASE overlap
        BY <1>1, <3>1
      <3>2. CASE \E v \in Writer \ {w} : pc[v] \in SaveLabels
        <4>1. PICK v \in Writer \ {w} : pc[v] \in SaveLabels
          BY <3>2
        <4>2. pc'[v] # "idle" /\ pc'[w] # "idle"
          BY <1>1, <4>1 DEF SaveLabels
        <4> QED
          BY <4>1, <4>2
      <3> QED
        BY <2>1, <3>1, <3>2
    <2>2. ASSUME ~overlap', NEW u \in Writer, NEW v \in Writer,
                 pc'[u] \in SaveLabels, pc'[v] \in SaveLabels
          PROVE  u = v
      BY <1>1, <2>2 DEF FileIInv, OverlapInv
    <2> QED
      BY <2>1, <2>2 DEF OverlapInv
  <1>4. NamesInv'
    BY DEF FileIInv, NamesInv, TempOnly, Names
  <1>5. TempInv'
    <2> SUFFICES ASSUME ~overlap', NEW u \in Writer
                 PROVE  TempFor(u)'
      BY DEF TempInv, TempFor
    <2>1. CASE u = w
      BY <2>1
    <2>2. CASE u # w /\ pc[u] \in SaveLabels
      <3>1. pc'[u] = pc[u] /\ fd'[u] = fd[u] /\ UNCHANGED <<dir, data, version>>
        BY <1>1, <2>2 DEF TempOnly
      <3>2. TempFor(u)
        BY DEF FileIInv, TempInv, TempFor
      <3> QED
        BY <3>1, <3>2 DEF TempFor, Loaded, Own
    <2>3. CASE u # w /\ pc[u] \notin SaveLabels
      <3>1. pc'[u] = pc[u] /\ fd'[u] = fd[u]
        BY <1>1, <2>3 DEF TempOnly
      <3>2. fd[u] = NoFile
        BY <2>3 DEF FileIInv, TempInv, SaveLabels
      <3> QED
        BY <2>3, <3>1, <3>2 DEF TempFor, SaveLabels
    <2> QED
      BY <2>1, <2>2, <2>3
  <1>6. ASSUME ~overlap', NEW n \in {"marks", "backup"}
        PROVE  Loaded(n)' = Loaded(n)
    BY <1>6 DEF TempOnly, Loaded
  <1>7. NeverTorn'
    BY <1>6 DEF FileIInv, NeverTorn
  <1>8. DurableSave'
    <2> SUFFICES ASSUME NEW v \in Writer, saved'[v] # NoFile,
                        \A u \in Writer \ {v} : pc'[u] = "idle"
                 PROVE  \/ Loaded("marks")' = saved'[v]
                        \/ /\ pc'[v] \in {"rename", "crashed"}
                           /\ Loaded("marks")' = NoFile /\ Loaded("temp")' = Own(v)'
      BY DEF DurableSave
    <2>1. v = w /\ \A u \in Writer \ {v} : pc[u] = "idle"
      BY <1>1
    <2>2. ~overlap'
      BY <2>1, AloneLemma DEF SaveLabels
    <2>3. \/ Loaded("marks") = saved[v]
          \/ pc[v] = "rename" /\ Loaded("marks") = NoFile /\ Loaded("temp") = Own(v)
      BY <2>1 DEF FileIInv, DurableSave
    <2>4. Loaded("marks")' = Loaded("marks")
      BY <1>6, <2>2
    <2>5. CASE Loaded("marks") = saved[v]
      BY <2>4, <2>5
    <2>6. CASE pc[v] = "rename" /\ Loaded("marks") = NoFile /\ Loaded("temp") = Own(v)
      <3>1. pc'[v] = "crashed" /\ UNCHANGED <<dir, data, version>>
        BY <1>1, <2>1, <2>6
      <3> QED
        BY <2>4, <2>6, <3>1 DEF Loaded, Own
    <2> QED
      BY <2>3, <2>5, <2>6
  <1> QED
    BY <1>2, <1>3, <1>4, <1>5, <1>7, <1>8 DEF FileIInv

\* The inode of a new temporary file is that of no other name.
LEMMA NewInodeLemma ==
    ASSUME FileIInv, ~overlap, dir["temp"] = NoFile, \A v \in Writer : fd[v] = NoFile
    PROVE  /\ NewInode \in Inode
           /\ NewInode # dir["marks"] /\ NewInode # dir["backup"]
  <1>1. PICK i \in Inode : i # dir["marks"] /\ i # dir["backup"]
    BY FreshInode
  <1>2. InUse \subseteq {dir["marks"], dir["backup"], NoFile}
    BY DEF InUse, Names
  <1>3. i \notin InUse
    BY <1>1, <1>2, ConstantsLemma
  <1>4. NewInode \in Inode /\ NewInode \notin InUse
    BY <1>3 DEF NewInode
  <1> QED
    BY <1>4 DEF InUse, Names

LEMMA OpenStep ==
    ASSUME FileIInv, NEW w \in Writer, Open(w)
    PROVE  FileIInv'
  <1>1. /\ pc[w] = "fopen" /\ UNCHANGED <<ret, version, saved>>
        /\ overlap' = (overlap \/ \E v \in Writer \ {w} : pc[v] \in SaveLabels)
    BY DEF Open
  <1>2. ~overlap' => ~overlap /\ \A u \in Writer \ {w} : pc[u] \notin SaveLabels
    BY <1>1
  <1>3. ~overlap' => \A u \in Writer : fd[u] = NoFile
    BY <1>1, <1>2 DEF FileIInv, TempInv, SaveLabels
  <1>4. /\ "fclose" \in Labels /\ "unlink" \in Labels
        /\ pc[w] \notin {"idle", "crashed", "rename"}
    BY <1>1 DEF Labels, SaveLabels
  <1>5. CASE /\ dir' = [dir EXCEPT !["temp"] = IF @ = NoFile THEN NewInode ELSE @]
             /\ data' = [data EXCEPT ![dir'["temp"]] = Empty]
             /\ fd' = [fd EXCEPT ![w] = dir'["temp"]]
             /\ Goto(w, "fclose")
    <2>1. ASSUME ~overlap'
          PROVE  TempOnly(w) /\ TempFor(w)'
      <3>1. /\ dir \in [Names -> Inode \cup {NoFile}] /\ data \in [Inode -> Contents]
            /\ fd \in [Writer -> Inode \cup {NoFile}] /\ pc \in [Writer -> Labels]
            /\ \A m, n \in Names : dir[m] = dir[n] => m = n \/ dir[m] = NoFile
        BY <1>2, <2>1 DEF FileIInv, NamesInv, TypeInv
      <3>2. dir["temp"] = NoFile =>
                /\ NewInode \in Inode
                /\ NewInode # dir["marks"] /\ NewInode # dir["backup"]
        BY <1>2, <1>3, <2>1, NewInodeLemma
      <3>3. /\ dir' \in [Names -> Inode \cup {NoFile}] /\ dir'["temp"] \in Inode
            /\ dir'["marks"] = dir["marks"] /\ dir'["backup"] = dir["backup"]
            /\ dir'["temp"] # dir["marks"] /\ dir'["temp"] # dir["backup"]
        BY <1>5, <3>1, <3>2, ConstantsLemma DEF Names
      <3>4. /\ data' \in [Inode -> Contents] /\ data'[dir'["temp"]] = Empty
            /\ \A i \in Inode : i # dir'["temp"] => data'[i] = data[i]
        BY <1>5, <3>1, <3>3 DEF Contents
      <3>5. /\ fd' \in [Writer -> Inode \cup {NoFile}] /\ fd'[w] = dir'["temp"]
            /\ \A u \in Writer \ {w} : fd'[u] = fd[u]
        BY <1>5, <3>1, <3>3
      <3>6. pc'[w] = "fclose"
        BY <1>5, <3>1 DEF Goto
      <3>7. TempOnly(w)
        BY <3>1, <3>3, <3>4, <3>5 DEF TempOnly, Names
      <3>8. TempFor(w)'
        BY <3>3, <3>4, <3>5, <3>6, ConstantsLemma DEF TempFor
      <3> QED
        BY <3>7, <3>8
    <2> QED
      BY <1>1, <1>2, <1>4, <1>5, <2>1, TempStep
  <1>6. CASE Goto(w, "unlink") /\ UNCHANGED <<dir, data, fd>>
    <2>1. ASSUME ~overlap'
          PROVE  TempOnly(w) /\ TempFor(w)'
      <3>1. TempOnly(w)
        BY <1>2, <1>6, <2>1 DEF FileIInv, NamesInv, TempOnly, Names
      <3>2. pc'[w] = "unlink" /\ fd'[w] = NoFile
        BY <1>3, <1>6, <2>1 DEF Goto, FileIInv, TypeInv
      <3> QED
        BY <3>1, <3>2 DEF TempFor
    <2> QED
      BY <1>1, <1>2, <1>4, <1>6, <2>1, TempStep
  <1> QED
    BY <1>5, <1>6 DEF Open

\* Inside Save there is nobody else.
LEMMA NobodyElse ==
    ASSUME FileIInv, NEW w \in Writer, pc[w] \in SaveLabels, ~overlap
    PROVE  \A u \in Writer \ {w} : pc[u] \notin SaveLabels /\ fd[u] = NoFile
  BY DEF FileIInv, OverlapInv, TempInv, SaveLabels

LEMMA OwnLemma == FileIInv => \A w \in Writer : Own(w) \in Version
  BY DEF FileIInv, TypeInv, Own, Version

LEMMA FlushStep ==
    ASSUME FileIInv, NEW w \in Writer, Flush(w)
    PROVE  FileIInv'
  <1>1. /\ pc[w] = "fclose" /\ fd' = [fd EXCEPT ![w] = NoFile]
        /\ UNCHANGED <<dir, ret, version, saved, overlap>>
    BY DEF Flush
  <1>2. /\ pc[w] \in SaveLabels /\ "remove" \in Labels /\ "unlink" \in Labels
        /\ pc[w] \notin {"idle", "crashed", "rename"}
    BY <1>1 DEF Labels, SaveLabels
  <1>3. PICK content \in Contents, l \in {"remove", "unlink"} :
            /\ data' = [data EXCEPT ![fd[w]] = content]
            /\ Goto(w, l)
            /\ l = "remove" => content \in Written(w)
    <2>1. Written(w) \subseteq Contents
      BY OwnLemma DEF Written, Contents
    <2> QED
      BY <2>1 DEF Flush, Contents
  <1>4. ASSUME ~overlap
        PROVE  TempOnly(w) /\ TempFor(w)'
    <2>1. /\ dir \in [Names -> Inode \cup {NoFile}] /\ data \in [Inode -> Contents]
          /\ fd \in [Writer -> Inode \cup {NoFile}] /\ pc \in [Writer -> Labels]
          /\ \A m, n \in Names : dir[m] = dir[n] => m = n \/ dir[m] = NoFile
      BY <1>4 DEF FileIInv, NamesInv, TypeInv
    <2>2. fd[w] # NoFile /\ fd[w] = dir["temp"] /\ data[fd[w]] = Empty /\ fd[w] \in Inode
      BY <1>1, <1>4, <2>1 DEF FileIInv, TempInv
    <2>3. /\ data' \in [Inode -> Contents] /\ data'[fd[w]] = content
          /\ \A i \in Inode : i # fd[w] => data'[i] = data[i]
      BY <1>3, <2>1, <2>2
    <2>4. /\ fd' \in [Writer -> Inode \cup {NoFile}] /\ fd'[w] = NoFile
          /\ \A u \in Writer \ {w} : fd'[u] = fd[u]
      BY <1>1, <2>1
    <2>5. \A n \in {"marks", "backup"} : dir[n] # NoFile => dir["temp"] # dir[n] /\ dir[n] \in Inode
      BY <2>1, <2>2 DEF Names
    <2>6. TempOnly(w)
      BY <1>1, <2>1, <2>2, <2>3, <2>4, <2>5 DEF TempOnly
    <2>7. pc'[w] = l
      BY <1>3, <2>1 DEF Goto
    <2>8. l = "remove" => content = Own(w)
      BY <1>3, <2>2 DEF Written
    <2>9. TempFor(w)'
      BY <1>1, <2>2, <2>3, <2>4, <2>7, <2>8 DEF TempFor, Loaded, Own
    <2> QED
      BY <2>6, <2>9
  <1> QED
    BY <1>1, <1>2, <1>3, <1>4, NobodyElse, TempStep

LEMMA UnlinkStep ==
    ASSUME FileIInv, NEW w \in Writer, Unlink(w)
    PROVE  FileIInv'
  <1>1. /\ pc[w] = "unlink" /\ dir' = [dir EXCEPT !["temp"] = NoFile] /\ Goto(w, ret[w])
        /\ UNCHANGED <<data, ret, fd, version, saved, overlap>>
    BY DEF Unlink
  <1>2. /\ ret[w] \in Labels /\ ret[w] \notin SaveLabels \cup {"idle"}
        /\ pc[w] \in SaveLabels /\ pc[w] \notin {"idle", "crashed", "rename"}
    BY <1>1, RetType DEF Labels, ScanLabels, SaveLabels
  <1>3. ASSUME ~overlap
        PROVE  TempOnly(w) /\ TempFor(w)'
    <2>1. /\ dir \in [Names -> Inode \cup {NoFile}] /\ data \in [Inode -> Contents]
          /\ fd \in [Writer -> Inode \cup {NoFile}] /\ pc \in [Writer -> Labels]
      BY <1>3 DEF FileIInv, NamesInv, TypeInv
    <2>2. TempOnly(w)
      BY <1>1, <2>1 DEF TempOnly, Names
    <2>3. pc'[w] = ret[w] /\ fd'[w] = NoFile
      BY <1>1, <1>3, <2>1 DEF Goto, FileIInv, TempInv
    <2> QED
      BY <1>2, <2>2, <2>3 DEF TempFor, SaveLabels
  <1> QED
    BY <1>1, <1>2, <1>3, NobodyElse, TempStep

LEMMA DieStep ==
    ASSUME FileIInv, NEW w \in Writer, Die(w)
    PROVE  FileIInv'
  <1>1. /\ pc[w] \notin {"idle", "crashed"} /\ Goto(w, "crashed")
        /\ fd' = [fd EXCEPT ![w] = NoFile]
        /\ UNCHANGED <<dir, ret, version, saved, overlap>>
    BY DEF Die
  <1>2. "crashed" \in Labels /\ "crashed" \notin SaveLabels
    BY DEF Labels, SaveLabels
  <1>3. \/ data' = data
        \/ /\ pc[w] = "fclose"
           /\ \E content \in Contents : data' = [data EXCEPT ![fd[w]] = content]
    BY OwnLemma DEF Die, Contents
  <1>4. ASSUME ~overlap
        PROVE  TempOnly(w) /\ TempFor(w)'
    <2>1. /\ dir \in [Names -> Inode \cup {NoFile}] /\ data \in [Inode -> Contents]
          /\ fd \in [Writer -> Inode \cup {NoFile}] /\ pc \in [Writer -> Labels]
          /\ \A m, n \in Names : dir[m] = dir[n] => m = n \/ dir[m] = NoFile
      BY <1>4 DEF FileIInv, NamesInv, TypeInv
    <2>2. /\ fd' \in [Writer -> Inode \cup {NoFile}] /\ fd'[w] = NoFile /\ pc'[w] = "crashed"
          /\ \A u \in Writer \ {w} : fd'[u] = fd[u]
      BY <1>1, <2>1 DEF Goto
    <2>3. /\ data' \in [Inode -> Contents]
          /\ \A i \in Inode : i # dir["temp"] => data'[i] = data[i]
      <3>1. CASE data' = data
        BY <2>1, <3>1
      <3>2. ASSUME pc[w] = "fclose", NEW content \in Contents,
                   data' = [data EXCEPT ![fd[w]] = content]
            PROVE  /\ data' \in [Inode -> Contents]
                   /\ \A i \in Inode : i # dir["temp"] => data'[i] = data[i]
        <4>1. fd[w] = dir["temp"]
          BY <1>4, <3>2 DEF FileIInv, TempInv
        <4> QED
          BY <2>1, <3>2, <4>1
      <3> QED
        BY <1>3, <3>1, <3>2
    <2>4. \A n \in {"marks", "backup"} : dir[n] # NoFile => dir["temp"] # dir[n] /\ dir[n] \in Inode
      BY <2>1 DEF Names
    <2>5. TempOnly(w)
      BY <1>1, <2>1, <2>2, <2>3, <2>4 DEF TempOnly
    <2> QED
      BY <2>2, <2>5 DEF TempFor
  <1>5. pc[w] = "rename" => UNCHANGED <<dir, data>>
    BY <1>1, <1>3
  <1>6. ASSUME ~overlap, NEW u \in Writer \ {w}, pc[u] \in SaveLabels
        PROVE  UNCHANGED <<dir, data>>
    <2>1. pc[w] \notin SaveLabels
      BY <1>6 DEF FileIInv, OverlapInv
    <2> QED
      BY <1>1, <1>3, <2>1 DEF SaveLabels
  <1> QED
    BY <1>1, <1>2, <1>4, <1>5, <1>6, TempStep

\* The old marks are gone; the new ones are complete in the temporary file.
LEMMA RemoveStep ==
    ASSUME FileIInv, NEW w \in Writer, RemoveMarks(w)
    PROVE  FileIInv'
  <1>1. /\ pc[w] = "remove" /\ dir' = [dir EXCEPT !["marks"] = NoFile] /\ Goto(w, "rename")
        /\ UNCHANGED <<data, ret, fd, version, saved, overlap>>
    BY DEF RemoveMarks
  <1>2. "rename" \in Labels /\ pc[w] \in SaveLabels /\ "rename" \in SaveLabels
    BY <1>1 DEF Labels, SaveLabels
  <1>3. /\ pc' \in [Writer -> Labels] /\ pc'[w] = "rename"
        /\ \A v \in Writer \ {w} : pc'[v] = pc[v]
        /\ \A v \in Writer : (pc'[v] = "idle") = (pc[v] = "idle")
        /\ overlap => \E u, v \in Writer : u # v /\ pc'[u] # "idle" /\ pc'[v] # "idle"
    BY <1>1, <1>2, GotoLemma
  <1>4. ~overlap => \A u \in Writer \ {w} : pc[u] \notin SaveLabels /\ fd[u] = NoFile
    BY <1>2, NobodyElse
  <1>5. TypeInv'
    BY <1>1, <1>3 DEF FileIInv, TypeInv
  <1>6. OverlapInv'
    BY <1>1, <1>3, <1>4 DEF OverlapInv
  <1>7. ~overlap => /\ dir' \in [Names -> Inode \cup {NoFile}] /\ dir'["marks"] = NoFile
                    /\ \A n \in Names \ {"marks"} : dir'[n] = dir[n]
    BY <1>1 DEF FileIInv, NamesInv, Names
  <1>8. NamesInv'
    BY <1>1, <1>7 DEF FileIInv, NamesInv
  <1>9. ~overlap => Loaded("temp")' = Loaded("temp") /\ Loaded("temp") = Own(w) /\ Own(w)' = Own(w)
    BY <1>1, <1>7 DEF FileIInv, TempInv, Loaded, Own, Names
  <1>10. TempInv'
    <2> SUFFICES ASSUME ~overlap, NEW u \in Writer
                 PROVE  TempFor(u)'
      BY <1>1 DEF TempInv, TempFor
    <2>1. CASE u = w
      BY <1>1, <1>3, <1>7, <1>9, <2>1 DEF FileIInv, TempInv, TempFor
    <2>2. CASE u # w
      BY <1>1, <1>3, <1>4, <2>2 DEF TempFor, SaveLabels
    <2> QED
      BY <2>1, <2>2
  <1>11. NeverTorn'
    BY <1>1, <1>7 DEF FileIInv, NeverTorn, Loaded, Names
  <1>12. DurableSave'
    <2> SUFFICES ASSUME NEW v \in Writer, \A u \in Writer \ {v} : pc'[u] = "idle"
                 PROVE  /\ pc'[v] \in {"rename", "crashed"}
                        /\ Loaded("marks")' = NoFile /\ Loaded("temp")' = Own(v)'
      BY DEF DurableSave
    <2>1. v = w /\ \A u \in Writer \ {v} : pc[u] = "idle"
      BY <1>3
    <2>2. ~overlap
      BY <2>1, AloneLemma
    <2> QED
      BY <1>3, <1>7, <1>9, <2>1, <2>2 DEF Loaded
  <1> QED
    BY <1>5, <1>6, <1>8, <1>10, <1>11, <1>12 DEF FileIInv

\* The new marks take the name.
LEMMA RenameStep ==
    ASSUME FileIInv, NEW w \in Writer, Rename(w)
    PROVE  FileIInv'
  <1>1. /\ pc[w] = "rename" /\ Goto(w, "unlink")
        /\ UNCHANGED <<data, ret, fd, version, overlap>>
        /\ dir["temp"] # NoFile =>
              /\ dir' = [dir EXCEPT !["marks"] = dir["temp"], !["temp"] = NoFile]
              /\ saved' = [saved EXCEPT ![w] = Own(w)]
        /\ dir["temp"] = NoFile => UNCHANGED <<dir, saved>>
    BY DEF Rename
  <1>2. "unlink" \in Labels /\ pc[w] \in SaveLabels /\ "unlink" \in SaveLabels
    BY <1>1 DEF Labels, SaveLabels
  <1>3. /\ pc' \in [Writer -> Labels] /\ pc'[w] = "unlink"
        /\ \A v \in Writer \ {w} : pc'[v] = pc[v]
        /\ \A v \in Writer : (pc'[v] = "idle") = (pc[v] = "idle")
        /\ overlap => \E u, v \in Writer : u # v /\ pc'[u] # "idle" /\ pc'[v] # "idle"
    BY <1>1, <1>2, GotoLemma
  <1>4. ~overlap => \A u \in Writer \ {w} : pc[u] \notin SaveLabels /\ fd[u] = NoFile
    BY <1>2, NobodyElse
  <1>5. TypeInv'
    <2>1. saved' \in [Writer -> Version \cup {NoFile}]
      BY <1>1, OwnLemma DEF FileIInv, TypeInv
    <2> QED
      BY <1>1, <1>3, <2>1 DEF FileIInv, TypeInv
  <1>6. OverlapInv'
    BY <1>1, <1>3, <1>4 DEF OverlapInv
  <1>7. ~overlap => Loaded("temp") = Own(w) /\ Own(w) \in Version /\ dir["temp"] # NoFile
    BY <1>1, OwnLemma, ConstantsLemma DEF FileIInv, TempInv, Loaded, Contents
  <1>8. ~overlap => /\ dir' \in [Names -> Inode \cup {NoFile}]
                    /\ dir'["marks"] = dir["temp"] /\ dir'["temp"] = NoFile
                    /\ dir'["backup"] = dir["backup"]
                    /\ saved' = [saved EXCEPT ![w] = Own(w)]
    BY <1>1, <1>7 DEF FileIInv, NamesInv, Names
  <1>9. NamesInv'
    BY <1>1, <1>8 DEF FileIInv, NamesInv, Names
  <1>10. TempInv'
    <2> SUFFICES ASSUME ~overlap, NEW u \in Writer
                 PROVE  TempFor(u)'
      BY <1>1 DEF TempInv, TempFor
    <2>1. CASE u = w
      BY <1>1, <1>3, <2>1 DEF FileIInv, TempInv, TempFor
    <2>2. CASE u # w
      BY <1>1, <1>3, <1>4, <2>2 DEF TempFor, SaveLabels
    <2> QED
      BY <2>1, <2>2
  <1>11. ~overlap => Loaded("marks")' = Own(w) /\ Loaded("backup")' = Loaded("backup")
    BY <1>1, <1>7, <1>8 DEF Loaded
  <1>12. NeverTorn'
    BY <1>1, <1>7, <1>11 DEF FileIInv, NeverTorn
  <1>13. DurableSave'
    <2> SUFFICES ASSUME NEW v \in Writer, \A u \in Writer \ {v} : pc'[u] = "idle"
                 PROVE  Loaded("marks")' = saved'[v]
      BY DEF DurableSave
    <2>1. v = w /\ \A u \in Writer \ {v} : pc[u] = "idle"
      BY <1>3
    <2>2. ~overlap
      BY <2>1, AloneLemma
    <2>3. saved'[w] = Own(w)
      BY <1>8, <2>2 DEF FileIInv, TypeInv
    <2> QED
      BY <1>11, <2>1, <2>2, <2>3
  <1> QED
    BY <1>5, <1>6, <1>9, <1>10, <1>12, <1>13 DEF FileIInv

LEMMA FileStutterStep ==
    ASSUME FileIInv, UNCHANGED fileVars
    PROVE  FileIInv'
  BY DEF FileIInv, TypeInv, OverlapInv, NamesInv, TempInv, NeverTorn, DurableSave,
         Loaded, Own, fileVars

-----------------------------------------------------------------------------
(* The theorems.                                                           *)

LEMMA NextIInv == FileIInv /\ [FileNext]_fileVars => FileIInv'
  <1> SUFFICES ASSUME FileIInv, [FileNext]_fileVars
               PROVE  FileIInv'
    OBVIOUS
  <1>1. ASSUME NEW w \in Writer,
               AudioToggle(w) \/ LogoToggle(w) \/ MoveAndSave(w) \/ LastSave(w)
        PROVE  FileIInv'
    <2>1. pc[w] \in ScanLabels
      BY <1>1 DEF AudioToggle, LogoToggle, MoveAndSave, LastSave, ScanLabels
    <2>2. \E label \in ScanLabels \cup {"done"} : CallSave(w, label)
      BY <1>1 DEF AudioToggle, LogoToggle, MoveAndSave, LastSave, ScanLabels
    <2> QED
      BY <2>1, <2>2, CallSaveStep
  <1>2. CASE UNCHANGED fileVars
    BY <1>2, FileStutterStep
  <1>3. CASE FileNext
    BY <1>1, <1>3, OpenStep, FlushStep, RemoveStep, RenameStep, UnlinkStep,
       StartStep, BackupSteps, ScanSteps, DieStep DEF FileNext
  <1> QED
    BY <1>2, <1>3

LEMMA Invariant == FileSpec => []FileIInv
  BY InitInv, NextIInv, PTL DEF FileSpec

\* Whoever reads marks.vdr or its copy meets a complete list or no file, unless
\* two processes have been inside Save together (tools.cpp, cSafeFile).
THEOREM NeverTornHolds == FileSpec => []NeverTorn
  BY Invariant, PTL DEF FileIInv

\* What a process that has the recording for itself has saved is in marks.vdr,
\* or a complete newer list waits beside it (vdr_cl.h, cConfig::Save).
THEOREM DurableSaveHolds == FileSpec => []DurableSave
  BY Invariant, PTL DEF FileIInv
-----------------------------------------------------------------------------
(* Marks that are lost.                                                    *)

\* As long as no process has died, the temporary file exists only while Save is
\* at work, and has nothing to keep when Save is about to unlink it.
CrashInv ==
    /\ crashes \in Nat
    /\ ~overlap /\ crashes = 0 =>
          /\ dir["temp"] # NoFile => \E w \in Writer : pc[w] \in SaveLabels
          /\ \A w \in Writer : pc[w] = "unlink" => ~Complete("temp")

\* What LostOnlyByReopening says of a step.
Kept ==
    Recoverable =>
        \/ Recoverable'
        \/ /\ crashes > 0 /\ dir["marks"] = NoFile /\ Complete("temp")
           /\ \E w \in Writer : pc[w] \in {"fopen", "unlink"} /\ pc'[w] # pc[w]

\* What is known of the files while no two processes have met inside Save.
LEMMA DiskFacts ==
    ASSUME FileIInv, ~overlap
    PROVE  /\ dir \in [Names -> Inode \cup {NoFile}] /\ data \in [Inode -> Contents]
           /\ fd \in [Writer -> Inode \cup {NoFile}] /\ pc \in [Writer -> Labels]
           /\ \A m, n \in Names : dir[m] = dir[n] => m = n \/ dir[m] = NoFile
           /\ \A n \in Names : dir[n] = NoFile => ~Complete(n)
           /\ \A n \in {"marks", "backup"} : dir[n] # NoFile => Complete(n)
  <1>1. /\ dir \in [Names -> Inode \cup {NoFile}] /\ data \in [Inode -> Contents]
        /\ fd \in [Writer -> Inode \cup {NoFile}] /\ pc \in [Writer -> Labels]
        /\ \A m, n \in Names : dir[m] = dir[n] => m = n \/ dir[m] = NoFile
    BY DEF FileIInv, NamesInv, TypeInv
  <1>2. \A n \in Names : dir[n] = NoFile => ~Complete(n)
    BY ConstantsLemma DEF Complete, Loaded, Contents
  <1>3. \A n \in {"marks", "backup"} : dir[n] # NoFile => Complete(n)
    <2> SUFFICES ASSUME NEW n \in {"marks", "backup"}, dir[n] # NoFile
                 PROVE  Complete(n)
      OBVIOUS
    <2>1. dir[n] \in Inode
      BY <1>1 DEF Names
    <2>2. Loaded(n) # NoFile
      BY <1>1, <2>1, ConstantsLemma DEF Loaded
    <2> QED
      BY <2>2 DEF FileIInv, NeverTorn, Complete
  <1> QED
    BY <1>1, <1>2, <1>3

\* A step outside of Save, or into it, that leaves the files alone.
LEMMA QuietKept ==
    ASSUME FileIInv, CrashInv, NEW w \in Writer, NEW l \in Labels \ SaveLabels, Goto(w, l),
           pc[w] \notin SaveLabels, UNCHANGED <<dir, data, overlap, crashes>>
    PROVE  CrashInv' /\ Kept
  <1>1. pc \in [Writer -> Labels]
    BY DEF FileIInv, TypeInv
  <1>2. /\ pc' \in [Writer -> Labels] /\ pc'[w] = l
        /\ \A v \in Writer \ {w} : pc'[v] = pc[v]
    BY <1>1 DEF Goto
  <1>3. \A v \in Writer : (pc'[v] \in SaveLabels) = (pc[v] \in SaveLabels)
    BY <1>2
  <1>4. \A v \in Writer : (pc'[v] = "unlink") = (pc[v] = "unlink")
    BY <1>2 DEF SaveLabels
  <1>5. Complete("temp")' = Complete("temp")
    BY DEF Complete, Loaded, Version
  <1>6. CrashInv'
    BY <1>3, <1>4, <1>5 DEF CrashInv
  <1>7. Kept
    BY DEF Kept, Recoverable, Complete, Loaded, Version
  <1> QED
    BY <1>6, <1>7

LEMMA ScanKept ==
    ASSUME FileIInv, CrashInv, NEW w \in Writer,
           \/ AudioToggle(w) \/ LogoToggle(w) \/ MoveAndSave(w) \/ LastSave(w)
           \/ Start(w) \/ AudioEnds(w) \/ NoLogo(w) \/ LogoEnds(w)
    PROVE  CrashInv' /\ Kept
  <1>1. PICK l \in {"fopen", "begin", "cleanup", "dropped", "done"} : Goto(w, l)
    BY DEF AudioToggle, LogoToggle, MoveAndSave, LastSave, CallSave, Start, AudioEnds,
           NoLogo, LogoEnds
  <1>2. l \in Labels \ SaveLabels
    BY DEF Labels, ScanLabels, SaveLabels
  <1>3. pc[w] \notin SaveLabels
    BY DEF AudioToggle, LogoToggle, MoveAndSave, LastSave, Start, AudioEnds, NoLogo,
           LogoEnds, SaveLabels
  <1>4. UNCHANGED <<dir, data, overlap, crashes>>
    BY DEF AudioToggle, LogoToggle, MoveAndSave, LastSave, CallSave, Start, AudioEnds,
           NoLogo, LogoEnds
  <1> QED
    BY <1>1, <1>2, <1>3, <1>4, QuietKept

\* The list that had the name marks.vdr has another one.
LEMMA BackupKept ==
    ASSUME FileIInv, CrashInv, NEW w \in Writer, Begin(w) \/ LogoFound(w), ~overlap
    PROVE  CrashInv' /\ Kept
  <1>1. PICK l \in {"audio", "dropped", "logo"} : Goto(w, l)
    BY DEF Begin, LogoFound
  <1>2. l \in Labels \ SaveLabels /\ pc[w] \notin SaveLabels
    BY DEF Begin, LogoFound, Labels, ScanLabels, SaveLabels
  <1>3. UNCHANGED <<data, overlap, crashes>> /\ Backup(w)
    BY DEF Begin, LogoFound
  <1>4. CASE UNCHANGED dir
    BY <1>1, <1>2, <1>3, <1>4, QuietKept
  <1>5. CASE /\ dir["marks"] # NoFile
             /\ dir' = [dir EXCEPT !["backup"] = dir["marks"], !["marks"] = NoFile]
    <2>1. /\ dir'["temp"] = dir["temp"] /\ dir'["backup"] = dir["marks"]
          /\ pc \in [Writer -> Labels]
      BY <1>5, DiskFacts DEF Names
    <2>2. \A v \in Writer : /\ (pc'[v] \in SaveLabels) = (pc[v] \in SaveLabels)
                            /\ (pc'[v] = "unlink") = (pc[v] = "unlink")
      BY <1>1, <1>2, <2>1 DEF Goto, SaveLabels
    <2>3. Complete("temp")' = Complete("temp")
      BY <1>3, <2>1 DEF Complete, Loaded, Version
    <2>4. CrashInv'
      BY <1>3, <2>1, <2>2, <2>3 DEF CrashInv
    <2>5. Complete("marks")
      BY <1>5, DiskFacts
    <2>6. Complete("backup")'
      BY <1>3, <1>5, <2>1, <2>5 DEF Complete, Loaded, Version
    <2> QED
      BY <2>4, <2>6 DEF Kept, Recoverable, Names
  <1> QED
    BY <1>3, <1>4, <1>5 DEF Backup

\* A step of Save that leaves marks.vdr and the copy alone loses nothing, unless
\* the only complete list was in the temporary file.
LEMMA TempKept ==
    ASSUME FileIInv, ~overlap,
           \A n \in {"marks", "backup"} :
               /\ dir'[n] = dir[n]
               /\ dir[n] # NoFile => data'[dir[n]] = data[dir[n]],
           \/ ~Complete("temp") \/ Complete("temp")'
           \/ /\ crashes > 0
              /\ \E w \in Writer : pc[w] \in {"fopen", "unlink"} /\ pc'[w] # pc[w]
    PROVE  Kept
  <1>1. \A n \in {"marks", "backup"} : dir[n] = NoFile => ~Complete(n)
    BY DiskFacts DEF Names
  <1>2. \A n \in {"marks", "backup"} : Complete(n) => Complete(n)'
    BY <1>1 DEF Complete, Loaded, Version
  <1>3. CASE Complete("marks") \/ Complete("backup") \/ Complete("temp")'
    BY <1>2, <1>3 DEF Kept, Recoverable, Names
  <1>4. CASE ~Complete("marks") /\ ~Complete("backup") /\ ~Complete("temp")
    BY <1>4 DEF Kept, Recoverable, Names
  <1>5. CASE ~Complete("marks") /\ Complete("temp") /\ ~Complete("temp")'
    BY <1>5, DiskFacts DEF Kept
  <1> QED
    BY <1>3, <1>4, <1>5

LEMMA OpenKept ==
    ASSUME FileIInv, FileIInv', CrashInv, NEW w \in Writer, Open(w), ~overlap'
    PROVE  CrashInv' /\ Kept
  <1>1. /\ pc[w] = "fopen" /\ UNCHANGED crashes
        /\ ~overlap /\ \A v \in Writer \ {w} : pc[v] \notin SaveLabels
    BY DEF Open
  <1>2. pc[w] \notin SaveLabels
    BY <1>1 DEF SaveLabels
  <1>3. crashes = 0 => dir["temp"] = NoFile
    BY <1>1, <1>2 DEF CrashInv
  <1>4. /\ pc \in [Writer -> Labels] /\ data \in [Inode -> Contents]
        /\ dir \in [Names -> Inode \cup {NoFile}]
    BY <1>1, DiskFacts
  <1>5. crashes = 0 => ~Complete("temp")
    BY <1>1, <1>3, DiskFacts DEF Names
  <1>6. CASE /\ dir' = [dir EXCEPT !["temp"] = IF @ = NoFile THEN NewInode ELSE @]
             /\ data' = [data EXCEPT ![dir'["temp"]] = Empty]
             /\ Goto(w, "fclose")
    <2>1. /\ pc'[w] = "fclose" /\ \A v \in Writer \ {w} : pc'[v] = pc[v]
      BY <1>4, <1>6 DEF Goto
    <2>2. CrashInv'
      BY <1>1, <2>1 DEF CrashInv, SaveLabels
    <2>3. \A n \in {"marks", "backup"} : dir'[n] = dir[n]
      BY <1>4, <1>6 DEF Names
    <2>4. \A n \in {"marks", "backup"} : dir[n] # NoFile => dir'["temp"] # dir[n] /\ dir[n] \in Inode
      BY <1>4, <2>3 DEF FileIInv, NamesInv, Names
    <2>5. \A n \in {"marks", "backup"} : dir[n] # NoFile => data'[dir[n]] = data[dir[n]]
      BY <1>4, <1>6, <2>4
    <2>6. Kept
      BY <1>1, <1>5, <2>1, <2>3, <2>5, TempKept DEF CrashInv
    <2> QED
      BY <2>2, <2>6
  <1>7. CASE Goto(w, "unlink") /\ UNCHANGED <<dir, data>>
    <2>1. /\ pc'[w] = "unlink" /\ \A v \in Writer \ {w} : pc'[v] = pc[v]
      BY <1>4, <1>7 DEF Goto
    <2>2. Complete("temp")' = Complete("temp")
      BY <1>7 DEF Complete, Loaded, Version
    <2>3. CrashInv'
      BY <1>1, <1>3, <1>5, <1>7, <2>1, <2>2 DEF CrashInv, SaveLabels
    <2>4. Kept
      BY <1>7 DEF Kept, Recoverable, Complete, Loaded, Version
    <2> QED
      BY <2>3, <2>4
  <1> QED
    BY <1>6, <1>7 DEF Open

\* The file that is written was empty before.
LEMMA FlushKept ==
    ASSUME FileIInv, CrashInv, NEW w \in Writer, Flush(w), ~overlap
    PROVE  CrashInv' /\ Kept
  <1>1. /\ pc[w] = "fclose" /\ UNCHANGED <<dir, overlap, crashes>>
    BY DEF Flush
  <1>2. /\ fd[w] = dir["temp"] /\ data[fd[w]] = Empty /\ fd[w] # NoFile
    BY <1>1 DEF FileIInv, TempInv
  <1>3. /\ pc \in [Writer -> Labels] /\ data \in [Inode -> Contents]
        /\ dir \in [Names -> Inode \cup {NoFile}] /\ fd[w] \in Inode
        /\ \A m, n \in Names : dir[m] = dir[n] => m = n \/ dir[m] = NoFile
    BY <1>2, DiskFacts
  <1>4. \A v \in Writer \ {w} : pc[v] \notin SaveLabels
    BY <1>1, NobodyElse DEF SaveLabels
  <1>5. PICK content \in Contents, l \in {"remove", "unlink"} :
            /\ data' = [data EXCEPT ![fd[w]] = content] /\ Goto(w, l)
            /\ l = "unlink" => content = Torn
    BY OwnLemma DEF Flush, Written, Contents
  <1>6. /\ pc'[w] = l /\ \A v \in Writer \ {w} : pc'[v] = pc[v]
    BY <1>3, <1>5 DEF Goto
  <1>7. data'[dir["temp"]] = content
    BY <1>2, <1>3, <1>5
  <1>8. l = "unlink" => ~Complete("temp")'
    BY <1>1, <1>5, <1>7, ConstantsLemma DEF Complete, Loaded, Version, Contents
  <1>9. CrashInv'
    BY <1>1, <1>4, <1>6, <1>8 DEF CrashInv, SaveLabels
  <1>10. ~Complete("temp")
    BY <1>2, ConstantsLemma DEF Complete, Loaded
  <1>11. \A n \in {"marks", "backup"} : dir[n] # NoFile => data'[dir[n]] = data[dir[n]]
    BY <1>2, <1>3, <1>5 DEF Names
  <1> QED
    BY <1>1, <1>9, <1>10, <1>11, TempKept

LEMMA RemoveKept ==
    ASSUME FileIInv, CrashInv, NEW w \in Writer, RemoveMarks(w), ~overlap
    PROVE  CrashInv' /\ Kept
  <1>1. /\ pc[w] = "remove" /\ dir' = [dir EXCEPT !["marks"] = NoFile] /\ Goto(w, "rename")
        /\ UNCHANGED <<data, overlap, crashes>>
    BY DEF RemoveMarks
  <1>2. \A v \in Writer \ {w} : pc[v] \notin SaveLabels
    BY <1>1, NobodyElse DEF SaveLabels
  <1>3. /\ dir'["temp"] = dir["temp"]
        /\ pc'[w] = "rename" /\ \A v \in Writer \ {w} : pc'[v] = pc[v]
    BY <1>1, DiskFacts DEF Names, Goto
  <1>4. CrashInv'
    BY <1>1, <1>2, <1>3 DEF CrashInv, SaveLabels
  <1>5. Complete("temp")
    BY <1>1, OwnLemma DEF FileIInv, TempInv, Complete
  <1>6. Complete("temp")'
    BY <1>1, <1>3, <1>5 DEF Complete, Loaded, Version
  <1> QED
    BY <1>4, <1>6 DEF Kept, Recoverable, Names

LEMMA RenameKept ==
    ASSUME FileIInv, CrashInv, NEW w \in Writer, Rename(w), ~overlap
    PROVE  CrashInv' /\ Kept
  <1>1. /\ pc[w] = "rename" /\ Goto(w, "unlink") /\ UNCHANGED <<data, overlap, crashes>>
    BY DEF Rename
  <1>2. \A v \in Writer \ {w} : pc[v] \notin SaveLabels
    BY <1>1, NobodyElse DEF SaveLabels
  <1>3. Loaded("temp") \in Version /\ dir["temp"] # NoFile
    BY <1>1, OwnLemma, ConstantsLemma DEF FileIInv, TempInv, Loaded, Contents
  <1>4. dir' = [dir EXCEPT !["marks"] = dir["temp"], !["temp"] = NoFile]
    BY <1>3 DEF Rename
  <1>5. /\ dir'["temp"] = NoFile /\ dir'["marks"] = dir["temp"]
        /\ pc'[w] = "unlink" /\ \A v \in Writer \ {w} : pc'[v] = pc[v]
    BY <1>1, <1>4, DiskFacts DEF Names, Goto
  <1>6. ~Complete("temp")'
    BY <1>5, ConstantsLemma DEF Complete, Loaded, Version, Contents
  <1>7. CrashInv'
    BY <1>1, <1>2, <1>5, <1>6 DEF CrashInv, SaveLabels
  <1>8. Complete("marks")'
    BY <1>1, <1>3, <1>5 DEF Complete, Loaded, Version
  <1> QED
    BY <1>7, <1>8 DEF Kept, Recoverable, Names

LEMMA UnlinkKept ==
    ASSUME FileIInv, CrashInv, NEW w \in Writer, Unlink(w), ~overlap
    PROVE  CrashInv' /\ Kept
  <1>1. /\ pc[w] = "unlink" /\ dir' = [dir EXCEPT !["temp"] = NoFile] /\ Goto(w, ret[w])
        /\ UNCHANGED <<data, overlap, crashes>>
    BY DEF Unlink
  <1>2. ret[w] \notin SaveLabels
    BY RetType DEF ScanLabels, SaveLabels
  <1>3. /\ dir'["temp"] = NoFile /\ dir'["marks"] = dir["marks"]
        /\ dir'["backup"] = dir["backup"]
        /\ pc'[w] = ret[w] /\ \A v \in Writer \ {w} : pc'[v] = pc[v]
    BY <1>1, DiskFacts DEF Names, Goto
  <1>4. \A v \in Writer \ {w} : pc[v] \notin SaveLabels
    BY <1>1, NobodyElse DEF SaveLabels
  <1>5. CrashInv'
    BY <1>1, <1>2, <1>3, <1>4 DEF CrashInv, SaveLabels
  <1>6. crashes = 0 => ~Complete("temp")
    BY <1>1 DEF CrashInv
  <1>7. pc'[w] # pc[w] /\ crashes \in Nat
    BY <1>1, <1>2, <1>3 DEF CrashInv, SaveLabels
  <1> QED
    BY <1>1, <1>3, <1>5, <1>6, <1>7, TempKept

LEMMA DieKept ==
    ASSUME FileIInv, CrashInv, NEW w \in Writer, Die(w), ~overlap
    PROVE  CrashInv' /\ Kept
  <1>1. crashes' = crashes + 1 /\ UNCHANGED <<dir, overlap>>
    BY DEF Die
  <1>2. CrashInv'
    BY <1>1 DEF CrashInv
  <1>3. ASSUME data' = data
        PROVE  Kept
    <2>1. Recoverable' = Recoverable
      BY <1>1, <1>3 DEF Recoverable, Complete, Loaded, Version
    <2> QED
      BY <2>1 DEF Kept
  <1>4. ASSUME pc[w] = "fclose", NEW content, data' = [data EXCEPT ![fd[w]] = content]
        PROVE  Kept
    <2>1. /\ fd[w] = dir["temp"] /\ data[fd[w]] = Empty /\ fd[w] # NoFile
      BY <1>4 DEF FileIInv, TempInv
    <2>2. ~Complete("temp")
      BY <2>1, ConstantsLemma DEF Complete, Loaded
    <2>3. \A n \in {"marks", "backup"} : dir[n] # NoFile => data'[dir[n]] = data[dir[n]]
      BY <1>4, <2>1, DiskFacts DEF Names
    <2> QED
      BY <1>1, <2>2, <2>3, TempKept
  <1> QED
    BY <1>2, <1>3, <1>4 DEF Die

LEMMA CrashesType ==
    ASSUME CrashInv, [FileNext]_fileVars
    PROVE  crashes' \in Nat
  BY DEF CrashInv, FileNext, fileVars, Open, Flush, RemoveMarks, Rename, Unlink, Start, Begin,
         AudioToggle, AudioEnds, NoLogo, LogoFound, LogoToggle, LogoEnds, MoveAndSave,
         LastSave, CallSave, Die

LEMMA OverlapStays ==
    ASSUME [FileNext]_fileVars, overlap
    PROVE  overlap'
  BY DEF FileNext, fileVars, Open, Flush, RemoveMarks, Rename, Unlink, Start, Begin,
         AudioToggle, AudioEnds, NoLogo, LogoFound, LogoToggle, LogoEnds, MoveAndSave,
         LastSave, CallSave, Die

LEMMA NextKept ==
    ASSUME FileIInv, FileIInv', CrashInv, [FileNext]_fileVars
    PROVE  CrashInv' /\ (~overlap' => Kept)
  <1>1. CASE overlap'
    BY <1>1, CrashesType DEF CrashInv
  <1>2. CASE ~overlap' /\ UNCHANGED fileVars
    BY <1>2 DEF fileVars, CrashInv, Kept, Recoverable, Complete, Loaded, Version
  <1>3. CASE ~overlap' /\ FileNext
    <2>1. ~overlap
      BY <1>3, OverlapStays
    <2> QED
      BY <1>3, <2>1, OpenKept, FlushKept, RemoveKept, RenameKept, UnlinkKept,
         ScanKept, BackupKept, DieKept DEF FileNext
  <1> QED
    BY <1>1, <1>2, <1>3

\* Marks that are on disk are lost in one way only: a process died between remove
\* and rename, and the next Save empties the only copy (tools.cpp, cSafeFile).
THEOREM LostOnlyByReopeningHolds == FileSpec => LostOnlyByReopening
  <1>1. FileInit => CrashInv
    <2> SUFFICES ASSUME FileInit PROVE CrashInv
      OBVIOUS
    <2>1. dir["temp"] = NoFile /\ crashes = 0 /\ \A w \in Writer : pc[w] = "idle"
      BY DEF FileInit, Names
    <2> QED
      BY <2>1 DEF CrashInv
  <1>2. FileIInv /\ FileIInv' /\ CrashInv /\ [FileNext]_fileVars => CrashInv'
    BY NextKept
  <1>3. FileIInv /\ FileIInv' /\ CrashInv /\ [FileNext]_fileVars =>
            [~overlap' /\ Recoverable =>
               \/ Recoverable'
               \/ /\ crashes > 0 /\ dir["marks"] = NoFile /\ Complete("temp")
                  /\ \E w \in Writer : pc[w] \in {"fopen", "unlink"} /\ pc'[w] # pc[w]]_fileVars
    BY NextKept DEF Kept
  <1> QED
    BY <1>1, <1>2, <1>3, Invariant, PTL DEF FileSpec, LostOnlyByReopening
=============================================================================
