--------------------------- MODULE MarkRefineProofs ---------------------------
(***************************************************************************)
(* For every index, any marks and all parameters of the searches: no       *)
(* pointer to a mark leads astray but the one of the first mark, a mark    *)
(* that has been refined is not due again, no search carries a mark past   *)
(* the next one, and of marks that are far apart none is lost and none     *)
(* swaps its place with another.                                           *)
(***************************************************************************)
EXTENDS MarkRefine, NumberTheorems, SequenceTheorems

-----------------------------------------------------------------------------
(* The index.                                                              *)

LEMMA Numbers ==
    /\ Length \in Nat /\ Limit \in Nat /\ Gop \in Nat \ {0}
    /\ Before \in Nat /\ After \in Nat /\ BeforeOn \in Nat /\ FrameBack \in Nat
    /\ FrameForward \in Nat /\ LineBack \in Nat /\ LineForward \in Nat /\ OffBack \in Nat
    /\ Lead \in Nat /\ Skip \in Nat /\ Rest \in Nat /\ Gap \in Nat
    /\ Similar \in Nat /\ OverlapOk \in Nat /\ NotOk \in Nat /\ Into \in Nat
    /\ SoundRange \in Nat /\ SoundGap \in Nat /\ MinMark \in Nat
  BY MarkRefineAssumption, MarkCleanupAssumption

\* How the numbers are related in the code.
LEMMA Relations ==
    /\ Gop <= OverlapOk /\ Skip + Gop + Limit <= After
    /\ Lead < Skip /\ Skip < BeforeOn /\ BeforeOn < After /\ FrameBack + Lead < BeforeOn
  BY MarkRefineAssumption

LEMMA FramesAreNumbers ==
    /\ \A i \in IFrames : i \in Nat /\ i <= Length
    /\ 0 \in IFrames
    /\ \A S \in SUBSET IFrames : S \in SUBSET Nat /\ IsFiniteSet(S) /\ Cardinality(S) \in Nat
  <1>1. \A i \in IFrames : i \in Nat /\ i <= Length
    BY Numbers DEF IFrames, Frames
  <1>2. 0 \in IFrames
    <2>1. \A g \in Nat \ {0} : 0 % g = 0
      OBVIOUS
    <2> QED
      BY <2>1, Numbers DEF IFrames, Frames
  <1>3. ASSUME NEW S \in SUBSET IFrames
        PROVE  S \in SUBSET Nat /\ IsFiniteSet(S) /\ Cardinality(S) \in Nat
    <2>1. S \in SUBSET Nat
      BY <1>1
    <2>2. \A s \in S : s <= Length
      BY <1>1
    <2>3. IsFiniteSet(S)
      BY <2>1, <2>2, Numbers, FS_BoundedSetOfNaturals
    <2> QED
      BY <2>1, <2>3, FS_CardinalityType
  <1> QED
    BY <1>1, <1>2, <1>3

\* The multiples of the distance around a number.
LEMMA MultipleLemma ==
    ASSUME NEW g \in Nat \ {0}, NEW i \in Int
    PROVE  /\ i \div g \in Int
           /\ g * (i \div g) \in Int /\ g * (i \div g) <= i /\ i < g * (i \div g) + g
           /\ (g * (i \div g)) % g = 0
           /\ g * (i \div g + 1) = g * (i \div g) + g
           /\ (g * (i \div g) + g) % g = 0
  <1> DEFINE k == i \div g
  <1>1. k \in Int /\ g * k <= i /\ i < g * k + g
    BY Z3
  <1> HIDE DEF k
  <1>2. g * k \in Int /\ g * (k + 1) = g * k + g
    BY <1>1, Z3
  <1>3. \A n \in Int : (g * n) % g = 0
    BY Z3
  <1>4. (g * (k + 1)) % g = 0
    BY <1>1, <1>3
  <1> QED
    BY <1>1, <1>2, <1>3, <1>4 DEF k

LEMMA NextMultiple ==
    ASSUME NEW g \in Nat \ {0}, NEW i \in Int, NEW q \in Int, q % g = 0, i < q
    PROVE  g * (i \div g) + g <= q
  <1> DEFINE k == i \div g
             n == q \div g
  <1>1. k \in Int /\ g * k <= i /\ i < g * k + g
    BY Z3
  <1>2. n \in Int /\ q = g * n
    BY Z3
  <1> HIDE DEF k, n
  <1>3. CASE n <= k
    <2>1. g * n <= g * k
      BY <1>1, <1>2, <1>3, Z3
    <2> QED
      BY <1>1, <1>2, <2>1, Z3
  <1>4. CASE k + 1 <= n
    <2>1. g * (k + 1) <= g * n
      BY <1>1, <1>2, <1>4, Z3
    <2>2. g * (k + 1) = g * k + g
      BY <1>1, Z3
    <2> QED
      BY <1>2, <2>1, <2>2 DEF k
  <1> QED
    BY <1>1, <1>2, <1>3, <1>4

\* The I-frame behind a number is the first one there.
LEMMA NextILemma ==
    ASSUME NEW i \in Int
    PROVE  /\ NextI(i) = None \/ (NextI(i) \in IFrames /\ i < NextI(i) /\ NextI(i) <= i + Gop)
           /\ NextI(i) # None => \A q \in IFrames : i < q => NextI(i) <= q
           /\ i >= -1 /\ i + Gop < Length - Limit => NextI(i) # None
           /\ NextI(i) # None /\ i >= 0 /\ i \notin IFrames => NextI(i) < i + Gop
           /\ NextI(i) # None => NextI(i) < Length
  <1> DEFINE j == Gop * (i \div Gop) + Gop
  <1>1. /\ Gop * (i \div Gop + 1) = j /\ j % Gop = 0 /\ j \in Int
        /\ i < j /\ j <= i + Gop
        /\ j = i + Gop => i % Gop = 0
    BY Numbers, MultipleLemma
  <1>2. \A q \in IFrames : q \in Int /\ q % Gop = 0
    BY FramesAreNumbers DEF IFrames
  <1>3. \A q \in IFrames : i < q => j <= q
    BY <1>2, Numbers, NextMultiple
  <1>4. NextI(i) = IF 0 <= j /\ j < Length - Limit THEN j ELSE None
    BY <1>1 DEF NextI, Behind
  <1> HIDE DEF j
  <1>5. 0 <= j /\ j < Length - Limit => j \in IFrames
    BY <1>1, Numbers DEF IFrames, Frames
  <1>6. 0 <= j /\ j < Length - Limit /\ i >= 0 /\ i % Gop = 0 => i \in IFrames
    BY <1>1, Numbers DEF IFrames, Frames
  <1> QED
    BY <1>1, <1>3, <1>4, <1>5, <1>6, Numbers DEF None

\* The same up to the end of the index.
LEMMA NextToEndLemma ==
    ASSUME NEW i \in Int, NextToEnd(i) # None
    PROVE  NextToEnd(i) \in IFrames /\ i < NextToEnd(i) /\ NextToEnd(i) <= i + Gop
  <1> DEFINE j == Gop * (i \div Gop) + Gop
  <1>1. /\ Gop * (i \div Gop + 1) = j /\ j % Gop = 0 /\ j \in Int
        /\ i < j /\ j <= i + Gop
        /\ j = i + Gop => i % Gop = 0
    BY Numbers, MultipleLemma
  <1>2. NextToEnd(i) = j /\ 0 <= j /\ j < Length
    BY <1>1 DEF NextToEnd, Behind
  <1> HIDE DEF j
  <1>3. j \in IFrames
    BY <1>1, <1>2, Numbers DEF IFrames, Frames
  <1> QED
    BY <1>1, <1>2, <1>3

\* The I-frame before a number is the last one there.
LEMMA PrevILemma ==
    ASSUME NEW i \in Int
    PROVE  /\ PrevI(i) = None \/ (PrevI(i) \in IFrames /\ PrevI(i) < i)
           /\ i \in 1..Length => /\ PrevI(i) # None /\ i <= PrevI(i) + Gop
                                 /\ \A q \in IFrames : q < i => q <= PrevI(i)
           /\ i \notin 1..Length => PrevI(i) = None
  <1> DEFINE j == Gop * ((i - 1) \div Gop)
  <1>1. /\ j % Gop = 0 /\ j \in Int /\ j <= i - 1 /\ i - 1 < j + Gop
    <2>1. i - 1 \in Int
      OBVIOUS
    <2> QED
      BY <2>1, Numbers, MultipleLemma
  <1>2. \A q \in IFrames : q \in Int /\ q % Gop = 0
    BY FramesAreNumbers DEF IFrames
  <1>3. ASSUME NEW q \in IFrames, q < i
        PROVE  q <= j
    <2>1. CASE j < q
      <3>1. j \div Gop = (i - 1) \div Gop
        <4> DEFINE k == (i - 1) \div Gop
        <4>1. k \in Int /\ k * Gop = j
          BY Numbers, Z3
        <4>2. k * Gop <= j /\ j < k * Gop + Gop
          BY <1>1, <4>1, Numbers
        <4> HIDE DEF k, j
        <4>3. j \div Gop = k
          BY <1>1, <4>1, <4>2, Numbers, DivUnique
        <4> QED
          BY <4>3 DEF k
      <3>2. Gop * (j \div Gop) + Gop <= q
        BY <1>1, <1>2, <2>1, Numbers, NextMultiple
      <3>3. j + Gop <= q
        BY <3>1, <3>2
      <3> HIDE DEF j
      <3> QED
        BY <1>1, <1>2, <1>3, <3>3, Numbers
    <2> HIDE DEF j
    <2> QED
      BY <1>1, <1>2, <2>1
  <1>4. PrevI(i) = IF i \in 1..Length THEN j ELSE None
    BY DEF PrevI
  <1> HIDE DEF j
  <1>5. i \in 1..Length => 0 <= j
    BY <1>3, FramesAreNumbers
  <1>6. i \in 1..Length => j \in IFrames
    BY <1>1, <1>5, Numbers DEF IFrames, Frames
  <1> QED
    BY <1>1, <1>3, <1>4, <1>5, <1>6, Numbers DEF None

LEMMA IFrameForLemma ==
    ASSUME NEW i \in Int
    PROVE  /\ IFrameFor(i) = None \/ IFrameFor(i) \in IFrames
           /\ i >= 0 /\ IFrameFor(i) # None => i <= IFrameFor(i) /\ IFrameFor(i) < i + Gop
           /\ i < 0 => IFrameFor(i) = 0
  <1>1. CASE i < 0
    BY <1>1, FramesAreNumbers DEF IFrameFor
  <1>2. CASE i >= 0 /\ i \in IFrames /\ i < Length
    BY <1>2, Numbers DEF IFrameFor
  <1>3. CASE i >= 0 /\ ~(i \in IFrames /\ i < Length)
    <2>1. IFrameFor(i) = NextI(i)
      BY <1>3 DEF IFrameFor
    <2>2. CASE NextI(i) = None
      BY <1>3, <2>1, <2>2
    <2>3. CASE NextI(i) # None /\ i \notin IFrames
      <3>1. NextI(i) \in IFrames /\ i < NextI(i) /\ NextI(i) <= i + Gop
        BY <2>3, NextILemma
      <3>2. NextI(i) < i + Gop
        BY <1>3, <2>3, NextILemma
      <3> QED
        BY <1>3, <2>1, <3>1, <3>2, Numbers, FramesAreNumbers
    <2>4. CASE NextI(i) # None /\ i \in IFrames
      <3>1. NextI(i) \in IFrames /\ i < NextI(i)
        BY <2>4, NextILemma
      <3>2. NextI(i) \in Nat /\ NextI(i) <= Length /\ ~(i < Length)
        BY <1>3, <2>4, <3>1, FramesAreNumbers
      <3> QED
        BY <3>1, <3>2, Numbers
    <2> QED
      BY <2>2, <2>3, <2>4
  <1> QED
    BY <1>1, <1>2, <1>3

-----------------------------------------------------------------------------
(* The list of marks.                                                      *)

\* The least and the greatest of a set of numbers, or none.
LEMMA MinOrLemma ==
    ASSUME NEW S \in SUBSET Nat
    PROVE  IF S = {} THEN MinOr(S) = None
           ELSE MinOr(S) \in S /\ \A q \in S : MinOr(S) <= q
  BY LeastElement DEF MinOr

LEMMA MaxOrLemma ==
    ASSUME NEW n \in Nat, NEW S \in SUBSET (0..n)
    PROVE  IF S = {} THEN MaxOr(S) = None
           ELSE MaxOr(S) \in S /\ \A q \in S : q <= MaxOr(S)
  BY GreatestElement DEF MaxOr

LEMMA GetNextLemma ==
    ASSUME NEW L, L.at \in SUBSET IFrames, NEW p
    PROVE  /\ GetNext(L, p) = None \/ (GetNext(L, p) \in L.at /\ p < GetNext(L, p))
           /\ GetNext(L, p) = None => \A q \in L.at : ~(p < q)
           /\ GetNext(L, p) # None => \A q \in L.at : p < q => GetNext(L, p) <= q
  <1> DEFINE S == {q \in L.at : p < q}
  <1>1. S \in SUBSET Nat
    BY FramesAreNumbers
  <1>2. GetNext(L, p) = MinOr(S)
    BY DEF GetNext
  <1>3. IF S = {} THEN MinOr(S) = None ELSE MinOr(S) \in S /\ \A q \in S : MinOr(S) <= q
    BY <1>1, MinOrLemma
  <1>4. \A q \in L.at : q # None
    BY FramesAreNumbers DEF None
  <1> QED
    BY <1>2, <1>3, <1>4

LEMMA GetPrevLemma ==
    ASSUME NEW L, L.at \in SUBSET IFrames, NEW p
    PROVE  /\ GetPrev(L, p) = None \/ (GetPrev(L, p) \in L.at /\ GetPrev(L, p) < p)
           /\ GetPrev(L, p) = None => \A q \in L.at : ~(q < p)
           /\ GetPrev(L, p) # None => \A q \in L.at : q < p => q <= GetPrev(L, p)
  <1> DEFINE S == {q \in L.at : q < p}
  <1>1. S \in SUBSET (0..Length)
    BY FramesAreNumbers, Numbers
  <1>2. GetPrev(L, p) = MaxOr(S)
    BY DEF GetPrev
  <1>3. IF S = {} THEN MaxOr(S) = None ELSE MaxOr(S) \in S /\ \A q \in S : q <= MaxOr(S)
    BY <1>1, Numbers, MaxOrLemma
  <1>4. \A q \in L.at : q # None
    BY FramesAreNumbers DEF None
  <1> QED
    BY <1>2, <1>3, <1>4

LEMMA MovedAt ==
    ASSUME NEW L, L.at \in SUBSET IFrames, NEW p, NEW new \in IFrames
    PROVE  /\ Moved(L, p, new).at = (L.at \ {p}) \cup {new}
           /\ Moved(L, p, new).at \in SUBSET IFrames
           /\ Moved(L, p, new).at # {}
  BY DEF Moved

\* One more or one less.
LEMMA MovedCardinality ==
    ASSUME NEW S \in SUBSET IFrames, NEW p \in S, NEW new \in IFrames
    PROVE  Cardinality((S \ {p}) \cup {new}) =
               IF new \in S \ {p} THEN Cardinality(S) - 1 ELSE Cardinality(S)
  <1>1. IsFiniteSet(S) /\ Cardinality(S) \in Nat
    BY FramesAreNumbers
  <1>2. IsFiniteSet(S \ {p}) /\ Cardinality(S \ {p}) = Cardinality(S) - 1
    BY <1>1, FS_RemoveElement
  <1>3. Cardinality((S \ {p}) \cup {new}) =
            IF new \in S \ {p} THEN Cardinality(S \ {p}) ELSE Cardinality(S \ {p}) + 1
    BY <1>2, FS_AddElement
  <1> QED
    BY <1>1, <1>2, <1>3

\* The places of the marks are in the order of the positions.
LEMMA PlaceLemma ==
    ASSUME NEW L, L.at \in SUBSET IFrames, NEW p \in L.at
    PROVE  /\ Place(L, p) \in 1..Cardinality(L.at)
           /\ \A q \in L.at : p < q => Place(L, p) < Place(L, q)
           /\ GetNext(L, p) # None => Place(L, GetNext(L, p)) = Place(L, p) + 1
           /\ GetNext(L, p) = None => Place(L, p) = Cardinality(L.at)
  <1> DEFINE U(q) == {r \in L.at : r <= q}
  <1>1. \A q \in L.at : q \in Nat
    BY FramesAreNumbers
  <1>2. ASSUME NEW q \in L.at
        PROVE  /\ IsFiniteSet(U(q)) /\ Cardinality(U(q)) \in Nat
               /\ Cardinality(U(q)) <= Cardinality(L.at) /\ Cardinality(L.at) \in Nat
               /\ Cardinality(U(q)) = Place(L, q)
    BY FramesAreNumbers, FS_Subset, FS_CardinalityType DEF Place
  <1>3. Place(L, p) # 0
    <2>1. p \in U(p)
      BY <1>1
    <2> QED
      BY <1>2, <2>1, FS_EmptySet
  <1>4. ASSUME NEW q \in L.at, p < q
        PROVE  Place(L, p) < Place(L, q)
    <2>1. U(p) \in SUBSET U(q) /\ q \in U(q) /\ q \notin U(p)
      BY <1>1, <1>4
    <2> HIDE DEF U
    <2>2. Cardinality(U(p)) <= Cardinality(U(q)) /\ Cardinality(U(p)) # Cardinality(U(q))
      BY <1>2, <2>1, FS_Subset
    <2> QED
      BY <1>2, <2>2
  <1>5. ASSUME GetNext(L, p) # None
        PROVE  Place(L, GetNext(L, p)) = Place(L, p) + 1
    <2> DEFINE n == GetNext(L, p)
    <2>1. n \in L.at /\ p < n /\ \A q \in L.at : p < q => n <= q
      BY <1>5, GetNextLemma
    <2> HIDE DEF n
    <2>2. U(n) = U(p) \cup {n} /\ n \notin U(p)
      BY <1>1, <2>1
    <2> HIDE DEF U
    <2>3. Cardinality(U(n)) = Cardinality(U(p)) + 1
      BY <1>2, <2>2, FS_AddElement
    <2> QED
      BY <1>2, <2>1, <2>3 DEF n
  <1>6. ASSUME GetNext(L, p) = None
        PROVE  Place(L, p) = Cardinality(L.at)
    <2>1. U(p) = L.at
      BY <1>1, <1>6, GetNextLemma
    <2> QED
      BY <1>2, <2>1
  <1>7. Place(L, p) \in 1..Cardinality(L.at)
    <2> HIDE DEF U
    <2> QED
      BY <1>2, <1>3
  <1> QED
    BY <1>4, <1>5, <1>6, <1>7

\* The flags of the marks, as many as there are.
Flagged(L) ==
    /\ L \in [at : SUBSET IFrames, checked : Seq(BOOLEAN)]
    /\ Len(L.checked) = Cardinality(L.at)

LEMMA DeletedLemma ==
    ASSUME NEW s \in Seq(BOOLEAN), NEW k \in 1..Len(s)
    PROVE  Deleted(s, k) \in Seq(BOOLEAN) /\ Len(Deleted(s, k)) = Len(s) - 1
  <1> DEFINE n == Len(s) - 1
  <1>1. n \in Nat
    OBVIOUS
  <1>2. \A i \in 1..n : (IF i < k THEN s[i] ELSE s[i + 1]) \in BOOLEAN
    OBVIOUS
  <1>3. Deleted(s, k) \in [1..n -> BOOLEAN]
    BY <1>2, Zenon DEF Deleted
  <1> HIDE DEF n
  <1>4. Deleted(s, k) \in Seq(BOOLEAN) /\ Len(Deleted(s, k)) = n
    BY <1>1, <1>3
  <1> QED
    BY <1>4 DEF n

LEMMA MovedFlagged ==
    ASSUME NEW L, Flagged(L), NEW p \in L.at, NEW new \in IFrames
    PROVE  Flagged(Moved(L, p, new))
  <1> DEFINE s == Deleted(L.checked, Place(L, p))
             merged == new \in L.at \ {p}
  <1>1. Place(L, p) \in 1..Len(L.checked) /\ Cardinality(L.at) \in Nat
    BY PlaceLemma, FramesAreNumbers DEF Flagged
  <1>2. s \in Seq(BOOLEAN) /\ Len(s) = Cardinality(L.at) - 1
    BY <1>1, DeletedLemma DEF Flagged
  <1>3. Append(s, FALSE) \in Seq(BOOLEAN) /\ Len(Append(s, FALSE)) = Cardinality(L.at)
    <2> HIDE DEF s
    <2> QED
      BY <1>1, <1>2
  <1>4. /\ Moved(L, p, new).at = (L.at \ {p}) \cup {new}
        /\ Moved(L, p, new).checked = IF merged THEN s ELSE Append(s, FALSE)
    BY DEF Moved
  <1>5. Cardinality(Moved(L, p, new).at) =
            IF merged THEN Cardinality(L.at) - 1 ELSE Cardinality(L.at)
    BY <1>4, MovedCardinality DEF Flagged
  <1>6. Moved(L, p, new).at \in SUBSET IFrames
    BY <1>4 DEF Flagged
  <1>7. Moved(L, p, new) = [at |-> Moved(L, p, new).at, checked |-> Moved(L, p, new).checked]
    BY Zenon DEF Moved
  <1> HIDE DEF s, merged
  <1>8. Moved(L, p, new).checked \in Seq(BOOLEAN)
    BY <1>2, <1>3, <1>4
  <1>9. Moved(L, p, new) \in [at : SUBSET IFrames, checked : Seq(BOOLEAN)]
    BY <1>6, <1>7, <1>8, Zenon
  <1> QED
    BY <1>2, <1>3, <1>4, <1>5, <1>9 DEF Flagged

-----------------------------------------------------------------------------
(* The searches around one mark.                                           *)

LEMMA IFramesAtLemma ==
    ASSUME NEW found \in SUBSET Int, NEW new \in IFramesAt(found)
    PROVE  /\ new \in IFrames
           /\ \E b \in found \ {0} : /\ new = NextI(b - 1) /\ b <= new
                                     /\ \A q \in IFrames : b <= q => new <= q
  <1>1. PICK b \in found \ {0} : new = NextI(b - 1) /\ new # None
    BY DEF IFramesAt
  <1>2. b - 1 \in Int
    BY <1>1
  <1>3. /\ new \in IFrames /\ b - 1 < new
        /\ \A q \in IFrames : b - 1 < q => new <= q
    BY <1>1, <1>2, NextILemma
  <1>4. b <= new /\ \A q \in IFrames : b <= q => new <= q
    BY <1>2, <1>3, FramesAreNumbers
  <1> QED
    BY <1>1, <1>3, <1>4

LEMMA SpanLemma ==
    ASSUME NEW from \in Int, NEW end \in Int
    PROVE  /\ Span(from, end) \in SUBSET Int
           /\ \A b \in Span(from, end) : 0 <= b /\ from <= b /\ b < end
  <1>1. CASE IFrameFor(from) = None
    BY <1>1 DEF Span
  <1>2. CASE IFrameFor(from) # None
    <2>1. IFrameFor(from) \in Nat
      BY <1>2, IFrameForLemma, FramesAreNumbers
    <2>2. Span(from, end) = IFrameFor(from)..(end - 1)
      BY <1>2 DEF Span
    <2>3. from <= IFrameFor(from)
      BY <1>2, <2>1, IFrameForLemma
    <2> QED
      BY <2>1, <2>2, <2>3
  <1> QED
    BY <1>1, <1>2

\* Black lines behind a mark take it back.
LEMMA LinesBehindLemma ==
    ASSUME NEW p \in IFrames, NEW time \in Int, NEW new \in LinesBehind(p, time)
    PROVE  new \in IFrames /\ new < p
  <1>1. p \in Nat /\ p - time - 1 \in Int
    BY FramesAreNumbers
  <1>2. new \in IFramesAt(Span(p - time - 1, p)) /\ new # p
    BY DEF LinesBehind
  <1>3. PICK b \in Span(p - time - 1, p) : b <= new /\ \A q \in IFrames : b <= q => new <= q
    BY <1>1, <1>2, IFramesAtLemma, SpanLemma
  <1>4. b \in Int /\ b < p
    BY <1>1, <1>3, SpanLemma
  <1>5. new \in IFrames
    BY <1>1, <1>2, IFramesAtLemma, SpanLemma
  <1> QED
    BY <1>1, <1>2, <1>3, <1>4, <1>5, FramesAreNumbers

\* How far a search goes: not past the neighbouring mark.
LEMMA LimitedLemma ==
    ASSUME NEW time \in Nat, NEW neighbour \in IFrames \cup {None}, NEW p \in IFrames
    PROVE  /\ Limited(time, neighbour, p) \in Nat /\ Limited(time, neighbour, p) <= time
           /\ neighbour # None /\ p < neighbour => p + Limited(time, neighbour, p) <= neighbour
  <1>1. p \in Nat /\ neighbour \in Int
    BY FramesAreNumbers DEF None
  <1> QED
    BY <1>1, Numbers DEF Limited

\* Black lines ahead of a mark take it on at most to the next one.
LEMMA LinesAheadLemma ==
    ASSUME NEW p \in IFrames, NEW time \in Nat, NEW new \in LinesAhead(p, time)
    PROVE  /\ new \in IFrames /\ new # p
           /\ \A q \in IFrames : p + time <= q => new <= q
  <1>1. p \in Nat /\ p - 1 \in Int /\ p + time \in Int
    BY FramesAreNumbers
  <1>2. new \in IFramesAt(Span(p - 1, p + time)) /\ new # p
    BY DEF LinesAhead
  <1>3. PICK b \in Span(p - 1, p + time) : b <= new /\ \A q \in IFrames : b <= q => new <= q
    BY <1>1, <1>2, IFramesAtLemma, SpanLemma
  <1>4. b \in Int /\ b < p + time
    BY <1>1, <1>3, SpanLemma
  <1>5. new \in IFrames
    BY <1>1, <1>2, IFramesAtLemma, SpanLemma
  <1> QED
    BY <1>1, <1>2, <1>3, <1>4, <1>5, FramesAreNumbers

\* Black frames: where they are looked for.
LEMMA BlackLemma ==
    ASSUME NEW L, L.at \in SUBSET IFrames, NEW p \in L.at
    PROVE  /\ BlackBehind(p) \in SUBSET Int /\ \A b \in BlackBehind(p) : b < p
           /\ BlackAhead(L, p) \in SUBSET Int /\ AheadEnd(L, p) \in Nat
           /\ GetNext(L, p) # None => AheadEnd(L, p) <= GetNext(L, p)
  <1>1. p \in Nat /\ p - FrameBack - 1 \in Int /\ p - 1 \in Int
    BY FramesAreNumbers, Numbers
  <1>2. GetNext(L, p) = None \/ GetNext(L, p) \in Nat
    BY GetNextLemma, FramesAreNumbers
  <1>3. /\ AheadEnd(L, p) \in Nat
        /\ GetNext(L, p) # None => AheadEnd(L, p) <= GetNext(L, p)
    <2>1. CASE GetNext(L, p) = None
      BY <1>1, <2>1, Numbers DEF AheadEnd
    <2>2. CASE GetNext(L, p) # None
      <3> DEFINE a == p + FrameForward
                 n == GetNext(L, p)
      <3>1. a \in Nat /\ n \in Nat
        BY <1>1, <1>2, <2>2, Numbers
      <3>2. AheadEnd(L, p) = Min({a, n})
        BY <2>2 DEF AheadEnd
      <3> HIDE DEF a, n
      <3>3. AheadEnd(L, p) \in Nat /\ AheadEnd(L, p) <= n
        BY <3>1, <3>2, LeastOfTwo
      <3> QED
        BY <3>3 DEF n
    <2> QED
      BY <2>1, <2>2
  <1>4. BlackBehind(p) \in SUBSET Int /\ \A b \in BlackBehind(p) : b < p
    BY <1>1, SpanLemma DEF BlackBehind
  <1>5. BlackAhead(L, p) \in SUBSET Int
    BY <1>1, <1>3, SpanLemma DEF BlackAhead
  <1> QED
    BY <1>3, <1>4, <1>5

LEMMA ToBlackLemma ==
    ASSUME NEW L, L.at \in SUBSET IFrames, NEW p \in L.at, NEW b \in Int, NEW end \in Int
    PROVE  /\ ToBlack(L, p, b, end).at \in SUBSET IFrames
           /\ \/ ToBlack(L, p, b, end) = L
              \/ \E new \in IFrames : new < end /\ ToBlack(L, p, b, end) = Moved(L, p, new)
  <1> DEFINE new == NextI(b - 1)
  <1>1. new = None \/ new \in IFrames
    <2>1. b - 1 \in Int
      OBVIOUS
    <2> QED
      BY <2>1, NextILemma
  <1>2. ToBlack(L, p, b, end) = IF 0 < new /\ new < end THEN Moved(L, p, new) ELSE L
    BY DEF ToBlack
  <1> HIDE DEF new
  <1>3. CASE 0 < new /\ new < end
    <2>1. new \in IFrames
      BY <1>1, <1>3 DEF None
    <2> QED
      BY <1>2, <1>3, <2>1, MovedAt
  <1>4. CASE ~(0 < new /\ new < end)
    BY <1>2, <1>4
  <1> QED
    BY <1>3, <1>4

-----------------------------------------------------------------------------
(* The pictures of checkMarkPair.                                          *)

\* I-frames are a whole distance apart.
LEMMA GapLemma ==
    ASSUME NEW p \in IFrames, NEW q \in IFrames, p < q
    PROVE  p + Gop <= q
  <1>1. /\ p \in Int /\ q \in Int /\ p % Gop = 0 /\ q % Gop = 0
    BY FramesAreNumbers DEF IFrames
  <1>2. Gop * (p \div Gop) + Gop <= q
    BY <1>1, Numbers, NextMultiple
  <1>3. \A g \in Nat \ {0} : \A x \in Int : x % g = 0 => g * (x \div g) = x
    BY Z3
  <1> QED
    BY <1>1, <1>2, <1>3, Numbers

\* The first picture is at the beginning or behind it, or there is none and
\* the pictures are those from the start of the recording.
LEMMA PicsLemma ==
    ASSUME NEW start \in Int, NEW num \in Int
    PROVE  LET pics == Pics(start, num)
           IN  /\ pics.first \in IFrames /\ pics.num \in Nat
               /\ pics.num > 0 => pics.num <= num /\ pics.first + pics.num <= Length
               /\ start >= 0 => pics.first = 0 \/ (start <= pics.first /\ pics.first < start + Gop)
               /\ start \in IFrames => pics.first <= start
               /\ start >= 0 /\ start + Gop < Length - Limit => start <= pics.first
  <1> DEFINE first == IF start \in IFrames /\ start < Length THEN start
                      ELSE IFrameFor(NextI(start))
             few == Min({num, Length - first})
  <1>1. Pics(start, num) = [first |-> first, num |-> Max({0, few})]
    BY DEF Pics
  <1>2. IFrameFor(NextI(start)) = IF NextI(start) = None THEN 0 ELSE NextI(start)
    <2>1. CASE NextI(start) = None
      BY <2>1, IFrameForLemma DEF None
    <2>2. CASE NextI(start) # None
      <3>1. NextI(start) \in IFrames /\ NextI(start) < Length
        BY <2>2, NextILemma
      <3> QED
        BY <2>2, <3>1, FramesAreNumbers DEF IFrameFor
    <2> QED
      BY <2>1, <2>2
  <1>3. first \in IFrames
    BY <1>2, NextILemma, FramesAreNumbers
  <1>4. start >= 0 => first = 0 \/ (start <= first /\ first < start + Gop)
    <2>1. CASE start \in IFrames /\ start < Length
      BY <2>1, Numbers
    <2>2. CASE ~(start \in IFrames /\ start < Length) /\ NextI(start) # None
      <3>1. NextI(start) \in IFrames /\ start < NextI(start) /\ NextI(start) < Length
        BY <2>2, NextILemma
      <3>2. NextI(start) \in Nat
        BY <3>1, FramesAreNumbers
      <3>3. start \notin IFrames
        BY <2>2, <3>1, <3>2, Numbers
      <3>4. start >= 0 => NextI(start) < start + Gop
        BY <2>2, <3>3, NextILemma
      <3> QED
        BY <1>2, <2>2, <3>1, <3>2, <3>4
    <2>3. CASE ~(start \in IFrames /\ start < Length) /\ NextI(start) = None
      BY <1>2, <2>3
    <2> QED
      BY <2>1, <2>2, <2>3
  <1>5. start \in IFrames => first <= start
    <2> SUFFICES ASSUME start \in IFrames
                 PROVE  first <= start
      OBVIOUS
    <2>1. start \in Nat /\ start <= Length
      BY FramesAreNumbers
    <2>2. CASE start < Length
      BY <2>1, <2>2
    <2>3. CASE ~(start < Length)
      <3>1. NextI(start) = None
        <4>1. SUFFICES ASSUME NextI(start) # None
                       PROVE  FALSE
          OBVIOUS
        <4>2. NextI(start) \in IFrames /\ start < NextI(start) /\ NextI(start) < Length
          BY <4>1, NextILemma
        <4>3. NextI(start) \in Nat
          BY <4>2, FramesAreNumbers
        <4> QED
          BY <2>3, <4>2, <4>3, Numbers
      <3> QED
        BY <1>2, <2>1, <2>3, <3>1
    <2> QED
      BY <2>2, <2>3
  <1>6. start >= 0 /\ start + Gop < Length - Limit => start <= first
    <2> SUFFICES ASSUME start >= 0, start + Gop < Length - Limit
                 PROVE  start <= first
      OBVIOUS
    <2>1. NextI(start) # None /\ start < NextI(start)
      BY NextILemma
    <2>2. NextI(start) \in Nat
      BY <2>1, NextILemma, FramesAreNumbers
    <2> QED
      BY <1>2, <2>1, <2>2
  <1>7. first \in Nat /\ Length - first \in Int
    BY <1>3, FramesAreNumbers, Numbers
  <1> HIDE DEF first
  <1>8. few \in Int /\ few <= num /\ few <= Length - first
    BY <1>7, LeastOfTwo
  <1> HIDE DEF few
  <1>9. Max({0, few}) = IF 0 >= few THEN 0 ELSE few
    BY <1>8, GreatestOfTwo
  <1>10. /\ Max({0, few}) \in Nat
         /\ Max({0, few}) > 0 => Max({0, few}) <= num /\ first + Max({0, few}) <= Length
    BY <1>7, <1>8, <1>9, Numbers
  <1> QED
    BY <1>1, <1>3, <1>4, <1>5, <1>6, <1>10

LEMMA GreatestOfThree ==
    ASSUME NEW a \in Int, NEW b \in Int, NEW c \in Int
    PROVE  /\ Max({a, b, c}) \in {a, b, c}
           /\ a <= Max({a, b, c}) /\ b <= Max({a, b, c}) /\ c <= Max({a, b, c})
  <1> DEFINE S == {a, b, c}
  <1>1. \E x \in S : \A y \in S : x >= y
    OBVIOUS
  <1>2. Max(S) \in S /\ \A y \in S : Max(S) >= y
    BY <1>1 DEF Max
  <1> QED
    BY <1>2

\* Where the pictures before a mark begin and how many are wanted.
LEMMA StartBeforeLemma ==
    ASSUME NEW L, L.at \in SUBSET IFrames, NEW p \in L.at
    PROVE  LET s == StartBefore(L, p) n == NumBefore(L, p) next == GetNext(L, p)
           IN  /\ s \in Nat /\ n \in Int /\ n <= Before
               /\ p - (Before + Lead) <= s /\ s <= p
               /\ GetPrev(L, p) <= s
               /\ s = p - (Before + Lead) \/ s \in IFrames
               /\ n = Before \/ (next # None /\ s + n = next - Skip)
               /\ next # None => s + n <= next
  <1> DEFINE a == p - (Before + Lead)
             q == GetPrev(L, p)
             s == StartBefore(L, p)
             next == GetNext(L, p)
  <1>1. p \in Nat /\ a \in Int /\ a <= p
    BY FramesAreNumbers, Numbers
  <1>2. q \in Int /\ q < p /\ (q = None \/ q \in IFrames)
    BY <1>1, GetPrevLemma, FramesAreNumbers DEF None
  <1>3. next \in Int
    BY <1>1, GetNextLemma, FramesAreNumbers DEF None
  <1>4. s = Max({0, a, q})
    BY DEF StartBefore
  <1>5. NumBefore(L, p) = IF next # None /\ s + Before > next THEN next - s - Skip ELSE Before
    BY DEF NumBefore
  <1> HIDE DEF a, q, s, next
  <1>6. s \in {0, a, q} /\ 0 <= s /\ a <= s /\ q <= s
    <2>1. 0 \in Int
      OBVIOUS
    <2>2. /\ Max({0, a, q}) \in {0, a, q}
          /\ 0 <= Max({0, a, q}) /\ a <= Max({0, a, q}) /\ q <= Max({0, a, q})
      BY <1>1, <1>2, <2>1, GreatestOfThree, Zenon
    <2> QED
      BY <1>4, <2>2
  <1>7. s \in Nat /\ s <= p /\ (s = a \/ s \in IFrames)
    BY <1>1, <1>2, <1>6, FramesAreNumbers DEF None
  <1>8. /\ NumBefore(L, p) \in Int /\ NumBefore(L, p) <= Before
        /\ NumBefore(L, p) = Before \/ (next # None /\ s + NumBefore(L, p) = next - Skip)
        /\ next # None => s + NumBefore(L, p) <= next
    BY <1>3, <1>5, <1>7, Numbers
  <1> QED
    BY <1>6, <1>7, <1>8 DEF a, q, s, next

\* The frame up to which the pictures before the first mark reach, and the one
\* where those around the second mark begin.
Stop(L, p) == IF p = None THEN 0 ELSE StartBefore(L, p) + NumBefore(L, p)
StartAfter(L, p) ==
    LET p2 == GetNext(L, p)
    IN  IF p2 - BeforeOn < Stop(L, p) THEN Stop(L, p) + Skip ELSE p2 - BeforeOn

LEMMA PicsAfterLemma ==
    ASSUME NEW L, L.at \in SUBSET IFrames, NEW p \in L.at \cup {None}
    PROVE  /\ GetNext(L, p) = None => PicsAfter(L, p).num = 0 /\ PicsAfter(L, p).first = 0
           /\ GetNext(L, p) # None =>
                 /\ Stop(L, p) \in Int /\ StartAfter(L, p) \in Nat
                 /\ Stop(L, p) <= StartAfter(L, p) /\ StartAfter(L, p) <= GetNext(L, p) + Skip
                 /\ GetNext(L, p) - BeforeOn <= StartAfter(L, p)
                 /\ \E num \in Int : /\ num <= After
                                     /\ PicsAfter(L, p) = Pics(StartAfter(L, p), num)
  <1>1. CASE GetNext(L, p) = None
    BY <1>1 DEF PicsAfter
  <1>2. CASE GetNext(L, p) # None
    <2> DEFINE p2 == GetNext(L, p)
               p3 == GetNext(L, p2)
               stop == Stop(L, p)
               start == StartAfter(L, p)
               num == IF p3 # None /\ start + After > p3 - Rest THEN p3 - start - Rest ELSE After
    <2>1. p2 \in Nat /\ p3 \in Int
      BY <1>2, GetNextLemma, FramesAreNumbers DEF None
    <2>2. /\ stop \in Int /\ stop <= p2
          /\ stop >= 0 \/ stop = p2 - Skip
      <3>1. CASE p = None
        BY <2>1, <3>1 DEF Stop
      <3>2. CASE p # None
        <4>1. stop = StartBefore(L, p) + NumBefore(L, p)
          BY <3>2 DEF Stop
        <4>2. /\ StartBefore(L, p) \in Nat /\ NumBefore(L, p) \in Int
              /\ StartBefore(L, p) + NumBefore(L, p) <= p2
              /\ NumBefore(L, p) = Before \/ StartBefore(L, p) + NumBefore(L, p) = p2 - Skip
          BY <1>2, <3>2, StartBeforeLemma
        <4> QED
          BY <4>1, <4>2, Numbers
      <3> QED
        BY <3>1, <3>2
    <2>3. start = IF p2 - BeforeOn < stop THEN stop + Skip ELSE p2 - BeforeOn
      BY DEF StartAfter
    <2>4. PicsAfter(L, p) = Pics(start, num)
      BY <1>2 DEF PicsAfter, StartAfter, Stop
    <2> HIDE DEF p2, p3, stop, start
    <2>5. /\ start \in Nat /\ stop <= start /\ start <= p2 + Skip /\ p2 - BeforeOn <= start
      BY <2>1, <2>2, <2>3, Numbers, Relations
    <2>6. num \in Int /\ num <= After
      BY <2>1, <2>5, Numbers
    <2> QED
      BY <1>2, <2>2, <2>4, <2>5, <2>6 DEF p2, stop, start
  <1> QED
    BY <1>1, <1>2

\* The pictures before the first mark end before the second one.
LEMMA PicsBeforeLemma ==
    ASSUME NEW L, L.at \in SUBSET IFrames, NEW p \in L.at \cup {None}
    PROVE  LET pics == PicsBefore(L, p)
           IN  /\ pics.num \in Nat
               /\ pics.num > 0 =>
                    /\ p # None /\ pics.first \in IFrames
                    /\ pics.first + pics.num <= Length
                    /\ pics.first + pics.num < Stop(L, p) + Gop
                    /\ GetNext(L, p) # None => pics.first + pics.num <= GetNext(L, p)
  <1>1. CASE p = None
    BY <1>1 DEF PicsBefore
  <1>2. CASE p # None
    <2> DEFINE s == StartBefore(L, p)
               n == NumBefore(L, p)
               pics == PicsBefore(L, p)
               next == GetNext(L, p)
    <2>1. pics = Pics(s, n)
      BY <1>2 DEF PicsBefore
    <2>2. /\ s \in Nat /\ n \in Int /\ n <= Before
          /\ s = p - (Before + Lead) \/ s \in IFrames
          /\ next # None => s + n <= next
      BY <1>2, StartBeforeLemma
    <2>3. /\ pics.first \in IFrames /\ pics.num \in Nat
          /\ pics.num > 0 => pics.num <= n /\ pics.first + pics.num <= Length
          /\ pics.first = 0 \/ (s <= pics.first /\ pics.first < s + Gop)
          /\ s \in IFrames => pics.first <= s
      BY <2>1, <2>2, PicsLemma
    <2>4. next # None => next \in Nat /\ p + Gop <= next
      BY <1>2, GetNextLemma, FramesAreNumbers, GapLemma
    <2>5. pics.first \in Nat /\ p \in Nat
      BY <1>2, <2>3, FramesAreNumbers
    <2>6. Stop(L, p) = s + n
      BY <1>2 DEF Stop
    <2> HIDE DEF s, n, pics, next
    <2>7. pics.num > 0 /\ next # None => pics.first + pics.num <= next
      <3> SUFFICES ASSUME pics.num > 0, next # None
                   PROVE  pics.first + pics.num <= next
        OBVIOUS
      <3>1. CASE pics.first <= s
        BY <2>2, <2>3, <2>4, <2>5, <3>1
      <3>2. CASE ~(pics.first <= s)
        <4>1. s = p - (Before + Lead) /\ pics.first < s + Gop
          BY <2>2, <2>3, <2>5, <3>2
        <4> QED
          BY <2>2, <2>3, <2>4, <2>5, <4>1, Numbers
      <3> QED
        BY <3>1, <3>2
    <2>8. pics.num > 0 => pics.first + pics.num < s + n + Gop
      BY <2>2, <2>3, <2>5, Numbers
    <2> QED
      BY <1>2, <2>3, <2>4, <2>6, <2>7, <2>8, Numbers DEF pics, next
  <1> QED
    BY <1>1, <1>2

\* Where doOverlapDetection wants the marks: the first one before the second;
\* and where enough of the index follows, the second one behind the first, and
\* the first one not before the mark that was before it.
LEMMA OverlapLemma ==
    ASSUME NEW L, L.at \in SUBSET IFrames, NEW p \in L.at \cup {None},
           NEW e \in OverlapEnds(PicsBefore(L, p), PicsAfter(L, p))
    PROVE  LET next == GetNext(L, p)
               first == IF 0 < e[1] THEN e[1] ELSE p
           IN  /\ p # None /\ next # None
               /\ e[1] \in IFrames /\ e[1] < next
               /\ e[2] = None \/ e[2] \in IFrames
               /\ p + Gop < Length - Limit => GetPrev(L, p) <= e[1]
               /\ next + Skip + Gop < Length - Limit /\ e[2] # None => first < e[2]
  <1> DEFINE before == PicsBefore(L, p)
             after == PicsAfter(L, p)
             next == GetNext(L, p)
             x == before.first
             y == after.first
  <1>1. PICK o \in Overlaps(before.num, after.num) :
            /\ o[1] < before.num /\ o[2] < after.num
            /\ e = <<PrevI(x + o[1]), NextI(y + o[2])>>
    BY DEF OverlapEnds
  <1>2. PICK r \in Rows(before.num, after.num) : o = <<r.c + r.n, r.i + 1 + r.n>>
    BY DEF Overlaps
  <1>3. r \in [c : 0..(before.num - Similar - 1), i : 0..(after.num - before.num - 1), n : OverlapOk..Before]
    BY <1>2 DEF Rows
  <1>4. r.c = 0 => r.i >= BeforeOn
    BY <1>2 DEF Rows
  <1> DEFINE o1 == r.c + r.n
             o2 == r.i + 1 + r.n
  <1>5. /\ o1 < before.num /\ o2 < after.num /\ e[1] = PrevI(x + o1) /\ e[2] = NextI(y + o2)
    BY <1>1, <1>2
  <1>6. /\ before.num \in Nat
        /\ before.num > 0 =>
              /\ p # None /\ x \in IFrames /\ x + before.num <= Length
              /\ x + before.num < Stop(L, p) + Gop
              /\ next # None => x + before.num <= next
    BY PicsBeforeLemma
  <1>7. after.num \in Int
    <2>1. CASE next = None
      BY <2>1, PicsAfterLemma
    <2>2. CASE next # None
      <3>1. PICK num \in Int : after = Pics(StartAfter(L, p), num)
        BY <2>2, PicsAfterLemma
      <3>2. StartAfter(L, p) \in Int
        BY <2>2, PicsAfterLemma
      <3> QED
        BY <3>1, <3>2, PicsLemma
    <2> QED
      BY <2>1, <2>2
  <1> HIDE DEF before, after, next
  <1>8. /\ r.c \in Nat /\ r.i \in Nat /\ r.n \in Nat /\ Gop <= r.n
        /\ o1 \in Nat /\ o2 \in Nat /\ Gop <= o1 /\ r.c + Gop <= o1 /\ r.i + 1 + Gop <= o2
    BY <1>3, <1>6, <1>7, Numbers, Relations
  <1> HIDE DEF o1, o2
  <1>9. before.num > 0 /\ after.num > 0
    BY <1>5, <1>6, <1>7, <1>8, Numbers
  <1>10. p # None /\ next # None
    BY <1>6, <1>7, <1>9, PicsAfterLemma DEF after, next
  <1>11. /\ next \in Nat /\ next \in L.at /\ p < next /\ p \in Nat /\ p \in L.at
         /\ x \in Nat /\ Stop(L, p) \in Int
    BY <1>6, <1>9, <1>10, GetNextLemma, PicsAfterLemma, FramesAreNumbers DEF next
  <1>12. PICK num \in Int : after = Pics(StartAfter(L, p), num)
    BY <1>10, PicsAfterLemma DEF after, next
  <1>13. /\ StartAfter(L, p) \in Nat
         /\ Stop(L, p) <= StartAfter(L, p) /\ StartAfter(L, p) <= next + Skip
         /\ next - BeforeOn <= StartAfter(L, p)
    BY <1>10, PicsAfterLemma DEF next
  <1>14. /\ y \in IFrames
         /\ StartAfter(L, p) + Gop < Length - Limit => StartAfter(L, p) <= y
    BY <1>12, <1>13, PicsLemma
  <1>15. y \in Nat
    BY <1>14, FramesAreNumbers
  <1> HIDE DEF x, y
  <1>16. /\ x + o1 \in 1..Length /\ x + o1 < next /\ x + o1 < Stop(L, p) + Gop
    BY <1>5, <1>6, <1>8, <1>9, <1>10, <1>11, Numbers DEF x
  <1>17. /\ e[1] \in IFrames /\ e[1] < x + o1 /\ x + o1 <= e[1] + Gop
         /\ \A q \in IFrames : q < x + o1 => q <= e[1]
    BY <1>5, <1>16, PrevILemma
  <1>18. e[1] \in Nat /\ e[1] < next
    BY <1>11, <1>16, <1>17, FramesAreNumbers
  <1>19. e[2] = None \/ (e[2] \in IFrames /\ y + o2 < e[2])
    BY <1>5, <1>8, <1>15, NextILemma
  <1>20. ASSUME p + Gop < Length - Limit
         PROVE  GetPrev(L, p) <= e[1]
    <2> DEFINE s == StartBefore(L, p)
               q == GetPrev(L, p)
    <2>1. s \in Nat /\ s <= p /\ q <= s
      BY <1>11, StartBeforeLemma
    <2>2. before = Pics(s, NumBefore(L, p)) /\ NumBefore(L, p) \in Int
      BY <1>10, <1>11, StartBeforeLemma DEF before, PicsBefore
    <2>3. s + Gop < Length - Limit => s <= x
      BY <2>1, <2>2, PicsLemma DEF x
    <2>4. q = None \/ q \in IFrames
      BY GetPrevLemma
    <2> HIDE DEF s, q
    <2>5. s <= x
      BY <1>11, <1>20, <2>1, <2>3, Numbers
    <2>6. CASE q = None
      BY <1>18, <2>6 DEF None, q
    <2>7. CASE q \in IFrames
      <3>1. q \in Nat
        BY <2>7, FramesAreNumbers
      <3>2. q < x + o1
        BY <1>8, <1>11, <2>1, <2>5, <3>1, Numbers
      <3> QED
        BY <1>17, <2>7, <3>2 DEF q
    <2> QED
      BY <2>4, <2>6, <2>7
  <1>21. ASSUME next + Skip + Gop < Length - Limit, e[2] # None
         PROVE  (IF 0 < e[1] THEN e[1] ELSE p) < e[2]
    <2>1. StartAfter(L, p) <= y
      BY <1>11, <1>13, <1>14, <1>21, Numbers
    <2>2. y + o2 < e[2] /\ e[2] \in Nat
      BY <1>19, <1>21, FramesAreNumbers
    <2>3. CASE 0 < e[1]
      BY <1>8, <1>11, <1>13, <1>15, <1>16, <1>17, <1>18, <2>1, <2>2, <2>3, Numbers
    <2>4. CASE ~(0 < e[1])
      <3>1. x + o1 <= Gop
        BY <1>17, <1>18, <2>4, Numbers
      <3>2. r.c = 0
        BY <1>8, <1>11, <3>1, Numbers
      <3>3. r.i >= BeforeOn
        BY <1>4, <3>2
      <3> QED
        BY <1>8, <1>11, <1>13, <1>15, <2>1, <2>2, <2>4, <1>18, <3>3, Numbers
    <2> QED
      BY <2>3, <2>4
  <1> QED
    BY <1>10, <1>17, <1>18, <1>19, <1>20, <1>21 DEF next

-----------------------------------------------------------------------------
(* What checkMarkPair leaves.                                              *)

PairGood(L, o) ==
    /\ o.list.at \in SUBSET IFrames
    /\ Flagged(L) => Flagged(o.list)
    /\ o.fault \in {"none", "garbage"}

\* The pair is the last one and enough of the index follows.
LastPair(L, p) ==
    LET p2 == GetNext(L, p)
    IN  /\ p # None /\ p2 # None /\ GetNext(L, p2) = None
        /\ p2 + Skip + Gop < Length - Limit

\* The first mark of the pair is the last but one.
StaysLastPair(o) == o.node \in Nat \ {0} /\ o.node + 1 = Cardinality(o.list.at)

LEMMA FirstMoveLemma ==
    ASSUME NEW L, L.at \in SUBSET IFrames, NEW p \in L.at, GetNext(L, p) # None,
           NEW new \in IFrames, new < GetNext(L, p)
    PROVE  LET L1 == FirstMove(L, p, new)
               a == IF 0 < new THEN new ELSE p
               next == GetNext(L, p)
           IN  /\ L1.at = (L.at \ {p}) \cup {a} /\ L1.at \in SUBSET IFrames
               /\ a \in L1.at /\ next \in L1.at /\ a < next
               /\ Flagged(L) => Flagged(L1)
  <1> DEFINE L1 == FirstMove(L, p, new)
             a == IF 0 < new THEN new ELSE p
             next == GetNext(L, p)
  <1>1. next \in L.at /\ p < next
    BY GetNextLemma
  <1>2. p \in Nat /\ new \in Nat /\ next \in Nat
    BY <1>1, FramesAreNumbers
  <1>3. CASE 0 < new /\ new # p
    <2>1. L1 = Moved(L, p, new) /\ a = new
      BY <1>3 DEF FirstMove
    <2>2. L1.at = (L.at \ {p}) \cup {new} /\ L1.at \in SUBSET IFrames
      BY <2>1, MovedAt
    <2>3. Flagged(L) => Flagged(L1)
      BY <2>1, MovedFlagged
    <2>4. next \in L1.at
      BY <1>1, <1>2, <2>2
    <2> HIDE DEF L1, a
    <2> QED
      BY <1>1, <1>2, <2>1, <2>2, <2>3, <2>4 DEF L1, a
  <1>4. CASE ~(0 < new /\ new # p)
    <2>1. L1 = L /\ a = p
      BY <1>4 DEF FirstMove
    <2> HIDE DEF L1, a
    <2> QED
      BY <1>1, <1>2, <2>1 DEF L1, a
  <1> QED
    BY <1>3, <1>4

\* The two moves of doOverlapDetection.
LEMMA OverlappedLemma ==
    ASSUME NEW L, L.at \in SUBSET IFrames, NEW p \in L.at \cup {None},
           NEW o \in Overlapped(L, p, OverlapEnds(PicsBefore(L, p), PicsAfter(L, p)))
    PROVE  /\ p # None /\ PairGood(L, o) /\ o.fault = "none"
           /\ LastPair(L, p) => StaysLastPair(o)
  <1>1. PICK e \in OverlapEnds(PicsBefore(L, p), PicsAfter(L, p)) :
            o = SecondMove(FirstMove(L, p, e[1]),
                    Place(FirstMove(L, p, e[1]), IF 0 < e[1] THEN e[1] ELSE p),
                    GetNext(FirstMove(L, p, e[1]), IF 0 < e[1] THEN e[1] ELSE p), e[2])
    BY DEF Overlapped
  <1> DEFINE L1 == FirstMove(L, p, e[1])
             a == IF 0 < e[1] THEN e[1] ELSE p
             next == GetNext(L, p)
             p2 == GetNext(L1, a)
             node == Place(L1, a)
             new == e[2]
  <1>2. /\ p # None /\ next # None
        /\ e[1] \in IFrames /\ e[1] < next
        /\ new = None \/ new \in IFrames
        /\ p + Gop < Length - Limit => GetPrev(L, p) <= e[1]
        /\ next + Skip + Gop < Length - Limit /\ new # None => a < new
    BY OverlapLemma
  <1>3. p \in L.at /\ next \in L.at /\ p < next
    BY <1>2, GetNextLemma
  <1>4. /\ L1.at = (L.at \ {p}) \cup {a} /\ L1.at \in SUBSET IFrames
        /\ a \in L1.at /\ next \in L1.at /\ a < next
        /\ Flagged(L) => Flagged(L1)
    BY <1>2, <1>3, FirstMoveLemma
  <1>5. o = SecondMove(L1, node, p2, new)
    BY <1>1
  <1>6. /\ p \in Nat /\ next \in Nat /\ e[1] \in Nat /\ a \in Nat
        /\ \A q \in L.at : q \in Nat
        /\ \A q \in L1.at : q \in Nat
    BY <1>2, <1>3, <1>4, FramesAreNumbers
  <1>7. a = IF 0 < e[1] THEN e[1] ELSE p
    OBVIOUS
  <1> HIDE DEF L1, a, next, p2, new
  <1>8. p2 # None /\ p2 \in L1.at
    BY <1>4, GetNextLemma DEF p2
  <1>9. \/ o = Outcome(L1, node, FALSE, "none")
        \/ /\ new \in IFrames /\ new # p2
           /\ o = Outcome(Moved(L1, p2, new), node, TRUE, "none")
    <2>1. CASE new <= 0 \/ new = p2
      BY <1>5, <2>1 DEF SecondMove
    <2>2. CASE ~(new <= 0 \/ new = p2)
      <3>1. new # None
        BY <2>2 DEF None
      <3> QED
        BY <1>2, <1>5, <1>8, <2>2, <3>1 DEF SecondMove
    <2> QED
      BY <2>1, <2>2
  <1>10. PairGood(L, o) /\ o.fault = "none"
    <2>1. CASE o = Outcome(L1, node, FALSE, "none")
      BY <1>4, <2>1 DEF PairGood, Outcome
    <2>2. CASE new \in IFrames /\ o = Outcome(Moved(L1, p2, new), node, TRUE, "none")
      <3>1. Moved(L1, p2, new).at \in SUBSET IFrames
        BY <1>4, <2>2, MovedAt
      <3>2. Flagged(L) => Flagged(Moved(L1, p2, new))
        BY <1>4, <1>8, <2>2, MovedFlagged
      <3> QED
        BY <2>2, <3>1, <3>2 DEF PairGood, Outcome
    <2> QED
      BY <1>9, <2>1, <2>2
  <1>11. ASSUME LastPair(L, p)
         PROVE  StaysLastPair(o)
    <2>1. GetNext(L, next) = None /\ next + Skip + Gop < Length - Limit
      BY <1>11 DEF LastPair, next
    <2>2. ASSUME NEW q \in L1.at, a < q
          PROVE  q = next
      <3>1. GetPrev(L, p) <= e[1]
        BY <1>2, <1>3, <1>6, <2>1, Numbers
      <3>2. q \in L.at /\ q # p
        BY <1>4, <1>6, <2>2
      <3>3. GetPrev(L, p) \in Int /\ (GetPrev(L, p) = None => ~(q < p))
            /\ (GetPrev(L, p) # None /\ q < p => q <= GetPrev(L, p)) /\ GetPrev(L, p) < p
        BY <1>6, <3>2, GetPrevLemma DEF None
      <3>4. ~(q < p)
        BY <1>6, <1>7, <2>2, <3>1, <3>2, <3>3 DEF None
      <3>5. next <= q
        BY <1>2, <1>6, <3>2, <3>4, GetNextLemma DEF next
      <3>6. ~(next < q)
        BY <2>1, <3>2, GetNextLemma
      <3> QED
        BY <1>6, <3>2, <3>5, <3>6
    <2>3. p2 = next
      BY <1>4, <1>8, <2>2, GetNextLemma DEF p2
    <2>4. GetNext(L1, p2) = None
      <3>1. SUFFICES ASSUME GetNext(L1, p2) # None
                     PROVE  FALSE
        OBVIOUS
      <3>2. GetNext(L1, p2) \in L1.at /\ p2 < GetNext(L1, p2)
        BY <1>4, <3>1, GetNextLemma
      <3>3. a < GetNext(L1, p2)
        BY <1>4, <1>6, <2>3, <3>2
      <3>4. GetNext(L1, p2) = next
        BY <2>2, <3>2, <3>3
      <3> QED
        BY <1>6, <2>3, <3>2, <3>4
    <2>5. /\ node \in 1..Cardinality(L1.at) /\ Place(L1, p2) = node + 1
          /\ Place(L1, p2) = Cardinality(L1.at)
      BY <1>4, <1>8, <2>4, PlaceLemma DEF p2
    <2> HIDE DEF node
    <2>6. node \in Nat \ {0} /\ node + 1 = Cardinality(L1.at)
      BY <2>5
    <2>7. CASE o = Outcome(L1, node, FALSE, "none")
      BY <2>6, <2>7 DEF StaysLastPair, Outcome
    <2>8. CASE /\ new \in IFrames /\ new # p2
               /\ o = Outcome(Moved(L1, p2, new), node, TRUE, "none")
      <3>1. a < new
        BY <1>2, <2>1, <2>8, FramesAreNumbers DEF None, next, new
      <3>2. new \notin L1.at \ {p2}
        <4>1. new \in L1.at => new = next
          BY <2>2, <3>1
        <4> QED
          BY <2>3, <4>1
      <3>3. Cardinality(Moved(L1, p2, new).at) = Cardinality(L1.at)
        <4>1. Moved(L1, p2, new).at = (L1.at \ {p2}) \cup {new}
          BY <1>4, <2>8, MovedAt
        <4>2. Cardinality((L1.at \ {p2}) \cup {new}) = Cardinality(L1.at)
          BY <1>4, <1>8, <2>8, <3>2, MovedCardinality
        <4> QED
          BY <4>1, <4>2
      <3> QED
        BY <2>6, <2>8, <3>3 DEF StaysLastPair, Outcome
    <2> QED
      BY <1>9, <2>7, <2>8
  <1> QED
    BY <1>2, <1>10, <1>11

LEMMA AfterNumbers ==
    ASSUME NEW L, L.at \in SUBSET IFrames, NEW p \in L.at \cup {None}
    PROVE  PicsAfter(L, p).first \in Nat /\ PicsAfter(L, p).num \in Nat
  <1>1. CASE GetNext(L, p) = None
    BY <1>1, PicsAfterLemma
  <1>2. CASE GetNext(L, p) # None
    <2>1. PICK num \in Int : PicsAfter(L, p) = Pics(StartAfter(L, p), num)
      BY <1>2, PicsAfterLemma
    <2>2. StartAfter(L, p) \in Int
      BY <1>2, PicsAfterLemma
    <2> QED
      BY <2>1, <2>2, PicsLemma, FramesAreNumbers
  <1> QED
    BY <1>1, <1>2

LEMMA LinesAroundLemma ==
    ASSUME NEW L, L.at \in SUBSET IFrames, NEW node, NEW p2 \in L.at,
           NEW pics, pics.first \in Nat, pics.num \in Nat,
           NEW o \in LinesAround(L, node, p2, pics)
    PROVE  PairGood(L, o)
  <1>1. p2 # None
    BY FramesAreNumbers DEF None
  <1>2. CASE o = Outcome(L, node, FALSE, "none")
    BY <1>2 DEF PairGood, Outcome
  <1>3. CASE o # Outcome(L, node, FALSE, "none")
    <2>1. PICK i \in (2 + Into)..(pics.num - NotOk + Into) :
              /\ NextI(pics.first + i) # None
              /\ o = Outcome(Moved(L, p2, NextI(pics.first + i)), node, TRUE, "none")
      BY <1>1, <1>3 DEF LinesAround
    <2> DEFINE new == NextI(pics.first + i)
    <2>2. pics.first + i \in Int
      BY Numbers
    <2>3. new \in IFrames
      BY <2>1, <2>2, NextILemma
    <2> HIDE DEF new
    <2>4. Moved(L, p2, new).at \in SUBSET IFrames
      BY <2>3, MovedAt
    <2>5. Flagged(L) => Flagged(Moved(L, p2, new))
      BY <2>3, MovedFlagged
    <2> QED
      BY <2>1, <2>4, <2>5 DEF PairGood, Outcome, new
  <1> QED
    BY <1>2, <1>3

\* A black frame before the second mark, not before where the pictures begin.
BlackMoved(L, node, p2, pics, o) ==
    \/ o = Outcome(L, node, FALSE, "none")
    \/ \E new \in IFrames : /\ pics.first <= new /\ p2 - FrameBack <= new /\ new <= p2
                            /\ o = Outcome(Moved(L, p2, new), node, TRUE, "none")

LEMMA BlackAroundLemma ==
    ASSUME NEW L, L.at \in SUBSET IFrames, NEW node, NEW p2 \in L.at,
           NEW pics, pics.first \in Nat, pics.num \in Nat,
           NEW o \in BlackAround(L, node, p2, pics)
    PROVE  BlackMoved(L, node, p2, pics, o)
  <1> DEFINE index == IF p2 - pics.first \in 0..(pics.num - 1) THEN p2 - pics.first ELSE -1
             from == Max({0, index - FrameBack})
             found == {pics.first + i : i \in from..(index - 1)} \ {0, 1}
  <1>1. o \in {Outcome(L, node, FALSE, "none")} \cup
            {Outcome(Moved(L, p2, new), node, TRUE, "none") : new \in IFramesAt(found)}
    BY DEF BlackAround
  <1>2. p2 \in Nat /\ index \in Int
    BY FramesAreNumbers
  <1>3. index = -1 \/ index = p2 - pics.first
    OBVIOUS
  <1> HIDE DEF index
  <1>4. from \in Nat /\ index - FrameBack <= from
    BY <1>2, Numbers, GreatestOfTwo
  <1> HIDE DEF from
  <1>5. ASSUME NEW b \in found
        PROVE  b \in Int /\ pics.first <= b /\ p2 - FrameBack <= b /\ b <= p2
    <2>1. PICK i \in from..(index - 1) : b = pics.first + i
      OBVIOUS
    <2> QED
      BY <1>2, <1>3, <1>4, <2>1, Numbers
  <1>6. CASE o # Outcome(L, node, FALSE, "none")
    <2>1. PICK new \in IFramesAt(found) : o = Outcome(Moved(L, p2, new), node, TRUE, "none")
      BY <1>1, <1>6
    <2> HIDE DEF found
    <2>2. found \in SUBSET Int
      BY <1>5
    <2>3. new \in IFrames
      BY <2>1, <2>2, IFramesAtLemma
    <2>4. PICK b \in found \ {0} : b <= new /\ \A q \in IFrames : b <= q => new <= q
      BY <2>1, <2>2, IFramesAtLemma
    <2>5. b \in Int /\ pics.first <= b /\ p2 - FrameBack <= b /\ b <= p2
      BY <1>5, <2>4
    <2>6. pics.first <= new /\ p2 - FrameBack <= new /\ new <= p2
      BY <1>2, <2>3, <2>4, <2>5, FramesAreNumbers, Numbers
    <2> QED
      BY <2>1, <2>3, <2>6 DEF BlackMoved
  <1> QED
    BY <1>6 DEF BlackMoved

\* checkMarkPair if no scene is repeated.
LEMMA NotOverlappedLemma ==
    ASSUME NEW L, L.at \in SUBSET IFrames, NEW p \in L.at \cup {None},
           NEW o \in NotOverlapped(L, p, PicsAfter(L, p))
    PROVE  /\ PairGood(L, o) /\ o.fault = "none"
           /\ LastPair(L, p) /\ ~lines => StaysLastPair(o)
  <1> DEFINE pics == PicsAfter(L, p)
             p2 == GetNext(L, p)
  <1>1. pics.first \in Nat /\ pics.num \in Nat
    BY AfterNumbers
  <1>2. CASE p2 = None
    <2>1. o = Outcome(L, Node(L, p), FALSE, "none")
      BY <1>2 DEF NotOverlapped
    <2> QED
      BY <1>2, <2>1 DEF PairGood, Outcome, LastPair
  <1>3. CASE p2 # None /\ lines
    <2>1. p2 \in L.at
      BY <1>3, GetNextLemma
    <2>2. CASE o \in LinesAround(L, Node(L, p), p2, pics)
      BY <1>1, <1>3, <2>1, <2>2, LinesAroundLemma DEF LinesAround, Outcome
    <2>3. CASE o \notin LinesAround(L, Node(L, p), p2, pics)
      <3>1. PICK new \in LinesBehind(p, OffBack) :
                /\ p # None
                /\ o \in LinesAround(Moved(L, p, new),
                             Node(Moved(L, p, new), GetPrev(Moved(L, p, new), p)),
                             GetNext(Moved(L, p, new), GetPrev(Moved(L, p, new), p)), pics)
        BY <1>3, <2>3 DEF NotOverlapped
      <3> DEFINE L1 == Moved(L, p, new)
                 p1 == GetPrev(L1, p)
                 q == GetNext(L1, p1)
      <3>2. p \in L.at /\ p \in IFrames /\ OffBack \in Int
        BY <3>1, Numbers
      <3>3. new \in IFrames /\ new < p
        BY <3>2, LinesBehindLemma
      <3>4. L1.at = (L.at \ {p}) \cup {new} /\ L1.at \in SUBSET IFrames
        BY <3>3, MovedAt
      <3>5. Flagged(L) => Flagged(L1)
        BY <3>2, <3>3, MovedFlagged
      <3>6. p2 \in L1.at /\ p < p2
        BY <1>3, <2>1, <3>2, <3>4, GetNextLemma, FramesAreNumbers
      <3> HIDE DEF L1, p2
      <3>7. new \in L1.at
        BY <3>4
      <3>8. p1 # None /\ p1 < p
        BY <3>3, <3>4, <3>7, GetPrevLemma
      <3>9. p1 \in Nat /\ p \in Nat /\ p2 \in Nat
        BY <3>2, <3>4, <3>6, <3>8, GetPrevLemma, FramesAreNumbers
      <3>10. q # None /\ q \in L1.at
        <4>1. p1 < p2
          BY <3>6, <3>8, <3>9
        <4> HIDE DEF p1
        <4> QED
          BY <3>4, <3>6, <4>1, GetNextLemma
      <3> HIDE DEF q, p1
      <3>11. o \in LinesAround(L1, Node(L1, p1), q, pics)
        BY <3>1 DEF L1, p1, q
      <3>12. PairGood(L1, o)
        BY <1>1, <3>4, <3>10, <3>11, LinesAroundLemma
      <3>13. PairGood(L, o)
        BY <3>5, <3>12 DEF PairGood
      <3>14. o.fault = "none"
        BY <3>10, <3>11 DEF LinesAround, Outcome
      <3> QED
        BY <1>3, <3>13, <3>14
    <2> QED
      BY <2>2, <2>3
  <1>4. CASE p2 # None /\ ~lines
    <2>1. p2 \in L.at /\ p < p2
      BY <1>4, GetNextLemma
    <2>2. o \in BlackAround(L, Node(L, p), p2, pics)
      BY <1>4 DEF NotOverlapped
    <2> DEFINE node == Node(L, p)
               Moves(new) == /\ pics.first <= new /\ p2 - FrameBack <= new
                             /\ o = Outcome(Moved(L, p2, new), node, TRUE, "none")
    <2>3. o = Outcome(L, node, FALSE, "none") \/ \E new \in IFrames : Moves(new)
      <3>0. o \in BlackAround(L, node, p2, pics)
        BY <2>2
      <3> HIDE DEF pics, p2, node
      <3>1. BlackMoved(L, node, p2, pics, o)
        BY <1>1, <2>1, <3>0, BlackAroundLemma
      <3> QED
        BY <3>1 DEF BlackMoved
    <2>4. PairGood(L, o) /\ o.fault = "none"
      <3>1. CASE o = Outcome(L, node, FALSE, "none")
        BY <3>1 DEF PairGood, Outcome
      <3>2. ASSUME NEW new \in IFrames, Moves(new)
            PROVE  PairGood(L, o) /\ o.fault = "none"
        <4>1. Moved(L, p2, new).at \in SUBSET IFrames
          BY MovedAt
        <4>2. Flagged(L) => Flagged(Moved(L, p2, new))
          BY <2>1, MovedFlagged
        <4> QED
          BY <3>2, <4>1, <4>2 DEF PairGood, Outcome
      <3> QED
        BY <2>3, <3>1, <3>2
    <2>5. ASSUME LastPair(L, p)
          PROVE  StaysLastPair(o)
      <3>1. p # None /\ GetNext(L, p2) = None /\ p2 + Skip + Gop < Length - Limit
        BY <2>5 DEF LastPair
      <3>2. p \in L.at /\ p \in Nat /\ p2 \in Nat
        BY <2>1, <3>1, FramesAreNumbers
      <3>3. node \in 1..Cardinality(L.at) /\ node + 1 = Cardinality(L.at)
        BY <1>4, <2>1, <3>1, <3>2, PlaceLemma DEF Node
      <3>4. CASE o = Outcome(L, node, FALSE, "none")
        BY <3>3, <3>4 DEF StaysLastPair, Outcome
      <3>5. ASSUME NEW new \in IFrames, Moves(new)
            PROVE  StaysLastPair(o)
        <4>1. p < new
          <5> DEFINE s == StartBefore(L, p)
                     n == NumBefore(L, p)
                     start == StartAfter(L, p)
          <5>1. /\ s \in Nat /\ n \in Int /\ p - (Before + Lead) <= s
                /\ n = Before \/ s + n = p2 - Skip
            BY <3>2, StartBeforeLemma
          <5>2. start = IF p2 - BeforeOn < s + n THEN s + n + Skip ELSE p2 - BeforeOn
            BY <3>1 DEF StartAfter, Stop
          <5>3. start \in Nat /\ start <= p2 + Skip
            BY <1>4, PicsAfterLemma
          <5>4. \E num \in Int : pics = Pics(start, num)
            BY <1>4, PicsAfterLemma
          <5>5. start + Gop < Length - Limit
            BY <3>1, <3>2, <5>3, Numbers
          <5>6. start <= pics.first
            BY <5>3, <5>4, <5>5, PicsLemma
          <5>7. new \in Nat /\ pics.first <= new /\ p2 - FrameBack <= new
            BY <3>5, FramesAreNumbers
          <5> HIDE DEF s, n, start, pics, p2
          <5>8. start <= new
            BY <1>1, <5>3, <5>6, <5>7
          <5>9. CASE s + n = p2 - Skip
            <6>1. start = p2
              BY <3>2, <5>2, <5>9, Numbers, Relations
            <6> QED
              BY <2>1, <3>2, <5>7, <5>8, <6>1
          <5>10. CASE n = Before /\ p2 - BeforeOn < s + n
            <6>1. start = s + Before + Skip
              BY <5>2, <5>10
            <6> QED
              BY <3>2, <5>1, <5>7, <5>8, <6>1, Numbers, Relations
          <5>11. CASE n = Before /\ ~(p2 - BeforeOn < s + n)
            BY <3>2, <5>1, <5>7, <5>11, Numbers, Relations
          <5> QED
            BY <5>1, <5>9, <5>10, <5>11
        <4>2. new \notin L.at \ {p2}
          <5>1. SUFFICES ASSUME new \in L.at, new # p2
                         PROVE  FALSE
            OBVIOUS
          <5>2. p2 <= new
            BY <1>4, <4>1, <5>1, GetNextLemma
          <5>3. ~(p2 < new)
            BY <3>1, <5>1, GetNextLemma
          <5> QED
            BY <3>2, <5>1, <5>2, <5>3, FramesAreNumbers
        <4>3. Cardinality(Moved(L, p2, new).at) = Cardinality(L.at)
          <5>1. Moved(L, p2, new).at = (L.at \ {p2}) \cup {new}
            BY MovedAt
          <5> QED
            BY <2>1, <4>2, <5>1, MovedCardinality
        <4> QED
          BY <3>3, <3>5, <4>3 DEF StaysLastPair, Outcome
      <3> QED
        BY <2>3, <3>4, <3>5
    <2> QED
      BY <2>4, <2>5
  <1> QED
    BY <1>2, <1>3, <1>4

LEMMA PairLemma ==
    ASSUME NEW L, L.at \in SUBSET IFrames, NEW p \in L.at \cup {None},
           NEW o \in CheckMarkPair(L, p)
    PROVE  /\ PairGood(L, o)
           /\ o.fault = "none" /\ LastPair(L, p) /\ ~lines => StaysLastPair(o)
           /\ p = None => o.fault = "none" /\ o \in NotOverlapped(L, p, PicsAfter(L, p))
  <1> DEFINE before == PicsBefore(L, p)
             after == PicsAfter(L, p)
  <1>1. \/ o \in Overlapped(L, p, OverlapEnds(before, after))
        \/ o \in NotOverlapped(L, p, after)
        \/ o \in ReadsGarbage(L, before.num, after.num)
    BY DEF CheckMarkPair
  <1>2. CASE o \in Overlapped(L, p, OverlapEnds(before, after))
    BY <1>2, OverlappedLemma
  <1>3. CASE o \in NotOverlapped(L, p, after)
    BY <1>3, NotOverlappedLemma
  <1>4. CASE o \in ReadsGarbage(L, before.num, after.num)
    <2>1. o = Outcome(L, Dummy, FALSE, "garbage") /\ Overlaps(before.num, after.num) # {}
      BY <1>4 DEF ReadsGarbage
    <2>2. p # None
      <3>1. SUFFICES ASSUME p = None
                     PROVE  FALSE
        OBVIOUS
      <3>2. before.num = 0
        BY <3>1 DEF PicsBefore
      <3>3. PICK r \in Rows(before.num, after.num) : TRUE
        BY <2>1 DEF Overlaps
      <3>4. r.c \in 0..(before.num - Similar - 1)
        BY <3>3 DEF Rows
      <3> HIDE DEF before
      <3> QED
        BY <3>2, <3>4, Numbers
    <2> QED
      BY <2>1, <2>2 DEF PairGood, Outcome
  <1> QED
    BY <1>1, <1>2, <1>3, <1>4

-----------------------------------------------------------------------------
(* The cleanups only take marks away.                                      *)

LEMMA DropFirstLemma ==
    ASSUME NEW S \in SUBSET IFrames, NEW d, NEW k, Close(S, d, k) # {}
    PROVE  /\ DropFirst(S, Close(S, d, k)) \in SUBSET S
           /\ Cardinality(DropFirst(S, Close(S, d, k))) < Cardinality(S)
  <1> DEFINE C == Close(S, d, k)
             p == Min(C)
             R == DropFirst(S, C)
  <1>1. C \subseteq S /\ C # {} /\ C \in SUBSET Nat
    BY FramesAreNumbers DEF Close
  <1>2. p \in S
    <2> HIDE DEF C
    <2> QED
      BY <1>1, LeastElement
  <1>3. R \in SUBSET (S \ {p})
    BY DEF DropFirst
  <1> HIDE DEF R, p, C
  <1>4. IsFiniteSet(S) /\ Cardinality(S) \in Nat
    BY FramesAreNumbers
  <1>5. IsFiniteSet(S \ {p}) /\ Cardinality(S \ {p}) = Cardinality(S) - 1
    BY <1>2, <1>4, FS_RemoveElement
  <1>6. Cardinality(R) <= Cardinality(S \ {p}) /\ Cardinality(R) \in Nat
    BY <1>3, <1>5, FS_Subset, FS_CardinalityType
  <1> QED
    BY <1>3, <1>4, <1>5, <1>6 DEF R, C

CleanFrom(M, S0, d, k) ==
    LET clean[S \in SUBSET M] ==
            IF Close(S, d, k) = {} THEN S ELSE clean[DropFirst(S, Close(S, d, k))]
    IN  clean[S0]

LEMMA CleanFromLemma ==
    ASSUME NEW M \in SUBSET IFrames, NEW S0 \in SUBSET M, NEW d, NEW k
    PROVE  /\ CleanFrom(M, S0, d, k) \in SUBSET S0
           /\ Close(S0, d, k) = {} => CleanFrom(M, S0, d, k) = S0
  <1> DEFINE End == {S \in SUBSET M : Close(S, d, k) = {}}
             Del == [S \in SUBSET M |-> DropFirst(S, Close(S, d, k))]
             F(f) == [S \in SUBSET M |-> IF S \in End THEN S ELSE f[Del[S]]]
             clean == CHOOSE f : f = F(f)
             Less == SUBSET S0
  <1>1. ASSUME NEW S \in SUBSET M, S \notin End
        PROVE  Del[S] \in SUBSET S /\ Cardinality(Del[S]) < Cardinality(S)
    <2>1. Close(S, d, k) # {} /\ S \in SUBSET IFrames
      BY <1>1
    <2>2. Del[S] = DropFirst(S, Close(S, d, k))
      OBVIOUS
    <2> HIDE DEF Del
    <2> QED
      BY <2>1, <2>2, DropFirstLemma
  <1>2. Smaller(M, End, Del)
    <2>1. Del \in [SUBSET M -> SUBSET M]
      BY DEF DropFirst
    <2>2. IsFiniteSet(M)
      BY FramesAreNumbers
    <2> HIDE DEF End, Del
    <2> QED
      BY <1>1, <2>1, <2>2 DEF Smaller
  <1>3. CleanFrom(M, S0, d, k) = clean[S0]
    <2>1. \A f : F(f) = [S \in SUBSET M |-> IF Close(S, d, k) = {} THEN S
                                             ELSE f[DropFirst(S, Close(S, d, k))]]
      OBVIOUS
    <2>2. clean = CHOOSE f : f = [S \in SUBSET M |-> IF Close(S, d, k) = {} THEN S
                                             ELSE f[DropFirst(S, Close(S, d, k))]]
      BY <2>1
    <2> QED
      BY <2>2 DEF CleanFrom
  <1>4. SetRecursion(M, End, Del, clean)
    <2> HIDE DEF End, Del
    <2>1. \E f : SetRecursion(M, End, Del, f)
      BY <1>2, RecursionOverSets
    <2>2. \E f : f = F(f)
      BY <2>1 DEF SetRecursion
    <2> HIDE DEF F
    <2>3. clean = F(clean)
      BY <2>2
    <2> QED
      BY <2>3 DEF SetRecursion, F
  <1>5. S0 \in Less /\ Keeps(SUBSET M, End, Del, Less)
    <2> HIDE DEF Del, End
    <2> QED
      BY <1>1 DEF Keeps
  <1>6. clean[S0] \in Less /\ clean[S0] \in End
    <2> HIDE DEF End, Del, Less, clean
    <2>1. \A n, end, del, f, keep, s :
             /\ Smaller(n, end, del) /\ SetRecursion(n, end, del, f)
             /\ Keeps(SUBSET n, end, del, keep)
             /\ s \in SUBSET n /\ s \in keep
             => f[s] \in keep /\ f[s] \in end
      BY RecursionEnds
    <2> QED
      BY <1>2, <1>4, <1>5, <2>1, Zenon
  <1>7. S0 \in End => clean[S0] = S0
    <2> HIDE DEF End, Del, clean
    <2> QED
      BY <1>4 DEF SetRecursion
  <1> HIDE DEF clean, Del
  <1> QED
    BY <1>3, <1>6, <1>7

LEMMA CleanupLemma ==
    ASSUME NEW M \in SUBSET IFrames
    PROVE  /\ CleanInactive(M) \in SUBSET M /\ CleanActive(M) \in SUBSET M
           /\ Close(M, MinMark, 2) = {} => CleanInactive(M) = M
           /\ Close(M, MinActiveMark, 0) = {} => CleanActive(M) = M
  <1>1. /\ CleanInactive(M) \in SUBSET M
        /\ Close(M, MinMark, 2) = {} => CleanInactive(M) = M
    <2>1. CleanInactive(M) = CleanFrom(M, M, MinMark, 2)
      BY DEF CleanInactive, CleanFrom
    <2> QED
      BY <2>1, CleanFromLemma
  <1>2. CleanActive(M) \in SUBSET M
    <2>1. CASE Close(M, MinActiveMark, 0) = {}
      BY <2>1 DEF CleanActive
    <2>2. CASE Close(M, MinActiveMark, 0) # {}
      <3> DEFINE S0 == DropFirst(M, Close(M, MinActiveMark, 0))
      <3>1. CleanActive(M) = CleanFrom(M, S0, MinActiveMark, 1)
        BY <2>2 DEF CleanActive, CleanFrom
      <3>2. S0 \in SUBSET M
        BY <2>2, DropFirstLemma
      <3> HIDE DEF S0
      <3>3. CleanFrom(M, S0, MinActiveMark, 1) \in SUBSET S0
        BY <3>2, CleanFromLemma
      <3> QED
        BY <3>1, <3>2, <3>3
    <2> QED
      BY <2>1, <2>2
  <1>3. Close(M, MinActiveMark, 0) = {} => CleanActive(M) = M
    BY DEF CleanActive
  <1> QED
    BY <1>1, <1>2, <1>3

LEMMA CleanedAt == \A L, M : Cleaned(L, M).at = M
  BY DEF Cleaned

-----------------------------------------------------------------------------
(* The inductive invariant.                                                *)

\* Where m is a mark.
Passes == {"lines", "frames", "forward", "off", "sound"}

MarksInv ==
    /\ list.at \in SUBSET IFrames
    /\ pc = "lost" \/ m \in list.at \cup {None}
    /\ pc \in Passes => m \in list.at
    /\ pc \in {"start", "probe"} => m = None

\* While the recording goes on there are no black lines, and every mark has its
\* flag.
Offlines == {"plain", "overlap", "lines", "frames"}

OnlineInv ==
    /\ kind \in Offlines \cup {"online"}
    /\ kind = "online" => pc \in {"online", "lost"}
    /\ pc = "online" => kind = "online" /\ ~lines /\ m = None /\ Flagged(list)

FaultInv ==
    /\ fault \in {"none", "garbage", "freed", "refined"}
    /\ fault = "freed" => pc = "online" /\ Cardinality(list.at) = 1
    /\ fault = "refined" => pc = "online" /\ ~Due

IInv == MarksInv /\ OnlineInv /\ FaultInv

-----------------------------------------------------------------------------
(* The passes over a whole recording.                                      *)

\* What a pass has to leave.
PassLeaves ==
    /\ list'.at \in SUBSET IFrames
    /\ m' \in list'.at \cup {None}
    /\ pc' \in Passes => m' \in list'.at
    /\ pc' \in {"start", "probe"} => m' = None
    /\ pc' # "online" /\ kind' \in Offlines

LEMMA PassKeeps ==
    ASSUME IInv, pc \notin {"online", "lost"}, PassLeaves, fault' = fault \/ fault' = "none"
    PROVE  IInv'
  <1>1. fault' \in {"none", "garbage"}
    BY DEF IInv, FaultInv
  <1>2. MarksInv'
    BY DEF PassLeaves, MarksInv
  <1>3. OnlineInv'
    BY DEF PassLeaves, OnlineInv, Offlines
  <1>4. FaultInv'
    BY <1>1 DEF FaultInv
  <1> QED
    BY <1>2, <1>3, <1>4 DEF IInv

LEMMA NextMember ==
    ASSUME NEW L, L.at \in SUBSET IFrames, NEW p
    PROVE  /\ GetNext(L, p) \in L.at \cup {None}
           /\ AfterNext(L, p) \in L.at \cup {None}
  <1>1. \A q : GetNext(L, q) \in L.at \cup {None}
    BY GetNextLemma
  <1> QED
    BY <1>1 DEF AfterNext

LEMMA GoOnLemma ==
    ASSUME NEW next, next \in list'.at \cup {None}, GoOn(next), kind' \in Offlines,
           list'.at \in SUBSET IFrames
    PROVE  PassLeaves
  <1>1. next = None => pc' = "cleanup" /\ m' = None
    BY DEF GoOn
  <1>2. next # None => pc' = kind' /\ m' = next
    BY DEF GoOn
  <1> QED
    BY <1>1, <1>2 DEF PassLeaves, Passes, Offlines

LEMMA DecidedLemma ==
    ASSUME NEW found \in BOOLEAN, Decided(found), kind \in Offlines, list'.at \in SUBSET IFrames
    PROVE  PassLeaves
  <1>1. CASE kind = "overlap"
    BY <1>1 DEF Decided, PassLeaves, Passes, Offlines
  <1>2. CASE kind # "overlap"
    <2>1. kind' \in Offlines /\ GoOn(GetNext(list', None))
      BY <1>2 DEF Decided, Offlines
    <2>2. GetNext(list', None) \in list'.at \cup {None}
      BY NextMember
    <2> QED
      BY <2>1, <2>2, GoOnLemma
  <1> QED
    BY <1>1, <1>2

\* The passes do not run while the recording goes on.
LEMMA NotOnline ==
    ASSUME IInv, pc \notin {"online", "lost"}
    PROVE  /\ kind \in Offlines /\ list.at \in SUBSET IFrames /\ m \in list.at \cup {None}
           /\ pc \in Passes => m \in list.at
           /\ pc \in {"start", "probe"} => m = None
  BY DEF IInv, OnlineInv, MarksInv

LEMMA StartStep == IInv /\ Start => IInv'
  <1> SUFFICES ASSUME IInv, Start
               PROVE  IInv'
    OBVIOUS
  <1>1. pc = "start" /\ fault' = fault
    BY DEF Start
  <1>2. kind \in Offlines /\ list.at \in SUBSET IFrames /\ m \in list.at \cup {None}
    BY <1>1, NotOnline
  <1>3. list'.at = CleanInactive(list.at)
    BY CleanedAt DEF Start
  <1>4. list'.at \in SUBSET IFrames
    BY <1>2, <1>3, CleanupLemma
  <1>5. PassLeaves
    <2>1. CASE Decided(FALSE)
      BY <1>2, <1>4, <2>1, DecidedLemma
    <2>2. CASE pc' = "probe" /\ UNCHANGED <<m, kind, lines>>
      <3>1. m = None
        BY <1>1, NotOnline
      <3> QED
        BY <1>2, <1>4, <2>2, <3>1 DEF PassLeaves, Passes
    <2> QED
      BY <2>1, <2>2 DEF Start
  <1> QED
    BY <1>1, <1>5, PassKeeps

LEMMA ProbeStep == IInv /\ Probe => IInv'
  <1> SUFFICES ASSUME IInv, Probe
               PROVE  IInv'
    OBVIOUS
  <1>1. pc = "probe" /\ list' = list /\ fault' = fault
    BY DEF Probe
  <1>2. kind \in Offlines /\ list.at \in SUBSET IFrames /\ m = None
    BY <1>1, NotOnline
  <1>3. (\E found \in BOOLEAN : Decided(found)) \/ UNCHANGED <<m, kind, lines, pc>>
    BY DEF Probe
  <1>4. CASE \E found \in BOOLEAN : Decided(found)
    <2>1. PassLeaves
      BY <1>1, <1>2, <1>4, DecidedLemma
    <2> QED
      BY <1>1, <2>1, PassKeeps
  <1>5. CASE UNCHANGED <<m, kind, lines, pc>>
    <2>1. PassLeaves
      BY <1>1, <1>2, <1>5 DEF PassLeaves, Passes
    <2> QED
      BY <1>1, <2>1, PassKeeps
  <1> QED
    BY <1>3, <1>4, <1>5

\* Where a mark at m has been moved, or has not.
LEMMA MovedOrNot ==
    ASSUME list.at \in SUBSET IFrames, m \in list.at, NEW new \in IFrames,
           list' = (IF new = m THEN list ELSE Moved(list, m, new))
    PROVE  /\ list'.at \in SUBSET IFrames /\ new \in list'.at
           /\ list'.at = (list.at \ {m}) \cup {new}
  BY MovedAt

LEMMA OnBackStep == IInv /\ OnBack => IInv'
  <1> SUFFICES ASSUME IInv, OnBack
               PROVE  IInv'
    OBVIOUS
  <1>1. pc = "lines" /\ pc' = "forward" /\ kind' = kind
    BY DEF OnBack, Keep
  <1>2. kind \in Offlines /\ list.at \in SUBSET IFrames /\ m \in list.at /\ m \in IFrames
    BY <1>1, NotOnline DEF Passes
  <1>3. CASE UNCHANGED <<list, m, fault>>
    <2>1. PassLeaves
      BY <1>1, <1>2, <1>3 DEF PassLeaves, Passes, Offlines
    <2> QED
      BY <1>1, <1>3, <2>1, PassKeeps
  <1>4. CASE ~ UNCHANGED <<list, m, fault>>
    <2> DEFINE time == Limited(LineBack, GetPrev(list, m), m)
    <2>1. PICK new \in LinesBehind(m, time) :
              /\ list' = Moved(list, m, new) /\ m' = GetPrev(list', m + 1)
              /\ fault' = IF m' = None THEN "null" ELSE fault
      BY <1>4 DEF OnBack
    <2>2. time \in Int
      <3>1. GetPrev(list, m) \in IFrames \cup {None}
        BY <1>2, GetPrevLemma
      <3> QED
        BY <1>2, <3>1, Numbers, LimitedLemma
    <2> HIDE DEF time
    <2>3. new \in IFrames /\ new < m
      BY <1>2, <2>1, <2>2, LinesBehindLemma
    <2>4. list'.at \in SUBSET IFrames /\ new \in list'.at
      BY <1>2, <2>1, <2>3, MovedAt
    <2>5. new < m + 1
      BY <1>2, <2>3, FramesAreNumbers
    <2>6. m' # None /\ m' \in list'.at
      BY <2>1, <2>4, <2>5, GetPrevLemma
    <2>7. PassLeaves
      BY <1>1, <1>2, <2>4, <2>6 DEF PassLeaves, Passes, Offlines
    <2> QED
      BY <1>1, <2>1, <2>6, <2>7, PassKeeps
  <1> QED
    BY <1>3, <1>4

\* Black lines ahead of the on mark do not take it past the next mark.
LEMMA ForwardLemma ==
    ASSUME list.at \in SUBSET IFrames, m \in list.at,
           NEW new \in {m} \cup LinesAhead(m, Limited(LineForward, GetNext(list, m), m))
    PROVE  /\ new \in IFrames
           /\ \A q \in list.at : m < q => new <= q
  <1> DEFINE next == GetNext(list, m)
             time == Limited(LineForward, next, m)
  <1>1. m \in IFrames /\ next \in IFrames \cup {None} /\ m \in Nat
    BY GetNextLemma, FramesAreNumbers
  <1>2. /\ time \in Nat
        /\ next # None /\ m < next => m + time <= next
    BY <1>1, Numbers, LimitedLemma
  <1>3. next = None => \A q \in list.at : ~(m < q)
    BY GetNextLemma
  <1>4. next # None => next \in list.at /\ m < next /\ \A q \in list.at : m < q => next <= q
    BY GetNextLemma
  <1>5. \A q \in list.at : q \in Nat
    BY FramesAreNumbers
  <1>6. CASE new = m
    BY <1>1, <1>5, <1>6
  <1>7. CASE new \in LinesAhead(m, time)
    <2> HIDE DEF next, time
    <2>1. new \in IFrames /\ \A q \in IFrames : m + time <= q => new <= q
      BY <1>1, <1>2, <1>7, LinesAheadLemma
    <2>2. new \in Nat
      BY <2>1, FramesAreNumbers
    <2>3. next # None => new <= next
      BY <1>2, <1>4, <2>1
    <2> QED
      BY <1>3, <1>4, <1>5, <2>1, <2>2, <2>3
  <1> QED
    BY <1>6, <1>7

LEMMA OnForwardStep == IInv /\ OnForward => IInv'
  <1> SUFFICES ASSUME IInv, OnForward
               PROVE  IInv'
    OBVIOUS
  <1>1. pc = "forward" /\ kind' = kind /\ fault' = fault
    BY DEF OnForward, Keep
  <1>2. kind \in Offlines /\ list.at \in SUBSET IFrames /\ m \in list.at
    BY <1>1, NotOnline DEF Passes
  <1>3. PICK new \in {m} \cup LinesAhead(m, Limited(LineForward, GetNext(list, m), m)) :
            /\ list' = IF new = m THEN list ELSE Moved(list, m, new)
            /\ m' = GetNext(list', new)
            /\ pc' = IF m' = None THEN "cleanup" ELSE "off"
    BY DEF OnForward
  <1>4. new \in IFrames
    BY <1>2, ForwardLemma
  <1>5. list'.at \in SUBSET IFrames
    BY <1>2, <1>3, <1>4, MovedOrNot
  <1>6. m' \in list'.at \cup {None}
    BY <1>3, <1>5, NextMember
  <1>7. PassLeaves
    BY <1>1, <1>2, <1>3, <1>5, <1>6 DEF PassLeaves, Passes, Offlines
  <1> QED
    BY <1>1, <1>7, PassKeeps

LEMMA OffStep == IInv /\ Off => IInv'
  <1> SUFFICES ASSUME IInv, Off
               PROVE  IInv'
    OBVIOUS
  <1>1. pc = "off" /\ kind' = kind /\ fault' = fault
    BY DEF Off, Keep
  <1>2. kind \in Offlines /\ list.at \in SUBSET IFrames /\ m \in list.at
    BY <1>1, NotOnline DEF Passes
  <1>3. PICK new \in {m} \cup LinesBehind(m, OffBack) :
            list' = IF new = m THEN list ELSE Moved(list, m, new)
    BY DEF Off
  <1>4. new \in IFrames
    BY <1>2, Numbers, LinesBehindLemma
  <1>5. list'.at \in SUBSET IFrames
    BY <1>2, <1>3, <1>4, MovedOrNot
  <1>6. GetNext(list', m + 1) \in list'.at \cup {None} /\ GoOn(GetNext(list', m + 1))
    BY <1>5, NextMember DEF Off
  <1>7. PassLeaves
    BY <1>1, <1>2, <1>5, <1>6, GoOnLemma
  <1> QED
    BY <1>1, <1>7, PassKeeps

LEMMA BlackFrameStep == IInv /\ BlackFrame => IInv'
  <1> SUFFICES ASSUME IInv, BlackFrame
               PROVE  IInv'
    OBVIOUS
  <1>1. pc = "frames" /\ kind' = kind /\ fault' = fault
    BY DEF BlackFrame, Keep
  <1>2. kind \in Offlines /\ list.at \in SUBSET IFrames /\ m \in list.at /\ m \in Int
    BY <1>1, NotOnline, FramesAreNumbers DEF Passes
  <1>3. list'.at \in SUBSET IFrames
    <2>1. CASE UNCHANGED list
      BY <1>2, <2>1
    <2>2. ASSUME NEW b \in BlackBehind(m), list' = ToBlack(list, m, b, m)
          PROVE  list'.at \in SUBSET IFrames
      BY <1>2, <2>2, BlackLemma, ToBlackLemma
    <2>3. ASSUME NEW b \in BlackAhead(list, m), list' = ToBlack(list, m, b, AheadEnd(list, m))
          PROVE  list'.at \in SUBSET IFrames
      BY <1>2, <2>3, BlackLemma, ToBlackLemma
    <2> QED
      BY <2>1, <2>2, <2>3 DEF BlackFrame
  <1>4. \E next : next \in list'.at \cup {None} /\ GoOn(next)
    <2>1. \A p : AfterNext(list', p) \in list'.at \cup {None}
      BY <1>3, NextMember
    <2>2. \E p : GoOn(AfterNext(list', p)) \/ GoOn(None)
      BY DEF BlackFrame
    <2> QED
      BY <2>1, <2>2
  <1>5. PassLeaves
    BY <1>1, <1>2, <1>3, <1>4, GoOnLemma
  <1> QED
    BY <1>1, <1>5, PassKeeps

LEMMA PairStep == IInv /\ Pair => IInv'
  <1> SUFFICES ASSUME IInv, Pair
               PROVE  IInv'
    OBVIOUS
  <1>1. pc = "overlap" /\ kind' = kind
    BY DEF Pair, Keep
  <1>2. kind \in Offlines /\ list.at \in SUBSET IFrames /\ m \in list.at \cup {None}
    BY <1>1, NotOnline
  <1>3. PICK o \in CheckMarkPair(list, m) :
            /\ list' = o.list /\ fault' = o.fault
            /\ IF o.fault # "none" THEN pc' = "lost" /\ UNCHANGED m
               ELSE GoOn(AfterNext(list', IF o.node = Dummy THEN None ELSE At(list', o.node)))
    BY DEF Pair
  <1>4. list'.at \in SUBSET IFrames /\ o.fault \in {"none", "garbage"}
    BY <1>2, <1>3, PairLemma DEF PairGood
  <1>5. CASE o.fault = "none"
    <2>1. \A p : AfterNext(list', p) \in list'.at \cup {None}
      BY <1>4, NextMember
    <2>2. PassLeaves
      BY <1>1, <1>2, <1>3, <1>4, <1>5, <2>1, GoOnLemma
    <2> QED
      BY <1>1, <1>3, <1>5, <2>2, PassKeeps
  <1>6. CASE o.fault = "garbage"
    <2>1. pc' = "lost" /\ fault' = "garbage"
      BY <1>3, <1>6
    <2> QED
      BY <1>1, <1>2, <1>4, <2>1 DEF IInv, MarksInv, OnlineInv, FaultInv, Passes, Offlines
  <1> QED
    BY <1>4, <1>5, <1>6

LEMMA CleanupStep == IInv /\ Cleanup => IInv'
  <1> SUFFICES ASSUME IInv, Cleanup
               PROVE  IInv'
    OBVIOUS
  <1>1. pc = "cleanup" /\ kind' = kind /\ fault' = fault
    BY DEF Cleanup, Keep
  <1>2. kind \in Offlines /\ list.at \in SUBSET IFrames
    BY <1>1, NotOnline
  <1>3. list'.at \in SUBSET IFrames
    <2>1. CleanActive(list.at) \in SUBSET IFrames
      BY <1>2, CleanupLemma
    <2>2. CleanInactive(list.at) \in SUBSET IFrames
      BY <1>2, CleanupLemma
    <2>3. CleanInactive(CleanActive(list.at)) \in SUBSET IFrames
      BY <2>1, CleanupLemma
    <2>4. list'.at = IF kind = "overlap" THEN CleanInactive(list.at)
                     ELSE CleanInactive(CleanActive(list.at))
      BY CleanedAt DEF Cleanup
    <2> QED
      BY <2>2, <2>3, <2>4
  <1>4. GetNext(list', None) \in list'.at \cup {None}
    BY <1>3, NextMember
  <1>5. PassLeaves
    BY <1>1, <1>2, <1>3, <1>4 DEF Cleanup, PassLeaves, Passes, Offlines
  <1> QED
    BY <1>1, <1>5, PassKeeps

LEMMA SoundStep == IInv /\ Sound => IInv'
  <1> SUFFICES ASSUME IInv, Sound
               PROVE  IInv'
    OBVIOUS
  <1>1. pc = "sound" /\ kind' = kind /\ fault' = fault
    BY DEF Sound, Keep
  <1>2. kind \in Offlines /\ list.at \in SUBSET IFrames /\ m \in list.at
    BY <1>1, NotOnline DEF Passes
  <1>3. PICK new \in {m} \cup {NextToEnd(f + 1) : f \in Int} :
            /\ new # None
            /\ list' = IF new = m THEN list ELSE Moved(list, m, new)
            /\ m' = AfterNext(list', new)
    <2> DEFINE next == GetNext(list, m)
               end == IF next # None /\ m + SoundRange > next THEN next - SoundGap
                      ELSE m + SoundRange
               last == Min({end, Length - 1})
    <2>1. \E new \in {m} \cup {NextToEnd(f + 1) : f \in m..last} :
              /\ new # None
              /\ list' = IF new = m THEN list ELSE Moved(list, m, new)
              /\ m' = AfterNext(list', new)
      BY DEF Sound
    <2> HIDE DEF last
    <2>2. m..last \in SUBSET Int
      OBVIOUS
    <2> QED
      BY <2>1, <2>2
  <1>4. new \in IFrames
    <2>1. CASE new = m
      BY <1>2, <2>1
    <2>2. CASE new # m
      <3>1. PICK f \in Int : new = NextToEnd(f + 1)
        BY <1>3, <2>2
      <3>2. f + 1 \in Int
        OBVIOUS
      <3> QED
        BY <1>3, <3>1, <3>2, NextToEndLemma
    <2> QED
      BY <2>1, <2>2
  <1>5. list'.at \in SUBSET IFrames
    BY <1>2, <1>3, <1>4, MovedOrNot
  <1>6. m' \in list'.at \cup {None} /\ pc' = IF m' = None THEN "done" ELSE "sound"
    BY <1>3, <1>5, NextMember DEF Sound
  <1>7. PassLeaves
    BY <1>1, <1>2, <1>5, <1>6 DEF PassLeaves, Passes, Offlines
  <1> QED
    BY <1>1, <1>7, PassKeeps

LEMMA PassesKeep == IInv /\ Offline => IInv'
  BY StartStep, ProbeStep, OnBackStep, OnForwardStep, OffStep, BlackFrameStep, PairStep,
     CleanupStep, SoundStep DEF Offline

-----------------------------------------------------------------------------
(* While the recording goes on.                                            *)

LEMMA OnlineNow ==
    ASSUME IInv, pc = "online"
    PROVE  /\ kind = "online" /\ ~lines /\ m = None /\ Flagged(list)
           /\ list.at \in SUBSET IFrames
           /\ Cardinality(list.at) \in Nat
  BY FramesAreNumbers DEF IInv, OnlineInv, MarksInv

LEMMA FlaggedAt ==
    ASSUME NEW L, Flagged(L)
    PROVE  /\ L.at \in SUBSET IFrames /\ Cardinality(L.at) \in Nat
           /\ L.checked \in Seq(BOOLEAN) /\ Len(L.checked) = Cardinality(L.at)
           /\ L = [at |-> L.at, checked |-> L.checked]
  BY FramesAreNumbers DEF Flagged

LEMMA OnlineKeeps ==
    ASSUME IInv, pc = "online", UNCHANGED <<m, kind, lines>>,
           Flagged(list'), pc' = "online",
           \/ fault' = "none"
           \/ fault' = "freed" /\ Cardinality(list'.at) = 1
           \/ fault' = "refined" /\ ~Due'
    PROVE  IInv'
  <1>1. kind = "online" /\ ~lines /\ m = None
    BY OnlineNow
  <1>2. list'.at \in SUBSET IFrames
    BY FlaggedAt
  <1>3. MarksInv'
    BY <1>1, <1>2 DEF MarksInv, Passes
  <1>4. OnlineInv'
    BY <1>1 DEF OnlineInv
  <1>5. FaultInv'
    BY DEF FaultInv
  <1> QED
    BY <1>3, <1>4, <1>5 DEF IInv

\* The last mark.
LEMMA LastMark ==
    ASSUME NEW S \in SUBSET IFrames, S # {}
    PROVE  Max(S) \in S /\ \A q \in S : q <= Max(S)
  <1>1. S \in SUBSET (0..Length)
    BY FramesAreNumbers, Numbers
  <1> QED
    BY <1>1, Numbers, GreatestElement

LEMMA ToggleStep == IInv /\ Toggle => IInv'
  <1> SUFFICES ASSUME IInv, Toggle
               PROVE  IInv'
    OBVIOUS
  <1>1. pc = "online" /\ UNCHANGED <<m, kind, lines, pc>> /\ fault' = "none"
    BY DEF Toggle
  <1> DEFINE S == list.at
             c == list.checked
  <1>2. /\ S \in SUBSET IFrames /\ IsFiniteSet(S) /\ Cardinality(S) \in Nat
        /\ c \in Seq(BOOLEAN) /\ Len(c) = Cardinality(S)
    BY <1>1, OnlineNow, FlaggedAt, FramesAreNumbers
  <1>3. ASSUME NEW p \in Places, \A q \in S : q + MinMark <= p,
               list' = [at |-> S \cup {p}, checked |-> Append(c, FALSE)]
        PROVE  Flagged(list')
    <2>1. p \in IFrames
      BY MarkRefineAssumption
    <2>2. MinMark > 0
      BY Numbers, MarkRefineAssumption
    <2>3. p \notin S
      BY <1>2, <1>3, <2>2, FramesAreNumbers, Numbers
    <2> HIDE DEF S, c
    <2>4. Cardinality(S \cup {p}) = Cardinality(S) + 1
      BY <1>2, <2>3, FS_AddElement
    <2>5. Append(c, FALSE) \in Seq(BOOLEAN) /\ Len(Append(c, FALSE)) = Len(c) + 1
      BY <1>2
    <2> QED
      BY <1>2, <1>3, <2>1, <2>4, <2>5 DEF Flagged
  <1>4. ASSUME S # {}, list' = [at |-> S \ {Max(S)}, checked |-> Deleted(c, Len(c))]
        PROVE  Flagged(list')
    <2>1. Max(S) \in S
      BY <1>2, <1>4, LastMark
    <2> HIDE DEF S, c
    <2>2. Cardinality(S \ {Max(S)}) = Cardinality(S) - 1
      BY <1>2, <2>1, FS_RemoveElement
    <2>3. Cardinality(S) # 0
      BY <1>2, <1>4, FS_EmptySet
    <2>4. Len(c) \in 1..Len(c)
      BY <1>2, <2>3
    <2>5. Deleted(c, Len(c)) \in Seq(BOOLEAN) /\ Len(Deleted(c, Len(c))) = Len(c) - 1
      BY <1>2, <2>4, DeletedLemma
    <2> QED
      BY <1>2, <1>4, <2>2, <2>5 DEF Flagged
  <1>5. Flagged(list')
    BY <1>3, <1>4 DEF Toggle
  <1> QED
    BY <1>1, <1>5, OnlineKeeps

LEMMA RefineFirstStep == IInv /\ RefineFirst => IInv'
  <1> SUFFICES ASSUME IInv, RefineFirst
               PROVE  IInv'
    OBVIOUS
  <1>1. pc = "online" /\ UNCHANGED <<m, kind, lines, pc>> /\ Cardinality(list.at) = 1
    BY DEF RefineFirst, Due
  <1>2. Flagged(list) /\ ~lines /\ list.at \in SUBSET IFrames
    BY <1>1, OnlineNow
  <1>3. PICK o \in CheckMarkPair(list, None), set \in (BOOLEAN) :
            /\ o.again \/ set = TRUE
            /\ list' = [o.list EXCEPT !.checked = <<set>>]
            /\ fault' = IF o.again THEN "freed" ELSE "refined"
    BY DEF RefineFirst
  <1>4. PairGood(list, o) /\ o \in NotOverlapped(list, None, PicsAfter(list, None))
    BY <1>2, PairLemma
  <1>5. Flagged(o.list)
    BY <1>2, <1>4 DEF PairGood
  <1>6. Cardinality(o.list.at) = 1
    <2> DEFINE p2 == GetNext(list, None)
               pics == PicsAfter(list, None)
               node == Node(list, None)
    <2>1. p2 # None /\ p2 \in list.at
      <3>1. list.at # {}
        BY <1>1, FS_EmptySet
      <3>2. PICK q \in list.at : TRUE
        BY <3>1
      <3>3. None < q
        BY <1>2, FramesAreNumbers DEF None
      <3> QED
        BY <1>2, <3>2, <3>3, GetNextLemma
    <2>2. o \in BlackAround(list, node, p2, pics)
      BY <1>2, <1>4, <2>1 DEF NotOverlapped
    <2>3. pics.first \in Nat /\ pics.num \in Nat
      BY <1>2, AfterNumbers
    <2> HIDE DEF p2, pics, node
    <2>4. BlackMoved(list, node, p2, pics, o)
      BY <1>2, <2>1, <2>2, <2>3, BlackAroundLemma
    <2>5. CASE o = Outcome(list, node, FALSE, "none")
      BY <1>1, <2>5 DEF Outcome
    <2>6. ASSUME NEW new \in IFrames, o = Outcome(Moved(list, p2, new), node, TRUE, "none")
          PROVE  Cardinality(o.list.at) = 1
      <3>1. o.list.at = (list.at \ {p2}) \cup {new}
        BY <1>2, <2>6, MovedAt DEF Outcome
      <3>2. list.at \ {p2} = {}
        <4>1. IsFiniteSet(list.at \ {p2}) /\ Cardinality(list.at \ {p2}) = 0
          BY <1>1, <1>2, <2>1, FramesAreNumbers, FS_RemoveElement
        <4> QED
          BY <4>1, FS_EmptySet
      <3>3. o.list.at = {new}
        BY <3>1, <3>2
      <3> QED
        BY <3>3, FS_Singleton
    <2> QED
      BY <2>4, <2>5, <2>6 DEF BlackMoved
  <1>7. list' = [at |-> o.list.at, checked |-> <<set>>]
    BY <1>3, <1>5, FlaggedAt
  <1>8. Flagged(list')
    <2>1. o.list.at \in SUBSET IFrames
      BY <1>5, FlaggedAt
    <2>2. <<set>> \in Seq(BOOLEAN) /\ Len(<<set>>) = 1
      OBVIOUS
    <2> QED
      BY <1>6, <1>7, <2>1, <2>2 DEF Flagged
  <1>9. Cardinality(list'.at) = 1
    BY <1>6, <1>7
  <1>10. o.again \/ ~Due'
    <2>1. list'.checked[Len(list'.checked)] = set
      BY <1>7
    <2> QED
      BY <1>3, <2>1 DEF Due
  <1> QED
    BY <1>1, <1>3, <1>8, <1>9, <1>10, OnlineKeeps

LEMMA RefineLastStep == IInv /\ RefineLast => IInv'
  <1> SUFFICES ASSUME IInv, RefineLast
               PROVE  IInv'
    OBVIOUS
  <1> DEFINE S == list.at
             last == Max(S)
             p == GetPrev(list, last)
  <1>1. /\ pc = "online" /\ UNCHANGED <<m, kind, lines>>
        /\ Cardinality(S) > 1 /\ S # {} /\ Length - last > After
    BY DEF RefineLast, Due
  <1>2. /\ Flagged(list) /\ ~lines /\ S \in SUBSET IFrames /\ Cardinality(S) \in Nat
        /\ kind = "online" /\ m = None
    BY <1>1, OnlineNow
  <1>3. PICK o \in CheckMarkPair(list, p) :
            /\ list' = [o.list EXCEPT !.checked =
                            [k \in DOMAIN o.list.checked |->
                                o.list.checked[k] \/ k \in {o.node, o.node + 1}]]
            /\ fault' = IF o.fault # "none" THEN o.fault
                        ELSE IF o.node = Len(o.list.checked) THEN "null" ELSE "refined"
            /\ pc' = IF fault' = "refined" THEN pc ELSE "lost"
    BY DEF RefineLast
  <1>4. last \in S /\ last \in Nat /\ \A q \in S : q \in Nat /\ q <= last
    BY <1>1, <1>2, LastMark, FramesAreNumbers
  <1>5. p # None /\ p \in S /\ p < last
    <2>1. PICK q \in S : q # last
      <3>1. S # {last}
        <4>1. Cardinality({last}) = 1
          BY FS_Singleton, Zenon
        <4> QED
          BY <1>1, <4>1
      <3> QED
        BY <1>4, <3>1
    <2>2. q < last
      BY <1>4, <2>1
    <2> QED
      BY <1>2, <2>2, GetPrevLemma
  <1> HIDE DEF last
  <1>6. LastPair(list, p)
    <2>1. GetNext(list, p) # None /\ GetNext(list, p) \in S /\ p < GetNext(list, p)
      BY <1>2, <1>4, <1>5, GetNextLemma
    <2>2. \A q \in S : q < last => q <= p
      BY <1>2, <1>5, GetPrevLemma
    <2>3. p \in Nat /\ GetNext(list, p) \in Nat
      BY <1>2, <1>5, <2>1, FramesAreNumbers
    <2> HIDE DEF p
    <2>4. GetNext(list, p) = last
      BY <1>4, <2>1, <2>2, <2>3
    <2>5. GetNext(list, last) = None
      BY <1>2, <1>4, GetNextLemma
    <2>6. last + Skip + Gop < Length - Limit
      BY <1>1, <1>4, Numbers, Relations
    <2> QED
      BY <1>5, <2>1, <2>4, <2>5, <2>6 DEF LastPair
  <1>7. /\ PairGood(list, o)
        /\ o.fault = "none" => StaysLastPair(o)
    BY <1>2, <1>5, <1>6, PairLemma
  <1> HIDE DEF p, S
  <1>8. Flagged(o.list) /\ o.fault \in {"none", "garbage"}
    BY <1>2, <1>7 DEF PairGood
  <1> DEFINE c == o.list.checked
             flags == [k \in DOMAIN c |-> c[k] \/ k \in {o.node, o.node + 1}]
  <1>9. /\ o.list.at \in SUBSET IFrames /\ Cardinality(o.list.at) \in Nat
        /\ c \in Seq(BOOLEAN) /\ Len(c) = Cardinality(o.list.at)
        /\ list' = [at |-> o.list.at, checked |-> flags]
    BY <1>3, <1>8, FlaggedAt
  <1>10. CASE o.fault = "garbage"
    <2>1. pc' = "lost" /\ fault' = "garbage" /\ list'.at \in SUBSET IFrames
      BY <1>3, <1>9, <1>10
    <2> QED
      BY <1>1, <1>2, <2>1 DEF IInv, MarksInv, OnlineInv, FaultInv, Passes
  <1>11. CASE o.fault = "none"
    <2>1. o.node \in Nat \ {0} /\ o.node + 1 = Len(c)
      BY <1>7, <1>9, <1>11 DEF StaysLastPair
    <2>2. fault' = "refined" /\ pc' = "online"
      BY <1>1, <1>3, <1>11, <2>1
    <2>3. flags \in Seq(BOOLEAN) /\ Len(flags) = Len(c)
      <3> HIDE DEF c
      <3>1. Len(c) \in Nat /\ DOMAIN c = 1..Len(c)
        BY <1>9
      <3>2. \A k \in 1..Len(c) : (c[k] \/ k \in {o.node, o.node + 1}) \in BOOLEAN
        BY Zenon
      <3>3. flags \in [1..Len(c) -> BOOLEAN]
        BY <3>1, <3>2, Zenon
      <3> HIDE DEF flags
      <3> QED
        BY <3>1, <3>3
    <2>4. flags[Len(c)] = TRUE
      <3>1. Len(c) \in DOMAIN c
        BY <1>9, <2>1
      <3>2. flags[Len(c)] = (c[Len(c)] \/ Len(c) \in {o.node, o.node + 1})
        BY <3>1, Zenon
      <3> QED
        BY <2>1, <3>2
    <2> HIDE DEF flags, c
    <2>5. Flagged(list')
      BY <1>9, <2>3 DEF Flagged
    <2>6. ~Due'
      <3>1. list'.checked[Len(list'.checked)] = TRUE
        BY <1>9, <2>3, <2>4
      <3> QED
        BY <3>1 DEF Due
    <2> QED
      BY <1>1, <2>2, <2>5, <2>6, OnlineKeeps
  <1> QED
    BY <1>8, <1>10, <1>11

LEMMA InitHolds == Init => IInv
  <1> SUFFICES ASSUME Init
               PROVE  IInv
    OBVIOUS
  <1>1. \A M \in Starts : M \in SUBSET IFrames
    BY MarkRefineAssumption
  <1>2. was \in SUBSET IFrames
    <2>1. \A M \in Starts : CleanInactive(M) \in SUBSET IFrames
      BY <1>1, CleanupLemma
    <2> QED
      BY <1>1, <2>1 DEF Init
  <1> DEFINE flags == [k \in 1..Cardinality(was) |-> FALSE]
  <1>3. list = [at |-> was, checked |-> flags]
    BY DEF Init
  <1>4. Cardinality(was) \in Nat
    BY <1>2, FramesAreNumbers
  <1>5. flags \in [1..Cardinality(was) -> BOOLEAN]
    OBVIOUS
  <1> HIDE DEF flags
  <1>6. flags \in Seq(BOOLEAN) /\ Len(flags) = Cardinality(was)
    BY <1>4, <1>5
  <1>7. Flagged(list)
    BY <1>2, <1>3, <1>6 DEF Flagged
  <1>8. MarksInv
    BY <1>2, <1>3 DEF Init, MarksInv, Passes
  <1>9. OnlineInv
    BY <1>7 DEF Init, OnlineInv, Offlines
  <1>10. FaultInv
    BY DEF Init, FaultInv
  <1> QED
    BY <1>8, <1>9, <1>10 DEF IInv

LEMMA StepHolds == IInv /\ [Next]_vars => IInv'
  <1>1. IInv /\ UNCHANGED vars => IInv'
    BY DEF IInv, MarksInv, OnlineInv, FaultInv, Due, vars
  <1> QED
    BY <1>1, PassesKeep, ToggleStep, RefineFirstStep, RefineLastStep DEF Next

\* The invariant behind the theorems: every position is an independent frame of
\* the index, the passes are at a mark of the list or at its end, every flag of
\* the waiting program belongs to a mark, and what the last step did with a
\* pointer is known (noad.cpp, 583-667, 2160-2504, tnoad.cpp, 323-364).
THEOREM Invariant == Spec => []IInv
  BY InitHolds, StepHolds, PTL DEF Spec

\* For every index, any marks and all parameters of the searches, no pointer
\* that the passes or checkMarkPair follow is NULL: where one is Next() or
\* Prev() of a mark that has just been moved, the moved mark is still on the
\* right side of its neighbour.  What is left is the single first mark of a
\* recording that goes on, which is written after it has been deleted
\* (noad.cpp, 2169-2185, 2436-2491, tnoad.cpp, 341-363).
THEOREM PointersGoodHolds == Spec => []PointersGood
  <1>1. IInv => PointersGood
    BY DEF IInv, FaultInv, PointersGood
  <1> QED
    BY <1>1, Invariant, PTL

\* For every index, any marks and all parameters, the last marks are refined
\* only once: the pair that checkMarkPair leaves is still the last one, so the
\* flags go to its nodes (tnoad.cpp, 341-363).
THEOREM RefinedOnceHolds == Spec => []RefinedOnce
  <1>1. IInv => RefinedOnce
    BY DEF IInv, FaultInv, RefinedOnce
  <1> QED
    BY <1>1, Invariant, PTL

-----------------------------------------------------------------------------
(* The next mark is not walked over.                                       *)

LEMMA NotPast ==
    ASSUME list.at \in SUBSET IFrames, m \in list.at, NEW new \in IFrames,
           list'.at = (list.at \ {m}) \cup {new},
           \A q \in list.at : m < q => new <= q
    PROVE  NextMarkStep
  <1> SUFFICES ASSUME NEW q \in list.at, q > m
               PROVE  /\ q \in list'.at /\ Place(list', q) <= Place(list, q)
                      /\ \A p \in list'.at : p \notin list.at => p < q
    BY DEF NextMarkStep
  <1>1. m \in Nat /\ q \in Nat /\ new \in Nat
    BY FramesAreNumbers
  <1>2. new <= q /\ q \in list'.at
    BY <1>1
  <1>3. \A p \in list'.at : p \notin list.at => p < q
    BY <1>1, <1>2
  <1> DEFINE U == {r \in list.at : r <= q}
             V == {r \in list'.at : r <= q}
  <1>4. V = (U \ {m}) \cup {new}
    BY <1>1, <1>2
  <1>5. U \in SUBSET IFrames /\ m \in U
    BY <1>1
  <1>6. Place(list, q) = Cardinality(U) /\ Place(list', q) = Cardinality(V)
    BY DEF Place
  <1> HIDE DEF U, V
  <1>7. Cardinality(V) <= Cardinality(U)
    <2>1. Cardinality(V) = IF new \in U \ {m} THEN Cardinality(U) - 1 ELSE Cardinality(U)
      BY <1>4, <1>5, MovedCardinality
    <2>2. Cardinality(U) \in Nat
      BY <1>5, FramesAreNumbers
    <2> QED
      BY <2>1, <2>2
  <1> QED
    BY <1>2, <1>3, <1>6, <1>7

LEMMA BlackNotPast ==
    ASSUME list.at \in SUBSET IFrames, m \in list.at, NEW b \in Int, NEW end \in Int,
           list' = ToBlack(list, m, b, end),
           \A q \in list.at : m < q => end <= q
    PROVE  NextMarkStep
  <1>1. \/ list' = list
        \/ \E new \in IFrames : new < end /\ list' = Moved(list, m, new)
    BY ToBlackLemma
  <1>2. CASE list' = list
    BY <1>2 DEF NextMarkStep
  <1>3. ASSUME NEW new \in IFrames, new < end, list' = Moved(list, m, new)
        PROVE  NextMarkStep
    <2>1. list'.at = (list.at \ {m}) \cup {new}
      BY <1>3, MovedAt
    <2>2. \A q \in list.at : m < q => new <= q
      BY <1>3, FramesAreNumbers
    <2> QED
      BY <2>1, <2>2, NotPast
  <1> QED
    BY <1>1, <1>2, <1>3

LEMMA BlackFrameNotPast == IInv /\ BlackFrame => NextMarkStep
  <1> SUFFICES ASSUME IInv, BlackFrame
               PROVE  NextMarkStep
    OBVIOUS
  <1>1. pc = "frames"
    BY DEF BlackFrame
  <1>2. list.at \in SUBSET IFrames /\ m \in list.at /\ m \in Int
    BY <1>1, NotOnline, FramesAreNumbers DEF Passes
  <1>3. CASE UNCHANGED list
    BY <1>3 DEF NextMarkStep
  <1>4. ASSUME NEW b \in BlackBehind(m), list' = ToBlack(list, m, b, m)
        PROVE  NextMarkStep
    <2>1. b \in Int
      BY <1>2, BlackLemma
    <2>2. \A q \in list.at : m < q => m <= q
      BY <1>2, FramesAreNumbers
    <2> QED
      BY <1>2, <1>4, <2>1, <2>2, BlackNotPast
  <1>5. ASSUME NEW b \in BlackAhead(list, m), list' = ToBlack(list, m, b, AheadEnd(list, m))
        PROVE  NextMarkStep
    <2>1. /\ b \in Int /\ AheadEnd(list, m) \in Int
          /\ GetNext(list, m) # None => AheadEnd(list, m) <= GetNext(list, m)
      BY <1>2, BlackLemma
    <2>2. \A q \in list.at : m < q => AheadEnd(list, m) <= q
      <3> SUFFICES ASSUME NEW q \in list.at, m < q
                   PROVE  AheadEnd(list, m) <= q
        OBVIOUS
      <3>1. GetNext(list, m) # None /\ GetNext(list, m) <= q /\ GetNext(list, m) \in list.at
        BY <1>2, GetNextLemma
      <3>2. GetNext(list, m) \in Nat /\ q \in Nat
        BY <1>2, <3>1, FramesAreNumbers
      <3> QED
        BY <2>1, <3>1, <3>2
    <2> QED
      BY <1>2, <1>5, <2>1, <2>2, BlackNotPast
  <1> QED
    BY <1>3, <1>4, <1>5 DEF BlackFrame

LEMMA OnForwardNotPast == IInv /\ OnForward => NextMarkStep
  <1> SUFFICES ASSUME IInv, OnForward
               PROVE  NextMarkStep
    OBVIOUS
  <1>1. pc = "forward"
    BY DEF OnForward
  <1>2. list.at \in SUBSET IFrames /\ m \in list.at
    BY <1>1, NotOnline DEF Passes
  <1>3. PICK new \in {m} \cup LinesAhead(m, Limited(LineForward, GetNext(list, m), m)) :
            list' = IF new = m THEN list ELSE Moved(list, m, new)
    BY DEF OnForward
  <1>4. new \in IFrames /\ \A q \in list.at : m < q => new <= q
    BY <1>2, ForwardLemma
  <1>5. list'.at = (list.at \ {m}) \cup {new}
    BY <1>2, <1>3, <1>4, MovedOrNot
  <1> QED
    BY <1>2, <1>4, <1>5, NotPast

\* For every index, any marks and all parameters, a search for black frames and
\* one for black lines ahead of an on mark keep every later mark in the list, put
\* nothing new behind it and leave it at its place in the list, or one before
\* it if the mark has been moved onto another (noad.cpp, 950-953, 1279-1295).
THEOREM NextMarkKeptHolds == Spec => NextMarkKept
  <1>1. IInv /\ [Next]_vars => [NextMarkStep]_vars
    <2>1. pc \notin {"frames", "forward"} => NextMarkStep
      BY DEF NextMarkStep
    <2>2. Next /\ pc \in {"frames", "forward"} => BlackFrame \/ OnForward
      BY DEF Next, Offline, Start, Probe, OnBack, Off, Pair, Cleanup, Sound, Toggle,
             RefineFirst, RefineLast, Due
    <2> QED
      BY <2>1, <2>2, BlackFrameNotPast, OnForwardNotPast
  <1> QED
    BY <1>1, Invariant, PTL DEF Spec, NextMarkKept

-----------------------------------------------------------------------------
(* Marks that are far apart.                                               *)

\* How far the searches take a mark back, and pass3 takes it on.
BackBy == ReachBack + 2
SoundBy == SoundRange + 1 + Gop

\* A mark of S at w is now at x: not in the range of the next one; and with
\* room for the cleanup and for pass3 after the other searches.
Kept(S, w, x) == w - BackBy <= x /\ \A v \in S : w < v => x < v - BackBy
Searched(S, w, x) ==
    /\ w - BackBy <= x
    /\ \A v \in S : w < v => x + MinActiveMark <= v - BackBy /\ x + SoundBy < v - BackBy

\* The marks of L are those of S, each one at its place P.
Fits(S, P, L) ==
    /\ P \in [S -> IFrames] /\ L.at = {P[w] : w \in S}
    /\ \A w \in S : Kept(S, w, P[w])

LEMMA Reaches ==
    /\ ReachBack \in Nat /\ LineBack <= ReachBack /\ FrameBack <= ReachBack
    /\ OffBack <= ReachBack /\ Before + Lead <= ReachBack /\ BeforeOn <= ReachBack
    /\ ReachForth \in Nat /\ LineForward <= ReachForth /\ FrameForward <= ReachForth
    /\ After - BeforeOn <= ReachForth
    /\ MinActiveMark \in Nat /\ MinMark <= MinActiveMark /\ 2 <= MinActiveMark
    /\ BackBy = ReachBack + 2 /\ SoundBy = SoundRange + 1 + Gop
    /\ BackBy \in Nat /\ SoundBy \in Nat /\ Reach \in Nat
    /\ Reach = ReachBack + ReachForth + SoundRange + MinActiveMark + 4 * Gop
  <1>1. /\ MinActiveMark \in Nat /\ MinMark <= MinActiveMark
        /\ Skip < MinMark /\ Lead < Skip /\ BeforeOn < After
    BY MarkRefineAssumption, MarkCleanupAssumption
  <1>2. 2 <= MinActiveMark
    BY <1>1, Numbers
  <1>3. /\ ReachBack \in Nat /\ LineBack <= ReachBack /\ FrameBack <= ReachBack
        /\ OffBack <= ReachBack /\ Before + Lead <= ReachBack /\ BeforeOn <= ReachBack
    <2> DEFINE S == {LineBack, FrameBack, OffBack, Before + Lead, BeforeOn}
               n == LineBack + FrameBack + OffBack + Before + Lead + BeforeOn
    <2>1. n \in Nat /\ S \in SUBSET (0..n) /\ S # {}
      BY Numbers
    <2> HIDE DEF S, n
    <2>2. Max(S) \in S /\ \A y \in S : y <= Max(S)
      BY <2>1, GreatestElement
    <2>3. Max(S) \in Nat
      <3>1. \A y \in 0..n : y \in Nat
        BY <2>1
      <3> QED
        BY <2>1, <2>2, <3>1
    <2> QED
      BY <2>2, <2>3 DEF S, ReachBack
  <1>4. /\ ReachForth \in Nat /\ LineForward <= ReachForth /\ FrameForward <= ReachForth
        /\ After - BeforeOn <= ReachForth
    <2> DEFINE S == {LineForward, FrameForward, After - BeforeOn}
               n == LineForward + FrameForward + After
    <2>1. n \in Nat /\ S \in SUBSET (0..n) /\ S # {}
      BY <1>1, Numbers
    <2> HIDE DEF S, n
    <2>2. Max(S) \in S /\ \A y \in S : y <= Max(S)
      BY <2>1, GreatestElement
    <2>3. Max(S) \in Nat
      <3>1. \A y \in 0..n : y \in Nat
        BY <2>1
      <3> QED
        BY <2>1, <2>2, <3>1
    <2> QED
      BY <2>2, <2>3 DEF S, ReachForth
  <1> QED
    BY <1>1, <1>2, <1>3, <1>4, Numbers DEF BackBy, SoundBy, Reach

LEMMA NearIsSearched ==
    ASSUME NEW S \in SUBSET IFrames, Wide(S), NEW w \in S, NEW x \in Int,
           w - BackBy <= x, x <= w + ReachForth + 2 * Gop - 2
    PROVE  Searched(S, w, x)
  <1> SUFFICES ASSUME NEW v \in S, w < v
               PROVE  x + MinActiveMark <= v - BackBy /\ x + SoundBy < v - BackBy
    BY DEF Searched
  <1>1. v - w > Reach /\ v \in Nat /\ w \in Nat
    BY FramesAreNumbers DEF Wide
  <1> QED
    BY <1>1, Reaches, Numbers

\* The pictures around the first mark may begin at the start of the recording.
LEMMA FirstIsSearched ==
    ASSUME NEW S \in SUBSET IFrames, Wide(S), NEW w \in S, NEW x \in Int,
           w - BackBy <= x, x <= Skip + After + 2 * Gop - 2
    PROVE  Searched(S, w, x)
  <1> SUFFICES ASSUME NEW v \in S, w < v
               PROVE  x + MinActiveMark <= v - BackBy /\ x + SoundBy < v - BackBy
    BY DEF Searched
  <1>1. v - w > Reach /\ v \in Nat /\ w \in Nat
    BY FramesAreNumbers DEF Wide
  <1>2. /\ Skip + After <= LineForward + MinActiveMark
        /\ Skip + After <= LineForward + SoundRange
    BY MarkRefineAssumption
  <1> QED
    BY <1>1, <1>2, Reaches, Numbers

LEMMA SearchedIsKept ==
    ASSUME NEW S \in SUBSET IFrames, NEW w \in S, NEW x \in Int, Searched(S, w, x)
    PROVE  Kept(S, w, x)
  <1>1. \A v \in S : v \in Int
    BY FramesAreNumbers
  <1> QED
    BY <1>1, Reaches DEF Searched, Kept

LEMMA FitsNumbers ==
    ASSUME NEW S \in SUBSET IFrames, NEW P, NEW L, Fits(S, P, L)
    PROVE  /\ L.at \in SUBSET IFrames
           /\ \A w \in S : w \in Nat /\ P[w] \in IFrames /\ P[w] \in Nat /\ P[w] \in L.at
  BY FramesAreNumbers DEF Fits

\* The marks keep their order.
LEMMA Ordered ==
    ASSUME NEW S \in SUBSET IFrames, NEW P, NEW L, Fits(S, P, L), NEW v \in S, NEW w \in S
    PROVE  /\ v < w <=> P[v] < P[w]
           /\ v = w <=> P[v] = P[w]
           /\ v <= w <=> P[v] <= P[w]
  <1>1. \A x \in S : x \in Nat /\ P[x] \in Nat
    BY FitsNumbers
  <1>2. ASSUME NEW x \in S, NEW y \in S, x < y
        PROVE  P[x] < P[y]
    <2>1. P[x] < y - BackBy /\ y - BackBy <= P[y]
      BY <1>2 DEF Fits, Kept
    <2> QED
      BY <1>1, <2>1, Reaches
  <1>3. v < w => P[v] < P[w]
    BY <1>2
  <1>4. w < v => P[w] < P[v]
    BY <1>2
  <1> QED
    BY <1>1, <1>3, <1>4

\* As many as they were, each one at the same place.
Rank(S, w) == Cardinality({v \in S : v <= w})

LEMMA RankKept ==
    ASSUME NEW S \in SUBSET IFrames, NEW P, NEW L, Fits(S, P, L)
    PROVE  /\ Cardinality(L.at) = Cardinality(S)
           /\ \A w \in S : Place(L, P[w]) = Rank(S, w)
  <1>0. \A w \in S : P[w] \in L.at
    BY FitsNumbers
  <1>5. \A p \in L.at : \E w \in S : p = P[w]
    BY DEF Fits
  <1>1. ASSUME NEW T \in SUBSET S
        PROVE  Cardinality({P[v] : v \in T}) = Cardinality(T)
    <2> DEFINE f == [v \in T |-> P[v]]
               U == {P[v] : v \in T}
    <2>1. \A v \in T, w \in T : P[v] = P[w] => v = w
      BY Ordered
    <2>2. f \in [T -> U] /\ \A u \in U : \E v \in T : f[v] = u
      OBVIOUS
    <2>3. \A v \in T : f[v] = P[v]
      OBVIOUS
    <2> HIDE DEF f, U
    <2>4. \A v \in T, w \in T : f[v] = f[w] => v = w
      BY <2>1, <2>3
    <2>5. f \in Bijection(T, U)
      BY <2>2, <2>4 DEF Bijection, Injection, Surjection, IsInjective
    <2>6. ExistsBijection(T, U)
      BY <2>5 DEF ExistsBijection
    <2>7. IsFiniteSet(T)
      BY FramesAreNumbers, FS_Subset
    <2> QED
      BY <2>6, <2>7, FS_Bijection DEF U
  <1>2. Cardinality(L.at) = Cardinality(S)
    BY <1>1 DEF Fits
  <1>3. ASSUME NEW w \in S
        PROVE  Place(L, P[w]) = Rank(S, w)
    <2> DEFINE T == {v \in S : v <= w}
    <2>1. {q \in L.at : q <= P[w]} = {P[v] : v \in T}
      <3>1. ASSUME NEW q \in L.at, q <= P[w]
            PROVE  q \in {P[v] : v \in T}
        <4>1. PICK v \in S : q = P[v]
          BY <1>5, <3>1
        <4>2. v <= w
          BY <1>3, <3>1, <4>1, Ordered
        <4> QED
          BY <4>1, <4>2
      <3>2. ASSUME NEW v \in T
            PROVE  P[v] \in L.at /\ P[v] <= P[w]
        BY <1>0, <1>3, Ordered
      <3> QED
        BY <3>1, <3>2
    <2>2. T \in SUBSET S
      OBVIOUS
    <2>3. Cardinality({P[v] : v \in T}) = Cardinality(T)
      <3> HIDE DEF T
      <3> QED
        BY <1>1, <2>2
    <2> QED
      BY <2>1, <2>3 DEF Place, Rank
  <1> QED
    BY <1>2, <1>3

\* One mark is moved.
LEMMA FitsMoved ==
    ASSUME NEW S \in SUBSET IFrames, NEW P, NEW L, Fits(S, P, L),
           NEW w \in S, NEW new \in IFrames, Kept(S, w, new),
           NEW L2, L2.at = (L.at \ {P[w]}) \cup {new}
    PROVE  Fits(S, [P EXCEPT ![w] = new], L2)
  <1> DEFINE Q == [P EXCEPT ![w] = new]
  <1>1. P \in [S -> IFrames] /\ L.at = {P[v] : v \in S}
    BY DEF Fits
  <1>2. Q \in [S -> IFrames] /\ \A v \in S : Q[v] = IF v = w THEN new ELSE P[v]
    BY <1>1
  <1>3. \A v \in S : v # w => P[v] # P[w]
    BY Ordered
  <1> HIDE DEF Q
  <1>4. L2.at = {Q[v] : v \in S}
    <2>1. ASSUME NEW p \in L2.at
          PROVE  \E v \in S : p = Q[v]
      <3>1. CASE p = new
        BY <1>2, <3>1
      <3>2. CASE p # new
        <4>1. PICK v \in S : p = P[v] /\ v # w
          BY <1>1, <2>1, <3>2
        <4> QED
          BY <1>2, <4>1
      <3> QED
        BY <3>1, <3>2
    <2>2. ASSUME NEW v \in S
          PROVE  Q[v] \in L2.at
      BY <1>1, <1>2, <1>3
    <2> QED
      BY <2>1, <2>2
  <1>5. \A v \in S : Kept(S, v, Q[v])
    BY <1>2 DEF Fits
  <1> QED
    BY <1>2, <1>4, <1>5 DEF Fits, Q

\* The next mark is the next one of S.
LEMMA NextOf ==
    ASSUME NEW S \in SUBSET IFrames, NEW P, NEW L, Fits(S, P, L),
           NEW w \in S, NEW u \in S, w < u, \A z \in S : w < z => u <= z
    PROVE  GetNext(L, P[w]) = P[u]
  <1>1. L.at \in SUBSET IFrames /\ P[u] \in L.at /\ P[w] < P[u]
    BY FitsNumbers, Ordered
  <1>0. \A p \in L.at : \E z \in S : p = P[z]
    BY DEF Fits
  <1>2. GetNext(L, P[w]) # None
    BY <1>1, GetNextLemma
  <1>3. GetNext(L, P[w]) \in L.at /\ P[w] < GetNext(L, P[w]) /\ GetNext(L, P[w]) <= P[u]
    BY <1>1, <1>2, GetNextLemma
  <1>4. PICK z \in S : GetNext(L, P[w]) = P[z]
    BY <1>0, <1>3
  <1>5. w < z /\ z <= u
    BY <1>3, <1>4, Ordered
  <1>6. z = u
    <2>1. z \in Nat /\ u \in Nat
      BY FramesAreNumbers
    <2> QED
      BY <1>5, <2>1
  <1> QED
    BY <1>4, <1>6

\* There is no other mark at a place.
LEMMA AtPlace ==
    ASSUME NEW L, L.at \in SUBSET IFrames, NEW p \in L.at
    PROVE  At(L, Place(L, p)) = p
  <1>1. \A q \in L.at : q \in Nat /\ Place(L, q) \in Nat
    BY PlaceLemma, FramesAreNumbers
  <1>2. \A q \in L.at, r \in L.at : q < r => Place(L, q) < Place(L, r)
    BY PlaceLemma
  <1>3. \A q \in L.at : Place(L, q) = Place(L, p) => q = p
    BY <1>1, <1>2
  <1> QED
    BY <1>3 DEF At

LEMMA FirstPlace ==
    ASSUME NEW L, L.at \in SUBSET IFrames, GetNext(L, None) # None
    PROVE  Place(L, GetNext(L, None)) = 1
  <1> DEFINE p == GetNext(L, None)
  <1>1. p \in L.at /\ \A q \in L.at : None < q => p <= q
    BY GetNextLemma
  <1>2. \A q \in L.at : q \in Nat /\ None < q
    BY FramesAreNumbers DEF None
  <1> HIDE DEF p
  <1>3. {q \in L.at : q <= p} = {p}
    BY <1>1, <1>2
  <1> QED
    BY <1>3, FS_Singleton DEF Place, p

LEMMA SecondHasFirst ==
    ASSUME NEW L, L.at \in SUBSET IFrames, NEW p \in L.at, Place(L, p) % 2 = 0
    PROVE  \E q \in L.at : q < p
  <1> SUFFICES ASSUME ~ \E q \in L.at : q < p
               PROVE  FALSE
    OBVIOUS
  <1>1. \A q \in L.at : q \in Nat
    BY FramesAreNumbers
  <1>2. {q \in L.at : q <= p} = {p}
    BY <1>1
  <1>3. Place(L, p) = 1
    BY <1>2, FS_Singleton DEF Place
  <1>4. 1 % 2 = 1
    OBVIOUS
  <1> QED
    BY <1>3, <1>4

\* The marks take turns: off follows on.
LEMMA Turns ==
    ASSUME NEW k \in Nat
    PROVE  /\ k % 2 = 1 => (k + 1) % 2 = 0
           /\ k % 2 = 0 => (k + 1) % 2 = 1
  OBVIOUS

LEMMA NextTurn ==
    ASSUME NEW L, L.at \in SUBSET IFrames, NEW p \in L.at
    PROVE  /\ GetNext(L, p) # None =>
                 /\ Place(L, p) % 2 = 1 => Place(L, GetNext(L, p)) % 2 = 0
                 /\ Place(L, p) % 2 = 0 => Place(L, GetNext(L, p)) % 2 = 1
           /\ AfterNext(L, p) # None =>
                 /\ AfterNext(L, p) \in L.at /\ p < GetNext(L, p)
                 /\ GetNext(L, p) \in L.at /\ GetNext(L, p) < AfterNext(L, p)
                 /\ Place(L, p) % 2 = 1 => Place(L, AfterNext(L, p)) % 2 = 1
                 /\ Place(L, p) % 2 = 0 => Place(L, AfterNext(L, p)) % 2 = 0
  <1>1. \A q \in L.at : GetNext(L, q) = None \/ (GetNext(L, q) \in L.at /\ q < GetNext(L, q))
    BY GetNextLemma
  <1>2. \A q \in L.at : Place(L, q) \in Nat
    BY PlaceLemma, FramesAreNumbers
  <1>3. \A q \in L.at : GetNext(L, q) # None => Place(L, GetNext(L, q)) = Place(L, q) + 1
    BY PlaceLemma
  <1>4. \A q \in L.at : GetNext(L, q) # None =>
            /\ Place(L, q) % 2 = 1 => Place(L, GetNext(L, q)) % 2 = 0
            /\ Place(L, q) % 2 = 0 => Place(L, GetNext(L, q)) % 2 = 1
    BY <1>2, <1>3, Turns
  <1>5. AfterNext(L, p) = IF GetNext(L, p) = None THEN None ELSE GetNext(L, GetNext(L, p))
    BY DEF AfterNext
  <1> QED
    BY <1>1, <1>4, <1>5

-----------------------------------------------------------------------------
(* How far the searches around one mark go.                                *)

LEMMA LinesBehindReach ==
    ASSUME NEW p \in IFrames, NEW time \in Int, NEW new \in LinesBehind(p, time)
    PROVE  p - time - 1 <= new
  <1>1. p \in Nat /\ p - time - 1 \in Int
    BY FramesAreNumbers
  <1>2. new \in IFramesAt(Span(p - time - 1, p))
    BY DEF LinesBehind
  <1>3. PICK b \in Span(p - time - 1, p) : b <= new
    BY <1>1, <1>2, IFramesAtLemma, SpanLemma
  <1>4. b \in Int /\ p - time - 1 <= b
    BY <1>1, <1>3, SpanLemma
  <1>5. new \in Nat
    BY LinesBehindLemma, FramesAreNumbers
  <1> QED
    BY <1>1, <1>3, <1>4, <1>5

LEMMA LinesAheadReach ==
    ASSUME NEW p \in IFrames, NEW time \in Nat, NEW new \in LinesAhead(p, time)
    PROVE  p - 1 <= new /\ new <= p + time + Gop - 2
  <1>1. p \in Nat /\ p - 1 \in Int /\ p + time \in Int
    BY FramesAreNumbers
  <1>2. new \in IFramesAt(Span(p - 1, p + time))
    BY DEF LinesAhead
  <1>3. PICK b \in Span(p - 1, p + time) : b <= new /\ new = NextI(b - 1)
    BY <1>1, <1>2, IFramesAtLemma, SpanLemma
  <1>4. b \in Int /\ p - 1 <= b /\ b < p + time
    BY <1>1, <1>3, SpanLemma
  <1>5. new \in IFrames /\ new \in Nat
    BY LinesAheadLemma, FramesAreNumbers
  <1>6. NextI(b - 1) <= (b - 1) + Gop
    <2>1. b - 1 \in Int
      BY <1>4
    <2>2. NextI(b - 1) # None
      BY <1>3, <1>5 DEF None
    <2> QED
      BY <2>1, <2>2, NextILemma
  <1> QED
    BY <1>1, <1>3, <1>4, <1>5, <1>6, Numbers

LEMMA LimitedReach ==
    ASSUME NEW L, L.at \in SUBSET IFrames, NEW p \in L.at, NEW time \in Nat
    PROVE  /\ Limited(time, GetPrev(L, p), p) \in Nat /\ Limited(time, GetPrev(L, p), p) <= time
           /\ Limited(time, GetNext(L, p), p) \in Nat /\ Limited(time, GetNext(L, p), p) <= time
  <1>1. GetPrev(L, p) \in IFrames \cup {None} /\ GetNext(L, p) \in IFrames \cup {None}
    BY GetPrevLemma, GetNextLemma
  <1> QED
    BY <1>1, LimitedLemma

LEMMA BlackReach ==
    ASSUME NEW L, L.at \in SUBSET IFrames, NEW p \in L.at
    PROVE  /\ \A b \in BlackBehind(p) : b \in Int /\ p - FrameBack - 1 <= b
           /\ \A b \in BlackAhead(L, p) : b \in Int /\ p - 1 <= b
           /\ AheadEnd(L, p) \in Nat /\ AheadEnd(L, p) <= p + FrameForward
  <1>1. p \in Nat /\ p - FrameBack - 1 \in Int /\ p - 1 \in Int
    BY FramesAreNumbers, Numbers
  <1>2. AheadEnd(L, p) \in Nat
    BY BlackLemma
  <1>3. AheadEnd(L, p) <= p + FrameForward
    <2>1. CASE GetNext(L, p) = None
      BY <1>1, <2>1, Numbers DEF AheadEnd
    <2>2. CASE GetNext(L, p) # None
      <3> DEFINE a == p + FrameForward
                 n == GetNext(L, p)
      <3>1. a \in Nat /\ n \in Nat
        BY <1>1, <2>2, GetNextLemma, FramesAreNumbers, Numbers
      <3>2. AheadEnd(L, p) = Min({a, n})
        BY <2>2 DEF AheadEnd
      <3> HIDE DEF a, n
      <3>3. AheadEnd(L, p) <= a
        BY <3>1, <3>2, LeastOfTwo
      <3> QED
        BY <3>3 DEF a
    <2> QED
      BY <2>1, <2>2
  <1>4. \A b \in BlackBehind(p) : b \in Int /\ p - FrameBack - 1 <= b
    BY <1>1, SpanLemma DEF BlackBehind
  <1>5. \A b \in BlackAhead(L, p) : b \in Int /\ p - 1 <= b
    BY <1>1, <1>2, SpanLemma DEF BlackAhead
  <1> QED
    BY <1>2, <1>3, <1>4, <1>5

LEMMA ToBlackReach ==
    ASSUME NEW L, L.at \in SUBSET IFrames, NEW p \in L.at, NEW b \in Int, NEW end \in Int
    PROVE  \/ ToBlack(L, p, b, end) = L
           \/ \E new \in IFrames : /\ b <= new /\ new < end
                                   /\ ToBlack(L, p, b, end) = Moved(L, p, new)
  <1> DEFINE new == NextI(b - 1)
  <1>1. new = None \/ (new \in IFrames /\ b - 1 < new)
    <2>1. b - 1 \in Int
      OBVIOUS
    <2> QED
      BY <2>1, NextILemma
  <1>2. ToBlack(L, p, b, end) = IF 0 < new /\ new < end THEN Moved(L, p, new) ELSE L
    BY DEF ToBlack
  <1> HIDE DEF new
  <1>3. CASE 0 < new /\ new < end
    <2>1. new \in IFrames /\ b - 1 < new
      BY <1>1, <1>3 DEF None
    <2>2. new \in Nat
      BY <2>1, FramesAreNumbers
    <2> QED
      BY <1>2, <1>3, <2>1, <2>2
  <1>4. CASE ~(0 < new /\ new < end)
    BY <1>2, <1>4
  <1> QED
    BY <1>3, <1>4

-----------------------------------------------------------------------------
(* The inductive invariant for marks that are far apart.                   *)

\* The passes have not been at the marks from m on; in pass3 they have, and the
\* cleanup after it.
Searching == {"start", "probe", "lines", "forward", "off", "frames", "overlap", "cleanup"}

PhaseInv(P) ==
    /\ pc \in {"start", "probe"} => \A w \in was : P[w] = w
    /\ pc \in Searching => \A w \in was : Searched(was, w, P[w])
    /\ pc \in {"lines", "off", "frames", "overlap"} => \A w \in was : m <= P[w] => P[w] = w
    /\ pc = "forward" => \A w \in was : (m < P[w] => P[w] = w) /\ (m = P[w] => w - ReachBack - 1 <= m /\ m <= w)
    /\ pc = "sound" => \A w \in was : m <= P[w] => Searched(was, w, P[w])

\* Whether the mark the passes are at is an on mark.
TurnInv ==
    /\ pc \in {"lines", "forward", "sound"} => Place(list, m) % 2 = 1
    /\ pc = "off" \/ (pc = "overlap" /\ m # None) => Place(list, m) % 2 = 0

KindInv ==
    /\ was \in SUBSET IFrames
    /\ pc \in {"frames", "overlap"} => kind = pc
    /\ pc \in {"lines", "forward", "off"} => kind = "lines"

WideInv ==
    /\ KindInv
    /\ kind # "online" /\ Wide(was) =>
          TurnInv /\ \E P : Fits(was, P, list) /\ PhaseInv(P)

LEMMA WideLeft ==
    ASSUME KindInv',
           Wide(was') => TurnInv' /\ \E Q : Fits(was', Q, list') /\ PhaseInv(Q)'
    PROVE  WideInv'
  BY DEF WideInv

LEMMA WideNow ==
    ASSUME WideInv, Wide(was), kind # "online"
    PROVE  TurnInv /\ \E P : Fits(was, P, list) /\ PhaseInv(P)
  BY DEF WideInv

Moves(S, P, L, w, new, L2) ==
    \E Q : /\ Fits(S, Q, L2) /\ Q[w] = new
           /\ \A v \in S : v # w => Q[v] = P[v]
           /\ \A v \in S : Place(L2, Q[v]) = Place(L, P[v])

LEMMA MoveKeeps ==
    ASSUME NEW S \in SUBSET IFrames, NEW P, NEW L, Fits(S, P, L),
           NEW w \in S, NEW new \in IFrames, Kept(S, w, new),
           NEW L2, L2.at = (L.at \ {P[w]}) \cup {new}
    PROVE  Moves(S, P, L, w, new, L2)
  <1> DEFINE Q == [P EXCEPT ![w] = new]
  <1>1. Fits(S, Q, L2)
    BY FitsMoved
  <1>2. P \in [S -> IFrames]
    BY DEF Fits
  <1>3. Q[w] = new /\ \A v \in S : v # w => Q[v] = P[v]
    BY <1>2
  <1> HIDE DEF Q
  <1>4. \A v \in S : Place(L2, Q[v]) = Rank(S, v)
    BY <1>1, RankKept
  <1>5. \A v \in S : Place(L, P[v]) = Rank(S, v)
    BY RankKept
  <1>6. \A v \in S : Place(L2, Q[v]) = Place(L, P[v])
    BY <1>4, <1>5
  <1> QED
    BY <1>1, <1>3, <1>6 DEF Moves

LEMMA UntouchedFits ==
    ASSUME NEW S \in SUBSET IFrames, Wide(S), NEW L, L.at = S
    PROVE  \E Q : Fits(S, Q, L) /\ \A w \in S : Q[w] = w /\ Searched(S, w, Q[w])
  <1> DEFINE Q == [w \in S |-> w]
  <1>1. \A w \in S : Q[w] = w
    OBVIOUS
  <1>2. Q \in [S -> IFrames] /\ L.at = {Q[w] : w \in S}
    OBVIOUS
  <1> HIDE DEF Q
  <1>3. ASSUME NEW w \in S
        PROVE  Searched(S, w, Q[w]) /\ Kept(S, w, Q[w])
    <2>1. w \in Int /\ w - BackBy <= w /\ w <= w + ReachForth + 2 * Gop - 2
      BY FramesAreNumbers, Reaches, Numbers
    <2>2. Searched(S, w, w)
      BY <2>1, NearIsSearched
    <2> QED
      BY <1>1, <2>1, <2>2, SearchedIsKept
  <1>4. Fits(S, Q, L)
    BY <1>2, <1>3 DEF Fits
  <1> QED
    BY <1>1, <1>3, <1>4

\* As soon as it is known whether there are black lines.
LEMMA DecidedWide ==
    ASSUME NEW found \in BOOLEAN, Decided(found), kind \in Offlines,
           was' \in SUBSET IFrames, list'.at = was'
    PROVE  WideInv'
  <1>1. KindInv'
    BY DEF Decided, GoOn, KindInv, Offlines
  <1>2. TurnInv'
    <2>1. CASE kind = "overlap"
      BY <2>1 DEF Decided, TurnInv
    <2>2. CASE kind # "overlap"
      <3>1. GoOn(GetNext(list', None)) /\ kind' \in {"lines", "frames"}
        BY <2>2 DEF Decided
      <3>2. CASE GetNext(list', None) = None
        BY <3>1, <3>2 DEF GoOn, TurnInv
      <3>3. CASE GetNext(list', None) # None
        <4>1. pc' = kind' /\ m' = GetNext(list', None)
          BY <3>1, <3>3 DEF GoOn
        <4>2. Place(list', m') = 1
          BY <3>3, <4>1, FirstPlace
        <4>3. 1 % 2 = 1
          OBVIOUS
        <4> QED
          BY <3>1, <4>1, <4>2, <4>3 DEF TurnInv
      <3> QED
        BY <3>2, <3>3
    <2> QED
      BY <2>1, <2>2
  <1>3. ASSUME Wide(was')
        PROVE  \E Q : Fits(was', Q, list') /\ PhaseInv(Q)'
    <2>1. PICK Q : Fits(was', Q, list') /\ \A w \in was' : Q[w] = w /\ Searched(was', w, Q[w])
      BY <1>3, UntouchedFits
    <2>2. pc' \in {"cleanup", "lines", "frames", "overlap"}
      BY DEF Decided, GoOn
    <2>3. PhaseInv(Q)'
      BY <2>1, <2>2 DEF PhaseInv
    <2> QED
      BY <2>1, <2>3
  <1> QED
    BY <1>1, <1>2, <1>3, WideLeft

LEMMA StartWide == IInv /\ WideInv /\ Start => WideInv'
  <1> SUFFICES ASSUME IInv, WideInv, Start
               PROVE  WideInv'
    OBVIOUS
  <1>1. pc = "start" /\ was' = list'.at
    BY DEF Start
  <1>2. kind \in Offlines /\ list.at \in SUBSET IFrames
    BY <1>1, NotOnline
  <1>3. was' \in SUBSET IFrames
    <2>1. list'.at = CleanInactive(list.at)
      BY CleanedAt DEF Start
    <2> QED
      BY <1>1, <1>2, <2>1, CleanupLemma
  <1>4. CASE Decided(FALSE)
    BY <1>1, <1>2, <1>3, <1>4, DecidedWide
  <1>5. CASE pc' = "probe"
    <2>1. KindInv' /\ TurnInv'
      BY <1>3, <1>5 DEF KindInv, TurnInv
    <2>2. ASSUME Wide(was')
          PROVE  \E Q : Fits(was', Q, list') /\ PhaseInv(Q)'
      <3>1. PICK Q : Fits(was', Q, list') /\ \A w \in was' : Q[w] = w /\ Searched(was', w, Q[w])
        BY <1>1, <1>3, <2>2, UntouchedFits
      <3>2. PhaseInv(Q)'
        BY <1>5, <3>1 DEF PhaseInv
      <3> QED
        BY <3>1, <3>2
    <2> QED
      BY <2>1, <2>2, WideLeft
  <1> QED
    BY <1>4, <1>5 DEF Start

LEMMA ProbeWide == IInv /\ WideInv /\ Probe => WideInv'
  <1> SUFFICES ASSUME IInv, WideInv, Probe
               PROVE  WideInv'
    OBVIOUS
  <1>1. pc = "probe" /\ list' = list /\ was' = was
    BY DEF Probe
  <1>2. kind \in Offlines /\ was \in SUBSET IFrames
    BY <1>1, NotOnline DEF WideInv, KindInv
  <1>3. (\E found \in BOOLEAN : Decided(found)) \/ UNCHANGED <<m, kind, lines, pc>>
    BY DEF Probe
  <1>4. CASE UNCHANGED <<m, kind, lines, pc>>
    <2>1. KindInv'
      BY <1>1, <1>2, <1>4 DEF KindInv
    <2>2. TurnInv'
      BY <1>1, <1>4 DEF TurnInv
    <2>3. ASSUME Wide(was)
          PROVE  \E Q : Fits(was, Q, list) /\ PhaseInv(Q)'
      <3>1. PICK Q : Fits(was, Q, list) /\ PhaseInv(Q)
        BY <1>2, <2>3, WideNow DEF Offlines
      <3>2. PhaseInv(Q)'
        BY <1>1, <1>4, <3>1 DEF PhaseInv
      <3> QED
        BY <3>1, <3>2
    <2> QED
      BY <1>1, <2>1, <2>2, <2>3, WideLeft
  <1>5. ASSUME NEW found \in BOOLEAN, Decided(found)
        PROVE  WideInv'
    <2>1. CASE Wide(was)
      <3>1. PICK Q : Fits(was, Q, list) /\ PhaseInv(Q)
        BY <1>2, <2>1, WideNow DEF Offlines
      <3>2. \A w \in was : Q[w] = w
        BY <1>1, <3>1 DEF PhaseInv
      <3>3. list.at = was
        BY <3>1, <3>2 DEF Fits
      <3> QED
        BY <1>1, <1>2, <1>5, <3>3, DecidedWide
    <2>2. CASE ~Wide(was)
      <3>1. KindInv'
        BY <1>1, <1>2, <1>5 DEF Decided, GoOn, KindInv, Offlines
      <3> QED
        BY <1>1, <2>2, <3>1, WideLeft
    <2> QED
      BY <2>1, <2>2
  <1> QED
    BY <1>3, <1>4, <1>5

\* The passes are at a mark.
LEMMA WideAtMark ==
    ASSUME IInv, WideInv, Wide(was), pc \in Passes
    PROVE  /\ TurnInv /\ was \in SUBSET IFrames
           /\ \E P : /\ Fits(was, P, list) /\ PhaseInv(P)
                     /\ \E w \in was : m = P[w]
  <1>1. kind # "online" /\ m \in list.at
    BY NotOnline DEF Passes, Offlines
  <1>2. TurnInv /\ \E P : Fits(was, P, list) /\ PhaseInv(P)
    BY <1>1, WideNow
  <1>3. \A P : Fits(was, P, list) => \E w \in was : m = P[w]
    BY <1>1 DEF Fits
  <1> QED
    BY <1>2, <1>3 DEF WideInv, KindInv

LEMMA SearchedThen ==
    ASSUME NEW S \in SUBSET IFrames, Wide(S), NEW w \in S, NEW x \in IFrames,
           w - BackBy <= x, x <= w + ReachForth + 2 * Gop - 2
    PROVE  Searched(S, w, x) /\ Kept(S, w, x)
  <1>1. x \in Int
    BY FramesAreNumbers
  <1> QED
    BY <1>1, NearIsSearched, SearchedIsKept

\* Marks that have been searched are not close together.
LEMMA ApartAfterSearch ==
    ASSUME NEW S \in SUBSET IFrames, NEW P, NEW L, Fits(S, P, L),
           NEW v \in S, NEW w \in S, v < w, Searched(S, v, P[v])
    PROVE  P[v] + MinActiveMark <= P[w]
  <1>1. P[v] + MinActiveMark <= w - BackBy /\ w - BackBy <= P[w]
    BY DEF Searched, Fits, Kept
  <1>2. P[v] \in Nat /\ P[w] \in Nat /\ w \in Nat
    BY FitsNumbers
  <1> QED
    BY <1>1, <1>2, Reaches

LEMMA OnBackWide == IInv /\ WideInv /\ OnBack => WideInv'
  <1> SUFFICES ASSUME IInv, WideInv, OnBack
               PROVE  WideInv'
    OBVIOUS
  <1>1. pc = "lines" /\ pc' = "forward" /\ kind' = kind /\ was' = was
    BY DEF OnBack, Keep
  <1>2. KindInv'
    BY <1>1 DEF WideInv, KindInv
  <1>3. ASSUME Wide(was)
        PROVE  TurnInv' /\ \E Q : Fits(was, Q, list') /\ PhaseInv(Q)'
    <2>1. TurnInv /\ was \in SUBSET IFrames
      BY <1>1, <1>3, WideAtMark DEF Passes
    <2>2. PICK P : Fits(was, P, list) /\ PhaseInv(P) /\ \E w \in was : m = P[w]
      BY <1>1, <1>3, WideAtMark DEF Passes
    <2>3. PICK w \in was : m = P[w]
      BY <2>2
    <2>4. /\ \A v \in was : v \in Nat /\ P[v] \in Nat /\ P[v] \in IFrames
          /\ list.at \in SUBSET IFrames /\ m \in list.at
      BY <2>1, <2>2, <2>3, FitsNumbers
    <2>5. /\ P[w] = w /\ \A v \in was : Searched(was, v, P[v])
          /\ \A v \in was : m <= P[v] => P[v] = v
      BY <1>1, <2>2, <2>3, <2>4 DEF PhaseInv, Searching
    <2>6. Place(list, m) % 2 = 1
      BY <1>1, <2>1 DEF TurnInv
    <2>7. CASE UNCHANGED <<list, m, fault>>
      <3>1. \A v \in was : /\ m < P[v] => P[v] = v
                           /\ m = P[v] => v - ReachBack - 1 <= m /\ m <= v
        <4> SUFFICES ASSUME NEW v \in was
                     PROVE  /\ m < P[v] => P[v] = v
                            /\ m = P[v] => v - ReachBack - 1 <= m /\ m <= v
          OBVIOUS
        <4>1. m <= P[v] => P[v] = v
          BY <2>5
        <4>2. m \in Nat /\ v \in Nat /\ P[v] \in Nat /\ ReachBack \in Nat
          BY <2>3, <2>4, Reaches
        <4> QED
          BY <4>1, <4>2
      <3>2. m' = m /\ pc' = "forward" /\ was' = was
        BY <1>1, <2>7
      <3>3. PhaseInv(P)'
        BY <2>5, <3>1, <3>2 DEF PhaseInv
      <3> QED
        BY <1>1, <2>2, <2>6, <2>7, <3>3 DEF TurnInv
    <2>8. CASE ~ UNCHANGED <<list, m, fault>>
      <3> DEFINE time == Limited(LineBack, GetPrev(list, m), m)
      <3>1. PICK new \in LinesBehind(m, time) : list' = Moved(list, m, new) /\ m' = GetPrev(list', m + 1)
        BY <2>8 DEF OnBack
      <3>2. time \in Nat /\ time <= LineBack
        BY <2>4, Numbers, LimitedReach
      <3> HIDE DEF time
      <3>3. new \in IFrames /\ new < m /\ m - time - 1 <= new /\ new \in Nat
        BY <2>4, <3>1, <3>2, LinesBehindLemma, LinesBehindReach, FramesAreNumbers
      <3>4. Searched(was, w, new) /\ Kept(was, w, new)
        <4>1. w - BackBy <= new /\ new <= w + ReachForth + 2 * Gop - 2
          BY <2>3, <2>4, <2>5, <3>2, <3>3, Reaches, Numbers
        <4> QED
          BY <1>3, <2>1, <3>3, <4>1, SearchedThen
      <3>5. list'.at = (list.at \ {P[w]}) \cup {new}
        BY <2>3, <2>4, <3>1, <3>3, MovedAt
      <3>6. PICK Q : /\ Fits(was, Q, list') /\ Q[w] = new
                     /\ \A v \in was : v # w => Q[v] = P[v]
                     /\ \A v \in was : Place(list', Q[v]) = Place(list, P[v])
        BY <2>1, <2>2, <3>3, <3>4, <3>5, MoveKeeps DEF Moves
      <3>7. \A v \in was : Searched(was, v, Q[v])
        BY <2>5, <3>4, <3>6
      <3>8. list'.at \in SUBSET IFrames /\ \A v \in was : Q[v] \in Nat /\ Q[v] \in list'.at
        BY <2>1, <3>6, FitsNumbers
      <3>9. \A v \in was : w < v => m < P[v] /\ m + 1 < Q[v] /\ Q[v] = v
        <4> SUFFICES ASSUME NEW v \in was, w < v
                     PROVE  m < P[v] /\ m + 1 < Q[v] /\ Q[v] = v
          OBVIOUS
        <4>1. P[w] + MinActiveMark <= P[v]
          BY <2>1, <2>2, <2>5, ApartAfterSearch
        <4>2. v # w
          BY <2>4
        <4> QED
          BY <2>3, <2>4, <2>5, <3>6, <4>1, <4>2, Reaches
      <3>10. m' = new
        <4>1. new \in list'.at /\ new < m + 1
          <5>1. Q[w] \in list'.at
            BY <3>8
          <5>2. m \in Nat
            BY <2>3, <2>4
          <5> QED
            BY <3>3, <3>6, <5>1, <5>2
        <4>2. m' # None
          BY <3>1, <3>8, <4>1, GetPrevLemma
        <4>3. m' \in list'.at /\ m' < m + 1 /\ new <= m'
          BY <3>1, <3>8, <4>1, <4>2, GetPrevLemma
        <4>4. PICK v \in was : m' = Q[v]
          BY <3>6, <4>3 DEF Fits
        <4>5. ~(w < v)
          <5>1. w < v => m + 1 < Q[v]
            BY <3>9
          <5>2. m \in Nat /\ Q[v] \in Nat
            BY <2>3, <2>4, <3>8
          <5> QED
            BY <4>3, <4>4, <5>1, <5>2
        <4>6. v <= w
          BY <2>4, <4>5
        <4>7. Q[v] <= Q[w]
          BY <2>1, <3>6, <4>6, Ordered
        <4> QED
          BY <3>3, <3>6, <3>8, <4>3, <4>4, <4>7
      <3>11. PhaseInv(Q)'
        <4>1. \A v \in was : (m' < Q[v] => Q[v] = v) /\ (m' = Q[v] => v - ReachBack - 1 <= m' /\ m' <= v)
          <5> SUFFICES ASSUME NEW v \in was
                       PROVE  (m' < Q[v] => Q[v] = v) /\ (m' = Q[v] => v - ReachBack - 1 <= m' /\ m' <= v)
            OBVIOUS
          <5>1. m' < Q[v] => w < v
            BY <2>1, <3>6, <3>10, Ordered
          <5>2. m' = Q[v] => w = v
            BY <2>1, <3>6, <3>10, Ordered
          <5> QED
            BY <2>3, <2>4, <2>5, <3>2, <3>3, <3>9, <3>10, <5>1, <5>2, Reaches, Numbers
        <4> QED
          BY <1>1, <3>7, <4>1 DEF PhaseInv, Searching
      <3>12. TurnInv'
        BY <1>1, <2>3, <2>6, <3>6, <3>10 DEF TurnInv
      <3> QED
        BY <3>6, <3>11, <3>12
    <2> QED
      BY <2>7, <2>8
  <1> QED
    BY <1>1, <1>2, <1>3, WideLeft

LEMMA OnForwardWide == IInv /\ WideInv /\ OnForward => WideInv'
  <1> SUFFICES ASSUME IInv, WideInv, OnForward
               PROVE  WideInv'
    OBVIOUS
  <1>1. pc = "forward" /\ kind' = kind /\ was' = was
    BY DEF OnForward, Keep
  <1>2. PICK new :
            /\ new \in {m} \cup LinesAhead(m, Limited(LineForward, GetNext(list, m), m))
            /\ list' = IF new = m THEN list ELSE Moved(list, m, new)
            /\ m' = GetNext(list', new)
            /\ pc' = IF m' = None THEN "cleanup" ELSE "off"
    BY DEF OnForward
  <1>3. KindInv'
    BY <1>1, <1>2 DEF WideInv, KindInv
  <1>4. ASSUME Wide(was)
        PROVE  TurnInv' /\ \E Q : Fits(was, Q, list') /\ PhaseInv(Q)'
    <2>1. TurnInv /\ was \in SUBSET IFrames
      BY <1>1, <1>4, WideAtMark DEF Passes
    <2>2. PICK P : Fits(was, P, list) /\ PhaseInv(P) /\ \E w \in was : m = P[w]
      BY <1>1, <1>4, WideAtMark DEF Passes
    <2>3. PICK w \in was : m = P[w]
      BY <2>2
    <2>4. /\ \A v \in was : v \in Nat /\ P[v] \in Nat /\ P[v] \in IFrames
          /\ list.at \in SUBSET IFrames /\ m \in list.at
      BY <2>1, <2>2, <2>3, FitsNumbers
    <2>5. /\ m <= w /\ \A v \in was : Searched(was, v, P[v])
          /\ \A v \in was : m < P[v] => P[v] = v
      BY <1>1, <2>2, <2>3 DEF PhaseInv, Searching
    <2>6. new \in IFrames /\ new \in Nat
      BY <1>2, <2>4, ForwardLemma, FramesAreNumbers
    <2>7. Searched(was, w, new) /\ Kept(was, w, new)
      <3>1. CASE new = m
        BY <2>1, <2>3, <2>4, <2>5, <3>1, SearchedIsKept
      <3>2. CASE new # m
        <4> DEFINE time == Limited(LineForward, GetNext(list, m), m)
        <4>1. time \in Nat /\ time <= LineForward /\ new \in LinesAhead(m, time)
          BY <1>2, <2>4, <3>2, Numbers, LimitedReach
        <4> HIDE DEF time
        <4>2. m - 1 <= new /\ new <= m + time + Gop - 2
          BY <2>4, <4>1, LinesAheadReach
        <4>3. w - ReachBack - 1 <= m
          BY <1>1, <2>2, <2>3 DEF PhaseInv
        <4>4. w - BackBy <= new /\ new <= w + ReachForth + 2 * Gop - 2
          BY <2>3, <2>4, <2>5, <2>6, <4>1, <4>2, <4>3, Reaches, Numbers
        <4> QED
          BY <1>4, <2>1, <2>6, <4>4, SearchedThen
      <3> QED
        BY <3>1, <3>2
    <2>8. list'.at = (list.at \ {P[w]}) \cup {new}
      BY <1>2, <2>3, <2>4, <2>6, MovedOrNot
    <2>9. PICK Q : /\ Fits(was, Q, list') /\ Q[w] = new
                   /\ \A v \in was : v # w => Q[v] = P[v]
                   /\ \A v \in was : Place(list', Q[v]) = Place(list, P[v])
      <3>1. Fits(was, P, list) /\ Kept(was, w, new)
        BY <2>2, <2>7
      <3>2. new \in IFrames
        BY <2>6
      <3> QED
        BY <2>1, <2>8, <3>1, <3>2, MoveKeeps DEF Moves
    <2>10. \A v \in was : Searched(was, v, Q[v])
      BY <2>5, <2>7, <2>9
    <2>11. /\ list'.at \in SUBSET IFrames /\ new \in list'.at
           /\ \A v \in was : Q[v] \in Nat
      BY <2>1, <2>9, FitsNumbers
    <2>12. Place(list', new) % 2 = 1
      BY <1>1, <2>1, <2>3, <2>9 DEF TurnInv
    <2>13. TurnInv'
      BY <1>2, <2>11, <2>12, NextTurn DEF TurnInv
    <2>14. PhaseInv(Q)'
      <3>1. CASE m' = None
        BY <1>1, <1>2, <2>10, <3>1 DEF PhaseInv, Searching
      <3>2. CASE m' # None
        <4>1. m' \in list'.at /\ new < m'
          BY <1>2, <2>11, <3>2, GetNextLemma
        <4>2. m' \in Nat
          BY <2>11, <4>1, FramesAreNumbers
        <4>3. ASSUME NEW v \in was, m' <= Q[v]
              PROVE  Q[v] = v
          <5>1. Q[w] < Q[v]
            BY <2>6, <2>9, <2>11, <4>1, <4>2, <4>3
          <5>2. w < v
            BY <2>1, <2>9, <5>1, Ordered
          <5>3. P[w] < P[v] /\ v # w
            BY <2>1, <2>2, <2>4, <5>2, Ordered
          <5> QED
            BY <2>3, <2>5, <2>9, <5>3
        <4> QED
          BY <1>1, <1>2, <2>10, <3>2, <4>3 DEF PhaseInv, Searching
      <3> QED
        BY <3>1, <3>2
    <2> QED
      BY <2>9, <2>13, <2>14
  <1> QED
    BY <1>1, <1>3, <1>4, WideLeft

LEMMA OffWide == IInv /\ WideInv /\ Off => WideInv'
  <1> SUFFICES ASSUME IInv, WideInv, Off
               PROVE  WideInv'
    OBVIOUS
  <1>1. pc = "off" /\ kind' = kind /\ was' = was
    BY DEF Off, Keep
  <1>2. PICK new : /\ new \in {m} \cup LinesBehind(m, OffBack)
                   /\ list' = IF new = m THEN list ELSE Moved(list, m, new)
    BY DEF Off
  <1>3. /\ m' = GetNext(list', m + 1)
        /\ kind = "lines" /\ pc' = IF m' = None THEN "cleanup" ELSE "lines"
    BY <1>1 DEF WideInv, KindInv, Off, GoOn
  <1>4. KindInv'
    BY <1>1, <1>3 DEF WideInv, KindInv
  <1>5. ASSUME Wide(was)
        PROVE  TurnInv' /\ \E Q : Fits(was, Q, list') /\ PhaseInv(Q)'
    <2>1. TurnInv /\ was \in SUBSET IFrames
      BY <1>1, <1>5, WideAtMark DEF Passes
    <2>2. PICK P : Fits(was, P, list) /\ PhaseInv(P) /\ \E w \in was : m = P[w]
      BY <1>1, <1>5, WideAtMark DEF Passes
    <2>3. PICK w \in was : m = P[w]
      BY <2>2
    <2>4. /\ \A v \in was : v \in Nat /\ P[v] \in Nat /\ P[v] \in IFrames
          /\ list.at \in SUBSET IFrames /\ m \in list.at
      BY <2>1, <2>2, <2>3, FitsNumbers
    <2>5. /\ P[w] = w /\ \A v \in was : Searched(was, v, P[v])
          /\ \A v \in was : m <= P[v] => P[v] = v
      BY <1>1, <2>2, <2>3, <2>4 DEF PhaseInv, Searching
    <2>6. m \in IFrames /\ m \in Nat
      BY <2>3, <2>4
    <2>7. new \in IFrames /\ new \in Nat /\ new <= m /\ m - OffBack - 1 <= new
      <3>1. CASE new = m
        BY <2>6, <3>1, Numbers
      <3>2. CASE new # m
        <4>1. new \in LinesBehind(m, OffBack) /\ OffBack \in Int
          BY <1>2, <3>2, Numbers
        <4>2. new \in IFrames /\ new < m /\ m - OffBack - 1 <= new
          BY <2>6, <4>1, LinesBehindLemma, LinesBehindReach
        <4>3. new \in Nat
          BY <4>2, FramesAreNumbers
        <4> QED
          BY <2>6, <4>2, <4>3
      <3> QED
        BY <3>1, <3>2
    <2>8. Searched(was, w, new) /\ Kept(was, w, new)
      <3>1. w - BackBy <= new /\ new <= w + ReachForth + 2 * Gop - 2
        BY <2>3, <2>5, <2>6, <2>7, Reaches, Numbers
      <3> QED
        BY <1>5, <2>1, <2>7, <3>1, SearchedThen
    <2>9. list'.at = (list.at \ {P[w]}) \cup {new}
      BY <1>2, <2>3, <2>4, <2>7, MovedOrNot
    <2>10. PICK Q : /\ Fits(was, Q, list') /\ Q[w] = new
                    /\ \A v \in was : v # w => Q[v] = P[v]
                    /\ \A v \in was : Place(list', Q[v]) = Place(list, P[v])
      <3>1. Fits(was, P, list) /\ Kept(was, w, new)
        BY <2>2, <2>8
      <3>2. new \in IFrames
        BY <2>7
      <3> QED
        BY <2>1, <2>9, <3>1, <3>2, MoveKeeps DEF Moves
    <2>11. \A v \in was : Searched(was, v, Q[v])
      BY <2>5, <2>8, <2>10
    <2>12. /\ list'.at \in SUBSET IFrames /\ new \in list'.at
           /\ \A v \in was : Q[v] \in Nat /\ Q[v] \in list'.at
      BY <2>1, <2>10, FitsNumbers
    <2>13. \A v \in was : w < v => m + 1 < Q[v] /\ Q[v] = v
      <3> SUFFICES ASSUME NEW v \in was, w < v
                   PROVE  m + 1 < Q[v] /\ Q[v] = v
        OBVIOUS
      <3>1. P[w] + MinActiveMark <= P[v]
        BY <2>1, <2>2, <2>5, ApartAfterSearch
      <3>2. v # w
        BY <2>4
      <3>3. Q[v] = P[v] /\ m <= P[v]
        BY <2>3, <2>4, <2>10, <3>1, <3>2, Reaches
      <3> QED
        BY <2>3, <2>4, <2>5, <3>1, <3>3, Reaches
    <2>14. \A v \in was : ~(w < v) => Q[v] <= new
      <3> SUFFICES ASSUME NEW v \in was, ~(w < v)
                   PROVE  Q[v] <= new
        OBVIOUS
      <3>1. v <= w
        BY <2>4
      <3> QED
        BY <2>1, <2>10, <3>1, Ordered
    <2>15. m' = GetNext(list', new)
      <3>1. ASSUME NEW q \in list'.at
            PROVE  m + 1 < q <=> new < q
        <4>1. PICK v \in was : q = Q[v]
          BY <2>10 DEF Fits
        <4>2. q \in Nat
          BY <2>12, <4>1
        <4>3. CASE w < v
          BY <2>6, <2>7, <2>13, <4>1, <4>2, <4>3
        <4>4. CASE ~(w < v)
          BY <2>6, <2>7, <2>14, <4>1, <4>2, <4>4
        <4> QED
          BY <4>3, <4>4
      <3>2. {q \in list'.at : m + 1 < q} = {q \in list'.at : new < q}
        BY <3>1
      <3> QED
        BY <1>3, <3>2 DEF GetNext
    <2>16. Place(list', new) % 2 = 0
      BY <1>1, <2>1, <2>3, <2>10 DEF TurnInv
    <2>17. TurnInv'
      BY <1>3, <2>12, <2>15, <2>16, NextTurn DEF TurnInv
    <2>18. PhaseInv(Q)'
      <3>1. CASE m' = None
        BY <1>1, <1>3, <2>11, <3>1 DEF PhaseInv, Searching
      <3>2. CASE m' # None
        <4>1. m' \in list'.at /\ new < m'
          BY <2>12, <2>15, <3>2, GetNextLemma
        <4>2. m' \in Nat
          BY <2>12, <4>1, FramesAreNumbers
        <4>3. ASSUME NEW v \in was, m' <= Q[v]
              PROVE  Q[v] = v
          <5>1. ~(Q[v] <= new)
            BY <2>7, <2>12, <4>1, <4>2, <4>3
          <5> QED
            BY <2>13, <2>14, <5>1
        <4> QED
          BY <1>1, <1>3, <2>11, <3>2, <4>3 DEF PhaseInv, Searching
      <3> QED
        BY <3>1, <3>2
    <2> QED
      BY <2>10, <2>17, <2>18
  <1> QED
    BY <1>1, <1>4, <1>5, WideLeft

\* The passes have moved the mark at m and gone on to one behind it.
LEMMA MovedOn ==
    ASSUME was \in SUBSET IFrames, NEW P, Fits(was, P, list), NEW w \in was,
           \A v \in was : P[w] <= P[v] => P[v] = v,
           NEW Q, Fits(was, Q, list'), \A v \in was : v # w => Q[v] = P[v],
           m' \in list'.at, Q[w] < m'
    PROVE  \A v \in was : m' <= Q[v] => Q[v] = v
  <1> SUFFICES ASSUME NEW v \in was, m' <= Q[v]
               PROVE  Q[v] = v
    OBVIOUS
  <1>1. m' \in Nat /\ Q[v] \in Nat /\ Q[w] \in Nat /\ P[w] \in Nat /\ P[v] \in Nat
    BY FitsNumbers, FramesAreNumbers
  <1>2. Q[w] < Q[v]
    BY <1>1
  <1>3. w < v
    BY <1>2, Ordered
  <1>4. P[w] < P[v]
    BY <1>3, Ordered
  <1>5. v # w
    BY <1>1, <1>2
  <1> QED
    BY <1>1, <1>4, <1>5

LEMMA BeyondNext ==
    ASSUME NEW L, L.at \in SUBSET IFrames, NEW p \in Int, AfterNext(L, p) # None
    PROVE  /\ GetNext(L, p) \in L.at /\ p < GetNext(L, p)
           /\ AfterNext(L, p) \in L.at /\ GetNext(L, p) < AfterNext(L, p)
           /\ p < AfterNext(L, p)
  <1>1. \A q : GetNext(L, q) = None \/ (GetNext(L, q) \in L.at /\ q < GetNext(L, q))
    BY GetNextLemma
  <1>2. GetNext(L, p) # None /\ AfterNext(L, p) = GetNext(L, GetNext(L, p))
    BY DEF AfterNext
  <1>3. /\ GetNext(L, p) \in L.at /\ p < GetNext(L, p)
        /\ AfterNext(L, p) \in L.at /\ GetNext(L, p) < AfterNext(L, p)
    BY <1>1, <1>2
  <1>4. \A q \in L.at : q \in Int
    BY FramesAreNumbers
  <1> QED
    BY <1>3, <1>4

\* Where a search for black frames leaves the mark, and where it goes on.
LEMMA BlackFrameLeaves ==
    ASSUME list.at \in SUBSET IFrames, m \in list.at, BlackFrame
    PROVE  \E new \in IFrames :
              /\ m - FrameBack - 1 <= new /\ new <= m + FrameForward
              /\ list'.at = (list.at \ {m}) \cup {new}
              /\ m' # None => m' \in list'.at /\ new < m'
  <1>1. m \in IFrames /\ m \in Nat
    BY FramesAreNumbers
  <1>2. ASSUME UNCHANGED list, GoOn(AfterNext(list, m))
        PROVE  /\ m - FrameBack - 1 <= m /\ m <= m + FrameForward
               /\ list'.at = (list.at \ {m}) \cup {m}
               /\ m' # None => m' \in list'.at /\ m < m'
    <2>1. m' = AfterNext(list, m)
      BY <1>2 DEF GoOn
    <2>2. m' # None => m' \in list'.at /\ m < m'
      BY <1>1, <1>2, <2>1, BeyondNext
    <2> QED
      BY <1>1, <1>2, <2>2, Numbers
  <1>3. ASSUME NEW b \in BlackBehind(m), list' = ToBlack(list, m, b, m), GoOn(AfterNext(list', m))
        PROVE  \E new \in IFrames :
                  /\ m - FrameBack - 1 <= new /\ new <= m + FrameForward
                  /\ list'.at = (list.at \ {m}) \cup {new}
                  /\ m' # None => m' \in list'.at /\ new < m'
    <2>1. b \in Int /\ m - FrameBack - 1 <= b
      BY BlackReach
    <2>2. \/ list' = list
          \/ \E new \in IFrames : b <= new /\ new < m /\ list' = Moved(list, m, new)
      BY <1>1, <1>3, <2>1, ToBlackReach
    <2>3. PICK new \in IFrames : /\ m - FrameBack - 1 <= new /\ new <= m
                                 /\ list'.at = (list.at \ {m}) \cup {new}
      <3>1. CASE list' = list
        <4>1. list'.at = (list.at \ {m}) \cup {m}
          BY <3>1
        <4> QED
          BY <1>1, <4>1, Numbers
      <3>2. ASSUME NEW new \in IFrames, b <= new, new < m, list' = Moved(list, m, new)
            PROVE  m - FrameBack - 1 <= new /\ new <= m /\ list'.at = (list.at \ {m}) \cup {new}
        <4>1. new \in Nat
          BY FramesAreNumbers
        <4> QED
          BY <1>1, <2>1, <3>2, <4>1, MovedAt, Numbers
      <3> QED
        BY <2>2, <3>1, <3>2
    <2>4. new \in Nat
      BY FramesAreNumbers
    <2>5. m' = AfterNext(list', m) /\ list'.at \in SUBSET IFrames
      BY <1>3, <2>3 DEF GoOn
    <2>6. m' # None => m' \in list'.at /\ m < m' /\ m' \in Nat
      <3>1. m \in Int
        BY <1>1
      <3>2. m' # None => m' \in list'.at /\ m < m'
        BY <2>5, <3>1, BeyondNext
      <3> QED
        BY <2>5, <3>2, FramesAreNumbers
    <2> QED
      BY <1>1, <2>3, <2>4, <2>6, Numbers
  <1>4. ASSUME NEW b \in BlackAhead(list, m), list' = ToBlack(list, m, b, AheadEnd(list, m)),
               LET on == GetNext(list', m)
               IN  GoOn(IF on = None THEN None ELSE AfterNext(list', on))
        PROVE  \E new \in IFrames :
                  /\ m - FrameBack - 1 <= new /\ new <= m + FrameForward
                  /\ list'.at = (list.at \ {m}) \cup {new}
                  /\ m' # None => m' \in list'.at /\ new < m'
    <2> DEFINE on == GetNext(list', m)
               end == AheadEnd(list, m)
    <2>1. b \in Int /\ m - 1 <= b /\ end \in Nat /\ end <= m + FrameForward
      BY BlackReach
    <2>2. \A q \in list.at : m < q => end <= q
      <3>1. GetNext(list, m) = None => \A q \in list.at : ~(m < q)
        BY GetNextLemma
      <3>2. GetNext(list, m) # None =>
              /\ GetNext(list, m) \in Nat /\ end <= GetNext(list, m)
              /\ \A q \in list.at : m < q => GetNext(list, m) <= q
        BY GetNextLemma, BlackLemma, FramesAreNumbers
      <3>3. \A q \in list.at : q \in Nat
        BY FramesAreNumbers
      <3> HIDE DEF end
      <3> QED
        BY <2>1, <3>1, <3>2, <3>3
    <2>3. m' = IF on = None THEN None ELSE AfterNext(list', on)
      BY <1>4 DEF GoOn
    <2>4. \/ list' = list
          \/ \E new \in IFrames : b <= new /\ new < end /\ list' = Moved(list, m, new)
      BY <1>1, <1>4, <2>1, ToBlackReach
    <2> HIDE DEF on, end
    <2>5. PICK new \in IFrames : /\ m - FrameBack - 1 <= new /\ new <= m + FrameForward
                                 /\ list'.at = (list.at \ {m}) \cup {new}
                                 /\ \A q \in list.at : m < q => new <= q
      <3>1. CASE list' = list
        <4>1. list'.at = (list.at \ {m}) \cup {m}
          BY <3>1
        <4>2. \A q \in list.at : q \in Nat
          BY FramesAreNumbers
        <4> QED
          BY <1>1, <4>1, <4>2, Numbers
      <3>2. ASSUME NEW new \in IFrames, b <= new, new < end, list' = Moved(list, m, new)
            PROVE  /\ m - FrameBack - 1 <= new /\ new <= m + FrameForward
                   /\ list'.at = (list.at \ {m}) \cup {new}
                   /\ \A q \in list.at : m < q => new <= q
        <4>1. new \in Nat /\ \A q \in list.at : q \in Nat
          BY FramesAreNumbers
        <4>2. list'.at = (list.at \ {m}) \cup {new}
          BY <3>2, MovedAt
        <4>3. m - FrameBack - 1 <= new /\ new <= m + FrameForward
          BY <1>1, <2>1, <3>2, <4>1, Numbers
        <4>4. \A q \in list.at : m < q => new <= q
          BY <2>1, <2>2, <3>2, <4>1
        <4> QED
          BY <4>2, <4>3, <4>4
      <3> QED
        BY <2>4, <3>1, <3>2
    <2>6. list'.at \in SUBSET IFrames /\ new \in Nat
      BY <2>5, FramesAreNumbers
    <2>7. ASSUME m' # None
          PROVE  m' \in list'.at /\ new < m'
      <3>1. on # None /\ m' = AfterNext(list', on)
        BY <2>3, <2>7
      <3>2. on \in list'.at /\ m < on /\ on \in Nat
        BY <2>6, <3>1, GetNextLemma, FramesAreNumbers DEF on
      <3>3. new <= on
        BY <2>5, <2>6, <3>2
      <3>4. m' \in list'.at /\ on < m' /\ m' \in Nat
        <4>1. on \in Int
          BY <3>2
        <4>2. m' \in list'.at /\ on < m'
          BY <2>6, <2>7, <3>1, <4>1, BeyondNext
        <4> QED
          BY <2>6, <4>2, FramesAreNumbers
      <3> QED
        BY <2>6, <3>2, <3>3, <3>4
    <2> QED
      BY <2>5, <2>7
  <1> QED
    BY <1>1, <1>2, <1>3, <1>4 DEF BlackFrame

LEMMA BlackFrameWide == IInv /\ WideInv /\ BlackFrame => WideInv'
  <1> SUFFICES ASSUME IInv, WideInv, BlackFrame
               PROVE  WideInv'
    OBVIOUS
  <1>1. pc = "frames" /\ kind' = kind /\ was' = was
    BY DEF BlackFrame, Keep
  <1>2. kind = "frames" /\ pc' = IF m' = None THEN "cleanup" ELSE "frames"
    BY <1>1 DEF WideInv, KindInv, BlackFrame, GoOn
  <1>3. KindInv' /\ TurnInv'
    BY <1>1, <1>2 DEF WideInv, KindInv, TurnInv
  <1>4. ASSUME Wide(was)
        PROVE  \E Q : Fits(was, Q, list') /\ PhaseInv(Q)'
    <2>1. was \in SUBSET IFrames
      BY <1>1, <1>4, WideAtMark DEF Passes
    <2>2. PICK P : Fits(was, P, list) /\ PhaseInv(P) /\ \E w \in was : m = P[w]
      BY <1>1, <1>4, WideAtMark DEF Passes
    <2>3. PICK w \in was : m = P[w]
      BY <2>2
    <2>4. /\ \A v \in was : v \in Nat /\ P[v] \in Nat
          /\ list.at \in SUBSET IFrames /\ m \in list.at
      BY <2>1, <2>2, <2>3, FitsNumbers
    <2>5. /\ P[w] = w /\ \A v \in was : Searched(was, v, P[v])
          /\ \A v \in was : m <= P[v] => P[v] = v
      BY <1>1, <2>2, <2>3, <2>4 DEF PhaseInv, Searching
    <2>6. PICK new \in IFrames : /\ m - FrameBack - 1 <= new /\ new <= m + FrameForward
                                 /\ list'.at = (list.at \ {m}) \cup {new}
                                 /\ m' # None => m' \in list'.at /\ new < m'
      BY <2>4, BlackFrameLeaves
    <2>7. w - BackBy <= new /\ new <= w + ReachForth + 2 * Gop - 2
      <3>1. new \in Nat /\ w \in Nat /\ m = w
        BY <2>3, <2>4, <2>5, FramesAreNumbers
      <3> QED
        BY <2>6, <3>1, Reaches, Numbers
    <2>8. Searched(was, w, new) /\ Kept(was, w, new)
      BY <1>4, <2>1, <2>7, SearchedThen
    <2>9. PICK Q : /\ Fits(was, Q, list') /\ Q[w] = new
                   /\ \A v \in was : v # w => Q[v] = P[v]
                   /\ \A v \in was : Place(list', Q[v]) = Place(list, P[v])
      <3>1. list'.at = (list.at \ {P[w]}) \cup {new}
        BY <2>3, <2>6
      <3>2. new \in IFrames /\ Fits(was, P, list) /\ Kept(was, w, new)
        BY <2>2, <2>6, <2>8
      <3> QED
        BY <2>1, <3>1, <3>2, MoveKeeps DEF Moves
    <2>10. \A v \in was : Searched(was, v, Q[v])
      BY <2>5, <2>8, <2>9
    <2>11. m' # None => \A v \in was : m' <= Q[v] => Q[v] = v
      BY <2>1, <2>2, <2>3, <2>5, <2>6, <2>9, MovedOn
    <2>12. PhaseInv(Q)'
      BY <1>1, <1>2, <2>10, <2>11 DEF PhaseInv, Searching
    <2> QED
      BY <2>9, <2>12
  <1> QED
    BY <1>1, <1>3, <1>4, WideLeft

-----------------------------------------------------------------------------
(* The cleanup and pass3.                                                  *)

LEMMA ApartNotClose ==
    ASSUME NEW S \in SUBSET IFrames, NEW d \in Nat, NEW k,
           \A p \in S, q \in S : p < q => p + d <= q
    PROVE  Close(S, d, k) = {}
  <1> SUFFICES ASSUME NEW p \in Close(S, d, k)
               PROVE  FALSE
    OBVIOUS
  <1>1. p \in S /\ p # Max(S) /\ NextMark(S, p) - p < d
    BY DEF Close
  <1>2. Max(S) \in S /\ p <= Max(S)
    BY <1>1, LastMark
  <1>3. p \in Nat /\ Max(S) \in Nat
    BY <1>1, <1>2, FramesAreNumbers
  <1> DEFINE T == {q \in S : p < q}
  <1>4. T # {} /\ T \in SUBSET Nat
    <2>1. p < Max(S) /\ S \in SUBSET Nat
      BY <1>1, <1>2, <1>3, FramesAreNumbers
    <2>2. Max(S) \in T
      BY <1>2, <2>1
    <2> QED
      BY <2>1, <2>2
  <1>5. NextMark(S, p) \in T
    <2>1. NextMark(S, p) = Min(T)
      BY DEF NextMark
    <2> HIDE DEF T
    <2> QED
      BY <1>4, <2>1, LeastElement
  <1>6. NextMark(S, p) \in Nat /\ p + d <= NextMark(S, p)
    BY <1>1, <1>4, <1>5
  <1> QED
    BY <1>1, <1>3, <1>6

\* After the searches no two marks are so close that they are deleted.
LEMMA NothingCleaned ==
    ASSUME NEW S \in SUBSET IFrames, NEW P, NEW L, Fits(S, P, L),
           \A w \in S : Searched(S, w, P[w])
    PROVE  CleanInactive(L.at) = L.at /\ CleanActive(L.at) = L.at
  <1>1. L.at \in SUBSET IFrames
    BY FitsNumbers
  <1>2. \A p \in L.at : \E w \in S : p = P[w]
    BY DEF Fits
  <1>3. ASSUME NEW p \in L.at, NEW q \in L.at, p < q
        PROVE  p + MinActiveMark <= q
    <2>1. PICK v \in S : p = P[v]
      BY <1>2
    <2>2. PICK w \in S : q = P[w]
      BY <1>2
    <2>3. v < w
      BY <1>3, <2>1, <2>2, Ordered
    <2> QED
      BY <2>1, <2>2, <2>3, ApartAfterSearch
  <1>4. \A p \in L.at, q \in L.at : p < q => p + MinMark <= q
    <2>1. \A p \in L.at : p \in Nat
      BY <1>1, FramesAreNumbers
    <2> QED
      BY <1>3, <2>1, Reaches, Numbers
  <1>5. MinMark \in Nat /\ MinActiveMark \in Nat
    BY MarkCleanupAssumption
  <1>6. Close(L.at, MinMark, 2) = {}
    BY <1>1, <1>4, <1>5, ApartNotClose
  <1>7. Close(L.at, MinActiveMark, 0) = {}
    BY <1>1, <1>3, <1>5, ApartNotClose
  <1> QED
    BY <1>1, <1>6, <1>7, CleanupLemma

LEMMA CleanupWide == IInv /\ WideInv /\ Cleanup => WideInv'
  <1> SUFFICES ASSUME IInv, WideInv, Cleanup
               PROVE  WideInv'
    OBVIOUS
  <1>1. pc = "cleanup" /\ kind' = kind /\ was' = was /\ pc' \in {"done", "sound"}
    BY DEF Cleanup, Keep
  <1>2. KindInv' /\ was \in SUBSET IFrames /\ kind # "online"
    BY <1>1, NotOnline DEF WideInv, KindInv, Offlines
  <1>3. ASSUME Wide(was)
        PROVE  TurnInv' /\ \E Q : Fits(was, Q, list') /\ PhaseInv(Q)'
    <2>1. PICK P : Fits(was, P, list) /\ PhaseInv(P)
      BY <1>2, <1>3, WideNow
    <2>2. \A w \in was : Searched(was, w, P[w])
      BY <1>1, <2>1 DEF PhaseInv, Searching
    <2>3. list'.at = list.at /\ list.at \in SUBSET IFrames
      <3>1. CleanInactive(list.at) = list.at /\ CleanActive(list.at) = list.at
        BY <1>2, <2>1, <2>2, NothingCleaned
      <3>2. list.at \in SUBSET IFrames
        BY <1>2, <2>1, FitsNumbers
      <3>3. list'.at = IF kind = "overlap" THEN CleanInactive(list.at)
                       ELSE CleanInactive(CleanActive(list.at))
        BY CleanedAt DEF Cleanup
      <3> QED
        BY <3>1, <3>2, <3>3
    <2>4. Fits(was, P, list')
      BY <2>1, <2>3 DEF Fits
    <2>5. PhaseInv(P)'
      BY <1>1, <2>2 DEF PhaseInv, Searching
    <2>6. TurnInv'
      <3>1. pc' = "sound" => m' = GetNext(list', None) /\ m' # None
        BY DEF Cleanup
      <3>2. pc' = "sound" => Place(list', m') = 1
        BY <2>3, <3>1, FirstPlace
      <3>3. 1 % 2 = 1
        OBVIOUS
      <3> QED
        BY <1>1, <3>2, <3>3 DEF TurnInv
    <2> QED
      BY <2>4, <2>5, <2>6
  <1> QED
    BY <1>1, <1>2, <1>3, WideLeft

\* How far pass3 takes a mark on.
LEMMA SoundReach ==
    ASSUME list.at \in SUBSET IFrames, m \in list.at, Sound
    PROVE  \E new \in IFrames : /\ m <= new /\ new <= m + SoundBy
                                /\ list'.at = (list.at \ {m}) \cup {new}
                                /\ m' = AfterNext(list', new)
  <1> DEFINE next == GetNext(list, m)
             end == IF next # None /\ m + SoundRange > next THEN next - SoundGap
                    ELSE m + SoundRange
             last == Min({end, Length - 1})
  <1>1. PICK new : /\ new \in {m} \cup {NextToEnd(f + 1) : f \in m..last}
                   /\ new # None
                   /\ list' = IF new = m THEN list ELSE Moved(list, m, new)
                   /\ m' = AfterNext(list', new)
    BY DEF Sound
  <1>2. m \in IFrames /\ m \in Nat
    BY FramesAreNumbers
  <1>3. last \in Int /\ last <= m + SoundRange
    <2>1. next = None \/ next \in Nat
      BY GetNextLemma, FramesAreNumbers
    <2> HIDE DEF next
    <2>2. end \in Int /\ Length - 1 \in Int /\ end <= m + SoundRange
      BY <1>2, <2>1, Numbers
    <2> HIDE DEF end
    <2>3. last \in {end, Length - 1} /\ last <= end
      BY <2>2, LeastOfTwo
    <2> HIDE DEF last
    <2> QED
      BY <1>2, <2>2, <2>3, Numbers
  <1> HIDE DEF last
  <1>4. new \in IFrames /\ m <= new /\ new <= m + SoundBy
    <2>1. CASE new = m
      BY <1>2, <2>1, Reaches
    <2>2. CASE new # m
      <3>1. PICK f \in m..last : new = NextToEnd(f + 1)
        BY <1>1, <2>2
      <3>2. f \in Int /\ m <= f /\ f <= m + SoundRange /\ f + 1 \in Int
        BY <1>2, <1>3, <3>1, Numbers
      <3>3. new \in IFrames /\ f + 1 < new /\ new <= f + 1 + Gop
        BY <1>1, <3>1, <3>2, NextToEndLemma
      <3>4. new \in Nat
        BY <3>3, FramesAreNumbers
      <3> QED
        BY <1>2, <3>2, <3>3, <3>4, Reaches, Numbers
    <2> QED
      BY <2>1, <2>2
  <1>5. list'.at = (list.at \ {m}) \cup {new}
    BY <1>1, <1>4, MovedOrNot
  <1> QED
    BY <1>1, <1>4, <1>5

LEMMA SoundWide == IInv /\ WideInv /\ Sound => WideInv'
  <1> SUFFICES ASSUME IInv, WideInv, Sound
               PROVE  WideInv'
    OBVIOUS
  <1>1. /\ pc = "sound" /\ kind' = kind /\ was' = was
        /\ pc' = IF m' = None THEN "done" ELSE "sound"
    BY DEF Sound, Keep
  <1>2. KindInv'
    BY <1>1 DEF WideInv, KindInv
  <1>3. ASSUME Wide(was)
        PROVE  TurnInv' /\ \E Q : Fits(was, Q, list') /\ PhaseInv(Q)'
    <2>1. TurnInv /\ was \in SUBSET IFrames
      BY <1>1, <1>3, WideAtMark DEF Passes
    <2>2. PICK P : Fits(was, P, list) /\ PhaseInv(P) /\ \E w \in was : m = P[w]
      BY <1>1, <1>3, WideAtMark DEF Passes
    <2>3. PICK w \in was : m = P[w]
      BY <2>2
    <2>4. /\ \A v \in was : v \in Nat /\ P[v] \in Nat
          /\ list.at \in SUBSET IFrames /\ m \in list.at
      BY <2>1, <2>2, <2>3, FitsNumbers
    <2>5. \A v \in was : m <= P[v] => Searched(was, v, P[v])
      BY <1>1, <2>2 DEF PhaseInv
    <2>6. PICK new \in IFrames : /\ m <= new /\ new <= m + SoundBy
                                 /\ list'.at = (list.at \ {m}) \cup {new}
                                 /\ m' = AfterNext(list', new)
      BY <2>4, SoundReach
    <2>7. Kept(was, w, new)
      <3>1. Searched(was, w, m)
        BY <2>3, <2>4, <2>5
      <3>2. m \in Nat /\ w \in Nat /\ new \in Nat /\ \A v \in was : v \in Nat
        BY <2>3, <2>4, FramesAreNumbers
      <3> QED
        BY <2>6, <3>1, <3>2, Reaches DEF Searched, Kept
    <2>8. PICK Q : /\ Fits(was, Q, list') /\ Q[w] = new
                   /\ \A v \in was : v # w => Q[v] = P[v]
                   /\ \A v \in was : Place(list', Q[v]) = Place(list, P[v])
      <3>1. list'.at = (list.at \ {P[w]}) \cup {new}
        BY <2>3, <2>6
      <3>2. /\ new \in IFrames /\ was \in SUBSET IFrames /\ w \in was
            /\ Fits(was, P, list) /\ Kept(was, w, new)
        BY <2>1, <2>2, <2>3, <2>6, <2>7
      <3> QED
        BY <3>1, <3>2, MoveKeeps DEF Moves
    <2>9. /\ list'.at \in SUBSET IFrames /\ new \in list'.at /\ new \in Int
          /\ \A v \in was : Q[v] \in Nat
      <3>1. list'.at \in SUBSET IFrames /\ \A v \in was : Q[v] \in Nat /\ Q[v] \in list'.at
        BY <2>1, <2>8, FitsNumbers
      <3>2. Q[w] \in Nat /\ Q[w] \in list'.at /\ Q[w] = new
        BY <2>8, <3>1
      <3> QED
        BY <3>1, <3>2
    <2>10. TurnInv'
      <3>1. Place(list', new) % 2 = 1
        BY <1>1, <2>1, <2>3, <2>8 DEF TurnInv
      <3>2. AfterNext(list', new) # None => Place(list', AfterNext(list', new)) % 2 = 1
        BY <2>9, <3>1, NextTurn
      <3> QED
        BY <1>1, <2>6, <3>2 DEF TurnInv
    <2>11. m' # None => m' \in Nat /\ new < m'
      BY <2>6, <2>9, BeyondNext, FramesAreNumbers
    <2>12. ASSUME m' # None, NEW v \in was, m' <= Q[v]
           PROVE  Searched(was, v, Q[v])
      <3>1. Q[w] < Q[v] /\ v # w
        BY <2>8, <2>9, <2>11, <2>12
      <3>2. w < v
        BY <2>1, <2>8, <3>1, Ordered
      <3>3. P[w] < P[v]
        BY <2>1, <2>2, <3>2, Ordered
      <3>4. Q[v] = P[v] /\ m <= P[v]
        BY <2>3, <2>4, <2>8, <3>1, <3>3
      <3> QED
        BY <2>5, <3>4
    <2>13. PhaseInv(Q)'
      BY <1>1, <2>12 DEF PhaseInv, Searching
    <2> QED
      BY <2>8, <2>10, <2>13
  <1> QED
    BY <1>1, <1>2, <1>3, WideLeft

-----------------------------------------------------------------------------
(* How far checkMarkPair goes.                                             *)

\* Where it may leave the second mark of a pair.
Beside(p, c) ==
    /\ p - ReachBack <= c
    /\ c <= p + ReachForth + 2 * Gop - 2 \/ c <= Skip + After + 2 * Gop - 2

LEMMA BesideItself == \A p \in Nat : Beside(p, p)
  BY Reaches, Numbers DEF Beside

\* The mark before p is so far away that no search behind p comes near it.
Alone(L, p) ==
    /\ ReachBack < p /\ GetPrev(L, p) + ReachBack + 1 < p
    /\ GetNext(L, p) # None => p + ReachBack < GetNext(L, p)

\* The pictures around the second mark.
LEMMA PicsAfterReach ==
    ASSUME NEW L, L.at \in SUBSET IFrames, NEW p \in L.at \cup {None},
           GetNext(L, p) # None, Stop(L, p) <= GetNext(L, p) - BeforeOn \/ p = None
    PROVE  LET pics == PicsAfter(L, p)
               p2 == GetNext(L, p)
           IN  /\ pics.first \in Nat /\ pics.num \in Nat
               /\ p2 - BeforeOn <= pics.first
               /\ \/ pics.first + pics.num <= p2 + (After - BeforeOn) + Gop - 1
                  \/ pics.first + pics.num <= Skip + After + Gop - 1
  <1> DEFINE p2 == GetNext(L, p)
             start == StartAfter(L, p)
             stop == Stop(L, p)
             pics == PicsAfter(L, p)
  <1>1. p2 \in Nat /\ p2 <= Length
    BY GetNextLemma, FramesAreNumbers
  <1>2. stop \in Int /\ start \in Nat /\ p2 - BeforeOn <= start
    BY PicsAfterLemma
  <1>3. PICK num \in Int : num <= After /\ pics = Pics(start, num)
    BY PicsAfterLemma
  <1>4. /\ pics.first \in Nat /\ pics.num \in Nat
        /\ pics.num > 0 => pics.num <= num
        /\ pics.first = 0 \/ (start <= pics.first /\ pics.first < start + Gop)
        /\ start + Gop < Length - Limit => start <= pics.first
    BY <1>2, <1>3, PicsLemma, FramesAreNumbers
  <1>5. start = IF p2 - BeforeOn < stop THEN stop + Skip ELSE p2 - BeforeOn
    BY DEF StartAfter
  <1>6. p = None => stop = 0
    BY DEF Stop
  <1> HIDE DEF p2, start, stop, pics
  <1>7. /\ Gop + Limit < BeforeOn
        /\ stop <= p2 - BeforeOn \/ p = None
    BY MarkRefineAssumption DEF p2, stop
  <1>8. pics.num <= After
    BY <1>3, <1>4, Numbers
  <1>9. CASE p2 - BeforeOn < stop
    <2>1. stop = 0 /\ start = Skip /\ p2 < BeforeOn
      BY <1>1, <1>2, <1>5, <1>6, <1>7, <1>9, Numbers
    <2> QED
      BY <1>1, <1>4, <1>8, <2>1, Numbers DEF p2, pics
  <1>10. CASE ~(p2 - BeforeOn < stop)
    <2>1. start = p2 - BeforeOn
      BY <1>5, <1>10
    <2>2. start <= pics.first
      BY <1>1, <1>4, <1>7, <2>1, Numbers
    <2> QED
      BY <1>1, <1>2, <1>4, <1>8, <2>1, <2>2, Numbers DEF p2, pics
  <1> QED
    BY <1>9, <1>10

\* The pictures before the first mark, if that is alone.
LEMMA PicsBeforeReach ==
    ASSUME NEW L, L.at \in SUBSET IFrames, NEW p \in L.at, Alone(L, p)
    PROVE  LET pics == PicsBefore(L, p)
           IN  /\ Stop(L, p) = p - Lead
               /\ pics.first \in Nat /\ pics.num \in Nat
               /\ p - (Before + Lead) <= pics.first
               /\ pics.first + pics.num <= p - Lead + Gop - 1
  <1> DEFINE a == p - (Before + Lead)
             q == GetPrev(L, p)
             s == StartBefore(L, p)
             n == NumBefore(L, p)
             next == GetNext(L, p)
             pics == PicsBefore(L, p)
  <1>1. p \in Nat /\ p <= Length /\ q \in Int /\ next \in Int
    BY GetPrevLemma, GetNextLemma, FramesAreNumbers DEF None
  <1>2. /\ ReachBack < p /\ q + ReachBack + 1 < p
        /\ next # None => p + ReachBack < next
    BY DEF Alone
  <1>3. s = Max({0, a, q})
    BY DEF StartBefore
  <1>4. n = IF next # None /\ s + Before > next THEN next - s - Skip ELSE Before
    BY DEF NumBefore
  <1>5. Stop(L, p) = s + n /\ pics = Pics(s, n)
    BY <1>1 DEF Stop, None, PicsBefore
  <1> HIDE DEF q, s, n, next, pics
  <1>6. a \in Nat /\ 0 < a /\ q < a
    BY <1>1, <1>2, Reaches, Numbers
  <1> HIDE DEF a
  <1>7. s = a
    <2>1. 0 \in Int /\ a \in Int
      BY <1>6
    <2>2. Max({0, a, q}) \in {0, a, q} /\ a <= Max({0, a, q})
      BY <1>1, <1>6, <2>1, GreatestOfThree, Zenon
    <2> QED
      BY <1>1, <1>3, <1>6, <2>2
  <1>8. n = Before
    BY <1>1, <1>2, <1>4, <1>7, Reaches, Numbers DEF a
  <1>9. /\ pics.first \in Nat /\ pics.num \in Nat
        /\ pics.num > 0 => pics.num <= n
        /\ pics.first = 0 \/ (s <= pics.first /\ pics.first < s + Gop)
        /\ s + Gop < Length - Limit => s <= pics.first
    <2>1. s \in Int /\ s >= 0 /\ n \in Int
      BY <1>6, <1>7, <1>8, Numbers
    <2> QED
      BY <1>5, <2>1, PicsLemma, FramesAreNumbers
  <1>10. a <= pics.first
    <2>1. Gop + Limit < Before + Lead
      BY MarkRefineAssumption
    <2> QED
      BY <1>1, <1>7, <1>9, <2>1, Numbers DEF a
  <1>11. pics.first + pics.num <= p - Lead + Gop - 1
    BY <1>1, <1>6, <1>7, <1>8, <1>9, <1>10, Numbers DEF a
  <1> QED
    BY <1>1, <1>5, <1>7, <1>8, <1>9, <1>10, <1>11, Numbers DEF a, pics

\* The frames in the pictures to which doOverlapDetection moves the marks.
LEMMA OverlapReach ==
    ASSUME NEW L, L.at \in SUBSET IFrames, NEW p \in L.at \cup {None},
           NEW e \in OverlapEnds(PicsBefore(L, p), PicsAfter(L, p))
    PROVE  LET before == PicsBefore(L, p)
               after == PicsAfter(L, p)
           IN  /\ before.first <= e[1] /\ e[1] + 2 <= before.first + before.num
               /\ e[2] # None => after.first <= e[2] /\ e[2] <= after.first + after.num + Gop - 1
  <1> DEFINE before == PicsBefore(L, p)
             after == PicsAfter(L, p)
             x == before.first
             y == after.first
  <1>1. PICK o \in Overlaps(before.num, after.num) :
            /\ o[1] < before.num /\ o[2] < after.num
            /\ e = <<PrevI(x + o[1]), NextI(y + o[2])>>
    BY DEF OverlapEnds
  <1>2. PICK r \in Rows(before.num, after.num) : o = <<r.c + r.n, r.i + 1 + r.n>>
    BY DEF Overlaps
  <1>3. r \in [c : 0..(before.num - Similar - 1), i : 0..(after.num - before.num - 1), n : OverlapOk..Before]
    BY <1>2 DEF Rows
  <1> DEFINE o1 == r.c + r.n
             o2 == r.i + 1 + r.n
  <1>4. /\ o1 < before.num /\ o2 < after.num /\ e[1] = PrevI(x + o1) /\ e[2] = NextI(y + o2)
    BY <1>1, <1>2
  <1>5. /\ before.num \in Nat
        /\ before.num > 0 => x \in Nat /\ x + before.num <= Length
    BY PicsBeforeLemma, FramesAreNumbers
  <1>6. y \in Nat /\ after.num \in Nat
    BY AfterNumbers
  <1> HIDE DEF before, after, x, y
  <1>7. o1 \in Nat /\ o2 \in Nat /\ Gop <= o1
    BY <1>3, <1>5, <1>6, Numbers, Relations
  <1> HIDE DEF o1, o2
  <1>8. x \in Nat /\ x + before.num <= Length
    BY <1>4, <1>5, <1>7, Numbers
  <1>9. e[1] \in Nat /\ e[1] < x + o1 /\ x + o1 <= e[1] + Gop
    <2>1. x + o1 \in 1..Length /\ x + o1 \in Int
      BY <1>4, <1>5, <1>7, <1>8, Numbers
    <2> QED
      BY <1>4, <2>1, PrevILemma, FramesAreNumbers
  <1>10. x <= e[1] /\ e[1] + 2 <= x + before.num
    BY <1>4, <1>5, <1>7, <1>8, <1>9, Numbers
  <1>11. e[2] # None => y <= e[2] /\ e[2] <= y + after.num + Gop - 1
    <2>1. y + o2 \in Int
      BY <1>6, <1>7
    <2>2. e[2] # None => e[2] \in Nat /\ y + o2 < e[2] /\ e[2] <= y + o2 + Gop
      BY <1>4, <2>1, NextILemma, FramesAreNumbers
    <2> QED
      BY <1>4, <1>6, <1>7, <2>2, Numbers
  <1> QED
    BY <1>10, <1>11 DEF x, y, before, after

\* What a search around the second mark of a pair leaves.
SecondLeft(L, node, p2, o) ==
    \E c \in IFrames : /\ Beside(p2, c) /\ o.list.at = (L.at \ {p2}) \cup {c}
                       /\ o.node = node

PicsAround(p2, pics) ==
    /\ pics.first \in Nat /\ pics.num \in Nat
    /\ p2 - BeforeOn <= pics.first
    /\ \/ pics.first + pics.num <= p2 + (After - BeforeOn) + Gop - 1
       \/ pics.first + pics.num <= Skip + After + Gop - 1

LEMMA LeftAlone ==
    ASSUME NEW L, L.at \in SUBSET IFrames, NEW p2 \in L.at, NEW node, NEW o,
           o.list = L, o.node = node
    PROVE  SecondLeft(L, node, p2, o)
  <1>1. p2 \in IFrames /\ Beside(p2, p2)
    BY BesideItself, FramesAreNumbers
  <1>2. L.at = (L.at \ {p2}) \cup {p2}
    OBVIOUS
  <1> QED
    BY <1>1, <1>2 DEF SecondLeft

LEMMA LinesAroundReach ==
    ASSUME NEW L, L.at \in SUBSET IFrames, NEW node, NEW p2 \in L.at,
           NEW pics, PicsAround(p2, pics), NEW o \in LinesAround(L, node, p2, pics)
    PROVE  SecondLeft(L, node, p2, o)
  <1>1. p2 \in Nat /\ p2 # None
    BY FramesAreNumbers DEF None
  <1>2. CASE o = Outcome(L, node, FALSE, "none")
    BY <1>2, LeftAlone DEF Outcome
  <1>3. CASE o # Outcome(L, node, FALSE, "none")
    <2>1. PICK i \in (2 + Into)..(pics.num - NotOk + Into) :
              /\ NextI(pics.first + i) # None
              /\ o = Outcome(Moved(L, p2, NextI(pics.first + i)), node, TRUE, "none")
      BY <1>1, <1>3 DEF LinesAround
    <2> DEFINE c == NextI(pics.first + i)
    <2>2. pics.first \in Nat /\ pics.num \in Nat /\ i \in Nat /\ i < pics.num
      <3>1. Into < NotOk
        BY MarkRefineAssumption
      <3> QED
        BY <2>1, <3>1, Numbers DEF PicsAround
    <2>3. c \in IFrames /\ pics.first + i < c /\ c <= pics.first + i + Gop
      <3>1. pics.first + i \in Int
        BY <2>2
      <3> QED
        BY <2>1, <3>1, NextILemma
    <2> HIDE DEF c
    <2>4. Beside(p2, c)
      <3>1. c \in Nat
        BY <2>3, FramesAreNumbers
      <3> QED
        BY <1>1, <2>2, <2>3, <3>1, Reaches, Numbers DEF Beside, PicsAround
    <2>5. o.list = Moved(L, p2, c) /\ o.node = node
      BY <2>1 DEF Outcome, c
    <2>6. o.list.at = (L.at \ {p2}) \cup {c}
      BY <2>3, <2>5, MovedAt
    <2> QED
      BY <2>3, <2>4, <2>5, <2>6 DEF SecondLeft
  <1> QED
    BY <1>2, <1>3

LEMMA BlackAroundReach ==
    ASSUME NEW L, L.at \in SUBSET IFrames, NEW node, NEW p2 \in L.at,
           NEW pics, PicsAround(p2, pics), NEW o \in BlackAround(L, node, p2, pics)
    PROVE  SecondLeft(L, node, p2, o)
  <1>1. pics.first \in Nat /\ pics.num \in Nat /\ p2 \in Nat
    BY FramesAreNumbers DEF PicsAround
  <1>2. BlackMoved(L, node, p2, pics, o)
    BY <1>1, BlackAroundLemma
  <1>3. CASE o = Outcome(L, node, FALSE, "none")
    BY <1>3, LeftAlone DEF Outcome
  <1>4. ASSUME NEW c \in IFrames, p2 - FrameBack <= c, c <= p2,
               o = Outcome(Moved(L, p2, c), node, TRUE, "none")
        PROVE  SecondLeft(L, node, p2, o)
    <2>1. Beside(p2, c)
      <3>1. c \in Nat
        BY FramesAreNumbers
      <3> QED
        BY <1>1, <1>4, <3>1, Reaches, Numbers DEF Beside
    <2>2. o.list = Moved(L, p2, c) /\ o.node = node
      BY <1>4 DEF Outcome
    <2>3. o.list.at = (L.at \ {p2}) \cup {c}
      BY <2>2, MovedAt
    <2> QED
      BY <2>1, <2>2, <2>3 DEF SecondLeft
  <1> QED
    BY <1>2, <1>3, <1>4 DEF BlackMoved

\* The second mark of the pair stays the one behind the first, and the first
\* one the one before it.
LEMMA StillNeighbours ==
    ASSUME NEW L, L.at \in SUBSET IFrames, NEW p \in L.at, Alone(L, p),
           GetNext(L, p) # None, NEW a \in IFrames, p - ReachBack - 1 <= a,
           a < GetNext(L, p), NEW L1, L1.at = (L.at \ {p}) \cup {a}
    PROVE  /\ L1.at \in SUBSET IFrames /\ a \in L1.at
           /\ GetNext(L1, a) = GetNext(L, p) /\ GetNext(L, p) \in L1.at
           /\ a < p => GetPrev(L1, p) = a
  <1> DEFINE p2 == GetNext(L, p)
  <1>1. /\ L1.at \in SUBSET IFrames /\ a \in L1.at
        /\ p2 \in L.at /\ p < p2 /\ a < p2
    BY GetNextLemma
  <1>2. /\ p \in Nat /\ p2 \in Nat /\ a \in Nat /\ GetPrev(L, p) \in Int
        /\ \A q \in L.at : q \in Nat
        /\ \A q \in L1.at : q \in Nat
    BY <1>1, GetPrevLemma, FramesAreNumbers DEF None
  <1>3. GetPrev(L, p) < a
    BY <1>2, Reaches DEF Alone
  <1>4. ASSUME NEW q \in L1.at, q # a
        PROVE  (q < p /\ q < a) \/ p2 <= q
    <2>1. q \in L.at /\ q # p
      BY <1>4
    <2>2. CASE q < p
      <3>1. GetPrev(L, p) # None => q <= GetPrev(L, p)
        BY <2>1, <2>2, GetPrevLemma
      <3>2. GetPrev(L, p) # None
        BY <2>1, <2>2, GetPrevLemma
      <3> QED
        BY <1>2, <1>3, <2>1, <2>2, <3>1, <3>2
    <2>3. CASE ~(q < p)
      <3>1. p < q
        BY <1>2, <2>1, <2>3
      <3>2. p2 <= q
        BY <2>1, <3>1, GetNextLemma
      <3> QED
        BY <3>2
    <2> QED
      BY <2>2, <2>3
  <1> HIDE DEF p2
  <1>5. p2 \in L1.at
    BY <1>1, <1>2
  <1>6. GetNext(L1, a) = p2
    <2>1. GetNext(L1, a) # None
      BY <1>1, <1>5, GetNextLemma
    <2>2. GetNext(L1, a) \in L1.at /\ a < GetNext(L1, a) /\ GetNext(L1, a) <= p2
      BY <1>1, <1>5, <2>1, GetNextLemma
    <2>3. GetNext(L1, a) \in Nat
      BY <1>2, <2>2
    <2>4. p2 <= GetNext(L1, a)
      BY <1>2, <1>4, <2>2, <2>3
    <2> QED
      BY <1>2, <2>2, <2>3, <2>4
  <1>7. ASSUME a < p
        PROVE  GetPrev(L1, p) = a
    <2>1. GetPrev(L1, p) # None
      BY <1>1, <1>7, GetPrevLemma
    <2>2. GetPrev(L1, p) \in L1.at /\ GetPrev(L1, p) < p /\ a <= GetPrev(L1, p)
      BY <1>1, <1>7, <2>1, GetPrevLemma
    <2>3. GetPrev(L1, p) \in Nat
      BY <1>2, <2>2
    <2> QED
      BY <1>1, <1>2, <1>4, <2>2, <2>3
  <1> QED
    BY <1>1, <1>5, <1>6, <1>7 DEF p2

\* What checkMarkPair leaves: the first mark at a, the second one at c.
PairLeft(L, p, a, c, o) ==
    LET S1 == (L.at \ {p}) \cup {a}
        p2 == GetNext(L, p)
    IN  /\ p - ReachBack - 1 <= a /\ a <= p + ReachForth + 2 * Gop - 2
        /\ Beside(p2, c)
        /\ o.node = Place([at |-> S1], a) /\ o.list.at = (S1 \ {p2}) \cup {c}

LEMMA LeftBySecond ==
    ASSUME NEW L, NEW p, NEW a \in IFrames, NEW L1, L1.at = (L.at \ {p}) \cup {a},
           p - ReachBack - 1 <= a, a <= p + ReachForth + 2 * Gop - 2,
           NEW o, SecondLeft(L1, Place(L1, a), GetNext(L, p), o)
    PROVE  \E c \in IFrames : PairLeft(L, p, a, c, o)
  <1>1. PICK c \in IFrames : /\ Beside(GetNext(L, p), c)
                             /\ o.list.at = (L1.at \ {GetNext(L, p)}) \cup {c}
                             /\ o.node = Place(L1, a)
    BY DEF SecondLeft
  <1>2. Place(L1, a) = Place([at |-> (L.at \ {p}) \cup {a}], a)
    BY DEF Place
  <1>3. PairLeft(L, p, a, c, o)
    BY <1>1, <1>2 DEF PairLeft
  <1> QED
    BY <1>3

\* The two moves of doOverlapDetection.
LEMMA OverlappedReach ==
    ASSUME NEW L, L.at \in SUBSET IFrames, NEW p \in L.at, Alone(L, p), GetNext(L, p) # None,
           PicsAround(GetNext(L, p), PicsAfter(L, p)),
           NEW o \in Overlapped(L, p, OverlapEnds(PicsBefore(L, p), PicsAfter(L, p)))
    PROVE  \E a \in IFrames, c \in IFrames : PairLeft(L, p, a, c, o)
  <1>1. PICK e \in OverlapEnds(PicsBefore(L, p), PicsAfter(L, p)) :
            o = SecondMove(FirstMove(L, p, e[1]),
                    Place(FirstMove(L, p, e[1]), IF 0 < e[1] THEN e[1] ELSE p),
                    GetNext(FirstMove(L, p, e[1]), IF 0 < e[1] THEN e[1] ELSE p), e[2])
    BY DEF Overlapped
  <1> DEFINE L1 == FirstMove(L, p, e[1])
             a == IF 0 < e[1] THEN e[1] ELSE p
             p2 == GetNext(L, p)
             node == Place(L1, a)
             before == PicsBefore(L, p)
             after == PicsAfter(L, p)
  <1>2. e[1] \in IFrames /\ e[1] < p2 /\ (e[2] = None \/ e[2] \in IFrames)
    BY OverlapLemma
  <1>3. /\ L1.at = (L.at \ {p}) \cup {a} /\ L1.at \in SUBSET IFrames
        /\ a \in L1.at /\ p2 \in L1.at /\ a < p2
    BY <1>2, FirstMoveLemma
  <1>4. /\ before.first \in Nat /\ before.num \in Nat
        /\ p - (Before + Lead) <= before.first
        /\ before.first + before.num <= p - Lead + Gop - 1
    BY PicsBeforeReach
  <1>5. /\ before.first <= e[1] /\ e[1] + 2 <= before.first + before.num
        /\ e[2] # None => after.first <= e[2] /\ e[2] <= after.first + after.num + Gop - 1
    BY OverlapReach
  <1>6. p \in Nat /\ e[1] \in Nat /\ p2 \in Nat /\ (e[2] # None => e[2] \in Nat)
    BY <1>2, <1>3, FramesAreNumbers
  <1>7. a = IF 0 < e[1] THEN e[1] ELSE p
    OBVIOUS
  <1>8. o = SecondMove(L1, node, GetNext(L1, a), e[2])
    BY <1>1
  <1>9. PicsAround(p2, after)
    OBVIOUS
  <1> HIDE DEF L1, a, node, p2, before, after
  <1>10. a \in IFrames /\ p - ReachBack - 1 <= a /\ a <= p + ReachForth + 2 * Gop - 2
    <2>1. a \in IFrames
      BY <1>3
    <2> QED
      BY <1>4, <1>5, <1>6, <1>7, <2>1, Reaches, Numbers
  <1>11. GetNext(L1, a) = p2
    BY <1>3, <1>10, StillNeighbours DEF p2
  <1>12. SecondLeft(L1, node, p2, o)
    <2>1. CASE e[2] <= 0 \/ e[2] = p2
      <3>1. o.list = L1 /\ o.node = node
        BY <1>8, <1>11, <2>1 DEF SecondMove, Outcome
      <3> QED
        BY <1>3, <3>1, LeftAlone
    <2>2. CASE ~(e[2] <= 0 \/ e[2] = p2)
      <3>1. e[2] # None /\ p2 # None
        BY <1>6, <2>2 DEF None
      <3>2. o.list = Moved(L1, p2, e[2]) /\ o.node = node
        BY <1>8, <1>11, <2>2, <3>1 DEF SecondMove, Outcome
      <3>3. e[2] \in IFrames
        BY <1>2, <3>1
      <3>4. o.list.at = (L1.at \ {p2}) \cup {e[2]}
        BY <1>3, <3>2, <3>3, MovedAt
      <3>5. Beside(p2, e[2])
        BY <1>5, <1>6, <1>9, <3>1, Reaches, Numbers DEF Beside, PicsAround
      <3> QED
        BY <3>2, <3>3, <3>4, <3>5 DEF SecondLeft
    <2> QED
      BY <2>1, <2>2
  <1>13. \E c \in IFrames : PairLeft(L, p, a, c, o)
    BY <1>3, <1>10, <1>12, LeftBySecond DEF node, p2
  <1> QED
    BY <1>10, <1>13

\* checkMarkPair if no scene is repeated.
LEMMA NotOverlappedReach ==
    ASSUME NEW L, L.at \in SUBSET IFrames, NEW p \in L.at, Alone(L, p), GetNext(L, p) # None,
           PicsAround(GetNext(L, p), PicsAfter(L, p)),
           NEW o \in NotOverlapped(L, p, PicsAfter(L, p))
    PROVE  \E a \in IFrames, c \in IFrames : PairLeft(L, p, a, c, o)
  <1> DEFINE pics == PicsAfter(L, p)
             p2 == GetNext(L, p)
  <1>1. p2 \in L.at /\ p < p2 /\ PicsAround(p2, pics)
    BY GetNextLemma
  <1>2. p \in Nat /\ p \in IFrames /\ p # None /\ p2 \in Nat
    BY <1>1, FramesAreNumbers DEF None
  <1>3. Node(L, p) = Place(L, p)
    BY <1>2 DEF Node
  <1>4. \/ o \in LinesAround(L, Place(L, p), p2, pics) \/ o \in BlackAround(L, Place(L, p), p2, pics)
        \/ \E new \in LinesBehind(p, OffBack) :
              o \in LinesAround(Moved(L, p, new),
                        Node(Moved(L, p, new), GetPrev(Moved(L, p, new), p)),
                        GetNext(Moved(L, p, new), GetPrev(Moved(L, p, new), p)), pics)
    BY <1>3 DEF NotOverlapped
  <1> HIDE DEF pics
  <1>5. CASE \/ o \in LinesAround(L, Place(L, p), p2, pics)
             \/ o \in BlackAround(L, Place(L, p), p2, pics)
    <2>1. SecondLeft(L, Place(L, p), p2, o)
      BY <1>1, <1>5, LinesAroundReach, BlackAroundReach
    <2>2. L.at = (L.at \ {p}) \cup {p}
      OBVIOUS
    <2>3. p - ReachBack - 1 <= p /\ p <= p + ReachForth + 2 * Gop - 2
      BY <1>2, Reaches, Numbers
    <2> QED
      BY <1>2, <2>1, <2>2, <2>3, LeftBySecond
  <1>6. ASSUME NEW new \in LinesBehind(p, OffBack),
               o \in LinesAround(Moved(L, p, new),
                         Node(Moved(L, p, new), GetPrev(Moved(L, p, new), p)),
                         GetNext(Moved(L, p, new), GetPrev(Moved(L, p, new), p)), pics)
        PROVE  \E a \in IFrames, c \in IFrames : PairLeft(L, p, a, c, o)
    <2> DEFINE L1 == Moved(L, p, new)
    <2>1. new \in IFrames /\ new < p /\ p - OffBack - 1 <= new
      <3>1. OffBack \in Int
        BY Numbers
      <3> QED
        BY <1>2, <3>1, LinesBehindLemma, LinesBehindReach
    <2>2. new \in Nat
      BY <2>1, FramesAreNumbers
    <2>3. /\ p - ReachBack - 1 <= new /\ new <= p + ReachForth + 2 * Gop - 2
          /\ new < p2
      BY <1>1, <1>2, <2>1, <2>2, Reaches, Numbers
    <2>4. L1.at = (L.at \ {p}) \cup {new}
      BY <2>1, MovedAt
    <2> HIDE DEF L1
    <2>5. /\ L1.at \in SUBSET IFrames /\ new \in L1.at
          /\ GetNext(L1, new) = p2 /\ p2 \in L1.at /\ GetPrev(L1, p) = new
      BY <2>1, <2>3, <2>4, StillNeighbours
    <2>6. Node(L1, new) = Place(L1, new)
      BY <2>2 DEF Node, None
    <2>7. o \in LinesAround(L1, Place(L1, new), p2, pics)
      <3>1. o \in LinesAround(L1, Node(L1, GetPrev(L1, p)), GetNext(L1, GetPrev(L1, p)), pics)
        BY <1>6 DEF L1
      <3> QED
        BY <2>5, <2>6, <3>1
    <2>8. SecondLeft(L1, Place(L1, new), p2, o)
      BY <1>1, <2>5, <2>7, LinesAroundReach
    <2>9. \E c \in IFrames : PairLeft(L, p, new, c, o)
      BY <2>1, <2>3, <2>4, <2>8, LeftBySecond
    <2> QED
      BY <2>1, <2>9
  <1> QED
    BY <1>4, <1>5, <1>6

LEMMA PairReach ==
    ASSUME NEW L, L.at \in SUBSET IFrames, NEW p \in L.at, Alone(L, p), GetNext(L, p) # None,
           NEW o \in CheckMarkPair(L, p), o.fault = "none"
    PROVE  \E a \in IFrames, c \in IFrames : PairLeft(L, p, a, c, o)
  <1> DEFINE before == PicsBefore(L, p)
             after == PicsAfter(L, p)
             p2 == GetNext(L, p)
  <1>1. Stop(L, p) = p - Lead
    BY PicsBeforeReach
  <1>2. p \in Nat /\ p2 \in Nat /\ p + ReachBack < p2
    BY GetNextLemma, FramesAreNumbers DEF Alone
  <1>3. PicsAround(p2, after)
    <2>1. Stop(L, p) <= p2 - BeforeOn
      BY <1>1, <1>2, Reaches, Numbers
    <2> QED
      BY <2>1, PicsAfterReach DEF PicsAround
  <1>4. \/ o \in Overlapped(L, p, OverlapEnds(before, after))
        \/ o \in NotOverlapped(L, p, after)
        \/ o \in ReadsGarbage(L, before.num, after.num)
    BY DEF CheckMarkPair
  <1>5. o \notin ReadsGarbage(L, before.num, after.num)
    BY DEF ReadsGarbage, Outcome
  <1> QED
    BY <1>3, <1>4, <1>5, OverlappedReach, NotOverlappedReach

\* Before the first mark there are no pictures.
LEMMA PairReachFirst ==
    ASSUME NEW L, L.at \in SUBSET IFrames, GetNext(L, None) # None, NEW o \in CheckMarkPair(L, None)
    PROVE  o.fault = "none" /\ SecondLeft(L, Dummy, GetNext(L, None), o)
  <1> DEFINE pics == PicsAfter(L, None)
             p2 == GetNext(L, None)
  <1>1. o.fault = "none" /\ o \in NotOverlapped(L, None, pics)
    BY PairLemma
  <1>2. p2 \in L.at
    BY GetNextLemma
  <1>3. PicsAround(p2, pics)
    BY PicsAfterReach DEF PicsAround
  <1>4. Node(L, None) = Dummy
    BY DEF Node
  <1>5. o \in LinesAround(L, Dummy, p2, pics) \/ o \in BlackAround(L, Dummy, p2, pics)
    BY <1>1, <1>4 DEF NotOverlapped
  <1> HIDE DEF pics, p2
  <1>6. SecondLeft(L, Dummy, p2, o)
    BY <1>2, <1>3, <1>5, LinesAroundReach, BlackAroundReach
  <1> QED
    BY <1>1, <1>6 DEF p2

\* If there is no second mark nothing is moved.
LEMMA PairAtEnd ==
    ASSUME NEW L, L.at \in SUBSET IFrames, NEW p \in L.at \cup {None}, GetNext(L, p) = None,
           NEW o \in CheckMarkPair(L, p), o.fault = "none"
    PROVE  o.list = L /\ o.node = Node(L, p)
  <1> DEFINE before == PicsBefore(L, p)
             after == PicsAfter(L, p)
  <1>1. \/ o \in Overlapped(L, p, OverlapEnds(before, after))
        \/ o \in NotOverlapped(L, p, after)
        \/ o \in ReadsGarbage(L, before.num, after.num)
    BY DEF CheckMarkPair
  <1>2. o \notin ReadsGarbage(L, before.num, after.num)
    BY DEF ReadsGarbage, Outcome
  <1>3. o \notin Overlapped(L, p, OverlapEnds(before, after))
    <2>1. OverlapEnds(before, after) = {}
      BY OverlapLemma
    <2> QED
      BY <2>1 DEF Overlapped
  <1>4. o = Outcome(L, Node(L, p), FALSE, "none")
    BY <1>1, <1>2, <1>3 DEF NotOverlapped
  <1> QED
    BY <1>4 DEF Outcome

\* Frame numbers that have not been read are not followed.
LEMMA PairLost ==
    ASSUME NEW L, L.at \in SUBSET IFrames, NEW p \in L.at \cup {None},
           NEW o \in CheckMarkPair(L, p), o.fault # "none"
    PROVE  o.list = L
  <1> DEFINE before == PicsBefore(L, p)
             after == PicsAfter(L, p)
  <1>1. \/ o \in Overlapped(L, p, OverlapEnds(before, after))
        \/ o \in NotOverlapped(L, p, after)
        \/ o \in ReadsGarbage(L, before.num, after.num)
    BY DEF CheckMarkPair
  <1>2. o \in ReadsGarbage(L, before.num, after.num)
    BY <1>1, OverlappedLemma, NotOverlappedLemma
  <1> QED
    BY <1>2 DEF ReadsGarbage, Outcome

LEMMA BesideSearched ==
    ASSUME NEW S \in SUBSET IFrames, Wide(S), NEW u \in S, NEW c \in IFrames, Beside(u, c)
    PROVE  Searched(S, u, c) /\ Kept(S, u, c)
  <1>1. u \in Nat /\ c \in Int
    BY FramesAreNumbers
  <1>2. u - BackBy <= c
    BY <1>1, Reaches DEF Beside
  <1>3. Searched(S, u, c)
    BY <1>1, <1>2, NearIsSearched, FirstIsSearched DEF Beside
  <1> QED
    BY <1>1, <1>3, SearchedIsKept

\* The mark behind the one at p.
LEMMA Following ==
    ASSUME NEW S \in SUBSET IFrames, NEW P, NEW L, Fits(S, P, L), NEW p, GetNext(L, p) # None
    PROVE  \E u \in S : /\ GetNext(L, p) = P[u] /\ p < P[u]
                        /\ \A z \in S : p < P[z] => u <= z
  <1>1. L.at \in SUBSET IFrames /\ \A z \in S : P[z] \in L.at
    BY FitsNumbers
  <1>2. /\ GetNext(L, p) \in L.at /\ p < GetNext(L, p)
        /\ \A q \in L.at : p < q => GetNext(L, p) <= q
    BY <1>1, GetNextLemma
  <1>3. PICK u \in S : GetNext(L, p) = P[u]
    BY <1>2 DEF Fits
  <1>4. \A z \in S : p < P[z] => u <= z
    BY <1>1, <1>2, <1>3, Ordered
  <1> QED
    BY <1>2, <1>3, <1>4

\* An off mark has a mark before it, and that is far away.
LEMMA OffIsAlone ==
    ASSUME NEW S \in SUBSET IFrames, Wide(S), NEW P, NEW L, Fits(S, P, L),
           \A v \in S : Searched(S, v, P[v]), NEW w \in S, P[w] = w,
           \A v \in S : w < v => P[v] = v,
           Place(L, w) % 2 = 0
    PROVE  Alone(L, w)
  <1>1. L.at \in SUBSET IFrames /\ \A z \in S : P[z] \in L.at /\ P[z] \in Nat /\ z \in Nat
    BY FitsNumbers
  <1>2. w \in L.at
    BY <1>1
  <1>3. \E q \in L.at : q < w
    BY <1>1, <1>2, SecondHasFirst
  <1>4. GetPrev(L, w) # None
    BY <1>1, <1>3, GetPrevLemma
  <1>5. GetPrev(L, w) \in L.at /\ GetPrev(L, w) < w
    BY <1>1, <1>4, GetPrevLemma
  <1>6. PICK z \in S : GetPrev(L, w) = P[z]
    BY <1>5 DEF Fits
  <1>7. z < w
    BY <1>5, <1>6, Ordered
  <1>8. P[z] + SoundBy < w - BackBy
    BY <1>7 DEF Searched
  <1>9. ReachBack < w /\ GetPrev(L, w) + ReachBack + 1 < w
    BY <1>1, <1>6, <1>8, Reaches, Numbers
  <1>10. ASSUME GetNext(L, w) # None
         PROVE  w + ReachBack < GetNext(L, w)
    <2>1. PICK u \in S : GetNext(L, w) = P[u] /\ w < P[u]
      BY <1>10, Following
    <2>2. w < u
      BY <2>1, Ordered
    <2>3. P[u] = u /\ u - w > Reach
      BY <2>2 DEF Wide
    <2> QED
      BY <1>1, <2>1, <2>3, Reaches, Numbers
  <1> QED
    BY <1>9, <1>10 DEF Alone

\* A step of pass2a on the first mark only.
LEMMA FirstPairWide ==
    ASSUME was \in SUBSET IFrames, Wide(was), NEW P, Fits(was, P, list),
           \A v \in was : P[v] = v, \A v \in was : Searched(was, v, P[v]),
           GetNext(list, None) # None, NEW o, SecondLeft(list, Dummy, GetNext(list, None), o),
           list' = o.list, m' = AfterNext(list', None)
    PROVE  \E Q : /\ Fits(was, Q, list') /\ \A v \in was : Searched(was, v, Q[v])
                  /\ m' # None => /\ Place(list', m') % 2 = 0
                                  /\ \A v \in was : m' <= Q[v] => Q[v] = v
  <1>1. PICK u \in was : /\ GetNext(list, None) = P[u]
                         /\ \A z \in was : None < P[z] => u <= z
    BY Following
  <1>2. PICK c \in IFrames : Beside(P[u], c) /\ list'.at = (list.at \ {P[u]}) \cup {c}
    BY <1>1 DEF SecondLeft
  <1>3. Searched(was, u, c) /\ Kept(was, u, c)
    <2>1. P[u] = u
      OBVIOUS
    <2> QED
      BY <1>2, <2>1, BesideSearched
  <1>4. PICK Q : /\ Fits(was, Q, list') /\ Q[u] = c
                 /\ \A v \in was : v # u => Q[v] = P[v]
    <2>1. /\ c \in IFrames /\ was \in SUBSET IFrames /\ u \in was
          /\ Fits(was, P, list) /\ Kept(was, u, c)
      BY <1>1, <1>2, <1>3
    <2>2. list'.at = (list.at \ {P[u]}) \cup {c}
      BY <1>2
    <2>3. Moves(was, P, list, u, c, list')
      BY <2>1, <2>2, MoveKeeps
    <2> QED
      BY <2>3, Zenon DEF Moves
  <1>5. \A v \in was : Searched(was, v, Q[v])
    BY <1>3, <1>4
  <1>6. /\ list'.at \in SUBSET IFrames
        /\ \A v \in was : v \in Nat /\ Q[v] \in Nat /\ Q[v] \in list'.at
    BY <1>4, FitsNumbers
  <1> DEFINE first == GetNext(list', None)
  <1>7. ASSUME m' # None
        PROVE  /\ Place(list', m') % 2 = 0
               /\ \A v \in was : m' <= Q[v] => Q[v] = v
    <2>1. first # None /\ m' = GetNext(list', first)
      BY <1>7 DEF AfterNext
    <2>2. /\ first \in list'.at /\ first \in Nat
          /\ \A q \in list'.at : None < q => first <= q
      BY <1>6, <2>1, GetNextLemma, FramesAreNumbers
    <2>3. Place(list', first) = 1
      BY <1>6, <2>1, FirstPlace
    <2> HIDE DEF first
    <2>4. Place(list', m') % 2 = 0
      <3>1. Place(list', first) % 2 = 1
        <4>1. 1 % 2 = 1
          OBVIOUS
        <4> QED
          BY <2>3, <4>1
      <3> QED
        BY <1>6, <1>7, <2>1, <2>2, <3>1, NextTurn
    <2>5. first < m' /\ m' \in Nat
      BY <1>6, <1>7, <2>1, GetNextLemma, FramesAreNumbers
    <2>6. ASSUME NEW v \in was, m' <= Q[v]
          PROVE  Q[v] = v
      <3>1. PICK z \in was : first = Q[z]
        BY <1>4, <2>2 DEF Fits
      <3>2. u <= z
        <4>1. P[z] \in Nat
          BY FitsNumbers
        <4> QED
          BY <1>1, <4>1 DEF None
      <3>3. Q[u] <= first
        BY <1>4, <3>1, <3>2, Ordered
      <3>4. v # u
        BY <1>6, <2>2, <2>5, <2>6, <3>3
      <3> QED
        BY <1>4, <3>4
    <2> QED
      BY <2>4, <2>6
  <1> QED
    BY <1>4, <1>5, <1>7

\* A step of pass2a on an off mark and the on mark behind it.
LEMMA SecondPairWide ==
    ASSUME was \in SUBSET IFrames, Wide(was), NEW P, Fits(was, P, list),
           \A v \in was : Searched(was, v, P[v]), NEW w \in was, m = P[w],
           \A v \in was : m <= P[v] => P[v] = v, Place(list, m) % 2 = 0,
           GetNext(list, m) # None, NEW o, NEW a \in IFrames, NEW c \in IFrames,
           PairLeft(list, m, a, c, o), list' = o.list,
           m' = AfterNext(list', IF o.node = Dummy THEN None ELSE At(list', o.node))
    PROVE  \E Q : /\ Fits(was, Q, list') /\ \A v \in was : Searched(was, v, Q[v])
                  /\ m' # None => /\ Place(list', m') % 2 = 0
                                  /\ \A v \in was : m' <= Q[v] => Q[v] = v
  <1>0. \A v \in was : v \in Nat /\ P[v] \in Nat /\ P[v] \in list.at
    BY FitsNumbers
  <1>1. PICK u \in was : /\ GetNext(list, m) = P[u] /\ m < P[u]
                         /\ \A z \in was : m < P[z] => u <= z
    BY Following
  <1>2. P[w] = w /\ P[u] = u
    BY <1>0, <1>1
  <1>3. w < u /\ w # u /\ \A z \in was : w < z => u <= z
    BY <1>0, <1>1, Ordered
  <1> DEFINE L1 == [at |-> (list.at \ {P[w]}) \cup {a}]
  <1>4. /\ w - ReachBack - 1 <= a /\ a <= w + ReachForth + 2 * Gop - 2
        /\ Beside(u, c) /\ o.node = Place(L1, a)
        /\ list'.at = (L1.at \ {P[u]}) \cup {c}
    BY <1>1, <1>2 DEF PairLeft
  <1>5. Searched(was, w, a) /\ Kept(was, w, a)
    <2>1. a \in Int /\ w - BackBy <= a
      BY <1>0, <1>4, Reaches, FramesAreNumbers
    <2> QED
      BY <1>4, <2>1, SearchedThen
  <1>6. Searched(was, u, c) /\ Kept(was, u, c)
    BY <1>4, BesideSearched
  <1>7. PICK Q1 : /\ Fits(was, Q1, L1) /\ Q1[w] = a
                  /\ \A v \in was : v # w => Q1[v] = P[v]
                  /\ \A v \in was : Place(L1, Q1[v]) = Place(list, P[v])
    <2>1. L1.at = (list.at \ {P[w]}) \cup {a}
      OBVIOUS
    <2> HIDE DEF L1
    <2> QED
      BY <1>5, <2>1, MoveKeeps DEF Moves
  <1> HIDE DEF L1
  <1>8. PICK Q : /\ Fits(was, Q, list') /\ Q[u] = c
                 /\ \A v \in was : v # u => Q[v] = Q1[v]
                 /\ \A v \in was : Place(list', Q[v]) = Place(L1, Q1[v])
    <2>1. list'.at = (L1.at \ {Q1[u]}) \cup {c}
      BY <1>3, <1>4, <1>7
    <2>2. /\ c \in IFrames /\ was \in SUBSET IFrames /\ u \in was
          /\ Fits(was, Q1, L1) /\ Kept(was, u, c)
      BY <1>1, <1>6, <1>7
    <2> QED
      BY <2>1, <2>2, MoveKeeps DEF Moves
  <1>9. \A v \in was : Searched(was, v, Q[v])
    BY <1>5, <1>6, <1>7, <1>8
  <1>10. /\ list'.at \in SUBSET IFrames
         /\ \A v \in was : Q[v] \in Nat /\ Q[v] \in list'.at
    BY <1>8, FitsNumbers
  <1>11. Q[w] = a /\ a \in list'.at /\ a \in Int
    BY <1>3, <1>7, <1>8, <1>10
  <1>12. o.node = Place(list', a) /\ Place(list', a) = Place(list, m)
    BY <1>4, <1>7, <1>8, <1>11
  <1>13. m' = AfterNext(list', a)
    <2>1. Place(list', a) \in 1..Cardinality(list'.at)
      BY <1>10, <1>11, PlaceLemma
    <2>2. o.node # Dummy
      BY <1>12, <2>1 DEF Dummy
    <2>3. At(list', o.node) = a
      BY <1>10, <1>11, <1>12, AtPlace
    <2> QED
      BY <2>2, <2>3
  <1>14. GetNext(list', a) = Q[u]
    <2>1. Fits(was, Q, list') /\ was \in SUBSET IFrames
      BY <1>8
    <2>2. w \in was /\ u \in was /\ w < u /\ \A z \in was : w < z => u <= z
      BY <1>1, <1>3
    <2>3. GetNext(list', Q[w]) = Q[u]
      BY <2>1, <2>2, NextOf
    <2> QED
      BY <1>11, <2>3
  <1>15. ASSUME m' # None
         PROVE  /\ Place(list', m') % 2 = 0
                /\ \A v \in was : m' <= Q[v] => Q[v] = v
    <2>1. Place(list', m') % 2 = 0
      BY <1>10, <1>11, <1>12, <1>13, <1>15, NextTurn
    <2>2. Q[u] < m' /\ m' \in Nat
      <3>1. GetNext(list', a) < m' /\ m' \in list'.at
        BY <1>10, <1>11, <1>13, <1>15, BeyondNext
      <3> QED
        BY <1>10, <1>14, <3>1, FramesAreNumbers
    <2>3. ASSUME NEW v \in was, m' <= Q[v]
          PROVE  Q[v] = v
      <3>1. Q[u] < Q[v]
        BY <1>10, <2>2, <2>3
      <3>2. u < v
        BY <1>8, <3>1, Ordered
      <3>3. w < v /\ v # u /\ v # w
        BY <1>0, <1>3, <3>2
      <3>4. P[w] < P[v]
        BY <3>3, Ordered
      <3> QED
        BY <1>0, <1>7, <1>8, <3>3, <3>4
    <2> QED
      BY <2>1, <2>3
  <1> QED
    BY <1>8, <1>9, <1>15

LEMMA PairWide == IInv /\ WideInv /\ Pair => WideInv'
  <1> SUFFICES ASSUME IInv, WideInv, Pair
               PROVE  WideInv'
    OBVIOUS
  <1>1. pc = "overlap" /\ kind' = kind /\ was' = was /\ kind = "overlap"
    BY DEF Pair, Keep, WideInv, KindInv
  <1>2. PICK o \in CheckMarkPair(list, m) :
            /\ list' = o.list
            /\ IF o.fault # "none" THEN pc' = "lost" /\ UNCHANGED m
               ELSE GoOn(AfterNext(list', IF o.node = Dummy THEN None ELSE At(list', o.node)))
    BY DEF Pair
  <1>3. pc' = IF o.fault # "none" THEN "lost" ELSE IF m' = None THEN "cleanup" ELSE "overlap"
    BY <1>1, <1>2 DEF GoOn
  <1>4. KindInv'
    BY <1>1, <1>3 DEF WideInv, KindInv
  <1>5. ASSUME Wide(was)
        PROVE  TurnInv' /\ \E Q : Fits(was, Q, list') /\ PhaseInv(Q)'
    <2>1. /\ was \in SUBSET IFrames /\ TurnInv
          /\ list.at \in SUBSET IFrames /\ m \in list.at \cup {None}
      BY <1>1, <1>5, NotOnline DEF WideInv, KindInv
    <2>2. PICK P : Fits(was, P, list) /\ PhaseInv(P)
      BY <1>1, <1>5 DEF WideInv
    <2>3. /\ \A v \in was : Searched(was, v, P[v])
          /\ \A v \in was : m <= P[v] => P[v] = v
      BY <1>1, <2>2 DEF PhaseInv, Searching
    <2>4. /\ \A v \in was : v \in Nat /\ P[v] \in Nat /\ P[v] \in list.at
          /\ \A p \in list.at : \E v \in was : p = P[v]
      BY <2>1, <2>2, FitsNumbers DEF Fits
    <2>5. CASE o.fault # "none"
      <3>1. list' = list
        BY <1>2, <2>1, <2>5, PairLost
      <3>2. TurnInv' /\ PhaseInv(P)'
        BY <1>3, <2>5 DEF TurnInv, PhaseInv, Searching
      <3> QED
        BY <2>2, <3>1, <3>2
    <2>6. CASE o.fault = "none"
      <3>1. m' = AfterNext(list', IF o.node = Dummy THEN None ELSE At(list', o.node))
        BY <1>2, <2>6 DEF GoOn
      <3>2. SUFFICES \E Q : /\ Fits(was, Q, list') /\ \A v \in was : Searched(was, v, Q[v])
                            /\ m' # None => /\ Place(list', m') % 2 = 0
                                            /\ \A v \in was : m' <= Q[v] => Q[v] = v
        <4>1. PICK Q : /\ Fits(was, Q, list') /\ \A v \in was : Searched(was, v, Q[v])
                       /\ m' # None => /\ Place(list', m') % 2 = 0
                                       /\ \A v \in was : m' <= Q[v] => Q[v] = v
          BY <3>2
        <4>2. TurnInv'
          BY <1>3, <2>6, <4>1 DEF TurnInv
        <4>3. PhaseInv(Q)'
          BY <1>1, <1>3, <2>6, <4>1 DEF PhaseInv, Searching
        <4> QED
          BY <4>1, <4>2, <4>3
      <3>3. CASE GetNext(list, m) = None
        <4>1. list' = list /\ o.node = Node(list, m)
          BY <1>2, <2>1, <2>6, <3>3, PairAtEnd
        <4>2. m' = AfterNext(list, m)
          <5>1. CASE m = None
            BY <3>1, <4>1, <5>1 DEF Node
          <5>2. CASE m # None
            <6>1. m \in list.at /\ o.node = Place(list, m)
              BY <2>1, <4>1, <5>2 DEF Node
            <6>2. Place(list, m) \in 1..Cardinality(list.at)
              BY <2>1, <6>1, PlaceLemma
            <6>3. o.node # Dummy
              BY <6>1, <6>2 DEF Dummy
            <6>4. At(list, o.node) = m
              BY <2>1, <6>1, AtPlace
            <6> QED
              BY <3>1, <4>1, <6>3, <6>4
          <5> QED
            BY <5>1, <5>2
        <4>3. m' = None
          BY <3>3, <4>2 DEF AfterNext
        <4> QED
          BY <2>2, <2>3, <4>1, <4>3
      <3>4. CASE GetNext(list, m) # None /\ m = None
        <4>1. \A v \in was : P[v] = v
          <5>1. \A v \in was : m <= P[v]
            BY <2>4, <3>4 DEF None
          <5> QED
            BY <2>3, <5>1
        <4>2. SecondLeft(list, Dummy, GetNext(list, None), o)
          BY <1>2, <2>1, <3>4, PairReachFirst
        <4>3. m' = AfterNext(list', None)
          BY <3>1, <4>2 DEF SecondLeft
        <4>4. list' = o.list /\ GetNext(list, None) # None
          BY <1>2, <3>4
        <4> QED
          BY <1>5, <2>1, <2>2, <2>3, <4>1, <4>2, <4>3, <4>4, FirstPairWide
      <3>5. CASE GetNext(list, m) # None /\ m # None
        <4>1. PICK w \in was : m = P[w]
          BY <2>1, <2>4, <3>5
        <4>2. Place(list, m) % 2 = 0
          BY <1>1, <2>1, <3>5 DEF TurnInv
        <4>3. m = w /\ P[w] = w
          BY <2>3, <2>4, <4>1
        <4>4. \A v \in was : w < v => P[v] = v
          <5>1. \A v \in was : w < v => P[w] <= P[v]
            BY <2>1, <2>2, <2>4, Ordered
          <5> QED
            BY <2>3, <4>3, <5>1
        <4>5. Alone(list, m)
          BY <1>5, <2>1, <2>2, <2>3, <4>2, <4>3, <4>4, OffIsAlone
        <4>6. m \in list.at
          BY <2>1, <3>5
        <4>7. PICK a \in IFrames, c \in IFrames : PairLeft(list, m, a, c, o)
          BY <1>2, <2>1, <2>6, <3>5, <4>5, <4>6, PairReach
        <4>8. list' = o.list /\ GetNext(list, m) # None
          BY <1>2, <3>5
        <4> QED
          BY <1>5, <2>1, <2>2, <2>3, <3>1, <4>1, <4>2, <4>7, <4>8, SecondPairWide
      <3> QED
        BY <3>3, <3>4, <3>5
    <2> QED
      BY <2>5, <2>6
  <1> QED
    BY <1>1, <1>4, <1>5, WideLeft

-----------------------------------------------------------------------------
(* Far apart marks are kept.                                               *)

LEMMA OnlineWide == IInv /\ WideInv /\ (Toggle \/ RefineFirst \/ RefineLast) => WideInv'
  <1> SUFFICES ASSUME IInv, WideInv, Toggle \/ RefineFirst \/ RefineLast
               PROVE  WideInv'
    OBVIOUS
  <1>1. pc = "online" /\ kind' = kind /\ was' = was /\ pc' \in {"online", "lost"}
    BY DEF Toggle, RefineFirst, RefineLast, Due
  <1>2. kind = "online"
    BY <1>1, OnlineNow
  <1> QED
    BY <1>1, <1>2 DEF WideInv, KindInv

LEMMA InitWide == Init => WideInv
  <1> SUFFICES ASSUME Init
               PROVE  WideInv
    OBVIOUS
  <1>1. \A M \in Starts : M \in SUBSET IFrames /\ CleanInactive(M) \in SUBSET IFrames
    BY MarkRefineAssumption, CleanupLemma
  <1>2. was \in SUBSET IFrames /\ list.at = was /\ pc \in {"start", "online"}
    BY <1>1 DEF Init
  <1>3. KindInv
    BY <1>2 DEF KindInv
  <1>4. ASSUME kind # "online", Wide(was)
        PROVE  TurnInv /\ \E P : Fits(was, P, list) /\ PhaseInv(P)
    <2>1. pc = "start"
      BY <1>4 DEF Init
    <2>2. PICK P : Fits(was, P, list) /\ \A w \in was : P[w] = w /\ Searched(was, w, P[w])
      BY <1>2, <1>4, UntouchedFits
    <2>3. TurnInv /\ PhaseInv(P)
      BY <2>1, <2>2 DEF TurnInv, PhaseInv, Searching
    <2> QED
      BY <2>2, <2>3
  <1> QED
    BY <1>3, <1>4 DEF WideInv

LEMMA StepWide == IInv /\ WideInv /\ [Next]_vars => WideInv'
  <1>1. WideInv /\ UNCHANGED vars => WideInv'
    BY DEF WideInv, KindInv, TurnInv, PhaseInv, vars
  <1> QED
    BY <1>1, StartWide, ProbeWide, OnBackWide, OnForwardWide, OffWide, BlackFrameWide, PairWide,
       CleanupWide, SoundWide, OnlineWide DEF Next, Offline

\* There is a mark at every place.
LEMMA EveryPlace ==
    ASSUME NEW L, L.at \in SUBSET IFrames, NEW k \in 1..Cardinality(L.at)
    PROVE  \E p \in L.at : Place(L, p) = k
  <1> DEFINE n == Cardinality(L.at)
             f == [p \in L.at |-> Place(L, p)]
  <1>1. IsFiniteSet(L.at) /\ n \in Nat
    BY FramesAreNumbers
  <1>2. \A p \in L.at : p \in Nat /\ Place(L, p) \in 1..n
    BY PlaceLemma, FramesAreNumbers
  <1>3. \A p \in L.at, q \in L.at : p < q => Place(L, p) < Place(L, q)
    BY PlaceLemma
  <1>4. \A p \in L.at : f[p] = Place(L, p)
    OBVIOUS
  <1>5. f \in [L.at -> 1..n]
    BY <1>2
  <1> HIDE DEF f, n
  <1>6. \A p \in L.at, q \in L.at : f[p] = f[q] => p = q
    BY <1>1, <1>2, <1>3, <1>4
  <1>7. f \in Injection(L.at, 1..n)
    BY <1>5, <1>6 DEF Injection, IsInjective
  <1>8. IsFiniteSet(1..n) /\ Cardinality(1..n) = n
    BY <1>1, FS_Interval
  <1>9. f \in Surjection(L.at, 1..n)
    BY <1>1, <1>7, <1>8, FS_Injection DEF n
  <1>10. \E p \in L.at : f[p] = k
    BY <1>9 DEF Surjection, n
  <1> QED
    BY <1>4, <1>10

LEMMA WideMeans == IInv /\ WideInv => WideKept
  <1> SUFFICES ASSUME WideInv, kind # "online", Wide(was)
               PROVE  /\ Cardinality(list.at) = Cardinality(was)
                      /\ \A k \in 1..Cardinality(was) : \A j \in 1..Cardinality(was) :
                            k < j => At(list, k) < At([at |-> was], j)
                      /\ pc \in {"lines", "forward", "sound"} => Place(list, m) % 2 = 1
    BY DEF WideKept
  <1>1. was \in SUBSET IFrames /\ TurnInv
    BY DEF WideInv, KindInv
  <1>2. PICK P : Fits(was, P, list)
    BY DEF WideInv
  <1>3. /\ Cardinality(list.at) = Cardinality(was)
        /\ \A w \in was : Place(list, P[w]) = Rank(was, w)
    BY <1>1, <1>2, RankKept
  <1>4. /\ list.at \in SUBSET IFrames
        /\ \A w \in was : w \in Nat /\ P[w] \in Nat /\ P[w] \in list.at
    BY <1>1, <1>2, FitsNumbers
  <1> DEFINE W == [at |-> was]
  <1>5. W.at = was /\ \A w \in was : Place(W, w) = Rank(was, w)
    BY DEF Place, Rank
  <1> HIDE DEF W
  <1>6. ASSUME NEW k \in 1..Cardinality(was), NEW j \in 1..Cardinality(was), k < j
        PROVE  At(list, k) < At(W, j)
    <2>1. PICK w \in was : Place(W, w) = k
      BY <1>1, <1>5, EveryPlace
    <2>2. PICK v \in was : Place(W, v) = j
      BY <1>1, <1>5, EveryPlace
    <2>3. At(W, j) = v
      BY <1>1, <1>5, <2>2, AtPlace
    <2>4. Place(list, P[w]) = k
      BY <1>3, <1>5, <2>1
    <2>5. At(list, k) = P[w]
      BY <1>4, <2>4, AtPlace
    <2>6. w < v
      <3>1. v < w => j < k
        BY <1>1, <1>5, <2>1, <2>2, PlaceLemma
      <3>2. v = w => j = k
        BY <2>1, <2>2
      <3> QED
        BY <1>4, <1>6, <3>1, <3>2
    <2>7. P[w] < v - BackBy
      BY <1>2, <2>6 DEF Fits, Kept
    <2>8. P[w] < v
      BY <1>4, <2>7, Reaches
    <2> QED
      BY <2>3, <2>5, <2>8
  <1> QED
    BY <1>1, <1>3, <1>6 DEF TurnInv, W

\* For every index, all parameters of the searches and any marks that are so far
\* apart that no two searches together reach from one to the next: the
\* refinement neither deletes nor joins a mark, none gets to the place where the
\* next one was, and the searches that are meant for on marks are made at on
\* marks (noad.cpp, 649-666, 1247-1328).
THEOREM WideKeptHolds == Spec => []WideKept
  <1>1. Init => IInv /\ WideInv
    BY InitHolds, InitWide
  <1>2. IInv /\ WideInv /\ [Next]_vars => (IInv /\ WideInv)'
    BY StepHolds, StepWide
  <1> QED
    BY <1>1, <1>2, WideMeans, PTL DEF Spec
================================================================================
