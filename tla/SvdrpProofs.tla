----------------------------- MODULE SvdrpProofs -----------------------------
(***************************************************************************)
(* For any descriptors, any number of rounds and any calls that fail: noad *)
(* speaks to VDR only when VDR has nothing more to say, never counts fewer *)
(* replies than it still has to read, and loses one socket with a message. *)
(***************************************************************************)
EXTENDS Svdrp, NumberTheorems, SequenceTheorems

-----------------------------------------------------------------------------
(* The inductive invariant.                                                *)

Piece == Texts \cup {"text", "end"}

TypeInv ==
    /\ wire \in Seq(Piece) /\ inbox \in Seq(Piece) /\ command \in Seq(Piece)
    /\ outstandingReply \in Nat /\ rounds \in Nat

\* There is a descriptor only behind a connection that was asked for, and
\* nothing is on the way before VDR serves it.
ConnectionInv ==
    /\ pc \in {"idle", "open", "connect"} => filedes = NoFd
    /\ pc \in {"open", "connect"} => peer = "none"
    /\ peer \in {"none", "connecting", "queued", "reset"} =>
           wire = <<>> /\ inbox = <<>> /\ command = <<>>

Using == filedes # NoFd /\ peer # "closed"

\* What is owed is counted, and the count at every place in VDRMessage: noad
\* waits for one reply at most, and the loops of ReadCompleteReply never have
\* to read a second one.
ReplyInv ==
    Using =>
        /\ Owed <= outstandingReply
        /\ \/ pc \in {"greet", "loop2", "read2", "bye"} /\ outstandingReply <= 1
           \/ pc \in {"loop1", "send", "quit", "loop3", "delete"} /\ outstandingReply = 0
        /\ pc = "loop2" /\ outstandingReply = 1 => rounds = 0

IInv == TypeInv /\ ConnectionInv /\ ReplyInv
-----------------------------------------------------------------------------
(* Counting the ends of lines.                                             *)

EndsAt(pieces) == {k \in DOMAIN pieces : pieces[k] = "end"}

LEMMA EndsFinite ==
    ASSUME NEW S, NEW s \in Seq(S)
    PROVE  /\ IsFiniteSet(EndsAt(s)) /\ Ends(s) = Cardinality(EndsAt(s))
           /\ Ends(s) \in Nat
  <1>1. Len(s) \in Nat /\ EndsAt(s) \in SUBSET (1..Len(s))
    BY DEF EndsAt
  <1>2. IsFiniteSet(1..Len(s))
    BY <1>1, FS_Interval
  <1>3. IsFiniteSet(EndsAt(s))
    BY <1>1, <1>2, FS_Subset
  <1>4. Ends(s) = Cardinality(EndsAt(s))
    BY DEF Ends, EndsAt
  <1> QED
    BY <1>3, <1>4, FS_CardinalityType

\* The ends in two rows of pieces, one behind the other.
LEMMA EndsConcat ==
    ASSUME NEW S, NEW s \in Seq(S), NEW t \in Seq(S)
    PROVE  Ends(s \o t) = Ends(s) + Ends(t)
  <1> DEFINE n == Len(s)
             moved == {k + n : k \in EndsAt(t)}
             f == [k \in EndsAt(t) |-> k + n]
  <1>1. /\ n \in Nat /\ Len(t) \in Nat /\ DOMAIN s = 1..n /\ DOMAIN t = 1..Len(t)
        /\ s \o t \in Seq(S) /\ DOMAIN (s \o t) = 1..(n + Len(t))
    OBVIOUS
  <1>2. /\ \A k \in 1..n : (s \o t)[k] = s[k]
        /\ \A k \in 1..Len(t) : (s \o t)[k + n] = t[k]
    OBVIOUS
  <1>3. \A k \in EndsAt(t) : k \in 1..Len(t)
    BY <1>1 DEF EndsAt
  <1>4. f \in Bijection(EndsAt(t), moved)
    <2>1. \A a, b \in EndsAt(t) : f[a] = f[b] => a = b
      BY <1>1, <1>3
    <2> QED
      BY <2>1 DEF Bijection, Injection, Surjection, IsInjective
  <1>5. IsFiniteSet(moved) /\ Cardinality(moved) = Ends(t)
    <2>1. ExistsBijection(EndsAt(t), moved)
      <3> HIDE DEF f, moved
      <3> QED BY <1>4 DEF ExistsBijection
    <2>2. IsFiniteSet(EndsAt(t)) /\ Cardinality(EndsAt(t)) = Ends(t)
      BY EndsFinite
    <2> HIDE DEF moved
    <2> QED
      BY <2>1, <2>2, FS_Bijection
  <1>6. EndsAt(s) \cap moved = {}
    BY <1>1, <1>3 DEF EndsAt
  <1>7. EndsAt(s \o t) = EndsAt(s) \cup moved
    <2>1. ASSUME NEW k \in EndsAt(s \o t)
          PROVE  k \in EndsAt(s) \cup moved
      <3>1. k \in 1..(n + Len(t)) /\ (s \o t)[k] = "end"
        BY <1>1 DEF EndsAt
      <3>2. CASE k <= n
        BY <1>1, <1>2, <3>1, <3>2 DEF EndsAt
      <3>3. CASE k > n
        <4>1. k - n \in 1..Len(t) /\ k = (k - n) + n
          BY <1>1, <3>1, <3>3
        <4>2. k - n \in EndsAt(t)
          BY <1>1, <1>2, <3>1, <4>1 DEF EndsAt
        <4> QED
          BY <4>1, <4>2
      <3> QED
        BY <1>1, <3>1, <3>2, <3>3
    <2>2. ASSUME NEW k \in EndsAt(s)
          PROVE  k \in EndsAt(s \o t)
      BY <1>1, <1>2 DEF EndsAt
    <2>3. ASSUME NEW k \in EndsAt(t)
          PROVE  k + n \in EndsAt(s \o t)
      BY <1>1, <1>2 DEF EndsAt
    <2> QED
      BY <2>1, <2>2, <2>3
  <1>8. Cardinality(EndsAt(s) \cup moved) = Ends(s) + Ends(t)
    <2>1. Cardinality({}) = 0
      BY FS_EmptySet
    <2> HIDE DEF moved
    <2>2. Cardinality(EndsAt(s) \cup moved) =
              Cardinality(EndsAt(s)) + Cardinality(moved) - Cardinality(EndsAt(s) \cap moved)
      BY <1>5, EndsFinite, FS_Union
    <2>3. Cardinality(EndsAt(s)) = Ends(s) /\ Ends(s) \in Nat /\ Ends(t) \in Nat
      BY EndsFinite
    <2>4. Cardinality(EndsAt(s) \cap moved) = 0
      BY <1>6, <2>1, Zenon
    <2> QED
      BY <1>5, <2>2, <2>3, <2>4
  <1> QED
    BY <1>1, <1>7, <1>8, EndsFinite

LEMMA EndsOfOne ==
    ASSUME NEW x
    PROVE  Ends(<<x>>) = IF x = "end" THEN 1 ELSE 0
  <1>1. EndsAt(<<x>>) = IF x = "end" THEN {1} ELSE {}
    BY DEF EndsAt
  <1>2. Cardinality({}) = 0 /\ Cardinality({1}) = 1
    BY FS_EmptySet, FS_Singleton
  <1> QED
    BY <1>1, <1>2 DEF Ends, EndsAt

LEMMA EndsOfNone == Ends(<<>>) = 0
  BY FS_EmptySet DEF Ends

\* One piece more, one line more, one piece less.
LEMMA EndsAppend ==
    ASSUME NEW s \in Seq(Piece), NEW x \in Piece
    PROVE  /\ Append(s, x) \in Seq(Piece)
           /\ Ends(Append(s, x)) = Ends(s) + IF x = "end" THEN 1 ELSE 0
  <1>1. <<x>> \in Seq(Piece) /\ Append(s, x) = s \o <<x>> /\ Append(s, x) \in Seq(Piece)
    OBVIOUS
  <1>2. Ends(s \o <<x>>) = Ends(s) + Ends(<<x>>)
    BY <1>1, EndsConcat
  <1>3. Ends(<<x>>) = IF x = "end" THEN 1 ELSE 0
    BY EndsOfOne
  <1> QED
    BY <1>1, <1>2, <1>3

LEMMA EndsWhole ==
    ASSUME NEW s \in Seq(Piece), NEW x \in Piece \ {"end"}
    PROVE  /\ s \o Whole(x) \in Seq(Piece)
           /\ Ends(s \o Whole(x)) = Ends(s) + 1
  <1>1. "end" \in Piece /\ Append(s, x) \in Seq(Piece)
    BY DEF Piece
  <1>2. s \o Whole(x) = Append(Append(s, x), "end")
    BY DEF Whole
  <1>3. Ends(Append(s, x)) = Ends(s) + 0 /\ Ends(s) \in Nat
    BY EndsAppend, EndsFinite
  <1>4. Ends(Append(Append(s, x), "end")) = Ends(Append(s, x)) + 1
    BY <1>1, EndsAppend
  <1> QED
    BY <1>1, <1>2, <1>3, <1>4, EndsAppend

LEMMA EndsTail ==
    ASSUME NEW s \in Seq(Piece), s # <<>>
    PROVE  /\ Tail(s) \in Seq(Piece) /\ Head(s) \in Piece
           /\ Ends(Tail(s)) \in Nat
           /\ Ends(s) = Ends(Tail(s)) + IF Head(s) = "end" THEN 1 ELSE 0
  <1>1. /\ Tail(s) \in Seq(Piece) /\ Head(s) \in Piece
        /\ <<Head(s)>> \in Seq(Piece) /\ s = <<Head(s)>> \o Tail(s)
    OBVIOUS
  <1>2. Ends(<<Head(s)>> \o Tail(s)) = Ends(<<Head(s)>>) + Ends(Tail(s))
    BY <1>1, EndsConcat
  <1>3. Ends(<<Head(s)>>) = IF Head(s) = "end" THEN 1 ELSE 0
    BY EndsOfOne
  <1>4. Ends(Tail(s)) \in Nat
    BY <1>1, EndsFinite
  <1>5. Ends(s) = Ends(<<Head(s)>> \o Tail(s))
    BY <1>1, Zenon
  <1>6. Ends(s) = Ends(Tail(s)) + IF Head(s) = "end" THEN 1 ELSE 0
    BY <1>2, <1>3, <1>4, <1>5
  <1> QED
    BY <1>1, <1>4, <1>6

\* The line that VDR takes has one end.
LEMMA EndsRest ==
    ASSUME NEW s \in Seq(Piece), NEW n \in DOMAIN s, s[n] = "end",
           \A m \in 1..(n - 1) : s[m] # "end"
    PROVE  /\ SubSeq(s, n + 1, Len(s)) \in Seq(Piece)
           /\ Ends(SubSeq(s, n + 1, Len(s))) \in Nat
           /\ Ends(s) = Ends(SubSeq(s, n + 1, Len(s))) + 1
  <1> DEFINE a == SubSeq(s, 1, n)
             b == SubSeq(s, n + 1, Len(s))
  <1>1. n \in 1..Len(s) /\ Len(s) \in Nat
    OBVIOUS
  <1>2. /\ a \in Seq(Piece) /\ Len(a) = n /\ \A k \in 1..n : a[k] = s[k]
        /\ b \in Seq(Piece)
    BY <1>1
  <1>3. s = a \o b
    <2>1. Len(b) = Len(s) - n /\ \A k \in 1..(Len(s) - n) : b[k] = s[n + k]
      BY <1>1
    <2>2. Len(a \o b) = Len(s)
      BY <1>1, <1>2, <2>1
    <2>3. ASSUME NEW k \in 1..Len(s)
          PROVE  (a \o b)[k] = s[k]
      <3> HIDE DEF a, b
      <3>1. k \in 1..(Len(a) + Len(b)) /\ Len(a) = n
        BY <1>1, <1>2, <2>1
      <3>2. (a \o b)[k] = IF k <= n THEN a[k] ELSE b[k - n]
        BY <1>2, <3>1, ConcatProperties
      <3>3. k <= n => a[k] = s[k]
        BY <1>1, <1>2
      <3>4. ~(k <= n) => b[k - n] = s[k]
        <4>1. ~(k <= n) => k - n \in 1..(Len(s) - n) /\ n + (k - n) = k
          BY <1>1
        <4> QED
          BY <2>1, <4>1
      <3> QED
        BY <3>2, <3>3, <3>4, Zenon
    <2> HIDE DEF a, b
    <2>4. a \o b \in Seq(Piece)
      BY <1>2
    <2> QED
      BY <2>2, <2>3, <2>4, SeqEqual
  <1> HIDE DEF a, b
  <1>4. EndsAt(a) = {n}
    <2>1. DOMAIN a = 1..n
      BY <1>2
    <2> QED
      BY <1>1, <1>2, <2>1 DEF EndsAt
  <1>5. Ends(a) = 1
    <2>1. Ends(a) = Cardinality(EndsAt(a))
      BY <1>2, EndsFinite
    <2> QED
      BY <1>4, <2>1, FS_Singleton
  <1>6. Ends(s) = Ends(a) + Ends(b) /\ Ends(b) \in Nat
    BY <1>2, <1>3, EndsConcat, EndsFinite
  <1> QED
    BY <1>2, <1>5, <1>6 DEF b

-----------------------------------------------------------------------------
(* VDR and the network.                                                    *)

Connecting == IF peer \in {"connecting", "queued"} THEN 1 ELSE 0

\* Owed is a sum of numbers.
OwedSum ==
    /\ Owed = Ends(wire) + Ends(inbox) + Ends(command) + Connecting
    /\ Ends(wire) \in Nat /\ Ends(inbox) \in Nat /\ Ends(command) \in Nat
    /\ Connecting \in {0, 1} /\ Owed \in Nat /\ outstandingReply \in Nat

LEMMA OwedLemma == TypeInv => OwedSum
  <1> SUFFICES ASSUME TypeInv PROVE OwedSum
    OBVIOUS
  <1>1. Ends(wire) \in Nat /\ Ends(inbox) \in Nat /\ Ends(command) \in Nat
    BY EndsFinite DEF TypeInv
  <1>2. Connecting \in {0, 1}
    BY DEF Connecting
  <1>3. Owed = Ends(wire) + Ends(inbox) + Ends(command) + Connecting
    BY DEF Owed, Connecting
  <1> QED
    BY <1>1, <1>2, <1>3 DEF TypeInv, OwedSum

LEMMA OwedNext == TypeInv' => OwedSum'
  BY OwedLemma, PTL

\* A step that is not noad's and does not make VDR say more than it owed.
LEMMA PeerStep ==
    ASSUME IInv, UNCHANGED noad, TypeInv', peer # "closed", peer # "none",
           peer' # "closed" => Owed' <= Owed,
           peer' \in {"queued", "reset"} =>
               wire' = <<>> /\ inbox' = <<>> /\ command' = <<>>,
           peer' \notin {"none", "connecting"}
    PROVE  IInv'
  <1>1. ConnectionInv'
    BY DEF IInv, ConnectionInv, noad
  <1>2. ReplyInv'
    <2> SUFFICES ASSUME Using'
                 PROVE  /\ (Owed <= outstandingReply)'
                        /\ \/ pc \in {"greet", "loop2", "read2", "bye"} /\ outstandingReply <= 1
                           \/ pc \in {"loop1", "send", "quit", "loop3", "delete"}
                                 /\ outstandingReply = 0
                        /\ pc = "loop2" /\ outstandingReply = 1 => rounds = 0
      BY DEF ReplyInv, noad
    <2>1. Using /\ Owed' <= Owed
      BY DEF Using, noad
    <2>2. Owed <= outstandingReply
      BY <2>1 DEF IInv, ReplyInv
    <2>3. Owed \in Nat /\ Owed' \in Nat /\ outstandingReply \in Nat
      BY OwedLemma, OwedNext DEF IInv, OwedSum
    <2>4. outstandingReply' = outstandingReply
      BY DEF noad
    <2> QED
      BY <2>1, <2>2, <2>3, <2>4 DEF IInv, ReplyInv
  <1> QED
    BY <1>1, <1>2 DEF IInv

LEMMA TextPiece == "text" \in Piece \ {"end"}
  BY DEF Piece

LEMMA EstablishedServeHangUp ==
    ASSUME IInv, Established \/ Serve \/ HangUp
    PROVE  IInv'
  <1>1. CASE Established
    <2>1. /\ peer = "connecting" /\ peer' \in {"queued", "reset"}
          /\ UNCHANGED noad /\ UNCHANGED <<wire, inbox, command>>
      BY <1>1 DEF Established
    <2>2. TypeInv'
      BY <2>1 DEF IInv, TypeInv, noad
    <2>3. Connecting = 1 /\ Connecting' \in {0, 1}
      BY <2>1 DEF Connecting
    <2>4. Owed' <= Owed
      BY <2>1, <2>2, <2>3, OwedLemma, OwedNext DEF IInv, OwedSum
    <2>5. wire = <<>> /\ inbox = <<>> /\ command = <<>>
      BY <2>1 DEF IInv, ConnectionInv
    <2> QED
      BY <2>1, <2>2, <2>4, <2>5, PeerStep
  <1>2. CASE Serve
    <2>1. /\ peer = "queued" /\ peer' = "serving" /\ wire' = wire \o Whole("text")
          /\ UNCHANGED noad /\ UNCHANGED <<inbox, command>>
      BY <1>2 DEF Serve
    <2>2. wire' \in Seq(Piece) /\ Ends(wire') = Ends(wire) + 1
      BY <2>1, TextPiece, EndsWhole DEF IInv, TypeInv
    <2>3. TypeInv'
      BY <2>1, <2>2 DEF IInv, TypeInv, noad
    <2>4. Connecting = 1 /\ Connecting' = 0
      BY <2>1 DEF Connecting
    <2>5. Owed' <= Owed
      BY <2>1, <2>2, <2>3, <2>4, OwedLemma, OwedNext DEF IInv, OwedSum
    <2> QED
      BY <2>1, <2>3, <2>5, PeerStep
  <1>3. CASE HangUp
    <2>1. /\ peer = "serving" /\ peer' = "closed"
          /\ UNCHANGED noad /\ UNCHANGED <<wire, inbox, command>>
      BY <1>3 DEF HangUp
    <2>2. TypeInv'
      BY <2>1 DEF IInv, TypeInv, noad
    <2> QED
      BY <2>1, <2>2, PeerStep
  <1> QED
    BY <1>1, <1>2, <1>3

\* The line that is answered is no longer in command, and its answer is on the way.
LEMMA AnswerStep ==
    ASSUME IInv, Answer
    PROVE  IInv'
  <1> DEFINE first(k) == command[k] = "end" /\ \A i \in 1..(k - 1) : command[i] # "end"
             n == CHOOSE k \in DOMAIN command : first(k)
  <1>1. /\ peer = "serving" /\ UNCHANGED noad /\ UNCHANGED inbox
        /\ Contains(command, "end") /\ wire' = wire \o Whole("text")
        /\ command' = SubSeq(command, n + 1, Len(command))
        /\ peer' \in {"serving", "closed"}
    BY DEF Answer
  <1>2. command \in Seq(Piece) /\ Len(command) \in Nat /\ DOMAIN command = 1..Len(command)
    BY DEF IInv, TypeInv
  <1>3. \E k \in DOMAIN command : first(k)
    <2> DEFINE S == EndsAt(command)
    <2>1. S # {} /\ S \in SUBSET Nat
      BY <1>1, <1>2 DEF EndsAt, Contains
    <2>2. Min(S) \in S /\ \A y \in S : Min(S) <= y
      <3> HIDE DEF S
      <3> QED
        BY <2>1, LeastElement
    <2>3. Min(S) \in DOMAIN command /\ command[Min(S)] = "end"
      BY <2>2 DEF EndsAt
    <2>4. ASSUME NEW i \in 1..(Min(S) - 1), command[i] = "end"
          PROVE  FALSE
      <3>1. Min(S) \in Int /\ Min(S) <= Len(command)
        BY <1>2, <2>3
      <3>2. i \in DOMAIN command /\ i < Min(S)
        BY <1>2, <3>1
      <3>3. i \in S
        BY <2>4, <3>2 DEF EndsAt
      <3> QED
        BY <2>2, <3>1, <3>2, <3>3
    <2> QED
      BY <2>3, <2>4
  <1>4. n \in DOMAIN command /\ first(n)
    <2> HIDE DEF first
    <2> QED
      BY <1>3
  <1> HIDE DEF n
  <1>5. /\ command' \in Seq(Piece) /\ Ends(command') \in Nat
        /\ Ends(command) = Ends(command') + 1
    BY <1>1, <1>2, <1>4, EndsRest
  <1>6. wire' \in Seq(Piece) /\ Ends(wire') = Ends(wire) + 1
    BY <1>1, TextPiece, EndsWhole DEF IInv, TypeInv
  <1>7. TypeInv'
    BY <1>1, <1>5, <1>6 DEF IInv, TypeInv, noad
  <1>8. Connecting' = Connecting
    BY <1>1 DEF Connecting
  <1>9. Owed' <= Owed
    <2>1. Ends(inbox') = Ends(inbox)
      BY <1>1
    <2>2. Ends(wire') + Ends(command') = Ends(wire) + Ends(command)
      BY <1>5, <1>6, OwedLemma DEF IInv, OwedSum
    <2> QED
      BY <1>7, <1>8, <2>1, <2>2, OwedLemma, OwedNext DEF IInv, OwedSum
  <1> QED
    BY <1>1, <1>7, <1>9, PeerStep

LEMMA DeliverStep ==
    ASSUME IInv, Deliver
    PROVE  IInv'
  <1>1. /\ wire # <<>> /\ inbox' = Append(inbox, Head(wire)) /\ wire' = Tail(wire)
        /\ UNCHANGED noad /\ UNCHANGED <<peer, command>>
    BY DEF Deliver
  <1>2. /\ Tail(wire) \in Seq(Piece) /\ Head(wire) \in Piece /\ Ends(Tail(wire)) \in Nat
        /\ Ends(wire) = Ends(Tail(wire)) + IF Head(wire) = "end" THEN 1 ELSE 0
    BY <1>1, EndsTail DEF IInv, TypeInv
  <1>3. /\ inbox' \in Seq(Piece)
        /\ Ends(inbox') = Ends(inbox) + IF Head(wire) = "end" THEN 1 ELSE 0
    BY <1>1, <1>2, EndsAppend DEF IInv, TypeInv
  <1>4. TypeInv'
    BY <1>1, <1>2, <1>3 DEF IInv, TypeInv, noad
  <1>5. Connecting' = Connecting
    BY <1>1 DEF Connecting
  <1>6. Ends(wire') + Ends(inbox') = Ends(wire) + Ends(inbox)
    BY <1>1, <1>2, <1>3, OwedLemma DEF IInv, OwedSum
  <1>7. Owed' <= Owed
    BY <1>1, <1>4, <1>5, <1>6, OwedLemma, OwedNext DEF IInv, OwedSum
  <1>8. peer \notin {"none", "connecting", "queued", "reset"}
    BY <1>1 DEF IInv, ConnectionInv
  <1>9. CASE peer # "closed"
    BY <1>1, <1>4, <1>7, <1>8, <1>9, PeerStep
  <1>10. CASE peer = "closed"
    BY <1>1, <1>4, <1>10 DEF IInv, ConnectionInv, ReplyInv, Using, noad
  <1> QED
    BY <1>9, <1>10

-----------------------------------------------------------------------------
(* noad.                                                                   *)

\* Where ReadReply returns to.
LEMMA ReturnLemma ==
    ASSUME NEW r, Return(r)
    PROVE  /\ pc = "greet" => pc' = "loop1" /\ rounds' = 0
           /\ pc = "bye" => pc' = "loop3" /\ rounds' = 0
           /\ pc = "read1" => pc' = (IF r THEN "loop1" ELSE "send")
           /\ pc = "read2" => pc' = (IF r THEN "loop2" ELSE "quit")
           /\ pc = "read3" => pc' = (IF r THEN "loop3" ELSE "delete")
           /\ pc' \in {"loop1", "loop2", "loop3", "send", "quit", "delete"}
           /\ rounds' \in {0, rounds, rounds + 1}
  <1>1. Loops = {"loop1", "loop2", "loop3"}
    BY DEF Loops, Loop
  <1>2. /\ Loop["loop1"].read = "read1" /\ Loop["loop1"].next = "send"
        /\ Loop["loop2"].read = "read2" /\ Loop["loop2"].next = "quit"
        /\ Loop["loop3"].read = "read3" /\ Loop["loop3"].next = "delete"
    BY DEF Loop
  <1>3. \A l \in Loops : Loop[l].read \in {"read1", "read2", "read3"}
    BY <1>1, <1>2
  <1>4. CASE pc = "greet" \/ pc = "bye"
    BY <1>3, <1>4 DEF Return, Enter
  <1>5. CASE pc # "greet" /\ pc # "bye"
    <2>1. PICK l \in Loops :
              /\ pc = Loop[l].read
              /\ IF r THEN pc' = l /\ rounds' = rounds + 1
                      ELSE pc' = Loop[l].next /\ UNCHANGED rounds
      BY <1>5 DEF Return
    <2> QED
      BY <1>1, <1>2, <1>5, <2>1
  <1> QED
    BY <1>4, <1>5

LEMMA ReadLabels == Reads = {"greet", "bye", "read1", "read2", "read3"}
  <1>1. Loops = {"loop1", "loop2", "loop3"}
    BY DEF Loops, Loop
  <1> QED
    BY <1>1 DEF Reads, Loop

\* A step of noad that leaves no connection in use.
LEMMA UnusedStep ==
    ASSUME IInv, TypeInv', ~Using', UNCHANGED <<peer, wire, inbox, command>>,
           pc' \in {"idle", "open", "connect"} => filedes' = NoFd,
           pc' \in {"open", "connect"} => peer = "none"
    PROVE  IInv'
  BY DEF IInv, ConnectionInv, ReplyInv

LEMMA ReadStops ==
    ASSUME IInv, ReadUnconnected \/ ReadNothing \/ ReadEnd
    PROVE  IInv'
  <1>1. \E r : Return(r)
    BY DEF ReadUnconnected, ReadNothing, ReadEnd
  <1>2. /\ UNCHANGED <<peer, wire, inbox, command, outstandingReply>>
        /\ filedes' = NoFd \/ peer = "closed"
    BY DEF ReadUnconnected, ReadNothing, ReadEnd, AtEnd, vdr
  <1>3. /\ pc' \notin {"idle", "open", "connect"} /\ rounds' \in Nat
    <2>1. PICK r : Return(r)
      BY <1>1
    <2> QED
      BY <2>1, ReturnLemma DEF IInv, TypeInv
  <1>4. TypeInv'
    BY <1>2, <1>3 DEF IInv, TypeInv
  <1> QED
    BY <1>2, <1>3, <1>4, UnusedStep DEF Using

LEMMA OpenClose ==
    ASSUME IInv, Open \/ Killed \/ Delete
    PROVE  IInv'
  <1>1. CASE Open
    <2>1. /\ pc = "open" /\ filedes = NoFd /\ peer = "none" /\ filedes' = NoFd
          /\ UNCHANGED <<peer, wire, inbox, command, rounds>>
          /\ outstandingReply' \in {outstandingReply, 1} /\ pc' \in {"connect", "greet"}
      BY <1>1 DEF Open, Greeting, IInv, ConnectionInv, vdr
    <2>2. TypeInv'
      BY <2>1 DEF IInv, TypeInv
    <2> QED
      BY <2>1, <2>2, UnusedStep DEF Using
  <1>2. CASE Killed
    <2>1. /\ peer = "closed" /\ pc' = "killed"
          /\ UNCHANGED <<peer, wire, inbox, command, rounds, outstandingReply>>
      BY <1>2 DEF Killed, vdr
    <2>2. TypeInv'
      BY <2>1 DEF IInv, TypeInv
    <2> QED
      BY <2>1, <2>2, UnusedStep DEF Using
  <1>3. CASE Delete
    <2>1. /\ filedes' = NoFd /\ pc' = "idle"
          /\ UNCHANGED <<peer, wire, inbox, command, rounds, outstandingReply>>
      BY <1>3 DEF Delete, Close, vdr
    <2>2. TypeInv'
      BY <2>1 DEF IInv, TypeInv
    <2> QED
      BY <2>1, <2>2, UnusedStep DEF Using
  <1> QED
    BY <1>1, <1>2, <1>3

LEMMA VDRMessageStep ==
    ASSUME IInv, VDRMessage
    PROVE  IInv'
  <1>1. /\ pc = "idle" /\ pc' = "open" /\ peer' = "none" /\ filedes' = NoFd
        /\ wire' = <<>> /\ inbox' = <<>> /\ command' = <<>>
        /\ UNCHANGED <<outstandingReply, rounds>>
    BY DEF VDRMessage, IInv, ConnectionInv
  <1>2. TypeInv'
    BY <1>1 DEF IInv, TypeInv
  <1> QED
    BY <1>1, <1>2 DEF IInv, ConnectionInv, ReplyInv, Using

\* The greeting is the first reply that is owed, and counted.
LEMMA ConnectStep ==
    ASSUME IInv, Connect
    PROVE  IInv'
  <1>1. /\ pc = "connect" /\ peer = "none"
        /\ wire = <<>> /\ inbox = <<>> /\ command = <<>>
        /\ UNCHANGED <<wire, inbox, command, rounds>>
        /\ outstandingReply' = 1 /\ pc' = "greet"
    BY DEF Connect, Greeting, IInv, ConnectionInv
  <1>2. TypeInv'
    BY <1>1 DEF IInv, TypeInv
  <1>3. CASE UNCHANGED peer /\ filedes' = NoFd
    BY <1>1, <1>2, <1>3, UnusedStep DEF Using
  <1>4. CASE peer' = "connecting"
    <2>1. Ends(wire') = 0 /\ Ends(inbox') = 0 /\ Ends(command') = 0
      BY <1>1, EndsOfNone
    <2>2. Connecting' = 1
      BY <1>4 DEF Connecting
    <2>3. Owed' = 1
      BY <1>2, <2>1, <2>2, OwedNext DEF OwedSum
    <2>4. ConnectionInv'
      BY <1>1, <1>4 DEF ConnectionInv
    <2>5. ReplyInv'
      BY <1>1, <2>3 DEF ReplyInv
    <2> QED
      BY <1>2, <2>4, <2>5 DEF IInv
  <1> QED
    BY <1>3, <1>4 DEF Connect, Greeting

\* While the connection is used, the loop ends because nothing more is expected.
LEMMA ReadCompleteReplyStep ==
    ASSUME IInv, ReadCompleteReply
    PROVE  IInv'
  <1>1. /\ pc \in {"loop1", "loop2", "loop3"}
        /\ UNCHANGED <<filedes, outstandingReply, rounds, peer, wire, inbox, command>>
    BY DEF ReadCompleteReply, Loops, Loop, vdr
  <1>2. IF rounds < Rounds /\ outstandingReply > 0
        THEN pc' = Loop[pc].read ELSE pc' = Loop[pc].next
    BY DEF ReadCompleteReply
  <1>3. /\ pc = "loop1" => pc' = IF rounds < Rounds /\ outstandingReply > 0 THEN "read1" ELSE "send"
        /\ pc = "loop2" => pc' = IF rounds < Rounds /\ outstandingReply > 0 THEN "read2" ELSE "quit"
        /\ pc = "loop3" => pc' = IF rounds < Rounds /\ outstandingReply > 0 THEN "read3" ELSE "delete"
    BY <1>2 DEF Loop
  <1>4. TypeInv'
    BY <1>1 DEF IInv, TypeInv
  <1>5. ConnectionInv'
    BY <1>1, <1>3 DEF IInv, ConnectionInv
  <1>6. ASSUME Using'
        PROVE  /\ (Owed <= outstandingReply)'
               /\ \/ pc' \in {"greet", "loop2", "read2", "bye"} /\ outstandingReply' <= 1
                  \/ pc' \in {"loop1", "send", "quit", "loop3", "delete"} /\ outstandingReply' = 0
               /\ pc' = "loop2" /\ outstandingReply' = 1 => rounds' = 0
    <2>1. Using /\ Owed' = Owed
      BY <1>1, <1>6 DEF Using, Owed
    <2>2. /\ Owed <= outstandingReply
          /\ (pc = "loop2" /\ outstandingReply <= 1) \/ outstandingReply = 0
          /\ pc = "loop2" /\ outstandingReply = 1 => rounds = 0
      BY <1>1, <2>1 DEF IInv, ReplyInv
    <2>3. outstandingReply \in Nat /\ 0 < Rounds
      BY SvdrpAssumption DEF IInv, TypeInv
    <2>4. CASE outstandingReply = 0
      BY <1>1, <1>3, <2>1, <2>2, <2>4
    <2>5. CASE outstandingReply = 1
      BY <1>1, <1>3, <2>1, <2>2, <2>3, <2>5
    <2> QED
      BY <2>2, <2>3, <2>4, <2>5
  <1> QED
    BY <1>4, <1>5, <1>6 DEF IInv, ReplyInv

\* The end of a line is counted down.
LEMMA ReadPieceStep ==
    ASSUME IInv, ReadPiece
    PROVE  IInv'
  <1>1. /\ pc \in Reads /\ inbox # <<>> /\ inbox' = Tail(inbox)
        /\ UNCHANGED <<filedes, peer, wire, command>>
    BY DEF ReadPiece
  <1>2. /\ Tail(inbox) \in Seq(Piece) /\ Ends(Tail(inbox)) \in Nat
        /\ Ends(inbox) = Ends(Tail(inbox)) + IF Head(inbox) = "end" THEN 1 ELSE 0
    BY <1>1, EndsTail DEF IInv, TypeInv
  <1>3. /\ peer \notin {"none", "connecting", "queued", "reset"}
        /\ Connecting' = Connecting
    BY <1>1 DEF IInv, ConnectionInv, Connecting
  <1>4. outstandingReply \in Nat /\ rounds \in Nat
    BY DEF IInv, TypeInv
  <1>5. CASE Head(inbox) = "end"
    <2>1. /\ outstandingReply' = IF outstandingReply > 0 THEN outstandingReply - 1 ELSE 0
          /\ Return(TRUE)
      BY <1>5 DEF ReadPiece
    <2>2. /\ pc = "greet" => pc' = "loop1" /\ rounds' = 0
          /\ pc = "bye" => pc' = "loop3" /\ rounds' = 0
          /\ pc = "read2" => pc' = "loop2"
          /\ pc' \in {"loop1", "loop2", "loop3", "send", "quit", "delete"}
          /\ rounds' \in {0, rounds, rounds + 1}
      BY <2>1, ReturnLemma
    <2>3. TypeInv'
      BY <1>1, <1>2, <1>4, <2>1, <2>2 DEF IInv, TypeInv
    <2>4. ConnectionInv'
      BY <1>1, <1>3, <2>2 DEF ConnectionInv
    <2>5. Owed = Owed' + 1
      <3>1. Ends(inbox) = Ends(inbox') + 1
        BY <1>1, <1>2, <1>5
      <3>2. Ends(wire') = Ends(wire) /\ Ends(command') = Ends(command)
        BY <1>1
      <3> QED
        BY <1>3, <2>3, <3>1, <3>2, OwedLemma, OwedNext DEF IInv, OwedSum
    <2>6. Owed' \in Nat
      BY <2>3, OwedNext DEF OwedSum
    <2>7. ASSUME Using'
          PROVE  /\ Owed' <= outstandingReply'
                 /\ pc' \in {"loop1", "loop2", "loop3"} /\ outstandingReply' = 0
      <3>1. Using
        BY <1>1, <2>7 DEF Using
      <3>2. pc \in {"greet", "read2", "bye"} /\ outstandingReply <= 1 /\ Owed <= outstandingReply
        BY <1>1, <2>5, <2>6, <3>1, ReadLabels DEF IInv, ReplyInv
      <3>3. outstandingReply = 1 /\ Owed' <= 0
        <4>1. \A a, b, c \in Nat : a = b + 1 /\ a <= c /\ c <= 1 => c = 1 /\ b <= 0
          OBVIOUS
        <4>2. Owed \in Nat
          BY OwedLemma DEF IInv, OwedSum
        <4> QED
          BY <1>4, <2>5, <2>6, <3>2, <4>1, <4>2
      <3>4. outstandingReply' = 0
        BY <2>1, <3>3
      <3> QED
        BY <2>2, <3>2, <3>3, <3>4
    <2>8. ReplyInv'
      BY <2>7 DEF ReplyInv
    <2> QED
      BY <2>3, <2>4, <2>8 DEF IInv
  <1>6. CASE Head(inbox) # "end"
    <2>1. UNCHANGED <<pc, rounds, outstandingReply>>
      BY <1>6 DEF ReadPiece
    <2>2. TypeInv'
      BY <1>1, <1>2, <2>1 DEF IInv, TypeInv
    <2>3. ConnectionInv'
      BY <1>1, <1>3, <2>1 DEF IInv, ConnectionInv
    <2>4. Owed' = Owed
      <3>1. Ends(inbox) = Ends(inbox')
        BY <1>1, <1>2, <1>6
      <3>2. Ends(wire') = Ends(wire) /\ Ends(command') = Ends(command)
        BY <1>1
      <3> QED
        BY <1>3, <2>2, <3>1, <3>2, OwedLemma, OwedNext DEF IInv, OwedSum
    <2>5. ReplyInv'
      BY <1>1, <2>1, <2>4 DEF IInv, ReplyInv, Using
    <2> QED
      BY <2>2, <2>3, <2>5 DEF IInv
  <1> QED
    BY <1>5, <1>6

\* A command is written when nothing is owed: then one reply is, at most.
LEMMA SendStep ==
    ASSUME IInv, NEW text \in Piece \ {"end"}, Send(text), pc \in {"send", "quit"},
           (pc' = "bye" /\ UNCHANGED rounds) \/ (pc' = "loop2" /\ rounds' = 0),
           UNCHANGED <<peer, wire, inbox>>
    PROVE  IInv'
  <1>1. outstandingReply \in Nat /\ rounds \in Nat /\ rounds' \in Nat
    BY DEF IInv, TypeInv
  <1>2. CASE filedes = NoFd
    <2>1. UNCHANGED <<filedes, outstandingReply, command>>
      BY <1>2 DEF Send
    <2>2. TypeInv'
      BY <1>1, <2>1 DEF IInv, TypeInv
    <2> QED
      BY <1>2, <2>1, <2>2, UnusedStep DEF Using
  <1>3. CASE filedes # NoFd /\ NotWritten
    <2>1. filedes' = NoFd /\ outstandingReply' = 1 /\ UNCHANGED command
      BY <1>3 DEF NotWritten, Close
    <2>2. TypeInv'
      BY <1>1, <2>1 DEF IInv, TypeInv
    <2> QED
      BY <2>1, <2>2, UnusedStep DEF Using
  <1>4. CASE filedes # NoFd /\ Written(text) /\ peer = "closed"
    <2>1. UNCHANGED <<filedes, command>> /\ outstandingReply' = outstandingReply + 1
      BY <1>4 DEF Written, Reachable
    <2>2. TypeInv'
      BY <1>1, <2>1 DEF IInv, TypeInv
    <2> QED
      BY <1>4, <2>1, <2>2, UnusedStep DEF Using
  <1>5. CASE filedes # NoFd /\ Written(text) /\ peer # "closed"
    <2>1. Using
      BY <1>5 DEF Using
    <2>2. /\ outstandingReply' = outstandingReply + 1 /\ UNCHANGED filedes
          /\ peer \in {"queued", "serving"}
          /\ command' = command \o Whole(text) \/ command' = Append(command, text)
      BY <1>5 DEF Written, Reachable
    <2>3. outstandingReply = 0 /\ Owed = 0
      BY <2>1, OwedLemma DEF IInv, ReplyInv, OwedSum
    <2>4. Connecting = 0 /\ peer = "serving"
      BY <2>2, <2>3, OwedLemma DEF IInv, OwedSum, Connecting
    <2>5. command' \in Seq(Piece) /\ Ends(command') \in {Ends(command), Ends(command) + 1}
      <3>1. text \in Piece /\ text # "end" /\ command \in Seq(Piece) /\ Ends(command) \in Nat
        BY OwedLemma DEF IInv, TypeInv, OwedSum
      <3>2. CASE command' = command \o Whole(text)
        BY <3>1, <3>2, EndsWhole
      <3>3. CASE command' = Append(command, text)
        BY <3>1, <3>3, EndsAppend
      <3> QED
        BY <2>2, <3>2, <3>3
    <2>6. TypeInv'
      BY <1>1, <2>2, <2>5 DEF IInv, TypeInv
    <2>7. ConnectionInv'
      BY <2>4 DEF ConnectionInv
    <2>8. Owed' <= 1
      <3>1. Connecting' = 0
        BY <2>4 DEF Connecting
      <3>2. Ends(wire') = Ends(wire) /\ Ends(inbox') = Ends(inbox)
        OBVIOUS
      <3>3. Ends(wire) = 0 /\ Ends(inbox) = 0 /\ Ends(command) = 0
        <4>1. \A a, b, c, d \in Nat : a + b + c + d = 0 => a = 0 /\ b = 0 /\ c = 0
          OBVIOUS
        <4>2. /\ Ends(wire) + Ends(inbox) + Ends(command) + Connecting = 0
              /\ Ends(wire) \in Nat /\ Ends(inbox) \in Nat /\ Ends(command) \in Nat
              /\ Connecting \in Nat
          BY <2>3, OwedLemma DEF IInv, OwedSum
        <4> QED
          BY <4>1, <4>2
      <3>4. Ends(command') \in {0, 1}
        BY <2>5, <3>3
      <3> QED
        BY <2>6, <3>1, <3>2, <3>3, <3>4, OwedNext DEF OwedSum
    <2>9. ReplyInv'
      BY <1>1, <2>2, <2>3, <2>8 DEF ReplyInv
    <2> QED
      BY <2>6, <2>7, <2>9 DEF IInv
  <1> QED
    BY <1>2, <1>3, <1>4, <1>5 DEF Send

LEMMA SendSteps ==
    ASSUME IInv, SendMessage \/ CmdQuit
    PROVE  IInv'
  <1>1. Text \in Piece \ {"end"} /\ "Quit" \in Piece \ {"end"}
    BY DEF Text, Piece, Texts
  <1>2. CASE SendMessage
    BY <1>1, <1>2, SendStep DEF SendMessage, Enter
  <1>3. CASE CmdQuit
    <2>1. /\ Send("Quit") /\ pc \in {"send", "quit"} /\ pc' = "bye" /\ UNCHANGED rounds
          /\ UNCHANGED <<peer, wire, inbox>>
      BY <1>3 DEF CmdQuit
    <2> QED
      BY <1>1, <2>1, SendStep
  <1> QED
    BY <1>2, <1>3

-----------------------------------------------------------------------------
(* The sockets.                                                            *)

\* Apart from the descriptor that cSocket has, one is open for each message
\* at most, and between two messages it has none: the one that Open makes and
\* Connect replaces is the only one that is never closed.
OneLostEach ==
    /\ Cardinality(open \ {sock}) <= sent
    /\ pc = "idle" => sock = NoFd

SocketInv ==
    /\ IsFiniteSet(open) /\ open \subseteq Fd /\ sent \in Nat
    /\ filedes \in {NoFd, sock}
    /\ pc \in {"idle", "open"} => sock = NoFd
    /\ pc = "open" => Cardinality(open) < sent
    /\ pc = "connect" => Cardinality(open) <= sent
    /\ Cardinality(open \ {sock}) <= sent

\* A step that neither opens nor closes a socket.
LEMMA SameSockets ==
    ASSUME SocketInv, UNCHANGED <<sent, sock, open>>, filedes' \in {NoFd, filedes},
           pc' \notin {"idle", "open", "connect"}
    PROVE  SocketInv'
  BY DEF SocketInv

\* Close leaves the sockets that are lost.
LEMMA CloseLemma ==
    ASSUME SocketInv, Close
    PROVE  /\ open' = open \ {sock} /\ sock' = NoFd /\ filedes' = NoFd
           /\ open' \subseteq Fd /\ IsFiniteSet(open') /\ open' \ {sock'} = open'
  <1>1. open' = open \ {sock} /\ sock' = NoFd /\ filedes' = NoFd
    BY SvdrpAssumption DEF SocketInv, Close
  <1>2. IsFiniteSet(open \ {sock})
    BY FS_RemoveElement DEF SocketInv
  <1> QED
    BY <1>1, <1>2, SvdrpAssumption DEF SocketInv

\* cSocket::Open: the socket it has is lost, if it has one.
LEMMA SocketOpenLemma ==
    ASSUME SocketInv, NEW ok, SocketOpen(ok)
    PROVE  /\ open' \subseteq Fd /\ IsFiniteSet(open') /\ open' \ {sock'} = open
           /\ Cardinality(open) \in Nat
           /\ \/ sock' = NoFd /\ open' = open
              \/ sock' \in open' /\ Cardinality(open') = Cardinality(open) + 1
  <1>1. IsFiniteSet(open) /\ open \subseteq Fd /\ Cardinality(open) \in Nat
    BY FS_CardinalityType DEF SocketInv
  <1>2. CASE sock' = NoFd /\ UNCHANGED open
    BY <1>1, <1>2, SvdrpAssumption
  <1>3. CASE \E fd \in Fd \ open : sock' = fd /\ open' = open \cup {fd}
    <2>1. PICK fd \in Fd \ open : sock' = fd /\ open' = open \cup {fd}
      BY <1>3
    <2>2. IsFiniteSet(open \cup {fd}) /\ Cardinality(open \cup {fd}) = Cardinality(open) + 1
      BY <1>1, FS_AddElement
    <2> QED
      BY <1>1, <2>1, <2>2
  <1> QED
    BY <1>2, <1>3 DEF SocketOpen

LEMMA SocketsOpened ==
    ASSUME SocketInv, VDRMessage \/ Open \/ Connect
    PROVE  SocketInv'
  <1>1. CASE VDRMessage
    <2>1. /\ pc = "idle" /\ pc' = "open" /\ sent' = sent + 1
          /\ UNCHANGED <<sock, filedes, open>>
      BY <1>1 DEF VDRMessage
    <2>2. sent \in Nat /\ sock = NoFd /\ Cardinality(open \ {sock}) <= sent
      BY <2>1 DEF SocketInv
    <2>3. open \ {sock} = open
      BY <2>2, SvdrpAssumption DEF SocketInv
    <2>4. Cardinality(open) \in Nat
      BY FS_CardinalityType DEF SocketInv
    <2>5. Cardinality(open) < sent + 1 /\ Cardinality(open \ {sock}) <= sent + 1
      BY <2>2, <2>3, <2>4
    <2> QED
      BY <2>1, <2>2, <2>5 DEF SocketInv
  <1>2. CASE Open
    <2>1. PICK ok \in BOOLEAN :
              /\ SocketOpen(ok) /\ UNCHANGED sent /\ pc = "open"
              /\ \/ pc' = "connect" /\ UNCHANGED filedes
                 \/ pc' = "greet" /\ filedes' = NoFd
      BY <1>2 DEF Open, Greeting
    <2>2. /\ open' \subseteq Fd /\ IsFiniteSet(open') /\ open' \ {sock'} = open
          /\ Cardinality(open) \in Nat
          /\ \/ sock' = NoFd /\ open' = open
             \/ sock' \in open' /\ Cardinality(open') = Cardinality(open) + 1
      BY <2>1, SocketOpenLemma
    <2>3. /\ filedes' = NoFd
          /\ Cardinality(open) < sent /\ sent \in Nat
      BY <2>1 DEF SocketInv
    <2>4. Cardinality(open) + 1 <= sent /\ Cardinality(open) <= sent
      BY <2>2, <2>3
    <2>5. Cardinality(open') <= sent' /\ Cardinality(open' \ {sock'}) <= sent'
      BY <2>1, <2>2, <2>4
    <2> QED
      BY <2>1, <2>2, <2>3, <2>5 DEF SocketInv
  <1>3. CASE Connect
    <2>1. PICK ok \in BOOLEAN :
              /\ SocketOpen(ok) /\ UNCHANGED sent /\ pc = "connect" /\ pc' = "greet"
              /\ filedes' \in {NoFd, sock'}
      BY <1>3 DEF Connect, Greeting
    <2>2. /\ open' \subseteq Fd /\ IsFiniteSet(open') /\ open' \ {sock'} = open
          /\ sock' = NoFd \/ sock' \in open'
      BY <2>1, SocketOpenLemma
    <2>3. Cardinality(open) <= sent /\ sent \in Nat
      BY <2>1 DEF SocketInv
    <2> QED
      BY <2>1, <2>2, <2>3 DEF SocketInv
  <1> QED
    BY <1>1, <1>2, <1>3

LEMMA SocketsRead ==
    ASSUME SocketInv, ReadCompleteReply \/ ReadUnconnected \/ ReadPiece \/ ReadNothing \/ ReadEnd
    PROVE  SocketInv'
  <1>1. UNCHANGED <<sent, sock, open>> /\ filedes' \in {NoFd, filedes}
    BY DEF ReadCompleteReply, ReadUnconnected, ReadPiece, ReadNothing, ReadEnd
  <1>2. pc' \notin {"idle", "open", "connect"}
    <2>1. CASE ReadCompleteReply
      <3>1. pc \in {"loop1", "loop2", "loop3"} /\ pc' \in {Loop[pc].read, Loop[pc].next}
        BY <2>1 DEF ReadCompleteReply, Loops, Loop
      <3> QED
        BY <3>1 DEF Loop
    <2>2. CASE \E r : Return(r)
      BY <2>2, ReturnLemma
    <2>3. CASE pc \in Reads /\ UNCHANGED pc
      BY <2>3, ReadLabels
    <2> QED
      BY <2>1, <2>2, <2>3 DEF ReadUnconnected, ReadPiece, ReadNothing, ReadEnd
  <1> QED
    BY <1>1, <1>2, SameSockets

LEMMA SocketsClosed ==
    ASSUME SocketInv, SendMessage \/ CmdQuit \/ Killed \/ Delete
    PROVE  SocketInv'
  <1>1. CASE SendMessage \/ CmdQuit
    <2>1. UNCHANGED sent /\ pc' \in {"loop2", "bye"} /\ \E text : Send(text)
      BY <1>1 DEF SendMessage, CmdQuit, Enter
    <2>2. CASE Close
      <3>1. Cardinality(open \ {sock}) <= sent /\ sent \in Nat
        BY DEF SocketInv
      <3> QED
        BY <2>1, <2>2, <3>1, CloseLemma DEF SocketInv
    <2>3. CASE UNCHANGED <<open, sock, filedes>>
      BY <2>1, <2>3, SameSockets
    <2> QED
      BY <2>1, <2>2, <2>3 DEF Send, Written, NotWritten
  <1>2. CASE Killed
    <2>1. /\ open' = {} /\ pc' = "killed" /\ UNCHANGED <<sent, sock, filedes>>
          /\ pc \in {"send", "quit"}
      BY <1>2 DEF Killed
    <2> QED
      BY <2>1, FS_EmptySet DEF SocketInv
  <1>3. CASE Delete
    <2>1. Close /\ pc' = "idle" /\ UNCHANGED sent
      BY <1>3 DEF Delete
    <2>2. Cardinality(open \ {sock}) <= sent /\ sent \in Nat
      BY DEF SocketInv
    <2> QED
      BY <2>1, <2>2, CloseLemma DEF SocketInv
  <1> QED
    BY <1>1, <1>2, <1>3

-----------------------------------------------------------------------------
(* The theorems.                                                           *)

LEMMA InitInv == Init => IInv
  BY DEF Init, IInv, TypeInv, ConnectionInv, ReplyInv, Using

LEMMA NextInv == IInv /\ [Next]_vars => IInv'
  <1> SUFFICES ASSUME IInv, [Next]_vars
               PROVE  IInv'
    OBVIOUS
  <1>1. CASE UNCHANGED vars
    BY <1>1 DEF vars, IInv, TypeInv, ConnectionInv, ReplyInv, Using, Owed
  <1>2. CASE NoadStep
    BY <1>2, VDRMessageStep, OpenClose, ConnectStep, ReadCompleteReplyStep, ReadStops,
       ReadPieceStep, SendSteps DEF NoadStep
  <1>3. CASE VDRStep
    BY <1>3, EstablishedServeHangUp, AnswerStep, DeliverStep DEF VDRStep
  <1> QED
    BY <1>1, <1>2, <1>3 DEF Next

LEMMA Invariant == Spec => []IInv
  BY InitInv, NextInv, PTL DEF Spec

\* noad sends a command only when VDR has nothing more to say, so that no reply
\* is taken for that of another command (svdrpc.cpp, Open, Send, ReadReply).
THEOREM SpeaksInTurnHolds == Spec => []SpeaksInTurn
  <1>1. IInv => SpeaksInTurn
    BY OwedLemma DEF IInv, ReplyInv, SpeaksInTurn, Using, OwedSum
  <1> QED
    BY <1>1, Invariant, PTL

\* outstandingReply never falls behind what VDR has still to say (svdrpc.cpp,
\* Open, Send, ReadReply, ReadCompleteReply).
THEOREM CountsRepliesHolds == Spec => []CountsReplies
  <1>1. IInv => CountsReplies
    BY DEF IInv, ReplyInv, CountsReplies, Using
  <1> QED
    BY <1>1, Invariant, PTL

\* However often noad sends a message and whatever fails on the way, each of
\* them leaves one socket open at most: the one that cSVDRPC::Open makes and
\* cSocket::Connect forgets (svdrpc.cpp, 55-146).
THEOREM OneLostEachHolds == Spec => []OneLostEach
  <1>1. Init => SocketInv
    <2>1. {} \ {sock} = {}
      OBVIOUS
    <2> QED
      BY <2>1, FS_EmptySet DEF Init, SocketInv
  <1>2. SocketInv /\ [Next]_vars => SocketInv'
    <2> SUFFICES ASSUME SocketInv, [Next]_vars
                 PROVE  SocketInv'
      OBVIOUS
    <2>1. CASE UNCHANGED noad
      BY <2>1 DEF noad, SocketInv
    <2>2. CASE NoadStep
      BY <2>2, SocketsOpened, SocketsRead, SocketsClosed DEF NoadStep
    <2> QED
      BY <2>1, <2>2 DEF vars, noad, Next, VDRStep, Established, Serve, Answer, Deliver, HangUp
  <1>3. SocketInv => OneLostEach
    BY DEF SocketInv, OneLostEach
  <1> QED
    BY <1>1, <1>2, <1>3, PTL DEF Spec
=============================================================================
