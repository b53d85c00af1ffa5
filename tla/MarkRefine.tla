------------------------------- MODULE MarkRefine -------------------------------
(***************************************************************************)
(* The refinement of the marks (src/noad.cpp): MarkCleanup after a whole   *)
(* recording has been scanned, with the searches for black lines, black    *)
(* frames, repeated scenes or silence around every mark, and the same      *)
(* search for repeated scenes on the last two marks while scanLoop         *)
(* (src/tnoad.cpp) waits for more of the recording.                        *)
(*                                                                         *)
(* What the pictures show is not known here: a search may find any frame   *)
(* that it looks at, or none.  The list is the set of its positions; a     *)
(* node is known by its place in it, since the k-th node carries the k-th  *)
(* position (MarkSort, AddIsShift) and moveMark deletes a node and puts a  *)
(* new one at the end.  The search for scene changes is left out.          *)
(***************************************************************************)
EXTENDS MarkCleanup, Sequences

CONSTANTS
    Starts,       \* the lists the refinement may begin with
    Places,       \* bound: where marks are added while the recording goes on
    MaxMarks,     \* bound: marks while the recording goes on
    Length,       \* cIF->Last()
    Gop,          \* every so many frames there is an independent one
    Limit,        \* INDEXSAFETYLIMIT
    Minute,       \* FRAMESPERMIN
    Room,         \* the 2000 frames detectBlacklines wants
    Enough, Many, \* its 50 pictures and its 10 resets
    LineBack, LineForward, \* seconds around an on mark with black lines, 60, 200
    OffBack,      \* OFFBACKFRAMES
    Gap,          \* what a search leaves free before the next mark, 10
    FrameBack, FrameForward, \* the search for black frames, 45 and 120 seconds
    Before, After, \* PICS_READ_BEFORE, PICS_READ_AFTER
    BeforeOn,     \* PICS_BEFORE_ONMARK
    Lead, Skip, Rest, \* 15, 20 and 25 frames in checkMarkPair
    Similar,      \* MIN_PICS_SIMILAR
    OverlapOk,    \* OVERLAP_OK_FRAMES
    NotOk, Into,  \* NOTOKCOUNT and the 5 of checkBlacklineOnmark
    SoundRange,   \* AUDIO_CHECK_RANGE
    SoundGap      \* the 20 of checkMarkByAudio

Frames == 0..Length
IFrames == {i \in Frames : i % Gop = 0}

ASSUME MarkRefineAssumption ==
    /\ {Length, Limit, Minute, Room, Enough, Many, LineBack, LineForward, OffBack, Gap, FrameBack, FrameForward,
        Before, After, BeforeOn, Lead, Skip, Rest, Similar, NotOk, Into,
        OverlapOk, SoundRange, SoundGap, MaxMarks} \subseteq Nat
    /\ Gop \in Nat \ {0} /\ Gop <= OverlapOk /\ Skip + Gop + Limit <= After
    /\ Lead < Skip /\ Skip < BeforeOn /\ BeforeOn < After /\ FrameBack + Lead < BeforeOn
    /\ Skip < MinMark /\ MinMark <= MinActiveMark /\ Into < NotOk
    /\ Gop + Limit < BeforeOn /\ Gop + Limit < Before + Lead
    /\ Skip + After <= LineForward + MinActiveMark /\ Skip + After <= LineForward + SoundRange
    /\ Places \subseteq IFrames /\ \A S \in Starts : S \subseteq IFrames

None == -1      \* NULL, as a position; -1 is also what GetNextIFrame gives
Dummy == 0      \* the mark of checkMarkPair that is not in the list, as a node

VARIABLES
    list,      \* marks: the positions at, and the checked flag of every node
    m,         \* the position of the mark the passes are at
    kind,      \* the passes: "plain" until it is "lines" or "frames", "overlap",
               \* or "online"
    lines,     \* hasBlackLines
    probe,     \* the variables of detectBlacklines
    pc,
    fault,     \* history: what the last step did with a pointer to a mark,
               \* or that it was a refinement that did nothing wrong
    was        \* history: the positions after the first cleanup

vars == <<list, m, kind, lines, probe, pc, fault, was>>

-----------------------------------------------------------------------------
(* The index and the list.                                                 *)

MinOr(S) == IF S = {} THEN None ELSE Min(S)
MaxOr(S) == IF S = {} THEN None ELSE Max(S)

\* GetNextIFrame, forward with StayOffEnd and without it, and backward.
Behind(i, end) == LET j == Gop * (i \div Gop + 1) IN IF 0 <= j /\ j < end THEN j ELSE None
NextI(i) == Behind(i, Length - Limit)
NextToEnd(i) == Behind(i, Length)
PrevI(i) == IF i \in 1..Length THEN Gop * ((i - 1) \div Gop) ELSE None
IFrameFor(i) == IF i < 0 THEN 0 ELSE IF i \in IFrames /\ i < Length THEN i ELSE NextI(i)

GetNext(L, p) == MinOr({q \in L.at : p < q})
GetPrev(L, p) == MaxOr({q \in L.at : q < p})
AfterNext(L, p) == IF GetNext(L, p) = None THEN None ELSE GetNext(L, GetNext(L, p))

Place(L, p) == Cardinality({q \in L.at : q <= p})
At(L, k) == CHOOSE p \in L.at : Place(L, p) = k

Deleted(s, k) == [i \in 1..(Len(s) - 1) |-> IF i < k THEN s[i] ELSE s[i + 1]]

\* moveMark: onto another mark, the two become one.
Moved(L, p, new) ==
    [at |-> (L.at \ {p}) \cup {new},
     checked |-> IF new \in L.at \ {p} THEN Deleted(L.checked, Place(L, p))
                 ELSE Append(Deleted(L.checked, Place(L, p)), FALSE)]

\* The list after a cleanup: what is deleted in passing is never looked at.
Cleaned(L, M) ==
    [at |-> M, checked |-> [k \in 1..Cardinality(M) |->
                               L.checked[Place(L, At([at |-> M], k))]]]

-----------------------------------------------------------------------------
(* The searches around one mark: the frames they can move it to.           *)

IFramesAt(found) == {NextI(b - 1) : b \in found \ {0}} \ {None, 0}

\* A search in frames from on goes back to the next independent frame.
Span(from, end) == IF IFrameFor(from) = None THEN {} ELSE IFrameFor(from)..(end - 1)

\* checkBlacklineOnMark and checkBlacklineOffMark.
LinesBehind(p, time) ==
    IF p < time THEN {} ELSE IFramesAt(Span(p - time - 1, p)) \ {p}
LinesAhead(p, time) ==
    IF p + time > Length THEN {} ELSE IFramesAt(Span(p - 1, p + time)) \ {p}

\* Mutant of Limited: the search is not kept away from the neighbour.
LimitedNever(time, neighbour, p) == time

\* The range of a search, up to the neighbouring mark.
Limited(time, neighbour, p) ==
    LET gap == IF neighbour < p THEN p - neighbour ELSE neighbour - p
    IN  IF neighbour # None /\ gap < time
        THEN IF gap < Gap THEN 0 ELSE gap - Gap
        ELSE time

\* checkBlackFrameOnMark: the frames where it can find a black one.
BlackBehind(p) ==
    IF p < FrameBack \/ p >= Length THEN {} ELSE Span(p - FrameBack - 1, p) \ {0}

\* "don't walk over the next mark!"
AheadEnd(L, p) ==
    IF GetNext(L, p) = None THEN p + FrameForward
    ELSE Min({p + FrameForward, GetNext(L, p)})

BlackAhead(L, p) ==
    IF p + FrameForward > Length \/ p >= Length THEN {}
    ELSE Span(p - 1, AheadEnd(L, p)) \ {0}

\* The list after a black frame has been found at b.
ToBlack(L, p, b, end) ==
    LET new == NextI(b - 1) IN IF 0 < new /\ new < end THEN Moved(L, p, new) ELSE L

-----------------------------------------------------------------------------
(* checkMarkPair.                                                          *)

\* getPicInfo: the pictures from the first independent one on.
Pics(start, num) ==
    LET first == IF start \in IFrames /\ start < Length THEN start
                 ELSE IFrameFor(NextI(start))
    IN  [first |-> first, num |-> Max({0, Min({num, Length - first})})]

\* The frames before the first mark, from the previous one on.
StartBefore(L, p) == Max({0, p - (Before + Lead), GetPrev(L, p)})
NumBefore(L, p) ==
    LET next == GetNext(L, p) start == StartBefore(L, p)
    IN  IF next # None /\ start + Before > next THEN next - start - Skip ELSE Before
PicsBefore(L, p) ==
    IF p = None THEN [first |-> 0, num |-> 0] ELSE Pics(StartBefore(L, p), NumBefore(L, p))

\* The frames around the second mark, up to the one behind it.
PicsAfter(L, p) ==
    LET p2 == GetNext(L, p) p3 == GetNext(L, p2)
        stop == IF p = None THEN 0 ELSE StartBefore(L, p) + NumBefore(L, p)
        start == IF p2 - BeforeOn < stop THEN stop + Skip ELSE p2 - BeforeOn
        num == IF p3 # None /\ start + After > p3 - Rest THEN p3 - start - Rest ELSE After
    IN  IF p2 = None THEN [first |-> 0, num |-> 0] ELSE Pics(start, num)

\* doOverlapDetection: two rows of n similar pictures, at c before and behind i
\* after.  It compares up to PICS_READ_BEFORE pictures, however many there are.
Rows(b, a) ==
    {r \in [c : 0..(b - Similar - 1), i : 0..(a - b - 1), n : OverlapOk..Before] :
        r.c + r.n <= Before /\ (r.c = 0 => r.i >= BeforeOn)}

\* Where they end; it goes one on after it has found them.
Overlaps(b, a) == {<<r.c + r.n, r.i + 1 + r.n>> : r \in Rows(b, a)}

\* What checkMarkPair leaves: the list, the node of its first mark, whether its
\* second mark has been deleted and put in again.
Outcome(L, node, again, flt) ==
    [list |-> L, node |-> node, again |-> again, fault |-> flt]

Node(L, p) == IF p = None THEN Dummy ELSE Place(L, p)

\* The second move of doOverlapDetection; there may be no mark to move.
SecondMove(L, node, p2, new) ==
    IF new <= 0 \/ new = p2 THEN Outcome(L, node, FALSE, "none")
    ELSE IF p2 = None THEN Outcome(L, node, FALSE, "null")
    ELSE Outcome(Moved(L, p2, new), node, TRUE, "none")

\* Where doOverlapDetection wants the two marks.
OverlapEnds(before, after) ==
    {<<PrevI(before.first + o[1]), NextI(after.first + o[2])>> :
        o \in {q \in Overlaps(before.num, after.num) : q[1] < before.num /\ q[2] < after.num}}

FirstMove(L, p, new) == IF 0 < new /\ new # p THEN Moved(L, p, new) ELSE L

\* Mutant of Overlapped: the second mark is the one behind the old place's.
OverlappedLate(L, p, ends) ==
    {SecondMove(FirstMove(L, p, e[1]),
                Place(FirstMove(L, p, e[1]), IF 0 < e[1] THEN e[1] ELSE p),
                GetNext(FirstMove(L, p, e[1]), GetNext(L, p)), e[2]) : e \in ends}

Overlapped(L, p, ends) ==
    {SecondMove(FirstMove(L, p, e[1]),
                Place(FirstMove(L, p, e[1]), IF 0 < e[1] THEN e[1] ELSE p),
                GetNext(FirstMove(L, p, e[1]), IF 0 < e[1] THEN e[1] ELSE p), e[2])
     : e \in ends}

\* The frame number behind the last picture has not been written.  What it
\* does to the marks is not followed.
ReadsGarbage(L, b, a) ==
    {Outcome(L, Dummy, FALSE, "garbage") : o \in {q \in Overlaps(b, a) : q[1] >= b \/ q[2] >= a}}

\* checkBlacklineOnmark on the pictures around the second mark.
LinesAround(L, node, p2, pics) ==
    {Outcome(L, node, FALSE, "none")} \cup
    {IF p2 = None THEN Outcome(L, node, FALSE, "null")
     ELSE Outcome(Moved(L, p2, new), node, TRUE, "none")
     : new \in {NextI(pics.first + i) : i \in (2 + Into)..(pics.num - NotOk + Into)} \ {None}}

\* checkBlackFrameOnMarks on them: the nearest black frame before the mark.
BlackAround(L, node, p2, pics) ==
    LET index == IF p2 - pics.first \in 0..(pics.num - 1) THEN p2 - pics.first ELSE -1
        found == {pics.first + i : i \in Max({0, index - FrameBack})..(index - 1)} \ {0, 1}
    IN  {Outcome(L, node, FALSE, "none")} \cup
        {Outcome(Moved(L, p2, new), node, TRUE, "none") : new \in IFramesAt(found)}

\* What is done if no scene is repeated.
NotOverlapped(L, p, pics) ==
    LET p2 == GetNext(L, p)
        offs == IF p = None \/ p < OffBack THEN {} ELSE LinesBehind(p, OffBack)
        afterOff(new) ==
            LET L1 == Moved(L, p, new) p1 == GetPrev(L1, p)
            IN  LinesAround(L1, Node(L1, p1), GetNext(L1, p1), pics)
    IN  IF p2 = None THEN {Outcome(L, Node(L, p), FALSE, "none")}
        ELSE IF lines
        THEN LinesAround(L, Node(L, p), p2, pics) \cup UNION {afterOff(new) : new \in offs}
        ELSE BlackAround(L, Node(L, p), p2, pics)

CheckMarkPair(L, p) ==
    UNION {Overlapped(L, p, OverlapEnds(pics[1], pics[2])) \cup NotOverlapped(L, p, pics[2])
               \cup ReadsGarbage(L, pics[1].num, pics[2].num)
           : pics \in {<<PicsBefore(L, p), PicsAfter(L, p)>>}}

-----------------------------------------------------------------------------
(* MarkCleanup.                                                            *)

NoProbe == [index |-> 0, end |-> 0, none |-> 0, resets |-> 0, checked |-> 0]

Init ==
    /\ kind \in {"plain", "overlap", "online"}
    /\ was \in IF kind = "online" THEN {CleanInactive(S) : S \in Starts} ELSE Starts
    /\ list = [at |-> was, checked |-> [k \in 1..Cardinality(was) |-> FALSE]]
    /\ lines = FALSE /\ probe = NoProbe
    /\ m = None /\ fault = "none"
    /\ pc = IF kind = "online" THEN "online" ELSE "start"

\* What follows a step that has left m at this position.
GoOn(next) == /\ m' = next
              /\ pc' = IF next = None THEN "cleanup" ELSE kind'

\* The passes begin when it is known whether there are black lines.
Decided(found) ==
    /\ lines' = found /\ probe' = NoProbe
    /\ IF kind = "overlap" THEN UNCHANGED kind /\ m' = None /\ pc' = kind
       ELSE kind' = (IF found THEN "lines" ELSE "frames") /\ GoOn(GetNext(list', None))

\* detectBlacklines begins five minutes behind an on mark, but not the first one
\* of more than two marks, if enough follows up to the off mark.
ProbeStarts(L) ==
    {p \in L.at : /\ Place(L, p) % 2 = 1 /\ (Cardinality(L.at) > 2 => Place(L, p) > 2)
                  /\ NextI(p) + 5 * Minute + Room < GetNext(L, p)}

Start ==
    /\ pc = "start"
    /\ list' = Cleaned(list, CleanInactive(list.at)) /\ was' = list'.at
    /\ LET S == ProbeStarts(list')
       IN  IF S = {} THEN Decided(FALSE)
           ELSE /\ pc' = "probe" /\ UNCHANGED <<m, kind, lines>>
                /\ probe' = [NoProbe EXCEPT
                       !.index = IFrameFor(NextI(Min(S)) + 5 * Minute),
                       !.end = GetNext(list', Min(S))]
    /\ UNCHANGED fault

\* Mutant of Jump: from a frame a jump leads to the independent one before it.
JumpBack(i) == PrevI(i)

\* A minute on; behind the last independent frame that is -1, and the search
\* begins again at the start of the recording.
Jump(i) == IFrameFor(i + Minute)

\* One picture: it may have too few black lines, or too many or odd ones, or it
\* may not have been decoded.  A count of resets that has passed Many by two at
\* a time never leads to a jump.
Probe ==
    /\ pc = "probe" /\ UNCHANGED <<list, fault, was>>
    /\ IF probe.index > probe.end \/ probe.none > Enough THEN Decided(FALSE)
       ELSE \E few, odd, decoded \in BOOLEAN :
              LET resets == probe.resets + (IF few THEN 1 ELSE 0) + (IF odd THEN 1 ELSE 0)
                  checked == IF few \/ odd THEN 0
                             ELSE probe.checked + (IF decoded THEN 1 ELSE 0)
              IN  \/ checked > Enough /\ \E found \in BOOLEAN : Decided(found)
                  \/ /\ checked <= Enough /\ UNCHANGED <<m, kind, lines, pc>>
                     /\ probe' = [probe EXCEPT
                            !.index = IF resets = Many THEN Jump(@ + 1) ELSE @ + 1,
                            !.none = IF few THEN @ + 1 ELSE @,
                            !.resets = IF resets = Many THEN 0 ELSE Min({resets, Many + 1}),
                            !.checked = checked]

Keep == UNCHANGED <<kind, lines, probe, was>>

\* checkBlacklineOnMarks on an on mark, back and then forward.
OnBack ==
    /\ pc = "lines" /\ pc' = "forward" /\ Keep
    /\ \/ UNCHANGED <<list, m, fault>>
       \/ \E new \in LinesBehind(m, Limited(LineBack, GetPrev(list, m), m)) :
             /\ list' = Moved(list, m, new)
             /\ m' = GetPrev(list', m + 1)
             /\ fault' = IF m' = None THEN "null" ELSE fault

\* Mutant of OnForward: the on mark that has been moved is taken for its off mark.
OnForwardShort ==
    /\ pc = "forward" /\ Keep /\ UNCHANGED fault
    /\ \E new \in {m} \cup LinesAhead(m, Limited(LineForward, GetNext(list, m), m)) :
          /\ list' = IF new = m THEN list ELSE Moved(list, m, new)
          /\ m' = GetNext(list', m)
          /\ pc' = IF m' = None THEN "cleanup" ELSE "off"

OnForward ==
    /\ pc = "forward" /\ Keep /\ UNCHANGED fault
    /\ \E new \in {m} \cup LinesAhead(m, Limited(LineForward, GetNext(list, m), m)) :
          /\ list' = IF new = m THEN list ELSE Moved(list, m, new)
          /\ m' = GetNext(list', new)
          /\ pc' = IF m' = None THEN "cleanup" ELSE "off"

\* The off mark behind it.
Off ==
    /\ pc = "off" /\ Keep /\ UNCHANGED fault
    /\ \E new \in {m} \cup LinesBehind(m, OffBack) :
          list' = IF new = m THEN list ELSE Moved(list, m, new)
    /\ GoOn(GetNext(list', m + 1))

\* checkBlackFramesOnMarks: forward only if there was nothing behind; then it
\* goes on from the next mark, wherever the black frame was.
BlackFrame ==
    /\ pc = "frames" /\ Keep /\ UNCHANGED fault
    /\ \/ /\ UNCHANGED list
          /\ GoOn(AfterNext(list, m))
       \/ \E b \in BlackBehind(m) :
             /\ list' = ToBlack(list, m, b, m)
             /\ GoOn(AfterNext(list', m))
       \/ \E b \in BlackAhead(list, m) :
             /\ list' = ToBlack(list, m, b, AheadEnd(list, m))
             /\ LET on == GetNext(list', m)
                IN  GoOn(IF on = None THEN None ELSE AfterNext(list', on))

\* pass2a: first the mark that is not in the list, then every off mark with the
\* on mark behind it.
Pair ==
    /\ pc = "overlap" /\ Keep
    /\ \E o \in CheckMarkPair(list, m) :
          /\ list' = o.list /\ fault' = o.fault
          /\ IF o.fault # "none" THEN pc' = "lost" /\ UNCHANGED m
             ELSE GoOn(AfterNext(list', IF o.node = Dummy THEN None ELSE At(list', o.node)))

\* The cleanup after the passes; then, perhaps, pass3.
Cleanup ==
    /\ pc = "cleanup" /\ Keep /\ UNCHANGED fault
    /\ list' = Cleaned(list, IF kind = "overlap" THEN CleanInactive(list.at)
                             ELSE CleanInactive(CleanActive(list.at)))
    /\ \/ m' = None /\ pc' = "done"
       \/ m' = GetNext(list', None) /\ pc' = IF m' = None THEN "done" ELSE "sound"

\* checkMarkByAudio moves an on mark behind the last silence.
Sound ==
    /\ pc = "sound" /\ Keep /\ UNCHANGED fault
    /\ LET next == GetNext(list, m)
           end == IF next # None /\ m + SoundRange > next THEN next - SoundGap
                  ELSE m + SoundRange
       IN  \E new \in {m} \cup {NextToEnd(f + 1) : f \in m..Min({end, Length - 1})} :
              /\ new # None
              /\ list' = IF new = m THEN list ELSE Moved(list, m, new)
              /\ m' = AfterNext(list', new)
    /\ pc' = IF m' = None THEN "done" ELSE "sound"

-----------------------------------------------------------------------------
(* The end of a round of scanLoop.                                         *)

\* A mark is added behind the others or the last one is taken away again.
Toggle ==
    /\ pc = "online" /\ UNCHANGED <<m, kind, lines, probe, pc, was>> /\ fault' = "none"
    /\ \/ /\ Cardinality(list.at) < MaxMarks
          /\ \E p \in Places :
                /\ \A q \in list.at : q + MinMark <= p
                /\ list' = [at |-> list.at \cup {p}, checked |-> Append(list.checked, FALSE)]
       \/ /\ list.at # {}
          /\ list' = [at |-> list.at \ {Max(list.at)},
                      checked |-> Deleted(list.checked, Len(list.checked))]

\* The last mark is an on mark that has not been checked, and enough follows.
Due ==
    /\ pc = "online" /\ list.at # {}
    /\ Cardinality(list.at) % 2 = 1 /\ ~list.checked[Len(list.checked)]
    /\ Length - Max(list.at) > After

\* Without a mark before it the last mark is the second one of the pair, and its
\* flag is set even if the node has been deleted: in the new node, if that has
\* got the old address, or nowhere.
RefineFirst ==
    /\ Due /\ Cardinality(list.at) = 1
    /\ \E o \in CheckMarkPair(list, None) : \E set \in IF o.again THEN BOOLEAN ELSE {TRUE} :
          /\ list' = [o.list EXCEPT !.checked = <<set>>]
          /\ fault' = IF o.again THEN "freed" ELSE "refined"
    /\ UNCHANGED <<m, kind, lines, probe, pc, was>>

\* Mutant of RefineLast: only the first mark of the pair gets the flag.
RefineHalf ==
    /\ Due /\ Cardinality(list.at) > 1
    /\ \E o \in CheckMarkPair(list, GetPrev(list, Max(list.at))) :
          /\ list' = [o.list EXCEPT !.checked =
                        [k \in DOMAIN @ |-> @[k] \/ k = o.node]]
          /\ fault' = IF o.fault # "none" THEN o.fault
                      ELSE IF o.node = Len(o.list.checked) THEN "null" ELSE "refined"
    /\ pc' = IF fault' = "refined" THEN pc ELSE "lost"
    /\ UNCHANGED <<m, kind, lines, probe, was>>

\* Both flags are set; Next() of the first mark may be NULL.
RefineLast ==
    /\ Due /\ Cardinality(list.at) > 1
    /\ \E o \in CheckMarkPair(list, GetPrev(list, Max(list.at))) :
          /\ list' = [o.list EXCEPT !.checked =
                        [k \in DOMAIN @ |-> @[k] \/ k \in {o.node, o.node + 1}]]
          /\ fault' = IF o.fault # "none" THEN o.fault
                      ELSE IF o.node = Len(o.list.checked) THEN "null" ELSE "refined"
    /\ pc' = IF fault' = "refined" THEN pc ELSE "lost"
    /\ UNCHANGED <<m, kind, lines, probe, was>>

Offline == Start \/ Probe \/ OnBack \/ OnForward \/ Off \/ BlackFrame \/ Pair \/ Cleanup \/ Sound

Next == Offline \/ Toggle \/ RefineFirst \/ RefineLast

Spec == Init /\ [][Next]_vars
FairSpec == Spec /\ WF_vars(Offline)

(***************************************************************************)
(* Properties                                                              *)
(***************************************************************************)
\* Positions so far apart that no two searches together reach from one to the
\* next.
ReachBack == Max({LineBack, FrameBack, OffBack, Before + Lead, BeforeOn})
ReachForth == Max({LineForward, FrameForward, After - BeforeOn})
Reach == ReachBack + ReachForth + SoundRange + MinActiveMark + 4 * Gop
Wide(S) == \A p, q \in S : p < q => q - p > Reach

\* Every pointer that is followed leads to a mark of the list: but for frame
\* numbers that have not been read, and for the first mark of a recording
\* that goes on (noad.cpp, 2169-2185, 2436-2491, tnoad.cpp, 341-363).
PointersGood ==
    fault \in {"null", "freed"} => fault = "freed" /\ Cardinality(list.at) = 1

\* Marks that are far apart stay as many, in their order, and none comes near
\* the place of another; the passes look at on marks (noad.cpp, 649-666, 1247-1328).
WideKept ==
    kind # "online" /\ Wide(was) =>
        /\ Cardinality(list.at) = Cardinality(was)
        /\ \A k \in 1..Cardinality(was) : \A j \in 1..Cardinality(was) :
              k < j => At(list, k) < At([at |-> was], j)
        /\ pc \in {"lines", "forward", "sound"} => Place(list, m) % 2 = 1

NextMarkStep ==
    pc \in {"frames", "forward"} /\ list'.at # list.at =>
        \A q \in {r \in list.at : r > m} :
            /\ q \in list'.at /\ Place(list', q) <= Place(list, q)
            /\ \A p \in list'.at : p \notin list.at => p < q

\* "don't walk over the next mark! (0.4.2)": no search for black frames, and
\* none for lines behind the on mark, carries it past the next one, however
\* close that is (noad.cpp, 950-953, 1279-1295).
NextMarkKept == [][NextMarkStep]_vars

\* The search for black lines ends, whatever the pictures show, or it has left
\* the index behind its last independent frame and begins again with the frame
\* -1; it may do that for ever (noad.cpp, 1120-1175).
ProbeEnds == (pc = "probe") ~> (pc # "probe" \/ probe.index = -1)

\* When the last marks have been refined they are not due again, unless the
\* flag has gone to a freed mark (tnoad.cpp, 341-363).
RefinedOnce == fault = "refined" => ~Due

=============================================================================
