------------------------------ MODULE MarkNodes ------------------------------
(***************************************************************************)
(* The nodes of cMarks (cMark, src/vdr_cl.h) and what the operations of    *)
(* cListBase and cMarks do to a list of them (src/tools.cpp,               *)
(* src/vdr_cl.cpp).  A list is the sequence of its nodes from First() to   *)
(* Last().                                                                 *)
(***************************************************************************)
EXTENDS MarkTime, Sequences

CONSTANTS
    Pos,     \* the frame numbers that can carry a mark
    Addr,    \* the addresses malloc can return
    None,    \* no comment
    Rate     \* the frame rate of the recording

\* No mark lies in a second that begins in the middle of a frame: there is no
\* such second at the frame rates of television, 24, 25, 30, 50 or 60 and
\* their 1000/1001.
ASSUME MarkListAssumption ==
    /\ Pos \subseteq Nat /\ None \notin Pos
    /\ Rate \in FrameRate
    /\ \A p \in Pos : ~HalfFrame(Seconds(p, Rate), Rate)

\* The text of a comment is abstracted to the position it was written for.
Node == [addr : Addr, position : Pos, comment : Pos \cup {None},
         checked : BOOLEAN]
Line == [time : Time, comment : Pos \cup {None}]

Positions(s) == {s[i].position : i \in DOMAIN s}
Addrs(s) == {s[i].addr : i \in DOMAIN s}

StrictlySorted(s) ==
    \A i, j \in DOMAIN s : i < j => s[i].position < s[j].position

DistinctAddrs(s) == \A i, j \in DOMAIN s : s[i].addr = s[j].addr => i = j

CommentsStay(s) == \A i \in DOMAIN s : s[i].comment \in {None, s[i].position}

\* What cMark::Save writes for every mark, and what cMark::Parse reads.
Lines(s) == [i \in DOMAIN s |-> [time |-> IndexToHMSF(s[i].position, Rate),
                                comment |-> s[i].comment]]

Parsed(f) == [i \in DOMAIN f |-> [position |-> HMSFToIndex(f[i].time, Rate),
                                 comment |-> f[i].comment]]

-----------------------------------------------------------------------------
(* The list.                                                               *)

\* cListBase::Del of the k-th node.
Without(s, k) == [i \in 1..Len(s) - 1 |-> IF i < k THEN s[i] ELSE s[i + 1]]

\* Where a new position belongs in a sorted list.
Slot(s, p, k) ==
    /\ k \in 1..Len(s) + 1
    /\ \A i \in 1..Len(s) : IF i < k THEN s[i].position < p
                            ELSE p < s[i].position

\* A mutant of Shifted: Sort swaps the positions and forgets the comments.
CommentsLeft(s, k, p, a) ==
    [i \in 1..Len(s) + 1 |->
        [addr     |-> IF i <= Len(s) THEN s[i].addr ELSE a,
         checked  |-> IF i <= Len(s) THEN s[i].checked ELSE FALSE,
         position |-> IF i < k THEN s[i].position
                      ELSE IF i = k THEN p ELSE s[i - 1].position,
         comment  |-> IF i <= Len(s) THEN s[i].comment ELSE None]]

\* A mutant of Shifted: Add puts the new node in front, cListBase::Ins.
NodeInFront(s, k, p, a) ==
    [i \in 1..Len(s) + 1 |->
        [addr     |-> IF i = 1 THEN a ELSE s[i - 1].addr,
         checked  |-> IF i = 1 THEN FALSE ELSE s[i - 1].checked,
         position |-> IF i < k THEN s[i].position
                      ELSE IF i = k THEN p ELSE s[i - 1].position,
         comment  |-> IF i < k THEN s[i].comment
                      ELSE IF i = k THEN None ELSE s[i - 1].comment]]

\* cListBase::Add of a new node at address a, and cMarks::Sort: the new node
\* is the last one, but positions and comments from slot k on have moved up.
Shifted(s, k, p, a) ==
    [i \in 1..Len(s) + 1 |->
        [addr     |-> IF i <= Len(s) THEN s[i].addr ELSE a,
         checked  |-> IF i <= Len(s) THEN s[i].checked ELSE FALSE,
         position |-> IF i < k THEN s[i].position
                      ELSE IF i = k THEN p ELSE s[i - 1].position,
         comment  |-> IF i < k THEN s[i].comment
                      ELSE IF i = k THEN None ELSE s[i - 1].comment]]

\* A mutant of AddResults: no Sort after the Add.
Unsorted(s, p) ==
    IF p \in Positions(s) THEN {s}
    ELSE {Append(s, [addr |-> a, position |-> p, comment |-> None,
                     checked |-> FALSE]) : a \in Addr \ Addrs(s)}

\* cMarks::Add: nothing happens when the position is there already; malloc
\* chooses the address.
AddResults(s, p) ==
    IF p \in Positions(s) THEN {s}
    ELSE {Shifted(s, k, p, a) : k \in {j \in 1..Len(s) + 1 : Slot(s, p, j)},
                                a \in Addr \ Addrs(s)}

\* m = marks->Get(p); m->comment = strdup(...), when comments are wanted.
Commented(s, p) ==
    [i \in 1..Len(s) |->
        IF s[i].position = p THEN [s[i] EXCEPT !.comment = p] ELSE s[i]]
=============================================================================
