------------------------------- MODULE MarkSet -------------------------------
(***************************************************************************)
(* What the list of marks promises to noad: it is a set of frame numbers.  *)
(* Toggling a position twice changes nothing, a mark can be moved onto     *)
(* another one and then the two are one, and whatever is saved is the set  *)
(* as it is at that moment.                                                *)
(***************************************************************************)
EXTENDS Integers

CONSTANT Pos            \* the frame numbers that can carry a mark

VARIABLES
    marks,   \* the positions in the list
    stored   \* the positions in marks.vdr

svars == <<marks, stored>>

Init == marks = {} /\ stored \subseteq Pos

Toggle(p) ==
    /\ marks' = IF p \in marks THEN marks \ {p} ELSE marks \cup {p}
    /\ stored' = marks'

MoveTo(old, new) ==
    /\ old \in marks
    /\ marks' = (marks \ {old}) \cup {new}
    /\ stored' = marks'

Insert(p) == marks' = marks \cup {p} /\ stored' = stored

\* A cleanup drops two neighbours.
DropPair(p, q) ==
    /\ p \in marks /\ q \in marks /\ p < q
    /\ ~\E r \in marks : p < r /\ r < q
    /\ marks' = marks \ {p, q}
    /\ stored' = stored

Forget == marks' = {} /\ stored' = stored

Store == marks' = marks /\ stored' = marks

Reload == marks' = stored /\ stored' = stored

Next ==
    \/ \E p \in Pos : Toggle(p) \/ Insert(p)
    \/ \E p, q \in Pos : MoveTo(p, q) \/ DropPair(p, q)
    \/ Forget \/ Store \/ Reload

Spec == Init /\ [][Next]_svars
=============================================================================
