----------------------------- MODULE MarkCleanup -----------------------------
(***************************************************************************)
(* The deletion of pairs of marks that follow one another too closely,     *)
(* cleanInactiveMarks and cleanActiveMarks (src/noad.cpp), over the set of *)
(* positions in the list.  Both start from the first mark again after each *)
(* deletion.                                                               *)
(***************************************************************************)
EXTENDS Integers, FiniteSetsExt

CONSTANTS
    MinMark,       \* MINMARKDURATION
    MinActiveMark  \* ACTIVEMINMARKDURATION

ASSUME MarkCleanupAssumption == MinMark \in Nat /\ MinActiveMark \in Nat

\* The number of marks before p: the even ones start a part to show.
Index(M, p) == Cardinality({m \in M : m < p})

NextMark(M, p) == Min({m \in M : p < m})

\* The pairs of neighbours closer than d whose first mark has an index that
\* is even (k = 0), odd (k = 1) or any (k = 2).
Close(M, d, k) ==
    {p \in M : /\ p # Max(M) /\ NextMark(M, p) - p < d
               /\ k # 2 => Index(M, p) % 2 = k}

\* Mutant of DropFirst: only the first mark of the pair is deleted.
DropOne(M, C) == M \ {Min(C)}

DropFirst(M, C) == LET p == Min(C) IN M \ {p, NextMark(M, p)}

\* Mutant of CleanInactive: only the parts to show are looked at.
CleanShown(M) ==
    LET clean[S \in SUBSET M] ==
            IF Close(S, MinMark, 0) = {} THEN S
            ELSE clean[DropFirst(S, Close(S, MinMark, 0))]
    IN  clean[M]

CleanInactive(M) ==
    LET clean[S \in SUBSET M] ==
            IF Close(S, MinMark, 2) = {} THEN S
            ELSE clean[DropFirst(S, Close(S, MinMark, 2))]
    IN  clean[M]

\* Only until its first deletion the loop looks at the parts to show; then
\* mprev is one mark further and it looks at the parts between them.
CleanActive(M) ==
    LET clean[S \in SUBSET M] ==
            IF Close(S, MinActiveMark, 1) = {} THEN S
            ELSE clean[DropFirst(S, Close(S, MinActiveMark, 1))]
    IN  IF Close(M, MinActiveMark, 0) = {} THEN M
        ELSE clean[DropFirst(M, Close(M, MinActiveMark, 0))]
=============================================================================
