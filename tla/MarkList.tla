------------------------------- MODULE MarkList ------------------------------
(***************************************************************************)
(* cMarks, the list in which noad keeps the marks of a recording, and the  *)
(* operations that noad.cpp performs on it: MarkToggle, moveMark, the      *)
(* deletion of pairs by the cleanups, the mark on the last I-frame, Load,  *)
(* ClearList, Save (src/vdr_cl.cpp, src/tools.cpp, src/noad.cpp).          *)
(*                                                                         *)
(* A mark is a node of a linked list; the callers hold pointers to nodes.  *)
(* Add appends a node and then runs an exchange sort that swaps the        *)
(* position and the comment of two nodes but neither the nodes themselves  *)
(* nor their flag `checked`.  So after an Add a node may stand for another *)
(* mark, and this module keeps the identity (address) of every node.       *)
(* MarkSort shows that the exchange sort does to a sorted list with one    *)
(* node appended what Shifted says here.                                   *)
(***************************************************************************)
EXTENDS MarkNodes

CONSTANT MaxLines       \* bound: lines marks.vdr has at first

ASSUME MaxLinesAssumption == MaxLines \in Nat

VARIABLES
    list,    \* the nodes from First() to Last()
    file,    \* the lines of marks.vdr
    last     \* history: the positions the last step took out and put in

vars == <<list, file, last>>

-----------------------------------------------------------------------------
(* The operations.                                                         *)

Init ==
    /\ list = <<>>
    /\ \E n \in 0..MaxLines :
         \E f \in [1..n -> [position : Pos, comment : Pos \cup {None}]] :
             StrictlySorted(f) /\ CommentsStay(f) /\ file = Lines(f)
    /\ last = [out |-> {}, in |-> {}]

\* A mutant of ToggleOff: the list is saved only when a mark was added.
ToggleOffUnsaved(p) ==
    /\ \E k \in 1..Len(list) :
         list[k].position = p /\ list' = Without(list, k)
    /\ file' = file
    /\ last' = [out |-> {p}, in |-> {}]

\* MarkToggle finds a mark at p and deletes it.
ToggleOff(p) ==
    /\ \E k \in 1..Len(list) :
         list[k].position = p /\ list' = Without(list, k)
    /\ file' = Lines(list')
    /\ last' = [out |-> {p}, in |-> {}]

\* MarkToggle adds a mark at p, with or without a comment.
ToggleOn(p) ==
    /\ p \notin Positions(list)
    /\ \E t \in AddResults(list, p) : list' \in {t, Commented(t, p)}
    /\ file' = Lines(list')
    /\ last' = [out |-> {}, in |-> {p}]

\* moveMark: Del, Add, the comment "moved from ...", Save.  The address of the
\* deleted node is free for the new one; a mark at p already there stays.
MoveMark(k, p) ==
    /\ \E t \in AddResults(Without(list, k), p) :
         list' \in {t, Commented(t, p)}
    /\ file' = Lines(list')
    /\ last' = [out |-> {list[k].position}, in |-> {p}]

\* A cleanup deletes two neighbours; it saves later.
DeletePair(k) ==
    /\ k + 1 <= Len(list)
    /\ list' = Without(Without(list, k + 1), k)
    /\ file' = file
    /\ last' = [out |-> {list[k].position, list[k + 1].position}, in |-> {}]

\* scanRecord adds a mark on the last I-frame when their number is odd.
AddLastIFrame(p) ==
    /\ Len(list) % 2 = 1
    /\ \E t \in AddResults(list, p) : list' \in {t, Commented(t, p)}
    /\ file' = file
    /\ last' = [out |-> {}, in |-> {p}]

\* The overlap check of the online scan.
SetChecked(k) ==
    /\ list' = [list EXCEPT ![k].checked = TRUE]
    /\ file' = file
    /\ last' = [out |-> {}, in |-> {}]

ClearList ==
    /\ list' = <<>>
    /\ file' = file
    /\ last' = [out |-> Positions(list), in |-> {}]

Save ==
    /\ list' = list
    /\ file' = Lines(list)
    /\ last' = [out |-> {}, in |-> {}]

\* cConfig::Load clears the list and adds a new node for every line.
Load ==
    /\ \E adr \in [1..Len(file) -> Addr] :
         /\ \A i, j \in 1..Len(file) : adr[i] = adr[j] => i = j
         /\ list' = [i \in 1..Len(file) |->
                        [addr |-> adr[i], checked |-> FALSE,
                         position |-> Parsed(file)[i].position,
                         comment |-> Parsed(file)[i].comment]]
    /\ file' = file
    /\ last' = [out |-> Positions(list), in |-> Positions(Parsed(file))]

Next ==
    \/ \E p \in Pos : ToggleOff(p) \/ ToggleOn(p) \/ AddLastIFrame(p)
    \/ \E k \in 1..Len(list) :
         \/ DeletePair(k) \/ SetChecked(k)
         \/ \E p \in Pos : MoveMark(k, p)
    \/ ClearList \/ Save \/ Load

Spec == Init /\ [][Next]_vars

-----------------------------------------------------------------------------
(* Properties.                                                             *)

\* The variables have their types, and no node is in the list twice: the chain
\* of pointers from First() to Last() never runs in a circle.
TypeOK ==
    /\ list \in Seq(Node) /\ DistinctAddrs(list)
    /\ file \in Seq(Line)
    /\ last \in [out : SUBSET Pos, in : SUBSET Pos]

\* First() to Last() the positions grow, and no position occurs twice, in the
\* list and in marks.vdr: GetNext and GetPrev rely on it, and so does whoever
\* reads the marks as pairs.
SortedInv == StrictlySorted(list) /\ StrictlySorted(Parsed(file))

\* A comment stays with the position it was written for although Add moves
\* positions from node to node, and it comes back from marks.vdr with it.
CommentInv == CommentsStay(list) /\ CommentsStay(Parsed(file))

\* What a pointer into the list s denotes in the list t, when the positions
\* out were taken from s and the positions in put into it.
Drift(s, t, out, in) ==
    \A i \in DOMAIN s, j \in DOMAIN t :
        s[i].addr = t[j].addr /\ s[i].position \notin out =>
            \/ t[j].position = s[i].position
            \/ /\ t[j].position < s[i].position
               /\ \E p \in in : p <= t[j].position

\* A pointer to a mark the step does not delete goes on denoting this mark,
\* unless the step inserts a position in front of it; then it denotes an
\* earlier mark, never a later one, and none before the inserted position.
PointerDrift == [][Drift(list, list', last'.out, last'.in)]_vars

\* The list implements the set of marks: no operation loses or invents a mark
\* but the one it is called for, and Save writes the whole set.
Abstract == INSTANCE MarkSet
                WITH marks <- Positions(list), stored <- Positions(Parsed(file))
ImplementsMarkSet == Abstract!Spec

=============================================================================
