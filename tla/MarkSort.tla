------------------------------- MODULE MarkSort ------------------------------
(***************************************************************************)
(* cMarks::Sort (src/vdr_cl.cpp), the exchange sort that runs after every  *)
(* Add and every Load, one comparison per step.  m1 and m2 walk over the   *)
(* nodes; positions and comments change places, the nodes do not.          *)
(***************************************************************************)
EXTENDS MarkNodes, FiniteSets

CONSTANT MaxLen         \* bound: nodes in the list

ASSUME MaxLenAssumption ==
    /\ MaxLen \in Nat
    /\ \E a \in [1..MaxLen -> Addr] :
           \A i, j \in 1..MaxLen : a[i] = a[j] => i = j

VARIABLES
    given,  \* the list Sort was called with
    nodes,  \* the list as it is
    m1, m2  \* the two loop variables, as indices; 0 is NULL

sortVars == <<given, nodes, m1, m2>>

\* The sort compares positions, never addresses: one choice of them will do.
Address == CHOOSE a \in [1..MaxLen -> Addr] :
               \A i, j \in 1..MaxLen : a[i] = a[j] => i = j

NextOf(k) == IF k < Len(nodes) THEN k + 1 ELSE 0   \* Next(m)

SortInit ==
    /\ \E n \in 0..MaxLen : \E pos \in [1..n -> Pos], chk \in [1..n -> BOOLEAN] :
         given = [i \in 1..n |-> [addr |-> Address[i], position |-> pos[i],
                                 comment |-> pos[i], checked |-> chk[i]]]
    /\ nodes = given
    /\ m1 = (IF nodes = <<>> THEN 0 ELSE 1)
    /\ m2 = (IF Len(nodes) > 1 THEN 2 ELSE 0)

\* A mutant of Compare: the comments do not change places.
ComparePositions ==
    /\ m1 # 0 /\ m2 # 0
    /\ nodes' = IF nodes[m2].position < nodes[m1].position
                THEN [nodes EXCEPT ![m1].position = nodes[m2].position,
                                   ![m2].position = nodes[m1].position]
                ELSE nodes
    /\ m2' = NextOf(m2)
    /\ UNCHANGED <<given, m1>>

\* The body of the inner loop.
Compare ==
    /\ m1 # 0 /\ m2 # 0
    /\ nodes' = IF nodes[m2].position < nodes[m1].position
                THEN [nodes EXCEPT ![m1].position = nodes[m2].position,
                                   ![m1].comment = nodes[m2].comment,
                                   ![m2].position = nodes[m1].position,
                                   ![m2].comment = nodes[m1].comment]
                ELSE nodes
    /\ m2' = NextOf(m2)
    /\ UNCHANGED <<given, m1>>

\* A mutant of Advance: one pass only.
OnePass ==
    /\ m1 # 0 /\ m2 = 0
    /\ m1' = 0 /\ m2' = 0
    /\ UNCHANGED <<given, nodes>>

\* The outer loop.
Advance ==
    /\ m1 # 0 /\ m2 = 0
    /\ m1' = NextOf(m1)
    /\ m2' = IF m1' = 0 THEN 0 ELSE NextOf(m1')
    /\ UNCHANGED <<given, nodes>>

SortNext == Compare \/ Advance

SortSpec == SortInit /\ [][SortNext]_sortVars

\* One thread runs the loop.
FairSortSpec == SortSpec /\ WF_sortVars(SortNext)

-----------------------------------------------------------------------------
(* Properties.                                                             *)

Sorted == m1 = 0

Occurrences(s, p) == {i \in DOMAIN s : s[i].position = p}

\* Along the list the positions grow, each occurs as often as it did, and each
\* still has the comment it came with: Sort moves both, but only together.
InOrder ==
    /\ \A i, j \in DOMAIN nodes :
          i < j => nodes[i].position <= nodes[j].position
    /\ CommentsStay(nodes)
    /\ \A p \in Pos : Cardinality(Occurrences(nodes, p))
                      = Cardinality(Occurrences(given, p))

\* The sort comes to its end, and then the list is in order (vdr_cl.cpp, 941-954).
SortedResult == <>(Sorted /\ InOrder)

\* On a sorted list with one new node at the end, which is what Add makes,
\* the sort does what Shifted says.
AddIsShift ==
    LET n == Len(given)
        old == SubSeq(given, 1, n - 1)
        new == given[n]
    IN  Sorted /\ n > 0 /\ StrictlySorted(old)
          /\ new.position \notin Positions(old) /\ ~new.checked
        => \E k \in 1..n :
              /\ Slot(old, new.position, k)
              /\ nodes = [Shifted(old, k, new.position, new.addr)
                            EXCEPT ![k].comment = new.comment]
=============================================================================
