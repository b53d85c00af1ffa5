----------------------------- MODULE MCIndexFile -----------------------------
(* IndexFile for TLC.                                                       *)
EXTENDS IndexFile

\* Bound: one kind of frame for each number.
MCHeap == {g \in Garbage : g.iframe = (g.number = 1)}
=============================================================================
