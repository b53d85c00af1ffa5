------------------------------ MODULE MCMarkSort -----------------------------
(* An instance of MarkSort for TLC.                                         *)
EXTENDS MarkSort

PAL == [num |-> 25, den |-> 1]
=============================================================================
