----------------------------- MODULE MCMarksFile -----------------------------
(* Instances of MarksFile for TLC.                                          *)
EXTENDS MarksFile, TLC

\* No action tells one process from another.
Symmetry == Permutations(Writer)
=============================================================================
