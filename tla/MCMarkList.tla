------------------------------ MODULE MCMarkList -----------------------------
(* Instances of MarkList for TLC.                                           *)
EXTENDS MarkList, TLC

\* The callers never compare addresses of different marks.
Symmetry == Permutations(Addr)

\* Frames on both sides of the seconds 16 and 17 of a recording at 29.97 frames
\* per second, which begin 0.52 and 0.49 frames after a frame does.
NTSC == [num |-> 30000, den |-> 1001]
MCPos == {479, 480, 509, 510}
=============================================================================
