----------------------------- MODULE MCMarkRefine -----------------------------
(* MarkRefine for TLC: lists with marks far apart, close together, at both    *)
(* ends of the index, and none.                                               *)
EXTENDS MarkRefine

MCStarts == {{}, {3}, {9, 15, 18}, {21, 27}, {0, 9, 18, 48}, {9, 15, 21, 36}, {3, 12, 24, 36},
             {60, 72, 87}, {9, 15, 42, 81}, {3, 45, 87}, {39, 81}, {42, 87}}
MCPlaces == {9, 15, 27, 39, 75}
=============================================================================
