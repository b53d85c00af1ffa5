---------------------------- MODULE MCLogoSearch ----------------------------
(* LogoSearch for TLC: two corners, two sizes of the picture, a short and  *)
(* a long recording.                                                       *)
EXTENDS LogoSearch

MCCornerSeq == <<0, 1>>
MCPartStarts == <<0, 3>>
MCLengths == {6, 15}

=============================================================================
