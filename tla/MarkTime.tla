------------------------------- MODULE MarkTime ------------------------------
(***************************************************************************)
(* The text of a mark in marks.vdr, h:mm:ss.ff, and the frame number that  *)
(* is read back from it (IndexToHMSF, HMSFToIndex, src/vdr_cl.cpp).        *)
(*                                                                         *)
(* A frame rate r is a fraction [num, den].  The double arithmetic of the  *)
(* code is taken as exact: no quotient comes nearer to a rounding boundary *)
(* than 1/(2 * den) without being on it.                                   *)
(***************************************************************************)
EXTENDS Integers

FrameRate == [num : Nat \ {0}, den : Nat \ {0}]

Time == [h : Nat, m : 0..59, s : 0..59, f : Nat]

\* modf((Index + 0.5) / FramesPerSecond, &Seconds)
Seconds(i, r) == ((2 * i + 1) * r.den) \div (2 * r.num)

\* int(<the rest> * FramesPerSecond)
Frame(i, r, s) == ((2 * i + 1) * r.den - 2 * (s * r.num)) \div (2 * r.den)

IndexToHMSF(i, r) ==
    LET s == Seconds(i, r)
    IN  [h |-> s \div 3600, m |-> (s \div 60) % 60, s |-> s % 60,
         f |-> Frame(i, r, s)]

\* round(seconds * FramesPerSecond), of something not negative
Rounded(s, r) == (2 * (s * r.num) + r.den) \div (2 * r.den)

HMSFToIndex(t, r) == Rounded(t.h * 3600 + t.m * 60 + t.s, r) + t.f

\* The second s begins in the middle of a frame.
HalfFrame(s, r) == (2 * (s * r.num) + r.den) % (2 * r.den) = 0
=============================================================================
