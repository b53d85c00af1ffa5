------------------------------- MODULE MCSvdrp -------------------------------
(* Svdrp for TLC: the two messages of one scan.                             *)
EXTENDS Svdrp
=============================================================================
