---------------------------- MODULE MCAc3Search ----------------------------
(* Small recordings for Ac3Search.                                          *)
EXTENDS Ac3Search

CONSTANTS
    Places,      \* where the sound can change
    MaxChanges,  \* bound: how often it does
    Silences,    \* frames without sound
    Breaks       \* frames whose data end early

MCRecordings ==
    { r \in [changes : SUBSET Places, first : BOOLEAN, silent : Silences, cut : Breaks,
             left : 1..2] :
        /\ Cardinality(r.changes) <= MaxChanges
        /\ r.cut = {} => r.left = 1 }

MCSounds ==
    [r \in MCRecordings |->
        [f \in 0..Max(Lengths) |->
            IF f \in r.silent THEN "none"
            ELSE IF (Cardinality({c \in r.changes : c <= f}) % 2 = 0) = r.first THEN "surround"
            ELSE "stereo"]]
=============================================================================
