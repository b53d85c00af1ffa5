---------------------------- MODULE MCOnlineScan ----------------------------
(* Small recordings for OnlineScan.                                         *)
EXTENDS OnlineScan

CONSTANTS
    Cuts,     \* where a run of pictures of one kind may begin
    MaxCuts,  \* bound: cuts of a recording
    Flickers, \* sets of more cuts, recordings with a logo that flickers
    Gop,      \* frames from one I-frame to the next
    Holes     \* where an I-frame is missing

\* Runs with and without a logo take turns, in run number u one cannot tell.
Kind(r, start, u) ==
    IF r = u THEN "unknown" ELSE IF (r % 2 = 0) = start THEN "logo" ELSE "none"

MCRecording ==
    { r \in [cuts : {C \in SUBSET Cuts : Cardinality(C) <= MaxCuts} \cup Flickers,
             first : BOOLEAN, doubt : -1..MaxCuts] : r.doubt <= Cardinality(r.cuts) }

MCShows ==
    [r \in MCRecording |->
        [f \in 0..(Length - 1) |->
            Kind(Cardinality({c \in r.cuts : c <= f}), r.first, r.doubt)]]

MCIFrames == {f \in 0..(Length - 1) : f % Gop = 0} \ Holes
=============================================================================
