----------------------------- MODULE MCLogoScan -----------------------------
(* Small recordings for LogoScan.                                           *)
EXTENDS LogoScan

CONSTANTS
    Cuts,     \* where a run of pictures of one kind may begin
    MaxCuts   \* bound: cuts of a recording

\* Runs with and without a logo take turns, in run number u one cannot tell.
Kind(r, start, u) ==
    IF r = u THEN "unknown" ELSE IF (r % 2 = 0) = start THEN "logo" ELSE "none"

MCRecording ==
    { r \in [cuts : SUBSET Cuts, first : BOOLEAN, doubt : -1..MaxCuts] :
        Cardinality(r.cuts) <= MaxCuts /\ r.doubt <= Cardinality(r.cuts) }

MCNewRecording == {r \in MCRecording : Cardinality(r.cuts) = 1}

MCShows ==
    [r \in MCRecording |->
        [f \in 0..(Length - 1) |->
            Kind(Cardinality({c \in r.cuts : c <= f}), r.first, r.doubt)]]

MCIFrames == {f \in 0..(Length - 1) : f % 2 = 0}
=============================================================================
