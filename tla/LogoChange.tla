----------------------------- MODULE LogoChange -----------------------------
(***************************************************************************)
(* The search for the next change of the logo: findLogoChange and          *)
(* checkLogoState (src/noad.cpp) over the index of a recording             *)
(* (src/vdr_cl.cpp), with the judgement CCheckLogo makes of the pictures   *)
(* (src/cchecklogo.cpp).  One call is a sequence of steps, each the        *)
(* reading of one batch of pictures.  LogoScan and OnlineScan call it.     *)
(*                                                                         *)
(* The decoder is taken to deliver one picture for each frame number it is *)
(* asked for; the pixels of a picture are reduced to what checkTestlines   *)
(* makes of them.                                                          *)
(***************************************************************************)
EXTENDS Integers, FiniteSetsExt

CONSTANTS
    Length,       \* frames of the recording
    IFrames,      \* the frames of the index that are independent
    Recording,    \* the recordings, each as one logo divides it
    NewRecording, \* those of them that another logo may turn one into
    Shows,        \* what each frame of a recording shows, see Picture
    Threshold,    \* iTreshold
    CheckFrames,  \* FRAMESTOCHECK
    IgnoreFrames, \* pictures dropped after a jump
    SearchBreak,  \* CHANGE_SEARCH_BREAK
    SafetyLimit   \* INDEXSAFETYLIMIT

ASSUME LogoChangeAssumption ==
    /\ IFrames \subseteq Nat /\ 0 \in IFrames
    /\ Length \in Nat \ {0}
    /\ Shows \in [Recording -> [0..(Length - 1) -> {"logo", "none", "unknown"}]]
    /\ NewRecording \subseteq Recording
    /\ Threshold \in Nat /\ CheckFrames \in Nat \ {0} /\ IgnoreFrames \in Nat
    /\ SearchBreak \in Nat \ {0} /\ SafetyLimit \in Nat

VARIABLES
    recording,  \* the recording that is scanned, as the known logo divides it
    last,       \* the last entry of the index as it is in memory
    check,      \* isLogo, m_nLogo and m_nNoLogo of CCheckLogo
    cur,        \* iCurrentFrame
    lastIFrame, \* iLastIFrame
    call        \* arguments, locals and result of findLogoChange

lvars == <<recording, last, check, cur, lastIFrame, call>>

\* The logo is there, it is not, or the picture is too bright to tell.
Picture(f) == Shows[recording][f]

Bit(b) == IF b THEN 1 ELSE 0

(***************************************************************************)
(* The index.  A search forward stays off the end, -1 is no frame.         *)
(***************************************************************************)
Following ==
    [f \in -1..Length |->
        LET S == {i \in IFrames : f < i} IN IF S = {} THEN Length ELSE Min(S)]

Preceding ==
    [f \in -1..Length |->
        LET S == {i \in IFrames : i < f} IN IF S = {} THEN -1 ELSE Max(S)]

NextIFrame(f) ==
    IF f \in -1..last /\ Following[f] < last - SafetyLimit THEN Following[f] ELSE -1

PrevIFrame(f) == IF f \in -1..last THEN Preceding[f] ELSE -1

\* The last I-frame of the frames up to f.
IFrameAt(f) == Preceding[f + 1]

IFrameFor(f) == IF f \in IFrames THEN f ELSE NextIFrame(f)

(***************************************************************************)
(* The judgement of a picture: more than Threshold pictures of one kind    *)
(* since the last change decide, they need not follow one another.  The    *)
(* counters are compared with the threshold only, so they stop above it.   *)
(***************************************************************************)
Judged(c, p) ==
    LET seen   == Min({c.seen + 1, Threshold + 1})
        missed == Min({c.missed + 1, Threshold + 1})
    IN  CASE p = "unknown" -> c
          [] p = "logo" /\ seen <= Threshold -> [c EXCEPT !.seen = seen]
          [] p = "logo" /\ seen > Threshold ->
                [isLogo |-> TRUE, seen |-> seen, missed |-> 0]
          [] p = "none" /\ missed <= Threshold -> [c EXCEPT !.missed = missed]
          [] p = "none" /\ missed > Threshold ->
                [isLogo |-> FALSE, seen |-> 0, missed |-> missed]

Check == [isLogo : BOOLEAN, seen : 0..(Threshold + 1), missed : 0..(Threshold + 1)]

\* The judgement after the pictures from..to-1.
Watched(before, from, to) ==
    LET watch[w \in [check : Check, at : Nat]] ==
            IF w.at >= to THEN w.check
            ELSE watch[[check |-> Judged(w.check, Picture(w.at)), at |-> w.at + 1]]
    IN  watch[[check |-> before, at |-> from]]

\* detectLogo ends with a picture that shows the logo (checkLogo).
Detected == [isLogo : {TRUE}, seen : {Threshold + 1}, missed : 0..Threshold]

-----------------------------------------------------------------------------
(***************************************************************************)
(* findLogoChange(s, from, skip, stable).                                  *)
(***************************************************************************)
FindLogoChange(s, from, skip, stable) ==
    /\ cur' = IFrameFor(from)
    /\ lastIFrame' = cur'
    /\ call' = [running |-> TRUE, state |-> s, skip |-> skip, stable |-> stable,
                end |-> IF s = 0 THEN cur' + SearchBreak ELSE last,
                ignore |-> IgnoreFrames, result |-> s]

Idle == [running |-> FALSE, state |-> 0, skip |-> 1, stable |-> 0, end |-> 0,
         ignore |-> 0, result |-> 0]

Return(r) == call' = [call EXCEPT !.running = FALSE, !.result = r]

InRange == 0 <= cur /\ cur < last /\ cur < call.end

\* The batch: its end, the judgement after it, the last I-frame in it.
To == Min({cur + call.ignore + CheckFrames, last})
Seen == Watched(check, cur + call.ignore, To)
Passed == IF IFrameAt(To - 1) >= cur THEN IFrameAt(To - 1) ELSE lastIFrame

Changed == call.state # Bit(Seen.isLogo)

\* The end of a round of the search, at frame f: on with the next batch, or
\* a jump, unless the recording ends before the next one.
GoOn(f) ==
    \/ /\ f + call.skip >= last
       /\ Return(call.state) /\ cur' = f /\ lastIFrame' = Passed
    \/ /\ f + call.skip < last /\ call.skip > 1
       /\ cur' = NextIFrame(f + call.skip) /\ lastIFrame' = cur'
       /\ call' = [call EXCEPT !.ignore = IgnoreFrames]
    \/ /\ f + call.skip < last /\ call.skip <= 1
       /\ cur' = f /\ lastIFrame' = Passed
       /\ call' = [call EXCEPT !.ignore = 0]

NoChange ==
    /\ call.running /\ InRange /\ ~Changed
    /\ check' = Seen
    /\ GoOn(To)
    /\ UNCHANGED <<recording, last>>

ChangeFound ==
    /\ call.running /\ InRange /\ Changed /\ call.stable = 0
    /\ check' = Seen /\ cur' = To /\ lastIFrame' = Passed
    /\ Return(Bit(Seen.isLogo))
    /\ UNCHANGED <<recording, last>>

(***************************************************************************)
(* checkLogoState looks at up to call.stable pictures behind the batch and *)
(* gives up at the first one that turns the judgement.                     *)
(***************************************************************************)
Ahead == NextIFrame(To)
AheadEnd == Min({Ahead + call.stable, last})

\* The frames that turn the judgement, the first one is what counts.
Relapses ==
    {f \in (IF Ahead = -1 THEN {} ELSE Ahead..(AheadEnd - 1)) :
        Judged(Watched(Seen, Ahead, f), Picture(f)).isLogo # Seen.isLogo}

StableChange ==
    /\ call.running /\ InRange /\ Changed /\ call.stable > 0 /\ Relapses = {}
    /\ check' = IF Ahead = -1 THEN Seen ELSE Watched(Seen, Ahead, AheadEnd)
    /\ cur' = To /\ lastIFrame' = Passed
    /\ Return(Bit(Seen.isLogo))
    /\ UNCHANGED <<recording, last>>

UnstableChange ==
    /\ call.running /\ InRange /\ Changed /\ call.stable > 0
    /\ \E f \in Relapses :
          /\ \A g \in Relapses : f <= g
          /\ check' = Watched(Seen, Ahead, f + 1)
          /\ GoOn(IFrameAt(f) - call.skip)
    /\ UNCHANGED <<recording, last>>

\* The loop ends: no logo for a long time, or no frame to go on with.
GiveUp ==
    /\ call.running /\ ~InRange
    /\ Return(IF cur >= call.end THEN -2 ELSE -1)
    /\ UNCHANGED <<recording, last, check, cur, lastIFrame>>

SearchStep ==
    NoChange \/ ChangeFound \/ StableChange \/ UnstableChange \/ GiveUp
=============================================================================
