------------------------------ MODULE LogoScan ------------------------------
(***************************************************************************)
(* scanRecord (src/noad.cpp) from the moment a logo is known to the mark   *)
(* on the last I-frame: a coarse search for the next change of the logo, a *)
(* fine one from a little before it, a mark where the fine one ends.  The  *)
(* passes that refine the marks come after it.                             *)
(***************************************************************************)
EXTENDS LogoChange

CONSTANTS
    BigStep,      \* BIGSTEP, the jump of the coarse search
    StableTime    \* LOGOSTABLETIME, how long a new logo has to stay

ASSUME LogoScanAssumption == BigStep \in Nat \ {0, 1} /\ StableTime \in Nat \ {0}

VARIABLES
    at,           \* where scanRecord is: "scan", "coarse", "fine" or "done"
    state,        \* iState: is there a logo?  -2: none for a long time
    oldState,     \* iOldState
    startFrame,   \* iLastStartFrame
    stopFrame,    \* iStopFrame, the scan never returns before it
    restartFrame, \* iRestartFrame, where a new logo has been looked for
    marks         \* the positions in the list of marks, see MarkSet

svars == <<at, state, oldState, startFrame, stopFrame, restartFrame, marks>>
vars == <<svars, lvars>>

\* pmarks->ClearList() after a successful detectLogo.
Init ==
    /\ recording \in Recording
    /\ last = Length - 1
    /\ check \in Detected
    /\ cur = 0 /\ lastIFrame = 0 /\ call = Idle
    /\ at = "scan" /\ state = 0 /\ oldState = -1
    /\ startFrame = 0 /\ stopFrame = 0 /\ restartFrame = 0
    /\ marks = {}

Scanning == cur < last /\ 0 <= cur /\ state # -1

Coarse ==
    /\ at = "scan" /\ Scanning
    /\ oldState' = state /\ startFrame' = cur
    /\ FindLogoChange(state, cur, BigStep, 0)
    /\ at' = "coarse"
    /\ UNCHANGED <<recording, last, check, state, stopFrame, restartFrame, marks>>

Search ==
    /\ at \in {"coarse", "fine"}
    /\ SearchStep
    /\ UNCHANGED svars

\* Mutant of StepOn: the scan may go back before what it has settled.
StepOver(f) == cur' = f + 1 /\ stopFrame' = stopFrame /\ at' = "scan"

\* iStopFrame = iCurrentFrame = iCurrentFrame+1
StepOn(f) == cur' = f + 1 /\ stopFrame' = f + 1 /\ at' = "scan"

Returned(where) == at = where /\ ~call.running

(***************************************************************************)
(* After the coarse search.                                                *)
(***************************************************************************)
NothingFound ==
    /\ Returned("coarse") /\ call.result \in {oldState, -1} \ {-2}
    /\ state' = call.result
    /\ StepOn(cur)
    /\ UNCHANGED <<recording, last, check, lastIFrame, call,
                   oldState, startFrame, restartFrame, marks>>

\* A new logo has been looked for here, do not do it again.
SkipAhead ==
    /\ Returned("coarse") /\ call.result = -2 /\ restartFrame = startFrame
    /\ state' = oldState
    /\ StepOn(startFrame + SearchBreak)
    /\ UNCHANGED <<recording, last, check, lastIFrame, call,
                   oldState, startFrame, restartFrame, marks>>

\* Mutant of NewLogo: it is looked for at the same place again and again.
NewLogoAgain ==
    /\ Returned("coarse") /\ call.result = -2
    /\ recording' \in NewRecording
    /\ check' \in {[c EXCEPT !.isLogo = FALSE] : c \in Detected}
    /\ state' = 0 /\ cur' = startFrame /\ restartFrame' = startFrame
    /\ at' = "scan"
    /\ UNCHANGED <<last, lastIFrame, call, oldState, startFrame, stopFrame, marks>>

\* detectLogo finds another logo: the pictures are judged by it from now on.
NewLogo ==
    /\ Returned("coarse") /\ call.result = -2 /\ restartFrame # startFrame
    /\ recording' \in NewRecording
    /\ check' \in {[c EXCEPT !.isLogo = FALSE] : c \in Detected}
    /\ state' = 0 /\ cur' = startFrame /\ restartFrame' = startFrame
    /\ at' = "scan"
    /\ UNCHANGED <<last, lastIFrame, call, oldState, startFrame, stopFrame, marks>>

NoNewLogo ==
    /\ Returned("coarse") /\ call.result = -2 /\ restartFrame # startFrame
    /\ state' = -1
    /\ StepOn(cur)
    /\ UNCHANGED <<recording, last, check, lastIFrame, call,
                   oldState, startFrame, restartFrame, marks>>

\* Mutant of FineStart: the fine search begins where the coarse one ended.
FineFromHere == cur

\* Back by two jumps, but not before stopFrame.
FineStart ==
    LET back == cur - 2 * BigStep
    IN  Max({stopFrame, IF back < stopFrame THEN back + BigStep \div 2 ELSE back})

Fine ==
    /\ Returned("coarse") /\ call.result \in {0, 1} \ {oldState}
    /\ state' = call.result
    /\ FindLogoChange(oldState, FineStart, 1,
                      IF call.result = 1 THEN StableTime ELSE 0)
    /\ at' = "fine"
    /\ UNCHANGED <<recording, last, check, oldState, startFrame, stopFrame,
                   restartFrame, marks>>

(***************************************************************************)
(* After the fine search: MarkToggle on the last I-frame it has passed.    *)
(***************************************************************************)
Toggle(f) == marks' = IF f \in marks THEN marks \ {f} ELSE marks \cup {f}

Refined ==
    /\ Returned("fine")
    /\ state' = call.result
    /\ IF call.result \in {0, 1} \ {oldState} THEN Toggle(lastIFrame)
       ELSE marks' = marks
    /\ StepOn(cur)
    /\ UNCHANGED <<recording, last, check, lastIFrame, call,
                   oldState, startFrame, restartFrame>>

\* An open end gets a mark on the last I-frame.
Finish ==
    /\ at = "scan" /\ ~Scanning
    /\ marks' = IF Cardinality(marks) % 2 = 1 THEN marks \cup {PrevIFrame(last)}
                ELSE marks
    /\ at' = "done"
    /\ UNCHANGED <<lvars, state, oldState, startFrame, stopFrame, restartFrame>>

Next ==
    \/ Coarse \/ Search \/ Fine \/ Refined \/ Finish
    \/ NothingFound \/ SkipAhead \/ NewLogo \/ NoNewLogo

Spec == Init /\ [][Next]_vars
FairSpec == Spec /\ WF_vars(Next)

-----------------------------------------------------------------------------
(***************************************************************************)
(* Properties.                                                             *)
(***************************************************************************)

\* Marks are found in the order of the recording: MarkToggle never deletes a
\* mark of this scan and never sets one before an earlier one, so that the
\* n-th change found is the n-th mark, although every fine search goes back
\* (noad.cpp, 1738-1767).
MarksAscend ==
    [][ /\ marks \subseteq marks'
        /\ \A m \in marks, n \in marks' \ marks : m < n ]_vars

\* The searches come to an end for every recording: going back for the fine
\* search, giving up on an unstable change and looking for another logo do
\* not add up to a circle (noad.cpp, 1710-1767, 579-597).
Terminates == <>(at = "done")

(***************************************************************************)
(* A steady recording: nothing to doubt in any picture, every logo and     *)
(* every break long enough to be seen and short enough not to give up.     *)
(***************************************************************************)
Changes ==
    {f \in 0..(Length - 1) :
        Picture(f) # (IF f = 0 THEN "none" ELSE Picture(f - 1))}

After(f) == {g \in Changes : f < g}

\* The longest distance from a frame to the next I-frame.
Gop == Max({Min({j \in IFrames \cup {Length - 1} : f < j}) - f : f \in 0..(Length - 2)})

\* The distance at most from one batch of the coarse search to the next.
Stride == BigStep + IgnoreFrames + CheckFrames + Gop

\* Frames at most between a change and the end of the batch that shows it.
Delay == IgnoreFrames + CheckFrames + Threshold + Gop

\* A batch can show a change, the jumps are long against the batches and the
\* distance of the I-frames (375 frames against 15 and 12 to 25), and the
\* recording has more than one batch.
ASSUME DistanceAssumption ==
    /\ Threshold < CheckFrames
    /\ 2 * (IgnoreFrames + CheckFrames + Gop) <= BigStep
    /\ IgnoreFrames + CheckFrames < Length

Steady ==
    /\ \A f \in 0..(Length - 1) : Picture(f) # "unknown"
    /\ \A f \in Changes :
        LET end == Min({last - SafetyLimit - BigStep} \cup After(f))
        IN  end - f >= Stride + (IF Picture(f) = "logo" THEN StableTime ELSE 0)
    /\ \A f \in {0} \cup Changes : Picture(f) = "none" =>
            Min({last} \cup After(f)) - f <= SearchBreak - Stride

Near(m, f) == f - Gop <= m /\ m <= f + Delay

\* What the scan is for: in a steady recording every change of the logo has
\* its mark near it, and there is no other mark, but for the one that closes
\* an open end (noad.cpp, 1710-1779).
Accurate ==
    (at = "done" /\ Steady /\ restartFrame = 0) =>
        /\ \A f \in Changes : Cardinality({m \in marks : Near(m, f)}) = 1
        /\ \A m \in marks :
              \/ \E f \in Changes : Near(m, f)
              \/ m = PrevIFrame(last) /\ Cardinality(Changes) % 2 = 1
=============================================================================
