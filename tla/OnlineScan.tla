----------------------------- MODULE OnlineScan -----------------------------
(***************************************************************************)
(* scanLoop (src/tnoad.cpp), the scan of a recording while VDR still       *)
(* writes it: sleep, read what the index has grown by, look for a logo if  *)
(* none is known, search the new frames for changes, clean up the marks.   *)
(* Without --ac3 and without --overlap.                                    *)
(***************************************************************************)
EXTENDS LogoChange, MarkCleanup

CONSTANTS
    BigStep,       \* BIGSTEP, the jump of the coarse search
    StableTime,    \* LOGOSTABLETIME, how long a lost logo has to stay away
    NewFrames,     \* NEWFRAMES, frames that come in a period of sleep
    MinForward,    \* MINFORWARDFRAMES
    FramesToCheck, \* FRAMES_TO_CHECK, frames a search for a logo looks at
    LogoFrames,    \* pictures with the logo that CGetLogo needs to find it
    ResetFrames,   \* LOGORESETFRAMES, a logo not seen so long is forgotten
    ResetSkip,     \* where the next search for a logo begins behind it
    Growth         \* by how much the index may grow during one sleep

ASSUME OnlineScanAssumption ==
    /\ BigStep \in Nat \ {0, 1} /\ StableTime \in Nat \ {0}
    /\ NewFrames \in Nat /\ MinForward \in Nat
    /\ FramesToCheck \in Nat \ {0} /\ LogoFrames \in Nat \ {0}
    /\ ResetFrames \in Nat /\ ResetSkip \in Nat /\ Growth \subseteq Nat /\ 0 \in Growth
    /\ IgnoreFrames + CheckFrames <= MinForward
    /\ IgnoreFrames + CheckFrames <= SafetyLimit

VARIABLES
    at,           \* "wait", "detect", "scan", "coarse", "fine", "clean", "done"
    state,        \* iState
    oldState,     \* iOldState
    stopFrame,    \* iStopFrame
    haveLogo,     \* haveLogo
    detectStart,  \* logoDetectStart
    lastLogoPos,  \* iLastLogoPos
    frameCount,   \* lastFrameCount
    markCount,    \* lastMarkCount
    scanDone,     \* scanDone
    marks,        \* the positions in the list of marks, see MarkSet
    gaveUp,       \* history: a fine search has come back without a state
    setBack       \* history: a mark has been set in front of stopFrame

history == <<gaveUp, setBack>>
svars == <<at, state, oldState, stopFrame, haveLogo, detectStart, lastLogoPos,
           frameCount, markCount, scanDone, marks, history>>
onlineVars == <<svars, lvars>>

Fresh == [isLogo |-> FALSE, seen |-> 0, missed |-> 0]

\* marks->ClearList(), and the first frames are there.
OnlineInit ==
    /\ recording \in Recording
    /\ last \in {Min({g, Length - 1}) : g \in Growth}
    /\ check = Fresh /\ cur = 0 /\ lastIFrame = 0 /\ call = Idle
    /\ at = "wait" /\ state = 0 /\ oldState = -1 /\ stopFrame = 0
    /\ haveLogo = FALSE /\ detectStart = 0 /\ lastLogoPos = 0
    /\ frameCount = 0 /\ markCount = 0 /\ scanDone = FALSE
    /\ marks = {} /\ gaveUp = FALSE /\ setBack = FALSE

Awake == at' = IF haveLogo THEN "scan" ELSE "detect"

\* Mutant of Wait: the number of frames seen is not brought up to date.
WaitStale ==
    /\ at = "wait"
    /\ IF last - frameCount < NewFrames
       THEN /\ last' \in {Min({last + g, Length - 1}) : g \in Growth}
            /\ scanDone' = (scanDone \/ frameCount = last')
       ELSE UNCHANGED <<last, scanDone>>
    /\ Awake
    /\ UNCHANGED <<recording, check, cur, lastIFrame, call, state, oldState, stopFrame,
                   haveLogo, detectStart, lastLogoPos, frameCount, markCount, marks, history>>

\* sleep and CatchUp; an index that has not grown is taken for a complete one.
Wait ==
    /\ at = "wait"
    /\ IF last - frameCount < NewFrames
       THEN /\ last' \in {Min({last + g, Length - 1}) : g \in Growth}
            /\ scanDone' = (scanDone \/ frameCount = last')
       ELSE UNCHANGED <<last, scanDone>>
    /\ frameCount' = last'
    /\ Awake
    /\ UNCHANGED <<recording, check, cur, lastIFrame, call, state, oldState,
                   stopFrame, haveLogo, detectStart, lastLogoPos, markCount, marks, history>>

(***************************************************************************)
(* The search for a logo: doLogoDetection finds it behind the first        *)
(* LogoFrames pictures in a row that show it, checkLogoState(1, ...) looks *)
(* whether it stays.                                                       *)
(***************************************************************************)
DetectFrom == NextIFrame(detectStart)

\* The first frame that completes such a row, none if there is none.
Found ==
    LET row[n \in Nat, f \in Nat, end \in Nat] ==
            IF n = LogoFrames THEN {f - 1}
            ELSE IF f >= end THEN {}
            ELSE row[IF Picture(f) = "logo" THEN n + 1 ELSE 0, f + 1, end]
    IN  IF DetectFrom = -1 THEN {}
        ELSE row[0, DetectFrom, Min({DetectFrom + FramesToCheck, last - 1})]

\* Where checkLogoState begins, and what it makes of the pictures there.
KeptFrom(f) == NextIFrame(IFrameAt(f + 1))

Kept(f) ==
    LET kept[c \in Check, g \in Nat, end \in Nat] ==
            g < end => /\ Judged(c, Picture(g)).isLogo
                       /\ kept[Judged(c, Picture(g)), g + 1, end]
    IN  KeptFrom(f) # -1 =>
            kept[Judged(Fresh, Picture(f)), KeptFrom(f),
                 Min({KeptFrom(f) + FramesToCheck, last})]

LogoFound == \E f \in Found : Kept(f)

NoSearch ==
    /\ at = "detect" /\ frameCount - detectStart < FramesToCheck
    /\ at' = "clean"
    /\ UNCHANGED <<lvars, state, oldState, stopFrame, haveLogo, detectStart,
                   lastLogoPos, frameCount, markCount, scanDone, marks, history>>

NoLogo ==
    /\ at = "detect" /\ frameCount - detectStart >= FramesToCheck
    /\ ~LogoFound
    /\ detectStart' = detectStart + FramesToCheck
    /\ at' = "clean"
    /\ UNCHANGED <<lvars, state, oldState, stopFrame, haveLogo, lastLogoPos,
                   frameCount, markCount, scanDone, marks, history>>

\* The scan goes on from where the logo was last seen, if that is not long ago.
NewLogo ==
    /\ at = "detect" /\ frameCount - detectStart >= FramesToCheck
    /\ LogoFound
    /\ \E f \in Found :
        /\ lastIFrame' = IFrameAt(f + 1)
        /\ check' = IF KeptFrom(f) = -1 THEN Judged(Fresh, Picture(f))
                    ELSE Watched(Judged(Fresh, Picture(f)), KeptFrom(f),
                                 Min({KeptFrom(f) + FramesToCheck, last}))
    /\ cur' = IF lastIFrame' - lastLogoPos < ResetFrames THEN lastLogoPos ELSE cur
    /\ haveLogo' = TRUE
    /\ at' = "scan"
    /\ UNCHANGED <<recording, last, call, state, oldState, stopFrame, detectStart,
                   lastLogoPos, frameCount, markCount, scanDone, marks, history>>

(***************************************************************************)
(* The search for changes in the frames that are there.                    *)
(***************************************************************************)
Scanning == cur < last /\ 0 <= cur /\ state # -1

\* The loop is left with this state at this frame.
LeaveLoop(s, f) ==
    /\ state' = s
    /\ cur' = IF f < 0 THEN last ELSE f
    /\ lastLogoPos' = IF s = 1 THEN cur' ELSE lastLogoPos
    /\ at' = "clean"

EndOfFrames ==
    /\ at = "scan" /\ ~Scanning
    /\ LeaveLoop(state, cur)
    /\ UNCHANGED <<recording, last, check, lastIFrame, call, oldState, stopFrame,
                   haveLogo, detectStart, frameCount, markCount, scanDone, marks, history>>

Coarse ==
    /\ at = "scan" /\ Scanning
    /\ oldState' = state
    /\ FindLogoChange(state, cur, BigStep, 0)
    /\ at' = "coarse"
    /\ UNCHANGED <<recording, last, check, state, stopFrame, haveLogo, detectStart,
                   lastLogoPos, frameCount, markCount, scanDone, marks, history>>

Search ==
    /\ at \in {"coarse", "fine"}
    /\ SearchStep
    /\ UNCHANGED svars

Returned(where) == at = where /\ ~call.running

\* Back by two jumps, but not before stopFrame.
FineStart ==
    LET back == cur - 2 * BigStep
    IN  Max({stopFrame, IF back < stopFrame THEN back + BigStep \div 2 ELSE back})

ChangeAhead == call.result >= 0 /\ oldState >= 0 /\ call.result # oldState

NotFound ==
    /\ Returned("coarse") /\ call.result < 0
    /\ LeaveLoop(oldState, cur)
    /\ UNCHANGED <<recording, last, check, lastIFrame, call, oldState, stopFrame,
                   haveLogo, detectStart, frameCount, markCount, scanDone, marks, history>>

\* Too few frames yet to look closer.
TooNew ==
    /\ Returned("coarse") /\ ChangeAhead /\ FineStart + MinForward > last
    /\ LeaveLoop(oldState, FineStart)
    /\ UNCHANGED <<recording, last, check, lastIFrame, call, oldState, stopFrame,
                   haveLogo, detectStart, frameCount, markCount, scanDone, marks, history>>

Fine ==
    /\ Returned("coarse") /\ ChangeAhead /\ FineStart + MinForward <= last
    /\ state' = call.result
    /\ FindLogoChange(oldState, FineStart, 1,
                      IF call.result = 0 THEN StableTime ELSE 0)
    /\ at' = "fine"
    /\ UNCHANGED <<recording, last, check, oldState, stopFrame, haveLogo, detectStart,
                   lastLogoPos, frameCount, markCount, scanDone, marks, history>>

NoChangeAhead ==
    /\ Returned("coarse") /\ call.result >= 0 /\ ~ChangeAhead
    /\ state' = call.result
    /\ at' = "scan"
    /\ UNCHANGED <<lvars, oldState, stopFrame, haveLogo, detectStart, lastLogoPos,
                   frameCount, markCount, scanDone, marks, history>>

Toggle(f) == marks' = IF f \in marks THEN marks \ {f} ELSE marks \cup {f}

\* Mutant of Refined: the mark is set one frame, not one I-frame, before.
MarkBefore ==
    /\ Returned("fine") /\ call.result >= 0 /\ call.result # oldState
    /\ Toggle(lastIFrame - 1)
    /\ stopFrame' = lastIFrame - 1
    /\ setBack' = (setBack \/ lastIFrame - 1 < stopFrame)
    /\ lastLogoPos' = IF call.result = 1 THEN cur ELSE Max({lastIFrame - 2, 0})
    /\ state' = call.result
    /\ at' = "scan"
    /\ UNCHANGED <<lvars, oldState, haveLogo, detectStart, frameCount, markCount,
                   scanDone, gaveUp>>

\* MarkToggle on the I-frame before the last one the search has passed.
Refined ==
    /\ Returned("fine") /\ call.result >= 0 /\ call.result # oldState
    /\ LET f == PrevIFrame(lastIFrame - 1)
       IN  /\ Toggle(f)
           /\ stopFrame' = f
           /\ setBack' = (setBack \/ f < stopFrame)
           /\ lastLogoPos' = IF call.result = 1 THEN cur ELSE Max({f - 1, 0})
    /\ state' = call.result
    /\ at' = "scan"
    /\ UNCHANGED <<lvars, oldState, haveLogo, detectStart, frameCount, markCount,
                   scanDone, gaveUp>>

NotRefined ==
    /\ Returned("fine") /\ (call.result < 0 \/ call.result = oldState)
    /\ state' = call.result
    /\ gaveUp' = (gaveUp \/ call.result < 0)
    /\ at' = "scan"
    /\ UNCHANGED <<lvars, oldState, stopFrame, haveLogo, detectStart, lastLogoPos,
                   frameCount, markCount, scanDone, marks, setBack>>

(***************************************************************************)
(* The end of a round: the marks are cleaned up if their number has        *)
(* changed, and a logo that has not been seen for long is forgotten.       *)
(***************************************************************************)
Clean ==
    /\ at = "clean"
    /\ marks' = IF Cardinality(marks) = markCount THEN marks
                ELSE CleanActive(CleanInactive(marks))
    /\ markCount' = Cardinality(marks')
    /\ state' = IF state < 0 /\ oldState # 0 THEN oldState ELSE state
    /\ IF haveLogo /\ last - lastLogoPos > ResetFrames
       THEN haveLogo' = FALSE /\ detectStart' = lastLogoPos + ResetSkip
       ELSE UNCHANGED <<haveLogo, detectStart>>
    /\ at' = IF scanDone THEN "done" ELSE "wait"
    /\ UNCHANGED <<lvars, oldState, stopFrame, lastLogoPos, frameCount, scanDone, history>>

OnlineNext ==
    \/ Wait
    \/ NoSearch \/ NoLogo \/ NewLogo
    \/ EndOfFrames \/ Coarse \/ Search \/ NotFound \/ TooNew \/ Fine \/ NoChangeAhead
    \/ Refined \/ NotRefined
    \/ Clean

OnlineSpec == OnlineInit /\ [][OnlineNext]_onlineVars
FairOnlineSpec == OnlineSpec /\ WF_onlineVars(OnlineNext)

-----------------------------------------------------------------------------
(***************************************************************************)
(* Properties.                                                             *)
(***************************************************************************)

\* The batch that is read behind the jump to I-frame c passes no other I-frame
\* than perhaps the very next frame.
Sparse(c) == \A i \in IFrames : ~(c + 1 < i /\ i < c + IgnoreFrames + CheckFrames)

\* A mark is set on an I-frame and not in front of stopFrame, where the last
\* one was set (tnoad.cpp, 268-273 and 289-311; README.en, 249: marks on other
\* frames are an error of earlier versions), whatever was broken off before.
\* It fails in one way: if no other I-frame follows the one a fine search
\* begins with, c, within a batch, the search may come back before it has
\* passed one.  The mark is then set on the I-frame in front of c, which may be
\* in front of stopFrame too, or is -1 at the beginning of the recording, taken
\* for the position of a mark (tnoad.cpp, 300).
MarksOnIFrames ==
    [][ \A f \in marks' \ marks :
          \/ f \in IFrames /\ stopFrame <= f
          \/ \E c \in IFrames :
                /\ Sparse(c) /\ stopFrame <= c
                /\ f \in {PrevIFrame(c - 1), PrevIFrame(c)} ]_onlineVars

\* Between two rounds the marks say what the scan will go on with: an odd
\* number of them while there is a logo, an even number while there is none,
\* whatever was broken off, deleted, forgotten and found again (tnoad.cpp,
\* 245-324).  Not so any more once a fine search has given up with -2 or -1:
\* the scan keeps that as the state of the logo, and a state of -2 lets the
\* next search find a change for which no mark is set (tnoad.cpp, 287-288 and
\* 364-365).
MarksTellState ==
    at = "wait" /\ ~gaveUp =>
        /\ state \in {0, 1}
        /\ state = 1 <=> Cardinality(marks) % 2 = 1

\* Between two rounds no two neighbours are closer than MINMARKDURATION, although
\* the marks are cleaned up only if their number has changed since the last
\* round (tnoad.cpp, 319-332).  A round that sets a mark in front of stopFrame
\* (see MarksOnIFrames) may put it close to another one without a change of the
\* number.
Cleaned == at = "wait" /\ ~setBack => Close(marks, MinMark, 2) = {}

\* Once the recording does not grow any more, the scan ends: no round repeats
\* the frames of the last one for ever (tnoad.cpp, 114-123, 241-314).
Terminates == <>(at = "done")
=============================================================================
