------------------------------- MODULE LogoSearch -------------------------------
(***************************************************************************)
(* The search for the logo: detectLogo and doLogoDetection (src/noad.cpp)  *)
(* or their part of scanLoop (src/tnoad.cpp), the callbacks that the       *)
(* decoder calls with every picture, and the objects that these work on:   *)
(* noadData (src/noaddata.cpp) with the grey corners of the picture,       *)
(* CControl (src/ccontrol.cpp) with a CGetLogo for every corner            *)
(* (src/cgetlogo.cpp), and CCheckLogo (src/cchecklogo.cpp).                *)
(*                                                                         *)
(* The objects keep pointers to each other's memory: a CGetLogo and the    *)
(* CCheckLogo to a corner, both to the testlines of a logo.  A picture of  *)
(* another size replaces the corners in the middle of a callback.          *)
(*                                                                         *)
(* A picture is what the code finds out about it.  Every frame counts as   *)
(* an independent one.                                                     *)
(***************************************************************************)
EXTENDS Integers, Sequences, FiniteSetsExt, Functions

CONSTANTS
    CornerSeq,    \* the corners, in the order in which CControl asks them
    Sizes,        \* the sizes of the pictures
    FilterFrames, SampleFrames,  \* m_nFilterFrames and m_nCheckFrames
    FramesToCheck,              \* FRAMES_TO_CHECK
    Blocks, BlockFrames, Dist, Needed, \* CHECKLOGO_BLOCKS, _BLOCKFRAMES, _DIST, _FRAMES
    StableFrames, \* the 3000 pictures of checkLogoState
    PartStarts,   \* iAStartpos
    Searches,     \* where a later search may begin
    Lengths,      \* the lengths of recordings, cIF->Last()
    Limit,        \* INDEXSAFETYLIMIT
    None          \* NULL

Corners == Range(CornerSeq)
Unknown == None   \* m_nLogoCorner = UNKNOWN

ASSUME LogoSearchAssumption ==
    /\ None \notin Nat
    /\ {FramesToCheck, Dist, Limit} \cup Lengths \subseteq Nat
    /\ Searches \subseteq Nat \ {0}
    /\ {FilterFrames, SampleFrames, Blocks, BlockFrames, Needed, StableFrames} \subseteq Nat \ {0}
    /\ Needed <= Blocks * BlockFrames
    /\ BlockFrames <= Dist + 1   \* the blocks lie apart
    \* one CGetLogo for every corner
    /\ CornerSeq \in Seq(Nat)
    /\ \A i, j \in DOMAIN CornerSeq : CornerSeq[i] = CornerSeq[j] => i = j
    /\ PartStarts \in Seq(Nat)

VARIABLES
    nd,        \* the objects, see Objects
    pc, part,  \* where detectLogo is, and at which of PartStarts
    from,      \* iStartFrame, logoDetectStart
    checked,   \* checkedFrames
    online,    \* scanLoop searches, not detectLogo
    length,    \* cIF->Last()
    index, shown, count, \* index, the frames shown and iLogosFound of checkLogo
    where      \* history: the frames at which it has counted a logo

searchVars == <<nd, pc, part, from, checked, online, length, index, shown, count, where>>

-----------------------------------------------------------------------------
(* The objects.                                                            *)

NewGet == [filtered |-> 0, checked |-> 0, lines |-> None]
NoCtrl == [state |-> "none", pics |-> 0, found |-> FALSE, get |-> [k \in Corners |-> NewGet]]
NewCheck == [lines |-> None, corner |-> None, logo |-> FALSE]

\* size: m_nGrabWidth and -Height; found, corner: m_bFound, m_nLogoCorner;
\* ctrl: cctrl, which is stale when the corners it points to are gone; check:
\* m_pCheckLogo; heap: the testlines there are; fault: memory that is gone has
\* been used.
Objects == [size : Sizes, found : BOOLEAN, corner : Corners \cup {Unknown},
            ctrl : [state : {"none", "fresh", "stale"}, pics : 0..3, found : BOOLEAN,
                    get : [Corners -> [filtered : Nat, checked : Nat, lines : Nat \cup {None}]]],
            check : [lines : Nat \cup {None}, corner : Corners \cup {None}, logo : BOOLEAN],
            heap : SUBSET [id : Nat, corner : Corners, size : Sizes],
            fault : BOOLEAN]

Live(s) == {l.id : l \in s.heap}
Lines(s) == CHOOSE l \in s.heap : l.id = s.check.lines
Pointers(s) == {s.check.lines} \cup {s.ctrl.get[k].lines : k \in Corners}

\* An address that nobody points to, freed or not.
NewId(s) ==
    LET used == Pointers(s) \cup Live(s)
    IN  Min((1..Cardinality(used) + 1) \ used)

\* deleteTestlines.
Freed(s, id) ==
    IF id = None THEN s
    ELSE [s EXCEPT !.heap = {l \in @ : l.id # id}, !.fault = @ \/ id \notin Live(s)]

\* Testlines that nobody points to any more are lost.
Tidy(s) == [s EXCEPT !.heap = {l \in @ : l.id \in Pointers(s)}]

\* Mutant of InitBuffer: the CCheckLogo of the old size is kept.
InitBufferKept(s) == [s EXCEPT !.ctrl.state = IF @ = "none" THEN @ ELSE "stale"]

\* noadData::initBuffer: new corners, and a new CCheckLogo.
InitBuffer(s) ==
    [Freed(s, s.check.lines) EXCEPT !.check = NewCheck,
                                    !.ctrl.state = IF @ = "none" THEN @ ELSE "stale"]

SetGrabSize(s, size) == IF s.size = size THEN s ELSE InitBuffer([s EXCEPT !.size = size])

DeleteCtrl(s) == [s EXCEPT !.ctrl = NoCtrl]
NewCtrl(s) == [s EXCEPT !.ctrl = [NoCtrl EXCEPT !.state = "fresh"]]

ReInitNoad(s) ==
    NewCtrl([InitBuffer(DeleteCtrl(s)) EXCEPT !.found = FALSE, !.corner = Unknown])

\* loadCheckData: corner, size and testlines of a logo that has been saved.
LoadCheckData(s, file) ==
    LET s1 == SetGrabSize([s EXCEPT !.corner = file.corner], file.size)
        s2 == Freed(s1, s1.check.lines)
    IN  [s2 EXCEPT !.found = TRUE,
                   !.check = [@ EXCEPT !.lines = NewId(s1), !.corner = file.corner],
                   !.heap = @ \cup {[id |-> NewId(s1), corner |-> file.corner,
                                     size |-> file.size]}]

-----------------------------------------------------------------------------
(* A picture: its size, what CGetLogo finds in every corner, whether the   *)
(* testlines show a logo.                                                  *)
Views == {"rejected", "poor", "good", "rich"}

CheckBlock(seen) == seen # "rejected"            \* bright, and new, enough
PointsLeft(seen) == seen \in {"good", "rich"}     \* more than 20
CouplesFound(seen) == seen = "rich"              \* at least 10
Pictures == [size : Sizes, seen : [Corners -> Views], logo : BOOLEAN]

\* Mutant of StdCallBack: cctrl survives the change of the size.
StdCallBackKeeps(s, p) == SetGrabSize(s, p.size)

StdCallBack(s, p) == IF p.size = s.size THEN s ELSE SetGrabSize(DeleteCtrl(s), p.size)

\* CCheckLogo::newData.
CheckNewData(s, p) ==
    [s EXCEPT !.check.logo = s.check.lines # None /\ p.logo,
              !.fault = @ \/ (s.check.lines # None
                                 /\ (s.check.lines \notin Live(s) \/ s.check.corner = None))]

\* With extLogoSearch it also looks for the logo in other rows of the corner.
ExtNewData(s, p, moved) ==
    LET s1 == CheckNewData(s, p)
    IN  IF s1.check.logo \/ s1.check.lines = None \/ s1.fault THEN s1
        ELSE [s1 EXCEPT !.check.logo = moved]

ResetGet(s, k) == [Freed(s, s.ctrl.get[k].lines) EXCEPT !.ctrl.get[k] = NewGet]

FoundLogo(s, k, id) ==
    [s EXCEPT !.found = TRUE, !.corner = k, !.ctrl.found = TRUE,
              !.check.lines = id, !.check.corner = k]

\* CGetLogo::newData in corner k: first it filters, then it counts the pictures
\* in which enough points are left, at last it sets the testlines.
GetNewData(s, k, p) ==
    LET get == s.ctrl.get[k]
        filtering == get.filtered < FilterFrames
        complete == get.checked + 1 = SampleFrames
        new == [id |-> NewId(s), corner |-> k, size |-> s.size]
    IN  CASE ~CheckBlock(p.seen[k]) -> s
          [] CheckBlock(p.seen[k]) /\ filtering -> [s EXCEPT !.ctrl.get[k].filtered = @ + 1]
          [] CheckBlock(p.seen[k]) /\ ~filtering ->
                IF ~PointsLeft(p.seen[k]) \/ (complete /\ ~CouplesFound(p.seen[k]))
                THEN ResetGet(s, k)
                ELSE IF ~complete THEN [s EXCEPT !.ctrl.get[k].checked = @ + 1]
                ELSE FoundLogo([s EXCEPT !.heap = @ \cup {new},
                                         !.ctrl.get[k] = [@ EXCEPT !.checked = SampleFrames,
                                                                   !.lines = new.id]],
                               k, new.id)

\* The corners one after the other.
AllAsked(s, p) ==
    LET asked[n \in 0..Len(CornerSeq)] ==
            IF n = 0 THEN s ELSE GetNewData(asked[n - 1], CornerSeq[n], p)
    IN  asked[Len(CornerSeq)]

\* CControl::newData: all corners are asked, also behind the one with the logo.
CtrlNewData(s, p) ==
    LET s1 == [s EXCEPT !.ctrl.pics = Min({@ + 1, 3}), !.fault = @ \/ s.ctrl.state = "stale"]
        s2 == IF s1.ctrl.pics > 2 /\ ~s1.ctrl.found THEN AllAsked(s1, p) ELSE s1
    IN  IF s2.ctrl.found THEN CheckNewData(s2, p) ELSE s2

LogoDetectCallback(s, p) ==
    LET s1 == StdCallBack(s, p)
        s2 == IF s1.ctrl.state = "none" THEN NewCtrl(s1) ELSE s1
    IN  IF s2.found THEN CheckNewData(s2, p) ELSE CtrlNewData(s2, p)

CheckCallback(s, p) == CheckNewData(StdCallBack(s, p), p)

-----------------------------------------------------------------------------
(* detectLogo.                                                             *)
NextI(i) == IF i + 1 < length - Limit THEN i + 1 ELSE -1

SearchInit ==
    /\ \E size \in Sizes :
          nd = [size |-> size, found |-> FALSE, corner |-> Unknown, ctrl |-> NoCtrl,
                check |-> NewCheck, heap |-> {}, fault |-> FALSE]
    /\ pc = "idle" /\ part = 1 /\ from = 0 /\ checked = 0 /\ online \in BOOLEAN /\ length \in Lengths
    /\ index = 0 /\ shown = 0 /\ count = 0 /\ where = {}

StartVerify(start) ==
    /\ pc' = "verify" /\ index' = NextI(start) /\ shown' = 0 /\ count' = 0 /\ where' = {}

NotVerifying == index' = 0 /\ shown' = 0 /\ count' = 0 /\ where' = {}

PartStart == from + PartStarts[part]

\* A logo that has been saved is tried first; part 0 stands for it.
Start ==
    /\ pc = "idle" /\ UNCHANGED <<from, online, length>> /\ checked' = 0
    /\ \/ /\ nd' = Tidy(ReInitNoad(nd)) /\ pc' = "part" /\ part' = 1 /\ NotVerifying
       \/ /\ ~online /\ from = 0 /\ part' = 0
          /\ \E file \in [corner : Corners, size : Sizes] :
                nd' = Tidy(LoadCheckData(ReInitNoad(nd), file))
          /\ StartVerify(0)

Part ==
    /\ pc = "part" /\ NotVerifying /\ UNCHANGED <<part, from, online, length>>
    /\ IF part > (IF online THEN 1 ELSE Len(PartStarts))
       THEN pc' = "none" /\ UNCHANGED <<nd, checked>>
       ELSE nd' = Tidy(ReInitNoad(nd)) /\ checked' = 0 /\ pc' = "detect"

\* doLogoDetection: the decoder delivers a picture, or several for one call.
DetectPicture ==
    /\ pc = "detect" /\ checked <= FramesToCheck /\ NextI(PartStart) # -1
    /\ \E p \in Pictures : nd' = Tidy(LogoDetectCallback(nd, p))
    /\ checked' = checked + 1
    /\ UNCHANGED <<pc, part, from, online, length, index, shown, count, where>>

\* The end: at the end of the index it is lost, even if it has been found.
DetectEnd ==
    /\ pc = "detect" /\ UNCHANGED <<nd, from, checked, online, length>>
    /\ \/ nd.found /\ UNCHANGED part /\ StartVerify(PartStart)
       \/ part' = part + 1 /\ pc' = "part" /\ NotVerifying

\* getNextPicture delivers one picture, or none.
Shown(s, frame) ==
    {s} \cup IF frame \in 0..(length - 1) THEN {CheckCallback(s, p) : p \in Pictures} ELSE {}

VerifyEnd(ok) ==
    IF ok THEN pc' = "found" /\ UNCHANGED part ELSE pc' = "part" /\ part' = part + 1

\* Mutant of CheckLogo: the blocks are not moved on.
CheckLogoSame ==
    /\ pc = "verify" /\ ~online /\ UNCHANGED <<from, checked, online, length>>
    /\ LET frame == index + (shown % BlockFrames)
       IN  /\ \E s \in Shown(nd, frame) : nd' = Tidy(s)
           /\ where' = IF nd'.check.logo THEN where \cup {frame} ELSE where
    /\ count' = count + IF nd'.check.logo THEN 1 ELSE 0
    /\ shown' = shown + 1 /\ UNCHANGED index
    /\ IF count' >= Needed \/ shown' = Blocks * BlockFrames
       THEN VerifyEnd(count' >= Needed) ELSE UNCHANGED <<pc, part>>

\* checkLogo: isLogo is counted whether there has been a picture or not.
CheckLogo ==
    /\ pc = "verify" /\ ~online /\ UNCHANGED <<from, checked, online, length>>
    /\ LET frame == index + (shown % BlockFrames)
       IN  /\ \E s \in Shown(nd, frame) : nd' = Tidy(s)
           /\ where' = IF nd'.check.logo THEN where \cup {frame} ELSE where
    /\ count' = count + IF nd'.check.logo THEN 1 ELSE 0
    /\ shown' = shown + 1
    /\ index' = IF shown' % BlockFrames = 0 THEN NextI(index + Dist) ELSE index
    /\ IF count' >= Needed \/ shown' = Blocks * BlockFrames
       THEN VerifyEnd(count' >= Needed) ELSE UNCHANGED <<pc, part>>

\* checkLogoState in scanLoop: every picture must show it.
CheckLogoState ==
    /\ pc = "verify" /\ online /\ UNCHANGED <<from, checked, online, length, index, count, where>>
    /\ \E s \in Shown(nd, index) : nd' = Tidy(s)
    /\ shown' = shown + 1
    /\ IF ~nd'.check.logo \/ shown' = StableFrames THEN VerifyEnd(nd'.check.logo)
       ELSE UNCHANGED <<pc, part>>

\* The scan goes on with the logo, with or without extLogoSearch.
Scan ==
    /\ pc = "found" /\ NotVerifying /\ UNCHANGED <<pc, part, from, checked, online, length>>
    /\ \E p \in Pictures, moved \in BOOLEAN :
          \/ nd' = Tidy(StdCallBack(nd, p))
          \/ nd' = Tidy(CheckCallback(nd, p))
          \/ nd' = Tidy(ExtNewData(StdCallBack(nd, p), p, moved))

\* A new search: after the logo has not been there for long; scanLoop also goes
\* on as long as it has none.
Again ==
    /\ pc = "found" \/ (online /\ pc = "none")
    /\ pc' = "idle" /\ NotVerifying
    /\ from' \in Searches
    /\ UNCHANGED <<nd, part, checked, online, length>>

SearchNext ==
    \/ Start \/ Part \/ DetectPicture \/ DetectEnd \/ CheckLogo \/ CheckLogoState
    \/ Scan \/ Again

SearchSpec == SearchInit /\ [][SearchNext]_searchVars

(***************************************************************************)
(* Properties                                                              *)
(***************************************************************************)
\* No corner and no testline is used, or freed, when it is gone: whatever
\* changes its size in which callback (noad.cpp, 155-300, 390-404, noaddata.cpp,
\* 122-217, 504-575).
NothingGone == ~nd.fault

\* If a logo is seen, then with testlines that have been found in the corner
\* they are laid on, in pictures of the size of this one, and it is the corner
\* that is saved with them (ccontrol.cpp, 56-103, 134-154, cchecklogo.cpp, 73-84).
LogoFits ==
    nd.check.logo =>
        /\ nd.found /\ nd.check.lines \in Live(nd)
        /\ Lines(nd).corner = nd.check.corner /\ nd.corner = nd.check.corner
        /\ Lines(nd).size = nd.size

\* The frames a recording needs for checkLogo not to begin again from its start.
VerifyStart == IF part = 0 THEN 0 ELSE PartStart
Long == VerifyStart + Blocks * (Dist + 1) + BlockFrames + Limit

\* In a recording that is long enough a logo has been seen at so many different
\* frames, and not many times at the same ones (noad.cpp, 298-331).
SeenApart == pc = "found" /\ ~online /\ length >= Long /\ where # {} => Cardinality(where) >= Needed

\* "logo should be visible in at least #CHECKLOGO_FRAMES frames" (noad.cpp, 301).
SeenOften == pc = "found" /\ ~online /\ where # {} => Cardinality(where) >= Needed

=============================================================================
