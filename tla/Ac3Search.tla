------------------------------ MODULE Ac3Search ------------------------------
(***************************************************************************)
(* The marks by the sound: where a broadcast in 5.1 changes to stereo and  *)
(* back.  detect_ac3_51, ac3Pass1, find_ac3start and findVideoByPTS of     *)
(* MPEGDecoder with its demuxer (src/mpeg_decoder.cpp), the part of        *)
(* scanLoop that does the same while the recording grows                   *)
(* (src/tnoad.cpp), and getActiveFrames (src/vdr_cl.cpp).                  *)
(*                                                                         *)
(* A frame of the recording is a packet with the picture and then perhaps  *)
(* one with the sound.  Its data can end early, where VDR was stopped and  *)
(* went on with the next file.  The recording is in PES: in TS the demuxer *)
(* only takes the packets of the video (src/mpeg_decoder.cpp, 700-702) and *)
(* no sound is ever found.                                                 *)
(***************************************************************************)
EXTENDS MarkCleanup

CONSTANTS
    Skip,          \* AC3_51DETECT_SKIP
    Near,          \* the 10 frames at which find_ac3start stops halving
    Few,           \* the 5 frames for which scanLoop does not search
    DetectFrames,  \* FRAMES_FOR_AC51DETECT
    DetectCount,   \* the 50 frames in 5.1 that are enough
    Cutoff,        \* AC3ACTIVECUTOFF, in percent
    ResetFrames,   \* LOGORESETFRAMES
    ResetSkip,     \* the 15 frames behind the last sound in 5.1
    NewFrames,     \* NEWFRAMES
    Gop,           \* every Gop-th frame is an independent one
    Limit,         \* INDEXSAFETYLIMIT
    Lag,           \* how many frames the sound comes before its picture
    Lengths,       \* lengths of the recording as it grows
    Recordings,    \* see Recorded
    Sounds         \* what each of them has to hear in each frame

ASSUME Ac3SearchAssumption ==
    /\ {Skip, Gop, NewFrames} \subseteq Nat \ {0}
    /\ {Few, DetectFrames, Cutoff, ResetFrames, ResetSkip, Limit, Lag} \cup Lengths
           \subseteq Nat
    /\ {Near, DetectCount} \subseteq Nat \ {0, 1}
    /\ IsFiniteSet(Lengths)

\* How far a mark may be from its change.
Slack == Gop + Lag + 1

\* How the numbers are related in the code: 5 < 250 (tnoad.cpp, 222), and
\* GetNextIFrame does not look into the last 150 frames (vdr_cl.cpp, 271), which
\* leaves 99 for a group of pictures (12 or 15 in a broadcast) and what the sound
\* is behind the picture.
ASSUME Ac3StepsAssumption == Few < Skip /\ Limit + Slack <= Skip

\* ac3mode: 0, 20 (or anything that is not 5.1) and 51.
Modes == {"none", "stereo", "surround"}

\* cut: frames whose data end early; left: how much of the next frame the demuxer
\* then takes for the rest of the packet.
Recorded == \A r \in Recordings : r.cut \subseteq Nat /\ r.left \in 1..2

ASSUME RecordingsAssumption ==
    Recorded /\ Sounds \in [Recordings -> [0..Max(Lengths) -> Modes]]

VARIABLES
    rec,        \* the recording
    online,     \* scanLoop is at work, not scanRecord
    last,       \* cIF->Last()
    d,          \* what the demuxer keeps, see Demuxed
    pc,
    cur,        \* iCurrentFrame
    old, help,  \* oldac3mode, ac3mode_help
    at,         \* iCurrentFrame of detect_ac3_51 and of find_ac3start
    from,       \* StartFrame of detect_ac3_51, ac3DetectStart
    count,      \* ac3mode51count
    lo, hi,     \* iStart, iEnd of find_ac3start
    cframe,     \* cframe
    mark,       \* iLastLogoFrame
    frames, markCount, scanDone, haveAC3, lastPos,  \* of scanLoop; lastPos: iLastLogoPos
    marks,      \* positions in the list of marks, see MarkSet
    restarted   \* history: a round was broken off for want of an I-frame

fixed == <<rec, online>>
detect == <<from, count>>
find == <<lo, hi, cframe>>
loop == <<frames, markCount, scanDone, haveAC3>>
vars == <<fixed, last, d, pc, cur, old, help, at, detect, find, mark, loop, lastPos, marks,
          restarted>>

-----------------------------------------------------------------------------
(* The recording and its index.                                            *)
Sound(f) == Sounds[rec][f]

\* GetNextIFrame forward and backward; it stays off the end when it goes forward.
NextI(i) == LET j == Gop * (i \div Gop + 1) IN IF j < last - Limit THEN j ELSE -1
PrevI(i) == IF i \in 1..last THEN Gop * ((i - 1) \div Gop) ELSE -1

-----------------------------------------------------------------------------
(* The demuxer.                                                            *)

\* left: what state and state_bytes say is still to be skipped; mode, decoded,
\* vpts, apts: ac3mode, ac3Decoded, videopts, ac3pts; lost: it was asked for a
\* frame that is not in the index, and reads from wherever its variables say.
Demuxed == [left : 0..2, mode : Modes, decoded : BOOLEAN, vpts : Int, apts : Int,
            lost : Int]

\* DEMUX_RESET.
Reset(e) == [e EXCEPT !.left = 0]

\* The header of a picture is read, also if the picture ends early.
VideoPacket(e, f) == IF e.left > 0 THEN e ELSE [e EXCEPT !.vpts = f]

\* scan_private_stream_1; a packet that is not complete, or put together from
\* two frames, gives nothing.
PrivateStream(e, f) ==
    IF e.left > 1 \/ f \in rec.cut \/ Sound(f) = "none" THEN e
    ELSE [e EXCEPT !.mode = Sound(f), !.decoded = TRUE, !.apts = f - Lag]

DemuxPES(e, f) ==
    [PrivateStream(VideoPacket(e, f), f) EXCEPT !.left = IF f \in rec.cut THEN rec.left ELSE 0]

DemuxFrame(e, f) ==
    IF f \in 0..(last - 1) THEN DemuxPES(e, f) ELSE [e EXCEPT !.lost = f]

\* Where a loop over the frames is: what the demuxer keeps, and the frame.
Reading == [d : Demuxed, at : 0..(last + 1)]

\* Mutant of FirstSound: it looks at b, too.
FirstSoundOn(e, a, b) ==
    LET go[r \in Reading] ==
            IF r.at > b THEN [r EXCEPT !.at = b]
            ELSE LET y == DemuxFrame(r.d, r.at)
                 IN  IF y.decoded THEN [r EXCEPT !.d = y] ELSE go[[d |-> y, at |-> r.at + 1]]
    IN  go[[d |-> [e EXCEPT !.decoded = FALSE], at |-> a]]

\* Frames from a on are demuxed until there was sound or b is reached.
FirstSound(e, a, b) ==
    LET go[r \in Reading] ==
            IF r.at >= b THEN r
            ELSE LET y == DemuxFrame(r.d, r.at)
                 IN  IF y.decoded THEN [r EXCEPT !.d = y] ELSE go[[d |-> y, at |-> r.at + 1]]
    IN  go[[d |-> [e EXCEPT !.decoded = FALSE], at |-> a]]

-----------------------------------------------------------------------------
Init ==
    /\ rec \in Recordings /\ online \in BOOLEAN /\ last \in Lengths
    /\ d = [left |-> 0, mode |-> "none", decoded |-> FALSE, vpts |-> 0, apts |-> 0,
            lost |-> -1]
    /\ pc = IF online THEN "wait" ELSE "detect"
    /\ cur = 0 /\ old = "none" /\ help = "none" /\ at = 0 /\ from = 0 /\ count = 0
    /\ lo = 0 /\ hi = 0 /\ cframe = 0 /\ mark = 0
    /\ frames = 0 /\ markCount = 0 /\ scanDone = FALSE /\ haveAC3 = FALSE /\ lastPos = 0
    /\ marks = {} /\ restarted = FALSE

\* scanLoop: sleep and CatchUp, then the sound if there is any in 5.1.
Wait ==
    /\ pc = "wait"
    /\ IF last - frames < NewFrames
       THEN /\ last' \in {n \in Lengths : last <= n}
            /\ scanDone' = (scanDone \/ frames = last')
       ELSE UNCHANGED <<last, scanDone>>
    /\ frames' = last'
    /\ IF haveAC3
       THEN /\ pc' = "scan" /\ d' = [d EXCEPT !.mode = old]
            /\ mark' = 0 /\ cframe' = 0
            /\ UNCHANGED <<at, count>>
       ELSE /\ pc' = "detect"
            /\ d' = [d EXCEPT !.mode = "none"]
            /\ at' = from /\ count' = 0
            /\ UNCHANGED <<mark, cframe>>
    /\ UNCHANGED <<fixed, cur, old, help, from, lo, hi, markCount, haveAC3, lastPos, marks,
                   restarted>>

(***************************************************************************)
(* detect_ac3_51: is there sound in 5.1 for some frames in a row?          *)
(***************************************************************************)
Detecting(f, n) == f < last /\ f < from + DetectFrames /\ n < DetectCount

\* The inner loop: frames one after the other, as long as it is 5.1.
InARow(e, a, k) ==
    LET go[r \in [d : Demuxed, at : 0..last, n : Nat]] ==
            IF ~(Detecting(r.at, r.n) /\ r.d.mode = "surround") THEN r
            ELSE IF r.at + 1 = last THEN [r EXCEPT !.at = last]
            ELSE LET y == DemuxFrame(r.d, r.at + 1)
                 IN  go[[d |-> y, at |-> r.at + 1,
                         n |-> IF y.mode = "surround" THEN r.n + 1 ELSE r.n]]
    IN  go[[d |-> e, at |-> a, n |-> k]]

Detect ==
    /\ pc = "detect" /\ Detecting(at, count)
    /\ LET e == DemuxFrame(Reset(d), at)
           r == InARow(e, at, count)
       IN  IF e.mode = "surround"
           THEN d' = r.d /\ count' = r.n /\ at' = r.at + Skip
           ELSE d' = e /\ count' = 0 /\ at' = at + Skip
    /\ UNCHANGED <<fixed, last, pc, cur, old, help, from, find, mark, loop, lastPos, marks,
                   restarted>>

\* ac3Pass1 begins with the frame 1, the value that Get returns.
Detected ==
    /\ pc = "detect" /\ ~Detecting(at, count)
    /\ LET found == count >= DetectCount
       IN  /\ haveAC3' = found
           /\ pc' = IF found THEN "scan" ELSE IF online THEN "clean" ELSE "done"
           /\ cur' = IF online THEN cur ELSE 1
           /\ d' = [d EXCEPT !.mode = old]
    /\ from' = IF online THEN last ELSE from
    /\ mark' = 0 /\ cframe' = 0
    /\ UNCHANGED <<fixed, last, old, help, at, count, lo, hi, frames, markCount, scanDone,
                   lastPos, marks, restarted>>

(***************************************************************************)
(* The scan: one frame with sound every Skip frames.                       *)
(***************************************************************************)
\* Only a change from or to 5.1 counts.
Changed(m) == (old = "surround") # (m = "surround")

Sample ==
    /\ pc = "scan" /\ cur < last
    /\ LET r == FirstSound(Reset(d), cur, last)
       IN  /\ d' = r.d
           /\ IF Changed(r.d.mode)
              THEN /\ cur' = r.at
                   /\ help' = r.d.mode
                   /\ lo' = Max({r.at - Skip, IF online THEN 0 ELSE 1}) /\ hi' = r.at
                   /\ at' = 0
                   /\ pc' = IF online /\ hi' - lo' <= Few THEN "back" ELSE "halve"
                   /\ UNCHANGED lastPos
              ELSE /\ cur' = r.at + Skip
                   /\ lastPos' = IF r.d.mode = "surround" THEN r.at ELSE lastPos
                   /\ UNCHANGED <<help, lo, hi, at, pc>>
    /\ UNCHANGED <<fixed, last, old, detect, cframe, mark, loop, marks, restarted>>

\* Mutant of Halve: one end is taken to where the search has stopped.
HalveStays ==
    /\ pc = "halve" /\ hi - lo > Near
    /\ LET middle == lo + (hi - lo + 1) \div 2
           e == IF at = 0 THEN Reset(d) ELSE d
           r == FirstSound(e, IF middle = at THEN middle - 1 ELSE middle, hi)
       IN  /\ d' = r.d
           /\ at' = r.at
           /\ IF r.d.mode = help THEN hi' = at' /\ lo' = lo ELSE lo' = at' /\ hi' = hi
    /\ UNCHANGED <<fixed, last, pc, cur, old, help, detect, cframe, mark, loop, lastPos, marks,
                   restarted>>

\* find_ac3start: the middle moves on to the next frame with sound, and only
\* for the first one the demuxer is reset.
Halve ==
    /\ pc = "halve" /\ hi - lo > Near
    /\ LET middle == lo + (hi - lo + 1) \div 2
           e == IF at = 0 THEN Reset(d) ELSE d
           r == FirstSound(e, IF middle = at THEN middle - 1 ELSE middle, hi)
       IN  /\ d' = r.d
           /\ at' = Min({r.at, hi - 1})
           /\ IF r.d.mode = help THEN hi' = at' /\ lo' = lo ELSE lo' = at' /\ hi' = hi
    /\ UNCHANGED <<fixed, last, pc, cur, old, help, detect, cframe, mark, loop, lastPos, marks,
                   restarted>>

\* The last frames one by one, to the first of them that has the sound looked for.
Walk(e, f) ==
    LET go[r \in Reading] ==
            IF r.at > hi \/ r.d.mode = help THEN r
            ELSE go[[d |-> DemuxFrame([r.d EXCEPT !.mode = "none"], r.at + 1), at |-> r.at + 1]]
    IN  go[[d |-> [Reset(e) EXCEPT !.mode = "none"], at |-> f]]

\* A search that ends without the sound it looked for gives no mark if the
\* sound was, and then is, anything but 5.1.
Found ==
    /\ pc = "halve" /\ hi - lo <= Near
    /\ LET r == Walk(d, lo)
       IN  /\ d' = r.d /\ at' = r.at /\ cframe' = r.at - 1
           /\ pc' = IF old # "stereo" \/ r.d.mode = "surround" THEN "back" ELSE "next"
    /\ UNCHANGED <<fixed, last, cur, old, help, detect, lo, hi, mark, loop, lastPos, marks,
                   restarted>>

\* findVideoByPTS: back to the picture that is shown when the sound is heard.
VideoByPTS(e, f) ==
    LET go[r \in Reading] ==
            LET y == DemuxFrame(r.d, r.at)
            IN  IF r.at - 1 > 0 /\ y.vpts > e.apts THEN go[[d |-> y, at |-> r.at - 1]]
                ELSE [r EXCEPT !.d = y]
    IN  go[[d |-> Reset(e), at |-> f]]

Back ==
    /\ pc = "back"
    /\ LET r == VideoByPTS(d, cframe) IN d' = r.d /\ cframe' = r.at
    /\ pc' = "mark"
    /\ UNCHANGED <<fixed, last, cur, old, help, at, detect, lo, hi, mark, loop, lastPos, marks,
                   restarted>>

\* MarkToggle.
Toggled(p) == IF p \in marks THEN marks \ {p} ELSE marks \cup {p}

\* ac3Pass1 takes what GetNextIFrame returns, scanLoop looks at it.
Toggle ==
    /\ pc = "mark"
    /\ LET p == IF help = "surround" THEN NextI(cframe) ELSE PrevI(cframe)
       IN  IF online /\ p <= 0
           THEN /\ cur' = mark /\ restarted' = TRUE
                /\ pc' = "clean"
                /\ UNCHANGED <<mark, marks>>
           ELSE /\ mark' = p /\ marks' = Toggled(p)
                /\ pc' = "next"
                /\ UNCHANGED <<cur, restarted>>
    /\ UNCHANGED <<fixed, last, d, old, help, at, detect, find, loop, lastPos>>

\* Mutant of Proceed: the sound found is not the old one from now on.
ProceedForgets ==
    /\ pc = "next"
    /\ d' = [d EXCEPT !.mode = help]
    /\ lastPos' = IF help = "surround" THEN cur ELSE lastPos
    /\ cur' = cur + Skip
    /\ pc' = "scan"
    /\ UNCHANGED <<fixed, last, old, help, at, detect, find, mark, loop, marks, restarted>>

\* The sound found is the one to compare with from now on.
Proceed ==
    /\ pc = "next"
    /\ old' = help /\ d' = [d EXCEPT !.mode = help]
    /\ lastPos' = IF help = "surround" THEN cur ELSE lastPos
    /\ cur' = cur + Skip
    /\ pc' = "scan"
    /\ UNCHANGED <<fixed, last, help, at, detect, find, mark, loop, marks, restarted>>

(***************************************************************************)
(* The end of the recording, and of a round of scanLoop.                   *)
(***************************************************************************)

\* getActiveFrames: from every other mark to the next one; a last part that is
\* still open is left out if it begins with the frame 0.
Active(M) ==
    LET P == M \cap Nat
        Starts == {p \in P : Index(P, p) % 2 = 0}
        Length(p) == IF p # Max(P) THEN NextMark(P, p) - p
                     ELSE IF p # 0 THEN last - p ELSE 0
    IN  MapThenSumSet(Length, Starts)

\* Marks that leave too little of the recording are dropped.
PassDone ==
    /\ pc = "scan" /\ cur >= last /\ ~online
    /\ marks' = IF Active(marks) < (last * Cutoff) \div 100 THEN {} ELSE marks
    /\ pc' = "done"
    /\ UNCHANGED <<fixed, last, d, cur, old, help, at, detect, find, mark, loop, lastPos,
                   restarted>>

RoundDone ==
    /\ pc = "scan" /\ cur >= last /\ online
    /\ pc' = "clean"
    /\ UNCHANGED <<fixed, last, d, cur, old, help, at, detect, find, mark, loop, lastPos, marks,
                   restarted>>

Clean ==
    /\ pc = "clean"
    /\ marks' = IF Cardinality(marks) = markCount THEN marks
                ELSE CleanActive(CleanInactive(marks))
    /\ markCount' = Cardinality(marks')
    /\ IF haveAC3 /\ last - lastPos > ResetFrames
       THEN haveAC3' = FALSE /\ from' = lastPos + ResetSkip
       ELSE UNCHANGED <<haveAC3, from>>
    /\ pc' = IF scanDone THEN "done" ELSE "wait"
    /\ UNCHANGED <<fixed, last, d, cur, old, help, at, count, find, mark, frames, scanDone,
                   lastPos, restarted>>

Next ==
    \/ Wait \/ Detect \/ Detected
    \/ Sample \/ Halve \/ Found \/ Back \/ Toggle \/ Proceed
    \/ PassDone \/ RoundDone \/ Clean

Spec == Init /\ [][Next]_vars
FairSpec == Spec /\ WF_vars(Next)

-----------------------------------------------------------------------------
(***************************************************************************)
(* Properties.                                                             *)
(***************************************************************************)

\* The demuxer is only asked for frames that the index has, although the search
\* looks one frame behind its interval and nobody asks what Get returns
\* (mpeg_decoder.cpp, 294-302, 741); with one exception, the search at the very
\* end of a recording when the frame before the last one ends early.
InIndex == d.lost # -1 => d.lost - 2 \in rec.cut

\* The frames at which the sound that is heard becomes or ceases to be 5.1, each
\* with the frame of the sound before, -1 if there is none.
Edges ==
    LET Audible == {f \in 0..(last - 1) : Sound(f) # "none" /\ f \notin rec.cut}
        Before(f) == Max({-1} \cup {g \in Audible : g < f})
        Surround(f) == f # -1 /\ Sound(f) = "surround"
    IN  {<<Before(f), f>> : f \in {f \in Audible : Surround(f) # Surround(Before(f))}}

\* A mark is not farther than Slack from its change.
Around(m, e) == m \in (e[1] - Slack)..(e[2] + Slack)

\* The changes are so far apart that the scan meets each of them, and that while
\* the recording grows no marks are deleted for being close together.
Wide == IF online THEN Max({Skip, MinMark, MinActiveMark}) ELSE Skip
Apart(E) ==
    \A e \in E : \A b \in {0} \cup {f[2] : f \in E} : b < e[2] => e[1] - b > Wide + 2 * Slack

\* No silence before a change to 5.1 in which the search could end.
Heard(E) == \A e \in E : Sound(e[2]) = "surround" => e[2] - e[1] <= Near

\* Whatever samples the scan takes, whatever frames are silent or broken in the
\* middle of the search and wherever a round ends: when it has gone through all
\* frames there is one mark at each change between 5.1 and anything else and
\* none elsewhere (mpeg_decoder.cpp, 196-232; tnoad.cpp, 185-248).  It is a mark
\* at -1 for a change to 5.1 within the last frames of a complete recording.
\* Three things are presupposed: changes farther apart than the steps of the
\* scan and than what the cleanup of a round deletes, no long silence before a
\* change to 5.1, as then the search ends in it and the mark is left out
\* (mpeg_decoder.cpp, 223), and no round that was broken off, see MarksStay.
MarksAtChanges ==
    pc = "scan" /\ cur >= last /\ ~restarted =>
        LET E == Edges
        IN  Apart(E) /\ Heard(E) =>
            /\ \A e \in E : e[2] + Skip < last => \E m \in marks : Around(m, e)
            /\ \A m \in marks :
                \E e \in E : Around(m, e) \/ (m = -1 /\ e[2] >= last - Limit - Slack)
            /\ Cardinality(marks) <= Cardinality(E)

\* No mark is taken away again by the scan when the changes are far apart: a
\* round that finds no I-frame behind a change "let[s] the scan continue"
\* (tnoad.cpp, 236-241).
MarksStay == [][ pc = "mark" /\ Apart(Edges) => marks \subseteq marks' ]_vars

\* The search for the change ends, although the middle of its interval moves to
\* wherever there is sound, and so does the pass and, once the recording does
\* not grow any more, scanLoop (mpeg_decoder.cpp, 262-303; tnoad.cpp, 235-242).
Ends == <>(pc = "done")
=============================================================================
