------------------------------- MODULE IndexFile -------------------------------
(***************************************************************************)
(* The index of a recording that VDR still writes, as noad reads it        *)
(* (cIndexFile, cNoadIndexFile and cFileName in src/vdr_cl.cpp), and the   *)
(* rounds of scanLoop that wait for it to grow (src/tnoad.cpp).            *)
(*                                                                         *)
(* VDR appends a record to the index for every frame, then the data of the *)
(* frame to one of the numbered files.  It may be killed in between, or in *)
(* the middle of a record, and go on after a restart: it then fills the    *)
(* cut record up.                                                          *)
(***************************************************************************)
EXTENDS Integers, Sequences, FiniteSetsExt

CONSTANTS
    MaxRecords,   \* bound: records VDR writes
    MaxFiles,     \* bound: numbered files, MAXFILESPERRECORDING... in the code
    IFrames,      \* the frames that are independent
    Heap,         \* what memory that new has not initialised may hold
    IsPes,        \* isPesRecording: records are converted when they are read
    NewFrames,    \* NEWFRAMES
    MinFrames,    \* MINFRAMESTOSTART
    Limit,        \* INDEXSAFETYLIMIT
    None          \* NULL

ASSUME IndexFileAssumption ==
    /\ MaxRecords \in Nat /\ MaxFiles \in Nat \ {0}
    /\ Heap \subseteq [number : 0..MaxFiles, iframe : BOOLEAN]
    /\ IFrames \subseteq Nat /\ IsPes \in BOOLEAN
    /\ NewFrames \in Nat \ {0} /\ MinFrames \in Nat /\ Limit \in Nat

VARIABLES
    records,      \* the file number in each whole record of the index
    half,         \* a part of one more record is there
    padded,       \* records that have been filled up
    settled,      \* records whose data is on the disk, or lost for good
    recording,    \* VDR writes the recording
    gone,         \* the directory has been renamed: the user has deleted it
    index,        \* index: the entries in memory, from 0 on
    fd,           \* f >= 0: the index is open
    last, size,
    interval,     \* only in test mode is it not 0
    lastGetValue,
    fileNumber,   \* cFileName.fileNumber
    file,         \* the number of the file that is open, 0 for NULL
    frameCount,   \* lastFrameCount of scanLoop
    scanDone,
    pc,
    opened,       \* history: last, after the index has been opened
    seen,         \* history: the records there were at the last CatchUp
    lull,         \* history: there were no more of them than at the one before
    got           \* history: the frame that was read last, -1 for none

vdr == <<records, half, padded, settled, recording, gone>>
entries == <<index, fd, last, size, lastGetValue>>
data == <<fileNumber, file, got>>
history == <<opened, seen, lull>>
vars == <<vdr, entries, interval, data, frameCount, scanDone, pc, history>>

whole == Len(records)
\* Records that a crash has cut.
Damaged == padded \cup (IF half THEN {whole} ELSE {})

(***************************************************************************)
(* VDR and the user                                                        *)
(***************************************************************************)
\* A record goes to the current file or, if that is full, to the next.
WriteRecord ==
    /\ recording /\ whole < MaxRecords
    /\ \E n \in 1..MaxFiles :
          /\ IF whole = 0 THEN n = 1 ELSE n - records[whole] \in {0, 1}
          /\ records' = Append(records, n)
    /\ UNCHANGED <<half, padded, settled, recording, gone>>

WriteData ==
    /\ recording /\ settled < whole
    /\ settled' = settled + 1
    /\ UNCHANGED <<records, half, padded, recording, gone>>

EndRecording ==
    /\ recording /\ settled = whole /\ recording' = FALSE
    /\ UNCHANGED <<records, half, padded, settled, gone>>

Crash ==
    /\ recording /\ recording' = FALSE
    /\ half' \in BOOLEAN /\ (half' => whole < MaxRecords)
    /\ settled' = whole
    /\ UNCHANGED <<records, padded, gone>>

\* cIndexFile::cIndexFile(..., true) fills the cut record up.
Restart ==
    /\ ~recording /\ whole > 0 /\ ~gone
    /\ recording' = TRUE /\ half' = FALSE
    /\ padded' = Damaged
    /\ records' = IF half THEN Append(records, records[whole]) ELSE records
    /\ settled' = Len(records')
    /\ UNCHANGED gone

DeleteRecording ==
    /\ ~recording /\ ~gone /\ gone' = TRUE
    /\ UNCHANGED <<records, half, padded, settled, recording>>

VDRStep == /\ WriteRecord \/ WriteData \/ EndRecording \/ Crash \/ Restart \/ DeleteRecording
           /\ UNCHANGED <<entries, interval, data, frameCount, scanDone, pc, history>>

(***************************************************************************)
(* Reading the index                                                       *)
(***************************************************************************)
\* What is read of record i, and what was where it is read to if it is damaged.
Garbage == [number : 0..MaxFiles, iframe : BOOLEAN]

Entry(i, garbage) ==
    [record |-> i,
     number |-> IF i \in Damaged THEN garbage.number ELSE records[i + 1],
     iframe |-> IF i \in Damaged THEN garbage.iframe ELSE i \in IFrames,
     converted |-> IF IsPes THEN 1 ELSE 0]

\* An entry that new has made and nothing has been read to.
Unset(garbage) ==
    [record |-> -1, number |-> garbage.number, iframe |-> garbage.iframe, converted |-> 0]

\* open() has failed: all entries are such ones, and CatchUp reads none.
Unread == index # None /\ ~fd

Last == IF interval # 0 THEN lastGetValue ELSE last

\* GetNextIFrame on an index of this length.
NextIFrame(entry, end, i, forward, stayOff) ==
    LET InRange(j) == 0 <= j /\ j < end - (IF forward /\ stayOff THEN Limit ELSE 0)
        onTheWay == IF forward THEN (i + 1)..end ELSE 0..(i - 1)
        found == {j \in onTheWay : InRange(j) /\ entry[j].iframe}
    IN  IF entry = None \/ found = {} \/ (~forward /\ ~InRange(i - 1)) THEN -1
        ELSE IF forward THEN Min(found) ELSE Max(found)

\* Mutant of Enlarged: the last entry needs no room.
EnlargedShort(newLast) ==
    IF size >= newLast THEN size ELSE IF 2 * size >= newLast THEN 2 * size ELSE newLast

Enlarged(newLast) ==
    IF size > newLast THEN size ELSE IF 2 * size > newLast THEN 2 * size ELSE newLast + 1

\* Mutant of Load: the whole index is converted once more.
LoadAgain(newLast) ==
    /\ \E g \in Garbage :
          index' = [i \in 0..newLast |->
                   IF i > last THEN Entry(i, g)
                   ELSE [index[i] EXCEPT !.converted = IF IsPes THEN @ + 1 ELSE @]]
    /\ last' = newLast /\ size' = Enlarged(newLast)

\* The entries behind the last one are read.
Load(newLast) ==
    /\ \E g \in Garbage :
          index' = [i \in 0..newLast |-> IF i > last THEN Entry(i, g) ELSE index[i]]
    /\ last' = newLast /\ size' = Enlarged(newLast)

\* cIndexFile::CatchUp: a record that is half there is left for later, and
\* if the index cannot be read there is none any more.
ReadIndex ==
    IF index # None /\ fd /\ whole - 1 > last
    THEN \/ Load(whole - 1) /\ UNCHANGED fd
         \/ index' = None /\ fd' = FALSE /\ UNCHANGED <<last, size>>
    ELSE UNCHANGED <<index, fd, last, size>>

\* Mutant of Step: an interval that leaves the index is kept.
StepUnclamped ==
    lastGetValue' =
        IF interval = 0 THEN lastGetValue
        ELSE NextIFrame(index', last', lastGetValue + 2 * interval, TRUE, TRUE) - 1

\* cNoadIndexFile::CatchUp goes on in steps, in test mode.
Step ==
    lastGetValue' =
        IF interval = 0 THEN lastGetValue
        ELSE LET next == NextIFrame(index', last', lastGetValue + 2 * interval,
                                    TRUE, TRUE) - 1
             IN  IF next > last' \/ next < 0 THEN last' ELSE next

CatchUp ==
    /\ ReadIndex /\ Step
    /\ seen' = IF whole > seen THEN whole ELSE seen
    /\ lull' = (whole <= seen)
    /\ UNCHANGED opened

(***************************************************************************)
(* Reading the frames                                                      *)
(***************************************************************************)
FileExists(n) == ~gone /\ (n = 1 \/ \E i \in 1..whole : records[i] = n)

\* Mutant of SetOffset: an open file is kept whatever the number.
SetOffsetKept(n) ==
    IF n \in 1..MaxFiles
    THEN /\ fileNumber' = n
         /\ file' = IF file # 0 THEN file ELSE IF FileExists(n) THEN n ELSE 0
    ELSE file' = file /\ UNCHANGED fileNumber

\* cFileName::SetOffset and Open.
SetOffset(n) ==
    LET open == IF fileNumber = n THEN file ELSE 0
    IN  IF n \in 1..MaxFiles
        THEN /\ fileNumber' = n
             /\ file' = IF open # 0 THEN open ELSE IF FileExists(n) THEN n ELSE 0
        ELSE file' = open /\ UNCHANGED fileNumber

\* Get gives a frame before the last one; a missing file makes ReadFrame
\* kill noad.
ReadFrame ==
    /\ pc = "scan" /\ index # None
    /\ \E i \in 0..(last - 1) :
          /\ i < Last /\ got' = i
          /\ SetOffset(index[i].number)
          /\ pc' = IF file' = 0 THEN "killed" ELSE "scan"
    /\ UNCHANGED <<vdr, entries, interval, frameCount, scanDone, history>>

(***************************************************************************)
(* scanLoop                                                                *)
(***************************************************************************)
Init ==
    /\ records = <<>> /\ half = FALSE /\ padded = {} /\ settled = 0
    /\ recording = TRUE /\ gone = FALSE
    /\ index = None /\ fd = FALSE /\ last = -1 /\ size = 0
    /\ interval \in {0, NewFrames} /\ lastGetValue = 0
    /\ fileNumber = 0 /\ file = 0
    /\ frameCount = 0 /\ scanDone = FALSE /\ pc = "new"
    /\ opened = -1 /\ seen = 0 /\ lull = FALSE /\ got = -1

\* There is no index, or access or stat fails.
NoIndex == index' = None /\ last' = -1 /\ size' = 0 /\ fd' = FALSE

\* Then open fails: there is memory for the entries already, and it is kept.
NotOpened(count) ==
    /\ index' \in [0..(count - 1) -> {Unset(g) : g \in Heap}]
    /\ last' = count - 1 /\ size' = count /\ fd' = FALSE

NotRead(count) == index' = None /\ last' = count - 1 /\ size' = count /\ fd' = FALSE

\* The constructors.  A record that is half there is counted as one, and the
\* rest of its entry is not set.
Open ==
    /\ pc = "new" /\ FileExists(1)
    /\ LET count == whole + IF half THEN 1 ELSE 0
       IN  \/ NoIndex
           \/ count > 0 /\ (NotOpened(count) \/ NotRead(count))
           \/ count > 0 /\ Load(count - 1) /\ fd' = TRUE
    /\ fileNumber' = 1 /\ file' = 1
    /\ opened' = last' /\ seen' = last' + 1 /\ lull' = FALSE
    /\ pc' = IF interval = 0 THEN "wait" ELSE "spin"
    /\ UNCHANGED <<vdr, lastGetValue, interval, got, frameCount, scanDone>>

\* In test mode it begins with so many frames, or never.
Spin ==
    /\ pc = "spin"
    /\ IF Last < MinFrames
       THEN CatchUp /\ UNCHANGED pc
       ELSE pc' = "wait" /\ UNCHANGED <<entries, history>>
    /\ UNCHANGED <<vdr, interval, data, frameCount, scanDone>>

\* A round begins: with the frames there are, if they are enough.
Round ==
    /\ pc = "wait" /\ UNCHANGED interval
    /\ IF interval = 0 THEN UNCHANGED <<entries, history>> ELSE CatchUp
    /\ IF Last' - frameCount < NewFrames
       THEN pc' = "sleep" /\ UNCHANGED frameCount
       ELSE pc' = "scan" /\ frameCount' = Last'
    /\ UNCHANGED <<vdr, data, scanDone>>

\* After the first sleep.
Wake ==
    /\ pc = "sleep" /\ CatchUp /\ pc' = "settle"
    /\ UNCHANGED <<vdr, interval, data, frameCount, scanDone>>

\* Mutant of Settle: the second sleep is left out.
SettleAtOnce ==
    /\ pc = "settle" /\ pc' = "scan"
    /\ scanDone' = (scanDone \/ frameCount = Last)
    /\ frameCount' = Last
    /\ UNCHANGED <<vdr, entries, interval, data, history>>

\* Mutant of Settle: the new number of frames is compared with itself.
SettleDone ==
    /\ pc = "settle" /\ (settled > last \/ settled = whole)
    /\ frameCount' = Last
    /\ scanDone' = (scanDone \/ frameCount' = Last)
    /\ pc' = "scan"
    /\ UNCHANGED <<vdr, entries, interval, data, history>>

\* Mutant of Settle: the number is brought up to date only by Round.
SettleNever ==
    /\ pc = "settle" /\ (settled > last \/ settled = whole)
    /\ scanDone' = (scanDone \/ frameCount = Last)
    /\ pc' = "scan"
    /\ UNCHANGED <<vdr, entries, interval, data, frameCount, history>>

\* After the second one, in which VDR writes the data of the records that
\* have been read.
Settle ==
    /\ pc = "settle" /\ (settled > last \/ settled = whole)
    /\ scanDone' = (scanDone \/ frameCount = Last)
    /\ frameCount' = Last
    /\ pc' = "scan"
    /\ UNCHANGED <<vdr, entries, interval, data, history>>

EndRound ==
    /\ pc = "scan" /\ pc' = IF scanDone THEN "done" ELSE "wait"
    /\ UNCHANGED <<vdr, entries, interval, data, frameCount, scanDone, history>>

Next ==
    \/ VDRStep
    \/ Open \/ Spin \/ Round \/ Wake \/ Settle \/ ReadFrame \/ EndRound

Spec == Init /\ [][Next]_vars

\* noad's thread goes on, a round ends, VDR writes the data it has announced;
\* whether it writes more records is its own affair.
FairSpec ==
    /\ Spec
    /\ WF_vars(Open) /\ WF_vars(Spin) /\ WF_vars(Round) /\ WF_vars(Wake)
    /\ WF_vars(Settle) /\ WF_vars(EndRound)
    /\ WF_vars(WriteData /\ VDRStep)

(***************************************************************************)
(* Properties                                                              *)
(***************************************************************************)
\* However often the index is caught up with, and whatever was cut by a crash
\* and filled up in the meantime, entry i is record i, converted as often as
\* it must be, and there is room for the last one (vdr_cl.cpp, 276-454).  The
\* exception is an index that could be looked at but not opened: the memory
\* for it is kept as it is (vdr_cl.cpp, 311-331).
Faithful ==
    index # None =>
        /\ DOMAIN index = 0..last /\ last < size
        /\ ~Unread => \A i \in 0..last :
              /\ index[i].record = i
              /\ index[i].converted = IF IsPes THEN 1 ELSE 0
              /\ i \notin Damaged => /\ index[i].number = records[i + 1]
                                    /\ index[i].iframe = (i \in IFrames)

\* The number of frames never falls, and an entry that scanLoop may have used
\* never changes, in test mode too (vdr_cl.cpp, 399-454, 780-791).
OnlyGrows ==
    [][ pc # "new" /\ index # None =>
            /\ Last' >= Last
            /\ index' # None => \A i \in 0..last : index'[i] = index[i] ]_vars

\* "vdr writes data after index!" (tnoad.cpp, 119): no frame is scanned before
\* its data is there, but for those that were in the index at the start, and
\* outside of test mode.
DataThere ==
    pc = "scan" /\ interval = 0 => \A i \in 0..(frameCount - 1) : i < settled \/ i <= opened

\* The scan ends only after a sleep in which VDR has written no record, and
\* with all frames scanned; or if the index could not be read, or not opened,
\* when CatchUp says that all is well and reads nothing (tnoad.cpp, 107-133
\* and 372, vdr_cl.cpp, 399-454).
EndsInLull == scanDone /\ index # None /\ ~Unread => lull /\ frameCount = last

\* A frame is read from the file its record names; noad kills itself only if
\* the recording has been deleted, the record is a damaged one or the index
\* could not be opened (vdr_cl.cpp, 75-193 and 311-331, tools.cpp, 784-790).
ReadsOwnFile ==
    got \in 0..(whole - 1) /\ got \notin Damaged /\ ~Unread =>
        IF pc = "killed" THEN gone ELSE file = records[got + 1]

\* Once VDR has stopped writing, the scan ends, but for a test with too short
\* a recording.
Ends == pc # "new" ~> (pc \in {"done", "killed"} \/ (interval # 0 /\ last < MinFrames))

=============================================================================
