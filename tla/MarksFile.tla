------------------------------ MODULE MarksFile ------------------------------
(***************************************************************************)
(* The marks of a recording on disk: the file marks.vdr, the temporary     *)
(* file marks.vdr.$$$ through which cConfig::Save and cSafeFile replace it *)
(* and the copy marks0.vdr of --backupmarks, as one scanRecord after the   *)
(* other, or two at a time, work on them (src/vdr_cl.h, src/tools.cpp,     *)
(* src/vdr_cl.cpp, src/noad.cpp, src/mpeg_decoder.cpp).                    *)
(*                                                                         *)
(* A directory entry leads to an inode, so that a writer keeps the inode   *)
(* it opened when the name is unlinked or renamed.  What is in a list of   *)
(* marks does not matter here: a file holds one complete version of the    *)
(* list, or nothing, or a mixture.                                         *)
(***************************************************************************)
EXTENDS Integers, FiniteSets

CONSTANTS
    Writer,      \* the noad processes that scan this recording
    Inode,       \* enough inodes for the three names and every open file
    NoFile,        \* no file, no inode, no version
    User,        \* who made the marks that exist before the first run
    Empty,       \* the contents of a file just created or truncated
    Torn,        \* a part of a version, or parts of two
    BackupMarks, \* --backupmarks
    UseAudio,    \* --ac3
    MaxRuns,     \* bound: scans started
    MaxSaves,    \* bound: changes of the marks a process saves
    MaxCrashes,  \* bound: processes that die
    IOFaults     \* calls of Save that may fail: "fopen", "fclose"

ASSUME MarksFileAssumption ==
    /\ User \notin Writer /\ NoFile \notin Inode
    /\ IsFiniteSet(Writer) /\ IsFiniteSet(Inode)
    /\ Cardinality(Inode) >= 3 + Cardinality(Writer)
    /\ {NoFile, Empty, Torn} \cap [by : Writer \cup {User}, n : Nat] = {}
    /\ NoFile \notin {Empty, Torn}
    /\ BackupMarks \in BOOLEAN /\ UseAudio \in BOOLEAN
    /\ MaxRuns \in Nat /\ MaxSaves \in Nat /\ MaxCrashes \in Nat
    /\ IOFaults \subseteq {"fopen", "fclose"}

VARIABLES
    dir,      \* the inode each name leads to
    data,     \* what is in each inode
    pc,       \* where each process is in scanRecord or in Save
    ret,      \* where in scanRecord Save returns to
    fd,       \* the inode of the open cSafeFile of each process
    version,  \* the number of changes each process has made to its list
    saved,    \* history: the version a run last put into marks.vdr
    overlap,  \* history: two processes have been inside Save together
    runs,     \* scans started so far
    crashes   \* processes that died so far

fileVars == <<dir, data, pc, ret, fd, version, saved, overlap, runs, crashes>>

Names == {"marks", "temp", "backup"}

Version == [by : Writer \cup {User}, n : 0..MaxSaves]
UserMarks == [by |-> User, n |-> 0]
Own(w) == [by |-> w, n |-> version[w]]

SaveLabels == {"fclose", "remove", "rename", "unlink"}
ScanLabels == {"begin", "audio", "dropped", "logo", "cleanup"}
Labels == {"idle", "done", "crashed", "fopen"} \cup SaveLabels \cup ScanLabels

FileInit ==
    /\ \E exists \in BOOLEAN :
         /\ dir = [name \in Names |-> IF name = "marks" /\ exists
                                     THEN CHOOSE i \in Inode : TRUE ELSE NoFile]
         /\ data = [i \in Inode |->
                      IF i = dir["marks"] THEN UserMarks ELSE Empty]
    /\ pc = [w \in Writer |-> "idle"]
    /\ ret = [w \in Writer |-> "done"]
    /\ fd = [w \in Writer |-> NoFile]
    /\ version = [w \in Writer |-> 0]
    /\ saved = [w \in Writer |-> NoFile]
    /\ overlap = FALSE /\ runs = 0 /\ crashes = 0

Goto(w, label) == pc' = [pc EXCEPT ![w] = label]

\* Names and open files.
InUse == {dir[name] : name \in Names} \cup {fd[w] : w \in Writer}

\* The inode of a new file; which one it is makes no difference.
NewInode == CHOOSE i \in Inode : i \notin InUse

-----------------------------------------------------------------------------
(* cConfig::Save with a cSafeFile.                                         *)

\* A change of the list that is saved; Save comes back to label.
CallSave(w, label) ==
    /\ version[w] < MaxSaves
    /\ version' = [version EXCEPT ![w] = @ + 1]
    /\ ret' = [ret EXCEPT ![w] = label]
    /\ Goto(w, "fopen")
    /\ UNCHANGED <<dir, data, fd, saved, overlap, runs, crashes>>

\* cSafeFile::Open: fopen(tempName, "w") creates the file or empties it.
Open(w) ==
    /\ pc[w] = "fopen"
    /\ overlap' = (overlap \/ \E v \in Writer \ {w} : pc[v] \in SaveLabels)
    /\ \/ /\ dir' = [dir EXCEPT !["temp"] = IF @ = NoFile THEN NewInode ELSE @]
          /\ data' = [data EXCEPT ![dir'["temp"]] = Empty]
          /\ fd' = [fd EXCEPT ![w] = dir'["temp"]]
          /\ Goto(w, "fclose")
       \/ /\ "fopen" \in IOFaults
          /\ Goto(w, "unlink")
          /\ UNCHANGED <<dir, data, fd>>
    /\ UNCHANGED <<ret, version, saved, runs, crashes>>

\* What the file holds after the buffer of w has been written: the rest of a
\* longer version that was in it stays behind.
Written(w) == IF data[fd[w]] = Empty THEN {Own(w)} ELSE {Own(w), Torn}

\* A mutant of Flush: the result of fclose is not looked at.
FlushUnchecked(w) ==
    /\ pc[w] = "fclose"
    /\ \/ \E content \in Written(w) : data' = [data EXCEPT ![fd[w]] = content]
       \/ /\ "fclose" \in IOFaults
          /\ data' = [data EXCEPT ![fd[w]] = Torn]
    /\ Goto(w, "remove")
    /\ fd' = [fd EXCEPT ![w] = NoFile]
    /\ UNCHANGED <<dir, ret, version, saved, overlap, runs, crashes>>

\* The first half of cSafeFile::Close: ferror, fclose.
Flush(w) ==
    /\ pc[w] = "fclose"
    /\ \/ /\ \E content \in Written(w) : data' = [data EXCEPT ![fd[w]] = content]
          /\ Goto(w, "remove")
       \/ /\ "fclose" \in IOFaults
          /\ data' = [data EXCEPT ![fd[w]] = Torn]
          /\ Goto(w, "unlink")
    /\ fd' = [fd EXCEPT ![w] = NoFile]
    /\ UNCHANGED <<dir, ret, version, saved, overlap, runs, crashes>>

\* A mutant of RemoveMarks: the result 0 of remove() taken for a failure.
RemoveAndReturn(w) ==
    /\ pc[w] = "remove"
    /\ dir' = [dir EXCEPT !["marks"] = NoFile]
    /\ Goto(w, IF dir["marks"] = NoFile THEN "rename" ELSE "unlink")
    /\ UNCHANGED <<data, ret, fd, version, saved, overlap, runs, crashes>>

\* remove(fileName)
RemoveMarks(w) ==
    /\ pc[w] = "remove"
    /\ dir' = [dir EXCEPT !["marks"] = NoFile]
    /\ Goto(w, "rename")
    /\ UNCHANGED <<data, ret, fd, version, saved, overlap, runs, crashes>>

\* rename(tempName, fileName), which fails when the temporary file is gone.
Rename(w) ==
    /\ pc[w] = "rename"
    /\ IF dir["temp"] = NoFile
       THEN UNCHANGED <<dir, saved>>
       ELSE /\ dir' = [dir EXCEPT !["marks"] = dir["temp"], !["temp"] = NoFile]
            /\ saved' = [saved EXCEPT ![w] = Own(w)]
    /\ Goto(w, "unlink")
    /\ UNCHANGED <<data, ret, fd, version, overlap, runs, crashes>>

\* The destructor of cSafeFile.  No caller looks at the result of Save.
Unlink(w) ==
    /\ pc[w] = "unlink"
    /\ dir' = [dir EXCEPT !["temp"] = NoFile]
    /\ Goto(w, ret[w])
    /\ UNCHANGED <<data, ret, fd, version, saved, overlap, runs, crashes>>

-----------------------------------------------------------------------------
(* scanRecord.                                                             *)

Start(w) ==
    /\ pc[w] \in {"idle", "done", "crashed"}
    /\ runs < MaxRuns
    /\ runs' = runs + 1
    /\ saved' = [saved EXCEPT ![w] = NoFile]
    /\ Goto(w, "begin")
    /\ UNCHANGED <<dir, data, ret, fd, version, overlap, crashes>>

\* cMarks::Backup: rename(marks.vdr, marks0.vdr), if --backupmarks is given.
Backup(w) ==
    IF BackupMarks /\ dir["marks"] # NoFile
    THEN /\ dir' = [dir EXCEPT !["backup"] = dir["marks"], !["marks"] = NoFile]
         /\ saved' = [saved EXCEPT ![w] = NoFile]
    ELSE UNCHANGED <<dir, saved>>

\* The first Backup, and then the audio pass or the logo.
Begin(w) ==
    /\ pc[w] = "begin"
    /\ Backup(w)
    /\ Goto(w, IF UseAudio THEN "audio" ELSE "dropped")
    /\ UNCHANGED <<data, ret, fd, version, overlap, runs, crashes>>

\* ac3Pass1: every change of the sound toggles a mark and saves the list.
AudioToggle(w) == pc[w] = "audio" /\ CallSave(w, "audio")

\* The pass is kept, or finds no AC3 or too little and empties the list.
AudioEnds(w) ==
    /\ pc[w] = "audio"
    /\ \E next \in {"cleanup", "dropped"} : Goto(w, next)
    /\ UNCHANGED <<dir, data, ret, fd, version, saved, overlap, runs, crashes>>

\* detectLogo finds nothing and scanRecord returns.
NoLogo(w) ==
    /\ pc[w] = "dropped"
    /\ Goto(w, "done")
    /\ UNCHANGED <<dir, data, ret, fd, version, saved, overlap, runs, crashes>>

\* The logo is found: the second Backup, Load and ClearList.
LogoFound(w) ==
    /\ pc[w] = "dropped"
    /\ Backup(w)
    /\ Goto(w, "logo")
    /\ UNCHANGED <<data, ret, fd, version, overlap, runs, crashes>>

LogoToggle(w) == pc[w] = "logo" /\ CallSave(w, "logo")

LogoEnds(w) ==
    /\ pc[w] = "logo"
    /\ Goto(w, "cleanup")
    /\ UNCHANGED <<dir, data, ret, fd, version, saved, overlap, runs, crashes>>

\* MarkCleanup saves after every moveMark; the last Save ends scanRecord.
MoveAndSave(w) == pc[w] = "cleanup" /\ CallSave(w, "cleanup")
LastSave(w) == pc[w] = "cleanup" /\ CallSave(w, "done")

-----------------------------------------------------------------------------
\* A signal, a crash, a loss of power.  exit() in the signal handler writes
\* out what is in the buffer of an open file.
Die(w) ==
    /\ crashes < MaxCrashes
    /\ pc[w] \notin {"idle", "done", "crashed"}
    /\ crashes' = crashes + 1
    /\ \/ data' = data
       \/ /\ pc[w] = "fclose"
          /\ \E content \in {Own(w), Torn} :
               data' = [data EXCEPT ![fd[w]] = content]
    /\ fd' = [fd EXCEPT ![w] = NoFile]
    /\ Goto(w, "crashed")
    /\ UNCHANGED <<dir, ret, version, saved, overlap, runs>>

FileNext ==
    \E w \in Writer :
        \/ Open(w) \/ Flush(w) \/ RemoveMarks(w) \/ Rename(w) \/ Unlink(w)
        \/ Start(w) \/ Begin(w) \/ AudioToggle(w) \/ AudioEnds(w)
        \/ NoLogo(w) \/ LogoFound(w) \/ LogoToggle(w) \/ LogoEnds(w)
        \/ MoveAndSave(w) \/ LastSave(w) \/ Die(w)

FileSpec == FileInit /\ [][FileNext]_fileVars

-----------------------------------------------------------------------------
(* Properties.                                                             *)

\* What cMarks::Load of another program (vdr, checkMarks) finds.
Loaded(name) == IF dir[name] = NoFile THEN NoFile ELSE data[dir[name]]
Complete(name) == Loaded(name) \in Version

\* A reader of marks.vdr, or of the copy, meets a complete list or no file,
\* through every crash and failing call, as long as no two processes have been
\* inside Save at the same time.
NeverTorn ==
    ~overlap => \A name \in {"marks", "backup"} :
                    Loaded(name) # NoFile => Loaded(name) \in Version

\* A Save that fails half-way leaves the marks of the last successful Save in
\* place: they are in marks.vdr, except between remove and rename, where the
\* complete new version waits in the temporary file.  This is the promise to a
\* process that has the recording for itself.
DurableSave ==
    \A w \in Writer :
        saved[w] # NoFile /\ (\A v \in Writer \ {w} : pc[v] = "idle") =>
            \/ Loaded("marks") = saved[w]
            \/ /\ pc[w] \in {"rename", "crashed"}
               /\ Loaded("marks") = NoFile /\ Loaded("temp") = Own(w)

Recoverable == \E name \in Names : Complete(name)

\* Marks that are on disk are lost in one way only: a process died between
\* remove and rename, and the next Save empties the temporary file that holds
\* the only copy.
LostOnlyByReopening ==
    [][~overlap' /\ Recoverable =>
         \/ Recoverable'
         \/ /\ crashes > 0 /\ dir["marks"] = NoFile /\ Complete("temp")
            /\ \E w \in Writer : pc[w] \in {"fopen", "unlink"} /\ pc'[w] # pc[w]
      ]_fileVars

=============================================================================
