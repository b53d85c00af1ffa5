# A verification project for noad

noad looks for the advertisements in a recording of VDR. It finds the corner
and the shape of the station's logo, scans the recording for the places where
the logo comes and goes, and writes them as marks to `marks.vdr`. This
directory holds TLA+ modules of the parts of noad that have states and orders
to get wrong, configurations that check them with TLC on small instances, and
proofs of their main theorems for TLAPS. `src/` is the reference; every
definition that stands for code is listed with its lines in `PROJECT.json`
under `map`, and what can go wrong in the code under `hazards`.

- [The system](#the-system)
- [Modules](#modules)
- [Runs](#runs)
- [Fairness](#fairness)
- [Proofs](#proofs)
- [What the checks found](#what-the-checks-found)
- [What is not modelled](#what-is-not-modelled)
- [Plan](#plan)

## The system

One call of `noad` works on one recording. VDR calls it twice, before and after
the recording (README.en, 205): the first one can scan while VDR still writes
(`--online`), the second scans the complete recording. Users call it by hand as
well, with the same recording, at any time. Inside a process everything runs in
one thread; what runs concurrently is noad, other instances of noad, VDR (which
appends to `index.vdr` and reads `marks.vdr`) and programs like `checkMarks`.

| component | state | operations | interacts with |
|---|---|---|---|
| **instances and `noad.pid`** (main.cpp, tools.cpp 921-1010) | `noad.pid`; per process its place in `main`, the loop counter `i`, `olPid` | `make_pidfile`, `processInfo`, `kill`, `rm_pidfile`, the signal handler, `cleanUp` | all other instances, through the file and through signals |
| **storage of the marks** (tools.cpp 474-539, vdr_cl.h 255-337, vdr_cl.cpp 894-939) | `marks.vdr`, `marks.vdr.$$$`, `marks0.vdr`, the open file | `cConfig::Load`, `Save`, `cSafeFile`, `cMarks::Backup` | VDR and others that read the marks, another noad that writes them |
| **list of marks** (vdr_cl.cpp 837-1030, tools.cpp 653-765) | a linked list of nodes with position, comment and `checked` | `Add`, `Del`, `Sort`, `Get*`, `Load`, `Save`, `MarkToggle`, `moveMark` | every scan and every later pass holds pointers to its nodes |
| **times of marks** (vdr_cl.cpp 1085-1107) | none | `IndexToHMSF`, `HMSFToIndex` | the list, when it is saved and loaded |
| **index of a recording** (vdr_cl.cpp 75-791) | the entries in memory, `last`, the open file | `Get`, `GetNextIFrame`, `CatchUp`, `SetOffset` | VDR, which appends to index and data while noad reads |
| **search for logo changes** (noad.cpp, cchecklogo.cpp) | the frame, the last I-frame, the debouncer of `CCheckLogo` | `findLogoChange`, `checkLogoState`, `checkTestlines` | the decoder, which calls back with every picture |
| **offline scan** (noad.cpp `scanRecord`) | state, old state, stop and restart frame | the loop of coarse and fine searches | search, list, logo search |
| **online scan** (tnoad.cpp `scanLoop`) | the same, and what it carries over from round to round | wait, search for a logo, scan the new frames, clean up | the growing index |
| **refinement of the marks** (noad.cpp) | the list; the mark a pass is at; whether there are black lines | `MarkCleanup`, `detectBlacklines`, black lines and frames, `pass2a`, overlap detection, `checkMarkPair`, `pass3` | the list, by pointers that live across deletions |
| **search for the logo** (cgetlogo.cpp, ccontrol.cpp, cchecklogo.cpp, noaddata.cpp) | the counters of each corner, the testlines, the buffers, who points to them | `newData` per picture, `setGrabSize`, `initBuffer`, `doLogoDetection`, `checkLogo` | the decoder's callback |
| **AC3 detection** (mpeg_decoder.cpp, tnoad.cpp 107-250) | the sound last heard, what the demuxer carries from frame to frame | `detect_ac3_51`, `ac3Pass1`, `find_ac3start`, `findVideoByPTS` | list, index |
| **SVDRP client** (svdrpc.cpp) | socket, replies still to come | `Open`, `Send`, `ReadReply`, `CmdQuit` | VDR |
| pictures, demultiplexing, decoders, sound pass, tools and scripts, command line | | | see [What is not modelled](#what-is-not-modelled) |

### What is hard, and what has to hold

- *Instances.* Creating `noad.pid` and writing the pid are two system calls; it
  is removed by name, up to twice, by whoever ends; signals arrive before
  handlers are installed. It has to exclude two scans, leave no stale file, and
  end for everybody.
- *Storage.* A save is five system calls on two names, and any of them can
  fail, or the process die between them. A reader must never see half a list,
  and marks that were saved must not get lost.
- *List.* `Add` sorts by swapping the contents of nodes, not the nodes. Pointers
  that a pass holds may afterwards denote another mark. The list has to stay
  sorted and free of duplicates, and comments have to stay with their marks.
- *Scans.* A coarse search jumps ahead, a fine one goes back, a search may be
  given up, restarted with another logo, or (online) be broken off since there
  are too few frames. The marks must come in order, in step with the state of
  the logo, on I-frames, near the change they stand for, and the scan must end.
- *Refinement.* Passes delete marks that their callers still hold, take every
  second mark for a start, and search up to a neighbour that may be near. Marks
  must stay as many and in their order, and no pointer may lead astray.
- *Index.* VDR is seen in the middle of a record, or writes data later than the
  index; a recording is damaged or deleted while it is scanned.
- *Search for the logo.* A change of the picture size replaces, in a callback,
  the buffers that the loops above it work on.
- *Sound.* The search for the frame at which the sound changes halves an
  interval whose middle moves; silent and broken frames come in between.
- *SVDRP.* Answers that are late, in parts, or never come.

## Modules

| module | models | with |
|---|---|---|
| `PidFile` | instances of noad on one recording | `OnlineProofs`, `MCPidFile` |
| `MarksFile` | `marks.vdr`, the temporary file and the backup under crashes and failures | `MarksProofs`, `MCMarksFile` |
| `MarkTime` | the text of a mark and the frame read back from it | `MarksProofs` |
| `MarkSet` | the abstract specification of the list: a set of positions and a stored one | |
| `MarkNodes`, `MarkList` | the linked list with addresses, comments and flags, and its callers; it implements `MarkSet` | `MarksProofs`, `MCMarkList` |
| `MarkSort` | the exchange sort, one comparison per step | `MarksProofs`, `MCMarkSort` |
| `LogoChange` | one call of `findLogoChange`: index, debouncer, batches, jumps, `checkLogoState` | |
| `LogoScan` | the loop of `scanRecord` on top of `LogoChange` | `LogoProofs`, `MCLogoScan` |
| `MarkCleanup` | `cleanInactiveMarks` and `cleanActiveMarks` as operators on sets of positions | |
| `OnlineScan` | `scanLoop` on top of `LogoChange` and `MarkCleanup` | `OnlineProofs`, `MCOnlineScan` |
| `MarkRefine` | `MarkCleanup` with all its passes, and the refinement of the last marks online, on top of the operators of `MarkCleanup` | `MarkRefineProofs`, `MCMarkRefine` |
| `LogoSearch` | the objects of the search for the logo and of its check, and the loops that use them | `LogoProofs`, `MCLogoSearch` |
| `IndexFile` | index and data files of a recording that VDR still writes | `IndexFileProofs`, `MCIndexFile` |
| `Ac3Search` | the pass for the sound, offline and online, with the demuxer, on top of `MarkCleanup` | `Ac3SearchProofs`, `MCAc3Search` |
| `Svdrp` | the messages to VDR's screen | `SvdrpProofs`, `MCSvdrp` |
| `NumberTheorems` | least and greatest elements, induction, functions defined by recursion (loops that come to an end), division, for the proofs | |

A definition whose comment begins with "Mutant of" is not part of any
specification: it is the definition behind it with one plausible bug, and shows
that the property it is listed with in `PROJECT.json` can see that bug.

**PidFile.** `pc[p]` is the place of process `p` in `main`; one action is one
system call or the code between two. `Create` and `WritePid` are the two halves
of `make_pidfile`, `ReadInfo` is `processInfo` with what each caller makes of
its result, `Kill` delivers the signal at once, also when `olPid` is -1 and it
goes to everyone. `Signal` and `Crash` are the outside, `UserDeletesStale` is
what the message of `make_pidfile` asks for. `creator` and `robbed` are history.

**MarksFile.** Names lead to inodes, so that a writer keeps the inode it has
opened when its name is renamed or removed. A save is `CallSave`, `Open`,
`Flush`, `RemoveMarks`, `Rename`, `Unlink`; between them another process may
run, and `Die` may happen. The contents of a list are a version number: nothing
here depends on positions. `scanRecord` appears as the order in which it
changes and saves the list, with its two calls of `Backup`.

**MarkNodes, MarkList, MarkSet, MarkSort.** A node has an address; the address
of a deleted node may be used again by the next one. `AddResults` says what
`Add` with its sort does to a sorted list: `Shifted` moves contents up by one
node. That the exchange sort really does so is `AddIsShift` of `MarkSort`, which
has the two nested loops of `cMarks::Sort` on any list, sorted or not; it is
checked for every list of up to four nodes and proved for all. The file is a sequence of lines; `Load` parses them with
`HMSFToIndex`, so that a frame rate at which a position does not survive the
text shows up in the list.

**MarkTime.** The frame rate is a fraction, the arithmetic exact.

**LogoChange, LogoScan, OnlineScan.** A picture is "logo", "none" or "unknown"
(too bright to judge); what noad makes of a sequence of pictures is `Judged`,
the debouncing counters of `checkTestlines`. A step of a search is the reading
of one batch of pictures (or, in `StableChange` and `UnstableChange`, of one
batch and the frames `checkLogoState` looks at behind it). `call` holds the
arguments and locals of `findLogoChange`; `LogoScan` and `OnlineScan` start it
with `FindLogoChange` and go on where it returns. The two differ where the code
does: offline a *new* logo has to be stable, online a *lost* one; offline the
mark is set on the last I-frame passed, online on the one before it; only
`scanLoop` asks whether the old state is known before it calls a change one.
`OnlineScan` has VDR as the growth of `last` in `Wait`.

**MarkRefine.** The list is a set of positions with the `checked` flag of each
node; a pointer is the place of its node in the list. What the pictures show is
unknown here: a search may find any frame it looks at, and its outcome is any
place the code can then move the mark to. `Probe` is `detectBlacklines`, picture
by picture; `OnBack`, `OnForward` and `Off` are `checkBlacklineOnMarks` at one
pair of marks, `BlackFrame` is `checkBlackFramesOnMarks` at one mark, `Pair`
is `checkMarkPair` in `pass2a`, `Sound` is `pass3`. `Toggle`, `RefineFirst` and
`RefineLast` are the end of a round of `scanLoop`. A null pointer, a freed node
and a frame number nobody has read are outcomes (`fault`), not states that
cannot be.

**LogoSearch.** `nd` holds the objects: the size of the picture, `cctrl` with a
`CGetLogo` for every corner, `m_pCheckLogo`, and the heap of the testlines they
share. `StdCallBack`, `InitBuffer`, `NewData` and the others take `nd` to `nd`
as the calls do, and record in `fault` when memory is used that is gone. Pictures
are the result of the arithmetic on their pixels and an input.

**IndexFile.** VDR's side is `WriteRecord`, `WriteData`, `Crash`, `Restart`
and the end or deletion of the recording; noad's is `Open`, the rounds of
`scanLoop` with `CatchUp`, and the reading of one frame by `SetOffset` and
`ReadFrame`. Records have numbers, not bytes: a cut record is one that has been
filled up by what followed. `fd` is whether the index is open: `Open` is the constructor
with each call that may fail (`NoIndex`, `NotOpened`, `NotRead`). That `fstat` or `lseek`
fails on a descriptor that is open is not there.

**Ac3Search.** `d` is what the demuxer keeps between frames, `DemuxFrame` one call of
`demuxFrame_audio`. A step is one sample of the pass, one halving of
`find_ac3start`, its last walk, `findVideoByPTS` or the setting of a mark. A
recording says for each frame what there is to hear and whether its data end
early. `scanDone`, `haveAC3` and the cleanup at the end of a round are those of
`scanLoop`.

**Svdrp.** A line is two pieces on the wire, so that half of it may be read or
written. `pc` is the next system call under `VDRMessage`; VDR and the network
(`Serve`, `Answer`, `Deliver`, `HangUp`) may act between any two of them.

## Runs

Violation runs show a disagreement between code and documentation, see
[below](#what-the-checks-found).

| run | shows |
|---|---|
| `pid_file` | `OwnFile`, `Exclusion`: two instances hold a recording at once only after one was robbed of its file by the unlink of another. `NoStaleFile`: only a process killed without a handler leaves its file. `Settles`: nobody stays in the pidfile loop. |
| `marks_file` | `NeverTorn`: a reader meets a complete list or none as long as no two processes are inside `Save`. `DurableSave`: a failing save leaves the last good one. `LostOnlyByReopening`: the one way to lose all marks is to die between `remove` and `rename`, and save again. |
| `mark_list` | `SortedInv`, `CommentInv`, `PointerDrift`: pointers go on denoting their mark or an earlier one behind the inserted position. `ImplementsMarkSet`: no operation loses or invents marks. |
| `mark_sort` | `SortedResult`: the loops end with the list sorted. `AddIsShift`: on a sorted list with one new node they shift contents by one node. |
| `mark_refine` | `PointersGood`: no pass follows a pointer to nowhere, but online at the first mark. `WideKept`: marks far apart stay as many and in order, and the passes look at on marks. `RefinedOnce`: refined marks are not refined again. `NextMarkKept`: no search walks over the next mark. `ProbeEnds`: the search for black lines ends, unless it falls off the index. |
| `logo_scan` | `Accurate`: a steady recording gets one mark near each change and no other. `MarksAscend`, `Terminates`. |
| `online_scan` | `MarksTellState`: between rounds an odd number of marks means "logo", until a fine search gives up. `MarksOnIFrames`: a mark is set on an I-frame behind the ones before, but where the I-frames are farther apart than a batch. `Cleaned`: no two marks are close, unless one has been set in front of the others. `Terminates`. |
| `logo_search` | `NothingGone`: nothing is used that a change of the size has deleted. `LogoFits`: a logo that is seen is one of this corner and this size. `SeenApart`: the check of a logo counts different frames, in a recording that is long enough. |
| `index_file` | `OnlyGrows`: what has been used of the index never changes. `DataThere`: no frame is scanned before its data is there. `Ends`: the scan ends. If the index could be opened: `Faithful`, it is that of the recording; `ReadsOwnFile`, a frame comes from the file its record names; `EndsInLull`, the scan ends after a lull with all frames scanned. |
| `ac3_search` | `InIndex`: no frame is asked for that is not there. `MarksAtChanges`: one mark at each change of the sound and none elsewhere. `Ends`. |
| `ac3_restart` | violation of `MarksStay` |
| `svdrp` | `SpeaksInTurn`: no reply is taken for that of another command. `CountsReplies`: what VDR still owes is never more than what noad expects. `Returns`: VDR cannot hold the scan up. |

### Bounds, and why they are enough

- `pid_file`: three processes, since the double unlink needs a holder, a leaver
  and a third; each with every command; one fault from outside at any place
  (`MaxFaults`), because a fault takes a process out and with two only one
  process would be left to be harmed; every failing call of `make_pidfile`.
- `marks_file`: two writers, two scans, two changes by each process, one crash
  at every step. Five inodes: three names and two open files. Two saves are
  what it takes to reopen the temporary file that the first one left.
- `mark_list`: four positions and four addresses, so that a list can be full,
  have a neighbour on both sides of the one that is moved, and reuse an
  address. The positions lie on both sides of two seconds of a recording at
  29.97 frames per second, where the text is hardest to read back. The
  addresses are symmetric: the callers never compare nodes of different marks.
- `mark_sort`: every list of up to four nodes over four positions, all orders
  and duplicates included.
- `logo_scan`, `online_scan`: the constants of the code (in frames, a recording
  has a hundred thousand) are scaled down to a recording of 90 frames. Their
  *order* is kept, as comparisons of them decide which branch is taken:
  `BigStep < MinMark < 2*BigStep < MinForward`, `StableTime`, and
  `NewFrames < FramesToCheck < ResetFrames < SearchBreak`; the recording is long
  enough for `SearchBreak` to be exceeded twice. `Cuts`, where the logo may come
  or go, are chosen within one batch, within one jump, just under and over
  `StableTime`, and at both ends; up to three of them in one
  recording, and one part may be undecidable. `Threshold` is 1, as in the code.
  The I-frames are every 2 frames, and a batch is 3 frames: in the code it is 15
  pictures, and a recording has an I-frame every 12 to 15. Online two I-frames are
  missing (`Holes`), one of them at the beginning, so that there are distances of a
  batch and more, and marks at -1 and in front of `stopFrame`; and one more recording
  (`Flickers`) shows the logo to two batches of the coarse search and not to
  the fine one, which then gives up.
- `Growth = {0, 20, 33}`: a recorder that stalls, one round's worth, and more.
- `mark_refine`: twelve lists: none and one mark, marks nearer than a search
  reaches, and three lists with marks farther apart than all searches together
  (`Wide`), so that `WideKept` has cases. Some have a pair far enough apart
  for `detectBlacklines` to start, one of them so near to the end that a jump
  leaves the index. The constants of the code satisfy `MarkRefineAssumption` as
  the scaled ones do. Online: at most three marks (`MaxMarks`) at five `Places`.
- `logo_search`: two corners and two sizes, so that the logo can be in the wrong one
  of either; recordings shorter and longer than `checkLogo` needs. The counters
  are the smallest that still differ from one another, in the order of the code's: a
  block of pictures is shorter than the distance of two looks (`CHECKLOGO_BLOCKFRAMES`
  is 50, `CHECKLOGO_DIST` five minutes).
- `index_file`: four records and two files: a record that is cut, filled up and
  followed by another, with a change of the file between any two of them. `Heap`, what is
  found in memory that nothing has been read to, has the number of each file and one of none.
- `ac3_search`: recordings of up to 55 frames that grow in two steps, with up to
  three changes at five places: two of them adjacent, one within `Limit` of the end
  of a round, two within a step of a sample; silences inside the interval of a
  search, longer than it and at the end of a round; one broken frame before, at and
  behind a change. `Skip < MinMark < MinActiveMark` as in the code (250, 425, 1500).
- `svdrp`: two messages, as a scan sends, and four descriptors, since each leaves
  one open. `Rounds` is that of the code.

Symmetry is used in runs without liveness only. `CHECK_DEADLOCK FALSE` stands
where the program ends: when all instances, all scans or the sort are done.

## Fairness

`PidFile` assumes weak fairness of `Step(p)` for every process: the operating
system runs every process that can run, a sleep of two minutes ends, and a scan
ends because the recording does (which `LogoScan` and `OnlineScan` show).
Starting an instance, signals, crashes and the user are not fair. `MarkSort`,
`LogoScan` and `OnlineScan` are loops of one thread: weak fairness of their next-state relation
says that the process goes on; so do `Ac3Search`, `MarkRefine` (its passes, not the
rounds of `scanLoop`) and `Svdrp` (`NoadStep`; nothing is assumed about VDR and the
network). In `IndexFile` each step of noad is fair, and so is the writing of data
whose record is there, as long as VDR runs. In `OnlineScan` the growth is chosen by the
recorder and may be 0 at any time; nothing is assumed about it. `MarksFile`
and `MarkList` state safety only and have no fairness.

## Proofs

The theorems hold for all values of the constants that satisfy the named
assumptions in the modules. `tlapm` checks them from nothing.

**OnlineProofs, PidFile** (`TypeCorrect`, `OwnFileHolds`, `ExclusionHolds`,
`NoStaleFileHolds`), from `PidAssumption` only: any number of processes,
faults and failing calls. `OwnFile` is not inductive: an unlink may take the
file of a process only if that process goes into `robbed`, and a write of a pid
must go to the writer's own file. `IInv` adds what links the file and the places:
`FileInv` (the file exists iff it has a creator, and names it or nobody),
`CreatorInv` (the creator has not passed its last exit), `CmdInv` (a place is
reached only with certain commands), `TriesInv` (for the type of the counter).
There is one lemma per group of actions. `Exclusion` follows from `OwnFile`: two
holders that are not robbed would both be the creator.

**OnlineProofs, OnlineScan** (`OnlineInvariant`, `MarksOnIFramesHolds`, `CleanedHolds`,
`MarksTellStateHolds`), from the assumptions of `LogoChange`, `OnlineScan` and
`MarkCleanup`: any recording, any distance of its I-frames, any growth of the index. Only
one assumption relates the numbers: a batch (15 frames) is not longer than
`INDEXSAFETYLIMIT` (150) and `MINFORWARDFRAMES` (1000).
- *Marks on I-frames.* A fine search begins not in front of `stopFrame`
  (`FineStartLemma`), on an I-frame so far from the end of the index that its first batch
  is a whole one (`StartLemma`, `FirstBatch`). If another I-frame follows within a batch, that
  batch passes it, and from then on the search is `Behind` the first one (`Beyond`,
  `PassedLemma`), so that the I-frame before the last one passed, which gets the mark, is
  that one or a later one (`MarkLemma`). If none follows (`Sparse`), the search may come back
  before it has passed one, and the mark goes to the I-frame in front of where it
  began: the exception of the property.
- *Cleaned.* The cleanup is skipped if the number of marks is that of the last round.
  `Round(M)` compares the marks with the `M` at the beginning of the round: only
  the last one of `M` may be gone, and all new ones are behind `M`, as marks are toggled
  at `stopFrame` or behind it only. So with the same number at most the last mark has
  moved, away from the others (`SameNumber`). A mark set in front of `stopFrame` is the
  exception (`setBack`). `CleanupFacts` says what the cleanup
  does: some marks go, an even number of them, and no pair is left that is too close. The
  cleanup is a recursion over sets, see NumberTheorems.
- *Marks tell the state.* `StateInv` has the state that the marks tell at each place of
  the loop. It holds until a fine search gives up (`gaveUp`); what happens then is
  [below](#what-the-checks-found).

**MarksProofs, MarkList** (`TypeCorrect`, `SortedHolds`, `CommentHolds`,
`PointerDriftHolds`, `ImplementsHolds`), from `MarkListAssumption` and
`MaxLinesAssumption`: any positions, addresses and rates allowed by them. `IInv`
is `GoodList(list)` and `GoodFile(file)`: sorted, comments in place, no address
twice, lines that parse back; each of these is needed to keep the others, since
what `Shifted` does is known for sorted lists only. Lemmas say what `Without`,
`AddResults`, `Commented` and `Lines` do to a good list; the steps follow. The
refinement maps every step to a step of `MarkSet` or a stutter.

`RoundTrip` of the same module is about `MarkTime`, with no assumption but a
positive frame rate: the text of a frame number is read back as itself, or as the
next number when its second begins exactly in the middle of a frame. The heart is
`RoundedPlusFrame`: frame field and rounded start of the second divide by the
same number and round to opposite sides.

`SortInOrder` and `AddIsShiftHolds` are about `MarkSort`, for lists of any length.
`OrderInv` is the usual invariant of the two loops; `OccurrencesInv` says that
contents are exchanged only, and the flags stay with their nodes. On a sorted list with a
new node at its end, `AddInv` gives the whole list at every step of the loops as the
old one with the new position carried up to where the outer loop is. So what `MarkList`
takes for the effect of `Add` is what the sort does, for all lists.

**LogoProofs, LogoScan** (`ScanAscends`: `Spec => MarksAscend`), from
`LogoChangeAssumption` and `LogoScanAssumption`: any recording, any distance of
I-frames, all parameters. `MarksAscend` says that no step deletes a mark or sets
one in front of another. It rests on what `stopFrame` is for: everything behind
it is settled. `IInv` says that all marks are before `stopFrame` (`Settled`)
while the scan goes on (`Between`), that a search never goes before it and that
the I-frame a found change is marked on lies between `stopFrame` and the frame
reached (`Within`), and that marks are I-frames before the last entry (`Loop`,
needed for the mark that closes an open end). The hard case is
`UnstableChange`, which sets the search back by a frame to before the I-frame
at which the judgement has turned: that I-frame is ahead of the batch.

**LogoProofs, LogoScan** (`AccurateHolds`: `Spec => []Accurate`), from these two and
`DistanceAssumption`: more pictures in a batch than the counters need to turn (1 < 10), a
jump at least twice as long as a batch with what is dropped before it and the distance of
two I-frames (375 frames against 10 + 5 + 25), and a recording of more than one batch. In
seconds, a recording is `Steady` when no picture is too bright, every break lasts
16 seconds and every logo 56, the last one as far from the end as a jump and the
150 frames without an I-frame reach, and no break is longer than 15 minutes less 16
seconds. For every such recording, wherever its I-frames and changes are, `scanRecord`
leaves exactly one mark near each change and none elsewhere.
- *Batches.* `Watched` is a recursion over the pictures of a batch. `WatchedUnfolds` shows
  that the function exists, `WatchedSplits` cuts a batch in two, and `WatchedSame` and
  `WatchedOther` say what pictures of one kind make of a judgement that agrees with them
  or not. From these follow the batches around a change: `CoarseBatch` (a
  batch after a jump either leaves the judgement, or shows the change at most a jump
  behind it), `FirstBatch` (the fine search begins with the judgement the coarse one
  has left, which is that of the *next* part, and its first batch turns it back) and
  `LaterBatch`.
- *Where the scan is.* `OnCourse` has `k`, what the recording shows before `stopFrame`,
  and `N`, the next change from there: all changes before `stopFrame` have their marks
  (`MarksAt`), the coarse search has not come so far that a batch could miss the change at `N`
  (`Knows`), ends not before it could see it (`Reach`), and the fine one begins before it could
  be marked late (`FirstOn`). `CoarseSearches` and `FineSearches` are the step lemmas
  of the two searches, `StaysOn` that `checkLogoState` finds no relapse.
- *Marks.* `FineStart` goes back by two jumps, or one and a half, to before `N`
  (`FineStartNear`: this is where a jump must be twice a batch), the mark is on the I-frame
  before the end of the batch that shows the change and near no other change (`MarkAdded`), and
  behind it `stopFrame` has passed `N` and nothing else (`PastNext`).
- *Another logo.* None is looked for in such a recording as it began. `Accurate` says nothing once
  one has been taken (`restartFrame`), and `Early` says why that is never forgotten:
  no search begins at frame 0 again, so `restartFrame` does not become 0.

**MarksProofs, MarksFile** (`NeverTornHolds`, `DurableSaveHolds`, `LostOnlyByReopeningHolds`),
from `MarksFileAssumption`: any number of processes, runs, saves, crashes and failing
calls. What the properties promise ends when two processes have met inside
`Save`; `OverlapInv` says that this takes two started processes, so that one that
is alone may rely on it. Until then, no two names lead to one inode (`NamesInv`),
and the process inside `Save` has the temporary file for itself: empty while it
is open, complete between `fclose` and `rename` (`TempInv`). `TempStep` covers
every step that touches the temporary file only, and `QuietStep` those that
touch none; `remove` and `rename` have lemmas of their own.
`LostOnlyByReopening` is an action property: the two steps that take the last
complete list from the disk are looked at with the same invariant.

**MarkRefineProofs** (`PointersGoodHolds`, `RefinedOnceHolds`, `NextMarkKeptHolds`,
`WideKeptHolds`), from
`MarkRefineAssumption`: any index, any marks on I-frames, all results the searches can
have. The assumption says of the numbers of the code what the theorems need, each with
a wide margin there: an I-frame is closer than the shortest scene that counts as
repeated (`Gop <= OverlapOk`), the pictures around the second mark are longer than what
`checkMarkPair` shifts them by and the end of the index that has no I-frame left
(`Skip + Gop + Limit <= After`: 20 + 12 + 150 in 6250), and the pictures begin
farther before the second mark than the searches for black frames and the shift reach
(`Lead < Skip < BeforeOn < After`, `FrameBack + Lead < BeforeOn`: 15, 20, 1500, 6250,
and 1125 + 15 in 1500, at 25 frames per second), and marks are farther apart than the
shift when they are set (`Skip < MinMark`: 20 < 425). For `WideKept`: an active part must
be the longer one (`MinMark <= MinActiveMark`), the rows that `checkBlacklineOnmark` looks
for are there to be found (`Into < NotOk`: 5 < 10), the pictures begin earlier than the
frames without an I-frame at the end are many (`Gop + Limit < BeforeOn`, `Gop + Limit <
Before + Lead`: 162 in 1500 and 1515), and they reach as far as the searches forward and a
short part together (`Skip + After <= LineForward + MinActiveMark`, `Skip + After <=
LineForward + SoundRange`: 20 frames and 250 s in 200 s and 60 s, and in 200 s and 150 s).
- *Pointers.* `IInv` has all positions on I-frames of the index, `m` in the list wherever
  a pass starts from it, and one flag for each mark while the recording goes on.
  Then every search for a neighbour that the code takes for granted has one:
  `OnBackStep` (the mark that has been moved back is what `Prev` finds),
  `OverlappedLemma` (a scene that is repeated ends before the second mark, so
  moving the first one leaves the second one its next), `NotOverlappedLemma`.
- *Refined once.* The flags must go to the last mark. In the last pair
  (`LastPair`) the first mark does not fall back behind the one before it and the
  second does not fall back behind the first (`OverlapLemma`, and the inner part of
  `NotOverlappedLemma` for black frames), so the second is still the last
  (`StaysLastPair`). This is where the pictures that `getPicInfo` gives have to be
  followed (`PicsLemma`, `StartBeforeLemma`, `PicsBeforeLemma`, `PicsAfterLemma`): without
  `Skip + Gop + Limit <= After` an I-frame for the beginning may not be found and the
  pictures would be those from the start of the recording.
- *Next mark kept.* A search ends at most on the next mark (`LimitedLemma`,
  `LinesAheadLemma`, `BlackLemma`); a mark that is moved there becomes one with it (`NotPast`).
- *Wide kept.* Nobody looks at the distance of the marks before a move; that marks far
  apart do not meet has to follow from how far each search reaches and how often a mark is
  moved. `WideInv` gives each mark `w` of the first cleanup a place `P[w]` where it is now
  (`Fits`), not in the range of the next one (`Kept`), and until the marks are moved by the
  sound with room for that and for the cleanup (`Searched`). This is not inductive by itself: a mark
  could be moved twice. `PhaseInv` adds that the marks from `m` on have not been moved by the
  pass that is at `m`. Then each search moves one mark, once, back by `BackBy` or forward
  by `ReachForth` at most, and `MoveKeeps` keeps the rest. `checkMarkPair` may move both marks
  of a pair: the first one only when there is a mark before it, far away, since it
  is an off mark (`OffIsAlone`), and the second one stays `Beside` its place. `TurnInv` says
  whose turn it is, on or off marks. The cleanup deletes nothing, as nothing is close
  (`NothingCleaned`).

**LogoProofs, LogoSearch** (`NothingGoneHolds`, `LogoFitsHolds`, `SeenApartHolds`), from
`LogoSearchAssumption`: any pictures of any sizes, any number of corners, blocks and
parts. The invariant of the objects is `Good(nd)`: the testlines that are looked at
exist and are those of their corner and size (`Fits`), nobody has testlines before a
logo is found (`Fresh`), no two in the heap have the same name (`UniqueIds`), and
nothing has been used that was gone. There is a lemma for each operator that takes
`nd` to `nd`; in the middle of a picture, when one corner has completed and the
next is asked, only part of it holds (`Loose`), and `AskedUnfolds` turns the
recursion over the corners into steps. `SeenApart` is about the frames at which
`checkLogo` counts: `VerifyInv` says where in its blocks it is and that all frames counted
lie before; blocks do not overlap, as they are shorter than their distance.

**Ac3SearchProofs** (`InIndexHolds`, `MarksAtChangesHolds`), from `Ac3SearchAssumption`
and `RecordingsAssumption`: any recordings, any lengths, any steps. Of the numbers of the
code it needs only that `find_ac3start` stops halving at two frames or more (10) and
that the detection takes two frames or more (50). No call of `Get` is checked, so each
loop over the frames has to stay within the index by itself. `DemuxLemma` says what one frame
does to the demuxer; `FirstSoundLemma`, `InARowLemma`, `WalkLemma` and
`VideoByPTSLemma` say what each of the four loops returns, each as a recursion whose
measure falls (`LoopEnds` of `NumberTheorems`). `FindInv` is the interval of the search:
it becomes shorter at either end and never ends at the last frame of the recording unless that
was heard; then the walk over its rest hears it again, unless the frame before ends
early and the demuxer skips what follows, which is the exception in `InIndex`. `LoopInv`
has what is needed for the first interval: the detection has counted no more frames than it
has passed, so a recording in which it finds enough of them has at least three.

`MarksAtChangesHolds` is `Spec => [](Whole => MarksAtChanges)`: for recordings in which
every frame is heard (`Whole`), of any length, however they grow, offline and online,
with any number of changes. `Ac3StepsAssumption` relates the numbers of the code: the
search is left out for fewer frames than the scan steps over (5 < 250), and the end of
the index without an I-frame, a group of pictures and the delay of the sound fit into
one step (`Limit + Gop + Lag + 1 <= Skip`: 150, 12 to 25 and a few in 250), so that only a change within the last step
may be without an I-frame behind it. The inductive
invariant (`MarksInv`) has three parts. `SamplesInv`: two samples are `Skip` apart and the
sound to compare with is that at the sample before, by which `OneTurn` says whether there
is a change between them. `HuntInv`: while a search goes on there is such a change,
inside the interval that is halved (`HalveMarks`), a frame behind the place
where the walk stops (`FoundMarks`), and within `Lag` of the picture that is then
found (`BackMarks`). `FitInv`: there is exactly one mark for each change up to the last
sample. A mark is within `Slack` of its change (`PlaceLemma`), no other change is near it
(`MarkedOnce`), so `MarkToggle` never deletes one (`ToggleMarks`), and marks are too far
apart for the cleanup of a round (`CleanupLeaves`). A recording that grows adds changes
only behind its former end (`Grows`).

**SvdrpProofs** (`SpeaksInTurnHolds`, `CountsRepliesHolds`, `OneLostEachHolds`), from
`SvdrpAssumption`: replies of any length, cut anywhere, failing calls at any place.
`ReplyInv` says, while there is a connection, that what VDR still owes is counted, and
how much may be outstanding at each place in `VDRMessage`: noad waits for one reply at
most. What is owed is the ends of lines on the wire and in the inbox and the
commands whose last piece VDR has or will get; the lemmas on `Ends` count
them. `ConnectionInv` says that nothing is on the way without a connection. `OneLostEach`, a
property no run checks, bounds the sockets that are never closed by the messages sent:
`SocketInv` counts those that `cSocket` has forgotten.

**IndexFileProofs** (`FaithfulHolds`, `OnlyGrowsHolds`, `DataThereHolds`,
`EndsInLullHolds`, `ReadsOwnFileHolds`), from `IndexFileAssumption`: any length
of the recording, any number of files, any distance of I-frames, both modes. An index that
could be looked at and not opened (`Unread`) is the exception in three of them; what
its entries hold is arbitrary (`Heap`), and it is never read nor changed.
VDR's steps only add to the disk (`VDRLemma`: records stay, damaged ones stay
damaged). `CatchUpLemma` is the other half: a catch-up changes no entry, and if
`Last` has not moved there was nothing to read; that is why comparing two numbers of
frames is enough to see the end of a recording, in the test mode, where `Last`
is not the last entry, too. `OpenInv` and `CountInv` say that what is in memory
goes to the last record counted, which may be half a one; `RoundInv` what is
known at each place of the loop.

**NumberTheorems**: least and greatest elements of sets of numbers, for the
searches for an I-frame, from the library's theorem that strict inclusion of finite
sets is well-founded. From the least element follow induction up to a number
(`InductionUpTo`), that a function defined by recursion over numbers
(`RecursiveFunction`), over any arguments with a measure that falls (`IterationExists`,
`LoopEnds`) or over ever smaller sets (`RecursionOverSets`, `RecursionEnds`) exists and
what it keeps; that a finite set of numbers has a bound; and facts about division with a
remainder. The library's own
theorems on induction take an operator as a parameter, which the provers cannot
instantiate; these take a set instead.

Only model-checked: liveness (`Settles`, the three `Terminates`, `Ends`, `Returns`,
`ProbeEnds`, and that the sort of `SortedResult` ends; that the list is in order then is
proved), which is beyond the prover; and `MarksAtChanges` of `Ac3Search` for recordings with silent
or broken frames. That holds for those of the run and not for all that the module allows: a
silence moves a sample and the place where a search stops by as many frames as it is
long, and may hide the end of a round, so that a mark is farther from its change
than any bound that does not depend on the silences. The other way round, the exception of
`Cleaned` is needed for the proof only: in the run marks are set in front of `stopFrame`, and
no two are close even so.

## What the checks found

*A change of the sound at the end of a round takes earlier marks away*
(`ac3_restart`). If `GetNextIFrame` finds no I-frame behind a change to 5.1, as it
does in the last 150 frames, `scanLoop` goes back to `iLastLogoFrame` to "let the
scan continue" (tnoad.cpp 237-240). That is 0 again in each round (tnoad.cpp 175)
unless the round has set a mark, so that the next one begins at the start of the
recording and `MarkToggle` deletes what it finds there for the second time.

Seen in the models or while reading, without a run of their own:

- *Instances.* `rm_pidfile` runs in `main` and again in `cleanUp`. Between the two
  another instance can create its `noad.pid`, which the second unlink removes, and
  a third one starts beside it, with no fault at all (main.cpp 157-166, 645); an
  instance with `--nopid` unlinks the file of others in the same way. `Exclusion`
  therefore speaks of robbed instances. `processInfo` returns -1 if the online
  scan has just ended or not written its pid yet, and the loop hands it to
  `kill`, which signals every process of the user (main.cpp 531); the branch for
  `deleted` checks for it (main.cpp 459). `atol` is called before the text that
  was read is ended (tools.cpp 978): a stray pid is possible in `PidsRead`.
  README.en 212 promises a wait of up to six minutes *before* the signal, the
  code sends it after four and gives up after six (main.cpp 514-553).
- *Storage.* With `--ac3` and `--backupmarks` a second `Backup` overwrites the user's
  marks in `marks0.vdr` with those of the pass for the sound (noad.cpp 1705,
  README.en 85). README.en 219 lets VDR reload the marks cyclically; between
  `remove` and `rename` (tools.cpp 523) there are none.
- *Scans.* A fine search that gives up leaves -2 as the state, and the next
  search returns at once with a "change": a mark without one (noad.cpp 1738).
  `scanLoop` guards against it, `scanRecord` does not. But `scanLoop` keeps the -2
  as its own state ("not good here ?", tnoad.cpp 365), if the old one was 0: the next
  search starts from it, and a logo that it finds is no change and gets no mark. From
  then on the marks need not tell the state, and `MarksTellState` excepts it by
  `gaveUp`. It takes a logo that flickers, so that the coarse search sees it in two
  batches and the fine one does not within `CHANGE_SEARCH_BREAK` frames; `online_scan`
  has such a recording. With I-frames as far apart as a batch is long, a mark may be set
  in front of the ones before it, or at -1, the I-frame before the first one (tnoad.cpp
  300, README.en 249). Both come about in `online_scan` and are the exception of
  `MarksOnIFrames`.
- *Refinement.* `detectBlacklines` jumps by a minute and then to the next
  independent frame; near the end that is -1, and the search goes round through
  the recording, for ever if every picture has odd or too many black lines
  (noad.cpp 1169; `ProbeEnds` excepts it). Only pictures with too few are counted.
  A forward search that is limited to ten frames before the next mark still lands
  on it if I-frames are farther apart: the two marks become one. A black frame
  found forward makes `checkBlackFramesOnMarks` go on with off marks. Online the
  first mark may be deleted and put in again by `checkMarkPair`; `setChecked` then
  writes to the freed one and the mark is refined again in each round (tnoad.cpp
  357). `doOverlapDetection` compares up to `PICS_READ_BEFORE` pictures however many
  were read (`ReadsGarbage`). The comment before `checkBlacklineOnMarks` says that it
  searches forward if the search backward fails; it always does. The comment
  before `MarkCleanup` (noad.cpp 1432) names MINMARKDURATION only; active parts are
  deleted by another constant, and after a deletion `cleanActiveMarks` goes on with
  the wrong member of a pair, which is how `CleanActive` has it.
- *Logo.* If two corners complete with the same picture the testlines of the
  first are lost. After a change of the size `m_bFound` stays true without
  testlines: no logo is seen until the next search, which an online scan begins when it
  has forgotten the logo, twelve minutes after it was last seen (tnoad.cpp 366). In a recording too short for `checkLogo`, `GetNextIFrame` returns -1 and the
  same frames are counted again (noad.cpp 325): the operator `SeenOften` does not
  hold there. `doLogoDetection` fails if the logo is complete with its last picture.
- *Index.* An index that is missing or empty when noad opens it is never opened
  again, so that the online scan ends after two rounds. If it is there and `open` fails, the
  memory for its entries is kept as `new` made it, and `CatchUp` says that all is well
  (vdr_cl.cpp 311-331, 402): the scan ends after two rounds as well, and until then takes
  its frames, and the numbers of their files, from what it finds there. `Faithful`,
  `EndsInLull` and `ReadsOwnFile` except it (`Unread`). Test mode goes round
  for ever in a recording of fewer than 3000 frames. A first round that finds
  enough frames scans without the five seconds that tnoad.cpp 119 asks for;
  `DataThere` has both exceptions.
- *Sound.* In TS recordings the demuxer passes on the packets of the video
  only, and no sound in 5.1 is ever found (mpeg_decoder.cpp 700). Offline a
  change to 5.1 within the last frames gets a mark at -1, behind which every
  later pass takes stops for starts. A silence before a change to 5.1 that is
  longer than the last interval of the search loses its mark; `Heard` excepts it.
- *SVDRP.* `select` is called with 1 as its first argument (svdrpc.cpp 203), looks at no
  descriptor of the connection and waits out its millisecond whatever VDR does. A reply that has not come yet is an error, the connection is
  given up, and most messages are never sent, although README.en 82 promises
  them. Each message leaves a socket open (one at most: `OneLostEach`), and a write to a connection that VDR has
  closed raises SIGPIPE, which kills the scan and leaves `noad.pid`.

## What is not modelled

- *Pictures* (yuvbuf.h, ctoolbox.cpp, the rest of noaddata.cpp): histograms,
  borders, line detection. Numeric code on pixel arrays without states of its
  own; the modules take its results as inputs.
- *Decoders* (ffmpeg_decoder.cpp, libmpeg2_decoder.cpp): they are driven by the
  libraries' reading ahead and delay, which src/ does not determine. The scans
  need one picture per call; that there may be none is in `LogoSearch` and `Probe`.
  `getPictures` and `getGOP` have no caller.
- *Demultiplexing* beyond what the sound of a PES recording needs: the bits of
  headers, TS.
- *Sound pass*: what is silent is arithmetic on samples; the moves of its marks
  are `Sound` of `MarkRefine`.
- *mpeg2wrap*: an older decoder that is not built.
- *Tools, scripts, command line, statistics, logging*: they print what is
  stored or write what noad never reads. Options that choose between orders of
  calls are constants of the modules.
- Within modelled components: `setBreak` (a switch of a graphical front end),
  `--OnMarksOnly`, `--pass3only`, the search with a moved logo (`extLogoSearch`), the
  search for scene changes (`checkScenecheckOnMark`, an option that the help does
  not list).

## Plan

What is left, in this order.

1. `extLogoSearch` in `LogoChange`, where the testlines may be found at another
   place than before, and `checkScenecheckOnMark` in `MarkRefine`.
2. Composition: `OnlineScan` on the growth of `IndexFile` instead of its own, and with
   the refinement of `MarkRefine` at the end of a round.
3. Proofs: `MarksAtChanges` of `Ac3Search` with silent frames, with a bound that
   depends on the length of the silences.
