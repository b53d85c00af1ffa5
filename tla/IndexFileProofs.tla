--------------------------- MODULE IndexFileProofs ---------------------------
(***************************************************************************)
(* For every length of a recording, every number of files, all positions   *)
(* of I-frames and both modes: what noad has of the index is what VDR has   *)
(* written, only grows, and is scanned when its data is there.              *)
(***************************************************************************)
EXTENDS IndexFile, NumberTheorems

-----------------------------------------------------------------------------
(* The inductive invariant.                                                *)

Labels == {"new", "spin", "wait", "sleep", "settle", "scan", "done", "killed"}

Numbers == 1..MaxFiles

\* The records cIndexFile counts when it is opened.
Counted == whole + (IF half THEN 1 ELSE 0)

\* VDR leaves a half record behind only when it is killed.
HalfInv == half \in BOOLEAN /\ (recording => ~half)

\* What VDR leaves on the disk.
DiskInv ==
    /\ records \in Seq(Numbers)
    /\ settled \in Nat /\ settled <= whole
    /\ HalfInv

\* The numbers noad keeps.  A record of which there is half may be counted.
CountInv ==
    /\ last \in Int /\ -1 <= last /\ last < Counted
    /\ size \in Nat /\ seen \in Nat /\ opened \in Int
    /\ frameCount \in Int /\ lastGetValue \in Int
    /\ interval \in {0, NewFrames}
    /\ pc \in Labels

\* Before the index is opened there is nothing; then, as long as it can be
\* read, everything noad has seen of it is in memory.  If it could not be
\* opened the numbers stay what they were.
OpenInv ==
    /\ fd \in BOOLEAN
    /\ pc = "new" => /\ index = None /\ last = -1 /\ size = 0
                     /\ lastGetValue = 0 /\ frameCount = 0 /\ ~scanDone /\ got = -1
    /\ index # None => /\ 0 <= last
                       /\ 0 <= lastGetValue /\ lastGetValue <= last
                       /\ frameCount <= Last
    /\ index # None /\ fd => seen = last + 1

\* What a round has been told, place by place.
RoundInv ==
    /\ pc = "spin" => interval # 0
    /\ interval = 0 /\ pc \in {"wait", "scan"} => last \in {frameCount, opened}
    /\ pc = "settle" /\ index # None /\ fd /\ frameCount = Last
           => lull /\ frameCount = last
    /\ scanDone => pc \in {"scan", "done", "killed"}

\* The file that is open is the one cFileName believes to have open.
ReadInv ==
    /\ got \in Int /\ -1 <= got /\ got < whole
    /\ file # 0 => file = fileNumber

IInv == /\ DiskInv /\ CountInv /\ OpenInv /\ RoundInv /\ ReadInv
        /\ Faithful /\ DataThere /\ EndsInLull /\ ReadsOwnFile

\* What a record appended to the index leaves of it.
LEMMA AppendLemma ==
    ASSUME NEW S, NEW s \in Seq(S), NEW n \in S
    PROVE  /\ Len(s) \in Nat
           /\ Append(s, n) \in Seq(S)
           /\ Len(Append(s, n)) = Len(s) + 1
           /\ \A i \in 1..Len(s) : Append(s, n)[i] = s[i]
  OBVIOUS

LEMMA ElementLemma ==
    ASSUME NEW S, NEW s \in Seq(S), NEW i \in 1..Len(s)
    PROVE  s[i] \in S
  OBVIOUS

LEMMA InitInv == Init => IInv
  <1> SUFFICES ASSUME Init PROVE IInv
    OBVIOUS
  <1>1. records \in Seq(Numbers) /\ whole = 0
    <2>1. <<>> \in Seq(Numbers) /\ Len(<<>>) = 0
      OBVIOUS
    <2> QED
      BY <2>1 DEF Init, whole
  <1>2. DiskInv
    <2>1. HalfInv
      BY DEF Init, HalfInv
    <2> QED
      BY <1>1, <2>1 DEF Init, DiskInv
  <1>3. Counted = 0
    BY <1>1 DEF Init, Counted
  <1>4. CountInv /\ OpenInv /\ RoundInv /\ ReadInv
    <2>1. CountInv /\ ReadInv
      BY <1>1, <1>3, IndexFileAssumption DEF Init, CountInv, ReadInv, Labels
    <2>2. index = None /\ fd \in BOOLEAN
      BY DEF Init
    <2>3. OpenInv
      BY <2>2 DEF Init, OpenInv
    <2>4. RoundInv
      BY <2>2 DEF Init, RoundInv
    <2> QED
      BY <2>1, <2>3, <2>4
  <1>5. Faithful /\ DataThere /\ EndsInLull /\ ReadsOwnFile
    BY <1>1 DEF Init, Faithful, DataThere, EndsInLull, ReadsOwnFile, Unread
  <1> QED
    BY <1>2, <1>4, <1>5 DEF IInv

-----------------------------------------------------------------------------
(* VDR only adds to what is on the disk.                                   *)

\* Records are never taken back or changed, and a damaged one stays damaged.
DiskGrows ==
    /\ whole \in Nat /\ whole' \in Nat /\ whole <= whole'
    /\ Counted \in Nat /\ Counted' \in Nat /\ Counted <= Counted'
    /\ \A i \in 1..whole : records'[i] = records[i]
    /\ Damaged \subseteq Damaged'
    /\ settled <= settled'
    /\ gone => gone'

\* One record more, or none.
LEMMA RecordsLemma ==
    ASSUME DiskInv,
           \/ UNCHANGED records
           \/ \E n \in Numbers : records' = Append(records, n)
    PROVE  /\ records' \in Seq(Numbers)
           /\ whole \in Nat /\ whole' \in Nat
           /\ whole' = IF UNCHANGED records THEN whole ELSE whole + 1
           /\ \A i \in 1..whole : records'[i] = records[i]
  <1> USE DEF DiskInv, whole
  <1>1. CASE UNCHANGED records
    BY <1>1
  <1>2. ASSUME NEW n \in Numbers, records' = Append(records, n)
        PROVE  /\ records' \in Seq(Numbers) /\ whole' = whole + 1
               /\ \A i \in 1..whole : records'[i] = records[i]
    BY <1>2, AppendLemma
  <1>3. whole \in Nat
    OBVIOUS
  <1> QED
    BY <1>1, <1>2, <1>3

LEMMA VDRLemma ==
    ASSUME DiskInv, VDRStep
    PROVE  DiskInv' /\ DiskGrows
  <1>0. whole \in Nat /\ half \in BOOLEAN
    BY DEF DiskInv, HalfInv, whole
  <1>1. CASE WriteRecord
    <2>1. \E n \in Numbers : records' = Append(records, n)
      BY <1>1 DEF WriteRecord, Numbers
    <2>2. whole' \in Nat /\ whole <= whole'
      BY <2>1, RecordsLemma
    <2>3. ~half /\ ~half' /\ HalfInv'
      BY <1>1 DEF WriteRecord, DiskInv, HalfInv
    <2>4. Damaged' = Damaged /\ Counted = whole /\ Counted' = whole'
      <3>1. Damaged' = Damaged
        BY <1>1, <2>3 DEF WriteRecord, Damaged
      <3>2. Counted = whole
        BY <1>0, <2>3 DEF Counted
      <3>3. Counted' = whole'
        BY <2>2, <2>3 DEF Counted, whole
      <3> QED
        BY <3>1, <3>2, <3>3
    <2>5. UNCHANGED settled /\ (gone => gone')
      BY <1>1 DEF WriteRecord
    <2>6. records' \in Seq(Numbers) /\ \A i \in 1..whole : records'[i] = records[i]
      BY <2>1, RecordsLemma
    <2> QED
      BY <1>0, <2>2, <2>3, <2>4, <2>5, <2>6 DEF DiskInv, DiskGrows
  <1>2. CASE WriteData \/ EndRecording \/ DeleteRecording
    <2>1. UNCHANGED <<records, half, padded>>
      BY <1>2 DEF WriteData, EndRecording, DeleteRecording
    <2>2. UNCHANGED <<whole, Damaged, Counted>> /\ Counted \in Nat
      BY <1>0, <2>1 DEF whole, Damaged, Counted
    <2>3. HalfInv' /\ (gone => gone')
      BY <1>2 DEF WriteData, EndRecording, DeleteRecording, DiskInv, HalfInv
    <2>4. settled' \in Nat /\ settled <= settled' /\ settled' <= whole
      BY <1>0, <1>2 DEF WriteData, EndRecording, DeleteRecording, DiskInv
    <2> QED
      BY <1>0, <2>1, <2>2, <2>3, <2>4 DEF DiskInv, DiskGrows
  <1>3. CASE Crash
    <2>1. UNCHANGED records /\ UNCHANGED whole
      BY <1>3 DEF Crash, whole
    <2>2. ~half /\ HalfInv' /\ (gone => gone')
      BY <1>3 DEF Crash, DiskInv, HalfInv
    <2>3. Damaged \subseteq Damaged'
      BY <1>3, <2>2 DEF Crash, Damaged
    <2>4. Counted = whole /\ Counted' \in {whole, whole + 1}
      BY <1>0, <2>1, <2>2 DEF Counted
    <2>5. settled' = whole
      BY <1>3 DEF Crash
    <2> QED
      BY <1>0, <2>1, <2>2, <2>3, <2>4, <2>5 DEF DiskInv, DiskGrows
  <1>4. CASE Restart
    <2>1. \/ half /\ \E n \in Numbers : records' = Append(records, n)
          \/ ~half /\ UNCHANGED records
      <3>1. whole \in 1..Len(records)
        BY <1>0, <1>4 DEF Restart, whole
      <3>2. records[whole] \in Numbers
        BY <3>1, ElementLemma DEF DiskInv
      <3> QED
        BY <1>4, <3>2 DEF Restart
    <2>2. whole' \in Nat /\ whole' = IF half THEN whole + 1 ELSE whole
      <3>1. CASE half
        <4>1. records' # records
          <5>1. PICK n \in Numbers : records' = Append(records, n)
            BY <2>1, <3>1
          <5>2. Len(records') = Len(records) + 1 /\ Len(records) \in Nat
            BY <5>1, AppendLemma DEF DiskInv
          <5> QED
            BY <5>2
        <4> QED
          BY <1>0, <2>1, <3>1, <4>1, RecordsLemma
      <3>2. CASE ~half
        BY <1>0, <2>1, <3>2 DEF whole
      <3> QED
        BY <3>1, <3>2
    <2>3. Damaged' = Damaged /\ Counted' = whole' /\ Counted = whole'
      BY <1>0, <1>4, <2>2 DEF Restart, Damaged, Counted
    <2>4. records' \in Seq(Numbers) /\ \A i \in 1..whole : records'[i] = records[i]
      BY <2>1, RecordsLemma
    <2>5. settled' = whole'
      BY <1>4 DEF Restart, whole
    <2>6. HalfInv' /\ (gone => gone')
      BY <1>4 DEF Restart, HalfInv
    <2> QED
      BY <1>0, <2>2, <2>3, <2>4, <2>5, <2>6 DEF DiskInv, DiskGrows
  <1> QED
    BY <1>1, <1>2, <1>3, <1>4 DEF VDRStep

LEMMA VDRStepInv ==
    ASSUME IInv, VDRStep
    PROVE  IInv'
  <1>1. DiskInv' /\ DiskGrows /\ DiskInv
    BY VDRLemma DEF IInv
  <1>2. UNCHANGED <<index, fd, last, size, lastGetValue, interval, fileNumber, file,
                    got, frameCount, scanDone, pc, opened, seen, lull>>
    BY DEF VDRStep, entries, data, history
  <1>3. CountInv' /\ OpenInv' /\ RoundInv' /\ ReadInv'
    <2>1. /\ last' \in Int /\ -1 <= last'
          /\ last' < Counted'
      BY <1>1, <1>2 DEF IInv, CountInv, DiskGrows
    <2>2. CountInv'
      BY <1>2, <2>1 DEF IInv, CountInv
    <2>3. OpenInv'
      BY <1>2 DEF IInv, OpenInv, Last
    <2>4. RoundInv'
      BY <1>2 DEF IInv, RoundInv, Last
    <2>5. ReadInv'
      BY <1>1, <1>2 DEF IInv, ReadInv, DiskGrows
    <2> QED
      BY <2>2, <2>3, <2>4, <2>5
  <1>4. Faithful'
    <2>1. ASSUME index # None, ~Unread, NEW i \in 0..last, i \notin Damaged'
          PROVE  index[i].number = records'[i + 1] /\ index[i].iframe = (i \in IFrames)
      <3>1. i \notin Damaged
        BY <1>1, <2>1 DEF DiskGrows
      <3>2. i + 1 \in 1..whole
        BY <1>1, <3>1 DEF IInv, CountInv, Counted, Damaged, DiskGrows
      <3> QED
        BY <1>1, <2>1, <3>1, <3>2 DEF IInv, Faithful, DiskGrows
    <2>2. Unread' = Unread
      BY <1>2 DEF Unread
    <2> QED
      BY <1>2, <2>1, <2>2 DEF IInv, Faithful
  <1>5. DataThere'
    BY <1>1, <1>2 DEF IInv, DataThere, DiskGrows, DiskInv, CountInv
  <1>6. EndsInLull'
    BY <1>2 DEF IInv, EndsInLull, Unread
  <1>7. ReadsOwnFile'
    BY <1>1, <1>2 DEF IInv, ReadsOwnFile, ReadInv, DiskGrows, Unread
  <1> QED
    BY <1>1, <1>3, <1>4, <1>5, <1>6, <1>7 DEF IInv

-----------------------------------------------------------------------------
(* Catching up with VDR.                                                   *)

\* A search forward ends behind its start, or finds nothing.
LEMMA NextIFrameLemma ==
    ASSUME NEW entry, NEW end \in Int, NEW i \in Nat
    PROVE  NextIFrame(entry, end, i, TRUE, TRUE) \in {-1} \cup {j \in Nat : j > i}
  <1> DEFINE next == NextIFrame(entry, end, i, TRUE, TRUE)
  <1> SUFFICES next \in {-1} \cup {j \in Nat : j > i}
    OBVIOUS
  <1> DEFINE found == {j \in (i + 1)..end :
                          (0 <= j /\ j < end - Limit) /\ entry[j].iframe}
  <1>1. next = IF entry = None \/ found = {} THEN -1 ELSE Min(found)
    BY DEF NextIFrame
  <1>2. CASE found # {}
    <2>1. \A j \in found : j \in Nat /\ j > i
      OBVIOUS
    <2>2. found \in SUBSET Nat
      BY <2>1
    <2> HIDE DEF found
    <2>3. Min(found) \in found
      BY <1>2, <2>2, LeastElement
    <2>4. Min(found) \in Nat /\ Min(found) > i
      BY <2>1, <2>3
    <2> HIDE DEF next
    <2>5. next \in {-1, Min(found)}
      BY <1>1
    <2> QED
      BY <2>4, <2>5
  <1> HIDE DEF found, next
  <1>3. CASE found = {}
    BY <1>1, <1>3
  <1> QED
    BY <1>2, <1>3

\* Load adds the entries that are missing, and changes none.
LEMMA LoadLemma ==
    ASSUME IInv, UNCHANGED vdr, NEW n \in Nat, last < n, n < Counted,
           index = None => last = -1, ~Unread, Load(n)
    PROVE  /\ last' = n /\ size' \in Nat
           /\ Faithful'
           /\ \A i \in 0..last : index'[i] = index[i]
  <1>1. last \in Int /\ -1 <= last /\ size \in Nat
    BY DEF IInv, CountInv
  <1>2. PICK g \in Garbage :
            index' = [i \in 0..n |-> IF i > last THEN Entry(i, g) ELSE index[i]]
    BY DEF Load
  <1>3. last' = n /\ size' = Enlarged(n)
    BY DEF Load
  <1>4. size' \in Nat /\ n < size'
    BY <1>1, <1>3 DEF Enlarged
  <1>5. DOMAIN index' = 0..n
    BY <1>2
  <1>6. \A i \in 0..last : i \in 0..n /\ ~(i > last)
    BY <1>1
  <1>7. \A i \in 0..last : index'[i] = index[i]
    BY <1>2, <1>6
  <1>8. UNCHANGED records /\ Damaged' = Damaged
    BY DEF vdr, Damaged, whole
  <1>9. ASSUME NEW i \in 0..n
        PROVE  /\ index'[i].record = i
               /\ index'[i].converted = IF IsPes THEN 1 ELSE 0
               /\ i \notin Damaged' => /\ index'[i].number = records'[i + 1]
                                      /\ index'[i].iframe = (i \in IFrames)
    <2>1. CASE i > last
      <3>1. index'[i] = Entry(i, g)
        BY <1>2, <2>1
      <3> QED
        BY <1>8, <3>1 DEF Entry
    <2>2. CASE ~(i > last)
      <3>1. i \in 0..last /\ index # None
        BY <1>1, <2>2
      <3>2. index'[i] = index[i]
        BY <1>7, <3>1
      <3> QED
        BY <1>8, <3>1, <3>2 DEF IInv, Faithful
    <2> QED
      BY <2>1, <2>2
  <1> QED
    BY <1>3, <1>4, <1>5, <1>7, <1>9 DEF Faithful

\* What is in memory is kept, and Last moves on unless nothing is new.
\* Nothing new is ever seen of an index that could not be opened.
CaughtUp ==
    /\ last' \in Int /\ last <= last' /\ last' < Counted' /\ size' \in Nat
    /\ lastGetValue' \in Int
    /\ Faithful'
    /\ index' # None => index # None /\ fd' = fd
    /\ fd' \in BOOLEAN
    /\ Unread => Unread'
    /\ index # None => /\ lastGetValue <= lastGetValue' /\ lastGetValue' <= last'
                       /\ index' # None => \A i \in 0..last : index'[i] = index[i]
    /\ seen' \in Nat /\ UNCHANGED opened
    /\ index' # None /\ fd' => seen' = last' + 1
    /\ index' # None /\ fd' /\ Last' = Last => lull' /\ Last' = last'

LEMMA CatchUpLemma ==
    ASSUME IInv, pc # "new", UNCHANGED <<vdr, interval>>, CatchUp
    PROVE  CaughtUp
  <1>1. /\ last \in Int /\ -1 <= last /\ last < Counted /\ size \in Nat
        /\ lastGetValue \in Int /\ seen \in Nat
        /\ interval \in {0, NewFrames} /\ NewFrames \in Nat /\ NewFrames # 0
    BY IndexFileAssumption DEF IInv, CountInv
  <1>2. /\ index # None => 0 <= lastGetValue /\ lastGetValue <= last
        /\ index # None /\ fd => seen = last + 1
        /\ fd \in BOOLEAN
    BY DEF IInv, OpenInv
  <1>3. /\ whole \in Nat /\ whole <= Counted /\ Counted' = Counted /\ Counted \in Nat
    <2>1. whole \in Nat /\ half \in BOOLEAN
      BY DEF IInv, DiskInv, HalfInv, whole
    <2>2. Counted' = Counted
      BY DEF vdr, Counted, whole
    <2> QED
      BY <2>1, <2>2 DEF Counted
  <1>4. /\ last' \in Int /\ last <= last' /\ last' < Counted' /\ size' \in Nat
        /\ Faithful'
        /\ index' # None => /\ index # None /\ fd' = fd
                            /\ \A i \in 0..last : index'[i] = index[i]
        /\ fd' \in BOOLEAN
        /\ Unread => Unread'
        /\ index' # None /\ fd' => last' = IF whole - 1 > last THEN whole - 1 ELSE last
    <2>1. ReadIndex
      BY DEF CatchUp
    <2>2. CASE index # None /\ fd /\ whole - 1 > last /\ Load(whole - 1) /\ UNCHANGED fd
      <3>1. whole - 1 \in Nat /\ last < whole - 1 /\ whole - 1 < Counted
        BY <1>1, <1>3, <2>2
      <3>2. ~Unread
        BY <2>2 DEF Unread
      <3>3. /\ last' = whole - 1 /\ size' \in Nat /\ Faithful'
            /\ \A i \in 0..last : index'[i] = index[i]
        BY <2>2, <3>1, <3>2, LoadLemma
      <3> QED
        BY <1>1, <1>2, <1>3, <2>2, <3>1, <3>2, <3>3
    <2>3. CASE index # None /\ fd /\ index' = None /\ fd' = FALSE /\ UNCHANGED <<last, size>>
      <3>1. ~Unread /\ Faithful'
        BY <2>3 DEF Faithful, Unread
      <3>2. fd' \in BOOLEAN
        BY <2>3
      <3> QED
        BY <1>1, <1>3, <2>3, <3>1, <3>2
    <2>4. CASE ~(index # None /\ fd /\ whole - 1 > last) /\ UNCHANGED <<index, fd, last, size>>
      <3>1. UNCHANGED records /\ Damaged' = Damaged
        BY DEF vdr, Damaged, whole
      <3>2. Unread' = Unread
        BY <2>4 DEF Unread
      <3>3. Faithful'
        BY <2>4, <3>1, <3>2 DEF IInv, Faithful
      <3> QED
        BY <1>1, <1>2, <1>3, <2>4, <3>2, <3>3
    <2> QED
      BY <2>1, <2>2, <2>3, <2>4 DEF ReadIndex
  <1>5. /\ lastGetValue' \in Int
        /\ index # None => lastGetValue <= lastGetValue' /\ lastGetValue' <= last'
        /\ index # None /\ interval # 0 /\ lastGetValue' = lastGetValue
               => lastGetValue' = last'
    <2> DEFINE iframe == NextIFrame(index', last', lastGetValue + 2 * interval, TRUE, TRUE)
    <2>1. lastGetValue' =
             IF interval = 0 THEN lastGetValue
             ELSE IF iframe - 1 > last' \/ iframe - 1 < 0 THEN last' ELSE iframe - 1
      BY DEF CatchUp, Step
    <2>2. CASE interval = 0
      BY <1>1, <1>2, <1>4, <2>1, <2>2
    <2>3. CASE interval # 0 /\ index # None
      <3>1. lastGetValue + 2 * interval \in Nat
        BY <1>1, <1>2, <2>3
      <3>2. iframe \in {-1} \cup {j \in Nat : j > lastGetValue + 2 * interval}
        BY <1>4, <3>1, NextIFrameLemma
      <3> HIDE DEF iframe
      <3> QED
        BY <1>1, <1>2, <1>4, <2>1, <2>3, <3>2
    <2>4. CASE interval # 0 /\ index = None
      <3>1. index' = None
        BY <1>4, <2>4
      <3>2. iframe = -1
        BY <3>1 DEF NextIFrame
      <3> HIDE DEF iframe
      <3> QED
        BY <1>4, <2>1, <2>4, <3>2
    <2> QED
      BY <2>2, <2>3, <2>4
  <1>6. /\ seen' = (IF whole > seen THEN whole ELSE seen) /\ UNCHANGED opened
        /\ lull' = (whole <= seen)
    BY DEF CatchUp
  <1>7. ASSUME index' # None, fd'
        PROVE  seen' = last' + 1
    <2>1. /\ last' = IF whole - 1 > last THEN whole - 1 ELSE last
          /\ seen = last + 1
      BY <1>2, <1>4, <1>7
    <2> QED
      BY <1>1, <1>3, <1>6, <2>1
  <1>8. seen' \in Nat
    BY <1>1, <1>3, <1>6
  <1>9. ASSUME index' # None, fd', Last' = Last
        PROVE  lull' /\ Last' = last'
    <2>1. last' = last /\ Last' = last'
      BY <1>1, <1>2, <1>4, <1>5, <1>9 DEF Last
    <2>2. index # None /\ fd
      BY <1>4, <1>9
    <2>3. seen = last + 1 /\ last' = IF whole - 1 > last THEN whole - 1 ELSE last
      BY <1>2, <1>4, <1>9, <2>2
    <2>4. whole <= seen
      BY <1>1, <1>3, <2>1, <2>3
    <2> QED
      BY <1>6, <2>1, <2>4
  <1> QED
    BY <1>4, <1>5, <1>6, <1>7, <1>8, <1>9 DEF CaughtUp

-----------------------------------------------------------------------------
(* The steps of scanLoop.                                                  *)

\* VDR does nothing meanwhile.
LEMMA DiskStays ==
    ASSUME IInv, UNCHANGED vdr
    PROVE  /\ DiskInv' /\ whole' = whole /\ Counted' = Counted /\ Damaged' = Damaged
           /\ records' = records
  <1>1. records' = records
    BY DEF vdr
  <1>2. whole' = whole
    BY <1>1 DEF whole
  <1>3. Counted' = Counted /\ Damaged' = Damaged
    BY <1>2 DEF vdr, Counted, Damaged
  <1>4. HalfInv'
    BY DEF IInv, DiskInv, HalfInv, vdr
  <1>5. settled' \in Nat /\ settled' <= whole'
    BY <1>2 DEF IInv, DiskInv, vdr
  <1> QED
    BY <1>1, <1>2, <1>3, <1>4, <1>5 DEF IInv, DiskInv

\* No frame has been read.
LEMMA DataStays ==
    ASSUME IInv, UNCHANGED <<vdr, data>>, (pc' = "killed") = (pc = "killed"),
           Unread => Unread'
    PROVE  ReadInv' /\ ReadsOwnFile'
  <1>1. /\ whole' = whole /\ Damaged' = Damaged /\ records' = records
        /\ UNCHANGED <<gone, fileNumber, file, got>>
    BY DiskStays DEF vdr, data
  <1>2. ReadInv'
    BY <1>1 DEF IInv, ReadInv
  <1>3. ReadsOwnFile'
    BY <1>1 DEF IInv, ReadsOwnFile
  <1> QED
    BY <1>2, <1>3

\* Nothing has been read of the index.
LEMMA IndexStays ==
    ASSUME IInv, UNCHANGED <<vdr, entries>>
    PROVE  Faithful'
  BY DiskStays DEF IInv, Faithful, entries, Unread

LEMMA OpenStep ==
    ASSUME IInv, Open
    PROVE  IInv'
  <1>1. /\ pc = "new" /\ index = None /\ last = -1 /\ size = 0 /\ lastGetValue = 0
        /\ frameCount = 0 /\ ~scanDone /\ interval \in {0, NewFrames}
    BY DEF IInv, OpenInv, CountInv, Open
  <1>2. /\ UNCHANGED <<vdr, lastGetValue, interval, got, frameCount, scanDone>>
        /\ fileNumber' = 1 /\ file' = 1 /\ opened' = last' /\ seen' = last' + 1
        /\ lull' = FALSE /\ pc' = IF interval = 0 THEN "wait" ELSE "spin"
    BY DEF Open
  <1>3. /\ DiskInv' /\ whole' = whole /\ Counted' = Counted /\ Damaged' = Damaged
        /\ whole \in Nat /\ Counted \in Nat
    <2>1. whole \in Nat /\ half \in BOOLEAN
      BY DEF IInv, DiskInv, HalfInv, whole
    <2>2. Counted \in Nat
      BY <2>1 DEF Counted
    <2> QED
      BY <1>2, <2>1, <2>2, DiskStays
  <1>4. /\ last' \in {-1, Counted - 1} /\ size' \in Nat /\ Faithful'
        /\ index' # None => last' >= 0
        /\ fd' \in BOOLEAN
    <2>1. CASE Counted > 0 /\ Load(Counted - 1) /\ fd' = TRUE
      <3>1. Counted - 1 \in Nat /\ last < Counted - 1 /\ Counted - 1 < Counted /\ ~Unread
        BY <1>1, <1>3, <2>1 DEF Unread
      <3>2. last' = Counted - 1 /\ size' \in Nat /\ Faithful'
        BY <1>1, <1>2, <2>1, <3>1, LoadLemma
      <3> QED
        BY <2>1, <3>1, <3>2
    <2>2. CASE NoIndex \/ (Counted > 0 /\ NotRead(Counted))
      <3>1. /\ index' = None /\ fd' = FALSE
            /\ (last' = -1 /\ size' = 0) \/ (last' = Counted - 1 /\ size' = Counted)
        BY <2>2 DEF NoIndex, NotRead
      <3>2. Faithful' /\ fd' \in BOOLEAN
        BY <3>1 DEF Faithful
      <3> QED
        BY <1>3, <3>1, <3>2
    <2>3. CASE Counted > 0 /\ NotOpened(Counted)
      <3>1. /\ last' = Counted - 1 /\ size' = Counted /\ fd' = FALSE
            /\ DOMAIN index' = 0..(Counted - 1)
        BY <2>3 DEF NotOpened
      <3>2. Unread' \/ index' = None
        BY <3>1 DEF Unread
      <3>3. last' \in Int /\ size' \in Nat /\ last' < size' /\ 0 <= last'
        BY <1>3, <2>3, <3>1
      <3>4. Faithful'
        BY <3>1, <3>2, <3>3 DEF Faithful
      <3>5. fd' \in BOOLEAN
        BY <3>1
      <3> QED
        BY <3>1, <3>3, <3>4, <3>5
    <2>4. \/ NoIndex
          \/ Counted > 0 /\ (NotOpened(Counted) \/ NotRead(Counted))
          \/ Counted > 0 /\ Load(Counted - 1) /\ fd' = TRUE
      BY DEF Open, Counted
    <2> QED
      BY <2>1, <2>2, <2>3, <2>4
  <1>5. CountInv'
    <2>1. /\ last' \in Int /\ -1 <= last' /\ last' < Counted' /\ opened' \in Int
          /\ seen' \in Nat /\ size' \in Nat
      <3>1. PICK n \in {-1, Counted - 1} : n = last'
        BY <1>4
      <3>2. n \in Int /\ -1 <= n /\ n < Counted /\ n + 1 \in Nat
        BY <1>3
      <3> QED
        BY <1>2, <1>3, <1>4, <3>1, <3>2
    <2> QED
      BY <1>1, <1>2, <2>1 DEF IInv, CountInv, Labels
  <1>6. OpenInv'
    BY <1>1, <1>2, <1>3, <1>4 DEF OpenInv, Last
  <1>7. RoundInv'
    BY <1>1, <1>2 DEF RoundInv
  <1>8. ReadInv' /\ ReadsOwnFile'
    <2>1. got' = got /\ UNCHANGED records
      BY <1>2 DEF vdr
    <2>2. got = -1
      BY <1>1 DEF IInv, OpenInv
    <2> QED
      BY <1>2, <1>3, <2>1, <2>2 DEF ReadInv, ReadsOwnFile
  <1>9. DataThere' /\ EndsInLull'
    BY <1>1, <1>2 DEF DataThere, EndsInLull
  <1> QED
    BY <1>3, <1>4, <1>5, <1>6, <1>7, <1>8, <1>9 DEF IInv

\* The numbers and the entries, in a step that catches up or does not.
LEMMA NumbersStep ==
    ASSUME IInv, pc # "new", pc' \in Labels \ {"new"}, UNCHANGED <<vdr, interval>>,
           CatchUp \/ UNCHANGED <<entries, history>>,
           frameCount' \in {frameCount, Last'}
    PROVE  /\ CountInv' /\ OpenInv' /\ Faithful'
           /\ index # None => Last <= Last'
           /\ Unread => Unread'
           /\ UNCHANGED opened
  <1>1. /\ last \in Int /\ -1 <= last /\ last < Counted /\ size \in Nat
        /\ lastGetValue \in Int /\ frameCount \in Int /\ seen \in Nat /\ opened \in Int
        /\ interval \in {0, NewFrames}
    BY DEF IInv, CountInv
  <1>2. /\ index # None => /\ 0 <= last
                           /\ 0 <= lastGetValue /\ lastGetValue <= last
                           /\ frameCount <= Last
        /\ index # None /\ fd => seen = last + 1
        /\ fd \in BOOLEAN
    BY DEF IInv, OpenInv
  <1>3. /\ last' \in Int /\ last <= last' /\ last' < Counted' /\ size' \in Nat
        /\ lastGetValue' \in Int /\ seen' \in Nat /\ UNCHANGED <<interval, opened>>
        /\ Faithful'
        /\ index' # None => index # None
        /\ index' # None /\ fd' => seen' = last' + 1
        /\ fd' \in BOOLEAN
        /\ Unread => Unread'
        /\ index # None => lastGetValue <= lastGetValue' /\ lastGetValue' <= last'
    <2>1. CASE CatchUp
      <3>1. CaughtUp
        BY <2>1, CatchUpLemma
      <3> QED
        BY <3>1 DEF CaughtUp
    <2>2. CASE UNCHANGED <<entries, history>>
      <3>1. Faithful' /\ Counted' = Counted
        BY <2>2, IndexStays, DiskStays
      <3> QED
        BY <1>1, <1>2, <2>2, <3>1 DEF entries, history, Unread
    <2> QED
      BY <2>1, <2>2
  <1>4. Last \in Int /\ Last' \in Int /\ (index # None => Last <= Last')
    BY <1>1, <1>3 DEF Last
  <1>5. frameCount' \in Int /\ (index' # None => frameCount' <= Last')
    <2>1. CASE frameCount' = frameCount
      <3>1. index' # None => frameCount <= Last /\ Last <= Last'
        BY <1>2, <1>3, <1>4
      <3> QED
        BY <1>1, <1>4, <2>1, <3>1
    <2>2. CASE frameCount' = Last'
      BY <1>4, <2>2
    <2> QED
      BY <2>1, <2>2
  <1>6. CountInv'
    BY <1>1, <1>3, <1>5 DEF CountInv
  <1>7. OpenInv'
    <2>1. index' # None => /\ 0 <= last'
                           /\ 0 <= lastGetValue' /\ lastGetValue' <= last'
      BY <1>1, <1>2, <1>3
    <2>2. pc' # "new"
      OBVIOUS
    <2> QED
      BY <1>3, <1>5, <2>1, <2>2 DEF OpenInv
  <1> QED
    BY <1>3, <1>4, <1>6, <1>7

LEMMA SpinStep ==
    ASSUME IInv, Spin
    PROVE  IInv'
  <1>1. /\ pc = "spin" /\ pc' \in {"spin", "wait"} /\ UNCHANGED <<vdr, interval, data>>
        /\ UNCHANGED <<frameCount, scanDone>>
        /\ CatchUp \/ UNCHANGED <<entries, history>>
        /\ pc' = "wait" => UNCHANGED <<entries, history>>
    BY DEF Spin
  <1>2. CountInv' /\ OpenInv' /\ Faithful' /\ UNCHANGED opened /\ (Unread => Unread')
    BY <1>1, NumbersStep DEF Labels
  <1>3. DiskInv' /\ ReadInv' /\ ReadsOwnFile'
    BY <1>1, <1>2, DiskStays, DataStays
  <1>4. ~scanDone'
    BY <1>1 DEF IInv, RoundInv
  <1>5. interval # 0
    BY <1>1 DEF IInv, RoundInv
  <1>6. RoundInv'
    BY <1>1, <1>4, <1>5 DEF RoundInv
  <1>7. DataThere' /\ EndsInLull'
    BY <1>1, <1>4 DEF DataThere, EndsInLull
  <1> QED
    BY <1>2, <1>3, <1>6, <1>7 DEF IInv

LEMMA RoundStep ==
    ASSUME IInv, Round
    PROVE  IInv'
  <1>1. /\ pc = "wait" /\ UNCHANGED <<vdr, interval, data, scanDone>>
        /\ IF interval = 0 THEN UNCHANGED <<entries, history>> ELSE CatchUp
        /\ IF Last' - frameCount < NewFrames
           THEN pc' = "sleep" /\ UNCHANGED frameCount
           ELSE pc' = "scan" /\ frameCount' = Last'
    BY DEF Round
  <1>2. CountInv' /\ OpenInv' /\ Faithful' /\ UNCHANGED opened /\ (Unread => Unread')
    BY <1>1, NumbersStep DEF Labels
  <1>3. DiskInv' /\ ReadInv' /\ ReadsOwnFile'
    BY <1>1, <1>2, DiskStays, DataStays
  <1>4. ~scanDone'
    BY <1>1 DEF IInv, RoundInv
  <1>5. interval = 0 /\ pc' = "scan" => frameCount' = last' /\ last' = opened
    <2> SUFFICES ASSUME interval = 0, pc' = "scan"
                 PROVE  frameCount' = last' /\ last' = opened
      OBVIOUS
    <2>1. UNCHANGED last /\ Last' = last /\ frameCount' = last /\ ~(last - frameCount < NewFrames)
      BY <1>1 DEF entries, Last
    <2>2. last \in {frameCount, opened} /\ last \in Int
      BY <1>1 DEF IInv, RoundInv, CountInv
    <2> QED
      BY <2>1, <2>2, IndexFileAssumption
  <1>6. RoundInv'
    BY <1>1, <1>2, <1>4, <1>5 DEF RoundInv
  <1>7. DataThere'
    BY <1>1, <1>2, <1>5 DEF DataThere, IInv, CountInv
  <1>8. EndsInLull'
    BY <1>4 DEF EndsInLull
  <1> QED
    BY <1>2, <1>3, <1>6, <1>7, <1>8 DEF IInv

LEMMA WakeStep ==
    ASSUME IInv, Wake
    PROVE  IInv'
  <1>1. /\ pc = "sleep" /\ pc' = "settle" /\ CatchUp
        /\ UNCHANGED <<vdr, interval, data, frameCount, scanDone>>
    BY DEF Wake
  <1>2. CountInv' /\ OpenInv' /\ Faithful' /\ (index # None => Last <= Last') /\ (Unread => Unread')
    BY <1>1, NumbersStep DEF Labels
  <1>3. DiskInv' /\ ReadInv' /\ ReadsOwnFile'
    BY <1>1, <1>2, DiskStays, DataStays
  <1>4. ~scanDone'
    BY <1>1 DEF IInv, RoundInv
  <1>5. ASSUME index' # None, fd', frameCount' = Last'
        PROVE  lull' /\ frameCount' = last'
    <2>1. CaughtUp
      BY <1>1, CatchUpLemma
    <2>2. index # None /\ frameCount <= Last
      BY <1>5, <2>1 DEF CaughtUp, IInv, OpenInv
    <2>3. Last \in Int /\ Last' \in Int /\ frameCount \in Int
      BY <1>2 DEF Last, CountInv, IInv
    <2>4. Last' = Last
      BY <1>1, <1>2, <1>5, <2>2, <2>3
    <2> QED
      BY <1>5, <2>1, <2>4 DEF CaughtUp
  <1>6. RoundInv'
    BY <1>1, <1>4, <1>5 DEF RoundInv
  <1>7. DataThere' /\ EndsInLull'
    BY <1>1, <1>4 DEF DataThere, EndsInLull
  <1> QED
    BY <1>2, <1>3, <1>6, <1>7 DEF IInv

LEMMA SettleStep ==
    ASSUME IInv, Settle
    PROVE  IInv'
  <1>1. /\ pc = "settle" /\ pc' = "scan" /\ frameCount' = Last
        /\ scanDone' = (scanDone \/ frameCount = Last)
        /\ UNCHANGED <<vdr, entries, interval, data, history>>
        /\ settled > last \/ settled = whole
    BY DEF Settle
  <1>2. Last' = Last /\ UNCHANGED <<index, fd, last, opened, lull, settled>>
    BY <1>1 DEF Last, entries, history, vdr
  <1>3. CountInv' /\ OpenInv' /\ Faithful' /\ (Unread => Unread')
    BY <1>1, <1>2, NumbersStep DEF Labels
  <1>4. DiskInv' /\ ReadInv' /\ ReadsOwnFile'
    BY <1>1, <1>3, DiskStays, DataStays
  <1>5. ~scanDone
    BY <1>1 DEF IInv, RoundInv
  <1>6. RoundInv'
    BY <1>1, <1>2 DEF RoundInv, Last
  <1>7. DataThere'
    <2> SUFFICES ASSUME interval = 0, NEW i \in 0..(last - 1)
                 PROVE  i < settled
      BY <1>1, <1>2 DEF DataThere, Last
    <2>1. last \in Int /\ last < Counted /\ settled \in Nat
      BY DEF IInv, CountInv, DiskInv
    <2>2. whole \in Nat /\ Counted <= whole + 1 /\ Counted \in Nat
      <3>1. whole \in Nat /\ half \in BOOLEAN
        BY DEF IInv, DiskInv, HalfInv, whole
      <3> QED
        BY <3>1 DEF Counted
    <2> QED
      BY <1>1, <2>1, <2>2
  <1>8. EndsInLull'
    <2> SUFFICES ASSUME scanDone', index' # None, ~Unread'
                 PROVE  lull' /\ frameCount' = last'
      BY DEF EndsInLull
    <2>1. index # None /\ fd /\ frameCount = Last
      BY <1>1, <1>2, <1>5 DEF Unread
    <2>2. lull /\ frameCount = last
      BY <1>1, <2>1 DEF IInv, RoundInv
    <2> QED
      BY <1>1, <1>2, <2>1, <2>2
  <1> QED
    BY <1>3, <1>4, <1>6, <1>7, <1>8 DEF IInv

LEMMA EndRoundStep ==
    ASSUME IInv, EndRound
    PROVE  IInv'
  <1>1. /\ pc = "scan" /\ pc' = IF scanDone THEN "done" ELSE "wait"
        /\ UNCHANGED <<vdr, entries, interval, data, frameCount, scanDone, history>>
    BY DEF EndRound
  <1>2. Last' = Last /\ UNCHANGED <<index, fd, last, opened, lull, settled>>
    BY <1>1 DEF Last, entries, history, vdr
  <1>3. CountInv' /\ OpenInv' /\ Faithful' /\ (Unread => Unread')
    BY <1>1, NumbersStep DEF Labels
  <1>4. DiskInv' /\ ReadInv' /\ ReadsOwnFile'
    BY <1>1, <1>3, DiskStays, DataStays
  <1>5. RoundInv'
    BY <1>1, <1>2 DEF IInv, RoundInv
  <1>6. DataThere' /\ EndsInLull'
    BY <1>1, <1>2 DEF IInv, DataThere, EndsInLull, Unread
  <1> QED
    BY <1>3, <1>4, <1>5, <1>6 DEF IInv

\* A frame whose record is sound is read from the file VDR wrote it to.
LEMMA ReadFrameStep ==
    ASSUME IInv, ReadFrame
    PROVE  IInv'
  <1>1. PICK i \in 0..(last - 1) :
            /\ got' = i /\ SetOffset(index[i].number)
            /\ pc' = IF file' = 0 THEN "killed" ELSE "scan"
    BY DEF ReadFrame
  <1>2. /\ pc = "scan" /\ pc' \in {"scan", "killed"} /\ index # None
        /\ UNCHANGED <<vdr, entries, interval, frameCount, scanDone, history>>
    BY <1>1 DEF ReadFrame
  <1>3. Last' = Last /\ UNCHANGED <<index, fd, last, opened, lull, settled, records, gone>>
    BY <1>2 DEF Last, entries, history, vdr
  <1>4. CountInv' /\ OpenInv' /\ Faithful' /\ (Unread => Unread')
    BY <1>2, NumbersStep DEF Labels
  <1>5. DiskInv' /\ whole' = whole /\ Damaged' = Damaged
    BY <1>2, DiskStays
  <1>6. RoundInv'
    BY <1>2, <1>3 DEF IInv, RoundInv
  <1>7. DataThere' /\ EndsInLull'
    BY <1>2, <1>3 DEF IInv, DataThere, EndsInLull, Unread
  <1>8. i \in Int /\ 0 <= i /\ i < whole /\ i \in 0..last /\ i + 1 \in 1..whole
    <2>1. last \in Int /\ last < Counted
      BY DEF IInv, CountInv
    <2>2. whole \in Nat /\ Counted <= whole + 1 /\ Counted \in Nat
      <3>1. whole \in Nat /\ half \in BOOLEAN
        BY DEF IInv, DiskInv, HalfInv, whole
      <3> QED
        BY <3>1 DEF Counted
    <2> QED
      BY <2>1, <2>2
  <1>9. ReadInv'
    <2>1. file' # 0 => file' = fileNumber'
      BY <1>1 DEF SetOffset, IInv, ReadInv
    <2> QED
      BY <1>1, <1>5, <1>8, <2>1 DEF ReadInv
  <1>10. ASSUME i \notin Damaged, ~Unread
         PROVE  IF file' = 0 THEN gone ELSE file' = records[i + 1]
    <2>1. index[i].number = records[i + 1]
      BY <1>2, <1>8, <1>10 DEF IInv, Faithful
    <2>2. records[i + 1] \in 1..MaxFiles
      <3>1. i + 1 \in 1..Len(records) /\ records \in Seq(Numbers)
        BY <1>8 DEF whole, IInv, DiskInv
      <3> QED
        BY <3>1, ElementLemma DEF Numbers
    <2>3. gone \/ FileExists(records[i + 1])
      BY <1>8 DEF FileExists
    <2>4. records[i + 1] # 0
      BY <2>2
    <2>5. SetOffset(records[i + 1])
      BY <1>1, <2>1
    <2>6. file # 0 => file = fileNumber
      BY DEF IInv, ReadInv
    <2> QED
      BY <2>2, <2>3, <2>4, <2>5, <2>6 DEF SetOffset
  <1>11. ReadsOwnFile'
    <2>1. Unread' = Unread
      BY <1>3 DEF Unread
    <2> QED
      BY <1>1, <1>3, <1>5, <1>10, <2>1 DEF ReadsOwnFile
  <1> QED
    BY <1>4, <1>5, <1>6, <1>7, <1>9, <1>11 DEF IInv

LEMMA StutterStep ==
    ASSUME IInv, UNCHANGED vars
    PROVE  IInv'
  <1>1. /\ UNCHANGED <<vdr, entries, interval, data, history>>
        /\ UNCHANGED <<index, fd, last, size, lastGetValue, frameCount, scanDone, pc,
                       opened, seen, lull, settled>>
    BY DEF vars, vdr, entries, data, history
  <1>0. Unread' = Unread
    BY <1>1 DEF Unread
  <1>2. DiskInv' /\ Counted' = Counted /\ Faithful' /\ ReadInv' /\ ReadsOwnFile'
    BY <1>0, <1>1, DiskStays, DataStays, IndexStays
  <1>3. CountInv'
    BY <1>1, <1>2 DEF IInv, CountInv
  <1>4. OpenInv'
    <2>1. UNCHANGED got
      BY <1>1 DEF data
    <2> QED
      BY <1>1, <2>1 DEF IInv, OpenInv, Last
  <1>5. RoundInv'
    BY <1>1 DEF IInv, RoundInv, Last
  <1>6. DataThere' /\ EndsInLull'
    BY <1>0, <1>1 DEF IInv, DataThere, EndsInLull
  <1> QED
    BY <1>2, <1>3, <1>4, <1>5, <1>6 DEF IInv

-----------------------------------------------------------------------------
(* The theorems.                                                           *)

LEMMA Invariant == Spec => []IInv
  <1>1. IInv /\ [Next]_vars => IInv'
    BY VDRStepInv, OpenStep, SpinStep, RoundStep, WakeStep, SettleStep,
       ReadFrameStep, EndRoundStep, StutterStep DEF Next
  <1> QED
    BY InitInv, <1>1, PTL DEF Spec

\* What noad has in memory is the index VDR has written, through every crash
\* in the middle of a record and every catching up; but for the index that
\* could be looked at and not opened, whose entries are whatever the memory
\* held (vdr_cl.cpp, 276-454, the exception at 311-331).
THEOREM FaithfulHolds == Spec => []Faithful
  BY Invariant, PTL DEF IInv

\* No frame that came after the start is scanned before its data is there
\* (tnoad.cpp, 107-133).
THEOREM DataThereHolds == Spec => []DataThere
  BY Invariant, PTL DEF IInv

\* The scan ends only when VDR has stopped adding frames (tnoad.cpp, 107-133),
\* or if the index cannot be read any more or could not be opened: then it
\* ends with the frames there were (vdr_cl.cpp, 311-331 and 399-454).
THEOREM EndsInLullHolds == Spec => []EndsInLull
  BY Invariant, PTL DEF IInv

\* A frame whose record is sound comes from the file that record names
\* (vdr_cl.cpp, 75-193); but for the index that could not be opened, which
\* names files at random (vdr_cl.cpp, 311-331 and 478).
THEOREM ReadsOwnFileHolds == Spec => []ReadsOwnFile
  BY Invariant, PTL DEF IInv

\* A step of the system takes no entry back that scanLoop may have used.
Grows ==
    pc # "new" /\ index # None =>
        /\ Last' >= Last
        /\ index' # None => \A i \in 0..last : index'[i] = index[i]

LEMMA GrowsLemma ==
    ASSUME IInv, Next
    PROVE  Grows
  <1>1. ASSUME pc # "new", index # None, CatchUp, UNCHANGED <<vdr, interval>>
        PROVE  Last' >= Last /\ (index' # None => \A i \in 0..last : index'[i] = index[i])
    <2>1. CaughtUp
      BY <1>1, CatchUpLemma
    <2>2. last \in Int /\ lastGetValue \in Int
      BY DEF IInv, CountInv
    <2> QED
      BY <1>1, <2>1, <2>2 DEF CaughtUp, Last
  <1>2. ASSUME UNCHANGED <<entries, interval>>
        PROVE  Last' >= Last /\ \A i \in 0..last : index'[i] = index[i]
    <2>1. last \in Int /\ lastGetValue \in Int
      BY DEF IInv, CountInv
    <2> QED
      BY <1>2, <2>1 DEF entries, Last
  <1>3. \/ pc = "new"
        \/ UNCHANGED <<entries, interval>>
        \/ CatchUp /\ UNCHANGED <<vdr, interval>>
    BY DEF Next, VDRStep, Open, Spin, Round, Wake, Settle, ReadFrame, EndRound
  <1> QED
    BY <1>1, <1>2, <1>3 DEF Grows

\* The number of frames never falls and no entry in memory changes, in test
\* mode too (vdr_cl.cpp, 399-454, 780-791).
THEOREM OnlyGrowsHolds == Spec => OnlyGrows
  <1>1. IInv /\ [Next]_vars =>
            [ pc # "new" /\ index # None =>
                 /\ Last' >= Last
                 /\ index' # None => \A i \in 0..last : index'[i] = index[i] ]_vars
    BY GrowsLemma DEF Grows
  <1> QED
    BY Invariant, <1>1, PTL DEF Spec, OnlyGrows
=============================================================================
