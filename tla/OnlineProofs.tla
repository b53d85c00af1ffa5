---------------------------- MODULE OnlineProofs ----------------------------
(***************************************************************************)
(* The instances of noad on one recording, and the scan one of them runs   *)
(* while VDR writes it.                                                    *)
(*                                                                         *)
(* PidFile, for every number of noad processes, signals, crashes and       *)
(* failing calls: type correctness, that noad.pid belongs to the instance  *)
(* that holds the recording, the exclusion that follows, and that only a   *)
(* process killed without a handler leaves its file behind.                *)
(*                                                                         *)
(* OnlineScan, for every recording, every distance of I-frames and every   *)
(* way the index grows: where the marks are set, that they are not too     *)
(* close to one another, and that they say what the scan will go on with.  *)
(***************************************************************************)
EXTENDS PidFile, OnlineScan, NumberTheorems

(***************************************************************************)
(* noad.pid.                                                               *)
(***************************************************************************)

\* Before the loop is left, i has not passed its limit.
TriesInv ==
    \A p \in Proc :
        pc[p] \in {"idle", "make", "info", "kill", "sleep"} => tries[p] \in 0..3

\* The command a process was given still decides where it can stand.
CmdInv ==
    \A p \in Proc :
        /\ pc[p] \in {"make", "write"} => cmd[p] \in {"after", "scan"}
        /\ pc[p] = "sleep" => cmd[p] = "after"
        /\ pc[p] = "kill" => cmd[p] \in {"after", "deleted"}

\* noad.pid exists exactly when it has a creator, and names it or nobody.
FileInv ==
    /\ creator = NoFile <=> pidFile = NoFile
    /\ creator # NoFile => pidFile \in {creator, NoPid}

\* The creator of noad.pid has not come to its last exit.
CreatorInv ==
    creator # NoFile =>
        /\ cmd[creator] # "nopid"
        /\ pc[creator] \in {"write", "setup", "scan", "remove", "handler",
                            "killed"}

\* The inductive invariant.
IInv == TypeOK /\ TriesInv /\ CmdInv /\ FileInv /\ CreatorInv /\ OwnFile

-----------------------------------------------------------------------------

LEMMA InitIInv == Init => IInv
  BY PidAssumption DEF Init, IInv, TypeOK, TriesInv, CmdInv, FileInv, CreatorInv,
       OwnFile, Holding, Labels, Commands, Unprotected, Protected, Ended

\* A step that only moves one process between labels, and what AfterSignal
\* may return.
LEMMA AfterSignalLabels ==
    ASSUME TypeOK, NEW q \in Proc
    PROVE  /\ AfterSignal(q) \in Labels
           /\ AfterSignal(q) \in {"killed", "handler", pc[q]}
           /\ AfterSignal(q) = "handler" =>
                 pc[q] \in {"scan", "remove", "exit", "handler"}
  BY DEF TypeOK, AfterSignal, Labels, Unprotected, Protected, Ended

LEMMA StartStep ==
    ASSUME IInv, NEW p \in Proc, Start(p)
    PROVE  IInv'
  <1> USE DEF IInv, Start, Goto
  <1>1. PICK c \in Commands :
            /\ cmd' = [cmd EXCEPT ![p] = c]
            /\ pc' = [pc EXCEPT ![p] = CASE c = "deleted" -> "info"
                                         [] c = "nopid"   -> "setup"
                                         [] OTHER         -> "make"]
    OBVIOUS
  <1>2. TypeOK'
    BY <1>1 DEF TypeOK, Commands, Labels, Unprotected
  <1>3. TriesInv' /\ CmdInv'
    BY <1>1, <1>2 DEF TypeOK, TriesInv, CmdInv, Commands
  <1>4. FileInv'
    BY DEF FileInv
  <1>5. CreatorInv'
    BY <1>1 DEF TypeOK, CreatorInv
  <1>6. OwnFile'
    BY <1>1 DEF TypeOK, OwnFile, Holding, Commands
  <1> QED
    BY <1>2, <1>3, <1>4, <1>5, <1>6

\* The steps of the pidfile loop.
LEMMA LoopStep ==
    ASSUME IInv, NEW p \in Proc,
           \/ Create(p) \/ CreateExists(p) \/ CreateFails(p) \/ WritePid(p)
           \/ ReadInfo(p) \/ Sleep(p)
    PROVE  IInv'
  <1> USE PidAssumption DEF IInv, Goto
  <1>1. CASE Create(p)
    <2> USE <1>1 DEF Create
    <2>1. TypeOK' /\ TriesInv' /\ CmdInv'
      BY DEF TypeOK, TriesInv, CmdInv, Labels, Unprotected
    <2>2. FileInv' /\ CreatorInv'
      BY DEF TypeOK, CmdInv, FileInv, CreatorInv
    <2>3. OwnFile'
      BY DEF TypeOK, OwnFile, Holding
    <2> QED
      BY <2>1, <2>2, <2>3
  <1>2. CASE CreateExists(p) \/ CreateFails(p)
    <2> USE <1>2 DEF CreateExists, CreateFails
    <2>1. TypeOK' /\ TriesInv' /\ CmdInv'
      BY DEF TypeOK, TriesInv, CmdInv, Labels, Unprotected, Ended
    <2>2. FileInv' /\ CreatorInv' /\ OwnFile'
      BY DEF TypeOK, FileInv, CreatorInv, OwnFile, Holding
    <2> QED
      BY <2>1, <2>2
  <1>3. CASE WritePid(p)
    <2> USE <1>3 DEF WritePid
    <2>1. TypeOK' /\ TriesInv' /\ CmdInv'
      BY DEF TypeOK, TriesInv, CmdInv, Labels, Unprotected
    <2>2. FileInv' /\ CreatorInv'
      BY DEF TypeOK, FileInv, CreatorInv
    <2>3. OwnFile'
      BY DEF TypeOK, OwnFile, Holding
    <2> QED
      BY <2>1, <2>2, <2>3
  <1>4. CASE ReadInfo(p)
    <2>1. PICK pid \in PidsRead :
            /\ \/ /\ cmd[p] = "deleted"
                  /\ Goto(p, IF pid = NoPid THEN "done" ELSE "kill")
                  /\ UNCHANGED tries
               \/ /\ cmd[p] = "after"
                  /\ tries' = [tries EXCEPT ![p] = @ + 1]
                  /\ Goto(p, CASE tries'[p] > 3 -> "done"
                               [] tries'[p] = 3 -> "kill"
                               [] OTHER         -> "sleep")
               \/ /\ cmd[p] = "scan"
                  /\ Goto(p, "done")
                  /\ UNCHANGED tries
            /\ olPid' = [olPid EXCEPT ![p] = IF pc'[p] = "kill" THEN pid
                                             ELSE @]
      BY <1>4 DEF ReadInfo
    <2>2. pid \in Proc \cup {NoPid, Stray}
      BY <2>1 DEF PidsRead, TypeOK
    <2>3. tries[p] \in 0..3 /\ tries' \in [Proc -> 0..4]
      BY <1>4, <2>1 DEF ReadInfo, TypeOK, TriesInv
    <2>4. TypeOK'
      BY <1>4, <2>1, <2>2, <2>3
         DEF ReadInfo, TypeOK, Labels, Unprotected, Ended
    <2>5. /\ \A q \in Proc \ {p} : pc'[q] = pc[q] /\ tries'[q] = tries[q]
          /\ cmd' = cmd /\ pc'[p] \in {"done", "kill", "sleep"}
      BY <1>4, <2>1, <2>3 DEF ReadInfo, TypeOK
    <2>6. pc'[p] = "sleep" => cmd[p] = "after"
      BY <1>4, <2>1 DEF ReadInfo, TypeOK
    <2>7. pc'[p] = "kill" => cmd[p] \in {"after", "deleted"}
      BY <1>4, <2>1 DEF ReadInfo, TypeOK
    <2>8. pc'[p] \in {"kill", "sleep"} => tries'[p] \in 0..3
      <3>1. CASE cmd[p] = "after"
        BY <1>4, <2>1, <2>3, <3>1 DEF ReadInfo, TypeOK
      <3>2. CASE cmd[p] # "after"
        BY <1>4, <2>1, <2>3, <3>2 DEF ReadInfo, TypeOK
      <3> QED
        BY <3>1, <3>2
    <2>9. TriesInv' /\ CmdInv'
      BY <2>5, <2>6, <2>7, <2>8 DEF TriesInv, CmdInv
    <2>10. FileInv' /\ CreatorInv' /\ OwnFile'
      BY <1>4, <2>1 DEF ReadInfo, TypeOK, FileInv, CreatorInv, OwnFile, Holding
    <2> QED
      BY <2>4, <2>9, <2>10
  <1>5. CASE Sleep(p)
    <2> USE <1>5 DEF Sleep
    <2>1. TypeOK' /\ TriesInv' /\ CmdInv'
      BY DEF TypeOK, TriesInv, CmdInv, Labels, Unprotected
    <2>2. FileInv' /\ CreatorInv' /\ OwnFile'
      BY DEF TypeOK, FileInv, CreatorInv, OwnFile, Holding
    <2> QED
      BY <2>1, <2>2
  <1> QED
    BY <1>1, <1>2, <1>3, <1>4, <1>5

\* A signal, from a noad or from outside: every process either stays where it
\* is or is killed or runs its handler.
LEMMA SignalStep ==
    ASSUME IInv, NEW p \in Proc, Kill(p) \/ Signal(p)
    PROVE  IInv'
  <1> USE DEF IInv
  <1>1. /\ pc' \in [Proc -> Labels]
        /\ \A q \in Proc :
             \/ pc'[q] = pc[q] \/ pc'[q] = "killed"
             \/ /\ pc'[q] = "handler"
                /\ pc[q] \in {"scan", "remove", "exit", "handler"}
             \/ /\ pc[q] = "kill"
                /\ pc'[q] = IF cmd[q] = "deleted" THEN "done" ELSE "sleep"
    <2>1. CASE Kill(p)
      BY <2>1, AfterSignalLabels
         DEF Kill, TypeOK, Labels, Unprotected, Ended
    <2>2. CASE Signal(p)
      BY <2>2, AfterSignalLabels DEF Signal, Goto, TypeOK
    <2> QED
      BY <2>1, <2>2
  <1>2. /\ UNCHANGED <<pidFile, creator, cmd, tries, robbed>>
        /\ olPid' \in [Proc -> Proc \cup {NoPid, Stray}]
        /\ faults' \in 0..MaxFaults
    BY PidAssumption DEF Kill, Signal, TypeOK
  <1>3. TypeOK'
    BY <1>1, <1>2 DEF TypeOK
  <1>4. TriesInv' /\ CmdInv'
    BY <1>1, <1>2 DEF TriesInv, CmdInv
  <1>5. FileInv'
    BY <1>2 DEF FileInv
  <1>6. CreatorInv'
    BY <1>1, <1>2 DEF TypeOK, CreatorInv
  <1>7. OwnFile'
    BY <1>1, <1>2 DEF OwnFile, Holding
  <1> QED
    BY <1>3, <1>4, <1>5, <1>6, <1>7

\* From the pidfile to the scan and out of main.
LEMMA ExitStep ==
    ASSUME IInv, NEW p \in Proc,
           \/ InstallHandlers(p) \/ ScanEnds(p)
           \/ Remove(p) \/ Handler(p) \/ CleanUp(p)
    PROVE  IInv'
  <1> USE PidAssumption DEF IInv, Goto
  <1>1. CASE InstallHandlers(p) \/ ScanEnds(p)
    <2> USE <1>1 DEF InstallHandlers, ScanEnds
    <2>1. TypeOK' /\ TriesInv' /\ CmdInv'
      BY DEF TypeOK, TriesInv, CmdInv, Labels, Protected
    <2>2. FileInv' /\ CreatorInv' /\ OwnFile'
      BY DEF TypeOK, FileInv, CreatorInv, OwnFile, Holding
    <2> QED
      BY <2>1, <2>2
  <1>2. CASE Remove(p) \/ Handler(p) \/ CleanUp(p)
    <2> USE <1>2 DEF Remove, Handler, CleanUp, RmPidfile
    <2>1. TypeOK' /\ TriesInv' /\ CmdInv'
      BY DEF TypeOK, TriesInv, CmdInv, Labels, Protected, Ended
    <2>2. FileInv' /\ CreatorInv'
      BY DEF FileInv, CreatorInv
    <2>3. OwnFile'
      BY DEF TypeOK, OwnFile, Holding
    <2> QED
      BY <2>1, <2>2, <2>3
  <1> QED
    BY <1>1, <1>2

\* A crash, and the user who deletes a stale file.
LEMMA OutsideStep ==
    ASSUME IInv, UserDeletesStale \/ \E p \in Proc : Crash(p)
    PROVE  IInv'
  <1> USE PidAssumption DEF IInv
  <1>1. CASE UserDeletesStale
    <2> USE <1>1 DEF UserDeletesStale
    <2>1. TypeOK' /\ TriesInv' /\ CmdInv'
      BY DEF TypeOK, TriesInv, CmdInv
    <2>2. FileInv' /\ CreatorInv' /\ OwnFile'
      BY DEF FileInv, CreatorInv, OwnFile, Holding
    <2> QED
      BY <2>1, <2>2
  <1>2. ASSUME NEW p \in Proc, Crash(p)
        PROVE  IInv'
    <2> USE <1>2 DEF Crash, Goto
    <2>1. TypeOK' /\ TriesInv' /\ CmdInv'
      BY DEF TypeOK, TriesInv, CmdInv, Labels, Ended
    <2>2. FileInv' /\ CreatorInv' /\ OwnFile'
      BY DEF TypeOK, FileInv, CreatorInv, OwnFile, Holding
    <2> QED
      BY <2>1, <2>2
  <1> QED
    BY <1>1, <1>2

LEMMA NextIInv == IInv /\ [Next]_vars => IInv'
  <1> SUFFICES ASSUME IInv, [Next]_vars
               PROVE  IInv'
    OBVIOUS
  <1>1. CASE UNCHANGED vars
    BY <1>1 DEF vars, IInv, TypeOK, TriesInv, CmdInv, FileInv, CreatorInv,
                OwnFile, Holding
  <1>2. CASE Next
    BY <1>2, StartStep, LoopStep, SignalStep, ExitStep, OutsideStep
       DEF Next, Step
  <1> QED
    BY <1>1, <1>2

\* Every reachable state satisfies the inductive invariant.
THEOREM IInvHolds == Spec => []IInv
  BY InitIInv, NextIInv, PTL DEF Spec

\* The variables of every process keep their types.
THEOREM TypeCorrect == Spec => []TypeOK
  BY IInvHolds, PTL DEF IInv

\* The holder of a recording owns noad.pid unless it was unlinked under it.
THEOREM OwnFileHolds == Spec => []OwnFile
  BY IInvHolds, PTL DEF IInv

\* Of two instances that hold the recording one has lost its noad.pid.
THEOREM ExclusionHolds == Spec => []Exclusion
  <1>1. IInv => Exclusion
    BY DEF IInv, OwnFile, Exclusion
  <1> QED
    BY <1>1, IInvHolds, PTL

\* No instance that ends in an orderly way leaves a stale noad.pid.
THEOREM NoStaleFileHolds == Spec => []NoStaleFile
  <1>1. IInv => NoStaleFile
    BY PidAssumption DEF IInv, CreatorInv, NoStaleFile
  <1> QED
    BY <1>1, IInvHolds, PTL

-----------------------------------------------------------------------------
(* The cleanup of the marks.                                               *)

\* No two marks of M are closer than d.
Apart(M, d) == \A p, q \in M : p < q => q - p >= d

\* The cleanups, from any set of positions S on.
CleanFrom(M, S0, d, k) ==
    LET clean[S \in SUBSET M] ==
            IF Close(S, d, k) = {} THEN S ELSE clean[DropFirst(S, Close(S, d, k))]
    IN  clean[S0]

LEMMA CleanupConstants == MinMark \in Nat /\ MinActiveMark \in Nat
  BY MarkCleanupAssumption

\* The position of a mark is the number of a frame, or -1.
LEMMA LeastPlace ==
    ASSUME NEW n \in Nat, NEW S \in SUBSET (-1..n), S # {}
    PROVE  Min(S) \in S /\ \A y \in S : Min(S) <= y
  <1>1. \A y \in S : y \in Int /\ -1 <= y
    OBVIOUS
  <1>2. CASE -1 \in S
    BY <1>1, <1>2 DEF Min
  <1>3. CASE -1 \notin S
    <2>1. \A y \in S : y \in Nat
      BY <1>1, <1>3
    <2> QED
      BY <2>1, LeastElement
  <1> QED
    BY <1>2, <1>3

LEMMA GreatestPlace ==
    ASSUME NEW n \in Nat, NEW S \in SUBSET (-1..n), S # {}
    PROVE  Max(S) \in S /\ \A y \in S : y <= Max(S)
  <1> DEFINE T == S \ {-1}
  <1>1. \A y \in S : y \in Int /\ -1 <= y
    OBVIOUS
  <1>2. CASE T = {}
    BY <1>1, <1>2 DEF Max
  <1>3. CASE T # {}
    <2>1. T \in SUBSET (0..n)
      OBVIOUS
    <2>2. Max(T) \in T /\ \A y \in T : y <= Max(T)
      <3> HIDE DEF T
      <3> QED
        BY <1>3, <2>1, GreatestElement
    <2> DEFINE g == Max(T)
    <2>3. g \in S /\ \A y \in T : y <= g
      BY <2>2
    <2>4. g \in Nat
      <3>1. g \in T /\ \A x \in T : x \in Nat
        BY <2>1, <2>2
      <3> HIDE DEF g, T
      <3> QED
        BY <3>1
    <2> HIDE DEF g
    <2>5. \A y \in S : g >= y
      BY <1>1, <2>3, <2>4
    <2> QED
      BY <1>1, <2>3, <2>5 DEF Max
  <1> QED
    BY <1>2, <1>3

LEMMA PlacesAreFinite ==
    ASSUME NEW n \in Nat, NEW S \in SUBSET (-1..n)
    PROVE  IsFiniteSet(S) /\ Cardinality(S) \in Nat
  <1>1. -1 \in Int /\ n \in Int
    OBVIOUS
  <1>2. IsFiniteSet(-1..n)
    BY <1>1, FS_Interval
  <1> QED
    BY <1>2, FS_Subset, FS_CardinalityType

\* A pair that is too close has a first and a second mark.
LEMMA DropFirstFacts ==
    ASSUME NEW n \in Nat, NEW S \in SUBSET (-1..n), NEW d, NEW k, Close(S, d, k) # {}
    PROVE  /\ DropFirst(S, Close(S, d, k)) \in SUBSET S
           /\ Cardinality(S) \in Nat
           /\ Cardinality(DropFirst(S, Close(S, d, k))) = Cardinality(S) - 2
  <1> DEFINE C == Close(S, d, k)
             p == Min(C)
             later == {m \in S : p < m}
             q == Min(later)
  <1>1. C \in SUBSET (-1..n) /\ C \subseteq S
    BY DEF Close
  <1>2. p \in C /\ p \in S /\ p # Max(S)
    <2>1. p \in C
      <3>1. C # {}
        OBVIOUS
      <3> HIDE DEF C
      <3> QED
        BY <1>1, <3>1, LeastPlace
    <2> QED
      BY <2>1 DEF Close
  <1> HIDE DEF p, C
  <1>3. later # {}
    <2> SUFFICES ASSUME later = {}
                 PROVE  FALSE
      OBVIOUS
    <2>0. \A y \in S : y \in Int
      OBVIOUS
    <2>1. \A y \in S : y <= p
      BY <1>2, <2>0
    <2>2. \A x \in S : (\A y \in S : x >= y) => x = p
      BY <1>2, <2>0, <2>1
    <2>3. \E x \in S : \A y \in S : x >= y
      BY <1>2, <2>0, <2>1
    <2>4. Max(S) = p
      BY <2>2, <2>3 DEF Max
    <2> QED
      BY <1>2, <2>4
  <1>4. q \in S /\ q # p
    <2>1. later \in SUBSET (-1..n)
      OBVIOUS
    <2>2. q \in later
      <3> HIDE DEF later
      <3> QED
        BY <1>3, <2>1, LeastPlace
    <2> HIDE DEF q
    <2> QED
      BY <1>2, <2>2
  <1>5. DropFirst(S, C) = (S \ {p}) \ {q}
    BY DEF DropFirst, NextMark, p
  <1> HIDE DEF q
  <1>6. /\ IsFiniteSet(S \ {p}) /\ Cardinality(S \ {p}) = Cardinality(S) - 1
        /\ Cardinality((S \ {p}) \ {q}) = Cardinality(S \ {p}) - 1
    BY <1>2, <1>4, PlacesAreFinite, FS_RemoveElement
  <1>7. Cardinality(S) \in Nat
    BY PlacesAreFinite
  <1> QED
    BY <1>5, <1>6, <1>7 DEF C

\* Whatever is cleaned up, an even number of marks goes, and no pair is left.
LEMMA CleanFromFacts ==
    ASSUME NEW n \in Nat, NEW M \in SUBSET (-1..n), NEW S0 \in SUBSET M, NEW d, NEW k
    PROVE  /\ CleanFrom(M, S0, d, k) \in SUBSET S0
           /\ Close(CleanFrom(M, S0, d, k), d, k) = {}
           /\ Cardinality(CleanFrom(M, S0, d, k)) % 2 = Cardinality(S0) % 2
  <1> DEFINE Stop == {S \in SUBSET M : Close(S, d, k) = {}}
             Del == [S \in SUBSET M |-> DropFirst(S, Close(S, d, k))]
             F(f) == [S \in SUBSET M |-> IF S \in Stop THEN S ELSE f[Del[S]]]
             clean == CHOOSE f : f = F(f)
             Even == {S \in SUBSET S0 : Cardinality(S) % 2 = Cardinality(S0) % 2}
  <1>1. ASSUME NEW S \in SUBSET M
        PROVE  S \in SUBSET (-1..n) /\ IsFiniteSet(S)
    BY PlacesAreFinite
  <1>2. ASSUME NEW S \in SUBSET M, S \notin Stop
        PROVE  /\ Del[S] \in SUBSET S /\ Cardinality(S) \in Nat
               /\ Cardinality(Del[S]) = Cardinality(S) - 2
    <2>1. Close(S, d, k) # {}
      BY <1>2
    <2>2. Del[S] = DropFirst(S, Close(S, d, k))
      OBVIOUS
    <2>3. S \in SUBSET (-1..n) /\ n \in Nat
      BY <1>1, <1>2
    <2>4. /\ DropFirst(S, Close(S, d, k)) \in SUBSET S
          /\ Cardinality(S) \in Nat
          /\ Cardinality(DropFirst(S, Close(S, d, k))) = Cardinality(S) - 2
      BY <2>1, <2>3, DropFirstFacts
    <2> HIDE DEF Del
    <2> QED
      BY <2>2, <2>4
  <1>3. Smaller(M, Stop, Del)
    <2>1. Del \in [SUBSET M -> SUBSET M]
      BY DEF DropFirst
    <2> HIDE DEF Stop, Del
    <2>2. ASSUME NEW S \in SUBSET M, S \notin Stop
          PROVE  Cardinality(Del[S]) < Cardinality(S)
      BY <1>2, <2>2
    <2> QED
      BY <1>1, <2>1, <2>2 DEF Smaller
  <1>4. CleanFrom(M, S0, d, k) = clean[S0]
    <2>1. \A f : F(f) = [S \in SUBSET M |-> IF Close(S, d, k) = {} THEN S
                                             ELSE f[DropFirst(S, Close(S, d, k))]]
      OBVIOUS
    <2>2. clean = CHOOSE f : f = [S \in SUBSET M |-> IF Close(S, d, k) = {} THEN S
                                             ELSE f[DropFirst(S, Close(S, d, k))]]
      BY <2>1
    <2> QED
      BY <2>2 DEF CleanFrom
  <1>5. SetRecursion(M, Stop, Del, clean)
    <2> HIDE DEF Stop, Del
    <2>0. \E f : SetRecursion(M, Stop, Del, f)
      BY <1>3, RecursionOverSets
    <2>1. \E f : f = F(f)
      BY <2>0 DEF SetRecursion
    <2> HIDE DEF F
    <2>2. clean = F(clean)
      BY <2>1
    <2> QED
      BY <2>2 DEF SetRecursion, F
  <1>6. ASSUME NEW S \in SUBSET M, S \in Even, S \notin Stop
        PROVE  Del[S] \in Even
    <2>1. /\ Del[S] \in SUBSET S /\ Cardinality(S) \in Nat
          /\ Cardinality(Del[S]) = Cardinality(S) - 2
      BY <1>2, <1>6
    <2> HIDE DEF Del
    <2>2. Cardinality(Del[S]) % 2 = Cardinality(S) % 2
      BY <2>1
    <2> QED
      BY <1>6, <2>1, <2>2
  <1>7. S0 \in Even /\ Keeps(SUBSET M, Stop, Del, Even)
    BY <1>6 DEF Keeps
  <1>8. clean[S0] \in Even /\ clean[S0] \in Stop
    <2> HIDE DEF Stop, Del, Even, clean
    <2>1. \A m, stop, del, f, keep, s :
             /\ Smaller(m, stop, del) /\ SetRecursion(m, stop, del, f)
             /\ Keeps(SUBSET m, stop, del, keep)
             /\ s \in SUBSET m /\ s \in keep
             => f[s] \in keep /\ f[s] \in stop
      BY RecursionEnds
    <2> QED
      BY <1>3, <1>5, <1>7, <2>1, Zenon
  <1> HIDE DEF clean, Del
  <1> QED
    BY <1>4, <1>8

\* Neighbours that are not too close are the same as marks that are not.
LEMMA CloseIsApart ==
    ASSUME NEW n \in Nat, NEW S \in SUBSET (-1..n), NEW d \in Nat
    PROVE  Close(S, d, 2) = {} <=> Apart(S, d)
  <1>1. \A x \in S : x \in Int
    OBVIOUS
  <1>2. ASSUME Apart(S, d), NEW p \in Close(S, d, 2)
        PROVE  FALSE
    <2> DEFINE later == {m \in S : p < m}
               q == Min(later)
    <2>1. p \in S /\ p # Max(S) /\ q - p < d
      BY DEF Close, NextMark
    <2>2. Max(S) \in S /\ \A y \in S : y <= Max(S)
      BY <2>1, GreatestPlace
    <2>3. later # {} /\ later \in SUBSET (-1..n)
      <3>1. p \in Int /\ Max(S) \in Int /\ p <= Max(S) /\ p # Max(S)
        BY <1>1, <2>1, <2>2
      <3>2. p < Max(S)
        BY <3>1
      <3> QED
        BY <1>1, <2>2, <3>2
    <2>4. q \in later
      <3> HIDE DEF later
      <3> QED
        BY <2>3, LeastPlace
    <2> HIDE DEF q
    <2>5. q \in S /\ p < q
      BY <2>4
    <2>6. q - p >= d
      BY <1>2, <2>1, <2>5 DEF Apart
    <2> QED
      BY <1>1, <2>1, <2>5, <2>6
  <1>3. ASSUME Close(S, d, 2) = {}, NEW p \in S, NEW q \in S, p < q
        PROVE  q - p >= d
    <2> DEFINE later == {m \in S : p < m}
    <2>1. p # Max(S)
      <3>1. \A y \in S : y <= Max(S)
        BY GreatestPlace
      <3> QED
        BY <1>1, <1>3, <3>1
    <2>2. later \in SUBSET (-1..n) /\ q \in later
      BY <1>1, <1>3
    <2>3. Min(later) \in later /\ Min(later) <= q
      <3> HIDE DEF later
      <3> QED
        BY <2>2, LeastPlace
    <2>4. ~(Min(later) - p < d)
      BY <1>3, <2>1 DEF Close, NextMark
    <2>5. Min(later) \in Int
      BY <1>1, <2>3
    <2> HIDE DEF later
    <2> QED
      BY <1>1, <2>3, <2>4, <2>5
  <1> QED
    BY <1>2, <1>3 DEF Apart

\* What scanLoop makes of the marks at the end of a round.
LEMMA CleanupFacts ==
    ASSUME NEW n \in Nat, NEW M \in SUBSET (-1..n)
    PROVE  LET R == CleanActive(CleanInactive(M))
           IN  /\ R \in SUBSET M /\ Apart(R, MinMark)
               /\ Cardinality(R) % 2 = Cardinality(M) % 2
  <1> DEFINE Q == CleanInactive(M)
             R == CleanActive(Q)
  <1>2. Q \in SUBSET M /\ Close(Q, MinMark, 2) = {} /\ Cardinality(Q) % 2 = Cardinality(M) % 2
    <2>1. Q = CleanFrom(M, M, MinMark, 2)
      BY DEF CleanInactive, CleanFrom
    <2>2. /\ CleanFrom(M, M, MinMark, 2) \in SUBSET M
          /\ Close(CleanFrom(M, M, MinMark, 2), MinMark, 2) = {}
          /\ Cardinality(CleanFrom(M, M, MinMark, 2)) % 2 = Cardinality(M) % 2
      <3>1. M \in SUBSET M
        OBVIOUS
      <3> QED
        BY <3>1, CleanFromFacts
    <2> HIDE DEF Q
    <2> QED
      BY <2>1, <2>2
  <1> HIDE DEF Q
  <1>3. Q \in SUBSET (-1..n)
    BY <1>2
  <1>4. Apart(Q, MinMark)
    BY <1>2, <1>3, CloseIsApart, CleanupConstants
  <1>5. R \in SUBSET Q /\ Cardinality(R) % 2 = Cardinality(Q) % 2
    <2>1. CASE Close(Q, MinActiveMark, 0) = {}
      BY <2>1 DEF CleanActive
    <2>2. CASE Close(Q, MinActiveMark, 0) # {}
      <3> DEFINE S0 == DropFirst(Q, Close(Q, MinActiveMark, 0))
      <3>1. R = CleanFrom(Q, S0, MinActiveMark, 1)
        BY <2>2 DEF CleanActive, CleanFrom
      <3>2. /\ S0 \in SUBSET Q /\ Cardinality(Q) \in Nat
            /\ Cardinality(S0) = Cardinality(Q) - 2
        BY <1>3, <2>2, DropFirstFacts
      <3> HIDE DEF S0
      <3>3. R \in SUBSET S0 /\ Cardinality(R) % 2 = Cardinality(S0) % 2
        <4>1. /\ CleanFrom(Q, S0, MinActiveMark, 1) \in SUBSET S0
              /\ Cardinality(CleanFrom(Q, S0, MinActiveMark, 1)) % 2 = Cardinality(S0) % 2
          BY <1>3, <3>2, CleanFromFacts
        <4> HIDE DEF R
        <4> QED
          BY <3>1, <4>1
      <3> HIDE DEF R
      <3>4. Cardinality(S0) % 2 = Cardinality(Q) % 2
        BY <3>2
      <3> QED
        BY <3>2, <3>3, <3>4
    <2> QED
      BY <2>1, <2>2
  <1> HIDE DEF R
  <1>6. Apart(R, MinMark)
    BY <1>4, <1>5 DEF Apart
  <1> QED
    BY <1>2, <1>5, <1>6 DEF R, Q

-----------------------------------------------------------------------------
(* The index of the recording.                                             *)

LEMMA Numbers ==
    /\ Length \in Nat \ {0} /\ SafetyLimit \in Nat
    /\ IgnoreFrames \in Nat /\ CheckFrames \in Nat \ {0}
    /\ SearchBreak \in Nat \ {0} /\ BigStep \in Nat \ {0} /\ StableTime \in Nat
    /\ MinForward \in Nat /\ IgnoreFrames + CheckFrames <= MinForward
    /\ IgnoreFrames + CheckFrames <= SafetyLimit
    /\ Growth \subseteq Nat
  BY LogoChangeAssumption, OnlineScanAssumption

LEMMA FramesAreNumbers == \A i \in IFrames : i \in Nat
  BY LogoChangeAssumption

\* The next I-frame is ahead, in the index and the first one there.
LEMMA NextIFrameLemma ==
    ASSUME last \in Nat, last < Length, NEW f \in Int
    PROVE  \/ NextIFrame(f) = -1
           \/ /\ NextIFrame(f) \in IFrames /\ f < NextIFrame(f) /\ NextIFrame(f) < last
              /\ NextIFrame(f) < last - SafetyLimit
              /\ \A i \in IFrames : f < i => NextIFrame(f) <= i
  <1> DEFINE S == {i \in IFrames : f < i}
  <1>1. CASE NextIFrame(f) = -1
    BY <1>1
  <1>2. CASE NextIFrame(f) # -1
    <2>1. f \in -1..last /\ NextIFrame(f) = Following[f] /\ Following[f] < last - SafetyLimit
      BY <1>2 DEF NextIFrame
    <2>2. f \in -1..Length
      BY <2>1, Numbers
    <2>3. Following[f] = IF S = {} THEN Length ELSE Min(S)
      BY <2>2 DEF Following
    <2>4. S # {} /\ Following[f] = Min(S)
      BY <2>1, <2>3, Numbers
    <2>5. S \in SUBSET Nat
      BY FramesAreNumbers
    <2>6. Min(S) \in S /\ \A i \in S : Min(S) <= i
      <3> HIDE DEF S
      <3> QED
        BY <2>4, <2>5, LeastElement
    <2>7. /\ Following[f] \in IFrames /\ f < Following[f]
          /\ \A i \in IFrames : f < i => Following[f] <= i
      BY <2>4, <2>6
    <2>8. Following[f] \in Nat
      BY <2>7, FramesAreNumbers
    <2>9. Following[f] < last /\ Following[f] < last - SafetyLimit
      BY <2>1, <2>8, Numbers
    <2> QED
      BY <2>1, <2>7, <2>9
  <1> QED
    BY <1>1, <1>2

\* The preceding I-frame is the last one before.
LEMMA PrecedingLemma ==
    ASSUME NEW f \in -1..Length
    PROVE  /\ \/ Preceding[f] = -1
              \/ Preceding[f] \in IFrames /\ Preceding[f] < f
           /\ \A i \in IFrames : i < f => i <= Preceding[f]
  <1> DEFINE S == {i \in IFrames : i < f}
  <1>1. Preceding[f] = IF S = {} THEN -1 ELSE Max(S)
    BY DEF Preceding
  <1>2. CASE S = {}
    BY <1>1, <1>2
  <1>3. CASE S # {}
    <2>1. \A i \in S : i \in 0..Length
      BY Numbers, FramesAreNumbers
    <2>2. S \in SUBSET (0..Length)
      <3> HIDE DEF S
      <3> QED
        BY <2>1
    <2>3. Max(S) \in S /\ \A i \in S : i <= Max(S)
      <3> HIDE DEF S
      <3> QED
        BY <1>3, <2>2, GreatestElement, Numbers
    <2> QED
      BY <1>1, <1>3, <2>3
  <1> QED
    BY <1>2, <1>3

-----------------------------------------------------------------------------
(***************************************************************************)
(* The inductive invariant: marks are on I-frames up to stopFrame unless   *)
(* one has been set in front of it, and a fine search either passes, in    *)
(* its first batch, an I-frame behind the one it began with, or there is   *)
(* none in that batch.                                                     *)
(***************************************************************************)
Batch == IgnoreFrames + CheckFrames

CallType ==
    call \in [running : BOOLEAN, state : Int, skip : Nat \ {0}, stable : Nat,
              end : Int, ignore : Nat, result : Int]

ScanType ==
    /\ last \in Nat /\ last < Length
    /\ cur \in Int /\ lastLogoPos \in Int
    /\ state \in Int /\ oldState \in Int
    /\ CallType
    /\ at \in {"coarse", "fine"} => lastIFrame \in Int

MarksInv ==
    /\ stopFrame \in IFrames \cup {-1} /\ stopFrame <= Length
    /\ marks \subseteq IFrames \cup {-1}
    /\ \A m \in marks : m <= Length
    /\ ~setBack => /\ stopFrame \in IFrames /\ marks \subseteq IFrames
                   /\ \A m \in marks : m <= stopFrame

FirstBatch ==
    /\ cur \in IFrames /\ stopFrame <= cur /\ cur + Batch <= last
    /\ call.ignore = IgnoreFrames /\ lastIFrame = cur

\* Frame i has come up to the I-frame c, and past its next frame if it can.
Beyond(c, i) == c <= i /\ (c + 1 < i \/ Sparse(c))

Behind ==
    /\ lastIFrame <= last
    /\ \E c \in IFrames : stopFrame <= c /\ Beyond(c, lastIFrame) /\ Beyond(c, cur)

FineInv ==
    at = "fine" =>
        /\ call.skip = 1
        /\ \/ ~call.running /\ call.result < 0
           \/ call.running /\ cur = -1
           \/ call.running /\ FirstBatch
           \/ Behind

ScanInv == ScanType /\ MarksInv /\ FineInv

LEMMA InitScanInv == OnlineInit => ScanInv
  <1> SUFFICES ASSUME OnlineInit
               PROVE  ScanInv
    OBVIOUS
  <1>1. last \in Nat /\ last < Length
    <2>1. PICK g \in Growth : last = Min({g, Length - 1})
      BY DEF OnlineInit
    <2>2. g \in Nat /\ Length - 1 \in Nat
      BY Numbers
    <2>3. last = IF g <= Length - 1 THEN g ELSE Length - 1
      BY <2>1, <2>2, LeastOfTwo
    <2> QED
      BY <2>2, <2>3, Numbers
  <1>2. ScanType
    BY <1>1 DEF OnlineInit, ScanType, CallType, Idle
  <1>3. MarksInv /\ FineInv
    BY Numbers, LogoChangeAssumption DEF OnlineInit, MarksInv, FineInv
  <1> QED
    BY <1>2, <1>3 DEF ScanInv

-----------------------------------------------------------------------------
(* One step of a search.                                                   *)

LEMMA CallEnds ==
    ASSUME CallType, NEW r \in Int, Return(r)
    PROVE  /\ CallType' /\ call'.running = FALSE /\ call'.result = r
           /\ call'.state = call.state /\ call'.skip = call.skip
  BY DEF CallType, Return

LEMMA CallGoesOn ==
    ASSUME CallType, NEW n \in Nat, call' = [call EXCEPT !.ignore = n]
    PROVE  /\ CallType' /\ call'.running = call.running /\ call'.result = call.result
           /\ call'.state = call.state /\ call'.skip = call.skip
  BY DEF CallType

LEMMA BatchLemma ==
    ASSUME ScanType, at \in {"coarse", "fine"}, InRange
    PROVE  /\ To \in Int /\ cur < To /\ To <= last
           /\ cur + call.ignore + CheckFrames <= last => To = cur + call.ignore + CheckFrames
           /\ IFrameAt(To - 1) = Preceding[To] /\ Preceding[To] \in Int
           /\ Preceding[To] < To
           /\ Passed \in Int
  <1>1. /\ cur \in Int /\ 0 <= cur /\ cur < last /\ last \in Nat /\ last < Length
        /\ call.ignore \in Nat /\ lastIFrame \in Int
    BY DEF ScanType, CallType, InRange
  <1>2. /\ To \in Int /\ cur < To /\ To <= last
        /\ cur + call.ignore + CheckFrames <= last => To = cur + call.ignore + CheckFrames
    <2>1. cur + call.ignore + CheckFrames \in Int
      BY <1>1, Numbers
    <2>2. To = IF cur + call.ignore + CheckFrames <= last
               THEN cur + call.ignore + CheckFrames ELSE last
      BY <1>1, <2>1, LeastOfTwo DEF To
    <2> QED
      BY <1>1, <2>2, Numbers
  <1>3. IFrameAt(To - 1) = Preceding[To]
    <2>1. To - 1 + 1 = To
      BY <1>2
    <2> QED
      BY <2>1 DEF IFrameAt
  <1>4. Preceding[To] \in Int /\ Preceding[To] < To
    <2>1. To \in -1..Length
      BY <1>1, <1>2, Numbers
    <2>2. Preceding[To] = -1 \/ (Preceding[To] \in IFrames /\ Preceding[To] < To)
      BY <2>1, PrecedingLemma
    <2> QED
      BY <1>1, <1>2, <2>2, FramesAreNumbers
  <1>5. Passed \in Int
    BY <1>1, <1>3, <1>4 DEF Passed
  <1> QED
    BY <1>2, <1>3, <1>4, <1>5

\* What the end of a round at f leaves of the call, and where it leads.
LEMMA GoOnLemma ==
    ASSUME ScanType, at \in {"coarse", "fine"}, InRange, NEW f \in Int, GoOn(f)
    PROVE  /\ CallType' /\ cur' \in Int /\ lastIFrame' \in Int
           /\ call'.state = call.state /\ call'.skip = call.skip
           /\ call'.result \in {call.result, call.state}
           /\ call.skip = 1 => cur' = f /\ lastIFrame' = Passed
  <1>1. /\ CallType /\ call.skip \in Nat \ {0} /\ call.state \in Int
        /\ last \in Nat /\ last < Length /\ Passed \in Int
    BY BatchLemma DEF ScanType, CallType
  <1>2. CASE Return(call.state) /\ cur' = f /\ lastIFrame' = Passed
    BY <1>1, <1>2, CallEnds
  <1>3. CASE /\ call.skip > 1 /\ cur' = NextIFrame(f + call.skip) /\ lastIFrame' = cur'
             /\ call' = [call EXCEPT !.ignore = IgnoreFrames]
    <2>1. f + call.skip \in Int
      BY <1>1
    <2>2. NextIFrame(f + call.skip) \in Int
      BY <1>1, <2>1, NextIFrameLemma, FramesAreNumbers
    <2> QED
      BY <1>1, <1>3, <2>2, CallGoesOn, Numbers
  <1>4. CASE cur' = f /\ lastIFrame' = Passed /\ call' = [call EXCEPT !.ignore = 0]
    BY <1>1, <1>4, CallGoesOn
  <1> QED
    BY <1>2, <1>3, <1>4 DEF GoOn

\* A relapse lies behind the I-frame where checkLogoState has begun.
LEMMA RelapseLemma ==
    ASSUME ScanType, at \in {"coarse", "fine"}, InRange, NEW f \in Relapses
    PROVE  IFrameAt(f) \in Int /\ To < IFrameAt(f)
  <1>1. Ahead # -1 /\ f \in Ahead..(AheadEnd - 1)
    BY DEF Relapses
  <1>2. /\ To \in Int /\ To <= last /\ last \in Nat /\ last < Length
        /\ call.stable \in Nat
    BY BatchLemma DEF ScanType, CallType
  <1>3. Ahead \in IFrames /\ Ahead \in Nat /\ To < Ahead
    BY <1>1, <1>2, NextIFrameLemma, FramesAreNumbers DEF Ahead
  <1>4. AheadEnd \in Int /\ AheadEnd <= last
    <2>1. AheadEnd = IF Ahead + call.stable <= last THEN Ahead + call.stable ELSE last
      BY <1>2, <1>3, LeastOfTwo DEF AheadEnd
    <2> QED
      BY <1>2, <1>3, <2>1
  <1>5. f + 1 \in -1..Length /\ Ahead < f + 1
    BY <1>1, <1>2, <1>3, <1>4, Numbers
  <1>6. Ahead <= Preceding[f + 1]
    BY <1>3, <1>5, PrecedingLemma
  <1>7. Preceding[f + 1] \in Int
    BY <1>5, PrecedingLemma, FramesAreNumbers
  <1> QED
    BY <1>2, <1>3, <1>6, <1>7 DEF IFrameAt

\* Whatever a search does, it keeps to what it was called with.
LEMMA SearchType ==
    ASSUME ScanType, Search
    PROVE  /\ ScanType' /\ UNCHANGED svars /\ last' = last
           /\ call'.state = call.state /\ call'.skip = call.skip
           /\ call'.result \in {call.result, call.state, 0, 1, -1, -2}
  <1>1. at \in {"coarse", "fine"} /\ SearchStep /\ UNCHANGED svars
    BY DEF Search
  <1>2. last' = last
    BY <1>1 DEF SearchStep, NoChange, ChangeFound, StableChange, UnstableChange, GiveUp
  <1>3. /\ CallType' /\ cur' \in Int /\ lastIFrame' \in Int
        /\ call'.state = call.state /\ call'.skip = call.skip
        /\ call'.result \in {call.result, call.state, 0, 1, -1, -2}
    <2>1. CASE NoChange
      <3>1. InRange /\ GoOn(To)
        BY <2>1 DEF NoChange
      <3>2. To \in Int
        BY <1>1, <3>1, BatchLemma
      <3> QED
        BY <1>1, <3>1, <3>2, GoOnLemma
    <2>2. CASE ChangeFound \/ StableChange
      <3>1. /\ InRange /\ Return(Bit(Seen.isLogo)) /\ cur' = To /\ lastIFrame' = Passed
        BY <2>2 DEF ChangeFound, StableChange
      <3>2. To \in Int /\ Passed \in Int
        BY <1>1, <3>1, BatchLemma
      <3>3. Bit(Seen.isLogo) \in {0, 1}
        BY DEF Bit
      <3> DEFINE b == Bit(Seen.isLogo)
      <3>4. b \in Int /\ Return(b) /\ b \in {0, 1}
        BY <3>1, <3>3
      <3> HIDE DEF b
      <3>5. /\ CallType' /\ call'.result = b
            /\ call'.state = call.state /\ call'.skip = call.skip
        BY <3>4, CallEnds DEF ScanType
      <3> QED
        BY <3>1, <3>2, <3>4, <3>5
    <2>3. CASE UnstableChange
      <3>1. PICK f \in Relapses : GoOn(IFrameAt(f) - call.skip)
        BY <2>3 DEF UnstableChange
      <3>2. InRange /\ call.skip \in Nat
        BY <2>3 DEF UnstableChange, ScanType, CallType
      <3>3. IFrameAt(f) - call.skip \in Int
        BY <1>1, <3>2, RelapseLemma
      <3> QED
        BY <1>1, <3>1, <3>2, <3>3, GoOnLemma
    <2>4. CASE GiveUp
      <3> DEFINE r == IF cur >= call.end THEN -2 ELSE -1
      <3>1. r \in Int /\ r \in {-1, -2} /\ Return(r) /\ cur' = cur /\ lastIFrame' = lastIFrame
        BY <2>4 DEF GiveUp
      <3> HIDE DEF r
      <3> QED
        BY <1>1, <3>1, CallEnds DEF ScanType
    <2> QED
      BY <1>1, <2>1, <2>2, <2>3, <2>4 DEF SearchStep
  <1> QED
    BY <1>1, <1>2, <1>3 DEF ScanType, svars

LEMMA FurtherBeyond ==
    ASSUME NEW c \in IFrames, NEW i \in Int, NEW j \in Int, Beyond(c, i), i <= j
    PROVE  Beyond(c, j)
  <1>1. c \in Nat
    BY FramesAreNumbers
  <1> QED
    BY <1>1 DEF Beyond

\* The first batch of a fine search passes the next I-frame if there is one in
\* it, and every later batch begins behind that.
LEMMA PassedLemma ==
    ASSUME ScanInv, at = "fine", InRange, FirstBatch \/ Behind
    PROVE  /\ Passed <= last
           /\ \E c \in IFrames : stopFrame <= c /\ Beyond(c, Passed) /\ Beyond(c, To)
  <1>1. /\ cur \in Nat /\ last \in Nat /\ last < Length /\ lastIFrame \in Int
    BY DEF ScanInv, ScanType, InRange
  <1>2. /\ To \in Int /\ cur < To /\ To <= last
        /\ cur + call.ignore + CheckFrames <= last => To = cur + call.ignore + CheckFrames
        /\ Preceding[To] \in Int /\ Preceding[To] < To
        /\ Passed = IF Preceding[To] >= cur THEN Preceding[To] ELSE lastIFrame
    BY BatchLemma DEF ScanInv, Passed
  <1>3. \A j \in IFrames : j < To => j <= Preceding[To]
    <2>1. To \in -1..Length
      BY <1>1, <1>2, Numbers
    <2> QED
      BY <2>1, PrecedingLemma
  <1>4. CASE FirstBatch
    <2>1. cur \in IFrames /\ stopFrame <= cur /\ To = cur + Batch /\ Batch \in Nat
      BY <1>1, <1>2, <1>4, Numbers DEF FirstBatch, Batch
    <2>2. Passed = Preceding[To] /\ cur <= Passed /\ Passed <= last
      BY <1>1, <1>2, <1>3, <2>1
    <2>3. Beyond(cur, Passed) /\ Beyond(cur, To)
      <3>1. CASE Sparse(cur)
        BY <1>1, <1>2, <2>2, <3>1 DEF Beyond
      <3>2. CASE ~Sparse(cur)
        <4>1. PICK j \in IFrames : cur + 1 < j /\ j < cur + IgnoreFrames + CheckFrames
          BY <3>2 DEF Sparse
        <4>2. j \in Nat /\ j < To
          BY <1>1, <2>1, <4>1, Numbers, FramesAreNumbers DEF Batch
        <4>3. j <= Preceding[To]
          BY <1>3, <4>2
        <4> QED
          BY <1>1, <1>2, <2>2, <4>1, <4>2, <4>3 DEF Beyond
      <3> QED
        BY <3>1, <3>2
    <2> QED
      BY <2>1, <2>2, <2>3
  <1>5. CASE Behind
    <2>1. PICK c \in IFrames : stopFrame <= c /\ Beyond(c, lastIFrame) /\ Beyond(c, cur)
      BY <1>5 DEF Behind
    <2>2. lastIFrame <= last
      BY <1>5 DEF Behind
    <2>3. Beyond(c, To)
      BY <1>1, <1>2, <2>1, FurtherBeyond
    <2>4. Passed <= last /\ Beyond(c, Passed)
      <3>1. CASE Preceding[To] >= cur
        <4>1. Passed = Preceding[To] /\ cur <= Preceding[To]
          BY <1>1, <1>2, <3>1
        <4>2. Beyond(c, Preceding[To])
          BY <1>1, <1>2, <2>1, <4>1, FurtherBeyond
        <4> QED
          BY <1>1, <1>2, <4>1, <4>2
      <3>2. CASE ~(Preceding[To] >= cur)
        BY <1>2, <2>1, <2>2, <3>2
      <3> QED
        BY <3>1, <3>2
    <2> QED
      BY <2>1, <2>3, <2>4
  <1> QED
    BY <1>4, <1>5

LEMMA SearchScanInv ==
    ASSUME ScanInv, Search
    PROVE  ScanInv'
  <1>1. /\ ScanType' /\ UNCHANGED svars /\ last' = last /\ call'.skip = call.skip
        /\ SearchStep /\ at \in {"coarse", "fine"}
    BY SearchType DEF ScanInv, Search
  <1>2. MarksInv'
    BY <1>1 DEF ScanInv, MarksInv, svars, history
  <1>3. ASSUME at = "fine"
        PROVE  FineInv'
    <2>0. call.skip = 1 /\ call'.skip = 1 /\ at' = at
      BY <1>1, <1>3 DEF ScanInv, FineInv, svars
    <2>1. CASE InRange
      <3>1. FirstBatch \/ Behind
        <4>1. call.running
          BY <1>1, <2>1 DEF SearchStep, NoChange, ChangeFound, StableChange,
                            UnstableChange, GiveUp
        <4>2. cur # -1
          BY <2>1 DEF InRange
        <4> QED
          BY <1>3, <4>1, <4>2 DEF ScanInv, FineInv
      <3>2. /\ Passed <= last
            /\ \E c \in IFrames : stopFrame <= c /\ Beyond(c, Passed) /\ Beyond(c, To)
        BY <1>3, <2>1, <3>1, PassedLemma
      <3>3. To \in Int
        BY <1>1, <2>1, BatchLemma DEF ScanInv
      <3>4. lastIFrame' = Passed /\ cur' \in Int /\ To <= cur'
        <4>1. CASE NoChange
          <5>1. GoOn(To)
            BY <4>1 DEF NoChange
          <5>2. cur' = To /\ lastIFrame' = Passed
            BY <1>1, <2>0, <2>1, <3>3, <5>1, GoOnLemma DEF ScanInv
          <5> QED
            BY <3>3, <5>2
        <4>2. CASE ChangeFound \/ StableChange
          BY <3>3, <4>2 DEF ChangeFound, StableChange
        <4>3. CASE UnstableChange
          <5>1. PICK f \in Relapses : GoOn(IFrameAt(f) - 1)
            BY <2>0, <4>3 DEF UnstableChange
          <5>2. IFrameAt(f) \in Int /\ To < IFrameAt(f)
            BY <1>1, <2>1, RelapseLemma DEF ScanInv
          <5>3. IFrameAt(f) - 1 \in Int /\ To <= IFrameAt(f) - 1
            BY <3>3, <5>2
          <5>4. cur' = IFrameAt(f) - 1 /\ lastIFrame' = Passed
            BY <1>1, <2>0, <2>1, <5>1, <5>3, GoOnLemma DEF ScanInv
          <5> QED
            BY <5>3, <5>4
        <4> QED
          BY <1>1, <2>1, <4>1, <4>2, <4>3 DEF SearchStep, GiveUp
      <3>5. stopFrame' = stopFrame
        BY <1>1 DEF svars
      <3>6. Behind'
        <4>1. PICK c \in IFrames : stopFrame <= c /\ Beyond(c, Passed) /\ Beyond(c, To)
          BY <3>2
        <4> DEFINE n == cur'
        <4>2. n \in Int /\ To <= n
          BY <3>4
        <4> HIDE DEF n
        <4>3. Beyond(c, n)
          BY <3>3, <4>1, <4>2, FurtherBeyond
        <4>4. Beyond(c, lastIFrame)' /\ Beyond(c, cur)'
          <5>1. Beyond(c, cur') /\ Beyond(c, lastIFrame')
            BY <3>4, <4>1, <4>3 DEF n
          <5> QED
            BY <5>1 DEF Beyond, Sparse
        <4> QED
          BY <1>1, <3>2, <3>4, <3>5, <4>1, <4>4 DEF Behind
      <3> QED
        BY <2>0, <3>6 DEF FineInv
    <2>2. CASE ~InRange
      <3> DEFINE r == IF cur >= call.end THEN -2 ELSE -1
      <3>1. Return(r) /\ r \in Int /\ r < 0
        BY <1>1, <2>2 DEF SearchStep, NoChange, ChangeFound, StableChange, UnstableChange,
                          GiveUp
      <3> HIDE DEF r
      <3>2. call'.running = FALSE /\ call'.result < 0
        BY <3>1, CallEnds DEF ScanInv, ScanType
      <3> QED
        BY <2>0, <3>2 DEF FineInv
    <2> QED
      BY <2>1, <2>2
  <1>4. at # "fine" => FineInv'
    BY <1>1 DEF FineInv, svars
  <1> QED
    BY <1>1, <1>2, <1>3, <1>4 DEF ScanInv

-----------------------------------------------------------------------------
(* The loop of scanLoop.                                                   *)

\* The fine search begins not before stopFrame and far enough from the end.
LEMMA FineStartLemma ==
    ASSUME ScanInv
    PROVE  FineStart \in Int /\ stopFrame <= FineStart
  <1> DEFINE back == cur - 2 * BigStep
             b == IF back < stopFrame THEN back + BigStep \div 2 ELSE back
  <1>1. b \in Int /\ stopFrame \in Int
    BY Numbers, FramesAreNumbers DEF ScanInv, ScanType, MarksInv
  <1>2. FineStart = Max({stopFrame, b})
    BY DEF FineStart
  <1> HIDE DEF b
  <1>3. FineStart = IF stopFrame >= b THEN stopFrame ELSE b
    BY <1>1, <1>2, GreatestOfTwo
  <1> QED
    BY <1>1, <1>3

\* A search begins on an I-frame that is a batch away from the end, or on none.
LEMMA StartLemma ==
    ASSUME ScanInv, NEW from \in Int,
           NEW s \in Int, NEW skip \in Nat \ {0}, NEW stable \in Nat,
           FindLogoChange(s, from, skip, stable)
    PROVE  /\ CallType' /\ cur' \in Int /\ lastIFrame' = cur'
           /\ call'.running = TRUE /\ call'.state = s /\ call'.skip = skip
           /\ call'.result = s /\ call'.ignore = IgnoreFrames
           /\ \/ cur' = -1
              \/ /\ cur' \in IFrames /\ from <= cur'
                 /\ from + MinForward <= last => cur' + Batch <= last
  <1>1. last \in Nat /\ last < Length /\ Batch \in Nat
    BY Numbers DEF ScanInv, ScanType, Batch
  <1>2. cur' = IFrameFor(from) /\ lastIFrame' = cur'
    BY DEF FindLogoChange
  <1>3. \/ cur' = -1
        \/ /\ cur' \in IFrames /\ from <= cur'
           /\ from + MinForward <= last => cur' + Batch <= last
    <2>1. CASE from \in IFrames
      <3>1. cur' = from
        BY <1>2, <2>1 DEF IFrameFor
      <3> QED
        BY <1>1, <2>1, <3>1, Numbers, FramesAreNumbers DEF Batch
    <2>2. CASE from \notin IFrames
      <3> DEFINE i == NextIFrame(from)
      <3>1. cur' = i
        BY <1>2, <2>2 DEF IFrameFor
      <3>2. i = -1 \/ (i \in IFrames /\ from < i /\ i < last - SafetyLimit)
        BY <1>1, NextIFrameLemma
      <3> HIDE DEF i
      <3>3. i = -1 \/ (i \in IFrames /\ from <= i /\ i + Batch <= last)
        BY <1>1, <3>2, Numbers, FramesAreNumbers DEF Batch
      <3> QED
        BY <3>1, <3>3
    <2> QED
      BY <2>1, <2>2
  <1>4. cur' \in Int
    BY <1>3, FramesAreNumbers
  <1>5. /\ call' = [running |-> TRUE, state |-> s, skip |-> skip, stable |-> stable,
                    end |-> IF s = 0 THEN cur' + SearchBreak ELSE last,
                    ignore |-> IgnoreFrames, result |-> s]
        /\ (IF s = 0 THEN cur' + SearchBreak ELSE last) \in Int
    BY <1>1, <1>4, Numbers DEF FindLogoChange
  <1>6. CallType'
    BY <1>5, Numbers DEF CallType
  <1> QED
    BY <1>2, <1>3, <1>4, <1>5, <1>6

\* The mark of a change is set on an I-frame and not before stopFrame, or on the
\* last one before the I-frame the fine search began with.
SetAt(f) ==
    \/ f \in IFrames /\ stopFrame <= f
    \/ \E c \in IFrames : /\ Sparse(c) /\ stopFrame <= c
                          /\ f \in {PrevIFrame(c - 1), PrevIFrame(c)}

LEMMA MarkLemma ==
    ASSUME ScanInv, Returned("fine"), call.result >= 0
    PROVE  LET f == PrevIFrame(lastIFrame - 1)
           IN  f \in IFrames \cup {-1} /\ f < Length /\ SetAt(f)
  <1>1. /\ last \in Nat /\ last < Length /\ lastIFrame \in Int /\ stopFrame \in Int
        /\ call.result \in Int
    BY FramesAreNumbers DEF ScanInv, ScanType, MarksInv, Returned, CallType
  <1>2. Behind
    BY <1>1 DEF ScanInv, FineInv, Returned
  <1>3. PICK c \in IFrames : stopFrame <= c /\ Beyond(c, lastIFrame)
    BY <1>2 DEF Behind
  <1>4. c \in Nat /\ c <= lastIFrame /\ lastIFrame <= last
    BY <1>2, <1>3, FramesAreNumbers DEF Behind, Beyond
  <1> DEFINE f == lastIFrame - 1
             p == Preceding[f]
  <1>5. f \in -1..last /\ f \in -1..Length /\ f < Length /\ f \in Int
    BY <1>1, <1>4, Numbers
  <1>6. PrevIFrame(f) = p
    BY <1>5 DEF PrevIFrame
  <1>7. /\ p = -1 \/ (p \in IFrames /\ p < f)
        /\ c < f => c <= p
    BY <1>4, <1>5, PrecedingLemma
  <1>8. p \in IFrames \cup {-1} /\ p < Length
    <2> HIDE DEF p, f
    <2> QED
      BY <1>5, <1>7, Numbers, FramesAreNumbers
  <1>9. SetAt(p)
    <2>1. CASE c + 1 < lastIFrame
      <3>1. c < f
        BY <1>1, <1>4, <2>1
      <3>2. c <= p
        BY <1>7, <3>1
      <3> HIDE DEF p, f
      <3>3. p # -1
        BY <1>4, <3>2
      <3>4. p \in IFrames /\ p \in Nat
        BY <1>7, <3>3, FramesAreNumbers
      <3>5. stopFrame <= p
        BY <1>1, <1>3, <1>4, <3>2, <3>4
      <3> QED
        BY <3>4, <3>5 DEF SetAt
    <2>2. CASE ~(c + 1 < lastIFrame)
      <3>1. Sparse(c)
        BY <1>3, <2>2 DEF Beyond
      <3>2. f = c - 1 \/ f = c
        BY <1>1, <1>4, <2>2
      <3>3. p \in {PrevIFrame(c - 1), PrevIFrame(c)}
        <4> HIDE DEF p, f
        <4> QED
          BY <1>6, <3>2
      <3> HIDE DEF p
      <3> QED
        BY <1>3, <3>1, <3>3 DEF SetAt
    <2> QED
      BY <2>1, <2>2
  <1> HIDE DEF p
  <1> QED
    BY <1>6, <1>8, <1>9

\* The marks are positions of the recording, so there are finitely many of them.
LEMMA MarksAreFrames ==
    ASSUME MarksInv
    PROVE  /\ marks \in SUBSET (-1..Length) /\ IsFiniteSet(marks)
           /\ Cardinality(marks) \in Nat
           /\ ~setBack => marks \in SUBSET (0..Length)
  <1>1. \A m \in marks : (m \in Nat \/ m = -1) /\ m <= Length
    BY FramesAreNumbers DEF MarksInv
  <1>2. \A m \in marks : m \in -1..Length
    BY <1>1, Numbers
  <1>3. ASSUME ~setBack
        PROVE  \A m \in marks : m \in 0..Length
    <2>1. \A m \in marks : m \in Nat /\ m <= Length
      BY <1>1, <1>3, FramesAreNumbers DEF MarksInv
    <2> QED
      BY <2>1, Numbers
  <1>4. marks \in SUBSET (-1..Length) /\ Length \in Nat
    BY <1>2, Numbers
  <1> QED
    BY <1>3, <1>4, PlacesAreFinite

\* A step that leaves the marks alone, and ends up outside the fine search.
LEMMA OtherStep ==
    ASSUME ScanInv, ScanType', UNCHANGED <<stopFrame, marks, setBack>>, at' # "fine"
    PROVE  ScanInv'
  BY DEF ScanInv, MarksInv, FineInv

LEMMA LeaveLoopType ==
    ASSUME ScanInv, NEW s \in Int, NEW f \in Int, LeaveLoop(s, f),
           UNCHANGED <<recording, last, call, oldState>>
    PROVE  ScanType'
  <1>1. cur' \in Int /\ lastLogoPos' \in Int /\ state' \in Int /\ at' = "clean"
    BY DEF LeaveLoop, ScanInv, ScanType
  <1> QED
    BY <1>1 DEF ScanInv, ScanType, CallType

LEMMA ScanStep ==
    ASSUME ScanInv, OnlineNext
    PROVE  ScanInv'
  <1>0. /\ last \in Nat /\ last < Length /\ cur \in Int /\ lastLogoPos \in Int
        /\ state \in Int /\ oldState \in Int /\ CallType /\ ScanType /\ MarksInv
        /\ stopFrame \in Int
    BY FramesAreNumbers DEF ScanInv, ScanType, MarksInv
  <1>1. CASE Wait
    <2>1. last' \in Nat /\ last' < Length
      <3>1. CASE last - frameCount < NewFrames
        <4>1. PICK g \in Growth : last' = Min({last + g, Length - 1})
          BY <1>1, <3>1 DEF Wait
        <4>2. last + g \in Nat /\ Length - 1 \in Nat
          BY <1>0, Numbers
        <4>3. last' = IF last + g <= Length - 1 THEN last + g ELSE Length - 1
          BY <4>1, <4>2, LeastOfTwo
        <4> QED
          BY <4>2, <4>3, Numbers
      <3>2. CASE ~(last - frameCount < NewFrames)
        BY <1>0, <1>1, <3>2 DEF Wait
      <3> QED
        BY <3>1, <3>2
    <2>2. at' \in {"scan", "detect"}
      BY <1>1 DEF Wait, Awake
    <2>3. ScanType'
      BY <1>0, <1>1, <2>1, <2>2 DEF Wait, ScanType, CallType
    <2> QED
      BY <1>1, <2>2, <2>3, OtherStep DEF Wait, history
  <1>2. CASE NoSearch \/ NoLogo
    <2>1. ScanType' /\ at' = "clean" /\ UNCHANGED <<stopFrame, marks, setBack>>
      BY <1>0, <1>2 DEF NoSearch, NoLogo, ScanType, CallType, lvars, history
    <2> QED
      BY <2>1, OtherStep
  <1>3. CASE NewLogo
    <2>1. /\ cur' = lastLogoPos \/ cur' = cur
          /\ at' = "scan" /\ UNCHANGED <<last, call, state, oldState, stopFrame, lastLogoPos, marks,
                                    setBack>>
      BY <1>3 DEF NewLogo, history
    <2>2. ScanType'
      BY <1>0, <2>1 DEF ScanType, CallType
    <2> QED
      BY <2>1, <2>2, OtherStep
  <1>4. CASE EndOfFrames
    <2>1. ScanType'
      BY <1>0, <1>4, LeaveLoopType DEF EndOfFrames
    <2> QED
      BY <1>4, <2>1, OtherStep DEF EndOfFrames, LeaveLoop, history
  <1>5. CASE Coarse
    <2>1. /\ FindLogoChange(state, cur, BigStep, 0) /\ oldState' = state /\ at' = "coarse"
          /\ UNCHANGED <<last, state, stopFrame, lastLogoPos, marks, setBack>>
      BY <1>5 DEF Coarse, history
    <2>2. CallType' /\ cur' \in Int /\ lastIFrame' = cur'
      <3>1. BigStep \in Nat \ {0} /\ 0 \in Nat
        BY Numbers
      <3> QED
        BY <1>0, <2>1, <3>1, StartLemma
    <2>3. ScanType'
      BY <1>0, <2>1, <2>2 DEF ScanType
    <2> QED
      BY <2>1, <2>3, OtherStep
  <1>6. CASE Search
    BY <1>6, SearchScanInv
  <1>7. CASE NotFound
    <2>1. ScanType'
      BY <1>0, <1>7, LeaveLoopType DEF NotFound
    <2> QED
      BY <1>7, <2>1, OtherStep DEF NotFound, LeaveLoop, history
  <1>8. CASE TooNew
    <2>1. FineStart \in Int
      BY FineStartLemma
    <2>2. /\ LeaveLoop(oldState, FineStart)
          /\ UNCHANGED <<recording, last, call, oldState, stopFrame, marks, setBack>>
      BY <1>8 DEF TooNew, history
    <2>3. ScanType'
      BY <1>0, <2>1, <2>2, LeaveLoopType
    <2> QED
      BY <2>2, <2>3, OtherStep DEF LeaveLoop
  <1>9. CASE Fine
    <2> DEFINE stable == IF call.result = 0 THEN StableTime ELSE 0
    <2>1. /\ FineStart + MinForward <= last /\ state' = call.result
          /\ FindLogoChange(oldState, FineStart, 1, stable) /\ at' = "fine"
          /\ UNCHANGED <<last, oldState, stopFrame, lastLogoPos, marks, setBack>>
      BY <1>9 DEF Fine, history
    <2>2. FineStart \in Int /\ stopFrame <= FineStart
      BY FineStartLemma
    <2>3. stable \in Nat /\ call.result \in Int /\ 1 \in Nat \ {0}
      BY <1>0, Numbers DEF CallType
    <2> HIDE DEF stable
    <2>4. /\ CallType' /\ cur' \in Int /\ lastIFrame' = cur'
          /\ call'.running = TRUE /\ call'.skip = 1 /\ call'.ignore = IgnoreFrames
          /\ \/ cur' = -1
             \/ cur' \in IFrames /\ FineStart <= cur' /\ cur' + Batch <= last
      <3> DEFINE from == FineStart
      <3>1. /\ from \in Int /\ oldState \in Int /\ 1 \in Nat \ {0} /\ stable \in Nat
            /\ FindLogoChange(oldState, from, 1, stable) /\ from + MinForward <= last
        BY <1>0, <2>1, <2>2, <2>3
      <3> HIDE DEF from
      <3>2. /\ CallType' /\ cur' \in Int /\ lastIFrame' = cur'
            /\ call'.running = TRUE /\ call'.skip = 1 /\ call'.ignore = IgnoreFrames
            /\ \/ cur' = -1
               \/ /\ cur' \in IFrames /\ from <= cur'
                  /\ from + MinForward <= last => cur' + Batch <= last
        BY <3>1, StartLemma
      <3>3. from + MinForward <= last
        BY <3>1
      <3> QED
        BY <3>2, <3>3, Zenon DEF from
    <2>5. ScanType'
      <3>1. lastIFrame' \in Int
        BY <2>4
      <3> QED
        BY <1>0, <2>1, <2>3, <2>4, <3>1 DEF ScanType
    <2>6. MarksInv'
      BY <1>0, <2>1 DEF MarksInv
    <2>7. cur' = -1 \/ FirstBatch'
      <3>1. cur' # -1 => stopFrame <= cur'
        BY <1>0, <2>2, <2>4
      <3> QED
        BY <2>1, <2>4, <3>1 DEF FirstBatch, Batch
    <2>8. FineInv'
      BY <2>4, <2>7 DEF FineInv
    <2> QED
      BY <2>5, <2>6, <2>8 DEF ScanInv
  <1>10. CASE NoChangeAhead \/ NotRefined
    <2>1. /\ state' = call.result /\ at' = "scan"
          /\ UNCHANGED <<last, cur, call, oldState, stopFrame, lastLogoPos, marks, setBack>>
      BY <1>10 DEF NoChangeAhead, NotRefined, lvars, history
    <2>2. ScanType'
      BY <1>0, <2>1 DEF ScanType, CallType
    <2> QED
      BY <2>1, <2>2, OtherStep
  <1>11. CASE Refined
    <2> DEFINE f == PrevIFrame(lastIFrame - 1)
    <2>1. /\ Toggle(f) /\ stopFrame' = f /\ state' = call.result /\ at' = "scan"
          /\ setBack' = (setBack \/ f < stopFrame)
          /\ lastLogoPos' = IF call.result = 1 THEN cur ELSE Max({f - 1, 0})
          /\ UNCHANGED <<last, cur, call, oldState>>
      BY <1>11 DEF Refined, lvars
    <2>2. f \in IFrames \cup {-1} /\ f < Length
      BY <1>11, MarkLemma DEF Refined
    <2>3. f \in Int
      BY <2>2, FramesAreNumbers
    <2> HIDE DEF f
    <2>4. Max({f - 1, 0}) \in Int
      BY <2>3, GreatestOfTwo
    <2>5. ScanType'
      BY <1>0, <2>1, <2>4 DEF ScanType, CallType
    <2>6. MarksInv'
      <3>1. \A m \in marks' : m \in marks \/ m = f
        BY <2>1 DEF Toggle
      <3>2. f <= Length
        BY <2>2, <2>3, Numbers
      <3>3. /\ marks' \subseteq IFrames \cup {-1}
            /\ \A m \in marks' : m <= Length
        BY <1>0, <2>2, <3>1, <3>2 DEF MarksInv
      <3>4. ASSUME ~setBack'
            PROVE  f \in IFrames /\ marks' \subseteq IFrames /\ \A m \in marks' : m <= f
        <4>1. ~setBack /\ ~(f < stopFrame)
          BY <2>1, <3>4
        <4>2. /\ stopFrame \in Nat /\ marks \subseteq IFrames
              /\ \A m \in marks : m <= stopFrame
          BY <1>0, <4>1, FramesAreNumbers DEF MarksInv
        <4>3. f \in Nat /\ stopFrame <= f
          BY <2>3, <4>1, <4>2
        <4>4. f \in IFrames
          BY <2>2, <4>3
        <4>5. \A m \in marks : m \in Nat /\ m <= f
          BY <4>2, <4>3, FramesAreNumbers
        <4>6. \A m \in marks' : m \in IFrames
          BY <3>1, <4>2, <4>4
        <4>7. \A m \in marks' : m <= f
          BY <3>1, <4>3, <4>5
        <4> QED
          BY <4>4, <4>6, <4>7
      <3> QED
        BY <2>1, <2>2, <3>2, <3>3, <3>4 DEF MarksInv
    <2> QED
      BY <2>1, <2>5, <2>6 DEF ScanInv, FineInv
  <1>12. CASE Clean
    <2>1. /\ UNCHANGED <<last, cur, call, oldState, stopFrame, lastLogoPos, setBack>>
          /\ state' \in {oldState, state} /\ at' \in {"done", "wait"}
      BY <1>12 DEF Clean, lvars, history
    <2>2. marks' \subseteq marks
      <3>1. CleanActive(CleanInactive(marks)) \in SUBSET marks
        BY <1>0, MarksAreFrames, CleanupFacts, Numbers
      <3> QED
        BY <1>12, <3>1 DEF Clean
    <2>3. ScanType'
      BY <1>0, <2>1 DEF ScanType, CallType
    <2>4. MarksInv'
      BY <1>0, <2>1, <2>2 DEF MarksInv
    <2> QED
      BY <2>1, <2>3, <2>4 DEF ScanInv, FineInv
  <1> QED
    BY <1>1, <1>2, <1>3, <1>4, <1>5, <1>6, <1>7, <1>8, <1>9, <1>10, <1>11, <1>12
       DEF OnlineNext

\* The numbers keep their types, and a fine search stays behind stopFrame.
THEOREM OnlineInvariant == OnlineSpec => []ScanInv
  <1>1. OnlineInit => ScanInv
    BY InitScanInv
  <1>2. ScanInv /\ [OnlineNext]_onlineVars => ScanInv'
    <2>1. ScanInv /\ UNCHANGED onlineVars => ScanInv'
      BY DEF ScanInv, ScanType, MarksInv, FineInv, CallType, FirstBatch, Behind, onlineVars,
             svars, lvars, history
    <2> QED
      BY <2>1, ScanStep
  <1> QED
    BY <1>1, <1>2, PTL DEF OnlineSpec

\* Whatever the distances of the I-frames are: MarkToggle gets the I-frame before
\* the last one a fine search has passed (tnoad.cpp, 289-294), which is not in
\* front of stopFrame, for a fine search begins so far from the end of the index
\* that its first batch passes another I-frame than the one it begins on.  If
\* there is none in that batch, it gets the one in front of the I-frame the
\* search has begun on, or -1.
THEOREM MarksOnIFramesHolds == OnlineSpec => MarksOnIFrames
  <1> DEFINE A == \A f \in marks' \ marks :
                     \/ f \in IFrames /\ stopFrame <= f
                     \/ \E c \in IFrames :
                           /\ Sparse(c) /\ stopFrame <= c
                           /\ f \in {PrevIFrame(c - 1), PrevIFrame(c)}
  <1>1. ScanInv /\ [OnlineNext]_onlineVars => [A]_onlineVars
    <2> SUFFICES ASSUME ScanInv, OnlineNext, NEW f \in marks' \ marks
                 PROVE  SetAt(f)
      BY DEF SetAt
    <2>1. CASE Refined
      <3>1. Toggle(PrevIFrame(lastIFrame - 1)) /\ Returned("fine") /\ call.result >= 0
        BY <2>1 DEF Refined
      <3>2. f = PrevIFrame(lastIFrame - 1)
        BY <3>1 DEF Toggle
      <3>3. SetAt(PrevIFrame(lastIFrame - 1))
        BY <3>1, MarkLemma
      <3> QED
        BY <3>2, <3>3, Zenon
    <2>2. CASE Clean
      <3>1. marks \in SUBSET (-1..Length) /\ Length \in Nat
        BY MarksAreFrames, Numbers DEF ScanInv
      <3>2. CleanActive(CleanInactive(marks)) \in SUBSET marks
        BY <3>1, CleanupFacts
      <3> QED
        BY <2>2, <3>2 DEF Clean
    <2>3. CASE ~Refined /\ ~Clean
      BY <2>3 DEF OnlineNext, Wait, NoSearch, NoLogo, NewLogo, EndOfFrames, Coarse,
                  Search, svars, NotFound, TooNew, Fine, NoChangeAhead, NotRefined
    <2> QED
      BY <2>1, <2>2, <2>3
  <1> QED
    BY <1>1, OnlineInvariant, PTL DEF OnlineSpec, MarksOnIFrames

-----------------------------------------------------------------------------
(***************************************************************************)
(* The marks are cleaned up only if a round has changed their number.  Let *)
(* M be the marks at the beginning of the round: no two of them are too    *)
(* close, and the round can only have taken away the last one of them and  *)
(* put in others behind all of M.                                          *)
(***************************************************************************)
Replaced(M, N) ==
    /\ \A m \in M \ N, q \in M : q <= m
    /\ \A m \in N \ M, q \in M : q < m

Round(M) ==
    /\ Apart(M, MinMark) /\ Cardinality(M) = markCount
    /\ \A m \in M : m <= stopFrame
    /\ Replaced(M, marks)

RoundInv ==
    ~setBack =>
        /\ at = "wait" => Apart(marks, MinMark) /\ Cardinality(marks) = markCount
        /\ at \notin {"wait", "done"} => \E M \in SUBSET (0..Length) : Round(M)

\* If the number is the same, at most the last mark is another one, and it has
\* moved away from the others.
LEMMA SameNumber ==
    ASSUME NEW n \in Nat, NEW M \in SUBSET (0..n), NEW N \in SUBSET (0..n), NEW d \in Nat,
           Replaced(M, N), Apart(M, d), Cardinality(M) = Cardinality(N)
    PROVE  Apart(N, d)
  <1>1. /\ IsFiniteSet(M) /\ IsFiniteSet(N)
        /\ Cardinality(M) \in Nat /\ Cardinality(N) \in Nat
    <2>1. 0 \in Int /\ n \in Int
      OBVIOUS
    <2>2. IsFiniteSet(0..n)
      BY <2>1, FS_Interval
    <2> QED
      BY <2>2, FS_Subset, FS_CardinalityType
  <1>2. \A x \in M \cup N : x \in Nat
    OBVIOUS
  <1>3. CASE M \subseteq N
    BY <1>1, <1>3, FS_Subset
  <1>4. CASE ~(M \subseteq N)
    <2>1. PICK b \in M : b \notin N
      BY <1>4
    <2>2. \A q \in M : q <= b
      BY <2>1 DEF Replaced
    <2> DEFINE K == M \ {b}
    <2>3. K \in SUBSET N
      <3>1. ASSUME NEW m \in M, m \notin N
            PROVE  m = b
        BY <1>2, <2>1, <2>2, <3>1 DEF Replaced
      <3> QED
        BY <3>1
    <2>4. IsFiniteSet(K) /\ Cardinality(K) = Cardinality(M) - 1
      BY <1>1, <2>1, FS_RemoveElement
    <2>5. IsFiniteSet(N \ K) /\ Cardinality(N \ K) = Cardinality(N) - Cardinality(N \cap K)
      BY <1>1, FS_Difference
    <2>6. N \cap K = K
      BY <2>3
    <2>7. Cardinality(N \ K) = 1
      BY <1>1, <2>4, <2>5, <2>6
    <2>8. PICK a : N \ K = {a}
      BY <2>5, <2>7, FS_Singleton
    <2>9. a \in N /\ a \notin M
      BY <2>1, <2>8
    <2>10. \A q \in M : q < a
      BY <2>9 DEF Replaced
    <2>11. ASSUME NEW p \in N, NEW q \in N, p < q
           PROVE  q - p >= d
      <3>1. p \in Nat /\ q \in Nat /\ a \in Nat /\ b \in Nat
        BY <1>2, <2>1, <2>9
      <3>2. (p \in K \/ p = a) /\ (q \in K \/ q = a)
        BY <2>8
      <3>3. CASE p \in K /\ q \in K
        BY <2>11, <3>3 DEF Apart
      <3>4. CASE p \in K /\ q = a
        <4>1. p \in M /\ p <= b /\ p # b /\ b < a
          BY <2>1, <2>2, <2>10, <3>4
        <4>2. p < b
          BY <3>1, <4>1
        <4>3. b - p >= d
          BY <2>1, <4>1, <4>2 DEF Apart
        <4> QED
          BY <3>1, <3>4, <4>1, <4>3
      <3>5. CASE p = a
        <4>1. q \in K \/ q = p
          BY <3>2, <3>5
        <4>2. q \in K => q < p
          BY <2>10, <3>5
        <4> QED
          BY <2>11, <3>1, <4>1, <4>2
      <3> QED
        BY <3>2, <3>3, <3>4, <3>5
    <2> QED
      BY <2>11 DEF Apart
  <1> QED
    BY <1>3, <1>4

\* A mark is toggled at stopFrame or behind it, where all others are before.
LEMMA ToggleRound ==
    ASSUME MarksInv, ~setBack, NEW M \in SUBSET (0..Length), Round(M),
           NEW f \in Nat, stopFrame <= f, Toggle(f), stopFrame' = f, markCount' = markCount
    PROVE  Round(M)'
  <1>1. /\ \A m \in marks : m \in Nat /\ m <= stopFrame
        /\ \A m \in M : m \in Nat /\ m <= stopFrame
        /\ stopFrame \in Nat
    <2>1. \A m \in M : m \in Nat
      OBVIOUS
    <2> QED
      BY <2>1, FramesAreNumbers DEF MarksInv, Round
  <1>2. \A m \in M : m <= f
    BY <1>1
  <1>3. Replaced(M, marks')
    <2>1. ASSUME NEW m \in M \ marks', NEW q \in M
          PROVE  q <= m
      <3>1. CASE m \in marks
        <4>1. m = f
          BY <2>1, <3>1 DEF Toggle
        <4> QED
          BY <1>2, <4>1
      <3>2. CASE m \notin marks
        BY <2>1, <3>2 DEF Round, Replaced
      <3> QED
        BY <3>1, <3>2
    <2>2. ASSUME NEW m \in marks' \ M, NEW q \in M
          PROVE  q < m
      <3>1. CASE m \in marks
        BY <2>2, <3>1 DEF Round, Replaced
      <3>2. CASE m \notin marks
        <4>1. m = f
          BY <2>2, <3>2 DEF Toggle
        <4>2. q <= f /\ q # f
          BY <1>2, <2>2, <4>1
        <4> QED
          BY <1>1, <4>1, <4>2
      <3> QED
        BY <3>1, <3>2
    <2> QED
      BY <2>1, <2>2 DEF Replaced
  <1> QED
    BY <1>2, <1>3 DEF Round

LEMMA RoundStep ==
    ASSUME ScanInv, RoundInv, OnlineNext
    PROVE  RoundInv'
  <1>kept. setBack' = setBack \/ Refined
    BY DEF OnlineNext, Wait, NoSearch, NoLogo, NewLogo, EndOfFrames, Coarse, Search, svars,
           NotFound, TooNew, Fine, NoChangeAhead, NotRefined, Clean, history
  <1>given. SUFFICES ASSUME ~setBack, ~setBack'
                  PROVE  RoundInv'
    BY <1>kept DEF RoundInv, Refined
  <1>1. CASE at = "wait"
    <2>1. /\ Wait /\ at' \in {"scan", "detect"} /\ UNCHANGED <<marks, markCount, stopFrame>>
      BY <1>1 DEF OnlineNext, Wait, Awake, NoSearch, NoLogo, NewLogo, EndOfFrames, Coarse,
                  Search, NotFound, TooNew, Fine, NoChangeAhead, Refined, NotRefined,
                  Returned, Clean
    <2>2. Round(marks)'
      BY <1>given, <1>1, <2>1 DEF RoundInv, Round, Replaced, ScanInv, MarksInv
    <2>3. \E M \in SUBSET (0..Length) : Round(M)'
      <3>1. \E M \in SUBSET (0..Length) : M = marks'
        BY <1>given, <2>1, MarksAreFrames DEF ScanInv
      <3> QED
        BY <2>2, <3>1
    <2> QED
      BY <2>1, <2>3 DEF RoundInv
  <1>2. CASE at = "clean"
    <2>1. /\ Clean /\ at' \in {"done", "wait"} /\ markCount' = Cardinality(marks')
      BY <1>2 DEF OnlineNext, Wait, NoSearch, NoLogo, NewLogo, EndOfFrames, Coarse,
                  Search, NotFound, TooNew, Fine, NoChangeAhead, Refined, NotRefined,
                  Returned, Clean
    <2>2. PICK M \in SUBSET (0..Length) : Round(M)
      BY <1>given, <1>2 DEF RoundInv
    <2>3. /\ marks \in SUBSET (0..Length) /\ Length \in Nat
          /\ marks \in SUBSET (-1..Length)
      BY <1>given, MarksAreFrames, Numbers DEF ScanInv
    <2>4. Apart(marks', MinMark)
      <3>1. CASE Cardinality(marks) = markCount
        <4>1. Apart(marks, MinMark)
          BY <2>2, <2>3, <3>1, SameNumber, CleanupConstants DEF Round
        <4> QED
          BY <2>1, <3>1, <4>1 DEF Clean
      <3>2. CASE Cardinality(marks) # markCount
        <4>1. marks' = CleanActive(CleanInactive(marks))
          BY <2>1, <3>2 DEF Clean
        <4> QED
          BY <2>3, <4>1, CleanupFacts
      <3> QED
        BY <3>1, <3>2
    <2> QED
      BY <2>1, <2>4 DEF RoundInv
  <1>3. CASE Refined
    <2> DEFINE f == PrevIFrame(lastIFrame - 1)
    <2>1. /\ Toggle(f) /\ stopFrame' = f /\ markCount' = markCount /\ at' = "scan"
          /\ at = "fine" /\ Returned("fine") /\ call.result >= 0
      BY <1>3 DEF Refined, Returned
    <2>2. f \in Nat /\ stopFrame <= f
      <3>1. f \in IFrames \cup {-1}
        BY <2>1, MarkLemma
      <3>2. f \in Int
        BY <3>1, FramesAreNumbers
      <3>3. ~(f < stopFrame)
        BY <1>given, <1>3 DEF Refined
      <3>4. stopFrame \in Nat
        BY <1>given, FramesAreNumbers DEF ScanInv, MarksInv
      <3> HIDE DEF f
      <3> QED
        BY <3>2, <3>3, <3>4
    <2>3. MarksInv
      BY DEF ScanInv
    <2> HIDE DEF f
    <2>4. PICK M \in SUBSET (0..Length) : Round(M)
      BY <1>given, <2>1 DEF RoundInv
    <2>5. Round(M)'
      BY <1>given, <2>1, <2>2, <2>3, <2>4, ToggleRound
    <2>6. \E X \in SUBSET (0..Length) : Round(X)'
      BY <2>5
    <2> QED
      BY <2>1, <2>6 DEF RoundInv
  <1>4. CASE at \notin {"wait", "clean"} /\ ~Refined
    <2>1. /\ at # "done" /\ at' \notin {"wait", "done"}
          /\ UNCHANGED <<marks, markCount, stopFrame>>
      BY <1>4 DEF OnlineNext, Wait, NoSearch, NoLogo, NewLogo, EndOfFrames, Coarse, LeaveLoop,
                  Search, NotFound, TooNew, Fine, NoChangeAhead, NotRefined,
                  Returned, Clean, svars, history
    <2>2. PICK M \in SUBSET (0..Length) : Round(M)
      BY <1>given, <1>4, <2>1 DEF RoundInv
    <2>3. Round(M)'
      BY <2>1, <2>2 DEF Round
    <2>4. \E X \in SUBSET (0..Length) : Round(X)'
      BY <2>3
    <2> QED
      BY <2>1, <2>4 DEF RoundInv
  <1> QED
    BY <1>1, <1>2, <1>3, <1>4

\* Between two rounds no two neighbours are closer than MINMARKDURATION, although
\* most rounds do not clean up (tnoad.cpp, 319-332), as long as no mark has been
\* set in front of stopFrame.
THEOREM CleanedHolds == OnlineSpec => []Cleaned
  <1>1. OnlineInit => RoundInv
    <2> SUFFICES ASSUME OnlineInit
                 PROVE  RoundInv
      OBVIOUS
    <2>1. at = "wait" /\ marks = {} /\ markCount = 0
      BY DEF OnlineInit
    <2>2. Apart(marks, MinMark) /\ Cardinality(marks) = markCount
      BY <2>1, FS_EmptySet DEF Apart
    <2> QED
      BY <2>1, <2>2 DEF RoundInv
  <1>2. ScanInv /\ RoundInv /\ [OnlineNext]_onlineVars => RoundInv'
    <2>1. RoundInv /\ UNCHANGED onlineVars => RoundInv'
      BY DEF RoundInv, Round, onlineVars, svars, history
    <2> QED
      BY <2>1, RoundStep
  <1>3. ScanInv /\ RoundInv => Cleaned
    <2> SUFFICES ASSUME ScanInv, RoundInv, at = "wait", ~setBack
                 PROVE  Close(marks, MinMark, 2) = {}
      BY DEF Cleaned
    <2>1. marks \in SUBSET (-1..Length) /\ Apart(marks, MinMark)
      BY MarksAreFrames DEF ScanInv, RoundInv
    <2> QED
      BY <2>1, CloseIsApart, CleanupConstants, Numbers
  <1> QED
    BY <1>1, <1>2, <1>3, OnlineInvariant, PTL DEF OnlineSpec

-----------------------------------------------------------------------------
(***************************************************************************)
(* What the scan goes on with, and what the marks say.                     *)
(***************************************************************************)

Odd == Cardinality(marks) % 2 = 1

Tells(s) == s \in {0, 1} /\ (s = 1 <=> Odd)

\* Once a fine search has come back with -2 or -1, "not good here ?" (tnoad.cpp,
\* 287-288, 365), no later search that finds a logo need set the mark.
StateInv ==
    ~gaveUp =>
        /\ at \notin {"coarse", "fine"} => Tells(state)
        /\ at \in {"coarse", "fine"} =>
              Tells(oldState) /\ call.state = oldState /\ call.result \in {-2, -1, 0, 1}

\* Toggling a mark turns an odd number into an even one and back.
LEMMA ToggleTurns ==
    ASSUME IsFiniteSet(marks), NEW f, Toggle(f)
    PROVE  Odd' <=> ~Odd
  <1>1. Cardinality(marks) \in Nat
    BY FS_CardinalityType
  <1> DEFINE n == Cardinality(marks)
  <1>2. CASE f \in marks
    <2>1. Cardinality(marks') = n - 1
      BY <1>2, FS_RemoveElement DEF Toggle
    <2>2. (n - 1) % 2 = 1 <=> ~(n % 2 = 1)
      <3> HIDE DEF n
      <3> QED
        BY <1>1 DEF n
    <2> QED
      BY <2>1, <2>2 DEF Odd
  <1>3. CASE f \notin marks
    <2>1. Cardinality(marks') = n + 1
      BY <1>3, FS_AddElement DEF Toggle
    <2>2. (n + 1) % 2 = 1 <=> ~(n % 2 = 1)
      <3> HIDE DEF n
      <3> QED
        BY <1>1 DEF n
    <2> QED
      BY <2>1, <2>2 DEF Odd
  <1> QED
    BY <1>2, <1>3

LEMMA StateStep ==
    ASSUME ScanInv, StateInv, OnlineNext
    PROVE  StateInv'
  <1>0. marks \in SUBSET (-1..Length) /\ IsFiniteSet(marks) /\ call.result \in Int
    BY MarksAreFrames DEF ScanInv, ScanType, CallType
  <1>kept. gaveUp' = gaveUp \/ NotRefined
    BY DEF OnlineNext, Wait, NoSearch, NoLogo, NewLogo, EndOfFrames, Coarse, Search, svars,
           NotFound, TooNew, Fine, NoChangeAhead, Refined, Clean, history
  <1>given. SUFFICES ASSUME ~gaveUp, ~gaveUp'
                   PROVE  StateInv'
    BY <1>kept DEF StateInv, NotRefined
  <1>1. CASE Wait \/ NoSearch \/ NoLogo \/ NewLogo
    <2>1. /\ at \notin {"coarse", "fine"} /\ at' \notin {"coarse", "fine"}
          /\ state' = state /\ marks' = marks
      BY <1>1 DEF Wait, Awake, NoSearch, NoLogo, NewLogo
    <2> QED
      BY <1>given, <2>1 DEF StateInv, Tells, Odd
  <1>2. CASE EndOfFrames
    <2>1. at = "scan" /\ at' = "clean" /\ state' = state /\ marks' = marks
      BY <1>2 DEF EndOfFrames, LeaveLoop
    <2> QED
      BY <1>given, <2>1 DEF StateInv, Tells, Odd
  <1>3. CASE NotFound \/ TooNew
    <2>1. at = "coarse" /\ at' = "clean" /\ state' = oldState /\ marks' = marks
      BY <1>3 DEF NotFound, TooNew, LeaveLoop, Returned
    <2> QED
      BY <1>given, <2>1 DEF StateInv, Tells, Odd
  <1>4. CASE Coarse
    <2>1. /\ at = "scan" /\ at' = "coarse" /\ oldState' = state /\ marks' = marks
          /\ call'.state = state /\ call'.result = state
      BY <1>4 DEF Coarse, FindLogoChange
    <2>2. Tells(state)
      BY <1>given, <2>1 DEF StateInv
    <2> QED
      BY <1>given, <2>1, <2>2 DEF StateInv, Tells, Odd
  <1>5. CASE Search
    <2>1. /\ UNCHANGED svars /\ call'.state = call.state
          /\ call'.result \in {call.result, call.state, 0, 1, -1, -2}
          /\ at \in {"coarse", "fine"}
      BY <1>5, SearchType DEF ScanInv, Search
    <2>2. call'.result \in {-2, -1, 0, 1}
      BY <1>given, <2>1 DEF StateInv, Tells
    <2> QED
      BY <1>given, <2>1, <2>2 DEF StateInv, Tells, Odd, svars
  <1>6. CASE Fine
    <2>1. /\ at = "coarse" /\ at' = "fine" /\ oldState' = oldState /\ marks' = marks
          /\ call'.state = oldState /\ call'.result = oldState
      BY <1>6 DEF Fine, FindLogoChange, Returned
    <2>2. Tells(oldState)
      BY <1>given, <2>1 DEF StateInv
    <2> QED
      BY <1>given, <2>1, <2>2 DEF StateInv, Tells, Odd
  <1>7. CASE NoChangeAhead
    <2>1. /\ at = "coarse" /\ at' = "scan" /\ state' = call.result /\ marks' = marks
          /\ call.result >= 0 /\ ~ChangeAhead
      BY <1>7 DEF NoChangeAhead, Returned
    <2>2. Tells(oldState)
      BY <1>given, <2>1 DEF StateInv
    <2>3. call.result = oldState
      BY <1>0, <2>1, <2>2 DEF ChangeAhead, Tells
    <2> QED
      BY <1>given, <2>1, <2>2, <2>3 DEF StateInv, Tells, Odd
  <1>8. CASE Refined
    <2>1. /\ at = "fine" /\ at' = "scan" /\ state' = call.result
          /\ Toggle(PrevIFrame(lastIFrame - 1))
          /\ call.result >= 0 /\ call.result # oldState
      BY <1>8 DEF Refined, Returned
    <2>2. Tells(oldState) /\ call.result \in {0, 1}
      BY <1>given, <2>1 DEF StateInv
    <2>3. Odd' <=> ~Odd
      BY <1>0, <2>1, ToggleTurns
    <2>4. state' \in {0, 1} /\ (state' = 1 <=> ~(oldState = 1))
      BY <2>1, <2>2 DEF Tells
    <2>5. Tells(state)'
      BY <2>2, <2>3, <2>4 DEF Tells
    <2> QED
      BY <1>given, <2>1, <2>5 DEF StateInv
  <1>9. CASE NotRefined
    <2>1. /\ at = "fine" /\ at' = "scan" /\ state' = call.result /\ marks' = marks
          /\ Returned("fine") /\ (call.result < 0 \/ call.result = oldState)
      BY <1>9 DEF NotRefined, Returned
    <2>2. call.result = oldState
      BY <1>0, <1>given, <1>9, <2>1 DEF NotRefined
    <2>3. Tells(oldState)
      BY <1>given, <2>1 DEF StateInv
    <2> QED
      BY <1>given, <2>1, <2>2, <2>3 DEF StateInv, Tells, Odd
  <1>10. CASE Clean
    <2>1. at = "clean" /\ at' \in {"done", "wait"}
      BY <1>10 DEF Clean
    <2>2. Tells(state)
      BY <1>given, <2>1 DEF StateInv
    <2>3. state' = state
      BY <1>10, <2>2 DEF Clean, Tells
    <2>4. Odd' <=> Odd
      <3>1. CASE marks' = marks
        BY <3>1 DEF Odd
      <3>2. CASE marks' = CleanActive(CleanInactive(marks))
        <4>1. Cardinality(CleanActive(CleanInactive(marks))) % 2 = Cardinality(marks) % 2
          BY <1>0, CleanupFacts, Numbers
        <4> QED
          BY <3>2, <4>1 DEF Odd
      <3> QED
        BY <1>10, <3>1, <3>2 DEF Clean
    <2> QED
      BY <1>given, <2>1, <2>2, <2>3, <2>4 DEF StateInv, Tells
  <1> QED
    BY <1>1, <1>2, <1>3, <1>4, <1>5, <1>6, <1>7, <1>8, <1>9, <1>10 DEF OnlineNext

\* Until a fine search gives up with -2 or -1, the marks say what the next round
\* goes on with: whatever is toggled on an old mark, deleted by the
\* cleanup (always in pairs), forgotten and found again (tnoad.cpp, 245-332).
THEOREM MarksTellStateHolds == OnlineSpec => []MarksTellState
  <1>1. OnlineInit => StateInv
    <2> SUFFICES ASSUME OnlineInit
                 PROVE  StateInv
      OBVIOUS
    <2>1. at = "wait" /\ state = 0 /\ marks = {}
      BY DEF OnlineInit
    <2>2. Cardinality(marks) % 2 = 0
      BY <2>1, FS_EmptySet
    <2> QED
      BY <2>1, <2>2 DEF StateInv, Tells, Odd
  <1>2. ScanInv /\ StateInv /\ [OnlineNext]_onlineVars => StateInv'
    <2>1. StateInv /\ UNCHANGED onlineVars => StateInv'
      BY DEF StateInv, Tells, Odd, onlineVars, svars, lvars, history
    <2> QED
      BY <2>1, StateStep
  <1>3. StateInv => MarksTellState
    BY DEF StateInv, MarksTellState, Tells, Odd
  <1> QED
    BY <1>1, <1>2, <1>3, OnlineInvariant, PTL DEF OnlineSpec
=============================================================================
