------------------------------- MODULE PidFile -------------------------------
(***************************************************************************)
(* The instances of noad that are started for ONE recording directory, and *)
(* the file <recording>/noad.pid with which they try to exclude each other *)
(* (src/main.cpp, src/tools.cpp).                                          *)
(*                                                                         *)
(* An instance is one process.  It creates the file with open(O_EXCL),     *)
(* writes its pid with a second system call, scans the recording and       *)
(* removes the file, by name, on every way out of main: after doNoad, in   *)
(* the signal handler and in the atexit function cleanUp.  A label of pc   *)
(* names the place in main() where the process stands.                     *)
(*                                                                         *)
(* fork, setsid, nice and the redirection of the standard streams change   *)
(* nothing the other processes can see and are left out.  The handlers and *)
(* cleanUp are installed by adjacent calls and appear as one step.         *)
(***************************************************************************)
EXTENDS Naturals, FiniteSets

CONSTANTS
    Proc,        \* the noad processes started for this recording
    NoFile,      \* noad.pid does not exist
    NoPid,       \* noad.pid is empty; also the -1 processInfo returns
    Stray,       \* a pid that belongs to no noad of this recording
    MaxFaults,   \* bound: signals sent from outside (Ctrl-C, stopnoad.sh) and
                 \* deaths without a handler (SIGKILL, SIGPIPE, OOM)
    IOFaults     \* the calls of make_pidfile that may fail: "open", "write"

ASSUME PidAssumption ==
    /\ NoFile \notin Proc /\ NoPid \notin Proc /\ Stray \notin Proc
    /\ NoFile # NoPid /\ Stray # NoPid
    /\ MaxFaults \in Nat
    /\ IOFaults \subseteq {"open", "write"}

VARIABLES
    pidFile,  \* what noad.pid holds: NoFile, NoPid or a pid
    creator,  \* history: who created the present noad.pid (NoFile: nobody)
    pc,       \* where in main() each process is
    cmd,      \* how each process was called
    tries,    \* the local variable i of the pidfile loop
    olPid,    \* the pid that processInfo returned, until kill has used it
    robbed,   \* history: processes whose noad.pid another process unlinked
    faults    \* signals from outside and crashes so far

vars == <<pidFile, creator, pc, cmd, tries, olPid, robbed, faults>>

\* "after" is a call with 'after' and --online, the only one that waits for
\* another instance; "scan" is every other command that scans; "nopid" any of
\* them with --nopid; "deleted" stops a running instance.
Commands == {"after", "scan", "nopid", "deleted"}

\* Standing here, a signal kills the process: no handler is installed yet.
Unprotected == {"make", "write", "info", "kill", "sleep", "setup"}
\* Standing here, it runs signal_handler.
Protected == {"scan", "remove", "exit"}
Ended == {"done", "killed"}
Labels == {"idle", "handler"} \cup Unprotected \cup Protected \cup Ended

Init ==
    /\ pidFile = NoFile /\ creator = NoFile
    /\ pc = [p \in Proc |-> "idle"]
    /\ cmd = [p \in Proc |-> "scan"]
    /\ tries = [p \in Proc |-> 0]
    /\ olPid = [p \in Proc |-> NoPid]
    /\ robbed = {} /\ faults = 0

Goto(p, label) == pc' = [pc EXCEPT ![p] = label]

-----------------------------------------------------------------------------
(* The start of main: the command decides what is done first.              *)

Start(p) ==
    /\ pc[p] = "idle"
    /\ \E c \in Commands :
         /\ cmd' = [cmd EXCEPT ![p] = c]
         /\ Goto(p, CASE c = "deleted" -> "info"
                      [] c = "nopid"   -> "setup"
                      [] OTHER         -> "make")
    /\ UNCHANGED <<pidFile, creator, tries, olPid, robbed, faults>>

-----------------------------------------------------------------------------
(* The pidfile loop.  make_pidfile is two steps: open and write.           *)

\* A mutant of Create: open() without O_EXCL.
OpenAnyway(p) ==
    /\ pc[p] = "make"
    /\ pidFile' = NoPid /\ creator' = p
    /\ Goto(p, "write")
    /\ UNCHANGED <<cmd, tries, olPid, robbed, faults>>

Create(p) ==
    /\ pc[p] = "make" /\ pidFile = NoFile
    /\ pidFile' = NoPid /\ creator' = p
    /\ Goto(p, "write")
    /\ UNCHANGED <<cmd, tries, olPid, robbed, faults>>

\* EEXIST: make_pidfile returns -1.
CreateExists(p) ==
    /\ pc[p] = "make" /\ pidFile # NoFile
    /\ Goto(p, "info")
    /\ UNCHANGED <<pidFile, creator, cmd, tries, olPid, robbed, faults>>

\* Any other error: make_pidfile returns -2 and main exits, cleanUp not set.
CreateFails(p) ==
    /\ pc[p] = "make" /\ "open" \in IOFaults
    /\ Goto(p, "done")
    /\ UNCHANGED <<pidFile, creator, cmd, tries, olPid, robbed, faults>>

\* The result of write() is ignored: when it fails the file stays empty.
\* The file may be another one by now, or gone: the write is then lost.
WritePid(p) ==
    /\ pc[p] = "write"
    /\ \/ pidFile' = IF creator = p THEN p ELSE pidFile
       \/ "write" \in IOFaults /\ pidFile' = pidFile
    /\ Goto(p, "setup")
    /\ UNCHANGED <<creator, cmd, tries, olPid, robbed, faults>>

\* A mutant of PidsRead: processInfo reads on when it cannot open the file.
ReadAnyway == IF pidFile = NoPid THEN {NoPid} ELSE {pidFile, Stray}

\* The pids processInfo can return: it converts its buffer before it ends the
\* text with a zero, so digits left in the buffer may follow the right ones.
PidsRead == IF pidFile \in {NoFile, NoPid} THEN {NoPid} ELSE {pidFile, Stray}

\* processInfo, and what its callers do with the result.
ReadInfo(p) ==
    /\ pc[p] = "info"
    /\ \E pid \in PidsRead :
         /\ \/ /\ cmd[p] = "deleted"
               /\ Goto(p, IF pid = NoPid THEN "done" ELSE "kill")
               /\ UNCHANGED tries
            \/ /\ cmd[p] = "after"
               /\ tries' = [tries EXCEPT ![p] = @ + 1]
               /\ Goto(p, CASE tries'[p] > 3 -> "done"
                            [] tries'[p] = 3 -> "kill"
                            [] OTHER         -> "sleep")
            \/ /\ cmd[p] = "scan"
               /\ Goto(p, "done")
               /\ UNCHANGED tries
         /\ olPid' = [olPid EXCEPT ![p] = IF pc'[p] = "kill" THEN pid ELSE @]
    /\ UNCHANGED <<pidFile, creator, cmd, robbed, faults>>

\* Where a process stands after a signal has been delivered to it.
AfterSignal(q) == CASE pc[q] \in Unprotected -> "killed"
                    [] pc[q] \in Protected   -> "handler"
                    [] OTHER                 -> pc[q]

\* kill(-1, sig) signals every process but the caller.
Hit(p) == IF olPid[p] = NoPid THEN Proc \ {p} ELSE {olPid[p]} \cap Proc

Kill(p) ==
    /\ pc[p] = "kill"
    /\ pc' = [q \in Proc |->
                IF q = p THEN IF cmd[p] = "deleted" THEN "done" ELSE "sleep"
                ELSE IF q \in Hit(p) THEN AfterSignal(q) ELSE pc[q]]
    /\ olPid' = [olPid EXCEPT ![p] = NoPid]
    /\ UNCHANGED <<pidFile, creator, cmd, tries, robbed, faults>>

\* A mutant of Sleep: i is declared inside the loop, and starts again.
SleepAndRestart(p) ==
    /\ pc[p] = "sleep"
    /\ tries' = [tries EXCEPT ![p] = 0]
    /\ Goto(p, "make")
    /\ UNCHANGED <<pidFile, creator, cmd, olPid, robbed, faults>>

Sleep(p) ==
    /\ pc[p] = "sleep"
    /\ Goto(p, "make")
    /\ UNCHANGED <<pidFile, creator, cmd, tries, olPid, robbed, faults>>

-----------------------------------------------------------------------------
(* From the pidfile to the scan, and the ways out.                         *)

\* signal(...), atexit(cleanUp).
InstallHandlers(p) ==
    /\ pc[p] = "setup"
    /\ Goto(p, "scan")
    /\ UNCHANGED <<pidFile, creator, cmd, tries, olPid, robbed, faults>>

\* A mutant of ScanEnds: main returns without removing the pidfile and has set
\* no cleanUp.
KeepPidfile(p) ==
    /\ pc[p] = "scan"
    /\ Goto(p, "done")
    /\ UNCHANGED <<pidFile, creator, cmd, tries, olPid, robbed, faults>>

\* doNoad returns; main removes the pidfile unless --nopid.
ScanEnds(p) ==
    /\ pc[p] = "scan"
    /\ Goto(p, IF cmd[p] = "nopid" THEN "exit" ELSE "remove")
    /\ UNCHANGED <<pidFile, creator, cmd, tries, olPid, robbed, faults>>

\* rm_pidfile: unlink by name, whoever created the file.
RmPidfile(p) ==
    /\ pidFile' = NoFile /\ creator' = NoFile
    /\ robbed' = robbed \cup ({creator} \ {p, NoFile})

Remove(p) ==
    /\ pc[p] = "remove"
    /\ RmPidfile(p)
    /\ Goto(p, "exit")
    /\ UNCHANGED <<cmd, tries, olPid, faults>>

\* signal_handler: rm_pidfile, then exit.
Handler(p) ==
    /\ pc[p] = "handler"
    /\ RmPidfile(p)
    /\ Goto(p, "exit")
    /\ UNCHANGED <<cmd, tries, olPid, faults>>

\* cleanUp, called by exit and by the return from main.
CleanUp(p) ==
    /\ pc[p] = "exit"
    /\ RmPidfile(p)
    /\ Goto(p, "done")
    /\ UNCHANGED <<cmd, tries, olPid, faults>>

-----------------------------------------------------------------------------
(* The outside: signals, crashes, the user.                                *)

Signal(q) ==
    /\ faults < MaxFaults
    /\ AfterSignal(q) # pc[q]
    /\ faults' = faults + 1
    /\ Goto(q, AfterSignal(q))
    /\ UNCHANGED <<pidFile, creator, cmd, tries, olPid, robbed>>

Crash(q) ==
    /\ faults < MaxFaults
    /\ pc[q] \notin {"idle"} \cup Ended
    /\ faults' = faults + 1
    /\ Goto(q, "killed")
    /\ UNCHANGED <<pidFile, creator, cmd, tries, olPid, robbed>>

\* The message of make_pidfile asks the user to delete a stale file.
UserDeletesStale ==
    /\ pidFile # NoFile /\ pc[creator] = "killed"
    /\ pidFile' = NoFile /\ creator' = NoFile
    /\ UNCHANGED <<pc, cmd, tries, olPid, robbed, faults>>

-----------------------------------------------------------------------------
\* What a process does by itself once it has been started.
Step(p) ==
    \/ Create(p) \/ CreateExists(p) \/ CreateFails(p) \/ WritePid(p)
    \/ ReadInfo(p) \/ Kill(p) \/ Sleep(p)
    \/ InstallHandlers(p) \/ ScanEnds(p) \/ Remove(p) \/ Handler(p)
    \/ CleanUp(p)

Next ==
    \/ \E p \in Proc : Start(p) \/ Step(p) \/ Signal(p) \/ Crash(p)
    \/ UserDeletesStale

Spec == Init /\ [][Next]_vars

\* The operating system runs every started process; a scan ends because the
\* recording does.
FairSpec == Spec /\ \A p \in Proc : WF_vars(Step(p))

-----------------------------------------------------------------------------
(* Properties.                                                             *)

\* The variables have the values main.cpp and tools.cpp give them.
TypeOK ==
    /\ pidFile \in Proc \cup {NoFile, NoPid}
    /\ creator \in Proc \cup {NoFile}
    /\ pc \in [Proc -> Labels]
    /\ cmd \in [Proc -> Commands]
    /\ tries \in [Proc -> 0..4]
    /\ olPid \in [Proc -> Proc \cup {NoPid, Stray}]
    /\ robbed \subseteq Proc
    /\ faults \in 0..MaxFaults

\* p has come through the pidfile loop and has not begun to remove the file.
Holding(p) ==
    /\ pc[p] \in {"write", "setup", "scan", "remove"}
    /\ cmd[p] # "nopid"

\* While an instance holds the recording, noad.pid is the file it created and
\* names it (or nobody yet), unless another instance has unlinked it.
OwnFile ==
    \A p \in Proc :
        Holding(p) => \/ p \in robbed
                      \/ creator = p /\ pidFile \in {p, NoPid}

\* Two instances hold one recording at the same time only when one of them
\* has lost its noad.pid to the unlink of a third: open(O_EXCL) by itself
\* excludes, whatever signals, crashes and failed writes happen.
Exclusion ==
    \A p, q \in Proc :
        Holding(p) /\ Holding(q) /\ p # q => p \in robbed \/ q \in robbed

\* An instance that ends by itself or in signal_handler leaves no noad.pid of
\* its own behind: only one that is killed without a handler does.
NoStaleFile == \A p \in Proc : pc[p] = "done" => creator # p

\* A call that meets the pidfile loop comes out of it: it scans or it ends,
\* whatever the other instances do and even when noad.pid is stale.
Settles ==
    \A p \in Proc : pc[p] = "make" ~> pc[p] \in {"scan"} \cup Ended

=============================================================================
