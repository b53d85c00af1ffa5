-------------------------------- MODULE Svdrp --------------------------------
(***************************************************************************)
(* The messages that a scan shows on VDR's screen at its start and at its  *)
(* end (src/svdrpc.cpp): VDRMessage opens a connection, reads a greeting,  *)
(* sends the command, reads the reply, sends Quit, reads the reply, closes.*)
(*                                                                         *)
(* A line is two pieces on the wire, its text and its end, so that half of *)
(* it may be read or written.  select looks at no descriptor of the        *)
(* connection and waits out its millisecond whatever VDR does; what has    *)
(* not come when noad reads is an error to ReadReply.  VDR and the network *)
(* may do anything in between.                                             *)
(***************************************************************************)
EXTENDS Naturals, Sequences, FiniteSets, SequencesExt

CONSTANTS
    Fd,          \* the descriptors the system hands out
    NoFd,        \* -1
    Messages,    \* messages sent, one after the other: a scan sends two
    Rounds,      \* replies ReadCompleteReply looks for (100 in the code)
    Failing      \* the calls that may fail: "socket", "fcntl", "write", "cut"

ASSUME SvdrpAssumption ==
    /\ NoFd \notin Fd
    /\ Messages \in 0..2 /\ Rounds \in Nat \ {0}
    /\ Failing \subseteq {"socket", "fcntl", "write", "cut"}

VARIABLES
    pc,                \* the next call in VDRMessage, or in a call it makes
    sent,              \* messages begun so far
    sock,              \* cSocket.sock
    filedes,           \* cSVDRPC.filedes
    outstandingReply,
    begun,             \* ReadReply has read a part of a line
    rounds,            \* the counter i of ReadCompleteReply
    open,              \* the sockets this process has not closed
    peer,              \* VDR's side of the connection
    wire,              \* pieces of replies on the way to noad
    inbox,             \* pieces of replies that noad can read
    command,           \* pieces of commands that VDR has not answered
    shown              \* history: what VDR has put on the screen

noad == <<pc, sent, sock, filedes, outstandingReply, begun, rounds, open>>
vdr == <<peer, wire, inbox, command, shown>>
vars == <<pc, sent, sock, filedes, outstandingReply, begun, rounds, open,
          peer, wire, inbox, command, shown>>

\* Every reading of a line, and the place behind it.  The first of each pair is
\* the ReadReply of Open or CmdQuit, or the loop of ReadCompleteReply itself.
Loop == [loop1 |-> [read |-> "read1", next |-> "send"],
         loop2 |-> [read |-> "read2", next |-> "quit"],
         loop3 |-> [read |-> "read3", next |-> "delete"]]
Loops == DOMAIN Loop
Reads == {"greet", "bye"} \cup {Loop[l].read : l \in Loops}
Peers == {"none", "connecting", "queued", "serving", "closed", "reset"}

Whole(text) == <<text, "end">>
\* The command of noadStartMessage, then that of noadEndMessage.
Texts == {"start", "done", "Quit"}
Text == IF sent = 1 THEN "start" ELSE "done"

Init ==
    /\ pc = "idle" /\ sent = 0
    /\ sock = NoFd /\ filedes = NoFd /\ outstandingReply = 0
    /\ begun = FALSE /\ rounds = 0 /\ open = {}
    /\ peer = "none" /\ wire = <<>> /\ inbox = <<>>
    /\ command = <<>> /\ shown = {}

(***************************************************************************)
(* Opening a connection                                                    *)
(***************************************************************************)
\* The scan calls for a message.  VDR has done with the connection of the last
\* one, or it is lost: a scan takes minutes.
VDRMessage ==
    /\ pc = "idle" /\ sent < Messages
    /\ pc' = "open" /\ sent' = sent + 1
    /\ peer' = "none" /\ wire' = <<>> /\ inbox' = <<>> /\ command' = <<>>
    /\ UNCHANGED <<sock, filedes, outstandingReply, begun, rounds, open, shown>>

\* cSocket::Open: it forgets the descriptor it has and asks for another.
SocketOpen(ok) ==
    \/ /\ ~ok /\ "socket" \in Failing
       /\ sock' = NoFd /\ UNCHANGED open
    \/ /\ ok \/ "fcntl" \in Failing
       /\ \E fd \in Fd \ open : /\ sock' = fd /\ open' = open \cup {fd}
                                /\ \A lower \in Fd \ open : fd <= lower

\* What cSVDRPC::Open does when it has its descriptor, or has none.
Greeting(fd) ==
    /\ filedes' = fd /\ outstandingReply' = 1
    /\ pc' = "greet" /\ begun' = FALSE

Open ==
    /\ pc = "open"
    /\ \/ /\ SocketOpen(TRUE) /\ pc' = "connect"
          /\ UNCHANGED <<filedes, outstandingReply, begun>>
       \/ /\ SocketOpen(FALSE) /\ Greeting(NoFd)
    /\ UNCHANGED <<sent, rounds, vdr>>

\* cSocket::Connect opens the socket once more.  A connection that is refused,
\* or made, at once is none.
Connect ==
    /\ pc = "connect"
    /\ \/ /\ SocketOpen(TRUE) /\ Greeting(sock') /\ peer' = "connecting"
       \/ /\ \E ok \in BOOLEAN : SocketOpen(ok)
          /\ Greeting(NoFd) /\ UNCHANGED peer
    /\ UNCHANGED <<sent, rounds, wire, inbox, command, shown>>

(***************************************************************************)
(* Reading                                                                 *)
(***************************************************************************)
Enter(l) == pc' = l /\ rounds' = 0

\* ReadReply returns r to its caller.
Return(r) ==
    \/ /\ pc = "greet" /\ Enter("loop1")
    \/ /\ pc = "bye" /\ Enter("loop3")
    \/ \E l \in Loops :
          /\ pc = Loop[l].read
          /\ IF r THEN pc' = l /\ rounds' = rounds + 1
                  ELSE pc' = Loop[l].next /\ UNCHANGED rounds

ReadCompleteReply ==
    /\ pc \in Loops
    /\ IF rounds < Rounds /\ outstandingReply > 0
         THEN pc' = Loop[pc].read /\ begun' = FALSE
         ELSE pc' = Loop[pc].next /\ UNCHANGED begun
    /\ UNCHANGED <<sent, sock, filedes, outstandingReply, rounds, open, vdr>>

\* There is no descriptor to read from.
ReadUnconnected ==
    /\ pc \in Reads /\ filedes = NoFd
    /\ Return(FALSE)
    /\ UNCHANGED <<sent, sock, filedes, outstandingReply, begun, open, vdr>>

ReadPiece ==
    /\ pc \in Reads /\ filedes # NoFd /\ inbox # <<>>
    /\ inbox' = Tail(inbox)
    /\ IF Head(inbox) = "end"
         THEN /\ outstandingReply' =
                    IF outstandingReply > 0 THEN outstandingReply - 1 ELSE 0
              /\ Return(TRUE) /\ UNCHANGED begun
         ELSE begun' = TRUE /\ UNCHANGED <<pc, rounds, outstandingReply>>
    /\ UNCHANGED <<sent, sock, filedes, open, peer, wire, command, shown>>

AtEnd == inbox = <<>> /\ wire = <<>> /\ peer = "closed"

\* Mutant of ReadNothing: it tells the caller, but keeps the descriptor.
ReadNothingKeeps ==
    /\ pc \in Reads /\ filedes # NoFd /\ inbox = <<>> /\ ~AtEnd
    /\ Return(begun)
    /\ UNCHANGED <<sent, sock, filedes, outstandingReply, begun, open, vdr>>

\* Mutant of ReadNothing: it tries again until something comes.
ReadNothingRetries ==
    /\ pc \in Reads /\ filedes # NoFd /\ inbox = <<>> /\ ~AtEnd
    /\ UNCHANGED vars

\* EAGAIN, or the connection is refused: the descriptor is forgotten, not
\* closed; cSocket still has it.
ReadNothing ==
    /\ pc \in Reads /\ filedes # NoFd /\ inbox = <<>> /\ ~AtEnd
    /\ filedes' = NoFd /\ Return(begun)
    /\ UNCHANGED <<sent, sock, outstandingReply, begun, open, vdr>>

\* read returns 0, ten thousand times.
ReadEnd ==
    /\ pc \in Reads /\ filedes # NoFd /\ AtEnd
    /\ Return(begun)
    /\ UNCHANGED <<sent, sock, filedes, outstandingReply, begun, open, vdr>>

(***************************************************************************)
(* Writing and closing                                                     *)
(***************************************************************************)
\* cSVDRPC::Close closes the descriptor, and cSocket::Close what it has.
Close ==
    /\ open' = open \ {filedes, sock}
    /\ sock' = NoFd /\ filedes' = NoFd

Reachable == peer \in {"queued", "serving"}

\* Mutant of Written: the reply to the command is not counted.
WrittenUncounted(text) ==
    /\ \/ /\ Reachable /\ command' = command \o Whole(text)
       \/ /\ Reachable /\ "cut" \in Failing
          /\ command' = Append(command, text)
       \/ /\ peer = "closed" /\ UNCHANGED command
    /\ UNCHANGED <<open, sock, filedes, outstandingReply>>

\* The ways a write of a line may end.  A line that VDR does not take any more
\* is lost without a word, or noad is killed by SIGPIPE.
Written(text) ==
    /\ outstandingReply' = outstandingReply + 1
    /\ \/ /\ Reachable /\ command' = command \o Whole(text)
       \/ /\ Reachable /\ "cut" \in Failing
          /\ command' = Append(command, text)
       \/ /\ peer = "closed" /\ UNCHANGED command
    /\ UNCHANGED <<open, sock, filedes>>

NotWritten ==
    /\ Reachable => "write" \in Failing
    /\ peer # "closed"
    /\ Close /\ outstandingReply' = 1 /\ UNCHANGED command

Send(text) ==
    \/ /\ filedes = NoFd
       /\ UNCHANGED <<open, sock, filedes, outstandingReply, command>>
    \/ filedes # NoFd /\ (Written(text) \/ NotWritten)

SendMessage ==
    /\ pc = "send" /\ Send(Text) /\ Enter("loop2")
    /\ UNCHANGED <<sent, begun, peer, wire, inbox, shown>>

CmdQuit ==
    /\ pc = "quit" /\ Send("Quit") /\ pc' = "bye" /\ begun' = FALSE
    /\ UNCHANGED <<sent, rounds, peer, wire, inbox, shown>>

Killed ==
    /\ pc \in {"send", "quit"} /\ filedes # NoFd /\ peer = "closed"
    /\ pc' = "killed" /\ open' = {}
    /\ UNCHANGED <<sent, sock, filedes, outstandingReply, begun, rounds, vdr>>

Delete ==
    /\ pc = "delete" /\ Close /\ pc' = "idle"
    /\ UNCHANGED <<sent, outstandingReply, begun, rounds, vdr>>

(***************************************************************************)
(* VDR and the network                                                     *)
(***************************************************************************)
\* The system of VDR's host answers before VDR does, or nobody listens there.
Established ==
    /\ peer = "connecting" /\ peer' \in {"queued", "reset"}
    /\ UNCHANGED <<noad, wire, inbox, command, shown>>

Serve ==
    /\ peer = "queued" /\ peer' = "serving"
    /\ wire' = wire \o Whole("text")
    /\ UNCHANGED <<noad, inbox, command, shown>>

\* VDR takes a line, whatever it is made of, and answers with one.
Answer ==
    /\ peer = "serving" /\ Contains(command, "end")
    /\ LET n == CHOOSE k \in DOMAIN command :
                  /\ command[k] = "end"
                  /\ \A m \in 1..(k - 1) : command[m] # "end"
           texts == SubSeq(command, 1, n - 1)
       IN  /\ command' = SubSeq(command, n + 1, Len(command))
           /\ IF texts = <<"Quit">>
                THEN peer' = "closed" /\ UNCHANGED shown
                ELSE shown' = shown \cup {texts} /\ UNCHANGED peer
    /\ wire' = wire \o Whole("text")
    /\ UNCHANGED <<noad, inbox>>

Deliver ==
    /\ wire # <<>>
    /\ inbox' = Append(inbox, Head(wire)) /\ wire' = Tail(wire)
    /\ UNCHANGED <<noad, peer, command, shown>>

\* VDR ends, or has waited long enough for a command.
HangUp ==
    /\ peer = "serving" /\ peer' = "closed"
    /\ UNCHANGED <<noad, wire, inbox, command, shown>>

NoadStep ==
    \/ VDRMessage \/ Open \/ Connect
    \/ ReadCompleteReply \/ ReadUnconnected \/ ReadPiece \/ ReadNothing \/ ReadEnd
    \/ SendMessage \/ CmdQuit \/ Killed \/ Delete
VDRStep == Established \/ Serve \/ Answer \/ Deliver \/ HangUp

Next == NoadStep \/ VDRStep

Spec == Init /\ [][Next]_vars

\* Only noad's own thread has to go on; VDR and the network need not.
FairSpec == Spec /\ WF_vars(NoadStep)

(***************************************************************************)
(* Properties                                                              *)
(***************************************************************************)
Ends(pieces) == Cardinality({k \in DOMAIN pieces : pieces[k] = "end"})

\* The lines noad has not read that VDR has sent or will send.
Owed == Ends(wire) + Ends(inbox) + Ends(command)
           + IF peer \in {"connecting", "queued"} THEN 1 ELSE 0

\* noad never sends a command while VDR still owes it the end of the greeting
\* or the reply to the command before, so that no reply is ever taken for
\* that of another command (Open, Send, ReadReply, ReadCompleteReply).
SpeaksInTurn ==
    pc \in {"send", "quit"} /\ filedes # NoFd /\ peer # "closed" => Owed = 0

\* As long as the connection is used, outstandingReply never falls behind what
\* VDR has still to say; the two differ by the commands that were cut short.
CountsReplies ==
    filedes # NoFd /\ pc # "connect" /\ peer \in {"connecting", "queued", "serving"}
        => Owed <= outstandingReply

\* A message never holds the scan up, even if VDR does not answer at all.
Returns == pc # "idle" ~> pc \in {"idle", "killed"}

=============================================================================
