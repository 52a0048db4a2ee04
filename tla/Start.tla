------------------------------- MODULE Start --------------------------------
(***************************************************************************)
(* How receivers come to listen on one socket name, and how senders find   *)
(* them: `netevent create --listen=NAME`, with or without --connect        *)
(* --daemonize, from src/main.cpp, over the class Socket of src/socket.cpp *)
(* (`netevent daemon NAME` takes its name in the same way as a receiver    *)
(* without --connect).                                                     *)
(*                                                                         *)
(* A starter with --connect is two processes: one that copies its standard *)
(* input to a receiver, and the receiver it forks off if the name refuses  *)
(* connections.  Whatever comes between two system calls may be mixed with *)
(* the calls of any other starter.                                         *)
(*                                                                         *)
(* Abstractions: a stream is whole, its packets are the subject of         *)
(* Create.tla; a socket file is the receiver that bound it, alive or not;  *)
(* the backlog has room; fork, pipe and daemon do not fail.                *)
(***************************************************************************)
EXTENDS Naturals, Sequences, FiniteSets

CONSTANTS
    Starters,   \* invocations of `netevent create --listen`
    None        \* no file, no client

ASSUME StartAssumption == None \notin Starters

VARIABLES
    abstract,    \* whether the name is an abstract one ("@...")
    optConnect,  \* starter -> --connect --daemonize, or neither
    optOnClose,  \* --on-close
    sender,      \* starter -> its process in the foreground
    receiver,    \* starter -> the process that is to listen
    serversock,  \* starter -> its listening socket
    path,        \* what the name refers to
    backlog,     \* starter -> senders connected to its socket, not accepted
    infd,        \* starter -> the sender its receiver reads
    target,      \* starter -> the receiver its sender writes to
    overlap,     \* history: a receiver was started while another one was, or
                 \* without --connect while another one had the name
    killed       \* history: receivers that were killed

options   == <<abstract, optConnect, optOnClose>>
sockets   == <<serversock, path, backlog>>
histories == <<overlap, killed>>
vars == <<options, sender, receiver, sockets, infd, target, histories>>

StartOrderDaemonFirst == <<"unlink", "bind", "daemonize", "listen">>
StartOrder == <<"unlink", "bind", "listen", "daemonize">>
Starting == {"unlink", "bind", "listen", "daemonize"}
After(step) ==
    LET i == CHOOSE i \in DOMAIN StartOrder : StartOrder[i] = step
    IN  IF i = Len(StartOrder) THEN "first" ELSE StartOrder[i + 1]

TypeOK ==
    /\ abstract \in BOOLEAN /\ optConnect \in [Starters -> BOOLEAN]
    /\ optOnClose \in {"end", "accept"}
    /\ sender \in [Starters -> {"off", "waits", "copies", "no socket", "broken pipe", "done"}]
    /\ receiver \in [Starters -> Starting \cup
                        {"off", "first", "reads", "accepts", "failed", "ended", "killed"}]
    /\ serversock \in [Starters -> {"closed", "bound", "listening"}]
    /\ path \in Starters \cup {None}
    /\ backlog \in [Starters -> Seq(Starters)]
    /\ infd \in [Starters -> Starters \cup {None}]
    /\ target \in [Starters -> Starters \cup {None}]
    /\ overlap \in BOOLEAN /\ killed \subseteq Starters
    /\ \A s \in Starters : receiver[s] = "reads" <=> infd[s] # None

Init ==
    /\ abstract \in BOOLEAN /\ optConnect \in [Starters -> BOOLEAN]
    /\ optOnClose \in {"end", "accept"}
    /\ sender = [s \in Starters |-> "off"] /\ receiver = [s \in Starters |-> "off"]
    /\ serversock = [s \in Starters |-> "closed"] /\ path = None
    /\ backlog = [s \in Starters |-> <<>>] /\ infd = [s \in Starters |-> None]
    /\ target = [s \in Starters |-> None]
    /\ overlap = FALSE /\ killed = {}

-----------------------------------------------------------------------------
(* Socket::close.  Only the one that bound the name removes it (unlink_),  *)
(* whoever owns it by then; an abstract name goes with its socket.         *)

PathLeft(s, unlink) == path
PathRemoved(s, unlink) == IF abstract THEN path ELSE None
PathAfterClose(s, unlink) ==
    IF unlink /\ (path = s \/ ~abstract) THEN None ELSE path

close(s) ==
    /\ serversock' = [serversock EXCEPT ![s] = "closed"]
    /\ path' = IF serversock[s] = "closed" THEN path ELSE PathAfterClose(s, TRUE)
    /\ backlog' = [backlog EXCEPT ![s] = <<>>]

Listening(s) == s # None /\ serversock[s] = "listening"
Refusing     == IF path = None THEN abstract ELSE ~Listening(path)

(* The next call of the receiver of s is its first.                        *)
startReceiver(s) ==
    /\ receiver' = [receiver EXCEPT ![s] = "unlink"]
    /\ overlap' = (overlap \/ \E r \in Starters :
                      \/ receiver[r] \in Starting
                      \/ ~optConnect[s] /\ serversock[r] # "closed")
    /\ UNCHANGED <<options, sockets, infd, target, killed>>

-----------------------------------------------------------------------------
(* cmd_create with --connect: connectUnix and what follows.                *)

connect(s) ==
    /\ optConnect[s] /\ sender[s] = "off" /\ Listening(path)
    /\ sender' = [sender EXCEPT ![s] = "copies"]
    /\ target' = [target EXCEPT ![s] = path]
    /\ backlog' = [backlog EXCEPT ![path] = Append(@, s)]
    /\ UNCHANGED <<options, receiver, serversock, path, infd, histories>>

(* ECONNREFUSED: fork, and wait for the child to become a daemon.          *)
connectRefused(s) ==
    /\ optConnect[s] /\ sender[s] = "off" /\ Refusing
    /\ sender' = [sender EXCEPT ![s] = "waits"]
    /\ startReceiver(s)

(* ENOENT is thrown.                                                       *)
connectFails(s) ==
    /\ optConnect[s] /\ sender[s] = "off" /\ ~abstract /\ path = None
    /\ sender' = [sender EXCEPT ![s] = "no socket"]
    /\ UNCHANGED <<options, receiver, sockets, infd, target, histories>>

(* Without --connect the process is the receiver itself.                   *)
listen(s) ==
    /\ ~optConnect[s] /\ receiver[s] = "off"
    /\ startReceiver(s)
    /\ UNCHANGED sender

(* waitpid returns when the child has ended or daemon() has left it.       *)
ToDaemonize ==
    {StartOrder[i] : i \in {i \in DOMAIN StartOrder :
                              \A j \in 1..(i - 1) : StartOrder[j] # "daemonize"}}

waitReturns(s) ==
    /\ sender[s] = "waits" /\ receiver[s] \notin ToDaemonize
    /\ sender' = [sender EXCEPT ![s] = "copies"]
    /\ target' = [target EXCEPT ![s] = s]
    /\ UNCHANGED <<options, receiver, sockets, infd, histories>>

(* cat: to the end of the input, when its Socket is destroyed, or until    *)
(* nobody reads any more.                                                  *)
Reads(r, s) == infd[r] = s \/ \E i \in DOMAIN backlog[r] : backlog[r][i] = s

done(s) ==
    /\ sender[s] = "copies"
    /\ sender' = [sender EXCEPT ![s] = "done"]
    /\ path' = PathAfterClose(s, FALSE)
    /\ UNCHANGED <<options, receiver, serversock, backlog, infd, target, histories>>

brokenPipe(s) ==
    /\ sender[s] = "copies" /\ ~Reads(target[s], s) /\ receiver[target[s]] # "first"
    /\ sender' = [sender EXCEPT ![s] = "broken pipe"]
    /\ UNCHANGED <<options, receiver, sockets, infd, target, histories>>

-----------------------------------------------------------------------------
(* The receiver: Socket::bindUnix, Socket::listen, doDaemonize.            *)

step(s, from) ==
    /\ receiver[s] = from
    /\ receiver' = [receiver EXCEPT ![s] = After(from)]
    /\ UNCHANGED <<options, sender, infd, target, histories>>

UnlinkSkipped(s) == path
Unlinked(s) == IF abstract THEN path ELSE None

unlinkPath(s) ==
    /\ step(s, "unlink")
    /\ path' = Unlinked(s)
    /\ UNCHANGED <<serversock, backlog>>

bind(s) ==
    /\ step(s, "bind")
    /\ path = None
    /\ path' = s
    /\ serversock' = [serversock EXCEPT ![s] = "bound"]
    /\ UNCHANGED backlog

(* EADDRINUSE: the process ends, its Socket knows no path to remove.       *)
bindFails(s) ==
    /\ receiver[s] = "bind" /\ path # None
    /\ receiver' = [receiver EXCEPT ![s] = "failed"]
    /\ UNCHANGED <<options, sender, sockets, infd, target, histories>>

listenSocket(s) ==
    /\ step(s, "listen")
    /\ serversock' = [serversock EXCEPT ![s] = "listening"]
    /\ UNCHANGED <<path, backlog>>

daemonize(s) ==
    /\ step(s, "daemonize")
    /\ UNCHANGED sockets

(* The first client: the pipe from the process that forked, or else the    *)
(* first to be accepted.  With --on-close=end there will be no other.      *)
FirstNotKept(s) ==
    IF optConnect[s] THEN {None} ELSE IF backlog[s] = <<>> THEN {} ELSE {Head(backlog[s])}
FirstAccepted(s) == IF backlog[s] = <<>> THEN {} ELSE {Head(backlog[s])}
FirstClient(s) == IF optConnect[s] THEN {s} ELSE FirstAccepted(s)

acceptFirst(s) ==
    /\ receiver[s] = "first"
    /\ \E c \in FirstClient(s) :
        /\ infd' = [infd EXCEPT ![s] = c]
        /\ receiver' = [receiver EXCEPT ![s] = "reads"]
        /\ IF optOnClose = "end" THEN close(s)
           ELSE /\ backlog' = [backlog EXCEPT ![s] = IF optConnect[s] THEN @ ELSE Tail(@)]
                /\ UNCHANGED <<serversock, path>>
    /\ UNCHANGED <<options, sender, target, histories>>

endOfFile(s) ==
    /\ receiver[s] = "reads" /\ sender[infd[s]] \notin {"waits", "copies"}
    /\ infd' = [infd EXCEPT ![s] = None]
    /\ receiver' = [receiver EXCEPT
           ![s] = IF serversock[s] = "closed" THEN "ended" ELSE "accepts"]
    /\ UNCHANGED <<options, sender, sockets, target, histories>>

acceptNext(s) ==
    /\ receiver[s] = "accepts" /\ backlog[s] # <<>>
    /\ infd' = [infd EXCEPT ![s] = Head(backlog[s])]
    /\ backlog' = [backlog EXCEPT ![s] = Tail(@)]
    /\ receiver' = [receiver EXCEPT ![s] = "reads"]
    /\ UNCHANGED <<options, sender, serversock, path, target, histories>>

(* An exception over what the sender wrote: main catches it, the Socket is *)
(* destroyed.                                                              *)
fail(s) ==
    /\ receiver[s] = "reads" /\ sender[infd[s]] # "waits"
    /\ receiver' = [receiver EXCEPT ![s] = "ended"]
    /\ infd' = [infd EXCEPT ![s] = None]
    /\ close(s)
    /\ UNCHANGED <<options, sender, target, histories>>

(* A signal, which no handler catches: nothing is removed but an abstract  *)
(* name.                                                                   *)
kill(s) ==
    /\ receiver[s] \in Starting \cup {"first", "reads", "accepts"}
    /\ receiver' = [receiver EXCEPT ![s] = "killed"]
    /\ infd' = [infd EXCEPT ![s] = None]
    /\ serversock' = [serversock EXCEPT ![s] = "closed"]
    /\ path' = IF abstract /\ path = s THEN None ELSE path
    /\ backlog' = [backlog EXCEPT ![s] = <<>>]
    /\ killed' = killed \cup {s}
    /\ UNCHANGED <<options, sender, target, overlap>>

-----------------------------------------------------------------------------
Proceed(s) ==
    \/ waitReturns(s) \/ brokenPipe(s)
    \/ unlinkPath(s) \/ bind(s) \/ bindFails(s) \/ listenSocket(s) \/ daemonize(s)
    \/ acceptFirst(s) \/ endOfFile(s) \/ acceptNext(s)

Next == \E s \in Starters :
    \/ connect(s) \/ connectRefused(s) \/ connectFails(s) \/ listen(s)
    \/ Proceed(s) \/ done(s) \/ fail(s) \/ kill(s)

Spec == Init /\ [][Next]_vars

(* The kernel runs every process; nobody need start one, and a sender's    *)
(* input need not end.                                                     *)
FairSpec == Spec /\ \A s \in Starters : WF_vars(Proceed(s))

-----------------------------------------------------------------------------
(* A receiver that listens can be reached by its name, unless starters got *)
(* in each other's way: what connects, reads or ends never takes the name  *)
(* from it (Socket::close, ChangeLog.md 2.2.3).  An abstract name is never *)
(* taken.                                                                  *)
Reachable ==
    ~overlap \/ abstract => \A s \in Starters : Listening(s) => path = s

(* The bind of a receiver fails only if starters got in each other's way:  *)
(* what a killed one left behind is no obstacle (Socket::bindUnix).        *)
FailedByRivals == ~overlap => \A s \in Starters : receiver[s] # "failed"

(* No socket file outlives its socket: at every moment the name refers to  *)
(* a receiver whose socket is open, or else it is a file whose receiver a  *)
(* signal ended, also where starters unlink and bind over one another and  *)
(* the last to close removes a file that is not its own (Socket::close,    *)
(* Socket::~Socket; that it may is what Reachable excepts with overlap).   *)
LeftClean ==
    path # None => \/ serversock[path] # "closed"
                   \/ ~abstract /\ path \in killed

(* A sender whose receiver had to be started goes on only when that        *)
(* listens or its start has failed, so that the next one finds it          *)
(* (waitpid, listenUnix before doDaemonize in cmd_create).                 *)
ReadyBeforeCopy ==
    \A s \in Starters : sender[s] = "copies" /\ receiver[s] \in Starting \cup {"first"}
        => serversock[s] = "listening"

(* A sender that was refused is read by the receiver it starts, before     *)
(* anybody else, unless that one's start fails or it is killed.            *)
RefusedServed ==
    \A s \in Starters :
        sender[s] = "waits" ~> (infd[s] = s \/ receiver[s] \in {"failed", "killed"})
=============================================================================
