------------------------------ MODULE Commands ------------------------------
(***************************************************************************)
(* The way of a command line through `netevent daemon`: from the client    *)
(* that writes it (`netevent command`, or a person with socat), over the   *)
(* socket and the stdio buffer of the connection, the queue, the child     *)
(* processes of exec, to the answers; with the signals that interrupt the  *)
(* daemon on the way.  src/daemon.cpp, and cmd_command in src/main.cpp.    *)
(*                                                                         *)
(* Daemon.tla has the same loop with its devices and outputs and takes     *)
(* lines as they come out of getline; this module is about what happens    *)
(* before and around that.  The kernel's part (sockets, wait, delivery of  *)
(* signals) is modelled from how the code uses it: a handler installed     *)
(* with signal() restarts read, write and waitpid but not poll; a pending  *)
(* signal is handled before the next system call.                          *)
(***************************************************************************)
EXTENDS Integers, SequencesExt, Filters

CONSTANTS
    Clients,
    Sessions,   \* clients that are no `netevent command`: they write what and
                \* when they like and may hang up
    Stream,     \* client -> what it writes: lines, and NL where a newline is
    Pids,       \* bound: child processes at one time; fork fails beyond
    ReplyRoom,  \* bound: answers a socket holds unread; write blocks beyond
    Signals     \* whether a SIGTERM may arrive

Commands == {"use", "bad", "exec", "exec&", "quit"}
Server   == "server socket"
NoPid    == "no child"
NL       == <<>>                 \* the newline; a line is a sequence of commands

ASSUME CommandsAssumption ==
    /\ Server \notin Clients /\ NoPid \notin Pids /\ Sessions \subseteq Clients
    /\ ReplyRoom \in Nat \ {0} /\ Signals \in BOOLEAN
    /\ Stream \in [Clients -> Seq(Seq(Commands))]
    \* two lines with no newline between them would be one
    /\ \A c \in Clients : \A i \in 1..(Len(Stream[c]) - 1) :
          Stream[c][i] = NL \/ Stream[c][i + 1] = NL
    \* cmd_command sends its arguments joined by blanks and no newline
    /\ \A c \in Clients \ Sessions : Len(Stream[c]) = 1 /\ Stream[c][1] # NL

VARIABLES
    pc,              \* where the daemon is
    gQuit,
    gCommandQueue,   \* the head shrinks as its commands are executed
    result,          \* the answer to be written
    waited,          \* the child the loop in shellCommand waits for
    gFDAddQueue,
    gFDRemoveQueue,
    pfds,            \* in the order poll reports them
    revents,         \* what poll reported and is not yet dispatched
    backlog,         \* connections not yet accepted
    conn,            \* client -> the daemon's end of its connection
    file,            \* client -> what the FILE of the connection has buffered
    sock,            \* client -> written by it and not yet read
    reply,           \* client -> answers written and not yet read
    children,        \* pid -> "none", "waited for", "background" or "zombie"
    sigchld,         \* SIGCHLD is pending; a second one coalesces with it
    peer,            \* client -> its end of the connection
    sent,            \* client -> how much of its stream it has written
    got              \* client -> the answers it has read

daemonVars == <<pc, gQuit, gCommandQueue, result, waited>>
pollVars   == <<gFDAddQueue, pfds, revents>>
childVars  == <<children, sigchld>>
clientVars == <<peer, sent, got>>
vars == <<daemonVars, pollVars, childVars, clientVars, gFDRemoveQueue, backlog,
          conn, file, sock, reply>>

TypeOK ==
    /\ pc \in {"commands", "answer", "fork", "wait", "toPoll", "poll", "dispatch",
               "getline", "ending", "ended"}
    /\ gQuit \in BOOLEAN /\ sigchld \in BOOLEAN
    /\ gCommandQueue \in Seq([client : Clients, cmds : Seq(Commands) \ {NL}])
    /\ result \in {"Ok.", "ERROR"} /\ waited \in Pids \cup {NoPid}
    /\ gFDAddQueue \in Seq(Clients) /\ gFDRemoveQueue \subseteq Clients
    /\ pfds \in Seq(Clients \cup {Server})
    /\ revents \in Seq([fd : Clients \cup {Server}, flags : SUBSET {"IN", "HUP"}])
    /\ backlog \in Seq(Clients)
    /\ conn \in [Clients -> {"none", "backlog", "open", "closed"}]
    /\ file \in [Clients -> Seq(Seq(Commands))] /\ sock \in [Clients -> Seq(Seq(Commands))]
    /\ reply \in [Clients -> Seq({"Ok.", "ERROR"})]
    /\ got \in [Clients -> Seq({"Ok.", "ERROR"})]
    /\ children \in [Pids -> {"none", "waited for", "background", "zombie"}]
    /\ peer \in [Clients -> {"off", "open", "half", "end of file", "hung up"}]
    /\ sent \in [Clients -> Nat]

Init ==
    /\ pc = "commands" /\ gQuit = FALSE
    /\ gCommandQueue = <<>> /\ result = "Ok." /\ waited = NoPid
    /\ gFDAddQueue = <<>> /\ gFDRemoveQueue = {} /\ pfds = <<Server>> /\ revents = <<>>
    /\ backlog = <<>>
    /\ conn = [c \in Clients |-> "none"] /\ peer = [c \in Clients |-> "off"]
    /\ file = [c \in Clients |-> <<>>] /\ sock = [c \in Clients |-> <<>>]
    /\ reply = [c \in Clients |-> <<>>] /\ got = [c \in Clients |-> <<>>]
    /\ children = [p \in Pids |-> "none"] /\ sigchld = FALSE
    /\ sent = [c \in Clients |-> 0]

-----------------------------------------------------------------------------
(* processCommandQueue: one command of the line at the head of the queue.  *)

Current == Head(gCommandQueue)
Busy    == pc = "commands" /\ gCommandQueue # <<>>

RunCommand ==
    /\ Busy /\ Head(Current.cmds) \in {"use", "bad", "quit"}
    /\ gQuit' = (gQuit \/ Head(Current.cmds) = "quit")
    /\ result' = IF Head(Current.cmds) = "bad" THEN "ERROR" ELSE "Ok."
    /\ pc' = "answer"
    /\ UNCHANGED <<gCommandQueue, waited, pollVars, childVars, clientVars,
                   gFDRemoveQueue, backlog, conn, file, sock, reply>>

(* shellCommand: fork, and for a foreground command the wait for it.       *)
Fork(background) ==
    \E p \in Pids :
        /\ children[p] = "none"
        /\ children' = [children EXCEPT
               ![p] = IF background THEN "background" ELSE "waited for"]
        /\ IF background
           THEN pc' = "answer" /\ result' = "Ok." /\ UNCHANGED waited
           ELSE pc' = "fork" /\ waited' = p /\ UNCHANGED result

ForkFails ==
    /\ \A p \in Pids : children[p] # "none"
    /\ result' = "ERROR" /\ pc' = "answer"
    /\ UNCHANGED <<children, waited>>

ShellCommand ==
    /\ Busy /\ Head(Current.cmds) \in {"exec", "exec&"}
    /\ Fork(Head(Current.cmds) = "exec&") \/ ForkFails
    /\ UNCHANGED <<gQuit, gCommandQueue, pollVars, sigchld, clientVars,
                   gFDRemoveQueue, backlog, conn, file, sock, reply>>

(* The call of waitpid.  A signal that is pending is handled before.       *)
EnterWait ==
    /\ pc = "fork" /\ ~sigchld
    /\ pc' = "wait"
    /\ UNCHANGED <<gQuit, gCommandQueue, result, waited, pollVars, childVars, clientVars,
                   gFDRemoveQueue, backlog, conn, file, sock, reply>>

(* waitpid looks for the child first, and only then at signals.            *)
WaitReturnsForAny ==
    /\ pc = "wait"
    /\ \E p \in Pids : children[p] = "zombie" /\ children' = [children EXCEPT ![p] = "none"]
    /\ waited' = NoPid
    /\ result' = "Ok." /\ pc' = "answer"
    /\ UNCHANGED <<gQuit, gCommandQueue, pollVars, sigchld, clientVars,
                   gFDRemoveQueue, backlog, conn, file, sock, reply>>

WaitReturns ==
    /\ pc = "wait" /\ children[waited] = "zombie"
    /\ children' = [children EXCEPT ![waited] = "none"]
    /\ waited' = NoPid
    /\ result' = "Ok." /\ pc' = "answer"
    /\ UNCHANGED <<gQuit, gCommandQueue, pollVars, sigchld, clientVars,
                   gFDRemoveQueue, backlog, conn, file, sock, reply>>

(* EINTR, or ECHILD because there is no such child (any more): not the     *)
(* pid the loop waits for, so it calls again.                              *)
WaitAgain ==
    /\ pc = "wait" /\ children[waited] # "zombie"
    /\ sigchld \/ children[waited] # "waited for"
    /\ pc' = "fork"
    /\ UNCHANGED <<gQuit, gCommandQueue, result, waited, pollVars, childVars, clientVars,
                   gFDRemoveQueue, backlog, conn, file, sock, reply>>

(* toClient: write blocks while the client leaves its answers unread.      *)
ToClient(c) ==
    IF peer[c] \in {"end of file", "hung up"}
    THEN gFDRemoveQueue' = gFDRemoveQueue \cup {c} /\ UNCHANGED reply
    ELSE /\ Len(reply[c]) < ReplyRoom
         /\ reply' = [reply EXCEPT ![c] = Append(@, result)]
         /\ UNCHANGED gFDRemoveQueue

(* An error skips the rest of the line; a line without a rest is done.     *)
Rest == IF result = "ERROR" THEN <<>> ELSE Tail(Current.cmds)
RestOfQueueUnchecked == <<[client |-> Current.client, cmds |-> Rest]>> \o Tail(gCommandQueue)
RestOfQueue ==
    (IF Rest = <<>> THEN <<>> ELSE <<[client |-> Current.client, cmds |-> Rest]>>)
    \o Tail(gCommandQueue)

Answer ==
    /\ pc = "answer"
    /\ ToClient(Current.client)
    /\ gCommandQueue' = RestOfQueue
    /\ pc' = "commands"
    /\ UNCHANGED <<gQuit, result, waited, pollVars, childVars, clientVars,
                   backlog, conn, file, sock>>

-----------------------------------------------------------------------------
(* Between the queue and poll: descriptors added and removed, gQuit.       *)

AfterSweepUnchecked == "toPoll"
AfterSweep == IF gQuit THEN "ending" ELSE "toPoll"

Sweep ==
    /\ pc = "commands" /\ gCommandQueue = <<>>
    /\ pfds' = Filter(pfds \o gFDAddQueue, (Clients \cup {Server}) \ gFDRemoveQueue)
    /\ conn' = [c \in Clients |-> IF c \in gFDRemoveQueue THEN "closed" ELSE conn[c]]
    /\ file' = [c \in Clients |-> IF c \in gFDRemoveQueue THEN <<>> ELSE file[c]]
    /\ sock' = [c \in Clients |-> IF c \in gFDRemoveQueue THEN <<>> ELSE sock[c]]
    /\ gFDAddQueue' = <<>> /\ gFDRemoveQueue' = {}
    /\ pc' = AfterSweep
    /\ UNCHANGED <<gQuit, gCommandQueue, result, waited, revents, childVars, clientVars,
                   backlog, reply>>

EnterPoll ==
    /\ pc = "toPoll" /\ ~sigchld
    /\ pc' = "poll"
    /\ UNCHANGED <<gQuit, gCommandQueue, result, waited, pollVars, childVars, clientVars,
                   gFDRemoveQueue, backlog, conn, file, sock, reply>>

(* Data and the end of data are both POLLIN; POLLHUP needs both            *)
(* directions shut.                                                        *)
Reported(fd) ==
    IF fd = Server THEN IF backlog # <<>> THEN {"IN"} ELSE {}
    ELSE {f \in {"IN", "HUP"} :
            \/ f = "IN" /\ (sock[fd] # <<>> \/ peer[fd] # "open")
            \/ f = "HUP" /\ peer[fd] \in {"end of file", "hung up"}}

(* What poll reports of a descriptor that is ready.                        *)
Events == [fd : Clients \cup {Server}, flags : (SUBSET {"IN", "HUP"}) \ {{}}]

Ready == \E i \in DOMAIN pfds : Reported(pfds[i]) # {}

PollReturns ==
    /\ pc = "poll" /\ ~sigchld /\ Ready
    /\ revents' = Filter([i \in DOMAIN pfds |-> [fd |-> pfds[i], flags |-> Reported(pfds[i])]],
                         Events)
    /\ pc' = "dispatch"
    /\ UNCHANGED <<gQuit, gCommandQueue, result, waited, gFDAddQueue, pfds, childVars,
                   clientVars, gFDRemoveQueue, backlog, conn, file, sock, reply>>

Top == IF gQuit THEN "ending" ELSE "commands"

DispatchDone ==
    /\ pc = "dispatch" /\ (revents = <<>> \/ gQuit)
    /\ pc' = Top /\ revents' = <<>>
    /\ UNCHANGED <<gQuit, gCommandQueue, result, waited, gFDAddQueue, pfds, childVars,
                   clientVars, gFDRemoveQueue, backlog, conn, file, sock, reply>>

Dispatching(fd) == pc = "dispatch" /\ ~gQuit /\ revents # <<>> /\ Head(revents).fd = fd

NewCommandClient ==
    /\ Dispatching(Server)
    /\ conn' = [conn EXCEPT ![Head(backlog)] = "open"]
    /\ gFDAddQueue' = Append(gFDAddQueue, Head(backlog))
    /\ backlog' = Tail(backlog) /\ revents' = Tail(revents)
    /\ UNCHANGED <<daemonVars, pfds, childVars, clientVars, gFDRemoveQueue, file, sock, reply>>

(* readCommand: getline takes one line, up to a newline or the end of the  *)
(* data.  It reads the socket only when the FILE holds no whole line, and  *)
(* then everything there is; it blocks while there is neither newline nor  *)
(* end.                                                                    *)
AvailableAnew(c) == sock[c]
Available(c) == IF Contains(file[c], NL) THEN file[c] ELSE file[c] \o sock[c]
LineReady(c) == Contains(Available(c), NL) \/ peer[c] # "open"

(* The line getline returns, and what it takes for it; the last line needs *)
(* no newline.                                                             *)
LineTerminated(all) == IF Contains(all, NL) THEN all[1] ELSE <<>>
Line(all) == IF all = <<>> THEN <<>> ELSE all[1]
Taken(all) == IF all = <<>> THEN 0 ELSE IF all[1] = NL \/ Len(all) = 1 THEN 1 ELSE 2

(* disconnectClient, from readCommand at the end of the data and from      *)
(* onHUP.                                                                  *)
DisconnectedOnHUP(all, flags) == "HUP" \in flags
Disconnected(all, flags) == all = <<>> \/ "HUP" \in flags

GetlineBlocks(c) ==
    /\ Dispatching(c) /\ ~LineReady(c)
    /\ pc' = "getline"
    /\ UNCHANGED <<gQuit, gCommandQueue, result, waited, pollVars, childVars, clientVars,
                   gFDRemoveQueue, backlog, conn, file, sock, reply>>

ReadCommand(c) ==
    /\ Dispatching(c) \/ (pc = "getline" /\ Head(revents).fd = c)
    /\ LineReady(c)
    /\ LET all == Available(c)
       IN  /\ file' = [file EXCEPT ![c] = SubSeq(all, Taken(all) + 1, Len(all))]
           /\ sock' = [sock EXCEPT ![c] = IF Contains(file[c], NL) THEN @ ELSE <<>>]
           /\ gCommandQueue' = IF Line(all) = <<>> THEN gCommandQueue
                ELSE Append(gCommandQueue, [client |-> c, cmds |-> Line(all)])
           /\ gFDRemoveQueue' = IF Disconnected(all, Head(revents).flags)
                                THEN gFDRemoveQueue \cup {c} ELSE gFDRemoveQueue
    /\ revents' = Tail(revents)
    /\ pc' = "dispatch"
    /\ UNCHANGED <<gQuit, result, waited, gFDAddQueue, pfds, childVars, clientVars,
                   backlog, conn, reply>>

(* The end of the process closes everything.                               *)
End ==
    /\ pc = "ending"
    /\ pc' = "ended"
    /\ conn' = [c \in Clients |-> IF conn[c] = "none" THEN "none" ELSE "closed"]
    /\ UNCHANGED <<gQuit, gCommandQueue, result, waited, pollVars, childVars, clientVars,
                   gFDRemoveQueue, backlog, file, sock, reply>>

-----------------------------------------------------------------------------
(* Children and signals.                                                   *)

ChildExits(p) ==
    /\ children[p] \in {"waited for", "background"} /\ pc # "ended"
    /\ children' = [children EXCEPT ![p] = "zombie"]
    /\ sigchld' = TRUE
    /\ UNCHANGED <<daemonVars, pollVars, clientVars, gFDRemoveQueue, backlog, conn, file,
                   sock, reply>>

(* A handler interrupts poll, which starts the next round of the loop;     *)
(* waitpid is left through WaitAgain.                                      *)
Interrupted(quit) == pc' = IF pc = "poll" THEN (IF quit THEN "ending" ELSE "commands") ELSE pc

(* signull for SIGCHLD reaps whatever there is, the child of a foreground  *)
(* command too.                                                            *)
ReapedOnce ==
    LET zombies == {p \in Pids : children[p] = "zombie"}
    IN  IF zombies = {} THEN {} ELSE {CHOOSE p \in zombies : TRUE}
Reaped == {p \in Pids : children[p] = "zombie"}

HandleChild ==
    /\ sigchld /\ pc \notin {"wait", "ended"}
    /\ children' = [p \in Pids |-> IF p \in Reaped THEN "none" ELSE children[p]]
    /\ sigchld' = FALSE
    /\ Interrupted(gQuit)
    /\ UNCHANGED <<gQuit, gCommandQueue, result, waited, pollVars, clientVars,
                   gFDRemoveQueue, backlog, conn, file, sock, reply>>

Terminate ==
    /\ Signals /\ ~gQuit /\ pc \notin {"ending", "ended"}
    /\ gQuit' = TRUE
    /\ Interrupted(TRUE)
    /\ UNCHANGED <<gCommandQueue, result, waited, pollVars, childVars, clientVars,
                   gFDRemoveQueue, backlog, conn, file, sock, reply>>

-----------------------------------------------------------------------------
(* The clients: cmd_command, or whatever a person runs.                    *)

Connect(c) ==
    /\ peer[c] = "off" /\ pc # "ended"
    /\ peer' = [peer EXCEPT ![c] = "open"]
    /\ conn' = [conn EXCEPT ![c] = "backlog"]
    /\ backlog' = Append(backlog, c)
    /\ UNCHANGED <<daemonVars, pollVars, childVars, sent, got, gFDRemoveQueue, file, sock, reply>>

Write(c) ==
    /\ peer[c] = "open" /\ sent[c] < Len(Stream[c])
    /\ IF conn[c] = "closed"
       THEN peer' = [peer EXCEPT ![c] = "hung up"] /\ UNCHANGED <<sock, sent>>
       ELSE /\ sock' = [sock EXCEPT ![c] = Append(@, Stream[c][sent[c] + 1])]
            /\ sent' = [sent EXCEPT ![c] = @ + 1]
            /\ UNCHANGED peer
    /\ UNCHANGED <<daemonVars, pollVars, childVars, got, gFDRemoveQueue, backlog, conn,
                   file, reply>>

Shutdown(c) ==
    /\ peer[c] = "open" /\ sent[c] = Len(Stream[c])
    /\ peer' = [peer EXCEPT ![c] = "half"]
    /\ UNCHANGED <<daemonVars, pollVars, childVars, sent, got, gFDRemoveQueue, backlog,
                   conn, file, sock, reply>>

Read(c) ==
    /\ peer[c] = "half" \/ (peer[c] = "open" /\ c \in Sessions)
    /\ IF reply[c] # <<>>
       THEN /\ got' = [got EXCEPT ![c] = Append(@, Head(reply[c]))]
            /\ reply' = [reply EXCEPT ![c] = Tail(@)]
            /\ UNCHANGED peer
       ELSE /\ conn[c] = "closed"
            /\ peer' = [peer EXCEPT ![c] = "end of file"]
            /\ UNCHANGED <<got, reply>>
    /\ UNCHANGED <<daemonVars, pollVars, childVars, sent, gFDRemoveQueue, backlog, conn,
                   file, sock>>

HangUp(c) ==
    /\ c \in Sessions /\ peer[c] \in {"open", "half"}
    /\ peer' = [peer EXCEPT ![c] = "hung up"]
    /\ UNCHANGED <<daemonVars, pollVars, childVars, sent, got, gFDRemoveQueue, backlog,
                   conn, file, sock, reply>>

-----------------------------------------------------------------------------
DaemonStep ==
    \/ RunCommand \/ ShellCommand \/ EnterWait \/ WaitReturns \/ WaitAgain \/ Answer
    \/ Sweep \/ EnterPoll \/ PollReturns \/ DispatchDone \/ NewCommandClient \/ End
    \/ \E c \in Clients : GetlineBlocks(c) \/ ReadCommand(c)

ClientStep(c) == Write(c) \/ Shutdown(c) \/ Read(c)

Next ==
    \/ DaemonStep \/ HandleChild \/ Terminate
    \/ \E p \in Pids : ChildExits(p)
    \/ \E c \in Clients : Connect(c) \/ ClientStep(c) \/ HangUp(c)

Spec == Init /\ [][Next]_vars

(* The kernel schedules the daemon, delivers its signals and runs the      *)
(* processes; the programs exec starts come to an end; `netevent command`  *)
(* goes on.  Nothing is assumed of sessions, nor that anybody connects.    *)
FairSpec ==
    /\ Spec /\ WF_vars(DaemonStep) /\ WF_vars(HandleChild)
    /\ \A p \in Pids : WF_vars(ChildExits(p))
    /\ \A c \in Clients \ Sessions : WF_vars(ClientStep(c))

-----------------------------------------------------------------------------
(* What the daemon waits for without testing gQuit: a line of which only   *)
(* the beginning has come, a client that reads no answers, a child that    *)
(* has been reaped already.                                                *)
HeldUp ==
    \/ pc = "getline" /\ ~LineReady(Head(revents).fd)
    \/ /\ pc = "answer" /\ peer[Current.client] \in {"open", "half"}
       /\ Len(reply[Current.client]) = ReplyRoom
    \/ waited # NoPid /\ children[waited] = "none"

(* As long as a foreground child runs the daemon does nothing but wait for *)
(* it: no other command is executed, no event forwarded (shellCommand).    *)
ForegroundFinished ==
    (\E p \in Pids : children[p] = "waited for") => pc \in {"fork", "wait"}

(* A `netevent command` that reaches the end of file has read the answers  *)
(* to all its commands up to the first error, unless the daemon was told   *)
(* to end: the connection is not closed between the last line and its      *)
(* execution (readCommand, processCommandQueue before processRemoveQueue). *)
AnswersComplete ==
    \A c \in Clients \ Sessions :
        peer[c] = "end of file" /\ ~gQuit =>
            /\ got[c] # <<>>
            /\ Len(got[c]) = Len(Stream[c][1]) \/ Last(got[c]) = "ERROR"

(* The daemon implements the command service: nothing a client that stays  *)
(* sent is lost, reordered, executed twice or answered to another one,     *)
(* wherever it waits: socket, stdio buffer, queue.                         *)
CommandLines == Seq(Commands) \ {NL}
QueuedFor(c) == [client : {c}, cmds : CommandLines]
CommandsOf(queue) == [i \in DOMAIN queue |-> queue[i].cmds]

Pending(c) ==
    IF pc = "ended" \/ conn[c] = "closed" THEN <<>>
    ELSE CommandsOf(Filter(gCommandQueue, QueuedFor(c))) \o Filter(file[c] \o sock[c], CommandLines)

Service == INSTANCE CommandService WITH
    Lines   <- (UNION {Range(Stream[c]) : c \in Clients}) \ {NL},
    pending <- [c \in Clients |-> Pending(c)],
    answers <- [c \in Clients |-> got[c] \o reply[c]],
    hungUp  <- {c \in Clients : peer[c] = "hung up"},
    stopped <- pc = "ended"
ServiceKept == Service!Spec

(* A client that sends its lines and shuts its writing side down sees the  *)
(* end of its answers, without anybody else doing anything, unless the     *)
(* daemon is held up for good.                                             *)
HalfCloseServed ==
    \/ \A c \in Clients : peer[c] = "half" ~> conn[c] = "closed"
    \/ <>[]HeldUp

(* Every child is reaped, however many exits one SIGCHLD stands for, even  *)
(* while the daemon is held up (signull).                                  *)
ZombiesReaped ==
    \A p \in Pids : children[p] = "zombie" ~> (children[p] = "none" \/ pc = "ended")

(* quit and SIGTERM end the daemon from wherever it is, unless it is held  *)
(* up for good: every phase leads to a test of gQuit.  The exception is    *)
(* the one step between the test and poll: a SIGTERM there is forgotten    *)
(* until a descriptor is ready.                                            *)
QuitEnds ==
    \/ (gQuit /\ pc \notin {"toPoll", "poll"}) ~> pc = "ended"
    \/ <>[]HeldUp

(* exec waits until its child has ended, and returns then ("wait", the     *)
(* comment in the loop of shellCommand).                                   *)
ExecReturns == waited # NoPid ~> waited = NoPid
=============================================================================
