-------------------------- MODULE Commands_proofs ---------------------------
(***************************************************************************)
(* Theorems about Commands, for any clients, streams, children and sizes:  *)
(* the types, that the daemon waits for a foreground child, that it        *)
(* implements CommandService, and that the answers to a command are        *)
(* complete.  The inductive invariant is TypeOK with ControlAgrees and     *)
(* ServerFirst for the first two, IInv for the others.                     *)
(***************************************************************************)
EXTENDS Commands, Filters_proofs

-----------------------------------------------------------------------------
(* The inductive invariant.                                                *)

Flags == SUBSET {"IN", "HUP"}

(* The daemon's state against where it is.                                 *)
ControlAgrees ==
    /\ pc \in {"answer", "fork", "wait"} => gCommandQueue # <<>>
    /\ waited # NoPid <=> pc \in {"fork", "wait"}
    /\ \A p \in Pids : children[p] = "waited for" => waited = p
    /\ pc = "getline" => revents # <<>>
    /\ revents # <<>> => pc \in {"dispatch", "getline"}
    /\ pc \in {"ending", "ended"} => gQuit

(* The server socket is the first to be polled; what poll reported of it   *)
(* comes first too, and somebody is there to be accepted.                  *)
ServerFirst ==
    /\ pfds # <<>> /\ Head(pfds) = Server /\ Tail(pfds) \in Seq(Clients)
    /\ revents # <<>> /\ Head(revents).fd = Server => backlog # <<>>
    /\ revents # <<>> => Tail(revents) \in Seq([fd : Clients, flags : Flags])

-----------------------------------------------------------------------------
(* Type correctness.                                                       *)

(* The initial states are typed.                                           *)
LEMMA InitTyped == Init => TypeOK /\ ControlAgrees /\ ServerFirst
  <1>. SUFFICES ASSUME Init PROVE TypeOK /\ ControlAgrees /\ ServerFirst
    OBVIOUS
  <1>. DEFINE server == <<Server>>
  <1>1. server \in Seq(Clients \cup {Server}) /\ server # <<>> /\ Head(server) = Server
        /\ Tail(server) = <<>>
    OBVIOUS
  <1>. HIDE DEF server
  <1>2. pfds = server
    BY DEF Init, server
  <1>3. TypeOK
    BY <1>1, <1>2, EmptySeq DEF Init, TypeOK
  <1>4. ControlAgrees
    BY CommandsAssumption DEF Init, ControlAgrees
  <1>5. ServerFirst
    BY <1>1, <1>2, EmptySeq DEF Init, ServerFirst
  <1>. QED BY <1>3, <1>4, <1>5

(* Removing and adding descriptors keeps the server socket first.          *)
LEMMA SweepPolls ==
    ASSUME TypeOK, ServerFirst, Sweep
    PROVE  /\ pfds' \in Seq(Clients \cup {Server}) /\ pfds' # <<>> /\ Head(pfds') = Server
           /\ \A S : Tail(pfds) \in Seq(S) /\ gFDAddQueue \in Seq(S)
                    => Tail(pfds') \in Seq(S \cap ((Clients \cup {Server}) \ gFDRemoveQueue))
  <1>. DEFINE T == (Clients \cup {Server}) \ gFDRemoveQueue
              all == pfds \o gFDAddQueue
              rest == Tail(pfds) \o gFDAddQueue
  <1>1. pfds' = Filter(all, T)
    BY DEF Sweep
  <1>2. pfds \in Seq(Clients \cup {Server}) /\ gFDAddQueue \in Seq(Clients \cup {Server})
    BY SeqMonotonic DEF TypeOK
  <1>3. all \in Seq(Clients \cup {Server}) /\ all # <<>> /\ Head(all) = Server /\ Tail(all) = rest
    BY <1>2 DEF ServerFirst
  <1>4. Server \in T
    BY CommandsAssumption DEF TypeOK
  <1>5. rest \in Seq(Clients \cup {Server})
    BY <1>3, HeadTailProperties
  <1>. HIDE DEF all, rest, T
  <1>6. Filter(all, T) = <<Server>> \o Filter(rest, T)
    BY <1>3, <1>4, FilterFirst
  <1>7. Filter(rest, T) \in Seq((Clients \cup {Server}) \cap T)
    BY <1>5, FilterType
  <1>8. Filter(all, T) # <<>> /\ Head(Filter(all, T)) = Server /\ Tail(Filter(all, T)) = Filter(rest, T)
    BY <1>6, <1>7
  <1>9. Filter(all, T) \in Seq(Clients \cup {Server})
    <2>1. Filter(all, T) \in Seq((Clients \cup {Server}) \cap T)
      BY <1>3, FilterType
    <2>. QED BY <2>1, SeqMonotonic
  <1>10. ASSUME NEW S, Tail(pfds) \in Seq(S), gFDAddQueue \in Seq(S)
         PROVE  Tail(pfds') \in Seq(S \cap T)
    <2>1. rest \in Seq(S)
      BY <1>10, ConcatProperties DEF rest
    <2>2. Filter(rest, T) \in Seq(S \cap T)
      BY <2>1, FilterType
    <2>. QED BY <1>1, <1>8, <2>2
  <1>. QED BY <1>1, <1>8, <1>9, <1>10 DEF T

(* What poll reports is about descriptors that are polled, the server      *)
(* socket first if at all, and then with somebody to be accepted.          *)
LEMMA PollReports ==
    ASSUME TypeOK, ServerFirst, PollReturns
    PROVE  /\ revents' \in Seq(Events)
           /\ revents' # <<>> /\ Head(revents').fd = Server => backlog # <<>>
           /\ \A S : Tail(pfds) \in Seq(S) =>
                 LET R == {e \in Events : e.fd \in S /\ e.flags = Reported(e.fd)}
                 IN  /\ revents' # <<>> => Tail(revents') \in Seq(R)
                     /\ revents' # <<>> => Head(revents').fd = Server \/ Head(revents') \in R
  <1>. DEFINE A == [fd : Clients \cup {Server}, flags : Flags]
              report(fd) == [fd |-> fd, flags |-> Reported(fd)]
              all == [i \in DOMAIN pfds |-> report(pfds[i])]
              rest == [i \in DOMAIN Tail(pfds) |-> report(Tail(pfds)[i])]
  <1>1. revents' = Filter(all, Events)
    BY DEF PollReturns
  <1>2. ASSUME NEW fd \in Clients \cup {Server} PROVE report(fd) \in A
    BY DEF Reported, Flags
  <1>3. pfds \in Seq(Clients \cup {Server}) /\ Tail(pfds) \in Seq(Clients)
    BY DEF TypeOK, ServerFirst
  <1>4. /\ all \in Seq(A) /\ all # <<>> /\ Head(all) = report(Server) /\ Tail(all) = rest
    <2>. HIDE DEF report
    <2>1. all \in Seq(A) /\ Len(all) = Len(pfds) /\ \A i \in 1..Len(pfds) : all[i] = report(pfds[i])
      <3>1. DOMAIN pfds = 1..Len(pfds) /\ Len(pfds) \in Nat
            /\ \A i \in 1..Len(pfds) : pfds[i] \in Clients \cup {Server}
        BY <1>3
      <3>2. \A i \in 1..Len(pfds) : report(pfds[i]) \in A
        BY <1>2, <3>1
      <3>3. all = [i \in 1..Len(pfds) |-> report(pfds[i])]
        BY <3>1
      <3>. HIDE DEF A
      <3>. QED BY <3>1, <3>2, <3>3
    <2>2. Tail(pfds) \in Seq(Clients \cup {Server})
      BY <1>3, SeqMonotonic
    <2>3. rest \in Seq(A) /\ Len(rest) = Len(Tail(pfds))
          /\ \A i \in 1..Len(Tail(pfds)) : rest[i] = report(Tail(pfds)[i])
      BY <1>2, <2>2
    <2>4. Len(pfds) # 0 /\ pfds[1] = Server /\ Len(Tail(pfds)) = Len(pfds) - 1
          /\ \A i \in 1..(Len(pfds) - 1) : Tail(pfds)[i] = pfds[i + 1]
      BY <1>3 DEF ServerFirst
    <2>5. all # <<>> /\ Head(all) = report(Server)
      <3>. HIDE DEF all
      <3>. QED BY <1>3, <2>1, <2>4
    <2>6. Tail(all) \in Seq(A) /\ Len(Tail(all)) = Len(rest)
          /\ \A i \in 1..Len(rest) : Tail(all)[i] = rest[i]
      <3>. HIDE DEF all, rest
      <3>. QED BY <1>3, <2>1, <2>3, <2>4, <2>5, HeadTailProperties
    <2>7. Tail(all) = rest
      <3>. HIDE DEF all, rest
      <3>. QED BY <2>3, <2>6, SeqEqual
    <2>. QED BY <2>1, <2>5, <2>7
  <1>5. ASSUME NEW S, Tail(pfds) \in Seq(S)
        PROVE  LET R == {e \in Events : e.fd \in S /\ e.flags = Reported(e.fd)}
               IN  Filter(rest, Events) \in Seq(R)
    <2>. DEFINE Q == {e \in A : e.fd \in S /\ e.flags = Reported(e.fd)}
                R == {e \in Events : e.fd \in S /\ e.flags = Reported(e.fd)}
    <2>1. Tail(pfds) \in Seq(S \cap Clients)
      BY <1>3, <1>5
    <2>2. ASSUME NEW fd \in S \cap Clients PROVE report(fd) \in Q
      BY <1>2
    <2>3. rest \in Seq(Q)
      <3>. HIDE DEF Q, report
      <3>. QED BY <2>1, <2>2
    <2>4. Filter(rest, Events) \in Seq(Q \cap Events)
      <3>. HIDE DEF Q, rest
      <3>. QED BY <2>3, FilterType
    <2>5. Q \cap Events \subseteq R
      OBVIOUS
    <2>6. Filter(rest, Events) \in Seq(R)
      <3>. HIDE DEF Q, R, rest
      <3>. QED BY <2>4, <2>5, SeqMonotonic
    <2>. QED BY <2>6
  <1>6. revents' \in Seq(Events)
    <2>. HIDE DEF all, A
    <2>1. Filter(all, Events) \in Seq(A \cap Events)
      BY <1>4, FilterType
    <2>. QED BY <1>1, <2>1, SeqMonotonic
  <1>7. CASE report(Server) \in Events
    <2>1. backlog # <<>>
      BY <1>7 DEF Events, Reported
    <2>2. /\ Filter(all, Events) = <<report(Server)>> \o Filter(rest, Events)
          /\ Filter(rest, Events) \in Seq({e \in Events : e.fd \in Clients /\ e.flags = Reported(e.fd)})
      <3>. HIDE DEF all, rest, report, A
      <3>1. Filter(all, Events) = <<report(Server)>> \o Filter(rest, Events)
        BY <1>4, <1>7, FilterFirst
      <3>2. Filter(rest, Events) \in Seq({e \in Events : e.fd \in Clients /\ e.flags = Reported(e.fd)})
        BY <1>3, <1>5
      <3>. QED BY <3>1, <3>2
    <2>3. revents' # <<>> /\ Head(revents').fd = Server /\ Tail(revents') = Filter(rest, Events)
      <3>. DEFINE x == report(Server)
      <3>0. x.fd = Server
        OBVIOUS
      <3>. HIDE DEF all, rest, A, x
      <3>. QED BY <1>1, <2>2, <3>0
    <2>. QED BY <1>5, <1>6, <2>1, <2>3
  <1>8. CASE report(Server) \notin Events
    <2>1. revents' = Filter(rest, Events)
      <3>. HIDE DEF all, rest, report, A
      <3>1. Filter(all, Events) = Filter(rest, Events)
        BY <1>4, <1>8, FilterFirst
      <3>. QED BY <1>1, <3>1
    <2>2. ASSUME NEW S, Tail(pfds) \in Seq(S), revents' # <<>>
          PROVE  LET R == {e \in Events : e.fd \in S /\ e.flags = Reported(e.fd)}
                 IN  Head(revents') \in R /\ Tail(revents') \in Seq(R)
      <3>. DEFINE R == {e \in Events : e.fd \in S /\ e.flags = Reported(e.fd)}
      <3>1. revents' \in Seq(R)
        BY <1>5, <2>1, <2>2
      <3>. HIDE DEF R
      <3>2. Head(revents') \in R /\ Tail(revents') \in Seq(R)
        BY <2>2, <3>1, HeadTailProperties
      <3>. QED BY <3>2 DEF R
    <2>3. revents' # <<>> => Head(revents').fd # Server
      <3>. SUFFICES ASSUME revents' # <<>> PROVE Head(revents').fd # Server
        OBVIOUS
      <3>. DEFINE R == {e \in Events : e.fd \in Clients /\ e.flags = Reported(e.fd)}
      <3>1. Head(revents') \in R
        BY <1>3, <2>2
      <3>. QED BY <3>1, CommandsAssumption
    <2>. QED BY <1>6, <2>2, <2>3
  <1>. QED BY <1>7, <1>8

(* The line getline returns and what is left are typed.                    *)
LEMMA LinesTyped ==
    ASSUME NEW S, NEW all \in Seq(Seq(S))
    PROVE  /\ Line(all) \in Seq(S) /\ Taken(all) \in 0..2
           /\ SubSeq(all, Taken(all) + 1, Len(all)) \in Seq(Seq(S))
  <1>1. Len(all) \in Nat /\ \A i \in 1..Len(all) : all[i] \in Seq(S)
    OBVIOUS
  <1>2. Line(all) \in Seq(S)
    BY <1>1, EmptySeq DEF Line
  <1>3. Taken(all) \in 0..2
    BY DEF Taken
  <1>4. SubSeq(all, Taken(all) + 1, Len(all)) \in Seq(Seq(S))
    <2>1. \A i \in (Taken(all) + 1)..Len(all) : all[i] \in Seq(S)
      BY <1>1, <1>3
    <2>. QED BY <1>1, <1>3, <2>1, SubSeqProperties
  <1>. QED BY <1>2, <1>3, <1>4

(* A step keeps the types.  That the queue is not empty when one of its    *)
(* commands is answered is needed, and what is first among descriptors.    *)
LEMMA TypeKept == TypeOK /\ ControlAgrees /\ ServerFirst /\ [Next]_vars => TypeOK'
  <1>. SUFFICES ASSUME TypeOK, ControlAgrees, ServerFirst, [Next]_vars PROVE TypeOK'
    OBVIOUS
  <1>. USE DEF daemonVars, pollVars, childVars, clientVars
  <1>1. CASE UNCHANGED vars
    BY <1>1 DEF vars, TypeOK
  <1>2. CASE RunCommand
    BY <1>2 DEF RunCommand, TypeOK
  <1>3. CASE ShellCommand
    <2>1. /\ pc' \in {"answer", "fork"} /\ result' \in {"Ok.", "ERROR"}
          /\ waited' \in Pids \cup {NoPid}
          /\ children' \in [Pids -> {"none", "waited for", "background", "zombie"}]
      BY <1>3 DEF ShellCommand, Fork, ForkFails, TypeOK
    <2>. QED BY <1>3, <2>1 DEF ShellCommand, TypeOK
  <1>4. CASE EnterWait
    BY <1>4 DEF EnterWait, TypeOK
  <1>5. CASE WaitReturns
    BY <1>5 DEF WaitReturns, TypeOK
  <1>6. CASE WaitAgain
    BY <1>6 DEF WaitAgain, TypeOK
  <1>7. CASE Answer
    <2>1. gCommandQueue # <<>>
      BY <1>7 DEF Answer, ControlAgrees
    <2>2. Current \in [client : Clients, cmds : Seq(Commands) \ {NL}]
          /\ Tail(gCommandQueue) \in Seq([client : Clients, cmds : Seq(Commands) \ {NL}])
      BY <2>1, HeadTailProperties DEF TypeOK, Current
    <2>3. Rest \in Seq(Commands)
      BY <2>2 DEF Rest, NL
    <2>4. gCommandQueue' \in Seq([client : Clients, cmds : Seq(Commands) \ {NL}])
      <3>1. gCommandQueue' = RestOfQueue
        BY <1>7 DEF Answer
      <3>2. CASE Rest = <<>>
        BY <2>2, <3>1, <3>2 DEF RestOfQueue
      <3>3. CASE Rest # <<>>
        <4>. DEFINE x == [client |-> Current.client, cmds |-> Rest]
        <4>1. x \in [client : Clients, cmds : Seq(Commands) \ {NL}]
          BY <2>2, <2>3, <3>3 DEF NL
        <4>2. gCommandQueue' = <<x>> \o Tail(gCommandQueue)
          BY <3>1, <3>3 DEF RestOfQueue
        <4>. HIDE DEF x
        <4>. QED BY <2>2, <4>1, <4>2
      <3>. QED BY <3>2, <3>3
    <2>5. /\ reply' \in [Clients -> Seq({"Ok.", "ERROR"})]
          /\ gFDRemoveQueue' \subseteq Clients
      <3>1. Current.client \in Clients /\ result \in {"Ok.", "ERROR"}
        BY <2>2 DEF TypeOK
      <3>2. /\ reply \in [Clients -> Seq({"Ok.", "ERROR"})] /\ gFDRemoveQueue \subseteq Clients
            /\ reply[Current.client] \in Seq({"Ok.", "ERROR"})
        BY <3>1 DEF TypeOK
      <3>3. Append(reply[Current.client], result) \in Seq({"Ok.", "ERROR"})
        BY <3>1, <3>2, AppendProperties
      <3>4. ToClient(Current.client)
        BY <1>7 DEF Answer
      <3>. QED BY <3>1, <3>2, <3>3, <3>4 DEF ToClient
    <2>. QED BY <1>7, <2>4, <2>5 DEF Answer, TypeOK
  <1>8. CASE Sweep
    <2>1. pfds' \in Seq(Clients \cup {Server})
      BY <1>8, SweepPolls
    <2>2. /\ conn' \in [Clients -> {"none", "backlog", "open", "closed"}]
          /\ file' \in [Clients -> Seq(Seq(Commands))]
          /\ sock' \in [Clients -> Seq(Seq(Commands))]
          /\ gFDAddQueue' \in Seq(Clients) /\ gFDRemoveQueue' \subseteq Clients
      BY <1>8, EmptySeq DEF Sweep, TypeOK
    <2>3. pc' \in {"toPoll", "ending"}
      BY <1>8 DEF Sweep, AfterSweep
    <2>. QED BY <1>8, <2>1, <2>2, <2>3 DEF Sweep, TypeOK
  <1>9. CASE EnterPoll
    BY <1>9 DEF EnterPoll, TypeOK
  <1>10. CASE PollReturns
    <2>1. revents' \in Seq(Events)
      BY <1>10, PollReports
    <2>2. Events \subseteq [fd : Clients \cup {Server}, flags : SUBSET {"IN", "HUP"}]
      BY DEF Events
    <2>3. revents' \in Seq([fd : Clients \cup {Server}, flags : SUBSET {"IN", "HUP"}])
      BY <2>1, <2>2, SeqMonotonic
    <2>. QED BY <1>10, <2>3 DEF PollReturns, TypeOK
  <1>11. CASE DispatchDone
    <2>1. pc' \in {"ending", "commands"} /\ revents' = <<>>
      BY <1>11 DEF DispatchDone, Top
    <2>. QED BY <1>11, <2>1, EmptySeq DEF DispatchDone, TypeOK
  <1>12. CASE NewCommandClient
    <2>1. backlog # <<>> /\ revents # <<>>
      BY <1>12 DEF NewCommandClient, Dispatching, ServerFirst
    <2>2. Head(backlog) \in Clients /\ backlog' \in Seq(Clients)
          /\ revents' \in Seq([fd : Clients \cup {Server}, flags : SUBSET {"IN", "HUP"}])
      BY <1>12, <2>1, HeadTailProperties DEF NewCommandClient, TypeOK
    <2>3. gFDAddQueue' \in Seq(Clients)
      BY <1>12, <2>2, AppendProperties DEF NewCommandClient, TypeOK
    <2>4. conn' \in [Clients -> {"none", "backlog", "open", "closed"}]
      BY <1>12, <2>2 DEF NewCommandClient, TypeOK
    <2>. QED BY <1>12, <2>2, <2>3, <2>4 DEF NewCommandClient, TypeOK
  <1>13. CASE End
    <2>1. conn' \in [Clients -> {"none", "backlog", "open", "closed"}]
      BY <1>13 DEF End, TypeOK
    <2>. QED BY <1>13, <2>1 DEF End, TypeOK
  <1>14. ASSUME NEW c \in Clients, GetlineBlocks(c) PROVE TypeOK'
    BY <1>14 DEF GetlineBlocks, TypeOK
  <1>15. ASSUME NEW c \in Clients, ReadCommand(c) PROVE TypeOK'
    <2>. DEFINE all == Available(c)
    <2>1. all \in Seq(Seq(Commands))
      BY ConcatProperties DEF Available, TypeOK
    <2>2. Line(all) \in Seq(Commands) /\ SubSeq(all, Taken(all) + 1, Len(all)) \in Seq(Seq(Commands))
      <3>. HIDE DEF all
      <3>. QED BY <2>1, LinesTyped
    <2>3. /\ file' \in [Clients -> Seq(Seq(Commands))]
          /\ sock' \in [Clients -> Seq(Seq(Commands))]
      <3>. HIDE DEF all
      <3>1. file' = [file EXCEPT ![c] = SubSeq(all, Taken(all) + 1, Len(all))]
        BY <1>15 DEF ReadCommand, all
      <3>2. sock' = [sock EXCEPT ![c] = IF Contains(file[c], NL) THEN sock[c] ELSE <<>>]
        BY <1>15 DEF ReadCommand
      <3>. QED BY <2>2, <3>1, <3>2, EmptySeq DEF TypeOK
    <2>4. gCommandQueue' \in Seq([client : Clients, cmds : Seq(Commands) \ {NL}])
      <3>. HIDE DEF all
      <3>1. gCommandQueue' = IF Line(all) = <<>> THEN gCommandQueue
                             ELSE Append(gCommandQueue, [client |-> c, cmds |-> Line(all)])
        BY <1>15 DEF ReadCommand, all
      <3>2. CASE Line(all) = <<>>
        BY <3>1, <3>2 DEF TypeOK
      <3>3. CASE Line(all) # <<>>
        <4>1. [client |-> c, cmds |-> Line(all)] \in [client : Clients, cmds : Seq(Commands) \ {NL}]
          BY <2>2, <3>3 DEF NL
        <4>. QED BY <3>1, <3>3, <4>1, AppendProperties DEF TypeOK
      <3>. QED BY <3>2, <3>3
    <2>5. gFDRemoveQueue' \subseteq Clients
      BY <1>15 DEF ReadCommand, TypeOK
    <2>6. revents' \in Seq([fd : Clients \cup {Server}, flags : SUBSET {"IN", "HUP"}])
      <3>1. revents # <<>>
        BY <1>15 DEF ReadCommand, Dispatching, ControlAgrees
      <3>. QED BY <1>15, <3>1, HeadTailProperties DEF ReadCommand, TypeOK
    <2>. QED BY <1>15, <2>3, <2>4, <2>5, <2>6 DEF ReadCommand, TypeOK
  <1>16. CASE HandleChild
    <2>1. children' \in [Pids -> {"none", "waited for", "background", "zombie"}]
          /\ pc' \in {pc, "ending", "commands"}
      BY <1>16 DEF HandleChild, Interrupted, TypeOK
    <2>. QED BY <1>16, <2>1 DEF HandleChild, TypeOK
  <1>17. CASE Terminate
    <2>1. pc' \in {pc, "ending"}
      BY <1>17 DEF Terminate, Interrupted
    <2>. QED BY <1>17, <2>1 DEF Terminate, TypeOK
  <1>18. ASSUME NEW p \in Pids, ChildExits(p) PROVE TypeOK'
    BY <1>18 DEF ChildExits, TypeOK
  <1>19. ASSUME NEW c \in Clients, Connect(c) PROVE TypeOK'
    <2>1. backlog' \in Seq(Clients)
      BY <1>19, AppendProperties DEF Connect, TypeOK
    <2>. QED BY <1>19, <2>1 DEF Connect, TypeOK
  <1>20. ASSUME NEW c \in Clients, Write(c) PROVE TypeOK'
    <2>1. /\ peer' \in [Clients -> {"off", "open", "half", "end of file", "hung up"}]
          /\ sent' \in [Clients -> Nat]
      <3>1. sent' = sent \/ sent' = [sent EXCEPT ![c] = @ + 1]
        BY <1>20 DEF Write
      <3>2. sent \in [Clients -> Nat]
        BY DEF TypeOK
      <3>3. sent' \in [Clients -> Nat]
        BY <3>1, <3>2
      <3>. QED BY <1>20, <3>3 DEF Write, TypeOK
    <2>2. sock' \in [Clients -> Seq(Seq(Commands))]
      <3>1. Stream[c] \in Seq(Seq(Commands)) /\ sent[c] + 1 \in 1..Len(Stream[c])
        <4>1. Stream[c] \in Seq(Seq(Commands)) /\ sent[c] \in Nat /\ sent[c] < Len(Stream[c])
          BY <1>20, CommandsAssumption DEF Write, TypeOK
        <4>. QED BY <4>1, LenProperties
      <3>2. Stream[c][sent[c] + 1] \in Seq(Commands)
        BY <3>1, ElementOfSeq
      <3>3. Append(sock[c], Stream[c][sent[c] + 1]) \in Seq(Seq(Commands))
        BY <3>2, AppendProperties DEF TypeOK
      <3>. QED BY <1>20, <3>3 DEF Write, TypeOK
    <2>. QED BY <1>20, <2>1, <2>2 DEF Write, TypeOK
  <1>21. ASSUME NEW c \in Clients, Shutdown(c) \/ HangUp(c) PROVE TypeOK'
    BY <1>21 DEF Shutdown, HangUp, TypeOK
  <1>22. ASSUME NEW c \in Clients, Read(c) PROVE TypeOK'
    <2>1. /\ peer' \in [Clients -> {"off", "open", "half", "end of file", "hung up"}]
          /\ got' \in [Clients -> Seq({"Ok.", "ERROR"})]
          /\ reply' \in [Clients -> Seq({"Ok.", "ERROR"})]
      <3>1. CASE reply[c] # <<>>
        <4>1. Tail(reply[c]) \in Seq({"Ok.", "ERROR"})
              /\ Append(got[c], Head(reply[c])) \in Seq({"Ok.", "ERROR"})
          <5>1. reply[c] \in Seq({"Ok.", "ERROR"}) /\ got[c] \in Seq({"Ok.", "ERROR"})
            BY DEF TypeOK
          <5>2. Head(reply[c]) \in {"Ok.", "ERROR"} /\ Tail(reply[c]) \in Seq({"Ok.", "ERROR"})
            BY <3>1, <5>1, HeadTailProperties
          <5>. QED BY <5>1, <5>2, AppendProperties
        <4>. QED BY <1>22, <3>1, <4>1 DEF Read, TypeOK
      <3>2. CASE reply[c] = <<>>
        BY <1>22, <3>2 DEF Read, TypeOK
      <3>. QED BY <3>1, <3>2
    <2>. QED BY <1>22, <2>1 DEF Read, TypeOK
  <1>. QED BY <1>1, <1>2, <1>3, <1>4, <1>5, <1>6, <1>7, <1>8, <1>9, <1>10, <1>11, <1>12, <1>13,
              <1>14, <1>15, <1>16, <1>17, <1>18, <1>19, <1>20, <1>21, <1>22
           DEF Next, DaemonStep, ClientStep

(* A step keeps the daemon's state in agreement with where it is: a        *)
(* foreground child is waited for from fork until waitpid has found it.    *)
LEMMA ControlKept ==
    TypeOK /\ ControlAgrees /\ ServerFirst /\ [Next]_vars => ControlAgrees' /\ ServerFirst'
  <1>. SUFFICES ASSUME TypeOK, ControlAgrees, ServerFirst, [Next]_vars
                PROVE  ControlAgrees' /\ ServerFirst'
    OBVIOUS
  <1>. USE CommandsAssumption DEF daemonVars, pollVars, childVars, clientVars
  <1>. DEFINE Polling == UNCHANGED <<pfds, revents, backlog>>
  <1>0. Polling => ServerFirst'
    BY DEF ServerFirst
  <1>1. CASE UNCHANGED vars
    BY <1>0, <1>1 DEF vars, ControlAgrees
  <1>2. CASE RunCommand \/ EnterPoll
    <2>1. Polling /\ ControlAgrees'
      BY <1>2 DEF RunCommand, EnterPoll, Busy, ControlAgrees
    <2>. QED BY <1>0, <2>1
  <1>3. CASE ShellCommand
    <2>1. Polling
      BY <1>3 DEF ShellCommand
    <2>2. \A p \in Pids : children[p] # "waited for"
      BY <1>3 DEF ShellCommand, Busy, ControlAgrees
    <2>3. CASE ForkFails
      <3>1. /\ UNCHANGED <<children, waited, gCommandQueue, gQuit, revents>> /\ pc' = "answer"
            /\ gCommandQueue # <<>> /\ revents = <<>> /\ waited = NoPid
        BY <1>3, <2>3 DEF ForkFails, ShellCommand, Busy, ControlAgrees
      <3>2. ControlAgrees'
        BY <2>2, <3>1 DEF ControlAgrees
      <3>. QED BY <1>0, <2>1, <3>2
    <2>4. CASE Fork(Head(Current.cmds) = "exec&")
      <3>1. PICK p \in Pids :
               /\ children' = [children EXCEPT
                     ![p] = IF Head(Current.cmds) = "exec&" THEN "background" ELSE "waited for"]
               /\ IF Head(Current.cmds) = "exec&"
                  THEN pc' = "answer" /\ UNCHANGED waited
                  ELSE pc' = "fork" /\ waited' = p
        BY <2>4 DEF Fork
      <3>2. \A q \in Pids \ {p} : children'[q] # "waited for"
        BY <2>2, <3>1 DEF TypeOK
      <3>3. Head(Current.cmds) = "exec&" => children'[p] # "waited for"
        BY <3>1 DEF TypeOK
      <3>4. gCommandQueue' # <<>> /\ gQuit' = gQuit /\ revents' = revents /\ revents = <<>> /\ waited = NoPid
        BY <1>3 DEF ShellCommand, Busy, ControlAgrees
      <3>. QED BY <3>1, <3>2, <3>3, <3>4, <2>1, <1>0 DEF ControlAgrees
    <2>. QED BY <1>0, <1>3, <2>1, <2>3, <2>4 DEF ShellCommand
  <1>4. CASE EnterWait \/ WaitAgain
    <2>1. Polling /\ ControlAgrees'
      BY <1>4 DEF EnterWait, WaitAgain, ControlAgrees
    <2>. QED BY <1>0, <2>1
  <1>5. CASE WaitReturns
    <2>1. Polling /\ waited \in Pids
      BY <1>5 DEF WaitReturns, ControlAgrees, TypeOK
    <2>2. \A p \in Pids : children'[p] # "waited for"
      BY <1>5, <2>1 DEF WaitReturns, ControlAgrees, TypeOK
    <2>3. ControlAgrees'
      BY <1>5, <2>2 DEF WaitReturns, ControlAgrees
    <2>. QED BY <1>0, <2>1, <2>3
  <1>6. CASE Answer
    <2>1. Polling /\ ControlAgrees'
      BY <1>6 DEF Answer, ControlAgrees
    <2>. QED BY <1>0, <2>1
  <1>7. CASE Sweep
    <2>1. pfds' # <<>> /\ Head(pfds') = Server /\ Tail(pfds') \in Seq(Clients)
      <3>1. Tail(pfds) \in Seq(Clients) /\ gFDAddQueue \in Seq(Clients)
        BY DEF ServerFirst, TypeOK
      <3>2. Tail(pfds') \in Seq(Clients \cap ((Clients \cup {Server}) \ gFDRemoveQueue))
        BY <1>7, <3>1, SweepPolls
      <3>3. Tail(pfds') \in Seq(Clients)
        BY <3>2, SeqMonotonic
      <3>. QED BY <1>7, <3>3, SweepPolls
    <2>2. ServerFirst'
      BY <1>7, <2>1 DEF Sweep, ServerFirst
    <2>3. ControlAgrees'
      BY <1>7 DEF Sweep, AfterSweep, ControlAgrees
    <2>. QED BY <2>2, <2>3
  <1>8. CASE PollReturns
    <2>1. /\ revents' # <<>> /\ Head(revents').fd = Server => backlog # <<>>
          /\ revents' # <<>> => Tail(revents') \in Seq([fd : Clients, flags : Flags])
      <3>1. Tail(pfds) \in Seq(Clients)
        BY DEF ServerFirst
      <3>. DEFINE R == {e \in Events : e.fd \in Clients /\ e.flags = Reported(e.fd)}
      <3>2. R \subseteq [fd : Clients, flags : Flags]
        BY DEF Events, Flags
      <3>3. revents' # <<>> => Tail(revents') \in Seq(R)
        BY <1>8, <3>1, PollReports
      <3>. HIDE DEF R
      <3>. QED BY <1>8, <3>2, <3>3, PollReports, SeqMonotonic
    <2>2. ServerFirst'
      BY <1>8, <2>1 DEF PollReturns, ServerFirst
    <2>3. ControlAgrees'
      BY <1>8 DEF PollReturns, ControlAgrees
    <2>. QED BY <2>2, <2>3
  <1>9. CASE DispatchDone
    <2>1. ServerFirst'
      BY <1>9 DEF DispatchDone, ServerFirst
    <2>2. ControlAgrees'
      BY <1>9 DEF DispatchDone, Top, ControlAgrees
    <2>. QED BY <2>1, <2>2
  <1>10. ASSUME revents # <<>>, revents' = Tail(revents), UNCHANGED pfds
         PROVE  ServerFirst'
    <2>1. revents' \in Seq([fd : Clients, flags : Flags])
      BY <1>10 DEF ServerFirst
    <2>2. revents' # <<>> => Head(revents').fd \in Clients
                             /\ Tail(revents') \in Seq([fd : Clients, flags : Flags])
      <3>. DEFINE R == [fd : Clients, flags : Flags]
      <3>1. \A e \in R : e.fd \in Clients
        OBVIOUS
      <3>. HIDE DEF R
      <3>. SUFFICES ASSUME revents' # <<>>
                    PROVE  Head(revents').fd \in Clients /\ Tail(revents') \in Seq(R)
        BY DEF R
      <3>2. revents' \in Seq(R)
        BY <2>1 DEF R
      <3>3. Head(revents') \in R /\ Tail(revents') \in Seq(R)
        BY <3>2, HeadTailProperties
      <3>. QED BY <3>1, <3>3
    <2>. QED BY <1>10, <2>2 DEF ServerFirst
  <1>11. CASE NewCommandClient
    <2>1. ServerFirst'
      BY <1>10, <1>11 DEF NewCommandClient, Dispatching
    <2>2. ControlAgrees'
      BY <1>11 DEF NewCommandClient, Dispatching, ControlAgrees
    <2>. QED BY <2>1, <2>2
  <1>12. CASE End
    <2>1. Polling /\ ControlAgrees'
      BY <1>12 DEF End, ControlAgrees
    <2>. QED BY <1>0, <2>1
  <1>13. ASSUME NEW c \in Clients, GetlineBlocks(c) PROVE ControlAgrees' /\ ServerFirst'
    <2>1. Polling /\ ControlAgrees'
      BY <1>13 DEF GetlineBlocks, Dispatching, ControlAgrees
    <2>. QED BY <1>0, <2>1
  <1>14. ASSUME NEW c \in Clients, ReadCommand(c) PROVE ControlAgrees' /\ ServerFirst'
    <2>1. ServerFirst'
      BY <1>10, <1>14 DEF ReadCommand, Dispatching, ControlAgrees
    <2>2. ControlAgrees'
      BY <1>14 DEF ReadCommand, Dispatching, ControlAgrees
    <2>. QED BY <2>1, <2>2
  <1>15. CASE HandleChild
    <2>1. Polling
      BY <1>15 DEF HandleChild
    <2>2. pc' = pc \/ (pc = "poll" /\ pc' \in {"ending", "commands"} /\ (pc' = "ending" => gQuit))
      BY <1>15 DEF HandleChild, Interrupted
    <2>3. \A p \in Pids : children'[p] \in {"none", children[p]}
      BY <1>15 DEF HandleChild
    <2>4. ControlAgrees'
      BY <1>15, <2>2, <2>3 DEF HandleChild, ControlAgrees
    <2>. QED BY <1>0, <2>1, <2>4
  <1>16. CASE Terminate
    <2>1. Polling /\ ControlAgrees'
      BY <1>16 DEF Terminate, Interrupted, ControlAgrees
    <2>. QED BY <1>0, <2>1
  <1>17. ASSUME NEW p \in Pids, ChildExits(p) PROVE ControlAgrees' /\ ServerFirst'
    <2>1. Polling /\ \A q \in Pids : children'[q] = "waited for" => children[q] = "waited for"
      BY <1>17 DEF ChildExits, TypeOK
    <2>2. ControlAgrees'
      BY <1>17, <2>1 DEF ChildExits, ControlAgrees
    <2>. QED BY <1>0, <2>1, <2>2
  <1>18. ASSUME NEW c \in Clients, Connect(c) PROVE ControlAgrees' /\ ServerFirst'
    <2>1. backlog' # <<>>
      <3>1. backlog' = Append(backlog, c) /\ backlog \in Seq(Clients)
        BY <1>18 DEF Connect, TypeOK
      <3>. QED BY <3>1, AppendProperties
    <2>. QED BY <1>18, <2>1 DEF Connect, ControlAgrees, ServerFirst
  <1>19. ASSUME NEW c \in Clients, Write(c) \/ Shutdown(c) \/ Read(c) \/ HangUp(c)
         PROVE  ControlAgrees' /\ ServerFirst'
    <2>1. Polling /\ ControlAgrees'
      BY <1>19 DEF Write, Shutdown, Read, HangUp, ControlAgrees
    <2>. QED BY <1>0, <2>1
  <1>. QED BY <1>1, <1>2, <1>3, <1>4, <1>5, <1>6, <1>7, <1>8, <1>9, <1>11, <1>12, <1>13,
              <1>14, <1>15, <1>16, <1>17, <1>18, <1>19
           DEF Next, DaemonStep, ClientStep

(* Every variable keeps its type.                                          *)
THEOREM CommandsTyped == Spec => []TypeOK
  <1>1. Init => TypeOK /\ ControlAgrees /\ ServerFirst
    BY InitTyped
  <1>2. TypeOK /\ ControlAgrees /\ ServerFirst /\ [Next]_vars
          => (TypeOK /\ ControlAgrees /\ ServerFirst)'
    BY TypeKept, ControlKept
  <1>. QED BY <1>1, <1>2, PTL DEF Spec

(* As long as a foreground child runs the daemon does nothing but wait for *)
(* it: no other command is executed, no event forwarded (shellCommand).    *)
THEOREM WaitsForForeground == Spec => []ForegroundFinished
  <1>1. Init => TypeOK /\ ControlAgrees /\ ServerFirst
    BY InitTyped
  <1>2. TypeOK /\ ControlAgrees /\ ServerFirst /\ [Next]_vars
          => (TypeOK /\ ControlAgrees /\ ServerFirst)'
    BY TypeKept, ControlKept
  <1>3. ControlAgrees => ForegroundFinished
    BY CommandsAssumption DEF ControlAgrees, ForegroundFinished
  <1>. QED BY <1>1, <1>2, <1>3, PTL DEF Spec

-----------------------------------------------------------------------------
(* The daemon implements CommandService: no line of a client that stays is *)
(* lost, reordered, executed twice or answered to another one, wherever it *)
(* waits.  From that, the answers of a `netevent command' are complete.    *)
(* The inductive invariant, IInv, adds where each client and line can be.  *)

Open         == {c \in Clients : conn[c] = "open"}
Waiting      == {c \in Clients : conn[c] = "backlog"}
Shut         == {c \in Clients : peer[c] \in {"end of file", "hung up"}}
ClientEvents == {e \in [fd : Open, flags : Flags] : "HUP" \in e.flags => e.fd \in Shut}
Unread(c)    == file[c] \o sock[c]

(* Whoever is polled or about to be has an open connection; who is to be   *)
(* accepted waits for that once.                                           *)
OpenPolled ==
    pc # "ended" =>
        /\ Tail(pfds) \in Seq(Open) /\ gFDAddQueue \in Seq(Open)
        /\ backlog \in Seq(Waiting)
        /\ \A i, j \in 1..Len(backlog) : backlog[i] = backlog[j] => i = j

(* So has whoever was reported, and HUP is never taken back.               *)
OpenReported ==
    revents # <<>> =>
        /\ Head(revents).fd = Server \/ Head(revents) \in ClientEvents
        /\ Tail(revents) \in Seq(ClientEvents)

(* So has whose lines are queued, and who is about to be removed.          *)
OpenQueued ==
    pc # "ended" =>
        /\ gCommandQueue \in Seq([client : Open, cmds : CommandLines])
        /\ gFDRemoveQueue \subseteq Open

(* The two ends of a connection.                                           *)
EndsAgree ==
    \A c \in Clients :
        /\ peer[c] = "off" <=> conn[c] = "none"
        /\ peer[c] = "end of file" => conn[c] = "closed" /\ reply[c] = <<>>
        /\ pc = "ended" => conn[c] \in {"none", "closed"}
        /\ peer[c] = "off" => sent[c] = 0

(* What has not been read is the last part of what was written.            *)
UnreadIsRest ==
    \A c \in Clients :
        /\ sent[c] \in 0..Len(Stream[c])
        /\ \E k \in 0..sent[c] : Unread(c) = SubSeq(Stream[c], k + 1, sent[c])

(* Who is to be removed writes no more, and has been read to the end or    *)
(* hung up.                                                                *)
RemovedAreDone ==
    \A c \in gFDRemoveQueue :
        peer[c] # "open" /\ (peer[c] = "hung up" \/ Unread(c) = <<>>)

IInv ==
    /\ TypeOK /\ ControlAgrees /\ ServerFirst
    /\ OpenPolled /\ OpenReported /\ OpenQueued
    /\ EndsAgree /\ UnreadIsRest /\ RemovedAreDone

(* The initial states satisfy IInv.                                        *)
LEMMA InitIInv == Init => IInv
  <1>. SUFFICES ASSUME Init PROVE IInv
    OBVIOUS
  <1>1. TypeOK /\ ControlAgrees /\ ServerFirst
    BY InitTyped
  <1>. DEFINE server == <<Server>>
  <1>2. Tail(server) = <<>> /\ pfds = server
    BY DEF Init
  <1>. HIDE DEF server
  <1>3. OpenPolled /\ OpenReported /\ OpenQueued
    BY <1>2, EmptySeq DEF Init, OpenPolled, OpenReported, OpenQueued
  <1>4. EndsAgree /\ RemovedAreDone
    BY DEF Init, EndsAgree, RemovedAreDone
  <1>5. UnreadIsRest
    <2>. SUFFICES ASSUME NEW c \in Clients
                  PROVE  /\ sent[c] \in 0..Len(Stream[c])
                         /\ \E k \in 0..sent[c] : Unread(c) = SubSeq(Stream[c], k + 1, sent[c])
      BY DEF UnreadIsRest
    <2>1. sent[c] = 0 /\ Len(Stream[c]) \in Nat
      BY CommandsAssumption DEF Init
    <2>2. Unread(c) = <<>>
      BY DEF Init, Unread
    <2>3. SubSeq(Stream[c], 0 + 1, 0) = <<>>
      BY SubSeqEmpty
    <2>. QED BY <2>1, <2>2, <2>3
  <1>. QED BY <1>1, <1>3, <1>4, <1>5 DEF IInv

(* What the actions do to the ends of the connections.                     *)
LEMMA EndsKept ==
    TypeOK /\ ControlAgrees /\ ServerFirst /\ OpenPolled /\ OpenQueued /\ EndsAgree /\ [Next]_vars
        => EndsAgree'
  <1>. SUFFICES ASSUME TypeOK, ControlAgrees, ServerFirst, OpenPolled, OpenQueued, EndsAgree,
                       [Next]_vars
                PROVE  EndsAgree'
    OBVIOUS
  <1>. USE DEF daemonVars, pollVars, childVars, clientVars
  <1>. DEFINE Same == UNCHANGED <<conn, peer, reply, sent>>
  <1>1. ASSUME Same, pc' = "ended" => pc = "ended" PROVE EndsAgree'
    BY <1>1 DEF EndsAgree
  <1>2. CASE UNCHANGED vars
    BY <1>1, <1>2 DEF vars
  <1>3. CASE RunCommand \/ EnterWait \/ WaitReturns \/ WaitAgain \/ EnterPoll \/ PollReturns
    BY <1>1, <1>3 DEF RunCommand, EnterWait, WaitReturns, WaitAgain, EnterPoll, PollReturns
  <1>4. CASE ShellCommand \/ DispatchDone
    BY <1>1, <1>4 DEF ShellCommand, Fork, ForkFails, DispatchDone, Top
  <1>5. CASE HandleChild \/ Terminate \/ \E p \in Pids : ChildExits(p)
    BY <1>1, <1>5 DEF HandleChild, Terminate, Interrupted, ChildExits
  <1>6. ASSUME NEW c \in Clients, GetlineBlocks(c) \/ ReadCommand(c) PROVE EndsAgree'
    BY <1>1, <1>6 DEF GetlineBlocks, ReadCommand
  <1>7. CASE Answer
    <2>1. Current.client \in Clients /\ Current.client \in Open
      <3>1. gCommandQueue # <<>> /\ pc # "ended"
        BY <1>7 DEF Answer, ControlAgrees
      <3>2. Current \in [client : Open, cmds : CommandLines]
        BY <3>1, HeadTailProperties DEF OpenQueued, Current
      <3>. QED BY <3>2 DEF Open
    <2>2. \A c \in Clients : c # Current.client => reply'[c] = reply[c]
      BY <1>7, <2>1 DEF Answer, ToClient, TypeOK
    <2>3. peer[Current.client] # "end of file"
      BY <2>1 DEF Open, EndsAgree
    <2>. QED BY <1>7, <2>2, <2>3 DEF Answer, EndsAgree
  <1>8. CASE Sweep
    <2>1. \A c \in Clients : conn'[c] = IF c \in gFDRemoveQueue THEN "closed" ELSE conn[c]
      BY <1>8 DEF Sweep
    <2>2. \A c \in gFDRemoveQueue : c \in Clients /\ conn[c] = "open"
      BY <1>8 DEF Sweep, OpenQueued, Open
    <2>3. pc' # "ended" /\ UNCHANGED <<peer, reply, sent>>
      BY <1>8 DEF Sweep, AfterSweep
    <2>. QED BY <2>1, <2>2, <2>3 DEF EndsAgree
  <1>9. CASE NewCommandClient
    <2>1. backlog # <<>> /\ pc # "ended"
      BY <1>9 DEF NewCommandClient, Dispatching, ServerFirst
    <2>2. Head(backlog) \in Waiting
      BY <2>1, HeadTailProperties DEF OpenPolled
    <2>3. \A c \in Clients : conn'[c] = IF c = Head(backlog) THEN "open" ELSE conn[c]
      BY <1>9, <2>2 DEF NewCommandClient, TypeOK, Waiting
    <2>4. pc' = pc /\ UNCHANGED <<peer, reply, sent>>
      BY <1>9 DEF NewCommandClient
    <2>. QED BY <2>1, <2>2, <2>3, <2>4 DEF EndsAgree, Waiting
  <1>10. CASE End
    <2>1. \A c \in Clients : conn'[c] = IF conn[c] = "none" THEN "none" ELSE "closed"
      BY <1>10 DEF End
    <2>2. UNCHANGED <<peer, reply, sent>>
      BY <1>10 DEF End
    <2>. QED BY <2>1, <2>2 DEF EndsAgree
  <1>11. ASSUME NEW c \in Clients, Connect(c) PROVE EndsAgree'
    <2>1. \A d \in Clients : /\ conn'[d] = IF d = c THEN "backlog" ELSE conn[d]
                             /\ peer'[d] = IF d = c THEN "open" ELSE peer[d]
      BY <1>11 DEF Connect, TypeOK
    <2>2. pc' # "ended" /\ UNCHANGED <<reply, sent>>
      BY <1>11 DEF Connect
    <2>. QED BY <2>1, <2>2 DEF EndsAgree
  <1>12. ASSUME NEW c \in Clients, Write(c) PROVE EndsAgree'
    <2>1. \A d \in Clients : d # c => peer'[d] = peer[d] /\ sent'[d] = sent[d]
      BY <1>12 DEF Write, TypeOK
    <2>2. peer[c] = "open" /\ peer'[c] \in {"open", "hung up"} /\ UNCHANGED <<pc, conn, reply>>
      BY <1>12 DEF Write, TypeOK
    <2>. QED BY <2>1, <2>2 DEF EndsAgree
  <1>13. ASSUME NEW c \in Clients, Shutdown(c) \/ HangUp(c) PROVE EndsAgree'
    <2>1. \A d \in Clients : d # c => peer'[d] = peer[d]
      BY <1>13 DEF Shutdown, HangUp, TypeOK
    <2>2. /\ peer[c] \in {"open", "half"} /\ peer'[c] \in {"half", "hung up"}
          /\ UNCHANGED <<pc, conn, reply, sent>>
      BY <1>13 DEF Shutdown, HangUp, TypeOK
    <2>. QED BY <2>1, <2>2 DEF EndsAgree
  <1>14. ASSUME NEW c \in Clients, Read(c) PROVE EndsAgree'
    <2>1. UNCHANGED <<pc, conn, sent>> /\ peer[c] \in {"open", "half"}
      BY <1>14 DEF Read
    <2>2. CASE reply[c] # <<>>
      <3>1. \A d \in Clients : d # c => reply'[d] = reply[d]
        BY <1>14, <2>2 DEF Read, TypeOK
      <3>2. UNCHANGED peer
        BY <1>14, <2>2 DEF Read
      <3>. QED BY <2>1, <3>1, <3>2 DEF EndsAgree
    <2>3. CASE reply[c] = <<>>
      <3>1. \A d \in Clients : peer'[d] = IF d = c THEN "end of file" ELSE peer[d]
        BY <1>14, <2>3 DEF Read, TypeOK
      <3>2. UNCHANGED reply /\ conn[c] = "closed"
        BY <1>14, <2>3 DEF Read
      <3>. QED BY <2>1, <2>3, <3>1, <3>2 DEF EndsAgree
    <2>. QED BY <2>2, <2>3
  <1>. QED BY <1>2, <1>3, <1>4, <1>5, <1>6, <1>7, <1>8, <1>9, <1>10, <1>11, <1>12, <1>13, <1>14
           DEF Next, DaemonStep, ClientStep

(* Descriptors are added when accepted and removed when closed.            *)
LEMMA PolledKept ==
    TypeOK /\ ControlAgrees /\ ServerFirst /\ OpenPolled /\ OpenQueued /\ EndsAgree /\ [Next]_vars
        => OpenPolled'
  <1>. SUFFICES ASSUME TypeOK, ControlAgrees, ServerFirst, OpenPolled, OpenQueued, EndsAgree,
                       [Next]_vars
                PROVE  OpenPolled'
    OBVIOUS
  <1>. USE DEF daemonVars, pollVars, childVars, clientVars
  <1>1. ASSUME UNCHANGED <<conn, pfds, gFDAddQueue, backlog>>, pc = "ended" => pc' = "ended"
        PROVE  OpenPolled'
    BY <1>1 DEF OpenPolled, Open, Waiting
  <1>2. CASE UNCHANGED vars
    BY <1>1, <1>2 DEF vars
  <1>3. CASE RunCommand \/ EnterWait \/ WaitReturns \/ WaitAgain \/ EnterPoll \/ PollReturns
    BY <1>1, <1>3 DEF RunCommand, Busy, EnterWait, WaitReturns, WaitAgain, EnterPoll, PollReturns
  <1>4. CASE ShellCommand \/ DispatchDone \/ Answer
    BY <1>1, <1>4 DEF ShellCommand, Busy, DispatchDone, Answer
  <1>5. CASE HandleChild \/ Terminate \/ \E p \in Pids : ChildExits(p)
    BY <1>1, <1>5 DEF HandleChild, Terminate, Interrupted, ChildExits
  <1>6. ASSUME NEW c \in Clients,
               \/ GetlineBlocks(c) \/ ReadCommand(c)
               \/ Write(c) \/ Shutdown(c) \/ Read(c) \/ HangUp(c)
        PROVE  OpenPolled'
    BY <1>1, <1>6 DEF GetlineBlocks, ReadCommand, Dispatching, Write, Shutdown, Read, HangUp
  <1>7. CASE End
    BY <1>7 DEF End, OpenPolled
  <1>8. CASE Sweep
    <2>1. pc # "ended" /\ gFDAddQueue' = <<>> /\ UNCHANGED backlog
      BY <1>8 DEF Sweep
    <2>2. Tail(pfds') \in Seq(Open \cap ((Clients \cup {Server}) \ gFDRemoveQueue))
      BY <1>8, <2>1, SweepPolls DEF OpenPolled
    <2>3. \A c \in Clients : conn'[c] = IF c \in gFDRemoveQueue THEN "closed" ELSE conn[c]
      BY <1>8 DEF Sweep
    <2>4. Open \cap ((Clients \cup {Server}) \ gFDRemoveQueue) \subseteq Open'
      BY <2>3 DEF Open
    <2>5. Tail(pfds') \in Seq(Open')
      BY <2>2, <2>4, SeqMonotonic
    <2>6. Waiting \subseteq Waiting'
      BY <2>1, <2>3 DEF Waiting, Open, OpenQueued
    <2>7. backlog' \in Seq(Waiting')
      BY <2>1, <2>6, SeqMonotonic DEF OpenPolled
    <2>8. gFDAddQueue' \in Seq(Open')
      BY <2>1, EmptySeq
    <2>. QED BY <2>1, <2>5, <2>7, <2>8 DEF OpenPolled
  <1>9. CASE NewCommandClient
    <2>. DEFINE h == Head(backlog)
    <2>1. backlog # <<>> /\ pc # "ended"
      BY <1>9 DEF NewCommandClient, Dispatching, ServerFirst
    <2>2. backlog \in Seq(Waiting)
      BY <2>1 DEF OpenPolled
    <2>3. /\ h \in Waiting /\ h = backlog[1] /\ Tail(backlog) \in Seq(Waiting)
          /\ Len(Tail(backlog)) = Len(backlog) - 1 /\ Len(backlog) \in Nat \ {0}
          /\ \A i \in 1..Len(Tail(backlog)) : Tail(backlog)[i] = backlog[i + 1]
      BY <2>1, <2>2, HeadTailProperties, EmptySeq
    <2>4. \A c \in Clients : conn'[c] = IF c = h THEN "open" ELSE conn[c]
      BY <1>9, <2>3 DEF NewCommandClient, TypeOK, Waiting
    <2>. HIDE DEF h
    <2>5. Open \subseteq Open' /\ h \in Open' /\ Waiting \ {h} \subseteq Waiting'
      BY <2>3, <2>4 DEF Open, Waiting
    <2>6. Tail(pfds') \in Seq(Open') /\ gFDAddQueue' \in Seq(Open')
      <3>1. pfds' = pfds /\ gFDAddQueue' = Append(gFDAddQueue, h)
        BY <1>9 DEF NewCommandClient, h
      <3>2. Tail(pfds) \in Seq(Open') /\ gFDAddQueue \in Seq(Open')
        BY <2>1, <2>5, SeqMonotonic DEF OpenPolled
      <3>. QED BY <2>5, <3>1, <3>2, AppendProperties
    <2>7. \A i, j \in 1..Len(backlog) : backlog[i] = backlog[j] => i = j
      BY <2>1 DEF OpenPolled
    <2>8. backlog' = Tail(backlog)
      BY <1>9 DEF NewCommandClient
    <2>9. backlog' \in Seq(Waiting')
      <3>1. \A i \in 1..Len(Tail(backlog)) : Tail(backlog)[i] \in Waiting \ {h}
        <4>. SUFFICES ASSUME NEW i \in 1..Len(Tail(backlog)) PROVE Tail(backlog)[i] \in Waiting \ {h}
          OBVIOUS
        <4>1. i + 1 \in 1..Len(backlog) /\ 1 \in 1..Len(backlog) /\ i + 1 # 1
          BY <2>3
        <4>2. backlog[i + 1] # backlog[1]
          BY <2>7, <4>1
        <4>. QED BY <2>2, <2>3, <4>1, <4>2
      <3>2. Tail(backlog) \in Seq(Waiting \ {h})
        BY <2>3, <3>1, SeqOfElements
      <3>. QED BY <2>5, <2>8, <3>2, SeqMonotonic
    <2>10. \A i, j \in 1..Len(backlog') : backlog'[i] = backlog'[j] => i = j
      <3>. SUFFICES ASSUME NEW i \in 1..Len(backlog'), NEW j \in 1..Len(backlog'),
                           backlog'[i] = backlog'[j]
                    PROVE  i = j
        OBVIOUS
      <3>1. i + 1 \in 1..Len(backlog) /\ j + 1 \in 1..Len(backlog) /\ backlog[i + 1] = backlog[j + 1]
        BY <2>3, <2>8
      <3>2. i + 1 = j + 1
        BY <2>7, <3>1
      <3>. QED BY <3>2
    <2>. QED BY <2>6, <2>9, <2>10 DEF OpenPolled
  <1>10. ASSUME NEW c \in Clients, Connect(c) PROVE OpenPolled'
    <2>1. pc # "ended" /\ backlog' = Append(backlog, c) /\ UNCHANGED <<pfds, gFDAddQueue>>
      BY <1>10 DEF Connect
    <2>2. conn[c] = "none"
      BY <1>10 DEF Connect, EndsAgree
    <2>3. \A d \in Clients : conn'[d] = IF d = c THEN "backlog" ELSE conn[d]
      BY <1>10 DEF Connect, TypeOK
    <2>4. Open' = Open /\ Waiting \subseteq Waiting' /\ c \in Waiting' /\ c \notin Waiting
      BY <2>2, <2>3 DEF Open, Waiting
    <2>5. backlog \in Seq(Waiting) /\ backlog \in Seq(Waiting')
      BY <2>1, <2>4, SeqMonotonic DEF OpenPolled
    <2>6. /\ backlog' \in Seq(Waiting') /\ Len(backlog') = Len(backlog) + 1
          /\ \A i \in 1..Len(backlog) : backlog'[i] = backlog[i]
          /\ backlog'[Len(backlog) + 1] = c /\ Len(backlog) \in Nat
      BY <2>1, <2>4, <2>5, AppendProperties, LenProperties
    <2>7. \A i \in 1..Len(backlog) : backlog[i] # c
      BY <2>4, <2>5, ElementOfSeq
    <2>8. \A i, j \in 1..Len(backlog) : backlog[i] = backlog[j] => i = j
      BY <2>1 DEF OpenPolled
    <2>9. ASSUME NEW i \in 1..Len(backlog'), NEW j \in 1..Len(backlog'), backlog'[i] = backlog'[j]
          PROVE  i = j
      <3>1. CASE i \in 1..Len(backlog) /\ j \in 1..Len(backlog)
        BY <2>6, <2>8, <2>9, <3>1
      <3>2. CASE i = Len(backlog) + 1 \/ j = Len(backlog) + 1
        BY <2>6, <2>7, <2>9, <3>2
      <3>. QED BY <2>6, <3>1, <3>2
    <2>10. Tail(pfds') \in Seq(Open') /\ gFDAddQueue' \in Seq(Open')
      BY <2>1, <2>4 DEF OpenPolled
    <2>. QED BY <2>6, <2>9, <2>10 DEF OpenPolled
  <1>. QED BY <1>2, <1>3, <1>4, <1>5, <1>6, <1>7, <1>8, <1>9, <1>10
           DEF Next, DaemonStep, ClientStep

(* What poll reported is dispatched from the front; connections are closed *)
(* when nothing is left of it.                                             *)
LEMMA ReportedKept ==
    TypeOK /\ ControlAgrees /\ ServerFirst /\ OpenPolled /\ OpenReported /\ EndsAgree /\ [Next]_vars
        => OpenReported'
  <1>. SUFFICES ASSUME TypeOK, ControlAgrees, ServerFirst, OpenPolled, OpenReported, EndsAgree,
                       [Next]_vars
                PROVE  OpenReported'
    OBVIOUS
  <1>. USE DEF daemonVars, pollVars, childVars, clientVars
  <1>1. ASSUME Open \subseteq Open', Shut \subseteq Shut' PROVE ClientEvents \subseteq ClientEvents'
    BY <1>1 DEF ClientEvents
  <1>2. ASSUME Open \subseteq Open', Shut \subseteq Shut', UNCHANGED revents PROVE OpenReported'
    <2>. SUFFICES ASSUME revents # <<>>
                  PROVE  /\ Head(revents).fd = Server \/ Head(revents) \in ClientEvents'
                         /\ Tail(revents) \in Seq(ClientEvents')
      BY <1>2 DEF OpenReported
    <2>. QED BY <1>1, <1>2, SeqMonotonic DEF OpenReported
  <1>3. ASSUME Open \subseteq Open', Shut \subseteq Shut', revents # <<>>, revents' = Tail(revents)
        PROVE  OpenReported'
    <2>. SUFFICES ASSUME revents' # <<>>
                  PROVE  Head(revents') \in ClientEvents' /\ Tail(revents') \in Seq(ClientEvents')
      BY DEF OpenReported
    <2>1. revents' \in Seq(ClientEvents)
      BY <1>3 DEF OpenReported
    <2>2. revents' \in Seq(ClientEvents')
      BY <1>1, <1>3, <2>1, SeqMonotonic
    <2>. QED BY <2>2, HeadTailProperties
  <1>4. ASSUME revents' = <<>> PROVE OpenReported'
    BY <1>4 DEF OpenReported
  <1>5. CASE UNCHANGED vars
    BY <1>2, <1>5 DEF vars, Open, Shut
  <1>6. CASE \/ RunCommand \/ EnterWait \/ WaitReturns \/ WaitAgain \/ EnterPoll \/ ShellCommand
             \/ Answer \/ HandleChild \/ Terminate \/ \E p \in Pids : ChildExits(p)
    <2>1. UNCHANGED <<conn, peer, revents>>
      BY <1>6 DEF RunCommand, EnterWait, WaitReturns, WaitAgain, EnterPoll, ShellCommand, Answer,
                  HandleChild, Terminate, ChildExits
    <2>. QED BY <1>2, <2>1 DEF Open, Shut
  <1>7. CASE Sweep \/ DispatchDone \/ End
    BY <1>4, <1>7 DEF Sweep, DispatchDone, End, ControlAgrees
  <1>8. CASE PollReturns
    <2>. DEFINE R == {e \in Events : e.fd \in Open /\ e.flags = Reported(e.fd)}
    <2>1. Tail(pfds) \in Seq(Open)
      BY <1>8 DEF PollReturns, OpenPolled
    <2>2. R \subseteq ClientEvents
      <3>. SUFFICES ASSUME NEW e \in R PROVE e \in ClientEvents
        OBVIOUS
      <3>1. /\ e \in [fd : Clients \cup {Server}, flags : Flags]
            /\ e.fd \in Open /\ e.flags = Reported(e.fd)
        BY DEF Events, Flags
      <3>2. e.fd \in Clients /\ e.fd # Server
        BY <3>1, CommandsAssumption DEF Open
      <3>3. "HUP" \in e.flags => e.fd \in Shut
        BY <3>1, <3>2 DEF Shut, Reported
      <3>4. e \in [fd : Open, flags : Flags]
        BY <3>1
      <3>. QED BY <3>3, <3>4 DEF ClientEvents
    <2>3. /\ revents' # <<>> => Tail(revents') \in Seq(R)
          /\ revents' # <<>> => Head(revents').fd = Server \/ Head(revents') \in R
      BY <1>8, <2>1, PollReports
    <2>4. ClientEvents' = ClientEvents
      BY <1>8 DEF PollReturns, ClientEvents, Open, Shut
    <2>. HIDE DEF R
    <2>. QED BY <2>2, <2>3, <2>4, SeqMonotonic DEF OpenReported
  <1>9. CASE NewCommandClient
    <2>1. revents # <<>> /\ revents' = Tail(revents) /\ UNCHANGED peer
          /\ conn' = [conn EXCEPT ![Head(backlog)] = "open"]
      BY <1>9 DEF NewCommandClient, Dispatching
    <2>2. Open \subseteq Open' /\ Shut \subseteq Shut'
      BY <2>1 DEF Open, Shut, TypeOK
    <2>. QED BY <1>3, <2>1, <2>2
  <1>10. ASSUME NEW c \in Clients, ReadCommand(c) PROVE OpenReported'
    <2>1. revents # <<>> /\ revents' = Tail(revents) /\ UNCHANGED <<conn, peer>>
      BY <1>10 DEF ReadCommand, Dispatching, ControlAgrees
    <2>. QED BY <1>3, <2>1 DEF Open, Shut
  <1>11. ASSUME NEW c \in Clients, GetlineBlocks(c) PROVE OpenReported'
    <2>1. UNCHANGED <<conn, peer, revents>>
      BY <1>11 DEF GetlineBlocks
    <2>. QED BY <1>2, <2>1 DEF Open, Shut
  <1>12. ASSUME NEW c \in Clients, Connect(c) PROVE OpenReported'
    <2>1. conn[c] = "none" /\ peer[c] = "off" /\ UNCHANGED revents
      BY <1>12 DEF Connect, EndsAgree
    <2>2. \A d \in Clients : d # c => conn'[d] = conn[d] /\ peer'[d] = peer[d]
      BY <1>12 DEF Connect, TypeOK
    <2>3. Open \subseteq Open' /\ Shut \subseteq Shut'
      BY <2>1, <2>2 DEF Open, Shut
    <2>. QED BY <1>2, <2>1, <2>3
  <1>13. ASSUME NEW c \in Clients, Write(c) \/ Shutdown(c) \/ Read(c) \/ HangUp(c)
         PROVE  OpenReported'
    <2>1. UNCHANGED <<conn, revents>> /\ c \notin Shut
      BY <1>13 DEF Write, Shutdown, Read, HangUp, Shut
    <2>2. \A d \in Clients : d # c => peer'[d] = peer[d]
      BY <1>13 DEF Write, Shutdown, Read, HangUp, TypeOK
    <2>3. Open \subseteq Open' /\ Shut \subseteq Shut'
      BY <2>1, <2>2 DEF Open, Shut
    <2>. QED BY <1>2, <2>1, <2>3
  <1>. QED BY <1>5, <1>6, <1>7, <1>8, <1>9, <1>10, <1>11, <1>12, <1>13
           DEF Next, DaemonStep, ClientStep

(* Only a client with an open connection is read from.                     *)
LEMMA ReadsOpen ==
    ASSUME TypeOK, ControlAgrees, OpenReported, NEW c \in Clients,
           ReadCommand(c) \/ GetlineBlocks(c)
    PROVE  /\ c \in Open /\ revents # <<>> /\ pc # "ended" /\ Head(revents).fd = c
           /\ "HUP" \in Head(revents).flags => c \in Shut
  <1>1. revents # <<>> /\ pc # "ended" /\ Head(revents).fd = c
    BY DEF ReadCommand, GetlineBlocks, Dispatching, ControlAgrees
  <1>2. Head(revents) \in ClientEvents
    BY <1>1, CommandsAssumption DEF OpenReported
  <1>. QED BY <1>1, <1>2 DEF ClientEvents

(* readCommand takes a line off the front of what is unread.               *)
LEMMA ReadEffect ==
    ASSUME TypeOK, NEW c \in Clients, ReadCommand(c)
    PROVE  /\ Taken(Available(c)) \in 0..Len(Unread(c))
           /\ Unread(c)' = SubSeq(Unread(c), Taken(Available(c)) + 1, Len(Unread(c)))
           /\ Available(c) = <<>> => Unread(c) = <<>> /\ peer[c] # "open"
           /\ Available(c) # <<>> =>
                 /\ Unread(c) # <<>> /\ Line(Available(c)) = Unread(c)[1]
                 /\ IF Unread(c)[1] = NL \/ Len(Unread(c)) = 1 THEN Taken(Available(c)) = 1
                    ELSE Taken(Available(c)) \in 1..2
           /\ \A d \in Clients \ {c} : Unread(d)' = Unread(d)
  <1>. DEFINE all == Available(c)
              u == Unread(c)
              L == Seq(Commands)
  <1>1. file[c] \in Seq(L) /\ sock[c] \in Seq(L) /\ u \in Seq(L)
    BY ConcatProperties DEF TypeOK, Unread
  <1>2. /\ file' = [file EXCEPT ![c] = SubSeq(all, Taken(all) + 1, Len(all))]
        /\ sock' = [sock EXCEPT ![c] = IF Contains(file[c], NL) THEN sock[c] ELSE <<>>]
    BY DEF ReadCommand
  <1>3. \A d \in Clients \ {c} : Unread(d)' = Unread(d)
    <2>. HIDE DEF all
    <2>. QED BY <1>2 DEF Unread, TypeOK
  <1>4. /\ file'[c] = SubSeq(all, Taken(all) + 1, Len(all))
        /\ sock'[c] = IF Contains(file[c], NL) THEN sock[c] ELSE <<>>
        /\ Unread(c)' = file'[c] \o sock'[c]
    <2>. HIDE DEF all
    <2>. QED BY <1>2 DEF Unread, TypeOK
  <1>5. /\ all \in Seq(L) /\ Len(all) \in Nat /\ Len(u) \in Nat
        /\ Len(all) <= Len(u) /\ \A i \in 1..Len(all) : all[i] = u[i]
        /\ all = <<>> => Len(u) = 0
    <2>1. CASE Contains(file[c], NL)
      <3>1. all = file[c]
        BY <2>1 DEF Available
      <3>2. Len(file[c]) # 0 /\ Len(file[c]) \in Nat /\ Len(sock[c]) \in Nat
        <4>1. PICK i \in 1..Len(file[c]) : file[c][i] = NL
          BY <2>1 DEF Contains
        <4>. QED BY <1>1, <4>1, LenProperties
      <3>3. Len(u) = Len(file[c]) + Len(sock[c]) /\ \A i \in 1..Len(file[c]) : u[i] = file[c][i]
        <4>1. u = file[c] \o sock[c]
          BY DEF Unread
        <4>2. file[c] \in Seq(L) /\ sock[c] \in Seq(L)
          BY <1>1
        <4>. HIDE DEF u, L
        <4>. DEFINE a == file[c]
                    b == sock[c]
        <4>3. a \in Seq(L) /\ b \in Seq(L) /\ u = a \o b
          BY <4>1, <4>2
        <4>. HIDE DEF a, b
        <4>4. Len(u) = Len(a) + Len(b) /\ \A i \in 1..Len(a) : u[i] = a[i]
          BY <4>3, ConcatParts
        <4>. QED BY <4>4 DEF a, b
      <3>4. file[c] # <<>>
        BY <1>1, <3>2
      <3>. HIDE DEF all, u
      <3>5. all \in Seq(L) /\ all # <<>> /\ Len(all) \in Nat
        BY <1>1, <3>1, <3>2, <3>4
      <3>6. Len(u) \in Nat /\ Len(all) <= Len(u)
        <4>. DEFINE m == Len(all)
                    n == Len(sock[c])
                    k == Len(u)
        <4>1. m \in Nat /\ n \in Nat /\ k = m + n
          BY <3>1, <3>2, <3>3
        <4>. HIDE DEF m, n, k
        <4>2. k \in Nat /\ m <= k
          BY <4>1
        <4>. QED BY <4>2 DEF m, k
      <3>7. \A i \in 1..Len(all) : all[i] = u[i]
        BY <3>1, <3>3
      <3>. QED BY <3>5, <3>6, <3>7
    <2>2. CASE ~Contains(file[c], NL)
      <3>1. all = u
        BY <2>2 DEF Available, Unread
      <3>. HIDE DEF all, u
      <3>. QED BY <1>1, <3>1
    <2>. QED BY <2>1, <2>2
  <1>. HIDE DEF L
  <1>6. Taken(all) \in 0..Len(all) /\ (all # <<>> => Taken(all) \in 1..2)
    <2>. HIDE DEF all
    <2>1. Len(all) \in Nat /\ (all = <<>> <=> Len(all) = 0)
      BY <1>5, EmptySeq
    <2>2. CASE all = <<>>
      BY <2>1, <2>2 DEF Taken
    <2>3. CASE all # <<>>
      <3>1. Len(all) # 0
        BY <2>1, <2>3
      <3>2. Taken(all) \in {1, 2} /\ (Taken(all) = 2 => Len(all) # 1)
        BY <2>3 DEF Taken
      <3>. DEFINE n == Len(all)
                  k == Taken(all)
      <3>3. n \in Nat /\ n # 0 /\ k \in {1, 2} /\ (k = 2 => n # 1)
        BY <2>1, <3>1, <3>2
      <3>. HIDE DEF n, k
      <3>4. k \in 0..n /\ k \in 1..2
        BY <3>3
      <3>. QED BY <3>4 DEF n, k
    <2>. QED BY <2>2, <2>3
  <1>7. Unread(c)' = SubSeq(u, Taken(all) + 1, Len(u))
    <2>1. CASE Contains(file[c], NL)
      <3>1. all = file[c] /\ u = file[c] \o sock[c]
        BY <1>1, <2>1 DEF Available, Unread
      <3>. DEFINE n == Taken(all)
      <3>2. Unread(c)' = SubSeq(file[c], n + 1, Len(file[c])) \o sock[c] /\ n \in 0..Len(file[c])
        BY <1>4, <1>6, <2>1, <3>1
      <3>3. SubSeq(file[c], n + 1, Len(file[c])) \o sock[c]
              = SubSeq(file[c] \o sock[c], n + 1, Len(file[c] \o sock[c]))
        <4>. HIDE DEF n
        <4>. QED BY <1>1, <3>2, DropFromFirst
      <3>. HIDE DEF all, u, n
      <3>. QED BY <3>1, <3>2, <3>3 DEF n
    <2>2. CASE ~Contains(file[c], NL)
      <3>1. all = u
        BY <2>2 DEF Available, Unread
      <3>. DEFINE rest == SubSeq(u, Taken(all) + 1, Len(u))
      <3>2. Unread(c)' = rest \o <<>>
        <4>. HIDE DEF u, all
        <4>. QED BY <1>4, <2>2, <3>1
      <3>3. rest \in Seq(L)
        <4>1. \A i \in (Taken(all) + 1)..Len(u) : u[i] \in L
          <5>. HIDE DEF u, all
          <5>. QED BY <1>1, <1>6
        <4>2. Taken(all) + 1 \in Int /\ Len(u) \in Int
          <5>. HIDE DEF u, all
          <5>. QED BY <1>5, <1>6
        <4>. HIDE DEF u, all
        <4>. QED BY <4>1, <4>2, SubSeqProperties
      <3>. HIDE DEF rest
      <3>4. rest \o <<>> = rest
        BY <3>3, ConcatEmptySeq
      <3>. QED BY <3>2, <3>4 DEF rest
    <2>. QED BY <2>1, <2>2
  <1>8. all = <<>> => u = <<>> /\ peer[c] # "open"
    <2>. SUFFICES ASSUME all = <<>> PROVE u = <<>> /\ peer[c] # "open"
      OBVIOUS
    <2>1. u = <<>>
      <3>. HIDE DEF u, all
      <3>. QED BY <1>1, <1>5, EmptySeq
    <2>2. ~Contains(all, NL)
      <3>. HIDE DEF u, all
      <3>. QED BY <1>5 DEF Contains
    <2>. QED BY <2>1, <2>2 DEF ReadCommand, LineReady
  <1>. HIDE DEF all, u
  <1>9. all # <<>> =>
          /\ u # <<>> /\ Line(all) = u[1]
          /\ IF u[1] = NL \/ Len(u) = 1 THEN Taken(all) = 1 ELSE Taken(all) \in 1..2
    <2>. SUFFICES ASSUME all # <<>>
                  PROVE  /\ u # <<>> /\ Line(all) = u[1]
                         /\ IF u[1] = NL \/ Len(u) = 1 THEN Taken(all) = 1 ELSE Taken(all) \in 1..2
      OBVIOUS
    <2>1. Len(all) # 0 /\ all[1] = u[1] /\ Len(u) # 0
      BY <1>5, EmptySeq
    <2>2. Len(u) = 1 => Len(all) = 1
      <3>1. Len(all) \in Nat /\ Len(u) \in Nat /\ Len(all) <= Len(u)
        BY <1>5
      <3>. QED BY <2>1, <3>1
    <2>. QED BY <1>1, <1>6, <2>1, <2>2 DEF Line, Taken
  <1>10. Taken(all) \in 0..Len(u)
    BY <1>5, <1>6
  <1>. QED BY <1>3, <1>7, <1>8, <1>9, <1>10 DEF all, u

(* Whose line is next is queued, with a line.                              *)
LEMMA CurrentQueued ==
    ASSUME TypeOK, ControlAgrees, OpenQueued, pc = "answer"
    PROVE  /\ gCommandQueue # <<>> /\ Current.client \in Open /\ Current.cmds \in CommandLines
           /\ Tail(gCommandQueue) \in Seq([client : Open, cmds : CommandLines])
           /\ Rest \in Seq(Commands)
  <1>1. gCommandQueue # <<>> /\ pc # "ended"
    BY DEF ControlAgrees
  <1>2. Current \in [client : Open, cmds : CommandLines]
        /\ Tail(gCommandQueue) \in Seq([client : Open, cmds : CommandLines])
    BY <1>1, HeadTailProperties DEF OpenQueued, Current
  <1>3. Current.cmds \in Seq(Commands) \ {<<>>}
    BY <1>2 DEF CommandLines, NL
  <1>4. Rest \in Seq(Commands)
    BY <1>3, HeadTailProperties, EmptySeq DEF Rest
  <1>. QED BY <1>1, <1>2, <1>4

(* Lines are queued for open connections, and descriptors removed of them. *)
LEMMA QueuedKept ==
    /\ TypeOK /\ ControlAgrees /\ ServerFirst /\ OpenPolled /\ OpenReported /\ OpenQueued
    /\ EndsAgree /\ [Next]_vars
    => OpenQueued'
  <1>. SUFFICES ASSUME TypeOK, ControlAgrees, ServerFirst, OpenPolled, OpenReported, OpenQueued,
                       EndsAgree, [Next]_vars
                PROVE  OpenQueued'
    OBVIOUS
  <1>. USE DEF daemonVars, pollVars, childVars, clientVars
  <1>. DEFINE Items(S) == [client : S, cmds : CommandLines]
  <1>1. ASSUME Open \subseteq Open', UNCHANGED <<gCommandQueue, gFDRemoveQueue>>,
               pc = "ended" => pc' = "ended"
        PROVE  OpenQueued'
    <2>1. Items(Open) \subseteq Items(Open')
      BY <1>1
    <2>. HIDE DEF Items
    <2>2. gCommandQueue \in Seq(Items(Open)) => gCommandQueue \in Seq(Items(Open'))
      BY <2>1, SeqMonotonic
    <2>. QED BY <1>1, <2>2 DEF OpenQueued, Items
  <1>2. CASE UNCHANGED vars
    BY <1>1, <1>2 DEF vars, Open
  <1>3. CASE RunCommand \/ EnterWait \/ WaitReturns \/ WaitAgain \/ EnterPoll \/ PollReturns
    BY <1>1, <1>3 DEF RunCommand, Busy, EnterWait, WaitReturns, WaitAgain, EnterPoll, PollReturns, Open
  <1>4. CASE ShellCommand \/ DispatchDone
    BY <1>1, <1>4 DEF ShellCommand, Busy, DispatchDone, Open
  <1>5. CASE HandleChild \/ Terminate \/ \E p \in Pids : ChildExits(p)
    BY <1>1, <1>5 DEF HandleChild, Terminate, Interrupted, ChildExits, Open
  <1>6. ASSUME NEW c \in Clients,
               GetlineBlocks(c) \/ Write(c) \/ Shutdown(c) \/ Read(c) \/ HangUp(c)
        PROVE  OpenQueued'
    BY <1>1, <1>6 DEF GetlineBlocks, Dispatching, Write, Shutdown, Read, HangUp, Open
  <1>7. CASE End
    BY <1>7 DEF End, OpenQueued
  <1>8. CASE Sweep
    <2>1. gCommandQueue' = <<>> /\ gFDRemoveQueue' = {}
      BY <1>8 DEF Sweep
    <2>. QED BY <2>1, EmptySeq DEF OpenQueued
  <1>9. CASE NewCommandClient
    <2>1. Open \subseteq Open' /\ UNCHANGED <<gCommandQueue, gFDRemoveQueue, pc>>
      BY <1>9 DEF NewCommandClient, Open, TypeOK
    <2>. QED BY <1>1, <2>1
  <1>10. ASSUME NEW c \in Clients, Connect(c) PROVE OpenQueued'
    <2>1. conn[c] = "none" /\ UNCHANGED <<gCommandQueue, gFDRemoveQueue, pc>>
      BY <1>10 DEF Connect, EndsAgree
    <2>2. \A d \in Clients : d # c => conn'[d] = conn[d]
      BY <1>10 DEF Connect, TypeOK
    <2>3. Open \subseteq Open'
      BY <2>1, <2>2 DEF Open
    <2>. QED BY <1>1, <2>1, <2>3
  <1>11. CASE Answer
    <2>. DEFINE c == Current.client
                queue == Tail(gCommandQueue)
    <2>1. pc = "answer" /\ UNCHANGED conn
      BY <1>11 DEF Answer
    <2>2. c \in Open /\ queue \in Seq(Items(Open)) /\ Rest \in Seq(Commands)
      BY <2>1, CurrentQueued
    <2>3. gFDRemoveQueue' \subseteq Open
      BY <1>11, <2>1, <2>2 DEF Answer, ToClient, OpenQueued
    <2>4. gCommandQueue' \in Seq(Items(Open))
      <3>. DEFINE x == [client |-> c, cmds |-> Rest]
      <3>1. gCommandQueue' = (IF Rest = <<>> THEN <<>> ELSE <<x>>) \o queue
        BY <1>11 DEF Answer, RestOfQueue
      <3>2. Rest # <<>> => x \in Items(Open)
        <4>. HIDE DEF c
        <4>. QED BY <2>2 DEF CommandLines, NL
      <3>3. (IF Rest = <<>> THEN <<>> ELSE <<x>>) \in Seq(Items(Open))
        <4>. HIDE DEF x, Items
        <4>. QED BY <3>2
      <3>. HIDE DEF x, Items, queue
      <3>. QED BY <2>2, <3>1, <3>3, ConcatProperties
    <2>5. Open' = Open
      BY <2>1 DEF Open
    <2>. QED BY <2>3, <2>4, <2>5 DEF OpenQueued
  <1>12. ASSUME NEW c \in Clients, ReadCommand(c) PROVE OpenQueued'
    <2>. DEFINE line == Line(Available(c))
                x == [client |-> c, cmds |-> line]
    <2>1. c \in Open /\ pc # "ended"
      BY <1>12, ReadsOpen
    <2>2. Open' = Open /\ gFDRemoveQueue' \subseteq Open
      BY <1>12, <2>1 DEF ReadCommand, OpenQueued, Open
    <2>3. line \in Seq(Commands)
      <3>1. Available(c) \in Seq(Seq(Commands))
        BY ConcatProperties DEF Available, TypeOK
      <3>. QED BY <3>1, LinesTyped
    <2>4. line # <<>> => x \in Items(Open)
      <3>. HIDE DEF line
      <3>. QED BY <2>1, <2>3 DEF CommandLines, NL
    <2>5. gCommandQueue' = IF line = <<>> THEN gCommandQueue ELSE Append(gCommandQueue, x)
      BY <1>12 DEF ReadCommand
    <2>6. gCommandQueue \in Seq(Items(Open))
      BY <2>1 DEF OpenQueued
    <2>7. gCommandQueue' \in Seq(Items(Open))
      <3>. HIDE DEF line, x, Items
      <3>. QED BY <2>4, <2>5, <2>6, AppendProperties
    <2>. QED BY <2>2, <2>7 DEF OpenQueued
  <1>. QED BY <1>2, <1>3, <1>4, <1>5, <1>6, <1>7, <1>8, <1>9, <1>10, <1>11, <1>12
           DEF Next, DaemonStep, ClientStep

(* What of the stream is unread, for a client whose part is k + 1..n.      *)
UnreadFrom(c, k) == k \in 0..sent[c] /\ Unread(c) = SubSeq(Stream[c], k + 1, sent[c])

(* A client writes at the end, the daemon reads at the front or forgets.   *)
LEMMA UnreadKept ==
    TypeOK /\ UnreadIsRest /\ [Next]_vars => UnreadIsRest'
  <1>. SUFFICES ASSUME TypeOK, UnreadIsRest, [Next]_vars, NEW c \in Clients
                PROVE  sent'[c] \in 0..Len(Stream[c]) /\ \E k : UnreadFrom(c, k)'
    BY DEF UnreadIsRest, UnreadFrom
  <1>. USE DEF daemonVars, pollVars, childVars, clientVars
  <1>0. Stream[c] \in Seq(Seq(Commands)) /\ sent[c] \in 0..Len(Stream[c]) /\ Len(Stream[c]) \in Nat
    BY CommandsAssumption, LenProperties DEF UnreadIsRest
  <1>1. PICK k \in 0..sent[c] : Unread(c) = SubSeq(Stream[c], k + 1, sent[c])
    BY DEF UnreadIsRest
  <1>2. ASSUME file'[c] = file[c], sock'[c] = sock[c], sent'[c] = sent[c]
        PROVE  sent'[c] \in 0..Len(Stream[c]) /\ \E l : UnreadFrom(c, l)'
    BY <1>0, <1>1, <1>2 DEF UnreadFrom, Unread
  <1>3. CASE UNCHANGED vars
    BY <1>2, <1>3 DEF vars
  <1>4. CASE \/ RunCommand \/ EnterWait \/ WaitReturns \/ WaitAgain \/ EnterPoll \/ ShellCommand
             \/ PollReturns \/ DispatchDone \/ NewCommandClient \/ End \/ Answer
    BY <1>2, <1>4 DEF RunCommand, EnterWait, WaitReturns, WaitAgain, EnterPoll, ShellCommand,
                      PollReturns, DispatchDone, NewCommandClient, End, Answer
  <1>5. CASE HandleChild \/ Terminate \/ \E p \in Pids : ChildExits(p)
    BY <1>2, <1>5 DEF HandleChild, Terminate, ChildExits
  <1>6. ASSUME NEW d \in Clients,
               GetlineBlocks(d) \/ Connect(d) \/ Shutdown(d) \/ Read(d) \/ HangUp(d)
        PROVE  sent'[c] \in 0..Len(Stream[c]) /\ \E l : UnreadFrom(c, l)'
    BY <1>2, <1>6 DEF GetlineBlocks, Connect, Shutdown, Read, HangUp
  <1>7. CASE Sweep
    <2>1. CASE c \notin gFDRemoveQueue
      BY <1>2, <1>7, <2>1 DEF Sweep
    <2>2. CASE c \in gFDRemoveQueue
      <3>1. file'[c] = <<>> /\ sock'[c] = <<>> /\ sent'[c] = sent[c]
        BY <1>7, <2>2 DEF Sweep
      <3>2. Unread(c)' = <<>>
        BY <3>1 DEF Unread
      <3>3. SubSeq(Stream[c], sent[c] + 1, sent[c]) = <<>>
        BY <1>0, SubSeqEmpty
      <3>4. UnreadFrom(c, sent[c])'
        BY <1>0, <3>1, <3>2, <3>3 DEF UnreadFrom
      <3>. QED BY <1>0, <3>1, <3>4
    <2>. QED BY <2>1, <2>2
  <1>8. ASSUME NEW d \in Clients, ReadCommand(d)
        PROVE  sent'[c] \in 0..Len(Stream[c]) /\ \E l : UnreadFrom(c, l)'
    <2>0. sent'[c] = sent[c]
      BY <1>8 DEF ReadCommand
    <2>1. CASE d # c
      BY <1>0, <1>1, <1>8, <2>0, <2>1, ReadEffect DEF UnreadFrom
    <2>2. CASE d = c
      <3>. DEFINE j == Taken(Available(c))
                  u == Unread(c)
      <3>1. j \in 0..Len(u) /\ Unread(c)' = SubSeq(u, j + 1, Len(u))
        BY <1>8, <2>2, ReadEffect
      <3>2. u = SubSeq(Stream[c], k + 1, sent[c])
        BY <1>1
      <3>. HIDE DEF j, u
      <3>3. k + j \in 0..sent[c] /\ SubSeq(u, j + 1, Len(u)) = SubSeq(Stream[c], (k + j) + 1, sent[c])
        <4>. DEFINE s == Stream[c]
                    n == sent[c]
                    L == Seq(Commands)
        <4>1. s \in Seq(L) /\ n \in 0..Len(s) /\ k \in 0..n /\ j \in 0..Len(u)
          BY <1>0, <1>1, <3>1
        <4>2. u = Behind(s, k, n)
          BY <3>2 DEF Behind
        <4>. HIDE DEF s, n, L
        <4>3. k + j \in 0..n /\ Behind(u, j, Len(u)) = Behind(s, k + j, n)
          BY <4>1, <4>2, BehindBehind
        <4>. QED BY <4>3 DEF s, n, Behind
      <3>4. PICK l \in 0..sent[c] : l = k + j
        BY <3>3
      <3>5. UnreadFrom(c, l)'
        BY <2>0, <3>1, <3>3, <3>4 DEF UnreadFrom
      <3>. QED BY <1>0, <2>0, <3>5
    <2>. QED BY <2>1, <2>2
  <1>9. ASSUME NEW d \in Clients, Write(d)
        PROVE  sent'[c] \in 0..Len(Stream[c]) /\ \E l : UnreadFrom(c, l)'
    <2>1. CASE d # c \/ conn[d] = "closed"
      <3>1. file'[c] = file[c] /\ sock'[c] = sock[c] /\ sent'[c] = sent[c]
        BY <1>9, <2>1 DEF Write, TypeOK
      <3>. QED BY <1>2, <3>1
    <2>2. CASE d = c /\ conn[d] # "closed"
      <3>. DEFINE n == sent[c]
                  x == Stream[c][n + 1]
      <3>1. /\ file'[c] = file[c] /\ sock'[c] = Append(sock[c], x)
            /\ sent'[c] = n + 1 /\ n < Len(Stream[c])
        BY <1>9, <2>2 DEF Write, TypeOK
      <3>2. n \in 0..(Len(Stream[c]) - 1)
        BY <1>0, <3>1
      <3>3. x \in Seq(Commands)
        <4>1. n + 1 \in 1..Len(Stream[c])
          BY <1>0, <3>2
        <4>. QED BY <1>0, <4>1, ElementOfSeq
      <3>4. Append(SubSeq(Stream[c], k + 1, n), x) = SubSeq(Stream[c], k + 1, n + 1)
        <4>1. k \in 0..n
          BY <1>1
        <4>. QED BY <1>0, <3>2, <4>1, RestGrows
      <3>5. Unread(c)' = Append(Unread(c), x)
        <4>1. Unread(c)' = file[c] \o Append(sock[c], x)
          BY <3>1 DEF Unread
        <4>2. Attach(Joined(file[c], sock[c]), x) = Joined(file[c], Attach(sock[c], x))
          <5>. HIDE DEF x, n
          <5>1. file[c] \in Seq(Seq(Commands)) /\ sock[c] \in Seq(Seq(Commands))
            BY DEF TypeOK
          <5>. QED BY <3>3, <5>1, AttachJoined
        <4>. HIDE DEF x, n
        <4>. QED BY <4>1, <4>2 DEF Attach, Joined, Unread
      <3>6. Unread(c)' = SubSeq(Stream[c], k + 1, n + 1)
        <4>. HIDE DEF x, n
        <4>. QED BY <1>1, <3>4, <3>5 DEF n
      <3>7. k \in 0..(n + 1) /\ n + 1 \in 0..Len(Stream[c])
        BY <1>0, <1>1, <3>2
      <3>8. UnreadFrom(c, k)'
        BY <3>1, <3>6, <3>7 DEF UnreadFrom
      <3>. QED BY <3>1, <3>7, <3>8
    <2>. QED BY <2>1, <2>2
  <1>. QED BY <1>3, <1>4, <1>5, <1>6, <1>7, <1>8, <1>9
           DEF Next, DaemonStep, ClientStep

(* A connection is given up when its client is read to the end, or hung up. *)
LEMMA RemovedKept ==
    /\ TypeOK /\ ControlAgrees /\ ServerFirst /\ OpenReported /\ OpenQueued /\ EndsAgree
    /\ RemovedAreDone /\ [Next]_vars
    => RemovedAreDone'
  <1>. SUFFICES ASSUME TypeOK, ControlAgrees, ServerFirst, OpenReported, OpenQueued, EndsAgree,
                       RemovedAreDone, [Next]_vars
                PROVE  RemovedAreDone'
    OBVIOUS
  <1>. USE DEF daemonVars, pollVars, childVars, clientVars
  <1>1. ASSUME UNCHANGED <<gFDRemoveQueue, peer, file, sock>> PROVE RemovedAreDone'
    BY <1>1 DEF RemovedAreDone, Unread
  <1>2. CASE UNCHANGED vars
    BY <1>1, <1>2 DEF vars
  <1>3. CASE \/ RunCommand \/ EnterWait \/ WaitReturns \/ WaitAgain \/ EnterPoll \/ ShellCommand
             \/ PollReturns \/ DispatchDone \/ NewCommandClient \/ End
    BY <1>1, <1>3 DEF RunCommand, EnterWait, WaitReturns, WaitAgain, EnterPoll, ShellCommand,
                      PollReturns, DispatchDone, NewCommandClient, End
  <1>4. CASE HandleChild \/ Terminate \/ \E p \in Pids : ChildExits(p)
    BY <1>1, <1>4 DEF HandleChild, Terminate, ChildExits
  <1>5. ASSUME NEW c \in Clients, GetlineBlocks(c) PROVE RemovedAreDone'
    BY <1>1, <1>5 DEF GetlineBlocks
  <1>6. CASE Sweep
    BY <1>6 DEF Sweep, RemovedAreDone
  <1>7. CASE Answer
    <2>1. pc = "answer" /\ UNCHANGED <<peer, file, sock>>
      BY <1>7 DEF Answer
    <2>2. Current.client \in Open
      BY <2>1, CurrentQueued
    <2>3. peer[Current.client] # "end of file"
      BY <2>2 DEF Open, EndsAgree
    <2>4. \A c \in gFDRemoveQueue' :
             c \in gFDRemoveQueue \/ (c = Current.client /\ peer[c] = "hung up")
      BY <1>7, <2>3 DEF Answer, ToClient
    <2>. QED BY <2>1, <2>4 DEF RemovedAreDone, Unread
  <1>8. ASSUME NEW c \in Clients, ReadCommand(c) PROVE RemovedAreDone'
    <2>1. UNCHANGED peer
      BY <1>8 DEF ReadCommand
    <2>2. \A d \in gFDRemoveQueue' :
             d \in gFDRemoveQueue
             \/ (d = c /\ (Available(c) = <<>> \/ "HUP" \in Head(revents).flags))
      BY <1>8 DEF ReadCommand, Disconnected
    <2>3. gFDRemoveQueue \subseteq Clients
      BY DEF TypeOK
    <2>4. ASSUME NEW d \in gFDRemoveQueue PROVE Unread(d) = <<>> => Unread(d)' = <<>>
      <3>. SUFFICES ASSUME Unread(d) = <<>> PROVE Unread(d)' = <<>>
        OBVIOUS
      <3>1. CASE d # c
        BY <1>8, <2>3, <3>1, ReadEffect
      <3>2. CASE d = c
        <4>. DEFINE n == Taken(Available(c))
        <4>1. n \in 0..0 /\ Unread(c)' = SubSeq(<<>>, n + 1, 0)
          BY <1>8, <3>2, ReadEffect
        <4>2. SubSeq(<<>>, n + 1, 0) = <<>>
          <5>. HIDE DEF n
          <5>. QED BY <4>1, SubSeqEmpty
        <4>. QED BY <3>2, <4>1, <4>2
      <3>. QED BY <3>1, <3>2
    <2>5. Available(c) = <<>> => Unread(c)' = <<>> /\ peer[c] # "open"
      <3>. SUFFICES ASSUME Available(c) = <<>> PROVE Unread(c)' = <<>> /\ peer[c] # "open"
        OBVIOUS
      <3>. DEFINE n == Taken(Available(c))
      <3>1. n \in 0..0 /\ Unread(c)' = SubSeq(<<>>, n + 1, 0) /\ peer[c] # "open"
        BY <1>8, ReadEffect
      <3>2. SubSeq(<<>>, n + 1, 0) = <<>>
        <4>. HIDE DEF n
        <4>. QED BY <3>1, SubSeqEmpty
      <3>. QED BY <3>1, <3>2
    <2>6. "HUP" \in Head(revents).flags => peer[c] = "hung up"
      BY <1>8, ReadsOpen DEF Shut, Open, EndsAgree
    <2>. QED BY <2>1, <2>2, <2>4, <2>5, <2>6 DEF RemovedAreDone
  <1>9. ASSUME NEW c \in Clients, Connect(c) PROVE RemovedAreDone'
    <2>1. peer[c] = "off" /\ pc # "ended" /\ UNCHANGED <<gFDRemoveQueue, file, sock>>
      BY <1>9 DEF Connect
    <2>2. c \notin gFDRemoveQueue
      BY <2>1 DEF OpenQueued, Open, EndsAgree
    <2>3. \A d \in Clients : d # c => peer'[d] = peer[d]
      BY <1>9 DEF Connect, TypeOK
    <2>. QED BY <2>1, <2>2, <2>3 DEF RemovedAreDone, Unread, TypeOK
  <1>10. ASSUME NEW c \in Clients, Write(c) PROVE RemovedAreDone'
    <2>1. c \notin gFDRemoveQueue /\ UNCHANGED <<gFDRemoveQueue, file>>
      BY <1>10 DEF Write, RemovedAreDone
    <2>2. \A d \in Clients : d # c => peer'[d] = peer[d] /\ sock'[d] = sock[d]
      BY <1>10 DEF Write, TypeOK
    <2>. QED BY <2>1, <2>2 DEF RemovedAreDone, Unread, TypeOK
  <1>11. ASSUME NEW c \in Clients, Shutdown(c) \/ Read(c) \/ HangUp(c) PROVE RemovedAreDone'
    <2>1. UNCHANGED <<gFDRemoveQueue, file, sock>>
      BY <1>11 DEF Shutdown, Read, HangUp
    <2>2. \A d \in Clients : d # c => peer'[d] = peer[d]
      BY <1>11 DEF Shutdown, Read, HangUp, TypeOK
    <2>3. peer'[c] # "open" \/ peer[c] = "open"
      BY <1>11 DEF Shutdown, Read, HangUp, TypeOK
    <2>4. peer[c] = "hung up" => peer'[c] = "hung up"
      BY <1>11 DEF Shutdown, Read, HangUp
    <2>. QED BY <2>1, <2>2, <2>3, <2>4 DEF RemovedAreDone, Unread, TypeOK
  <1>. QED BY <1>2, <1>3, <1>4, <1>5, <1>6, <1>7, <1>8, <1>9, <1>10, <1>11
           DEF Next, DaemonStep, ClientStep

(* IInv is inductive.                                                      *)
LEMMA IInvKept == IInv /\ [Next]_vars => IInv'
  BY TypeKept, ControlKept, PolledKept, ReportedKept, QueuedKept, EndsKept, UnreadKept, RemovedKept
     DEF IInv

-----------------------------------------------------------------------------
(* The lines of a client that are not executed yet: in the queue and       *)
(* before it.                                                              *)

Items               == [client : Clients, cmds : CommandLines]
QueuedLines(q, c)   == CommandsOf(Filter(q, QueuedFor(c)))
UnreadLines(c)      == Filter(Unread(c), CommandLines)

(* The commands of an item that is put behind a queue, or before it.       *)
LEMMA CommandsOfQueue ==
    ASSUME NEW q \in Seq(Items), NEW x \in Items
    PROVE  /\ CommandsOf(q) \in Seq(CommandLines) /\ CommandsOf(<<>>) = <<>>
           /\ CommandsOf(Attach(q, x)) = Attach(CommandsOf(q), x.cmds)
           /\ CommandsOf(Joined(<<x>>, q)) = Joined(<<x.cmds>>, CommandsOf(q))
  <1>. DEFINE Of(r) == [i \in DOMAIN r |-> r[i].cmds]
  <1>1. \A r \in Seq(Items) : \A i \in 1..Len(r) : r[i].cmds \in CommandLines
    <2>1. \A y \in Items : y.cmds \in CommandLines
      BY DEF Items
    <2>. QED BY <2>1, ElementOfSeq
  <1>2. ASSUME NEW r \in Seq(Items)
        PROVE  /\ CommandsOf(r) \in Seq(CommandLines) /\ Len(CommandsOf(r)) = Len(r)
               /\ \A i \in 1..Len(r) : CommandsOf(r)[i] = r[i].cmds
    <2>1. DOMAIN r = 1..Len(r) /\ Len(r) \in Nat
      BY LenProperties
    <2>. QED BY <1>1, <2>1 DEF CommandsOf
  <1>3. CommandsOf(<<>>) = <<>>
    <2>1. <<>> \in Seq(Items) /\ Len(<<>>) = 0
      BY EmptySeq
    <2>2. CommandsOf(<<>>) \in Seq(CommandLines) /\ Len(CommandsOf(<<>>)) = 0
      BY <1>2, <2>1
    <2>. QED BY <2>2, EmptySeq
  <1>4. CommandsOf(Attach(q, x)) = Attach(CommandsOf(q), x.cmds)
    <2>. DEFINE longer == Append(q, x)
                left == CommandsOf(longer)
                right == Append(CommandsOf(q), x.cmds)
    <2>1. /\ longer \in Seq(Items) /\ Len(longer) = Len(q) + 1 /\ Len(q) \in Nat
          /\ \A i \in 1..Len(q) : longer[i] = q[i]
          /\ longer[Len(q) + 1] = x
      BY AppendProperties, LenProperties
    <2>2. x.cmds \in CommandLines
      BY DEF Items
    <2>3. /\ right \in Seq(CommandLines) /\ Len(right) = Len(q) + 1
          /\ \A i \in 1..Len(q) : right[i] = q[i].cmds
          /\ right[Len(q) + 1] = x.cmds
      <3>1. CommandsOf(q) \in Seq(CommandLines) /\ Len(CommandsOf(q)) = Len(q)
            /\ \A i \in 1..Len(q) : CommandsOf(q)[i] = q[i].cmds
        BY <1>2
      <3>. QED BY <2>2, <3>1, AppendProperties
    <2>4. /\ left \in Seq(CommandLines) /\ Len(left) = Len(q) + 1
          /\ \A i \in 1..(Len(q) + 1) : left[i] = longer[i].cmds
      <3>. HIDE DEF longer
      <3>. QED BY <1>2, <2>1
    <2>. HIDE DEF longer, left, right
    <2>5. \A i \in 1..(Len(q) + 1) : left[i] = right[i]
      <3>1. Len(q) \in Nat /\ \A i \in 1..(Len(q) + 1) : i \in 1..Len(q) \/ i = Len(q) + 1
        BY <2>1
      <3>. QED BY <2>1, <2>3, <2>4, <3>1
    <2>6. left = right
      BY <2>3, <2>4, <2>5, SeqEqual
    <2>. QED BY <2>6 DEF left, right, longer, Attach
  <1>5. CommandsOf(Joined(<<x>>, q)) = Joined(<<x.cmds>>, CommandsOf(q))
    <2>. DEFINE one == <<x>>
                first == <<x.cmds>>
                longer == one \o q
                left == CommandsOf(longer)
                right == first \o CommandsOf(q)
    <2>0. one \in Seq(Items) /\ Len(one) = 1 /\ one[1] = x
      OBVIOUS
    <2>1. /\ longer \in Seq(Items) /\ Len(longer) = 1 + Len(q) /\ Len(q) \in Nat
          /\ \A i \in 1..Len(q) : longer[1 + i] = q[i]
          /\ longer[1] = x
      <3>. HIDE DEF one
      <3>1. /\ longer \in Seq(Items) /\ Len(longer) = Len(one) + Len(q) /\ Len(q) \in Nat
            /\ \A i \in 1..Len(one) : longer[i] = one[i]
            /\ \A i \in 1..Len(q) : longer[Len(one) + i] = q[i]
        BY <2>0, ConcatParts
      <3>. HIDE DEF longer
      <3>. QED BY <2>0, <3>1
    <2>2. first \in Seq(CommandLines) /\ Len(first) = 1 /\ first[1] = x.cmds
      BY DEF Items
    <2>3. /\ right \in Seq(CommandLines) /\ Len(right) = 1 + Len(q)
          /\ \A i \in 1..Len(q) : right[1 + i] = q[i].cmds
          /\ right[1] = x.cmds
      <3>. DEFINE of == CommandsOf(q)
      <3>1. of \in Seq(CommandLines) /\ Len(of) = Len(q) /\ \A i \in 1..Len(q) : of[i] = q[i].cmds
        BY <1>2
      <3>. HIDE DEF first, of
      <3>2. /\ right \in Seq(CommandLines) /\ Len(right) = Len(first) + Len(of)
            /\ \A i \in 1..Len(first) : right[i] = first[i]
            /\ \A i \in 1..Len(of) : right[Len(first) + i] = of[i]
        <4>1. right = first \o of
          BY DEF of
        <4>2. of \in Seq(CommandLines) /\ first \in Seq(CommandLines)
          BY <2>2, <3>1
        <4>. HIDE DEF right
        <4>. QED BY <4>1, <4>2, ConcatParts
      <3>. HIDE DEF right
      <3>. QED BY <2>2, <3>1, <3>2
    <2>4. /\ left \in Seq(CommandLines) /\ Len(left) = 1 + Len(q)
          /\ \A i \in 1..(1 + Len(q)) : left[i] = longer[i].cmds
      <3>. HIDE DEF longer
      <3>. QED BY <1>2, <2>1
    <2>. HIDE DEF longer, left, right
    <2>5. ASSUME NEW i \in 1..(1 + Len(q)) PROVE left[i] = right[i]
      <3>1. CASE i = 1
        BY <2>1, <2>3, <2>4, <3>1
      <3>2. CASE i # 1
        <4>. DEFINE j == i - 1
        <4>1. j \in 1..Len(q) /\ i = 1 + j
          BY <2>1, <3>2
        <4>. HIDE DEF j
        <4>. QED BY <2>1, <2>3, <2>4, <4>1
      <3>. QED BY <3>1, <3>2
    <2>6. left = right
      BY <2>3, <2>4, <2>5, SeqEqual
    <2>. QED BY <2>6 DEF left, right, longer, one, first, Joined
  <1>. QED BY <1>2, <1>3, <1>4, <1>5

(* The lines queued for a client are lines.                                *)
LEMMA QueuedLinesType ==
    ASSUME NEW q \in Seq(Items), NEW c
    PROVE  QueuedLines(q, c) \in Seq(CommandLines)
  <1>. DEFINE r == Filter(q, QueuedFor(c))
  <1>1. r \in Seq(Items \cap QueuedFor(c))
    BY FilterType
  <1>. HIDE DEF r
  <1>2. r \in Seq(Items)
    BY <1>1, SeqMonotonic
  <1>3. DOMAIN r = 1..Len(r) /\ Len(r) \in Nat
    BY <1>2, LenProperties
  <1>4. \A i \in 1..Len(r) : r[i].cmds \in CommandLines
    <2>1. \A y \in Items : y.cmds \in CommandLines
      BY DEF Items
    <2>. QED BY <1>2, <2>1, ElementOfSeq
  <1>5. CommandsOf(r) \in Seq(CommandLines)
    BY <1>3, <1>4 DEF CommandsOf
  <1>. QED BY <1>5 DEF QueuedLines, r

(* What an item at either end means for the lines queued for a client.     *)
LEMMA QueuedLinesOf ==
    ASSUME NEW q \in Seq(Items), NEW x \in Items, NEW c
    PROVE  /\ QueuedLines(q, c) \in Seq(CommandLines) /\ QueuedLines(<<>>, c) = <<>>
           /\ QueuedLines(Attach(q, x), c)
                = IF x.client = c THEN Attach(QueuedLines(q, c), x.cmds) ELSE QueuedLines(q, c)
           /\ QueuedLines(Joined(<<x>>, q), c)
                = IF x.client = c THEN Joined(<<x.cmds>>, QueuedLines(q, c)) ELSE QueuedLines(q, c)
  <1>. DEFINE T == QueuedFor(c)
              f == Filter(q, T)
  <1>1. x \in T <=> x.client = c
    BY DEF QueuedFor, Items
  <1>. HIDE DEF T
  <1>2. f \in Seq(Items)
    <2>1. f \in Seq(Items \cap T)
      BY FilterType
    <2>. QED BY <2>1, SeqMonotonic
  <1>3. Filter(Attach(q, x), T) = IF x \in T THEN Attach(f, x) ELSE f
    BY FilterAppend DEF Attach
  <1>4. Filter(Joined(<<x>>, q), T) = IF x \in T THEN Joined(<<x>>, f) ELSE f
    <2>. DEFINE one == <<x>>
    <2>1. one \in Seq(Items) /\ Filter(one, T) = IF x \in T THEN one ELSE <<>>
      <3>1. Filter(<<x>>, T) = IF x \in T THEN <<x>> ELSE <<>>
        BY FilterShort, Zenon
      <3>. QED BY <3>1
    <2>. HIDE DEF one
    <2>2. Filter(Joined(one, q), T) = Joined(Filter(one, T), f)
      BY <2>1, FilterJoined
    <2>. HIDE DEF f
    <2>3. Joined(<<>>, f) = f
      BY <1>2, JoinedType
    <2>. QED BY <2>1, <2>2, <2>3 DEF one
  <1>5. Filter(<<>>, T) = <<>>
    BY FilterShort
  <1>. HIDE DEF f
  <1>. QED BY <1>1, <1>2, <1>3, <1>4, <1>5, CommandsOfQueue DEF QueuedLines, f, T

(* The two equations one by one.                                           *)
LEMMA QueuedAttach ==
    ASSUME NEW q \in Seq(Items), NEW x \in Items, NEW c
    PROVE  QueuedLines(Attach(q, x), c)
             = IF x.client = c THEN Attach(QueuedLines(q, c), x.cmds) ELSE QueuedLines(q, c)
  BY QueuedLinesOf, Zenon

(* The second one, for the line that is queued first.                      *)
LEMMA QueuedJoined ==
    ASSUME NEW q \in Seq(Items), NEW x \in Items, NEW c
    PROVE  QueuedLines(Joined(<<x>>, q), c)
             = IF x.client = c THEN Joined(<<x.cmds>>, QueuedLines(q, c)) ELSE QueuedLines(q, c)
  BY QueuedLinesOf, Zenon

(* What a client writes is behind its unread lines.                        *)
LEMMA WriteLines ==
    ASSUME TypeOK, UnreadIsRest, NEW c \in Clients, Write(c), conn[c] # "closed"
    PROVE  /\ Stream[c][sent[c] + 1] \in Range(Stream[c])
           /\ UnreadLines(c) \in Seq(CommandLines)
           /\ UnreadLines(c)' = IF Stream[c][sent[c] + 1] = NL THEN UnreadLines(c)
                                ELSE Attach(UnreadLines(c), Stream[c][sent[c] + 1])
           /\ \A d \in Clients \ {c} : UnreadLines(d)' = UnreadLines(d)
  <1>. DEFINE x == Stream[c][sent[c] + 1]
              L == Seq(Commands)
  <1>1. x \in L /\ x \in Range(Stream[c])
    <2>1. Stream[c] \in Seq(L) /\ sent[c] + 1 \in 1..Len(Stream[c])
      <3>1. Stream[c] \in Seq(L) /\ sent[c] \in Nat /\ sent[c] < Len(Stream[c])
        BY CommandsAssumption DEF Write, TypeOK
      <3>. QED BY <3>1, LenProperties
    <2>. QED BY <2>1, ElementOfSeq, RangeEquality
  <1>2. /\ sock' = [sock EXCEPT ![c] = Append(@, x)] /\ UNCHANGED file
    BY DEF Write
  <1>. HIDE DEF x
  <1>3. file[c] \in Seq(L) /\ sock[c] \in Seq(L) /\ Unread(c) = Joined(file[c], sock[c])
        /\ Unread(c) \in Seq(L)
    BY ConcatProperties DEF TypeOK, Unread, Joined
  <1>4. Unread(c)' = Joined(file[c], Attach(sock[c], x))
    BY <1>2 DEF Unread, Joined, Attach, TypeOK
  <1>. HIDE DEF L
  <1>5. Unread(c)' = Attach(Unread(c), x)
    BY <1>1, <1>3, <1>4, AttachJoined
  <1>6. Filter(Attach(Unread(c), x), CommandLines)
          = IF x \in CommandLines THEN Attach(Filter(Unread(c), CommandLines), x)
            ELSE Filter(Unread(c), CommandLines)
    BY <1>1, <1>3, FilterAppend DEF Attach
  <1>7. x \in CommandLines <=> x # NL
    BY <1>1 DEF CommandLines, L
  <1>8. UnreadLines(c)' = IF x = NL THEN UnreadLines(c) ELSE Attach(UnreadLines(c), x)
    BY <1>5, <1>6, <1>7 DEF UnreadLines
  <1>9. \A d \in Clients \ {c} : UnreadLines(d)' = UnreadLines(d)
    BY <1>2 DEF UnreadLines, Unread, TypeOK
  <1>10. UnreadLines(c) \in Seq(CommandLines)
    <2>1. Filter(Unread(c), CommandLines) \in Seq(L \cap CommandLines)
      BY <1>3, FilterType
    <2>. QED BY <2>1, SeqMonotonic DEF UnreadLines
  <1>. QED BY <1>1, <1>8, <1>9, <1>10 DEF x

(* The unread lines are lines.                                             *)
LEMMA UnreadLinesType ==
    ASSUME TypeOK, NEW c \in Clients
    PROVE  UnreadLines(c) \in Seq(CommandLines)
  <1>. DEFINE L == Seq(Commands)
  <1>1. Unread(c) \in Seq(L)
    <2>1. file[c] \in Seq(L) /\ sock[c] \in Seq(L)
      BY DEF TypeOK
    <2>. QED BY <2>1, ConcatProperties DEF Unread
  <1>. HIDE DEF L
  <1>2. Filter(Unread(c), CommandLines) \in Seq(L \cap CommandLines)
    BY <1>1, FilterType
  <1>. QED BY <1>2, SeqMonotonic DEF UnreadLines

(* What comes before two parts comes before the first.                     *)
LEMMA FirstOfJoined ==
    ASSUME NEW S, NEW x \in S, NEW a \in Seq(S), NEW b \in Seq(S)
    PROVE  Joined(Joined(<<x>>, a), b) = Joined(<<x>>, Joined(a, b))
  <1>. DEFINE one == <<x>>
  <1>1. one \in Seq(S)
    OBVIOUS
  <1>. HIDE DEF one
  <1>2. Joined(Joined(one, a), b) = Joined(one, Joined(a, b))
    BY <1>1, JoinedJoined
  <1>. QED BY <1>2 DEF one

(* What is read is the first of the unread lines, or none.                 *)
LEMMA ReadLines ==
    ASSUME TypeOK, UnreadIsRest, NEW c \in Clients, ReadCommand(c)
    PROVE  /\ UnreadLines(c)' \in Seq(CommandLines)
           /\ Line(Available(c)) # <<>> => Line(Available(c)) \in CommandLines
           /\ UnreadLines(c) = IF Line(Available(c)) = <<>> THEN UnreadLines(c)'
                               ELSE Joined(<<Line(Available(c))>>, UnreadLines(c)')
           /\ \A d \in Clients \ {c} : UnreadLines(d)' = UnreadLines(d)
  <1>. DEFINE all == Available(c)
              u == Unread(c)
              v == Unread(c)'
              m == Len(Unread(c))
              n == Taken(all)
              L == Seq(Commands)
  <1>1. \A d \in Clients \ {c} : UnreadLines(d)' = UnreadLines(d)
    BY ReadEffect DEF UnreadLines
  <1>2. /\ n \in 0..m /\ v = SubSeq(u, n + 1, m) /\ m = Len(u)
        /\ all = <<>> => u = <<>>
        /\ all # <<>> => /\ u # <<>> /\ Line(all) = u[1]
                         /\ IF u[1] = NL \/ m = 1 THEN n = 1 ELSE n \in 1..2
    BY ReadEffect
  <1>3. u \in Seq(L) /\ m \in Nat
    <2>1. file[c] \in Seq(L) /\ sock[c] \in Seq(L)
      BY DEF TypeOK
    <2>. QED BY <2>1, ConcatProperties, LenProperties DEF Unread
  <1>4. UnreadLines(c) = Filter(u, CommandLines) /\ UnreadLines(c)' = Filter(v, CommandLines)
    BY DEF UnreadLines
  <1>5. m >= 2 /\ u[1] # NL => u[2] = NL
    <2>. SUFFICES ASSUME m >= 2, u[1] # NL PROVE u[2] = NL
      OBVIOUS
    <2>1. Stream[c] \in Seq(L) /\ sent[c] \in 0..Len(Stream[c])
      BY CommandsAssumption DEF UnreadIsRest
    <2>2. PICK k \in 0..sent[c] : u = SubSeq(Stream[c], k + 1, sent[c])
      BY DEF UnreadIsRest
    <2>. DEFINE s == Stream[c]
                e == sent[c]
    <2>3. s \in Seq(L) /\ e \in 0..Len(s) /\ k \in 0..e /\ u = Behind(s, k, e) /\ Len(s) \in Nat
      BY <2>1, <2>2, LenProperties DEF Behind
    <2>. HIDE DEF s, e, u, L
    <2>4. m = e - k /\ \A i \in 1..m : k + i \in 1..e /\ u[i] = s[k + i]
      <3>1. e \in k..Len(s) /\ k \in 0..Len(s)
        BY <2>3
      <3>2. Len(Behind(s, k, e)) = e - k /\ \A i \in 1..(e - k) : Behind(s, k, e)[i] = s[k + i]
        BY <2>3, <3>1, SubSeqParts DEF Behind
      <3>. QED BY <1>2, <2>3, <3>2
    <2>5. u[1] = s[k + 1] /\ u[2] = s[k + 2] /\ k + 2 \in 1..Len(s)
      BY <1>3, <2>3, <2>4
    <2>6. k + 1 \in 1..(Len(s) - 1) /\ (k + 1) + 1 = k + 2
      BY <2>3, <2>5
    <2>7. s[k + 1] = NL \/ s[(k + 1) + 1] = NL
      BY <2>6, CommandsAssumption DEF s
    <2>. QED BY <2>5, <2>6, <2>7
  <1>6. CASE all = <<>>
    <2>1. u = <<>> /\ v = SubSeq(<<>>, n + 1, 0) /\ n = 0
      BY <1>2, <1>3, <1>6
    <2>2. v = <<>>
      <3>. HIDE DEF n, v
      <3>. QED BY <2>1, SubSeqEmpty
    <2>3. Line(all) = <<>> /\ Filter(<<>>, CommandLines) = <<>>
      BY <1>6, FilterShort DEF Line
    <2>. HIDE DEF u, v, all
    <2>. QED BY <1>1, <1>4, <2>1, <2>2, <2>3, EmptySeq DEF all
  <1>7. CASE all # <<>>
    <2>. DEFINE t == Tail(u)
    <2>. HIDE DEF all, u, v, m, n, L
    <2>1. /\ u # <<>> /\ u \in Seq(L) /\ t \in Seq(L) /\ m = Len(u) /\ m \in Nat /\ m # 0
          /\ t = SubSeq(u, 2, m) /\ Head(u) = u[1] /\ u[1] \in L
      BY <1>2, <1>3, <1>7, HeadTailProperties, TailIsSubSeq, EmptySeq
    <2>2. u[1] \in CommandLines <=> u[1] # NL
      BY <2>1 DEF CommandLines, L
    <2>3. Filter(u, CommandLines)
            = IF u[1] # NL THEN Joined(<<u[1]>>, Filter(t, CommandLines)) ELSE Filter(t, CommandLines)
      <3>. HIDE DEF t
      <3>1. /\ Head(u) \in CommandLines
                  => Filter(u, CommandLines) = <<Head(u)>> \o Filter(Tail(u), CommandLines)
            /\ Head(u) \notin CommandLines
                  => Filter(u, CommandLines) = Filter(Tail(u), CommandLines)
        BY <2>1, FilterFirst
      <3>. QED BY <2>1, <2>2, <3>1 DEF t, Joined
    <2>4. v \in Seq(L) /\ Filter(t, CommandLines) = Filter(v, CommandLines)
      <3>1. CASE n = 1
        <4>1. n + 1 = 2
          BY <3>1
        <4>2. v = SubSeq(u, 2, m)
          BY <1>2, <4>1
        <4>. HIDE DEF t
        <4>. QED BY <2>1, <4>2
      <3>2. CASE n = 2
        <4>1. u[1] # NL /\ m >= 2
          BY <1>2, <1>7, <2>1, <3>2
        <4>2. u[2] = NL
          BY <1>5, <4>1
        <4>3. Head(SubSeq(u, 2, m)) = u[2] /\ Tail(SubSeq(u, 2, m)) = SubSeq(u, 2 + 1, m)
          <5>1. 2 \in 1..Len(u) /\ m \in 2..Len(u)
            BY <2>1, <4>1
          <5>. QED BY <2>1, <5>1, HeadTailOfSubSeq
        <4>4. v = SubSeq(u, 2 + 1, m)
          BY <1>2, <3>2
        <4>. HIDE DEF t
        <4>5. Head(t) = NL /\ Tail(t) = v
          BY <2>1, <4>2, <4>3, <4>4
        <4>6. t # <<>>
          <5>1. Len(SubSeq(u, 1 + 1, m)) = m - 1
            <6>1. 1 \in 0..Len(u) /\ m \in 1..Len(u)
              BY <2>1
            <6>. QED BY <2>1, <6>1, SubSeqParts
          <5>2. Len(t) = m - 1
            BY <2>1, <5>1
          <5>3. m - 1 # 0
            BY <2>1, <4>1
          <5>4. Len(<<>>) = 0
            BY EmptySeq
          <5>. QED BY <5>2, <5>3, <5>4
        <4>7. NL \notin CommandLines
          BY DEF CommandLines
        <4>. QED BY <2>1, <4>5, <4>6, <4>7, FilterFirst, HeadTailProperties
      <3>. QED BY <1>2, <1>7, <3>1, <3>2
    <2>5. Filter(v, CommandLines) \in Seq(CommandLines)
      <3>1. Filter(v, CommandLines) \in Seq(L \cap CommandLines)
        BY <2>4, FilterType
      <3>. QED BY <3>1, SeqMonotonic
    <2>6. Line(all) = u[1]
      BY <1>2, <1>7
    <2>. HIDE DEF t
    <2>. QED BY <1>1, <1>4, <2>2, <2>3, <2>4, <2>5, <2>6 DEF all, NL
  <1>. QED BY <1>6, <1>7

-----------------------------------------------------------------------------
(* Every step is one of the service's, or none of them.                    *)

PendingNow  == [c \in Clients |-> Pending(c)]
AnswersNow  == [c \in Clients |-> got[c] \o reply[c]]
HungUpNow   == {c \in Clients : peer[c] = "hung up"}

(* The pending lines, put together from two parts.                         *)
LEMMA PendingParts ==
    ASSUME NEW c
    PROVE  /\ Pending(c) = IF pc = "ended" \/ conn[c] = "closed" THEN <<>>
                           ELSE Joined(QueuedLines(gCommandQueue, c), UnreadLines(c))
           /\ Pending(c)' = IF pc' = "ended" \/ conn'[c] = "closed" THEN <<>>
                            ELSE Joined(QueuedLines(gCommandQueue, c)', UnreadLines(c)')
  BY DEF Pending, Joined, QueuedLines, UnreadLines, Unread

(* A step that neither closes a connection nor touches lines and answers.  *)
LEMMA NothingPromised ==
    ASSUME UNCHANGED <<gCommandQueue, file, sock>>,
           \A c \in Clients : conn'[c] = "closed" <=> conn[c] = "closed",
           \A c \in Clients : peer'[c] = "hung up" <=> peer[c] = "hung up",
           AnswersNow' = AnswersNow, pc' = "ended" <=> pc = "ended"
    PROVE  UNCHANGED Service!vars
  <1>1. \A c \in Clients : Pending(c)' = Pending(c)
    BY DEF Pending
  <1>2. PendingNow' = PendingNow
    BY <1>1 DEF PendingNow
  <1>3. HungUpNow' = HungUpNow
    BY DEF HungUpNow
  <1>4. (pc = "ended")' = (pc = "ended")
    OBVIOUS
  <1>. QED BY <1>2, <1>3, <1>4 DEF Service!vars, PendingNow, AnswersNow, HungUpNow

(* The initial states are the service's.                                   *)
LEMMA InitMaps == Init => Service!Init
  <1>. SUFFICES ASSUME Init PROVE Service!Init
    OBVIOUS
  <1>1. ASSUME NEW c \in Clients PROVE Pending(c) = <<>> /\ got[c] \o reply[c] = <<>>
    <2>1. gCommandQueue = <<>> /\ file[c] \o sock[c] = <<>> /\ got[c] \o reply[c] = <<>>
      BY DEF Init
    <2>2. QueuedLines(gCommandQueue, c) = <<>> /\ UnreadLines(c) = <<>>
      <3>1. Filter(<<>>, QueuedFor(c)) = <<>> /\ Filter(<<>>, CommandLines) = <<>>
        BY FilterShort
      <3>2. CommandsOf(<<>>) = <<>>
        BY DEF CommandsOf
      <3>. QED BY <2>1, <3>1, <3>2 DEF QueuedLines, UnreadLines, Unread
    <2>3. Joined(<<>>, <<>>) = <<>>
      BY EmptySeq, JoinedType
    <2>. QED BY <2>1, <2>2, <2>3, PendingParts
  <1>2. HungUpNow = {} /\ ~(pc = "ended")
    BY DEF Init, HungUpNow
  <1>. QED BY <1>1, <1>2 DEF Service!Init, HungUpNow

(* Most steps are none of the service's.                                   *)
LEMMA OthersMap ==
    ASSUME IInv,
           \/ RunCommand \/ ShellCommand \/ EnterWait \/ WaitReturns \/ WaitAgain \/ EnterPoll
           \/ PollReturns \/ DispatchDone \/ NewCommandClient
           \/ HandleChild \/ Terminate \/ \E p \in Pids : ChildExits(p)
           \/ \E c \in Clients : GetlineBlocks(c) \/ Connect(c) \/ Shutdown(c) \/ Read(c)
    PROVE  UNCHANGED Service!vars
  <1>. USE DEF daemonVars, pollVars, childVars, clientVars, AnswersNow
  <1>1. CASE \/ RunCommand \/ EnterWait \/ WaitReturns \/ WaitAgain \/ EnterPoll \/ PollReturns
    BY <1>1, NothingPromised
       DEF RunCommand, Busy, EnterWait, WaitReturns, WaitAgain, EnterPoll, PollReturns
  <1>2. CASE ShellCommand
    <2>1. pc' \in {"answer", "fork"} /\ pc = "commands"
          /\ UNCHANGED <<gCommandQueue, file, sock, conn, peer, got, reply>>
      BY <1>2 DEF ShellCommand, Busy, Fork, ForkFails
    <2>. QED BY <2>1, NothingPromised
  <1>3. CASE DispatchDone
    BY <1>3, NothingPromised DEF DispatchDone, Top
  <1>4. CASE HandleChild \/ Terminate \/ \E p \in Pids : ChildExits(p)
    BY <1>4, NothingPromised DEF HandleChild, Terminate, Interrupted, ChildExits
  <1>5. CASE NewCommandClient
    <2>1. backlog # <<>> /\ pc # "ended"
      BY <1>5 DEF NewCommandClient, Dispatching, IInv, ServerFirst
    <2>2. Head(backlog) \in Waiting
      BY <2>1, HeadTailProperties DEF IInv, OpenPolled
    <2>3. \A c \in Clients : conn'[c] = "closed" <=> conn[c] = "closed"
      BY <1>5, <2>2 DEF NewCommandClient, IInv, TypeOK, Waiting
    <2>. QED BY <1>5, <2>3, NothingPromised DEF NewCommandClient
  <1>6. ASSUME NEW c \in Clients, GetlineBlocks(c) PROVE UNCHANGED Service!vars
    BY <1>6, NothingPromised DEF GetlineBlocks, Dispatching
  <1>7. ASSUME NEW c \in Clients, Connect(c) PROVE UNCHANGED Service!vars
    <2>1. peer[c] = "off" /\ conn[c] = "none"
      BY <1>7 DEF Connect, IInv, EndsAgree
    <2>2. \A d \in Clients : /\ conn'[d] = "closed" <=> conn[d] = "closed"
                             /\ peer'[d] = "hung up" <=> peer[d] = "hung up"
      BY <1>7, <2>1 DEF Connect, IInv, TypeOK
    <2>. QED BY <1>7, <2>2, NothingPromised DEF Connect
  <1>8. ASSUME NEW c \in Clients, Shutdown(c) PROVE UNCHANGED Service!vars
    <2>1. \A d \in Clients : peer'[d] = "hung up" <=> peer[d] = "hung up"
      BY <1>8 DEF Shutdown, IInv, TypeOK
    <2>. QED BY <1>8, <2>1, NothingPromised DEF Shutdown
  <1>9. ASSUME NEW c \in Clients, Read(c) PROVE UNCHANGED Service!vars
    <2>1. \A d \in Clients : peer'[d] = "hung up" <=> peer[d] = "hung up"
      BY <1>9 DEF Read, IInv, TypeOK
    <2>2. UNCHANGED <<gCommandQueue, file, sock, conn, pc>>
      BY <1>9 DEF Read
    <2>3. AnswersNow' = AnswersNow
      <3>1. CASE reply[c] = <<>>
        BY <1>9, <3>1 DEF Read
      <3>2. CASE reply[c] # <<>>
        <4>. /\ DOMAIN got = Clients /\ DOMAIN reply = Clients
             /\ got' = [got EXCEPT ![c] = Append(@, Head(reply[c]))]
             /\ reply' = [reply EXCEPT ![c] = Tail(@)]
          <5>1. DOMAIN got = Clients /\ DOMAIN reply = Clients
            BY DEF IInv, TypeOK
          <5>. QED BY <1>9, <3>2, <5>1 DEF Read
        <4>1. \A d \in Clients \ {c} : got'[d] = got[d] /\ reply'[d] = reply[d]
          OBVIOUS
        <4>2. got'[c] = Append(got[c], Head(reply[c])) /\ reply'[c] = Tail(reply[c])
          OBVIOUS
        <4>3. got[c] \in Seq({"Ok.", "ERROR"}) /\ reply[c] \in Seq({"Ok.", "ERROR"})
          BY DEF IInv, TypeOK
        <4>4. Joined(Attach(got[c], Head(reply[c])), Tail(reply[c])) = Joined(got[c], reply[c])
          BY <3>2, <4>3, HeadMoves
        <4>5. got'[c] \o reply'[c] = got[c] \o reply[c]
          BY <4>2, <4>4 DEF Joined, Attach
        <4>. QED BY <4>1, <4>5
      <3>. QED BY <3>1, <3>2
    <2>. QED BY <2>1, <2>2, <2>3, NothingPromised
  <1>. QED BY <1>1, <1>2, <1>3, <1>4, <1>5, <1>6, <1>7, <1>8, <1>9

(* The sweep forgets the lines of clients that hung up; there are none of  *)
(* other clients it removes.                                               *)
LEMMA SweepMaps ==
    ASSUME IInv, Sweep
    PROVE  Service!Forget(gFDRemoveQueue \cap HungUpNow)
  <1>. USE DEF daemonVars, pollVars, childVars, clientVars
  <1>1. /\ gCommandQueue = <<>> /\ pc # "ended" /\ pc' # "ended"
        /\ UNCHANGED <<gCommandQueue, got, reply, peer>>
        /\ gFDRemoveQueue \subseteq Open
    BY DEF Sweep, AfterSweep, IInv, OpenQueued
  <1>2. ASSUME NEW c \in Clients, c \notin gFDRemoveQueue PROVE Pending(c)' = Pending(c)
    BY <1>1, <1>2 DEF Sweep, Pending
  <1>3. ASSUME NEW c \in Clients, c \in gFDRemoveQueue PROVE Pending(c)' = <<>>
    BY <1>3 DEF Sweep, Pending
  <1>4. ASSUME NEW c \in Clients, c \in gFDRemoveQueue, peer[c] # "hung up" PROVE Pending(c) = <<>>
    <2>1. Unread(c) = <<>>
      BY <1>4 DEF IInv, RemovedAreDone
    <2>2. UnreadLines(c) = <<>> /\ QueuedLines(gCommandQueue, c) = <<>>
      <3>1. Filter(<<>>, QueuedFor(c)) = <<>> /\ Filter(<<>>, CommandLines) = <<>>
        BY FilterShort
      <3>2. CommandsOf(<<>>) = <<>>
        BY DEF CommandsOf
      <3>. QED BY <1>1, <2>1, <3>1, <3>2 DEF QueuedLines, UnreadLines
    <2>3. Joined(<<>>, <<>>) = <<>>
      BY EmptySeq, JoinedType
    <2>. QED BY <2>2, <2>3, PendingParts
  <1>5. PendingNow' = [c \in Clients |-> IF c \in gFDRemoveQueue \cap HungUpNow THEN <<>>
                                        ELSE PendingNow[c]]
    BY <1>2, <1>3, <1>4 DEF PendingNow, HungUpNow
  <1>6. AnswersNow' = AnswersNow /\ HungUpNow' = HungUpNow /\ (pc = "ended")' = (pc = "ended")
    BY <1>1 DEF AnswersNow, HungUpNow
  <1>. QED BY <1>5, <1>6 DEF Service!Forget, PendingNow, AnswersNow, HungUpNow

(* The end of the process costs all lines.                                 *)
LEMMA EndMaps == ASSUME IInv, End PROVE Service!Stop
  <1>. USE DEF daemonVars, pollVars, childVars, clientVars
  <1>1. PendingNow' = [c \in Clients |-> <<>>]
    BY DEF End, PendingNow, Pending
  <1>2. AnswersNow' = AnswersNow /\ HungUpNow' = HungUpNow /\ (pc = "ended")' = TRUE
    BY DEF End, AnswersNow, HungUpNow
  <1>. QED BY <1>1, <1>2 DEF Service!Stop, PendingNow, AnswersNow, HungUpNow

(* A client that hangs up, knowingly or with a write to a closed socket.   *)
LEMMA HangUpMaps ==
    ASSUME IInv, NEW c \in Clients, HangUp(c) \/ (Write(c) /\ conn[c] = "closed")
    PROVE  Service!HangUp(c)
  <1>. USE DEF daemonVars, pollVars, childVars, clientVars
  <1>1. UNCHANGED <<pc, conn, gCommandQueue, file, sock, got, reply>>
    BY DEF HangUp, Write
  <1>2. HungUpNow' = HungUpNow \cup {c}
    <2>1. peer' = [peer EXCEPT ![c] = "hung up"]
      BY DEF HangUp, Write
    <2>2. DOMAIN peer = Clients
      BY DEF IInv, TypeOK
    <2>. QED BY <2>1, <2>2 DEF HungUpNow
  <1>3. PendingNow' = PendingNow /\ AnswersNow' = AnswersNow /\ (pc = "ended")' = (pc = "ended")
    BY <1>1 DEF PendingNow, Pending, AnswersNow
  <1>. QED BY <1>2, <1>3 DEF Service!HangUp, PendingNow, AnswersNow, HungUpNow

(* A line that is written is sent; a newline is not a line.                *)
LEMMA WriteMaps ==
    ASSUME IInv, NEW c \in Clients, Write(c), conn[c] # "closed",
           NEW x, x = Stream[c][sent[c] + 1]
    PROVE  IF x = NL THEN UNCHANGED Service!vars
           ELSE x \in (UNION {Range(Stream[d]) : d \in Clients}) \ {NL} /\ Service!Send(c, x)
  <1>. USE DEF daemonVars, pollVars, childVars, clientVars
  <1>1. /\ UNCHANGED <<pc, conn, gCommandQueue, file, got, reply, peer>>
        /\ c \notin HungUpNow /\ pc # "ended"
    <2>1. peer[c] = "open" /\ UNCHANGED <<pc, conn, gCommandQueue, file, got, reply, peer>>
      BY DEF Write
    <2>2. pc # "ended"
      BY <2>1 DEF IInv, EndsAgree
    <2>. QED BY <2>1, <2>2 DEF HungUpNow
  <1>2. /\ x \in Range(Stream[c]) /\ UnreadLines(c) \in Seq(CommandLines)
        /\ UnreadLines(c)' = IF x = NL THEN UnreadLines(c) ELSE Attach(UnreadLines(c), x)
        /\ \A d \in Clients \ {c} : UnreadLines(d)' = UnreadLines(d)
    BY WriteLines DEF IInv
  <1>3. \A d \in Clients \ {c} : Pending(d)' = Pending(d)
    BY <1>1, <1>2, PendingParts DEF QueuedLines
  <1>4. AnswersNow' = AnswersNow /\ HungUpNow' = HungUpNow /\ (pc = "ended")' = (pc = "ended")
    BY <1>1 DEF AnswersNow, HungUpNow
  <1>5. Pending(c) = Joined(QueuedLines(gCommandQueue, c), UnreadLines(c))
        /\ Pending(c)' = Joined(QueuedLines(gCommandQueue, c), UnreadLines(c)')
    BY <1>1, PendingParts DEF QueuedLines
  <1>6. CASE x = NL
    <2>1. PendingNow' = PendingNow
      BY <1>2, <1>3, <1>5, <1>6 DEF PendingNow
    <2>2. UNCHANGED Service!vars
      BY <1>4, <2>1 DEF Service!vars, PendingNow, AnswersNow, HungUpNow
    <2>. QED BY <1>6, <2>2
  <1>7. CASE x # NL
    <2>1. QueuedLines(gCommandQueue, c) \in Seq(CommandLines)
      <3>1. gCommandQueue \in Seq(Items)
        BY DEF IInv, TypeOK, Items, CommandLines
      <3>. QED BY <3>1, QueuedLinesType
    <2>2. x \in CommandLines
      <3>1. Stream[c] \in Seq(Seq(Commands))
        BY CommandsAssumption
      <3>. QED BY <1>2, <1>7, <3>1, RangeOfSeq DEF CommandLines
    <2>3. Pending(c)' = Attach(Pending(c), x)
      BY <1>2, <1>5, <1>7, <2>1, <2>2, AttachJoined
    <2>4. PendingNow' = [PendingNow EXCEPT ![c] = Append(@, x)]
      BY <1>3, <2>3 DEF PendingNow, Attach
    <2>5. Service!Send(c, x)
      BY <1>1, <1>4, <2>4 DEF Service!Send, PendingNow, AnswersNow, HungUpNow
    <2>. QED BY <1>2, <1>7, <2>5
  <1>. QED BY <1>6, <1>7

(* A line that is read is the first unread one, and queued last.           *)
LEMMA ReadMaps ==
    ASSUME IInv, NEW c \in Clients, ReadCommand(c)
    PROVE  UNCHANGED Service!vars
  <1>. USE DEF daemonVars, pollVars, childVars, clientVars
  <1>. DEFINE line == Line(Available(c))
              x == [client |-> c, cmds |-> line]
  <1>1. /\ UNCHANGED <<conn, got, reply, peer>> /\ pc # "ended" /\ pc' # "ended"
        /\ conn[c] = "open"
        /\ gCommandQueue' = IF line = <<>> THEN gCommandQueue ELSE Attach(gCommandQueue, x)
    <2>1. conn[c] = "open" /\ pc # "ended"
      BY ReadsOpen DEF IInv, Open
    <2>. QED BY <2>1 DEF ReadCommand, Attach
  <1>2. /\ UnreadLines(c)' \in Seq(CommandLines)
        /\ line # <<>> => line \in CommandLines
        /\ UnreadLines(c) = IF line = <<>> THEN UnreadLines(c)'
                            ELSE Joined(<<line>>, UnreadLines(c)')
        /\ \A d \in Clients \ {c} : UnreadLines(d)' = UnreadLines(d)
    BY ReadLines DEF IInv
  <1>3. gCommandQueue \in Seq(Items)
    BY DEF IInv, TypeOK, Items, CommandLines
  <1>. HIDE DEF line
  <1>4. line # <<>> => x \in Items /\ x.client = c /\ x.cmds = line
    BY <1>2 DEF Items
  <1>. HIDE DEF x
  <1>5. ASSUME NEW d \in Clients
        PROVE  QueuedLines(gCommandQueue, d)'
                 = IF line # <<>> /\ d = c THEN Attach(QueuedLines(gCommandQueue, d), line)
                   ELSE QueuedLines(gCommandQueue, d)
    <2>1. QueuedLines(gCommandQueue, d)' = QueuedLines(gCommandQueue', d)
      BY DEF QueuedLines, QueuedFor, CommandsOf
    <2>2. CASE line = <<>>
      BY <1>1, <2>1, <2>2
    <2>3. CASE line # <<>>
      <3>1. x \in Items
        BY <1>4, <2>3
      <3>2. QueuedLines(Attach(gCommandQueue, x), d)
              = IF x.client = d THEN Attach(QueuedLines(gCommandQueue, d), x.cmds)
                ELSE QueuedLines(gCommandQueue, d)
        BY <1>3, <3>1, QueuedAttach
      <3>. QED BY <1>1, <1>4, <2>1, <2>3, <3>2
    <2>. QED BY <2>2, <2>3
  <1>6. ASSUME NEW d \in Clients, line = <<>> \/ d # c PROVE Pending(d)' = Pending(d)
    <2>1. QueuedLines(gCommandQueue, d)' = QueuedLines(gCommandQueue, d)
      BY <1>5, <1>6
    <2>2. UnreadLines(d)' = UnreadLines(d)
      BY <1>2, <1>6
    <2>3. Pending(d) = IF conn[d] = "closed" THEN <<>>
                       ELSE Joined(QueuedLines(gCommandQueue, d), UnreadLines(d))
      BY <1>1, PendingParts
    <2>4. Pending(d)' = IF conn[d] = "closed" THEN <<>>
                        ELSE Joined(QueuedLines(gCommandQueue, d)', UnreadLines(d)')
      BY <1>1, PendingParts
    <2>. QED BY <2>1, <2>2, <2>3, <2>4
  <1>7. ASSUME line # <<>> PROVE Pending(c)' = Pending(c)
    <2>. DEFINE q == QueuedLines(gCommandQueue, c)
    <2>1. q \in Seq(CommandLines)
      BY <1>3, QueuedLinesType
    <2>2. PICK v : v = UnreadLines(c)'
      OBVIOUS
    <2>3. PICK u : u = UnreadLines(c)
      OBVIOUS
    <2>4. u = Joined(<<line>>, v) /\ v \in Seq(CommandLines) /\ line \in CommandLines
      BY <1>2, <1>7, <2>2, <2>3
    <2>5. Joined(Attach(q, line), v) = Joined(q, u)
      <3>. HIDE DEF q
      <3>. QED BY <2>1, <2>4, AttachFirst
    <2>6. Pending(c)' = Joined(QueuedLines(gCommandQueue, c)', v)
      BY <1>1, <2>2, PendingParts
    <2>7. QueuedLines(gCommandQueue, c)' = Attach(QueuedLines(gCommandQueue, c), line)
      BY <1>5, <1>7
    <2>8. Pending(c) = Joined(QueuedLines(gCommandQueue, c), u)
      BY <1>1, <2>3, PendingParts
    <2>. QED BY <2>5, <2>6, <2>7, <2>8
  <1>8. PendingNow' = PendingNow
    BY <1>6, <1>7 DEF PendingNow
  <1>9. AnswersNow' = AnswersNow /\ HungUpNow' = HungUpNow /\ (pc = "ended")' = (pc = "ended")
    BY <1>1 DEF AnswersNow, HungUpNow
  <1>. QED BY <1>8, <1>9 DEF Service!vars, PendingNow, AnswersNow, HungUpNow

(* An answer is the execution of the first command of the client's first   *)
(* line, which is the one at the head of the queue.                        *)
LEMMA AnswerMaps ==
    ASSUME IInv, Answer
    PROVE  \E c \in Clients, answer \in Service!Answers : Service!Execute(c, answer)
  <1>. USE DEF daemonVars, pollVars, childVars, clientVars
  <1>1. gCommandQueue # <<>> /\ pc # "ended" /\ pc' # "ended"
    BY DEF Answer, IInv, ControlAgrees
  <1>2. gCommandQueue \in Seq(Items) /\ Current.client \in Open
    <2>1. gCommandQueue \in Seq([client : Open, cmds : CommandLines])
      BY <1>1 DEF IInv, OpenQueued
    <2>2. Current \in [client : Open, cmds : CommandLines]
      BY <1>1, <2>1, HeadTailProperties DEF Current
    <2>3. gCommandQueue \in Seq(Items)
      BY DEF IInv, TypeOK, Items, CommandLines
    <2>. QED BY <2>2, <2>3
  <1>3. PICK first : first = Current
    OBVIOUS
  <1>4. PICK behind : behind = Tail(gCommandQueue)
    OBVIOUS
  <1>5. PICK c : c = first.client
    OBVIOUS
  <1>6. PICK rest : rest = IF result = "ERROR" THEN <<>> ELSE Tail(first.cmds)
    OBVIOUS
  <1>7. first \in Items /\ behind \in Seq(Items) /\ gCommandQueue = Joined(<<first>>, behind)
    BY <1>1, <1>2, <1>3, <1>4, HeadTailProperties, FirstAndRest DEF Current, Joined
  <1>8. c \in Clients /\ conn[c] = "open" /\ first.cmds \in CommandLines
    BY <1>2, <1>3, <1>5, <1>7 DEF Open, Items
  <1>9. rest # <<>> => rest \in CommandLines
    <2>1. first.cmds # <<>> /\ first.cmds \in Seq(Commands)
      BY <1>8 DEF CommandLines, NL
    <2>2. Tail(first.cmds) \in Seq(Commands)
      BY <2>1, HeadTailProperties
    <2>. QED BY <1>6, <2>2 DEF CommandLines, NL
  <1>10. UNCHANGED <<conn, file, sock, got, peer>>
    BY DEF Answer
  <1>11. gCommandQueue' = IF rest = <<>> THEN behind
                          ELSE Joined(<<[client |-> c, cmds |-> rest]>>, behind)
    <2>1. Rest = rest
      BY <1>3, <1>6 DEF Rest
    <2>2. gCommandQueue' = (IF rest = <<>> THEN <<>> ELSE <<[client |-> c, cmds |-> rest]>>) \o behind
      BY <1>3, <1>4, <1>5, <2>1 DEF Answer, RestOfQueue
    <2>3. Joined(<<>>, behind) = behind
      BY <1>7, EmptySeq, JoinedType
    <2>. QED BY <2>2, <2>3 DEF Joined
  <1>12. \A d \in Clients : UnreadLines(d)' = UnreadLines(d)
    BY <1>10 DEF UnreadLines, Unread
  <1>13. ASSUME NEW d
         PROVE  /\ QueuedLines(gCommandQueue, d)
                     = IF d = c THEN Joined(<<first.cmds>>, QueuedLines(behind, d))
                       ELSE QueuedLines(behind, d)
                /\ QueuedLines(gCommandQueue, d)'
                     = IF d = c /\ rest # <<>> THEN Joined(<<rest>>, QueuedLines(behind, d))
                       ELSE QueuedLines(behind, d)
    <2>1. QueuedLines(Joined(<<first>>, behind), d)
            = IF first.client = d THEN Joined(<<first.cmds>>, QueuedLines(behind, d))
              ELSE QueuedLines(behind, d)
      BY <1>7, QueuedJoined
    <2>2. QueuedLines(gCommandQueue, d)' = QueuedLines(gCommandQueue', d)
      BY DEF QueuedLines, QueuedFor, CommandsOf
    <2>3. PICK item : item = [client |-> c, cmds |-> rest]
      OBVIOUS
    <2>4. rest # <<>> => item \in Items /\ item.client = c /\ item.cmds = rest
      BY <1>8, <1>9, <2>3 DEF Items
    <2>5. CASE rest = <<>>
      <3>1. gCommandQueue' = behind
        BY <1>11, <2>5
      <3>. QED BY <1>5, <1>7, <2>1, <2>2, <2>5, <3>1
    <2>6. CASE rest # <<>>
      <3>1. QueuedLines(Joined(<<item>>, behind), d)
              = IF item.client = d THEN Joined(<<item.cmds>>, QueuedLines(behind, d))
                ELSE QueuedLines(behind, d)
        BY <1>7, <2>4, <2>6, QueuedJoined
      <3>2. gCommandQueue' = Joined(<<item>>, behind)
        BY <1>11, <2>3, <2>6
      <3>. QED BY <1>5, <1>7, <2>1, <2>2, <2>4, <2>6, <3>1, <3>2
    <2>. QED BY <2>5, <2>6
  <1>14. ASSUME NEW d \in Clients, d # c PROVE Pending(d)' = Pending(d)
    <2>1. QueuedLines(gCommandQueue, d)' = QueuedLines(gCommandQueue, d)
      BY <1>13, <1>14
    <2>2. Pending(d) = IF conn[d] = "closed" THEN <<>>
                       ELSE Joined(QueuedLines(gCommandQueue, d), UnreadLines(d))
      BY <1>1, PendingParts
    <2>3. Pending(d)' = IF conn[d] = "closed" THEN <<>>
                        ELSE Joined(QueuedLines(gCommandQueue, d)', UnreadLines(d)')
      BY <1>1, <1>10, PendingParts
    <2>. QED BY <1>12, <2>1, <2>2, <2>3
  <1>15. PICK q : q = QueuedLines(behind, c)
    OBVIOUS
  <1>16. PICK u : u = UnreadLines(c)
    OBVIOUS
  <1>17. q \in Seq(CommandLines) /\ u \in Seq(CommandLines)
    <2>1. q \in Seq(CommandLines)
      BY <1>7, <1>15, QueuedLinesType
    <2>2. u \in Seq(CommandLines)
      BY <1>8, <1>16, UnreadLinesType DEF IInv
    <2>. QED BY <2>1, <2>2
  <1>18. PICK left : left = Joined(q, u)
    OBVIOUS
  <1>19. left \in Seq(CommandLines)
    BY <1>17, <1>18, JoinedType
  <1>20. Pending(c) = Joined(<<first.cmds>>, left)
    <2>1. Pending(c) = Joined(Joined(<<first.cmds>>, q), u)
      BY <1>1, <1>8, <1>13, <1>15, <1>16, PendingParts
    <2>. QED BY <1>8, <1>17, <1>18, <2>1, FirstOfJoined
  <1>21. Pending(c)' = IF rest = <<>> THEN left ELSE Joined(<<rest>>, left)
    <2>1. Pending(c)' = Joined(QueuedLines(gCommandQueue, c)', u)
      BY <1>1, <1>8, <1>10, <1>12, <1>16, PendingParts
    <2>2. QueuedLines(gCommandQueue, c)' = IF rest = <<>> THEN q ELSE Joined(<<rest>>, q)
      BY <1>13, <1>15
    <2>3. rest # <<>> => Joined(Joined(<<rest>>, q), u) = Joined(<<rest>>, left)
      BY <1>9, <1>17, <1>18, FirstOfJoined
    <2>. QED BY <1>18, <2>1, <2>2, <2>3
  <1>22. Pending(c) # <<>> /\ Pending(c)[1] = first.cmds /\ Tail(Pending(c)) = left
    BY <1>8, <1>19, <1>20, JoinedFirst
  <1>23. PendingNow' = [PendingNow EXCEPT
             ![c] = (IF rest = <<>> THEN <<>> ELSE <<rest>>) \o Tail(@)]
    <2>1. Joined(<<>>, left) = left
      BY <1>19, EmptySeq, JoinedType
    <2>2. Pending(c)' = (IF rest = <<>> THEN <<>> ELSE <<rest>>) \o Tail(Pending(c))
      BY <1>21, <1>22, <2>1 DEF Joined
    <2>. QED BY <1>8, <1>14, <2>2 DEF PendingNow
  <1>24. \/ AnswersNow' = [AnswersNow EXCEPT ![c] = Append(@, result)]
         \/ c \in HungUpNow /\ UNCHANGED AnswersNow
    <2>1. ToClient(c)
      BY <1>3, <1>5 DEF Answer
    <2>2. CASE peer[c] \in {"end of file", "hung up"}
      <3>1. peer[c] = "hung up"
        BY <1>8, <2>2 DEF IInv, EndsAgree
      <3>2. UNCHANGED reply
        BY <2>1, <2>2 DEF ToClient
      <3>. QED BY <1>8, <1>10, <3>1, <3>2 DEF AnswersNow, HungUpNow
    <2>3. CASE peer[c] \notin {"end of file", "hung up"}
      <3>1. reply' = [reply EXCEPT ![c] = Append(@, result)]
        BY <2>1, <2>3 DEF ToClient
      <3>2. \A d \in Clients : reply'[d] = IF d = c THEN Attach(reply[c], result) ELSE reply[d]
        BY <3>1 DEF IInv, TypeOK, Attach
      <3>3. /\ got[c] \in Seq({"Ok.", "ERROR"}) /\ reply[c] \in Seq({"Ok.", "ERROR"})
            /\ result \in {"Ok.", "ERROR"}
        BY <1>8 DEF IInv, TypeOK
      <3>4. Attach(Joined(got[c], reply[c]), result) = Joined(got[c], Attach(reply[c], result))
        BY <3>3, AttachJoined
      <3>5. got[c] \o reply'[c] = Append(got[c] \o reply[c], result)
        BY <1>8, <3>2, <3>4 DEF Joined, Attach
      <3>. QED BY <1>8, <1>10, <3>2, <3>5 DEF AnswersNow
    <2>. QED BY <2>2, <2>3
  <1>25. HungUpNow' = HungUpNow /\ (pc = "ended")' = (pc = "ended")
    BY <1>1, <1>10 DEF HungUpNow
  <1>26. PendingNow[c] = Pending(c)
    BY <1>8 DEF PendingNow
  <1>27. result \in Service!Answers
    BY DEF Service!Answers, IInv, TypeOK
  <1>28. rest = IF result = "ERROR" THEN <<>> ELSE Tail(PendingNow[c][1])
    BY <1>6, <1>22, <1>26
  <1>29. PICK answer : answer = result
    OBVIOUS
  <1>30. Service!Execute(c, answer)
    BY <1>1, <1>22, <1>23, <1>24, <1>25, <1>26, <1>28, <1>29
       DEF Service!Execute, PendingNow, AnswersNow, HungUpNow
  <1>. QED BY <1>8, <1>27, <1>29, <1>30

(* Every step of the daemon and its clients is one of the service's, or    *)
(* none of them.                                                           *)
LEMMA StepMaps == IInv /\ [Next]_vars => [Service!Next]_(Service!vars)
  <1>. SUFFICES ASSUME IInv, [Next]_vars PROVE [Service!Next]_(Service!vars)
    OBVIOUS
  <1>1. CASE UNCHANGED vars
    <2>1. UNCHANGED <<gCommandQueue, file, sock, conn, peer, got, reply, pc>>
      BY <1>1 DEF vars, daemonVars, clientVars
    <2>. QED BY <2>1, NothingPromised DEF AnswersNow
  <1>2. CASE Answer
    BY <1>2, AnswerMaps DEF Service!Next
  <1>3. CASE Sweep
    <2>1. gFDRemoveQueue \cap HungUpNow \in SUBSET Clients
      BY DEF HungUpNow
    <2>. QED BY <1>3, <2>1, SweepMaps DEF Service!Next
  <1>4. CASE End
    BY <1>4, EndMaps DEF Service!Next
  <1>5. ASSUME NEW c \in Clients, Write(c) PROVE [Service!Next]_(Service!vars)
    <2>1. CASE conn[c] = "closed"
      BY <1>5, <2>1, HangUpMaps DEF Service!Next
    <2>2. CASE conn[c] # "closed"
      <3>1. PICK x : x = Stream[c][sent[c] + 1]
        OBVIOUS
      <3>2. IF x = NL THEN UNCHANGED Service!vars
            ELSE x \in (UNION {Range(Stream[d]) : d \in Clients}) \ {NL} /\ Service!Send(c, x)
        BY <1>5, <2>2, <3>1, WriteMaps
      <3>. QED BY <3>2 DEF Service!Next
    <2>. QED BY <2>1, <2>2
  <1>6. ASSUME NEW c \in Clients, HangUp(c) PROVE [Service!Next]_(Service!vars)
    BY <1>6, HangUpMaps DEF Service!Next
  <1>7. ASSUME NEW c \in Clients, ReadCommand(c) PROVE [Service!Next]_(Service!vars)
    BY <1>7, ReadMaps
  <1>8. CASE \/ RunCommand \/ ShellCommand \/ EnterWait \/ WaitReturns \/ WaitAgain \/ EnterPoll
             \/ PollReturns \/ DispatchDone \/ NewCommandClient
             \/ HandleChild \/ Terminate \/ \E p \in Pids : ChildExits(p)
             \/ \E c \in Clients : GetlineBlocks(c) \/ Connect(c) \/ Shutdown(c) \/ Read(c)
    BY <1>8, OthersMap
  <1>. QED BY <1>1, <1>2, <1>3, <1>4, <1>5, <1>6, <1>7, <1>8 DEF Next, DaemonStep, ClientStep

(* The inductive invariant holds.                                          *)
THEOREM IInvHolds == Spec => []IInv
  <1>. QED BY InitIInv, IInvKept, PTL DEF Spec

(* The daemon with its sockets, buffers, queue and child processes is a    *)
(* command service: whatever clients do, no line of a client that stays is *)
(* lost, reordered or executed twice, and each command is answered once,   *)
(* to the client that sent it (readCommand, processCommandQueue, toClient, *)
(* processRemoveQueue).                                                    *)
THEOREM ServiceImplemented == Spec => ServiceKept
  <1>. QED BY InitIInv, IInvKept, InitMaps, StepMaps, PTL DEF Spec, ServiceKept, Service!Spec

-----------------------------------------------------------------------------
(* The answers of `netevent command`.  Its line is either not sent, or to  *)
(* be executed from behind the commands answered so far, or executed.      *)

Executed(given, line) == given # <<>> /\ (Len(given) = Len(line) \/ Last(given) = "ERROR")

Remaining(given, line) == SubSeq(line, Len(given) + 1, Len(line))

LineProgress(c) ==
    \/ sent[c] = 0 /\ PendingNow[c] = <<>> /\ AnswersNow[c] = <<>>
    \/ /\ sent[c] = 1 /\ Len(AnswersNow[c]) < Len(Stream[c][1])
       /\ PendingNow[c] = <<Remaining(AnswersNow[c], Stream[c][1])>>
    \/ sent[c] = 1 /\ PendingNow[c] = <<>> /\ Executed(AnswersNow[c], Stream[c][1])

(* `netevent command` shuts its side down when the line is written, and is *)
(* only stopped by a write to a closed connection.                         *)
CommandEnds ==
    \A c \in Clients \ Sessions :
        /\ peer[c] \in {"half", "end of file"} => sent[c] = 1
        /\ peer[c] = "hung up" => conn[c] = "closed"

LinesProgress == ~gQuit => \A c \in Clients \ Sessions : LineProgress(c)

(* What the service's steps mean for pending lines and answers.            *)
LEMMA NothingHappens ==
    ASSUME UNCHANGED Service!vars
    PROVE  PendingNow' = PendingNow /\ AnswersNow' = AnswersNow
  BY DEF Service!vars, PendingNow, AnswersNow

(* Forgetting clients touches nobody else and no answers.                  *)
LEMMA ForgetEffect ==
    ASSUME NEW cs, Service!Forget(cs)
    PROVE  /\ AnswersNow' = AnswersNow
           /\ \A c \in Clients \ cs : PendingNow'[c] = PendingNow[c]
  BY DEF Service!Forget, PendingNow, AnswersNow

(* A line sent is behind the lines of its client, and of no other.         *)
LEMMA SendEffect ==
    ASSUME NEW c \in Clients, NEW x, Service!Send(c, x)
    PROVE  /\ AnswersNow' = AnswersNow
           /\ \A d \in Clients : PendingNow'[d] = IF d = c THEN Append(PendingNow[d], x)
                                                  ELSE PendingNow[d]
  BY DEF Service!Send, PendingNow, AnswersNow

(* An executed command leaves the line it was on, and is answered.         *)
LEMMA ExecuteEffect ==
    ASSUME NEW c \in Clients, NEW answer, Service!Execute(c, answer)
    PROVE  /\ PendingNow[c] # <<>>
           /\ \A d \in Clients \ {c} : PendingNow'[d] = PendingNow[d] /\ AnswersNow'[d] = AnswersNow[d]
           /\ \E rest : /\ rest = IF answer = "ERROR" THEN <<>> ELSE Tail(PendingNow[c][1])
                        /\ PendingNow'[c] = (IF rest = <<>> THEN <<>> ELSE <<rest>>) \o Tail(PendingNow[c])
           /\ \/ AnswersNow'[c] = Append(AnswersNow[c], answer)
              \/ peer[c] = "hung up" /\ AnswersNow'[c] = AnswersNow[c]
  BY DEF Service!Execute, PendingNow, AnswersNow, HungUpNow

(* The next answer takes the next command off the line.                    *)
RestAfter(answer, line) == IF answer = "ERROR" THEN <<>> ELSE Tail(line)

(* After it the line is executed, or what is left of it is shorter by one. *)
LEMMA OneCommand ==
    ASSUME NEW line \in Seq(Commands), NEW given \in Seq({"Ok.", "ERROR"}),
           NEW answer \in {"Ok.", "ERROR"}, Len(given) < Len(line)
    PROVE  IF RestAfter(answer, Remaining(given, line)) = <<>>
           THEN Executed(Attach(given, answer), line)
           ELSE /\ Len(Attach(given, answer)) < Len(line)
                /\ RestAfter(answer, Remaining(given, line)) = Remaining(Attach(given, answer), line)
  <1>. DEFINE more == Attach(given, answer)
              rest == RestAfter(answer, Remaining(given, line))
  <1>. DEFINE k == Len(given)
              m == Len(line)
              left == SubSeq(line, k + 1, m)
  <1>1. k \in Nat /\ m \in Nat /\ k < m /\ m \in 1..m
    BY LenProperties
  <1>2. /\ more \in Seq({"Ok.", "ERROR"}) /\ Len(more) = k + 1 /\ more # <<>> /\ Last(more) = answer
    <2>1. more \in Seq({"Ok.", "ERROR"}) /\ Len(more) = k + 1 /\ more[k + 1] = answer
      BY AppendProperties DEF Attach
    <2>. HIDE DEF more
    <2>2. more # <<>>
      BY <1>1, <2>1
    <2>. QED BY <2>1, <2>2 DEF Last
  <1>3. Tail(left) = SubSeq(line, (k + 1) + 1, m)
    <2>1. k + 1 \in 1..m /\ m \in (k + 1)..m
      BY <1>1
    <2>. QED BY <2>1, HeadTailOfSubSeq
  <1>4. rest = IF answer = "ERROR" THEN <<>> ELSE SubSeq(line, (k + 1) + 1, m)
    BY <1>3 DEF RestAfter, Remaining
  <1>. HIDE DEF k, m, left, more, rest
  <1>5. CASE rest # <<>>
    <2>1. rest = SubSeq(line, (k + 1) + 1, m)
      BY <1>4, <1>5
    <2>2. k + 1 < m
      <3>1. SubSeq(line, m + 1, m) = <<>>
        BY <1>1, SubSeqEmpty
      <3>2. k + 1 # m
        BY <1>5, <2>1, <3>1
      <3>. QED BY <1>1, <3>2
    <2>3. rest = Remaining(more, line)
      BY <1>2, <2>1 DEF Remaining, m
    <2>. QED BY <1>2, <1>5, <2>2, <2>3 DEF m, more, rest
  <1>6. CASE rest = <<>>
    <2>1. answer = "ERROR" \/ m = k + 1
      <3>. SUFFICES ASSUME answer # "ERROR", m # k + 1 PROVE FALSE
        OBVIOUS
      <3>1. SubSeq(line, (k + 1) + 1, m) = <<>>
        BY <1>4, <1>6
      <3>2. Len(SubSeq(line, (k + 1) + 1, m)) = m - (k + 1)
        <4>1. k + 1 \in 0..m /\ m \in (k + 1)..m /\ m = Len(line)
          BY <1>1 DEF m
        <4>. QED BY <4>1, SubSeqParts
      <3>3. PICK n : n = Len(SubSeq(line, (k + 1) + 1, m))
        OBVIOUS
      <3>4. n = 0
        BY <3>1, <3>3, EmptySeq
      <3>5. n = m - (k + 1)
        BY <3>2, <3>3
      <3>. QED BY <1>1, <3>4, <3>5
    <2>. QED BY <1>2, <1>6, <2>1 DEF Executed, m, more, rest
  <1>. QED BY <1>5, <1>6

(* The stream of a `netevent command` is one line.                         *)
LEMMA OneLine ==
    ASSUME NEW c \in Clients \ Sessions
    PROVE  /\ Len(Stream[c]) = 1 /\ Stream[c][1] \in Seq(Commands) /\ Stream[c][1] # NL
           /\ Len(Stream[c][1]) \in Nat \ {0}
  <1>1. Stream[c] \in Seq(Seq(Commands)) /\ Len(Stream[c]) = 1 /\ Stream[c][1] # NL
    BY CommandsAssumption
  <1>2. Stream[c][1] \in Seq(Commands)
    BY <1>1, ElementOfSeq
  <1>. QED BY <1>1, <1>2, EmptySeq DEF NL

(* A `netevent command` ends when its line is written.                     *)
LEMMA CommandEndsKept ==
    ASSUME TypeOK, ControlAgrees, ServerFirst, OpenPolled, EndsAgree, CommandEnds, [Next]_vars
    PROVE  CommandEnds'
  <1>. USE DEF daemonVars, pollVars, childVars, clientVars
  <1>1. ASSUME UNCHANGED <<peer, sent>>,
               \A c \in Clients : conn[c] = "closed" => conn'[c] = "closed"
        PROVE  CommandEnds'
    BY <1>1 DEF CommandEnds
  <1>2. CASE UNCHANGED vars
    BY <1>1, <1>2 DEF vars
  <1>3. CASE \/ RunCommand \/ ShellCommand \/ EnterWait \/ WaitReturns \/ WaitAgain \/ Answer
             \/ EnterPoll \/ PollReturns \/ DispatchDone
             \/ HandleChild \/ Terminate \/ \E p \in Pids : ChildExits(p)
             \/ \E c \in Clients : GetlineBlocks(c) \/ ReadCommand(c)
    BY <1>1, <1>3 DEF RunCommand, ShellCommand, EnterWait, WaitReturns, WaitAgain, Answer,
           EnterPoll, PollReturns, DispatchDone, HandleChild, Terminate, ChildExits,
           GetlineBlocks, ReadCommand
  <1>4. CASE Sweep \/ End
    BY <1>1, <1>4 DEF Sweep, End
  <1>5. CASE NewCommandClient
    <2>1. backlog # <<>> /\ pc # "ended"
      BY <1>5 DEF NewCommandClient, Dispatching, ServerFirst
    <2>2. Head(backlog) \in Waiting
      BY <2>1, HeadTailProperties DEF OpenPolled
    <2>. QED BY <1>1, <1>5, <2>2 DEF NewCommandClient, Waiting, TypeOK
  <1>6. ASSUME NEW c \in Clients, Connect(c) PROVE CommandEnds'
    <2>1. \A d \in Clients : /\ d # c => conn'[d] = conn[d] /\ peer'[d] = peer[d]
                             /\ d = c => peer'[d] = "open"
      BY <1>6 DEF Connect, TypeOK
    <2>. QED BY <1>6, <2>1 DEF Connect, CommandEnds
  <1>7. ASSUME NEW c \in Clients, Write(c) PROVE CommandEnds'
    <2>1. \A d \in Clients \ {c} : peer'[d] = peer[d] /\ sent'[d] = sent[d]
      BY <1>7 DEF Write, TypeOK
    <2>2. peer'[c] \in {"open", "hung up"} /\ (peer'[c] = "hung up" => conn[c] = "closed")
          /\ UNCHANGED conn
      BY <1>7 DEF Write, TypeOK
    <2>. QED BY <2>1, <2>2 DEF CommandEnds
  <1>8. ASSUME NEW c \in Clients, Shutdown(c) PROVE CommandEnds'
    <2>1. \A d \in Clients \ {c} : peer'[d] = peer[d]
      BY <1>8 DEF Shutdown, TypeOK
    <2>2. peer'[c] = "half" /\ sent[c] = Len(Stream[c]) /\ UNCHANGED <<conn, sent>>
      BY <1>8 DEF Shutdown, TypeOK
    <2>3. c \in Clients \ Sessions => Len(Stream[c]) = 1
      BY OneLine
    <2>. QED BY <2>1, <2>2, <2>3 DEF CommandEnds
  <1>9. ASSUME NEW c \in Clients, Read(c) PROVE CommandEnds'
    <2>1. \A d \in Clients \ {c} : peer'[d] = peer[d]
      BY <1>9 DEF Read, TypeOK
    <2>2. c \notin Sessions => peer[c] = "half"
      BY <1>9 DEF Read
    <2>3. (peer'[c] = peer[c] \/ peer'[c] = "end of file") /\ UNCHANGED <<conn, sent>>
      BY <1>9 DEF Read, TypeOK
    <2>. QED BY <2>1, <2>2, <2>3 DEF CommandEnds
  <1>10. ASSUME NEW c \in Clients, HangUp(c) PROVE CommandEnds'
    <2>1. c \in Sessions /\ (\A d \in Clients \ {c} : peer'[d] = peer[d]) /\ UNCHANGED <<conn, sent>>
      BY <1>10 DEF HangUp, TypeOK
    <2>. QED BY <2>1 DEF CommandEnds
  <1>. QED BY <1>2, <1>3, <1>4, <1>5, <1>6, <1>7, <1>8, <1>9, <1>10
           DEF Next, DaemonStep, ClientStep

(* Nothing but the client's writes and the daemon's answers moves a line.  *)
LEMMA ProgressKept ==
    ASSUME IInv, CommandEnds, LinesProgress, [Next]_vars
    PROVE  LinesProgress'
  <1>. USE DEF daemonVars, pollVars, childVars, clientVars
  <1>. SUFFICES ASSUME ~gQuit', NEW c \in Clients \ Sessions PROVE LineProgress(c)'
    BY DEF LinesProgress
  <1>1. ~gQuit
    <2>1. gQuit' = gQuit \/ gQuit' = TRUE \/ RunCommand
      BY DEF Next, DaemonStep, ClientStep, vars, ShellCommand, EnterWait, WaitReturns, WaitAgain, Answer,
             Sweep, EnterPoll, PollReturns, DispatchDone, NewCommandClient, End, GetlineBlocks,
             ReadCommand, HandleChild, Terminate, ChildExits, Connect, Write, Shutdown, Read, HangUp
    <2>2. CASE RunCommand
      BY <2>2 DEF RunCommand
    <2>. QED BY <2>1, <2>2 DEF IInv, TypeOK
  <1>2. LineProgress(c)
    BY <1>1 DEF LinesProgress
  <1>3. ASSUME PendingNow'[c] = PendingNow[c], AnswersNow'[c] = AnswersNow[c], sent'[c] = sent[c]
        PROVE  LineProgress(c)'
    BY <1>2, <1>3 DEF LineProgress
  <1>4. CASE UNCHANGED vars
    <2>1. UNCHANGED <<gCommandQueue, file, sock, conn, peer, got, reply, pc, sent>>
      BY <1>4 DEF vars
    <2>2. UNCHANGED Service!vars
      BY <2>1, NothingPromised DEF AnswersNow
    <2>. QED BY <1>3, <2>1, <2>2, NothingHappens
  <1>5. CASE \/ RunCommand \/ ShellCommand \/ EnterWait \/ WaitReturns \/ WaitAgain \/ EnterPoll
             \/ PollReturns \/ DispatchDone \/ NewCommandClient
             \/ HandleChild \/ Terminate \/ \E p \in Pids : ChildExits(p)
             \/ \E d \in Clients : GetlineBlocks(d) \/ Connect(d) \/ Shutdown(d) \/ Read(d)
    <2>1. UNCHANGED Service!vars
      BY <1>5, OthersMap
    <2>2. sent' = sent
      BY <1>5 DEF RunCommand, ShellCommand, EnterWait, WaitReturns, WaitAgain, EnterPoll, PollReturns,
             DispatchDone, NewCommandClient, HandleChild, Terminate, ChildExits, GetlineBlocks,
             Connect, Shutdown, Read
    <2>. QED BY <1>3, <2>1, <2>2, NothingHappens
  <1>6. ASSUME NEW d \in Clients, ReadCommand(d) PROVE LineProgress(c)'
    <2>1. UNCHANGED Service!vars
      BY <1>6, ReadMaps
    <2>2. sent' = sent
      BY <1>6 DEF ReadCommand
    <2>. QED BY <1>3, <2>1, <2>2, NothingHappens
  <1>7. CASE Sweep
    <2>1. c \notin gFDRemoveQueue \cap HungUpNow
      BY <1>7 DEF Sweep, IInv, OpenQueued, Open, HungUpNow, CommandEnds
    <2>2. Service!Forget(gFDRemoveQueue \cap HungUpNow)
      BY <1>7, SweepMaps
    <2>3. PICK cs : cs = gFDRemoveQueue \cap HungUpNow
      OBVIOUS
    <2>4. AnswersNow' = AnswersNow /\ PendingNow'[c] = PendingNow[c]
      BY <2>1, <2>2, <2>3, ForgetEffect
    <2>. QED BY <1>3, <1>7, <2>4 DEF Sweep
  <1>8. CASE End
    BY <1>1, <1>8 DEF End, IInv, ControlAgrees
  <1>9. ASSUME NEW d \in Clients, HangUp(d) PROVE LineProgress(c)'
    <2>1. UNCHANGED <<pc, conn, gCommandQueue, file, sock, got, reply, sent>>
      BY <1>9 DEF HangUp
    <2>2. PendingNow' = PendingNow /\ AnswersNow' = AnswersNow
      BY <2>1 DEF PendingNow, Pending, AnswersNow
    <2>. QED BY <1>3, <2>1, <2>2
  <1>10. ASSUME NEW d \in Clients, Write(d), conn[d] = "closed" PROVE LineProgress(c)'
    <2>1. UNCHANGED <<pc, conn, gCommandQueue, file, sock, got, reply, sent>>
      BY <1>10 DEF Write
    <2>2. PendingNow' = PendingNow /\ AnswersNow' = AnswersNow
      BY <2>1 DEF PendingNow, Pending, AnswersNow
    <2>. QED BY <1>3, <2>1, <2>2
  <1>11. ASSUME NEW d \in Clients, Write(d), conn[d] # "closed" PROVE LineProgress(c)'
    <2>1. PICK x : x = Stream[d][sent[d] + 1]
      OBVIOUS
    <2>2. IF x = NL THEN UNCHANGED Service!vars ELSE Service!Send(d, x)
      BY <1>11, <2>1, WriteMaps
    <2>3. sent[d] < Len(Stream[d]) /\ \A e \in Clients : sent'[e] = IF e = d THEN sent[e] + 1 ELSE sent[e]
      <3>1. sent \in [Clients -> Nat]
        BY DEF IInv, TypeOK
      <3>2. sent[d] < Len(Stream[d]) /\ sent' = [sent EXCEPT ![d] = @ + 1]
        BY <1>11 DEF Write
      <3>. QED BY <3>1, <3>2
    <2>4. CASE c # d
      <3>1. PendingNow'[c] = PendingNow[c] /\ AnswersNow'[c] = AnswersNow[c]
        BY <2>2, <2>4, NothingHappens, SendEffect
      <3>. QED BY <1>3, <2>3, <2>4, <3>1
    <2>5. CASE c = d
      <3>1. /\ Len(Stream[c]) = 1 /\ Stream[c][1] \in Seq(Commands) /\ Stream[c][1] # NL
            /\ Len(Stream[c][1]) \in Nat \ {0}
        BY OneLine
      <3>2. sent[c] = 0 /\ sent'[c] = 1 /\ x = Stream[c][1]
        BY <1>2, <2>1, <2>3, <2>5, <3>1 DEF LineProgress
      <3>3. PendingNow[c] = <<>> /\ AnswersNow[c] = <<>>
        BY <1>2, <3>2 DEF LineProgress
      <3>4. AnswersNow'[c] = <<>> /\ PendingNow'[c] = Append(<<>>, x)
        <4>1. Service!Send(d, x)
          BY <2>2, <3>1, <3>2
        <4>2. AnswersNow' = AnswersNow /\ PendingNow'[d] = Append(PendingNow[d], x)
          BY <4>1, SendEffect
        <4>. QED BY <2>5, <3>3, <4>2
      <3>5. PICK line : line = Stream[c][1]
        OBVIOUS
      <3>6. Remaining(<<>>, line) = line /\ Len(<<>>) = 0
        <4>1. SubSeq(line, 1, Len(line)) = line
          BY <3>1, <3>5, SubSeqFull
        <4>2. Len(<<>>) + 1 = 1 /\ Len(<<>>) = 0
          BY EmptySeq
        <4>. QED BY <4>1, <4>2 DEF Remaining
      <3>7. Append(<<>>, x) = <<line>>
        BY <3>2, <3>5
      <3>. QED BY <3>1, <3>2, <3>4, <3>5, <3>6, <3>7 DEF LineProgress
    <2>. QED BY <2>4, <2>5
  <1>12. CASE Answer
    <2>1. PICK d \in Clients, answer \in {"Ok.", "ERROR"} : Service!Execute(d, answer)
      BY <1>12, AnswerMaps DEF Service!Answers
    <2>2. sent' = sent
      BY <1>12 DEF Answer
    <2>3. CASE c # d
      BY <1>3, <2>1, <2>2, <2>3, ExecuteEffect
    <2>4. CASE c = d
      <3>1. PendingNow[c] # <<>>
        BY <2>1, <2>4, ExecuteEffect
      <3>2. sent[c] = 1 /\ Len(AnswersNow[c]) < Len(Stream[c][1])
            /\ PendingNow[c] = <<Remaining(AnswersNow[c], Stream[c][1])>>
        BY <1>2, <3>1 DEF LineProgress
      <3>3. peer[c] # "hung up"
        BY <3>1 DEF CommandEnds, PendingNow, Pending
      <3>4. PICK line, given : line = Stream[c][1] /\ given = AnswersNow[c]
        OBVIOUS
      <3>5. line \in Seq(Commands) /\ given \in Seq({"Ok.", "ERROR"})
        <4>1. got[c] \in Seq({"Ok.", "ERROR"}) /\ reply[c] \in Seq({"Ok.", "ERROR"})
          BY DEF IInv, TypeOK
        <4>2. AnswersNow[c] \in Seq({"Ok.", "ERROR"})
          BY <4>1, ConcatProperties DEF AnswersNow
        <4>. QED BY <3>4, <4>2, OneLine
      <3>6. AnswersNow'[c] = Attach(given, answer)
        BY <2>1, <2>4, <3>3, <3>4, ExecuteEffect DEF Attach
      <3>7. PICK left : left = Remaining(given, line)
        OBVIOUS
      <3>8. PendingNow[c] = <<left>>
        BY <3>2, <3>4, <3>7
      <3>9. PendingNow[c][1] = left /\ Tail(PendingNow[c]) = <<>>
        BY <3>8
      <3>10. PICK rest : /\ rest = RestAfter(answer, left)
                         /\ PendingNow'[c] = (IF rest = <<>> THEN <<>> ELSE <<rest>>) \o <<>>
        <4>1. PICK rest :
                 /\ rest = IF answer = "ERROR" THEN <<>> ELSE Tail(PendingNow[c][1])
                 /\ PendingNow'[c] = (IF rest = <<>> THEN <<>> ELSE <<rest>>) \o Tail(PendingNow[c])
          BY <2>1, <2>4, ExecuteEffect
        <4>2. rest = RestAfter(answer, left)
          BY <3>9, <4>1 DEF RestAfter
        <4>3. PendingNow'[c] = (IF rest = <<>> THEN <<>> ELSE <<rest>>) \o <<>>
          BY <3>9, <4>1, Zenon
        <4>. QED BY <4>2, <4>3
      <3>11. PendingNow'[c] = IF rest = <<>> THEN <<>> ELSE <<rest>>
        <4>1. <<rest>> \o <<>> = <<rest>> /\ <<>> \o <<>> = <<>>
          OBVIOUS
        <4>. QED BY <3>10, <4>1, Zenon
      <3>12. Len(given) < Len(line) /\ answer \in {"Ok.", "ERROR"}
        BY <2>1, <3>2, <3>4
      <3>13. IF rest = <<>> THEN Executed(Attach(given, answer), line)
             ELSE /\ Len(Attach(given, answer)) < Len(line)
                  /\ rest = Remaining(Attach(given, answer), line)
        BY <3>5, <3>7, <3>10, <3>12, OneCommand
      <3>14. sent'[c] = 1
        BY <2>2, <3>2
      <3>. QED BY <3>4, <3>6, <3>11, <3>13, <3>14 DEF LineProgress
    <2>. QED BY <2>3, <2>4
  <1>. QED BY <1>4, <1>5, <1>6, <1>7, <1>8, <1>9, <1>10, <1>11, <1>12
           DEF Next, DaemonStep, ClientStep

(* For Zenon, which knows no arithmetic.                                   *)
LEMMA OneNotZero == 1 # 0
  OBVIOUS

(* A client at the end of its answers has a closed connection and nothing  *)
(* pending, and its line was sent: it has been executed.                   *)
LEMMA AllAnswered == IInv /\ CommandEnds /\ LinesProgress => AnswersComplete
  <1>. SUFFICES ASSUME IInv, CommandEnds, LinesProgress, NEW c \in Clients \ Sessions,
                       peer[c] = "end of file", ~gQuit
                PROVE  /\ got[c] # <<>>
                       /\ Len(got[c]) = Len(Stream[c][1]) \/ Last(got[c]) = "ERROR"
    BY DEF AnswersComplete
  <1>1. conn[c] = "closed" /\ reply[c] = <<>>
    BY DEF IInv, EndsAgree
  <1>2. PendingNow[c] = <<>>
    BY <1>1 DEF PendingNow, Pending
  <1>3. AnswersNow[c] = got[c]
    <2>1. got[c] \in Seq({"Ok.", "ERROR"}) /\ AnswersNow[c] = got[c] \o <<>>
      BY <1>1 DEF IInv, TypeOK, AnswersNow
    <2>. QED BY <2>1, ConcatEmptySeq
  <1>4. LineProgress(c)
    BY DEF LinesProgress
  <1>5. <<Remaining(AnswersNow[c], Stream[c][1])>> # <<>>
    OBVIOUS
  <1>6. Executed(AnswersNow[c], Stream[c][1])
    <2>1. sent[c] = 1
      BY DEF CommandEnds
    <2>. QED BY <1>2, <1>4, <1>5, <2>1, Zenon, OneNotZero DEF LineProgress
  <1>. QED BY <1>3, <1>6 DEF Executed

(* A `netevent command` that reads the end of its answers has them all: a  *)
(* connection is closed only when its line has come out of the socket, the *)
(* buffer and the queue (readCommand, processCommandQueue before           *)
(* processRemoveQueue), unless the daemon was told to end.                 *)
THEOREM AnswersAllRead == Spec => []AnswersComplete
  <1>. DEFINE JInv == IInv /\ CommandEnds /\ LinesProgress
  <1>1. Init => JInv
    <2>. SUFFICES ASSUME Init PROVE CommandEnds /\ LinesProgress
      BY InitIInv
    <2>1. ASSUME NEW c \in Clients PROVE PendingNow[c] = <<>> /\ AnswersNow[c] = <<>> /\ sent[c] = 0
      BY InitMaps DEF Init, Service!Init, PendingNow, AnswersNow
    <2>. QED BY <2>1 DEF Init, CommandEnds, LinesProgress, LineProgress
  <1>2. JInv /\ [Next]_vars => JInv'
    BY IInvKept, CommandEndsKept, ProgressKept DEF IInv
  <1>3. JInv => AnswersComplete
    BY AllAnswered
  <1>. QED BY <1>1, <1>2, <1>3, PTL DEF Spec
=============================================================================
