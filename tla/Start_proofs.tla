---------------------------- MODULE Start_proofs ----------------------------
(***************************************************************************)
(* Theorems about Start, for any set of starters.  IInv is inductive: it   *)
(* says what the next call of each process tells about its socket, its     *)
(* sender and the name.                                                    *)
(***************************************************************************)
EXTENDS Start, SequenceTheorems, TLAPS

-----------------------------------------------------------------------------
(* The inductive invariant.                                                *)

(* What a receiver has done so far is what state its socket is in.         *)
SocketsFollow ==
    \A s \in Starters :
        /\ receiver[s] \in {"off", "unlink", "bind", "failed", "ended", "killed"}
               => serversock[s] = "closed"
        /\ receiver[s] = "listen" => serversock[s] = "bound"
        /\ receiver[s] \in {"daemonize", "first", "accepts"} => serversock[s] = "listening"
        /\ receiver[s] = "reads" => serversock[s] \in {"closed", "listening"}

(* Only starters with --connect have a sender; it forks at most once, and  *)
(* does not write before its receiver has been through doDaemonize.        *)
SendersFollow ==
    \A s \in Starters :
        /\ sender[s] # "off" => optConnect[s]
        /\ optConnect[s] /\ sender[s] = "off" => receiver[s] = "off"
        /\ sender[s] = "copies" => receiver[s] \notin Starting

(* Without rivals, and for abstract names, no open socket lost its name.   *)
NameKept ==
    ~overlap \/ abstract => \A s \in Starters : serversock[s] # "closed" => path = s

(* Without rivals a receiver that starts is alone with its socket, and     *)
(* nothing has the name between its unlink and its bind.                   *)
StartsAlone ==
    ~overlap => \A r \in Starters : receiver[r] \in Starting =>
        /\ \A s \in Starters \ {r} : receiver[s] \notin Starting /\ serversock[s] = "closed"
        /\ receiver[r] = "bind" => path = None

IInv ==
    /\ TypeOK /\ SocketsFollow /\ SendersFollow
    /\ LeftClean /\ NameKept /\ StartsAlone /\ FailedByRivals

-----------------------------------------------------------------------------
(* Type correctness.                                                       *)

(* What After and ToDaemonize come to: the calls in their order.           *)
LEMMA CallsInOrder ==
    /\ After("unlink") = "bind" /\ After("bind") = "listen"
    /\ After("listen") = "daemonize" /\ After("daemonize") = "first"
    /\ ToDaemonize = Starting
  <1>. DEFINE order == <<"unlink", "bind", "listen", "daemonize">>
  <1>1. DOMAIN order = 1..4 /\ Len(order) = 4
    OBVIOUS
  <1>2. /\ (CHOOSE i \in DOMAIN order : order[i] = "unlink") = 1
        /\ (CHOOSE i \in DOMAIN order : order[i] = "bind") = 2
        /\ (CHOOSE i \in DOMAIN order : order[i] = "listen") = 3
        /\ (CHOOSE i \in DOMAIN order : order[i] = "daemonize") = 4
    BY <1>1
  <1>3. /\ After("unlink") = "bind" /\ After("bind") = "listen"
        /\ After("listen") = "daemonize" /\ After("daemonize") = "first"
    BY <1>1, <1>2 DEF After, StartOrder
  <1>4. \A i \in 1..4 : \A j \in 1..(i - 1) : order[j] # "daemonize"
    OBVIOUS
  <1>5. ToDaemonize = {order[i] : i \in 1..4}
    BY <1>1, <1>4 DEF ToDaemonize, StartOrder
  <1>6. ToDaemonize = Starting
    BY <1>5 DEF Starting
  <1>. QED BY <1>3, <1>6

(* The initial states satisfy IInv.                                        *)
LEMMA InitIInv == Init => IInv
  <1>. SUFFICES ASSUME Init PROVE IInv
    OBVIOUS
  <1>1. TypeOK
    BY EmptySeq DEF Init, TypeOK
  <1>2. SocketsFollow /\ SendersFollow /\ LeftClean /\ NameKept /\ StartsAlone /\ FailedByRivals
    BY DEF Init, SocketsFollow, SendersFollow, LeftClean, NameKept, StartsAlone, FailedByRivals,
           Starting
  <1>. QED BY <1>1, <1>2 DEF IInv

(* A step keeps the types.  That a receiver starts once is needed for what *)
(* it reads.                                                               *)
LEMMA TypeKept == TypeOK /\ SendersFollow /\ [Next]_vars => TypeOK'
  <1>. SUFFICES ASSUME TypeOK, SendersFollow, [Next]_vars PROVE TypeOK'
    OBVIOUS
  <1>. USE StartAssumption DEF Starting
  <1>1. CASE UNCHANGED vars
    BY <1>1 DEF vars, options, sockets, histories, TypeOK
  <1>2. ASSUME NEW s \in Starters, connect(s) PROVE TypeOK'
    <2>1. path \in Starters
      BY <1>2 DEF connect, Listening, TypeOK
    <2>2. backlog' \in [Starters -> Seq(Starters)]
      <3>1. backlog \in [Starters -> Seq(Starters)] /\ backlog[path] \in Seq(Starters)
        BY <2>1 DEF TypeOK
      <3>2. Append(backlog[path], s) \in Seq(Starters)
        BY <3>1, AppendProperties
      <3>. QED BY <1>2, <3>1, <3>2 DEF connect
    <2>. QED BY <1>2, <2>1, <2>2 DEF connect, options, histories, TypeOK
  <1>3. ASSUME NEW s \in Starters, connectRefused(s) \/ listen(s) PROVE TypeOK'
    <2>1. sender' \in [Starters -> {"off", "waits", "copies", "no socket", "broken pipe", "done"}]
      <3>1. sender \in [Starters -> {"off", "waits", "copies", "no socket", "broken pipe", "done"}]
        BY DEF TypeOK
      <3>. QED BY <1>3, <3>1 DEF connectRefused, listen
    <2>2. startReceiver(s)
      BY <1>3 DEF connectRefused, listen
    <2>3. receiver[s] # "reads"
      BY <1>3 DEF connectRefused, listen, TypeOK, SendersFollow
    <2>. QED BY <2>1, <2>2, <2>3 DEF startReceiver, options, sockets, TypeOK
  <1>4. ASSUME NEW s \in Starters,
               connectFails(s) \/ waitReturns(s) \/ brokenPipe(s) \/ done(s)
        PROVE  TypeOK'
    <2>1. /\ UNCHANGED <<options, receiver, serversock, backlog, infd, histories>>
          /\ path' \in {path, None}
      BY <1>4 DEF connectFails, waitReturns, brokenPipe, done, PathAfterClose, sockets
    <2>2. /\ sender' \in [Starters -> {"off", "waits", "copies", "no socket", "broken pipe", "done"}]
          /\ target' \in [Starters -> Starters \cup {None}]
      <3>. /\ sender \in [Starters -> {"off", "waits", "copies", "no socket", "broken pipe", "done"}]
           /\ target \in [Starters -> Starters \cup {None}] /\ path \in Starters \cup {None}
        BY DEF TypeOK
      <3>1. CASE waitReturns(s)
        BY <3>1 DEF waitReturns
      <3>2. CASE connectFails(s)
        BY <3>2 DEF connectFails
      <3>3. CASE brokenPipe(s) \/ done(s)
        BY <3>3 DEF brokenPipe, done
      <3>. QED BY <1>4, <3>1, <3>2, <3>3
    <2>. QED BY <2>1, <2>2 DEF options, histories, TypeOK
  <1>5. ASSUME NEW s \in Starters,
               unlinkPath(s) \/ bind(s) \/ listenSocket(s) \/ daemonize(s) \/ bindFails(s)
        PROVE  TypeOK'
    <2>1. /\ receiver[s] \in Starting
          /\ \E next \in Starting \cup {"first", "failed"} :
                 receiver' = [receiver EXCEPT ![s] = next]
      BY <1>5, CallsInOrder DEF unlinkPath, bind, listenSocket, daemonize, bindFails, step
    <2>. PICK next \in Starting \cup {"first", "failed"} : receiver' = [receiver EXCEPT ![s] = next]
      BY <2>1
    <2>2. /\ path' \in {path, None, s}
          /\ serversock' \in [Starters -> {"closed", "bound", "listening"}]
      BY <1>5 DEF unlinkPath, bind, listenSocket, daemonize, bindFails, step, Unlinked, sockets, TypeOK
    <2>3. UNCHANGED <<options, sender, backlog, infd, target, histories>>
      BY <1>5 DEF unlinkPath, bind, listenSocket, daemonize, bindFails, step, sockets
    <2>4. \A r \in Starters : receiver'[r] = "reads" <=> infd'[r] # None
      BY <2>1, <2>3 DEF TypeOK
    <2>5. receiver' \in [Starters -> Starting \cup
                        {"off", "first", "reads", "accepts", "failed", "ended", "killed"}]
      BY DEF TypeOK
    <2>6. path' \in Starters \cup {None}
      BY <2>2 DEF TypeOK
    <2>. QED BY <2>2, <2>3, <2>4, <2>5, <2>6 DEF options, histories, TypeOK
  <1>6. ASSUME NEW s \in Starters, acceptFirst(s) PROVE TypeOK'
    <2>1. PICK c \in FirstClient(s) :
            /\ infd' = [infd EXCEPT ![s] = c]
            /\ receiver' = [receiver EXCEPT ![s] = "reads"]
            /\ IF optOnClose = "end" THEN close(s)
               ELSE /\ backlog' = [backlog EXCEPT ![s] = IF optConnect[s] THEN @ ELSE Tail(@)]
                    /\ UNCHANGED <<serversock, path>>
      BY <1>6 DEF acceptFirst
    <2>2. c \in Starters /\ (~optConnect[s] => Tail(backlog[s]) \in Seq(Starters))
      <3>1. backlog[s] \in Seq(Starters)
        BY DEF TypeOK
      <3>. QED BY <3>1 DEF FirstClient, FirstAccepted
    <2>3. backlog' \in [Starters -> Seq(Starters)]
      <3>1. backlog \in [Starters -> Seq(Starters)] /\ <<>> \in Seq(Starters)
        BY EmptySeq DEF TypeOK
      <3>2. CASE optOnClose = "end"
        BY <2>1, <3>1, <3>2 DEF close
      <3>3. CASE optOnClose # "end"
        BY <2>1, <2>2, <3>1, <3>3
      <3>. QED BY <3>2, <3>3
    <2>4. path' \in Starters \cup {None} /\ serversock' \in [Starters -> {"closed", "bound", "listening"}]
      BY <2>1 DEF close, PathAfterClose, TypeOK
    <2>5. /\ receiver' \in [Starters -> Starting \cup
                        {"off", "first", "reads", "accepts", "failed", "ended", "killed"}]
          /\ infd' \in [Starters -> Starters \cup {None}]
      BY <2>1, <2>2 DEF TypeOK
    <2>6. \A r \in Starters : receiver'[r] = "reads" <=> infd'[r] # None
      BY <2>1, <2>2 DEF TypeOK
    <2>7. UNCHANGED <<options, sender, target, histories>>
      BY <1>6 DEF acceptFirst
    <2>. QED BY <2>3, <2>4, <2>5, <2>6, <2>7 DEF options, histories, TypeOK
  <1>7. ASSUME NEW s \in Starters, endOfFile(s) PROVE TypeOK'
    BY <1>7 DEF endOfFile, options, sockets, histories, TypeOK
  <1>8. ASSUME NEW s \in Starters, acceptNext(s) PROVE TypeOK'
    <2>1. /\ backlog \in [Starters -> Seq(Starters)] /\ backlog[s] \in Seq(Starters)
          /\ backlog[s] # <<>> /\ receiver[s] = "accepts"
      BY <1>8 DEF acceptNext, TypeOK
    <2>2. Head(backlog[s]) \in Starters /\ Tail(backlog[s]) \in Seq(Starters)
      BY <2>1
    <2>3. backlog' \in [Starters -> Seq(Starters)]
      BY <1>8, <2>1, <2>2 DEF acceptNext
    <2>. QED BY <1>8, <2>2, <2>3 DEF acceptNext, options, histories, TypeOK
  <1>9. ASSUME NEW s \in Starters, fail(s) \/ kill(s) PROVE TypeOK'
    <2>1. /\ path' \in {path, None}
          /\ serversock' = [serversock EXCEPT ![s] = "closed"]
          /\ backlog' = [backlog EXCEPT ![s] = <<>>]
          /\ infd' = [infd EXCEPT ![s] = None]
          /\ receiver' \in {[receiver EXCEPT ![s] = "ended"], [receiver EXCEPT ![s] = "killed"]}
          /\ killed' \in {killed, killed \cup {s}}
          /\ UNCHANGED <<options, sender, target, overlap>>
      BY <1>9 DEF fail, kill, close, PathAfterClose, histories
    <2>2. backlog' \in [Starters -> Seq(Starters)]
      <3>1. backlog \in [Starters -> Seq(Starters)]
        BY DEF TypeOK
      <3>. QED BY <2>1, <3>1, EmptySeq
    <2>3. \A r \in Starters : receiver'[r] = "reads" <=> infd'[r] # None
      <3>1. /\ \A r \in Starters : receiver[r] = "reads" <=> infd[r] # None
            /\ DOMAIN infd = Starters /\ DOMAIN receiver = Starters
        BY DEF TypeOK
      <3>. QED BY <2>1, <3>1
    <2>4. /\ serversock' \in [Starters -> {"closed", "bound", "listening"}]
          /\ infd' \in [Starters -> Starters \cup {None}]
      <3>1. /\ serversock \in [Starters -> {"closed", "bound", "listening"}]
            /\ infd \in [Starters -> Starters \cup {None}]
        BY DEF TypeOK
      <3>. QED BY <2>1, <3>1
    <2>6. receiver' \in [Starters -> Starting \cup
                        {"off", "first", "reads", "accepts", "failed", "ended", "killed"}]
      <3>1. receiver \in [Starters -> Starting \cup
                        {"off", "first", "reads", "accepts", "failed", "ended", "killed"}]
        BY DEF TypeOK
      <3>. QED BY <2>1, <3>1
    <2>5. path' \in Starters \cup {None} /\ killed' \subseteq Starters
      BY <2>1 DEF TypeOK
    <2>. QED BY <2>1, <2>2, <2>3, <2>4, <2>5, <2>6 DEF options, TypeOK
  <1>. QED
    BY <1>1, <1>2, <1>3, <1>4, <1>5, <1>6, <1>7, <1>8, <1>9 DEF Next, Proceed

-----------------------------------------------------------------------------
(* The rest of IInv, action by action.                                     *)

(* What a step of s leaves of s; the other starters are as they were.      *)
Becomes(s, snd, rcv, sck) ==
    /\ sender'[s] = snd /\ receiver'[s] = rcv /\ serversock'[s] = sck
    /\ \A r \in Starters \ {s} :
          /\ sender'[r] = sender[r] /\ receiver'[r] = receiver[r]
          /\ serversock'[r] = serversock[r]

Named == LeftClean /\ NameKept /\ StartsAlone /\ FailedByRivals

(* A step that closes and opens nothing, starts no receiver, fails none    *)
(* and leaves the name alone.                                              *)
LEMMA QuietKeeps ==
    ASSUME TypeOK, Named, UNCHANGED <<options, path, overlap, killed>>,
           \A r \in Starters :
              /\ serversock'[r] = "closed" <=> serversock[r] = "closed"
              /\ receiver'[r] \in Starting => receiver[r] \in Starting
              /\ receiver'[r] \in {"bind", "failed"} => receiver'[r] = receiver[r]
    PROVE  Named'
  <1>1. path \in Starters \cup {None} /\ abstract' = abstract
    BY DEF TypeOK, options
  <1>2. LeftClean'
    BY <1>1 DEF Named, LeftClean
  <1>3. NameKept'
    BY <1>1 DEF Named, NameKept
  <1>4. StartsAlone'
    BY DEF Named, StartsAlone
  <1>5. FailedByRivals'
    BY DEF Named, FailedByRivals
  <1>. QED BY <1>2, <1>3, <1>4, <1>5 DEF Named

(* A receiver starts: either with rivals, or nobody listens or starts.     *)
LEMMA StartKeeps ==
    ASSUME TypeOK, Named, SocketsFollow, NEW s \in Starters,
           receiver[s] = "off", Becomes(s, sender'[s], "unlink", serversock[s]),
           UNCHANGED <<options, path, killed>>,
           overlap' = (overlap \/ \E r \in Starters :
                          \/ receiver[r] \in Starting
                          \/ ~optConnect[s] /\ serversock[r] # "closed"),
           optConnect[s] => Refusing
    PROVE  Named'
  <1>1. /\ path \in Starters \cup {None} /\ abstract' = abstract
        /\ overlap \in BOOLEAN /\ overlap' \in BOOLEAN
        /\ \A r \in Starters : serversock'[r] = serversock[r]
        /\ \A r \in Starters \ {s} : receiver'[r] = receiver[r]
        /\ receiver'[s] = "unlink" /\ serversock[s] = "closed"
    BY DEF TypeOK, options, Becomes, SocketsFollow
  <1>2. LeftClean'
    BY <1>1 DEF Named, LeftClean
  <1>3. ~overlap' => ~overlap
    BY <1>1
  <1>4. NameKept'
    BY <1>1, <1>3 DEF Named, NameKept
  <1>5. ASSUME ~overlap', NEW r \in Starters PROVE serversock[r] = "closed" /\ receiver[r] \notin Starting
    <2>1. receiver[r] \notin Starting
      BY <1>5, <1>1
    <2>2. CASE ~optConnect[s]
      BY <1>5, <1>1, <2>1, <2>2
    <2>3. CASE optConnect[s]
      <3>1. serversock[r] # "closed" => path = r
        BY <1>3, <1>5 DEF Named, NameKept
      <3>2. serversock[r] \in {"closed", "bound", "listening"}
        BY DEF TypeOK
      <3>3. serversock[r] # "listening"
        BY <2>3, <3>1, StartAssumption DEF Refusing, Listening
      <3>4. serversock[r] # "bound"
        BY <2>3, <3>1, <3>3, <1>5, <2>1, StartAssumption DEF Refusing, Listening, SocketsFollow, TypeOK, Starting
      <3>. QED BY <2>1, <3>2, <3>3, <3>4
    <2>. QED BY <2>2, <2>3
  <1>6. StartsAlone'
    BY <1>1, <1>5 DEF StartsAlone
  <1>7. FailedByRivals'
    BY <1>1, <1>3 DEF Named, FailedByRivals
  <1>. QED BY <1>2, <1>4, <1>6, <1>7 DEF Named

(* A socket is closed, and the name removed with it, or not if a signal    *)
(* did it.                                                                 *)
LEMMA CloseKeeps ==
    ASSUME TypeOK, Named, NEW s \in Starters, NEW rcv,
           rcv \in {"reads", "ended", "killed"},
           Becomes(s, sender'[s], rcv, "closed"),
           \/ path' = IF serversock[s] = "closed" THEN path ELSE PathAfterClose(s, TRUE)
           \/ path' = (IF abstract /\ path = s THEN None ELSE path) /\ s \in killed',
           killed \subseteq killed',
           UNCHANGED <<options, overlap>>
    PROVE  Named'
  <1>1. /\ path \in Starters \cup {None} /\ abstract' = abstract /\ path' \in {path, None}
        /\ serversock'[s] = "closed" /\ receiver'[s] = rcv
        /\ \A r \in Starters \ {s} :
              serversock'[r] = serversock[r] /\ receiver'[r] = receiver[r]
    BY DEF TypeOK, options, Becomes, PathAfterClose
  <1>2. LeftClean'
    BY <1>1, StartAssumption DEF Named, LeftClean, PathAfterClose
  <1>3. ASSUME ~overlap \/ abstract, NEW r \in Starters, serversock'[r] # "closed"
        PROVE  path' = r
    <2>1. r # s /\ path = r
      BY <1>1, <1>3 DEF Named, NameKept
    <2>2. serversock[s] # "closed" => path = s
      BY <1>3 DEF Named, NameKept
    <2>. QED BY <1>1, <2>1, <2>2
  <1>4. NameKept'
    BY <1>1, <1>3 DEF NameKept
  <1>5. StartsAlone'
    BY <1>1 DEF Named, StartsAlone, Starting
  <1>6. FailedByRivals'
    BY <1>1 DEF Named, FailedByRivals
  <1>. QED BY <1>2, <1>4, <1>5, <1>6 DEF Named

(* A sender that finds a receiver disturbs nobody's socket.                *)
LEMMA connectKeeps ==
    ASSUME IInv, NEW s \in Starters, connect(s)
    PROVE  SocketsFollow' /\ SendersFollow' /\ Named'
  <1>1. TypeOK /\ SocketsFollow /\ SendersFollow /\ Named
    BY DEF IInv, Named
  <1>2. /\ optConnect[s] /\ sender[s] = "off"
        /\ Becomes(s, "copies", receiver[s], serversock[s])
        /\ UNCHANGED <<options, path, overlap, killed>>
    BY <1>1 DEF TypeOK, Becomes, connect, histories
  <1>3. SocketsFollow'
    BY <1>1, <1>2 DEF SocketsFollow, Becomes
  <1>4. SendersFollow'
    BY <1>1, <1>2 DEF SendersFollow, Becomes, Starting, options
  <1>5. \A r \in Starters :
          /\ serversock'[r] = "closed" <=> serversock[r] = "closed"
          /\ receiver'[r] \in Starting => receiver[r] \in Starting
          /\ receiver'[r] \in {"bind", "failed"} => receiver'[r] = receiver[r]
    BY <1>1, <1>2 DEF Becomes, Starting
  <1>6. Named'
    BY <1>1, <1>2, <1>5, QuietKeeps
  <1>. QED BY <1>3, <1>4, <1>6

(* Nor does one that finds no socket.                                      *)
LEMMA connectFailsKeeps ==
    ASSUME IInv, NEW s \in Starters, connectFails(s)
    PROVE  SocketsFollow' /\ SendersFollow' /\ Named'
  <1>1. TypeOK /\ SocketsFollow /\ SendersFollow /\ Named
    BY DEF IInv, Named
  <1>2. /\ optConnect[s] /\ sender[s] = "off"
        /\ Becomes(s, "no socket", receiver[s], serversock[s])
        /\ UNCHANGED <<options, path, overlap, killed>>
    BY <1>1 DEF TypeOK, Becomes, connectFails, histories, sockets
  <1>3. SocketsFollow'
    <2>1. \A r \in Starters : receiver'[r] = receiver[r] /\ serversock'[r] = serversock[r]
      BY <1>2 DEF Becomes
    <2>. QED BY <1>1, <2>1 DEF SocketsFollow
  <1>4. SendersFollow'
    BY <1>1, <1>2 DEF SendersFollow, Becomes, Starting, options
  <1>5. \A r \in Starters :
          /\ serversock'[r] = "closed" <=> serversock[r] = "closed"
          /\ receiver'[r] \in Starting => receiver[r] \in Starting
          /\ receiver'[r] \in {"bind", "failed"} => receiver'[r] = receiver[r]
    BY <1>1, <1>2 DEF Becomes, Starting
  <1>6. Named'
    BY <1>1, <1>2, <1>5, QuietKeeps
  <1>. QED BY <1>3, <1>4, <1>6

(* A sender that is refused starts a receiver: without rivals whoever       *)
(* listens has the name, so nobody listens.                                *)
LEMMA connectRefusedKeeps ==
    ASSUME IInv, NEW s \in Starters, connectRefused(s)
    PROVE  SocketsFollow' /\ SendersFollow' /\ Named'
  <1>1. TypeOK /\ SocketsFollow /\ SendersFollow /\ Named
    BY DEF IInv, Named
  <1>2. /\ optConnect[s] /\ sender[s] = "off" /\ receiver[s] = "off" /\ Refusing
        /\ Becomes(s, "waits", "unlink", serversock[s])
        /\ UNCHANGED <<options, path, killed>>
        /\ overlap' = (overlap \/ \E r \in Starters :
                          \/ receiver[r] \in Starting
                          \/ ~optConnect[s] /\ serversock[r] # "closed")
    <2>1. /\ sender \in [Starters -> {"off", "waits", "copies", "no socket", "broken pipe", "done"}]
          /\ DOMAIN receiver = Starters
      BY <1>1 DEF TypeOK
    <2>2. /\ optConnect[s] /\ sender[s] = "off" /\ Refusing /\ startReceiver(s)
          /\ sender' = [sender EXCEPT ![s] = "waits"]
          /\ UNCHANGED <<options, sockets, killed>>
      BY DEF connectRefused, startReceiver
    <2>3. receiver[s] = "off"
      BY <1>1, <2>2 DEF SendersFollow
    <2>4. Becomes(s, "waits", "unlink", serversock[s])
      BY <2>1, <2>2, <2>3 DEF Becomes, startReceiver, sockets
    <2>. QED BY <2>2, <2>3, <2>4 DEF startReceiver, sockets
  <1>3. SocketsFollow'
    BY <1>1, <1>2 DEF SocketsFollow, Becomes
  <1>4. SendersFollow'
    BY <1>1, <1>2 DEF SendersFollow, Becomes, Starting, options
  <1>5. Becomes(s, sender'[s], "unlink", serversock[s])
    BY <1>2 DEF Becomes
  <1>6. Named'
    BY <1>1, <1>2, <1>5, StartKeeps
  <1>. QED BY <1>3, <1>4, <1>6

(* Without --connect a receiver starts whoever listens, a rival then.      *)
LEMMA listenKeeps ==
    ASSUME IInv, NEW s \in Starters, listen(s)
    PROVE  SocketsFollow' /\ SendersFollow' /\ Named'
  <1>1. TypeOK /\ SocketsFollow /\ SendersFollow /\ Named
    BY DEF IInv, Named
  <1>2. /\ ~optConnect[s] /\ receiver[s] = "off"
        /\ Becomes(s, sender[s], "unlink", serversock[s])
        /\ UNCHANGED <<options, path, killed>>
        /\ overlap' = (overlap \/ \E r \in Starters :
                          \/ receiver[r] \in Starting
                          \/ ~optConnect[s] /\ serversock[r] # "closed")
    BY <1>1 DEF TypeOK, Becomes, listen, startReceiver, sockets
  <1>3. SocketsFollow'
    BY <1>1, <1>2 DEF SocketsFollow, Becomes
  <1>4. SendersFollow'
    BY <1>1, <1>2 DEF SendersFollow, Becomes, Starting, options
  <1>5. Becomes(s, sender'[s], "unlink", serversock[s])
    BY <1>2 DEF Becomes
  <1>6. Named'
    BY <1>1, <1>2, <1>5, StartKeeps
  <1>. QED BY <1>3, <1>4, <1>6

(* waitpid returns when the receiver has been through doDaemonize.         *)
LEMMA waitReturnsKeeps ==
    ASSUME IInv, NEW s \in Starters, waitReturns(s)
    PROVE  SocketsFollow' /\ SendersFollow' /\ Named'
  <1>1. TypeOK /\ SocketsFollow /\ SendersFollow /\ Named
    BY DEF IInv, Named
  <1>2. /\ sender[s] = "waits" /\ receiver[s] \notin Starting
        /\ Becomes(s, "copies", receiver[s], serversock[s])
        /\ UNCHANGED <<options, path, overlap, killed>>
    BY <1>1, CallsInOrder DEF TypeOK, Becomes, waitReturns, histories, sockets
  <1>3. SocketsFollow'
    BY <1>1, <1>2 DEF SocketsFollow, Becomes
  <1>4. SendersFollow'
    BY <1>1, <1>2 DEF SendersFollow, Becomes, Starting, options
  <1>5. \A r \in Starters :
          /\ serversock'[r] = "closed" <=> serversock[r] = "closed"
          /\ receiver'[r] \in Starting => receiver[r] \in Starting
          /\ receiver'[r] \in {"bind", "failed"} => receiver'[r] = receiver[r]
    BY <1>1, <1>2 DEF Becomes, Starting
  <1>6. Named'
    BY <1>1, <1>2, <1>5, QuietKeeps
  <1>. QED BY <1>3, <1>4, <1>6

(* A sender that ends without destroying its Socket ...                    *)
LEMMA brokenPipeKeeps ==
    ASSUME IInv, NEW s \in Starters, brokenPipe(s)
    PROVE  SocketsFollow' /\ SendersFollow' /\ Named'
  <1>1. TypeOK /\ SocketsFollow /\ SendersFollow /\ Named
    BY DEF IInv, Named
  <1>2. /\ sender[s] = "copies"
        /\ Becomes(s, "broken pipe", receiver[s], serversock[s])
        /\ UNCHANGED <<options, path, overlap, killed>>
    BY <1>1 DEF TypeOK, Becomes, brokenPipe, histories, sockets
  <1>3. SocketsFollow'
    BY <1>1, <1>2 DEF SocketsFollow, Becomes
  <1>4. SendersFollow'
    BY <1>1, <1>2 DEF SendersFollow, Becomes, Starting, options
  <1>5. \A r \in Starters :
          /\ serversock'[r] = "closed" <=> serversock[r] = "closed"
          /\ receiver'[r] \in Starting => receiver[r] \in Starting
          /\ receiver'[r] \in {"bind", "failed"} => receiver'[r] = receiver[r]
    BY <1>1, <1>2 DEF Becomes, Starting
  <1>6. Named'
    BY <1>1, <1>2, <1>5, QuietKeeps
  <1>. QED BY <1>3, <1>4, <1>6

(* ... or with it leaves the name alone.                                   *)
LEMMA doneKeeps ==
    ASSUME IInv, NEW s \in Starters, done(s)
    PROVE  SocketsFollow' /\ SendersFollow' /\ Named'
  <1>1. TypeOK /\ SocketsFollow /\ SendersFollow /\ Named
    BY DEF IInv, Named
  <1>2. /\ sender[s] = "copies"
        /\ Becomes(s, "done", receiver[s], serversock[s])
        /\ UNCHANGED <<options, path, overlap, killed>>
    BY <1>1 DEF TypeOK, Becomes, done, PathAfterClose, histories
  <1>3. SocketsFollow'
    BY <1>1, <1>2 DEF SocketsFollow, Becomes
  <1>4. SendersFollow'
    BY <1>1, <1>2 DEF SendersFollow, Becomes, Starting, options
  <1>5. \A r \in Starters :
          /\ serversock'[r] = "closed" <=> serversock[r] = "closed"
          /\ receiver'[r] \in Starting => receiver[r] \in Starting
          /\ receiver'[r] \in {"bind", "failed"} => receiver'[r] = receiver[r]
    BY <1>1, <1>2 DEF Becomes, Starting
  <1>6. Named'
    BY <1>1, <1>2, <1>5, QuietKeeps
  <1>. QED BY <1>3, <1>4, <1>6

(* Removing the name: without rivals nobody has it.                        *)
LEMMA unlinkPathKeeps ==
    ASSUME IInv, NEW s \in Starters, unlinkPath(s)
    PROVE  SocketsFollow' /\ SendersFollow' /\ Named'
  <1>1. TypeOK /\ SocketsFollow /\ SendersFollow /\ Named
    BY DEF IInv, Named
  <1>2. /\ receiver[s] = "unlink"
        /\ Becomes(s, sender[s], "bind", serversock[s])
        /\ path' = IF abstract THEN path ELSE None
        /\ UNCHANGED <<options, overlap, killed>>
    BY <1>1, CallsInOrder DEF TypeOK, Becomes, unlinkPath, step, Unlinked, histories
  <1>3. SocketsFollow'
    BY <1>1, <1>2 DEF SocketsFollow, Becomes
  <1>4. SendersFollow'
    BY <1>1, <1>2 DEF SendersFollow, Becomes, Starting, options
  <1>5. /\ path \in Starters \cup {None} /\ abstract' = abstract /\ overlap' = overlap
        /\ killed' = killed /\ receiver[s] \in Starting
        /\ serversock[s] = "closed"
        /\ \A r \in Starters \ {s} :
              serversock'[r] = serversock[r] /\ receiver'[r] = receiver[r]
    BY <1>1, <1>2 DEF TypeOK, options, Becomes, SocketsFollow, Starting
  <1>6. ~overlap => \A r \in Starters \ {s} : receiver[r] \notin Starting /\ serversock[r] = "closed"
    BY <1>1, <1>5 DEF Named, StartsAlone
  <1>7. LeftClean'
    BY <1>1, <1>2, <1>5 DEF Named, LeftClean, Becomes
  <1>8. NameKept'
    BY <1>1, <1>2, <1>5, <1>6 DEF Named, NameKept, Becomes
  <1>9. StartsAlone'
    <2>1. ~overlap => path' = None
      BY <1>1, <1>2, <1>5, <1>6 DEF Named, LeftClean
    <2>. QED BY <1>2, <1>5, <1>6, <2>1 DEF StartsAlone, Becomes
  <1>10. FailedByRivals'
    BY <1>1, <1>2, <1>5 DEF Named, FailedByRivals, Becomes
  <1>. QED BY <1>3, <1>4, <1>7, <1>8, <1>9, <1>10 DEF Named

(* Taking the name, when nobody has it.                                    *)
LEMMA bindKeeps ==
    ASSUME IInv, NEW s \in Starters, bind(s)
    PROVE  SocketsFollow' /\ SendersFollow' /\ Named'
  <1>1. TypeOK /\ SocketsFollow /\ SendersFollow /\ Named
    BY DEF IInv, Named
  <1>2. /\ receiver[s] = "bind" /\ path = None
        /\ Becomes(s, sender[s], "listen", "bound")
        /\ path' = s
        /\ UNCHANGED <<options, overlap, killed>>
    BY <1>1, CallsInOrder DEF TypeOK, Becomes, bind, step, histories
  <1>3. SocketsFollow'
    BY <1>1, <1>2 DEF SocketsFollow, Becomes
  <1>4. SendersFollow'
    BY <1>1, <1>2 DEF SendersFollow, Becomes, Starting, options
  <1>5. /\ path \in Starters \cup {None} /\ abstract' = abstract /\ overlap' = overlap
        /\ killed' = killed /\ receiver[s] \in Starting
        /\ serversock[s] = "closed"
        /\ \A r \in Starters \ {s} :
              serversock'[r] = serversock[r] /\ receiver'[r] = receiver[r]
    BY <1>1, <1>2 DEF TypeOK, options, Becomes, SocketsFollow, Starting
  <1>6. ~overlap => \A r \in Starters \ {s} : receiver[r] \notin Starting /\ serversock[r] = "closed"
    BY <1>1, <1>5 DEF Named, StartsAlone
  <1>7. LeftClean'
    BY <1>2, <1>5 DEF LeftClean, Becomes
  <1>8. NameKept'
    BY <1>1, <1>2, <1>5, <1>6, StartAssumption DEF Named, NameKept, Becomes
  <1>9. StartsAlone'
    BY <1>2, <1>5, <1>6 DEF StartsAlone, Becomes
  <1>10. FailedByRivals'
    BY <1>1, <1>2, <1>5 DEF Named, FailedByRivals, Becomes
  <1>. QED BY <1>3, <1>4, <1>7, <1>8, <1>9, <1>10 DEF Named

(* Not getting the name: a rival has it.                                   *)
LEMMA bindFailsKeeps ==
    ASSUME IInv, NEW s \in Starters, bindFails(s)
    PROVE  SocketsFollow' /\ SendersFollow' /\ Named'
  <1>1. TypeOK /\ SocketsFollow /\ SendersFollow /\ Named
    BY DEF IInv, Named
  <1>2. /\ receiver[s] = "bind" /\ path # None
        /\ Becomes(s, sender[s], "failed", serversock[s])
        /\ UNCHANGED <<options, path, overlap, killed>>
    BY <1>1 DEF TypeOK, Becomes, bindFails, sockets, histories
  <1>3. SocketsFollow'
    BY <1>1, <1>2 DEF SocketsFollow, Becomes
  <1>4. SendersFollow'
    BY <1>1, <1>2 DEF SendersFollow, Becomes, Starting, options
  <1>5. /\ path \in Starters \cup {None} /\ abstract' = abstract /\ overlap' = overlap
        /\ killed' = killed /\ receiver[s] \in Starting
        /\ serversock[s] = "closed"
        /\ \A r \in Starters \ {s} :
              serversock'[r] = serversock[r] /\ receiver'[r] = receiver[r]
    BY <1>1, <1>2 DEF TypeOK, options, Becomes, SocketsFollow, Starting
  <1>6. ~overlap => \A r \in Starters \ {s} : receiver[r] \notin Starting /\ serversock[r] = "closed"
    BY <1>1, <1>5 DEF Named, StartsAlone
  <1>7. LeftClean'
    BY <1>1, <1>2, <1>5 DEF Named, LeftClean, Becomes
  <1>8. NameKept'
    BY <1>1, <1>2, <1>5 DEF Named, NameKept, Becomes
  <1>9. overlap
    BY <1>1, <1>2, <1>5 DEF Named, StartsAlone, TypeOK
  <1>10. StartsAlone' /\ FailedByRivals'
    BY <1>5, <1>9 DEF StartsAlone, FailedByRivals
  <1>. QED BY <1>3, <1>4, <1>7, <1>8, <1>9, <1>10 DEF Named

(* Listening ...                                                           *)
LEMMA listenSocketKeeps ==
    ASSUME IInv, NEW s \in Starters, listenSocket(s)
    PROVE  SocketsFollow' /\ SendersFollow' /\ Named'
  <1>1. TypeOK /\ SocketsFollow /\ SendersFollow /\ Named
    BY DEF IInv, Named
  <1>2. /\ receiver[s] = "listen"
        /\ Becomes(s, sender[s], "daemonize", "listening")
        /\ UNCHANGED <<options, path, overlap, killed>>
    BY <1>1, CallsInOrder DEF TypeOK, Becomes, listenSocket, step, histories
  <1>3. SocketsFollow'
    BY <1>1, <1>2 DEF SocketsFollow, Becomes
  <1>4. SendersFollow'
    BY <1>1, <1>2 DEF SendersFollow, Becomes, Starting, options
  <1>5. \A r \in Starters :
          /\ serversock'[r] = "closed" <=> serversock[r] = "closed"
          /\ receiver'[r] \in Starting => receiver[r] \in Starting
          /\ receiver'[r] \in {"bind", "failed"} => receiver'[r] = receiver[r]
    BY <1>1, <1>2 DEF Becomes, Starting, SocketsFollow
  <1>6. Named'
    BY <1>1, <1>2, <1>5, QuietKeeps
  <1>. QED BY <1>3, <1>4, <1>6

(* ... comes before doDaemonize.                                           *)
LEMMA daemonizeKeeps ==
    ASSUME IInv, NEW s \in Starters, daemonize(s)
    PROVE  SocketsFollow' /\ SendersFollow' /\ Named'
  <1>1. TypeOK /\ SocketsFollow /\ SendersFollow /\ Named
    BY DEF IInv, Named
  <1>2. /\ receiver[s] = "daemonize"
        /\ Becomes(s, sender[s], "first", serversock[s])
        /\ UNCHANGED <<options, path, overlap, killed>>
    BY <1>1, CallsInOrder DEF TypeOK, Becomes, daemonize, step, sockets, histories
  <1>3. SocketsFollow'
    BY <1>1, <1>2 DEF SocketsFollow, Becomes
  <1>4. SendersFollow'
    BY <1>1, <1>2 DEF SendersFollow, Becomes, Starting, options
  <1>5. \A r \in Starters :
          /\ serversock'[r] = "closed" <=> serversock[r] = "closed"
          /\ receiver'[r] \in Starting => receiver[r] \in Starting
          /\ receiver'[r] \in {"bind", "failed"} => receiver'[r] = receiver[r]
    BY <1>1, <1>2 DEF Becomes, Starting
  <1>6. Named'
    BY <1>1, <1>2, <1>5, QuietKeeps
  <1>. QED BY <1>3, <1>4, <1>6

(* The first client; with --on-close=end the socket is closed.             *)
LEMMA acceptFirstKeeps ==
    ASSUME IInv, NEW s \in Starters, acceptFirst(s)
    PROVE  SocketsFollow' /\ SendersFollow' /\ Named'
  <1>1. TypeOK /\ SocketsFollow /\ SendersFollow /\ Named
    BY DEF IInv, Named
  <1>2. /\ receiver[s] = "first"
        /\ optOnClose = "end" =>
               /\ Becomes(s, sender[s], "reads", "closed")
               /\ path' = IF serversock[s] = "closed" THEN path ELSE PathAfterClose(s, TRUE)
        /\ optOnClose # "end" => Becomes(s, sender[s], "reads", serversock[s]) /\ path' = path
        /\ UNCHANGED <<options, overlap, killed>>
    <2>1. optOnClose = "end" => close(s)
      BY DEF acceptFirst
    <2>2. /\ receiver[s] = "first" /\ receiver' = [receiver EXCEPT ![s] = "reads"]
          /\ UNCHANGED <<options, sender, histories>>
          /\ optOnClose # "end" => UNCHANGED <<serversock, path>>
      BY DEF acceptFirst
    <2>3. optOnClose = "end" => Becomes(s, sender[s], "reads", "closed")
      BY <1>1, <2>1, <2>2 DEF TypeOK, Becomes, close
    <2>4. optOnClose = "end"
             => path' = IF serversock[s] = "closed" THEN path ELSE PathAfterClose(s, TRUE)
      BY <2>1 DEF close
    <2>5. optOnClose # "end" => Becomes(s, sender[s], "reads", serversock[s]) /\ path' = path
      BY <1>1, <2>2 DEF TypeOK, Becomes
    <2>. QED BY <2>2, <2>3, <2>4, <2>5 DEF histories
  <1>3. SocketsFollow'
    BY <1>1, <1>2 DEF SocketsFollow, Becomes
  <1>4. SendersFollow'
    BY <1>1, <1>2 DEF SendersFollow, Becomes, Starting, options
  <1>5. CASE serversock'[s] = "closed" /\ serversock[s] # "closed"
    <2>1. Becomes(s, sender'[s], "reads", "closed")
      BY <1>2, <1>5 DEF Becomes
    <2>2. path' = IF serversock[s] = "closed" THEN path ELSE PathAfterClose(s, TRUE)
      BY <1>2, <1>5 DEF Becomes
    <2>. QED BY <1>1, <1>2, <1>3, <1>4, <2>1, <2>2, CloseKeeps
  <1>6. CASE ~(serversock'[s] = "closed" /\ serversock[s] # "closed")
    <2>1. \A r \in Starters :
            /\ serversock'[r] = "closed" <=> serversock[r] = "closed"
            /\ receiver'[r] \in Starting => receiver[r] \in Starting
            /\ receiver'[r] \in {"bind", "failed"} => receiver'[r] = receiver[r]
      BY <1>2, <1>6 DEF Becomes, Starting
    <2>2. path' = path
      BY <1>2, <1>6 DEF Becomes
    <2>. QED BY <1>1, <1>2, <1>3, <1>4, <2>1, <2>2, QuietKeeps
  <1>. QED BY <1>5, <1>6

(* The end of a client.                                                    *)
LEMMA endOfFileKeeps ==
    ASSUME IInv, NEW s \in Starters, endOfFile(s)
    PROVE  SocketsFollow' /\ SendersFollow' /\ Named'
  <1>1. TypeOK /\ SocketsFollow /\ SendersFollow /\ Named
    BY DEF IInv, Named
  <1>2. /\ receiver[s] = "reads"
        /\ Becomes(s, sender[s], IF serversock[s] = "closed" THEN "ended" ELSE "accepts", serversock[s])
        /\ UNCHANGED <<options, path, overlap, killed>>
    BY <1>1 DEF TypeOK, Becomes, endOfFile, sockets, histories
  <1>3. SocketsFollow'
    BY <1>1, <1>2 DEF SocketsFollow, Becomes
  <1>4. SendersFollow'
    BY <1>1, <1>2 DEF SendersFollow, Becomes, Starting, options
  <1>5. \A r \in Starters :
          /\ serversock'[r] = "closed" <=> serversock[r] = "closed"
          /\ receiver'[r] \in Starting => receiver[r] \in Starting
          /\ receiver'[r] \in {"bind", "failed"} => receiver'[r] = receiver[r]
    BY <1>1, <1>2 DEF Becomes, Starting
  <1>6. Named'
    BY <1>1, <1>2, <1>5, QuietKeeps
  <1>. QED BY <1>3, <1>4, <1>6

(* Another client.                                                         *)
LEMMA acceptNextKeeps ==
    ASSUME IInv, NEW s \in Starters, acceptNext(s)
    PROVE  SocketsFollow' /\ SendersFollow' /\ Named'
  <1>1. TypeOK /\ SocketsFollow /\ SendersFollow /\ Named
    BY DEF IInv, Named
  <1>2. /\ receiver[s] = "accepts"
        /\ Becomes(s, sender[s], "reads", serversock[s])
        /\ UNCHANGED <<options, path, overlap, killed>>
    BY <1>1 DEF TypeOK, Becomes, acceptNext, histories
  <1>3. SocketsFollow'
    BY <1>1, <1>2 DEF SocketsFollow, Becomes
  <1>4. SendersFollow'
    BY <1>1, <1>2 DEF SendersFollow, Becomes, Starting, options
  <1>5. \A r \in Starters :
          /\ serversock'[r] = "closed" <=> serversock[r] = "closed"
          /\ receiver'[r] \in Starting => receiver[r] \in Starting
          /\ receiver'[r] \in {"bind", "failed"} => receiver'[r] = receiver[r]
    BY <1>1, <1>2 DEF Becomes, Starting
  <1>6. Named'
    BY <1>1, <1>2, <1>5, QuietKeeps
  <1>. QED BY <1>3, <1>4, <1>6

(* An exception destroys the Socket.                                       *)
LEMMA failKeeps ==
    ASSUME IInv, NEW s \in Starters, fail(s)
    PROVE  SocketsFollow' /\ SendersFollow' /\ Named'
  <1>1. TypeOK /\ SocketsFollow /\ SendersFollow /\ Named
    BY DEF IInv, Named
  <1>2. /\ receiver[s] = "reads"
        /\ Becomes(s, sender[s], "ended", "closed")
        /\ path' = IF serversock[s] = "closed" THEN path ELSE PathAfterClose(s, TRUE)
        /\ UNCHANGED <<options, overlap, killed>>
    BY <1>1 DEF TypeOK, Becomes, fail, close, histories
  <1>3. SocketsFollow'
    BY <1>1, <1>2 DEF SocketsFollow, Becomes
  <1>4. SendersFollow'
    BY <1>1, <1>2 DEF SendersFollow, Becomes, Starting, options
  <1>5. Becomes(s, sender'[s], "ended", "closed")
    BY <1>2 DEF Becomes
  <1>6. Named'
    BY <1>1, <1>2, <1>5, CloseKeeps
  <1>. QED BY <1>3, <1>4, <1>6

(* A signal closes the socket but removes no file.                         *)
LEMMA killKeeps ==
    ASSUME IInv, NEW s \in Starters, kill(s)
    PROVE  SocketsFollow' /\ SendersFollow' /\ Named'
  <1>1. TypeOK /\ SocketsFollow /\ SendersFollow /\ Named
    BY DEF IInv, Named
  <1>2. /\ receiver[s] \in Starting \cup {"first", "reads", "accepts"}
        /\ Becomes(s, sender[s], "killed", "closed")
        /\ path' = IF abstract /\ path = s THEN None ELSE path
        /\ killed' = killed \cup {s}
        /\ UNCHANGED <<options, overlap>>
    BY <1>1 DEF TypeOK, Becomes, kill
  <1>3. SocketsFollow'
    BY <1>1, <1>2 DEF SocketsFollow, Becomes
  <1>4. SendersFollow'
    BY <1>1, <1>2 DEF SendersFollow, Becomes, Starting, options
  <1>5. Becomes(s, sender'[s], "killed", "closed")
    BY <1>2 DEF Becomes
  <1>6. Named'
    BY <1>1, <1>2, <1>5, CloseKeeps
  <1>. QED BY <1>3, <1>4, <1>6

-----------------------------------------------------------------------------
(* IInv is inductive.                                                      *)
LEMMA StepIInv == IInv /\ [Next]_vars => IInv'
  <1>. SUFFICES ASSUME IInv, [Next]_vars PROVE IInv'
    OBVIOUS
  <1>1. TypeOK'
    BY TypeKept DEF IInv
  <1>2. CASE UNCHANGED vars
    <2>1. SocketsFollow' /\ SendersFollow'
      BY <1>2 DEF IInv, vars, options, sockets, SocketsFollow, SendersFollow
    <2>2. LeftClean' /\ NameKept' /\ StartsAlone' /\ FailedByRivals'
      BY <1>2 DEF IInv, vars, options, sockets, histories, LeftClean, NameKept, StartsAlone,
                  FailedByRivals
    <2>. QED BY <1>1, <2>1, <2>2 DEF IInv
  <1>3. CASE Next
    <2>1. PICK s \in Starters :
            \/ connect(s) \/ connectRefused(s) \/ connectFails(s) \/ listen(s)
            \/ Proceed(s) \/ done(s) \/ fail(s) \/ kill(s)
      BY <1>3 DEF Next
    <2>2. SocketsFollow' /\ SendersFollow' /\ Named'
      BY <2>1, connectKeeps, connectRefusedKeeps, connectFailsKeeps, listenKeeps, waitReturnsKeeps,
         brokenPipeKeeps, unlinkPathKeeps, bindKeeps, bindFailsKeeps, listenSocketKeeps,
         daemonizeKeeps, acceptFirstKeeps, endOfFileKeeps, acceptNextKeeps, doneKeeps, failKeeps,
         killKeeps DEF Proceed
    <2>. QED BY <1>1, <2>2 DEF IInv, Named
  <1>. QED BY <1>2, <1>3

-----------------------------------------------------------------------------
(* IInv holds in every reachable state of any number of starters.          *)
LEMMA StartInvariant == Spec => []IInv
  BY InitIInv, StepIInv, PTL DEF Spec

(* Every variable has its type, and a receiver reads exactly while it has  *)
(* a client (cmd_create).                                                  *)
THEOREM StartTyped == Spec => []TypeOK
  <1>1. IInv => TypeOK
    BY DEF IInv
  <1>. QED BY <1>1, StartInvariant, PTL

(* Nobody who connects, reads or ends takes the name from a receiver that  *)
(* listens; only rivals can (Socket::close).                               *)
THEOREM ListenersReachable == Spec => []Reachable
  <1>1. IInv => Reachable
    BY DEF IInv, NameKept, Reachable, Listening
  <1>. QED BY <1>1, StartInvariant, PTL

(* Only rivals make bind fail, whoever was killed before                   *)
(* (Socket::bindUnix).                                                     *)
THEOREM OnlyRivalsFail == Spec => []FailedByRivals
  <1>1. IInv => FailedByRivals
    BY DEF IInv
  <1>. QED BY <1>1, StartInvariant, PTL

(* No socket file outlives its socket, unless a signal ended its receiver, *)
(* whoever unlinks or binds over whom (Socket::close).                     *)
THEOREM NameLeftClean == Spec => []LeftClean
  <1>1. IInv => LeftClean
    BY DEF IInv
  <1>. QED BY <1>1, StartInvariant, PTL

(* A sender goes on only when its receiver listens or has failed           *)
(* (waitpid in cmd_create).                                                *)
THEOREM CopiesWhenReady == Spec => []ReadyBeforeCopy
  <1>1. IInv => ReadyBeforeCopy
    BY DEF IInv, SendersFollow, SocketsFollow, ReadyBeforeCopy, Starting
  <1>. QED BY <1>1, StartInvariant, PTL
=============================================================================
