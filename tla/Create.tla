------------------------------- MODULE Create -------------------------------
(***************************************************************************)
(* `netevent create`, the receiving end, of src/main.cpp and writer.cpp:   *)
(* one process that reads the packets of one client at a time from a       *)
(* stream socket, keeps a uinput device for every id it has been told of,  *)
(* and goes on to the next client at the end of file.                      *)
(*                                                                         *)
(* Its clients are sessions of senders that keep the protocol: Hello       *)
(* first, then AddDevice before the events of an id. A session may end     *)
(* anywhere, with packets lost from the end of its stream. A session with  *)
(* --resume takes up the devices of the one served before it, which it may *)
(* be wrong about if packets of that one were lost.                        *)
(*                                                                         *)
(* Abstractions: a device description is a name; a stream is a sequence    *)
(* of packets, the last of which may be cut short in its fixed-size header *)
(* or in the description that follows an AddDevice.                        *)
(***************************************************************************)
EXTENDS Integers, Sequences, FiniteSets, Functions

CONSTANTS
    Sessions,   \* connections that are made to the receiver
    Devices,    \* device descriptions
    Ids,        \* device ids the senders use
    Backlog,    \* connections the listening socket keeps waiting
    MaxSent     \* bound: packets of a session

NoSession == "<none>"
Modes     == {"reject", "resume", "replace"}

ASSUME CreateAssumption ==
    NoSession \notin Sessions /\ Backlog \in Nat /\ MaxSent \in Nat

-----------------------------------------------------------------------------
Hello               == [cmd |-> "Hello"]
AddDevice(id, d)    == [cmd |-> "AddDevice", id |-> id, dev |-> d]
RemoveDevice(id)    == [cmd |-> "RemoveDevice", id |-> id]
DeviceEvent(id, d)  == [cmd |-> "DeviceEvent", id |-> id, dev |-> d] \* of d, for id
CutHeader           == [cmd |-> "cut header"]
CutDevice(id)       == [cmd |-> "cut device", id |-> id]

Packets ==
    [cmd : {"Hello", "cut header"}]
      \cup [cmd : {"AddDevice", "DeviceEvent"}, id : Ids, dev : Devices]
      \cup [cmd : {"RemoveDevice", "cut device"}, id : Ids]

VARIABLES
    optDuplicates,  \* --duplicates
    optOnClose,     \* --on-close
    pc,             \* "listen", "hello", "packets", "accept", "ended" or "failed"
    failure,        \* the exception that ended the process
    serversock,     \* whether the listening socket is open
    backlog,        \* sessions connected and not accepted yet
    infd,           \* the session being read
    devices,        \* id -> the uinput device
    stream,         \* session -> packets sent and not read
    state,          \* session -> "new", "open", "closed" or "lost"
    known,          \* session -> the devices it believes the receiver has
    trusting,       \* history: sessions that resume one that lost packets
    sent,           \* session -> packets sent
    skipped,        \* history: ids whose announcement differed and was skipped
    misdelivered    \* history: events written to a device that is not theirs

options   == <<optDuplicates, optOnClose>>
receiver  == <<pc, failure, serversock, infd, devices, skipped, misdelivered>>
senders   == <<state, known, trusting, sent>>
vars      == <<options, receiver, backlog, stream, senders>>

NoDevices     == [id \in {} |-> NoSession]
Put(f, x, v)  == [y \in DOMAIN f \cup {x} |-> IF y = x THEN v ELSE f[y]]
Without(f, x) == Restrict(f, DOMAIN f \ {x})

Over == pc \in {"ended", "failed"}

Init ==
    /\ optDuplicates \in Modes /\ optOnClose \in {"end", "accept"}
    /\ pc = "listen" /\ failure = "none"
    /\ serversock = TRUE
    /\ backlog = <<>> /\ infd = NoSession
    /\ devices = NoDevices
    /\ stream = [s \in Sessions |-> <<>>]
    /\ state = [s \in Sessions |-> "new"]
    /\ known = [s \in Sessions |-> NoDevices]
    /\ trusting = {} /\ sent = [s \in Sessions |-> 0]
    /\ skipped = {} /\ misdelivered = {}

-----------------------------------------------------------------------------
(* The senders.                                                            *)

(* A session believes nothing of the receiver or, with --resume, what the  *)
(* session before it believed, when that has been read to its end.         *)
connect(s) ==
    /\ state[s] = "new" /\ serversock /\ ~Over
    /\ Len(backlog) < Backlog
    /\ backlog' = Append(backlog, s)
    /\ state' = [state EXCEPT ![s] = "open"]
    /\ stream' = [stream EXCEPT ![s] = <<Hello>>]
    /\ \/ UNCHANGED <<known, trusting>>
       \/ /\ backlog = <<>> /\ infd # NoSession
          /\ state[infd] \in {"closed", "lost"} /\ stream[infd] = <<>>
          /\ known' = [known EXCEPT ![s] = known[infd]]
          /\ trusting' = trusting \cup
               (IF state[infd] = "lost" \/ infd \in trusting THEN {s} ELSE {})
    /\ UNCHANGED <<options, receiver, sent>>

send(s, packet) ==
    /\ state[s] = "open" /\ sent[s] < MaxSent
    /\ stream' = [stream EXCEPT ![s] = Append(stream[s], packet)]
    /\ sent' = [sent EXCEPT ![s] = sent[s] + 1]
    /\ UNCHANGED <<options, receiver, backlog, state, trusting>>

announce(s, id, d) ==
    /\ id \notin DOMAIN known[s]
    /\ known' = [known EXCEPT ![s] = Put(known[s], id, d)]
    /\ send(s, AddDevice(id, d))

retract(s, id) ==
    /\ id \in DOMAIN known[s]
    /\ known' = [known EXCEPT ![s] = Without(known[s], id)]
    /\ send(s, RemoveDevice(id))

forward(s, id) ==
    /\ id \in DOMAIN known[s]
    /\ send(s, DeviceEvent(id, known[s][id]))
    /\ UNCHANGED known

close(s) ==
    /\ state[s] = "open"
    /\ state' = [state EXCEPT ![s] = "closed"]
    /\ UNCHANGED <<options, receiver, backlog, stream, known, trusting, sent>>

(* The connection is lost with everything after the first n packets: the   *)
(* next one is cut short in its header, or in the description it carries.  *)
lose(s) ==
    /\ state[s] = "open"
    /\ state' = [state EXCEPT ![s] = "lost"]
    /\ \E n \in 0..(Len(stream[s]) - 1) :
         LET next == stream[s][n + 1] IN
         \E cut \in {<<>>, <<CutHeader>>}
             \cup (IF next.cmd = "AddDevice" THEN {<<CutDevice(next.id)>>} ELSE {}) :
           stream' = [stream EXCEPT ![s] = SubSeq(stream[s], 1, n) \o cut]
    /\ UNCHANGED <<options, receiver, backlog, known, trusting, sent>>

-----------------------------------------------------------------------------
(* The receiver.                                                           *)

Fail(why) == pc' = "failed" /\ failure' = why /\ UNCHANGED <<serversock, infd>>

(* The first accept; with --on-close=end the socket is closed after it.    *)
acceptFirst ==
    /\ pc = "listen" /\ backlog # <<>>
    /\ infd' = Head(backlog) /\ backlog' = Tail(backlog)
    /\ serversock' = (optOnClose = "accept")
    /\ pc' = "hello"
    /\ UNCHANGED <<options, failure, devices, skipped, misdelivered, stream, senders>>

(* mustRead of a packet, and what is wrong with it if it is not complete.  *)
AtPacket(phase) == pc = phase /\ stream[infd] # <<>>
Packet  == Head(stream[infd])
Read    == stream' = [stream EXCEPT ![infd] = Tail(stream[infd])]
AtEOF   == /\ \/ stream[infd] = <<>>
              \/ stream[infd] = <<CutHeader>>
           /\ state[infd] \in {"closed", "lost"}

readHello ==
    /\ \/ /\ AtPacket("hello") /\ Packet = Hello
          /\ Read
          /\ pc' = "packets"
          /\ UNCHANGED <<failure, serversock, infd>>
       \/ /\ pc = "hello" /\ AtEOF
          /\ Fail("end of file")
          /\ UNCHANGED stream
    /\ UNCHANGED <<options, devices, skipped, misdelivered, backlog, senders>>

(* Hello again, as the first packet of a later client. *)
checkHello ==
    /\ AtPacket("packets") /\ Packet = Hello
    /\ Read
    /\ UNCHANGED <<options, receiver, backlog, senders>>

(* devices[id] = newFromNE2AddCommand(...)                                 *)
CreatedIfAbsent(id, d) == IF id \in DOMAIN devices THEN devices ELSE Put(devices, id, d) \* mutant: emplace
Created(id, d) == Put(devices, id, d)

addDevice ==
    /\ AtPacket("packets") /\ Packet.cmd = "AddDevice"
    /\ optDuplicates = "replace" \/ Packet.id \notin DOMAIN devices
    /\ devices' = Created(Packet.id, Packet.dev)
    /\ skipped' = skipped \ {Packet.id}
    /\ Read
    /\ UNCHANGED <<options, pc, failure, serversock, infd, misdelivered, backlog,
                   senders>>

(* skipNE2AddCommand reads the description and keeps the old device.       *)
skipDevice ==
    /\ AtPacket("packets") /\ Packet.cmd = "AddDevice"
    /\ optDuplicates = "resume" /\ Packet.id \in DOMAIN devices
    /\ skipped' = (IF devices[Packet.id] = Packet.dev THEN skipped \ {Packet.id}
                   ELSE skipped \cup {Packet.id})
    /\ Read
    /\ UNCHANGED <<options, pc, failure, serversock, infd, devices, misdelivered,
                   backlog, senders>>

(* The id is looked up before the description is read.                     *)
Rejects == optDuplicates = "reject" /\ Packet.id \in DOMAIN devices

rejectDevice ==
    /\ AtPacket("packets") /\ Packet.cmd \in {"AddDevice", "cut device"}
    /\ Rejects
    /\ Fail("duplicate device")
    /\ Read
    /\ UNCHANGED <<options, devices, skipped, misdelivered, backlog, senders>>

ErasedToNull(id) == Put(devices, id, NoSession) \* mutant: reset, not erased
Erased(id) == Without(devices, id)

removeDevice ==
    /\ AtPacket("packets") /\ Packet.cmd = "RemoveDevice"
    /\ Packet.id \in DOMAIN devices
    /\ devices' = Erased(Packet.id)
    /\ skipped' = skipped \ {Packet.id}
    /\ Read
    /\ UNCHANGED <<options, pc, failure, serversock, infd, misdelivered, backlog,
                   senders>>

writeEvent ==
    /\ AtPacket("packets") /\ Packet.cmd = "DeviceEvent"
    /\ Packet.id \in DOMAIN devices
    /\ misdelivered' = misdelivered \cup
         (IF \/ devices[Packet.id] = Packet.dev
             \/ Packet.id \in skipped \/ infd \in trusting
          THEN {} ELSE {Packet})
    /\ Read
    /\ UNCHANGED <<options, pc, failure, serversock, infd, devices, skipped, backlog,
                   senders>>

missingDevice ==
    /\ AtPacket("packets") /\ Packet.cmd \in {"RemoveDevice", "DeviceEvent"}
    /\ Packet.id \notin DOMAIN devices
    /\ Fail("missing device")
    /\ Read
    /\ UNCHANGED <<options, devices, skipped, misdelivered, backlog, senders>>

(* The description of a device ends too early: an exception.               *)
cutDevice ==
    /\ AtPacket("packets") /\ Packet.cmd = "cut device" /\ ~Rejects
    /\ Fail("end of file")
    /\ Read
    /\ UNCHANGED <<options, devices, skipped, misdelivered, backlog, senders>>

(* End of file, also one inside a packet header: the devices stay.         *)
DevicesAfterCleared == NoDevices \* mutant: each client starts without devices
DevicesAfter == devices
AfterEOFStay == "packets" \* mutant: the socket is read again
AfterEOF     == IF serversock THEN "accept" ELSE "ended"

endOfFile ==
    /\ pc = "packets" /\ AtEOF
    /\ stream' = [stream EXCEPT ![infd] = <<>>]
    /\ pc' = AfterEOF
    /\ devices' = DevicesAfter
    /\ UNCHANGED <<options, failure, serversock, infd, skipped, misdelivered, backlog,
                   senders>>

acceptNext ==
    /\ pc = "accept" /\ backlog # <<>>
    /\ infd' = Head(backlog) /\ backlog' = Tail(backlog)
    /\ pc' = "packets"
    /\ UNCHANGED <<options, failure, serversock, devices, skipped, misdelivered,
                   stream, senders>>

-----------------------------------------------------------------------------
Send ==
    \E s \in Sessions :
      \/ connect(s) \/ close(s) \/ lose(s)
      \/ \E id \in Ids : \/ retract(s, id) \/ forward(s, id)
                         \/ \E d \in Devices : announce(s, id, d)
Receive ==
    \/ acceptFirst \/ readHello \/ checkHello
    \/ addDevice \/ skipDevice \/ rejectDevice \/ removeDevice \/ writeEvent
    \/ missingDevice \/ cutDevice \/ endOfFile \/ acceptNext

Next == Send \/ Receive
Spec == Init /\ [][Next]_vars
FairSpec == Spec /\ WF_vars(Receive)

-----------------------------------------------------------------------------
(* Every variable holds a value of its type.                               *)
Table(f, keys, values) == DOMAIN f \subseteq keys /\ f \in [DOMAIN f -> values]
TypeOK ==
    /\ optDuplicates \in Modes /\ optOnClose \in {"end", "accept"}
    /\ pc \in {"listen", "hello", "packets", "accept", "ended", "failed"}
    /\ failure \in {"none", "end of file", "duplicate device", "missing device"}
    /\ serversock \in BOOLEAN
    /\ backlog \in Seq(Sessions)
    /\ infd \in Sessions \cup {NoSession}
    /\ pc \in {"hello", "packets"} => infd \in Sessions
    /\ Table(devices, Ids, Devices)
    /\ stream \in [Sessions -> Seq(Packets)]
    /\ state \in [Sessions -> {"new", "open", "closed", "lost"}]
    /\ DOMAIN known = Sessions /\ \A s \in Sessions : Table(known[s], Ids, Devices)
    /\ trusting \subseteq Sessions /\ sent \in [Sessions -> 0..MaxSent]
    /\ skipped \subseteq Ids /\ misdelivered \subseteq Packets

(* An event is written to the uinput device made from the description of   *)
(* the device it came from, over reconnects and losses, unless             *)
(* --duplicates=resume skipped another description of its id, or the       *)
(* session resumed one whose packets were lost.                            *)
EventsReachTheirDevice == misdelivered = {}

(* A sender that keeps the protocol is refused in two cases only: a device *)
(* is there already, and then the receiver has read another session before *)
(* this one; or it is missing, and then this session resumed one whose     *)
(* packets were lost.                                                      *)
Before(s) == {t \in Sessions \ {s} : /\ state[t] # "new"
                                     /\ \A i \in DOMAIN backlog : backlog[i] # t}
SendersUnderstood ==
    /\ failure = "duplicate device" => Before(infd) # {}
    /\ failure = "missing device" => infd \in trusting

(* Once the client being read has gone, the one that has waited longest is *)
(* served or the receiver has ended.                                       *)
Available == infd = NoSession \/ state[infd] \in {"closed", "lost"}
WaitingClientServed ==
    \A s \in Sessions :
      (Available /\ backlog # <<>> /\ Head(backlog) = s) ~> (infd = s \/ Over)

=============================================================================
