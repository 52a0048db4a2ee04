--------------------------- MODULE Create_proofs ----------------------------
(***************************************************************************)
(* Theorems about Create, for any sessions, devices and ids: events reach  *)
(* the device they come from, and a sender that keeps the protocol is      *)
(* understood.  The inductive invariant reads the streams: every packet in *)
(* them is justified by the packets before it or, if there are none about  *)
(* its id, by the devices the receiver has.                                *)
(***************************************************************************)
EXTENDS Create, SequenceTheorems, TLAPS

-----------------------------------------------------------------------------
(* What a stream says about an id before its n-th packet: that it is a     *)
(* certain device, that it is free, or nothing.                            *)

Concerns(p, id) == p.cmd \in {"AddDevice", "RemoveDevice"} /\ p.id = id

Untouched(q, n, id) == \A k \in 1..(n - 1) : ~Concerns(q[k], id)

Announced(q, n, id, d) ==
    \E j \in 1..(n - 1) : /\ q[j] = AddDevice(id, d)
                          /\ \A k \in (j + 1)..(n - 1) : ~Concerns(q[k], id)

Retracted(q, n, id) ==
    \E j \in 1..(n - 1) : /\ q[j] = RemoveDevice(id)
                          /\ \A k \in (j + 1)..(n - 1) : ~Concerns(q[k], id)

(* The sessions that go on from the devices the receiver has now: the one  *)
(* being read, and when that is over the next.                             *)
Drained == infd # NoSession /\ stream[infd] = <<>> /\ state[infd] \in {"closed", "lost"}
Bases   == {infd} \cup {s \in Sessions : Drained /\ backlog # <<>> /\ Head(backlog) = s}

(* What a session may take the receiver to have, if it trusts what it      *)
(* should.                                                                 *)
Held(s, id, d) ==
    s \in trusting \/ (id \in DOMAIN devices /\ (id \in skipped \/ devices[id] = d))

Knows(s, n, id, d) ==
    \/ Announced(stream[s], n, id, d)
    \/ s \in Bases /\ Untouched(stream[s], n, id) /\ Held(s, id, d)

(* The first session knows which ids are free.                             *)
IsFirst(s)     == infd = NoSession \/ (infd = s /\ Before(s) = {})
Free(s, n, id) ==
    \/ Retracted(stream[s], n, id)
    \/ Untouched(stream[s], n, id) /\ id \notin DOMAIN devices

-----------------------------------------------------------------------------
(* The inductive invariant.                                                *)

(* A session waits once, and is new before that.                           *)
Placed ==
    /\ \A i \in 1..Len(backlog) : state[backlog[i]] # "new" /\ backlog[i] # infd
    /\ \A i, j \in 1..Len(backlog) : backlog[i] = backlog[j] => i = j
    /\ infd # NoSession => infd \in Sessions /\ state[infd] # "new"
    /\ \A s \in Sessions : state[s] = "new" => DOMAIN known[s] = {}
    /\ pc = "listen" <=> infd = NoSession
    /\ pc = "listen" => DOMAIN devices = {}
    /\ pc = "accept" => Drained
    /\ failure # "none" => pc = "failed"

(* Whoever sends a packet has reason to.                                   *)
Meant(s, i, p) ==
    /\ p.cmd = "DeviceEvent" => Knows(s, i, p.id, p.dev)
    /\ p.cmd = "RemoveDevice" => \E d \in Devices : Knows(s, i, p.id, d)
    /\ p.cmd \in {"AddDevice", "cut device"} /\ IsFirst(s) => Free(s, i, p.id)
PacketMeant(s, i) == Meant(s, i, stream[s][i])

PacketsMeant == ~Over => \A s \in Sessions : \A i \in 1..Len(stream[s]) : PacketMeant(s, i)

(* What a sender believes is what its stream will have said.               *)
Waits(s) == \E i \in 1..Len(backlog) : backlog[i] = s
Heard(s) == state[s] = "open" \/ (state[s] = "closed" /\ (s = infd \/ Waits(s)))

BeliefMeant(s) ==
    /\ Heard(s) =>
          \A id \in DOMAIN known[s] : Knows(s, Len(stream[s]) + 1, id, known[s][id])
    /\ state[s] = "open" /\ IsFirst(s) =>
          \A id \in Ids \ DOMAIN known[s] : Free(s, Len(stream[s]) + 1, id)

BeliefsMeant == ~Over => \A s \in Sessions : BeliefMeant(s)

IInv ==
    /\ TypeOK /\ Placed /\ PacketsMeant /\ BeliefsMeant
    /\ EventsReachTheirDevice /\ SendersUnderstood

-----------------------------------------------------------------------------
(* What streams say when they grow, shrink and are cut.                    *)

(* What two streams agree on before the n-th packet, and what a stream is  *)
(* without its first packet.                                               *)
Agree(q, r, n) == \A k \in 1..(n - 1) : r[k] = q[k]
Shifted(q, t, n) == \A k \in 1..(n - 1) : t[k] = q[k + 1]

(* What a stream says depends on the packets before the n-th only.         *)
LEMMA SameBeginning ==
    ASSUME NEW q, NEW r, NEW n \in Nat, Agree(q, r, n), NEW id, NEW d
    PROVE  /\ Untouched(q, n, id) => Untouched(r, n, id)
           /\ Announced(q, n, id, d) => Announced(r, n, id, d)
           /\ Retracted(q, n, id) => Retracted(r, n, id)
  <1>1. Untouched(q, n, id) => Untouched(r, n, id)
    BY DEF Untouched, Agree
  <1>2. ASSUME NEW j \in 1..(n - 1), \A k \in (j + 1)..(n - 1) : ~Concerns(q[k], id)
        PROVE  \A k \in (j + 1)..(n - 1) : ~Concerns(r[k], id)
    <2>. SUFFICES ASSUME NEW k \in (j + 1)..(n - 1) PROVE ~Concerns(r[k], id)
      OBVIOUS
    <2>1. k \in 1..(n - 1)
      OBVIOUS
    <2>. QED BY <1>2, <2>1 DEF Agree
  <1>3. Announced(q, n, id, d) => Announced(r, n, id, d)
    BY <1>2 DEF Announced, Agree
  <1>4. Retracted(q, n, id) => Retracted(r, n, id)
    BY <1>2 DEF Retracted, Agree
  <1>. QED BY <1>1, <1>3, <1>4

(* Nothing is said before the first packet.                                *)
LEMMA AtBeginning ==
    ASSUME NEW q, NEW id, NEW d
    PROVE  Untouched(q, 1, id) /\ ~Announced(q, 1, id, d) /\ ~Retracted(q, 1, id)
  BY DEF Untouched, Announced, Retracted

(* One packet further.                                                     *)
LEMMA OneFurther ==
    ASSUME NEW q, NEW n \in Nat \ {0}, NEW m, m = n + 1, NEW id, NEW d
    PROVE  /\ ~Concerns(q[n], id) =>
                 /\ Untouched(q, n, id) => Untouched(q, m, id)
                 /\ Announced(q, n, id, d) => Announced(q, m, id, d)
                 /\ Retracted(q, n, id) => Retracted(q, m, id)
           /\ q[n] = AddDevice(id, d) => Announced(q, m, id, d)
           /\ q[n] = RemoveDevice(id) => Retracted(q, m, id)
  <1>1. m - 1 = n
    OBVIOUS
  <1>2. ASSUME ~Concerns(q[n], id), NEW j \in 1..(n - 1),
               \A k \in (j + 1)..(n - 1) : ~Concerns(q[k], id)
        PROVE  j \in 1..n /\ \A k \in (j + 1)..n : ~Concerns(q[k], id)
    <2>. SUFFICES ASSUME NEW k \in (j + 1)..n PROVE j \in 1..n /\ ~Concerns(q[k], id)
      BY <1>2
    <2>1. k = n \/ k \in (j + 1)..(n - 1)
      OBVIOUS
    <2>. QED BY <1>2, <2>1
  <1>3. ASSUME ~Concerns(q[n], id), Untouched(q, n, id) PROVE Untouched(q, m, id)
    <2>1. \A k \in 1..n : k = n \/ k \in 1..(n - 1)
      OBVIOUS
    <2>. QED BY <1>1, <1>3, <2>1 DEF Untouched
  <1>4. ASSUME ~Concerns(q[n], id), Announced(q, n, id, d) PROVE Announced(q, m, id, d)
    BY <1>1, <1>2, <1>4 DEF Announced
  <1>5. ASSUME ~Concerns(q[n], id), Retracted(q, n, id) PROVE Retracted(q, m, id)
    BY <1>1, <1>2, <1>5 DEF Retracted
  <1>6. n \in 1..n /\ (n + 1)..n = {}
    OBVIOUS
  <1>7. q[n] = AddDevice(id, d) => Announced(q, m, id, d)
    BY <1>1, <1>6 DEF Announced
  <1>8. q[n] = RemoveDevice(id) => Retracted(q, m, id)
    BY <1>1, <1>6 DEF Retracted
  <1>. QED BY <1>3, <1>4, <1>5, <1>7, <1>8

(* Without the first packet, what that said is missing.                    *)
LEMMA WithoutFirst ==
    ASSUME NEW q, NEW t, NEW n \in Nat \ {0}, NEW m, m = n + 1, NEW id, NEW d,
           Shifted(q, t, n)
    PROVE  /\ Untouched(q, m, id) => ~Concerns(q[1], id) /\ Untouched(t, n, id)
           /\ Announced(q, m, id, d) =>
                 \/ Announced(t, n, id, d)
                 \/ q[1] = AddDevice(id, d) /\ Untouched(t, n, id)
           /\ Retracted(q, m, id) =>
                 \/ Retracted(t, n, id)
                 \/ q[1] = RemoveDevice(id) /\ Untouched(t, n, id)
  <1>1. m - 1 = n /\ 1 \in 1..n
    OBVIOUS
  <1>2. ASSUME NEW j \in 1..n, \A k \in (j + 1)..n : ~Concerns(q[k], id)
        PROVE  /\ j = 1 => Untouched(t, n, id)
               /\ j # 1 => /\ j - 1 \in 1..(n - 1) /\ t[j - 1] = q[j]
                           /\ \A k \in ((j - 1) + 1)..(n - 1) : ~Concerns(t[k], id)
    <2>1. ASSUME NEW k \in 1..(n - 1), k >= j PROVE ~Concerns(t[k], id)
      <3>1. k + 1 \in (j + 1)..n /\ t[k] = q[k + 1]
        BY <2>1 DEF Shifted
      <3>. QED BY <1>2, <3>1
    <2>2. j = 1 => Untouched(t, n, id)
      BY <2>1 DEF Untouched
    <2>3. ASSUME j # 1
          PROVE  /\ j - 1 \in 1..(n - 1) /\ t[j - 1] = q[j]
                 /\ \A k \in ((j - 1) + 1)..(n - 1) : ~Concerns(t[k], id)
      <3>1. j - 1 \in 1..(n - 1) /\ (j - 1) + 1 = j
        BY <2>3
      <3>2. t[j - 1] = q[j]
        BY <3>1 DEF Shifted
      <3>3. \A k \in j..(n - 1) : k \in 1..(n - 1) /\ k >= j
        OBVIOUS
      <3>. QED BY <2>1, <3>1, <3>2, <3>3
    <2>. QED BY <2>2, <2>3
  <1>3. ASSUME Untouched(q, m, id) PROVE ~Concerns(q[1], id) /\ Untouched(t, n, id)
    <2>1. \A k \in 1..n : ~Concerns(q[k], id)
      BY <1>1, <1>3 DEF Untouched
    <2>2. \A k \in 1..(n - 1) : k + 1 \in 1..n
      OBVIOUS
    <2>. QED BY <1>1, <2>1, <2>2 DEF Untouched, Shifted
  <1>4. ASSUME Announced(q, m, id, d)
        PROVE  Announced(t, n, id, d) \/ (q[1] = AddDevice(id, d) /\ Untouched(t, n, id))
    <2>1. PICK j \in 1..n : q[j] = AddDevice(id, d) /\ \A k \in (j + 1)..n : ~Concerns(q[k], id)
      BY <1>1, <1>4 DEF Announced
    <2>. QED BY <1>2, <2>1 DEF Announced
  <1>5. ASSUME Retracted(q, m, id)
        PROVE  Retracted(t, n, id) \/ (q[1] = RemoveDevice(id) /\ Untouched(t, n, id))
    <2>1. PICK j \in 1..n : q[j] = RemoveDevice(id) /\ \A k \in (j + 1)..n : ~Concerns(q[k], id)
      BY <1>1, <1>5 DEF Retracted
    <2>. QED BY <1>2, <2>1 DEF Retracted
  <1>. QED BY <1>3, <1>4, <1>5

(* The packets.                                                            *)
LEMMA PacketParts ==
    /\ Hello \in Packets /\ CutHeader \in Packets
    /\ \A id \in Ids : RemoveDevice(id) \in Packets /\ CutDevice(id) \in Packets
    /\ \A id \in Ids, d \in Devices :
              AddDevice(id, d) \in Packets /\ DeviceEvent(id, d) \in Packets
    /\ \A p \in Packets :
          /\ p.cmd \in {"Hello", "cut header", "AddDevice", "DeviceEvent",
                        "RemoveDevice", "cut device"}
          /\ p.cmd \in {"AddDevice", "DeviceEvent", "RemoveDevice", "cut device"} => p.id \in Ids
          /\ p.cmd \in {"AddDevice", "DeviceEvent"} => p.dev \in Devices
          /\ p.cmd = "AddDevice" => p = AddDevice(p.id, p.dev)
          /\ p.cmd = "RemoveDevice" => p = RemoveDevice(p.id)
          /\ p.cmd = "DeviceEvent" => p = DeviceEvent(p.id, p.dev)
  <1>1. /\ Hello \in Packets /\ CutHeader \in Packets
        /\ \A id \in Ids : RemoveDevice(id) \in Packets /\ CutDevice(id) \in Packets
        /\ \A id \in Ids, d \in Devices :
              AddDevice(id, d) \in Packets /\ DeviceEvent(id, d) \in Packets
    BY DEF Packets, Hello, CutHeader, RemoveDevice, CutDevice, AddDevice, DeviceEvent
  <1>2. ASSUME NEW p \in [cmd : {"Hello", "cut header"}] PROVE p.cmd \in {"Hello", "cut header"}
    OBVIOUS
  <1>3. ASSUME NEW p \in [cmd : {"AddDevice", "DeviceEvent"}, id : Ids, dev : Devices]
        PROVE  /\ p.cmd \in {"AddDevice", "DeviceEvent"} /\ p.id \in Ids /\ p.dev \in Devices
               /\ p = [cmd |-> p.cmd, id |-> p.id, dev |-> p.dev]
    OBVIOUS
  <1>4. ASSUME NEW p \in [cmd : {"RemoveDevice", "cut device"}, id : Ids]
        PROVE  /\ p.cmd \in {"RemoveDevice", "cut device"} /\ p.id \in Ids
               /\ p = [cmd |-> p.cmd, id |-> p.id]
    OBVIOUS
  <1>5. ASSUME NEW p \in Packets
        PROVE  \/ p \in [cmd : {"Hello", "cut header"}]
               \/ p \in [cmd : {"AddDevice", "DeviceEvent"}, id : Ids, dev : Devices]
               \/ p \in [cmd : {"RemoveDevice", "cut device"}, id : Ids]
    BY DEF Packets
  <1>6. \A id, d : /\ RemoveDevice(id) = [cmd |-> "RemoveDevice", id |-> id]
                  /\ AddDevice(id, d) = [cmd |-> "AddDevice", id |-> id, dev |-> d]
                  /\ DeviceEvent(id, d) = [cmd |-> "DeviceEvent", id |-> id, dev |-> d]
    BY DEF RemoveDevice, AddDevice, DeviceEvent
  <1>. QED BY <1>1, <1>2, <1>3, <1>4, <1>5, <1>6

-----------------------------------------------------------------------------
(* Type correctness.                                                       *)

(* Adding an entry keeps a table a table.                                  *)
LEMMA PutType ==
    ASSUME NEW K, NEW V, NEW f, Table(f, K, V), NEW x \in K, NEW v \in V
    PROVE  Table(Put(f, x, v), K, V)
  BY DEF Table, Put

(* Taking an entry away keeps a table a table.                             *)
LEMMA WithoutType ==
    ASSUME NEW K, NEW V, NEW f, Table(f, K, V), NEW x
    PROVE  Table(Without(f, x), K, V)
  BY DEF Table, Without, Restrict

(* An entry of a table.                                                    *)
LEMMA EntryType ==
    ASSUME NEW K, NEW V, NEW f, Table(f, K, V), NEW x \in DOMAIN f
    PROVE  x \in K /\ f[x] \in V
  BY DEF Table

(* A stream of one.                                                        *)
LEMMA OneOf == ASSUME NEW S, NEW x \in S PROVE <<x>> \in Seq(S)
  OBVIOUS

(* The stream of a session.                                                *)
LEMMA StreamParts ==
    ASSUME TypeOK, NEW s \in Sessions
    PROVE  /\ stream[s] \in Seq(Packets) /\ Len(stream[s]) \in Nat /\ DOMAIN stream = Sessions
           /\ \A i \in 1..Len(stream[s]) : stream[s][i] \in Packets
           /\ stream[s] # <<>> => /\ Len(stream[s]) # 0
                                  /\ Head(stream[s]) = stream[s][1]
                                  /\ Head(stream[s]) \in Packets
                                  /\ Tail(stream[s]) \in Seq(Packets)
                                  /\ Len(Tail(stream[s])) = Len(stream[s]) - 1
                                  /\ \A i \in 1..Len(Tail(stream[s])) :
                                        Tail(stream[s])[i] = stream[s][i + 1]
  <1>1. stream[s] \in Seq(Packets) /\ DOMAIN stream = Sessions
    BY DEF TypeOK
  <1>. DEFINE q == stream[s]
  <1>. HIDE DEF q
  <1>2. q \in Seq(Packets)
    BY <1>1 DEF q
  <1>3. Len(q) \in Nat /\ \A i \in 1..Len(q) : q[i] \in Packets
    BY <1>2
  <1>4. ASSUME q # <<>>
        PROVE  /\ Len(q) # 0 /\ Head(q) = q[1] /\ Head(q) \in Packets
               /\ Tail(q) \in Seq(Packets) /\ Len(Tail(q)) = Len(q) - 1
               /\ \A i \in 1..Len(Tail(q)) : Tail(q)[i] = q[i + 1]
    BY <1>2, <1>4, HeadTailProperties
  <1>. QED BY <1>1, <1>3, <1>4 DEF q

(* What Init sets has the right types.                                     *)
LEMMA InitTyped == Init => TypeOK
  BY CreateAssumption, EmptySeq DEF Init, TypeOK, options, NoDevices, Table, Modes

(* So has what a sender sends, ...                                         *)
LEMMA SendTyped ==
    ASSUME TypeOK, NEW s \in Sessions, NEW id \in Ids,
           retract(s, id) \/ forward(s, id) \/ \E d \in Devices : announce(s, id, d)
    PROVE  TypeOK'
  <1>1. known[s] = known[s] /\ Table(known[s], Ids, Devices) /\ DOMAIN known = Sessions
    BY DEF TypeOK
  <1>2. PICK packet \in Packets : send(s, packet)
    BY <1>1, EntryType, PacketParts DEF announce, retract, forward
  <1>3. stream' \in [Sessions -> Seq(Packets)]
    <2>1. stream \in [Sessions -> Seq(Packets)] /\ Append(stream[s], packet) \in Seq(Packets)
      BY StreamParts, AppendProperties DEF TypeOK
    <2>. QED BY <1>2, <2>1 DEF send
  <1>4. DOMAIN known' = Sessions /\ \A r \in Sessions : Table(known'[r], Ids, Devices)
    <2>1. known' = known \/ \E f : Table(f, Ids, Devices) /\ known' = [known EXCEPT ![s] = f]
      BY <1>1, PutType, WithoutType DEF announce, retract, forward
    <2>2. DOMAIN known = Sessions /\ \A r \in Sessions : Table(known[r], Ids, Devices)
      BY DEF TypeOK
    <2>. QED BY <2>1, <2>2
  <1>5. sent' \in [Sessions -> 0..MaxSent]
    <2>1. sent \in [Sessions -> 0..MaxSent] /\ MaxSent \in Nat
      BY CreateAssumption DEF TypeOK
    <2>2. sent[s] < MaxSent /\ sent' = [sent EXCEPT ![s] = sent[s] + 1]
      BY <1>2 DEF send
    <2>3. sent[s] + 1 \in 0..MaxSent
      BY <2>1, <2>2
    <2>. QED BY <2>1, <2>2, <2>3
  <1>. QED BY <1>2, <1>3, <1>4, <1>5 DEF send, TypeOK, options, receiver

(* ... what closing, losing and making a connection leave, ...             *)
LEMMA ConnectionTyped ==
    ASSUME TypeOK, NEW s \in Sessions, connect(s) \/ close(s) \/ lose(s)
    PROVE  TypeOK'
  <1>1. state' \in [Sessions -> {"new", "open", "closed", "lost"}]
    <2>1. state \in [Sessions -> {"new", "open", "closed", "lost"}]
      BY DEF TypeOK
    <2>. QED BY <2>1 DEF connect, close, lose
  <1>2. stream' \in [Sessions -> Seq(Packets)]
    <2>1. stream \in [Sessions -> Seq(Packets)]
      BY DEF TypeOK
    <2>2. CASE connect(s)
      <3>1. <<Hello>> \in Seq(Packets)
        BY PacketParts, OneOf
      <3>. QED BY <2>1, <2>2, <3>1 DEF connect
    <2>3. CASE close(s)
      BY <2>1, <2>3 DEF close
    <2>4. CASE lose(s)
      <3>1. PICK n, cut :
              /\ n \in 0..(Len(stream[s]) - 1)
              /\ \/ cut \in {<<>>, <<CutHeader>>}
                 \/ /\ stream[s][n + 1].cmd = "AddDevice"
                    /\ cut = <<CutDevice(stream[s][n + 1].id)>>
              /\ stream' = [stream EXCEPT ![s] = SubSeq(stream[s], 1, n) \o cut]
        BY <2>4 DEF lose
      <3>2. n + 1 \in 1..Len(stream[s]) /\ stream[s][n + 1] \in Packets
        BY <3>1, StreamParts
      <3>3. cut \in Seq(Packets)
        <4>1. CASE cut = <<>>
          BY <4>1, EmptySeq
        <4>2. CASE cut = <<CutHeader>>
          BY <4>2, PacketParts, OneOf
        <4>3. CASE /\ stream[s][n + 1].cmd = "AddDevice"
                   /\ cut = <<CutDevice(stream[s][n + 1].id)>>
          <5>1. CutDevice(stream[s][n + 1].id) \in Packets
            BY <3>2, <4>3, PacketParts
          <5>. QED BY <4>3, <5>1, OneOf
        <4>. QED BY <3>1, <4>1, <4>2, <4>3
      <3>4. SubSeq(stream[s], 1, n) \in Seq(Packets)
        <4>1. stream[s] \in Seq(Packets)
          BY StreamParts
        <4>2. \A i \in 1..n : i \in 1..Len(stream[s])
          BY <3>1, <3>2, StreamParts
        <4>. QED BY <3>1, <4>1, <4>2, SubSeqProperties
      <3>5. SubSeq(stream[s], 1, n) \o cut \in Seq(Packets)
        BY <3>3, <3>4, ConcatProperties
      <3>. QED BY <2>1, <3>1, <3>5
    <2>. QED BY <2>2, <2>3, <2>4
  <1>3. backlog' \in Seq(Sessions) /\ trusting' \subseteq Sessions
    <2>1. backlog \in Seq(Sessions) /\ Append(backlog, s) \in Seq(Sessions)
          /\ trusting \subseteq Sessions
      BY AppendProperties DEF TypeOK
    <2>. QED BY <2>1 DEF connect, close, lose
  <1>4. DOMAIN known' = Sessions /\ \A r \in Sessions : Table(known'[r], Ids, Devices)
    <2>1. DOMAIN known = Sessions /\ \A r \in Sessions : Table(known[r], Ids, Devices)
          /\ infd \in Sessions \cup {NoSession}
      BY DEF TypeOK
    <2>2. known' = known \/ (infd # NoSession /\ known' = [known EXCEPT ![s] = known[infd]])
      BY DEF connect, close, lose
    <2>. QED BY <2>1, <2>2
  <1>5. UNCHANGED <<options, receiver, sent>>
    BY DEF connect, close, lose
  <1>. QED BY <1>1, <1>2, <1>3, <1>4, <1>5 DEF TypeOK, options, receiver

(* ... and what the receiver does.                                         *)
LEMMA ReceiveTyped == TypeOK /\ Receive => TypeOK'
  <1>. SUFFICES ASSUME TypeOK, Receive PROVE TypeOK'
    OBVIOUS
  <1>1. ASSUME acceptFirst \/ acceptNext PROVE TypeOK'
    <2>1. backlog \in Seq(Sessions) /\ backlog # <<>>
      BY <1>1 DEF acceptFirst, acceptNext, TypeOK
    <2>2. Head(backlog) \in Sessions /\ Tail(backlog) \in Seq(Sessions)
      BY <2>1
    <2>3. UNCHANGED <<options, failure, devices, skipped, misdelivered, stream, senders>>
          /\ infd' = Head(backlog) /\ backlog' = Tail(backlog)
          /\ pc' \in {"hello", "packets"} /\ serversock' \in {serversock, TRUE, FALSE}
      BY <1>1 DEF acceptFirst, acceptNext
    <2>. QED BY <2>2, <2>3 DEF TypeOK, options, senders
  <1>2. ASSUME pc \in {"hello", "packets"}, stream' = stream \/ (Read /\ stream[infd] # <<>>)
                     \/ stream' = [stream EXCEPT ![infd] = <<>>]
        PROVE  infd \in Sessions /\ stream' \in [Sessions -> Seq(Packets)]
    <2>1. infd \in Sessions /\ stream \in [Sessions -> Seq(Packets)]
      BY <1>2 DEF TypeOK
    <2>2. stream[infd] # <<>> => Tail(stream[infd]) \in Seq(Packets)
      BY <2>1, StreamParts
    <2>3. <<>> \in Seq(Packets)
      BY EmptySeq
    <2>. QED BY <1>2, <2>1, <2>2, <2>3 DEF Read
  <1>3. ASSUME AtPacket("packets") PROVE infd \in Sessions /\ Packet \in Packets
    <2>1. infd \in Sessions
      BY <1>3 DEF AtPacket, TypeOK
    <2>. QED BY <1>3, <2>1, StreamParts DEF AtPacket, Packet
  <1>4. ASSUME readHello PROVE TypeOK'
    <2>1. /\ pc = "hello" /\ (stream' = stream \/ (Read /\ stream[infd] # <<>>))
          /\ UNCHANGED <<options, devices, skipped, misdelivered, backlog, senders,
                         serversock, infd>>
          /\ pc' \in {"packets", "failed"} /\ failure' \in {failure, "end of file"}
      BY <1>4 DEF readHello, AtPacket, Fail
    <2>. QED BY <1>2, <2>1 DEF TypeOK, options, senders
  <1>5. ASSUME checkHello PROVE TypeOK'
    <2>1. /\ pc = "packets" /\ Read /\ stream[infd] # <<>>
          /\ UNCHANGED <<options, receiver, backlog, senders>>
      BY <1>5 DEF checkHello, AtPacket
    <2>. QED BY <1>2, <2>1 DEF TypeOK, options, senders, receiver
  <1>6. ASSUME addDevice \/ skipDevice \/ removeDevice \/ writeEvent PROVE TypeOK'
    <2>1. /\ AtPacket("packets") /\ Read
          /\ Packet.cmd \in {"AddDevice", "RemoveDevice", "DeviceEvent"}
          /\ UNCHANGED <<options, pc, failure, serversock, infd, backlog, senders>>
          /\ skipped' \in {skipped, skipped \ {Packet.id}, skipped \cup {Packet.id}}
          /\ misdelivered' \in {misdelivered, misdelivered \cup {Packet}}
      BY <1>6 DEF addDevice, skipDevice, removeDevice, writeEvent
    <2>2. Packet \in Packets /\ Packet.id \in Ids
      BY <1>3, <2>1, PacketParts
    <2>3. Table(devices', Ids, Devices)
      <3>1. Table(devices, Ids, Devices)
        BY DEF TypeOK
      <3>2. Packet.cmd = "AddDevice" => Packet.dev \in Devices
        BY <2>2, PacketParts
      <3>3. \/ devices' = devices \/ devices' = Without(devices, Packet.id)
            \/ Packet.cmd = "AddDevice" /\ devices' = Put(devices, Packet.id, Packet.dev)
        BY <1>6 DEF addDevice, skipDevice, removeDevice, writeEvent, Created, Erased
      <3>4. PICK p : p = Packet
        OBVIOUS
      <3>5. CASE p.cmd = "AddDevice" /\ devices' = Put(devices, p.id, p.dev)
        BY <2>2, <3>1, <3>2, <3>4, <3>5, PutType, WithoutType
      <3>6. CASE devices' = Without(devices, p.id)
        BY <2>2, <3>1, <3>4, <3>6, PutType, WithoutType
      <3>. QED BY <3>1, <3>3, <3>4, <3>5, <3>6
    <2>4. infd \in Sessions /\ stream' \in [Sessions -> Seq(Packets)]
      BY <1>2, <2>1 DEF AtPacket
    <2>5. skipped' \subseteq Ids /\ misdelivered' \subseteq Packets
      BY <2>1, <2>2 DEF TypeOK
    <2>. QED BY <2>1, <2>3, <2>4, <2>5 DEF TypeOK, options, senders
  <1>7. ASSUME rejectDevice \/ missingDevice \/ cutDevice PROVE TypeOK'
    <2>1. /\ pc = "packets" /\ Read /\ stream[infd] # <<>>
          /\ UNCHANGED <<options, devices, skipped, misdelivered, backlog, senders,
                         serversock, infd>>
          /\ pc' = "failed" /\ failure' \in {"duplicate device", "missing device", "end of file"}
      BY <1>7 DEF rejectDevice, missingDevice, cutDevice, AtPacket, Fail
    <2>. QED BY <1>2, <2>1 DEF TypeOK, options, senders
  <1>8. ASSUME endOfFile PROVE TypeOK'
    <2>1. /\ pc = "packets" /\ stream' = [stream EXCEPT ![infd] = <<>>]
          /\ UNCHANGED <<options, failure, serversock, infd, skipped, misdelivered, backlog,
                         senders, devices>>
          /\ pc' \in {"accept", "ended"}
      BY <1>8 DEF endOfFile, AfterEOF, DevicesAfter
    <2>. QED BY <1>2, <2>1 DEF TypeOK, options, senders
  <1>. QED BY <1>1, <1>4, <1>5, <1>6, <1>7, <1>8 DEF Receive

-----------------------------------------------------------------------------
(* Where the sessions are.                                                 *)

(* Whom the receiver has finished reading nobody writes for.               *)
LEMMA SendPlaced ==
    ASSUME TypeOK, Placed, NEW s \in Sessions, NEW packet, send(s, packet),
           \A r \in Sessions \ {s} : known'[r] = known[r]
    PROVE  Placed'
  <1>1. /\ state[s] = "open" /\ UNCHANGED <<backlog, state, infd, pc, failure, devices>>
        /\ stream' = [stream EXCEPT ![s] = Append(stream[s], packet)]
    BY DEF send, receiver
  <1>2. \A r \in Sessions \ {s} : stream'[r] = stream[r]
    BY <1>1 DEF TypeOK
  <1>3. Drained => Drained'
    BY <1>1, <1>2 DEF Drained, TypeOK
  <1>4. \A r \in Sessions : state'[r] = "new" => DOMAIN known'[r] = {}
    BY <1>1 DEF Placed
  <1>. QED BY <1>1, <1>3, <1>4 DEF Placed

(* A session that ends was not new.                                        *)
LEMMA EndPlaced ==
    ASSUME TypeOK, Placed, NEW s \in Sessions, close(s) \/ lose(s)
    PROVE  Placed'
  <1>. PICK next \in {"closed", "lost"} : state' = [state EXCEPT ![s] = next]
    BY DEF close, lose
  <1>1. /\ state[s] = "open" /\ UNCHANGED <<backlog, infd, pc, failure, devices, known>>
        /\ stream' = stream \/ \E q : stream' = [stream EXCEPT ![s] = q]
    BY DEF close, lose, receiver
  <1>2. \A r \in Sessions \ {s} : stream'[r] = stream[r] /\ state'[r] = state[r]
    BY <1>1 DEF TypeOK
  <1>3. state'[s] = next
    BY DEF TypeOK
  <1>4. Drained => Drained'
    BY <1>1, <1>2 DEF Drained, TypeOK
  <1>5. \A r \in Sessions : state'[r] # "new" <=> state[r] # "new"
    BY <1>1, <1>2, <1>3
  <1>6. \A i \in 1..Len(backlog) : backlog[i] \in Sessions
    <2>1. backlog \in Seq(Sessions)
      BY DEF TypeOK
    <2>. QED BY <2>1
  <1>. QED BY <1>1, <1>4, <1>5, <1>6 DEF Placed

(* One that connects is put in line.                                       *)
LEMMA ConnectPlaced ==
    ASSUME TypeOK, Placed, NEW s \in Sessions, connect(s)
    PROVE  Placed'
  <1>1. /\ state[s] = "new" /\ UNCHANGED <<infd, pc, failure, devices>>
        /\ stream' = [stream EXCEPT ![s] = <<Hello>>] /\ state' = [state EXCEPT ![s] = "open"]
        /\ backlog' = Append(backlog, s)
        /\ known' = known \/ known' = [known EXCEPT ![s] = known[infd]]
    BY DEF connect, receiver
  <1>2. \A r \in Sessions \ {s} :
           stream'[r] = stream[r] /\ state'[r] = state[r] /\ known'[r] = known[r]
    BY <1>1 DEF TypeOK
  <1>3. state'[s] = "open"
    BY <1>1 DEF TypeOK
  <1>4. infd # s /\ \A i \in 1..Len(backlog) : backlog[i] # s
    BY <1>1, CreateAssumption DEF Placed
  <1>5. /\ backlog \in Seq(Sessions) /\ Len(backlog) \in Nat /\ Len(backlog') = Len(backlog) + 1
        /\ \A i \in 1..Len(backlog) : backlog'[i] = backlog[i] /\ backlog[i] \in Sessions
        /\ backlog'[Len(backlog) + 1] = s
    <2>1. backlog \in Seq(Sessions)
      BY DEF TypeOK
    <2>. QED BY <1>1, <2>1, AppendProperties
  <1>6. \A i \in 1..Len(backlog') :
           i \in 1..Len(backlog) \/ (i = Len(backlog) + 1 /\ backlog'[i] = s)
    BY <1>5
  <1>7. Drained => Drained'
    BY <1>1, <1>2, <1>4 DEF Drained, Placed
  <1>8. \A i \in 1..Len(backlog') : state'[backlog'[i]] # "new" /\ backlog'[i] # infd'
    BY <1>1, <1>2, <1>3, <1>4, <1>5, <1>6 DEF Placed
  <1>9. \A i, j \in 1..Len(backlog') : backlog'[i] = backlog'[j] => i = j
    BY <1>4, <1>5, <1>6 DEF Placed
  <1>10. infd' # NoSession => infd' \in Sessions /\ state'[infd'] # "new"
    BY <1>1, <1>2, <1>4 DEF Placed
  <1>11. \A r \in Sessions : state'[r] = "new" => DOMAIN known'[r] = {}
    BY <1>2, <1>3 DEF Placed
  <1>. QED BY <1>1, <1>7, <1>8, <1>9, <1>10, <1>11 DEF Placed

(* One that is accepted leaves the line.                                   *)
LEMMA AcceptPlaced ==
    ASSUME TypeOK, Placed, acceptFirst \/ acceptNext
    PROVE  Placed'
  <1>1. /\ infd' = Head(backlog) /\ backlog' = Tail(backlog) /\ backlog # <<>>
        /\ pc' \in {"hello", "packets"} /\ pc \in {"listen", "accept"}
        /\ UNCHANGED <<failure, devices, state, known>>
    BY DEF acceptFirst, acceptNext, senders
  <1>2. backlog \in Seq(Sessions)
    BY DEF TypeOK
  <1>3. /\ infd' = backlog[1] /\ infd' \in Sessions /\ 1 \in 1..Len(backlog)
        /\ Len(backlog) \in Nat /\ Len(backlog') = Len(backlog) - 1
        /\ \A i \in 1..Len(backlog') : backlog'[i] = backlog[i + 1] /\ i + 1 \in 1..Len(backlog)
    BY <1>1, <1>2, HeadTailProperties
  <1>4. infd' # NoSession /\ state'[infd'] # "new"
    BY <1>1, <1>3, CreateAssumption DEF Placed
  <1>5. \A i \in 1..Len(backlog') : state'[backlog'[i]] # "new" /\ backlog'[i] # infd'
    <2>. SUFFICES ASSUME NEW i \in 1..Len(backlog')
                  PROVE  state'[backlog'[i]] # "new" /\ backlog'[i] # infd'
      OBVIOUS
    <2>1. backlog'[i] = backlog[i + 1] /\ i + 1 \in 1..Len(backlog) /\ i + 1 # 1
      BY <1>3
    <2>. QED BY <1>1, <1>3, <2>1 DEF Placed
  <1>6. \A i, j \in 1..Len(backlog') : backlog'[i] = backlog'[j] => i = j
    <2>. SUFFICES ASSUME NEW i \in 1..Len(backlog'), NEW j \in 1..Len(backlog'),
                         backlog'[i] = backlog'[j]
                  PROVE  i = j
      OBVIOUS
    <2>1. i + 1 \in 1..Len(backlog) /\ j + 1 \in 1..Len(backlog) /\ backlog[i + 1] = backlog[j + 1]
      BY <1>3
    <2>2. i + 1 = j + 1
      BY <2>1 DEF Placed
    <2>. QED BY <2>2
  <1>7. failure = "none"
    BY <1>1 DEF Placed
  <1>. QED BY <1>1, <1>3, <1>4, <1>5, <1>6, <1>7 DEF Placed

(* Reading moves nobody.                                                   *)
LEMMA ReadPlaced ==
    ASSUME TypeOK, Placed, pc \in {"hello", "packets"},
           pc' \in {"packets", "ended", "failed", "accept"}, pc' = "accept" => Drained',
           UNCHANGED <<backlog, infd, state, known>>,
           failure' = failure \/ pc' = "failed"
    PROVE  Placed'
  <1>1. infd # NoSession
    BY CreateAssumption DEF TypeOK
  <1>2. failure = "none"
    BY DEF Placed
  <1>. QED BY <1>1, <1>2 DEF Placed

(* Nobody waits at first.                                                  *)
LEMMA PlacedInit == Init => Placed
  <1>. SUFFICES ASSUME Init PROVE Placed
    OBVIOUS
  <1>1. Len(backlog) = 0 /\ infd = NoSession /\ pc = "listen" /\ failure = "none"
        /\ DOMAIN devices = {} /\ \A s \in Sessions : DOMAIN known[s] = {}
    BY DEF Init, NoDevices
  <1>. QED BY <1>1 DEF Placed

(* All of it together.                                                     *)
LEMMA PlacedKept ==
    ASSUME TypeOK, Placed, Next
    PROVE  Placed'
  <1>1. ASSUME NEW s \in Sessions, NEW id \in Ids,
               retract(s, id) \/ forward(s, id) \/ \E d \in Devices : announce(s, id, d)
        PROVE  Placed'
    <2>1. \E packet : send(s, packet)
      BY <1>1 DEF announce, retract, forward
    <2>2. known' = known \/ \E f : known' = [known EXCEPT ![s] = f]
      BY <1>1 DEF announce, retract, forward
    <2>3. \A r \in Sessions \ {s} : known'[r] = known[r]
      BY <2>2 DEF TypeOK
    <2>. QED BY <2>1, <2>3, SendPlaced
  <1>2. ASSUME readHello \/ checkHello \/ addDevice \/ skipDevice \/ rejectDevice \/ removeDevice
                 \/ writeEvent \/ missingDevice \/ cutDevice
        PROVE  Placed'
    <2>1. /\ pc \in {"hello", "packets"} /\ pc' \in {"packets", "failed"}
          /\ UNCHANGED <<backlog, infd, state, known>>
          /\ failure' = failure \/ pc' = "failed"
      BY <1>2 DEF readHello, checkHello, addDevice, skipDevice, rejectDevice, removeDevice,
                  writeEvent, missingDevice, cutDevice, AtPacket, Fail, receiver, senders
    <2>. QED BY <2>1, ReadPlaced
  <1>3. ASSUME endOfFile PROVE Placed'
    <2>1. /\ pc = "packets" /\ pc' \in {"ended", "accept"}
          /\ UNCHANGED <<backlog, infd, state, known, failure>>
          /\ state[infd] \in {"closed", "lost"}
          /\ stream' = [stream EXCEPT ![infd] = <<>>]
      BY <1>3 DEF endOfFile, AfterEOF, AtEOF, senders
    <2>2. infd \in Sessions /\ infd # NoSession
      BY <2>1, CreateAssumption DEF TypeOK
    <2>3. stream'[infd] = <<>>
      BY <2>1, <2>2 DEF TypeOK
    <2>4. Drained'
      BY <2>1, <2>2, <2>3 DEF Drained
    <2>. QED BY <2>1, <2>4, ReadPlaced
  <1>. QED BY <1>1, <1>2, <1>3, EndPlaced, ConnectPlaced, AcceptPlaced DEF Next, Send, Receive

-----------------------------------------------------------------------------
(* What the streams mean.                                                  *)

(* Only the one being read, and when it is drained the first in line, go   *)
(* on from the devices there are.                                          *)
LEMMA InBases ==
    ASSUME NEW s \in Sessions, s \in Bases, s # infd
    PROVE  Drained /\ backlog # <<>> /\ Head(backlog) = s
  BY DEF Bases

(* Reading the next packet: what it said of the devices is now so, and it  *)
(* said nothing of those it leaves alone.                                  *)
LEMMA ReadMeans ==
    ASSUME TypeOK, Placed, PacketsMeant, BeliefsMeant, NEW p \in Packets,
           pc \in {"hello", "packets"}, stream[infd] # <<>>, p = Head(stream[infd]), Read,
           UNCHANGED <<backlog, infd, senders>>,
           \A id \in Ids :
              /\ ~Concerns(p, id) => /\ id \in DOMAIN devices' <=> id \in DOMAIN devices
                                     /\ id \in DOMAIN devices => devices'[id] = devices[id]
                                     /\ id \in skipped' <=> id \in skipped
              /\ p = RemoveDevice(id) => id \notin DOMAIN devices'
              /\ \A d \in Devices :
                    p = AddDevice(id, d) => /\ id \in DOMAIN devices'
                                            /\ id \in skipped' \/ devices'[id] = d
    PROVE  PacketsMeant' /\ BeliefsMeant'
  <1>. DEFINE q == stream[infd]
              t == stream'[infd]
  <1>1. infd \in Sessions /\ infd # NoSession /\ ~Over
    BY CreateAssumption DEF TypeOK, Over
  <1>2. UNCHANGED <<infd, backlog, state, known, trusting>>
    BY DEF senders
  <1>3. t = Tail(q) /\ \A s \in Sessions \ {infd} : stream'[s] = stream[s]
    BY <1>1 DEF Read, TypeOK
  <1>4. /\ Len(t) \in Nat /\ Len(q) = Len(t) + 1 /\ p = q[1]
        /\ \A i \in 1..Len(q) : q[i] \in Packets
        /\ \A i \in 1..Len(t) : t[i] = q[i + 1]
    <2>1. /\ Len(q) \in Nat /\ Len(q) # 0 /\ p = q[1] /\ Len(Tail(q)) = Len(q) - 1
          /\ \A i \in 1..Len(q) : q[i] \in Packets
          /\ \A i \in 1..Len(Tail(q)) : Tail(q)[i] = q[i + 1]
      BY <1>1, StreamParts
    <2>. QED BY <1>3, <2>1
  <1>11. stream[infd] = q /\ stream'[infd] = t
    OBVIOUS
  <1>. HIDE DEF q, t
  <1>5. \A s \in Sessions \ {infd} : s \notin Bases
    BY InBases DEF Drained
  <1>6. ASSUME NEW s \in Sessions \ {infd}, NEW n, NEW id, NEW d, Knows(s, n, id, d)
        PROVE  Knows(s, n, id, d)'
    BY <1>3, <1>5, <1>6 DEF Knows
  <1>7. ASSUME NEW n \in 1..(Len(t) + 1), NEW m, m = n + 1, NEW id \in Ids
        PROVE  /\ \A d \in Devices : Knows(infd, m, id, d) => Knows(infd, n, id, d)'
               /\ Free(infd, m, id) => Free(infd, n, id)'
    <2>1. n \in Nat \ {0} /\ \A k \in 1..(n - 1) : t[k] = q[k + 1]
      BY <1>4
    <2>2. /\ Untouched(q, m, id) => ~Concerns(p, id) /\ Untouched(t, n, id)
          /\ \A d : Announced(q, m, id, d) =>
                Announced(t, n, id, d) \/ (p = AddDevice(id, d) /\ Untouched(t, n, id))
          /\ Retracted(q, m, id) =>
                Retracted(t, n, id) \/ (p = RemoveDevice(id) /\ Untouched(t, n, id))
      <3>. PICK b, c : b = q /\ c = t
        OBVIOUS
      <3>1. n \in Nat \ {0} /\ m = n + 1 /\ Shifted(b, c, n) /\ b[1] = p
        BY <1>4, <1>7, <2>1 DEF Shifted
      <3>2. ASSUME NEW d
            PROVE  /\ Untouched(b, m, id) => ~Concerns(b[1], id) /\ Untouched(c, n, id)
                   /\ Announced(b, m, id, d) =>
                         Announced(c, n, id, d) \/ (b[1] = AddDevice(id, d) /\ Untouched(c, n, id))
                   /\ Retracted(b, m, id) =>
                         Retracted(c, n, id) \/ (b[1] = RemoveDevice(id) /\ Untouched(c, n, id))
        BY <3>1, WithoutFirst
      <3>. QED BY <3>1, <3>2
    <2>3. \A d \in Devices :
             /\ p = AddDevice(id, d) => Held(infd, id, d)'
             /\ ~Concerns(p, id) /\ Held(infd, id, d) => Held(infd, id, d)'
      BY <1>2 DEF Held
    <2>4. (infd \in Bases)'
      BY <1>1 DEF Bases
    <2>5. \A d \in Devices : Knows(infd, m, id, d) => Knows(infd, n, id, d)'
      BY <1>2, <1>11, <2>2, <2>3, <2>4 DEF Knows
    <2>6. Free(infd, m, id) => Free(infd, n, id)'
      BY <1>2, <1>11, <2>2 DEF Free
    <2>. QED BY <2>5, <2>6
  <1>8. \A s \in Sessions : IsFirst(s)' => IsFirst(s) /\ s = infd
    BY <1>1, <1>2 DEF IsFirst, Before
  <1>9. PacketsMeant'
    <2>. SUFFICES ASSUME NEW s \in Sessions, NEW i \in 1..Len(stream'[s]) PROVE PacketMeant(s, i)'
      BY DEF PacketsMeant
    <2>1. CASE s # infd
      <3>1. stream'[s] = stream[s] /\ PacketMeant(s, i)
        BY <1>1, <1>3, <2>1 DEF PacketsMeant
      <3>. QED BY <1>6, <1>8, <2>1, <3>1 DEF PacketMeant, Meant
    <2>2. CASE s = infd
      <3>. PICK x \in Packets : x = q[i + 1]
        <4>1. i \in 1..Len(t)
          BY <1>11, <2>2
        <4>2. i + 1 \in 1..Len(q)
          BY <1>4, <4>1
        <4>. QED BY <1>4, <4>2
      <3>. PICK m : m = i + 1
        OBVIOUS
      <3>1. i + 1 \in 1..Len(q) /\ i \in 1..(Len(t) + 1) /\ stream'[s][i] = x
            /\ stream[infd][m] = x /\ m \in 1..Len(stream[infd])
        <4>1. i \in 1..Len(t)
          BY <1>11, <2>2
        <4>2. i + 1 \in 1..Len(q) /\ i \in 1..(Len(t) + 1)
          BY <1>4, <4>1
        <4>. QED BY <1>4, <1>11, <2>2, <4>1, <4>2
      <3>2. /\ x.cmd = "DeviceEvent" => Knows(infd, m, x.id, x.dev)
            /\ x.cmd = "RemoveDevice" => \E d \in Devices : Knows(infd, m, x.id, d)
            /\ x.cmd \in {"AddDevice", "cut device"} /\ IsFirst(infd) => Free(infd, m, x.id)
        BY <1>1, <3>1 DEF PacketsMeant, PacketMeant, Meant
      <3>3. /\ x.cmd \in {"DeviceEvent", "RemoveDevice", "AddDevice", "cut device"} => x.id \in Ids
            /\ x.cmd = "DeviceEvent" => x.dev \in Devices
        BY PacketParts
      <3>4. /\ x.cmd = "DeviceEvent" => Knows(infd, i, x.id, x.dev)'
            /\ x.cmd = "RemoveDevice" => \E d \in Devices : Knows(infd, i, x.id, d)'
            /\ x.cmd \in {"AddDevice", "cut device"} /\ IsFirst(infd)' => Free(infd, i, x.id)'
        <4>1. \A id \in Ids : /\ \A d \in Devices : Knows(infd, m, id, d) => Knows(infd, i, id, d)'
                              /\ Free(infd, m, id) => Free(infd, i, id)'
          BY <1>7, <3>1
        <4>2. ASSUME x.cmd = "RemoveDevice" PROVE \E d \in Devices : Knows(infd, i, x.id, d)'
          <5>. PICK d \in Devices : Knows(infd, m, x.id, d)
            BY <3>2, <4>2
          <5>1. Knows(infd, i, x.id, d)'
            BY <3>3, <4>1, <4>2
          <5>. QED BY <5>1
        <4>3. x.cmd = "DeviceEvent" => Knows(infd, i, x.id, x.dev)'
          BY <3>2, <3>3, <4>1
        <4>4. x.cmd \in {"AddDevice", "cut device"} /\ IsFirst(infd)' => Free(infd, i, x.id)'
          BY <1>1, <1>8, <3>2, <3>3, <4>1
        <4>. QED BY <4>2, <4>3, <4>4
      <3>. QED BY <2>2, <3>1, <3>4 DEF PacketMeant, Meant
    <2>. QED BY <2>1, <2>2
  <1>10. BeliefsMeant'
    <2>. SUFFICES ASSUME NEW s \in Sessions PROVE BeliefMeant(s)'
      BY DEF BeliefsMeant
    <2>1. BeliefMeant(s) /\ (Heard(s)' <=> Heard(s)) /\ Table(known[s], Ids, Devices)
      BY <1>1, <1>2 DEF BeliefsMeant, Heard, Waits, TypeOK
    <2>2. CASE s # infd
      <3>1. stream'[s] = stream[s]
        BY <1>3, <2>2
      <3>. QED BY <1>2, <1>6, <1>8, <2>1, <2>2, <3>1 DEF BeliefMeant
    <2>3. CASE s = infd
      <3>. PICK n, m : n = Len(t) + 1 /\ m = Len(q) + 1
        OBVIOUS
      <3>1. n \in 1..(Len(t) + 1) /\ m = n + 1
        BY <1>4
      <3>2. \A id \in DOMAIN known[s] : id \in Ids /\ known[s][id] \in Devices
        BY <2>1 DEF Table
      <3>3. \A id \in Ids : /\ \A d \in Devices : Knows(infd, m, id, d) => Knows(infd, n, id, d)'
                            /\ Free(infd, m, id) => Free(infd, n, id)'
        BY <1>7, <3>1
      <3>4. Len(stream[infd]) + 1 = m /\ Len(stream'[infd]) + 1 = n
        BY <1>11
      <3>. QED BY <1>2, <1>8, <2>1, <2>3, <3>2, <3>3, <3>4 DEF BeliefMeant
    <2>. QED BY <2>2, <2>3
  <1>. QED BY <1>9, <1>10

(* A packet keeps its meaning, and a sender its beliefs, when the stream,  *)
(* the devices and the sender are left alone.                              *)
LEMMA KnowsKept ==
    ASSUME NEW s, NEW n \in Nat, Agree(stream[s], stream'[s], n), UNCHANGED <<devices, skipped>>,
           trusting \subseteq trusting', s \in Bases => (s \in Bases)', NEW id, NEW d
    PROVE  /\ Knows(s, n, id, d) => Knows(s, n, id, d)'
           /\ Free(s, n, id) => Free(s, n, id)'
  <1>. PICK q, r : q = stream[s] /\ r = stream'[s]
    OBVIOUS
  <1>1. /\ Untouched(q, n, id) => Untouched(r, n, id)
        /\ Announced(q, n, id, d) => Announced(r, n, id, d)
        /\ Retracted(q, n, id) => Retracted(r, n, id)
    BY SameBeginning
  <1>2. Held(s, id, d) => Held(s, id, d)'
    BY DEF Held
  <1>. QED BY <1>1, <1>2 DEF Knows, Free

(* So does a packet at its place.                                          *)
LEMMA MeantKept ==
    ASSUME NEW s, NEW i, NEW x, Meant(s, i, x), IsFirst(s)' => IsFirst(s),
           \A id, d : /\ Knows(s, i, id, d) => Knows(s, i, id, d)'
                      /\ Free(s, i, id) => Free(s, i, id)'
    PROVE  Meant(s, i, x)'
  <1>1. ASSUME x.cmd = "RemoveDevice" PROVE \E d \in Devices : Knows(s, i, x.id, d)'
    <2>. PICK d \in Devices : Knows(s, i, x.id, d)
      BY <1>1 DEF Meant
    <2>1. Knows(s, i, x.id, d)'
      OBVIOUS
    <2>. QED BY <2>1
  <1>2. x.cmd = "DeviceEvent" => Knows(s, i, x.id, x.dev)'
    BY DEF Meant
  <1>3. x.cmd \in {"AddDevice", "cut device"} /\ IsFirst(s)' => Free(s, i, x.id)'
    BY DEF Meant
  <1>. QED BY <1>1, <1>2, <1>3 DEF Meant

(* So does all of a session that a step leaves alone.                      *)
LEMMA SessionKept ==
    ASSUME TypeOK, NEW s \in Sessions, stream'[s] = stream[s], UNCHANGED <<devices, skipped>>,
           trusting \subseteq trusting', s \in Bases => (s \in Bases)', IsFirst(s)' => IsFirst(s)
    PROVE  /\ \A i \in 1..Len(stream[s]) : PacketMeant(s, i) => PacketMeant(s, i)'
           /\ /\ known'[s] = known[s] /\ (Heard(s)' => Heard(s))
              /\ state'[s] = "open" => state[s] = "open"
              /\ BeliefMeant(s)
              => BeliefMeant(s)'
  <1>1. Len(stream[s]) \in Nat
    BY StreamParts
  <1>2. ASSUME NEW n \in Nat, NEW id, NEW d
        PROVE  /\ Knows(s, n, id, d) => Knows(s, n, id, d)'
               /\ Free(s, n, id) => Free(s, n, id)'
    BY KnowsKept DEF Agree
  <1>3. ASSUME NEW i \in 1..Len(stream[s]), PacketMeant(s, i) PROVE PacketMeant(s, i)'
    <2>. PICK x : x = stream[s][i]
      OBVIOUS
    <2>1. Meant(s, i, x)'
      BY <1>1, <1>2, <1>3, MeantKept DEF PacketMeant
    <2>. QED BY <2>1 DEF PacketMeant
  <1>4. ASSUME known'[s] = known[s], Heard(s)' => Heard(s), state'[s] = "open" => state[s] = "open",
               BeliefMeant(s)
        PROVE  BeliefMeant(s)'
    <2>. PICK n : n = Len(stream[s]) + 1
      OBVIOUS
    <2>1. \A id, d : /\ Knows(s, n, id, d) => Knows(s, n, id, d)'
                     /\ Free(s, n, id) => Free(s, n, id)'
      BY <1>1, <1>2
    <2>. QED BY <1>4, <2>1 DEF BeliefMeant
  <1>. QED BY <1>3, <1>4

(* Sending a packet that the sender may send, of what it believes then.    *)
LEMMA SendMeans ==
    ASSUME TypeOK, Placed, PacketsMeant, BeliefsMeant, NEW s \in Sessions, NEW packet \in Packets,
           send(s, packet), \A r \in Sessions \ {s} : known'[r] = known[r],
           ~Over => Meant(s, Len(stream[s]) + 1, packet),
           \A id \in DOMAIN known'[s] :
              \/ packet = AddDevice(id, known'[s][id])
              \/ ~Concerns(packet, id) /\ id \in DOMAIN known[s] /\ known'[s][id] = known[s][id],
           \A id \in Ids \ DOMAIN known'[s] :
              packet = RemoveDevice(id) \/ (~Concerns(packet, id) /\ id \notin DOMAIN known[s])
    PROVE  PacketsMeant' /\ BeliefsMeant'
  <1>. SUFFICES ASSUME ~Over PROVE PacketsMeant' /\ BeliefsMeant'
    BY DEF PacketsMeant, BeliefsMeant, Over, send, receiver
  <1>1. /\ state[s] = "open" /\ stream' = [stream EXCEPT ![s] = Append(stream[s], packet)]
        /\ UNCHANGED <<pc, backlog, infd, devices, skipped, state, trusting>>
    BY DEF send, receiver
  <1>2. \A r \in Sessions \ {s} : stream'[r] = stream[r]
    BY <1>1 DEF TypeOK
  <1>3. /\ stream'[s] = Append(stream[s], packet) /\ stream[s] \in Seq(Packets)
        /\ Len(stream[s]) \in Nat /\ Len(stream'[s]) = Len(stream[s]) + 1
        /\ \A k \in 1..Len(stream[s]) : stream'[s][k] = stream[s][k]
        /\ stream'[s][Len(stream[s]) + 1] = packet
    <2>1. stream'[s] = Append(stream[s], packet) /\ stream[s] \in Seq(Packets)
      BY <1>1 DEF TypeOK
    <2>. QED BY <2>1, AppendProperties
  <1>4. Drained' <=> Drained
    BY <1>1, <1>2 DEF Drained, Placed
  <1>5. \A r \in Sessions : /\ (r \in Bases)' <=> r \in Bases
                            /\ IsFirst(r)' <=> IsFirst(r)
                            /\ Heard(r)' <=> Heard(r)
    BY <1>1, <1>4 DEF Bases, IsFirst, Before, Heard, Waits
  <1>6. ASSUME NEW n \in 1..(Len(stream[s]) + 1), NEW id, NEW d
        PROVE  /\ Knows(s, n, id, d) => Knows(s, n, id, d)'
               /\ Free(s, n, id) => Free(s, n, id)'
    <2>1. n \in Nat /\ Agree(stream[s], stream'[s], n)
      BY <1>3 DEF Agree
    <2>. QED BY <1>1, <1>5, <2>1, KnowsKept
  <1>. PICK q, n, m : q = stream'[s] /\ n = Len(stream[s]) + 1 /\ m = n + 1
    OBVIOUS
  <1>7. n \in Nat \ {0} /\ n \in 1..(Len(stream[s]) + 1) /\ q[n] = packet /\ Len(q) = n
    BY <1>3
  <1>8. ASSUME NEW id, NEW d
        PROVE  /\ ~Concerns(packet, id) /\ Knows(s, n, id, d)' => Knows(s, m, id, d)'
               /\ ~Concerns(packet, id) /\ Free(s, n, id)' => Free(s, m, id)'
               /\ packet = AddDevice(id, d) => Knows(s, m, id, d)'
               /\ packet = RemoveDevice(id) => Free(s, m, id)'
    <2>1. /\ ~Concerns(packet, id) =>
                 /\ Untouched(q, n, id) => Untouched(q, m, id)
                 /\ Announced(q, n, id, d) => Announced(q, m, id, d)
                 /\ Retracted(q, n, id) => Retracted(q, m, id)
          /\ packet = AddDevice(id, d) => Announced(q, m, id, d)
          /\ packet = RemoveDevice(id) => Retracted(q, m, id)
      BY <1>7, OneFurther
    <2>. QED BY <2>1 DEF Knows, Free
  <1>9. PacketsMeant'
    <2>. SUFFICES ASSUME NEW r \in Sessions, NEW i \in 1..Len(stream'[r]) PROVE PacketMeant(r, i)'
      BY DEF PacketsMeant
    <2>1. CASE r # s
      <3>1. stream'[r] = stream[r] /\ PacketMeant(r, i)
        BY <1>2, <2>1 DEF PacketsMeant
      <3>. QED BY <1>1, <1>5, <3>1, SessionKept
    <2>2. CASE r = s
      <3>. PICK x : x = stream'[s][i]
        OBVIOUS
      <3>1. Meant(s, i, x) /\ i \in 1..(Len(stream[s]) + 1)
        <4>1. i \in 1..Len(stream[s]) \/ i = n
          BY <1>3, <2>2
        <4>2. CASE i \in 1..Len(stream[s])
          <5>1. x = stream[s][i] /\ i \in 1..(Len(stream[s]) + 1) /\ PacketMeant(s, i)
            BY <1>3, <4>2 DEF PacketsMeant
          <5>. QED BY <5>1 DEF PacketMeant
        <4>3. CASE i = n
          BY <1>7, <4>3
        <4>. QED BY <4>1, <4>2, <4>3
      <3>2. Meant(s, i, x)'
        BY <1>5, <1>6, <3>1, MeantKept
      <3>. QED BY <2>2, <3>2 DEF PacketMeant
    <2>. QED BY <2>1, <2>2
  <1>10. BeliefsMeant'
    <2>. SUFFICES ASSUME NEW r \in Sessions PROVE BeliefMeant(r)'
      BY DEF BeliefsMeant
    <2>1. BeliefMeant(r)
      BY DEF BeliefsMeant
    <2>2. CASE r # s
      BY <1>1, <1>2, <1>5, <2>1, <2>2, SessionKept
    <2>3. CASE r = s
      <3>1. Heard(s)
        BY <1>1 DEF Heard
      <3>2. \A id \in DOMAIN known'[s] : \A d : d = known'[s][id] => Knows(s, m, id, d)'
        <4>. SUFFICES ASSUME NEW id \in DOMAIN known'[s], NEW d, d = known'[s][id]
                      PROVE  Knows(s, m, id, d)'
          OBVIOUS
        <4>1. CASE packet = AddDevice(id, d)
          BY <1>8, <4>1
        <4>2. CASE ~Concerns(packet, id) /\ id \in DOMAIN known[s] /\ known'[s][id] = known[s][id]
          <5>1. Knows(s, n, id, d)
            BY <2>1, <2>3, <3>1, <4>2 DEF BeliefMeant
          <5>. QED BY <1>6, <1>7, <1>8, <4>2, <5>1
        <4>. QED BY <4>1, <4>2
      <3>3. IsFirst(s)' => \A id \in Ids \ DOMAIN known'[s] : Free(s, m, id)'
        BY <1>1, <1>5, <1>6, <1>7, <1>8, <2>1, <2>3 DEF BeliefMeant
      <3>4. Len(stream'[s]) + 1 = m
        BY <1>7
      <3>. QED BY <2>3, <3>2, <3>3, <3>4 DEF BeliefMeant
    <2>. QED BY <2>2, <2>3
  <1>. QED BY <1>9, <1>10

(* The packets that are cut short.                                         *)
LEMMA CutParts ==
    /\ CutHeader.cmd = "cut header"
    /\ \A id : CutDevice(id).cmd = "cut device" /\ CutDevice(id).id = id
  BY DEF CutHeader, CutDevice

(* What a sender announces was free, if it is the first.                   *)
LEMMA announceMeans ==
    ASSUME TypeOK, Placed, PacketsMeant, BeliefsMeant,
           NEW s \in Sessions, NEW id \in Ids, NEW d \in Devices, announce(s, id, d)
    PROVE  PacketsMeant' /\ BeliefsMeant'
  <1>. PICK packet \in Packets : packet = AddDevice(id, d)
    BY PacketParts
  <1>1. /\ send(s, packet) /\ state[s] = "open" /\ id \notin DOMAIN known[s]
        /\ known' = [known EXCEPT ![s] = Put(known[s], id, d)]
    BY DEF announce, send
  <1>2. /\ \A r \in Sessions \ {s} : known'[r] = known[r]
        /\ known'[s] = Put(known[s], id, d) /\ Table(known[s], Ids, Devices)
    BY <1>1 DEF TypeOK
  <1>3. /\ DOMAIN known'[s] = DOMAIN known[s] \cup {id} /\ known'[s][id] = d
        /\ \A x \in DOMAIN known[s] \ {id} : known'[s][x] = known[s][x]
    <2>. PICK f, g : f = known[s] /\ g = known'[s]
      OBVIOUS
    <2>1. Table(f, Ids, Devices) /\ g = Put(f, id, d)
      BY <1>2
    <2>2. DOMAIN g = DOMAIN f \cup {id} /\ g[id] = d /\ \A x \in DOMAIN f \ {id} : g[x] = f[x]
      BY <2>1 DEF Put
    <2>. QED BY <2>2
  <1>4. packet.cmd = "AddDevice" /\ packet.id = id /\ \A x : x # id => ~Concerns(packet, x)
    BY DEF AddDevice, Concerns
  <1>5. ~Over => Meant(s, Len(stream[s]) + 1, packet)
    BY <1>1, <1>4 DEF BeliefsMeant, BeliefMeant, Meant
  <1>6. /\ \A x \in DOMAIN known'[s] :
              \/ packet = AddDevice(x, known'[s][x])
              \/ ~Concerns(packet, x) /\ x \in DOMAIN known[s] /\ known'[s][x] = known[s][x]
        /\ \A x \in Ids \ DOMAIN known'[s] : ~Concerns(packet, x) /\ x \notin DOMAIN known[s]
    BY <1>3, <1>4
  <1>. QED BY <1>1, <1>2, <1>5, <1>6, SendMeans

(* What a sender retracts it had announced.                                *)
LEMMA retractMeans ==
    ASSUME TypeOK, Placed, PacketsMeant, BeliefsMeant,
           NEW s \in Sessions, NEW id \in Ids, retract(s, id)
    PROVE  PacketsMeant' /\ BeliefsMeant'
  <1>. PICK packet \in Packets : packet = RemoveDevice(id)
    BY PacketParts
  <1>1. /\ send(s, packet) /\ state[s] = "open" /\ id \in DOMAIN known[s]
        /\ known' = [known EXCEPT ![s] = Without(known[s], id)]
    BY DEF retract, send
  <1>2. /\ \A r \in Sessions \ {s} : known'[r] = known[r]
        /\ known'[s] = Without(known[s], id) /\ Table(known[s], Ids, Devices)
    BY <1>1 DEF TypeOK
  <1>3. /\ DOMAIN known'[s] = DOMAIN known[s] \ {id} /\ known[s][id] \in Devices
        /\ \A x \in DOMAIN known[s] \ {id} : known'[s][x] = known[s][x]
    <2>. PICK f, g : f = known[s] /\ g = known'[s]
      OBVIOUS
    <2>1. Table(f, Ids, Devices) /\ g = Without(f, id) /\ id \in DOMAIN f
      BY <1>1, <1>2
    <2>2. DOMAIN g = DOMAIN f \ {id} /\ f[id] \in Devices /\ \A x \in DOMAIN f \ {id} : g[x] = f[x]
      BY <2>1, EntryType DEF Without, Restrict
    <2>. QED BY <2>2
  <1>4. packet.cmd = "RemoveDevice" /\ packet.id = id /\ \A x : x # id => ~Concerns(packet, x)
    BY DEF RemoveDevice, Concerns
  <1>5. ~Over => Meant(s, Len(stream[s]) + 1, packet)
    <2>. SUFFICES ASSUME ~Over PROVE Meant(s, Len(stream[s]) + 1, packet)
      OBVIOUS
    <2>1. Knows(s, Len(stream[s]) + 1, id, known[s][id])
      BY <1>1 DEF BeliefsMeant, BeliefMeant, Heard
    <2>2. \E x \in Devices : Knows(s, Len(stream[s]) + 1, packet.id, x)
      BY <1>3, <1>4, <2>1
    <2>. QED BY <1>4, <2>2 DEF Meant
  <1>6. /\ \A x \in DOMAIN known'[s] :
              ~Concerns(packet, x) /\ x \in DOMAIN known[s] /\ known'[s][x] = known[s][x]
        /\ \A x \in Ids \ DOMAIN known'[s] :
              packet = RemoveDevice(x) \/ (~Concerns(packet, x) /\ x \notin DOMAIN known[s])
    BY <1>3, <1>4
  <1>. QED BY <1>1, <1>2, <1>5, <1>6, SendMeans

(* What it forwards is of a device it has announced.                       *)
LEMMA forwardMeans ==
    ASSUME TypeOK, Placed, PacketsMeant, BeliefsMeant,
           NEW s \in Sessions, NEW id \in Ids, forward(s, id)
    PROVE  PacketsMeant' /\ BeliefsMeant'
  <1>1. id \in DOMAIN known[s] /\ known[s][id] \in Devices
    BY EntryType DEF forward, TypeOK
  <1>. PICK packet \in Packets : packet = DeviceEvent(id, known[s][id])
    BY <1>1, PacketParts
  <1>2. send(s, packet) /\ state[s] = "open" /\ known' = known
    BY DEF forward, send
  <1>3. /\ packet.cmd = "DeviceEvent" /\ packet.id = id /\ packet.dev = known[s][id]
        /\ \A x : ~Concerns(packet, x)
    BY DEF DeviceEvent, Concerns
  <1>4. ~Over => Meant(s, Len(stream[s]) + 1, packet)
    <2>. SUFFICES ASSUME ~Over PROVE Meant(s, Len(stream[s]) + 1, packet)
      OBVIOUS
    <2>1. Knows(s, Len(stream[s]) + 1, id, known[s][id])
      BY <1>1, <1>2 DEF BeliefsMeant, BeliefMeant, Heard
    <2>. QED BY <1>3, <2>1 DEF Meant
  <1>. QED BY <1>2, <1>3, <1>4, SendMeans

(* A session that is closed leaves its packets.                            *)
LEMMA closeMeans ==
    ASSUME TypeOK, Placed, PacketsMeant, BeliefsMeant, NEW s \in Sessions, close(s)
    PROVE  PacketsMeant' /\ BeliefsMeant'
  <1>. SUFFICES ASSUME ~Over PROVE PacketsMeant' /\ BeliefsMeant'
    BY DEF PacketsMeant, BeliefsMeant, Over, close, receiver
  <1>1. /\ state[s] = "open" /\ state' = [state EXCEPT ![s] = "closed"]
        /\ UNCHANGED <<stream, backlog, infd, devices, skipped, trusting, known>>
    BY DEF close, receiver
  <1>2. /\ \A r \in Sessions \ {s} : state'[r] = state[r]
        /\ state'[s] = "closed"
    BY <1>1 DEF TypeOK
  <1>3. \A r \in Sessions : r \in Bases => (r \in Bases)'
    BY <1>1, <1>2 DEF Bases, Drained, Placed
  <1>4. \A r \in Sessions : IsFirst(r)' <=> IsFirst(r)
    BY <1>1, <1>2 DEF IsFirst, Before
  <1>5. \A r \in Sessions : (Heard(r)' => Heard(r)) /\ (state'[r] = "open" => state[r] = "open")
    BY <1>1, <1>2 DEF Heard, Waits
  <1>6. ASSUME NEW r \in Sessions
        PROVE  /\ \A i \in 1..Len(stream'[r]) : PacketMeant(r, i)'
               /\ BeliefMeant(r)'
    <2>1. BeliefMeant(r) /\ \A i \in 1..Len(stream[r]) : PacketMeant(r, i)
      BY DEF PacketsMeant, BeliefsMeant
    <2>. QED BY <1>1, <1>3, <1>4, <1>5, <2>1, SessionKept
  <1>. QED BY <1>6 DEF PacketsMeant, BeliefsMeant

(* One that is lost leaves the beginning of its stream, and a description  *)
(* that is cut short is of a device it meant to add.                       *)
LEMMA loseMeans ==
    ASSUME TypeOK, Placed, PacketsMeant, BeliefsMeant, NEW s \in Sessions, lose(s)
    PROVE  PacketsMeant' /\ BeliefsMeant'
  <1>. SUFFICES ASSUME ~Over PROVE PacketsMeant' /\ BeliefsMeant'
    BY DEF PacketsMeant, BeliefsMeant, Over, lose, receiver
  <1>. PICK n, cut :
          /\ n \in 0..(Len(stream[s]) - 1)
          /\ \/ cut \in {<<>>, <<CutHeader>>}
             \/ /\ stream[s][n + 1].cmd = "AddDevice"
                /\ cut = <<CutDevice(stream[s][n + 1].id)>>
          /\ stream' = [stream EXCEPT ![s] = SubSeq(stream[s], 1, n) \o cut]
    BY DEF lose
  <1>1. /\ state[s] = "open" /\ state' = [state EXCEPT ![s] = "lost"]
        /\ UNCHANGED <<backlog, infd, devices, skipped, trusting, known>>
    BY DEF lose, receiver
  <1>2. /\ \A r \in Sessions \ {s} : state'[r] = state[r] /\ stream'[r] = stream[r]
        /\ state'[s] = "lost" /\ stream'[s] = SubSeq(stream[s], 1, n) \o cut
    BY <1>1 DEF TypeOK
  <1>3. \A r \in Sessions : r \in Bases => (r \in Bases)'
    BY <1>1, <1>2 DEF Bases, Drained, Placed
  <1>4. \A r \in Sessions : IsFirst(r)' <=> IsFirst(r)
    BY <1>1, <1>2 DEF IsFirst, Before
  <1>5. \A r \in Sessions : (Heard(r)' => Heard(r)) /\ (state'[r] = "open" => state[r] = "open")
    BY <1>1, <1>2 DEF Heard, Waits
  <1>6. /\ stream[s] \in Seq(Packets) /\ n \in Nat /\ n + 1 \in 1..Len(stream[s])
        /\ stream[s][n + 1] \in Packets
    BY StreamParts
  <1>. PICK q, x : q = stream'[s] /\ x = stream[s][n + 1]
    OBVIOUS
  <1>7. /\ \A k \in 1..n : q[k] = stream[s][k]
        /\ \A k \in 1..Len(q) : \/ k \in 1..n
                                \/ /\ k = n + 1
                                   /\ \/ q[k] = CutHeader
                                      \/ x.cmd = "AddDevice" /\ q[k] = CutDevice(x.id)
    <2>. PICK a : a = SubSeq(stream[s], 1, n)
      OBVIOUS
    <2>1. a \in Seq(Packets) /\ Len(a) = n /\ \A k \in 1..n : a[k] = stream[s][k]
      <3>1. \A i \in 1..n : i \in 1..Len(stream[s])
        BY <1>6, StreamParts
      <3>. QED BY <1>6, <3>1, SubSeqProperties
    <2>2. CASE cut = <<>>
      <3>1. q = a
        BY <1>2, <2>1, <2>2, ConcatEmptySeq
      <3>. QED BY <2>1, <3>1
    <2>3. CASE cut # <<>>
      <3>. PICK y : cut = <<y>> /\ (y = CutHeader \/ (x.cmd = "AddDevice" /\ y = CutDevice(x.id)))
        BY <2>3
      <3>1. y \in Packets
        BY <1>6, PacketParts
      <3>2. cut \in Seq(Packets) /\ Len(cut) = 1 /\ cut[1] = y
        BY <3>1
      <3>3. q = a \o cut
        BY <1>2
      <3>4. Len(q) = n + 1 /\ (\A k \in 1..n : q[k] = a[k]) /\ q[n + 1] = y
        BY <1>6, <2>1, <3>2, <3>3, ConcatProperties
      <3>5. \A k \in 1..Len(q) : k \in 1..n \/ k = n + 1
        BY <1>6, <3>4
      <3>. QED BY <2>1, <3>4, <3>5
    <2>. QED BY <2>2, <2>3
  <1>8. ASSUME NEW i \in 1..(n + 1), NEW id, NEW d
        PROVE  /\ Knows(s, i, id, d) => Knows(s, i, id, d)'
               /\ Free(s, i, id) => Free(s, i, id)'
    <2>1. i \in Nat /\ Agree(stream[s], stream'[s], i)
      BY <1>6, <1>7 DEF Agree
    <2>. QED BY <1>1, <1>3, <2>1, KnowsKept
  <1>9. ASSUME NEW r \in Sessions
        PROVE  /\ \A i \in 1..Len(stream'[r]) : PacketMeant(r, i)'
               /\ BeliefMeant(r)'
    <2>1. BeliefMeant(r) /\ \A i \in 1..Len(stream[r]) : PacketMeant(r, i)
      BY DEF PacketsMeant, BeliefsMeant
    <2>2. CASE r # s
      <3>1. stream'[r] = stream[r] /\ known'[r] = known[r]
        BY <1>1, <1>2, <2>2
      <3>. QED BY <1>1, <1>3, <1>4, <1>5, <2>1, <3>1, SessionKept
    <2>3. CASE r = s
      <3>1. BeliefMeant(s)'
        BY <1>2 DEF BeliefMeant, Heard
      <3>2. ASSUME NEW i \in 1..Len(stream'[s]) PROVE PacketMeant(s, i)'
        <4>. PICK y : y = stream'[s][i]
          OBVIOUS
        <4>1. CASE i \in 1..n
          <5>1. i \in 1..(n + 1) /\ i \in 1..Len(stream[s]) /\ y = stream[s][i]
            <6>1. i \in 1..(n + 1) /\ i \in 1..Len(stream[s])
              BY <1>6, <4>1, StreamParts
            <6>. QED BY <1>7, <4>1, <6>1
          <5>2. Meant(s, i, y)
            BY <2>1, <2>3, <5>1 DEF PacketMeant
          <5>3. Meant(s, i, y)'
            BY <1>4, <1>8, <5>1, <5>2, MeantKept
          <5>. QED BY <5>3 DEF PacketMeant
        <4>2. CASE i = n + 1 /\ y = CutHeader
          BY <4>2, CutParts DEF PacketMeant, Meant
        <4>3. CASE i = n + 1 /\ x.cmd = "AddDevice" /\ y = CutDevice(x.id)
          <5>1. i \in 1..(n + 1) /\ i \in 1..Len(stream[s])
            BY <1>6, <4>3
          <5>2. IsFirst(s) => Free(s, i, x.id)
            BY <2>1, <2>3, <4>3, <5>1 DEF PacketMeant, Meant
          <5>3. IsFirst(s)' => Free(s, i, x.id)'
            BY <1>4, <1>8, <5>1, <5>2
          <5>4. y.cmd = "cut device" /\ y.id = x.id
            BY <4>3, CutParts
          <5>. QED BY <5>3, <5>4 DEF PacketMeant, Meant
        <4>. QED BY <1>7, <4>1, <4>2, <4>3
      <3>. QED BY <2>3, <3>1, <3>2
    <2>. QED BY <2>2, <2>3
  <1>. QED BY <1>9 DEF PacketsMeant, BeliefsMeant

(* A new session says Hello.  It believes nothing, or what the one before  *)
(* it has come to, which has been read to its end.                         *)
LEMMA connectMeans ==
    ASSUME TypeOK, Placed, PacketsMeant, BeliefsMeant, NEW s \in Sessions, connect(s)
    PROVE  PacketsMeant' /\ BeliefsMeant'
  <1>1. /\ state[s] = "new" /\ ~Over /\ state' = [state EXCEPT ![s] = "open"]
        /\ stream' = [stream EXCEPT ![s] = <<Hello>>] /\ backlog' = Append(backlog, s)
        /\ UNCHANGED <<infd, devices, skipped>>
    BY DEF connect, receiver
  <1>2. /\ \A r \in Sessions \ {s} : state'[r] = state[r] /\ stream'[r] = stream[r]
        /\ state'[s] = "open" /\ stream'[s] = <<Hello>>
    BY <1>1 DEF TypeOK
  <1>3. /\ backlog \in Seq(Sessions) /\ Len(backlog) \in Nat /\ Len(backlog') = Len(backlog) + 1
        /\ \A i \in 1..Len(backlog) : backlog'[i] = backlog[i]
        /\ backlog'[Len(backlog) + 1] = s
        /\ backlog # <<>> => Len(backlog) # 0
        /\ backlog' \in Seq(Sessions) /\ backlog' # <<>>
    <2>1. backlog \in Seq(Sessions)
      BY DEF TypeOK
    <2>2. /\ Append(backlog, s) \in Seq(Sessions)
          /\ Len(Append(backlog, s)) = Len(backlog) + 1
          /\ \A i \in 1..Len(backlog) : Append(backlog, s)[i] = backlog[i]
          /\ Append(backlog, s)[Len(backlog) + 1] = s
      BY <2>1, AppendProperties
    <2>3. Len(backlog) \in Nat /\ (backlog # <<>> => Len(backlog) # 0)
      BY <2>1
    <2>4. backlog' # <<>>
      BY <1>1, <2>2, <2>3
    <2>. QED BY <1>1, <2>1, <2>2, <2>3, <2>4
  <1>4. infd # s /\ ~Waits(s)
    BY <1>1, CreateAssumption DEF Placed, Waits
  <1>5. \A r \in Sessions : r # s => (Waits(r)' <=> Waits(r))
    <2>1. \A i \in 1..Len(backlog') : i \in 1..Len(backlog) \/ backlog'[i] = s
      BY <1>3
    <2>2. \A i \in 1..Len(backlog) : i \in 1..Len(backlog')
      BY <1>3
    <2>. QED BY <1>3, <2>1, <2>2 DEF Waits
  <1>6. \A r \in Sessions : r \in Bases => (r \in Bases)'
    <2>1. Drained => Drained'
      BY <1>1, <1>2, <1>4 DEF Drained, Placed
    <2>2. backlog # <<>> => backlog' # <<>> /\ Head(backlog') = Head(backlog)
      BY <1>3
    <2>. QED BY <1>1, <2>1, <2>2 DEF Bases
  <1>7. \A r \in Sessions : IsFirst(r)' => IsFirst(r)
    <2>1. \A r \in Sessions : Before(r) \subseteq Before(r)'
      <3>1. DOMAIN backlog = 1..Len(backlog) /\ DOMAIN backlog' = 1..Len(backlog')
        BY <1>3
      <3>2. \A t \in Sessions \ {s} : (\A i \in DOMAIN backlog : backlog[i] # t)
                                         => \A i \in DOMAIN backlog' : backlog'[i] # t
        BY <1>5, <3>1 DEF Waits
      <3>. QED BY <1>1, <1>2, <3>2 DEF Before
    <2>. QED BY <1>1, <2>1 DEF IsFirst
  <1>8. trusting \subseteq trusting'
    BY DEF connect
  <1>9. ASSUME NEW r \in Sessions \ {s}
        PROVE  /\ \A i \in 1..Len(stream'[r]) : PacketMeant(r, i)'
               /\ BeliefMeant(r)'
    <2>1. BeliefMeant(r) /\ \A i \in 1..Len(stream[r]) : PacketMeant(r, i)
      BY <1>1 DEF PacketsMeant, BeliefsMeant
    <2>2. known'[r] = known[r]
      BY DEF connect, TypeOK
    <2>3. (Heard(r)' => Heard(r)) /\ (state'[r] = "open" => state[r] = "open")
      BY <1>1, <1>2, <1>5 DEF Heard
    <2>. QED BY <1>1, <1>2, <1>6, <1>7, <1>8, <2>1, <2>2, <2>3, SessionKept
  <1>10. \A i \in 1..Len(stream'[s]) : PacketMeant(s, i)'
    <2>1. Len(stream'[s]) = 1 /\ stream'[s][1] = Hello
      BY <1>2
    <2>2. \A i \in 1..Len(stream'[s]) : stream'[s][i] = Hello
      BY <2>1
    <2>3. Hello.cmd = "Hello"
      BY DEF Hello
    <2>. QED BY <2>2, <2>3 DEF PacketMeant, Meant
  <1>11. \A id, d : Untouched(stream'[s], 2, id)
    <2>1. Len(<<Hello>>) = 1 /\ <<Hello>>[1] = Hello /\ \A id : ~Concerns(Hello, id)
      BY DEF Hello, Concerns
    <2>. QED BY <1>2, <2>1 DEF Untouched
  <1>12. Len(stream'[s]) + 1 = 2
    BY <1>2
  <1>13. IsFirst(s)' => DOMAIN devices = {}
    BY <1>1, <1>4 DEF IsFirst, Placed
  <1>14. \A id \in DOMAIN known'[s] : \A d : d = known'[s][id] => Knows(s, 2, id, d)'
    <2>1. CASE known' = known
      BY <1>1, <2>1 DEF Placed
    <2>2. CASE known' # known
      <3>1. /\ backlog = <<>> /\ infd # NoSession /\ stream[infd] = <<>>
            /\ state[infd] \in {"closed", "lost"}
            /\ known' = [known EXCEPT ![s] = known[infd]]
            /\ state[infd] = "lost" \/ infd \in trusting => s \in trusting'
        BY <2>2 DEF connect
      <3>2. infd \in Sessions /\ known'[s] = known[infd]
        BY <3>1 DEF TypeOK
      <3>3. (s \in Bases)'
        <4>1. backlog' = <<s>>
          BY <1>1, <3>1
        <4>2. Drained'
          BY <1>1, <1>2, <1>4, <3>1, <3>2 DEF Drained
        <4>3. Head(backlog') = s
          BY <4>1
        <4>. QED BY <1>3, <4>2, <4>3 DEF Bases
      <3>4. ASSUME NEW id \in DOMAIN known[infd], NEW d, d = known[infd][id]
            PROVE  Held(s, id, d)'
        <4>. SUFFICES ASSUME s \notin trusting' PROVE Held(s, id, d)'
          BY <1>1, <3>1 DEF Held, connect
        <4>1. state[infd] = "closed" /\ infd \notin trusting
          BY <3>1
        <4>2. Knows(infd, Len(stream[infd]) + 1, id, d)
          BY <1>1, <3>2, <3>4, <4>1 DEF BeliefsMeant, BeliefMeant, Heard
        <4>3. Len(stream[infd]) + 1 = 1
          BY <3>1
        <4>4. Held(infd, id, d)
          BY <4>2, <4>3, AtBeginning DEF Knows
        <4>. QED BY <1>1, <4>1, <4>4 DEF Held
      <3>. QED BY <1>11, <3>2, <3>3, <3>4 DEF Knows
    <2>. QED BY <2>1, <2>2
  <1>15. BeliefMeant(s)'
    <2>1. IsFirst(s)' => \A id \in Ids : Free(s, 2, id)'
      BY <1>1, <1>11, <1>13 DEF Free
    <2>. QED BY <1>12, <1>14, <2>1 DEF BeliefMeant
  <1>. QED BY <1>9, <1>10, <1>15 DEF PacketsMeant, BeliefsMeant

(* At the end of a stream nothing is left but what has come of it.         *)
LEMMA endOfFileMeans ==
    ASSUME TypeOK, Placed, PacketsMeant, BeliefsMeant, endOfFile
    PROVE  PacketsMeant' /\ BeliefsMeant'
  <1>1. infd \in Sessions /\ ~Over
    BY DEF endOfFile, TypeOK, Over
  <1>2. /\ stream' = [stream EXCEPT ![infd] = <<>>] /\ state[infd] \in {"closed", "lost"}
        /\ stream[infd] \in {<<>>, <<CutHeader>>}
        /\ UNCHANGED <<backlog, infd, devices, skipped, state, known, trusting>>
    BY DEF endOfFile, AtEOF, DevicesAfter, senders
  <1>3. stream'[infd] = <<>> /\ \A r \in Sessions \ {infd} : stream'[r] = stream[r]
    BY <1>1, <1>2 DEF TypeOK
  <1>4. \A r \in Sessions : r \in Bases => (r \in Bases)'
    BY <1>1, <1>2, <1>3 DEF Bases, Drained
  <1>5. \A r \in Sessions : (IsFirst(r)' <=> IsFirst(r)) /\ (Heard(r)' <=> Heard(r))
    BY <1>2 DEF IsFirst, Before, Heard, Waits
  <1>6. ASSUME NEW r \in Sessions
        PROVE  /\ \A i \in 1..Len(stream'[r]) : PacketMeant(r, i)'
               /\ BeliefMeant(r)'
    <2>1. BeliefMeant(r) /\ \A i \in 1..Len(stream[r]) : PacketMeant(r, i)
      BY <1>1 DEF PacketsMeant, BeliefsMeant
    <2>2. CASE r # infd
      <3>1. stream'[r] = stream[r]
        BY <1>3, <2>2
      <3>. QED BY <1>2, <1>4, <1>5, <2>1, <3>1, SessionKept
    <2>3. CASE r = infd
      <3>1. Len(stream'[r]) = 0
        BY <1>3, <2>3
      <3>2. \A i \in 1..Len(stream'[r]) : PacketMeant(r, i)'
        BY <3>1
      <3>. PICK q, t, m : q = stream[infd] /\ t = stream'[infd] /\ m = Len(q) + 1
        OBVIOUS
      <3>3. ASSUME NEW id, NEW d, Knows(infd, m, id, d) PROVE Knows(infd, 1, id, d)'
        <4>1. CASE q = <<>>
          <5>1. m = 1
            BY <4>1
          <5>2. Held(infd, id, d)
            BY <3>3, <5>1, AtBeginning DEF Knows
          <5>. QED BY <1>2, <5>2, AtBeginning DEF Knows, Bases, Held
        <4>2. CASE q = <<CutHeader>>
          <5>1. q[1] = CutHeader /\ Len(q) = 1 /\ m = 1 + 1
            BY <4>2
          <5>2. Shifted(q, t, 1)
            BY DEF Shifted
          <5>3. Announced(q, m, id, d) => Announced(t, 1, id, d) \/ q[1] = AddDevice(id, d)
            BY <5>1, <5>2, WithoutFirst
          <5>4. q[1] # AddDevice(id, d)
            <6>1. AddDevice(id, d).cmd = "AddDevice"
              BY DEF AddDevice
            <6>. QED BY <5>1, <6>1, CutParts
          <5>5. Held(infd, id, d)
            BY <3>3, <5>3, <5>4, AtBeginning DEF Knows
          <5>. QED BY <1>2, <5>5, AtBeginning DEF Knows, Bases, Held
        <4>. QED BY <1>2, <4>1, <4>2
      <3>4. BeliefMeant(r)'
        BY <1>2, <1>5, <2>1, <2>3, <3>1, <3>3 DEF BeliefMeant
      <3>. QED BY <3>2, <3>4
    <2>. QED BY <2>2, <2>3
  <1>. QED BY <1>6 DEF PacketsMeant, BeliefsMeant

(* The next session goes on from there.                                    *)
LEMMA acceptMeans ==
    ASSUME TypeOK, Placed, PacketsMeant, BeliefsMeant, acceptFirst \/ acceptNext
    PROVE  PacketsMeant' /\ BeliefsMeant'
  <1>1. /\ infd' = Head(backlog) /\ backlog' = Tail(backlog) /\ backlog # <<>>
        /\ pc \in {"listen", "accept"} /\ ~Over
        /\ UNCHANGED <<stream, devices, skipped, state, known, trusting>>
    BY DEF acceptFirst, acceptNext, Over, senders
  <1>2. backlog \in Seq(Sessions)
    BY DEF TypeOK
  <1>3. /\ infd' = backlog[1] /\ infd' \in Sessions /\ 1 \in 1..Len(backlog)
        /\ Len(backlog) \in Nat /\ Len(backlog') = Len(backlog) - 1
        /\ \A i \in 1..Len(backlog') : backlog'[i] = backlog[i + 1] /\ i + 1 \in 1..Len(backlog)
        /\ DOMAIN backlog' = 1..Len(backlog')
    BY <1>1, <1>2, HeadTailProperties
  <1>4. \A r \in Sessions : (r = infd' \/ Waits(r)') => Waits(r)
    BY <1>3 DEF Waits
  <1>5. ~Waits(infd) /\ infd # infd'
    BY <1>3 DEF Placed, Waits
  <1>6. infd # NoSession => Drained
    BY <1>1 DEF Placed
  <1>7. \A r \in Sessions : r # infd /\ r \in Bases => (r \in Bases)'
    BY <1>1 DEF Bases
  <1>8. \A r \in Sessions : IsFirst(r)' => IsFirst(r)
    <2>1. CASE infd = NoSession
      BY <2>1 DEF IsFirst
    <2>2. CASE infd # NoSession
      <3>1. infd \in Sessions /\ state[infd] # "new"
        BY <2>2 DEF Placed
      <3>2. \A i \in DOMAIN backlog' : backlog'[i] # infd
        BY <1>3, <1>5 DEF Waits
      <3>. PICK next, last : next = infd' /\ last = infd
        OBVIOUS
      <3>3. last \in Before(next)'
        BY <1>1, <1>5, <3>1, <3>2 DEF Before
      <3>4. infd' # NoSession
        BY <1>3, CreateAssumption
      <3>. QED BY <3>3, <3>4 DEF IsFirst
    <2>. QED BY <2>1, <2>2
  <1>9. ASSUME NEW r \in Sessions
        PROVE  /\ \A i \in 1..Len(stream'[r]) : PacketMeant(r, i)'
               /\ BeliefMeant(r)'
    <2>1. BeliefMeant(r) /\ \A i \in 1..Len(stream[r]) : PacketMeant(r, i)
      BY <1>1 DEF PacketsMeant, BeliefsMeant
    <2>2. CASE r # infd
      <3>1. (Heard(r)' => Heard(r)) /\ (state'[r] = "open" => state[r] = "open")
        BY <1>1, <1>4 DEF Heard
      <3>. QED BY <1>1, <1>7, <1>8, <2>1, <2>2, <3>1, SessionKept
    <2>3. CASE r = infd
      <3>1. Drained
        BY <1>6, <2>3, CreateAssumption
      <3>2. Len(stream'[r]) = 0 /\ state'[r] \in {"closed", "lost"}
        BY <1>1, <2>3, <3>1 DEF Drained
      <3>3. r # infd' /\ ~Waits(r)'
        BY <1>4, <1>5, <2>3
      <3>. QED BY <3>2, <3>3 DEF BeliefMeant, Heard
    <2>. QED BY <2>2, <2>3
  <1>. QED BY <1>9 DEF PacketsMeant, BeliefsMeant

(* The receiver does as it reads.                                          *)
LEMMA receiveMeans ==
    ASSUME TypeOK, Placed, PacketsMeant, BeliefsMeant, Receive
    PROVE  PacketsMeant' /\ BeliefsMeant'
  <1>1. ASSUME pc \in {"hello", "packets"}, stream[infd] # <<>>, NEW p, p = Packet
        PROVE  /\ infd \in Sessions /\ p \in Packets
               /\ p.cmd = "AddDevice" =>
                     p.id \in Ids /\ p.dev \in Devices /\ p = AddDevice(p.id, p.dev)
               /\ p.cmd = "RemoveDevice" => p.id \in Ids /\ p = RemoveDevice(p.id)
    <2>1. infd \in Sessions
      BY <1>1 DEF TypeOK
    <2>2. p \in Packets
      BY <1>1, <2>1, StreamParts DEF Packet
    <2>. QED BY <2>1, <2>2, PacketParts
  <1>2. ASSUME NEW id, NEW d, NEW p
        PROVE  /\ p = AddDevice(id, d) => p.cmd = "AddDevice" /\ p.id = id /\ p.dev = d
               /\ p = RemoveDevice(id) => p.cmd = "RemoveDevice" /\ p.id = id
    BY DEF AddDevice, RemoveDevice
  <1>3. ASSUME readHello \/ checkHello \/ writeEvent, ~Over' PROVE PacketsMeant' /\ BeliefsMeant'
    <2>1. /\ pc \in {"hello", "packets"} /\ stream[infd] # <<>> /\ Read
          /\ Packet.cmd \in {"Hello", "DeviceEvent"}
          /\ UNCHANGED <<backlog, infd, senders, devices, skipped>>
      <3>1. Hello.cmd = "Hello"
        BY DEF Hello
      <3>2. CASE readHello
        BY <1>3, <3>1, <3>2 DEF readHello, AtPacket, Fail, Over
      <3>3. CASE checkHello \/ writeEvent
        BY <3>1, <3>3 DEF checkHello, writeEvent, AtPacket, receiver
      <3>. QED BY <1>3, <3>2, <3>3
    <2>. PICK p : p = Packet
      OBVIOUS
    <2>2. p \in Packets
      BY <1>1, <2>1
    <2>3. \A id \in Ids : /\ ~Concerns(p, id) /\ p # RemoveDevice(id)
                          /\ \A d \in Devices : p # AddDevice(id, d)
      BY <1>2, <2>1 DEF Concerns
    <2>. QED BY <2>1, <2>2, <2>3, ReadMeans DEF Packet
  <1>4. ASSUME addDevice \/ skipDevice PROVE PacketsMeant' /\ BeliefsMeant'
    <2>1. /\ pc = "packets" /\ stream[infd] # <<>> /\ Read /\ Packet.cmd = "AddDevice"
          /\ UNCHANGED <<backlog, infd, senders>>
      BY <1>4 DEF addDevice, skipDevice, AtPacket
    <2>. PICK p : p = Packet
      OBVIOUS
    <2>2. p \in Packets /\ p.cmd = "AddDevice"
      BY <1>1, <2>1
    <2>3. \/ devices' = Put(devices, p.id, p.dev) /\ skipped' = skipped \ {p.id}
          \/ /\ devices' = devices /\ p.id \in DOMAIN devices
             /\ devices[p.id] # p.dev => skipped' = skipped \cup {p.id}
             /\ skipped' \in {skipped \ {p.id}, skipped \cup {p.id}}
      BY <1>4 DEF addDevice, skipDevice, Created
    <2>4. /\ p.id \in DOMAIN devices' /\ (p.id \in skipped' \/ devices'[p.id] = p.dev)
          /\ \A id : id # p.id => /\ id \in DOMAIN devices' <=> id \in DOMAIN devices
                                  /\ id \in DOMAIN devices => devices'[id] = devices[id]
                                  /\ id \in skipped' <=> id \in skipped
      BY <2>3 DEF Put
    <2>5. \A id \in Ids : /\ ~Concerns(p, id) => id # p.id
                          /\ p # RemoveDevice(id)
                          /\ \A d \in Devices : p = AddDevice(id, d) => id = p.id /\ d = p.dev
      BY <1>2, <2>2 DEF Concerns
    <2>. QED BY <2>1, <2>2, <2>4, <2>5, ReadMeans DEF Packet
  <1>5. ASSUME removeDevice PROVE PacketsMeant' /\ BeliefsMeant'
    <2>1. /\ pc = "packets" /\ stream[infd] # <<>> /\ Read /\ Packet.cmd = "RemoveDevice"
          /\ UNCHANGED <<backlog, infd, senders>>
      BY <1>5 DEF removeDevice, AtPacket
    <2>. PICK p : p = Packet
      OBVIOUS
    <2>2. p \in Packets /\ p.cmd = "RemoveDevice"
      BY <1>1, <2>1
    <2>3. devices' = Without(devices, p.id) /\ skipped' = skipped \ {p.id}
      BY <1>5 DEF removeDevice, Erased
    <2>4. /\ p.id \notin DOMAIN devices'
          /\ \A id : id # p.id => /\ id \in DOMAIN devices' <=> id \in DOMAIN devices
                                  /\ id \in DOMAIN devices => devices'[id] = devices[id]
                                  /\ id \in skipped' <=> id \in skipped
      BY <2>3 DEF Without, Restrict
    <2>5. \A id \in Ids : /\ ~Concerns(p, id) => id # p.id
                          /\ p = RemoveDevice(id) => id = p.id
                          /\ \A d \in Devices : p # AddDevice(id, d)
      BY <1>2, <2>2 DEF Concerns
    <2>. QED BY <2>1, <2>2, <2>4, <2>5, ReadMeans DEF Packet
  <1>6. ASSUME rejectDevice \/ missingDevice \/ cutDevice \/ Over'
        PROVE  PacketsMeant' /\ BeliefsMeant'
    <2>1. Over'
      BY <1>6 DEF rejectDevice, missingDevice, cutDevice, Fail, Over
    <2>. QED BY <2>1 DEF PacketsMeant, BeliefsMeant
  <1>. QED BY <1>3, <1>4, <1>5, <1>6, endOfFileMeans, acceptMeans DEF Receive

(* No step makes a packet or a belief meaningless.                         *)
LEMMA MeaningKept ==
    ASSUME TypeOK, Placed, PacketsMeant, BeliefsMeant, Next
    PROVE  PacketsMeant' /\ BeliefsMeant'
  BY announceMeans, retractMeans, forwardMeans, closeMeans, loseMeans, connectMeans, receiveMeans
     DEF Next, Send

-----------------------------------------------------------------------------
(* What the receiver makes of it.                                          *)

(* It has read what was said before the packet it reads.                   *)
LEMMA PacketRead ==
    ASSUME TypeOK, Placed, PacketsMeant, AtPacket("packets"), NEW p, p = Packet
    PROVE  /\ infd \in Sessions
           /\ p.cmd = "DeviceEvent" => Held(infd, p.id, p.dev)
           /\ p.cmd = "RemoveDevice" => \E d \in Devices : Held(infd, p.id, d)
           /\ p.cmd \in {"AddDevice", "cut device"} /\ IsFirst(infd) => p.id \notin DOMAIN devices
  <1>1. infd \in Sessions /\ stream[infd] # <<>> /\ ~Over
    BY DEF AtPacket, TypeOK, Over
  <1>2. p = stream[infd][1] /\ 1 \in 1..Len(stream[infd])
    BY <1>1, StreamParts DEF Packet
  <1>3. Meant(infd, 1, p)
    BY <1>1, <1>2 DEF PacketsMeant, PacketMeant
  <1>4. \A id, d : Knows(infd, 1, id, d) => Held(infd, id, d)
    BY AtBeginning DEF Knows
  <1>5. \A id : Free(infd, 1, id) => id \notin DOMAIN devices
    BY AtBeginning DEF Free
  <1>6. ASSUME p.cmd = "RemoveDevice" PROVE \E d \in Devices : Held(infd, p.id, d)
    BY <1>3, <1>4, <1>6 DEF Meant
  <1>. QED BY <1>1, <1>3, <1>4, <1>5, <1>6 DEF Meant

(* An event that is written was meant for the device, or excused.          *)
LEMMA EventsKept ==
    ASSUME TypeOK, Placed, PacketsMeant, EventsReachTheirDevice, Next
    PROVE  EventsReachTheirDevice'
  <1>1. CASE writeEvent
    <2>. PICK p : p = Packet
      OBVIOUS
    <2>1. /\ AtPacket("packets") /\ p.cmd = "DeviceEvent"
          /\ misdelivered' = misdelivered \cup
               (IF devices[p.id] = p.dev \/ p.id \in skipped \/ infd \in trusting THEN {} ELSE {p})
      BY <1>1 DEF writeEvent
    <2>2. Held(infd, p.id, p.dev)
      BY <2>1, PacketRead
    <2>. QED BY <2>1, <2>2 DEF Held, EventsReachTheirDevice
  <1>2. CASE ~writeEvent
    <2>1. Send => misdelivered' = misdelivered
      BY DEF Send, connect, close, lose, retract, forward, announce, send, receiver
    <2>2. Receive => misdelivered' = misdelivered
      BY <1>2 DEF Receive, acceptFirst, readHello, checkHello, addDevice, skipDevice, rejectDevice,
                  receiver, removeDevice, missingDevice, cutDevice, endOfFile, acceptNext
    <2>. QED BY <2>1, <2>2 DEF Next, EventsReachTheirDevice
  <1>. QED BY <1>1, <1>2

(* A refusal has one of the two reasons.                                   *)
LEMMA UnderstoodKept ==
    ASSUME TypeOK, Placed, PacketsMeant, SendersUnderstood, Next
    PROVE  SendersUnderstood'
  <1>1. ASSUME Send PROVE SendersUnderstood'
    <2>. PICK s \in Sessions : \/ connect(s) \/ close(s) \/ lose(s)
                               \/ \E id \in Ids : \/ retract(s, id) \/ forward(s, id)
                                                  \/ \E d \in Devices : announce(s, id, d)
      BY <1>1 DEF Send
    <2>1. failure' = failure /\ infd' = infd /\ trusting \subseteq trusting'
      BY DEF connect, close, lose, retract, forward, announce, send, receiver
    <2>2. CASE connect(s)
      <3>1. failure = "none"
        BY <2>2 DEF connect, Over, Placed
      <3>. QED BY <2>1, <3>1 DEF SendersUnderstood
    <2>3. CASE ~connect(s)
      <3>1. /\ backlog' = backlog
            /\ state' = state \/ (state[s] = "open" /\ \E new \in {"closed", "lost"} :
                                                          state' = [state EXCEPT ![s] = new])
        BY <2>3 DEF close, lose, retract, forward, announce, send
      <3>2. \A r \in Sessions : state[r] # "new" => state'[r] # "new"
        BY <3>1 DEF TypeOK
      <3>. PICK r : r = infd
        OBVIOUS
      <3>3. Before(r) \subseteq Before(r)'
        BY <3>1, <3>2 DEF Before
      <3>. QED BY <2>1, <3>3 DEF SendersUnderstood
    <2>. QED BY <2>2, <2>3
  <1>2. ASSUME rejectDevice PROVE SendersUnderstood'
    <2>. PICK p, r : p = Packet /\ r = infd
      OBVIOUS
    <2>1. /\ AtPacket("packets") /\ p.cmd \in {"AddDevice", "cut device"} /\ p.id \in DOMAIN devices
          /\ failure' = "duplicate device" /\ UNCHANGED <<infd, backlog, state>>
      BY <1>2 DEF rejectDevice, Rejects, Fail, senders
    <2>2. Before(r) # {}
      BY <2>1, PacketRead DEF IsFirst
    <2>3. Before(r)' = Before(r)
      BY <2>1 DEF Before
    <2>. QED BY <2>1, <2>2, <2>3 DEF SendersUnderstood
  <1>3. ASSUME missingDevice PROVE SendersUnderstood'
    <2>. PICK p : p = Packet
      OBVIOUS
    <2>1. /\ AtPacket("packets") /\ p.cmd \in {"RemoveDevice", "DeviceEvent"}
          /\ p.id \notin DOMAIN devices
          /\ failure' = "missing device" /\ UNCHANGED <<infd, trusting>>
      BY <1>3 DEF missingDevice, Fail, senders
    <2>2. infd \in trusting
      BY <2>1, PacketRead DEF Held
    <2>. QED BY <2>1, <2>2 DEF SendersUnderstood
  <1>4. ASSUME Receive, ~rejectDevice, ~missingDevice PROVE SendersUnderstood'
    <2>1. pc # "failed" /\ failure' \in {failure, "end of file"}
      BY <1>4 DEF Receive, acceptFirst, readHello, checkHello, addDevice, skipDevice, removeDevice,
                  writeEvent, cutDevice, endOfFile, acceptNext, AtPacket, Fail, receiver
    <2>2. failure = "none"
      BY <2>1 DEF Placed
    <2>. QED BY <2>1, <2>2 DEF SendersUnderstood
  <1>. QED BY <1>1, <1>2, <1>3, <1>4 DEF Next

-----------------------------------------------------------------------------
(* The theorems.                                                           *)

(* The inductive invariant holds at first, ...                             *)
LEMMA InitIInv == Init => IInv
  <1>. SUFFICES ASSUME Init PROVE IInv
    OBVIOUS
  <1>1. /\ \A s \in Sessions : Len(stream[s]) = 0 /\ state[s] = "new"
        /\ misdelivered = {} /\ failure = "none"
    BY DEF Init
  <1>2. PacketsMeant /\ BeliefsMeant
    BY <1>1 DEF PacketsMeant, BeliefsMeant, BeliefMeant, Heard
  <1>. QED BY <1>1, <1>2, InitTyped, PlacedInit DEF IInv, EventsReachTheirDevice, SendersUnderstood

(* ... every step keeps it, ...                                            *)
LEMMA NextIInv == IInv /\ [Next]_vars => IInv'
  <1>. SUFFICES ASSUME IInv, [Next]_vars PROVE IInv'
    OBVIOUS
  <1>1. /\ TypeOK /\ Placed /\ PacketsMeant /\ BeliefsMeant
        /\ EventsReachTheirDevice /\ SendersUnderstood
    BY DEF IInv
  <1>2. CASE Next
    <2>1. TypeOK'
      BY <1>1, <1>2, SendTyped, ConnectionTyped, ReceiveTyped DEF Next, Send
    <2>. QED BY <1>1, <1>2, <2>1, PlacedKept, MeaningKept, EventsKept, UnderstoodKept DEF IInv
  <1>3. CASE UNCHANGED vars
    <2>1. UNCHANGED <<optDuplicates, optOnClose, pc, failure, serversock, infd, devices, skipped,
                      misdelivered, backlog, stream, state, known, trusting, sent>>
      BY <1>3 DEF vars, options, receiver, senders
    <2>2. TypeOK'
      BY <1>1, <2>1 DEF TypeOK
    <2>3. Placed'
      BY <1>1, <2>1 DEF Placed, Drained
    <2>4. \A s \in Sessions : /\ s \in Bases => (s \in Bases)'
                              /\ IsFirst(s)' => IsFirst(s)
                              /\ Heard(s)' => Heard(s)
      BY <2>1 DEF Bases, Drained, IsFirst, Before, Heard, Waits
    <2>5. PacketsMeant' /\ BeliefsMeant'
      BY <1>1, <2>1, <2>4, SessionKept DEF PacketsMeant, BeliefsMeant, Over
    <2>6. EventsReachTheirDevice' /\ SendersUnderstood'
      BY <1>1, <2>1 DEF EventsReachTheirDevice, SendersUnderstood, Before
    <2>. QED BY <2>2, <2>3, <2>5, <2>6 DEF IInv
  <1>. QED BY <1>2, <1>3

(* ... and it always holds.                                                *)
LEMMA IInvHolds == Spec => []IInv
  BY InitIInv, NextIInv, PTL DEF Spec

(* Every variable of the receiver and its senders keeps its type.          *)
THEOREM CreateTyped == Spec => []TypeOK
  <1>1. IInv => TypeOK
    BY DEF IInv
  <1>. QED BY <1>1, IInvHolds, PTL

(* An event is written to the uinput device of the device it came from,    *)
(* however clients follow one another and wherever a connection is lost;   *)
(* only a skipped description or a session that resumes a lost one may     *)
(* have it otherwise.                                                      *)
THEOREM EventsArrive == Spec => []EventsReachTheirDevice
  <1>1. IInv => EventsReachTheirDevice
    BY DEF IInv
  <1>. QED BY <1>1, IInvHolds, PTL

(* The receiver refuses a sender that keeps the protocol only for an id    *)
(* left by an earlier client, and misses a device only if the session      *)
(* resumed one whose packets were lost.                                    *)
THEOREM SendersServed == Spec => []SendersUnderstood
  <1>1. IInv => SendersUnderstood
    BY DEF IInv
  <1>. QED BY <1>1, IInvHolds, PTL

=============================================================================
