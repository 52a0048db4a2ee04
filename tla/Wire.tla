-------------------------------- MODULE Wire --------------------------------
(***************************************************************************)
(* A device description on its way, field by field: AddDevice as           *)
(* InDevice::writeNE2AddDevice writes it and OutDevice::newFromNE2Add-     *)
(* Command reads it (or skips it), and the header of netevent 1 between    *)
(* writeNeteventHeader and newFromNeteventStream; with the bit fields of   *)
(* bitfield.h, whose sizes decide where the next field begins.             *)
(*                                                                         *)
(* Nothing in the stream marks a field: the reader goes by the bits and    *)
(* counts it has read itself, the writer by what it knows of the device,   *)
(* and both must come to the same lengths.  The two sides are therefore    *)
(* written down from the two pieces of code separately.                    *)
(*                                                                         *)
(* Abstractions: a field has its length in bytes and, where anything       *)
(* depends on it, its value; byte order and the values of axes and names   *)
(* are left out; name and id, always read together, are one field.  A      *)
(* field read as another one ends the model (`misread'): what the program  *)
(* makes of it depends on the bytes.  Numbers are those of                 *)
(* linux/input-event-codes.h.                                              *)
(***************************************************************************)
EXTENDS Integers, Filters, SequencesExt

CONSTANTS
    Devices,   \* [codes |-> event type -> its codes, terminated |-> BOOLEAN]:
               \* whether the name is shorter than the 80 bytes there are for it
    LongBits   \* LONG_BITS of the machines that send

TypeOrder == <<"SYN", "KEY", "REL", "ABS", "MSC", "SW", "LED", "SND", "REP", "FF">>
Types     == Range(TypeOrder)
EV_MAX    == 31
MaxCode   == [KEY |-> 767, REL |-> 15, ABS |-> 63, MSC |-> 7, SW |-> 16, LED |-> 15,
              SND |-> 7, FF |-> 127]
HasUISetBitIOC == DOMAIN MaxCode       \* kUISetBitIOC

ASSUME WireAssumption ==
    /\ LongBits \subseteq {32, 64}
    /\ \A d \in Devices :
        /\ d.terminated \in BOOLEAN
        /\ DOMAIN d.codes \subseteq Types
        /\ \A t \in DOMAIN d.codes :
             d.codes[t] \subseteq IF t \in HasUISetBitIOC THEN 0..MaxCode[t] ELSE {}

-----------------------------------------------------------------------------
(* Bits.                                                                   *)

byte_size(n)       == (n + 7) \div 8
resizeNE1Compat(n) == 8 * (1 + n \div 8)

(* The bits that remain when their number is reduced to max.               *)
shrinkToInclusive(codes, max) == codes \cap 0..max
shrinkTo(codes, max) == codes \cap 0..(max - 1)

(* kBitLength: whole longs of the sending machine (mutant: the longs that  *)
(* are filled).                                                            *)
BitLengthFilled(t, longbits) == ((MaxCode[t] + 1) \div longbits) * longbits
BitLength(t, longbits) == ((MaxCode[t] + longbits) \div longbits) * longbits

-----------------------------------------------------------------------------
(* Fields, in the order in which they are written.                         *)

Field(what, of, size, value) == [what |-> what, of |-> of, size |-> size, value |-> value]
Plain(what, size) == Field(what, "", size, {})

Axes == [i \in 1..(MaxCode["ABS"] + 1) |-> i - 1]

(* What a loop over s does once, or twice, for each element.               *)
ForEach(s, Op(_)) == [i \in 1..Len(s) |-> Op(s[i])]
InPairs(s, A(_), B(_)) ==
    [i \in 1..(2 * Len(s)) |-> IF i % 2 = 1 THEN A(s[(i + 1) \div 2]) ELSE B(s[i \div 2])]

WithBits(types) == Filter(TypeOrder, types \cap HasUISetBitIOC)

AxesOf(d) == IF "ABS" \in DOMAIN d.codes THEN d.codes["ABS"] ELSE {}

NE2Head(d) ==
    <<Plain("packet", 28), Field("name", "", 80 + 8, d.terminated),
      Field("evbitsize", "", 2, EV_MAX), Field("evbits", "", byte_size(EV_MAX), DOMAIN d.codes)>>

CountField(t, longbits) == Field("count", t, 2, BitLength(t, longbits))
BitsField(d, t, longbits) ==
    LET n == BitLength(t, longbits)
    IN  Field("bits", t, byte_size(n), d.codes[t] \cap 0..(n - 1))
AxisField(c) == Field("axis", c, 24, {})

(* writeNE2AddDevice, and the event that follows.                          *)
NE2Writes(d, longbits) ==
    LET bitCount(t) == CountField(t, longbits)
        bits(t)     == BitsField(d, t, longbits)
    IN  NE2Head(d)
        \o InPairs(WithBits(DOMAIN d.codes), bitCount, bits)
        \o ForEach(Filter(Axes, AxesOf(d)), AxisField)
        \o <<Plain("state", byte_size(EV_MAX)), Plain("packet", 28)>>

(* writeNeteventHeader.                                                    *)
EntryOrder == <<"KEY", "ABS", "REL", "MSC", "SW", "LED">>
StateOrder == <<"KEY", "LED", "SW">>
NE1Axes(types) == IF "ABS" \in types THEN SubSeq(Axes, 1, MaxCode["ABS"]) ELSE <<>>

NE1Size(t) == byte_size(resizeNE1Compat(MaxCode[t]))

NE1Head(d) ==
    <<Plain("size", 2), Field("name", "", 80 + 8, d.terminated),
      Field("evbits", "", byte_size(EV_MAX), DOMAIN d.codes)>>

NE1Writes(d) ==
    LET bits(t)  == Field("bits", t, NE1Size(t), d.codes[t])
        state(t) == Field("statebits", t, NE1Size(t), {})
    IN  NE1Head(d)
        \o ForEach(Filter(EntryOrder, DOMAIN d.codes), bits)
        \o ForEach(Filter(StateOrder, DOMAIN d.codes), state)
        \o ForEach(NE1Axes(DOMAIN d.codes), AxisField)
        \o <<Plain("packet", 24)>>

-----------------------------------------------------------------------------
VARIABLES
    protocol,  \* "NE2" or "NE1"
    skip,      \* --duplicates=resume has the device already
    device,    \* the one that is sent
    writes,    \* what is still to be written
    stream,    \* fields written and not read
    closed,    \* nothing more is written
    lost,      \* history: the connection broke, or the device vanished half way
    pc,        \* the reader: "reading", "failed" (an exception) or "ended"
    wanted,    \* the fields the reader goes on to read, as far as it knows
    count,     \* the bit count it has read
    made,      \* the device it makes: event types, codes and axes set up
    created,   \* UI_DEV_CREATE
    misread    \* history: a field was read as another one

input  == <<protocol, skip, device>>
sender == <<writes, closed, lost>>
reader == <<pc, wanted, count, made, created, misread>>
vars   == <<input, sender, stream, reader>>

Want(what, of) == [what |-> what, of |-> of]
Nobody == [types |-> {}, codes |-> [t \in HasUISetBitIOC |-> {}], axes |-> {}]

FieldSizes == 1..8192      \* bytes for the bits of the highest count
Counts     == 0..65535     \* of 16 bits

TypeOK ==
    /\ protocol \in {"NE1", "NE2"} /\ skip \in BOOLEAN /\ device \in Devices
    /\ closed \in BOOLEAN /\ lost \in BOOLEAN
    /\ \A i \in DOMAIN stream : stream[i].size \in FieldSizes
    /\ pc \in {"reading", "failed", "ended"}
    /\ count \in Counts
    /\ made.types \subseteq Types \ {"FF"} /\ made.axes \subseteq 0..63
    /\ \A t \in HasUISetBitIOC : made.codes[t] \subseteq 0..MaxCode[t]
    /\ created \in BOOLEAN /\ misread \in BOOLEAN

Init ==
    /\ protocol \in {"NE2", "NE1"} /\ device \in Devices
    /\ skip \in IF protocol = "NE2" THEN BOOLEAN ELSE {FALSE}
    /\ \E longbits \in LongBits :
         writes = IF protocol = "NE2" THEN NE2Writes(device, longbits) ELSE NE1Writes(device)
    /\ stream = <<>> /\ closed = FALSE /\ lost = FALSE
    /\ pc = "reading" /\ count = 0 /\ made = Nobody /\ created = FALSE /\ misread = FALSE
    /\ wanted = IF protocol = "NE2"
         THEN <<Want("packet", ""), Want("name", ""),
                Want("evbitsize", ""), Want("evbits", "")>>
         ELSE <<Want("size", ""), Want("name", ""), Want("evbits", "")>>

(* The next field is written, after the ioctl that asks the device for it; *)
(* where one writev takes several, this is how far it has come.            *)
Write ==
    /\ ~closed /\ writes # <<>>
    /\ stream' = Append(stream, Head(writes))
    /\ writes' = Tail(writes)
    /\ UNCHANGED <<input, closed, lost, reader>>

(* The sender ends; or the ioctl fails because the device is gone, and the *)
(* output is dropped; or the connection breaks with fields on their way.   *)
Close ==
    /\ ~closed /\ writes = <<>>
    /\ closed' = TRUE
    /\ UNCHANGED <<input, writes, stream, lost, reader>>

Lose ==
    /\ ~closed
    /\ closed' = TRUE /\ lost' = TRUE
    /\ \E n \in 0..Len(stream) : stream' = SubSeq(stream, 1, n)
    /\ UNCHANGED <<input, writes, reader>>

-----------------------------------------------------------------------------
(* The reader: newFromNE2AddCommand and newFromNeteventStream.             *)

(* NE2: the bits that were counted; netevent 1: 1 + max/8 bytes (mutant:   *)
(* the bytes that max bits take).                                          *)
SizeCounted == byte_size(count)
SizeByMaxExact(t) == byte_size(MaxCode[t])
SizeByMax(t) == byte_size(resizeNE1Compat(MaxCode[t]))

WantedSize(want) ==
    CASE want.what = "packet"    -> IF protocol = "NE2" THEN 28 ELSE 24
      [] want.what = "name"      -> 80 + 8
      [] want.what \in {"size", "evbitsize", "count"} -> 2
      [] want.what = "evbits"    -> IF protocol = "NE2" THEN byte_size(EV_MAX)
                                    ELSE byte_size(resizeNE1Compat(EV_MAX))
      [] want.what = "bits"      -> IF protocol = "NE2" THEN SizeCounted
                                    ELSE SizeByMax(want.of)
      [] want.what = "statebits" -> SizeByMax(want.of)
      [] want.what = "axis"      -> 24
      [] want.what = "state"     -> byte_size(EV_MAX)

(* What it goes on to read once it has the event types; the axes of NE2    *)
(* come from the bits of ABS.                                              *)
AfterEvbitsNE2(types) ==
    LET bitCount(t) == Want("count", t)
        bits(t)     == Want("bits", t)
    IN  InPairs(WithBits(types), bitCount, bits) \o <<Want("state", "")>>

AfterEvbitsNE1(types) ==
    LET bits(t)  == Want("bits", t)
        state(t) == Want("statebits", t)
        axis(c)  == Want("axis", c)
    IN  ForEach(Filter(EntryOrder, types), bits)
        \o ForEach(Filter(StateOrder, types), state)
        \o ForEach(NE1Axes(types), axis)

AxesWanted(codes) ==
    LET axis(c) == Want("axis", c) IN ForEach(Filter(Axes, codes), axis)
AxesUnlessSkipped(codes) == IF skip THEN <<>> ELSE AxesWanted(codes)
AxesRead(codes) == AxesWanted(codes)

Remaining(want, value) ==
    CASE want.what = "evbits" /\ protocol = "NE2" -> AfterEvbitsNE2(value)
      [] want.what = "evbits" /\ protocol = "NE1" -> AfterEvbitsNE1(value)
      [] want.what = "bits" /\ want.of = "ABS" /\ protocol = "NE2" ->
           SubSeq(wanted, 2, Len(wanted) - 1) \o AxesRead(value) \o <<Last(wanted)>>
      [] OTHER -> Tail(wanted)

(* setEventBit, setGenericBit and setupAbsoluteAxis; the last code of a    *)
(* netevent 1 field is dropped.                                            *)
Codes(want, value) == IF protocol = "NE2" THEN value ELSE shrinkTo(value, MaxCode[want.of])

(* Force feedback is not supported.                                        *)
EventTypesAll(types) == types
EventTypes(types) == types \ {"FF"}

Made(want, value) ==
    CASE want.what = "evbits" -> [made EXCEPT !.types = EventTypes(value)]
      [] want.what = "bits"   -> [made EXCEPT !.codes[want.of] = Codes(want, value)]
      [] want.what = "axis" /\ want.of \in made.codes["ABS"] ->
           [made EXCEPT !.axes = @ \cup {want.of}]
      [] OTHER -> made

(* mustRead of a whole field.                                              *)
Read ==
    /\ pc = "reading" /\ wanted # <<>> /\ stream # <<>>
    /\ LET want == Head(wanted)
           got  == Head(stream)
           fits == /\ got.what = want.what /\ got.of = want.of
                   /\ got.size = WantedSize(want)
           bad  == want.what = "name" /\ ~got.value /\ ~skip
       IN  IF ~fits
           THEN /\ misread' = TRUE /\ pc' = "failed"
                /\ UNCHANGED <<stream, wanted, count, made>>
           ELSE /\ stream' = Tail(stream)
                /\ pc' = IF bad THEN "failed" ELSE "reading"
                /\ count' = IF want.what = "count" THEN got.value ELSE count
                /\ made' = IF skip THEN made ELSE Made(want, got.value)
                /\ wanted' = Remaining(want, got.value)
                /\ UNCHANGED misread
    /\ UNCHANGED <<input, sender, created>>

(* All fields read: the device is created, and a packet is next.           *)
NextPacket ==
    /\ pc = "reading" /\ wanted = <<>>
    /\ created' = ~skip
    /\ wanted' = <<Want("packet", "")>>
    /\ UNCHANGED <<input, sender, stream, pc, count, made, misread>>

(* The end of the data: ordinary where a packet begins, else an exception. *)
EndOfFile ==
    /\ pc = "reading" /\ wanted # <<>> /\ stream = <<>> /\ closed
    /\ pc' = IF Head(wanted).what = "packet" THEN "ended" ELSE "failed"
    /\ UNCHANGED <<input, sender, stream, wanted, count, made, created, misread>>

Next == Write \/ Close \/ Lose \/ Read \/ NextPacket \/ EndOfFile

Spec == Init /\ [][Next]_vars

(* The sender goes on writing and the reader reading.                      *)
FairSpec == Spec /\ WF_vars(Write \/ Close) /\ WF_vars(Read \/ NextPacket \/ EndOfFile)

-----------------------------------------------------------------------------
(* Every field is read as the field it was written as: the lengths that    *)
(* the reader derives from what it has read (bits counted in the longs of  *)
(* the sender, one entry for each type that has codes, one axis for each   *)
(* code of ABS, 1 + max/8 bytes in netevent 1) are those of the writer.    *)
InStep == ~misread

(* A created device has the event types of the original but force          *)
(* feedback, and with NE2 every code of every type, whatever the size of   *)
(* a long at either end; with netevent 1 the codes of the types it knows   *)
(* but the last.  The range of each of its absolute axes is set up, none   *)
(* left at zero.  No device is created from part of a description.         *)
Expected(t) ==
    IF t \notin DOMAIN device.codes THEN {}
    ELSE IF protocol = "NE2" THEN device.codes[t]
    ELSE IF t \in Range(EntryOrder) THEN device.codes[t] \ {MaxCode[t]}
    ELSE {}

MadeAsDescribed ==
    created => /\ made.types = DOMAIN device.codes \ {"FF"}
               /\ \A t \in HasUISetBitIOC : made.codes[t] = Expected(t)
               /\ made.axes = made.codes["ABS"]

(* Unless the connection breaks, the reader takes in the whole             *)
(* description, also the one it only skips, and then ends where the data   *)
(* ends; a name that fills all its 80 bytes is refused with an error, and  *)
(* a broken connection never leaves it waiting.                            *)
Acceptable == device.terminated \/ skip
WholeArrives ==
    /\ <>(pc # "reading")
    /\ Acceptable => <>(lost \/ (pc = "ended" /\ created = ~skip))
=============================================================================
